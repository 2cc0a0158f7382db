-------------------------- MODULE EntityCacheProofs --------------------------
(***************************************************************************)
(* Proofs about EntityCache, for any number of objects, names, requests,   *)
(* operators and operations: a stale entry has one of the known causes.    *)
(***************************************************************************)
EXTENDS EntityCache, TLAPS

-----------------------------------------------------------------------------
(* Keys and rows.                                                          *)

\* Which causes may leave the entry of a key behind, by the kind of the key.
LEMMA KnownOf ==
  /\ \A c \in Key : {"overtaken", "not deleted"} \subseteq KnownLeaks(c)
  /\ \A c \in Object : RowLeaks(c) \subseteq KnownLeaks(c)
  /\ \A c \in ResourceName :
       {"update resource by an old name", "delete resource", "delete connection",
        "delete environment", "delete workspace"} \subseteq KnownLeaks(c)
  /\ \A c \in UserName : {"oidc sign-in", "update user by an old name",
                          "delete user by an old name"} \subseteq KnownLeaks(c)
  /\ \A c \in Alias : {"oidc sign-in", "update user by an old name", "delete user by an old name",
                       "update user", "delete user"} \subseteq KnownLeaks(c)
  /\ \A c \in Joined :
       /\ RowLeaks(RowOf[c]) \subseteq KnownLeaks(c)
       /\ {"oidc sign-in", "update user", "update user by an old name"} \subseteq KnownLeaks(c)
<1>. HIDE DEF RowLeaks
<1>. USE EntityCacheAssumption DEF KnownLeaks, Key, Object, Name, Single
<1>1. \A c \in Key : {"overtaken", "not deleted"} \subseteq KnownLeaks(c)
  OBVIOUS
<1>2. \A c \in Object : RowLeaks(c) \subseteq KnownLeaks(c)
  OBVIOUS
<1>3. \A c \in Joined :
        /\ RowLeaks(RowOf[c]) \subseteq KnownLeaks(c)
        /\ {"oidc sign-in", "update user", "update user by an old name"} \subseteq KnownLeaks(c)
  OBVIOUS
<1>4. \A c \in ResourceName :
        {"update resource by an old name", "delete resource", "delete connection",
         "delete environment", "delete workspace"} \subseteq KnownLeaks(c)
  OBVIOUS
<1>5. \A c \in UserName : {"oidc sign-in", "update user by an old name",
                           "delete user by an old name"} \subseteq KnownLeaks(c)
  OBVIOUS
<1>6. \A c \in Alias :
        {"oidc sign-in", "update user by an old name", "delete user by an old name",
         "update user", "delete user"} \subseteq KnownLeaks(c)
  OBVIOUS
<1>. QED BY <1>1, <1>2, <1>3, <1>4, <1>5, <1>6

\* Which operations change the row of an object without deleting its keys behind it.
LEMMA RowLeaksOf ==
  /\ \A x \in Resource : {"delete connection", "delete environment", "delete workspace"}
                         \subseteq RowLeaks(x)
  /\ \A x \in ApiKey : {"create resource", "delete resource", "delete environment",
                        "delete workspace"} \subseteq RowLeaks(x)
  /\ {"delete resource", "delete environment", "delete workspace"} \subseteq RowLeaks("pool")
  /\ "delete workspace" \in RowLeaks("environment")
  /\ {"update member role", "delete workspace"} \subseteq RowLeaks("member")
  /\ \A x \in User : "oidc sign-in" \in RowLeaks(x)
  BY EntityCacheAssumption DEF RowLeaks, Single

\* An object is found by its own key, whatever the names are.
LEMMA RowOfObject == \A c \in Object : \A v, n : RowIn(c, v, n) = v[c]
  BY DEF RowIn

\* A name that one object has leads to its row.
LEMMA RowOfName ==
  ASSUME NEW v, NEW n, NEW x \in Named, n[x] \in Name, v[x] # Gone,
         \A y \in Named : v[y] # Gone /\ n[y] = n[x] => y = x
  PROVE  RowIn(n[x], v, n) = v[x]
<1>. DEFINE c == n[x]
<1>1. c \notin Object
  BY EntityCacheAssumption
<1>2. (CHOOSE y \in Named : v[y] # Gone /\ n[y] = c) = x
  OBVIOUS
<1>. QED BY <1>1, <1>2 DEF RowIn

\* A name that nobody has leads nowhere.
LEMMA RowOfNoName ==
  ASSUME NEW v, NEW n, NEW c \in Name, \A x \in Named : ~(v[x] # Gone /\ n[x] = c)
  PROVE  RowIn(c, v, n) = Gone
<1>1. c \notin Object
  BY EntityCacheAssumption
<1>. QED BY <1>1 DEF RowIn

\* An alias leads to one user, always the same.
LEMMA RowOfAlias ==
  \A c \in Alias : AliasOf[c] \in User /\ \A v, n : RowIn(c, v, n) = v[AliasOf[c]]
<1>. SUFFICES ASSUME NEW c \in Alias
              PROVE  AliasOf[c] \in User /\ \A v, n : RowIn(c, v, n) = v[AliasOf[c]]
  OBVIOUS
<1>1. c \notin Object /\ c \notin Name /\ AliasOf[c] \in User
  BY EntityCacheAssumption
<1>. QED BY <1>1 DEF RowIn

\* A row that is cached with a user is found as long as it is there.
LEMMA RowOfJoined ==
  \A c \in Joined :
    /\ RowOf[c] \in Object \ (User \cup {"member"}) /\ UserOf[c] \in User
    /\ \A v, n : RowIn(c, v, n) = IF v[RowOf[c]] = Gone THEN Gone
                                  ELSE <<v[RowOf[c]], v[UserOf[c]]>>
<1>. SUFFICES ASSUME NEW c \in Joined
              PROVE  /\ RowOf[c] \in Object \ (User \cup {"member"}) /\ UserOf[c] \in User
                     /\ \A v, n : RowIn(c, v, n) = IF v[RowOf[c]] = Gone THEN Gone
                                                   ELSE <<v[RowOf[c]], v[UserOf[c]]>>
  OBVIOUS
<1>1. /\ c \notin Object /\ c \notin Name /\ c \notin Alias
      /\ RowOf[c] \in Object \ (User \cup {"member"}) /\ UserOf[c] \in User
  BY EntityCacheAssumption
<1>. QED BY <1>1 DEF RowIn

-----------------------------------------------------------------------------
(* What is true of an operation under way.                                 *)

\* What its commit may leave behind is known of its kind.
Covers(op) ==
  /\ \A x \in op.writes : There(x) => KeysOf(x) \subseteq op.behind \/ op.kind \in RowLeaks(x)
  /\ \A x \in op.writes \cap Named :
       There(x) => name[x] \in op.behind \/ op.kind \in KnownLeaks(name[x])
  /\ \A e \in Alias :
       AliasOf[e] \in op.writes /\ There(AliasOf[e]) => op.kind \in KnownLeaks(e)
  /\ \A j \in Joined :
       UserOf[j] \in op.writes \ op.deletes /\ There(UserOf[j]) => op.kind \in KnownLeaks(j)

\* The users its rows refer to are there, and it deletes none that a row refers to.
Keeps(op) ==
  /\ \A u \in Refers(op) : There(u) /\ u \notin op.deletes
  /\ \A j \in Joined : UserOf[j] \in op.deletes => ~There(RowOf[j])

\* The name it gives is free, and goes to a row it writes; it brings no named row back
\* without naming it.
Claims(op) ==
  /\ op.named # Gone =>
       op.object \in Named \cap (op.writes \ op.deletes) /\ Free(op.object, op.named)
  /\ \A x \in Named \cap (op.writes \ op.deletes) :
       There(x) \/ (op.named # Gone /\ op.object = x)

\* Of two that exist no two have the same name.
NamesUnique ==
  /\ \A x \in Named : name[x] \in NamesOf(x)
  /\ \A x, y \in Named : There(x) /\ There(y) /\ name[x] = name[y] => x = y

\* The foreign keys from rows to users.
Referring == \A j \in Joined : There(RowOf[j]) => There(UserOf[j])

\* The locks of the transactions.
Locked ==
  \A o, q \in Operator :
    (o # q /\ change[o].step = "open" /\ change[q].step = "open") =>
      /\ change[o].writes \cap change[q].writes = {}
      /\ change[o].named # Gone => change[o].named # change[q].named
      /\ change[q].deletes \cap Refers(change[o]) = {}

\* Who is asked for has a name of its kind.
Asked ==
  \A o \in Operator :
    change[o].step = "asked" =>
      change[o].object \in Named /\ change[o].named \in NamesOf(change[o].object)

\* What is true of every open transaction.
Prepared ==
  \A o \in Operator : change[o].step = "open" => Covers(change[o]) /\ Claims(change[o]) /\ Keeps(change[o])

\* What the steps of operators preserve without regard to the cache.
Orderly == NamesUnique /\ Referring /\ Locked /\ Asked /\ Prepared

\* The invariant.
Consistent == TypeOK /\ Orderly /\ StaleOnlyByKnownLeaks

\* The actions that open a transaction.
Opening(o) ==
  \/ UpdateResource(o) \/ CreateResource(o) \/ DeleteResource(o)
  \/ DeleteConnection(o) \/ ChangeApiKey(o) \/ ChangePool(o)
  \/ UpdateUser(o) \/ DeleteUser(o) \/ CreateUser(o) \/ SignInOidc(o)
  \/ ChangeWorkspace(o) \/ ChangeMember(o) \/ ChangeEnvironment(o)
  \/ DeleteEnvironment(o) \/ DeleteWorkspace(o)

\* o opens op, which is an operation with these properties.
Fits(o, op) ==
  /\ Open(o, op) /\ op.step = "open" /\ change[o].step \in {"idle", "asked"}
  /\ IsOperation(op) /\ Covers(op) /\ Claims(op) /\ Keeps(op)

\* What there is in the cache has the type of its key.
CacheTyped == DOMAIN cache = Key /\ \A c \in Key : cache[c] = Gone \/ cache[c] \in Value(c)

\* The fields of an operation.
LEMMA Fields ==
  DOMAIN None = {"step", "kind", "writes", "deletes", "object", "named", "inside", "behind",
                 "number"}
  BY DEF None

\* The parts of an operation.
LEMMA OperationParts ==
  ASSUME NEW kind \in Kind, NEW writes \in SUBSET Object, NEW deletes \in SUBSET writes,
         NEW object \in Named \cup {Gone}, NEW named \in Name \cup {Gone},
         NEW inside \in Seq(SUBSET Key), NEW behind \in SUBSET Key
  PROVE  LET op == Operation(kind, writes, deletes, object, named, inside, behind)
         IN  /\ IsOperation(op) /\ op.step = "open" /\ op.kind = kind
             /\ op.writes = writes /\ op.deletes = deletes /\ op.object = object
             /\ op.named = named /\ op.inside = inside /\ op.behind = behind
<1>. DEFINE op == Operation(kind, writes, deletes, object, named, inside, behind)
<1>1. /\ op.step = "open" /\ op.kind = kind /\ op.writes = writes /\ op.deletes = deletes
      /\ op.object = object /\ op.named = named /\ op.inside = inside /\ op.behind = behind
      /\ op.number = 0
  BY DEF Operation
<1>2. DOMAIN op = DOMAIN None
  BY Fields DEF Operation
<1>. HIDE DEF op
<1>3. IsOperation(op)
  BY <1>1, <1>2 DEF IsOperation
<1>. QED BY <1>1, <1>3 DEF op

\* An operation that names nothing.
LEMMA PlainFits ==
  ASSUME NEW o \in Operator, change[o].step \in {"idle", "asked"},
         NEW kind \in Kind, NEW writes \in SUBSET Object, NEW deletes \in SUBSET writes,
         NEW inside \in Seq(SUBSET Key), NEW behind \in SUBSET Key,
         Open(o, Operation(kind, writes, deletes, Gone, Gone, inside, behind)),
         \A x \in writes : There(x) => KeysOf(x) \subseteq behind \/ kind \in RowLeaks(x),
         \A x \in writes \cap Named :
           There(x) => name[x] \in behind \/ kind \in KnownLeaks(name[x]),
         \A e \in Alias : AliasOf[e] \in writes /\ There(AliasOf[e]) => kind \in KnownLeaks(e),
         \A j \in Joined :
           UserOf[j] \in writes \ deletes /\ There(UserOf[j]) => kind \in KnownLeaks(j),
         \A x \in Named \cap (writes \ deletes) : There(x),
         \A j \in Joined :
           RowOf[j] \in writes \ deletes => There(UserOf[j]) /\ UserOf[j] \notin deletes,
         \A j \in Joined : UserOf[j] \in deletes => ~There(RowOf[j])
  PROVE  \E op : Fits(o, op)
<1>. DEFINE op == Operation(kind, writes, deletes, Gone, Gone, inside, behind)
<1>1. /\ IsOperation(op) /\ op.step = "open" /\ op.kind = kind /\ op.writes = writes
      /\ op.deletes = deletes /\ op.named = Gone /\ op.behind = behind
  BY OperationParts
<1>2. Open(o, op)
  OBVIOUS
<1>. HIDE DEF op
<1>3. Covers(op)
  BY <1>1 DEF Covers
<1>4. Claims(op)
  BY <1>1 DEF Claims
<1>5. Keeps(op)
  BY <1>1 DEF Keeps, Refers
<1>. QED BY <1>1, <1>2, <1>3, <1>4, <1>5 DEF Fits

\* An operation that names nothing and writes no user.
LEMMA UserlessFits ==
  ASSUME NEW o \in Operator, change[o].step \in {"idle", "asked"},
         NEW kind \in Kind, NEW writes \in SUBSET Object, NEW deletes \in SUBSET writes,
         NEW inside \in Seq(SUBSET Key), NEW behind \in SUBSET Key,
         Open(o, Operation(kind, writes, deletes, Gone, Gone, inside, behind)),
         \A x \in writes : There(x) => KeysOf(x) \subseteq behind \/ kind \in RowLeaks(x),
         \A x \in writes \cap Named :
           There(x) => name[x] \in behind \/ kind \in KnownLeaks(name[x]),
         writes \cap User = {},
         \A x \in Named \cap (writes \ deletes) : There(x),
         \A j \in Joined : RowOf[j] \in writes \ deletes => There(UserOf[j])
  PROVE  \E op : Fits(o, op)
<1>1. \A e \in Alias : AliasOf[e] \notin writes
  BY RowOfAlias
<1>2. \A j \in Joined : UserOf[j] \notin writes
  BY RowOfJoined
<1>. QED BY <1>1, <1>2, PlainFits

\* An operation that names x.
LEMMA NamingFits ==
  ASSUME NEW o \in Operator, change[o].step \in {"idle", "asked"},
         NEW kind \in Kind, NEW writes \in SUBSET Object,
         NEW x \in Named, NEW n \in Name,
         NEW inside \in Seq(SUBSET Key), NEW behind \in SUBSET Key,
         Open(o, Operation(kind, writes, {}, x, n, inside, behind)),
         x \in writes, writes \cap Named = {x}, Free(x, n),
         \A y \in writes : There(y) => KeysOf(y) \subseteq behind \/ kind \in RowLeaks(y),
         There(x) => name[x] \in behind \/ kind \in KnownLeaks(name[x]),
         x \in User /\ There(x) =>
           /\ \A e \in Alias : AliasOf[e] = x => kind \in KnownLeaks(e)
           /\ \A j \in Joined : UserOf[j] = x => kind \in KnownLeaks(j),
         \A j \in Joined : RowOf[j] \in writes => There(UserOf[j])
  PROVE  \E op : Fits(o, op)
<1>. DEFINE op == Operation(kind, writes, {}, x, n, inside, behind)
<1>1. /\ IsOperation(op) /\ op.step = "open" /\ op.kind = kind /\ op.writes = writes
      /\ op.deletes = {} /\ op.object = x /\ op.named = n /\ op.behind = behind
  BY OperationParts
<1>2. Open(o, op)
  OBVIOUS
<1>3. User \subseteq Named
  BY DEF Named
<1>. HIDE DEF op
<1>4. Covers(op)
  <2>1. \A e \in Alias : AliasOf[e] \in writes => AliasOf[e] = x /\ x \in User
    BY <1>3, RowOfAlias
  <2>2. \A j \in Joined : UserOf[j] \in writes => UserOf[j] = x /\ x \in User
    BY <1>3, RowOfJoined
  <2>3. \A y \in writes \cap Named :
          There(y) => name[y] \in behind \/ kind \in KnownLeaks(name[y])
    OBVIOUS
  <2>. QED BY <1>1, <2>1, <2>2, <2>3 DEF Covers
<1>5. Claims(op)
  <2>1. n # Gone
    BY EntityCacheAssumption DEF Key
  <2>. QED BY <1>1, <2>1 DEF Claims
<1>6. Keeps(op)
  BY <1>1 DEF Keeps, Refers
<1>. QED BY <1>1, <1>2, <1>4, <1>5, <1>6 DEF Fits

\* Rows and names of different kinds.
LEMMA Kinds ==
  /\ Resource \subseteq Named /\ User \subseteq Named /\ Named \subseteq Object
  /\ ApiKey \subseteq Object /\ Single \subseteq Object /\ Object \subseteq Key
  /\ Name \subseteq Key /\ ResourceName \subseteq Name /\ UserName \subseteq Name
  /\ Named \cap ApiKey = {} /\ Named \cap Single = {} /\ Resource \cap User = {}
  /\ \A x \in Resource : NamesOf(x) = ResourceName
  /\ \A x \in User : NamesOf(x) = UserName
  /\ \A x \in Object : x \in KeysOf(x) /\ KeysOf(x) \subseteq Key
<1>. USE EntityCacheAssumption DEF Named, Name, Object, Key
<1>1. Resource \cap User = {}
  OBVIOUS
<1>2. Named \cap ApiKey = {} /\ Named \cap Single = {}
  OBVIOUS
<1>3. \A x \in Object : x \in KeysOf(x) /\ KeysOf(x) \subseteq Key
  BY DEF KeysOf
<1>. QED BY <1>1, <1>2, <1>3 DEF NamesOf

\* Nobody's rows but those of a resource, an API key and the like are cached with a user.
LEMMA AloneKeys == \A x \in User \cup {"member"} : KeysOf(x) = {x}
  BY RowOfJoined DEF KeysOf

\* Nothing is deleted inside of a transaction.
LEMMA NothingInside == <<>> \in Seq(SUBSET Key)
  OBVIOUS

\* The sets of keys deleted inside of a transaction.
LEMMA InsideType ==
  ASSUME NEW xs \in SUBSET Object
  PROVE  Inside(xs) \in Seq(SUBSET Key)
<1>1. UNION {KeysOf(x) : x \in xs} \in SUBSET Key
  BY Kinds
<1>2. \A keys \in SUBSET Key : <<>> \in Seq(SUBSET Key) /\ <<keys>> \in Seq(SUBSET Key)
  OBVIOUS
<1>. QED BY <1>1, <1>2 DEF Inside

\* The operations on resources.
LEMMA ResourceFits ==
  ASSUME TypeOK, NamesUnique, Referring, Asked, NEW o \in Operator,
         UpdateResource(o) \/ CreateResource(o) \/ DeleteResource(o) \/ DeleteConnection(o)
  PROVE  \E op : Fits(o, op)
<1>. USE DEF Begin
<1>1. CASE UpdateResource(o)
  <2>. DEFINE r == change[o].object
              old == change[o].named
              writes == {r}
              behind == KeysOf(r) \cup {old}
              kind == IF old = name[r]
                        THEN "update resource" ELSE "update resource by an old name"
  <2>1. PICK n \in ResourceName :
          /\ change[o].step = "asked" /\ r \in Resource /\ There(r) /\ Free(r, n)
          /\ Open(o, Operation(kind, {r}, {}, r, n, <<>>, behind))
    BY <1>1 DEF UpdateResource
  <2>2. r \in Named /\ old \in NamesOf(r)
    BY <2>1 DEF Asked
  <2>3. old \in Name
    BY <2>1, <2>2, Kinds
  <2>4. /\ writes \in SUBSET Object /\ r \in writes /\ writes \cap Named = {r}
        /\ behind \in SUBSET Key /\ n \in Name /\ r \in Named /\ r \notin User
    BY <2>1, <2>3, Kinds
  <2>5. <<>> \in Seq(SUBSET Key)
    BY NothingInside
  <2>6. kind \in Kind /\ (name[r] \in behind \/ kind \in KnownLeaks(name[r]))
    <3>1. CASE old = name[r]
      BY <3>1 DEF Kind
    <3>2. CASE old # name[r]
      BY <2>1, <3>2, Kinds, KnownOf DEF Kind, NamesUnique
    <3>. QED BY <3>1, <3>2
  <2>7. /\ \A y \in writes : KeysOf(y) \subseteq behind
        /\ \A j \in Joined : RowOf[j] \in writes => There(UserOf[j])
    BY <2>1 DEF Referring
  <2>8. /\ Open(o, Operation(kind, writes, {}, r, n, <<>>, behind))
        /\ change[o].step \in {"idle", "asked"} /\ Free(r, n)
    BY <2>1
  <2>. HIDE DEF writes, behind, kind, r, old
  <2>. QED BY <2>4, <2>5, <2>6, <2>7, <2>8, NamingFits
<1>2. CASE CreateResource(o)
  <2>1. PICK r \in Resource, n \in ResourceName, ks \in SUBSET ApiKey :
          /\ ~There(r) /\ Homed(r) /\ Free(r, n) /\ \A k \in ks : There(k)
          /\ Begin(o, Operation("create resource", {r} \cup ks, {}, r, n, Inside(ks), {}))
    BY <1>2 DEF CreateResource
  <2>. DEFINE writes == {r} \cup ks
  <2>2. /\ writes \in SUBSET Object /\ r \in writes /\ writes \cap Named = {r}
        /\ n \in Name /\ r \in Named /\ r \notin User /\ ks \in SUBSET Object
        /\ {} \in SUBSET Key
    BY Kinds
  <2>3. "create resource" \in Kind /\ Inside(ks) \in Seq(SUBSET Key)
    BY <2>2, InsideType DEF Kind
  <2>4. /\ \A y \in writes : There(y) => "create resource" \in RowLeaks(y)
        /\ \A j \in Joined : RowOf[j] \in writes => There(UserOf[j])
    BY <2>1, RowLeaksOf DEF Homed, Referring
  <2>5. /\ Open(o, Operation("create resource", writes, {}, r, n, Inside(ks), {}))
        /\ change[o].step \in {"idle", "asked"} /\ Free(r, n) /\ ~There(r)
    BY <2>1
  <2>. HIDE DEF writes
  <2>. QED BY <2>2, <2>3, <2>4, <2>5, NamingFits
<1>3. CASE DeleteResource(o)
  <2>1. PICK r \in Resource, ps \in SUBSET {"pool"}, ks \in SUBSET ApiKey :
          /\ \A x \in ps \cup ks : There(x)
          /\ Begin(o, Operation("delete resource", {r} \cup ps \cup ks, {r}, Gone, Gone,
                                Inside(ps) \o Inside(ks), KeysOf(r)))
    BY <1>3 DEF DeleteResource
  <2>. DEFINE writes == {r} \cup ps \cup ks
              behind == KeysOf(r)
  <2>2. "pool" \in Single
    BY DEF Single
  <2>3. /\ writes \in SUBSET Object /\ {r} \in SUBSET writes /\ behind \in SUBSET Key
        /\ ps \in SUBSET Object /\ ks \in SUBSET Object
        /\ writes \cap Named = {r} /\ r \notin User
    BY <2>2, Kinds
  <2>4. "delete resource" \in Kind /\ Inside(ps) \o Inside(ks) \in Seq(SUBSET Key)
    BY <2>3, InsideType DEF Kind
  <2>5. \A x \in writes : KeysOf(x) \subseteq behind \/ "delete resource" \in RowLeaks(x)
    BY RowLeaksOf
  <2>6. \A x \in writes \cap Named : "delete resource" \in KnownLeaks(name[x])
    BY <2>3, KnownOf, Kinds DEF NamesUnique
  <2>7. writes \cap User = {} /\ Named \cap (writes \ {r}) = {}
    BY <2>3, Kinds
  <2>8. \A j \in Joined : RowOf[j] \in writes \ {r} => There(UserOf[j])
    BY <2>1 DEF Referring
  <2>9. Open(o, Operation("delete resource", writes, {r}, Gone, Gone,
                          Inside(ps) \o Inside(ks), behind))
        /\ change[o].step \in {"idle", "asked"}
    BY <2>1
  <2>. HIDE DEF writes, behind
  <2>. QED BY <2>3, <2>4, <2>5, <2>6, <2>7, <2>8, <2>9, UserlessFits
<1>4. CASE DeleteConnection(o)
  <2>1. PICK rs \in SUBSET Resource :
          Begin(o, Operation("delete connection", rs, rs, Gone, Gone, <<>>, {}))
    BY <1>4 DEF DeleteConnection
  <2>2. /\ rs \in SUBSET Object /\ rs \in SUBSET rs /\ {} \in SUBSET Key
        /\ rs \cap User = {} /\ rs \cap Named = rs
    BY Kinds
  <2>3. "delete connection" \in Kind /\ <<>> \in Seq(SUBSET Key)
    BY NothingInside DEF Kind
  <2>4. /\ \A x \in rs : There(x) => KeysOf(x) \subseteq {} \/ "delete connection" \in RowLeaks(x)
        /\ \A x \in rs \cap Named :
             There(x) => name[x] \in {} \/ "delete connection" \in KnownLeaks(name[x])
    BY RowLeaksOf, KnownOf, Kinds DEF NamesUnique
  <2>5. /\ \A x \in Named \cap (rs \ rs) : There(x)
        /\ \A j \in Joined : RowOf[j] \in rs \ rs => There(UserOf[j])
    OBVIOUS
  <2>6. /\ Open(o, Operation("delete connection", rs, rs, Gone, Gone, <<>>, {}))
        /\ change[o].step \in {"idle", "asked"}
    BY <2>1
  <2>. QED BY <2>2, <2>3, <2>4, <2>5, <2>6, UserlessFits
<1>. QED BY <1>1, <1>2, <1>3, <1>4

\* An operation on one row that has no name.
LEMMA RowFits ==
  ASSUME Referring, NEW o \in Operator, NEW kind \in Kind, NEW x \in ApiKey \cup Single,
         NEW deletes \in {{}, {x}}, NEW behind \in {{}, KeysOf(x)},
         Begin(o, Operation(kind, {x}, deletes, Gone, Gone, <<>>, behind)),
         There(x) => behind = KeysOf(x) \/ kind \in RowLeaks(x),
         deletes = {} => There(x) \/ Homed(x)
  PROVE  \E op : Fits(o, op)
<1>. DEFINE writes == {x}
<1>1. /\ writes \in SUBSET Object /\ writes \cap Named = {} /\ writes \cap User = {}
      /\ deletes \in SUBSET writes /\ behind \in SUBSET Key /\ <<>> \in Seq(SUBSET Key)
  BY Kinds
<1>2. \A y \in writes : There(y) => KeysOf(y) \subseteq behind \/ kind \in RowLeaks(y)
  OBVIOUS
<1>3. /\ Open(o, Operation(kind, writes, deletes, Gone, Gone, <<>>, behind))
      /\ change[o].step \in {"idle", "asked"}
  BY DEF Begin
<1>4. \A j \in Joined : RowOf[j] \in writes \ deletes => There(UserOf[j])
  BY DEF Referring, Homed
<1>. HIDE DEF writes
<1>. QED BY <1>1, <1>2, <1>3, <1>4, UserlessFits

\* The operations on API keys, the pool definition, members and environments.
LEMMA RowsFit ==
  ASSUME Referring, NEW o \in Operator,
         ChangeApiKey(o) \/ ChangePool(o) \/ ChangeMember(o) \/ ChangeEnvironment(o)
  PROVE  \E op : Fits(o, op)
<1>. USE DEF Create, Update, Delete
<1>1. \A kind \in {"create api key", "update api key", "delete api key", "upsert pool",
                   "delete pool", "assign member", "unassign member", "update member role",
                   "create environment", "update environment"} : kind \in Kind
  BY DEF Kind
<1>2. "pool" \in Single /\ "member" \in Single /\ "environment" \in Single
  BY DEF Single
<1>3. CASE ChangeApiKey(o)
  <2>1. PICK k \in ApiKey :
          \/ /\ ~There(k) /\ Homed(k)
             /\ Begin(o, Operation("create api key", {k}, {}, Gone, Gone, <<>>, {}))
          \/ /\ There(k)
             /\ Begin(o, Operation("update api key", {k}, {}, Gone, Gone, <<>>, KeysOf(k)))
          \/ Begin(o, Operation("delete api key", {k}, {k}, Gone, Gone, <<>>, KeysOf(k)))
    BY <1>3 DEF ChangeApiKey
  <2>. QED BY <1>1, <2>1, RowFits
<1>4. CASE ChangePool(o)
  <2>1. \/ /\ There("pool") \/ Homed("pool")
           /\ Begin(o, Operation("upsert pool", {"pool"}, {}, Gone, Gone, <<>>, KeysOf("pool")))
        \/ Begin(o, Operation("delete pool", {"pool"}, {"pool"}, Gone, Gone, <<>>,
                              KeysOf("pool")))
    BY <1>4 DEF ChangePool
  <2>. QED BY <1>1, <1>2, <2>1, RowFits
<1>5. CASE ChangeMember(o)
  <2>1. \/ /\ ~There("member") /\ Homed("member")
           /\ Begin(o, Operation("assign member", {"member"}, {}, Gone, Gone, <<>>, {}))
        \/ Begin(o, Operation("unassign member", {"member"}, {"member"}, Gone, Gone, <<>>,
                              KeysOf("member")))
        \/ /\ There("member")
           /\ Begin(o, Operation("update member role", {"member"}, {}, Gone, Gone, <<>>, {}))
    BY <1>5, AloneKeys DEF ChangeMember
  <2>. QED BY <1>1, <1>2, <2>1, RowFits, RowLeaksOf
<1>6. CASE ChangeEnvironment(o)
  <2>1. \/ /\ ~There("environment") /\ Homed("environment")
           /\ Begin(o, Operation("create environment", {"environment"}, {}, Gone, Gone, <<>>,
                                 {}))
        \/ /\ There("environment")
           /\ Begin(o, Operation("update environment", {"environment"}, {}, Gone, Gone, <<>>,
                                 KeysOf("environment")))
    BY <1>6 DEF ChangeEnvironment
  <2>. QED BY <1>1, <1>2, <2>1, RowFits
<1>. QED BY <1>3, <1>4, <1>5, <1>6

\* The operations on users.
LEMMA UsersFit ==
  ASSUME TypeOK, NamesUnique, Referring, Asked, NEW o \in Operator,
         UpdateUser(o) \/ DeleteUser(o) \/ CreateUser(o) \/ SignInOidc(o)
  PROVE  \E op : Fits(o, op)
<1>1. \A v \in User :
        /\ v \in Named /\ {v} \in SUBSET Object /\ {v} \cap Named = {v} /\ v \in Key
        /\ name[v] \in UserName /\ KeysOf(v) = {v} /\ \A j \in Joined : RowOf[j] # v
  BY Kinds, AloneKeys, RowOfJoined DEF NamesUnique
<1>2. \A n \in UserName : n \in Name /\ n \in Key
  BY Kinds
<1>3. <<>> \in Seq(SUBSET Key) /\ {} \in SUBSET Key
  OBVIOUS
<1>. DEFINE u == change[o].object
            old == change[o].named
<1>4. CASE UpdateUser(o)
  <2>. DEFINE writes == {u}
              behind == {u, old}
              kind == IF old = name[u] THEN "update user" ELSE "update user by an old name"
  <2>1. PICK n \in UserName :
          /\ change[o].step = "asked" /\ u \in User /\ There(u) /\ Free(u, n)
          /\ Open(o, Operation(kind, writes, {}, u, n, <<>>, behind))
    BY <1>4 DEF UpdateUser
  <2>2. u \in User /\ old \in UserName
    BY <2>1, Kinds DEF Asked
  <2>3. writes \in SUBSET Object /\ writes \cap Named = {u} /\ behind \in SUBSET Key
    BY <1>1, <1>2, <2>2
  <2>4. /\ kind \in Kind /\ \A e \in Alias : kind \in KnownLeaks(e)
        /\ \A j \in Joined : kind \in KnownLeaks(j)
        /\ name[u] \in behind \/ kind \in KnownLeaks(name[u])
    <3>1. CASE old = name[u]
      BY <1>1, <2>2, <3>1, KnownOf DEF Kind
    <3>2. CASE old # name[u]
      BY <1>1, <2>2, <3>2, KnownOf DEF Kind
    <3>. QED BY <3>1, <3>2
  <2>5. u \in writes /\ u \in Named /\ n \in Name /\ change[o].step \in {"idle", "asked"}
    BY <1>1, <1>2, <2>1, <2>2
  <2>6. /\ \A y \in writes : There(y) => KeysOf(y) \subseteq behind \/ kind \in RowLeaks(y)
        /\ There(u) => name[u] \in behind \/ kind \in KnownLeaks(name[u])
        /\ u \in User /\ There(u) =>
             /\ \A e \in Alias : AliasOf[e] = u => kind \in KnownLeaks(e)
             /\ \A j \in Joined : UserOf[j] = u => kind \in KnownLeaks(j)
        /\ \A j \in Joined : RowOf[j] \in writes => There(UserOf[j])
    BY <1>1, <2>2, <2>4
  <2>7. Free(u, n) /\ Open(o, Operation(kind, writes, {}, u, n, <<>>, behind))
    BY <2>1
  <2>. HIDE DEF writes, behind, kind, u, old
  <2>. QED BY <1>3, <2>3, <2>4, <2>5, <2>6, <2>7, NamingFits, ZenonT(60)
<1>5. CASE DeleteUser(o)
  <2>. DEFINE writes == {u}
              behind == {u, old}
              kind == IF old = name[u] THEN "delete user" ELSE "delete user by an old name"
  <2>1. /\ change[o].step = "asked" /\ u \in User
        /\ \A j \in Joined : UserOf[j] = u => ~There(RowOf[j])
        /\ Open(o, Operation(kind, writes, writes, Gone, Gone, <<>>, behind))
    BY <1>5 DEF DeleteUser
  <2>2. u \in User /\ old \in UserName
    BY <2>1, Kinds DEF Asked
  <2>3. /\ writes \in SUBSET Object /\ behind \in SUBSET Key
        /\ writes \in SUBSET writes /\ Named \cap (writes \ writes) = {}
    BY <1>1, <1>2, <2>2
  <2>4. /\ kind \in Kind /\ \A e \in Alias : kind \in KnownLeaks(e)
        /\ name[u] \in behind \/ kind \in KnownLeaks(name[u])
    <3>1. CASE old = name[u]
      BY <1>1, <2>2, <3>1, KnownOf DEF Kind
    <3>2. CASE old # name[u]
      BY <1>1, <2>2, <3>2, KnownOf DEF Kind
    <3>. QED BY <3>1, <3>2
  <2>5. /\ \A y \in writes : There(y) => KeysOf(y) \subseteq behind \/ kind \in RowLeaks(y)
        /\ \A y \in writes \cap Named :
             There(y) => name[y] \in behind \/ kind \in KnownLeaks(name[y])
        /\ \A e \in Alias : AliasOf[e] \in writes /\ There(AliasOf[e]) => kind \in KnownLeaks(e)
        /\ \A j \in Joined :
             UserOf[j] \in writes \ writes /\ There(UserOf[j]) => kind \in KnownLeaks(j)
        /\ \A y \in Named \cap (writes \ writes) : There(y)
        /\ \A j \in Joined :
             RowOf[j] \in writes \ writes => There(UserOf[j]) /\ UserOf[j] \notin writes
        /\ \A j \in Joined : UserOf[j] \in writes => ~There(RowOf[j])
    BY <1>1, <2>1, <2>2, <2>4
  <2>6. /\ change[o].step \in {"idle", "asked"}
        /\ Open(o, Operation(kind, writes, writes, Gone, Gone, <<>>, behind))
    BY <2>1
  <2>. HIDE DEF writes, behind, kind, u, old
  <2>. QED BY <1>3, <2>3, <2>4, <2>5, <2>6, PlainFits
<1>6. CASE CreateUser(o)
  <2>1. PICK v \in User, n \in UserName :
          /\ ~There(v) /\ Free(v, n)
          /\ Begin(o, Operation("create user", {v}, {}, v, n, <<>>, {}))
    BY <1>6 DEF CreateUser
  <2>. DEFINE writes == {v}
  <2>2. /\ writes \in SUBSET Object /\ writes \cap Named = {v} /\ v \in Named /\ n \in Name
        /\ v \in writes /\ "create user" \in Kind
    BY <1>1, <1>2 DEF Kind
  <2>3. /\ Open(o, Operation("create user", writes, {}, v, n, <<>>, {}))
        /\ change[o].step \in {"idle", "asked"} /\ Free(v, n)
    BY <2>1 DEF Begin
  <2>4. /\ \A y \in writes : ~There(y)
        /\ ~There(v) /\ \A j \in Joined : RowOf[j] \in writes => There(UserOf[j])
    BY <1>1, <2>1
  <2>. HIDE DEF writes
  <2>. QED BY <1>3, <2>2, <2>3, <2>4, NamingFits
<1>7. CASE SignInOidc(o)
  <2>1. PICK v \in User :
          /\ There(v)
          /\ Begin(o, Operation("oidc sign-in", {v}, {}, Gone, Gone, <<>>, {}))
    BY <1>7 DEF SignInOidc, Update
  <2>. DEFINE writes == {v}
              none == {}
              kind == "oidc sign-in"
  <2>2. /\ writes \in SUBSET Object /\ none \in SUBSET writes /\ none \in SUBSET Key
        /\ kind \in Kind
    BY <1>1 DEF Kind
  <2>3. /\ Open(o, Operation(kind, writes, none, Gone, Gone, <<>>, none))
        /\ change[o].step \in {"idle", "asked"}
    BY <2>1 DEF Begin
  <2>4. /\ kind \in RowLeaks(v) /\ kind \in KnownLeaks(name[v])
        /\ \A e \in Alias : kind \in KnownLeaks(e)
        /\ \A j \in Joined : kind \in KnownLeaks(j)
    BY <1>1, KnownOf, RowLeaksOf
  <2>5. /\ \A y \in writes : There(y) => KeysOf(y) \subseteq none \/ kind \in RowLeaks(y)
        /\ \A y \in writes \cap Named :
             There(y) => name[y] \in none \/ kind \in KnownLeaks(name[y])
        /\ \A e \in Alias : AliasOf[e] \in writes /\ There(AliasOf[e]) => kind \in KnownLeaks(e)
        /\ \A j \in Joined :
             UserOf[j] \in writes \ none /\ There(UserOf[j]) => kind \in KnownLeaks(j)
        /\ \A y \in Named \cap (writes \ none) : There(y)
        /\ \A j \in Joined :
             RowOf[j] \in writes \ none => There(UserOf[j]) /\ UserOf[j] \notin none
        /\ \A j \in Joined : UserOf[j] \in none => ~There(RowOf[j])
    BY <1>1, <2>1, <2>4
  <2>. HIDE DEF writes, none, kind
  <2>. QED BY <1>3, <2>2, <2>3, <2>5, PlainFits
<1>. QED BY <1>4, <1>5, <1>6, <1>7

\* The deletion of a row with all that belongs to it.
LEMMA CascadeFits ==
  ASSUME TypeOK, NamesUnique, NEW o \in Operator,
         NEW kind \in {"delete environment", "delete workspace"}, NEW x \in Single,
         NEW below \in SUBSET (Resource \cup ApiKey \cup Single), Cascade(o, kind, x, below),
         \A y \in below : kind \in RowLeaks(y)
  PROVE  \E op : Fits(o, op)
<1>. DEFINE writes == {x} \cup {y \in below : There(y)}
            behind == KeysOf(x)
<1>1. Begin(o, Operation(kind, writes, writes, Gone, Gone, <<>>, behind))
  BY DEF Cascade
<1>2. /\ writes \in SUBSET Object /\ writes \in SUBSET writes /\ behind \in SUBSET Key
      /\ <<>> \in Seq(SUBSET Key) /\ kind \in Kind
      /\ writes \cap User = {} /\ writes \cap Named \subseteq Resource
  <2>1. writes \subseteq Resource \cup ApiKey \cup Single
    OBVIOUS
  <2>. HIDE DEF writes
  <2>2. writes \subseteq Object /\ writes \cap Named \subseteq Resource
    BY <2>1, Kinds
  <2>3. writes \cap User = {}
    BY <2>2, Kinds
  <2>4. x \in Object
    BY Kinds
  <2>5. behind \subseteq Key
    BY <2>4, Kinds
  <2>6. <<>> \in Seq(SUBSET Key)
    BY NothingInside
  <2>7. kind \in Kind
    BY DEF Kind
  <2>. HIDE DEF behind
  <2>. QED BY <2>2, <2>3, <2>5, <2>6, <2>7
<1>3. /\ \A y \in writes : There(y) => KeysOf(y) \subseteq behind \/ kind \in RowLeaks(y)
      /\ \A y \in Named \cap (writes \ writes) : There(y)
      /\ \A j \in Joined : RowOf[j] \in writes \ writes => There(UserOf[j])
  OBVIOUS
<1>. HIDE DEF writes
<1>4. \A y \in writes \cap Named :
        There(y) => name[y] \in behind \/ kind \in KnownLeaks(name[y])
  BY <1>2, Kinds, KnownOf DEF NamesUnique
<1>5. /\ Open(o, Operation(kind, writes, writes, Gone, Gone, <<>>, behind))
      /\ change[o].step \in {"idle", "asked"}
  BY <1>1 DEF Begin, writes
<1>. HIDE DEF behind
<1>. QED BY <1>2, <1>3, <1>4, <1>5, UserlessFits

\* The operations on workspaces, and deletions that cascade.
LEMMA WorkspaceFits ==
  ASSUME TypeOK, NamesUnique, Referring, NEW o \in Operator,
         ChangeWorkspace(o) \/ DeleteEnvironment(o) \/ DeleteWorkspace(o)
  PROVE  \E op : Fits(o, op)
<1>1. {"pool", "workspace", "environment", "member"} \subseteq Single
  BY DEF Single
<1>2. "create workspace" \in Kind /\ "update workspace" \in Kind
  BY DEF Kind
<1>3. CASE ChangeWorkspace(o)
  <2>1. CASE Update(o, "update workspace", "workspace", KeysOf("workspace"))
    BY <1>1, <1>2, <2>1, RowFits DEF Update
  <2>2. CASE ~Update(o, "update workspace", "workspace", KeysOf("workspace"))
    <3>1. PICK owner \in SUBSET ({"member"} \cap {x \in Object : ~There(x)}) :
            /\ ~There("workspace") /\ Homed("workspace")
            /\ Begin(o, Operation("create workspace", {"workspace"} \cup owner, {}, Gone, Gone,
                                  <<>>, {}))
      BY <1>3, <2>2 DEF ChangeWorkspace
    <3>. DEFINE writes == {"workspace"} \cup owner
                none == {}
                kind == "create workspace"
    <3>2. /\ writes \in SUBSET Single /\ \A x \in writes : ~There(x)
          /\ <<>> \in Seq(SUBSET Key) /\ none \in SUBSET writes /\ none \in SUBSET Key
      <4>1. \A x \in owner : x = "member" /\ ~There(x)
        BY <3>1
      <4>2. \A x \in writes : x \in Single /\ ~There(x)
        BY <1>1, <3>1, <4>1
      <4>. HIDE DEF writes
      <4>. QED BY <4>2
    <3>3. /\ Open(o, Operation(kind, writes, none, Gone, Gone, <<>>, none))
          /\ change[o].step \in {"idle", "asked"} /\ kind \in Kind
      BY <1>2, <3>1 DEF Begin
    <3>4. \A j \in Joined : RowOf[j] \in writes \ none => There(UserOf[j])
      <4>1. \A j \in Joined : RowOf[j] \in writes => RowOf[j] = "workspace"
        BY <3>1, RowOfJoined
      <4>. QED BY <3>1, <4>1 DEF Homed
    <3>. HIDE DEF writes, none, kind
    <3>5. writes \in SUBSET Object /\ writes \cap Named = {} /\ writes \cap User = {}
      BY <3>2, Kinds
    <3>6. /\ \A x \in writes : There(x) => KeysOf(x) \subseteq none \/ kind \in RowLeaks(x)
          /\ \A x \in writes \cap Named :
               There(x) => name[x] \in none \/ kind \in KnownLeaks(name[x])
          /\ \A x \in Named \cap (writes \ none) : There(x)
      BY <3>2, <3>5
    <3>. QED BY <3>2, <3>3, <3>4, <3>5, <3>6, UserlessFits
  <2>. QED BY <2>1, <2>2
<1>4. CASE DeleteEnvironment(o)
  <2>1. Belongings \in SUBSET (Resource \cup ApiKey \cup Single)
    BY <1>1 DEF Belongings
  <2>2. \A y \in Belongings : "delete environment" \in RowLeaks(y)
    BY RowLeaksOf DEF Belongings
  <2>. QED BY <1>1, <1>4, <2>1, <2>2, CascadeFits DEF DeleteEnvironment
<1>5. CASE DeleteWorkspace(o)
  <2>. DEFINE below == Belongings \cup {"environment", "member"}
  <2>1. below \in SUBSET (Resource \cup ApiKey \cup Single)
    BY <1>1 DEF Belongings
  <2>2. \A y \in below : "delete workspace" \in RowLeaks(y)
    BY RowLeaksOf DEF Belongings
  <2>3. Cascade(o, "delete workspace", "workspace", below)
    BY <1>5 DEF DeleteWorkspace
  <2>. HIDE DEF below
  <2>. QED BY <1>1, <2>1, <2>2, <2>3, CascadeFits
<1>. QED BY <1>3, <1>4, <1>5

\* Every operation that is opened is of this kind.
LEMMA OpeningFits ==
  ASSUME TypeOK, NamesUnique, Referring, Asked, NEW o \in Operator, Opening(o)
  PROVE  \E op : Fits(o, op)
  BY ResourceFits, RowsFit, UsersFit, WorkspaceFits DEF Opening

-----------------------------------------------------------------------------
(* The steps that change neither rows nor names.                           *)

\* What is true of an operation depends on the rows and the names only.
LEMMA SameRows ==
  ASSUME UNCHANGED <<version, name>>
  PROVE  /\ (NamesUnique' <=> NamesUnique) /\ (Referring' <=> Referring)
         /\ \A op : (Covers(op)' <=> Covers(op)) /\ (Claims(op)' <=> Claims(op))
                   /\ (Keeps(op)' <=> Keeps(op))
         /\ \A c : Row(c)' = Row(c)
<1>1. (NamesUnique' <=> NamesUnique) /\ (Referring' <=> Referring)
  BY DEF NamesUnique, Referring, There, NamesOf
<1>2. \A op : Covers(op)' <=> Covers(op)
  BY DEF Covers, There, KeysOf, RowLeaks, KnownLeaks, Object, Single, Name, Named
<1>3. \A op : Claims(op)' <=> Claims(op)
  BY DEF Claims, There, Free, NamesOf
<1>4. \A c : Row(c)' = Row(c)
  BY DEF Row, RowIn, Object, Single, Name, Named
<1>5. \A op : Keeps(op)' <=> Keeps(op)
  BY DEF Keeps, Refers, There
<1>. QED BY <1>1, <1>2, <1>3, <1>4, <1>5

\* The operation of one operator changes.
LEMMA ChangeOfOne ==
  ASSUME TypeOK, NEW o \in Operator, NEW new, change' = [change EXCEPT ![o] = new]
  PROVE  /\ DOMAIN change' = Operator /\ change'[o] = new
         /\ \A q \in Operator \ {o} : change'[q] = change[q]
  BY DEF TypeOK

\* An operator does nothing, or has asked for an object, or goes on with its transaction.
LEMMA OrderlyKept ==
  ASSUME TypeOK, Orderly, NEW o \in Operator, NEW new,
         UNCHANGED <<version, name>>, change' = [change EXCEPT ![o] = new],
         new.step = "asked" => new.object \in Named /\ new.named \in NamesOf(new.object),
         new.step = "open" =>
           /\ change[o].step = "open" /\ new.kind = change[o].kind
           /\ new.writes = change[o].writes /\ new.deletes = change[o].deletes
           /\ new.object = change[o].object /\ new.named = change[o].named
           /\ new.behind = change[o].behind
  PROVE  Orderly'
<1>1. /\ change'[o] = new /\ \A q \in Operator \ {o} : change'[q] = change[q]
  BY ChangeOfOne
<1>2. NamesUnique' /\ Referring'
  BY SameRows DEF Orderly
<1>3. Locked'
  BY <1>1 DEF Orderly, Locked, Refers
<1>4. Asked'
  BY <1>1 DEF Orderly, Asked, NamesOf
<1>5. Prepared'
  <2>. SUFFICES ASSUME NEW q \in Operator, change'[q].step = "open"
                PROVE  Covers(change'[q]) /\ Claims(change'[q]) /\ Keeps(change'[q])
    BY SameRows DEF Prepared
  <2>1. CASE q # o
    BY <1>1, <2>1 DEF Orderly, Prepared
  <2>2. CASE q = o
    <3>1. /\ Covers(change[o]) /\ Claims(change[o]) /\ Keeps(change[o])
          /\ change'[q] = new /\ new.step = "open"
      BY <1>1, <2>2 DEF Orderly, Prepared
    <3>2. Covers(new)
      BY <3>1 DEF Covers
    <3>3. Claims(new)
      BY <3>1 DEF Claims
    <3>4. Keeps(new)
      BY <3>1 DEF Keeps, Refers
    <3>. QED BY <3>1, <3>2, <3>3, <3>4
  <2>. QED BY <2>1, <2>2
<1>. QED BY <1>2, <1>3, <1>4, <1>5 DEF Orderly

\* The type of the state after a step of an operator that changes neither rows nor names.
LEMMA TypeKept ==
  ASSUME TypeOK, NEW o \in Operator, NEW new, IsOperation(new),
         change' = [change EXCEPT ![o] = new], UNCHANGED <<version, name, read>>,
         CacheTyped',
         leak' \in [Key -> Kind \cup {"overtaken", "not deleted"}], changes' \in Nat
  PROVE  TypeOK'
<1>1. /\ DOMAIN change' = Operator /\ change'[o] = new
      /\ \A q \in Operator \ {o} : change'[q] = change[q]
  BY ChangeOfOne
<1>2. \A q \in Operator : IsOperation(change'[q])
  BY <1>1 DEF TypeOK
<1>3. \A q \in Operator : IsOperation(change[q])'
  BY <1>2 DEF IsOperation, Key, Object, Name, Named, Single, Kind, None
<1>4. \A r \in Request : IsRead(read[r])'
  BY DEF TypeOK, IsRead, Value, Key, Object, Name, Named, Single
<1>. QED BY <1>1, <1>3, <1>4 DEF TypeOK, CacheTyped, Key, Object, Name, Named, Single, Kind

\* An operator that does nothing is one.
LEMMA NoneIsOperation ==
  /\ IsOperation(None) /\ None.step = "idle" /\ None.behind = {}
  /\ \A u \in Named, n \in Name :
       LET new == [None EXCEPT !.step = "asked", !.object = u, !.named = n]
       IN  IsOperation(new) /\ new.step = "asked" /\ new.object = u /\ new.named = n
<1>1. /\ None.step = "idle" /\ None.kind = "none" /\ None.writes = {} /\ None.deletes = {}
      /\ None.object = Gone /\ None.named = Gone /\ None.inside = <<>> /\ None.behind = {}
      /\ None.number = 0
  BY DEF None
<1>2. "none" \in Kind
  BY DEF Kind
<1>3. IsOperation(None)
  BY <1>1, <1>2, NothingInside DEF IsOperation
<1>4. ASSUME NEW u \in Named, NEW n \in Name
      PROVE  LET new == [None EXCEPT !.step = "asked", !.object = u, !.named = n]
             IN  IsOperation(new) /\ new.step = "asked" /\ new.object = u /\ new.named = n
  BY <1>1, <1>3, Fields DEF IsOperation
<1>. QED BY <1>1, <1>3, <1>4

\* What is known of a key and what a key may hold do not change.
LEMMA Rigid ==
  /\ \A c : KnownLeaks(c)' = KnownLeaks(c) /\ Value(c)' = Value(c)
  /\ Key' = Key
  BY DEF KnownLeaks, RowLeaks, Value, Key, Object, Name, Named, Single

LEMMA CacheStays ==
  ASSUME TypeOK, cache' = cache
  PROVE  CacheTyped'
<1>1. DOMAIN cache' = Key /\ \A c \in Key : cache'[c] = Gone \/ cache'[c] \in Value(c)
  BY DEF TypeOK
<1>. QED BY <1>1, Rigid DEF CacheTyped

\* No entry, row or deletion that is awaited changes.
LEMMA StaleKept ==
  ASSUME StaleOnlyByKnownLeaks, UNCHANGED <<version, name, cache, leak>>,
         NEW o \in Operator, change[o].step # "committed",
         \A q \in Operator \ {o} : change'[q] = change[q]
  PROVE  StaleOnlyByKnownLeaks'
<1>. SUFFICES ASSUME NEW c \in Key, Stale(c)'
              PROVE  Awaited(c)' \/ leak'[c] \in KnownLeaks(c)
  BY Rigid DEF StaleOnlyByKnownLeaks
<1>1. Stale(c)
  BY SameRows DEF Stale
<1>2. Awaited(c) => Awaited(c)'
  BY DEF Awaited
<1>. QED BY <1>1, <1>2 DEF StaleOnlyByKnownLeaks

\* A transaction is opened.
LEMMA OpenStep ==
  ASSUME Consistent, NEW o \in Operator, NEW op, Fits(o, op)
  PROVE  Consistent'
<1>. DEFINE new == [op EXCEPT !.number = changes + 1]
<1>1. /\ change' = [change EXCEPT ![o] = new] /\ changes' = changes + 1 /\ Lockable(o, op)
      /\ UNCHANGED <<version, name, cache, read, leak>>
      /\ op.step = "open" /\ change[o].step \in {"idle", "asked"}
      /\ IsOperation(op) /\ Covers(op) /\ Claims(op) /\ Keeps(op)
  BY DEF Fits, Open
<1>2. /\ new.step = op.step /\ new.kind = op.kind /\ new.writes = op.writes
      /\ new.deletes = op.deletes /\ new.object = op.object /\ new.named = op.named
      /\ new.inside = op.inside /\ new.behind = op.behind /\ new.number = changes + 1
      /\ DOMAIN new = DOMAIN op
  BY <1>1, Fields DEF IsOperation
<1>. HIDE DEF new
<1>3. IsOperation(new) /\ changes + 1 \in Nat
  <2>1. changes \in Nat
    BY DEF Consistent, TypeOK
  <2>2. changes + 1 \in Nat
    BY <2>1
  <2>. QED BY <1>1, <1>2, <2>2 DEF IsOperation
<1>4. TypeOK'
  <2>1. TypeOK /\ leak \in [Key -> Kind \cup {"overtaken", "not deleted"}]
    BY DEF Consistent, TypeOK
  <2>2. CacheTyped'
    BY <1>1, <2>1, CacheStays
  <2>. QED BY <1>1, <1>3, <2>1, <2>2, TypeKept
<1>5. /\ change'[o] = new /\ \A q \in Operator \ {o} : change'[q] = change[q]
  BY <1>1, ChangeOfOne DEF Consistent
<1>6. NamesUnique' /\ Referring' /\ Asked'
  BY <1>1, <1>2, <1>5, SameRows DEF Consistent, Orderly, Asked, NamesOf
<1>7. Locked'
  <2>1. Refers(new) = Refers(op)
    BY <1>2 DEF Refers
  <2>2. \A p, q \in Operator :
          (p # q /\ change'[p].step = "open" /\ change'[q].step = "open") =>
            /\ change'[p].writes \cap change'[q].writes = {}
            /\ change'[p].named # Gone => change'[p].named # change'[q].named
            /\ change'[q].deletes \cap Refers(change'[p]) = {}
    <3>. SUFFICES ASSUME NEW p \in Operator, NEW q \in Operator, p # q,
                         change'[p].step = "open", change'[q].step = "open"
                  PROVE  /\ change'[p].writes \cap change'[q].writes = {}
                         /\ change'[p].named # Gone => change'[p].named # change'[q].named
                         /\ change'[q].deletes \cap Refers(change'[p]) = {}
      OBVIOUS
    <3>1. CASE p # o /\ q # o
      BY <1>5, <3>1 DEF Consistent, Orderly, Locked
    <3>2. CASE p = o
      BY <1>1, <1>2, <1>5, <2>1, <3>2 DEF Lockable
    <3>3. CASE q = o
      BY <1>1, <1>2, <1>5, <2>1, <3>3 DEF Lockable
    <3>. QED BY <3>1, <3>2, <3>3
  <2>. QED BY <2>2 DEF Locked, Refers
<1>8. Prepared'
  <2>1. Covers(new)
    BY <1>1, <1>2 DEF Covers
  <2>2. Claims(new)
    BY <1>1, <1>2 DEF Claims
  <2>3. Keeps(new)
    <3>1. Refers(new) = Refers(op)
      BY <1>2 DEF Refers
    <3>2. Keeps(op) /\ new.deletes = op.deletes
      BY <1>1, <1>2
    <3>. QED BY <3>1, <3>2 DEF Keeps
  <2>4. \A q \in Operator :
          change'[q].step = "open" =>
            Covers(change'[q]) /\ Claims(change'[q]) /\ Keeps(change'[q])
    BY <1>5, <2>1, <2>2, <2>3 DEF Consistent, Orderly, Prepared
  <2>. QED BY <1>1, <2>4, SameRows DEF Prepared
<1>9. StaleOnlyByKnownLeaks'
  BY <1>1, <1>5, StaleKept DEF Consistent
<1>. QED BY <1>4, <1>6, <1>7, <1>8, <1>9 DEF Consistent, Orderly

\* A user or a resource is asked for.
LEMMA AskStep ==
  ASSUME Consistent, NEW o \in Operator, AskUser(o) \/ AskResource(o)
  PROVE  Consistent'
<1>1. PICK x \in Named, n \in Name :
        /\ n \in NamesOf(x) /\ change[o].step = "idle"
        /\ UNCHANGED <<version, name, cache, read, leak, changes>>
        /\ change' = [change EXCEPT ![o] =
             [None EXCEPT !.step = "asked", !.object = x, !.named = n]]
  <2>1. CASE AskUser(o)
    BY <2>1, Kinds DEF AskUser
  <2>2. CASE AskResource(o)
    <3>1. PICK r \in Resource :
            /\ change[o].step = "idle" /\ UNCHANGED <<version, name, cache, read, leak, changes>>
            /\ change' = [change EXCEPT ![o] =
                 [None EXCEPT !.step = "asked", !.object = r, !.named = name[r]]]
      BY <2>2 DEF AskResource
    <3>2. r \in Named /\ name[r] \in NamesOf(r) /\ name[r] \in Name
      BY Kinds DEF Consistent, Orderly, NamesUnique
    <3>. QED BY <3>1, <3>2
  <2>. QED BY <2>1, <2>2
<1>. DEFINE new == [None EXCEPT !.step = "asked", !.object = x, !.named = n]
<1>2. IsOperation(new) /\ new.step = "asked" /\ new.object = x /\ new.named = n
  BY NoneIsOperation
<1>3. change' = [change EXCEPT ![o] = new]
  BY <1>1
<1>. HIDE DEF new
<1>4. TypeOK'
  <2>1. /\ TypeOK /\ changes \in Nat
        /\ leak \in [Key -> Kind \cup {"overtaken", "not deleted"}]
    BY DEF Consistent, TypeOK
  <2>2. CacheTyped'
    BY <1>1, <2>1, CacheStays
  <2>. QED BY <1>1, <1>2, <1>3, <2>1, <2>2, TypeKept
<1>5. Orderly'
  BY <1>1, <1>2, <1>3, OrderlyKept DEF Consistent
<1>6. \A q \in Operator \ {o} : change'[q] = change[q]
  BY <1>3, ChangeOfOne DEF Consistent
<1>7. StaleOnlyByKnownLeaks'
  BY <1>1, <1>6, StaleKept DEF Consistent
<1>. QED BY <1>4, <1>5, <1>7 DEF Consistent

\* Some keys are deleted, which makes no other entry stale; that the operation does not
\* delete another key any more is of no consequence.
LEMMA DeletionStep ==
  ASSUME Consistent, NEW o \in Operator, NEW new, NEW keys \in SUBSET Key,
         IsOperation(new), change' = [change EXCEPT ![o] = new],
         UNCHANGED <<version, name, read, changes>>,
         cache' = [c \in Key |-> IF c \in keys THEN Gone ELSE cache[c]],
         leak' = [c \in Key |-> IF c \in keys THEN "none" ELSE leak[c]],
         new.step # "asked",
         new.step = "open" =>
           /\ change[o].step = "open" /\ new.kind = change[o].kind
           /\ new.writes = change[o].writes /\ new.deletes = change[o].deletes
           /\ new.object = change[o].object /\ new.named = change[o].named
           /\ new.behind = change[o].behind,
         change[o].step = "committed" => change[o].behind \subseteq keys
  PROVE  Consistent'
<1>1. TypeOK'
  <2>1. /\ TypeOK /\ changes \in Nat /\ \A c \in Key : cache[c] = Gone \/ cache[c] \in Value(c)
        /\ leak \in [Key -> Kind \cup {"overtaken", "not deleted"}]
    BY DEF Consistent, TypeOK
  <2>2. "none" \in Kind
    BY DEF Kind
  <2>3. leak' \in [Key -> Kind \cup {"overtaken", "not deleted"}]
    BY <2>1, <2>2
  <2>4. DOMAIN cache' = Key /\ \A c \in Key : cache'[c] = Gone \/ cache'[c] \in Value(c)
    BY <2>1
  <2>5. CacheTyped'
    BY <2>4, Rigid DEF CacheTyped
  <2>. QED BY <2>1, <2>3, <2>5, TypeKept
<1>2. Orderly'
  BY OrderlyKept DEF Consistent
<1>3. \A q \in Operator \ {o} : change'[q] = change[q]
  BY ChangeOfOne DEF Consistent
<1>4. StaleOnlyByKnownLeaks'
  <2>. SUFFICES ASSUME NEW c \in Key, Stale(c)'
                PROVE  Awaited(c)' \/ leak'[c] \in KnownLeaks(c)
    BY Rigid DEF StaleOnlyByKnownLeaks
  <2>1. c \notin keys
    BY DEF Stale
  <2>2. Stale(c)
    BY <2>1, SameRows DEF Stale
  <2>3. Awaited(c) => Awaited(c)'
    BY <1>3, <2>1 DEF Awaited
  <2>. QED BY <2>1, <2>2, <2>3 DEF Consistent, StaleOnlyByKnownLeaks
<1>. QED BY <1>1, <1>2, <1>4 DEF Consistent

\* The keys deleted inside of a transaction.
LEMMA DeleteInsideStep ==
  ASSUME Consistent, NEW o \in Operator, DeleteInside(o)
  PROVE  Consistent'
<1>. DEFINE keys == Head(change[o].inside)
            new == [change[o] EXCEPT !.inside = Tail(change[o].inside)]
<1>1. IsOperation(change[o]) /\ DOMAIN change[o] = DOMAIN None /\ DOMAIN change = Operator
  BY DEF Consistent, TypeOK, IsOperation
<1>2. change[o].step = "open" /\ change[o].inside # <<>> /\ change[o].inside \in Seq(SUBSET Key)
  BY <1>1 DEF DeleteInside, IsOperation
<1>3. keys \in SUBSET Key /\ Tail(change[o].inside) \in Seq(SUBSET Key)
  BY <1>2
<1>4. /\ new.step = "open" /\ new.kind = change[o].kind
      /\ new.writes = change[o].writes /\ new.deletes = change[o].deletes
      /\ new.object = change[o].object /\ new.named = change[o].named
      /\ new.inside = Tail(change[o].inside) /\ new.behind = change[o].behind
      /\ new.number = change[o].number /\ DOMAIN new = DOMAIN None
  BY <1>1, <1>2, Fields
<1>5. /\ change' = [change EXCEPT ![o] = new]
      /\ UNCHANGED <<version, name, read, changes>>
      /\ cache' = [c \in Key |-> IF c \in keys THEN Gone ELSE cache[c]]
      /\ leak' = [c \in Key |-> IF c \in keys THEN "none" ELSE leak[c]]
  BY DEF DeleteInside
<1>. HIDE DEF keys, new
<1>6. IsOperation(new)
  BY <1>1, <1>3, <1>4 DEF IsOperation
<1>. QED BY <1>2, <1>3, <1>4, <1>5, <1>6, DeletionStep

\* The keys deleted behind a commit.
LEMMA DeleteBehindStep ==
  ASSUME Consistent, NEW o \in Operator, DeleteBehind(o)
  PROVE  Consistent'
<1>. DEFINE keys == change[o].behind
<1>1. keys \in SUBSET Key
  BY DEF Consistent, TypeOK, IsOperation
<1>2. /\ change' = [change EXCEPT ![o] = None]
      /\ UNCHANGED <<version, name, read, changes>>
      /\ cache' = [c \in Key |-> IF c \in keys THEN Gone ELSE cache[c]]
      /\ leak' = [c \in Key |-> IF c \in keys THEN "none" ELSE leak[c]]
  BY DEF DeleteBehind
<1>3. change[o].step = "committed" => change[o].behind \subseteq keys
  OBVIOUS
<1>. HIDE DEF keys
<1>. QED BY <1>1, <1>2, <1>3, NoneIsOperation, DeletionStep

\* An operation fails.
LEMMA FailsStep ==
  ASSUME Consistent, NEW o \in Operator, Fails(o)
  PROVE  Consistent'
<1>1. /\ change' = [change EXCEPT ![o] = None]
      /\ UNCHANGED <<version, name, cache, read, changes>>
      /\ leak' = [c \in Key |->
           IF /\ change[o].step = "committed" /\ c \in change[o].behind
              /\ cache[c] \notin {Gone, Row(c)}
             THEN "not deleted" ELSE leak[c]]
  BY DEF Fails
<1>2. TypeOK'
  <2>1. /\ TypeOK /\ changes \in Nat
        /\ leak \in [Key -> Kind \cup {"overtaken", "not deleted"}]
    BY DEF Consistent, TypeOK
  <2>2. leak' \in [Key -> Kind \cup {"overtaken", "not deleted"}]
    BY <1>1, <2>1
  <2>3. CacheTyped'
    BY <1>1, <2>1, CacheStays
  <2>. QED BY <1>1, <2>1, <2>2, <2>3, NoneIsOperation, TypeKept
<1>3. Orderly'
  BY <1>1, NoneIsOperation, OrderlyKept DEF Consistent
<1>4. \A q \in Operator \ {o} : change'[q] = change[q]
  BY <1>1, ChangeOfOne DEF Consistent
<1>5. StaleOnlyByKnownLeaks'
  <2>. SUFFICES ASSUME NEW c \in Key, Stale(c)'
                PROVE  Awaited(c)' \/ leak'[c] \in KnownLeaks(c)
    BY Rigid DEF StaleOnlyByKnownLeaks
  <2>1. Stale(c)
    BY <1>1, SameRows DEF Stale
  <2>2. CASE change[o].step = "committed" /\ c \in change[o].behind
    BY <1>1, <2>1, <2>2, KnownOf DEF Stale
  <2>3. CASE ~(change[o].step = "committed" /\ c \in change[o].behind)
    <3>1. Awaited(c) => Awaited(c)'
      BY <1>4, <2>3 DEF Awaited
    <3>. QED BY <1>1, <2>1, <2>3, <3>1 DEF Consistent, StaleOnlyByKnownLeaks
  <2>. QED BY <2>2, <2>3
<1>. QED BY <1>2, <1>3, <1>5 DEF Consistent

-----------------------------------------------------------------------------
(* The reads.                                                              *)

\* What a query finds is a version, or two of them.
LEMMA FoundIsValue ==
  ASSUME TypeOK, NEW c \in Key, Row(c) # Gone
  PROVE  Row(c) \in Value(c)
<1>1. \A x \in Object : version[x] \in Nat \cup {Gone}
  BY DEF TypeOK
<1>2. c \in Object \cup Name \cup Alias => c \notin Joined
  BY EntityCacheAssumption
<1>3. CASE c \in Object
  BY <1>1, <1>2, <1>3 DEF Row, RowIn, Value
<1>4. CASE c \in Name /\ c \notin Object
  <2>1. \E x \in Named : There(x) /\ name[x] = c
    BY <1>4 DEF Row, RowIn, There
  <2>. DEFINE x == CHOOSE x \in Named : version[x] # Gone /\ name[x] = c
  <2>2. x \in Named /\ Row(c) = version[x]
    BY <1>4, <2>1 DEF Row, RowIn, There
  <2>. HIDE DEF x
  <2>. QED BY <1>1, <1>2, <1>4, <2>2, Kinds DEF Value
<1>5. CASE c \in Alias
  <2>1. PICK u \in User : Row(c) = version[u]
    BY <1>5, RowOfAlias DEF Row
  <2>. QED BY <1>1, <1>2, <1>5, <2>1, Kinds DEF Value
<1>6. CASE c \in Joined
  <2>1. /\ RowOf[c] \in Object /\ UserOf[c] \in Object /\ version[RowOf[c]] # Gone
        /\ Row(c) = <<version[RowOf[c]], version[UserOf[c]]>>
    BY <1>6, RowOfJoined, Kinds DEF Row
  <2>. QED BY <1>1, <1>6, <2>1 DEF Value
<1>. QED BY <1>3, <1>4, <1>5, <1>6 DEF Key

\* The operations do not change when a read does.
LEMMA OrderlyStays ==
  ASSUME Orderly, UNCHANGED <<version, name, change>>
  PROVE  Orderly'
<1>1. NamesUnique' /\ Referring' /\ Locked' /\ Asked'
  BY SameRows DEF Orderly, Locked, Asked, Refers, NamesOf
<1>2. \A q \in Operator :
        change'[q].step = "open" => Covers(change'[q]) /\ Claims(change'[q]) /\ Keeps(change'[q])
  BY DEF Orderly, Prepared
<1>3. Prepared'
  BY <1>2, SameRows DEF Prepared
<1>. QED BY <1>1, <1>3 DEF Orderly

\* The type of the state after a step of a read.
LEMMA ReadTypeKept ==
  ASSUME TypeOK, NEW r \in Request, NEW new, IsRead(new), read' = [read EXCEPT ![r] = new],
         UNCHANGED <<version, name, change, changes>>,
         CacheTyped',
         leak' \in [Key -> Kind \cup {"overtaken", "not deleted"}]
  PROVE  TypeOK'
<1>1. /\ DOMAIN read' = Request /\ read'[r] = new
      /\ \A q \in Request \ {r} : read'[q] = read[q]
  BY DEF TypeOK
<1>2. \A q \in Request : IsRead(read'[q])
  BY <1>1 DEF TypeOK
<1>3. \A q \in Request : IsRead(read[q])'
  BY <1>2 DEF IsRead, Value, Key, Object, Name, Named, Single
<1>4. \A o \in Operator : IsOperation(change[o])'
  BY DEF TypeOK, IsOperation, Key, Object, Name, Named, Single, Kind, None
<1>. QED BY <1>1, <1>3, <1>4 DEF TypeOK, CacheTyped, Key, Object, Name, Named, Single, Kind

\* A read finds nothing in the cache and queries the database.
LEMMA MissStep ==
  ASSUME Consistent, NEW r \in Request, NEW c \in Key, Miss(r, c)
  PROVE  Consistent'
<1>. DEFINE new == Reading("found", c, Row(c))
<1>1. /\ read' = [read EXCEPT ![r] = new] /\ Row(c) # Gone
      /\ UNCHANGED <<version, name, cache, change, leak, changes>>
  BY DEF Miss
<1>2. IsRead(new)
  BY <1>1, FoundIsValue DEF Consistent, Reading, IsRead
<1>. HIDE DEF new
<1>3. TypeOK'
  <2>1. TypeOK /\ leak \in [Key -> Kind \cup {"overtaken", "not deleted"}]
    BY DEF Consistent, TypeOK
  <2>2. CacheTyped'
    BY <1>1, <2>1, CacheStays
  <2>. QED BY <1>1, <1>2, <2>1, <2>2, ReadTypeKept
<1>4. Orderly'
  BY <1>1, OrderlyStays DEF Consistent
<1>5. StaleOnlyByKnownLeaks'
  <2>. SUFFICES ASSUME NEW d \in Key, Stale(d)'
                PROVE  Awaited(d)' \/ leak'[d] \in KnownLeaks(d)
    BY Rigid DEF StaleOnlyByKnownLeaks
  <2>1. Stale(d) /\ (Awaited(d) => Awaited(d)')
    BY <1>1, SameRows DEF Stale, Awaited
  <2>. QED BY <1>1, <2>1 DEF Consistent, StaleOnlyByKnownLeaks
<1>. QED BY <1>3, <1>4, <1>5 DEF Consistent

\* A read stores what it found, which the row may have left behind meanwhile.
LEMMA FillStep ==
  ASSUME Consistent, NEW r \in Request, Fill(r)
  PROVE  Consistent'
<1>. DEFINE c == read[r].key
            cause == IF read[r].found = Row(c) THEN "none" ELSE "overtaken"
<1>1. c \in Key /\ read[r].found \in Value(c)
  BY DEF Consistent, TypeOK, IsRead, Fill
<1>2. /\ cache' = [cache EXCEPT ![c] = read[r].found] /\ leak' = [leak EXCEPT ![c] = cause]
      /\ read' = [read EXCEPT ![r] = NoRead]
      /\ UNCHANGED <<version, name, change, changes>>
  BY DEF Fill
<1>3. /\ TypeOK /\ DOMAIN cache = Key
      /\ \A d \in Key : cache[d] = Gone \/ cache[d] \in Value(d)
      /\ leak \in [Key -> Kind \cup {"overtaken", "not deleted"}]
  BY DEF Consistent, TypeOK
<1>4. cause \in Kind \cup {"overtaken", "not deleted"}
  BY DEF Kind
<1>5. TypeOK'
  <2>1. IsRead(NoRead)
    BY DEF NoRead, Reading, IsRead
  <2>2. CacheTyped'
    <3>. HIDE DEF c
    <3>1. DOMAIN cache' = Key /\ \A d \in Key : cache'[d] = Gone \/ cache'[d] \in Value(d)
      BY <1>1, <1>2, <1>3
    <3>. QED BY <3>1, Rigid DEF CacheTyped
  <2>3. leak' \in [Key -> Kind \cup {"overtaken", "not deleted"}]
    <3>. HIDE DEF c, cause
    <3>. QED BY <1>1, <1>2, <1>3, <1>4
  <2>. QED BY <1>2, <1>3, <2>1, <2>2, <2>3, ReadTypeKept
<1>6. Orderly'
  BY <1>2, OrderlyStays DEF Consistent
<1>7. StaleOnlyByKnownLeaks'
  <2>. SUFFICES ASSUME NEW d \in Key, Stale(d)'
                PROVE  Awaited(d)' \/ leak'[d] \in KnownLeaks(d)
    BY Rigid DEF StaleOnlyByKnownLeaks
  <2>1. CASE d = c
    <3>1. cache'[d] = read[r].found /\ leak'[d] = cause
      BY <1>1, <1>2, <1>3, <2>1
    <3>2. read[r].found # Row(c)
      BY <1>2, <2>1, <3>1, SameRows DEF Stale
    <3>. QED BY <3>1, <3>2, KnownOf
  <2>2. CASE d # c
    <3>1. cache'[d] = cache[d] /\ leak'[d] = leak[d]
      BY <1>2, <1>3, <2>2
    <3>2. Stale(d) /\ (Awaited(d) => Awaited(d)')
      BY <1>2, <3>1, SameRows DEF Stale, Awaited
    <3>. QED BY <3>1, <3>2 DEF Consistent, StaleOnlyByKnownLeaks
  <2>. QED BY <2>1, <2>2
<1>. QED BY <1>5, <1>6, <1>7 DEF Consistent

-----------------------------------------------------------------------------
(* The commit.                                                             *)

\* The operation op of o is about to commit the rows v and the names n.
Commits(o, op, v, n) ==
  /\ Consistent /\ op = change[o] /\ op.step = "open"
  /\ v = [x \in Object |-> IF x \in op.deletes THEN Gone
                           ELSE IF x \in op.writes THEN op.number ELSE version[x]]
  /\ n = IF op.named = Gone THEN name ELSE [name EXCEPT ![op.object] = op.named]

\* Which rows and names the commit changes.
LEMMA CommitRows ==
  ASSUME NEW o \in Operator, NEW op, NEW v, NEW n, Commits(o, op, v, n)
  PROVE  /\ Covers(op) /\ Claims(op) /\ Keeps(op) /\ IsOperation(op)
         /\ v \in [Object -> Nat \cup {Gone}] /\ n \in [Named -> Name]
         /\ \A x \in Object \ op.writes : v[x] = version[x]
         /\ \A x \in Named : (op.named = Gone \/ x # op.object) => n[x] = name[x]
         /\ op.named # Gone =>
              /\ op.object \in Named \cap op.writes /\ n[op.object] = op.named
              /\ op.named \in NamesOf(op.object)
              /\ \A y \in Named \ {op.object} : There(y) => name[y] # op.named
         /\ \A x \in Named : v[x] # Gone => There(x) \/ (op.named # Gone /\ x = op.object)
<1>1. Covers(op) /\ Claims(op) /\ Keeps(op) /\ IsOperation(op)
  BY DEF Commits, Consistent, Orderly, Prepared, TypeOK
<1>2. /\ op.writes \subseteq Object /\ op.deletes \subseteq op.writes /\ op.number \in Nat
      /\ op.named \in Name \cup {Gone}
  BY <1>1 DEF IsOperation
<1>3. version \in [Object -> Nat \cup {Gone}] /\ name \in [Named -> Name]
  BY DEF Commits, Consistent, TypeOK
<1>4. v = [x \in Object |-> IF x \in op.deletes THEN Gone
                            ELSE IF x \in op.writes THEN op.number ELSE version[x]]
  BY DEF Commits
<1>5. n = IF op.named = Gone THEN name ELSE [name EXCEPT ![op.object] = op.named]
  BY DEF Commits
<1>6. op.named # Gone =>
        /\ op.object \in Named \cap (op.writes \ op.deletes) /\ Free(op.object, op.named)
  BY <1>1 DEF Claims
<1>7. v \in [Object -> Nat \cup {Gone}] /\ \A x \in Object \ op.writes : v[x] = version[x]
  BY <1>2, <1>3, <1>4
<1>8. /\ n \in [Named -> Name]
      /\ \A x \in Named : (op.named = Gone \/ x # op.object) => n[x] = name[x]
      /\ op.named # Gone => n[op.object] = op.named
  BY <1>2, <1>3, <1>5, <1>6
<1>9. op.named # Gone =>
        /\ op.object \in Named \cap op.writes /\ op.named \in NamesOf(op.object)
        /\ \A y \in Named \ {op.object} : There(y) => name[y] # op.named
  BY <1>6 DEF Free
<1>10. \A x \in Named : v[x] # Gone => There(x) \/ (op.named # Gone /\ x = op.object)
  <2>. SUFFICES ASSUME NEW x \in Named, v[x] # Gone
                PROVE  There(x) \/ (op.named # Gone /\ x = op.object)
    OBVIOUS
  <2>1. x \in Object
    BY Kinds
  <2>2. x \notin op.deletes
    BY <1>4, <2>1
  <2>3. CASE x \in op.writes
    BY <1>1, <2>2, <2>3 DEF Claims
  <2>4. CASE x \notin op.writes
    BY <1>7, <2>1, <2>4 DEF There
  <2>. QED BY <2>3, <2>4
<1>. QED BY <1>1, <1>7, <1>8, <1>9, <1>10

\* Names stay unique.
LEMMA CommitNames ==
  ASSUME NEW o \in Operator, NEW op, NEW v, NEW n, Commits(o, op, v, n)
  PROVE  /\ \A x \in Named : n[x] \in NamesOf(x)
         /\ \A x, y \in Named : v[x] # Gone /\ v[y] # Gone /\ n[x] = n[y] => x = y
<1>1. NamesUnique
  BY DEF Commits, Consistent, Orderly
<1>2. ASSUME NEW x \in Named
      PROVE  n[x] \in NamesOf(x)
  BY <1>1, CommitRows DEF NamesUnique
<1>3. ASSUME NEW x \in Named, NEW y \in Named, v[x] # Gone, v[y] # Gone, n[x] = n[y], x # y
      PROVE  FALSE
  <2>1. CASE op.named # Gone /\ x = op.object
    <3>1. There(y) /\ n[y] = name[y] /\ n[x] = op.named
      BY <1>3, <2>1, CommitRows
    <3>. QED BY <1>3, <2>1, <3>1, CommitRows
  <2>2. CASE op.named # Gone /\ y = op.object
    <3>1. There(x) /\ n[x] = name[x] /\ n[y] = op.named
      BY <1>3, <2>2, CommitRows
    <3>. QED BY <1>3, <2>2, <3>1, CommitRows
  <2>3. CASE op.named = Gone \/ (x # op.object /\ y # op.object)
    <3>1. There(x) /\ n[x] = name[x] /\ There(y) /\ n[y] = name[y]
      BY <1>3, <2>3, CommitRows
    <3>. QED BY <1>1, <1>3, <3>1 DEF NamesUnique
  <2>. QED BY <2>1, <2>2, <2>3
<1>. QED BY <1>2, <1>3

\* The entry of a key whose row changes is deleted behind the commit, or it is known
\* that operations of this kind leave it behind.
LEMMA CommitCovers ==
  ASSUME NEW o \in Operator, NEW op, NEW v, NEW n, Commits(o, op, v, n),
         NEW c \in Key, Row(c) # Gone, RowIn(c, v, n) # Row(c)
  PROVE  c \in op.behind \/ op.kind \in KnownLeaks(c)
<1>1. Covers(op) /\ \A x \in Object : v[x] # version[x] => x \in op.writes
  BY CommitRows
<1>2. CASE c \in Object
  <2>1. v[c] # version[c] /\ version[c] # Gone
    BY <1>2, RowOfObject DEF Row
  <2>2. KeysOf(c) \subseteq op.behind \/ op.kind \in RowLeaks(c)
    BY <1>1, <1>2, <2>1 DEF Covers, There
  <2>. QED BY <1>2, <2>2, Kinds, KnownOf
<1>3. CASE c \in Name
  <2>1. \A x, y \in Named : There(x) /\ There(y) /\ name[x] = name[y] => x = y
    BY DEF Commits, Consistent, Orderly, NamesUnique
  <2>2. PICK x \in Named : There(x) /\ name[x] = c
    BY <1>3, RowOfNoName DEF Row, There
  <2>3. Row(c) = version[x]
    BY <1>3, <2>1, <2>2, RowOfName DEF Row, There
  <2>4. x \in Object
    BY Kinds
  <2>5. x \in op.writes
    <3>. SUFFICES ASSUME x \notin op.writes
                  PROVE  FALSE
      OBVIOUS
    <3>1. v[x] = version[x] /\ v[x] # Gone /\ n[x] = c
      BY <2>2, <2>4, CommitRows DEF There
    <3>2. \A y \in Named : v[y] # Gone /\ n[y] = n[x] => y = x
      BY <3>1, CommitNames
    <3>3. RowIn(c, v, n) = v[x]
      BY <1>3, <3>1, <3>2, RowOfName
    <3>. QED BY <2>3, <3>1, <3>3
  <2>. QED BY <1>1, <2>2, <2>5 DEF Covers
<1>4. CASE c \in Alias
  <2>1. AliasOf[c] \in User /\ \A w, m : RowIn(c, w, m) = w[AliasOf[c]]
    BY <1>4, RowOfAlias
  <2>2. /\ v[AliasOf[c]] # version[AliasOf[c]] /\ There(AliasOf[c])
        /\ AliasOf[c] \in op.writes
    BY <1>1, <2>1, Kinds DEF Row, There
  <2>. QED BY <1>1, <1>4, <2>2 DEF Covers
<1>5. CASE c \in Joined
  <2>1. /\ RowOf[c] \in Object /\ UserOf[c] \in Object
        /\ \A w, m : RowIn(c, w, m) = IF w[RowOf[c]] = Gone THEN Gone
                                      ELSE <<w[RowOf[c]], w[UserOf[c]]>>
    BY <1>5, RowOfJoined, Kinds
  <2>2. There(RowOf[c]) /\ There(UserOf[c])
    BY <1>5, <2>1 DEF Row, There, Commits, Consistent, Orderly, Referring
  <2>3. CASE v[RowOf[c]] # version[RowOf[c]]
    <3>1. KeysOf(RowOf[c]) \subseteq op.behind \/ op.kind \in RowLeaks(RowOf[c])
      BY <1>1, <2>1, <2>2, <2>3 DEF Covers
    <3>2. c \in KeysOf(RowOf[c])
      BY <1>5 DEF KeysOf
    <3>. QED BY <1>5, <3>1, <3>2, KnownOf
  <2>4. CASE v[RowOf[c]] = version[RowOf[c]]
    <3>1. v[UserOf[c]] # version[UserOf[c]]
      BY <2>1, <2>2, <2>4 DEF Row, There
    <3>2. UserOf[c] \in op.writes \ op.deletes
      BY <1>1, <1>5, <2>1, <2>2, <3>1, CommitRows DEF Keeps
    <3>. QED BY <1>1, <1>5, <2>2, <3>2 DEF Covers
  <2>. QED BY <2>3, <2>4
<1>. QED BY <1>2, <1>3, <1>4, <1>5 DEF Key

\* Rows refer to users that are there.
LEMMA CommitReferring ==
  ASSUME NEW o \in Operator, NEW op, NEW v, NEW n, Commits(o, op, v, n),
         NEW j \in Joined, v[RowOf[j]] # Gone
  PROVE  v[UserOf[j]] # Gone
<1>1. RowOf[j] \in Object /\ UserOf[j] \in Object
  BY RowOfJoined, Kinds
<1>2. /\ Keeps(op) /\ op.number \in Nat
      /\ v = [x \in Object |-> IF x \in op.deletes THEN Gone
                               ELSE IF x \in op.writes THEN op.number ELSE version[x]]
  BY CommitRows DEF Commits, IsOperation
<1>3. Gone \notin Nat
  BY EntityCacheAssumption
<1>4. There(UserOf[j]) /\ UserOf[j] \notin op.deletes
  <2>1. CASE RowOf[j] \in op.writes
    <3>1. RowOf[j] \in op.writes \ op.deletes
      BY <1>1, <1>2, <2>1
    <3>2. UserOf[j] \in Refers(op)
      BY <3>1 DEF Refers
    <3>. QED BY <1>2, <3>2 DEF Keeps
  <2>2. CASE RowOf[j] \notin op.writes
    <3>1. There(RowOf[j])
      BY <1>1, <2>2, CommitRows DEF There
    <3>. QED BY <1>2, <3>1 DEF Keeps, Commits, Consistent, Orderly, Referring
  <2>. QED BY <2>1, <2>2
<1>. QED BY <1>1, <1>2, <1>3, <1>4 DEF There

\* What is true of the other operations stays true.
LEMMA CommitOthers ==
  ASSUME NEW o \in Operator, NEW op, NEW v, NEW n, Commits(o, op, v, n),
         version' = v, name' = n,
         NEW q \in Operator \ {o}, NEW other, other = change[q], other.step = "open"
  PROVE  Covers(other)' /\ Claims(other)' /\ Keeps(other)'
<1>1. Covers(other) /\ Claims(other) /\ Keeps(other) /\ IsOperation(other)
  BY DEF Commits, Consistent, Orderly, Prepared, TypeOK
<1>2. /\ other.writes \cap op.writes = {} /\ (op.named # Gone => op.named # other.named)
      /\ op.deletes \cap Refers(other) = {} /\ other.deletes \cap Refers(op) = {}
  BY DEF Commits, Consistent, Orderly, Locked
<1>3. other.writes \subseteq Object
  BY <1>1 DEF IsOperation
<1>4. /\ \A x \in other.writes : v[x] = version[x]
      /\ \A x \in Named \cap other.writes : n[x] = name[x]
  BY <1>2, <1>3, CommitRows
<1>5. /\ \A x \in other.writes : There(x)' <=> There(x)
      /\ \A x \in other.writes \cap Named : name'[x] = name[x]
  BY <1>4 DEF There
<1>6. Covers(other)'
  <2>1. other.deletes \subseteq other.writes
    BY <1>1 DEF IsOperation
  <2>2. /\ \A x \in other.writes :
             There(x)' => KeysOf(x) \subseteq other.behind \/ other.kind \in RowLeaks(x)
        /\ \A x \in other.writes \cap Named :
             There(x)' => name'[x] \in other.behind \/ other.kind \in KnownLeaks(name'[x])
        /\ \A e \in Alias :
             AliasOf[e] \in other.writes /\ There(AliasOf[e])' => other.kind \in KnownLeaks(e)
        /\ \A j \in Joined :
             UserOf[j] \in other.writes \ other.deletes /\ There(UserOf[j])'
               => other.kind \in KnownLeaks(j)
    BY <1>1, <1>5, <2>1 DEF Covers
  <2>. QED BY <2>2, Rigid DEF Covers, KeysOf
<1>7. Claims(other)'
  <2>1. ASSUME other.named # Gone
        PROVE  other.object \in Named \cap (other.writes \ other.deletes)
               /\ Free(other.object, other.named)'
    <3>1. /\ other.object \in Named \cap (other.writes \ other.deletes)
          /\ other.named \in NamesOf(other.object)
          /\ \A y \in Named \ {other.object} : There(y) => name[y] # other.named
      BY <1>1, <2>1 DEF Claims, Free
    <3>2. ASSUME NEW y \in Named \ {other.object}, v[y] # Gone
          PROVE  n[y] # other.named
      <4>1. CASE op.named # Gone /\ y = op.object
        BY <1>2, <4>1, CommitRows
      <4>2. CASE op.named = Gone \/ y # op.object
        BY <3>1, <3>2, <4>2, CommitRows
      <4>. QED BY <4>1, <4>2
    <3>. QED BY <3>1, <3>2 DEF Free, There, NamesOf
  <2>2. \A x \in Named \cap (other.writes \ other.deletes) :
          There(x)' \/ (other.named # Gone /\ other.object = x)
    BY <1>1, <1>5 DEF Claims
  <2>. QED BY <2>1, <2>2 DEF Claims
<1>8. Keeps(other)'
  <2>1. ASSUME NEW u \in Refers(other)
        PROVE  There(u)' /\ u \notin other.deletes
    <3>1. There(u) /\ u \notin other.deletes /\ u \notin op.deletes /\ u \in Object
      BY <1>1, <1>2, RowOfJoined, Kinds DEF Keeps, Refers
    <3>2. v[u] # Gone
      BY <3>1, EntityCacheAssumption, CommitRows DEF There, Commits, IsOperation
    <3>. QED BY <3>1, <3>2 DEF There
  <2>2. ASSUME NEW j \in Joined, UserOf[j] \in other.deletes
        PROVE  ~There(RowOf[j])'
    <3>1. ~There(RowOf[j]) /\ RowOf[j] \in Object
      BY <1>1, <2>2, RowOfJoined DEF Keeps
    <3>2. RowOf[j] \notin op.writes \ op.deletes
      BY <1>2, <2>2 DEF Refers
    <3>3. v[RowOf[j]] = Gone
      BY <3>1, <3>2 DEF There, Commits
    <3>. QED BY <3>3 DEF There
  <2>. QED BY <2>1, <2>2 DEF Keeps, Refers
<1>. QED BY <1>6, <1>7, <1>8

\* An operation commits.
LEMMA CommitStep ==
  ASSUME Consistent, NEW o \in Operator, Commit(o)
  PROVE  Consistent'
<1>1. PICK op, v, n : op = change[o] /\ v = version' /\ n = name'
  OBVIOUS
<1>. DEFINE new == [change[o] EXCEPT !.step = "committed"]
<1>2. Commits(o, op, v, n)
  BY <1>1 DEF Commit, Commits
<1>3. /\ change' = [change EXCEPT ![o] = new] /\ UNCHANGED <<cache, read, changes>>
      /\ leak' = [c \in Key |->
           IF /\ cache[c] # Gone /\ cache[c] = Row(c) /\ RowIn(c, v, n) # Row(c)
              /\ c \notin op.behind
             THEN op.kind ELSE leak[c]]
  BY <1>1 DEF Commit
<1>4. /\ IsOperation(new) /\ new.step = "committed" /\ new.behind = op.behind
  <2>1. IsOperation(change[o]) /\ DOMAIN change[o] = DOMAIN None
    BY DEF Consistent, TypeOK, IsOperation
  <2>2. /\ new.step = "committed" /\ new.kind = change[o].kind
        /\ new.writes = change[o].writes /\ new.deletes = change[o].deletes
        /\ new.object = change[o].object /\ new.named = change[o].named
        /\ new.inside = change[o].inside /\ new.behind = change[o].behind
        /\ new.number = change[o].number /\ DOMAIN new = DOMAIN None
    BY <2>1, Fields
  <2>. HIDE DEF new
  <2>. QED BY <1>1, <2>1, <2>2 DEF IsOperation
<1>. HIDE DEF new
<1>5. /\ DOMAIN change' = Operator /\ change'[o] = new
      /\ \A q \in Operator \ {o} : change'[q] = change[q]
  BY <1>3, ChangeOfOne DEF Consistent
<1>6. TypeOK'
  <2>1. /\ version' \in [Object -> Nat \cup {Gone}] /\ name' \in [Named -> Name]
        /\ IsOperation(op)
    BY <1>1, <1>2, CommitRows
  <2>2. leak' \in [Key -> Kind \cup {"overtaken", "not deleted"}]
    BY <1>3, <2>1 DEF Consistent, TypeOK, IsOperation
  <2>3. \A q \in Operator : IsOperation(change'[q])
    BY <1>4, <1>5 DEF Consistent, TypeOK
  <2>4. \A q \in Operator : IsOperation(change[q])'
    BY <2>3 DEF IsOperation, Key, Object, Name, Named, Single, Kind, None
  <2>5. /\ DOMAIN read = Request /\ changes \in Nat
        /\ \A r \in Request : IsRead(read[r])
    BY DEF Consistent, TypeOK
  <2>6. \A r \in Request : IsRead(read[r])'
    BY <1>3, <2>5 DEF IsRead, Value, Key, Object, Name, Named, Single
  <2>7. CacheTyped'
    BY <1>3, CacheStays DEF Consistent
  <2>. QED BY <1>3, <1>5, <2>1, <2>2, <2>4, <2>5, <2>6, <2>7
           DEF TypeOK, CacheTyped, Key, Object, Name, Named, Single, Kind
<1>7. Orderly'
  <2>1. NamesUnique'
    BY <1>1, <1>2, CommitNames DEF NamesUnique, There, NamesOf
  <2>2. Locked' /\ Asked'
    BY <1>4, <1>5 DEF Consistent, Orderly, Locked, Asked, Refers, NamesOf
  <2>3. Prepared'
    <3>. SUFFICES ASSUME NEW q \in Operator, change'[q].step = "open"
                  PROVE  Covers(change[q])' /\ Claims(change[q])' /\ Keeps(change[q])'
      BY DEF Prepared
    <3>1. q # o
      BY <1>4, <1>5
    <3>2. PICK other : other = change[q]
      OBVIOUS
    <3>3. other.step = "open" /\ change'[q] = other
      BY <1>5, <3>1, <3>2
    <3>4. Covers(other)' /\ Claims(other)' /\ Keeps(other)'
      BY <1>1, <1>2, <3>1, <3>2, <3>3, CommitOthers
    <3>. QED BY <3>3, <3>4
  <2>4. Referring'
    BY <1>1, <1>2, CommitReferring DEF Referring, There
  <2>. QED BY <2>1, <2>2, <2>3, <2>4 DEF Orderly
<1>8. StaleOnlyByKnownLeaks'
  <2>. SUFFICES ASSUME NEW c \in Key, Stale(c)'
                PROVE  Awaited(c)' \/ leak'[c] \in KnownLeaks(c)
    BY Rigid DEF StaleOnlyByKnownLeaks
  <2>1. Row(c)' = RowIn(c, v, n)
    BY <1>1 DEF Row, RowIn, Object, Single, Name, Named
  <2>2. cache[c] # Gone /\ cache[c] # RowIn(c, v, n)
    BY <1>3, <2>1 DEF Stale
  <2>3. CASE Stale(c)
    <3>1. Awaited(c) => Awaited(c)'
      BY <1>1, <1>2, <1>5 DEF Awaited, Commits
    <3>2. leak'[c] = leak[c]
      BY <1>3, <2>3 DEF Stale
    <3>. QED BY <2>3, <3>1, <3>2 DEF Consistent, StaleOnlyByKnownLeaks
  <2>4. CASE ~Stale(c) /\ c \in op.behind
    BY <1>4, <1>5, <2>4 DEF Awaited
  <2>5. CASE ~Stale(c) /\ c \notin op.behind
    <3>1. cache[c] = Row(c)
      BY <2>2, <2>5 DEF Stale
    <3>2. op.kind \in KnownLeaks(c)
      BY <1>2, <2>2, <2>5, <3>1, CommitCovers
    <3>. QED BY <1>3, <2>2, <2>5, <3>1, <3>2
  <2>. QED BY <2>3, <2>4, <2>5
<1>. QED BY <1>6, <1>7, <1>8 DEF Consistent

-----------------------------------------------------------------------------
(* The theorems.                                                           *)

\* At first nothing is cached, and nobody does anything.
LEMMA InitConsistent ==
  ASSUME Init
  PROVE  Consistent
<1>1. /\ \A o \in Operator : change[o] = None /\ DOMAIN change = Operator
      /\ \A r \in Request : read[r] = NoRead /\ DOMAIN read = Request
      /\ \A c \in Key : cache[c] = Gone
  BY DEF Init
<1>2. TypeOK
  <2>1. version \in [Object -> Nat \cup {Gone}] /\ name \in [Named -> Name]
    BY EntityCacheAssumption DEF Init
  <2>2. /\ DOMAIN cache = Key /\ changes \in Nat
        /\ \A c \in Key : cache[c] = Gone \/ cache[c] \in Value(c)
    BY DEF Init
  <2>3. leak \in [Key -> Kind \cup {"overtaken", "not deleted"}]
    BY DEF Init, Kind
  <2>4. \A o \in Operator : IsOperation(change[o])
    BY <1>1, NoneIsOperation
  <2>5. \A r \in Request : IsRead(read[r])
    BY <1>1 DEF IsRead, NoRead, Reading
  <2>6. DOMAIN change = Operator /\ DOMAIN read = Request
    BY DEF Init
  <2>. QED BY <2>1, <2>2, <2>3, <2>4, <2>5, <2>6 DEF TypeOK
<1>3. NamesUnique
  <2>1. PICK there \in Populated : version = [x \in Object |-> IF x \in there THEN 0 ELSE Gone]
    BY DEF Init
  <2>2. name = FirstName
    BY DEF Init
  <2>3. \A x \in Named : There(x) => x \in there
    BY <2>1, Kinds DEF There
  <2>4. /\ \A x \in Named : FirstName[x] \in NamesOf(x)
        /\ \A x, y \in there \cap Named : FirstName[x] = FirstName[y] => x = y
    BY EntityCacheAssumption
  <2>. QED BY <2>2, <2>3, <2>4 DEF NamesUnique
<1>4. Locked /\ Asked /\ Prepared
  BY <1>1, NoneIsOperation DEF Locked, Asked, Prepared
<1>6. Referring
  <2>1. PICK there \in Populated : version = [x \in Object |-> IF x \in there THEN 0 ELSE Gone]
    BY DEF Init
  <2>2. \A j \in Joined : RowOf[j] \in Object /\ UserOf[j] \in Object
    BY RowOfJoined, Kinds
  <2>3. \A x \in Object : There(x) <=> x \in there
    BY <2>1, EntityCacheAssumption DEF There
  <2>. QED BY <2>2, <2>3, EntityCacheAssumption DEF Referring
<1>5. StaleOnlyByKnownLeaks
  BY <1>1 DEF StaleOnlyByKnownLeaks, Stale
<1>. QED BY <1>2, <1>3, <1>4, <1>5, <1>6 DEF Consistent, Orderly

\* Every step keeps the invariant.
LEMMA NextConsistent ==
  ASSUME Consistent, [Next]_vars
  PROVE  Consistent'
<1>1. ASSUME NEW o \in Operator, Change(o)
      PROVE  Consistent'
  <2>1. CASE Opening(o)
    <3>1. PICK op : Fits(o, op)
      BY <2>1, OpeningFits DEF Consistent, Orderly
    <3>. QED BY <3>1, OpenStep
  <2>2. CASE AskUser(o) \/ AskResource(o)
    BY <2>2, AskStep
  <2>3. CASE DeleteInside(o)
    BY <2>3, DeleteInsideStep
  <2>4. CASE Commit(o)
    BY <2>4, CommitStep
  <2>5. CASE DeleteBehind(o)
    BY <2>5, DeleteBehindStep
  <2>6. CASE Fails(o)
    BY <2>6, FailsStep
  <2>. QED BY <1>1, <2>1, <2>2, <2>3, <2>4, <2>5, <2>6 DEF Change, Opening, Finish
<1>2. ASSUME NEW r \in Request, Read(r)
      PROVE  Consistent'
  BY <1>2, MissStep, FillStep DEF Read
<1>3. CASE UNCHANGED vars
  <2>1. UNCHANGED <<version, name, cache, change, read, leak, changes>>
    BY <1>3 DEF vars
  <2>2. \A o \in Operator : IsOperation(change[o])'
    BY <2>1 DEF Consistent, TypeOK, IsOperation, Key, Object, Name, Named, Single, Kind, None
  <2>3. \A r \in Request : IsRead(read[r])'
    BY <2>1 DEF Consistent, TypeOK, IsRead, Key, Object, Name, Named, Single
  <2>4. TypeOK'
    BY <2>1, <2>2, <2>3 DEF Consistent, TypeOK, Key, Object, Name, Named, Single, Kind
  <2>5. Orderly'
    BY <2>1, OrderlyStays DEF Consistent
  <2>6. StaleOnlyByKnownLeaks'
    <3>. SUFFICES ASSUME NEW c \in Key, Stale(c)'
                  PROVE  Awaited(c)' \/ leak'[c] \in KnownLeaks(c)
      BY Rigid DEF StaleOnlyByKnownLeaks
    <3>1. Stale(c) /\ (Awaited(c) => Awaited(c)')
      BY <2>1, SameRows DEF Stale, Awaited
    <3>. QED BY <2>1, <3>1 DEF Consistent, StaleOnlyByKnownLeaks
  <2>. QED BY <2>4, <2>5, <2>6 DEF Consistent
<1>. QED BY <1>1, <1>2, <1>3 DEF Next

\* The invariant holds.
THEOREM ConsistentHolds == Spec => []Consistent
<1>1. Init => Consistent
  BY InitConsistent
<1>2. Consistent /\ [Next]_vars => Consistent'
  BY NextConsistent
<1>. QED BY <1>1, <1>2, PTL DEF Spec

\* The state keeps its type: an answer "not there" is never stored.
THEOREM TypeCorrect == Spec => []TypeOK
<1>1. Consistent => TypeOK
  BY DEF Consistent
<1>. QED BY <1>1, ConsistentHolds, PTL

\* However requests and operators interleave and fail, a cached entry that differs from its
\* row is about to be deleted, or was left behind in one of the known ways.
THEOREM StaleOnlyByKnownLeaksHolds == Spec => []StaleOnlyByKnownLeaks
<1>1. Consistent => StaleOnlyByKnownLeaks
  BY DEF Consistent
<1>. QED BY <1>1, ConsistentHolds, PTL
=============================================================================
