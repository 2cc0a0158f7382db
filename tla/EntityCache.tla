----------------------------- MODULE EntityCache -----------------------------
(***************************************************************************)
(* The configuration that every request reads through the cache: AI        *)
(* resources, API keys, pool definitions, users, workspaces, their members *)
(* and environments.  cache.wrap() answers from Redis, or reads the        *)
(* database and stores what it found, with no expiry; the operations of    *)
(* the services commit their rows and delete the keys they think of, some  *)
(* of them before the commit.                                              *)
(*                                                                         *)
(* What a row says is its version.  The keys of an object that hold its    *)
(* row alone and are always deleted together (by identifier and by hash)   *)
(* are one; the one under which it is cached with the user who wrote it    *)
(* (":includesUser") is another, deleted along with the first.             *)
(***************************************************************************)
EXTENDS Naturals, Sequences, FiniteSets

CONSTANTS
  Resource, ApiKey, User,      \* the identifiers there may be
  ResourceName, UserName,
  Alias, AliasOf,              \* what else a user is looked up by: see below
  Joined, RowOf, UserOf,       \* the keys of rows cached with a user, which and whom
  FirstName,                   \* the name each resource and user begins with
  Populated,                   \* the sets of objects that may be there at first
  Request,                     \* who reads through the cache
  Operator,                    \* who changes rows; one operation at a time each
  Gone,                        \* no row; nothing cached; no name
  MaxChanges                   \* bound: the operations begun

Single == {"pool", "workspace", "environment", "member"}

Named == Resource \cup User
NamesOf(x) == IF x \in User THEN UserName ELSE ResourceName
Name == ResourceName \cup UserName

Object == Resource \cup ApiKey \cup User \cup Single

\* An alias is the user's e-mail, or its name or e-mail in other letters: the query takes
\* no notice of the case of what it looks for, and the key does.
Key == Object \cup Name \cup Alias \cup Joined

\* Keys of different kinds differ, and what is there at first has names of its own.
ASSUME EntityCacheAssumption ==
  /\ Resource \cap ApiKey = {} /\ User \cap (Resource \cup ApiKey) = {}
  /\ Single \cap (Resource \cup ApiKey \cup User) = {}
  /\ ResourceName \cap UserName = {} /\ Name \cap Object = {}
  /\ Alias \cap (Object \cup Name) = {} /\ Joined \cap (Object \cup Name \cup Alias) = {}
  /\ Gone \notin Key \cup Nat
  /\ AliasOf \in [Alias -> User]
  /\ RowOf \in [Joined -> Object \ (User \cup {"member"})] /\ UserOf \in [Joined -> User]
  /\ FirstName \in [Named -> Name] /\ \A x \in Named : FirstName[x] \in NamesOf(x)
  /\ Populated \subseteq SUBSET Object
  /\ \A there \in Populated : \A x, y \in there \cap Named : FirstName[x] = FirstName[y] => x = y
  /\ \A there \in Populated : \A j \in Joined : RowOf[j] \in there => UserOf[j] \in there
  /\ MaxChanges \in Nat

VARIABLES
  version,   \* database: the version of each object's row
  name,      \* database: the name of each resource and user
  cache,     \* Redis: the version each key holds, or those of the row and the user
  change,    \* the operation of each operator
  read,      \* the read of each request
  leak,      \* history: what left the entry of a key behind when its row changed
  changes    \* the operations begun, which number the versions; bounded

vars == <<version, name, cache, change, read, leak, changes>>

-----------------------------------------------------------------------------
\* What the query behind a key returns, of the rows v with the names n.
RowIn(c, v, n) ==
  IF c \in Object THEN v[c]
  ELSE IF c \in Name
    THEN IF \E x \in Named : v[x] # Gone /\ n[x] = c
           THEN v[CHOOSE x \in Named : v[x] # Gone /\ n[x] = c]
           ELSE Gone
  ELSE IF c \in Alias THEN v[AliasOf[c]]
  ELSE IF v[RowOf[c]] = Gone THEN Gone
  ELSE <<v[RowOf[c]], v[UserOf[c]]>>

Row(c) == RowIn(c, version, name)

There(x) == version[x] # Gone

\* The keys that hold the row of an object by its identifier.
KeysOf(x) == {x} \cup {j \in Joined : RowOf[j] = x}

\* An operation under way: whose rows it writes and which of them it deletes, the name
\* it gives to whom, the keys it deletes inside of its transaction (one set after the
\* other) and those it deletes behind the commit.
Operation(kind, writes, deletes, object, named, inside, behind) ==
  [step |-> "open", kind |-> kind, writes |-> writes, deletes |-> deletes,
   object |-> object, named |-> named, inside |-> inside, behind |-> behind, number |-> 0]

None ==
  [step |-> "idle", kind |-> "none", writes |-> {}, deletes |-> {},
   object |-> Gone, named |-> Gone, inside |-> <<>>, behind |-> {}, number |-> 0]

Reading(step, c, found) == [step |-> step, key |-> c, found |-> found]

NoRead == Reading("idle", Gone, Gone)

Init ==
  /\ \E there \in Populated : version = [x \in Object |-> IF x \in there THEN 0 ELSE Gone]
  /\ name = FirstName
  /\ cache = [c \in Key |-> Gone]
  /\ change = [o \in Operator |-> None]
  /\ read = [r \in Request |-> NoRead]
  /\ leak = [c \in Key |-> "none"]
  /\ changes = 0

-----------------------------------------------------------------------------
(* The requests: cache.wrap().  A hit changes nothing.                     *)

\* Nothing is cached, and the database is read (what others store in between is a row that
\* was current then); what is not there is not stored.
Miss(r, c) ==
  /\ read[r].step = "idle" /\ cache[c] = Gone /\ Row(c) # Gone
  /\ read' = [read EXCEPT ![r] = Reading("found", c, Row(c))]
  /\ UNCHANGED <<version, name, cache, change, leak, changes>>

Fill(r) ==
  LET c == read[r].key
  IN  /\ read[r].step = "found"
      /\ cache' = [cache EXCEPT ![c] = read[r].found]
      /\ leak' = [leak EXCEPT ![c] = IF read[r].found = Row(c) THEN "none" ELSE "overtaken"]
      /\ read' = [read EXCEPT ![r] = NoRead]
      /\ UNCHANGED <<version, name, change, changes>>

-----------------------------------------------------------------------------
(* What all operations have in common.                                     *)

\* The users that the rows an operation leaves in the database refer to.
Refers(op) == {UserOf[j] : j \in {i \in Joined : RowOf[i] \in op.writes \ op.deletes}}

\* The rows, the name and the users referred to are locked until the transaction ends.
Lockable(o, op) ==
  \A q \in Operator \ {o} :
    change[q].step = "open" =>
      /\ change[q].writes \cap op.writes = {}
      /\ op.named # Gone => change[q].named # op.named
      /\ change[q].deletes \cap Refers(op) = {} /\ op.deletes \cap Refers(change[q]) = {}

\* Nobody else has the name: the unique constraint.
Free(x, n) == n \in NamesOf(x) /\ \A y \in Named \ {x} : There(y) => name[y] # n

Open(o, op) ==
  /\ changes < MaxChanges /\ Lockable(o, op)
  /\ changes' = changes + 1
  /\ change' = [change EXCEPT ![o] = [op EXCEPT !.number = changes + 1]]
  /\ UNCHANGED <<version, name, cache, read, leak>>

Begin(o, op) == change[o].step = "idle" /\ Open(o, op)

Belongings == Resource \cup ApiKey \cup {"pool"}

\* What the foreign keys of a new row refer to, and nobody is deleting.
Homed(x) ==
  LET Kept(y) == There(y) /\ \A q \in Operator : change[q].step = "open" => y \notin change[q].deletes
  IN  /\ x \in Belongings => Kept("environment")
      /\ x \in {"environment", "member"} => Kept("workspace")
      /\ \A j \in Joined : RowOf[j] = x => There(UserOf[j])

\* One row, which gets no new name, and the keys that are deleted behind the commit.
Update(o, kind, x, behind) ==
  There(x) /\ Begin(o, Operation(kind, {x}, {}, Gone, Gone, <<>>, behind))

Create(o, kind, x) ==
  ~There(x) /\ Homed(x) /\ Begin(o, Operation(kind, {x}, {}, Gone, Gone, <<>>, {}))

\* Deleting a row that is not there is no error.
Delete(o, kind, x, behind) == Begin(o, Operation(kind, {x}, {x}, Gone, Gone, <<>>, behind))

-----------------------------------------------------------------------------
(* AI resources, API keys and pool definitions.                            *)

\* An update first selects the old name, without locking the row.
AskResource(o) ==
  \E r \in Resource :
    /\ change[o].step = "idle" /\ changes < MaxChanges /\ There(r)
    /\ change' = [change EXCEPT ![o] =
         [None EXCEPT !.step = "asked", !.object = r, !.named = name[r]]]
    /\ UNCHANGED <<version, name, cache, read, leak, changes>>

\* Mutant: the key of the new name is deleted, not that of the old one.
UpdateResourceNewName(o) ==
  LET r == change[o].object
      kind == IF change[o].named = name[r]
                THEN "update resource" ELSE "update resource by an old name"
  IN  \E n \in ResourceName :
        /\ change[o].step = "asked" /\ r \in Resource /\ There(r) /\ Free(r, n)
        /\ Open(o, Operation(kind, {r}, {}, r, n, <<>>, KeysOf(r) \cup {n}))

\* Who renamed it in between is not noticed: the key of the name it got is not deleted.
UpdateResource(o) ==
  LET r == change[o].object
      old == change[o].named
      kind == IF old = name[r] THEN "update resource" ELSE "update resource by an old name"
  IN  \E n \in ResourceName :
        /\ change[o].step = "asked" /\ r \in Resource /\ There(r) /\ Free(r, n)
        /\ Open(o, Operation(kind, {r}, {}, r, n, <<>>, KeysOf(r) \cup {old}))

Inside(xs) == IF xs = {} THEN <<>> ELSE <<UNION {KeysOf(x) : x \in xs}>>

\* The API keys it is assigned to list it: appendResource deletes their keys inside of
\* the transaction.
CreateResource(o) ==
  \E r \in Resource, n \in ResourceName, ks \in SUBSET ApiKey :
    /\ ~There(r) /\ Homed(r) /\ Free(r, n) /\ \A k \in ks : There(k)
    /\ Begin(o, Operation("create resource", {r} \cup ks, {}, r, n, Inside(ks), {}))

\* The pool definition, when (the cache says that) it lists the resource, and the API keys
\* that list it are rewritten, and their keys deleted, inside of the transaction; of the
\* resource the key by identifier is deleted behind it.
DeleteResource(o) ==
  \E r \in Resource, ps \in SUBSET {"pool"}, ks \in SUBSET ApiKey :
    /\ There(r) /\ \A x \in ps \cup ks : There(x)
    /\ Begin(o, Operation("delete resource", {r} \cup ps \cup ks, {r}, Gone, Gone,
                          Inside(ps) \o Inside(ks), KeysOf(r)))

\* Deleting an AI connection deletes the resources that mention it, and no key of them.
DeleteConnection(o) ==
  \E rs \in SUBSET Resource \ {{}} :
    /\ \A r \in rs : There(r)
    /\ Begin(o, Operation("delete connection", rs, rs, Gone, Gone, <<>>, {}))

ChangeApiKey(o) ==
  \E k \in ApiKey :
    \/ Create(o, "create api key", k)
    \/ Update(o, "update api key", k, KeysOf(k))
    \/ There(k) /\ Delete(o, "delete api key", k, KeysOf(k))

\* upsert outside of a deletion, and delete.
ChangePool(o) ==
  \/ /\ There("pool") \/ Homed("pool")
     /\ Begin(o, Operation("upsert pool", {"pool"}, {}, Gone, Gone, <<>>, KeysOf("pool")))
  \/ Delete(o, "delete pool", "pool", KeysOf("pool"))

-----------------------------------------------------------------------------
(* Users.                                                                  *)

\* Mutant: nobody checks that there is such a user.
AskUserUnknown(o) ==
  \E u \in User, n \in UserName \cup {Gone} :
    /\ change[o].step = "idle" /\ changes < MaxChanges
    /\ cache[u] \in {Gone, version[u]} => n = IF There(u) THEN name[u] ELSE Gone
    /\ change' = [change EXCEPT ![o] =
         [None EXCEPT !.step = "asked", !.object = u, !.named = n]]
    /\ UNCHANGED <<version, name, cache, read, leak, changes>>

\* update and delete first read the old user through the cache; where the cache holds an
\* older version, with whatever name that had.
AskUser(o) ==
  \E u \in User, n \in UserName :
    /\ change[o].step = "idle" /\ changes < MaxChanges
    /\ cache[u] = Gone => There(u)
    /\ cache[u] \in {Gone, version[u]} => n = name[u]
    /\ change' = [change EXCEPT ![o] =
         [None EXCEPT !.step = "asked", !.object = u, !.named = n]]
    /\ UNCHANGED <<version, name, cache, read, leak, changes>>

UpdateUser(o) ==
  LET u == change[o].object
      old == change[o].named
      kind == IF old = name[u] THEN "update user" ELSE "update user by an old name"
  IN  \E n \in UserName :
        /\ change[o].step = "asked" /\ u \in User /\ There(u) /\ Free(u, n)
        /\ Open(o, Operation(kind, {u}, {}, u, n, <<>>, {u, old}))

\* A foreign key keeps a user to whom a row refers.
DeleteUser(o) ==
  LET u == change[o].object
      old == change[o].named
      kind == IF old = name[u] THEN "delete user" ELSE "delete user by an old name"
  IN  /\ change[o].step = "asked" /\ u \in User
      /\ \A j \in Joined : UserOf[j] = u => ~There(RowOf[j])
      /\ Open(o, Operation(kind, {u}, {u}, Gone, Gone, <<>>, {u, old}))

\* create, and createOidcUser of a user that is not there.
CreateUser(o) ==
  \E u \in User, n \in UserName :
    /\ ~There(u) /\ Free(u, n)
    /\ Begin(o, Operation("create user", {u}, {}, u, n, <<>>, {}))

\* createOidcUser of a user there is: the provider is written into the row.
SignInOidc(o) == \E u \in User : Update(o, "oidc sign-in", u, {})

-----------------------------------------------------------------------------
(* Workspaces, their members and environments.                             *)

\* Its creator becomes a member, who may be the one looked at.
ChangeWorkspace(o) ==
  \/ /\ ~There("workspace") /\ Homed("workspace")
     /\ \E owner \in SUBSET ({"member"} \cap {x \in Object : ~There(x)}) :
          Begin(o, Operation("create workspace", {"workspace"} \cup owner, {}, Gone, Gone,
                             <<>>, {}))
  \/ Update(o, "update workspace", "workspace", KeysOf("workspace"))

ChangeMember(o) ==
  \/ Create(o, "assign member", "member")
  \/ Delete(o, "unassign member", "member", {"member"})
  \/ Update(o, "update member role", "member", {})

ChangeEnvironment(o) ==
  \/ Create(o, "create environment", "environment")
  \/ Update(o, "update environment", "environment", KeysOf("environment"))

\* The foreign keys delete what belongs to the row, once nobody else writes any of it.
Cascade(o, kind, x, below) ==
  LET rows == {x} \cup {y \in below : There(y)}
  IN  /\ There(x) /\ \A q \in Operator : change[q].step # "open"
      /\ Begin(o, Operation(kind, rows, rows, Gone, Gone, <<>>, KeysOf(x)))

DeleteEnvironment(o) == Cascade(o, "delete environment", "environment", Belongings)

DeleteWorkspace(o) ==
  Cascade(o, "delete workspace", "workspace", Belongings \cup {"environment", "member"})

-----------------------------------------------------------------------------
\* The keys deleted before the commit: who reads now fills them with the old rows.
DeleteInside(o) ==
  LET keys == Head(change[o].inside)
  IN  /\ change[o].step = "open" /\ change[o].inside # <<>>
      /\ cache' = [c \in Key |-> IF c \in keys THEN Gone ELSE cache[c]]
      /\ leak' = [c \in Key |-> IF c \in keys THEN "none" ELSE leak[c]]
      /\ change' = [change EXCEPT ![o].inside = Tail(@)]
      /\ UNCHANGED <<version, name, read, changes>>

\* An entry that agreed with its row and does not any more is left behind, unless its key
\* is deleted behind the commit.
Commit(o) ==
  LET op == change[o]
      v == [x \in Object |-> IF x \in op.deletes THEN Gone
                             ELSE IF x \in op.writes THEN op.number ELSE version[x]]
      n == IF op.named = Gone THEN name ELSE [name EXCEPT ![op.object] = op.named]
  IN  /\ op.step = "open" /\ op.inside = <<>>
      /\ version' = v /\ name' = n
      /\ leak' = [c \in Key |->
           IF /\ cache[c] # Gone /\ cache[c] = Row(c) /\ RowIn(c, v, n) # Row(c)
              /\ c \notin op.behind
             THEN op.kind ELSE leak[c]]
      /\ change' = [change EXCEPT ![o].step = "committed"]
      /\ UNCHANGED <<cache, read, changes>>

DeleteBehind(o) ==
  LET keys == change[o].behind
  IN  /\ change[o].step = "committed"
      /\ cache' = [c \in Key |-> IF c \in keys THEN Gone ELSE cache[c]]
      /\ leak' = [c \in Key |-> IF c \in keys THEN "none" ELSE leak[c]]
      /\ change' = [change EXCEPT ![o] = None]
      /\ UNCHANGED <<version, name, read, changes>>

\* A constraint, the database or Redis makes the operation fail, or the process ends: a
\* transaction is undone, but keys not yet deleted behind a commit are never deleted.
Fails(o) ==
  /\ change[o].step # "idle"
  /\ change' = [change EXCEPT ![o] = None]
  /\ leak' = [c \in Key |->
       IF /\ change[o].step = "committed" /\ c \in change[o].behind
          /\ cache[c] \notin {Gone, Row(c)}
         THEN "not deleted" ELSE leak[c]]
  /\ UNCHANGED <<version, name, cache, read, changes>>

Finish(o) == DeleteInside(o) \/ Commit(o) \/ DeleteBehind(o)

Change(o) ==
  \/ AskResource(o) \/ UpdateResource(o) \/ CreateResource(o) \/ DeleteResource(o)
  \/ DeleteConnection(o) \/ ChangeApiKey(o) \/ ChangePool(o)
  \/ AskUser(o) \/ UpdateUser(o) \/ DeleteUser(o) \/ CreateUser(o) \/ SignInOidc(o)
  \/ ChangeWorkspace(o) \/ ChangeMember(o) \/ ChangeEnvironment(o)
  \/ DeleteEnvironment(o) \/ DeleteWorkspace(o)
  \/ Finish(o) \/ Fails(o)

Read(r) == (\E c \in Key : Miss(r, c)) \/ Fill(r)

Next == (\E o \in Operator : Change(o)) \/ (\E r \in Request : Read(r))

Spec == Init /\ [][Next]_vars

-----------------------------------------------------------------------------
Kind ==
  {"none", "update resource", "update resource by an old name", "create resource",
   "delete resource", "delete connection", "create api key",
   "update api key", "delete api key", "upsert pool", "delete pool", "update user",
   "update user by an old name", "delete user", "delete user by an old name", "create user",
   "oidc sign-in", "create workspace", "update workspace", "assign member",
   "unassign member", "update member role", "create environment", "update environment",
   "delete environment", "delete workspace"}

IsOperation(op) ==
  /\ DOMAIN op = DOMAIN None
  /\ op.step \in {"idle", "asked", "open", "committed"} /\ op.kind \in Kind
  /\ op.writes \subseteq Object /\ op.deletes \subseteq op.writes
  /\ op.object \in Named \cup {Gone} /\ op.named \in Name \cup {Gone}
  /\ op.inside \in Seq(SUBSET Key) /\ op.behind \subseteq Key /\ op.number \in Nat

\* What there may be under a key.
Value(c) == IF c \in Joined THEN Nat \X (Nat \cup {Gone}) ELSE Nat

IsRead(r) ==
  \/ r.step = "idle" /\ r.key = Gone /\ r.found = Gone
  \/ r.step = "found" /\ r.key \in Key /\ r.found \in Value(r.key)

\* An answer "not there" is never stored, among others.
TypeOK ==
  /\ version \in [Object -> Nat \cup {Gone}] /\ name \in [Named -> Name]
  /\ DOMAIN cache = Key /\ \A c \in Key : cache[c] = Gone \/ cache[c] \in Value(c)
  /\ DOMAIN change = Operator /\ \A o \in Operator : IsOperation(change[o])
  /\ DOMAIN read = Request /\ \A r \in Request : IsRead(read[r])
  /\ leak \in [Key -> Kind \cup {"overtaken", "not deleted"}] /\ changes \in Nat

Stale(c) == cache[c] \notin {Gone, Row(c)}

\* An operation has committed and is going to delete the key.
Awaited(c) == \E o \in Operator : change[o].step = "committed" /\ c \in change[o].behind

\* The operations that change the row of an object without deleting its keys, or delete
\* them too early.
RowLeaks(x) ==
  CASE x \in Resource    -> {"delete connection", "delete environment", "delete workspace"}
    [] x \in ApiKey      -> {"create resource", "delete resource", "delete environment",
                              "delete workspace"}
    [] x = "pool"        -> {"delete resource", "delete environment", "delete workspace"}
    [] x = "environment" -> {"delete workspace"}
    [] x = "member"      -> {"update member role", "delete workspace"}
    [] x = "workspace"   -> {}
    [] OTHER             -> {"oidc sign-in"}

\* What is known to leave an entry behind for good: a read that the change has overtaken
\* between its query and its set; an operation that failed behind its commit; and those
\* of the row, of the user cached with it, and of whom a name or an alias leads to.
KnownLeaks(c) ==
  {"overtaken", "not deleted"} \cup
  (CASE c \in Object        -> RowLeaks(c)
     [] c \in Joined        -> RowLeaks(RowOf[c]) \cup
                               {"oidc sign-in", "update user", "update user by an old name"}
     [] c \in ResourceName  -> {"update resource by an old name", "delete resource",
                                "delete connection", "delete environment",
                                "delete workspace"}
     [] c \in UserName      -> {"oidc sign-in", "update user by an old name",
                                "delete user by an old name"}
     [] OTHER               -> {"oidc sign-in", "update user by an old name",
                                "delete user by an old name", "update user", "delete user"})

\* "Configuration changes ... are stored in PostgreSQL, and cached in Redis for fast
\* access": whatever requests and operators do to each other, an entry that differs from
\* its row is about to be deleted, or was left behind in one of the known ways.
StaleOnlyByKnownLeaks ==
  \A c \in Key : Stale(c) => Awaited(c) \/ leak[c] \in KnownLeaks(c)
=============================================================================
