\* One write buffer that flushes at two items, metrics of two buckets.  Pushes end at
\* the bound, so the system comes to rest.
CONSTANTS
  Store = {audit}
  Threshold <- FlushAtTwo
  Bucket = {b1, b2}
  MaxAttempts = 2
  MaxPushed = 4
  Loads <- AloneAndTogether
CHECK_DEADLOCK FALSE
SPECIFICATION FairSpec
INVARIANTS
  TypeOK
  NothingDisappears
  StoredOnce
  CountedExactly
  CountedBounded
PROPERTY BuffersDrain
