CONSTANTS
  b1 = b1
  b2 = b2
  k1 = k1
  k2 = k2
  NoOne = NoOne
  Builder = {b1, b2}
  Caller = {b1, b2}
  Kid = {k1, k2}
  Forker = {b1}
  FirstEntry = "old"
  MaxKills = 1
SPECIFICATION FairSpec
INVARIANT LeftIsNewborn
INVARIANT NoStrangerSignalled
INVARIANT EntryIsWhole
INVARIANT PublishedIsBuilt
PROPERTY PublishedStays
PROPERTY BuildsEnd
\* The builds end.
CHECK_DEADLOCK FALSE
