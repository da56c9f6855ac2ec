SPECIFICATION FairSpec
CONSTANTS
  Echo = {e1}
  Report = {r1, r2}
  NoFile = NoFile
  Empty = Empty
  Crashes = TRUE
INVARIANTS TypeOK MutualExclusion UnlockFindsOwnFile OneShortLog
PROPERTY EveryJobLeaves
CHECK_DEADLOCK FALSE
