SPECIFICATION MCSpec
CONSTANTS
  c1 = c1
  c2 = c2
  a = a
  b = b
  d = d
  i1 = i1
  i2 = i2
  Root = root
  User = user
  Same = same
  UnknownIsReal = FALSE
  Client = {c1, c2}
  Shell = ls
  Name = {a, b, d}
  Names <- MCNames
  Ino = {i1, i2}
  noino = noino
  NoIno = noino
  Dir0 <- MCDir
  Uid = {admin}
  Mode = {"ro"}
  None = none
  Cap = 2
  Faults = {"signal"}
  MaxCalls = 3
  MaxKills = 2
  MaxSessions = 2
  IdProc = {c1, c2}
  UserId = {0, 1, 2}
  MaxIdCalls = 3
INVARIANT InOrder
