SPECIFICATION FairSpec
CONSTANTS
  a = a
  b = b
  p = p
  q = q
  k1 = k1
  k2 = k2
  y = y
  No = No
  None = None
  Partial = Partial
  Val <- Values
  Pkg <- DeepPkg
  BuildDep <- DeepDep
  Sym <- DeepSym
  Kver = {k1, k2}
  Calc <- DeepCalc
  Uses <- DeepUses
  ToolSym = {}
  Interrupts = TRUE
INVARIANT ConfigKept
PROPERTY MakeEnds
CHECK_DEADLOCK FALSE
