SPECIFICATION Spec
CONSTANTS
  a = a
  b = b
  p = p
  q = q
  k1 = k1
  k2 = k2
  y = y
  No = No
  None = None
  Partial = Partial
  Val <- Values
  Pkg <- WidePkg
  BuildDep <- WideDep
  Sym <- WideSym
  Kver = {k1, k2}
  Calc <- WideCalc
  Uses <- WideUses
  ToolSym = {a}
  Interrupts = FALSE
INVARIANTS TypeOK BuiltIsCurrent AutoMarksCompletion
PROPERTY TreeErasedFirst
CHECK_DEADLOCK FALSE
