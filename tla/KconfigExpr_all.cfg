SPECIFICATION Spec
CONSTANTS
  BoolSym = {A}
  TriSym = {T}
  A = A
  T = T
  Compared <- MCCompared
  MaxOperands = 4
INVARIANTS TypeOK DefiniteKept VisibleKept SubmenuHidden PrintKept EveryRoundShrinks
