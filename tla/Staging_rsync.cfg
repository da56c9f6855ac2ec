SPECIFICATION Spec
CONSTANTS
  f = f
  g = g
  p = p
  q = q
  c1 = c1
  c2 = c2
  None = None
  Pkg <- Packages
  File <- FileNames
  Content <- Contents
  Makes <- Installations
  BuildDep <- QAfterP
  Runtime <- Patterns
  RsyncFails = {p, q}
INVARIANT DependenciesStaged
CHECK_DEADLOCK FALSE
