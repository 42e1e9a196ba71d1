SPECIFICATION Spec
INVARIANTS FaultNeedsRaceOrEmptyMap FileIsWholeBetweenSaves SoloAdditionLasts
PROPERTY SoloRequestRepairs
CONSTANTS
  Names = {sys, a}
  SysName = sys
  Configs = {Sys, u}
  Sys = Sys
  a = a
  u = u
  Inputs <- MCInputs
  MaxBegin = 3
  Handlers = {h1, h2}
  Main = main
  None = None
CHECK_DEADLOCK FALSE
SYMMETRY HandlerSymmetry
