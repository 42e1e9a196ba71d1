SPECIFICATION Spec
INVARIANT SetGeneralPrecondition
CONSTANTS
  Names = {sys, a}
  SysName = sys
  Configs = {Sys, u}
  Sys = Sys
  a = a
  u = u
  Inputs <- MCInputs
  MaxBegin = 1
  Handlers = {h1}
  Main = main
  None = None
CHECK_DEADLOCK FALSE
