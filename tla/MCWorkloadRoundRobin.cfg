CONSTANTS
  Callers = {p1, p2, p3, p4, keeper}
  interactive = interactive
  background = background
  control = control
  a = a
  b = b
  third = third
  keeper = keeper
  ClassOrder <- MCThreeClasses
  NodeClasses = {control}
  Workspaces = {a, b, third}
  NodeWorkspace = node
  NoRequest = none
  MaxRunning = 2
  MaximumQueued = 3
  ReservedRunning <- MCReserved
  MaximumRunning <- MCMaximum
  ClassMaximumQueued <- MCQueued
  MaximumQueuedPerWorkspace <- MCPerWorkspace
  TimedClasses = {interactive, control}
SYMMETRY CallerSymmetry
SPECIFICATION WorkspacesSpec
PROPERTIES WorkspacesRoundRobin
