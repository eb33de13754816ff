CONSTANTS
  Callers = {p1, p2, p3}
  p1 = p1
  interactive = interactive
  control = control
  a = a
  b = b
  ClassOrder <- MCTwoClasses
  NodeClasses = {control}
  Workspaces = {a, b}
  NodeWorkspace = node
  NoRequest = none
  MaxRunning = 1
  MaximumQueued = 2
  ReservedRunning <- MCNoneReserved
  MaximumRunning <- MCOneEach
  ClassMaximumQueued <- MCTwoQueued
  MaximumQueuedPerWorkspace <- MCOneEach
  TimedClasses = {control}
SPECIFICATION FairSpec
PROPERTIES AcquireReturns
