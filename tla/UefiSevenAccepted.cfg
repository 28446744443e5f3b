SPECIFICATION Spec
CONSTANTS
  Width = 4
  Height = 3
  W16 = 64
  W32 = 1024
  Bank = 16
  MaxRuns = 2
  Machines <- MCMachines
INVARIANT AcceptedHandlerServes
CHECK_DEADLOCK FALSE
