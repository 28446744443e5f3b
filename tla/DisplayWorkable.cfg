SPECIFICATION Spec
CONSTANTS
  Width = 4
  Height = 3
  Machines <- MCMachines
INVARIANT WorkableScreen
