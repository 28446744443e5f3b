SPECIFICATION Spec
CONSTANTS
  Width = 4
  Height = 3
  Machines <- MCMachines
INVARIANTS
  TypeOK
  ReadyGeometry
  ScanlinesAlign
  HackIsLastResort
PROPERTY RoutinesReturn
