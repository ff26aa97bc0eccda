SPECIFICATION Spec
CONSTANTS
  MaxPeers = 3
  Me = 0
  OwnPosition = 3
  Positions <- MCPositions
  AlertDistance = 2
INVARIANTS
  TypeOK
  NearestIsNearest
PROPERTIES
  FirstIsolationAlarms
  NoFalseAlarm
