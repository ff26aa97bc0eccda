SPECIFICATION Spec
CONSTANTS
  MaxPeers = 2
  Me = 0
  OwnPosition = 3
  Positions <- MCPositions
  AlertDistance = 2
PROPERTIES
  EveryIsolationAlarms
