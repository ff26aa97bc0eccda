CONSTANTS
  Threads <- MCThreadSet
  Idle = "idle"
  First = "main"
  Priority <- MCPriority
  Delays <- MCDelays
  Transfers <- MCTransfers
  MaxRead = 2
SPECIFICATION Spec
INVARIANTS TypeOK PriorityOrder InitBeforeFetch OkMeansDone BusyIffWaited
PROPERTIES TimersKeepDeadlines EachGetsItsTurn TransferEnds
