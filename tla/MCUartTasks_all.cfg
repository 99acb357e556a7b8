SPECIFICATION Spec
CONSTANTS
  Hour = 8
  Period = 6
  EventCount = 2
  RpcValues <- MCRpcValues
  TelemetrySize = 3
  AttributesSize = 2
  Threshold = 2
  BufferSize = 4
  LineSize = 4
  Times <- MCTimes
CONSTRAINT Workload
INVARIANTS
  TypeOK
  DoneInTime
  MessagesApart
  RaisesItsFlags
  AskedHourly
  FrameCollected
  NoGap
  RoomForAFrame
  IstInstant
PROPERTY ImplementsMailbox
