SPECIFICATION Spec
CONSTANTS
  Numval = 1
  QueueCapacity = 1
  MaxDay = 2
  MaxFrames = 1
  MaxTicks = 4
  Minutes <- BusyMinutes
  EofKeepsBuffer = TRUE
INVARIANTS TypeOK CounterInv NoSilentDiscard LostOnlyOnConnect NoServerSkipped
PROPERTIES RemoveOnlyDrained
