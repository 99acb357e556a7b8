SPECIFICATION Spec
CONSTANTS
  Numval = 1
  QueueCapacity = 2
  MaxDay = 1
  MaxFrames = 1
  MaxTicks = 2
  Minutes <- NamingMinutes
  EofKeepsBuffer = FALSE
PROPERTIES DeletedAfterPublish
