SPECIFICATION Spec
CONSTANTS
  Dates <- SomeDates
  Values <- OneValue
  MaxShifts = 1
  MaxBoots = 1
  MaxRpcs = 1
INVARIANTS RpcKeepsSettings
