SPECIFICATION Spec
CONSTANTS
  Dates <- SomeDates
  Values <- OneValue
  MaxShifts = 4
  MaxBoots = 2
  MaxRpcs = 2
INVARIANTS TypeOK RamMatchesFlash OneIndexPerDate OneCyclePerBoot
