SPECIFICATION Spec
CONSTANTS
  MaxFrames = 2
  MaxTicks = 2
INVARIANTS MissedIsLogged
