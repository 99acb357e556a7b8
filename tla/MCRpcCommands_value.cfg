SPECIFICATION Spec
CONSTANTS
  Param <- TwoParams
  ParamOrder <- TwoOrder
  Messages <- SetTwo
  MaxRpcs = 1
  Fewest = 1
  Default = 2
  SdDataCapacity = 1
INVARIANTS ValueArrives
