SPECIFICATION FairSpec
CONSTANTS
  Param <- OneParam
  ParamOrder <- OneOrder
  Messages <- Every
  MaxRpcs = 2
  Fewest = 1
  Default = 2
  SdDataCapacity = 1
INVARIANTS TypeOK OwedIsPending SentAsRaised LineSent
PROPERTIES CommandsServed DownloadEnds ImplementsDelivery
