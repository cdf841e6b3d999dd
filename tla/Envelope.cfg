\* The C extension reads and relays envelopes, one after the other, some cut off.
SPECIFICATION FairSpec
CONSTANTS
  Fields <- MCFields
  Attr <- MCAttr
  HighBit = 7
  None = none
  Envelopes <- EveryEnvelope
  Names <- MCNames
  Data <- MCData
  Written <- WrittenData
  Meant <- MeantData
  AsData <- DataOf
  Passed <- PassedData
  Samples <- Some
  LateReplace = FALSE
  MaxReads = 3
  Native = TRUE
INVARIANTS
  TypeOK
  EnvelopeKept
  RelayKept
  AllOrNothing
PROPERTIES
  ChosenMapperUsed
  PopulateEnds
CHECK_DEADLOCK FALSE
