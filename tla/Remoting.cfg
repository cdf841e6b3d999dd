\* Requests of both kinds of clients, answered, or given up and tried again.
SPECIFICATION FairSpec
CONSTANTS
  MaxMessages = 3
  MaxTries = 3
  SimpleKinds = {"simple", "message"}
  FlexKinds = {"flex", "unnamed"}
  PlayerKinds <- EveryKind
  Leaves = TRUE
INVARIANTS
  TypeOK
  UrisDistinct
  FaultsReturned
  ConstructedComplete
PROPERTIES
  CallsAnswered
  Responded
\* One request is made and answered, or given up.
CHECK_DEADLOCK FALSE
