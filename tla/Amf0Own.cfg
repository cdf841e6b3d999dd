\* The C extension reads what it wrote, whole or cut between any two tokens;
\* references reach up to index 1.
SPECIFICATION FairSpec
CONSTANTS
  o1 = o1  o2 = o2  o3 = o3
  Obj = {o1, o2, o3}
  Scalars = {null}
  Names = {empty}
  Empty = empty
  ClassNames = {empty}
  None = nothing
  RefLimit = 1
  Native = TRUE
  Root = root
  Flash = FALSE
  MaxLen = 2
  MayCut = TRUE
INVARIANTS
  NoMisread
  CutIsNoticed
PROPERTIES
  RoundTripEnds
\* Both calls return once and the system stops.
CHECK_DEADLOCK FALSE
