\* Pure Ruby reads messages of clients, with associative arrays and a part in AMF3.
SPECIFICATION Spec
CONSTANTS
  o1 = o1  o2 = o2  o3 = o3
  Obj <- MCObj3
  Scalars = {null}
  Names = {empty}
  Empty = empty
  ClassNames = {cls}
  None = nothing
  RefLimit = 65535
  Native = FALSE
  Root = root
  Flash = TRUE
  MaxLen = 2
  MayCut = FALSE
SYMMETRY AnyOrder
INVARIANTS
  TypeOK
  NoMisread
  RebuiltWhole
  IndexesAgree
\* Both calls return once and the system stops.
CHECK_DEADLOCK FALSE
