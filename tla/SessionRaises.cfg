\* The C extension, no temporary objects, anything may raise.
SPECIFICATION Spec
CONSTANTS
  kept = kept  custom = custom  temp1 = temp1  temp2 = temp2
  home1 = home1  home2 = home2  home3 = home3
  Obj = {kept, custom}
  Kept = {kept, custom}
  Custom = {custom}
  Addr = {home1, home2}
  NoAddr = nowhere
  HomeOf <- MCHome
  Versions = {0, 3}
  Native = TRUE
  Rescuers = {"caller", "callback"}
  MaxMessages = 3
  MaxWrites = 3
  MaxNesting = 6
  MaxDepth = 4
INVARIANTS
  SessionInv
  TablesOutliveCalls
\* The caller may stop calling.
CHECK_DEADLOCK FALSE
