\* Pure Ruby, objects come and go, nothing raises.
SPECIFICATION Spec
CONSTANTS
  kept = kept  custom = custom  temp1 = temp1  temp2 = temp2
  home1 = home1  home2 = home2  home3 = home3
  Obj = {kept, custom, temp1, temp2}
  Kept = {kept, custom}
  Custom = {custom}
  Addr = {home1, home2, home3}
  NoAddr = nowhere
  HomeOf <- MCHome
  Versions = {0, 3}
  Native = FALSE
  Rescuers = {}
  MaxMessages = 2
  MaxWrites = 4
  MaxNesting = 5
  MaxDepth = 3
PROPERTIES
  MessagesDecode
\* The caller may stop calling.
CHECK_DEADLOCK FALSE
