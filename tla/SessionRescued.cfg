\* Refuted: a callback rescues an exception, and the Serializer writes another message.
SPECIFICATION Spec
CONSTANTS
  kept = kept  custom = custom  temp1 = temp1  temp2 = temp2
  home1 = home1  home2 = home2  home3 = home3
  Obj = {kept, custom}
  Kept = {kept, custom}
  Custom = {custom}
  Addr = {home1, home2}
  NoAddr = nowhere
  HomeOf <- MCHome
  Versions = {0, 3}
  Native = FALSE
  Rescuers = {"callback"}
  MaxMessages = 2
  MaxWrites = 3
  MaxNesting = 5
  MaxDepth = 4
INVARIANTS
  MessagesSelfContained
\* The caller may stop calling.
CHECK_DEADLOCK FALSE
