\* Two mappers and two threads, while the application defines and resets.
SPECIFICATION Spec
CONSTANTS
  asApp = asApp  asMessage = asMessage  app = app  message = message
  m1 = m1  m2 = m2  t1 = t1  t2 = t2
  AsNames = {asApp, asMessage}
  Classes = {app, message}
  Depth <- MCDepth
  Defaults <- MCDefaults
  Getters = {getter}
  Volatile = {app}
  Mappers = {m1, m2}
  Threads = {t1, t2}
  None = none
  MaxSets = 2
  MaxCalls = 3
  MaxRaised = 2
SYMMETRY AnyOrder
INVARIANTS
  TypeOK
  MadeAsMapped
  WrittenAsMapped
  EachPlaceCutByOne
  PropsOfItsTime
