\* Refuted: an ArrayCollection holds an object that occurs again.
SPECIFICATION Spec
CONSTANTS
  o1 = o1  o2 = o2  o3 = o3
  empty = empty  acName = acName  s1 = s1  s2 = s2  cls = cls  ext = ext
  null = null
  defaultTr = defaultTr  acTr = acTr  clsTr = clsTr  extTr = extTr
  otherTr = otherTr  resultSetTr = resultSetTr
  noName = noName  nothing = nothing
  Obj <- MCObj2
  Strings <- MCStrings
  Texts = {empty, s1}
  Empty = empty
  ACName = acName
  Scalars = {null}
  Traits = {defaultTr, acTr, clsTr, extTr}
  Default = defaultTr
  ACTraits = acTr
  ClassName <- ClassNameOf
  Members <- MembersOf
  Dynamic <- DynamicOf
  External <- ExternalOf
  ExtSize <- MCExtSize
  NoName = noName
  None = nothing
  Native = TRUE
  Root = root
  Keys = {s1}
  DefaultKey = defaultKey
  StrKey <- OwnKey
  StrKeys <- MCStrings
  MaxLen = 2
  NestedInAC = TRUE
  MayCut = FALSE
  ClientKinds = {}
  XmlSizes = {}
  TypeName = cls
  ClientLen = 1
INVARIANTS
  ObjectIndexesAgree
\* Both calls return once and the system stops.
CHECK_DEADLOCK FALSE
