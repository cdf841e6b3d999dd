\* Three objects, ArrayCollections of strings and references; values
\* that only a client writes, with one entry, pair or item.
SPECIFICATION Spec
CONSTANTS
  o1 = o1  o2 = o2  o3 = o3
  empty = empty  acName = acName  s1 = s1  s2 = s2  cls = cls  ext = ext
  null = null
  defaultTr = defaultTr  acTr = acTr  clsTr = clsTr  extTr = extTr
  otherTr = otherTr  resultSetTr = resultSetTr
  noName = noName  nothing = nothing
  Obj <- MCObj3
  Strings <- MCStrings
  Texts = {s1}
  Empty = empty
  ACName = acName
  Scalars = {}
  Traits = {defaultTr, acTr, clsTr, extTr}
  Default = defaultTr
  ACTraits = acTr
  ClassName <- ClassNameOf
  Members <- MembersOf
  Dynamic <- DynamicOf
  External <- ExternalOf
  ExtSize <- MCExtSize
  NoName = noName
  None = nothing
  Native = TRUE
  Root = root
  Keys = {s1}
  DefaultKey = defaultKey
  StrKey <- OwnKey
  StrKeys <- MCStrings
  MaxLen = 2
  NestedInAC = FALSE
  MayCut = FALSE
  ClientKinds = {"xml", "named", "dict", "vector"}
  XmlSizes = {1}
  TypeName = cls
  ClientLen = 1
SYMMETRY AnyOrder
INVARIANTS
  TypeOK
  NoMisread
  RebuiltWhole
  NameIndexesAgree
  ObjectIndexesDistinct
  NamesIndexedOnce
\* Both calls return once and the system stops.
CHECK_DEADLOCK FALSE
