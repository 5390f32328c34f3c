SPECIFICATION Spec
CONSTANTS
  Creates = {}
  MemoryCreates = {}
  Updates = {u1}
  Defective = {}
  Rationale = {}
  Teamless = {}
  Items = {i1}
  Fields = {title, phase}
  Values = {v0, v1}
  Edits = {}
  Accepts = {a1}
  Undos = {}
  Commands = {}
  Editors = {h1}
  MayDie = {}
  Target <- MCTarget
  Field <- MCField
  Payload <- MCPayload
  NewValue = v1
  Bad = bad
  None = none
PROPERTIES
  OtherFieldsSurvive
CHECK_DEADLOCK FALSE
