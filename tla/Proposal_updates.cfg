SPECIFICATION Spec
CONSTANTS
  Creates = {}
  MemoryCreates = {}
  Updates = {u1}
  Defective = {}
  Rationale = {u1}
  Teamless = {}
  Items = {i1}
  Fields = {title}
  Values = {v0, v1}
  Edits = {bad}
  Accepts = {a1, a2}
  Undos = {z1}
  Commands = {k1}
  Editors = {h1}
  MayDie = {a1, z1}
  Target <- MCTarget
  Field <- MCField
  Payload <- MCPayload
  NewValue = v1
  Bad = bad
  None = none
PROPERTIES
  AgentOverwritesOnlyBaseline
  UndoReversesOnlyTheAccept
CHECK_DEADLOCK FALSE
