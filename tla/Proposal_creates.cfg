SPECIFICATION FairSpec
CONSTANTS
  Creates = {c1, c2}
  MemoryCreates = {m1}
  Updates = {}
  Defective = {c2}
  Rationale = {c1}
  Teamless = {c1}
  Items = {i1}
  Fields = {title}
  Values = {v0, v1}
  Edits = {v0}
  Accepts = {a1, a2}
  Undos = {}
  Commands = {k1}
  Editors = {}
  MayDie = {a1}
  Target <- MCTarget
  Field <- MCField
  Payload <- MCPayload
  NewValue = v1
  Bad = bad
  None = none
INVARIANTS
  AppliedCreateHasRow
  DeclinedRowIsOwned
  MemoryOnlyIfApplied
PROPERTIES
  ImplementsDecision
  RejectionWins
CHECK_DEADLOCK FALSE
