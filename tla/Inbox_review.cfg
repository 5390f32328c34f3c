SPECIFICATION FairSpec
CONSTANTS
  chat = chat
  autonomous = autonomous
  card = card
  All = All
  None = None
  Proposals = {1, 2}
  Source <- MCSource
  Facets = {All, chat}
  Cards <- MCCards
  MaxClicks = 3
CHECK_DEADLOCK FALSE
INVARIANTS
  OnlyAsked
  NothingReturns
PROPERTIES
  ToldDisposalsLeave
