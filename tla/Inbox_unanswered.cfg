\* A link to a proposal that is not in the list, while the list is loaded again.
SPECIFICATION FairSpec
CONSTANTS
  chat = chat
  autonomous = autonomous
  card = card
  All = All
  None = None
  Proposals = {1, 2}
  Source <- MCSource
  Facets = {All, chat}
  Cards <- MCCards
  MaxClicks = 1
CHECK_DEADLOCK FALSE
PROPERTIES
  LinkIsAnswered
