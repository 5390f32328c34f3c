SPECIFICATION PipelineSpec
CONSTANTS
  opening = opening
  task = task
  close = close
  promise = promise
  reply = reply
  Utterances <- MCUtterances
  Start <- MCStart
  End <- MCEnd
  Words <- MCWords
  Actionable <- MCActionable
  ChapterWindow = 300
  MinChapter = 120
  MaxChapter = 420
  Adjustment = 45
  MinSegments = 2
  MinWords = 6
  Chunks <- MCChunks
  Said <- MCSaid
  Elapsed <- MCElapsed
  StateWindow = 120
  Records <- MCRecords
  Requests = {i1, i2}
  Allowlisted = {i1, i2}
SYMMETRY Calls
CHECK_DEADLOCK FALSE
INVARIANTS
  ChaptersCoverTheTranscript
  OneRecordPerUtterance
  ProposedOnceInOrder
  OneProposalPerRecord
  CompletedRunLeftNothing
