\* Two members post, edit, delete and reply; one follows the log; admins demote, remove and admit.
SPECIFICATION Spec
CONSTANTS
    ann = ann
    bob = bob
    Actors = {ann, bob}
    Readers = {bob}
    Keys = {k1, k2, k3}
    Bodies = {hi}
    Changes <- SomeChanges
    Limit = 1
    MaxSeq = 3
    None = None
SYMMETRY KeySymmetry
INVARIANTS Sequenced OneChain Replayable CursorMissesNothing
PROPERTIES ChangesAreAudited ImplementsBoard
CHECK_DEADLOCK FALSE
