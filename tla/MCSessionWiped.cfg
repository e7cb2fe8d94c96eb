SPECIFICATION Spec
CONSTANTS
    MaxCtx = 3
    MaxIter = 1
    SourceMax = 4
    JsonMax = 18
    Envelope = 1
    UserLens = {1, 4}
    AnswerLens = {1, 3}
    SummaryLens = {1}
    MaxTurns = 3
INVARIANTS
    NothingWiped
