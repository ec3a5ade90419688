CONSTANTS
    Jobs = {j1, j2}
    Handlers = {h1, h2}
    NoJob = NoJob
SPECIFICATION FairSpec
INVARIANTS
    TypeOK
    EndedAnswerIsWhole
    AnswersNeverGoBack
    ToldCancelledNeverRuns
PROPERTIES
    ImplementsLifecycle
    EveryJobEnds
