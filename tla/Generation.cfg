SPECIFICATION FairGenSpec
CONSTANTS
    MaxRequests = 2
    Asked = {"nl", "wordy nl", "template", "field"}
    Settings = {{}, {"ai", "verify"}}
    CallIds = {"c1", "c2"}
    Limits = {0, 1}
    Minute = 2
    MaxTime = 3
    maxRepairs = 1
    CallTimeout = 1
    ApiTimeout = 2
    LoopTimeout = 3
INVARIANTS
    RateBounded
    ConversationAnswered
    SpendBounded
PROPERTIES
    AnswersSound
    RefusalsAreBrief
    GenerationEnds
CHECK_DEADLOCK FALSE
