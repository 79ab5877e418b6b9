SPECIFICATION GenSpec
CONSTANTS
    MaxRequests = 1
    Asked = {"nl", "wordy nl", "long nl", "template", "field", "action"}
    Settings = {{"ai"}, {"ai", "verify"}}
    CallIds = {"c1", "c2"}
    Limits = {1}
    Minute = 2
    MaxTime = 4
    maxRepairs = 2
    CallTimeout = 1
    ApiTimeout = 2
    LoopTimeout = 3
INVARIANTS
    NlAlwaysServed
CHECK_DEADLOCK FALSE
