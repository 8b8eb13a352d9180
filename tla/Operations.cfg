SPECIFICATION FairSpec
CONSTANTS
    Threads = {t1, t2}
    Names <- TwoNames
    OpsCap = 1
    SourceCap = 2
    NotesCap = 1
    MaxCalls = 3
    None = None
CHECK_DEADLOCK FALSE
INVARIANTS AuditKept OneCycle OneRefresh
PROPERTY FlagsCleared
