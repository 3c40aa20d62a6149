\* The defaults of GetModel.__init__; a thread is at most two seconds late.
SPECIFICATION Spec
CONSTANTS
    MaxRetries = 5
    Backoff = 2
    Timeout = 60
    Slack = 2
INVARIANTS
    TypeOK
    GivesUpInTime
    NoneOnlyAfterTimeout
    RetriesInVain
PROPERTIES
    Ends
\* A call ends.
CHECK_DEADLOCK FALSE
