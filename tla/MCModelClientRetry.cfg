\* Violation: a retry does not send the request again.
SPECIFICATION Spec
CONSTANTS
    MaxRetries = 5
    Backoff = 2
    Timeout = 60
    Slack = 2
INVARIANT
    RetriesSendRequests
CHECK_DEADLOCK FALSE
