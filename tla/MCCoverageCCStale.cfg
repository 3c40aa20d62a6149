\* Violation: the second remote call reports the coverage of the first.
SPECIFICATION Spec
CONSTANTS
    MaxCalls = 2
    Modes = {TRUE}
INVARIANT
    FreshCoverage
\* After the last call nothing is left to do.
CHECK_DEADLOCK FALSE
