\* Violation: the test is commented out and not run again.
SPECIFICATION Spec
CONSTANTS
    MaxCalls = 1
    Modes = {TRUE, FALSE}
INVARIANT
    RunsMaskedTest
\* After the last call nothing is left to do.
CHECK_DEADLOCK FALSE
