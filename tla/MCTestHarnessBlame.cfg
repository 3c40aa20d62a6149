\* Violation: a case that timed out crashes, and the one after it is blamed.
SPECIFICATION Spec
CONSTANTS
    NumCases = 3
    MaxRuns = 1
INVARIANT
    BlamesCrashedCase
\* Nothing is left to do after the last run, or when get_coverage_cc raised.
CHECK_DEADLOCK FALSE
