\* Three cases: one that is late, one that runs beside it, and one between
\* them; three runs: two core dumps and a run with both cases commented out.
SPECIFICATION Spec
CONSTANTS
    NumCases = 3
    MaxRuns = 3
INVARIANTS
    TypeOK
    BlameRightUnlessLate
    DumpsMaskCases
    FailuresCounted
PROPERTIES
    RunEnds
\* Nothing is left to do after the last run, or when get_coverage_cc raised.
CHECK_DEADLOCK FALSE
