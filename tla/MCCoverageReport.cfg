\* Three calls: one that leaves files or directories behind, one that meets
\* them, and one of the other mode; a file in 36 orders of its functions, with
\* their last lines and without.
SPECIFICATION ReportSpec
CONSTANTS
    MaxCalls = 3
    Modes = {TRUE, FALSE}
    Extent <- MCExtent
    Entry <- MCEntry
    Asked = {"f", "g", "t1", "o"}
    NumLines = 9
    Telling <- MCTelling
    Infos <- MCInfos
INVARIANTS
    TypeOK
    CwdRestored
    StaleOnlyAfterRemote
    LeakOnlyInTrouble
    ReportsOwnLines
PROPERTIES
    CallsEnd
\* After the last call nothing is left to do.
CHECK_DEADLOCK FALSE
