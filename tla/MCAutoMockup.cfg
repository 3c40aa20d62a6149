\* All versions of the three files, any edits between runs, runs of one target
\* and of all, and interruptions anywhere.
SPECIFICATION Spec
CONSTANTS
    Files <- MCFiles
    Versions = {1, 2}
    Names <- MCNames
    Source <- MCSource
    Failed = Failed
    CutOff <- MCCutOff
    NoFile = NoFile
    Main = "main"
    Suffix <- MCSuffix
    Preferred <- MCPreferred
    Library = {"lib"}
    Nested = {"B"}
    Conflicting <- MCConflicting
    Asked = {"c", "f"}
INVARIANTS
    TypeOK
    SaneAnswer
    KeptReachable
    CalleesComeFirst
    TargetComesLast
    FailsForAReason
    SharersKept
    LinksChosen
    NamesAgree
PROPERTIES
    RunEnds
