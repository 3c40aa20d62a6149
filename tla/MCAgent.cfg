\* LangGraph's own limit and a budget of 2 (the command line's default is 3):
\* up to eight iterations, so that disregarded ones, iterations beyond the
\* budget after a core dump, and GraphRecursionError all occur.
SPECIFICATION Spec
CONSTANTS
    MaxIterations = 2
    RecursionLimit = 25
    Languages = {"c", "cc", "python"}
INVARIANTS
    TypeOK
    BudgetKept
    ReviewedInOrder
    LogsTogether
PROPERTIES
    Termination
    KeepsPromise
\* A run of the agent ends.
CHECK_DEADLOCK FALSE
