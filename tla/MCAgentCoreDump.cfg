\* Violation: an iteration whose test dumped core is counted.
SPECIFICATION Spec
CONSTANTS
    MaxIterations = 2
    RecursionLimit = 25
    Languages = {"c"}
INVARIANT
    DisregardsCoreDumps
CHECK_DEADLOCK FALSE
