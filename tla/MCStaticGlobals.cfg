\* Three functions and three variables: a variable two functions away from
\* the target is found in the second pass, if they are visited in that order.
SPECIFICATION Spec
CONSTANTS
    Functions = {f1, f2, f3}
    Globals = {g1, g2, g3}
    Main = f3
INVARIANTS
    TypeOK
    NothingTooMuch
    NothingMissed
PROPERTIES
    Terminates
\* The loop ends.
CHECK_DEADLOCK FALSE
