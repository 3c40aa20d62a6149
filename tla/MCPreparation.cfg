\* 64 call graphs of four functions, and six outputs in either run of ESBMC.
SPECIFICATION Spec
CONSTANTS
    Functions <- MCFunctions
    Names <- MCNames
    Graphs <- MCGraphs
    Depth = 2
    Targets = {"main", "printf"}
    Params = {"p"}
    Locals = {"l"}
    Guards = {"guard"}
    None = None
    Outputs <- MCOutputs
INVARIANTS
    TypeOK
    FoundWithinDepth
    CalleesFound
    CasesTrusted
