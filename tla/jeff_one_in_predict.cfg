\* Jeff publishes itself before its warmup pass.
CONSTANTS
    Requests = {r1, r2}
    Engine = "jeff"
    NoOne = NoOne
    Loader = Loader
SPECIFICATION Spec
SYMMETRY Symmetry
CHECK_DEADLOCK FALSE
INVARIANTS OneInPredict
