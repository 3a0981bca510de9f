CONSTANTS
    p1 = p1
    p2 = p2
    p3 = p3
    p4 = p4
    p5 = p5
    NoProc = NoProc
    Procs <- MCProcs
    Cancelers <- MCProcs
    Capacity = 1
    Weights = {1}
    MaxCalls = 1
SPECIFICATION Spec
INVARIANT
    FifoAmongEqualWeights
