CONSTANTS
    p1 = p1
    p2 = p2
    p3 = p3
    p4 = p4
    p5 = p5
    NoProc = NoProc
SPECIFICATION Spec
SYMMETRY MCSymmetry5
INVARIANTS
    TypeOK
    SlotAccounting
    NoLostWakeup
    IndexConsistent
    GrantToHighestWaiter
    DigraphComplete
    CommandsInBuildOrder
    TargetsListed
    JoinPairsEveryOutput
PROPERTIES
    RefinesAbstract
