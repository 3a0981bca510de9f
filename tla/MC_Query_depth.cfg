\* Four nodes, explicit inputs, targets -depth 3.
CONSTANTS
    N = 4
    Commands = {"targets"}
    ArgChoices <- MCArgChoices
    Depths = {3}
    Labels = {"in"}
SPECIFICATION Spec
INVARIANT TargetsWithinDepth
