\* Seven -metrics_labels pairs: staticMetricLabels has len 9 and cap 16.
CONSTANTS
    p1 = p1
    p2 = p2
    Procs <- MCProcs
    LabelCounts = {7}
    MaxSetups = 1
SPECIFICATION Spec
INVARIANT ActionLabelledWithOwnStatus
