CONSTANTS
    c1 = c1
    n1 = n1
    t1 = t1
    None = None
    ClusterKeys <- MCClusterKeys
    NsKeys <- MCNsKeys
    Targets <- MCTargets
    Modes <- MCModes
    MaxChanges <- MCMaxChanges

SPECIFICATION Spec
PROPERTY IndexRefinement
CHECK_DEADLOCK FALSE
