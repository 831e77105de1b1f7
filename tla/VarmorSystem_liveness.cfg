CONSTANTS
    k1 = k1  k2 = k2  n1 = n1  n2 = n2  t1 = t1  t2 = t2  w1 = w1  None = None
    Keys <- MCKeys1
    Nodes <- MCNodes
    Targets <- MCTargets
    Workers <- MCWorkers
    Modes <- MCModes
    UserSpecs <- MCPlainSpecs
    ResetCap = 50
    DeleteCap = 50
    UpdateStatusCap = 100
    MaxVersion = 4
    MaxUid = 1
    MaxUserOps = 2
    MaxChurn = 1
    MaxRetries = 2
    ApiFailures = FALSE
SPECIFICATION FairSpec
PROPERTY StatusConverges OrphanApRemoved
