CONSTANTS
    host = host  ctr = ctr  other = other  b1 = b1  b2 = b2
    None = None
    Pids <- MCPids
    Mnts <- MCMnts
    CtrMnt = ctr
    CtrProcs <- MCCtrProcs
    HostProcs <- MCHostProcs
    Classes <- MCClasses
    Behaviours <- MCBehaviours
    Enforcer <- MCEnforcer
    MaxEvents = 2
    MaxLines = 2
    PidReuse = FALSE
    IoFaults = TRUE
SPECIFICATION Spec
CHECK_DEADLOCK FALSE
INVARIANT TypeOK AttributionSound AttributionComplete
