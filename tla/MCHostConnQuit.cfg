\* A client that leaves before its answer.
SPECIFICATION Spec
CONSTANTS
    c1 = c1
    c2 = c2
    r1 = r1
    r2 = r2
    r3 = r3
    Clients = {c1}
    Reqs = {r1}
    Owner <- MCOwner
    Stats = {}
    Puts = {}
    Quitters = {c1}
    Readers = {}
    Chunks = 0
    Outs <- MCOuts
    InCap = 1
    ChCap = 1
    WCap = 1
    SockCap = 1
    MaxGen = 1
    AgentMayDie = FALSE
INVARIANT DaemonSurvives
CHECK_DEADLOCK FALSE
