\* Two clients, three requests, an agent connection that may be lost once.
SPECIFICATION Spec
CONSTANTS
    c1 = c1
    c2 = c2
    r1 = r1
    r2 = r2
    r3 = r3
    Clients = {c1, c2}
    Reqs = {r1, r2, r3}
    Owner <- MCOwner
    Stats = {}
    Puts = {}
    Quitters = {}
    Readers = {}
    Chunks = 0
    Outs <- MCOuts
    InCap = 1
    ChCap = 1
    WCap = 1
    SockCap = 1
    MaxGen = 2
    AgentMayDie = TRUE
INVARIANTS TypeOK RepliesInOrder LostAreTold DaemonSurvives
CHECK_DEADLOCK FALSE
