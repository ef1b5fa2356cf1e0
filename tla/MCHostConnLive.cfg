\* An exec and a put whose clients read on, an agent connection that may be lost, and
\* room for one frame in clientIn.
SPECIFICATION FairSpec
CONSTANTS
    c1 = c1
    c2 = c2
    r1 = r1
    r2 = r2
    r3 = r3
    Clients = {c1, c2}
    Reqs = {r1, r3}
    Owner <- MCOwner
    Stats = {}
    Puts = {r3}
    Quitters = {}
    Readers = {c1, c2}
    Chunks = 2
    Outs <- MCOuts
    InCap = 1
    ChCap = 1
    WCap = 1
    SockCap = 1
    MaxGen = 2
    AgentMayDie = TRUE
PROPERTY RoutedIsAnswered
CHECK_DEADLOCK FALSE
