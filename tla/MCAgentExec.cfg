\* Two requests of every kind, two sessions.
SPECIFICATION FairSpec
CONSTANTS
    a = a
    b = b
    w = w
    x = x
    Ids = {r1, r2}
    Sessions = {"s", "t"}
    NoSession = NoSession
    Names = {a, b}
    NoDir = NoDir
    Home <- MCHome
    AgentCwd <- MCAgentCwd
    Vars = {"V"}
    Vals = {w, x}
    NoVal = NoVal
    Bodies <- MCBodiesMixed
    NoReq = NoReq
    NoReply = NoReply
    NoOwner = NoOwner
INVARIANTS ExecInv DrainAnswersExecs
PROPERTIES SessionsAtomic TimedAnswered
CHECK_DEADLOCK FALSE
