\* A request for a service while two containers come and go, or one with more input
\* than the channel holds, output on both streams and a start that may fail.
SPECIFICATION RunFairSpec
CONSTANTS
    NumIn = 3
    Cap = 1
    NumOut = 2
    PipeCap = 1
    MayFail = TRUE
    api = api
    api1 = api1
    q1 = q1
    b1 = b1
    b2 = b2
    NoName = NoName
    NoBox = NoBox
    Names = {api, api1}
    Services = {api}
    Objects = {}
    Boxes = {b1, b2}
    Pids = {1, 2}
    Reuse = FALSE
    Calls = {q1}
    Want <- MCWant
    Faults = FALSE
    Hangs = FALSE
INVARIANTS RunTypeOK OutputInOrder StdinFaithful RunsWhereNamed NameGoesFirst FindsService
PROPERTIES EofReachesProgram ExecEnds
CHECK_DEADLOCK FALSE
