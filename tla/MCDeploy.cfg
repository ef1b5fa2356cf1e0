\* Two ensures one after the other, a build between, clients of two hosts.
SPECIFICATION FairSpec
CONSTANTS
    c1 = c1
    c2 = c2
    c3 = c3
    e1 = e1
    e2 = e2
    h1 = h1
    h2 = h2
    Ensures = {e1, e2}
    Hosts = {h1, h2}
    On <- MCOn
    Forced = {e1}
    Size = 2
    MaxBuild = 1
    Exclusive = TRUE
    InPlace = FALSE
    Clients = {c1, c2, c3}
    Want <- MCWant
    Silent = {}
INVARIANTS LiveIsWhole OneAgentPerHost
PROPERTIES EnsuredIsStarted AttachEnds
CHECK_DEADLOCK FALSE
