\* Two uploads to one path, one after the other, beside an exec, with every failure.
SPECIFICATION FairSpec
CONSTANTS
    u1 = u1
    u2 = u2
    x1 = x1
    a1 = a1
    a2 = a2
    p1 = p1
    p2 = p2
    Uploads = {u1, u2}
    Execs = {x1}
    Agents = {a1}
    Paths = {p1}
    Via <- MCVia
    Target <- MCTarget
    Chunks = 3
    Unreadable = {u2}
    Exclusive = TRUE
    Faults = TRUE
 
INVARIANTS WholeFiles OkMeansStored
CHECK_DEADLOCK FALSE
