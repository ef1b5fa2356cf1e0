\* Two uploads over one connection, one after the other: the first client could not
\* open its local file after its request had gone out.
SPECIFICATION Spec
CONSTANTS
    u1 = u1
    u2 = u2
    x1 = x1
    a1 = a1
    a2 = a2
    p1 = p1
    p2 = p2
    Uploads = {u1, u2}
    Execs = {}
    Agents = {a1}
    Paths = {p1, p2}
    Via <- MCVia
    Target <- MCTarget
    Chunks = 2
    Unreadable = {u1}
    Exclusive = TRUE
    Faults = FALSE
INVARIANT WholeFiles
CHECK_DEADLOCK FALSE
