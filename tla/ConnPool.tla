------------------------------- MODULE ConnPool -------------------------------
(***************************************************************************)
(* The daemon's pool of host connections (Daemon.hostConn, openHostConn,    *)
(* readHello and handshake in internal/daemon/daemon.go): one mutex for     *)
(* every host, held from the look-up until the new agent has said Hello.    *)
(* What is in a connection once it is in the pool is HostConn's.            *)
(***************************************************************************)
EXTENDS Naturals

CONSTANTS
    Clients,    \* client connections
    Hosts,      \* hosts
    Want,       \* Want[c]: the host c attaches to
    Silent,     \* hosts where ssh neither connects nor fails
    NoProgram,  \* what a connection runs that is not open
    Runs(_)     \* whether an agent program says Hello when it is started

Nobody == "nobody"

\* What Deploy assumes of the constants.
ConnPoolAssumption ==
    /\ Want \in [Clients -> Hosts]
    /\ Silent \subseteq Hosts
    /\ Nobody \notin Clients

VARIABLES
    image,      \* image[h]: the agent program on h (what installs it is elsewhere)
    mu,         \* d.mu: the client whose goroutine holds it
    pool,       \* d.conns[h]: the client that opened the connection in the pool, or Nobody
    conn,       \* conn[c]: the connection c opened: [program, at], at "none", "starting", "up", "closed"
    client      \* client[c]: "lock" (attaching, or about to), "starting", "attached", "refused"

poolVars == <<mu, pool, conn, client>>

\* A connection that was not opened, or is closed.
NoConn(at) == [program |-> NoProgram, at |-> at]

PoolInit ==
    /\ mu = Nobody
    /\ pool = [h \in Hosts |-> Nobody]
    /\ conn = [c \in Clients |-> NoConn("none")]
    /\ client = [c \in Clients |-> "lock"]

Goto(c, from, to) == client[c] = from /\ client' = [client EXCEPT ![c] = to]

Usable(h) == pool[h] # Nobody /\ conn[pool[h]].at # "closed"

\* The mutex is free, and the connection in the pool is alive.
Reuse(c) ==
    /\ mu = Nobody /\ Usable(Want[c])
    /\ Goto(c, "lock", "attached")
    /\ UNCHANGED <<mu, pool, conn>>

\* Mutant of Start: the mutex is given back while ssh connects.
StartUnlocked(c) ==
    /\ mu = Nobody /\ ~Usable(Want[c])
    /\ Goto(c, "lock", "starting")
    /\ conn' = [conn EXCEPT ![c] = [program |-> image[Want[c]], at |-> "starting"]]
    /\ UNCHANGED <<mu, pool>>

\* The mutex is taken, and ssh starts whatever program is installed by then.
Start(c) ==
    /\ mu = Nobody /\ ~Usable(Want[c])
    /\ Goto(c, "lock", "starting")
    /\ mu' = c
    /\ conn' = [conn EXCEPT ![c] = [program |-> image[Want[c]], at |-> "starting"]]
    /\ UNCHANGED pool

\* readHello: the connection goes into the pool and the client gets the Hello.
Hello(c) ==
    /\ Want[c] \notin Silent
    /\ Goto(c, "starting", "attached")
    /\ Runs(conn[c].program)
    /\ conn' = [conn EXCEPT ![c].at = "up"]
    /\ pool' = [pool EXCEPT ![Want[c]] = c]
    /\ mu' = Nobody

\* Mutant of NoHello: the error path keeps the mutex.
NoHelloLocked(c) ==
    /\ Want[c] \notin Silent
    /\ Goto(c, "starting", "refused")
    /\ conn' = [conn EXCEPT ![c] = NoConn("closed")]
    /\ UNCHANGED <<mu, pool>>

\* ssh or the agent ends without a Hello: handshakeError, and the old entry of
\* the pool stays.
NoHello(c) ==
    /\ Want[c] \notin Silent
    /\ Goto(c, "starting", "refused")
    /\ conn' = [conn EXCEPT ![c] = NoConn("closed")]
    /\ mu' = Nobody
    /\ UNCHANGED pool

\* pumpFromAgent sees the end of a connection and closes it.
Ends(c) ==
    /\ conn[c].at = "up"
    /\ conn' = [conn EXCEPT ![c] = NoConn("closed")]
    /\ UNCHANGED <<mu, pool, client>>

GetConn(c) == Reuse(c) \/ Start(c)
Handshake(c) == Hello(c) \/ NoHello(c)

PoolNext == \E c \in Clients : GetConn(c) \/ Handshake(c) \/ Ends(c)

-----------------------------------------------------------------------------
(* Properties *)

PoolTypeOK ==
    /\ mu \in Clients \cup {Nobody}
    /\ pool \in [Hosts -> Clients \cup {Nobody}]
    /\ \A c \in Clients :
         /\ conn[c].at \in {"none", "starting", "up", "closed"}
         /\ client[c] \in {"lock", "starting", "attached", "refused"}
         /\ client[c] = "starting" <=> mu = c

\* One agent per host (README: one SSH connection per host is kept open and
\* reused), however many clients attach at once, while one is being started too.
OneAgentPerHost == \A c, d \in Clients :
    Want[c] = Want[d] /\ conn[c].at \in {"starting", "up"} /\ conn[d].at \in {"starting", "up"} => c = d

\* A client that attaches is attached or refused.
Attaches(c) == (client[c] = "lock") ~> client[c] \in {"attached", "refused"}
=============================================================================
