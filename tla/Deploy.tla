-------------------------------- MODULE Deploy --------------------------------
(***************************************************************************)
(* rsb ensure beside a running daemon: Ensure replaces the agent program on *)
(* the hosts, ConnPool starts whatever program is there when a client needs *)
(* a connection, and keeps the connections it has.                          *)
(***************************************************************************)
EXTENDS Ensure

CONSTANTS
    Clients,    \* client connections to the daemon
    Want,       \* Want[c]: the host c attaches to
    Silent      \* hosts where ssh neither connects nor fails

VARIABLES mu, pool, conn, client    \* the daemon's, see ConnPool

Pool == INSTANCE ConnPool WITH
    Runs <- Whole,
    NoProgram <- Truncated,
    image <- [h \in Hosts |-> Installed(h)]

ASSUME DeployAssumption == Pool!ConnPoolAssumption

poolVars == <<mu, pool, conn, client>>
vars == <<ensureVars, poolVars>>

Init == EnsureInit /\ Pool!PoolInit

Next ==
    \/ EnsureNext /\ UNCHANGED poolVars
    \/ Pool!PoolNext /\ UNCHANGED ensureVars

Spec == Init /\ [][Next]_vars

\* Ssh to a host that is not silent comes to an end, and Go's mutex goes to every
\* waiter in the end.
FairSpec ==
    /\ Spec
    /\ \A c \in Clients :
         /\ SF_poolVars(Pool!GetConn(c) /\ UNCHANGED ensureVars)
         /\ WF_poolVars(Pool!Handshake(c) /\ UNCHANGED ensureVars)

-----------------------------------------------------------------------------
(* Properties *)

\* Every variable has its type, and d.mu is held by the goroutine that is inside.
TypeOK == EnsureTypeOK /\ Pool!PoolTypeOK

OneAgentPerHost == Pool!OneAgentPerHost

\* On a host that an ensure called ready no connection is started with another agent
\* than the verified one, or with half of one, until the next ensure begins (the
\* comment in cmdEnsure: the guard against the "looks installed but it's stale"
\* trap).  A connection that is in the pool by then keeps its own: EnsuredIsServed.
EnsuredIsStarted == [][\A c \in Clients :
    conn[c].at = "none" /\ conn'[c].at = "starting" /\ verified[Want[c]] # Unknown
        => conn'[c].program = Program(verified[Want[c]])]_vars

\* Every client that attaches is attached or refused, whatever the others attach
\* to, whatever is installed meanwhile, as long as ssh does not hang.
AttachEnds == \A c \in Clients : Pool!Attaches(c)

\* The error of a version mismatch says that rsb ensure --force upgrades the
\* agent: whoever attaches after it is served by the new one.
EnsuredIsServed == [][\A c \in Clients :
    client[c] # "attached" /\ client'[c] = "attached" /\ verified[Want[c]] # Unknown
        => conn'[pool'[Want[c]]].program = Program(verified[Want[c]])]_vars
=============================================================================
