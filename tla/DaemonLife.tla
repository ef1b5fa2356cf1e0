------------------------------ MODULE DaemonLife ------------------------------
(***************************************************************************)
(* How the rsb daemon comes and goes: dialOrStart in every client           *)
(* (internal/client/client.go), New, Serve and Close (internal/daemon), the *)
(* main of rsb-daemon with its signal goroutine, and `rsb daemon stop`.     *)
(* They meet in two files, the socket and the PID file, and nowhere else.   *)
(***************************************************************************)
EXTENDS Naturals

CONSTANTS
    NumDaemons, \* bound: daemon processes that are started
    NumClients, \* bound: rsb commands that need the daemon
    NumStops    \* bound: `rsb daemon stop` commands

ASSUME DaemonLifeAssumption == {NumDaemons, NumClients, NumStops} \subseteq Nat

\* Processes are numbered in the order in which they start.
Daemons == 1..NumDaemons
Clients == 1..NumClients
Stops == 1..NumStops
Nobody == 0     \* no such file

VARIABLES
    alone,      \* the clients dial and start daemons one after the other; otherwise
                \* no daemon is stopped or killed
    sock,       \* whose listener the socket path names
    pidfile,    \* whose pid the PID file holds
    main,       \* main[d]: the main goroutine of process d
    closer,     \* closer[d]: its signal goroutine
    forced,     \* forced[d]: its Close gave up waiting for clients
    cl,         \* cl[c]: where client c is
    conn,       \* conn[c]: the daemon c is connected to
    stop        \* stop[p]: [at, pid]

vars == <<alone, sock, pidfile, main, closer, forced, cl, conn, stop>>

Init ==
    /\ alone \in BOOLEAN
    /\ sock = Nobody /\ pidfile = Nobody
    /\ main = [d \in Daemons |-> "unused"]
    /\ closer = [d \in Daemons |-> "idle"]
    /\ forced = [d \in Daemons |-> FALSE]
    /\ cl = [c \in Clients |-> "idle"]
    /\ conn = [c \in Clients |-> Nobody]
    /\ stop = [p \in Stops |-> [at |-> "idle", pid |-> Nobody]]

Started == {"listening", "recorded", "serving"}
Open(d) == main[d] \in Started /\ closer[d] \in {"idle", "signalled", "unlinked"}

\* Clients of d that the end of the process leaves without an answer.
Cut(d) == [c \in Clients |-> IF conn[c] = d /\ cl[c] \in {"connected", "served"} THEN "lost" ELSE cl[c]]

-----------------------------------------------------------------------------
(* A daemon process: New, the PID file, signal.Notify, Serve *)

Step(d, from, to) == main[d] = from /\ main' = [main EXCEPT ![d] = to]

\* New: whatever is at the path is taken for the socket of a crashed daemon.
RemoveStale(d) ==
    /\ Step(d, "spawned", "removed")
    /\ sock' = Nobody
    /\ UNCHANGED <<pidfile, closer, forced, cl, conn, stop>>

\* net.Listen is bind and listen: the path exists before anybody can connect.
Bind(d) ==
    /\ sock = Nobody
    /\ Step(d, "removed", "bound")
    /\ sock' = d
    /\ UNCHANGED <<pidfile, closer, forced, cl, conn, stop>>

\* Address already in use: log.Fatalf.
BindFails(d) ==
    /\ sock # Nobody
    /\ Step(d, "removed", "gone")
    /\ UNCHANGED <<sock, pidfile, closer, forced, cl, conn, stop>>

Listen(d) ==
    /\ Step(d, "bound", "listening")
    /\ UNCHANGED <<sock, pidfile, closer, forced, cl, conn, stop>>

RecordPid(d) ==
    /\ Step(d, "listening", "recorded")
    /\ pidfile' = d
    /\ UNCHANGED <<sock, closer, forced, cl, conn, stop>>

Notify(d) ==
    /\ Step(d, "recorded", "serving")
    /\ UNCHANGED <<sock, pidfile, closer, forced, cl, conn, stop>>

\* Serve accepts a connection and spawns serveClient.
Accept(d, c) ==
    /\ main[d] = "serving" /\ Open(d)
    /\ cl[c] = "connected" /\ conn[c] = d
    /\ cl' = [cl EXCEPT ![c] = "served"]
    /\ UNCHANGED <<sock, pidfile, main, closer, forced, conn, stop>>

\* Serve returns once the listener is closed, and main with it, wherever the
\* signal goroutine is.
MainReturns(d) ==
    /\ ~Open(d)
    /\ Step(d, "serving", "gone")
    /\ cl' = Cut(d)
    /\ UNCHANGED <<sock, pidfile, closer, forced, conn, stop>>

Crash(d) ==
    /\ alone
    /\ main[d] \notin {"unused", "gone"}
    /\ main' = [main EXCEPT ![d] = "gone"]
    /\ cl' = Cut(d)
    /\ UNCHANGED <<sock, pidfile, closer, forced, conn, stop>>

-----------------------------------------------------------------------------
(* The signal goroutine: Close, then the PID file *)

Closes(d, from, to) ==
    /\ main[d] = "serving"
    /\ closer[d] = from
    /\ closer' = [closer EXCEPT ![d] = to]

\* Closing a unix listener removes the path it was bound to, whoever is there.
Unlink(d) ==
    /\ Closes(d, "signalled", "unlinked")
    /\ sock' = Nobody
    /\ UNCHANGED <<pidfile, main, forced, cl, conn, stop>>

CloseListener(d) ==
    /\ Closes(d, "unlinked", "waiting")
    /\ UNCHANGED <<sock, pidfile, main, forced, cl, conn, stop>>

Attached(d) == {c \in Clients : conn[c] = d /\ cl[c] = "served"}

\* Mutant of WaitEnds: Close removes the socket path itself, to be sure.
WaitEndsUnlinks(d) ==
    /\ Closes(d, "waiting", "dropped")
    /\ forced' = [forced EXCEPT ![d] = Attached(d) # {}]
    /\ sock' = Nobody
    /\ UNCHANGED <<pidfile, main, cl, conn, stop>>

\* clients.Wait, or ten seconds; then the host connections go.
WaitEnds(d) ==
    /\ Closes(d, "waiting", "dropped")
    /\ forced' = [forced EXCEPT ![d] = Attached(d) # {}]
    /\ UNCHANGED <<sock, pidfile, main, cl, conn, stop>>

RemovePid(d) ==
    /\ Closes(d, "dropped", "done")
    /\ pidfile' = Nobody
    /\ UNCHANGED <<sock, main, forced, cl, conn, stop>>

-----------------------------------------------------------------------------
(* A client: dialOrStart, then whatever it came for *)

Moves(c, from, to) == cl[c] = from /\ cl' = [cl EXCEPT ![c] = to]
Connect(c) == conn' = [conn EXCEPT ![c] = sock] /\ UNCHANGED <<sock, pidfile, main, closer, forced, stop>>
Answers == sock # Nobody /\ Open(sock)     \* a Dial would connect
Starting == {"dialled", "refused", "missing", "spawned"}

Begin(c) ==
    /\ alone => \A o \in Clients : cl[o] \notin Starting
    /\ \A o \in 1..(c - 1) : cl[o] # "idle"
    /\ Moves(c, "idle", "dialled")
    /\ UNCHANGED <<sock, pidfile, main, closer, forced, conn, stop>>

\* The first Dial: connected, refused (the path is there, nobody listens), or no
\* such file.
Dial(c) ==
    \/ Answers /\ Moves(c, "dialled", "connected") /\ Connect(c)
    \/ /\ sock # Nobody /\ ~Answers /\ Moves(c, "dialled", "refused")
       /\ UNCHANGED <<sock, pidfile, main, closer, forced, conn, stop>>
    \/ /\ sock = Nobody /\ Moves(c, "dialled", "missing")
       /\ UNCHANGED <<sock, pidfile, main, closer, forced, conn, stop>>

\* Mutant of RemoveRefused: somebody else is taken to be starting the daemon.
RemoveRefusedWaits(c) ==
    /\ Moves(c, "refused", "spawned")
    /\ sock' = Nobody
    /\ UNCHANGED <<pidfile, main, closer, forced, conn, stop>>

\* A socket that refused is removed, although it may be another one by now.
RemoveRefused(c) ==
    /\ Moves(c, "refused", "missing")
    /\ sock' = Nobody
    /\ UNCHANGED <<pidfile, main, closer, forced, conn, stop>>

StartDaemon(c) ==
    /\ Moves(c, "missing", "spawned")
    /\ \E d \in Daemons : Step(d, "unused", "spawned") /\ \A o \in 1..(d - 1) : main[o] # "unused"
    /\ UNCHANGED <<sock, pidfile, closer, forced, conn, stop>>

\* Dial again every 50 ms, for 5 s.
Redial(c) ==
    /\ Answers
    /\ Moves(c, "spawned", "connected")
    /\ Connect(c)

\* The 5 s are long: no daemon is starting and no client is about to start one.
GiveUp(c) ==
    /\ \A d \in Daemons : main[d] \notin {"spawned", "removed", "bound"}
    /\ \A o \in Clients : cl[o] \notin {"refused", "missing"}
    /\ ~Answers
    /\ Moves(c, "spawned", "failed")
    /\ UNCHANGED <<sock, pidfile, main, closer, forced, conn, stop>>

\* The command has its answer and hangs up.
Finish(c) ==
    /\ Moves(c, "served", "finished")
    /\ UNCHANGED <<sock, pidfile, main, closer, forced, conn, stop>>

-----------------------------------------------------------------------------
(* rsb daemon stop *)

StopMoves(p, from, to) == stop[p].at = from /\ stop' = [stop EXCEPT ![p] = to]

ReadPid(p) ==
    /\ alone /\ \A o \in 1..(p - 1) : stop[o].at # "idle"
    /\ StopMoves(p, "idle", [at |-> IF pidfile = Nobody THEN "none" ELSE "read", pid |-> pidfile])
    /\ UNCHANGED <<sock, pidfile, main, closer, forced, cl, conn>>

\* Mutant of Kill: the signal goroutine runs before main gets to Serve.
KillEarly(p) ==
    LET d == stop[p].pid IN
    /\ StopMoves(p, "read", [at |-> IF main[d] = "gone" THEN "none" ELSE "killed", pid |-> d])
    /\ closer' = IF main[d] # "gone" /\ closer[d] = "idle" THEN [closer EXCEPT ![d] = "signalled"] ELSE closer
    /\ UNCHANGED <<sock, pidfile, main, forced, cl, conn>>

\* SIGTERM: to the signal goroutine; fatal to a process that is not yet
\* listening for it; an error when the process is gone.
Kill(p) ==
    LET d == stop[p].pid IN
    /\ StopMoves(p, "read", [at |-> IF main[d] = "gone" THEN "none" ELSE "killed", pid |-> d])
    /\ closer' = IF main[d] = "serving" /\ closer[d] = "idle" THEN [closer EXCEPT ![d] = "signalled"] ELSE closer
    /\ main' = IF main[d] = "recorded" THEN [main EXCEPT ![d] = "gone"] ELSE main
    /\ cl' = IF main[d] = "recorded" THEN Cut(d) ELSE cl
    /\ UNCHANGED <<sock, pidfile, forced, conn>>

StopRemovesPid(p) ==
    /\ StopMoves(p, "killed", [at |-> "none", pid |-> Nobody])
    /\ pidfile' = Nobody
    /\ UNCHANGED <<sock, main, closer, forced, cl, conn>>

-----------------------------------------------------------------------------
Daemon(d) ==
    \/ RemoveStale(d) \/ Bind(d) \/ BindFails(d) \/ Listen(d) \/ RecordPid(d) \/ Notify(d) \/ MainReturns(d)
    \/ \E c \in Clients : Accept(d, c)
Closer(d) == Unlink(d) \/ CloseListener(d) \/ WaitEnds(d) \/ RemovePid(d)
Client(c) == Dial(c) \/ RemoveRefused(c) \/ StartDaemon(c) \/ Redial(c) \/ Finish(c)

Next ==
    /\ \/ \E d \in Daemons : Daemon(d) \/ Closer(d) \/ Crash(d)
       \/ \E c \in Clients : Begin(c) \/ Client(c) \/ GiveUp(c)
       \/ \E p \in Stops : ReadPid(p) \/ Kill(p) \/ StopRemovesPid(p)
    /\ UNCHANGED alone

Spec == Init /\ [][Next]_vars

\* Processes that can run do; who runs rsb, and when, is anybody's choice.
FairSpec ==
    /\ Spec
    /\ \A d \in Daemons : WF_vars(~alone /\ Daemon(d) /\ UNCHANGED alone)
    /\ \A c \in Clients : WF_vars(~alone /\ Client(c) /\ UNCHANGED alone)

-----------------------------------------------------------------------------
(* Properties *)

\* Every variable has its type, only a daemon that handles signals is closing, and
\* a client that is connected is connected to a process.
TypeOK ==
    /\ alone \in BOOLEAN
    /\ sock \in Daemons \cup {Nobody} /\ pidfile \in Daemons \cup {Nobody}
    /\ main \in [Daemons -> {"unused", "spawned", "removed", "bound", "gone"} \cup Started]
    /\ closer \in [Daemons -> {"idle", "signalled", "unlinked", "waiting", "dropped", "done"}]
    /\ forced \in [Daemons -> BOOLEAN]
    /\ cl \in [Clients -> {"idle", "connected", "served", "finished", "lost", "failed"} \cup Starting]
    /\ conn \in [Clients -> Daemons \cup {Nobody}]
    /\ stop \in [Stops -> [at : {"idle", "none", "read", "killed"}, pid : Daemons \cup {Nobody}]]
    /\ \A d \in Daemons : closer[d] # "idle" => main[d] \in {"serving", "gone"}
    /\ \A c \in Clients : cl[c] \in {"connected", "served"} => Open(conn[c]) \/ main[conn[c]] = "serving"

Live(d) == main[d] \in Started /\ closer[d] = "idle"

SocketIsItsOwn == \A d \in Daemons : Live(d) => sock = d

\* README: one SSH connection per host is kept open and reused.  There is at most
\* one daemon that is not being stopped, and clients reach it at the socket, if
\* clients do not start daemons at the same time.
OneDaemon == alone => SocketIsItsOwn

\* So it should be if they do.
OneDaemonTogether == ~alone => SocketIsItsOwn

\* The first rsb command pays the startup, and every one gets its connection:
\* whatever other clients, crashed daemons and half-started ones did to the
\* socket.  (A daemon that dies after that may lose it.)
Connects == \A c \in Clients : (~alone /\ cl[c] = "dialled") ~> (conn[c] # Nobody)

\* CHANGELOG (graceful shutdown): rsb daemon stop waits for in-flight client
\* sessions, with a 10 s fallback.  A daemon that was told to stop ends only when
\* it has none or gave up waiting.
GracefulStop == [][\A d \in Daemons :
    main[d] = "serving" /\ main'[d] = "gone" /\ closer[d] # "idle" => Attached(d) = {} \/ forced[d]]_vars

\* The comment in rsb-daemon's main: the PID is recorded for `rsb daemon stop`.
PidIsKnown == \A d \in Daemons : Live(d) /\ main[d] = "serving" => pidfile = d
=============================================================================
