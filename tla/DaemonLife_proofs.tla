-------------------------- MODULE DaemonLife_proofs ---------------------------
(***************************************************************************)
(* Proofs about the life of the daemon, for every number of daemons,        *)
(* clients and stops: clients that come one after the other never see two   *)
(* daemons, whichever crash or are stopped.                                 *)
(***************************************************************************)
EXTENDS DaemonLife, TLAPS

\* A stop that has read a PID file knows a process, and so does a client that is
\* connected.
Known ==
    /\ \A p \in Stops : stop[p].at \in {"read", "killed"} => stop[p].pid \in Daemons
    /\ \A c \in Clients : cl[c] \in {"connected", "served"} => conn[c] \in Daemons

\* On its way to a listener; has one, and the path has not been removed by it.
Preparing(d) == main[d] \in {"spawned", "removed", "bound"}
Holds(d) == main[d] \in Started /\ closer[d] \in {"idle", "signalled"}

\* Clients one after the other: one at most is starting a daemon, a daemon on its
\* way has a client that waits for it, and while it is on its way no other one is,
\* nor has a listener.
OneStarts ==
    /\ \A c, o \in Clients : cl[c] \in Starting /\ cl[o] \in Starting => c = o
    /\ \A d \in Daemons : Preparing(d) => \E c \in Clients : cl[c] = "spawned"
    /\ \A d, e \in Daemons : Preparing(d) /\ (Preparing(e) \/ Holds(e)) => d = e
    /\ \A c \in Clients : cl[c] \in {"refused", "missing"} => \A d \in Daemons : ~Holds(d)

\* Who may be at the socket path.
SocketIsHeld ==
    /\ \A d \in Daemons : Holds(d) \/ main[d] = "bound" => sock = d
    /\ \A d \in Daemons : closer[d] \notin {"idle", "signalled"} => sock # d

LifeInv == TypeOK /\ Known /\ (alone => OneStarts /\ SocketIsHeld)

-----------------------------------------------------------------------------
LEMMA Numbers == NumDaemons \in Nat /\ NumClients \in Nat /\ NumStops \in Nat /\ Nobody \notin Daemons
BY DaemonLifeAssumption DEF Nobody, Daemons

\* The initial states satisfy the invariant.
LEMMA InitInv == Init => LifeInv
<1> SUFFICES ASSUME Init PROVE LifeInv
  OBVIOUS
<1> USE Numbers DEF Init
<1>1. TypeOK
  BY DEF TypeOK, Starting
<1>2. Known
  BY DEF Known
<1>3. OneStarts /\ SocketIsHeld
  BY DEF OneStarts, SocketIsHeld, Preparing, Holds, Started, Starting
<1> QED
  BY <1>1, <1>2, <1>3 DEF LifeInv

\* Clients that lose their daemon keep their type, and start nothing.
LEMMA CutFacts ==
    ASSUME TypeOK, NEW d
    PROVE  /\ Cut(d) \in [Clients -> {"idle", "connected", "served", "finished", "lost", "failed"} \cup Starting]
           /\ \A c \in Clients : Cut(d)[c] # "lost" => Cut(d)[c] = cl[c]
           /\ \A c \in Clients : cl[c] \in {"connected", "served"} /\ conn[c] = d => Cut(d)[c] = "lost"
           /\ \A c \in Clients : cl[c] \in Starting => Cut(d)[c] = cl[c]
BY DEF TypeOK, Cut, Starting

\* A daemon that comes up keeps the invariant.
LEMMA ComingUp ==
    ASSUME LifeInv, NEW d \in Daemons, UNCHANGED alone,
           RemoveStale(d) \/ Bind(d) \/ BindFails(d) \/ Listen(d) \/ RecordPid(d) \/ Notify(d)
    PROVE  LifeInv'
<1> USE Numbers DEF LifeInv, RemoveStale, Bind, BindFails, Listen, RecordPid, Notify, Step
<1>1. closer[d] = "idle" /\ main[d] \in {"spawned", "removed", "bound", "listening", "recorded"}
  BY DEF TypeOK
<1>2. TypeOK'
  <2>1. /\ sock' \in Daemons \cup {Nobody} /\ pidfile' \in Daemons \cup {Nobody}
        /\ main' \in [Daemons -> {"unused", "spawned", "removed", "bound", "gone"} \cup Started]
        /\ closer' \in [Daemons -> {"idle", "signalled", "unlinked", "waiting", "dropped", "done"}]
        /\ forced' \in [Daemons -> BOOLEAN]
    BY DEF TypeOK, Started
  <2>2. \A e \in Daemons : closer'[e] # "idle" => main'[e] \in {"serving", "gone"}
    BY <1>1 DEF TypeOK
  <2>3. \A e \in Daemons : Open(e) \/ main[e] = "serving" => (Open(e) \/ main[e] = "serving")'
    BY <1>1 DEF TypeOK, Open, Started
  <2> QED
    BY <2>1, <2>2, <2>3 DEF TypeOK, Known
<1>3. Known'
  BY DEF Known
<1>4. ASSUME alone PROVE OneStarts'
  BY <1>1, <1>4 DEF TypeOK, OneStarts, Preparing, Holds, Started
<1>5. ASSUME alone PROVE SocketIsHeld'
  BY <1>1, <1>5 DEF TypeOK, OneStarts, SocketIsHeld, Preparing, Holds, Started
<1> QED
  BY <1>2, <1>3, <1>4, <1>5

\* A client that is accepted keeps the invariant.
LEMMA AcceptInv ==
    ASSUME LifeInv, NEW d \in Daemons, NEW c \in Clients, Accept(d, c), UNCHANGED alone
    PROVE  LifeInv'
<1> USE DEF LifeInv, Accept
<1>1. TypeOK'
  BY DEF TypeOK, Open
<1>2. Known' /\ (alone => OneStarts' /\ SocketIsHeld')
  BY DEF Known, TypeOK, OneStarts, SocketIsHeld, Preparing, Holds, Starting
<1> QED
  BY <1>1, <1>2

\* A process that ends, by itself or not, keeps the invariant.
LEMMA EndInv ==
    ASSUME LifeInv, NEW d \in Daemons, UNCHANGED <<alone, sock, pidfile, closer, forced, conn>>,
           main' = [main EXCEPT ![d] = "gone"], cl' = Cut(d), Known',
           stop' \in [Stops -> [at : {"idle", "none", "read", "killed"}, pid : Daemons \cup {Nobody}]]
    PROVE  LifeInv'
<1> USE DEF LifeInv
<1>1. TypeOK'
  BY CutFacts DEF TypeOK, Known, Started, Open
<1>2. ASSUME alone PROVE OneStarts'
  <2>1. \A c \in Clients : cl'[c] \in Starting \/ cl'[c] = "spawned" => cl'[c] = cl[c]
    BY CutFacts DEF Starting
  <2>2. \A c \in Clients : cl[c] = "spawned" => cl'[c] = "spawned"
    BY CutFacts DEF Starting
  <2>3. \A e \in Daemons : (Preparing(e)' => Preparing(e)) /\ (Holds(e)' => Holds(e))
    BY DEF TypeOK, Preparing, Holds, Started
  <2>4. \A c \in Clients : cl'[c] \in {"refused", "missing"} => cl'[c] = cl[c]
    BY <2>1 DEF Starting
  <2> QED
    BY <1>2, <2>1, <2>2, <2>3, <2>4 DEF OneStarts
<1>3. ASSUME alone PROVE SocketIsHeld'
  BY <1>3 DEF TypeOK, SocketIsHeld, Holds, Started
<1> QED
  BY <1>1, <1>2, <1>3

\* The end of main, and a crash.
LEMMA GoneInv ==
    ASSUME LifeInv, NEW d \in Daemons, MainReturns(d) \/ Crash(d), UNCHANGED alone
    PROVE  LifeInv'
<1>1. Known' /\ stop' \in [Stops -> [at : {"idle", "none", "read", "killed"}, pid : Daemons \cup {Nobody}]]
  BY CutFacts DEF LifeInv, TypeOK, Known, MainReturns, Crash
<1> QED
  BY <1>1, EndInv DEF MainReturns, Crash, Step

\* The signal goroutine keeps the invariant: it removes the path while it is its own.
LEMMA CloserInv ==
    ASSUME LifeInv, NEW d \in Daemons, Closer(d), UNCHANGED alone
    PROVE  LifeInv'
<1> USE Numbers DEF LifeInv, Closer, Unlink, CloseListener, WaitEnds, RemovePid, Closes
<1>1. main[d] = "serving" /\ closer[d] \in {"signalled", "unlinked", "waiting", "dropped"}
  OBVIOUS
<1>2. TypeOK'
  <2>1. /\ sock' \in Daemons \cup {Nobody} /\ pidfile' \in Daemons \cup {Nobody}
        /\ main' \in [Daemons -> {"unused", "spawned", "removed", "bound", "gone"} \cup Started]
        /\ closer' \in [Daemons -> {"idle", "signalled", "unlinked", "waiting", "dropped", "done"}]
        /\ forced' \in [Daemons -> BOOLEAN]
    BY DEF TypeOK, Started
  <2>2. \A e \in Daemons : closer'[e] # "idle" => main'[e] \in {"serving", "gone"}
    BY <1>1 DEF TypeOK
  <2>3. \A e \in Daemons : Open(e) \/ main[e] = "serving" => (Open(e) \/ main[e] = "serving")'
    BY <1>1 DEF TypeOK, Open, Started
  <2> QED
    BY <2>1, <2>2, <2>3 DEF TypeOK, Known
<1>3. Known'
  BY DEF Known
<1>4. \A e \in Daemons : (Preparing(e)' <=> Preparing(e)) /\ (Holds(e)' => Holds(e))
  BY <1>1 DEF TypeOK, Preparing, Holds
<1>5. ASSUME alone PROVE OneStarts'
  BY <1>4, <1>5 DEF OneStarts
<1>6. ASSUME alone PROVE SocketIsHeld'
  <2>1. CASE Unlink(d)
    <3>1. Holds(d) /\ sock = d /\ ~Holds(d)' /\ sock' = Nobody
      BY <1>6, <2>1 DEF Holds, Started, SocketIsHeld, TypeOK
    <3>2. \A e \in Daemons : ~Holds(e)' /\ main'[e] # "bound"
      BY <1>4, <1>6, <2>1, <3>1 DEF SocketIsHeld
    <3> QED
      BY <3>1, <3>2 DEF SocketIsHeld
  <2>2. CASE ~Unlink(d)
    <3>1. UNCHANGED <<sock, main>> /\ closer[d] \notin {"idle", "signalled"}
      BY <2>2
    <3> QED
      BY <1>4, <1>6, <3>1 DEF SocketIsHeld, TypeOK
  <2> QED
    BY <2>1, <2>2
<1> QED
  BY <1>2, <1>3, <1>5, <1>6

\* A client keeps the invariant: it removes a socket, or starts a daemon, only when
\* nobody has one.
LEMMA ClientInv ==
    ASSUME LifeInv, NEW c \in Clients, Begin(c) \/ Client(c) \/ GiveUp(c), UNCHANGED alone
    PROVE  LifeInv'
<1> USE Numbers DEF LifeInv
<1>0. UNCHANGED <<closer, stop>>
  BY DEF Begin, Client, Dial, Connect, RemoveRefused, StartDaemon, Redial, Finish, GiveUp
<1>1. Known'
  BY <1>0 DEF Known, TypeOK, Begin, Client, Dial, Connect, RemoveRefused, StartDaemon, Redial, Finish, GiveUp, Moves, Answers
<1>2. CASE Begin(c)
  <2> USE DEF Begin, Moves
  <2>1. TypeOK'
    BY <1>2 DEF TypeOK, Known, Starting, Open
  <2>2. ASSUME alone PROVE OneStarts' /\ SocketIsHeld'
    BY <1>2, <2>2 DEF TypeOK, OneStarts, SocketIsHeld, Preparing, Holds, Starting
  <2> QED
    BY <1>1, <2>1, <2>2
<1>3. CASE Dial(c)
  <2> USE DEF Dial, Moves, Connect
  <2>1. TypeOK'
    BY <1>3 DEF TypeOK, Known, Starting, Answers, Open
  <2>2. ASSUME alone PROVE OneStarts' /\ SocketIsHeld'
    <3>1. sock = Nobody \/ ~Answers => \A d \in Daemons : ~Holds(d)
      BY <2>2 DEF SocketIsHeld, Holds, Answers, Open
    <3>2. \A d \in Daemons : ~Preparing(d)
      <4>1. cl[c] \in Starting /\ cl[c] # "spawned"
        BY <1>3 DEF Starting
      <4> QED
        BY <2>2, <4>1 DEF OneStarts, Starting
    <3> QED
      BY <1>3, <2>2, <3>1, <3>2 DEF TypeOK, OneStarts, SocketIsHeld, Preparing, Holds, Starting
  <2> QED
    BY <1>1, <2>1, <2>2
<1>4. CASE RemoveRefused(c)
  <2> USE DEF RemoveRefused, Moves
  <2>1. TypeOK'
    BY <1>4 DEF TypeOK, Known, Starting, Open
  <2>2. ASSUME alone PROVE OneStarts' /\ SocketIsHeld'
    <3>1. \A d \in Daemons : ~Preparing(d) /\ ~Holds(d)
      BY <1>4, <2>2 DEF OneStarts, Starting
    <3> QED
      BY <1>4, <2>2, <3>1 DEF TypeOK, OneStarts, SocketIsHeld, Preparing, Holds, Starting
  <2> QED
    BY <1>1, <2>1, <2>2
<1>5. CASE StartDaemon(c)
  <2>1. PICK d \in Daemons : Step(d, "unused", "spawned")
    BY <1>5 DEF StartDaemon
  <2> USE DEF StartDaemon, Moves, Step
  <2>2. TypeOK'
    BY <1>5, <2>1 DEF TypeOK, Known, Starting, Started, Open
  <2>3. ASSUME alone PROVE OneStarts' /\ SocketIsHeld'
    <3>1. \A e \in Daemons : ~Preparing(e) /\ ~Holds(e)
      BY <1>5, <2>3 DEF OneStarts, Starting
    <3>2. \A e \in Daemons : ~Holds(e)' /\ main'[e] # "bound" /\ (Preparing(e)' => e = d)
      BY <1>0, <1>5, <2>1, <3>1 DEF Holds, Preparing, Started, TypeOK
    <3>3. cl'[c] = "spawned" /\ \A o \in Clients : cl'[o] \in Starting => cl[o] \in Starting
      BY <1>5 DEF Starting, TypeOK
    <3> QED
      BY <1>0, <1>5, <2>3, <3>2, <3>3 DEF OneStarts, SocketIsHeld, Starting, TypeOK
  <2> QED
    BY <1>1, <2>2, <2>3
<1>6. CASE Redial(c) \/ GiveUp(c)
  <2> USE DEF Redial, GiveUp, Moves, Connect
  <2>1. TypeOK'
    BY <1>6 DEF TypeOK, Known, Starting, Answers, Open
  <2>2. ASSUME alone PROVE OneStarts' /\ SocketIsHeld'
    <3>1. \A d \in Daemons : ~Preparing(d)
      <4>1. CASE GiveUp(c)
        BY <4>1 DEF Preparing
      <4>2. CASE Redial(c)
        <5>1. sock \in Daemons /\ Holds(sock)
          BY <2>2, <4>2 DEF Answers, Open, Holds, SocketIsHeld, TypeOK
        <5>2. \A d \in Daemons : Preparing(d) => d = sock
          BY <2>2, <5>1 DEF OneStarts
        <5> QED
          BY <5>1, <5>2 DEF Holds, Preparing, Started
      <4> QED
        BY <1>6, <4>1, <4>2
    <3> QED
      BY <1>6, <2>2, <3>1 DEF TypeOK, OneStarts, SocketIsHeld, Preparing, Holds, Starting
  <2> QED
    BY <1>1, <2>1, <2>2
<1>7. CASE Finish(c)
  <2> USE DEF Finish, Moves
  <2>1. TypeOK'
    BY <1>7 DEF TypeOK, Known, Starting, Open
  <2>2. ASSUME alone PROVE OneStarts' /\ SocketIsHeld'
    BY <1>7, <2>2 DEF TypeOK, OneStarts, SocketIsHeld, Preparing, Holds, Starting
  <2> QED
    BY <1>1, <2>1, <2>2
<1> QED
  BY <1>2, <1>3, <1>4, <1>5, <1>6, <1>7 DEF Client

\* rsb daemon stop keeps the invariant.
LEMMA StopInv ==
    ASSUME LifeInv, NEW p \in Stops, ReadPid(p) \/ Kill(p) \/ StopRemovesPid(p), UNCHANGED alone
    PROVE  LifeInv'
<1> USE Numbers DEF LifeInv, StopMoves
<1>1. CASE ReadPid(p) \/ StopRemovesPid(p)
  <2> USE DEF ReadPid, StopRemovesPid
  <2>1. TypeOK'
    BY <1>1 DEF TypeOK, Known, Open
  <2>2. Known'
    BY <1>1 DEF Known, TypeOK
  <2>3. ASSUME alone PROVE OneStarts' /\ SocketIsHeld'
    BY <1>1, <2>3 DEF OneStarts, SocketIsHeld, Preparing, Holds
  <2> QED
    BY <2>1, <2>2, <2>3
<1>2. CASE Kill(p)
  <2> DEFINE d == stop[p].pid
  <2>1. d \in Daemons
    BY <1>2 DEF Kill, Known
  <2>2. /\ Known'
        /\ stop' \in [Stops -> [at : {"idle", "none", "read", "killed"}, pid : Daemons \cup {Nobody}]]
    BY <1>2, <2>1, CutFacts DEF Kill, Known, TypeOK
  <2>3. CASE main[d] = "recorded"
    <3>1. UNCHANGED <<sock, pidfile, closer, forced, conn>> /\ main' = [main EXCEPT ![d] = "gone"] /\ cl' = Cut(d)
      BY <1>2, <2>3 DEF Kill
    <3> HIDE DEF d
    <3> QED
      BY <2>1, <2>2, <3>1, EndInv
  <2>4. CASE main[d] # "recorded"
    <3>1. UNCHANGED <<sock, pidfile, main, forced, cl, conn>>
      BY <1>2, <2>4 DEF Kill
    <3>2. \/ closer' = closer
          \/ main[d] = "serving" /\ closer[d] = "idle" /\ closer' = [closer EXCEPT ![d] = "signalled"]
      BY <1>2 DEF Kill
    <3> HIDE DEF d
    <3>3. TypeOK'
      <4>1. \A e \in Daemons : Open(e)' <=> Open(e)
        BY <2>1, <3>1, <3>2 DEF TypeOK, Open
      <4> QED
        BY <2>1, <2>2, <3>1, <3>2, <4>1 DEF TypeOK, Known
    <3>4. \A e \in Daemons : /\ Holds(e)' <=> Holds(e)
                             /\ closer'[e] \in {"idle", "signalled"} <=> closer[e] \in {"idle", "signalled"}
      BY <2>1, <3>1, <3>2 DEF Holds, TypeOK
    <3>5. ASSUME alone PROVE OneStarts' /\ SocketIsHeld'
      BY <3>1, <3>4, <3>5 DEF OneStarts, SocketIsHeld, Preparing
    <3> QED
      BY <2>2, <3>3, <3>5
  <2> QED
    BY <2>3, <2>4
<1> QED
  BY <1>1, <1>2

\* Every step keeps the invariant.
LEMMA NextInv == LifeInv /\ [Next]_vars => LifeInv'
<1> SUFFICES ASSUME LifeInv, [Next]_vars PROVE LifeInv'
  OBVIOUS
<1>1. CASE UNCHANGED vars
  BY <1>1 DEF vars, LifeInv, TypeOK, Known, OneStarts, SocketIsHeld, Preparing, Holds, Open
<1>2. ASSUME NEW d \in Daemons, Daemon(d) \/ Closer(d) \/ Crash(d), UNCHANGED alone PROVE LifeInv'
  BY <1>2, ComingUp, AcceptInv, GoneInv, CloserInv DEF Daemon
<1>3. ASSUME NEW c \in Clients, Begin(c) \/ Client(c) \/ GiveUp(c), UNCHANGED alone PROVE LifeInv'
  BY <1>3, ClientInv
<1>4. ASSUME NEW p \in Stops, ReadPid(p) \/ Kill(p) \/ StopRemovesPid(p), UNCHANGED alone PROVE LifeInv'
  BY <1>4, StopInv
<1> QED
  BY <1>1, <1>2, <1>3, <1>4 DEF Next

-----------------------------------------------------------------------------
(* The theorems *)

\* The invariant holds of every run.
THEOREM LifeInvariant == Spec => []LifeInv
BY InitInv, NextInv, PTL DEF Spec

\* TypeOK for every number of processes: types, only a daemon that handles signals
\* is closing, and a client that is connected is connected to a process.
THEOREM LifeTypes == Spec => []TypeOK
<1>1. LifeInv => TypeOK
  BY DEF LifeInv
<1> QED
  BY <1>1, LifeInvariant, PTL

\* OneDaemon for every number of processes: however daemons crash and are stopped,
\* clients that come one after the other have one daemon, at the socket
\* (dialOrStart and New remove only what nobody listens on).
THEOREM OneDaemonAlone == Spec => []OneDaemon
<1>1. LifeInv => OneDaemon
  BY DEF LifeInv, SocketIsHeld, OneDaemon, SocketIsItsOwn, Live, Holds
<1> QED
  BY <1>1, LifeInvariant, PTL
=============================================================================
