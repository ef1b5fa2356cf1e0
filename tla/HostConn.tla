------------------------------ MODULE HostConn ------------------------------
(***************************************************************************)
(* The daemon's side of one host (internal/daemon/daemon.go, helpers.go):   *)
(* the pooled hostConn with its routes and its two pumps, and the bridge of *)
(* every client attached to it, with a writer goroutine per client and a    *)
(* forwarder goroutine per request.  The agent behind the pipes and the     *)
(* clients behind the socket are environment.                               *)
(***************************************************************************)
EXTENDS Naturals, SequencesExt

CONSTANTS
    Clients,        \* client connections, all to this host
    Reqs,           \* request ids
    Owner,          \* Owner[r]: the client that sends r
    Stats,          \* requests the agent answers with a file_stat frame
    Puts,           \* requests followed by file chunks
    Chunks,         \* chunks of a put; the last one ends it
    Outs,           \* Outs[r]: Output frames the agent may send for request r
    InCap,          \* capacity of clientIn (64)
    ChCap,          \* capacity of a reply channel (16)
    WCap,           \* capacity of writeCh (64)
    SockCap,        \* frames a socket or pipe holds
    MaxGen,         \* agent connections the daemon may open
    Quitters,       \* clients that may hang up with a request unanswered
    Readers,        \* clients that keep reading their socket
    AgentMayDie     \* whether the agent connection may be lost

ASSUME HostConnAssumption ==
    /\ Owner \in [Reqs -> Clients]
    /\ Stats \subseteq Reqs /\ Puts \subseteq Reqs /\ Quitters \cup Readers \subseteq Clients
    /\ {Chunks, MaxGen} \subseteq Nat /\ Outs \in [Reqs -> Nat]
    /\ {InCap, ChCap, WCap, SockCap} \subseteq Nat \ {0}
    /\ AgentMayDie \in BOOLEAN

Gens == 1..MaxGen

VARIABLES
    pool,       \* d.conns[host]: the generation in the pool, 0 before the first
    hc,         \* hc[g]: [closed, routes, clientIn, from, failing, to]
    agent,      \* agent[g]: [up, out] and the frames it wrote that nobody read
    work,       \* work[r]: what the agent knows of r: [gen, outs, chunks, open]
    att,        \* att[c]: the generation client c is attached to
    sock,       \* sock[c]: the socket: [up, in, out], towards and from the daemon
    bridge,     \* bridge[c]: where the read loop of c's bridge is
    writeCh,    \* writeCh[c]: frames for c's writer goroutine
    sent,       \* sent[r]: 0 before the Request, then 1 + chunks sent
    ch,         \* ch[r]: the reply channel of r
    fwd,        \* fwd[r]: its forwarder: "none", "wait", "ack", "done"
    seen,       \* seen[c]: the frames client c has read
    panicked    \* a goroutine panicked: the daemon process is gone

connVars   == <<pool, hc>>
agentVars  == <<agent, work>>
clientVars == <<att, sock, sent, seen>>
bridgeVars == <<bridge, writeCh, ch, fwd>>
vars == <<connVars, agentVars, clientVars, bridgeVars, panicked>>

Frame(r, kind, n) == [r |-> r, kind |-> kind, n |-> n]
\* What ends a forwarder and a route.  A file_stat frame does not.
Terminal(f) == f.kind \in {"result", "error"}

Init ==
    /\ pool = 0
    /\ hc = [g \in Gens |-> [closed |-> FALSE, routes |-> {}, clientIn |-> <<>>, from |-> "read",
                             failing |-> {}, to |-> "up"]]
    /\ agent = [g \in Gens |-> [up |-> TRUE, out |-> <<>>]]
    /\ work = [r \in Reqs |-> [gen |-> 0, outs |-> 0, chunks |-> <<>>, open |-> FALSE]]
    /\ att = [c \in Clients |-> 0]
    /\ sock = [c \in Clients |-> [up |-> TRUE, in |-> <<>>, out |-> <<>>]]
    /\ bridge = [c \in Clients |-> "new"]
    /\ writeCh = [c \in Clients |-> <<>>]
    /\ sent = [r \in Reqs |-> 0]
    /\ ch = [r \in Reqs |-> <<>>]
    /\ fwd = [r \in Reqs |-> "none"]
    /\ seen = [c \in Clients |-> <<>>]
    /\ panicked = FALSE

-----------------------------------------------------------------------------
(* The clients *)

Answered(r) == \E i \in DOMAIN seen[Owner[r]] :
    LET f == seen[Owner[r]][i] IN f.r = r /\ (Terminal(f) \/ f.kind = "stat")

\* A Request, then for a put its chunks, without waiting for anything.
ClientSend(r) ==
    LET c == Owner[r] IN
    /\ sock[c].up /\ bridge[c] # "new" /\ Len(sock[c].in) < SockCap
    /\ sent[r] < 1 + (IF r \in Puts THEN Chunks ELSE 0)
    /\ sock' = [sock EXCEPT ![c].in = Append(@, Frame(r, IF sent[r] = 0 THEN "request" ELSE "chunk", sent[r]))]
    /\ sent' = [sent EXCEPT ![r] = @ + 1]
    /\ UNCHANGED <<connVars, agentVars, att, seen, bridgeVars, panicked>>

ClientRead(c) ==
    /\ sock[c].up /\ sock[c].out # <<>>
    /\ seen' = [seen EXCEPT ![c] = Append(@, Head(sock[c].out))]
    /\ sock' = [sock EXCEPT ![c].out = Tail(@)]
    /\ UNCHANGED <<connVars, agentVars, att, sent, bridgeVars, panicked>>

\* A client leaves when it has its answers; a quitter (Ctrl-C, its own timeout,
\* a grep that has enough matches) at any time.
HangUp(c) ==
    /\ sock[c].up /\ bridge[c] # "new"
    /\ c \in Quitters \/ \A r \in Reqs : Owner[r] = c /\ sent[r] > 0 => Answered(r)
    /\ sock' = [sock EXCEPT ![c].up = FALSE, ![c].out = <<>>]
    /\ UNCHANGED <<connVars, agentVars, att, sent, seen, bridgeVars, panicked>>

-----------------------------------------------------------------------------
(* The agent *)

\* Output, Result, file_stat, in any order over the open requests.  A put is
\* answered once its last chunk arrived.
AgentSays(g, r, f) ==
    /\ agent[g].up /\ work[r].open /\ work[r].gen = g
    /\ Len(agent[g].out) < SockCap
    /\ agent' = [agent EXCEPT ![g].out = Append(@, f)]
    /\ UNCHANGED <<connVars, clientVars, bridgeVars, panicked>>

AgentOutput(g, r) ==
    /\ r \notin Stats \cup Puts /\ work[r].outs < Outs[r]
    /\ AgentSays(g, r, Frame(r, "output", work[r].outs + 1))
    /\ work' = [work EXCEPT ![r].outs = @ + 1]

AgentAnswer(g, r) ==
    /\ r \in Puts => Chunks \in Range(work[r].chunks)
    /\ AgentSays(g, r, IF r \in Stats THEN Frame(r, "stat", 0) ELSE Frame(r, "result", work[r].outs))
    /\ work' = [work EXCEPT ![r].open = FALSE]

\* The ssh process ends: the network, the remote host, the agent itself.
AgentDies(g) ==
    /\ AgentMayDie /\ g <= pool /\ agent[g].up
    /\ agent' = [agent EXCEPT ![g].up = FALSE]
    /\ UNCHANGED <<connVars, work, clientVars, bridgeVars, panicked>>

-----------------------------------------------------------------------------
(* The pool and the hostConn *)

Usable == pool # 0 /\ ~hc[pool].closed

\* handshake: hostConn holds d.mu from the lookup to the Hello of a new agent.
Attach(c) ==
    /\ ~panicked
    /\ bridge[c] = "new"
    /\ IF Usable THEN pool' = pool ELSE pool < MaxGen /\ pool' = pool + 1
    /\ att' = [att EXCEPT ![c] = pool']
    /\ bridge' = [bridge EXCEPT ![c] = "read"]
    /\ UNCHANGED <<hc, agentVars, sock, sent, seen, writeCh, ch, fwd, panicked>>

\* No Hello: the client gets an Error and the pool stays as it was.
AttachFails(c) ==
    /\ ~panicked
    /\ bridge[c] = "new" /\ ~Usable
    /\ bridge' = [bridge EXCEPT ![c] = "ended"]
    /\ sock' = [sock EXCEPT ![c].up = FALSE]
    /\ UNCHANGED <<connVars, agentVars, att, sent, seen, writeCh, ch, fwd, panicked>>

\* One frame from clientIn to the agent, which takes it in.  A write to a dead
\* agent ends the pump.
PumpToAgent(g) ==
    LET f == Head(hc[g].clientIn) IN
    /\ ~panicked
    /\ hc[g].to = "up" /\ hc[g].clientIn # <<>>
    /\ hc' = [hc EXCEPT ![g].clientIn = Tail(@), ![g].to = IF agent[g].up THEN "up" ELSE "down"]
    /\ work' = IF ~agent[g].up THEN work
               ELSE IF f.kind = "request" THEN [work EXCEPT ![f.r].gen = g, ![f.r].open = TRUE]
               ELSE [work EXCEPT ![f.r].chunks = Append(@, f.n)]
    /\ UNCHANGED <<pool, agent, clientVars, bridgeVars, panicked>>

\* Mutant of PumpFromAgent: a full reply channel loses the frame.
PumpFromAgentDrops(g) ==
    LET f == Head(agent[g].out)
        room == f.r \in hc[g].routes /\ Len(ch[f.r]) < ChCap IN
    /\ ~panicked
    /\ hc[g].from = "read" /\ agent[g].out # <<>>
    /\ agent' = [agent EXCEPT ![g].out = Tail(@)]
    /\ ch' = IF room THEN [ch EXCEPT ![f.r] = Append(@, f)] ELSE ch
    /\ hc' = IF Terminal(f) THEN [hc EXCEPT ![g].routes = @ \ {f.r}] ELSE hc
    /\ UNCHANGED <<pool, work, clientVars, bridge, writeCh, fwd, panicked>>

\* One frame from the agent to its route; the pump waits for room in the reply
\* channel and reads nothing else meanwhile.
PumpFromAgent(g) ==
    LET f == Head(agent[g].out)
        routed == f.r \in hc[g].routes IN
    /\ ~panicked
    /\ hc[g].from = "read" /\ agent[g].out # <<>>
    /\ routed => Len(ch[f.r]) < ChCap
    /\ agent' = [agent EXCEPT ![g].out = Tail(@)]
    /\ ch' = IF routed THEN [ch EXCEPT ![f.r] = Append(@, f)] ELSE ch
    /\ hc' = IF Terminal(f) THEN [hc EXCEPT ![g].routes = @ \ {f.r}] ELSE hc
    /\ UNCHANGED <<pool, work, clientVars, bridge, writeCh, fwd, panicked>>

\* Mutant of FailAll: the routes go, and nobody is told.
FailNobody(g) ==
    /\ ~panicked
    /\ g <= pool /\ ~agent[g].up /\ agent[g].out = <<>> /\ hc[g].from = "read"
    /\ hc' = [hc EXCEPT ![g].from = "failing", ![g].routes = {}]
    /\ UNCHANGED <<pool, agentVars, clientVars, bridgeVars, panicked>>

\* End of the agent's output: failAll takes the routes away from the connection ...
FailAll(g) ==
    /\ ~panicked
    /\ g <= pool /\ ~agent[g].up /\ agent[g].out = <<>> /\ hc[g].from = "read"
    /\ hc' = [hc EXCEPT ![g].from = "failing", ![g].failing = hc[g].routes, ![g].routes = {}]
    /\ UNCHANGED <<pool, agentVars, clientVars, bridgeVars, panicked>>

\* ... and gives each an Error ...
FailOne(g, r) ==
    /\ ~panicked
    /\ r \in hc[g].failing /\ Len(ch[r]) < ChCap
    /\ ch' = [ch EXCEPT ![r] = Append(@, Frame(r, "error", 0))]
    /\ hc' = [hc EXCEPT ![g].failing = @ \ {r}]
    /\ UNCHANGED <<pool, agentVars, clientVars, bridge, writeCh, fwd, panicked>>

\* Mutant of CloseConn: the connection is marked closed before the Errors are out.
CloseConnEarly(g) ==
    /\ ~panicked
    /\ hc[g].from = "failing"
    /\ hc' = [hc EXCEPT ![g].from = "done", ![g].closed = TRUE]
    /\ UNCHANGED <<pool, agentVars, clientVars, bridgeVars, panicked>>

\* ... and only then is the connection marked closed.
CloseConn(g) ==
    /\ ~panicked
    /\ hc[g].from = "failing" /\ hc[g].failing = {}
    /\ hc' = [hc EXCEPT ![g].from = "done", ![g].closed = TRUE]
    /\ UNCHANGED <<pool, agentVars, clientVars, bridgeVars, panicked>>

-----------------------------------------------------------------------------
(* The bridge of a client *)

\* Mutant of CanSend: no bound on clientIn.
CanSendUnbounded(g) == ~hc[g].closed

\* send never blocks; it fails on a closed connection and on a full clientIn.
CanSend(g) == ~hc[g].closed /\ Len(hc[g].clientIn) < InCap

\* A Request is given a route first ...
BridgeRegister(c) ==
    LET f == Head(sock[c].in) IN
    /\ ~panicked
    /\ bridge[c] = "read" /\ sock[c].in # <<>> /\ f.kind = "request"
    /\ hc' = [hc EXCEPT ![att[c]].routes = @ \cup {f.r}]
    /\ bridge' = [bridge EXCEPT ![c] = "send"]
    /\ UNCHANGED <<pool, agentVars, clientVars, writeCh, ch, fwd, panicked>>

\* ... then it is sent on and gets a forwarder, ...
BridgeSend(c) ==
    LET f == Head(sock[c].in) IN
    /\ ~panicked
    /\ bridge[c] = "send" /\ CanSend(att[c])
    /\ hc' = [hc EXCEPT ![att[c]].clientIn = Append(@, f)]
    /\ fwd' = [fwd EXCEPT ![f.r] = "wait"]
    /\ sock' = [sock EXCEPT ![c].in = Tail(@)]
    /\ bridge' = [bridge EXCEPT ![c] = "read"]
    /\ UNCHANGED <<pool, agentVars, att, sent, seen, writeCh, ch, panicked>>

\* ... or refused with an Error, which leaves its route behind.
BridgeRefuse(c) ==
    LET f == Head(sock[c].in) IN
    /\ ~panicked
    /\ bridge[c] = "send" /\ ~CanSend(att[c]) /\ Len(writeCh[c]) < WCap
    /\ writeCh' = [writeCh EXCEPT ![c] = Append(@, Frame(f.r, "error", 0))]
    /\ bridge' = [bridge EXCEPT ![c] = "ack"]
    /\ sock' = [sock EXCEPT ![c].in = Tail(@)]
    /\ UNCHANGED <<connVars, agentVars, att, sent, seen, ch, fwd, panicked>>

\* Stdin, EndStdin, Cancel and FileChunk frames: nobody looks at what send
\* returns.
BridgeForward(c) ==
    LET f == Head(sock[c].in) IN
    /\ ~panicked
    /\ bridge[c] = "read" /\ sock[c].in # <<>> /\ f.kind = "chunk"
    /\ hc' = IF CanSend(att[c]) THEN [hc EXCEPT ![att[c]].clientIn = Append(@, f)] ELSE hc
    /\ sock' = [sock EXCEPT ![c].in = Tail(@)]
    /\ UNCHANGED <<pool, agentVars, att, sent, seen, bridgeVars, panicked>>

\* Mutant of BridgeEnd: the bridge returns while its client is still there.
BridgeEndsIdle(c) ==
    /\ ~panicked
    /\ bridge[c] = "read" /\ sock[c].in = <<>>
    /\ bridge' = [bridge EXCEPT ![c] = "ended"]
    /\ UNCHANGED <<connVars, agentVars, clientVars, writeCh, ch, fwd, panicked>>

\* The client is gone: the bridge closes writeCh and returns.
BridgeEnd(c) ==
    /\ ~panicked
    /\ bridge[c] = "read" /\ ~sock[c].up /\ sock[c].in = <<>>
    /\ bridge' = [bridge EXCEPT ![c] = "ended"]
    /\ UNCHANGED <<connVars, agentVars, clientVars, writeCh, ch, fwd, panicked>>

\* The writer goroutine: a write to a client that left fails, and is
\* acknowledged like the others.
Write(c) ==
    LET f == Head(writeCh[c]) IN
    /\ ~panicked
    /\ writeCh[c] # <<>>
    /\ sock[c].up => Len(sock[c].out) < SockCap
    /\ sock' = IF sock[c].up THEN [sock EXCEPT ![c].out = Append(@, f)] ELSE sock
    /\ writeCh' = [writeCh EXCEPT ![c] = Tail(@)]
    /\ IF fwd[f.r] = "ack"
       THEN fwd' = [fwd EXCEPT ![f.r] = IF Terminal(f) THEN "done" ELSE "wait"] /\ UNCHANGED bridge
       ELSE bridge' = [bridge EXCEPT ![c] = "read"] /\ UNCHANGED fwd
    /\ UNCHANGED <<connVars, agentVars, att, sent, seen, ch, panicked>>

\* The forwarder hands a reply to the writer and waits for it to be written.  (A
\* frame in its hand counts as still in the reply channel.)  The send on a
\* writeCh the bridge has closed panics.
ForwardReply(r) ==
    LET c == Owner[r] IN
    /\ ~panicked
    /\ fwd[r] = "wait" /\ ch[r] # <<>>
    /\ IF bridge[c] = "ended"
       THEN panicked' = TRUE /\ UNCHANGED <<writeCh, ch, fwd>>
       ELSE /\ Len(writeCh[c]) < WCap
            /\ writeCh' = [writeCh EXCEPT ![c] = Append(@, Head(ch[r]))]
            /\ ch' = [ch EXCEPT ![r] = Tail(@)]
            /\ fwd' = [fwd EXCEPT ![r] = "ack"]
            /\ UNCHANGED panicked
    /\ UNCHANGED <<connVars, agentVars, clientVars, bridge>>

-----------------------------------------------------------------------------
Bridge(c) ==
    \/ Attach(c) \/ BridgeRegister(c) \/ BridgeSend(c) \/ BridgeRefuse(c) \/ BridgeForward(c) \/ BridgeEnd(c)
FromAgent(g) == PumpFromAgent(g) \/ FailAll(g) \/ CloseConn(g) \/ \E r \in Reqs : FailOne(g, r)

Next ==
    \/ \E c \in Clients : ClientRead(c) \/ HangUp(c) \/ AttachFails(c) \/ Bridge(c) \/ Write(c)
    \/ \E r \in Reqs : ClientSend(r) \/ ForwardReply(r)
    \/ \E g \in Gens : AgentDies(g) \/ PumpToAgent(g) \/ FromAgent(g)
                         \/ \E r \in Reqs : AgentOutput(g, r) \/ AgentAnswer(g, r)

Spec == Init /\ [][Next]_vars

\* Every goroutine of the daemon that can run does, the agent answers what it
\* was given, and a client among the readers reads on and sends all of a put.
FairSpec ==
    /\ Spec
    /\ \A c \in Clients : WF_vars(Bridge(c)) /\ WF_vars(Write(c))
    /\ \A r \in Reqs : WF_vars(ForwardReply(r)) /\ WF_vars(sent[r] > 0 /\ ClientSend(r))
    /\ \A g \in Gens : WF_vars(PumpToAgent(g)) /\ WF_vars(FromAgent(g))
    /\ \A g \in Gens, r \in Reqs : WF_vars(AgentAnswer(g, r))
    /\ \A c \in Readers : WF_vars(ClientRead(c))

-----------------------------------------------------------------------------
(* Properties *)

\* Every variable has its type and no channel is above its capacity.
TypeOK ==
    /\ pool \in 0..MaxGen
    /\ \A g \in Gens :
         /\ hc[g].closed \in BOOLEAN
         /\ hc[g].routes \subseteq Reqs /\ hc[g].failing \subseteq Reqs
         /\ Len(hc[g].clientIn) <= InCap
         /\ hc[g].from \in {"read", "failing", "done"} /\ hc[g].to \in {"up", "down"}
    /\ att \in [Clients -> 0..MaxGen]
    /\ bridge \in [Clients -> {"new", "read", "send", "ack", "ended"}]
    /\ fwd \in [Reqs -> {"none", "wait", "ack", "done"}]
    /\ \A r \in Reqs : Len(ch[r]) <= ChCap
    /\ \A c \in Clients : Len(writeCh[c]) <= WCap

\* Frame i of s is the Nth(s, i)-th one of its request.
Nth(s, i) == Cardinality({j \in 1..i : s[j].r = s[i].r})

\* A client reads only frames of its own requests, each request's in the order
\* the agent wrote them without a gap, a Result after all its Output frames, a
\* file_stat first, and nothing after the terminal frame, at whatever point the
\* connection was lost.
RepliesInOrder == \A c \in Clients : \A i \in DOMAIN seen[c] :
    LET f == seen[c][i] IN
    /\ Owner[f.r] = c
    /\ f.kind = "output" => f.n = Nth(seen[c], i)
    /\ f.kind = "result" => f.n = Nth(seen[c], i) - 1
    /\ f.kind = "stat" => Nth(seen[c], i) = 1
    /\ Terminal(f) => \A j \in DOMAIN seen[c] : seen[c][j].r = f.r => j <= i

\* A reply that ends r is in its reply channel or further on.
Told(r) ==
    \/ fwd[r] = "done"
    \/ \E i \in DOMAIN ch[r] : Terminal(ch[r][i])
    \/ fwd[r] = "ack" /\ \E i \in DOMAIN writeCh[Owner[r]] :
         LET f == writeCh[Owner[r]][i] IN f.r = r /\ Terminal(f)

\* A connection is marked closed, and may be replaced, only after each request sent
\* over it got its Result or an Error in its reply channel.  The one exception still
\* has its route: it was registered when failAll had already taken the routes away
\* (RequestIsAnswered).
LostAreTold == \A r \in Reqs :
    LET g == att[Owner[r]] IN
    fwd[r] # "none" /\ hc[g].closed /\ r \notin hc[g].routes => Told(r)

\* A FileChunk of r found clientIn full, while the agent was there.
ChunkDropped(r) ==
    LET c == Owner[r] IN
    /\ r \in Puts /\ att[c] # 0 /\ agent[att[c]].up
    /\ \E n \in 1..(sent[r] - 1) : /\ n \notin Range(work[r].chunks)
                                  /\ Frame(r, "chunk", n) \notin Range(sock[c].in \o hc[att[c]].clientIn)

\* A request whose route was there when the connection broke, or that never saw
\* it break, is answered if its client reads: by the agent, by failAll, or by the
\* bridge if clientIn is full.  A put that lost a chunk there is not.
RoutedIsAnswered == \A r \in Reqs : \A g \in Gens :
    (r \in hc[g].routes /\ hc[g].from = "read") ~> (Answered(r) \/ ~sock[Owner[r]].up \/ ChunkDropped(r))

\* The daemon's doc comments and the README promise a persistent daemon: no
\* client and no agent makes it panic.
DaemonSurvives == ~panicked

\* The comment on failAll: when the agent connection dies every pending request
\* gets an Error, so that clients do not hang.
RequestIsAnswered == \A r \in Reqs : (sent[r] > 0) ~> (Answered(r) \/ ~sock[Owner[r]].up)

\* The comment in bridge: a FileChunk must be forwarded or the put would hang
\* for ever.
PutIsAnswered == \A r \in Puts : (sent[r] > 0) ~> (Answered(r) \/ ~sock[Owner[r]].up)

\* README: different sessions run concurrently.  A client that reads its socket
\* is answered whatever the others do.
OthersAreAnswered == \A r \in Reqs :
    (Owner[r] \in Readers /\ sent[r] > 0) ~> (Answered(r) \/ ~sock[Owner[r]].up)
=============================================================================
