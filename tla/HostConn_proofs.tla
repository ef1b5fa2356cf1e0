-------------------------- MODULE HostConn_proofs ---------------------------
(***************************************************************************)
(* Proofs about the daemon's side of a host, for every number of clients,   *)
(* requests, connections and every size of the channels: types and bounds,  *)
(* a daemon that goes on as long as clients wait for their answers, replies *)
(* that reach their client in order, and requests that a lost connection    *)
(* does not leave without an answer.                                        *)
(***************************************************************************)
EXTENDS HostConn, FiniteSetTheorems, TLAPS

Ask == [r : Reqs, kind : {"request", "chunk"}, n : Nat]
Kinds == {"output", "result", "error"} \cup (IF Stats = {} THEN {} ELSE {"stat"})
Reply == [r : Reqs, kind : Kinds, n : Nat]
Conn == [closed : BOOLEAN, routes : SUBSET Reqs, clientIn : Seq(Ask), from : {"read", "failing", "done"},
         failing : SUBSET Reqs, to : {"up", "down"}]

Socket == [up : BOOLEAN, in : Seq(Ask), out : Seq(Reply)]

ConnTypes == pool \in 0..MaxGen /\ hc \in [Gens -> Conn] /\ att \in [Clients -> 0..MaxGen]
AgentTypes ==
    /\ agent \in [Gens -> [up : BOOLEAN, out : Seq(Reply)]]
    /\ work \in [Reqs -> [gen : Nat, outs : Nat, chunks : Seq(Nat), open : BOOLEAN]]
SockTypes == sock \in [Clients -> Socket]
ChannelTypes ==
    /\ writeCh \in [Clients -> Seq(Reply)]
    /\ ch \in [Reqs -> Seq(Reply)]
    /\ seen \in [Clients -> Seq(Reply)]
PhaseTypes ==
    /\ bridge \in [Clients -> {"new", "read", "send", "ack", "ended"}]
    /\ fwd \in [Reqs -> {"none", "wait", "ack", "done"}]
    /\ sent \in [Reqs -> Nat] /\ panicked \in BOOLEAN

Types == ConnTypes /\ AgentTypes /\ SockTypes /\ ChannelTypes /\ PhaseTypes

\* No channel is above its capacity, and a bridge that sends has a Request in hand.
Bounded ==
    /\ \A g \in Gens : Len(hc[g].clientIn) <= InCap
    /\ \A r \in Reqs : Len(ch[r]) <= ChCap
    /\ \A c \in Clients : Len(writeCh[c]) <= WCap
    /\ \A c \in Clients : bridge[c] = "send" => sock[c].in # <<>> /\ Head(sock[c].in).kind = "request"

\* A connection that is closed has failed its requests, and only the last one of
\* the pool may be open.
Closing ==
    /\ \A g \in Gens : hc[g].closed => hc[g].from = "done"
    /\ \A g \in Gens : hc[g].from # "failing" => hc[g].failing = {}
    /\ \A g \in Gens : g < pool => hc[g].closed

ConnInv == Types /\ Bounded /\ Closing

-----------------------------------------------------------------------------
(* Types, bounds and the pool *)

LEMMA Constants ==
    /\ \A r \in Reqs : Owner[r] \in Clients
    /\ Chunks \in Nat /\ MaxGen \in Nat /\ \A r \in Reqs : Outs[r] \in Nat
    /\ InCap \in Nat \ {0} /\ ChCap \in Nat \ {0} /\ WCap \in Nat \ {0} /\ SockCap \in Nat \ {0}
BY HostConnAssumption

\* The first frame of a channel, and what is left.
LEMMA HeadTail ==
    ASSUME NEW S, NEW s \in Seq(S), s # <<>>
    PROVE  /\ Head(s) \in S /\ Tail(s) \in Seq(S) /\ Len(s) \in Nat \ {0} /\ Len(Tail(s)) = Len(s) - 1
           /\ Head(s) = s[1] /\ \A i \in 1..Len(Tail(s)) : Tail(s)[i] = s[i + 1] /\ i + 1 \in 1..Len(s)
OBVIOUS

\* One frame more.
LEMMA OneMore ==
    ASSUME NEW S, NEW s \in Seq(S), NEW f \in S
    PROVE  /\ Append(s, f) \in Seq(S) /\ Len(s) \in Nat /\ Len(Append(s, f)) = Len(s) + 1
           /\ Append(s, f)[Len(s) + 1] = f /\ \A i \in 1..Len(s) : Append(s, f)[i] = s[i]
OBVIOUS

\* A socket: a frame is sent to the daemon, taken by it, sent to the client, read.
LEMMA SocketStep ==
    ASSUME SockTypes, NEW c \in Clients
    PROVE  /\ sock[c].up \in BOOLEAN /\ sock[c].in \in Seq(Ask) /\ sock[c].out \in Seq(Reply)
           /\ \A q \in Seq(Ask) : [sock EXCEPT ![c].in = q] \in [Clients -> Socket]
           /\ \A q \in Seq(Reply) : [sock EXCEPT ![c].out = q] \in [Clients -> Socket]
           /\ [sock EXCEPT ![c].up = FALSE] \in [Clients -> Socket]
           /\ [sock EXCEPT ![c].up = FALSE, ![c].out = <<>>] \in [Clients -> Socket]
<1>1. <<>> \in Seq(Reply)
  OBVIOUS
<1> QED
  BY <1>1 DEF SockTypes, Socket

\* What goes to the client is apart from what comes from it.
LEMMA SameIn ==
    ASSUME SockTypes, NEW c \in Clients, NEW q,
           \/ sock' = [sock EXCEPT ![c].out = q]
           \/ sock' = [sock EXCEPT ![c].up = FALSE, ![c].out = q]
           \/ sock' = [sock EXCEPT ![c].up = FALSE]
    PROVE  \A d \in Clients : sock'[d].in = sock[d].in
<1> SUFFICES ASSUME NEW d \in Clients PROVE sock'[d].in = sock[d].in
  OBVIOUS
<1>1. sock \in [Clients -> Socket] /\ sock[c] \in Socket
  BY DEF SockTypes
<1>2. CASE d # c
  BY <1>1, <1>2
<1>3. CASE d = c
  <2>1. sock'[c] \in {[sock[c] EXCEPT !.out = q], [sock[c] EXCEPT !.up = FALSE, !.out = q], [sock[c] EXCEPT !.up = FALSE]}
    BY <1>1
  <2> QED
    BY <1>1, <1>3, <2>1 DEF Socket
<1> QED
  BY <1>2, <1>3

\* A connection: each of its fields changes alone, or with the others as it does.
LEMMA ConnStep ==
    ASSUME ConnTypes, NEW g \in Gens
    PROVE  /\ hc[g].closed \in BOOLEAN /\ hc[g].routes \subseteq Reqs /\ hc[g].clientIn \in Seq(Ask)
           /\ hc[g].failing \subseteq Reqs
           /\ \A q \in Seq(Ask) : [hc EXCEPT ![g].clientIn = q] \in [Gens -> Conn]
           /\ \A q \in Seq(Ask), t \in {"up", "down"} :
                [hc EXCEPT ![g].clientIn = q, ![g].to = t] \in [Gens -> Conn]
           /\ \A R \in SUBSET Reqs : [hc EXCEPT ![g].routes = R] \in [Gens -> Conn]
           /\ \A R \in SUBSET Reqs : [hc EXCEPT ![g].failing = R] \in [Gens -> Conn]
           /\ [hc EXCEPT ![g].from = "failing", ![g].failing = hc[g].routes, ![g].routes = {}] \in [Gens -> Conn]
           /\ [hc EXCEPT ![g].from = "done", ![g].closed = TRUE] \in [Gens -> Conn]
<1> USE DEF ConnTypes, Conn
<1>1. /\ hc[g].closed \in BOOLEAN /\ hc[g].routes \subseteq Reqs /\ hc[g].clientIn \in Seq(Ask)
      /\ hc[g].failing \subseteq Reqs
  OBVIOUS
<1>2. \A q \in Seq(Ask) : [hc EXCEPT ![g].clientIn = q] \in [Gens -> Conn]
  OBVIOUS
<1>3. \A q \in Seq(Ask), t \in {"up", "down"} :
        [hc EXCEPT ![g].clientIn = q, ![g].to = t] \in [Gens -> Conn]
  BY ZenonT(60)
<1>4. \A R \in SUBSET Reqs : [hc EXCEPT ![g].routes = R] \in [Gens -> Conn]
  OBVIOUS
<1>5. \A R \in SUBSET Reqs : [hc EXCEPT ![g].failing = R] \in [Gens -> Conn]
  OBVIOUS
<1>6. [hc EXCEPT ![g].from = "failing", ![g].failing = hc[g].routes, ![g].routes = {}] \in [Gens -> Conn]
  BY ZenonT(60)
<1>7. [hc EXCEPT ![g].from = "done", ![g].closed = TRUE] \in [Gens -> Conn]
  BY ZenonT(60)
<1> QED
  BY <1>1, <1>2, <1>3, <1>4, <1>5, <1>6, <1>7

\* A channel: a frame is put in, or taken out.
LEMMA ChannelStep ==
    ASSUME ChannelTypes, NEW c \in Clients, NEW r \in Reqs
    PROVE  /\ writeCh[c] \in Seq(Reply) /\ ch[r] \in Seq(Reply) /\ seen[c] \in Seq(Reply)
           /\ \A q \in Seq(Reply) : [writeCh EXCEPT ![c] = q] \in [Clients -> Seq(Reply)]
           /\ \A q \in Seq(Reply) : [ch EXCEPT ![r] = q] \in [Reqs -> Seq(Reply)]
           /\ \A q \in Seq(Reply) : [seen EXCEPT ![c] = q] \in [Clients -> Seq(Reply)]
BY DEF ChannelTypes

\* Frames of every kind.
LEMMA Frames ==
    ASSUME Types, NEW r \in Reqs
    PROVE  /\ \A k \in {"request", "chunk"}, n \in Nat : Frame(r, k, n) \in Ask
           /\ \A k \in {"output", "result", "error"}, n \in Nat : Frame(r, k, n) \in Reply
           /\ r \in Stats => Frame(r, "stat", 0) \in Reply
           /\ \A f \in Ask : f.r \in Reqs /\ f.n \in Nat
           /\ \A f \in Reply : f.r \in Reqs
BY DEF Frame, Ask, Reply, Kinds

LEMMA InitConn == Init => ConnInv
<1> SUFFICES ASSUME Init PROVE ConnInv
  OBVIOUS
<1>1. <<>> \in Seq(Reply) /\ <<>> \in Seq(Ask) /\ <<>> \in Seq(Nat) /\ Len(<<>>) = 0
  OBVIOUS
<1>2. ConnTypes
  <2>1. [closed |-> FALSE, routes |-> {}, clientIn |-> <<>>, from |-> "read", failing |-> {}, to |-> "up"] \in Conn
    BY <1>1 DEF Conn
  <2> QED
    BY <2>1, Constants DEF Init, ConnTypes
<1>3. AgentTypes /\ SockTypes
  BY <1>1 DEF Init, AgentTypes, SockTypes, Socket
<1>4. ChannelTypes /\ PhaseTypes
  BY <1>1 DEF Init, ChannelTypes, PhaseTypes
<1>5. Bounded /\ Closing
  BY <1>1, Constants DEF Init, Bounded, Closing, Gens
<1> QED
  BY <1>2, <1>3, <1>4, <1>5 DEF ConnInv, Types

-----------------------------------------------------------------------------
(* One lemma per action *)

LEMMA ClientSendConn == ASSUME ConnInv, NEW r \in Reqs, ClientSend(r) PROVE ConnInv'
<1> USE Constants DEF ConnInv, Types
<1> DEFINE c == Owner[r]
           f == Frame(r, IF sent[r] = 0 THEN "request" ELSE "chunk", sent[r])
<1>1. f \in Ask /\ sent' \in [Reqs -> Nat] /\ c \in Clients
  BY Frames DEF PhaseTypes, ClientSend
<1>2. sock' = [sock EXCEPT ![c].in = Append(sock[c].in, f)] /\ Append(sock[c].in, f) \in Seq(Ask)
  BY <1>1, SocketStep, OneMore DEF ClientSend
<1> HIDE DEF f, c
<1>3. SockTypes'
  BY <1>1, <1>2, SocketStep DEF SockTypes
<1>4. UNCHANGED <<connVars, agentVars, att, seen, bridgeVars, panicked>>
  BY DEF ClientSend
<1>5. ASSUME NEW d \in Clients, bridge[d] = "send"
      PROVE  sock'[d].in # <<>> /\ Head(sock'[d].in).kind = "request"
  <2>1. CASE d = c
    <3>1. sock'[d].in = Append(sock[c].in, f)
      BY <1>1, <1>2, <2>1 DEF SockTypes, Socket
    <3>2. sock[c].in \in Seq(Ask) /\ sock[c].in # <<>> /\ Head(sock[c].in).kind = "request"
      BY <1>5, <2>1, SocketStep DEF Bounded
    <3> QED
      BY <1>1, <3>1, <3>2
  <2>2. CASE d # c
    BY <1>2, <1>5, <2>2 DEF SockTypes, Bounded
  <2> QED
    BY <2>1, <2>2
<1> QED
  BY <1>1, <1>3, <1>4, <1>5
     DEF connVars, agentVars, bridgeVars, ConnTypes, AgentTypes, ChannelTypes, PhaseTypes, Bounded, Closing

LEMMA ClientReadConn == ASSUME ConnInv, NEW c \in Clients, ClientRead(c) PROVE ConnInv'
<1> USE DEF ConnInv, Types
<1>1. Head(sock[c].out) \in Reply /\ Tail(sock[c].out) \in Seq(Reply)
  BY SocketStep, HeadTail DEF ClientRead
<1>2. sock' \in [Clients -> Socket] /\ \A d \in Clients : sock'[d].in = sock[d].in
  <2>1. sock' = [sock EXCEPT ![c].out = Tail(sock[c].out)]
    BY DEF ClientRead
  <2> QED
    BY <1>1, <2>1, SocketStep, SameIn
<1>3. Append(seen[c], Head(sock[c].out)) \in Seq(Reply)
  BY <1>1, OneMore DEF ChannelTypes
<1>4. seen' \in [Clients -> Seq(Reply)]
  BY <1>3 DEF ClientRead, ChannelTypes
<1>5. UNCHANGED <<connVars, agentVars, att, sent, bridgeVars, panicked>>
  BY DEF ClientRead
<1> QED
  BY <1>2, <1>4, <1>5 DEF connVars, agentVars, bridgeVars, ConnTypes, AgentTypes, SockTypes, ChannelTypes,
                          PhaseTypes, Bounded, Closing

LEMMA HangUpConn == ASSUME ConnInv, NEW c \in Clients, HangUp(c) PROVE ConnInv'
<1> USE DEF ConnInv, Types
<1>1. sock' \in [Clients -> Socket] /\ \A d \in Clients : sock'[d].in = sock[d].in
  <2>1. sock' = [sock EXCEPT ![c].up = FALSE, ![c].out = <<>>]
    BY DEF HangUp
  <2> QED
    BY <2>1, SocketStep, SameIn
<1>2. UNCHANGED <<connVars, agentVars, att, sent, seen, bridgeVars, panicked>>
  BY DEF HangUp
<1> QED
  BY <1>1, <1>2 DEF connVars, agentVars, bridgeVars, ConnTypes, AgentTypes, SockTypes, ChannelTypes,
                    PhaseTypes, Bounded, Closing

LEMMA AgentConn ==
    ASSUME ConnInv, NEW g \in Gens,
           AgentDies(g) \/ \E r \in Reqs : AgentOutput(g, r) \/ AgentAnswer(g, r)
    PROVE  ConnInv'
<1> USE DEF ConnInv, Types
<1>1. UNCHANGED <<connVars, clientVars, bridgeVars, panicked>>
  BY DEF AgentOutput, AgentAnswer, AgentDies, AgentSays
<1>2. ASSUME NEW r \in Reqs, NEW f \in Reply, AgentSays(g, r, f)
      PROVE  agent' \in [Gens -> [up : BOOLEAN, out : Seq(Reply)]]
  <2>1. Append(agent[g].out, f) \in Seq(Reply)
    BY OneMore DEF AgentTypes
  <2> QED
    BY <1>2, <2>1 DEF AgentSays, AgentTypes
<1>3. CASE AgentDies(g)
  BY <1>1, <1>3, ZenonT(60)
     DEF AgentDies, AgentTypes, connVars, clientVars, bridgeVars, ConnTypes, SockTypes, ChannelTypes,
         PhaseTypes, Bounded, Closing
<1>4. ASSUME NEW r \in Reqs, AgentOutput(g, r) \/ AgentAnswer(g, r) PROVE ConnInv'
  <2>1. work[r].outs \in Nat /\ work[r].outs + 1 \in Nat
    BY DEF AgentTypes
  <2>2. agent' \in [Gens -> [up : BOOLEAN, out : Seq(Reply)]]
    BY <1>2, <1>4, <2>1, Frames DEF AgentOutput, AgentAnswer
  <2>3. work' \in [Reqs -> [gen : Nat, outs : Nat, chunks : Seq(Nat), open : BOOLEAN]]
    <3>1. work' = [work EXCEPT ![r].outs = work[r].outs + 1] \/ work' = [work EXCEPT ![r].open = FALSE]
      BY <1>4 DEF AgentOutput, AgentAnswer
    <3> QED
      BY <2>1, <3>1, ZenonT(60) DEF AgentTypes
  <2> QED
    BY <1>1, <2>2, <2>3 DEF AgentTypes, connVars, clientVars, bridgeVars, ConnTypes, SockTypes, ChannelTypes,
                            PhaseTypes, Bounded, Closing
<1> QED
  BY <1>3, <1>4

LEMMA AttachConn == ASSUME ConnInv, NEW c \in Clients, Attach(c) PROVE ConnInv'
<1> USE Constants DEF ConnInv, Types
<1>1. UNCHANGED <<hc, agentVars, sock, sent, seen, writeCh, ch, fwd, panicked>>
  BY DEF Attach
<1>2. pool' \in 0..MaxGen /\ (\A g \in Gens : g < pool' => hc[g].closed)
  <2>1. CASE Usable
    BY <2>1 DEF Attach, ConnTypes, Closing
  <2>2. CASE ~Usable
    <3>1. pool' = pool + 1 /\ pool < MaxGen /\ pool \in 0..MaxGen
      BY <2>2 DEF Attach, ConnTypes
    <3>2. pool \in Gens => hc[pool].closed
      BY <2>2, <3>1 DEF Usable, Gens
    <3> QED
      BY <3>1, <3>2 DEF Closing, Gens
  <2> QED
    BY <2>1, <2>2
<1>3. att' \in [Clients -> 0..MaxGen] /\ bridge' = [bridge EXCEPT ![c] = "read"]
  BY <1>2 DEF Attach, ConnTypes
<1> QED
  BY <1>1, <1>2, <1>3 DEF agentVars, ConnTypes, AgentTypes, SockTypes, ChannelTypes, PhaseTypes, Bounded, Closing

LEMMA AttachFailsConn == ASSUME ConnInv, NEW c \in Clients, AttachFails(c) PROVE ConnInv'
<1> USE DEF ConnInv, Types
<1>1. UNCHANGED <<connVars, agentVars, att, sent, seen, writeCh, ch, fwd, panicked>>
  BY DEF AttachFails
<1>2. sock' \in [Clients -> Socket] /\ \A d \in Clients : sock'[d].in = sock[d].in
  <2>1. sock' = [sock EXCEPT ![c].up = FALSE]
    BY DEF AttachFails
  <2> QED
    BY <2>1, SocketStep, SameIn
<1>3. bridge' = [bridge EXCEPT ![c] = "ended"]
  BY DEF AttachFails
<1> QED
  BY <1>1, <1>2, <1>3 DEF connVars, agentVars, ConnTypes, AgentTypes, SockTypes, ChannelTypes,
                          PhaseTypes, Bounded, Closing

\* What an action leaves alone keeps its type.
LEMMA Kept ==
    ASSUME ConnInv
    PROVE  /\ ConnTypes /\ AgentTypes /\ SockTypes /\ ChannelTypes /\ PhaseTypes /\ Bounded /\ Closing
           /\ UNCHANGED agentVars => AgentTypes'
           /\ UNCHANGED sock => SockTypes'
           /\ UNCHANGED <<writeCh, ch, seen>> => ChannelTypes'
           /\ UNCHANGED <<bridge, fwd, sent, panicked>> => PhaseTypes'
           /\ UNCHANGED connVars => Closing'
BY DEF ConnInv, Types, AgentTypes, SockTypes, ChannelTypes, PhaseTypes, Closing, agentVars, connVars

\* The bounds, from what changes in a channel or in a bridge.
LEMMA Bounds ==
    ASSUME Bounded,
           \A g \in Gens : hc'[g].clientIn = hc[g].clientIn \/ Len(hc'[g].clientIn) <= InCap,
           \A r \in Reqs : ch'[r] = ch[r] \/ Len(ch'[r]) <= ChCap,
           \A c \in Clients : writeCh'[c] = writeCh[c] \/ Len(writeCh'[c]) <= WCap,
           \A c \in Clients : bridge'[c] = "send" =>
               \/ bridge[c] = "send" /\ sock'[c].in = sock[c].in
               \/ sock'[c].in # <<>> /\ Head(sock'[c].in).kind = "request"
    PROVE  Bounded'
BY DEF Bounded

\* Closing looks at the ends of a connection only.
LEMMA Closings ==
    ASSUME Closing, pool' = pool,
           \A g \in Gens : /\ hc'[g].closed = hc[g].closed /\ hc'[g].from = hc[g].from
                           /\ hc'[g].failing = {} \/ hc'[g].failing = hc[g].failing
    PROVE  Closing'
BY DEF Closing

LEMMA PumpToAgentConn == ASSUME ConnInv, NEW g \in Gens, PumpToAgent(g) PROVE ConnInv'
<1> DEFINE f == Head(hc[g].clientIn)
           W == [gen : Nat, outs : Nat, chunks : Seq(Nat), open : BOOLEAN]
<1>1. /\ UNCHANGED <<pool, agent, clientVars, bridgeVars, panicked>>
      /\ hc[g].clientIn # <<>>
      /\ hc' = [hc EXCEPT ![g].clientIn = Tail(hc[g].clientIn), ![g].to = IF agent[g].up THEN "up" ELSE "down"]
      /\ \/ work' = work
         \/ work' = [work EXCEPT ![f.r].gen = g, ![f.r].open = TRUE]
         \/ work' = [work EXCEPT ![f.r].chunks = Append(work[f.r].chunks, f.n)]
  BY DEF PumpToAgent
<1>2. hc[g].clientIn \in Seq(Ask)
  BY Kept, ConnStep
<1>3. /\ f \in Ask /\ Tail(hc[g].clientIn) \in Seq(Ask)
      /\ Len(Tail(hc[g].clientIn)) \in Nat /\ Len(Tail(hc[g].clientIn)) <= Len(hc[g].clientIn)
  <2>1. /\ f \in Ask /\ Tail(hc[g].clientIn) \in Seq(Ask)
        /\ Len(Tail(hc[g].clientIn)) = Len(hc[g].clientIn) - 1 /\ Len(hc[g].clientIn) \in Nat
    BY <1>1, <1>2, HeadTail
  <2> QED
    BY <2>1
<1>4. f.r \in Reqs /\ f.n \in Nat
  BY <1>3 DEF Ask
<1> HIDE DEF f
<1>5. hc' \in [Gens -> Conn]
  BY <1>1, <1>3, Kept, ConnStep
<1>6. \A h \in Gens : /\ hc'[h].closed = hc[h].closed /\ hc'[h].from = hc[h].from
                      /\ hc'[h].failing = hc[h].failing
                      /\ hc'[h].clientIn = IF h = g THEN Tail(hc[g].clientIn) ELSE hc[h].clientIn
  BY <1>1, Kept DEF ConnTypes, Conn
<1>7. AgentTypes'
  <2>1. work \in [Reqs -> W] /\ agent' = agent
    BY <1>1, Kept DEF AgentTypes
  <2>2. Append(work[f.r].chunks, f.n) \in Seq(Nat) /\ g \in Nat
    BY <1>4, <2>1, OneMore DEF Gens
  <2> DEFINE typed == work' \in [Reqs -> W]
  <2>3. ASSUME work' = work PROVE typed
    BY <2>1, <2>3
  <2>4. ASSUME work' = [work EXCEPT ![f.r].gen = g, ![f.r].open = TRUE] PROVE typed
    BY <1>4, <2>1, <2>2, <2>4
  <2>5. ASSUME work' = [work EXCEPT ![f.r].chunks = Append(work[f.r].chunks, f.n)] PROVE typed
    <3>1. \A q \in Seq(Nat) : [work EXCEPT ![f.r].chunks = q] \in [Reqs -> W]
      BY <1>4, <2>1
    <3> QED
      BY <2>2, <2>5, <3>1
  <2>6. typed
    BY <1>1, <2>1, <2>3, <2>4, <2>5
  <2> QED
    BY <2>1, <2>6, Kept DEF AgentTypes
<1>8. Bounded'
  <2>1. Len(hc'[g].clientIn) <= InCap
    <3>1. Len(hc[g].clientIn) <= InCap /\ Len(hc[g].clientIn) \in Nat /\ InCap \in Nat
      BY <1>2, Kept, Constants DEF Bounded
    <3> QED
      <4>1. hc'[g].clientIn = Tail(hc[g].clientIn)
        BY <1>6
      <4> DEFINE n == Len(Tail(hc[g].clientIn))
                 m == Len(hc[g].clientIn)
      <4>2. n <= m /\ m <= InCap /\ n \in Nat /\ m \in Nat /\ InCap \in Nat
        BY <1>3, <3>1
      <4> HIDE DEF n, m
      <4>3. n <= InCap
        BY <4>2
      <4> QED
        BY <4>1, <4>3 DEF n
  <2> QED
    BY <1>1, <1>6, <2>1, Kept, Bounds DEF clientVars, bridgeVars
<1>9. Closing'
  BY <1>1, <1>6, Kept, Closings
<1>10. ConnTypes'
  BY <1>1, <1>5, Kept DEF ConnTypes, clientVars
<1> QED
  BY <1>1, <1>7, <1>8, <1>9, <1>10, Kept DEF ConnInv, Types, clientVars, bridgeVars

LEMMA PumpFromAgentConn == ASSUME ConnInv, NEW g \in Gens, PumpFromAgent(g) PROVE ConnInv'
<1> DEFINE f == Head(agent[g].out)
<1>1. /\ UNCHANGED <<pool, work, clientVars, bridge, writeCh, fwd, panicked>>
      /\ agent[g].out # <<>>
      /\ agent' = [agent EXCEPT ![g].out = Tail(agent[g].out)]
  BY DEF PumpFromAgent
<1>2. \/ ch' = ch
      \/ Len(ch[f.r]) < ChCap /\ ch' = [ch EXCEPT ![f.r] = Append(ch[f.r], f)]
  BY DEF PumpFromAgent
<1>3. hc' = hc \/ hc' = [hc EXCEPT ![g].routes = hc[g].routes \ {f.r}]
  BY DEF PumpFromAgent
<1>4. f \in Reply /\ f.r \in Reqs /\ Tail(agent[g].out) \in Seq(Reply)
  <2>1. agent[g].out \in Seq(Reply)
    BY Kept DEF AgentTypes
  <2>2. f \in Reply /\ Tail(agent[g].out) \in Seq(Reply)
    BY <1>1, <2>1, HeadTail
  <2> QED
    BY <2>2 DEF Reply
<1> HIDE DEF f
<1>5. AgentTypes'
  BY <1>1, <1>4, Kept DEF AgentTypes
<1>6. hc' \in [Gens -> Conn]
  <2> DEFINE R == hc[g].routes \ {f.r}
  <2>1. R \in SUBSET Reqs
    BY Kept, ConnStep
  <2>2. hc' = hc \/ hc' = [hc EXCEPT ![g].routes = R]
    BY <1>3
  <2> HIDE DEF R
  <2>3. [hc EXCEPT ![g].routes = R] \in [Gens -> Conn]
    BY <2>1, Kept, ConnStep
  <2>4. hc \in [Gens -> Conn]
    BY Kept DEF ConnTypes
  <2> QED
    BY <2>2, <2>3, <2>4
<1>7. \A h \in Gens : /\ hc'[h].closed = hc[h].closed /\ hc'[h].from = hc[h].from
                      /\ hc'[h].failing = hc[h].failing /\ hc'[h].clientIn = hc[h].clientIn
  BY <1>3, Kept DEF ConnTypes, Conn
<1>8. ChannelTypes' /\ \A q \in Reqs : ch'[q] = ch[q] \/ Len(ch'[q]) <= ChCap
  <2>1. CASE ch' = ch
    BY <1>1, <2>1, Kept DEF clientVars
  <2>2. CASE Len(ch[f.r]) < ChCap /\ ch' = [ch EXCEPT ![f.r] = Append(ch[f.r], f)]
    <3>1. ch[f.r] \in Seq(Reply)
      BY <1>4, Kept DEF ChannelTypes
    <3>2. /\ Append(ch[f.r], f) \in Seq(Reply) /\ Len(ch[f.r]) \in Nat
          /\ Len(Append(ch[f.r], f)) = Len(ch[f.r]) + 1
      BY <1>4, <3>1, OneMore
    <3>3. \A q \in Reqs : ch'[q] = IF q = f.r THEN Append(ch[f.r], f) ELSE ch[q]
      BY <2>2, <1>4, Kept DEF ChannelTypes
    <3>4. ch' \in [Reqs -> Seq(Reply)]
      BY <2>2, <1>4, <3>2, Kept DEF ChannelTypes
    <3> QED
      BY <1>1, <2>2, <3>2, <3>3, <3>4, Kept, Constants DEF ChannelTypes, clientVars
  <2> QED
    BY <1>2, <2>1, <2>2
<1>9. Bounded'
  BY <1>1, <1>7, <1>8, Kept, Bounds DEF clientVars
<1>10. Closing'
  BY <1>1, <1>7, Kept, Closings
<1>11. ConnTypes'
  BY <1>1, <1>6, Kept DEF ConnTypes, clientVars
<1> QED
  BY <1>1, <1>5, <1>8, <1>9, <1>10, <1>11, Kept DEF ConnInv, Types, clientVars

LEMMA FailAllConn == ASSUME ConnInv, NEW g \in Gens, FailAll(g) \/ CloseConn(g) PROVE ConnInv'
<1>1. UNCHANGED <<pool, agentVars, clientVars, bridgeVars, panicked>>
  BY DEF FailAll, CloseConn
<1>2. hc' \in [Gens -> Conn]
  <2>1. \/ hc' = [hc EXCEPT ![g].from = "failing", ![g].failing = hc[g].routes, ![g].routes = {}]
        \/ hc' = [hc EXCEPT ![g].from = "done", ![g].closed = TRUE]
    BY DEF FailAll, CloseConn
  <2>2. /\ [hc EXCEPT ![g].from = "failing", ![g].failing = hc[g].routes, ![g].routes = {}] \in [Gens -> Conn]
        /\ [hc EXCEPT ![g].from = "done", ![g].closed = TRUE] \in [Gens -> Conn]
    BY Kept, ConnStep
  <2> QED
    BY <2>1, <2>2
<1>3. \A h \in Gens : hc'[h].clientIn = hc[h].clientIn /\ (h # g => hc'[h] = hc[h])
  BY Kept DEF FailAll, CloseConn, ConnTypes, Conn
<1>4. \/ hc[g].from = "read" /\ hc'[g].from = "failing" /\ hc'[g].closed = hc[g].closed
      \/ hc[g].failing = {} /\ hc'[g].failing = {} /\ hc'[g].from = "done" /\ hc'[g].closed
  BY Kept DEF FailAll, CloseConn, ConnTypes, Conn
<1>5. Closing'
  BY <1>1, <1>3, <1>4, Kept DEF Closing
<1>6. Bounded'
  BY <1>1, <1>3, Kept, Bounds DEF clientVars, bridgeVars
<1>7. ConnTypes'
  BY <1>1, <1>2, Kept DEF ConnTypes, clientVars
<1> QED
  BY <1>1, <1>5, <1>6, <1>7, Kept DEF ConnInv, Types, clientVars, bridgeVars

LEMMA FailOneConn == ASSUME ConnInv, NEW g \in Gens, NEW r \in Reqs, FailOne(g, r) PROVE ConnInv'
<1> DEFINE f == Frame(r, "error", 0)
           R == hc[g].failing \ {r}
<1>1. /\ UNCHANGED <<pool, agentVars, clientVars, bridge, writeCh, fwd, panicked>>
      /\ r \in hc[g].failing /\ Len(ch[r]) < ChCap
      /\ ch' = [ch EXCEPT ![r] = Append(ch[r], f)]
      /\ hc' = [hc EXCEPT ![g].failing = R]
  BY DEF FailOne
<1>2. hc' \in [Gens -> Conn]
  <2>1. R \in SUBSET Reqs
    BY Kept, ConnStep
  <2> HIDE DEF R
  <2> QED
    BY <1>1, <2>1, Kept, ConnStep
<1>3. \A h \in Gens : /\ hc'[h].clientIn = hc[h].clientIn /\ hc'[h].closed = hc[h].closed
                      /\ hc'[h].from = hc[h].from /\ hc'[h].failing \subseteq hc[h].failing
  BY <1>1, Kept DEF ConnTypes, Conn
<1> HIDE DEF R
<1>4. f \in Reply /\ ch[r] \in Seq(Reply)
  BY Kept, Frames DEF ConnInv, ChannelTypes
<1> HIDE DEF f
<1>5. Append(ch[r], f) \in Seq(Reply) /\ Len(ch[r]) \in Nat /\ Len(Append(ch[r], f)) = Len(ch[r]) + 1
  BY <1>4, OneMore
<1>6. ChannelTypes' /\ \A q \in Reqs : ch'[q] = IF q = r THEN Append(ch[r], f) ELSE ch[q]
  BY <1>1, <1>5, Kept DEF ChannelTypes, clientVars
<1>7. Len(Append(ch[r], f)) <= ChCap
  BY <1>1, <1>5, Constants
<1>8. Bounded'
  BY <1>1, <1>3, <1>6, <1>7, Kept, Bounds DEF clientVars
<1>9. Closing'
  BY <1>1, <1>3, Kept DEF Closing
<1>10. ConnTypes'
  BY <1>1, <1>2, Kept DEF ConnTypes, clientVars
<1> QED
  BY <1>1, <1>6, <1>8, <1>9, <1>10, Kept DEF ConnInv, Types, clientVars

\* The frame a bridge takes from its socket.
LEMMA InHand ==
    ASSUME ConnInv, NEW c \in Clients, sock[c].in # <<>>
    PROVE  /\ Head(sock[c].in) \in Ask /\ Head(sock[c].in).r \in Reqs /\ Tail(sock[c].in) \in Seq(Ask)
           /\ sock' = [sock EXCEPT ![c].in = Tail(sock[c].in)]
              => SockTypes' /\ \A d \in Clients : d # c => sock'[d] = sock[d]
<1>1. sock[c].in \in Seq(Ask)
  BY Kept, SocketStep
<1>2. Head(sock[c].in) \in Ask /\ Tail(sock[c].in) \in Seq(Ask)
  BY <1>1, HeadTail
<1>3. Head(sock[c].in).r \in Reqs
  BY <1>2 DEF Ask
<1>4. [sock EXCEPT ![c].in = Tail(sock[c].in)] \in [Clients -> Socket]
  BY <1>2, Kept, SocketStep
<1>5. \A d \in Clients : d # c => [sock EXCEPT ![c].in = Tail(sock[c].in)][d] = sock[d]
  BY Kept DEF SockTypes
<1> QED
  BY <1>2, <1>3, <1>4, <1>5 DEF SockTypes

\* A frame more for the agent, on a connection that has room for it; a client
\* that is attached to none has none.
LEMMA Sent ==
    ASSUME ConnInv, NEW g \in 0..MaxGen, NEW f \in Ask, CanSend(g), pool' = pool, UNCHANGED att,
           hc' = [hc EXCEPT ![g].clientIn = Append(hc[g].clientIn, f)]
    PROVE  /\ ConnTypes' /\ Closing'
           /\ \A h \in Gens : hc'[h].clientIn = hc[h].clientIn \/ Len(hc'[h].clientIn) <= InCap
<1>1. CASE g \in Gens
  <2>1. hc[g].clientIn \in Seq(Ask)
    BY <1>1, Kept, ConnStep
  <2>2. /\ Append(hc[g].clientIn, f) \in Seq(Ask) /\ Len(hc[g].clientIn) \in Nat
        /\ Len(Append(hc[g].clientIn, f)) = Len(hc[g].clientIn) + 1
    BY <2>1, OneMore
  <2>3. hc' \in [Gens -> Conn]
    BY <1>1, <2>2, Kept, ConnStep
  <2>4. \A h \in Gens : /\ hc'[h].closed = hc[h].closed /\ hc'[h].from = hc[h].from
                        /\ hc'[h].failing = hc[h].failing
                        /\ hc'[h].clientIn = IF h = g THEN Append(hc[g].clientIn, f) ELSE hc[h].clientIn
    BY <1>1, Kept DEF ConnTypes, Conn
  <2>5. Len(Append(hc[g].clientIn, f)) <= InCap
    BY <2>2, Constants DEF CanSend
  <2>6. Closing'
    BY <2>4, Kept, Closings
  <2>7. ConnTypes'
    BY <2>3, Kept DEF ConnTypes
  <2> QED
    BY <2>4, <2>5, <2>6, <2>7
<1>2. CASE g \notin Gens
  <2>1. hc' = hc
    BY <1>2, Kept DEF ConnTypes
  <2> QED
    BY <2>1, Kept DEF ConnTypes, Closing
<1> QED
  BY <1>1, <1>2

LEMMA BridgeRegisterConn == ASSUME ConnInv, NEW c \in Clients, BridgeRegister(c) PROVE ConnInv'
<1> DEFINE f == Head(sock[c].in)
           R == hc[att[c]].routes \cup {f.r}
<1>1. /\ UNCHANGED <<pool, agentVars, clientVars, writeCh, ch, fwd, panicked>>
      /\ sock[c].in # <<>> /\ f.kind = "request"
      /\ hc' = [hc EXCEPT ![att[c]].routes = R]
      /\ bridge' = [bridge EXCEPT ![c] = "send"]
  BY DEF BridgeRegister
<1>2. f.r \in Reqs
  BY <1>1, InHand
<1>3. /\ hc' \in [Gens -> Conn]
      /\ \A h \in Gens : /\ hc'[h].clientIn = hc[h].clientIn /\ hc'[h].closed = hc[h].closed
                         /\ hc'[h].from = hc[h].from /\ hc'[h].failing = hc[h].failing
  <2>1. CASE att[c] \in Gens
    <3>1. R \in SUBSET Reqs
      BY <1>2, <2>1, Kept, ConnStep
    <3>2. hc' \in [Gens -> Conn]
      <4> HIDE DEF R
      <4> QED
        BY <1>1, <2>1, <3>1, Kept, ConnStep
    <3> QED
      BY <1>1, <3>2, Kept DEF ConnTypes, Conn
  <2>2. CASE att[c] \notin Gens
    <3>1. hc' = hc
      <4> HIDE DEF R
      <4> QED
        BY <1>1, <2>2, Kept DEF ConnTypes
    <3> QED
      BY <3>1, Kept DEF ConnTypes
  <2> QED
    BY <2>1, <2>2
<1>4. PhaseTypes' /\ \A d \in Clients : d # c => bridge'[d] = bridge[d]
  BY <1>1, Kept DEF PhaseTypes, clientVars
<1>5. Bounded'
  BY <1>1, <1>3, <1>4, Kept, Bounds DEF clientVars
<1>6. Closing'
  BY <1>1, <1>3, Kept, Closings
<1>7. ConnTypes'
  BY <1>1, <1>3, Kept DEF ConnTypes, clientVars
<1> QED
  BY <1>1, <1>4, <1>5, <1>6, <1>7, Kept DEF ConnInv, Types, clientVars

LEMMA BridgeSendConn == ASSUME ConnInv, NEW c \in Clients, BridgeSend(c) \/ BridgeForward(c) PROVE ConnInv'
<1> DEFINE f == Head(sock[c].in)
           g == att[c]
<1>1. /\ UNCHANGED <<pool, agentVars, att, sent, seen, writeCh, ch, panicked>>
      /\ sock' = [sock EXCEPT ![c].in = Tail(sock[c].in)]
      /\ bridge' = bridge \/ bridge' = [bridge EXCEPT ![c] = "read"]
      /\ fwd' = fwd \/ fwd' = [fwd EXCEPT ![f.r] = "wait"]
  BY DEF BridgeSend, BridgeForward, bridgeVars
<1>2. bridge'[c] # "send" /\ sock[c].in # <<>>
  BY Kept DEF BridgeSend, BridgeForward, Bounded, PhaseTypes, bridgeVars
<1>3. \/ hc' = hc
      \/ CanSend(g) /\ hc' = [hc EXCEPT ![g].clientIn = Append(hc[g].clientIn, f)]
  BY DEF BridgeSend, BridgeForward
<1>4. f \in Ask /\ f.r \in Reqs /\ SockTypes' /\ \A d \in Clients : d # c => sock'[d] = sock[d]
  BY <1>1, <1>2, InHand
<1>5. g \in 0..MaxGen
  BY Kept DEF ConnTypes
<1> HIDE DEF f, g
<1>6. /\ ConnTypes' /\ Closing'
      /\ \A h \in Gens : hc'[h].clientIn = hc[h].clientIn \/ Len(hc'[h].clientIn) <= InCap
  <2> DEFINE goal == /\ ConnTypes' /\ Closing'
                     /\ \A h \in Gens : hc'[h].clientIn = hc[h].clientIn \/ Len(hc'[h].clientIn) <= InCap
  <2>1. ASSUME hc' = hc PROVE goal
    BY <1>1, <2>1, Kept DEF ConnTypes, Closing
  <2>2. ASSUME CanSend(g), hc' = [hc EXCEPT ![g].clientIn = Append(hc[g].clientIn, f)] PROVE goal
    BY <1>1, <1>4, <1>5, <2>2, Sent
  <2> QED
    BY <1>3, <2>1, <2>2
<1>7. PhaseTypes' /\ \A d \in Clients : d # c => bridge'[d] = bridge[d]
  BY <1>1, <1>4, Kept DEF PhaseTypes
<1>8. Bounded'
  BY <1>1, <1>2, <1>4, <1>6, <1>7, Kept, Bounds
<1> QED
  BY <1>1, <1>4, <1>6, <1>7, <1>8, Kept DEF ConnInv, Types

\* A frame more for a client's writer.
LEMMA Queued ==
    ASSUME ConnInv, NEW c \in Clients, NEW f \in Reply, Len(writeCh[c]) < WCap,
           writeCh' = [writeCh EXCEPT ![c] = Append(writeCh[c], f)]
    PROVE  /\ writeCh' \in [Clients -> Seq(Reply)]
           /\ \A d \in Clients : writeCh'[d] = writeCh[d] \/ Len(writeCh'[d]) <= WCap
<1>1. writeCh \in [Clients -> Seq(Reply)] /\ writeCh[c] \in Seq(Reply)
  BY Kept DEF ChannelTypes
<1>2. /\ Append(writeCh[c], f) \in Seq(Reply) /\ Len(writeCh[c]) \in Nat
      /\ Len(Append(writeCh[c], f)) = Len(writeCh[c]) + 1
  BY <1>1, OneMore
<1>3. writeCh' \in [Clients -> Seq(Reply)]
  BY <1>1, <1>2
<1>4. \A d \in Clients : writeCh'[d] = IF d = c THEN Append(writeCh[c], f) ELSE writeCh[d]
  BY <1>1
<1>5. Len(Append(writeCh[c], f)) <= WCap
  BY <1>2, Constants
<1> QED
  BY <1>3, <1>4, <1>5

LEMMA BridgeRefuseConn == ASSUME ConnInv, NEW c \in Clients, BridgeRefuse(c) PROVE ConnInv'
<1> DEFINE f == Frame(Head(sock[c].in).r, "error", 0)
<1>1. /\ UNCHANGED <<connVars, agentVars, att, sent, seen, ch, fwd, panicked>>
      /\ sock' = [sock EXCEPT ![c].in = Tail(sock[c].in)]
      /\ bridge' = [bridge EXCEPT ![c] = "ack"]
      /\ Len(writeCh[c]) < WCap /\ writeCh' = [writeCh EXCEPT ![c] = Append(writeCh[c], f)]
  BY DEF BridgeRefuse
<1>2. sock[c].in # <<>>
  BY Kept DEF BridgeRefuse, Bounded
<1>3. f \in Reply /\ SockTypes' /\ \A d \in Clients : d # c => sock'[d] = sock[d]
  BY <1>1, <1>2, InHand, Frames DEF ConnInv
<1> HIDE DEF f
<1>4. /\ writeCh' \in [Clients -> Seq(Reply)]
      /\ \A d \in Clients : writeCh'[d] = writeCh[d] \/ Len(writeCh'[d]) <= WCap
  BY <1>1, <1>3, Queued
<1>5. ChannelTypes'
  BY <1>1, <1>4, Kept DEF ChannelTypes
<1>6. PhaseTypes' /\ bridge'[c] # "send" /\ \A d \in Clients : d # c => bridge'[d] = bridge[d]
  BY <1>1, Kept DEF PhaseTypes
<1>7. Bounded'
  BY <1>1, <1>3, <1>4, <1>6, Kept, Bounds DEF connVars
<1>8. ConnTypes'
  BY <1>1, Kept DEF ConnTypes, connVars
<1> QED
  BY <1>1, <1>3, <1>5, <1>6, <1>7, <1>8, Kept DEF ConnInv, Types

LEMMA BridgeEndConn == ASSUME ConnInv, NEW c \in Clients, BridgeEnd(c) PROVE ConnInv'
<1>1. /\ UNCHANGED <<connVars, agentVars, clientVars, writeCh, ch, fwd, panicked>>
      /\ bridge' = [bridge EXCEPT ![c] = "ended"]
  BY DEF BridgeEnd
<1>2. PhaseTypes' /\ bridge'[c] # "send" /\ \A d \in Clients : d # c => bridge'[d] = bridge[d]
  BY <1>1, Kept DEF PhaseTypes, clientVars
<1>3. Bounded'
  BY <1>1, <1>2, Kept, Bounds DEF connVars, clientVars
<1>4. ConnTypes'
  BY <1>1, Kept DEF ConnTypes, connVars, clientVars
<1> QED
  BY <1>1, <1>2, <1>3, <1>4, Kept DEF ConnInv, Types, clientVars

LEMMA WriteConn == ASSUME ConnInv, NEW c \in Clients, Write(c) PROVE ConnInv'
<1> DEFINE f == Head(writeCh[c])
<1>1. /\ UNCHANGED <<connVars, agentVars, att, sent, seen, ch, panicked>>
      /\ writeCh[c] # <<>>
      /\ sock' = sock \/ sock' = [sock EXCEPT ![c].out = Append(sock[c].out, f)]
      /\ writeCh' = [writeCh EXCEPT ![c] = Tail(writeCh[c])]
  BY DEF Write
<1>2. \/ bridge' = bridge /\ fwd' = [fwd EXCEPT ![f.r] = IF Terminal(f) THEN "done" ELSE "wait"]
      \/ fwd' = fwd /\ bridge' = [bridge EXCEPT ![c] = "read"]
  BY DEF Write
<1>3. writeCh \in [Clients -> Seq(Reply)] /\ writeCh[c] \in Seq(Reply)
  BY Kept DEF ChannelTypes
<1>4. /\ f \in Reply /\ Tail(writeCh[c]) \in Seq(Reply) /\ Len(writeCh[c]) \in Nat \ {0}
      /\ Len(Tail(writeCh[c])) = Len(writeCh[c]) - 1
  BY <1>1, <1>3, HeadTail
<1>5. f.r \in Reqs
  BY <1>4 DEF Reply
<1> HIDE DEF f
<1>6. SockTypes' /\ \A d \in Clients : sock'[d].in = sock[d].in
  <2> DEFINE q == Append(sock[c].out, f)
  <2>1. q \in Seq(Reply)
    BY <1>4, Kept, SocketStep, OneMore
  <2>2. sock' = sock \/ sock' = [sock EXCEPT ![c].out = q]
    BY <1>1
  <2> HIDE DEF q
  <2>3. [sock EXCEPT ![c].out = q] \in [Clients -> Socket]
    BY <2>1, Kept, SocketStep
  <2>4. sock' \in [Clients -> Socket]
    BY <2>2, <2>3, Kept DEF SockTypes
  <2> QED
    BY <2>2, <2>4, Kept, SameIn DEF SockTypes
<1>7. ChannelTypes' /\ \A d \in Clients : writeCh'[d] = writeCh[d] \/ Len(writeCh'[d]) <= WCap
  <2>1. \A d \in Clients : writeCh'[d] = IF d = c THEN Tail(writeCh[c]) ELSE writeCh[d]
    BY <1>1, <1>3
  <2>2. Len(Tail(writeCh[c])) <= WCap
    BY <1>4, Kept, Constants DEF Bounded
  <2>3. writeCh' \in [Clients -> Seq(Reply)]
    BY <1>1, <1>3, <1>4
  <2> QED
    BY <1>1, <2>1, <2>2, <2>3, Kept DEF ChannelTypes
<1>8. PhaseTypes' /\ \A d \in Clients : bridge'[d] = "send" => bridge[d] = "send"
  BY <1>1, <1>2, <1>5, Kept DEF PhaseTypes
<1>9. Bounded'
  BY <1>1, <1>6, <1>7, <1>8, Kept, Bounds DEF connVars
<1>10. ConnTypes'
  BY <1>1, Kept DEF ConnTypes, connVars
<1> QED
  BY <1>1, <1>6, <1>7, <1>8, <1>9, <1>10, Kept DEF ConnInv, Types

LEMMA ForwardReplyConn == ASSUME ConnInv, NEW r \in Reqs, ForwardReply(r) PROVE ConnInv'
<1> DEFINE c == Owner[r]
           f == Head(ch[r])
<1>1. UNCHANGED <<connVars, agentVars, clientVars, bridge>> /\ ch[r] # <<>>
  BY DEF ForwardReply
<1>2. \/ panicked' = TRUE /\ UNCHANGED <<writeCh, ch, fwd>>
      \/ /\ Len(writeCh[c]) < WCap /\ writeCh' = [writeCh EXCEPT ![c] = Append(writeCh[c], f)]
         /\ ch' = [ch EXCEPT ![r] = Tail(ch[r])] /\ fwd' = [fwd EXCEPT ![r] = "ack"] /\ UNCHANGED panicked
  BY DEF ForwardReply
<1>3. ch \in [Reqs -> Seq(Reply)] /\ ch[r] \in Seq(Reply) /\ c \in Clients
  BY Kept, Constants DEF ChannelTypes
<1>4. /\ f \in Reply /\ Tail(ch[r]) \in Seq(Reply) /\ Len(ch[r]) \in Nat \ {0}
      /\ Len(Tail(ch[r])) = Len(ch[r]) - 1
  BY <1>1, <1>3, HeadTail
<1> HIDE DEF c, f
<1>5. /\ writeCh' \in [Clients -> Seq(Reply)]
      /\ \A d \in Clients : writeCh'[d] = writeCh[d] \/ Len(writeCh'[d]) <= WCap
  BY <1>2, <1>3, <1>4, Kept, Queued DEF ChannelTypes
<1>6. ChannelTypes' /\ \A q \in Reqs : ch'[q] = ch[q] \/ Len(ch'[q]) <= ChCap
  <2>1. ASSUME ch' = [ch EXCEPT ![r] = Tail(ch[r])]
        PROVE  ch' \in [Reqs -> Seq(Reply)] /\ \A q \in Reqs : ch'[q] = ch[q] \/ Len(ch'[q]) <= ChCap
    <3>1. \A q \in Reqs : ch'[q] = IF q = r THEN Tail(ch[r]) ELSE ch[q]
      BY <1>3, <2>1
    <3>2. Len(Tail(ch[r])) <= ChCap
      BY <1>4, Kept, Constants DEF Bounded
    <3>3. ch' \in [Reqs -> Seq(Reply)]
      BY <1>3, <1>4, <2>1
    <3> QED
      BY <3>1, <3>2, <3>3
  <2>2. ch' \in [Reqs -> Seq(Reply)] /\ \A q \in Reqs : ch'[q] = ch[q] \/ Len(ch'[q]) <= ChCap
    BY <1>2, <1>3, <2>1
  <2> QED
    BY <1>1, <1>5, <2>2, Kept DEF ChannelTypes, clientVars
<1>7. PhaseTypes'
  BY <1>1, <1>2, Kept DEF PhaseTypes, clientVars
<1>8. Bounded'
  BY <1>1, <1>5, <1>6, Kept, Bounds DEF connVars, clientVars
<1>9. ConnTypes'
  BY <1>1, Kept DEF ConnTypes, connVars, clientVars
<1> QED
  BY <1>1, <1>6, <1>7, <1>8, <1>9, Kept DEF ConnInv, Types, clientVars

LEMMA NextConn == ConnInv /\ [Next]_vars => ConnInv'
<1> SUFFICES ASSUME ConnInv, [Next]_vars PROVE ConnInv'
  OBVIOUS
<1>1. CASE UNCHANGED vars
  BY <1>1, Kept DEF ConnInv, Types, ConnTypes, Bounded, vars, connVars, agentVars, clientVars, bridgeVars
<1>2. ASSUME NEW c \in Clients, ClientRead(c) \/ HangUp(c) \/ AttachFails(c) \/ Bridge(c) \/ Write(c)
      PROVE  ConnInv'
  BY <1>2, ClientReadConn, HangUpConn, AttachConn, AttachFailsConn, BridgeRegisterConn, BridgeSendConn,
     BridgeRefuseConn, BridgeEndConn, WriteConn DEF Bridge
<1>3. ASSUME NEW r \in Reqs, ClientSend(r) \/ ForwardReply(r) PROVE ConnInv'
  BY <1>3, ClientSendConn, ForwardReplyConn
<1>4. ASSUME NEW g \in Gens, \/ AgentDies(g) \/ PumpToAgent(g) \/ FromAgent(g)
                             \/ \E r \in Reqs : AgentOutput(g, r) \/ AgentAnswer(g, r)
      PROVE  ConnInv'
  BY <1>4, AgentConn, PumpToAgentConn, PumpFromAgentConn, FailAllConn, FailOneConn DEF FromAgent
<1> QED
  BY <1>1, <1>2, <1>3, <1>4 DEF Next

\* The invariant holds of every run.
THEOREM ConnInvariant == Spec => []ConnInv
BY InitConn, NextConn, PTL DEF Spec

\* TypeOK for every number of clients, requests and connections: types, and no
\* channel above its capacity.
THEOREM HostTypes == Spec => []TypeOK
<1>1. ConnInv => TypeOK
  BY DEF ConnInv, Types, ConnTypes, PhaseTypes, Conn, Bounded, TypeOK
<1> QED
  BY <1>1, ConnInvariant, PTL

-----------------------------------------------------------------------------
(* A daemon whose clients wait for their answers *)

AnyReply == {"output", "result", "error", "stat"}
End == {"result", "error"}

\* A channel holds a frame of request r of one of the kinds K; it holds no two.
Has(s, r, K) == \E i \in DOMAIN s : s[i].r = r /\ s[i].kind \in K
Single(s, r, K) == \A i, j \in DOMAIN s :
    s[i].r = r /\ s[i].kind \in K /\ s[j].r = r /\ s[j].kind \in K => i = j

\* Frames are in the channels of their own client and request.
Mine ==
    /\ \A c \in Clients, r \in Reqs :
         Owner[r] # c => ~Has(sock[c].in, r, {"request"}) /\ ~Has(writeCh[c], r, AnyReply)
    /\ \A r, q \in Reqs : q # r => ~Has(ch[r], q, AnyReply)

Traced(r) == Has(writeCh[Owner[r]], r, AnyReply) \/ Has(sock[Owner[r]].out, r, AnyReply) \/ Has(seen[Owner[r]], r, AnyReply)

\* A request has no forwarder and no reply until the bridge took it off the
\* socket; its writer has one frame of it at a time, which a forwarder waits for
\* or the bridge wrote itself; and once its client can read an end, its forwarder
\* is gone or never was.
RequestSafe(r) ==
    /\ sent[r] = 0 => ~Has(sock[Owner[r]].in, r, {"request"})
    /\ Single(sock[Owner[r]].in, r, {"request"})
    /\ sent[r] = 0 \/ Has(sock[Owner[r]].in, r, {"request"}) => fwd[r] = "none" /\ ~Traced(r)
    /\ Single(writeCh[Owner[r]], r, AnyReply)
    /\ Has(writeCh[Owner[r]], r, AnyReply) => fwd[r] \in {"ack", "none"}
    /\ Has(sock[Owner[r]].out, r, End) \/ Has(seen[Owner[r]], r, End) => fwd[r] \in {"done", "none"}

\* A bridge ends after its client left, and that had read the end of every
\* request it sent.
ClientSafe(c) ==
    /\ bridge[c] = "new" => \A r \in Reqs : Owner[r] = c => sent[r] = 0
    /\ bridge[c] = "ended" => ~sock[c].up
    /\ ~sock[c].up => \A r \in Reqs : Owner[r] = c /\ sent[r] > 0 => Has(seen[c], r, End)

SafeInv == Mine /\ (\A r \in Reqs : RequestSafe(r)) /\ (\A c \in Clients : ClientSafe(c)) /\ ~panicked

LEMMA HasNone == \A r, K : ~Has(<<>>, r, K) /\ Single(<<>>, r, K)
BY DEF Has, Single

LEMMA EndIsReply == \A s, r : Has(s, r, End) => Has(s, r, AnyReply)
BY DEF Has, End, AnyReply

LEMMA HasAppend ==
    ASSUME NEW S, NEW s \in Seq(S), NEW f \in S, NEW r, NEW K
    PROVE  /\ Has(Append(s, f), r, K) <=> Has(s, r, K) \/ (f.r = r /\ f.kind \in K)
           /\ Single(s, r, K) /\ (f.r = r /\ f.kind \in K => ~Has(s, r, K)) => Single(Append(s, f), r, K)
<1> DEFINE t == Append(s, f)
           n == Len(s) + 1
<1>1. /\ DOMAIN s = 1..Len(s) /\ Len(s) \in Nat /\ DOMAIN t = 1..n
      /\ t[n] = f /\ \A i \in 1..Len(s) : t[i] = s[i]
  OBVIOUS
<1> HIDE DEF t
<1>2. /\ \A i \in DOMAIN t : i # n => i \in DOMAIN s /\ t[i] = s[i]
      /\ \A i \in DOMAIN s : i \in DOMAIN t /\ i # n /\ t[i] = s[i]
      /\ n \in DOMAIN t /\ t[n] = f
  BY <1>1
<1> HIDE DEF n
<1>3. Has(t, r, K) <=> Has(s, r, K) \/ (f.r = r /\ f.kind \in K)
  BY <1>2 DEF Has
<1>4. ASSUME Single(s, r, K), f.r = r /\ f.kind \in K => ~Has(s, r, K) PROVE Single(t, r, K)
  BY <1>2, <1>4 DEF Has, Single
<1> QED
  BY <1>3, <1>4 DEF t

LEMMA HasTail ==
    ASSUME NEW S, NEW s \in Seq(S), s # <<>>, NEW r, NEW K
    PROVE  /\ Has(s, r, K) <=> Has(Tail(s), r, K) \/ (Head(s).r = r /\ Head(s).kind \in K)
           /\ Single(s, r, K) => Single(Tail(s), r, K)
           /\ Single(s, r, K) /\ Head(s).r = r /\ Head(s).kind \in K => ~Has(Tail(s), r, K)
<1> DEFINE t == Tail(s)
<1>1. /\ DOMAIN s = 1..Len(s) /\ Len(s) \in Nat \ {0} /\ DOMAIN t = 1..(Len(s) - 1)
      /\ Head(s) = s[1] /\ \A i \in 1..(Len(s) - 1) : t[i] = s[i + 1]
  OBVIOUS
<1> HIDE DEF t
<1>2. /\ \A i \in DOMAIN s : i # 1 => i - 1 \in DOMAIN t /\ t[i - 1] = s[i]
      /\ \A i \in DOMAIN t : i \in Nat /\ i + 1 \in DOMAIN s /\ i + 1 # 1 /\ t[i] = s[i + 1]
      /\ 1 \in DOMAIN s /\ s[1] = Head(s)
  BY <1>1
<1>3. Has(s, r, K) <=> Has(t, r, K) \/ (Head(s).r = r /\ Head(s).kind \in K)
  <2>1. Has(s, r, K) => Has(t, r, K) \/ (Head(s).r = r /\ Head(s).kind \in K)
    BY <1>2 DEF Has
  <2>2. Has(t, r, K) => Has(s, r, K)
    BY <1>2 DEF Has
  <2>3. Head(s).r = r /\ Head(s).kind \in K => Has(s, r, K)
    BY <1>2 DEF Has
  <2> QED
    BY <2>1, <2>2, <2>3
<1>4. ASSUME Single(s, r, K) PROVE Single(t, r, K)
  <2> SUFFICES ASSUME NEW i \in DOMAIN t, NEW j \in DOMAIN t,
                      t[i].r = r /\ t[i].kind \in K /\ t[j].r = r /\ t[j].kind \in K
               PROVE  i = j
    BY DEF Single
  <2>1. i + 1 = j + 1
    BY <1>2, <1>4, SMTT(30) DEF Single
  <2> QED
    BY <1>2, <2>1
<1>5. ASSUME Single(s, r, K), Head(s).r = r, Head(s).kind \in K PROVE ~Has(t, r, K)
  <2> SUFFICES ASSUME NEW i \in DOMAIN t, t[i].r = r /\ t[i].kind \in K PROVE FALSE
    BY DEF Has
  <2>1. i + 1 = 1
    BY <1>2, <1>5 DEF Single
  <2> QED
    BY <1>2, <2>1
<1> QED
  BY <1>3, <1>4, <1>5 DEF t

\* Kinds of frames, when no request is a file_stat.
LEMMA FrameKinds ==
    ASSUME Stats = {}
    PROVE  /\ \A f \in Reply : f.kind \in AnyReply /\ (Terminal(f) <=> f.kind \in End)
           /\ \A r, n : /\ Frame(r, "error", n).r = r /\ Frame(r, "error", n).kind = "error"
                        /\ Frame(r, "request", n).r = r /\ Frame(r, "request", n).kind = "request"
                        /\ Frame(r, "chunk", n).r = r /\ Frame(r, "chunk", n).kind = "chunk"
BY DEF Reply, Kinds, AnyReply, End, Terminal, Frame

\* A request whose frames do not move.
LEMMA RequestKept ==
    ASSUME NEW r \in Reqs, RequestSafe(r), fwd'[r] = fwd[r], sent'[r] = sent[r], seen'[Owner[r]] = seen[Owner[r]],
           sock'[Owner[r]].in = sock[Owner[r]].in, writeCh'[Owner[r]] = writeCh[Owner[r]],
           \/ sock'[Owner[r]].out = sock[Owner[r]].out
           \/ sock'[Owner[r]].out = <<>>
    PROVE  RequestSafe(r)'
BY HasNone DEF RequestSafe, Traced

LEMMA InitSafe == Init => SafeInv
<1> SUFFICES ASSUME Init PROVE SafeInv
  OBVIOUS
<1>1. Mine
  BY HasNone, Constants DEF Init, Mine
<1>2. \A r \in Reqs : RequestSafe(r)
  BY HasNone, Constants DEF Init, RequestSafe, Traced
<1>3. (\A c \in Clients : ClientSafe(c)) /\ ~panicked
  BY DEF Init, ClientSafe
<1> QED
  BY <1>1, <1>2, <1>3 DEF SafeInv

LEMMA ClientSendSafe ==
    ASSUME ConnInv, SafeInv, Stats = {}, NEW r \in Reqs, ClientSend(r)
    PROVE  SafeInv'
<1> DEFINE c == Owner[r]
           f == Frame(r, IF sent[r] = 0 THEN "request" ELSE "chunk", sent[r])
<1>1. /\ UNCHANGED <<bridge, writeCh, ch, fwd, seen, panicked>>
      /\ sock[c].up /\ bridge[c] # "new"
      /\ sock' = [sock EXCEPT ![c].in = Append(sock[c].in, f)] /\ sent' = [sent EXCEPT ![r] = sent[r] + 1]
  BY DEF ClientSend, bridgeVars
<1>2. /\ f \in Ask /\ f.r = r /\ f.kind = IF sent[r] = 0 THEN "request" ELSE "chunk"
      /\ c \in Clients /\ sock[c].in \in Seq(Ask) /\ sent[r] \in Nat
  <2>1. c \in Clients /\ sent[r] \in Nat
    BY Kept, Constants DEF PhaseTypes
  <2>2. sock[c].in \in Seq(Ask)
    BY <2>1, Kept, SocketStep
  <2>3. Frame(r, "request", sent[r]) \in Ask /\ Frame(r, "chunk", sent[r]) \in Ask
    BY <2>1, Frames DEF ConnInv
  <2> QED
    BY <2>1, <2>2, <2>3, FrameKinds
<1>3. /\ sock'[c].in = Append(sock[c].in, f) /\ \A d \in Clients : d # c => sock'[d].in = sock[d].in
      /\ \A d \in Clients : sock'[d].up = sock[d].up /\ sock'[d].out = sock[d].out
      /\ \A q \in Reqs : sent'[q] = IF q = r THEN sent[r] + 1 ELSE sent[q]
  BY <1>1, <1>2, Kept DEF SockTypes, Socket, PhaseTypes
<1> HIDE DEF f, c
<1>4. \A q \in Reqs : Has(Append(sock[c].in, f), q, {"request"})
                         <=> Has(sock[c].in, q, {"request"}) \/ (q = r /\ sent[r] = 0)
  BY <1>2, HasAppend
<1>5. \A q \in Reqs : Single(sock[c].in, q, {"request"}) /\ (q = r => ~(sent[r] = 0 /\ Has(sock[c].in, r, {"request"})))
                        => Single(Append(sock[c].in, f), q, {"request"})
  BY <1>2, HasAppend
<1>6. Mine'
  BY <1>1, <1>2, <1>3, <1>4 DEF SafeInv, Mine, c
<1>7. ASSUME NEW q \in Reqs PROVE RequestSafe(q)'
  <2>0. RequestSafe(q)
    BY DEF SafeInv
  <2>1. CASE Owner[q] # c
    BY <1>1, <1>3, <2>0, <2>1, RequestKept, Constants DEF c
  <2>2. CASE Owner[q] = c /\ q # r
    BY <1>1, <1>2, <1>3, <1>4, <1>5, <2>0, <2>2 DEF RequestSafe, Traced
  <2>3. CASE q = r
    BY <1>1, <1>2, <1>3, <1>4, <1>5, <2>0, <2>3 DEF RequestSafe, Traced, c
  <2> QED
    BY <2>1, <2>2, <2>3
<1>8. ASSUME NEW d \in Clients PROVE ClientSafe(d)'
  BY <1>1, <1>2, <1>3 DEF SafeInv, ClientSafe, c
<1> QED
  BY <1>1, <1>6, <1>7, <1>8 DEF SafeInv

LEMMA ClientReadSafe ==
    ASSUME ConnInv, SafeInv, NEW c \in Clients, ClientRead(c)
    PROVE  SafeInv'
<1> DEFINE f == Head(sock[c].out)
<1>1. /\ UNCHANGED <<bridge, writeCh, ch, fwd, sent, panicked>>
      /\ sock[c].up /\ sock[c].out # <<>>
      /\ seen' = [seen EXCEPT ![c] = Append(seen[c], f)]
      /\ sock' = [sock EXCEPT ![c].out = Tail(sock[c].out)]
  BY DEF ClientRead, bridgeVars
<1>2. sock[c].out \in Seq(Reply) /\ f \in Reply /\ seen[c] \in Seq(Reply)
  BY <1>1, Kept, SocketStep, HeadTail DEF ChannelTypes
<1>3. /\ sock'[c].out = Tail(sock[c].out) /\ seen'[c] = Append(seen[c], f)
      /\ \A d \in Clients : sock'[d].up = sock[d].up /\ sock'[d].in = sock[d].in
      /\ \A d \in Clients : d # c => sock'[d].out = sock[d].out /\ seen'[d] = seen[d]
  BY <1>1, Kept DEF SockTypes, Socket, ChannelTypes
<1>4. ASSUME NEW q \in Reqs, NEW K
      PROVE  /\ Has(sock[c].out, q, K) <=> Has(Tail(sock[c].out), q, K) \/ (f.r = q /\ f.kind \in K)
             /\ Has(Append(seen[c], f), q, K) <=> Has(seen[c], q, K) \/ (f.r = q /\ f.kind \in K)
  BY <1>1, <1>2, HasTail, HasAppend
<1> HIDE DEF f
<1>5. Mine'
  BY <1>1, <1>3 DEF SafeInv, Mine
<1>6. ASSUME NEW q \in Reqs PROVE RequestSafe(q)'
  <2>0. RequestSafe(q) /\ Owner[q] \in Clients
    BY Constants DEF SafeInv
  <2>1. CASE Owner[q] # c
    BY <1>1, <1>3, <2>0, <2>1, RequestKept
  <2>2. CASE Owner[q] = c
    <3>1. ASSUME NEW K
          PROVE  Has(sock'[c].out, q, K) \/ Has(seen'[c], q, K) <=> Has(sock[c].out, q, K) \/ Has(seen[c], q, K)
      BY <1>3, <1>4
    <3> QED
      BY <1>1, <1>3, <2>0, <2>2, <3>1 DEF RequestSafe, Traced
  <2> QED
    BY <2>1, <2>2
<1>7. ASSUME NEW d \in Clients PROVE ClientSafe(d)'
  <2>1. ClientSafe(d)
    BY DEF SafeInv
  <2> QED
    BY <1>1, <1>3, <2>1 DEF ClientSafe
<1> QED
  BY <1>1, <1>5, <1>6, <1>7 DEF SafeInv

\* A client that leaves has its answers.
LEMMA HangUpSafe ==
    ASSUME ConnInv, SafeInv, Stats = {}, Quitters = {}, NEW c \in Clients, HangUp(c)
    PROVE  SafeInv'
<1>1. /\ UNCHANGED <<bridge, writeCh, ch, fwd, sent, seen, panicked>>
      /\ bridge[c] # "new" /\ \A r \in Reqs : Owner[r] = c /\ sent[r] > 0 => Answered(r)
      /\ sock' = [sock EXCEPT ![c].up = FALSE, ![c].out = <<>>]
  BY DEF HangUp, bridgeVars
<1>2. /\ sock'[c].out = <<>> /\ ~sock'[c].up
      /\ \A d \in Clients : sock'[d].in = sock[d].in /\ (d # c => sock'[d] = sock[d])
  BY <1>1, Kept DEF SockTypes, Socket
<1>3. ASSUME NEW r \in Reqs, Owner[r] = c, sent[r] > 0 PROVE Has(seen[c], r, End)
  <2>1. PICK i \in DOMAIN seen[c] : /\ seen[c][i].r = r
                                    /\ Terminal(seen[c][i]) \/ seen[c][i].kind = "stat"
    BY <1>1, <1>3 DEF Answered
  <2>2. seen[c][i] \in Reply
    BY <2>1, Kept DEF ChannelTypes
  <2>3. seen[c][i].kind \in End
    BY <2>1, <2>2, FrameKinds DEF Reply, Kinds
  <2> QED
    BY <2>1, <2>3 DEF Has
<1>4. Mine'
  BY <1>1, <1>2 DEF SafeInv, Mine
<1>5. ASSUME NEW q \in Reqs PROVE RequestSafe(q)'
  <2>1. RequestSafe(q) /\ Owner[q] \in Clients
    BY Constants DEF SafeInv
  <2> QED
    BY <1>1, <1>2, <2>1, RequestKept
<1>6. ASSUME NEW d \in Clients PROVE ClientSafe(d)'
  <2>1. ClientSafe(d)
    BY DEF SafeInv
  <2> QED
    BY <1>1, <1>2, <1>3, <2>1 DEF ClientSafe
<1> QED
  BY <1>1, <1>4, <1>5, <1>6 DEF SafeInv

LEMMA AttachSafe ==
    ASSUME ConnInv, SafeInv, NEW c \in Clients, Attach(c) \/ AttachFails(c)
    PROVE  SafeInv'
<1>1. /\ UNCHANGED <<sent, seen, writeCh, ch, fwd, panicked>>
      /\ bridge[c] = "new" /\ \A d \in Clients : d # c => bridge'[d] = bridge[d]
  BY Kept DEF Attach, AttachFails, PhaseTypes
<1>2. /\ \A d \in Clients : sock'[d].in = sock[d].in /\ sock'[d].out = sock[d].out /\ (d # c => sock'[d] = sock[d])
      /\ \/ bridge'[c] = "read" /\ sock'[c].up = sock[c].up
         \/ bridge'[c] = "ended" /\ ~sock'[c].up
  BY Kept DEF Attach, AttachFails, PhaseTypes, SockTypes, Socket
<1>3. Mine'
  BY <1>1, <1>2 DEF SafeInv, Mine
<1>4. ASSUME NEW q \in Reqs PROVE RequestSafe(q)'
  <2>1. RequestSafe(q) /\ Owner[q] \in Clients
    BY Constants DEF SafeInv
  <2> QED
    BY <1>1, <1>2, <2>1, RequestKept
<1>5. ASSUME NEW d \in Clients PROVE ClientSafe(d)'
  <2>1. ClientSafe(d) /\ \A r \in Reqs : sent[r] \in Nat
    BY Kept DEF SafeInv, PhaseTypes
  <2>2. CASE d = c
    BY <1>1, <1>2, <2>1, <2>2 DEF ClientSafe
  <2>3. CASE d # c
    BY <1>1, <1>2, <2>1, <2>3 DEF ClientSafe
  <2> QED
    BY <2>2, <2>3
<1> QED
  BY <1>1, <1>3, <1>4, <1>5 DEF SafeInv

\* A bridge changes its phase only.
LEMMA PhaseSafe ==
    ASSUME ConnInv, SafeInv, NEW c \in Clients, BridgeRegister(c) \/ BridgeEnd(c)
    PROVE  SafeInv'
<1>1. /\ UNCHANGED <<sock, sent, seen, writeCh, ch, fwd, panicked>>
      /\ \A d \in Clients : d # c => bridge'[d] = bridge[d]
      /\ bridge'[c] = "send" \/ (bridge'[c] = "ended" /\ ~sock[c].up)
  BY Kept DEF BridgeRegister, BridgeEnd, PhaseTypes, clientVars
<1>2. Mine' /\ \A r \in Reqs : RequestSafe(r)'
  BY <1>1, RequestKept DEF SafeInv, Mine
<1>3. ASSUME NEW d \in Clients PROVE ClientSafe(d)'
  BY <1>1 DEF SafeInv, ClientSafe
<1> QED
  BY <1>1, <1>2, <1>3 DEF SafeInv

\* Replies reach their own channels.
LEMMA PumpSafe ==
    ASSUME ConnInv, SafeInv, Stats = {}, NEW g \in Gens, PumpFromAgent(g) \/ \E r \in Reqs : FailOne(g, r)
    PROVE  SafeInv'
<1>1. UNCHANGED <<clientVars, bridge, writeCh, fwd, panicked>>
  BY DEF PumpFromAgent, FailOne
<1>2. \/ ch' = ch
      \/ \E f \in Reply : ch' = [ch EXCEPT ![f.r] = Append(ch[f.r], f)]
  <2>1. CASE PumpFromAgent(g)
    <3>1. agent[g].out \in Seq(Reply) /\ agent[g].out # <<>>
      BY <2>1, Kept DEF AgentTypes, PumpFromAgent
    <3>2. Head(agent[g].out) \in Reply
      BY <3>1, HeadTail
    <3> QED
      BY <2>1, <3>2 DEF PumpFromAgent
  <2>2. ASSUME NEW r \in Reqs, FailOne(g, r) PROVE \E f \in Reply : ch' = [ch EXCEPT ![f.r] = Append(ch[f.r], f)]
    <3>1. Frame(r, "error", 0) \in Reply /\ Frame(r, "error", 0).r = r
      BY Frames, FrameKinds DEF ConnInv
    <3>2. ch' = [ch EXCEPT ![r] = Append(ch[r], Frame(r, "error", 0))]
      BY <2>2 DEF FailOne
    <3> QED
      BY <3>1, <3>2
  <2> QED
    BY <2>1, <2>2
<1>3. \A r, q \in Reqs : q # r => ~Has(ch'[r], q, AnyReply)
  <2>1. \A r, q \in Reqs : q # r => ~Has(ch[r], q, AnyReply)
    BY DEF SafeInv, Mine
  <2>2. CASE ch' = ch
    BY <2>1, <2>2
  <2>3. ASSUME NEW f \in Reply, ch' = [ch EXCEPT ![f.r] = Append(ch[f.r], f)], NEW r \in Reqs, NEW q \in Reqs, q # r
        PROVE  ~Has(ch'[r], q, AnyReply)
    <3>1. f.r \in Reqs /\ ch[r] \in Seq(Reply) /\ ch'[r] = IF r = f.r THEN Append(ch[r], f) ELSE ch[r]
      BY <2>3, Kept DEF ChannelTypes, Reply
    <3>2. r = f.r => ~Has(Append(ch[r], f), q, AnyReply)
      BY <2>1, <2>3, <3>1, HasAppend
    <3> QED
      BY <2>1, <2>3, <3>1, <3>2
  <2> QED
    BY <1>2, <2>2, <2>3
<1>4. Mine'
  BY <1>1, <1>3 DEF SafeInv, Mine, clientVars
<1>5. \A r \in Reqs : RequestSafe(r)'
  BY <1>1, RequestKept DEF SafeInv, clientVars
<1>6. \A c \in Clients : ClientSafe(c)'
  BY <1>1 DEF SafeInv, ClientSafe, clientVars
<1> QED
  BY <1>1, <1>4, <1>5, <1>6 DEF SafeInv

\* What the bridge takes off the socket: the frame in its hand is no longer there.
LEMMA Taken ==
    ASSUME ConnInv, SafeInv, NEW c \in Clients, sock[c].in # <<>>,
           sock' = [sock EXCEPT ![c].in = Tail(sock[c].in)]
    PROVE  /\ \A d \in Clients : sock'[d].up = sock[d].up /\ sock'[d].out = sock[d].out /\ (d # c => sock'[d] = sock[d])
           /\ \A r \in Reqs : Has(sock'[c].in, r, {"request"}) => Has(sock[c].in, r, {"request"})
           /\ \A r \in Reqs : Owner[r] = c => Single(sock'[c].in, r, {"request"})
           /\ LET f == Head(sock[c].in) IN
                f.kind = "request" => /\ f.r \in Reqs /\ Owner[f.r] = c /\ Has(sock[c].in, f.r, {"request"})
                                      /\ ~Has(sock'[c].in, f.r, {"request"})
                                      /\ fwd[f.r] = "none" /\ ~Traced(f.r) /\ sent[f.r] # 0
<1> DEFINE f == Head(sock[c].in)
<1>1. /\ sock'[c].in = Tail(sock[c].in)
      /\ \A d \in Clients : sock'[d].up = sock[d].up /\ sock'[d].out = sock[d].out /\ (d # c => sock'[d] = sock[d])
  BY Kept DEF SockTypes, Socket
<1>2. sock[c].in \in Seq(Ask) /\ f.r \in Reqs
  BY Kept, SocketStep, InHand
<1> HIDE DEF f
<1>3. \A r \in Reqs :
        /\ Has(sock[c].in, r, {"request"}) <=> Has(Tail(sock[c].in), r, {"request"}) \/ (f.r = r /\ f.kind \in {"request"})
        /\ Single(sock[c].in, r, {"request"}) => Single(Tail(sock[c].in), r, {"request"})
        /\ Single(sock[c].in, r, {"request"}) /\ f.r = r /\ f.kind \in {"request"}
             => ~Has(Tail(sock[c].in), r, {"request"})
  BY <1>2, HasTail DEF f
<1>4. ASSUME f.kind = "request"
      PROVE  /\ Owner[f.r] = c /\ Has(sock[c].in, f.r, {"request"}) /\ ~Has(sock'[c].in, f.r, {"request"})
             /\ fwd[f.r] = "none" /\ ~Traced(f.r) /\ sent[f.r] # 0
  <2>1. Has(sock[c].in, f.r, {"request"})
    BY <1>2, <1>3, <1>4
  <2>2. Owner[f.r] = c
    BY <1>2, <2>1 DEF SafeInv, Mine
  <2>3. RequestSafe(f.r)
    BY <1>2 DEF SafeInv
  <2> QED
    BY <1>1, <1>2, <1>3, <1>4, <2>1, <2>2, <2>3 DEF RequestSafe
<1>5. \A r \in Reqs : Owner[r] = c => Single(sock[c].in, r, {"request"})
  BY DEF SafeInv, RequestSafe
<1> QED
  BY <1>1, <1>2, <1>3, <1>4, <1>5 DEF f

LEMMA BridgeSendSafe ==
    ASSUME ConnInv, SafeInv, NEW c \in Clients, BridgeSend(c) \/ BridgeForward(c)
    PROVE  SafeInv'
<1> DEFINE f == Head(sock[c].in)
<1>1. /\ UNCHANGED <<sent, seen, writeCh, ch, panicked>>
      /\ sock' = [sock EXCEPT ![c].in = Tail(sock[c].in)] /\ sock[c].in # <<>>
      /\ \/ /\ f.kind = "request" /\ fwd' = [fwd EXCEPT ![f.r] = "wait"]
            /\ bridge[c] = "send" /\ bridge' = [bridge EXCEPT ![c] = "read"]
         \/ UNCHANGED <<bridge, fwd>>
  BY Kept DEF BridgeSend, BridgeForward, Bounded, bridgeVars
<1>2. /\ \A d \in Clients : sock'[d].up = sock[d].up /\ sock'[d].out = sock[d].out /\ (d # c => sock'[d] = sock[d])
      /\ \A r \in Reqs : Has(sock'[c].in, r, {"request"}) => Has(sock[c].in, r, {"request"})
      /\ \A r \in Reqs : Owner[r] = c => Single(sock'[c].in, r, {"request"})
      /\ f.kind = "request" => /\ f.r \in Reqs /\ Owner[f.r] = c /\ ~Has(sock'[c].in, f.r, {"request"})
                               /\ fwd[f.r] = "none" /\ ~Traced(f.r) /\ sent[f.r] # 0
  BY <1>1, Taken
<1> HIDE DEF f
<1>3. \A r \in Reqs : fwd'[r] = fwd[r] \/ (r = f.r /\ f.kind = "request")
  BY <1>1, Kept DEF PhaseTypes
<1>4. Mine'
  BY <1>1, <1>2 DEF SafeInv, Mine
<1>5. ASSUME NEW q \in Reqs PROVE RequestSafe(q)'
  <2>0. RequestSafe(q) /\ Owner[q] \in Clients
    BY Constants DEF SafeInv
  <2>1. CASE q = f.r /\ f.kind = "request"
    <3>1. ~Has(seen[c], q, End) /\ ~Has(sock[c].out, q, End)
      BY <1>2, <2>1, EndIsReply DEF Traced
    <3> QED
      BY <1>1, <1>2, <2>0, <2>1, <3>1 DEF RequestSafe, Traced
  <2>2. CASE ~(q = f.r /\ f.kind = "request") /\ Owner[q] = c
    BY <1>1, <1>2, <1>3, <2>0, <2>2 DEF RequestSafe, Traced
  <2>3. CASE ~(q = f.r /\ f.kind = "request") /\ Owner[q] # c
    BY <1>1, <1>2, <1>3, <2>0, <2>3, RequestKept
  <2> QED
    BY <2>1, <2>2, <2>3
<1>6. ASSUME NEW d \in Clients PROVE ClientSafe(d)'
  <2>1. bridge'[d] \in {"new", "ended"} => bridge'[d] = bridge[d]
    BY <1>1, Kept DEF PhaseTypes
  <2>2. ClientSafe(d)
    BY DEF SafeInv
  <2> QED
    BY <1>1, <1>2, <2>1, <2>2 DEF ClientSafe
<1> QED
  BY <1>1, <1>4, <1>5, <1>6 DEF SafeInv

LEMMA BridgeRefuseSafe ==
    ASSUME ConnInv, SafeInv, Stats = {}, NEW c \in Clients, BridgeRefuse(c)
    PROVE  SafeInv'
<1> DEFINE f == Head(sock[c].in)
           e == Frame(f.r, "error", 0)
<1>1. /\ UNCHANGED <<sent, seen, ch, fwd, panicked>>
      /\ sock' = [sock EXCEPT ![c].in = Tail(sock[c].in)] /\ sock[c].in # <<>> /\ f.kind = "request"
      /\ bridge[c] = "send" /\ bridge' = [bridge EXCEPT ![c] = "ack"]
      /\ writeCh' = [writeCh EXCEPT ![c] = Append(writeCh[c], e)]
  BY Kept DEF BridgeRefuse, Bounded
<1>2. /\ \A d \in Clients : sock'[d].up = sock[d].up /\ sock'[d].out = sock[d].out /\ (d # c => sock'[d] = sock[d])
      /\ \A r \in Reqs : Has(sock'[c].in, r, {"request"}) => Has(sock[c].in, r, {"request"})
      /\ \A r \in Reqs : Owner[r] = c => Single(sock'[c].in, r, {"request"})
      /\ f.r \in Reqs /\ Owner[f.r] = c /\ ~Has(sock'[c].in, f.r, {"request"})
      /\ fwd[f.r] = "none" /\ ~Traced(f.r) /\ sent[f.r] # 0
  BY <1>1, Taken
<1> HIDE DEF f
<1>3. e \in Reply /\ e.r = f.r /\ e.kind = "error" /\ writeCh[c] \in Seq(Reply)
  BY <1>2, Kept, Frames, FrameKinds, SMTT(30) DEF ConnInv, ChannelTypes
<1> HIDE DEF e
<1>4. /\ writeCh'[c] = Append(writeCh[c], e)
      /\ \A d \in Clients : d # c => writeCh'[d] = writeCh[d] /\ bridge'[d] = bridge[d]
      /\ bridge'[c] = "ack"
  BY <1>1, Kept DEF ChannelTypes, PhaseTypes
<1>5. \A r \in Reqs : /\ Has(writeCh'[c], r, AnyReply) <=> Has(writeCh[c], r, AnyReply) \/ r = f.r
                      /\ Single(writeCh[c], r, AnyReply) /\ (r = f.r => ~Has(writeCh[c], r, AnyReply))
                           => Single(writeCh'[c], r, AnyReply)
  <2>1. e.kind \in AnyReply
    BY <1>3 DEF AnyReply
  <2> QED
    BY <1>3, <1>4, <2>1, HasAppend
<1>6. Mine'
  BY <1>1, <1>2, <1>4, <1>5 DEF SafeInv, Mine
<1>7. ASSUME NEW q \in Reqs PROVE RequestSafe(q)'
  <2>0. RequestSafe(q) /\ Owner[q] \in Clients
    BY Constants DEF SafeInv
  <2>1. CASE q = f.r
    BY <1>1, <1>2, <1>4, <1>5, <2>0, <2>1 DEF RequestSafe, Traced
  <2>2. CASE q # f.r /\ Owner[q] = c
    BY <1>1, <1>2, <1>4, <1>5, <2>0, <2>2 DEF RequestSafe, Traced
  <2>3. CASE Owner[q] # c
    BY <1>1, <1>2, <1>4, <2>0, <2>3, RequestKept
  <2> QED
    BY <1>2, <2>1, <2>2, <2>3
<1>8. ASSUME NEW d \in Clients PROVE ClientSafe(d)'
  <2>1. ClientSafe(d)
    BY DEF SafeInv
  <2> QED
    BY <1>1, <1>2, <1>4, <2>1 DEF ClientSafe
<1> QED
  BY <1>1, <1>6, <1>7, <1>8 DEF SafeInv

LEMMA WriteSafe ==
    ASSUME ConnInv, SafeInv, Stats = {}, NEW c \in Clients, Write(c)
    PROVE  SafeInv'
<1> DEFINE f == Head(writeCh[c])
<1>1. /\ UNCHANGED <<sent, seen, ch, panicked>> /\ writeCh[c] # <<>>
      /\ sock' = IF sock[c].up THEN [sock EXCEPT ![c].out = Append(sock[c].out, f)] ELSE sock
      /\ writeCh' = [writeCh EXCEPT ![c] = Tail(writeCh[c])]
      /\ \/ /\ fwd[f.r] = "ack" /\ bridge' = bridge
            /\ fwd' = [fwd EXCEPT ![f.r] = IF Terminal(f) THEN "done" ELSE "wait"]
         \/ fwd[f.r] # "ack" /\ fwd' = fwd /\ bridge' = [bridge EXCEPT ![c] = "read"]
  BY DEF Write
<1>2. writeCh[c] \in Seq(Reply) /\ sock[c].out \in Seq(Reply)
  BY Kept, SocketStep DEF ChannelTypes
<1>3. f \in Reply /\ f.r \in Reqs
  <2>1. f \in Reply
    BY <1>1, <1>2, HeadTail
  <2> QED
    BY <2>1 DEF Reply
<1>4. f.kind \in AnyReply /\ (Terminal(f) <=> f.kind \in End)
  BY <1>3, FrameKinds
<1>5. \A q \in Reqs : /\ Has(writeCh[c], q, AnyReply) <=> Has(Tail(writeCh[c]), q, AnyReply) \/ q = f.r
                      /\ Single(writeCh[c], q, AnyReply) => Single(Tail(writeCh[c]), q, AnyReply)
                      /\ Single(writeCh[c], q, AnyReply) /\ q = f.r => ~Has(Tail(writeCh[c]), q, AnyReply)
  BY <1>1, <1>2, <1>4, HasTail
<1>6. \A q \in Reqs : \A K : Has(Append(sock[c].out, f), q, K) <=> Has(sock[c].out, q, K) \/ (f.r = q /\ f.kind \in K)
  BY <1>2, <1>3, HasAppend
<1> HIDE DEF f
<1>7. /\ writeCh'[c] = Tail(writeCh[c]) /\ \A d \in Clients : d # c => writeCh'[d] = writeCh[d]
      /\ \A d \in Clients : sock'[d].up = sock[d].up /\ sock'[d].in = sock[d].in /\ (d # c => sock'[d] = sock[d])
      /\ sock'[c].out = IF sock[c].up THEN Append(sock[c].out, f) ELSE sock[c].out
      /\ \A d \in Clients : bridge'[d] = bridge[d] \/ bridge'[d] = "read"
      /\ \A q \in Reqs : q # f.r => fwd'[q] = fwd[q]
  BY <1>1, Kept DEF SockTypes, Socket, ChannelTypes, PhaseTypes
<1>8. Owner[f.r] = c
  BY <1>3, <1>5 DEF SafeInv, Mine
<1>9. Mine'
  BY <1>1, <1>5, <1>7 DEF SafeInv, Mine
<1>10. ASSUME NEW q \in Reqs PROVE RequestSafe(q)'
  <2>0. RequestSafe(q) /\ Owner[q] \in Clients
    BY Constants DEF SafeInv
  <2>1. CASE q = f.r
    <3>1. /\ Has(writeCh[c], q, AnyReply) /\ ~Has(writeCh'[c], q, AnyReply) /\ Single(writeCh'[c], q, AnyReply)
          /\ sent[q] # 0 /\ ~Has(sock[c].in, q, {"request"}) /\ fwd[q] \in {"ack", "none"}
      BY <1>5, <1>7, <1>8, <2>0, <2>1 DEF RequestSafe, Traced
    <3>2. Has(sock'[c].out, q, End) => Has(sock[c].out, q, End) \/ Terminal(f)
      BY <1>4, <1>6, <1>7, <2>1
    <3>3. \/ fwd[q] = "ack" /\ fwd'[q] = (IF Terminal(f) THEN "done" ELSE "wait")
          \/ fwd[q] # "ack" /\ fwd'[q] = fwd[q]
      BY <1>1, <2>1, Kept DEF PhaseTypes
    <3>4. Has(sock'[c].out, q, End) \/ Has(seen'[c], q, End) => fwd'[q] \in {"done", "none"}
      BY <1>1, <1>8, <2>0, <2>1, <3>1, <3>2, <3>3 DEF RequestSafe
    <3> QED
      BY <1>1, <1>7, <1>8, <2>0, <2>1, <3>1, <3>4 DEF RequestSafe
  <2>2. CASE q # f.r /\ Owner[q] = c
    <3>1. \A K : Has(sock'[c].out, q, K) <=> Has(sock[c].out, q, K)
      BY <1>6, <1>7, <2>2
    <3> QED
      BY <1>1, <1>5, <1>7, <2>0, <2>2, <3>1 DEF RequestSafe, Traced
  <2>3. CASE Owner[q] # c
    BY <1>1, <1>7, <1>8, <2>0, <2>3, RequestKept
  <2> QED
    BY <2>1, <2>2, <2>3
<1>11. ASSUME NEW d \in Clients PROVE ClientSafe(d)'
  <2>1. ClientSafe(d)
    BY DEF SafeInv
  <2> QED
    BY <1>1, <1>7, <2>1 DEF ClientSafe
<1> QED
  BY <1>1, <1>9, <1>10, <1>11 DEF SafeInv

\* A forwarder with a reply in hand has a bridge.
LEMMA ForwardReplySafe ==
    ASSUME ConnInv, SafeInv, Stats = {}, NEW r \in Reqs, ForwardReply(r)
    PROVE  SafeInv'
<1> DEFINE c == Owner[r]
           f == Head(ch[r])
<1>1. /\ UNCHANGED <<sock, sent, seen, bridge>> /\ fwd[r] = "wait" /\ ch[r] # <<>>
      /\ \/ bridge[c] = "ended"
         \/ /\ writeCh' = [writeCh EXCEPT ![c] = Append(writeCh[c], f)] /\ ch' = [ch EXCEPT ![r] = Tail(ch[r])]
            /\ fwd' = [fwd EXCEPT ![r] = "ack"] /\ UNCHANGED panicked
  BY DEF ForwardReply, clientVars
<1>2. c \in Clients /\ RequestSafe(r) /\ ClientSafe(c) /\ sent[r] \in Nat
  BY Kept, Constants DEF SafeInv, PhaseTypes
<1>3. /\ sent[r] # 0 /\ ~Has(sock[c].in, r, {"request"}) /\ ~Has(writeCh[c], r, AnyReply)
      /\ ~Has(sock[c].out, r, End) /\ ~Has(seen[c], r, End)
  BY <1>1, <1>2 DEF RequestSafe
<1>4. bridge[c] # "ended"
  BY <1>2, <1>3 DEF ClientSafe
<1>5. ch[r] \in Seq(Reply) /\ writeCh[c] \in Seq(Reply)
  BY <1>2, Kept DEF ChannelTypes
<1>6. f \in Reply /\ f.r \in Reqs
  <2>1. f \in Reply
    BY <1>1, <1>5, HeadTail
  <2> QED
    BY <2>1 DEF Reply
<1>7. f.kind \in AnyReply
  BY <1>6, FrameKinds
<1>8. \A q \in Reqs : Has(ch[r], q, AnyReply) <=> Has(Tail(ch[r]), q, AnyReply) \/ q = f.r
  BY <1>1, <1>5, <1>7, HasTail
<1> HIDE DEF f
<1>9. f.r = r
  BY <1>6, <1>8 DEF SafeInv, Mine
<1>10. \A q \in Reqs : /\ Has(Append(writeCh[c], f), q, AnyReply) <=> Has(writeCh[c], q, AnyReply) \/ q = r
                       /\ Single(writeCh[c], q, AnyReply) /\ (q = r => ~Has(writeCh[c], q, AnyReply))
                            => Single(Append(writeCh[c], f), q, AnyReply)
  BY <1>5, <1>6, <1>7, <1>9, HasAppend
<1> HIDE DEF c
<1>11. /\ writeCh'[c] = Append(writeCh[c], f) /\ \A d \in Clients : d # c => writeCh'[d] = writeCh[d]
       /\ \A q \in Reqs : ch'[q] = IF q = r THEN Tail(ch[r]) ELSE ch[q]
       /\ \A q \in Reqs : fwd'[q] = IF q = r THEN "ack" ELSE fwd[q]
       /\ UNCHANGED panicked
  BY <1>1, <1>2, <1>4, Kept DEF ChannelTypes, PhaseTypes
<1>12. Mine'
  <2>1. Mine /\ Owner[r] = c
    BY DEF SafeInv, c
  <2>2. ASSUME NEW d \in Clients, NEW q \in Reqs, Owner[q] # d
        PROVE  ~Has(sock'[d].in, q, {"request"}) /\ ~Has(writeCh'[d], q, AnyReply)
    <3>1. ~Has(sock[d].in, q, {"request"}) /\ ~Has(writeCh[d], q, AnyReply)
      BY <2>1, <2>2 DEF Mine
    <3>2. CASE d = c
      <4>1. q # r
        BY <2>1, <2>2, <3>2
      <4>2. ~Has(Append(writeCh[c], f), q, AnyReply)
        BY <1>10, <3>1, <3>2, <4>1
      <4> QED
        BY <1>1, <1>11, <3>1, <3>2, <4>2
    <3>3. CASE d # c
      BY <1>1, <1>11, <3>1, <3>3
    <3> QED
      BY <3>2, <3>3
  <2>3. ASSUME NEW p \in Reqs, NEW q \in Reqs, q # p PROVE ~Has(ch'[p], q, AnyReply)
    BY <1>8, <1>11, <2>1, <2>3 DEF Mine
  <2> QED
    BY <2>2, <2>3 DEF Mine
<1>13. ASSUME NEW q \in Reqs PROVE RequestSafe(q)'
  <2>0. RequestSafe(q) /\ Owner[q] \in Clients
    BY Constants DEF SafeInv
  <2>1. CASE q = r
    BY <1>1, <1>3, <1>10, <1>11, <2>0, <2>1 DEF RequestSafe, c
  <2>2. CASE q # r /\ Owner[q] = c
    BY <1>1, <1>10, <1>11, <2>0, <2>2 DEF RequestSafe, Traced
  <2>3. CASE Owner[q] # c
    BY <1>1, <1>11, <2>0, <2>3, RequestKept DEF c
  <2> QED
    BY <2>1, <2>2, <2>3
<1>14. ASSUME NEW d \in Clients PROVE ClientSafe(d)'
  BY <1>1 DEF SafeInv, ClientSafe
<1> QED
  BY <1>11, <1>12, <1>13, <1>14 DEF SafeInv

LEMMA NextSafe ==
    ASSUME ConnInv, SafeInv, Stats = {}, Quitters = {}, [Next]_vars
    PROVE  SafeInv'
<1> DEFINE idle == UNCHANGED <<sock, sent, seen, bridgeVars, panicked>>
<1>1. ASSUME idle PROVE SafeInv'
  BY <1>1, RequestKept DEF SafeInv, Mine, ClientSafe, bridgeVars
<1>2. CASE UNCHANGED vars
  BY <1>1, <1>2 DEF vars, clientVars
<1>3. ASSUME NEW c \in Clients, ClientRead(c) \/ HangUp(c) \/ AttachFails(c) \/ Bridge(c) \/ Write(c)
      PROVE  SafeInv'
  BY <1>3, ClientReadSafe, HangUpSafe, AttachSafe, PhaseSafe, BridgeSendSafe, BridgeRefuseSafe, WriteSafe DEF Bridge
<1>4. ASSUME NEW r \in Reqs, ClientSend(r) \/ ForwardReply(r) PROVE SafeInv'
  BY <1>4, ClientSendSafe, ForwardReplySafe
<1>5. ASSUME NEW g \in Gens, \/ AgentDies(g) \/ PumpToAgent(g) \/ FromAgent(g)
                             \/ \E r \in Reqs : AgentOutput(g, r) \/ AgentAnswer(g, r)
      PROVE  SafeInv'
  <2>1. CASE PumpFromAgent(g) \/ \E r \in Reqs : FailOne(g, r)
    BY <2>1, PumpSafe
  <2>2. CASE ~(PumpFromAgent(g) \/ \E r \in Reqs : FailOne(g, r))
    <3>1. UNCHANGED <<clientVars, bridgeVars, panicked>>
      BY <1>5, <2>2 DEF FromAgent, AgentDies, PumpToAgent, FailAll, CloseConn, AgentOutput, AgentAnswer, AgentSays
    <3> QED
      BY <1>1, <3>1 DEF clientVars
  <2> QED
    BY <2>1, <2>2
<1> QED
  BY <1>2, <1>3, <1>4, <1>5 DEF Next

\* DaemonSurvives for every number of clients, requests, connections and every
\* size of the channels, when no client leaves before its answers and no request is
\* a file_stat: no forwarder sends on a writeCh that its bridge has closed
\* (helpers.go, bridge), whenever the connection to the agent is lost.
THEOREM DaemonGoesOn ==
    ASSUME Quitters = {}, Stats = {}
    PROVE  Spec => []DaemonSurvives
<1>1. Init => ConnInv /\ SafeInv
  BY InitConn, InitSafe
<1>2. ConnInv /\ SafeInv /\ [Next]_vars => (ConnInv /\ SafeInv)'
  BY NextConn, NextSafe
<1>3. ConnInv /\ SafeInv => DaemonSurvives
  BY DEF SafeInv, DaemonSurvives
<1> QED
  BY <1>1, <1>2, <1>3, PTL DEF Spec

-----------------------------------------------------------------------------
(* What a client reads *)

\* Frames of request r in a channel: how many there are, how many up to place i.
Upto(s, r, i) == Cardinality({j \in 1..i : s[j].r = r})
Count(s, r) == Upto(s, r, Len(s))
One(f, r) == IF f.r = r THEN 1 ELSE 0

\* A frame that is the k-th reply to its request.
Fits(f, k) == (f.kind = "output" => f.n = k) /\ (f.kind = "result" => f.n = k - 1) /\ (f.kind = "stat" => k = 1)

\* The channel goes on with the replies to r after the first b, and has its end.
Lined(s, r, b) == \A i \in DOMAIN s : s[i].r = r =>
    /\ Fits(s[i], b + Upto(s, r, i))
    /\ Terminal(s[i]) => \A j \in DOMAIN s : s[j].r = r => j <= i
Ended(s, r) == \E i \in DOMAIN s : s[i].r = r /\ Terminal(s[i])

Request == {"request"}
Waiting(r) == Has(sock[Owner[r]].in, r, Request)
Early(r) == sent[r] = 0 \/ Waiting(r)
Held(r) == bridge[Owner[r]] = "send" /\ Head(sock[Owner[r]].in).r = r
Asked(r) == \E g \in Gens : Has(hc[g].clientIn, r, Request)
Idle(r) == ~work[r].open /\ work[r].outs = 0 /\ \A g \in Gens : Count(agent[g].out, r) = 0
Live(r) == \E g \in Gens : r \in hc[g].failing \/ (hc[g].from = "read" /\ r \in hc[g].routes)

\* Frames are in the channels of their own client and request.
Places ==
    /\ \A c \in Clients, r \in Reqs : Owner[r] # c =>
         /\ ~Has(sock[c].in, r, Request)
         /\ Count(writeCh[c], r) = 0 /\ Count(sock[c].out, r) = 0 /\ Count(seen[c], r) = 0
    /\ \A r, q \in Reqs : q # r => Count(ch[r], q) = 0

\* A connection that has lost its agent, and a client that is not attached.
Lost ==
    /\ \A g \in Gens : hc[g].from # "read" => ~agent[g].up /\ agent[g].out = <<>>
    /\ \A c \in Clients : bridge[c] = "new" => att[c] = 0
    /\ \A c \in Clients : bridge[c] \in {"read", "send", "ack"} => att[c] # 0

\* A request: once on its way, in one place, and no reply before it is taken up;
\* all of it on the connection of its client.
Ticket(r) ==
    /\ sent[r] = 0 => ~Waiting(r)
    /\ Single(sock[Owner[r]].in, r, Request)
    /\ \A g \in Gens : Single(hc[g].clientIn, r, Request)
    /\ Early(r) => fwd[r] = "none" /\ Count(writeCh[Owner[r]], r) = 0
                   /\ Count(sock[Owner[r]].out, r) = 0 /\ Count(seen[Owner[r]], r) = 0
    /\ fwd[r] = "none" => ~Asked(r)
    /\ fwd[r] = "none" \/ Asked(r) => Idle(r)
    /\ r \in Stats => work[r].outs = 0
    /\ Early(r) /\ ~Held(r) => Count(ch[r], r) = 0 /\ \A g \in Gens : r \notin hc[g].routes \cup hc[g].failing
    /\ \A g \in Gens :
         \/ Count(agent[g].out, r) # 0 \/ Has(hc[g].clientIn, r, Request)
         \/ r \in hc[g].routes \cup hc[g].failing \/ (work[r].open /\ work[r].gen = g)
         => g = att[Owner[r]]
    /\ work[r].open => work[r].gen \in Gens

\* The replies to r that its client has read, and those on their way.
Read(r) == Count(seen[Owner[r]], r)
Shown(r) == Read(r) + Count(sock[Owner[r]].out, r)
Passed(r) == IF fwd[r] = "none" THEN 0 ELSE Shown(r) + Count(writeCh[Owner[r]], r)

Lines(r) ==
    LET c == Owner[r] IN
    /\ Lined(seen[c], r, 0)
    /\ sock[c].up =>
         /\ Lined(sock[c].out, r, Read(r))
         /\ Lined(writeCh[c], r, Shown(r))
         /\ Lined(ch[r], r, Passed(r))
         /\ Ended(seen[c], r) => Count(sock[c].out, r) = 0
         /\ Ended(seen[c], r) \/ Ended(sock[c].out, r) => Count(writeCh[c], r) = 0
         /\ (Ended(seen[c], r) \/ Ended(sock[c].out, r) \/ Ended(writeCh[c], r)) /\ fwd[r] # "none" =>
              Count(ch[r], r) = 0 /\ ~Live(r)
         /\ Ended(ch[r], r) => ~Live(r)
         /\ \A g \in Gens : g = att[c] =>
              /\ Lined(agent[g].out, r, Passed(r) + Count(ch[r], r))
              /\ Ended(agent[g].out, r) => ~work[r].open
              /\ agent[g].up /\ (Held(r) \/ Asked(r) \/ work[r].open) =>
                   Passed(r) + Count(ch[r], r) + Count(agent[g].out, r) = work[r].outs
              /\ hc[g].from = "read" /\ (Held(r) \/ Asked(r) \/ work[r].open \/ Count(agent[g].out, r) # 0) =>
                   r \in hc[g].routes

\* A client's writer has one frame of a request at a time: a forwarder's, which waits
\* for it, or the one the bridge wrote itself and waits for.
Writers ==
    /\ \A r \in Reqs : LET c == Owner[r] IN
         /\ Count(writeCh[c], r) <= 1
         /\ Count(writeCh[c], r) # 0 => fwd[r] = "ack" \/ (fwd[r] = "none" /\ bridge[c] = "ack")
    /\ \A r, q \in Reqs :
         /\ Owner[r] = Owner[q] /\ fwd[r] = "none" /\ fwd[q] = "none"
         /\ Count(writeCh[Owner[r]], r) # 0 /\ Count(writeCh[Owner[q]], q) # 0
         => r = q

OrderInv == Places /\ Lost /\ Writers /\ \A r \in Reqs : Ticket(r) /\ Lines(r)

-----------------------------------------------------------------------------
LEMMA UptoType == ASSUME NEW s, NEW r, NEW i \in Nat PROVE Upto(s, r, i) \in Nat /\ Upto(s, r, 0) = 0
<1> DEFINE S(n) == {j \in 1..n : s[j].r = r}
<1>1. IsFiniteSet(1..i) /\ S(i) \subseteq 1..i
  BY FS_Interval
<1>2. IsFiniteSet(S(i))
  BY <1>1, FS_Subset
<1>3. S(0) = {} /\ Upto(s, r, i) = Cardinality(S(i)) /\ Upto(s, r, 0) = Cardinality(S(0))
  BY DEF Upto
<1> HIDE DEF S
<1> QED
  BY <1>2, <1>3, FS_CardinalityType, FS_EmptySet

LEMMA UptoNext ==
    ASSUME NEW s, NEW r, NEW i \in Nat
    PROVE  Upto(s, r, i + 1) = Upto(s, r, i) + One(s[i + 1], r)
<1> DEFINE S == {j \in 1..i : s[j].r = r}
           T == {j \in 1..(i + 1) : s[j].r = r}
<1>1. IsFiniteSet(1..i) /\ S \subseteq 1..i
  BY FS_Interval
<1>2. IsFiniteSet(S)
  BY <1>1, FS_Subset
<1>3. Upto(s, r, i) = Cardinality(S) /\ Upto(s, r, i + 1) = Cardinality(T)
  BY DEF Upto
<1>4. CASE s[i + 1].r = r
  <2>1. T = S \cup {i + 1} /\ i + 1 \notin S
    BY <1>4
  <2> HIDE DEF S, T
  <2> QED
    BY <1>2, <1>3, <1>4, <2>1, FS_AddElement DEF One
<1>5. CASE s[i + 1].r # r
  <2>1. T = S
    BY <1>5
  <2> HIDE DEF S, T
  <2>2. Cardinality(S) \in Nat
    BY <1>2, FS_CardinalityType
  <2> QED
    BY <1>3, <1>5, <2>1, <2>2 DEF One
<1> QED
  BY <1>4, <1>5

\* Two channels that agree up to a place.
LEMMA UptoSame ==
    ASSUME NEW s, NEW t, NEW r, NEW i \in Nat, \A j \in 1..i : s[j] = t[j]
    PROVE  Upto(s, r, i) = Upto(t, r, i)
<1>1. {j \in 1..i : s[j].r = r} = {j \in 1..i : t[j].r = r}
  OBVIOUS
<1> QED
  BY <1>1 DEF Upto

\* A channel that has lost its first frame.
LEMMA UptoShift ==
    ASSUME NEW s, NEW t, NEW r, NEW i \in Nat, \A j \in 1..i : t[j] = s[j + 1]
    PROVE  Upto(s, r, i + 1) = One(s[1], r) + Upto(t, r, i)
<1> DEFINE S == {j \in 1..i : t[j].r = r}
           S1 == {j \in 2..(i + 1) : s[j].r = r}
           T == {j \in 1..(i + 1) : s[j].r = r}
           F == [j \in S |-> j + 1]
<1>1. F \in Bijection(S, S1)
  <2>1. F \in [S -> S1]
    OBVIOUS
  <2>2. \A a, b \in S : F[a] = F[b] => a = b
    OBVIOUS
  <2>3. \A k \in S1 : \E j \in S : F[j] = k
    <3>1. ASSUME NEW k \in S1 PROVE k - 1 \in S /\ F[k - 1] = k
      <4>1. k \in 2..(i + 1) /\ s[k].r = r
        OBVIOUS
      <4>2. k - 1 \in 1..i /\ t[k - 1] = s[k]
        BY <4>1
      <4> QED
        BY <4>1, <4>2
    <3> QED
      BY <3>1
  <2> QED
    BY <2>1, <2>2, <2>3 DEF Bijection, Injection, Surjection, IsInjective
<1>2. IsFiniteSet(S) /\ IsFiniteSet(S1)
  <2>1. IsFiniteSet(1..i) /\ S \subseteq 1..i /\ IsFiniteSet(2..(i + 1)) /\ S1 \subseteq 2..(i + 1)
    BY FS_Interval
  <2> QED
    BY <2>1, FS_Subset
<1>3. Cardinality(S1) = Cardinality(S) /\ Cardinality(S) \in Nat
  <2>1. ExistsBijection(S, S1)
    BY <1>1 DEF ExistsBijection
  <2> HIDE DEF S, S1
  <2> QED
    BY <1>2, <2>1, FS_Bijection, FS_CardinalityType
<1>4. T = IF s[1].r = r THEN S1 \cup {1} ELSE S1
  OBVIOUS
<1>5. 1 \notin S1
  OBVIOUS
<1>6. Upto(s, r, i + 1) = Cardinality(T) /\ Upto(t, r, i) = Cardinality(S)
  BY DEF Upto
<1> HIDE DEF S, S1, T, F
<1>7. Cardinality(S1 \cup {1}) = Cardinality(S1) + 1
  BY <1>2, <1>5, FS_AddElement
<1> QED
  BY <1>3, <1>4, <1>6, <1>7 DEF One

\* A channel without a frame of r.
LEMMA NoneOf == ASSUME NEW s \in Seq(Reply), NEW r, Count(s, r) = 0, NEW i \in DOMAIN s PROVE s[i].r # r
<1> DEFINE S == {j \in 1..Len(s) : s[j].r = r}
<1>1. IsFiniteSet(1..Len(s)) /\ S \subseteq 1..Len(s)
  BY FS_Interval
<1>2. IsFiniteSet(S) /\ Cardinality(S) = 0
  BY <1>1, FS_Subset DEF Count, Upto
<1>3. S = {}
  BY <1>2, FS_EmptySet
<1> QED
  BY <1>3

\* A channel with nothing of r in it.
LEMMA LineNone ==
    ASSUME NEW r
    PROVE  /\ Count(<<>>, r) = 0 /\ ~Ended(<<>>, r) /\ \A b : Lined(<<>>, r, b)
           /\ \A s \in Seq(Reply) : Count(s, r) \in Nat
           /\ \A s \in Seq(Reply) : Count(s, r) = 0 => ~Ended(s, r) /\ \A b : Lined(s, r, b)
<1>1. Count(<<>>, r) = 0 /\ ~Ended(<<>>, r) /\ \A b : Lined(<<>>, r, b)
  BY UptoType DEF Count, Ended, Lined
<1>2. \A s \in Seq(Reply) : Count(s, r) \in Nat
  BY UptoType DEF Count
<1>3. ASSUME NEW s \in Seq(Reply), Count(s, r) = 0, NEW i \in DOMAIN s PROVE s[i].r # r
  BY <1>3, NoneOf
<1> QED
  BY <1>1, <1>2, <1>3 DEF Ended, Lined

\* One reply more.
LEMMA LineAppend ==
    ASSUME NEW s \in Seq(Reply), NEW f \in Reply, NEW r
    PROVE  /\ Append(s, f) \in Seq(Reply) /\ Count(s, r) \in Nat
           /\ Count(Append(s, f), r) = Count(s, r) + One(f, r)
           /\ Ended(Append(s, f), r) <=> Ended(s, r) \/ (f.r = r /\ Terminal(f))
           /\ \A b : /\ Lined(s, r, b)
                     /\ f.r = r => Fits(f, b + (Count(s, r) + 1)) /\ ~Ended(s, r)
                     => Lined(Append(s, f), r, b)
<1> DEFINE t == Append(s, f)
           n == Len(s)
<1>1. /\ t \in Seq(Reply) /\ n \in Nat /\ Len(t) = n + 1 /\ DOMAIN t = 1..(n + 1) /\ DOMAIN s = 1..n
      /\ t[n + 1] = f /\ \A i \in 1..n : t[i] = s[i]
  OBVIOUS
<1> HIDE DEF t, n
<1>2. \A i \in 0..n : Upto(t, r, i) = Upto(s, r, i)
  <2> SUFFICES ASSUME NEW i \in 0..n PROVE Upto(t, r, i) = Upto(s, r, i)
    OBVIOUS
  <2> QED
    BY <1>1, UptoSame
<1>3. Count(t, r) = Count(s, r) + One(f, r) /\ Count(s, r) \in Nat /\ Upto(t, r, n + 1) = Count(t, r)
  <2>1. Upto(t, r, n + 1) = Upto(t, r, n) + One(t[n + 1], r) /\ Upto(s, r, n) \in Nat
    BY <1>1, UptoNext, UptoType
  <2>2. Count(s, r) = Upto(s, r, n) /\ Count(t, r) = Upto(t, r, n + 1)
    BY <1>1 DEF Count, n
  <2> QED
    BY <1>1, <1>2, <2>1, <2>2
<1>4. Ended(t, r) <=> Ended(s, r) \/ (f.r = r /\ Terminal(f))
  <2>1. /\ \A i \in DOMAIN s : i \in DOMAIN t /\ t[i] = s[i]
        /\ \A i \in DOMAIN t : i = n + 1 \/ (i \in DOMAIN s /\ t[i] = s[i])
        /\ n + 1 \in DOMAIN t /\ t[n + 1] = f
    BY <1>1
  <2> QED
    BY <2>1 DEF Ended
<1>5. ASSUME NEW b, Lined(s, r, b), f.r = r => Fits(f, b + (Count(s, r) + 1)) /\ ~Ended(s, r)
      PROVE  Lined(t, r, b)
  <2> SUFFICES ASSUME NEW i \in 1..(n + 1), t[i].r = r
               PROVE  /\ Fits(t[i], b + Upto(t, r, i))
                      /\ Terminal(t[i]) => \A j \in 1..(n + 1) : t[j].r = r => j <= i
    BY <1>1 DEF Lined
  <2>1. CASE i = n + 1
    <3>1. f.r = r /\ Upto(t, r, i) = Count(s, r) + 1
      BY <1>1, <1>3, <2>1 DEF One
    <3> QED
      BY <1>1, <1>5, <2>1, <3>1
  <2>2. CASE i \in 1..n
    <3>1. t[i] = s[i] /\ Upto(t, r, i) = Upto(s, r, i)
      BY <1>1, <1>2, <2>2
    <3>2. Fits(t[i], b + Upto(t, r, i))
      BY <1>1, <1>5, <2>2, <3>1 DEF Lined
    <3>3. ASSUME Terminal(t[i]), NEW j \in 1..(n + 1), t[j].r = r PROVE j <= i
      <4>1. j # n + 1
        BY <1>1, <1>5, <2>2, <3>1, <3>3 DEF Ended
      <4>2. j \in 1..n /\ s[j].r = r
        BY <1>1, <3>3, <4>1
      <4> QED
        BY <1>1, <1>5, <2>2, <3>1, <3>3, <4>2 DEF Lined
    <3> QED
      BY <3>2, <3>3
  <2> QED
    BY <1>1, <2>1, <2>2
<1> QED
  BY <1>1, <1>3, <1>4, <1>5 DEF t

\* The first reply taken out.
LEMMA LineTail ==
    ASSUME NEW s \in Seq(Reply), s # <<>>, NEW r
    PROVE  LET f == Head(s) IN
           /\ f \in Reply /\ Tail(s) \in Seq(Reply) /\ Count(Tail(s), r) \in Nat
           /\ Count(s, r) = One(f, r) + Count(Tail(s), r)
           /\ Ended(s, r) <=> Ended(Tail(s), r) \/ (f.r = r /\ Terminal(f))
           /\ \A b \in Nat : Lined(s, r, b) =>
                /\ Lined(Tail(s), r, b + One(f, r))
                /\ f.r = r => Fits(f, b + 1) /\ (Terminal(f) => Count(Tail(s), r) = 0)
<1> DEFINE t == Tail(s)
           f == Head(s)
           n == Len(t)
<1>1. /\ t \in Seq(Reply) /\ f \in Reply /\ n \in Nat /\ Len(s) = n + 1
      /\ DOMAIN s = 1..(n + 1) /\ DOMAIN t = 1..n /\ s[1] = f
      /\ \A i \in 1..n : t[i] = s[i + 1] /\ i + 1 \in 1..(n + 1)
  BY HeadTail
<1>2. n = Len(t)
  OBVIOUS
<1> HIDE DEF t, f, n
<1>3. \A i \in 0..n : Upto(s, r, i + 1) = One(f, r) + Upto(t, r, i)
  <2> SUFFICES ASSUME NEW i \in 0..n PROVE Upto(s, r, i + 1) = One(f, r) + Upto(t, r, i)
    OBVIOUS
  <2>1. \A j \in 1..i : t[j] = s[j + 1]
    BY <1>1
  <2> QED
    BY <1>1, <2>1, UptoShift
<1>4. Count(s, r) = One(f, r) + Count(t, r) /\ Count(t, r) \in Nat
  BY <1>1, <1>2, <1>3, UptoType DEF Count
<1>5. Ended(s, r) <=> Ended(t, r) \/ (f.r = r /\ Terminal(f))
  <2>1. /\ \A i \in DOMAIN t : i + 1 \in DOMAIN s /\ s[i + 1] = t[i]
        /\ \A i \in DOMAIN s : i = 1 \/ (i - 1 \in DOMAIN t /\ t[i - 1] = s[i])
        /\ 1 \in DOMAIN s /\ s[1] = f
    BY <1>1
  <2>2. Ended(s, r) => Ended(t, r) \/ (f.r = r /\ Terminal(f))
    BY <2>1 DEF Ended
  <2>3. Ended(t, r) => Ended(s, r)
    BY <2>1 DEF Ended
  <2>4. f.r = r /\ Terminal(f) => Ended(s, r)
    BY <2>1 DEF Ended
  <2> QED
    BY <2>2, <2>3, <2>4
<1>6. ASSUME NEW b \in Nat, Lined(s, r, b)
      PROVE  /\ Lined(t, r, b + One(f, r))
             /\ f.r = r => Fits(f, b + 1) /\ (Terminal(f) => Count(t, r) = 0)
  <2>1. ASSUME NEW i \in 1..n, t[i].r = r
        PROVE  /\ Fits(t[i], (b + One(f, r)) + Upto(t, r, i))
               /\ Terminal(t[i]) => \A j \in 1..n : t[j].r = r => j <= i
    <3>1. i + 1 \in 1..(n + 1) /\ s[i + 1] = t[i]
      BY <1>1
    <3>2. b + Upto(s, r, i + 1) = (b + One(f, r)) + Upto(t, r, i)
      <4>1. i \in 0..n /\ Upto(t, r, i) \in Nat /\ One(f, r) \in Nat
        BY <1>1, UptoType DEF One
      <4>2. Upto(s, r, i + 1) = One(f, r) + Upto(t, r, i)
        BY <1>3, <4>1
      <4> QED
        BY <4>1, <4>2
    <3>3. Fits(t[i], b + Upto(s, r, i + 1))
      BY <1>1, <1>6, <2>1, <3>1 DEF Lined
    <3>4. ASSUME Terminal(t[i]), NEW j \in 1..n, t[j].r = r PROVE j <= i
      <4>1. j + 1 \in 1..(n + 1) /\ s[j + 1] = t[j]
        BY <1>1
      <4>2. j + 1 <= i + 1
        BY <1>1, <1>6, <2>1, <3>1, <3>4, <4>1 DEF Lined
      <4> QED
        BY <1>1, <4>2
    <3> QED
      BY <3>2, <3>3, <3>4
  <2>2. ASSUME f.r = r PROVE Fits(f, b + 1)
    <3>1. Upto(s, r, 0 + 1) = 1
      BY <1>1, <1>3, <2>2, UptoType DEF One
    <3> QED
      BY <1>1, <1>6, <2>2, <3>1 DEF Lined
  <2>3. ASSUME f.r = r, Terminal(f) PROVE Count(t, r) = 0
    <3>1. \A j \in 1..n : t[j].r # r
      <4> SUFFICES ASSUME NEW j \in 1..n, t[j].r = r PROVE FALSE
        OBVIOUS
      <4>1. j + 1 \in 1..(n + 1) /\ s[j + 1].r = r /\ 1 \in 1..(n + 1)
        BY <1>1
      <4>2. j + 1 <= 1
        BY <1>1, <1>6, <2>3, <4>1 DEF Lined
      <4> QED
        BY <1>1, <4>2
    <3>2. {j \in 1..n : t[j].r = r} = {}
      BY <3>1
    <3> QED
      BY <1>2, <3>2, FS_EmptySet DEF Count, Upto
  <2> QED
    BY <1>1, <2>1, <2>2, <2>3 DEF Lined
<1> QED
  BY <1>1, <1>4, <1>5, <1>6 DEF t, f

\* For request r, channel t holds what s held; and the same of requests.
Same(s, t, r) ==
    /\ Count(t, r) = Count(s, r)
    /\ Ended(t, r) <=> Ended(s, r)
    /\ \A b \in Nat : Lined(s, r, b) => Lined(t, r, b)
SameAsks(s, t, r) ==
    /\ Has(t, r, Request) <=> Has(s, r, Request)
    /\ Single(s, r, Request) => Single(t, r, Request)

LEMMA SameFacts ==
    ASSUME NEW r
    PROVE  /\ \A s : Same(s, s, r) /\ SameAsks(s, s, r)
           /\ \A s \in Seq(Reply) : \A f \in Reply : f.r # r => Same(s, Append(s, f), r)
           /\ \A s \in Seq(Reply) : s # <<>> /\ Head(s).r # r => Same(s, Tail(s), r)
           /\ \A s \in Seq(Ask) : \A f \in Ask : f.r # r \/ f.kind # "request" => SameAsks(s, Append(s, f), r)
           /\ \A s \in Seq(Ask) : s # <<>> /\ (Head(s).r # r \/ Head(s).kind # "request") => SameAsks(s, Tail(s), r)
<1>1. \A s : Same(s, s, r) /\ SameAsks(s, s, r)
  BY DEF Same, SameAsks
<1>2. ASSUME NEW s \in Seq(Reply), NEW f \in Reply, f.r # r PROVE Same(s, Append(s, f), r)
  BY <1>2, LineAppend DEF Same, One
<1>3. ASSUME NEW s \in Seq(Reply), s # <<>>, Head(s).r # r PROVE Same(s, Tail(s), r)
  BY <1>3, LineTail DEF Same, One
<1>4. ASSUME NEW s \in Seq(Ask), NEW f \in Ask, f.r # r \/ f.kind # "request" PROVE SameAsks(s, Append(s, f), r)
  BY <1>4, HasAppend DEF SameAsks, Request
<1>5. ASSUME NEW s \in Seq(Ask), s # <<>>, Head(s).r # r \/ Head(s).kind # "request" PROVE SameAsks(s, Tail(s), r)
  BY <1>5, HasTail DEF SameAsks, Request
<1> QED
  BY <1>1, <1>2, <1>3, <1>4, <1>5

\* Counts are numbers, and channels have their types.
LEMMA Counts ==
    ASSUME ConnInv, NEW r \in Reqs
    PROVE  /\ Owner[r] \in Clients
           /\ \A c \in Clients : /\ seen[c] \in Seq(Reply) /\ sock[c].out \in Seq(Reply) /\ writeCh[c] \in Seq(Reply)
                                 /\ sock[c].in \in Seq(Ask) /\ att[c] \in 0..MaxGen
           /\ ch[r] \in Seq(Reply)
           /\ \A g \in Gens : agent[g].out \in Seq(Reply) /\ Count(agent[g].out, r) \in Nat /\ hc[g].clientIn \in Seq(Ask)
           /\ Count(seen[Owner[r]], r) \in Nat /\ Count(sock[Owner[r]].out, r) \in Nat
           /\ Count(writeCh[Owner[r]], r) \in Nat /\ Count(ch[r], r) \in Nat
           /\ Read(r) \in Nat /\ Shown(r) \in Nat /\ Passed(r) \in Nat
           /\ work[r].outs \in Nat /\ work[r].open \in BOOLEAN /\ work[r].gen \in Nat /\ sent[r] \in Nat
<1>1. Owner[r] \in Clients
  BY Constants
<1>2. \A c \in Clients : seen[c] \in Seq(Reply) /\ writeCh[c] \in Seq(Reply) /\ att[c] \in 0..MaxGen
  BY Kept DEF ChannelTypes, ConnTypes
<1>3. \A c \in Clients : sock[c].in \in Seq(Ask) /\ sock[c].out \in Seq(Reply)
  BY Kept, SocketStep
<1>4. ch[r] \in Seq(Reply)
  BY Kept DEF ChannelTypes
<1>5. \A g \in Gens : agent[g].out \in Seq(Reply) /\ hc[g].clientIn \in Seq(Ask)
  BY Kept, ConnStep DEF AgentTypes
<1>6. \A s \in Seq(Reply) : Count(s, r) \in Nat
  BY LineNone
<1>7. work[r].outs \in Nat /\ work[r].open \in BOOLEAN /\ work[r].gen \in Nat /\ sent[r] \in Nat
  BY Kept DEF AgentTypes, PhaseTypes
<1>8. /\ Count(seen[Owner[r]], r) \in Nat /\ Count(sock[Owner[r]].out, r) \in Nat
      /\ Count(writeCh[Owner[r]], r) \in Nat /\ Count(ch[r], r) \in Nat
  BY <1>1, <1>2, <1>3, <1>4, <1>6
<1>9. Read(r) \in Nat /\ Shown(r) \in Nat /\ Passed(r) \in Nat
  BY <1>8 DEF Read, Shown, Passed
<1> QED
  BY <1>1, <1>2, <1>3, <1>4, <1>5, <1>6, <1>7, <1>8, <1>9

\* A step that does not move request r.
UnmovedAsks(r) ==
    LET c == Owner[r] IN
    /\ sent'[r] = 0 <=> sent[r] = 0
    /\ fwd'[r] = "none" <=> fwd[r] = "none"
    /\ Held(r)' <=> Held(r)
    /\ SameAsks(sock[c].in, sock'[c].in, r)
    /\ \A g \in Gens : SameAsks(hc[g].clientIn, hc'[g].clientIn, r)
    /\ work'[r].open = work[r].open /\ work'[r].outs = work[r].outs /\ work'[r].gen = work[r].gen
    /\ att'[c] = att[c]
    /\ \A g \in Gens : /\ (hc'[g].from = "read" <=> hc[g].from = "read") /\ (agent'[g].up => agent[g].up)
                       /\ r \in hc'[g].routes <=> r \in hc[g].routes
                       /\ r \in hc'[g].failing <=> r \in hc[g].failing
UnmovedLines(r) ==
    LET c == Owner[r] IN
    /\ sock'[c].up => sock[c].up /\ Same(sock[c].out, sock'[c].out, r)
    /\ Count(sock[c].out, r) = 0 => Count(sock'[c].out, r) = 0
    /\ Same(seen[c], seen'[c], r) /\ Same(writeCh[c], writeCh'[c], r) /\ Same(ch[r], ch'[r], r)
    /\ \A g \in Gens : Same(agent[g].out, agent'[g].out, r)

LEMMA Unmoved ==
    ASSUME ConnInv, NEW r \in Reqs, Ticket(r), Lines(r), UnmovedAsks(r), UnmovedLines(r)
    PROVE  Ticket(r)' /\ Lines(r)'
<1> DEFINE c == Owner[r]
<1>1. /\ Waiting(r)' <=> Waiting(r)
      /\ Early(r)' <=> Early(r)
      /\ Asked(r)' <=> Asked(r)
      /\ Live(r)' <=> Live(r)
  BY DEF UnmovedAsks, SameAsks, Waiting, Early, Asked, Live
<1>2. /\ Count(seen'[c], r) = Count(seen[c], r)
      /\ sock'[c].up => Count(sock'[c].out, r) = Count(sock[c].out, r)
      /\ Count(sock[c].out, r) = 0 => Count(sock'[c].out, r) = 0
      /\ Count(writeCh'[c], r) = Count(writeCh[c], r) /\ Count(ch'[r], r) = Count(ch[r], r)
      /\ \A g \in Gens : Count(agent'[g].out, r) = Count(agent[g].out, r)
  BY DEF UnmovedLines, Same
<1>3. Idle(r)' <=> Idle(r)
  BY <1>2 DEF UnmovedAsks, Idle
<1>4. Ticket(r)'
  BY <1>1, <1>2, <1>3 DEF Ticket, UnmovedAsks, SameAsks, Waiting
<1>5. sock'[c].up => Read(r)' = Read(r) /\ Shown(r)' = Shown(r) /\ Passed(r)' = Passed(r)
  BY <1>2 DEF Read, Shown, Passed, UnmovedAsks
<1>6. Lines(r)'
  <2>1. Read(r) \in Nat /\ Shown(r) \in Nat /\ Passed(r) \in Nat /\ Count(ch[r], r) \in Nat
    BY Counts
  <2>2. Lined(seen'[c], r, 0)
    BY DEF Lines, UnmovedLines, Same
  <2>3. ASSUME sock'[c].up
        PROVE  /\ Lined(sock'[c].out, r, Read(r)) /\ Lined(writeCh'[c], r, Shown(r)) /\ Lined(ch'[r], r, Passed(r))
               /\ Ended(seen'[c], r) => Count(sock'[c].out, r) = 0
               /\ Ended(seen'[c], r) \/ Ended(sock'[c].out, r) => Count(writeCh'[c], r) = 0
               /\ (Ended(seen'[c], r) \/ Ended(sock'[c].out, r) \/ Ended(writeCh'[c], r)) /\ fwd'[r] # "none" =>
                    Count(ch'[r], r) = 0 /\ ~Live(r)
               /\ Ended(ch'[r], r) => ~Live(r)
    BY <1>2, <2>1, <2>3 DEF Lines, UnmovedLines, UnmovedAsks, Same
  <2>4. ASSUME sock'[c].up, NEW g \in Gens, g = att'[c]
        PROVE  /\ Lined(agent'[g].out, r, Passed(r) + Count(ch[r], r))
               /\ Ended(agent'[g].out, r) => ~work'[r].open
               /\ agent'[g].up /\ (Held(r)' \/ Asked(r)' \/ work'[r].open) =>
                    Passed(r) + Count(ch[r], r) + Count(agent'[g].out, r) = work'[r].outs
               /\ hc'[g].from = "read" /\ (Held(r)' \/ Asked(r)' \/ work'[r].open \/ Count(agent'[g].out, r) # 0) =>
                    r \in hc'[g].routes
    <3>1. sock[c].up /\ g = att[c]
      BY <2>4 DEF UnmovedLines, UnmovedAsks
    <3>2. Passed(r) + Count(ch[r], r) \in Nat
      BY <2>1
    <3>3. /\ Lined(agent[g].out, r, Passed(r) + Count(ch[r], r))
          /\ Ended(agent[g].out, r) => ~work[r].open
          /\ agent[g].up /\ (Held(r) \/ Asked(r) \/ work[r].open) =>
               Passed(r) + Count(ch[r], r) + Count(agent[g].out, r) = work[r].outs
          /\ hc[g].from = "read" /\ (Held(r) \/ Asked(r) \/ work[r].open \/ Count(agent[g].out, r) # 0) =>
               r \in hc[g].routes
      BY <3>1 DEF Lines
    <3>4. Same(agent[g].out, agent'[g].out, r)
      BY DEF UnmovedLines
    <3>5. Lined(agent'[g].out, r, Passed(r) + Count(ch[r], r))
      BY <3>2, <3>3, <3>4 DEF Same
    <3> QED
      BY <1>1, <3>3, <3>4, <3>5 DEF UnmovedAsks, Same
  <2> QED
    BY <1>1, <1>2, <1>5, <2>2, <2>3, <2>4 DEF Lines
<1> QED
  BY <1>4, <1>6

\* A step that moves no request.
LEMMA AllUnmoved ==
    ASSUME ConnInv, OrderInv, \A r \in Reqs : UnmovedAsks(r) /\ UnmovedLines(r), Places', Lost', Writers'
    PROVE  OrderInv'
BY Unmoved DEF OrderInv

LEMMA AgentDiesOrder == ASSUME ConnInv, OrderInv, NEW g \in Gens, AgentDies(g) PROVE OrderInv'
<1>1. /\ UNCHANGED <<pool, hc, work, att, sock, sent, seen, bridge, writeCh, ch, fwd>>
      /\ \A h \in Gens : agent'[h].out = agent[h].out /\ (agent'[h].up => agent[h].up)
  BY Kept, ZenonT(60) DEF AgentDies, connVars, clientVars, bridgeVars, AgentTypes
<1>2. \A r \in Reqs : UnmovedAsks(r) /\ UnmovedLines(r)
  BY <1>1, SameFacts DEF UnmovedAsks, UnmovedLines, Held
<1>3. Places' /\ Lost' /\ Writers'
  BY <1>1 DEF OrderInv, Places, Lost, Writers
<1> QED
  BY <1>2, <1>3, AllUnmoved

LEMMA CloseConnOrder == ASSUME ConnInv, OrderInv, NEW g \in Gens, CloseConn(g) PROVE OrderInv'
<1>1. /\ UNCHANGED <<pool, agent, work, att, sock, sent, seen, bridge, writeCh, ch, fwd>>
      /\ hc[g].from = "failing"
      /\ \A h \in Gens : /\ hc'[h].clientIn = hc[h].clientIn /\ hc'[h].routes = hc[h].routes
                         /\ hc'[h].failing = hc[h].failing
                         /\ hc'[h].from = IF h = g THEN "done" ELSE hc[h].from
  BY Kept, ZenonT(60) DEF CloseConn, agentVars, clientVars, bridgeVars, ConnTypes, Conn
<1>2. \A r \in Reqs : UnmovedAsks(r) /\ UnmovedLines(r)
  BY <1>1, SameFacts DEF UnmovedAsks, UnmovedLines, Held
<1>3. Places' /\ Lost' /\ Writers'
  BY <1>1 DEF OrderInv, Places, Lost, Writers
<1> QED
  BY <1>2, <1>3, AllUnmoved

LEMMA BridgeEndOrder == ASSUME ConnInv, OrderInv, NEW c \in Clients, BridgeEnd(c) PROVE OrderInv'
<1>1. /\ UNCHANGED <<pool, hc, agent, work, att, sock, sent, seen, writeCh, ch, fwd>>
      /\ bridge[c] = "read" /\ \A d \in Clients : bridge'[d] = IF d = c THEN "ended" ELSE bridge[d]
  BY Kept DEF BridgeEnd, connVars, agentVars, clientVars, PhaseTypes
<1>2. \A r \in Reqs : UnmovedAsks(r) /\ UnmovedLines(r)
  BY <1>1, SameFacts, Constants DEF UnmovedAsks, UnmovedLines, Held
<1>3. Places' /\ Lost'
  BY <1>1 DEF OrderInv, Places, Lost
<1>4. Writers'
  BY <1>1, Constants DEF OrderInv, Writers
<1> QED
  BY <1>2, <1>3, <1>4, AllUnmoved

LEMMA HangUpOrder ==
    ASSUME ConnInv, OrderInv, NEW c \in Clients, HangUp(c) \/ AttachFails(c)
    PROVE  OrderInv'
<1>1. /\ UNCHANGED <<pool, hc, agent, work, att, sent, seen, writeCh, ch, fwd>>
      /\ \A d \in Clients : bridge'[d] = bridge[d] \/ (bridge[d] = "new" /\ bridge'[d] = "ended")
      /\ \A d \in Clients : /\ sock'[d].in = sock[d].in /\ (d # c => sock'[d] = sock[d])
                            /\ sock'[d].out = sock[d].out \/ sock'[d].out = <<>>
      /\ ~sock'[c].up
  <2>1. /\ UNCHANGED <<pool, hc, agent, work, att, sent, seen, writeCh, ch, fwd>>
        /\ \/ bridge' = bridge
           \/ bridge[c] = "new" /\ bridge' = [bridge EXCEPT ![c] = "ended"]
        /\ \/ sock' = [sock EXCEPT ![c].up = FALSE, ![c].out = <<>>]
           \/ sock' = [sock EXCEPT ![c].up = FALSE]
    BY DEF HangUp, AttachFails, connVars, agentVars, bridgeVars
  <2>2. \A d \in Clients : bridge'[d] = bridge[d] \/ (bridge[d] = "new" /\ bridge'[d] = "ended")
    BY <2>1, Kept DEF PhaseTypes
  <2>3. /\ \A d \in Clients : /\ sock'[d].in = sock[d].in /\ (d # c => sock'[d] = sock[d])
                              /\ sock'[d].out = sock[d].out \/ sock'[d].out = <<>>
        /\ ~sock'[c].up
    BY <2>1, Kept DEF SockTypes, Socket
  <2> QED
    BY <2>1, <2>2, <2>3
<1>2. \A r \in Reqs : UnmovedAsks(r)
  <2> SUFFICES ASSUME NEW r \in Reqs PROVE UnmovedAsks(r)
    OBVIOUS
  <2>1. Held(r)' <=> Held(r)
    BY <1>1, Constants DEF Held
  <2> QED
    BY <1>1, <2>1, SameFacts, Constants DEF UnmovedAsks
<1>3. \A r \in Reqs : UnmovedLines(r)
  BY <1>1, SameFacts, LineNone, Constants DEF UnmovedLines
<1>4. Places' /\ Lost'
  BY <1>1, LineNone DEF OrderInv, Places, Lost
<1>5. Writers'
  BY <1>1, Constants DEF OrderInv, Writers
<1> QED
  BY <1>2, <1>3, <1>4, <1>5, AllUnmoved

LEMMA AttachOrder == ASSUME ConnInv, OrderInv, NEW c \in Clients, Attach(c) PROVE OrderInv'
<1>1. /\ UNCHANGED <<hc, agent, work, sock, sent, seen, writeCh, ch, fwd>>
      /\ bridge[c] = "new" /\ \A d \in Clients : bridge'[d] = IF d = c THEN "read" ELSE bridge[d]
      /\ \A d \in Clients : d # c => att'[d] = att[d]
      /\ att[c] = 0
  BY Kept DEF Attach, agentVars, PhaseTypes, ConnTypes, OrderInv, Lost
<1>2. att'[c] # 0
  BY Kept DEF Attach, Usable, ConnTypes
<1>3. ASSUME NEW r \in Reqs, Owner[r] # c PROVE Ticket(r)' /\ Lines(r)'
  <2>1. UnmovedAsks(r) /\ UnmovedLines(r)
    BY <1>1, <1>3, SameFacts, Constants DEF UnmovedAsks, UnmovedLines, Held
  <2> QED
    BY <2>1, Unmoved DEF OrderInv
<1>4. ASSUME NEW r \in Reqs, Owner[r] = c PROVE Ticket(r)' /\ Lines(r)'
  <2>1. Ticket(r) /\ Lines(r)
    BY DEF OrderInv
  <2>2. ~Held(r) /\ ~Held(r)'
    BY <1>1, <1>4 DEF Held
  <2>3. \A g \in Gens : g # 0
    BY DEF Gens
  <2>4. /\ ~work[r].open /\ ~Asked(r)
        /\ \A g \in Gens : /\ Count(agent[g].out, r) = 0 /\ ~Has(hc[g].clientIn, r, Request)
                           /\ r \notin hc[g].routes \cup hc[g].failing
    BY <1>1, <1>4, <2>1, <2>3 DEF Ticket, Asked
  <2>5. UNCHANGED <<Waiting(r), Early(r), Asked(r), Idle(r), Read(r), Shown(r), Passed(r), Live(r)>>
    BY <1>1 DEF Waiting, Early, Asked, Idle, Read, Shown, Passed, Live
  <2>6. Ticket(r)'
    BY <1>1, <1>4, <2>1, <2>2, <2>4, <2>5 DEF Ticket, Waiting
  <2>7. \A g \in Gens : ~Ended(agent[g].out, r) /\ \A b : Lined(agent[g].out, r, b)
    BY <2>4, Counts, LineNone
  <2>8. Lines(r)'
    BY <1>1, <2>1, <2>2, <2>4, <2>5, <2>7 DEF Lines
  <2> QED
    BY <2>6, <2>8
<1>5. Places' /\ Lost'
  BY <1>1, <1>2 DEF OrderInv, Places, Lost
<1>6. Writers'
  BY <1>1, Constants DEF OrderInv, Writers
<1> QED
  BY <1>3, <1>4, <1>5, <1>6 DEF OrderInv

\* A bridge that sends has the Request at the head of its socket.
LEMMA HeadAsks ==
    ASSUME ConnInv, NEW r \in Reqs, Held(r)
    PROVE  Waiting(r) /\ sock[Owner[r]].in # <<>>
<1> DEFINE s == sock[Owner[r]].in
<1>1. s \in Seq(Ask) /\ s # <<>> /\ Head(s).kind = "request" /\ Head(s).r = r
  BY Counts, Kept DEF Bounded, Held
<1> HIDE DEF s
<1>2. Has(s, r, Request)
  BY <1>1, HasTail DEF Request
<1> QED
  BY <1>1, <1>2 DEF Waiting, s

LEMMA ClientSendOrder == ASSUME ConnInv, OrderInv, NEW r \in Reqs, ClientSend(r) PROVE OrderInv'
<1> DEFINE c == Owner[r]
           f == Frame(r, IF sent[r] = 0 THEN "request" ELSE "chunk", sent[r])
           s == sock[c].in
<1>1. /\ UNCHANGED <<pool, hc, agent, work, att, bridge, writeCh, ch, fwd, seen>>
      /\ sock' = [sock EXCEPT ![c].in = Append(s, f)] /\ sent' = [sent EXCEPT ![r] = sent[r] + 1]
  BY DEF ClientSend, connVars, agentVars, bridgeVars
<1>2. /\ f \in Ask /\ f.r = r /\ (f.kind = "request" <=> sent[r] = 0)
      /\ c \in Clients /\ s \in Seq(Ask) /\ sent[r] \in Nat
  <2>1. c \in Clients /\ sent[r] \in Nat /\ s \in Seq(Ask)
    BY Counts
  <2>2. Frame(r, "request", sent[r]) \in Ask /\ Frame(r, "chunk", sent[r]) \in Ask
    BY <2>1, Frames DEF ConnInv
  <2> QED
    BY <2>1, <2>2 DEF Frame
<1>3. /\ sock'[c].in = Append(s, f) /\ \A d \in Clients : d # c => sock'[d].in = sock[d].in
      /\ \A d \in Clients : sock'[d].up = sock[d].up /\ sock'[d].out = sock[d].out
      /\ \A q \in Reqs : sent'[q] = IF q = r THEN sent[r] + 1 ELSE sent[q]
  BY <1>1, <1>2, Kept DEF SockTypes, Socket, PhaseTypes
<1> HIDE DEF f
<1>4. \A q \in Reqs : Owner[q] = c =>
        /\ Has(Append(s, f), q, Request) <=> Has(s, q, Request) \/ (q = r /\ sent[r] = 0)
        /\ Single(s, q, Request) /\ (q = r => ~(sent[r] = 0 /\ Has(s, r, Request))) => Single(Append(s, f), q, Request)
  BY <1>2, HasAppend DEF Request
<1>5. s # <<>> => Head(Append(s, f)) = Head(s)
  BY <1>2
<1>6. \A q \in Reqs : Held(q)' <=> Held(q)
  <2> SUFFICES ASSUME NEW q \in Reqs PROVE Held(q)' <=> Held(q)
    OBVIOUS
  <2>1. CASE bridge[Owner[q]] = "send"
    <3>1. sock[Owner[q]].in # <<>> /\ Owner[q] \in Clients
      BY <2>1, Kept, Constants DEF Bounded
    <3> QED
      BY <1>1, <1>3, <1>5, <3>1 DEF Held
  <2>2. CASE bridge[Owner[q]] # "send"
    BY <1>1, <2>2 DEF Held
  <2> QED
    BY <2>1, <2>2
<1>7. ASSUME NEW q \in Reqs, q # r \/ sent[r] # 0 PROVE Ticket(q)' /\ Lines(q)'
  <2>1. SameAsks(sock[Owner[q]].in, sock'[Owner[q]].in, q)
    <3>1. CASE Owner[q] # c
      BY <1>3, <3>1, SameFacts, Constants
    <3>2. CASE Owner[q] = c
      BY <1>2, <1>3, <1>7, <3>2, SameFacts, ZenonT(60)
    <3> QED
      BY <3>1, <3>2
  <2>2. UnmovedAsks(q)
    <3>1. sent'[q] = 0 <=> sent[q] = 0
      BY <1>2, <1>3, <1>7
    <3> QED
      BY <1>1, <1>3, <1>6, <2>1, <3>1, SameFacts, Constants DEF UnmovedAsks
  <2>3. UnmovedLines(q)
    BY <1>1, <1>3, SameFacts, Constants DEF UnmovedLines
  <2> QED
    BY <2>2, <2>3, Unmoved DEF OrderInv
<1>8. ASSUME sent[r] = 0 PROVE Ticket(r)' /\ Lines(r)'
  <2>1. Ticket(r) /\ Lines(r)
    BY DEF OrderInv
  <2>2. Early(r) /\ ~Waiting(r) /\ ~Held(r) /\ ~Held(r)' /\ Waiting(r)' /\ Early(r)'
    BY <1>3, <1>4, <1>6, <1>8, <2>1, HeadAsks DEF Early, Ticket, Waiting
  <2>3. UNCHANGED <<Asked(r), Idle(r), Read(r), Shown(r), Passed(r), Live(r)>>
    BY <1>1, <1>2, <1>3 DEF Asked, Idle, Read, Shown, Passed, Live
  <2>4. Single(sock'[c].in, r, Request)
    BY <1>3, <1>4, <2>1, <2>2 DEF Ticket, Waiting
  <2>5. Ticket(r)'
    BY <1>1, <1>2, <1>3, <1>8, <2>1, <2>2, <2>3, <2>4 DEF Ticket
  <2>6. Lines(r)'
    BY <1>1, <1>2, <1>3, <2>1, <2>2, <2>3 DEF Lines
  <2> QED
    BY <2>5, <2>6
<1>9. Places'
  <2>1. ASSUME NEW d \in Clients, NEW q \in Reqs, Owner[q] # d PROVE ~Has(sock'[d].in, q, Request)
    <3>1. ~Has(sock[d].in, q, Request)
      BY <2>1 DEF OrderInv, Places
    <3>2. CASE d = c
      <4>1. Has(Append(s, f), q, Request) <=> Has(s, q, Request) \/ (f.r = q /\ f.kind \in Request)
        BY <1>2, HasAppend
      <4> QED
        BY <1>2, <1>3, <2>1, <3>1, <3>2, <4>1
    <3> QED
      BY <1>3, <3>1, <3>2
  <2> QED
    BY <1>1, <1>3, <2>1 DEF OrderInv, Places
<1>10. Lost' /\ Writers'
  BY <1>1 DEF OrderInv, Lost, Writers
<1> QED
  BY <1>7, <1>8, <1>9, <1>10 DEF OrderInv

LEMMA ClientReadOrder == ASSUME ConnInv, OrderInv, NEW c \in Clients, ClientRead(c) PROVE OrderInv'
<1> DEFINE s == sock[c].out
           f == Head(s)
<1>1. /\ UNCHANGED <<pool, hc, agent, work, att, bridge, writeCh, ch, fwd, sent>>
      /\ sock[c].up /\ s # <<>>
      /\ seen' = [seen EXCEPT ![c] = Append(seen[c], f)]
      /\ sock' = [sock EXCEPT ![c].out = Tail(s)]
  BY DEF ClientRead, connVars, agentVars, bridgeVars
<1>2. s \in Seq(Reply) /\ f \in Reply /\ seen[c] \in Seq(Reply)
  BY <1>1, Kept, SocketStep, HeadTail DEF ChannelTypes
<1>3. /\ sock'[c].out = Tail(s) /\ seen'[c] = Append(seen[c], f)
      /\ \A d \in Clients : sock'[d].up = sock[d].up /\ sock'[d].in = sock[d].in
      /\ \A d \in Clients : d # c => sock'[d].out = sock[d].out /\ seen'[d] = seen[d]
  BY <1>1, Kept DEF SockTypes, Socket, ChannelTypes
<1>4. f.r \in Reqs
  BY <1>2 DEF Reply
<1> HIDE DEF f
<1>5. \A q \in Reqs : UnmovedAsks(q)
  BY <1>1, <1>3, SameFacts, Constants DEF UnmovedAsks, Held
<1>6. ASSUME NEW q \in Reqs, q # f.r \/ Owner[q] # c PROVE Ticket(q)' /\ Lines(q)'
  <2>1. Same(seen[Owner[q]], seen'[Owner[q]], q) /\ Same(sock[Owner[q]].out, sock'[Owner[q]].out, q)
    <3>1. CASE Owner[q] # c
      BY <1>3, <3>1, SameFacts, Constants
    <3>2. CASE Owner[q] = c
      <4>1. f.r # q
        BY <1>6, <3>2
      <4>2. Same(s, Tail(s), q) /\ Same(seen[c], Append(seen[c], f), q)
        BY <1>1, <1>2, <4>1, SameFacts DEF f
      <4> QED
        BY <1>3, <3>2, <4>2
    <3> QED
      BY <3>1, <3>2
  <2>2. UnmovedLines(q)
    BY <1>1, <1>3, <2>1, SameFacts, Constants DEF UnmovedLines, Same
  <2> QED
    BY <1>5, <2>2, Unmoved DEF OrderInv
<1>7. ASSUME NEW q \in Reqs PROVE /\ Count(s, q) = One(f, q) + Count(Tail(s), q) /\ Count(Tail(s), q) \in Nat
                                  /\ Count(Append(seen[c], f), q) = Count(seen[c], q) + One(f, q)
                                  /\ Count(seen[c], q) \in Nat
  BY <1>1, <1>2, LineTail, LineAppend DEF f
<1>8. Owner[f.r] = c
  BY <1>4, <1>7 DEF OrderInv, Places, One
<1>9. ASSUME NEW r \in Reqs, r = f.r PROVE Ticket(r)' /\ Lines(r)'
  <2>1. Ticket(r) /\ Lines(r) /\ r \in Reqs /\ Owner[r] = c
    BY <1>8, <1>9 DEF OrderInv
  <2>2. Read(r) \in Nat /\ Shown(r) \in Nat /\ Passed(r) \in Nat
    BY <2>1, Counts
  <2>3. /\ Count(s, r) = 1 + Count(Tail(s), r) /\ Count(Tail(s), r) \in Nat
        /\ Read(r)' = Read(r) + 1
    BY <1>3, <1>7, <1>9, <2>1 DEF One, Read
  <2>4. Shown(r)' = Shown(r) /\ Passed(r)' = Passed(r)
    <3>1. Shown(r) = Read(r) + Count(s, r) /\ Shown(r)' = Read(r)' + Count(Tail(s), r)
      BY <1>1, <1>3, <2>1 DEF Shown
    <3>2. Shown(r)' = Shown(r)
      BY <2>2, <2>3, <3>1
    <3> QED
      BY <1>1, <3>2 DEF Passed
  <2>5. UNCHANGED <<Waiting(r), Early(r), Asked(r), Idle(r), Live(r), Held(r)>>
    BY <1>1, <1>3, <2>1, Constants DEF Waiting, Early, Asked, Idle, Live, Held
  <2>6. ~Early(r)
    BY <2>1, <2>3 DEF Ticket
  <2>7. Ticket(r)'
    BY <1>1, <1>3, <2>1, <2>5, <2>6, Constants DEF Ticket
  <2>8. /\ Lined(Tail(s), r, Read(r) + 1)
        /\ Fits(f, Read(r) + 1) /\ (Terminal(f) => Count(Tail(s), r) = 0)
        /\ Ended(s, r) <=> Ended(Tail(s), r) \/ Terminal(f)
    <3>1. Lined(s, r, Read(r))
      BY <1>1, <2>1 DEF Lines
    <3>2. f.r = r /\ One(f, r) = 1
      BY <1>9 DEF One
    <3> QED
      BY <1>1, <1>2, <2>2, <3>1, <3>2, LineTail DEF f
  <2>9. ~Ended(seen[c], r)
    BY <1>1, <2>1, <2>3 DEF Lines
  <2>10. /\ Lined(Append(seen[c], f), r, 0)
         /\ Ended(Append(seen[c], f), r) <=> Terminal(f)
    <3>1. Lined(seen[c], r, 0) /\ 0 + (Count(seen[c], r) + 1) = Read(r) + 1
      BY <1>7, <2>1 DEF Lines, Read
    <3>2. f.r = r
      BY <1>9
    <3> QED
      BY <1>2, <2>8, <2>9, <3>1, <3>2, LineAppend
  <2>11. Lines(r)'
    BY <1>1, <1>3, <2>1, <2>3, <2>4, <2>5, <2>8, <2>9, <2>10 DEF Lines
  <2> QED
    BY <2>7, <2>11
<1>10. Places'
  <2>1. ASSUME NEW d \in Clients, NEW q \in Reqs, Owner[q] # d
        PROVE  Count(sock'[d].out, q) = 0 /\ Count(seen'[d], q) = 0
    <3>1. Count(sock[d].out, q) = 0 /\ Count(seen[d], q) = 0
      BY <2>1 DEF OrderInv, Places
    <3>2. CASE d = c
      <4>1. One(f, q) = 0
        BY <1>8, <2>1, <3>2 DEF One
      <4>2. Count(s, q) = 0 /\ Count(seen[c], q) = 0
        BY <3>1, <3>2
      <4>3. Count(Tail(s), q) = 0 /\ Count(Append(seen[c], f), q) = 0
        BY <1>7, <4>1, <4>2
      <4> QED
        BY <1>3, <3>2, <4>3
    <3> QED
      BY <1>3, <3>1, <3>2
  <2> QED
    BY <1>1, <1>3, <2>1 DEF OrderInv, Places
<1>11. Lost' /\ Writers'
  BY <1>1 DEF OrderInv, Lost, Writers
<1> QED
  BY <1>6, <1>9, <1>10, <1>11 DEF OrderInv

LEMMA AgentSaysOrder ==
    ASSUME ConnInv, OrderInv, NEW g \in Gens, NEW r \in Reqs, AgentOutput(g, r) \/ AgentAnswer(g, r)
    PROVE  OrderInv'
<1> DEFINE c == Owner[r]
           s == agent[g].out
<1>1. PICK f \in Reply :
        /\ f.r = r /\ agent' = [agent EXCEPT ![g].out = Append(s, f)]
        /\ \/ ~Terminal(f) /\ Fits(f, work[r].outs + 1) /\ work'[r].outs = work[r].outs + 1 /\ work'[r].open = work[r].open
              /\ r \notin Stats
           \/ Fits(f, work[r].outs + 1) /\ work'[r].outs = work[r].outs /\ ~work'[r].open
  <2>1. Ticket(r) /\ work[r].outs \in Nat /\ work[r].open \in BOOLEAN
    BY Counts DEF OrderInv
  <2>2. CASE AgentOutput(g, r)
    <3> DEFINE f == Frame(r, "output", work[r].outs + 1)
    <3>1. f \in Reply /\ f.r = r /\ ~Terminal(f) /\ Fits(f, work[r].outs + 1)
      <4>1. f \in Reply
        BY <2>1, Frames DEF ConnInv
      <4> QED
        BY <4>1 DEF Frame, Terminal, Fits
    <3> HIDE DEF f
    <3>2. agent' = [agent EXCEPT ![g].out = Append(s, f)]
      BY <2>2 DEF AgentOutput, AgentSays, f
    <3>3. work'[r].outs = work[r].outs + 1 /\ work'[r].open = work[r].open /\ r \notin Stats
      BY <2>2, Kept DEF AgentOutput, AgentTypes
    <3> QED
      BY <3>1, <3>2, <3>3
  <2>3. CASE AgentAnswer(g, r)
    <3> DEFINE f == IF r \in Stats THEN Frame(r, "stat", 0) ELSE Frame(r, "result", work[r].outs)
    <3>1. f \in Reply /\ f.r = r /\ Fits(f, work[r].outs + 1)
      BY <2>1, Frames DEF ConnInv, Frame, Fits, Ticket
    <3> HIDE DEF f
    <3>2. agent' = [agent EXCEPT ![g].out = Append(s, f)]
      BY <2>3 DEF AgentAnswer, AgentSays, f
    <3>3. work'[r].outs = work[r].outs /\ ~work'[r].open
      BY <2>3, Kept DEF AgentAnswer, AgentTypes
    <3> QED
      BY <3>1, <3>2, <3>3
  <2> QED
    BY <2>2, <2>3
<1>2. /\ UNCHANGED <<pool, hc, att, sock, sent, seen, bridge, writeCh, ch, fwd>>
      /\ agent[g].up /\ work[r].open /\ work[r].gen = g
      /\ work'[r].gen = work[r].gen
      /\ \A q \in Reqs : q # r => work'[q] = work[q]
  BY Kept DEF AgentOutput, AgentAnswer, AgentSays, connVars, clientVars, bridgeVars, AgentTypes
<1>3. /\ \A h \in Gens : agent'[h].up = agent[h].up /\ (h # g => agent'[h].out = agent[h].out)
      /\ agent'[g].out = Append(s, f)
  BY <1>1, Kept DEF AgentTypes
<1>4. s \in Seq(Reply)
  BY Kept DEF AgentTypes
<1>5. ASSUME NEW q \in Reqs, q # r PROVE Ticket(q)' /\ Lines(q)'
  <2>1. UnmovedAsks(q)
    BY <1>2, <1>3, <1>5, SameFacts DEF UnmovedAsks, Held
  <2>2. \A h \in Gens : Same(agent[h].out, agent'[h].out, q)
    BY <1>1, <1>3, <1>4, <1>5, SameFacts
  <2>3. UnmovedLines(q)
    BY <1>2, <2>2, SameFacts DEF UnmovedLines
  <2> QED
    BY <2>1, <2>3, Unmoved DEF OrderInv
<1>6. Ticket(r)' /\ Lines(r)'
  <2>1. Ticket(r) /\ Lines(r) /\ work[r].outs \in Nat
    BY Counts DEF OrderInv
  <2>2. ~Idle(r) /\ ~Asked(r) /\ fwd[r] # "none" /\ ~Early(r) /\ ~Held(r) /\ g = att[c]
    BY <1>2, <2>1, HeadAsks DEF Ticket, Idle, Early
  <2>3. UNCHANGED <<Waiting(r), Early(r), Asked(r), Read(r), Shown(r), Passed(r), Live(r), Held(r)>>
    BY <1>2 DEF Waiting, Early, Asked, Read, Shown, Passed, Live, Held
  <2>4. sock[c].up => r \in hc[g].routes \/ hc[g].from # "read"
    BY <1>2, <2>1, <2>2 DEF Lines
  <2>5. Ticket(r)'
    <3>1. r \in Stats => work'[r].outs = 0
      BY <1>1, <2>1 DEF Ticket
    <3>2. \A h \in Gens : Count(agent'[h].out, r) # 0 => h = att[c]
      BY <1>3, <2>1, <2>2 DEF Ticket
    <3>3. \A h \in Gens : r \in hc[h].routes \cup hc[h].failing \/ Has(hc[h].clientIn, r, Request) => h = att[c]
      BY <2>1 DEF Ticket
    <3>4. work'[r].gen = g
      BY <1>2
    <3> QED
      BY <1>2, <2>1, <2>2, <2>3, <3>1, <3>2, <3>3, <3>4 DEF Ticket, Waiting
  <2>6. ASSUME sock[c].up
        PROVE  /\ Lined(Append(s, f), r, Passed(r) + Count(ch[r], r))
               /\ Count(Append(s, f), r) = Count(s, r) + 1
               /\ Passed(r) + Count(ch[r], r) + Count(s, r) = work[r].outs
               /\ Ended(Append(s, f), r) <=> Terminal(f)
    <3>1. /\ Lined(s, r, Passed(r) + Count(ch[r], r)) /\ ~Ended(s, r)
          /\ Passed(r) + Count(ch[r], r) + Count(s, r) = work[r].outs
      BY <1>2, <2>1, <2>2, <2>6 DEF Lines
    <3>2. Passed(r) \in Nat /\ Count(ch[r], r) \in Nat /\ Count(s, r) \in Nat
      BY Counts
    <3> DEFINE b == Passed(r) + Count(ch[r], r)
    <3>3. b + (Count(s, r) + 1) = work[r].outs + 1 /\ b \in Nat
      BY <3>1, <3>2
    <3>4. One(f, r) = 1
      BY <1>1 DEF One
    <3>5. Lined(s, r, b)
      BY <3>1
    <3> HIDE DEF b
    <3>6. Fits(f, b + (Count(s, r) + 1))
      BY <1>1, <3>3
    <3>7. Lined(Append(s, f), r, b)
      BY <1>1, <1>4, <3>1, <3>5, <3>6, LineAppend
    <3>8. Count(Append(s, f), r) = Count(s, r) + 1 /\ (Ended(Append(s, f), r) <=> Terminal(f))
      BY <1>1, <1>4, <3>1, <3>4, LineAppend
    <3> QED
      BY <3>1, <3>7, <3>8 DEF b
  <2>7. Lines(r)'
    <3>1. Passed(r) \in Nat /\ Count(ch[r], r) \in Nat /\ Count(s, r) \in Nat
      BY Counts
    <3>2. ASSUME sock[c].up
          PROVE  /\ Ended(agent'[g].out, r) => ~work'[r].open
                 /\ work'[r].open => Passed(r) + Count(ch[r], r) + Count(agent'[g].out, r) = work'[r].outs
      BY <1>1, <1>3, <2>1, <2>6, <3>1, <3>2, SMTT(40)
    <3> QED
      BY <1>2, <1>3, <2>1, <2>2, <2>3, <2>4, <2>6, <3>2, ZenonT(60) DEF Lines
  <2> QED
    BY <2>5, <2>7
<1>7. Places' /\ Writers'
  BY <1>2 DEF OrderInv, Places, Writers
<1>8. Lost'
  BY <1>2, <1>3 DEF OrderInv, Lost
<1> QED
  BY <1>5, <1>6, <1>7, <1>8 DEF OrderInv

\* The frame is on the socket, and its request's next one may come.
LEMMA WriteOrder == ASSUME ConnInv, OrderInv, NEW c \in Clients, Write(c) PROVE OrderInv'
<1> DEFINE w == writeCh[c]
           s == sock[c].out
           f == Head(w)
<1>1. /\ UNCHANGED <<pool, hc, agent, work, att, sent, seen, ch>> /\ w # <<>>
      /\ sock' = IF sock[c].up THEN [sock EXCEPT ![c].out = Append(s, f)] ELSE sock
      /\ writeCh' = [writeCh EXCEPT ![c] = Tail(w)]
      /\ \/ /\ fwd[f.r] = "ack" /\ bridge' = bridge
            /\ fwd' = [fwd EXCEPT ![f.r] = IF Terminal(f) THEN "done" ELSE "wait"]
         \/ fwd[f.r] # "ack" /\ fwd' = fwd /\ bridge' = [bridge EXCEPT ![c] = "read"]
  BY DEF Write, connVars, agentVars
<1>2. w \in Seq(Reply) /\ s \in Seq(Reply) /\ f \in Reply
  BY <1>1, Kept, SocketStep, HeadTail DEF ChannelTypes
<1>3. f.r \in Reqs
  BY <1>2 DEF Reply
<1>4. f = Head(w)
  OBVIOUS
<1> HIDE DEF f
<1>5. /\ writeCh'[c] = Tail(w) /\ \A d \in Clients : d # c => writeCh'[d] = writeCh[d]
      /\ \A d \in Clients : sock'[d].up = sock[d].up /\ sock'[d].in = sock[d].in /\ (d # c => sock'[d] = sock[d])
      /\ sock'[c].out = IF sock[c].up THEN Append(s, f) ELSE s
  BY <1>1, Kept DEF SockTypes, Socket, ChannelTypes
<1>6. ASSUME NEW q \in Reqs
      PROVE  /\ Count(w, q) = One(f, q) + Count(Tail(w), q) /\ Count(Tail(w), q) \in Nat
             /\ Count(Append(s, f), q) = Count(s, q) + One(f, q) /\ Count(s, q) \in Nat
  BY <1>1, <1>2, <1>4, LineTail, LineAppend
<1>7. Owner[f.r] = c
  BY <1>3, <1>6 DEF OrderInv, Places, One
<1>8. /\ fwd[f.r] \in {"ack", "none"} /\ (fwd[f.r] = "none" => bridge[c] = "ack") /\ Count(Tail(w), f.r) = 0
      /\ \A q \in Reqs : q # f.r => fwd'[q] = fwd[q]
      /\ fwd'[f.r] = "none" <=> fwd[f.r] = "none"
      /\ \A d \in Clients : bridge'[d] = bridge[d] \/ (d = c /\ fwd[f.r] = "none" /\ bridge[c] = "ack" /\ bridge'[c] = "read")
  <2>1. Count(w, f.r) = 1 + Count(Tail(w), f.r) /\ Count(Tail(w), f.r) \in Nat
    BY <1>3, <1>6 DEF One
  <2>2. Count(w, f.r) <= 1 /\ (fwd[f.r] = "ack" \/ (fwd[f.r] = "none" /\ bridge[c] = "ack"))
    BY <1>3, <1>7, <2>1 DEF OrderInv, Writers
  <2>3. Count(Tail(w), f.r) = 0
    BY <2>1, <2>2
  <2> QED
    BY <1>1, <1>3, <2>2, <2>3, Kept DEF PhaseTypes
<1>9. \A q \in Reqs : UnmovedAsks(q)
  <2> SUFFICES ASSUME NEW q \in Reqs PROVE UnmovedAsks(q)
    OBVIOUS
  <2>1. Held(q)' <=> Held(q)
    BY <1>5, <1>8, Constants DEF Held
  <2> QED
    BY <1>1, <1>5, <1>8, <2>1, SameFacts, Constants DEF UnmovedAsks
<1>10. ASSUME NEW q \in Reqs, q # f.r PROVE Ticket(q)' /\ Lines(q)'
  <2>1. Same(writeCh[Owner[q]], writeCh'[Owner[q]], q) /\ Same(sock[Owner[q]].out, sock'[Owner[q]].out, q)
    <3>1. CASE Owner[q] # c
      BY <1>5, <3>1, SameFacts, Constants
    <3>2. CASE Owner[q] = c
      <4>1. Same(w, Tail(w), q) /\ Same(s, Append(s, f), q) /\ Same(s, s, q)
        BY <1>1, <1>2, <1>4, <1>10, SameFacts
      <4> QED
        BY <1>5, <3>2, <4>1
    <3> QED
      BY <3>1, <3>2
  <2>2. UnmovedLines(q)
    BY <1>1, <1>5, <2>1, SameFacts, Constants DEF UnmovedLines, Same
  <2> QED
    BY <1>9, <2>2, Unmoved DEF OrderInv
<1>11. ASSUME NEW r \in Reqs, r = f.r PROVE Ticket(r)' /\ Lines(r)'
  <2>1. Ticket(r) /\ Lines(r) /\ Owner[r] = c
    BY <1>7, <1>11 DEF OrderInv
  <2>2. Read(r) \in Nat /\ Shown(r) \in Nat /\ Passed(r) \in Nat
    BY Counts
  <2>3. /\ Count(w, r) = 1 /\ Count(Tail(w), r) = 0 /\ Count(Append(s, f), r) = Count(s, r) + 1
        /\ Count(s, r) \in Nat /\ One(f, r) = 1
    BY <1>6, <1>8, <1>11 DEF One
  <2>4. UNCHANGED <<Waiting(r), Early(r), Asked(r), Idle(r), Live(r), Held(r), Read(r)>>
    BY <1>1, <1>5, <1>8, <2>1, Constants DEF Waiting, Early, Asked, Idle, Live, Held, Read
  <2>5. ~Early(r)
    BY <2>1, <2>3 DEF Ticket
  <2>6. Ticket(r)'
    BY <1>1, <1>5, <1>8, <1>11, <2>1, <2>4, <2>5, Constants DEF Ticket
  <2>7. ASSUME sock[c].up
        PROVE  /\ Shown(r)' = Shown(r) + 1 /\ Passed(r)' = Passed(r)
               /\ Lined(Append(s, f), r, Read(r)) /\ Lined(Tail(w), r, Shown(r) + 1)
               /\ Ended(Append(s, f), r) <=> Terminal(f)
               /\ Ended(w, r) <=> Terminal(f)
               /\ ~Ended(Tail(w), r) /\ ~Ended(seen[c], r)
    <3>1. Shown(r) = Read(r) + Count(s, r) /\ Shown(r)' = Read(r) + Count(Append(s, f), r)
      BY <1>5, <2>1, <2>4, <2>7 DEF Shown
    <3>2. Shown(r)' = Shown(r) + 1
      BY <2>2, <2>3, <3>1
    <3>3. Passed(r)' = Passed(r)
      BY <1>5, <1>8, <1>11, <2>1, <2>2, <2>3, <3>2 DEF Passed
    <3>4. /\ Lined(s, r, Read(r)) /\ Lined(w, r, Shown(r)) /\ ~Ended(seen[c], r) /\ ~Ended(s, r)
      BY <2>1, <2>3, <2>7 DEF Lines
    <3>5. Fits(f, Shown(r) + 1) /\ (Ended(w, r) <=> Ended(Tail(w), r) \/ Terminal(f))
      BY <1>1, <1>2, <1>4, <1>11, <2>2, <3>4, LineTail
    <3>6. Tail(w) \in Seq(Reply)
      BY <1>1, <1>2, HeadTail
    <3>7. ~Ended(Tail(w), r) /\ Lined(Tail(w), r, Shown(r) + 1)
      BY <2>3, <3>6, LineNone
    <3>8. Read(r) + (Count(s, r) + 1) = Shown(r) + 1
      BY <2>2, <2>3, <3>1
    <3>9. Lined(Append(s, f), r, Read(r)) /\ (Ended(Append(s, f), r) <=> Terminal(f))
      BY <1>2, <1>11, <3>4, <3>5, <3>8, LineAppend
    <3> QED
      BY <3>2, <3>3, <3>4, <3>5, <3>7, <3>9
  <2>8. Lines(r)'
    BY <1>1, <1>5, <1>8, <1>11, <2>1, <2>3, <2>4, <2>7 DEF Lines
  <2> QED
    BY <2>6, <2>8
<1>12. ASSUME NEW d \in Clients, NEW q \in Reqs
       PROVE  /\ Count(writeCh'[d], q) \in Nat
              /\ Count(writeCh'[d], q) # 0 => Count(writeCh'[d], q) = Count(writeCh[d], q) /\ q # f.r
              /\ Owner[q] # d => Count(writeCh'[d], q) = 0 /\ Count(sock'[d].out, q) = 0
  <2>1. Count(writeCh[d], q) \in Nat
    BY Kept, LineNone DEF ChannelTypes
  <2>2. Owner[q] # d => Count(writeCh[d], q) = 0 /\ Count(sock[d].out, q) = 0
    BY DEF OrderInv, Places
  <2>3. CASE d # c
    <3>1. Count(writeCh[d], q) # 0 => q # f.r
      BY <1>7, <2>2, <2>3
    <3> QED
      BY <1>5, <2>1, <2>2, <2>3, <3>1
  <2>4. CASE d = c /\ q = f.r
    BY <1>5, <1>7, <1>8, <2>4
  <2>5. CASE d = c /\ q # f.r
    <3>1. One(f, q) = 0
      BY <2>5 DEF One
    <3>2. Count(Tail(w), q) = Count(w, q) /\ Count(Append(s, f), q) = Count(s, q)
      BY <1>6, <3>1
    <3> QED
      BY <1>5, <2>1, <2>2, <2>5, <3>2
  <2> QED
    BY <2>3, <2>4, <2>5
<1>13. Places'
  BY <1>1, <1>5, <1>12 DEF OrderInv, Places
<1>14. Lost'
  BY <1>1, <1>8 DEF OrderInv, Lost
<1>15. Writers'
  <2>1. ASSUME NEW q \in Reqs, Count(writeCh'[Owner[q]], q) # 0
        PROVE  /\ Count(writeCh'[Owner[q]], q) <= 1 /\ q # f.r /\ Count(writeCh[Owner[q]], q) # 0
               /\ fwd'[q] = fwd[q] /\ (fwd[q] = "ack" \/ (fwd[q] = "none" /\ bridge'[Owner[q]] = "ack"))
    <3>1. /\ Owner[q] \in Clients /\ q # f.r /\ Count(writeCh'[Owner[q]], q) = Count(writeCh[Owner[q]], q)
          /\ fwd'[q] = fwd[q]
      BY <1>8, <1>12, <2>1, Constants
    <3>2. /\ Count(writeCh[Owner[q]], q) <= 1
          /\ fwd[q] = "ack" \/ (fwd[q] = "none" /\ bridge[Owner[q]] = "ack")
      BY <2>1, <3>1 DEF OrderInv, Writers
    <3>3. ASSUME fwd[q] = "none", Owner[q] = c, fwd[f.r] = "none" PROVE FALSE
      <4>1. Count(w, f.r) # 0
        BY <1>3, <1>6, <1>8 DEF One
      <4> QED
        BY <1>3, <1>7, <2>1, <3>1, <3>3, <4>1 DEF OrderInv, Writers
    <3> QED
      BY <1>8, <2>1, <3>1, <3>2, <3>3
  <2>2. \A q \in Reqs : Count(writeCh'[Owner[q]], q) <= 1
    BY <1>12, <2>1, Constants
  <2>3. ASSUME NEW p \in Reqs, NEW q \in Reqs, Owner[p] = Owner[q], fwd'[p] = "none", fwd'[q] = "none",
               Count(writeCh'[Owner[p]], p) # 0, Count(writeCh'[Owner[q]], q) # 0
        PROVE  p = q
    <3>1. /\ fwd[p] = "none" /\ fwd[q] = "none" /\ Count(writeCh[Owner[p]], p) # 0 /\ Count(writeCh[Owner[q]], q) # 0
      BY <2>1, <2>3
    <3> QED
      BY <2>3, <3>1 DEF OrderInv, Writers
  <2> QED
    BY <2>1, <2>2, <2>3 DEF Writers
<1> QED
  BY <1>10, <1>11, <1>13, <1>14, <1>15 DEF OrderInv

LEMMA ForwardOrder == ASSUME ConnInv, OrderInv, NEW r \in Reqs, ForwardReply(r) PROVE OrderInv'
<1> DEFINE c == Owner[r]
           w == writeCh[c]
           h == ch[r]
           f == Head(h)
<1>1. /\ UNCHANGED <<pool, hc, agent, work, att, sock, sent, seen, bridge>> /\ fwd[r] = "wait" /\ h # <<>>
      /\ \/ UNCHANGED <<writeCh, ch, fwd>>
         \/ /\ writeCh' = [writeCh EXCEPT ![c] = Append(w, f)] /\ ch' = [ch EXCEPT ![r] = Tail(h)]
            /\ fwd' = [fwd EXCEPT ![r] = "ack"]
  BY DEF ForwardReply, clientVars, connVars, agentVars
<1>2. ASSUME UNCHANGED <<writeCh, ch, fwd>> PROVE OrderInv'
  <2>1. \A q \in Reqs : UnmovedAsks(q) /\ UnmovedLines(q)
    BY <1>1, <1>2, SameFacts DEF UnmovedAsks, UnmovedLines, Held
  <2>2. Places' /\ Lost' /\ Writers'
    BY <1>1, <1>2 DEF OrderInv, Places, Lost, Writers
  <2> QED
    BY <2>1, <2>2, AllUnmoved
<1>3. ASSUME writeCh' = [writeCh EXCEPT ![c] = Append(w, f)], ch' = [ch EXCEPT ![r] = Tail(h)],
             fwd' = [fwd EXCEPT ![r] = "ack"]
      PROVE  OrderInv'
  <2>1. c \in Clients /\ w \in Seq(Reply) /\ h \in Seq(Reply)
    BY Counts
  <2>2. f \in Reply /\ Tail(h) \in Seq(Reply) /\ f = Head(h)
    BY <1>1, <2>1, HeadTail
  <2> HIDE DEF f
  <2>3. /\ writeCh'[c] = Append(w, f) /\ \A d \in Clients : d # c => writeCh'[d] = writeCh[d]
        /\ ch'[r] = Tail(h) /\ \A q \in Reqs : q # r => ch'[q] = ch[q] /\ fwd'[q] = fwd[q]
        /\ fwd'[r] = "ack"
    BY <1>3, <2>1, Kept DEF ChannelTypes, PhaseTypes
  <2>4. ASSUME NEW q \in Reqs
        PROVE  /\ Count(h, q) = One(f, q) + Count(Tail(h), q) /\ Count(Tail(h), q) \in Nat
               /\ Count(Append(w, f), q) = Count(w, q) + One(f, q) /\ Count(w, q) \in Nat
    BY <1>1, <2>1, <2>2, LineTail, LineAppend
  <2>5. f.r = r
    <3>1. f.r \in Reqs
      BY <2>2 DEF Reply
    <3> QED
      BY <2>4, <3>1 DEF OrderInv, Places, One
  <2>6. \A q \in Reqs : UnmovedAsks(q)
    BY <1>1, <2>3, SameFacts DEF UnmovedAsks, Held
  <2>7. ASSUME NEW q \in Reqs, q # r PROVE Ticket(q)' /\ Lines(q)'
    <3>1. Same(writeCh[Owner[q]], writeCh'[Owner[q]], q)
      <4>1. CASE Owner[q] # c
        BY <2>3, <4>1, SameFacts, Constants
      <4>2. CASE Owner[q] = c
        <5>1. Same(w, Append(w, f), q)
          BY <2>1, <2>2, <2>5, <2>7, SameFacts
        <5> QED
          BY <2>3, <4>2, <5>1
      <4> QED
        BY <4>1, <4>2
    <3>2. UnmovedLines(q)
      BY <1>1, <2>3, <2>7, <3>1, SameFacts DEF UnmovedLines
    <3> QED
      BY <2>6, <3>2, Unmoved DEF OrderInv
  <2>8. /\ Count(w, r) = 0 /\ Count(Append(w, f), r) = 1 /\ Count(h, r) = 1 + Count(Tail(h), r)
        /\ Count(Tail(h), r) \in Nat
    <3>1. Count(w, r) = 0
      BY <1>1 DEF OrderInv, Writers
    <3> QED
      BY <2>4, <2>5, <3>1 DEF One
  <2>9. Ticket(r)' /\ Lines(r)'
    <3>1. Ticket(r) /\ Lines(r)
      BY DEF OrderInv
    <3>2. Read(r) \in Nat /\ Shown(r) \in Nat /\ Passed(r) \in Nat
      BY Counts
    <3>3. UNCHANGED <<Waiting(r), Early(r), Asked(r), Idle(r), Live(r), Held(r), Read(r), Shown(r)>>
      BY <1>1 DEF Waiting, Early, Asked, Idle, Live, Held, Read, Shown
    <3>4. ~Early(r)
      BY <1>1, <3>1 DEF Ticket
    <3>5. Ticket(r)'
      BY <1>1, <2>3, <3>1, <3>3, <3>4 DEF Ticket, Waiting
    <3>6. Passed(r) = Shown(r) /\ Passed(r)' = Shown(r) + 1
      <4>1. Passed(r) = Shown(r) + Count(w, r) /\ Passed(r)' = Shown(r)' + Count(writeCh'[c], r)
        BY <1>1, <2>3 DEF Passed
      <4> QED
        BY <2>3, <2>8, <3>2, <3>3, <4>1
    <3>7. ASSUME sock[c].up
          PROVE  /\ Lined(Append(w, f), r, Shown(r)) /\ Lined(Tail(h), r, Shown(r) + 1)
                 /\ ~Ended(seen[c], r) /\ ~Ended(sock[c].out, r)
                 /\ Ended(Append(w, f), r) => Count(Tail(h), r) = 0 /\ ~Live(r)
                 /\ Ended(Tail(h), r) => ~Live(r)
      <4>1. /\ ~Ended(seen[c], r) /\ ~Ended(sock[c].out, r) /\ ~Ended(w, r) /\ Lined(h, r, Shown(r))
            /\ Lined(w, r, Shown(r)) /\ (Ended(h, r) => ~Live(r))
        BY <1>1, <2>8, <3>1, <3>6, <3>7 DEF Lines
      <4>2. One(f, r) = 1
        BY <2>5 DEF One
      <4>3. /\ Lined(Tail(h), r, Shown(r) + 1) /\ Fits(f, Shown(r) + 1)
            /\ Terminal(f) => Count(Tail(h), r) = 0
            /\ Ended(h, r) <=> Ended(Tail(h), r) \/ Terminal(f)
        BY <1>1, <2>1, <2>2, <2>5, <3>2, <4>1, <4>2, LineTail
      <4>4. Shown(r) + (Count(w, r) + 1) = Shown(r) + 1
        BY <2>8, <3>2
      <4>5. Lined(Append(w, f), r, Shown(r)) /\ (Ended(Append(w, f), r) <=> Terminal(f))
        BY <2>1, <2>2, <2>5, <4>1, <4>3, <4>4, LineAppend
      <4> QED
        BY <4>1, <4>3, <4>5
    <3>8. Lines(r)'
      <4>1. ASSUME sock[c].up, NEW g \in Gens, g = att[c]
            PROVE  /\ Lined(agent[g].out, r, Passed(r)' + Count(Tail(h), r))
                   /\ agent[g].up /\ (Held(r) \/ Asked(r) \/ work[r].open) =>
                         Passed(r)' + Count(Tail(h), r) + Count(agent[g].out, r) = work[r].outs
        <5>1. Passed(r)' + Count(Tail(h), r) = Passed(r) + Count(h, r)
          BY <2>8, <3>2, <3>6
        <5>2. /\ Lined(agent[g].out, r, Passed(r) + Count(h, r))
              /\ agent[g].up /\ (Held(r) \/ Asked(r) \/ work[r].open) =>
                    Passed(r) + Count(h, r) + Count(agent[g].out, r) = work[r].outs
          BY <3>1, <4>1 DEF Lines
        <5> QED
          BY <5>1, <5>2
      <4>2. Lined(seen[c], r, 0) /\ (sock[c].up => Lined(sock[c].out, r, Read(r)))
        BY <3>1 DEF Lines
      <4>3. ASSUME sock[c].up, NEW g \in Gens, g = att[c]
            PROVE  /\ Ended(agent[g].out, r) => ~work[r].open
                   /\ hc[g].from = "read" /\ (Held(r) \/ Asked(r) \/ work[r].open \/ Count(agent[g].out, r) # 0) =>
                        r \in hc[g].routes
        BY <3>1, <4>3 DEF Lines
      <4> QED
        BY <1>1, <2>3, <3>3, <3>6, <3>7, <4>1, <4>2, <4>3 DEF Lines
    <3> QED
      BY <3>5, <3>8
  <2>10. Places'
    <3>1. ASSUME NEW d \in Clients, NEW q \in Reqs, Owner[q] # d PROVE Count(writeCh'[d], q) = 0
      <4>1. Count(writeCh[d], q) = 0
        BY <3>1 DEF OrderInv, Places
      <4>2. CASE d = c
        <5>1. One(f, q) = 0 /\ Count(w, q) = 0
          BY <2>5, <3>1, <4>1, <4>2 DEF One
        <5>2. Count(Append(w, f), q) = 0
          BY <2>4, <5>1
        <5> QED
          BY <2>3, <4>2, <5>2
      <4> QED
        BY <2>3, <4>1, <4>2
    <3>2. ASSUME NEW p \in Reqs, NEW q \in Reqs, q # p PROVE Count(ch'[p], q) = 0
      <4>1. Count(ch[p], q) = 0
        BY <3>2 DEF OrderInv, Places
      <4>2. CASE p = r
        <5>1. One(f, q) = 0 /\ Count(h, q) = 0
          BY <2>5, <3>2, <4>1, <4>2 DEF One
        <5>2. Count(Tail(h), q) = 0
          BY <2>4, <5>1
        <5> QED
          BY <2>3, <4>2, <5>2
      <4> QED
        BY <2>3, <4>1, <4>2
    <3> QED
      BY <1>1, <3>1, <3>2 DEF OrderInv, Places
  <2>11. Lost'
    BY <1>1 DEF OrderInv, Lost
  <2>12. Writers'
    <3>1. \A q \in Reqs : q # r => Count(writeCh'[Owner[q]], q) = Count(writeCh[Owner[q]], q) /\ fwd'[q] = fwd[q]
      <4> SUFFICES ASSUME NEW q \in Reqs, q # r PROVE Count(writeCh'[Owner[q]], q) = Count(writeCh[Owner[q]], q)
        BY <2>3
      <4>1. One(f, q) = 0
        BY <2>5 DEF One
      <4>2. Count(Append(w, f), q) = Count(w, q)
        BY <2>4, <4>1
      <4> QED
        BY <2>3, <4>2, Constants
    <3>2. ASSUME NEW q \in Reqs, Count(writeCh'[Owner[q]], q) # 0
          PROVE  fwd'[q] = "ack" \/ (fwd'[q] = "none" /\ bridge'[Owner[q]] = "ack")
      <4>1. CASE q = r
        BY <2>3, <4>1
      <4>2. CASE q # r
        BY <1>1, <3>1, <3>2, <4>2 DEF OrderInv, Writers
      <4> QED
        BY <4>1, <4>2
    <3>3. \A q \in Reqs : Count(writeCh'[Owner[q]], q) <= 1
      <4> SUFFICES ASSUME NEW q \in Reqs PROVE Count(writeCh'[Owner[q]], q) <= 1
        OBVIOUS
      <4>1. CASE q = r
        <5>1. Count(Append(w, f), r) <= 1
          BY <2>8
        <5> QED
          BY <2>3, <4>1, <5>1
      <4>2. CASE q # r
        BY <3>1, <4>2 DEF OrderInv, Writers
      <4> QED
        BY <4>1, <4>2
    <3>4. ASSUME NEW p \in Reqs, NEW q \in Reqs, Owner[p] = Owner[q], fwd'[p] = "none", fwd'[q] = "none",
                 Count(writeCh'[Owner[p]], p) # 0, Count(writeCh'[Owner[q]], q) # 0
          PROVE  p = q
      <4>1. p # r /\ q # r
        BY <2>3, <3>4
      <4>2. /\ fwd[p] = "none" /\ fwd[q] = "none"
            /\ Count(writeCh[Owner[p]], p) # 0 /\ Count(writeCh[Owner[q]], q) # 0
        BY <3>1, <3>4, <4>1
      <4> QED
        BY <3>4, <4>2 DEF OrderInv, Writers
    <3> QED
      BY <3>2, <3>3, <3>4 DEF Writers
  <2> QED
    BY <2>7, <2>9, <2>10, <2>11, <2>12 DEF OrderInv
<1> QED
  BY <1>1, <1>2, <1>3

\* A Request in the hand of the bridge is one that nothing has been done for.
LEMMA Registers == ASSUME ConnInv, OrderInv, NEW c \in Clients, BridgeRegister(c) PROVE OrderInv'
<1> DEFINE s == sock[c].in
           f == Head(s)
           g == att[c]
<1>1. /\ UNCHANGED <<pool, agent, work, att, sock, sent, seen, writeCh, ch, fwd>>
      /\ bridge[c] = "read" /\ s # <<>> /\ f.kind = "request" /\ bridge' = [bridge EXCEPT ![c] = "send"]
      /\ hc' = [hc EXCEPT ![g].routes = hc[g].routes \cup {f.r}]
  BY DEF BridgeRegister, clientVars, agentVars
<1>2. s \in Seq(Ask) /\ f \in Ask /\ f = Head(s) /\ f.r \in Reqs
  BY <1>1, Kept, SocketStep, InHand
<1> HIDE DEF f
<1>3. g \in Gens
  BY <1>1, Kept DEF OrderInv, Lost, ConnTypes, Gens
<1>4. \A q \in Reqs : Has(s, q, Request) <=> Has(Tail(s), q, Request) \/ f.r = q
  BY <1>1, <1>2, HasTail DEF Request
<1>5. Owner[f.r] = c
  BY <1>2, <1>4 DEF OrderInv, Places
<1>6. /\ \A h \in Gens : /\ hc'[h].from = hc[h].from /\ hc'[h].failing = hc[h].failing
                         /\ hc'[h].clientIn = hc[h].clientIn
                         /\ h # g => hc'[h].routes = hc[h].routes
      /\ hc'[g].routes = hc[g].routes \cup {f.r}
  BY <1>1, <1>3, Kept, ZenonT(60) DEF ConnTypes, Conn
<1>7. bridge'[c] = "send" /\ \A d \in Clients : d # c => bridge'[d] = bridge[d]
  BY <1>1, Kept DEF PhaseTypes
<1>8. ASSUME NEW q \in Reqs, q # f.r PROVE Ticket(q)' /\ Lines(q)'
  <2>1. Held(q)' <=> Held(q)
    BY <1>1, <1>7, <1>8, Constants DEF Held, f
  <2>2. UnmovedAsks(q)
    BY <1>1, <1>6, <1>8, <2>1, SameFacts DEF UnmovedAsks
  <2>3. UnmovedLines(q)
    BY <1>1, SameFacts DEF UnmovedLines
  <2> QED
    BY <2>2, <2>3, Unmoved DEF OrderInv
<1>9. ASSUME NEW r \in Reqs, r = f.r PROVE Ticket(r)' /\ Lines(r)'
  <2>1. Ticket(r) /\ Lines(r) /\ Owner[r] = c
    BY <1>5, <1>9 DEF OrderInv
  <2>2. Waiting(r) /\ Early(r) /\ ~Held(r) /\ Held(r)'
    BY <1>1, <1>4, <1>7, <1>9, <2>1 DEF Waiting, Early, Held, f
  <2>3. UNCHANGED <<Waiting(r), Early(r), Asked(r), Idle(r), Read(r), Shown(r), Passed(r)>>
    BY <1>1, <1>6 DEF Waiting, Early, Asked, Idle, Read, Shown, Passed
  <2>4. fwd[r] = "none" /\ Idle(r) /\ ~Asked(r) /\ Count(ch[r], r) = 0 /\ Passed(r) = 0
    BY <2>1, <2>2 DEF Ticket, Passed
  <2>5. \A h \in Gens : r \in hc'[h].routes \cup hc'[h].failing => h = att[c]
    BY <1>6, <2>1 DEF Ticket
  <2>6. Ticket(r)'
    BY <1>1, <1>6, <1>9, <2>1, <2>2, <2>3, <2>4, <2>5 DEF Ticket, Waiting
  <2>7. ~Ended(ch[r], r)
    BY <2>4, Counts, LineNone
  <2>8. Count(agent[g].out, r) = 0 /\ work[r].outs = 0 /\ ~work[r].open
    BY <1>3, <2>4 DEF Idle
  <2>9. Lines(r)'
    <3>1. r \in hc'[g].routes
      BY <1>6, <1>9
    <3> QED
      BY <1>1, <2>1, <2>2, <2>3, <2>4, <2>7, <2>8, <3>1 DEF Lines
  <2> QED
    BY <2>6, <2>9
<1>10. Places'
  BY <1>1 DEF OrderInv, Places
<1>11. Lost'
  BY <1>1, <1>3, <1>6, <1>7 DEF OrderInv, Lost, Gens
<1>12. Writers'
  BY <1>1, <1>7, Constants DEF OrderInv, Writers
<1> QED
  BY <1>8, <1>9, <1>10, <1>11, <1>12 DEF OrderInv

\* The bridge takes a frame from its socket.
LEMMA Handed ==
    ASSUME ConnInv, OrderInv, NEW c \in Clients, bridge[c] \in {"read", "send"}, sock[c].in # <<>>,
           sock' = [sock EXCEPT ![c].in = Tail(sock[c].in)]
    PROVE  LET f == Head(sock[c].in) IN
           /\ f \in Ask /\ f.r \in Reqs /\ att[c] \in Gens
           /\ \A d \in Clients : sock'[d].up = sock[d].up /\ sock'[d].out = sock[d].out
           /\ \A q \in Reqs : q # f.r \/ f.kind # "request" => SameAsks(sock[Owner[q]].in, sock'[Owner[q]].in, q)
           /\ \A d \in Clients, q \in Reqs : Owner[q] # d => ~Has(sock'[d].in, q, Request)
           /\ bridge[c] = "send" =>
                /\ f.kind = "request" /\ Owner[f.r] = c /\ sent[f.r] # 0
                /\ Has(sock[c].in, f.r, Request) /\ ~Has(sock'[c].in, f.r, Request)
                /\ Single(sock'[c].in, f.r, Request)
<1> DEFINE s == sock[c].in
           f == Head(s)
<1>1. s \in Seq(Ask) /\ f \in Ask /\ f.r \in Reqs /\ s # <<>> /\ f = Head(s)
  BY Kept, SocketStep, InHand
<1> HIDE DEF f
<1>2. att[c] \in Gens
  BY Kept DEF OrderInv, Lost, ConnTypes, Gens
<1>3. /\ sock'[c].in = Tail(s)
      /\ \A d \in Clients : sock'[d].up = sock[d].up /\ sock'[d].out = sock[d].out
                            /\ (d # c => sock'[d].in = sock[d].in)
  BY Kept DEF SockTypes, Socket
<1>4. \A q \in Reqs :
        /\ Has(s, q, Request) <=> Has(Tail(s), q, Request) \/ (f.r = q /\ f.kind = "request")
        /\ Single(s, q, Request) => Single(Tail(s), q, Request)
        /\ Single(s, q, Request) /\ f.r = q /\ f.kind = "request" => ~Has(Tail(s), q, Request)
  BY <1>1, HasTail DEF Request
<1>5. ASSUME NEW q \in Reqs, q # f.r \/ f.kind # "request" PROVE SameAsks(sock[Owner[q]].in, sock'[Owner[q]].in, q)
  BY <1>3, <1>4, <1>5, Constants DEF SameAsks
<1>6. \A d \in Clients, q \in Reqs : Owner[q] # d => ~Has(sock'[d].in, q, Request)
  BY <1>3, <1>4 DEF OrderInv, Places
<1>7. ASSUME bridge[c] = "send"
      PROVE  /\ f.kind = "request" /\ Owner[f.r] = c /\ sent[f.r] # 0
             /\ Has(s, f.r, Request) /\ ~Has(sock'[c].in, f.r, Request) /\ Single(sock'[c].in, f.r, Request)
  <2>1. f.kind = "request"
    BY <1>1, <1>7, Kept DEF Bounded
  <2>2. Has(s, f.r, Request) /\ Owner[f.r] = c
    BY <1>1, <1>4, <2>1 DEF OrderInv, Places
  <2>3. Single(s, f.r, Request) /\ sent[f.r] # 0
    BY <1>1, <2>2 DEF OrderInv, Ticket, Waiting
  <2> QED
    BY <1>1, <1>3, <1>4, <2>1, <2>2, <2>3
<1> QED
  BY <1>1, <1>2, <1>3, <1>5, <1>6, <1>7 DEF f

LEMMA BridgeSendOrder == ASSUME ConnInv, OrderInv, NEW c \in Clients, BridgeSend(c) PROVE OrderInv'
<1> DEFINE f == Head(sock[c].in)
           g == att[c]
           s == hc[g].clientIn
<1>1. /\ UNCHANGED <<pool, agent, work, att, sent, seen, writeCh, ch>>
      /\ bridge[c] = "send" /\ bridge' = [bridge EXCEPT ![c] = "read"]
      /\ hc' = [hc EXCEPT ![g].clientIn = Append(s, f)]
      /\ fwd' = [fwd EXCEPT ![f.r] = "wait"]
      /\ sock' = [sock EXCEPT ![c].in = Tail(sock[c].in)]
  BY DEF BridgeSend, agentVars
<1>2. sock[c].in # <<>> /\ f = Head(sock[c].in)
  BY <1>1, Kept DEF Bounded
<1>3. /\ f \in Ask /\ f.r \in Reqs /\ g \in Gens
      /\ \A d \in Clients : sock'[d].up = sock[d].up /\ sock'[d].out = sock[d].out
      /\ \A q \in Reqs : q # f.r => SameAsks(sock[Owner[q]].in, sock'[Owner[q]].in, q)
      /\ \A d \in Clients, q \in Reqs : Owner[q] # d => ~Has(sock'[d].in, q, Request)
      /\ f.kind = "request" /\ Owner[f.r] = c /\ sent[f.r] # 0
      /\ Has(sock[c].in, f.r, Request) /\ ~Has(sock'[c].in, f.r, Request)
      /\ Single(sock'[c].in, f.r, Request)
  BY <1>1, <1>2, Handed
<1> HIDE DEF f
<1>4. /\ \A h \in Gens : /\ hc'[h].from = hc[h].from /\ hc'[h].routes = hc[h].routes
                         /\ hc'[h].failing = hc[h].failing
                         /\ h # g => hc'[h].clientIn = hc[h].clientIn
      /\ hc'[g].clientIn = Append(s, f)
  BY <1>1, <1>3, Kept, ZenonT(60) DEF ConnTypes, Conn
<1>5. /\ \A d \in Clients : d # c => bridge'[d] = bridge[d]
      /\ bridge'[c] = "read"
      /\ \A q \in Reqs : fwd'[q] = IF q = f.r THEN "wait" ELSE fwd[q]
  BY <1>1, Kept DEF PhaseTypes
<1>6. s \in Seq(Ask)
  BY <1>3, Kept, ConnStep
<1>7. ASSUME NEW q \in Reqs, q # f.r PROVE Ticket(q)' /\ Lines(q)'
  <2>1. CASE Owner[q] = c
    <3>1. ~Held(q) /\ ~Held(q)'
      BY <1>2, <1>5, <1>7, <2>1 DEF Held
    <3>2. \A h \in Gens : SameAsks(hc[h].clientIn, hc'[h].clientIn, q)
      BY <1>3, <1>4, <1>6, <1>7, SameFacts
    <3>3. UnmovedAsks(q)
      BY <1>1, <1>3, <1>4, <1>5, <1>7, <3>1, <3>2 DEF UnmovedAsks
    <3>4. UnmovedLines(q)
      BY <1>1, <1>3, SameFacts, Constants DEF UnmovedLines
    <3> QED
      BY <3>3, <3>4, Unmoved DEF OrderInv
  <2>2. CASE Owner[q] # c
    <3>1. Held(q)' <=> Held(q)
      <4>1. sock'[Owner[q]].in = sock[Owner[q]].in
        BY <1>1, <2>2, Constants, Kept DEF SockTypes
      <4> QED
        BY <1>5, <2>2, <4>1, Constants DEF Held
    <3>2. \A h \in Gens : SameAsks(hc[h].clientIn, hc'[h].clientIn, q)
      BY <1>3, <1>4, <1>6, <1>7, SameFacts
    <3>3. UnmovedAsks(q)
      BY <1>1, <1>3, <1>4, <1>5, <1>7, <3>1, <3>2 DEF UnmovedAsks
    <3>4. UnmovedLines(q)
      BY <1>1, <1>3, SameFacts, Constants DEF UnmovedLines
    <3> QED
      BY <3>3, <3>4, Unmoved DEF OrderInv
  <2> QED
    BY <2>1, <2>2
<1>8. ASSUME NEW r \in Reqs, r = f.r PROVE Ticket(r)' /\ Lines(r)'
  <2>1. Ticket(r) /\ Lines(r) /\ Owner[r] = c
    BY <1>3, <1>8 DEF OrderInv
  <2>2. Waiting(r) /\ Early(r) /\ Held(r) /\ ~Waiting(r)' /\ ~Early(r)' /\ ~Held(r)'
    BY <1>1, <1>2, <1>3, <1>5, <1>8, <2>1 DEF Waiting, Early, Held
  <2>3. /\ fwd[r] = "none" /\ Idle(r) /\ ~Asked(r) /\ Count(writeCh[c], r) = 0
        /\ Count(sock[c].out, r) = 0 /\ Count(seen[c], r) = 0
    BY <2>1, <2>2 DEF Ticket
  <2>4. UNCHANGED <<Idle(r), Read(r), Shown(r), Live(r)>>
    BY <1>1, <1>3, <1>4, <2>1 DEF Idle, Read, Shown, Live
  <2>5. Passed(r) = 0 /\ Passed(r)' = 0
    BY <1>1, <1>3, <1>5, <1>8, <2>1, <2>3 DEF Passed, Shown, Read
  <2>6. \A h \in Gens : ~Has(hc[h].clientIn, r, Request)
    BY <2>3 DEF Asked
  <2>7. /\ Has(Append(s, f), r, Request) /\ Single(Append(s, f), r, Request)
    BY <1>3, <1>6, <1>8, <2>1, <2>6, HasAppend DEF Ticket, Request
  <2>8. Asked(r)' /\ \A h \in Gens : /\ Single(hc'[h].clientIn, r, Request)
                                     /\ Has(hc'[h].clientIn, r, Request) => h = g
    BY <1>3, <1>4, <2>1, <2>6, <2>7, ZenonT(60) DEF Asked, Ticket
  <2>9. \A h \in Gens : Count(agent[h].out, r) # 0 \/ r \in hc[h].routes \cup hc[h].failing
                        \/ (work[r].open /\ work[r].gen = h) => h = g
    BY <2>1 DEF Ticket
  <2>10. Ticket(r)'
    <3>1. /\ sent'[r] # 0 /\ Single(sock'[c].in, r, Request) /\ fwd'[r] = "wait"
          /\ UNCHANGED <<work, agent, att>>
      BY <1>1, <1>3, <1>5, <1>8
    <3>2. \A h \in Gens : hc'[h].routes = hc[h].routes /\ hc'[h].failing = hc[h].failing
      BY <1>4
    <3> QED
      BY <2>1, <2>2, <2>3, <2>4, <2>8, <2>9, <3>1, <3>2 DEF Ticket
  <2>11. ~Ended(seen[c], r) /\ ~Ended(sock[c].out, r) /\ ~Ended(writeCh[c], r)
    BY <2>1, <2>3, Counts, LineNone
  <2>12. Lines(r)'
    BY <1>1, <1>3, <1>4, <2>1, <2>2, <2>3, <2>4, <2>5, <2>8, <2>11 DEF Lines
  <2> QED
    BY <2>10, <2>12
<1>9. Places'
  BY <1>1, <1>3 DEF OrderInv, Places
<1>10. Lost'
  BY <1>1, <1>4, <1>5 DEF OrderInv, Lost
<1>11. Writers'
  <2>1. \A q \in Reqs : Count(writeCh[Owner[q]], q) # 0 => q # f.r /\ (Owner[q] = c => fwd[q] = "ack")
    BY <1>1, <1>2, <1>3 DEF OrderInv, Writers, Ticket, Early, Waiting
  <2> QED
    BY <1>1, <1>5, <2>1, Constants DEF OrderInv, Writers
<1> QED
  BY <1>7, <1>8, <1>9, <1>10, <1>11 DEF OrderInv

LEMMA BridgeRefuseOrder == ASSUME ConnInv, OrderInv, NEW c \in Clients, BridgeRefuse(c) PROVE OrderInv'
<1> DEFINE f == Head(sock[c].in)
           w == writeCh[c]
           e == Frame(f.r, "error", 0)
<1>1. /\ UNCHANGED <<pool, hc, agent, work, att, sent, seen, ch, fwd>>
      /\ bridge[c] = "send" /\ bridge' = [bridge EXCEPT ![c] = "ack"]
      /\ writeCh' = [writeCh EXCEPT ![c] = Append(w, e)]
      /\ sock' = [sock EXCEPT ![c].in = Tail(sock[c].in)]
  BY DEF BridgeRefuse, connVars, agentVars
<1>2. sock[c].in # <<>> /\ f = Head(sock[c].in)
  BY <1>1, Kept DEF Bounded
<1>3. /\ f \in Ask /\ f.r \in Reqs /\ att[c] \in Gens
      /\ \A d \in Clients : sock'[d].up = sock[d].up /\ sock'[d].out = sock[d].out
      /\ \A q \in Reqs : q # f.r => SameAsks(sock[Owner[q]].in, sock'[Owner[q]].in, q)
      /\ \A d \in Clients, q \in Reqs : Owner[q] # d => ~Has(sock'[d].in, q, Request)
      /\ f.kind = "request" /\ Owner[f.r] = c /\ sent[f.r] # 0
      /\ Has(sock[c].in, f.r, Request) /\ ~Has(sock'[c].in, f.r, Request)
      /\ Single(sock'[c].in, f.r, Request)
  BY <1>1, <1>2, Handed
<1> HIDE DEF f
<1>4. e \in Reply /\ e.r = f.r /\ \A k : Fits(e, k)
  BY <1>3, Frames DEF ConnInv, Frame, Fits
<1> HIDE DEF e
<1>5. w \in Seq(Reply)
  BY Kept DEF ChannelTypes
<1>6. /\ \A d \in Clients : d # c => bridge'[d] = bridge[d] /\ writeCh'[d] = writeCh[d]
      /\ bridge'[c] = "ack" /\ writeCh'[c] = Append(w, e)
  BY <1>1, Kept DEF PhaseTypes, ChannelTypes
<1>7. ASSUME NEW q \in Reqs PROVE Count(Append(w, e), q) = Count(w, q) + One(e, q) /\ Count(w, q) \in Nat
  BY <1>4, <1>5, LineAppend
<1>8. ASSUME NEW q \in Reqs, q # f.r PROVE Ticket(q)' /\ Lines(q)'
  <2>1. Held(q)' <=> Held(q)
    <3>1. CASE Owner[q] = c
      BY <1>2, <1>6, <1>8, <3>1 DEF Held
    <3>2. CASE Owner[q] # c
      <4>1. sock'[Owner[q]].in = sock[Owner[q]].in
        BY <1>1, <3>2, Constants, Kept DEF SockTypes
      <4> QED
        BY <1>6, <3>2, <4>1, Constants DEF Held
    <3> QED
      BY <3>1, <3>2
  <2>2. UnmovedAsks(q)
    BY <1>1, <1>3, <1>8, <2>1, SameFacts DEF UnmovedAsks
  <2>3. Same(writeCh[Owner[q]], writeCh'[Owner[q]], q)
    <3>1. Same(w, Append(w, e), q)
      BY <1>4, <1>5, <1>8, SameFacts
    <3> QED
      BY <1>6, <3>1, SameFacts, Constants
  <2>4. UnmovedLines(q)
    BY <1>1, <1>3, <2>3, SameFacts, Constants DEF UnmovedLines
  <2> QED
    BY <2>2, <2>4, Unmoved DEF OrderInv
<1>9. ASSUME NEW r \in Reqs, r = f.r PROVE Ticket(r)' /\ Lines(r)' /\ Count(w, r) = 0 /\ fwd[r] = "none"
  <2>1. Ticket(r) /\ Lines(r) /\ Owner[r] = c
    BY <1>3, <1>9 DEF OrderInv
  <2>2. Waiting(r) /\ Early(r) /\ Held(r) /\ ~Waiting(r)' /\ ~Early(r)' /\ ~Held(r)'
    BY <1>1, <1>2, <1>3, <1>6, <1>9, <2>1 DEF Waiting, Early, Held
  <2>3. /\ fwd[r] = "none" /\ Idle(r) /\ ~Asked(r) /\ Count(w, r) = 0
        /\ Count(sock[c].out, r) = 0 /\ Count(seen[c], r) = 0
    BY <2>1, <2>2 DEF Ticket
  <2>4. UNCHANGED <<Asked(r), Idle(r), Read(r), Shown(r), Live(r)>>
    BY <1>1, <1>3, <2>1 DEF Asked, Idle, Read, Shown, Live
  <2>5. Passed(r) = 0 /\ Passed(r)' = 0
    BY <1>1, <2>3 DEF Passed
  <2>6. Ticket(r)'
    BY <1>1, <1>3, <1>9, <2>1, <2>2, <2>3, <2>4 DEF Ticket, Waiting
  <2>7. ~Ended(seen[c], r) /\ ~Ended(sock[c].out, r) /\ ~Ended(w, r)
    BY <2>1, <2>3, Counts, LineNone
  <2>8. sock[c].up => Lined(Append(w, e), r, Shown(r))
    BY <1>4, <1>5, <2>1, <2>7, LineAppend DEF Lines
  <2>9. ~work[r].open /\ \A h \in Gens : Count(agent[h].out, r) = 0
    BY <2>3 DEF Idle
  <2>10. Lines(r)'
    BY <1>1, <1>3, <1>6, <2>1, <2>2, <2>3, <2>4, <2>5, <2>7, <2>8, <2>9 DEF Lines
  <2> QED
    BY <2>3, <2>6, <2>10
<1>10. ASSUME NEW d \in Clients, NEW q \in Reqs, q # f.r \/ d # c PROVE Count(writeCh'[d], q) = Count(writeCh[d], q)
  <2>1. CASE d # c
    BY <1>6, <2>1
  <2>2. CASE d = c
    <3>1. One(e, q) = 0
      BY <1>4, <1>10, <2>2 DEF One
    <3>2. Count(Append(w, e), q) = Count(w, q)
      BY <1>7, <3>1
    <3> QED
      BY <1>6, <2>2, <3>2
  <2> QED
    BY <2>1, <2>2
<1>11. Places'
  <2>1. \A d \in Clients, q \in Reqs : Owner[q] # d => Count(writeCh'[d], q) = 0
    BY <1>3, <1>10 DEF OrderInv, Places
  <2> QED
    BY <1>1, <1>3, <2>1 DEF OrderInv, Places
<1>12. Lost'
  BY <1>1, <1>3, <1>6 DEF OrderInv, Lost, Gens
<1>13. Writers'
  <2>1. Count(writeCh'[c], f.r) = 1 /\ fwd[f.r] = "none"
    BY <1>3, <1>4, <1>6, <1>7, <1>9 DEF One
  <2>2. ASSUME NEW q \in Reqs, q # f.r
        PROVE  /\ Count(writeCh'[Owner[q]], q) = Count(writeCh[Owner[q]], q)
               /\ Owner[q] = c /\ Count(writeCh[Owner[q]], q) # 0 => fwd[q] = "ack"
    BY <1>1, <1>10, <2>2, Constants DEF OrderInv, Writers
  <2>3. ASSUME NEW q \in Reqs
        PROVE  /\ Count(writeCh'[Owner[q]], q) <= 1
               /\ Count(writeCh'[Owner[q]], q) # 0 => fwd[q] = "ack" \/ (fwd[q] = "none" /\ bridge'[Owner[q]] = "ack")
    <3>1. CASE q = f.r
      <4>1. Owner[q] = c /\ Count(writeCh'[c], q) = 1 /\ fwd[q] = "none" /\ bridge'[c] = "ack"
        BY <1>3, <1>6, <2>1, <3>1
      <4> QED
        BY <4>1
    <3>2. CASE q # f.r
      BY <1>6, <2>2, <3>2, Constants DEF OrderInv, Writers
    <3> QED
      BY <3>1, <3>2
  <2>4. ASSUME NEW p \in Reqs, NEW q \in Reqs, Owner[p] = Owner[q], fwd[p] = "none", fwd[q] = "none",
               Count(writeCh'[Owner[p]], p) # 0, Count(writeCh'[Owner[q]], q) # 0
        PROVE  p = q
    <3>1. CASE p = f.r \/ q = f.r
      BY <1>3, <2>2, <2>4, <3>1
    <3>2. CASE p # f.r /\ q # f.r
      BY <2>2, <2>4, <3>2 DEF OrderInv, Writers
    <3> QED
      BY <3>1, <3>2
  <2> QED
    BY <1>1, <2>3, <2>4 DEF Writers
<1> QED
  BY <1>8, <1>9, <1>11, <1>12, <1>13 DEF OrderInv

LEMMA BridgeForwardOrder == ASSUME ConnInv, OrderInv, NEW c \in Clients, BridgeForward(c) PROVE OrderInv'
<1> DEFINE f == Head(sock[c].in)
           g == att[c]
           s == hc[g].clientIn
<1>1. /\ UNCHANGED <<pool, agent, work, att, sent, seen, bridge, writeCh, ch, fwd>>
      /\ bridge[c] = "read" /\ f.kind = "chunk" /\ sock[c].in # <<>> /\ f = Head(sock[c].in)
      /\ hc' = [hc EXCEPT ![g].clientIn = Append(s, f)] \/ hc' = hc
      /\ sock' = [sock EXCEPT ![c].in = Tail(sock[c].in)]
  BY DEF BridgeForward, agentVars, bridgeVars
<1>2. /\ f \in Ask /\ g \in Gens
      /\ \A d \in Clients : sock'[d].up = sock[d].up /\ sock'[d].out = sock[d].out
      /\ \A q \in Reqs : SameAsks(sock[Owner[q]].in, sock'[Owner[q]].in, q)
      /\ \A d \in Clients, q \in Reqs : Owner[q] # d => ~Has(sock'[d].in, q, Request)
  BY <1>1, Handed
<1> HIDE DEF f
<1>3. \A h \in Gens : /\ hc'[h].from = hc[h].from /\ hc'[h].routes = hc[h].routes /\ hc'[h].failing = hc[h].failing
                      /\ hc'[h].clientIn = hc[h].clientIn \/ (h = g /\ hc'[h].clientIn = Append(s, f))
  <2>1. CASE hc' = hc
    BY <2>1
  <2>2. CASE hc' = [hc EXCEPT ![g].clientIn = Append(s, f)]
    BY <1>2, <2>2, Kept, ZenonT(60) DEF ConnTypes, Conn
  <2> QED
    BY <1>1, <2>1, <2>2
<1>4. ASSUME NEW q \in Reqs PROVE UnmovedAsks(q) /\ UnmovedLines(q)
  <2>1. Held(q)' <=> Held(q)
    <3>1. CASE Owner[q] = c
      BY <1>1, <3>1 DEF Held
    <3>2. CASE Owner[q] # c
      <4>1. sock'[Owner[q]].in = sock[Owner[q]].in
        BY <1>1, <3>2, Constants, Kept DEF SockTypes
      <4> QED
        BY <1>1, <4>1 DEF Held
    <3> QED
      BY <3>1, <3>2
  <2>2. \A h \in Gens : SameAsks(hc[h].clientIn, hc'[h].clientIn, q)
    <3>1. s \in Seq(Ask)
      BY <1>2, Kept, ConnStep
    <3>2. SameAsks(s, Append(s, f), q)
      BY <1>1, <1>2, <3>1, SameFacts
    <3> QED
      BY <1>3, <3>2, SameFacts
  <2>3. UnmovedAsks(q)
    BY <1>1, <1>2, <1>3, <2>1, <2>2 DEF UnmovedAsks
  <2>4. UnmovedLines(q)
    BY <1>1, <1>2, SameFacts, Constants DEF UnmovedLines
  <2> QED
    BY <2>3, <2>4
<1>5. Places' /\ Lost' /\ Writers'
  BY <1>1, <1>2, <1>3 DEF OrderInv, Places, Lost, Writers
<1> QED
  BY <1>4, <1>5, AllUnmoved

LEMMA PumpToAgentOrder == ASSUME ConnInv, OrderInv, NEW g \in Gens, PumpToAgent(g) PROVE OrderInv'
<1> DEFINE s == hc[g].clientIn
           f == Head(s)
<1>1. /\ UNCHANGED <<pool, agent, att, sock, sent, seen, bridge, writeCh, ch, fwd>> /\ s # <<>>
      /\ hc' = [hc EXCEPT ![g].clientIn = Tail(s), ![g].to = IF agent[g].up THEN "up" ELSE "down"]
      /\ work' = IF ~agent[g].up THEN work
                 ELSE IF f.kind = "request" THEN [work EXCEPT ![f.r].gen = g, ![f.r].open = TRUE]
                 ELSE [work EXCEPT ![f.r].chunks = Append(@, f.n)]
  BY DEF PumpToAgent, clientVars, bridgeVars
<1>2. s \in Seq(Ask) /\ f \in Ask /\ f = Head(s) /\ s # <<>>
  BY <1>1, Kept, ConnStep, HeadTail
<1>3. f.r \in Reqs
  BY <1>2 DEF Ask
<1> HIDE DEF f
<1>4. /\ \A h \in Gens : /\ hc'[h].from = hc[h].from /\ hc'[h].routes = hc[h].routes
                         /\ hc'[h].failing = hc[h].failing
                         /\ h # g => hc'[h].clientIn = hc[h].clientIn
      /\ hc'[g].clientIn = Tail(s)
  BY <1>1, Kept, ZenonT(60) DEF ConnTypes, Conn
<1>5. /\ \A q \in Reqs : /\ work'[q].outs = work[q].outs
                         /\ q # f.r \/ f.kind # "request" \/ ~agent[g].up =>
                              work'[q].open = work[q].open /\ work'[q].gen = work[q].gen
      /\ f.kind = "request" /\ agent[g].up => work'[f.r].open /\ work'[f.r].gen = g
  <2>1. work \in [Reqs -> [gen : Nat, outs : Nat, chunks : Seq(Nat), open : BOOLEAN]]
    BY Kept DEF AgentTypes
  <2>2. CASE ~agent[g].up
    BY <1>1, <2>2
  <2>3. CASE agent[g].up /\ f.kind = "request"
    BY <1>1, <1>3, <2>1, <2>3
  <2>4. CASE agent[g].up /\ f.kind # "request"
    <3>1. work' = [work EXCEPT ![f.r].chunks = Append(work[f.r].chunks, f.n)]
      BY <1>1, <2>4
    <3> QED
      BY <1>3, <2>1, <2>4, <3>1
  <2> QED
    BY <2>2, <2>3, <2>4
<1>6. \A q \in Reqs :
        /\ Has(s, q, Request) <=> Has(Tail(s), q, Request) \/ (f.r = q /\ f.kind = "request")
        /\ Single(s, q, Request) /\ f.r = q /\ f.kind = "request" => ~Has(Tail(s), q, Request)
        /\ Single(s, q, Request) => Single(Tail(s), q, Request)
  BY <1>2, HasTail DEF Request
<1>7. ASSUME NEW q \in Reqs, q # f.r \/ f.kind # "request" PROVE Ticket(q)' /\ Lines(q)'
  <2>1. \A h \in Gens : SameAsks(hc[h].clientIn, hc'[h].clientIn, q)
    BY <1>1, <1>2, <1>4, <1>7, SameFacts
  <2>2. UnmovedAsks(q)
    BY <1>1, <1>4, <1>5, <1>7, <2>1, SameFacts DEF UnmovedAsks, Held
  <2>3. UnmovedLines(q)
    BY <1>1, SameFacts DEF UnmovedLines
  <2> QED
    BY <2>2, <2>3, Unmoved DEF OrderInv
<1>8. ASSUME NEW r \in Reqs, r = f.r, f.kind = "request" PROVE Ticket(r)' /\ Lines(r)'
  <2> DEFINE c == Owner[r]
  <2>1. Ticket(r) /\ Lines(r)
    BY DEF OrderInv
  <2>2. Has(s, r, Request) /\ ~Has(Tail(s), r, Request) /\ Asked(r) /\ g = att[c]
    BY <1>6, <1>8, <2>1 DEF Ticket, Asked
  <2>3. fwd[r] # "none" /\ Idle(r) /\ ~Early(r) /\ ~Held(r)
    BY <2>1, <2>2, HeadAsks DEF Ticket, Early
  <2>4. \A h \in Gens : ~Has(hc'[h].clientIn, r, Request) /\ Single(hc'[h].clientIn, r, Request)
    BY <1>4, <1>6, <2>1, <2>2 DEF Ticket
  <2>5. ~Asked(r)'
    BY <2>4 DEF Asked
  <2>6. UNCHANGED <<Waiting(r), Early(r), Held(r), Read(r), Shown(r), Passed(r), Live(r)>>
    BY <1>1, <1>4 DEF Waiting, Early, Held, Read, Shown, Passed, Live
  <2>7. ~work[r].open /\ \A h \in Gens : Count(agent[h].out, r) = 0 /\ ~Ended(agent[h].out, r)
    BY <2>3, Counts, LineNone DEF Idle
  <2>8. work'[r].outs = work[r].outs /\ (work'[r].open => work'[r].gen = g /\ agent[g].up)
    BY <1>5, <1>8, <2>7
  <2>9. Ticket(r)'
    BY <1>1, <1>4, <2>1, <2>2, <2>3, <2>4, <2>5, <2>6, <2>7, <2>8 DEF Ticket, Waiting
  <2>10. ASSUME sock[c].up
         PROVE  /\ Lined(agent[g].out, r, Passed(r) + Count(ch[r], r))
                /\ agent[g].up => Passed(r) + Count(ch[r], r) + Count(agent[g].out, r) = work[r].outs
                /\ hc[g].from = "read" => r \in hc[g].routes
    BY <2>1, <2>2, <2>10 DEF Lines
  <2>11. Lines(r)'
    <3>1. UNCHANGED <<agent, att, sock, seen, writeCh, ch, fwd>>
      BY <1>1
    <3>2. hc'[g].from = hc[g].from /\ hc'[g].routes = hc[g].routes
      BY <1>4
    <3> QED
      BY <2>1, <2>2, <2>3, <2>5, <2>6, <2>7, <2>8, <2>10, <3>1, <3>2 DEF Lines
  <2> QED
    BY <2>9, <2>11
<1>9. UNCHANGED <<agent, att, sock, seen, bridge, writeCh, ch, fwd>>
  BY <1>1
<1>10. Places' /\ Writers'
  BY <1>9 DEF OrderInv, Places, Writers
<1>11. Lost'
  BY <1>4, <1>9 DEF OrderInv, Lost
<1> QED
  BY <1>7, <1>8, <1>10, <1>11 DEF OrderInv

LEMMA PumpFromAgentOrder == ASSUME ConnInv, OrderInv, NEW g \in Gens, PumpFromAgent(g) PROVE OrderInv'
<1> DEFINE s == agent[g].out
           f == Head(s)
           h == ch[f.r]
<1>1. /\ UNCHANGED <<pool, work, att, sock, sent, seen, bridge, writeCh, fwd>>
      /\ hc[g].from = "read" /\ s # <<>> /\ agent' = [agent EXCEPT ![g].out = Tail(s)]
      /\ ch' = IF f.r \in hc[g].routes THEN [ch EXCEPT ![f.r] = Append(h, f)] ELSE ch
      /\ hc' = IF Terminal(f) THEN [hc EXCEPT ![g].routes = hc[g].routes \ {f.r}] ELSE hc
  BY DEF PumpFromAgent, clientVars
<1>2. s \in Seq(Reply) /\ f \in Reply /\ f = Head(s) /\ s # <<>> /\ Tail(s) \in Seq(Reply)
  BY <1>1, Kept, HeadTail DEF AgentTypes
<1>3. f.r \in Reqs
  BY <1>2 DEF Reply
<1> HIDE DEF f
<1>4. h \in Seq(Reply)
  BY <1>3, Counts
<1>5. /\ \A k \in Gens : agent'[k].up = agent[k].up /\ (k # g => agent'[k].out = agent[k].out)
      /\ agent'[g].out = Tail(s)
  BY <1>1, Kept DEF AgentTypes
<1>6. /\ \A k \in Gens : /\ hc'[k].from = hc[k].from /\ hc'[k].failing = hc[k].failing
                         /\ hc'[k].clientIn = hc[k].clientIn
                         /\ k # g => hc'[k].routes = hc[k].routes
      /\ hc'[g].routes = IF Terminal(f) THEN hc[g].routes \ {f.r} ELSE hc[g].routes
  <2>1. CASE Terminal(f)
    <3>1. hc' = [hc EXCEPT ![g].routes = hc[g].routes \ {f.r}]
      BY <1>1, <2>1
    <3> QED
      BY <2>1, <3>1, Kept, ZenonT(60) DEF ConnTypes, Conn
  <2>2. CASE ~Terminal(f)
    BY <1>1, <2>2
  <2> QED
    BY <2>1, <2>2
<1>7. /\ \A q \in Reqs : q # f.r => ch'[q] = ch[q]
      /\ ch'[f.r] = IF f.r \in hc[g].routes THEN Append(h, f) ELSE h
  BY <1>1, <1>3, Kept DEF ChannelTypes
<1>8. ASSUME NEW q \in Reqs
      PROVE  /\ Count(s, q) = One(f, q) + Count(Tail(s), q) /\ Count(Tail(s), q) \in Nat
             /\ Count(Append(h, f), q) = Count(h, q) + One(f, q) /\ Count(h, q) \in Nat
  BY <1>2, <1>4, LineTail, LineAppend
<1>9. ASSUME NEW q \in Reqs, q # f.r PROVE Ticket(q)' /\ Lines(q)'
  <2>1. \A k \in Gens : Same(agent[k].out, agent'[k].out, q)
    BY <1>2, <1>5, <1>9, SameFacts
  <2>2. UnmovedAsks(q)
    <3>1. \A k \in Gens : /\ q \in hc'[k].routes <=> q \in hc[k].routes
                          /\ agent'[k].up = agent[k].up /\ hc'[k].from = hc[k].from
                          /\ hc'[k].failing = hc[k].failing /\ hc'[k].clientIn = hc[k].clientIn
      BY <1>5, <1>6, <1>9
    <3> QED
      BY <1>1, <3>1, SameFacts DEF UnmovedAsks, Held
  <2>3. UnmovedLines(q)
    BY <1>1, <1>7, <1>9, <2>1, SameFacts DEF UnmovedLines
  <2> QED
    BY <2>2, <2>3, Unmoved DEF OrderInv
<1>10. ASSUME NEW r \in Reqs, r = f.r PROVE Ticket(r)' /\ Lines(r)'
  <2> DEFINE c == Owner[r]
             b == Passed(r) + Count(h, r)
  <2>1. Ticket(r) /\ Lines(r)
    BY DEF OrderInv
  <2>2. /\ Count(s, r) = 1 + Count(Tail(s), r) /\ Count(Tail(s), r) \in Nat
        /\ Count(Append(h, f), r) = Count(h, r) + 1 /\ Count(h, r) \in Nat /\ One(f, r) = 1
    BY <1>8, <1>10 DEF One
  <2>3. Count(s, r) # 0
    BY <2>2
  <2>4. fwd[r] # "none" /\ ~Asked(r) /\ ~Early(r) /\ ~Held(r) /\ g = att[c]
    BY <2>1, <2>3, HeadAsks DEF Ticket, Idle, Early
  <2>5. UNCHANGED <<Waiting(r), Early(r), Asked(r), Read(r), Shown(r), Held(r), Passed(r)>>
    BY <1>1, <1>6 DEF Waiting, Early, Asked, Read, Shown, Held, Passed
  <2>6. Ticket(r)'
    <3>1. \A k \in Gens : Count(agent'[k].out, r) # 0 => k = att[c]
      BY <1>5, <2>1, <2>4 DEF Ticket
    <3>2. \A k \in Gens : /\ r \in hc'[k].routes => r \in hc[k].routes
                          /\ hc'[k].failing = hc[k].failing /\ hc'[k].clientIn = hc[k].clientIn
      BY <1>6
    <3> QED
      BY <1>1, <2>1, <2>4, <2>5, <3>1, <3>2 DEF Ticket, Waiting
  <2>7. Passed(r) \in Nat /\ b \in Nat
    BY <2>2, Counts
  <2>8. ASSUME sock[c].up
        PROVE  /\ r \in hc[g].routes /\ Live(r)
               /\ Lined(s, r, b) /\ Lined(h, r, Passed(r))
               /\ Ended(s, r) => ~work[r].open
               /\ agent[g].up /\ work[r].open => b + Count(s, r) = work[r].outs
    <3>1. r \in hc[g].routes
      BY <1>1, <2>1, <2>3, <2>4, <2>8 DEF Lines
    <3>2. Live(r)
      BY <1>1, <3>1 DEF Live
    <3> QED
      BY <1>10, <2>1, <2>4, <2>8, <3>1, <3>2 DEF Lines
  <2>9. ASSUME sock[c].up
        PROVE  /\ Lined(Append(h, f), r, Passed(r)) /\ Lined(Tail(s), r, b + 1)
               /\ Ended(Append(h, f), r) => Terminal(f)
               /\ Terminal(f) => Count(Tail(s), r) = 0 /\ ~work[r].open
               /\ Ended(Tail(s), r) => ~work[r].open
    <3>1. ~Ended(h, r)
      BY <1>10, <2>1, <2>8, <2>9 DEF Lines
    <3> HIDE DEF b
    <3>2. /\ Lined(Tail(s), r, b + 1) /\ Fits(f, b + 1) /\ (Terminal(f) => Count(Tail(s), r) = 0)
          /\ Ended(s, r) <=> Ended(Tail(s), r) \/ Terminal(f)
      BY <1>2, <1>10, <2>2, <2>7, <2>8, <2>9, LineTail
    <3>3. Passed(r) + (Count(h, r) + 1) = b + 1
      BY <2>2, <2>7 DEF b
    <3>4. Lined(Append(h, f), r, Passed(r)) /\ (Ended(Append(h, f), r) <=> Terminal(f))
      BY <1>2, <1>4, <1>10, <2>8, <2>9, <3>1, <3>2, <3>3, LineAppend
    <3> QED
      BY <2>8, <2>9, <3>2, <3>4
  <2>10. Live(r)' => Live(r)
    BY <1>6 DEF Live
  <2>11. Terminal(f) => ~Live(r)'
    <3>1. hc[g].failing = {}
      BY <1>1, Kept DEF Closing
    <3>2. \A k \in Gens : k # g => r \notin hc[k].routes \cup hc[k].failing
      BY <2>1, <2>4 DEF Ticket
    <3> QED
      BY <1>6, <1>10, <3>1, <3>2 DEF Live
  <2>12. ASSUME sock[c].up
         PROVE  /\ ch'[r] = Append(h, f) /\ agent'[g].out = Tail(s) /\ agent'[g].up = agent[g].up
                /\ hc'[g].from = hc[g].from
                /\ hc'[g].routes = IF Terminal(f) THEN hc[g].routes \ {r} ELSE hc[g].routes
                /\ Passed(r) + Count(Append(h, f), r) = b + 1
                /\ agent[g].up /\ work[r].open => (b + 1) + Count(Tail(s), r) = work[r].outs
    <3>1. /\ ch'[r] = Append(h, f) /\ agent'[g].out = Tail(s) /\ agent'[g].up = agent[g].up
          /\ hc'[g].from = hc[g].from
          /\ hc'[g].routes = IF Terminal(f) THEN hc[g].routes \ {r} ELSE hc[g].routes
      BY <1>5, <1>6, <1>7, <1>10, <2>8, <2>12
    <3>2. Passed(r) + Count(Append(h, f), r) = b + 1
      BY <2>2, <2>7
    <3>3. agent[g].up /\ work[r].open => (b + 1) + Count(Tail(s), r) = work[r].outs
      BY <2>2, <2>7, <2>8, <2>12
    <3> QED
      BY <3>1, <3>2, <3>3
  <2> HIDE DEF b
  <2>13. ASSUME sock[c].up, NEW k \in Gens, k = att[c]
         PROVE  /\ Lined(agent'[k].out, r, Passed(r) + Count(ch'[r], r))
                /\ Ended(agent'[k].out, r) => ~work[r].open
                /\ agent'[k].up /\ (Held(r) \/ Asked(r) \/ work[r].open) =>
                     Passed(r) + Count(ch'[r], r) + Count(agent'[k].out, r) = work[r].outs
                /\ hc'[k].from = "read" /\ (Held(r) \/ Asked(r) \/ work[r].open \/ Count(agent'[k].out, r) # 0) =>
                     r \in hc'[k].routes
    <3>1. k = g
      BY <2>4, <2>13
    <3>2. Lined(agent'[g].out, r, Passed(r) + Count(ch'[r], r)) /\ (Ended(agent'[g].out, r) => ~work[r].open)
      BY <2>9, <2>12, <2>13
    <3>3. agent'[g].up /\ work[r].open => Passed(r) + Count(ch'[r], r) + Count(agent'[g].out, r) = work[r].outs
      BY <2>12, <2>13
    <3>4. work[r].open \/ Count(agent'[g].out, r) # 0 => r \in hc'[g].routes
      BY <2>8, <2>9, <2>12, <2>13
    <3> QED
      BY <2>4, <3>1, <3>2, <3>3, <3>4
  <2>14. ASSUME sock[c].up
         PROVE  /\ Lined(ch'[r], r, Passed(r))
                /\ ~Ended(seen[c], r) /\ ~Ended(sock[c].out, r) /\ ~Ended(writeCh[c], r)
                /\ Ended(ch'[r], r) => ~Live(r)'
    BY <2>1, <2>4, <2>8, <2>9, <2>11, <2>12, <2>14 DEF Lines
  <2>15. Lines(r)'
    BY <1>1, <2>1, <2>4, <2>5, <2>13, <2>14 DEF Lines
  <2> QED
    BY <2>6, <2>15
<1>11. Places'
  <2>1. ASSUME NEW q \in Reqs, NEW r \in Reqs, q # r PROVE Count(ch'[r], q) = 0
    <3>1. Count(ch[r], q) = 0
      BY <2>1 DEF OrderInv, Places
    <3>2. CASE r = f.r
      <4>1. One(f, q) = 0 /\ Count(h, q) = 0
        BY <2>1, <3>1, <3>2 DEF One
      <4>2. Count(Append(h, f), q) = 0
        BY <1>8, <4>1
      <4> QED
        BY <1>7, <3>2, <4>1, <4>2
    <3> QED
      BY <1>7, <3>1, <3>2
  <2> QED
    BY <1>1, <2>1 DEF OrderInv, Places
<1>12. Lost' /\ Writers'
  BY <1>1, <1>5, <1>6 DEF OrderInv, Lost, Writers
<1> QED
  BY <1>9, <1>10, <1>11, <1>12 DEF OrderInv

\* The routes become requests to fail.
LEMMA FailAllOrder == ASSUME ConnInv, OrderInv, NEW g \in Gens, FailAll(g) PROVE OrderInv'
<1>1. /\ UNCHANGED <<pool, agent, work, att, sock, sent, seen, bridge, writeCh, ch, fwd>>
      /\ hc[g].from = "read" /\ ~agent[g].up /\ agent[g].out = <<>>
      /\ hc' = [hc EXCEPT ![g].from = "failing", ![g].failing = hc[g].routes, ![g].routes = {}]
  BY DEF FailAll, agentVars, clientVars, bridgeVars
<1>2. /\ \A h \in Gens : hc'[h].clientIn = hc[h].clientIn /\ (h # g => hc'[h] = hc[h])
      /\ hc'[g].from = "failing" /\ hc'[g].failing = hc[g].routes /\ hc'[g].routes = {}
  BY <1>1, Kept, ZenonT(60) DEF ConnTypes, Conn
<1>3. hc[g].failing = {}
  BY <1>1, Kept DEF Closing
<1>4. ASSUME NEW r \in Reqs PROVE Ticket(r)' /\ Lines(r)'
  <2>1. Ticket(r) /\ Lines(r)
    BY DEF OrderInv
  <2>2. UNCHANGED <<Waiting(r), Early(r), Asked(r), Idle(r), Read(r), Shown(r), Held(r), Passed(r)>>
    BY <1>1, <1>2 DEF Waiting, Early, Asked, Idle, Read, Shown, Held, Passed
  <2>3. \A h \in Gens : r \in hc'[h].routes \cup hc'[h].failing <=> r \in hc[h].routes \cup hc[h].failing
    BY <1>2, <1>3
  <2>4. Live(r)' <=> Live(r)
    BY <1>1, <1>2, <1>3 DEF Live
  <2>5. Ticket(r)'
    BY <1>1, <1>2, <2>1, <2>2, <2>3 DEF Ticket, Waiting
  <2>6. Lines(r)'
    <3>1. \A h \in Gens : hc'[h].from = "read" => hc[h].from = "read" /\ hc'[h].routes = hc[h].routes
      BY <1>2
    <3> QED
      BY <1>1, <2>1, <2>2, <2>4, <3>1 DEF Lines
  <2> QED
    BY <2>5, <2>6
<1>5. Places' /\ Writers'
  BY <1>1 DEF OrderInv, Places, Writers
<1>6. Lost'
  BY <1>1, <1>2 DEF OrderInv, Lost
<1> QED
  BY <1>4, <1>5, <1>6 DEF OrderInv

LEMMA FailOneOrder == ASSUME ConnInv, OrderInv, NEW g \in Gens, NEW r \in Reqs, FailOne(g, r) PROVE OrderInv'
<1> DEFINE c == Owner[r]
           h == ch[r]
           e == Frame(r, "error", 0)
<1>1. /\ UNCHANGED <<pool, agent, work, att, sock, sent, seen, bridge, writeCh, fwd>>
      /\ r \in hc[g].failing
      /\ ch' = [ch EXCEPT ![r] = Append(h, e)]
      /\ hc' = [hc EXCEPT ![g].failing = hc[g].failing \ {r}]
  BY DEF FailOne, agentVars, clientVars
<1>2. e \in Reply /\ e.r = r /\ Terminal(e) /\ \A k : Fits(e, k)
  BY Frames DEF ConnInv, Frame, Fits, Terminal
<1> HIDE DEF e
<1>3. h \in Seq(Reply)
  BY Counts
<1>4. \A k \in Gens : /\ hc'[k].clientIn = hc[k].clientIn /\ hc'[k].routes = hc[k].routes /\ hc'[k].from = hc[k].from
                      /\ hc'[k].failing = IF k = g THEN hc[g].failing \ {r} ELSE hc[k].failing
  BY <1>1, Kept, ZenonT(60) DEF ConnTypes, Conn
<1>5. ch'[r] = Append(h, e) /\ \A q \in Reqs : q # r => ch'[q] = ch[q]
  BY <1>1, Kept DEF ChannelTypes
<1>6. hc[g].from = "failing" /\ ~agent[g].up /\ agent[g].out = <<>>
  BY <1>1, Kept DEF Closing, OrderInv, Lost, ConnTypes, Conn
<1>7. ASSUME NEW q \in Reqs, q # r PROVE Ticket(q)' /\ Lines(q)'
  <2>1. UnmovedAsks(q)
    <3>1. \A k \in Gens : /\ q \in hc'[k].failing <=> q \in hc[k].failing
                          /\ hc'[k].routes = hc[k].routes /\ hc'[k].from = hc[k].from
                          /\ hc'[k].clientIn = hc[k].clientIn
      BY <1>4, <1>7
    <3> QED
      BY <1>1, <3>1, SameFacts DEF UnmovedAsks, Held
  <2>2. UnmovedLines(q)
    BY <1>1, <1>5, <1>7, SameFacts DEF UnmovedLines
  <2> QED
    BY <2>1, <2>2, Unmoved DEF OrderInv
<1>8. Ticket(r)' /\ Lines(r)'
  <2>1. Ticket(r) /\ Lines(r)
    BY DEF OrderInv
  <2>2. UNCHANGED <<Waiting(r), Early(r), Asked(r), Idle(r), Read(r), Shown(r), Held(r), Passed(r)>>
    BY <1>1, <1>4 DEF Waiting, Early, Asked, Idle, Read, Shown, Held, Passed
  <2>3. g = att[c] /\ ~(Early(r) /\ ~Held(r)) /\ Live(r)
    BY <1>1, <2>1 DEF Ticket, Live
  <2>4. Ticket(r)'
    BY <1>1, <1>4, <2>1, <2>2, <2>3 DEF Ticket, Waiting
  <2>5. ~Live(r)'
    <3>1. \A k \in Gens : k # g => r \notin hc[k].routes \cup hc[k].failing
      BY <2>1, <2>3 DEF Ticket
    <3> QED
      BY <1>4, <1>6, <3>1 DEF Live
  <2>6. ASSUME sock[c].up
        PROVE  /\ Lined(ch'[r], r, Passed(r))
               /\ fwd[r] # "none" => ~Ended(seen[c], r) /\ ~Ended(sock[c].out, r) /\ ~Ended(writeCh[c], r)
    <3>1. Lined(h, r, Passed(r)) /\ ~Ended(h, r)
      BY <2>1, <2>3, <2>6 DEF Lines
    <3>2. Lined(Append(h, e), r, Passed(r))
      BY <1>2, <1>3, <3>1, LineAppend
    <3> QED
      BY <1>5, <2>1, <2>3, <2>6, <3>2 DEF Lines
  <2>7. ~Ended(agent[g].out, r) /\ \A b : Lined(agent[g].out, r, b)
    BY <1>6, LineNone
  <2>8. ASSUME sock[c].up, NEW k \in Gens, k = att[c]
        PROVE  ~agent[k].up /\ hc'[k].from # "read" /\ ~Ended(agent[k].out, r) /\ \A b : Lined(agent[k].out, r, b)
    BY <1>4, <1>6, <2>3, <2>7, <2>8
  <2>9. Lines(r)'
    BY <1>1, <2>1, <2>2, <2>5, <2>6, <2>8 DEF Lines
  <2> QED
    BY <2>4, <2>9
<1>9. Places'
  <2>1. ASSUME NEW q \in Reqs, NEW p \in Reqs, q # p PROVE Count(ch'[p], q) = 0
    <3>1. Count(ch[p], q) = 0
      BY <2>1 DEF OrderInv, Places
    <3>2. CASE p = r
      <4>1. One(e, q) = 0 /\ Count(h, q) = 0
        BY <1>2, <2>1, <3>1, <3>2 DEF One
      <4>2. Count(Append(h, e), q) = Count(h, q) + One(e, q)
        BY <1>2, <1>3, LineAppend
      <4>3. Count(Append(h, e), q) = 0
        BY <4>1, <4>2
      <4> QED
        BY <1>5, <3>2, <4>3
    <3> QED
      BY <1>5, <3>1, <3>2
  <2> QED
    BY <1>1, <2>1 DEF OrderInv, Places
<1>10. Lost' /\ Writers'
  BY <1>1, <1>4 DEF OrderInv, Lost, Writers
<1> QED
  BY <1>7, <1>8, <1>9, <1>10 DEF OrderInv

LEMMA InitOrder == Init => OrderInv
<1> SUFFICES ASSUME Init PROVE OrderInv
  OBVIOUS
<1>1. /\ \A g \in Gens : hc[g].clientIn = <<>> /\ hc[g].routes = {} /\ hc[g].failing = {} /\ hc[g].from = "read"
      /\ \A g \in Gens : agent[g].out = <<>>
      /\ \A c \in Clients : /\ sock[c].in = <<>> /\ sock[c].out = <<>> /\ writeCh[c] = <<>> /\ seen[c] = <<>>
                            /\ bridge[c] = "new" /\ att[c] = 0
      /\ \A r \in Reqs : ch[r] = <<>> /\ fwd[r] = "none" /\ ~work[r].open /\ work[r].outs = 0 /\ sent[r] = 0
  BY DEF Init
<1>2. Places /\ Lost /\ Writers
  BY <1>1, LineNone, HasNone, Constants DEF Places, Lost, Writers
<1>3. ASSUME NEW r \in Reqs PROVE Ticket(r) /\ Lines(r)
  <2>1. Owner[r] \in Clients /\ Count(<<>>, r) = 0
    BY Constants, LineNone
  <2>2. ~Waiting(r) /\ ~Held(r) /\ ~Asked(r) /\ Idle(r) /\ ~Live(r) /\ Read(r) = 0 /\ Shown(r) = 0 /\ Passed(r) = 0
    BY <1>1, <2>1, HasNone DEF Waiting, Held, Asked, Idle, Live, Read, Shown, Passed
  <2>3. Ticket(r)
    BY <1>1, <2>1, <2>2, HasNone DEF Ticket
  <2>4. Lines(r)
    BY <1>1, <2>1, <2>2, LineNone DEF Lines
  <2> QED
    BY <2>3, <2>4
<1> QED
  BY <1>2, <1>3 DEF OrderInv

LEMMA NextOrder == ConnInv /\ OrderInv /\ [Next]_vars => OrderInv'
<1> SUFFICES ASSUME ConnInv, OrderInv, [Next]_vars PROVE OrderInv'
  OBVIOUS
<1>1. CASE UNCHANGED vars
  <2>1. UNCHANGED <<hc, agent, work, att, sock, bridge, writeCh, sent, ch, fwd, seen>>
    BY <1>1 DEF vars, connVars, agentVars, clientVars, bridgeVars
  <2>2. \A r \in Reqs : UnmovedAsks(r) /\ UnmovedLines(r)
    BY <2>1, SameFacts DEF UnmovedAsks, UnmovedLines, Held
  <2>3. Places' /\ Lost' /\ Writers'
    BY <2>1 DEF OrderInv, Places, Lost, Writers
  <2> QED
    BY <2>2, <2>3, AllUnmoved
<1>2. CASE \E c \in Clients : ClientRead(c) \/ HangUp(c) \/ AttachFails(c) \/ Bridge(c) \/ Write(c)
  BY <1>2, ClientReadOrder, HangUpOrder, AttachOrder, Registers, BridgeSendOrder, BridgeRefuseOrder,
     BridgeForwardOrder, BridgeEndOrder, WriteOrder DEF Bridge
<1>3. CASE \E r \in Reqs : ClientSend(r) \/ ForwardReply(r)
  BY <1>3, ClientSendOrder, ForwardOrder
<1>4. CASE \E g \in Gens : AgentDies(g) \/ PumpToAgent(g) \/ FromAgent(g)
                            \/ \E r \in Reqs : AgentOutput(g, r) \/ AgentAnswer(g, r)
  BY <1>4, AgentDiesOrder, PumpToAgentOrder, PumpFromAgentOrder, FailAllOrder, CloseConnOrder, FailOneOrder,
     AgentSaysOrder DEF FromAgent
<1> QED
  BY <1>1, <1>2, <1>3, <1>4 DEF Next

\* What a client has read, frame by frame.
LEMMA OrderSeen == ConnInv /\ OrderInv => RepliesInOrder
<1> SUFFICES ASSUME ConnInv, OrderInv, NEW c \in Clients, NEW i \in DOMAIN seen[c]
             PROVE  LET f == seen[c][i] IN
                    /\ Owner[f.r] = c
                    /\ f.kind = "output" => f.n = Nth(seen[c], i)
                    /\ f.kind = "result" => f.n = Nth(seen[c], i) - 1
                    /\ f.kind = "stat" => Nth(seen[c], i) = 1
                    /\ Terminal(f) => \A j \in DOMAIN seen[c] : seen[c][j].r = f.r => j <= i
  BY DEF RepliesInOrder
<1> DEFINE s == seen[c]
           f == s[i]
<1>1. s \in Seq(Reply) /\ i \in 1..Len(s)
  BY Kept DEF ChannelTypes
<1>2. f \in Reply
  BY <1>1
<1>3. f.r \in Reqs
  BY <1>2 DEF Reply
<1>4. Nth(s, i) = Upto(s, f.r, i) /\ Upto(s, f.r, i) \in Nat
  <2>1. Nth(s, i) = Upto(s, f.r, i)
    BY DEF Nth, Upto
  <2>2. Upto(s, f.r, i) \in Nat
    BY <1>1, UptoType
  <2> QED
    BY <2>1, <2>2
<1>5. Count(s, f.r) # 0
  <2>1. \A r : Count(s, r) = 0 => ~(\E j \in DOMAIN s : s[j].r = r)
    BY <1>1, NoneOf
  <2> QED
    BY <1>1, <2>1
<1>6. Owner[f.r] = c
  BY <1>3, <1>5 DEF OrderInv, Places
<1>7. Lined(s, f.r, 0)
  BY <1>3, <1>6 DEF OrderInv, Lines
<1>8. Fits(f, Upto(s, f.r, i)) /\ (Terminal(f) => \A j \in DOMAIN s : s[j].r = f.r => j <= i)
  <2>1. 0 + Upto(s, f.r, i) = Upto(s, f.r, i)
    BY <1>4
  <2> QED
    BY <1>7, <2>1 DEF Lined
<1> QED
  BY <1>4, <1>6, <1>8 DEF Fits

\* A client reads the replies to each of its requests in the order the agent wrote
\* them, none missing and nothing after the last, whatever connection is lost.
THEOREM RepliesOrdered == Spec => []RepliesInOrder
<1>1. Init => ConnInv /\ OrderInv
  BY InitConn, InitOrder
<1>2. ConnInv /\ OrderInv /\ [Next]_vars => (ConnInv /\ OrderInv)'
  BY NextConn, NextOrder
<1>3. ConnInv /\ OrderInv => RepliesInOrder
  BY OrderSeen
<1> QED
  BY <1>1, <1>2, <1>3, PTL DEF Spec

-----------------------------------------------------------------------------
(* What a lost connection leaves to its clients *)

\* Told, over the frames of r alone.
Closed(r) ==
    \/ fwd[r] = "done"
    \/ Ended(ch[r], r)
    \/ fwd[r] = "ack" /\ Ended(writeCh[Owner[r]], r)

\* A request that is to be sent, or was, has its route, is among those failAll has
\* still to tell, or has been told.
Sound(r) == Held(r) \/ fwd[r] # "none" =>
    LET g == att[Owner[r]] IN g # 0 /\ (r \in hc[g].routes \cup hc[g].failing \/ Closed(r))

Accounted == \A r \in Reqs : Sound(r)

TellInv == ConnInv /\ OrderInv /\ Accounted

LEMMA SoundStep ==
    ASSUME ConnInv, NEW r \in Reqs, Sound(r), att'[Owner[r]] = att[Owner[r]],
           Held(r)' \/ fwd'[r] # "none" => Held(r) \/ fwd[r] # "none",
           \A g \in Gens : r \in hc[g].routes \cup hc[g].failing =>
               r \in hc'[g].routes \cup hc'[g].failing \/ Closed(r)',
           Closed(r) => Closed(r)'
    PROVE  Sound(r)'
<1>1. att[Owner[r]] # 0 => att[Owner[r]] \in Gens
  BY Kept, Constants DEF ConnTypes, Gens
<1> QED
  BY <1>1 DEF Sound

\* A step that leaves the reply channels, the forwarders and the routes alone.
LEMMA CalmTold ==
    ASSUME TellInv, UNCHANGED <<att, ch, fwd>>,
           \A g \in Gens : hc'[g].routes = hc[g].routes /\ hc'[g].failing = hc[g].failing,
           \A c \in Clients : writeCh'[c] = writeCh[c] \/ \E f \in Reply : writeCh'[c] = Append(writeCh[c], f),
           \A r \in Reqs : Held(r)' => Held(r)
    PROVE  Accounted'
<1> SUFFICES ASSUME NEW r \in Reqs PROVE Sound(r)'
  BY DEF Accounted
<1>1. Sound(r) /\ ConnInv /\ Owner[r] \in Clients /\ writeCh[Owner[r]] \in Seq(Reply)
  BY Counts DEF TellInv, Accounted
<1>2. Ended(writeCh[Owner[r]], r) => Ended(writeCh'[Owner[r]], r)
  <2>1. CASE writeCh'[Owner[r]] = writeCh[Owner[r]]
    BY <2>1
  <2>2. ASSUME NEW f \in Reply, writeCh'[Owner[r]] = Append(writeCh[Owner[r]], f)
        PROVE  Ended(writeCh[Owner[r]], r) => Ended(writeCh'[Owner[r]], r)
    BY <1>1, <2>2, LineAppend
  <2> QED
    BY <1>1, <2>1, <2>2
<1>3. Closed(r) => Closed(r)'
  BY <1>2 DEF Closed
<1> QED
  BY <1>1, <1>3, SoundStep

\* What goes to the agent, and the end of a connection, are apart from its routes.
LEMMA SameRoutes ==
    ASSUME ConnTypes, NEW g, NEW q, NEW t,
           \/ hc' = [hc EXCEPT ![g].clientIn = q]
           \/ hc' = [hc EXCEPT ![g].clientIn = q, ![g].to = t]
           \/ hc' = [hc EXCEPT ![g].from = "done", ![g].closed = TRUE]
    PROVE  \A k \in Gens : hc'[k].routes = hc[k].routes /\ hc'[k].failing = hc[k].failing
<1> SUFFICES ASSUME NEW k \in Gens PROVE hc'[k].routes = hc[k].routes /\ hc'[k].failing = hc[k].failing
  OBVIOUS
<1>1. hc \in [Gens -> Conn] /\ hc[k] \in Conn
  BY DEF ConnTypes
<1>2. CASE k # g
  BY <1>1, <1>2
<1>3. CASE k = g
  <2>1. hc'[k] \in {[hc[k] EXCEPT !.clientIn = q], [hc[k] EXCEPT !.clientIn = q, !.to = t],
                    [hc[k] EXCEPT !.from = "done", !.closed = TRUE]}
    BY <1>1, <1>3
  <2> QED
    BY <1>1, <2>1 DEF Conn
<1> QED
  BY <1>2, <1>3

LEMMA EnvironmentTold ==
    ASSUME TellInv,
           \/ \E c \in Clients : ClientRead(c) \/ HangUp(c) \/ AttachFails(c) \/ BridgeEnd(c)
           \/ \E r \in Reqs : ClientSend(r)
           \/ \E g \in Gens : AgentDies(g) \/ \E r \in Reqs : AgentOutput(g, r) \/ AgentAnswer(g, r)
    PROVE  Accounted'
<1>1. ConnInv /\ Bounded /\ SockTypes
  BY Kept DEF TellInv
<1>2. CASE \E c \in Clients : ClientRead(c) \/ HangUp(c) \/ AttachFails(c) \/ BridgeEnd(c)
  <2> PICK c \in Clients : ClientRead(c) \/ HangUp(c) \/ AttachFails(c) \/ BridgeEnd(c)
    BY <1>2
  <2>1. UNCHANGED <<hc, att, writeCh, ch, fwd>>
    BY DEF ClientRead, HangUp, AttachFails, BridgeEnd, connVars, clientVars, bridgeVars
  <2>2. bridge' = bridge \/ bridge' = [bridge EXCEPT ![c] = "ended"]
    BY DEF ClientRead, HangUp, AttachFails, BridgeEnd, bridgeVars
  <2>3. \A d \in Clients : sock'[d].in = sock[d].in
    <3>1. \/ \E q : sock' = [sock EXCEPT ![c].out = q] \/ sock' = [sock EXCEPT ![c].up = FALSE, ![c].out = q]
          \/ sock' = [sock EXCEPT ![c].up = FALSE] \/ sock' = sock
      BY DEF ClientRead, HangUp, AttachFails, BridgeEnd, clientVars
    <3> QED
      BY <1>1, <3>1, SameIn
  <2>4. \A r \in Reqs : Held(r)' => Held(r)
    BY <1>1, <2>2, <2>3, Constants, Kept DEF Held, PhaseTypes
  <2> QED
    BY <2>1, <2>4, CalmTold
<1>3. ASSUME NEW r \in Reqs, ClientSend(r) PROVE Accounted'
  <2> DEFINE c == Owner[r]
             f == Frame(r, IF sent[r] = 0 THEN "request" ELSE "chunk", sent[r])
  <2>1. /\ UNCHANGED <<hc, att, writeCh, ch, fwd, bridge>>
        /\ sock' = [sock EXCEPT ![c].in = Append(sock[c].in, f)]
    BY <1>3 DEF ClientSend, connVars, bridgeVars
  <2>2. f \in Ask /\ c \in Clients /\ sock[c].in \in Seq(Ask)
    BY <1>1, Frames, Constants, Counts, Kept DEF PhaseTypes, ConnInv
  <2> HIDE DEF f
  <2>3. \A d \in Clients : sock[d].in # <<>> => Head(sock'[d].in) = Head(sock[d].in)
    <3>1. sock[c].in # <<>> => Head(Append(sock[c].in, f)) = Head(sock[c].in)
      BY <2>2
    <3>2. \A d \in Clients : d # c => sock'[d].in = sock[d].in
      BY <2>1
    <3>3. sock'[c].in = Append(sock[c].in, f)
      BY <1>1, <2>1, <2>2 DEF SockTypes, Socket
    <3> QED
      BY <3>1, <3>2, <3>3
  <2>4. \A q \in Reqs : Held(q)' => Held(q)
    BY <1>1, <2>1, <2>3, Constants DEF Held, Bounded
  <2> QED
    BY <2>1, <2>4, CalmTold
<1>4. ASSUME NEW g \in Gens, AgentDies(g) \/ \E r \in Reqs : AgentOutput(g, r) \/ AgentAnswer(g, r)
      PROVE  Accounted'
  <2>1. UNCHANGED <<hc, att, sock, writeCh, ch, fwd, bridge>>
    BY <1>4 DEF AgentDies, AgentOutput, AgentAnswer, AgentSays, connVars, clientVars, bridgeVars
  <2>2. \A q \in Reqs : Held(q)' => Held(q)
    BY <2>1 DEF Held
  <2> QED
    BY <2>1, <2>2, CalmTold
<1> QED
  BY <1>2, <1>3, <1>4

\* A client is attached before it sends.
LEMMA AttachTold == ASSUME TellInv, NEW c \in Clients, Attach(c) PROVE Accounted'
<1>1. /\ UNCHANGED <<hc, sock, writeCh, ch, fwd>>
      /\ bridge[c] = "new" /\ \A d \in Clients : bridge'[d] = IF d = c THEN "read" ELSE bridge[d]
      /\ \A d \in Clients : d # c => att'[d] = att[d]
      /\ att[c] = 0
  BY Kept DEF TellInv, Attach, agentVars, PhaseTypes, ConnTypes, OrderInv, Lost
<1> SUFFICES ASSUME NEW r \in Reqs PROVE Sound(r)'
  BY DEF Accounted
<1>2. Sound(r) /\ ConnInv /\ Owner[r] \in Clients
  BY Constants DEF TellInv, Accounted
<1>3. CASE Owner[r] = c
  BY <1>1, <1>2, <1>3 DEF Sound, Held
<1>4. CASE Owner[r] # c
  BY <1>1, <1>2, <1>4, SoundStep DEF Held, Closed
<1> QED
  BY <1>3, <1>4

LEMMA ForwardedTold ==
    ASSUME TellInv, \/ \E g \in Gens : PumpToAgent(g) \/ CloseConn(g)
                    \/ \E c \in Clients : BridgeForward(c) \/ BridgeRefuse(c)
    PROVE  Accounted'
<1>1. ConnInv /\ ConnTypes /\ Bounded /\ SockTypes
  BY Kept DEF TellInv
<1>2. ASSUME NEW g \in Gens, PumpToAgent(g) \/ CloseConn(g) PROVE Accounted'
  <2>1. UNCHANGED <<att, sock, writeCh, ch, fwd, bridge>>
    BY <1>2 DEF PumpToAgent, CloseConn, clientVars, bridgeVars
  <2>2. \/ \E q, t : hc' = [hc EXCEPT ![g].clientIn = q, ![g].to = t]
        \/ hc' = [hc EXCEPT ![g].from = "done", ![g].closed = TRUE]
    BY <1>2 DEF PumpToAgent, CloseConn
  <2>3. \A k \in Gens : hc'[k].routes = hc[k].routes /\ hc'[k].failing = hc[k].failing
    BY <1>1, <2>2, SameRoutes
  <2>4. \A q \in Reqs : Held(q)' => Held(q)
    BY <2>1 DEF Held
  <2> QED
    BY <2>1, <2>3, <2>4, CalmTold
<1>3. ASSUME NEW c \in Clients, BridgeForward(c) \/ BridgeRefuse(c) PROVE Accounted'
  <2>1. /\ UNCHANGED <<att, ch, fwd>> /\ \A d \in Clients : d # c => sock'[d] = sock[d] /\ bridge'[d] = bridge[d]
        /\ bridge'[c] # "send"
    BY <1>1, <1>3, Kept DEF BridgeForward, BridgeRefuse, bridgeVars, SockTypes, PhaseTypes
  <2>2. \A k \in Gens : hc'[k].routes = hc[k].routes /\ hc'[k].failing = hc[k].failing
    <3>1. hc' = hc \/ \E q : hc' = [hc EXCEPT ![att[c]].clientIn = q]
      BY <1>3 DEF BridgeForward, BridgeRefuse, connVars
    <3> QED
      BY <1>1, <3>1, SameRoutes
  <2>3. \A q \in Reqs : Held(q)' => Held(q)
    BY <2>1, Constants DEF Held
  <2>4. \A d \in Clients : writeCh'[d] = writeCh[d] \/ \E f \in Reply : writeCh'[d] = Append(writeCh[d], f)
    <3>1. CASE BridgeForward(c)
      BY <3>1 DEF BridgeForward, bridgeVars
    <3>2. CASE BridgeRefuse(c)
      <4>1. sock[c].in # <<>>
        BY <1>1, <3>2 DEF BridgeRefuse, Bounded
      <4>2. Frame(Head(sock[c].in).r, "error", 0) \in Reply
        BY <1>1, <4>1, InHand, Frames DEF ConnInv
      <4>3. writeCh' = [writeCh EXCEPT ![c] = Append(writeCh[c], Frame(Head(sock[c].in).r, "error", 0))]
        BY <3>2 DEF BridgeRefuse
      <4> QED
        BY <1>1, <4>2, <4>3, Kept DEF ChannelTypes
    <3> QED
      BY <1>3, <3>1, <3>2
  <2> QED
    BY <2>1, <2>2, <2>3, <2>4, CalmTold
<1> QED
  BY <1>2, <1>3

\* A Request gets its route before it is sent.
LEMMA RegisterTold == ASSUME TellInv, NEW c \in Clients, BridgeRegister(c) PROVE Accounted'
<1> DEFINE f == Head(sock[c].in)
<1>1. /\ UNCHANGED <<att, sock, writeCh, ch, fwd>> /\ bridge[c] = "read"
      /\ bridge' = [bridge EXCEPT ![c] = "send"]
      /\ hc' = [hc EXCEPT ![att[c]].routes = hc[att[c]].routes \cup {f.r}]
  BY DEF BridgeRegister, clientVars
<1>2. ConnInv /\ ConnTypes /\ PhaseTypes /\ Lost
  BY Kept DEF TellInv, OrderInv
<1>3. att[c] # 0 /\ att[c] \in Gens
  BY <1>1, <1>2 DEF Lost, ConnTypes, Gens
<1>4. /\ \A k \in Gens : hc[k].routes \subseteq hc'[k].routes /\ hc'[k].failing = hc[k].failing
      /\ f.r \in hc'[att[c]].routes
  BY <1>1, <1>2, <1>3, ZenonT(60) DEF ConnTypes, Conn
<1> SUFFICES ASSUME NEW r \in Reqs PROVE Sound(r)'
  BY DEF Accounted
<1>5. Sound(r) /\ Owner[r] \in Clients
  BY Constants DEF TellInv, Accounted
<1>6. CASE Owner[r] = c /\ f.r = r
  BY <1>1, <1>3, <1>4, <1>6 DEF Sound
<1>7. CASE ~(Owner[r] = c /\ f.r = r)
  <2>1. Held(r)' => Held(r)
    BY <1>1, <1>2, <1>5, <1>7 DEF Held, PhaseTypes
  <2>2. Closed(r) => Closed(r)'
    BY <1>1 DEF Closed
  <2> QED
    BY <1>1, <1>2, <1>4, <1>5, <2>1, <2>2, SoundStep
<1> QED
  BY <1>6, <1>7

\* The Request in hand becomes a forwarder's.
LEMMA SendTold == ASSUME TellInv, NEW c \in Clients, BridgeSend(c) PROVE Accounted'
<1> DEFINE f == Head(sock[c].in)
<1>1. /\ UNCHANGED <<att, writeCh, ch>> /\ bridge[c] = "send" /\ bridge' = [bridge EXCEPT ![c] = "read"]
      /\ sock' = [sock EXCEPT ![c].in = Tail(sock[c].in)]
      /\ fwd' = [fwd EXCEPT ![f.r] = "wait"]
      /\ \E q : hc' = [hc EXCEPT ![att[c]].clientIn = q]
  BY DEF BridgeSend
<1>2. ConnInv /\ ConnTypes /\ PhaseTypes /\ SockTypes /\ Bounded /\ OrderInv
  BY Kept DEF TellInv
<1>3. f.r \in Reqs /\ sock[c].in # <<>> /\ Owner[f.r] = c
  BY <1>1, <1>2, InHand, Handed DEF Bounded
<1>4. Held(f.r)
  BY <1>1, <1>3 DEF Held
<1>5. fwd[f.r] = "none"
  BY <1>2, <1>3, <1>4, HeadAsks DEF OrderInv, Ticket, Early
<1>6. \A k \in Gens : hc'[k].routes = hc[k].routes /\ hc'[k].failing = hc[k].failing
  BY <1>1, <1>2, SameRoutes
<1> HIDE DEF f
<1>7. \A q \in Reqs : fwd'[q] = IF q = f.r THEN "wait" ELSE fwd[q]
  BY <1>1, <1>2 DEF PhaseTypes
<1> SUFFICES ASSUME NEW r \in Reqs PROVE Sound(r)'
  BY DEF Accounted
<1>8. Sound(r) /\ Owner[r] \in Clients
  BY Constants DEF TellInv, Accounted
<1>9. Held(r)' \/ fwd'[r] # "none" => Held(r) \/ fwd[r] # "none"
  BY <1>1, <1>2, <1>4, <1>7, <1>8 DEF Held, PhaseTypes, SockTypes
<1>10. Closed(r) => Closed(r)'
  BY <1>1, <1>5, <1>7 DEF Closed
<1> QED
  BY <1>1, <1>2, <1>6, <1>8, <1>9, <1>10, SoundStep

\* An end of the agent takes the route away and is put in the reply channel.
LEMMA PumpTold == ASSUME TellInv, NEW g \in Gens, PumpFromAgent(g) PROVE Accounted'
<1> DEFINE f == Head(agent[g].out)
           h == ch[f.r]
<1>1. /\ UNCHANGED <<att, sock, bridge, writeCh, fwd>> /\ hc[g].from = "read" /\ agent[g].out # <<>>
      /\ ch' = IF f.r \in hc[g].routes THEN [ch EXCEPT ![f.r] = Append(h, f)] ELSE ch
      /\ hc' = IF Terminal(f) THEN [hc EXCEPT ![g].routes = hc[g].routes \ {f.r}] ELSE hc
  BY DEF PumpFromAgent, clientVars
<1>2. ConnInv /\ ConnTypes /\ ChannelTypes /\ Closing
  BY Kept DEF TellInv
<1>3. f \in Reply
  BY <1>1, Kept, HeadTail DEF AgentTypes, TellInv
<1>4. f.r \in Reqs
  BY <1>3 DEF Reply
<1> HIDE DEF f
<1>5. h \in Seq(Reply)
  BY <1>2, <1>4, Counts
<1>6. hc[g].failing = {}
  BY <1>1, <1>2 DEF Closing
<1>7. /\ \A k \in Gens : hc'[k].failing = hc[k].failing /\ (k # g => hc'[k].routes = hc[k].routes)
      /\ hc'[g].routes = IF Terminal(f) THEN hc[g].routes \ {f.r} ELSE hc[g].routes
  <2>1. CASE Terminal(f)
    <3>1. hc' = [hc EXCEPT ![g].routes = hc[g].routes \ {f.r}]
      BY <1>1, <2>1
    <3> QED
      BY <1>2, <2>1, <3>1, ZenonT(60) DEF ConnTypes, Conn
  <2>2. CASE ~Terminal(f)
    BY <1>1, <2>2
  <2> QED
    BY <2>1, <2>2
<1>8. /\ \A q \in Reqs : q # f.r => ch'[q] = ch[q]
      /\ ch'[f.r] = IF f.r \in hc[g].routes THEN Append(h, f) ELSE h
  BY <1>1, <1>2, <1>4 DEF ChannelTypes
<1>9. Ended(Append(h, f), f.r) <=> Ended(h, f.r) \/ Terminal(f)
  BY <1>3, <1>5, LineAppend
<1> SUFFICES ASSUME NEW r \in Reqs PROVE Sound(r)'
  BY DEF Accounted
<1>10. Sound(r)
  BY DEF TellInv, Accounted
<1>11. Held(r)' <=> Held(r)
  BY <1>1 DEF Held
<1>12. Closed(r) => Closed(r)'
  BY <1>1, <1>8, <1>9 DEF Closed
<1>13. \A k \in Gens : r \in hc[k].routes \cup hc[k].failing =>
           r \in hc'[k].routes \cup hc'[k].failing \/ Closed(r)'
  <2> SUFFICES ASSUME NEW k \in Gens, r \in hc[k].routes, r \notin hc'[k].routes PROVE Closed(r)'
    BY <1>7
  <2>1. k = g /\ r = f.r /\ Terminal(f)
    BY <1>7
  <2>2. Ended(ch'[r], r)
    BY <1>8, <1>9, <2>1
  <2> QED
    BY <2>2 DEF Closed
<1> QED
  BY <1>1, <1>2, <1>10, <1>11, <1>12, <1>13, SoundStep

\* failAll: the routes go to the requests it has to tell, and each is told.
LEMMA FailTold ==
    ASSUME TellInv, NEW g \in Gens, FailAll(g) \/ \E r \in Reqs : FailOne(g, r)
    PROVE  Accounted'
<1>1. UNCHANGED <<att, sock, bridge, writeCh, fwd>>
  BY DEF FailAll, FailOne, clientVars, bridgeVars
<1>2. ConnInv /\ ConnTypes /\ ChannelTypes /\ Closing
  BY Kept DEF TellInv
<1>3. \A r \in Reqs : Sound(r) /\ (Held(r)' <=> Held(r))
  BY <1>1 DEF TellInv, Accounted, Held
<1>4. CASE FailAll(g)
  <2>1. ch' = ch /\ hc' = [hc EXCEPT ![g].from = "failing", ![g].failing = hc[g].routes, ![g].routes = {}]
        /\ hc[g].failing = {}
    BY <1>2, <1>4 DEF FailAll, bridgeVars, Closing
  <2>2. \A k \in Gens : hc'[k].routes \cup hc'[k].failing = hc[k].routes \cup hc[k].failing
    <3>1. /\ \A k \in Gens : k # g => hc'[k] = hc[k]
          /\ hc'[g].failing = hc[g].routes /\ hc'[g].routes = {}
      BY <1>2, <2>1, ZenonT(60) DEF ConnTypes, Conn
    <3> QED
      BY <2>1, <3>1
  <2>3. \A r \in Reqs : Closed(r) => Closed(r)'
    BY <1>1, <2>1 DEF Closed
  <2> QED
    BY <1>1, <1>2, <1>3, <2>2, <2>3, SoundStep DEF Accounted
<1>5. ASSUME NEW r \in Reqs, FailOne(g, r) PROVE Accounted'
  <2> DEFINE e == Frame(r, "error", 0)
  <2>1. /\ ch' = [ch EXCEPT ![r] = Append(ch[r], e)]
        /\ hc' = [hc EXCEPT ![g].failing = hc[g].failing \ {r}]
    BY <1>5 DEF FailOne
  <2>2. e \in Reply /\ e.r = r /\ Terminal(e)
    BY <1>2, Frames DEF ConnInv, Frame, Terminal
  <2> HIDE DEF e
  <2>3. Ended(ch'[r], r) /\ \A q \in Reqs : q # r => ch'[q] = ch[q]
    <3>1. ch'[r] = Append(ch[r], e) /\ ch[r] \in Seq(Reply) /\ \A q \in Reqs : q # r => ch'[q] = ch[q]
      BY <1>2, <2>1 DEF ChannelTypes
    <3> QED
      BY <2>2, <3>1, LineAppend
  <2>4. \A k \in Gens : hc'[k].routes = hc[k].routes /\ hc[k].failing \subseteq hc'[k].failing \cup {r}
    BY <1>2, <2>1, ZenonT(60) DEF ConnTypes, Conn
  <2>5. \A q \in Reqs : Closed(q) \/ q = r => Closed(q)'
    BY <1>1, <2>3 DEF Closed
  <2>6. \A q \in Reqs, k \in Gens : q \in hc[k].routes \cup hc[k].failing =>
            q \in hc'[k].routes \cup hc'[k].failing \/ Closed(q)'
    BY <2>4, <2>5
  <2> QED
    BY <1>1, <1>2, <1>3, <2>5, <2>6, SoundStep DEF Accounted
<1> QED
  BY <1>4, <1>5

\* A reply goes from its reply channel to the writer, which its forwarder waits for.
LEMMA HandOverTold == ASSUME TellInv, NEW p \in Reqs, ForwardReply(p) PROVE Accounted'
<1> DEFINE c == Owner[p]
           f == Head(ch[p])
<1>1. /\ UNCHANGED <<hc, att, sock, bridge>> /\ ch[p] # <<>> /\ fwd[p] = "wait"
      /\ \/ UNCHANGED <<writeCh, ch, fwd>>
         \/ /\ writeCh' = [writeCh EXCEPT ![c] = Append(writeCh[c], f)]
            /\ ch' = [ch EXCEPT ![p] = Tail(ch[p])] /\ fwd' = [fwd EXCEPT ![p] = "ack"]
  BY DEF ForwardReply, connVars, clientVars
<1>2. ConnInv /\ ChannelTypes /\ PhaseTypes /\ Places
  BY Kept DEF TellInv, OrderInv
<1>3. c \in Clients /\ ch[p] \in Seq(Reply) /\ f \in Reply /\ writeCh[c] \in Seq(Reply)
  BY <1>1, <1>2, Counts, HeadTail
<1>4. /\ Ended(ch[p], p) <=> Ended(Tail(ch[p]), p) \/ (f.r = p /\ Terminal(f))
      /\ \A q : Ended(Append(writeCh[c], f), q) <=> Ended(writeCh[c], q) \/ (f.r = q /\ Terminal(f))
  BY <1>1, <1>3, LineTail, LineAppend
<1> HIDE DEF f
<1> SUFFICES ASSUME NEW r \in Reqs PROVE Sound(r)'
  BY DEF Accounted
<1>5. Sound(r) /\ Owner[r] \in Clients /\ (Held(r)' <=> Held(r))
  BY <1>1, Constants DEF TellInv, Accounted, Held
<1>6. CASE UNCHANGED <<writeCh, ch, fwd>>
  BY <1>1, <1>2, <1>5, <1>6, SoundStep DEF Closed
<1>7. CASE /\ writeCh' = [writeCh EXCEPT ![c] = Append(writeCh[c], f)]
           /\ ch' = [ch EXCEPT ![p] = Tail(ch[p])] /\ fwd' = [fwd EXCEPT ![p] = "ack"]
  <2>1. /\ \A d \in Clients : writeCh'[d] = IF d = c THEN Append(writeCh[c], f) ELSE writeCh[d]
        /\ \A q \in Reqs : ch'[q] = (IF q = p THEN Tail(ch[p]) ELSE ch[q]) /\ fwd'[q] = IF q = p THEN "ack" ELSE fwd[q]
    BY <1>2, <1>3, <1>7 DEF ChannelTypes, PhaseTypes
  <2>2. Ended(writeCh[Owner[r]], r) => Ended(writeCh'[Owner[r]], r)
    BY <1>4, <1>5, <2>1
  <2>3. Closed(r) => Closed(r)'
    BY <1>1, <1>4, <1>5, <2>1, <2>2 DEF Closed
  <2>4. fwd'[r] # "none" => fwd[r] # "none"
    BY <1>1, <2>1
  <2> QED
    BY <1>1, <1>2, <1>5, <2>3, <2>4, SoundStep
<1> QED
  BY <1>1, <1>6, <1>7

\* An end that was written ends its forwarder.
LEMMA WrittenTold == ASSUME TellInv, NEW c \in Clients, Write(c) PROVE Accounted'
<1> DEFINE w == writeCh[c]
           f == Head(w)
<1>1. /\ UNCHANGED <<hc, att, ch>> /\ w # <<>>
      /\ \A d \in Clients : sock'[d].in = sock[d].in
      /\ writeCh' = [writeCh EXCEPT ![c] = Tail(w)]
      /\ \/ /\ fwd[f.r] = "ack" /\ bridge' = bridge
            /\ fwd' = [fwd EXCEPT ![f.r] = IF Terminal(f) THEN "done" ELSE "wait"]
         \/ fwd[f.r] # "ack" /\ fwd' = fwd /\ bridge' = [bridge EXCEPT ![c] = "read"]
  <2>1. sock' = sock \/ \E q : sock' = [sock EXCEPT ![c].out = q]
    BY DEF Write
  <2>2. \A d \in Clients : sock'[d].in = sock[d].in
    BY <2>1, SameIn, Kept DEF TellInv
  <2> QED
    BY <2>2 DEF Write, connVars, agentVars
<1>2. ConnInv /\ ChannelTypes /\ PhaseTypes /\ Places /\ Writers
  BY Kept DEF TellInv, OrderInv
<1>3. w \in Seq(Reply) /\ f \in Reply /\ f = Head(w) /\ Tail(w) \in Seq(Reply)
  BY <1>1, <1>2, HeadTail DEF ChannelTypes
<1>4. f.r \in Reqs
  BY <1>3 DEF Reply
<1> HIDE DEF f
<1>5. \A q : /\ Ended(w, q) <=> Ended(Tail(w), q) \/ (f.r = q /\ Terminal(f))
             /\ Count(w, q) = One(f, q) + Count(Tail(w), q) /\ Count(Tail(w), q) \in Nat
  BY <1>1, <1>3, LineTail
<1>6. Count(w, f.r) = 1 + Count(Tail(w), f.r) /\ Count(Tail(w), f.r) \in Nat
  BY <1>5 DEF One
<1>7. Owner[f.r] = c
  BY <1>2, <1>4, <1>6 DEF Places
<1>8. Count(w, f.r) <= 1
  BY <1>2, <1>4, <1>7 DEF Writers
<1>9. Count(Tail(w), f.r) = 0
  BY <1>6, <1>8
<1>10. ~Ended(Tail(w), f.r)
  BY <1>3, <1>9, LineNone
<1>11. \A d \in Clients : writeCh'[d] = IF d = c THEN Tail(w) ELSE writeCh[d]
  BY <1>1, <1>2 DEF ChannelTypes
<1> SUFFICES ASSUME NEW r \in Reqs PROVE Sound(r)'
  BY DEF Accounted
<1>12. Sound(r) /\ Owner[r] \in Clients
  BY Constants DEF TellInv, Accounted
<1>13. Held(r)' => Held(r)
  BY <1>1, <1>2, <1>12 DEF Held, PhaseTypes
<1>14. fwd'[r] # "none" => fwd[r] # "none"
  BY <1>1, <1>2, <1>4 DEF PhaseTypes
<1>15. CASE r = f.r
  <2>1. Ended(writeCh[Owner[r]], r) /\ fwd[r] = "ack" => fwd'[r] = "done"
    BY <1>1, <1>2, <1>4, <1>5, <1>7, <1>10, <1>15 DEF PhaseTypes
  <2>2. fwd[r] = "done" => fwd'[r] = "done"
    BY <1>1, <1>15
  <2>3. Closed(r) => Closed(r)'
    BY <1>1, <2>1, <2>2 DEF Closed
  <2> QED
    BY <1>1, <1>2, <1>12, <1>13, <1>14, <2>3, SoundStep
<1>16. CASE r # f.r
  <2>1. fwd'[r] = fwd[r]
    BY <1>1, <1>2, <1>4, <1>16 DEF PhaseTypes
  <2>2. Ended(writeCh[Owner[r]], r) => Ended(writeCh'[Owner[r]], r)
    BY <1>5, <1>11, <1>12, <1>16
  <2>3. Closed(r) => Closed(r)'
    BY <1>1, <2>1, <2>2 DEF Closed
  <2> QED
    BY <1>1, <1>2, <1>12, <1>13, <1>14, <2>3, SoundStep
<1> QED
  BY <1>15, <1>16

LEMMA NextTold == TellInv /\ [Next]_vars => Accounted'
<1> SUFFICES ASSUME TellInv, [Next]_vars PROVE Accounted'
  OBVIOUS
<1>1. CASE UNCHANGED vars
  <2>1. UNCHANGED <<hc, att, sock, writeCh, ch, fwd, bridge>>
    BY <1>1 DEF vars, connVars, clientVars, bridgeVars
  <2> QED
    BY <2>1, CalmTold DEF Held
<1>2. CASE \E c \in Clients : ClientRead(c) \/ HangUp(c) \/ AttachFails(c) \/ Bridge(c) \/ Write(c)
  BY <1>2, EnvironmentTold, AttachTold, RegisterTold, SendTold, ForwardedTold, WrittenTold DEF Bridge
<1>3. CASE \E r \in Reqs : ClientSend(r) \/ ForwardReply(r)
  BY <1>3, EnvironmentTold, HandOverTold
<1>4. CASE \E g \in Gens : AgentDies(g) \/ PumpToAgent(g) \/ FromAgent(g)
                            \/ \E r \in Reqs : AgentOutput(g, r) \/ AgentAnswer(g, r)
  BY <1>4, EnvironmentTold, ForwardedTold, PumpTold, FailTold DEF FromAgent
<1> QED
  BY <1>1, <1>2, <1>3, <1>4 DEF Next

\* LostAreTold for every number of clients, requests and connections: failAll leaves
\* no request that was sent over a broken connection without its answer, except one
\* registered behind its back, whose route still stands.
THEOREM RequestsTold == Spec => []LostAreTold
<1>1. Init => TellInv
  <2>1. Init => Accounted
    BY Constants DEF Init, Accounted, Sound, Held
  <2> QED
    BY <2>1, InitConn, InitOrder DEF TellInv
<1>2. TellInv /\ [Next]_vars => TellInv'
  BY NextConn, NextOrder, NextTold DEF TellInv
<1>3. TellInv => LostAreTold
  <2> SUFFICES ASSUME TellInv, NEW r \in Reqs, fwd[r] # "none", hc[att[Owner[r]]].closed,
                      r \notin hc[att[Owner[r]]].routes
               PROVE  Told(r)
    BY DEF LostAreTold
  <2>1. Sound(r) /\ Closing /\ ConnTypes /\ Owner[r] \in Clients
    BY Kept, Constants DEF TellInv, Accounted
  <2>2. att[Owner[r]] # 0
    BY <2>1 DEF Sound
  <2>3. att[Owner[r]] \in Gens
    BY <2>1, <2>2 DEF ConnTypes, Gens
  <2>4. hc[att[Owner[r]]].failing = {}
    BY <2>1, <2>3 DEF Closing
  <2>5. Closed(r)
    BY <2>1, <2>4 DEF Sound
  <2> QED
    BY <2>5 DEF Closed, Told, Ended
<1> QED
  BY <1>1, <1>2, <1>3, PTL DEF Spec
=============================================================================
