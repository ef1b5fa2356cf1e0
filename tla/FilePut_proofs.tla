--------------------------- MODULE FilePut_proofs ----------------------------
(***************************************************************************)
(* Proofs about uploads, for every number of them and every size: when the  *)
(* uploads of a connection are for one path, and no other connection writes *)
(* there, a path holds one whole upload and ok means that it is stored.     *)
(***************************************************************************)
EXTENDS FilePut, SequenceTheorems, TLAPS

\* What put_mixed and two developers on one host violate.
OnePathEach == \A u, v \in Uploads : Via[u] = Via[v] <=> Target[u] = Target[v]

Frame == [kind : {"request", "chunk"}, q : Requests, n : Nat]
Token == Uploads \X (1..Chunks)
Loop == [at : {"read", "put", "done", "renamed", "dead"}, put : Uploads \cup {Nobody},
         stream : Seq(Token), sha : Seq(Token)]
Descriptor == [inode : Uploads \cup {Nobody}, off : Nat]

Types ==
    /\ client \in [Requests -> {"idle", "sending", "waiting", "gaveup", "ok", "failed"}]
    /\ next \in [Uploads -> 1..(Chunks + 1)]
    /\ input \in [Agents -> Seq(Frame)]
    /\ loop \in [Agents -> Loop]
    /\ fd \in [Agents -> Descriptor]
    /\ name \in [Paths -> Uploads \cup {Old}] /\ tmp \in [Paths -> Uploads \cup {Nobody}]
    /\ data \in [Uploads \cup {Old} -> Seq(Token)]

\* The next chunk of an upload that sends is one of the file's; an agent in a put
\* has a file open.
Shape ==
    /\ \A u \in Uploads : client[u] \in {"idle", "sending"} => next[u] <= Chunks
    /\ \A a \in Agents : \A j \in 1..Len(input[a]) :
         input[a][j].kind = "chunk" => input[a][j].q \in Uploads /\ input[a][j].n \in 1..Chunks
    /\ \A a \in Agents :
         /\ loop[a].at \in {"put", "done", "renamed"} <=> loop[a].put \in Uploads
         /\ loop[a].at \in {"put", "done"} <=> fd[a].inode # Nobody

IsRequest(f, u) == f.kind = "request" /\ f.q = u

\* Frames come from clients that have started, over their own connection, and the
\* Request of an upload comes once.
Delivery ==
    /\ \A a \in Agents : \A j \in 1..Len(input[a]) :
         Via[input[a][j].q] = a /\ client[input[a][j].q] # "idle"
    /\ \A a \in Agents : \A j, k \in 1..Len(input[a]) :
         input[a][j].kind = "request" /\ IsRequest(input[a][k], input[a][j].q) => j = k

\* Until the Request is read, the upload's own inode does not exist.
Asked(u) == \E a \in Agents : \E j \in 1..Len(input[a]) : IsRequest(input[a][j], u)
Unborn == \A u \in Uploads :
    client[u] = "idle" \/ Asked(u) => name[Target[u]] # u /\ tmp[Target[u]] # u

\* An agent that receives: its file is at the temporary name and holds the stream.
Receives(a) ==
    /\ loop[a].at \in {"put", "done", "renamed"} => Via[loop[a].put] = a
    /\ loop[a].at \in {"put", "done"} =>
         /\ tmp[Target[loop[a].put]] = fd[a].inode
         /\ data[fd[a].inode] = loop[a].stream /\ fd[a].off = Len(loop[a].stream)
    /\ loop[a].at = "done" =>
         \E v \in Uploads : Via[v] = a /\ client[v] # "idle" /\ loop[a].sha = Content(v)
    /\ loop[a].at = "renamed" => name[Target[loop[a].put]] # Old

\* The inodes of a path were made for it, the two names are never the same file,
\* and the final one holds what somebody who has started uploads.
Stores(p) ==
    /\ tmp[p] # Nobody => Target[tmp[p]] = p /\ tmp[p] # name[p]
    /\ name[p] # Old =>
         /\ Target[name[p]] = p
         /\ \E v \in Uploads : Target[v] = p /\ client[v] # "idle" /\ data[name[p]] = Content(v)

Told == \A u \in Uploads : client[u] = "ok" => name[Target[u]] # Old

PutInv ==
    /\ Types /\ Shape /\ Delivery /\ Unborn /\ Told
    /\ \A a \in Agents : Receives(a)
    /\ \A p \in Paths : Stores(p)

-----------------------------------------------------------------------------
(* The data *)

\* The constants, and the values that stand for no upload.
LEMMA Constants ==
    /\ Chunks \in Nat \ {0}
    /\ \A q \in Requests : Via[q] \in Agents
    /\ \A u \in Uploads : Target[u] \in Paths /\ u \in Requests /\ u # Old /\ u # Nobody
    /\ Old # Nobody /\ \A x \in Execs : x \in Requests /\ x \notin Uploads
BY FilePutAssumption DEF Requests, Old, Nobody

\* What a local file holds is a sequence of its tokens.
LEMMA ContentType ==
    ASSUME NEW u \in Uploads
    PROVE  Content(u) \in Seq(Token)
BY Constants DEF Content, Token

\* Writing at the end of a file appends to it.
LEMMA WriteAtEnd ==
    ASSUME NEW c \in Seq(Token), NEW tok \in Token
    PROVE  WriteAt(c, Len(c), tok) = Append(c, tok)
<1>1. Len(c) \in Nat /\ DOMAIN c = 1..Len(c) /\ ~(Len(c) > Len(c))
  OBVIOUS
<1>2. WriteAt(c, Len(c), tok) = [j \in 1..(Len(c) + 1) |-> IF j = Len(c) + 1 THEN tok ELSE c[j]]
  BY <1>1 DEF WriteAt
<1>3. WriteAt(c, Len(c), tok) \in Seq(Token) /\ Append(c, tok) \in Seq(Token)
  BY <1>1, <1>2
<1>4. /\ Len(WriteAt(c, Len(c), tok)) = Len(c) + 1 /\ Len(Append(c, tok)) = Len(c) + 1
      /\ \A j \in 1..(Len(c) + 1) : WriteAt(c, Len(c), tok)[j] = Append(c, tok)[j]
  BY <1>1, <1>2
<1> QED
  BY <1>3, <1>4, SeqEqual

\* The first frame and the others.
LEMMA TailFacts ==
    ASSUME NEW s \in Seq(Frame), s # <<>>
    PROVE  /\ Tail(s) \in Seq(Frame) /\ Len(s) \in Nat \ {0} /\ Len(Tail(s)) = Len(s) - 1
           /\ Head(s) = s[1] /\ Head(s) \in Frame
           /\ \A j \in 1..Len(Tail(s)) : Tail(s)[j] = s[j + 1] /\ j + 1 \in 1..Len(s)
OBVIOUS

\* One frame more.
LEMMA AppendFacts ==
    ASSUME NEW s \in Seq(Frame), NEW f \in Frame
    PROVE  /\ Append(s, f) \in Seq(Frame) /\ Len(s) \in Nat /\ Len(Append(s, f)) = Len(s) + 1
           /\ \A j \in 1..Len(s) : Append(s, f)[j] = s[j]
           /\ Append(s, f)[Len(s) + 1] = f
OBVIOUS

-----------------------------------------------------------------------------
(* The input of an agent *)

Starts == \A q \in Requests : client[q] # "idle" => client'[q] # "idle"

\* Reading a frame loses nothing of what is known of the others.
LEMMA Consumed ==
    ASSUME Types, Shape, Delivery, NEW a \in Agents, input[a] # <<>>,
           input' = [input EXCEPT ![a] = Tail(@)], Starts
    PROVE  /\ input' \in [Agents -> Seq(Frame)] /\ Delivery'
           /\ \A b \in Agents : \A j \in 1..Len(input'[b]) :
                /\ input'[b][j].kind = "chunk" => input'[b][j].q \in Uploads /\ input'[b][j].n \in 1..Chunks
                /\ \E k \in 1..Len(input[b]) : input'[b][j] = input[b][k] /\ (b = a => k = j + 1)
           /\ Head(input[a]) \in Frame /\ Head(input[a]) = input[a][1] /\ 1 \in 1..Len(input[a])
<1>1. /\ input \in [Agents -> Seq(Frame)]
      /\ input'[a] = Tail(input[a]) /\ \A b \in Agents : b # a => input'[b] = input[b]
  BY DEF Types
<1>2. /\ Tail(input[a]) \in Seq(Frame) /\ Len(input[a]) \in Nat \ {0} /\ Len(input'[a]) = Len(input[a]) - 1
      /\ Head(input[a]) \in Frame /\ Head(input[a]) = input[a][1]
      /\ \A j \in 1..Len(input'[a]) : input'[a][j] = input[a][j + 1] /\ j + 1 \in 1..Len(input[a])
  BY <1>1, TailFacts
<1>3. input' \in [Agents -> Seq(Frame)]
  BY <1>1, <1>2
<1>4. \A b \in Agents : \A j \in 1..Len(input'[b]) :
        \E k \in 1..Len(input[b]) : input'[b][j] = input[b][k] /\ (b = a => k = j + 1)
  BY <1>1, <1>2
<1>5. ASSUME NEW b \in Agents, NEW j \in 1..Len(input[b]) PROVE input[b][j].q \in Requests
  <2>1. input[b] \in Seq(Frame)
    BY <1>1
  <2>2. input[b][j] \in Frame
    BY <2>1
  <2> QED
    BY <2>2 DEF Frame
<1>6. ASSUME NEW b \in Agents, NEW j \in 1..Len(input'[b])
      PROVE  Via[input'[b][j].q] = b /\ client'[input'[b][j].q] # "idle"
  <2>1. PICK k \in 1..Len(input[b]) : input'[b][j] = input[b][k]
    BY <1>4
  <2>2. Via[input[b][k].q] = b /\ client[input[b][k].q] # "idle"
    BY DEF Delivery
  <2> QED
    BY <1>5, <2>1, <2>2 DEF Starts
<1>7. ASSUME NEW b \in Agents, NEW j \in 1..Len(input'[b]), NEW k \in 1..Len(input'[b]),
             input'[b][j].kind = "request", IsRequest(input'[b][k], input'[b][j].q)
      PROVE  j = k
  <2>1. CASE b = a
    BY <1>2, <1>7, <2>1 DEF Delivery
  <2>2. CASE b # a
    BY <1>1, <1>7, <2>2 DEF Delivery
  <2> QED
    BY <2>1, <2>2
<1>8. \A b \in Agents : \A j \in 1..Len(input'[b]) :
        input'[b][j].kind = "chunk" => input'[b][j].q \in Uploads /\ input'[b][j].n \in 1..Chunks
  BY <1>4 DEF Shape
<1>9. Delivery'
  <2>1. \A b \in Agents : \A j \in 1..Len(input'[b]) :
          Via[input'[b][j].q] = b /\ client'[input'[b][j].q] # "idle"
    BY <1>6
  <2>2. \A b \in Agents : \A j, k \in 1..Len(input'[b]) :
          input'[b][j].kind = "request" /\ IsRequest(input'[b][k], input'[b][j].q) => j = k
    BY <1>7
  <2> QED
    BY <2>1, <2>2 DEF Delivery, IsRequest
<1> QED
  BY <1>2, <1>3, <1>4, <1>8, <1>9, SMTT(30)

-----------------------------------------------------------------------------
(* The invariant *)

\* The initial states satisfy the invariant.
LEMMA InitInv == Init => PutInv
<1> SUFFICES ASSUME Init PROVE PutInv
  OBVIOUS
<1> USE Constants DEF Init, Idle, Closed
<1>1. Types
  <2>1. <<>> \in Seq(Token) /\ <<>> \in Seq(Frame) /\ Idle \in Loop /\ Closed \in Descriptor
    BY DEF Loop, Descriptor
  <2> QED
    BY <2>1 DEF Types
<1>2. Shape /\ Delivery
  BY DEF Shape, Delivery
<1>3. Unborn /\ Told
  BY DEF Unborn, Told, Asked
<1>4. \A a \in Agents : Receives(a)
  BY DEF Receives
<1>5. \A p \in Paths : Stores(p)
  BY DEF Stores
<1> QED
  BY <1>1, <1>2, <1>3, <1>4, <1>5 DEF PutInv

\* A step that leaves the agents and the files alone keeps what is known of them.
LEMMA Untouched ==
    ASSUME PutInv, UNCHANGED <<loop, fd, name, tmp, data>>, Starts
    PROVE  /\ \A a \in Agents : Receives(a)'
           /\ \A p \in Paths : Stores(p)'
<1>1. \A a \in Agents : Receives(a)'
  BY Constants DEF PutInv, Receives, Starts, Content
<1>2. \A p \in Paths : Stores(p)'
  BY Constants DEF PutInv, Stores, Starts, Content
<1> QED
  BY <1>1, <1>2

Mine(a, p) == \E u \in Uploads : Target[u] = p /\ Via[u] = a

\* A step of one agent keeps what is known of the others and of their paths.
LEMMA OtherAgents ==
    ASSUME OnePathEach, PutInv, NEW a \in Agents, Starts,
           \A b \in Agents \ {a} : loop'[b] = loop[b] /\ fd'[b] = fd[b],
           \A p \in Paths : ~Mine(a, p) => name'[p] = name[p] /\ tmp'[p] = tmp[p],
           \A u \in Uploads : Via[u] # a => data'[u] = data[u]
    PROVE  /\ \A b \in Agents \ {a} : Receives(b)'
           /\ \A p \in Paths : ~Mine(a, p) => Stores(p)'
<1> USE Constants
<1>1. ASSUME NEW b \in Agents \ {a} PROVE Receives(b)'
  <2>1. Receives(b) /\ loop'[b] = loop[b] /\ fd'[b] = fd[b] /\ loop[b].put \in Uploads \cup {Nobody}
    BY DEF PutInv, Types, Loop
  <2>2. CASE loop[b].at \notin {"put", "done", "renamed"}
    BY <2>1, <2>2 DEF Receives
  <2>3. CASE loop[b].at \in {"put", "done", "renamed"}
    <3> DEFINE u == loop[b].put
    <3>1. u \in Uploads /\ Via[u] = b /\ Target[u] \in Paths /\ ~Mine(a, Target[u])
      BY <2>1, <2>3 DEF PutInv, Shape, Receives, OnePathEach, Mine
    <3>2. name'[Target[u]] = name[Target[u]] /\ tmp'[Target[u]] = tmp[Target[u]]
      BY <3>1
    <3>3. loop[b].at \in {"put", "done"} => data'[fd[b].inode] = data[fd[b].inode]
      <4> SUFFICES ASSUME loop[b].at \in {"put", "done"} PROVE data'[fd[b].inode] = data[fd[b].inode]
        OBVIOUS
      <4>1. fd[b].inode = tmp[Target[u]] /\ fd[b].inode # Nobody /\ fd[b].inode \in Uploads
        BY <2>1, <3>1 DEF Receives, PutInv, Shape, Types, Descriptor
      <4>2. Target[fd[b].inode] = Target[u]
        BY <3>1, <4>1 DEF PutInv, Stores
      <4>3. Via[fd[b].inode] = b
        BY <3>1, <4>1, <4>2 DEF OnePathEach
      <4> QED
        BY <4>1, <4>3
    <3>4. loop[b].at = "done" =>
            \E v \in Uploads : Via[v] = b /\ client'[v] # "idle" /\ loop[b].sha = Content(v)
      BY <2>1 DEF Receives, Starts
    <3>5. loop[b].at \in {"put", "done"} =>
            /\ tmp'[Target[u]] = fd[b].inode
            /\ data'[fd[b].inode] = loop[b].stream /\ fd[b].off = Len(loop[b].stream)
      BY <2>1, <3>2, <3>3 DEF Receives
    <3>6. loop[b].at = "renamed" => name'[Target[u]] # Old
      BY <2>1, <3>2 DEF Receives
    <3> QED
      BY <2>1, <3>1, <3>4, <3>5, <3>6 DEF Receives
  <2> QED
    BY <2>2, <2>3
<1>2. ASSUME NEW p \in Paths, ~Mine(a, p) PROVE Stores(p)'
  <2>1. Stores(p) /\ name'[p] = name[p] /\ tmp'[p] = tmp[p] /\ name[p] \in Uploads \cup {Old}
    BY <1>2 DEF PutInv, Types
  <2>2. name[p] # Old => data'[name[p]] = data[name[p]]
    BY <1>2, <2>1 DEF Stores, Mine
  <2>3. tmp'[p] # Nobody => Target[tmp'[p]] = p /\ tmp'[p] # name'[p]
    BY <2>1 DEF Stores
  <2>4. ASSUME name'[p] # Old
        PROVE  /\ Target[name'[p]] = p
               /\ \E v \in Uploads : Target[v] = p /\ client'[v] # "idle" /\ data'[name'[p]] = Content(v)
    <3>1. PICK v \in Uploads : Target[v] = p /\ client[v] # "idle" /\ data[name[p]] = Content(v)
      BY <2>1, <2>4 DEF Stores
    <3>2. client'[v] # "idle"
      BY <3>1 DEF Starts
    <3> QED
      BY <2>1, <2>2, <2>4, <3>1, <3>2 DEF Stores
  <2> QED
    BY <2>3, <2>4 DEF Stores, Content
<1> QED
  BY <1>1, <1>2

\* A Request preserves the invariant.
LEMMA ClientRequestInv == PutInv /\ (\E q \in Requests : ClientRequest(q)) => PutInv'
<1> SUFFICES ASSUME PutInv, NEW q \in Requests, ClientRequest(q) PROVE PutInv'
  OBVIOUS
<1> USE Constants DEF ClientRequest, Becomes, Put
<1> DEFINE a == Via[q]
           f == [kind |-> "request", q |-> q, n |-> 0]
<1>1. /\ client[q] = "idle" /\ client' \in [Requests -> {"idle", "sending", "waiting", "gaveup", "ok", "failed"}]
      /\ client'[q] \in {"sending", "waiting"} /\ \A r \in Requests : r # q => client'[r] = client[r]
      /\ input' = [input EXCEPT ![a] = Append(@, f)] /\ f \in Frame /\ a \in Agents
      /\ UNCHANGED <<next, loop, fd, name, tmp, data>> /\ Starts
  BY DEF PutInv, Types, Frame, Starts
<1>2. /\ input[a] \in Seq(Frame) /\ input'[a] = Append(input[a], f) /\ Len(input[a]) \in Nat
      /\ Append(input[a], f) \in Seq(Frame) /\ Len(input'[a]) = Len(input[a]) + 1
      /\ \A j \in 1..Len(input[a]) : input'[a][j] = input[a][j]
      /\ input'[a][Len(input[a]) + 1] = f
      /\ \A b \in Agents : b # a => input'[b] = input[b]
  BY <1>1, AppendFacts DEF PutInv, Types
<1>3. Types'
  BY <1>1, <1>2 DEF PutInv, Types
<1>4. \A b \in Agents : \A j \in 1..Len(input'[b]) :
        \/ j \in 1..Len(input[b]) /\ input'[b][j] = input[b][j]
        \/ b = a /\ j = Len(input[a]) + 1 /\ input'[b][j] = f
  BY <1>2
<1>5. Shape'
  BY <1>1, <1>4 DEF PutInv, Shape
<1>6. \A b \in Agents : \A j \in 1..Len(input[b]) : input[b][j].q \in Requests /\ input[b][j].q # q
  <2> SUFFICES ASSUME NEW b \in Agents, NEW j \in 1..Len(input[b])
               PROVE  input[b][j].q \in Requests /\ input[b][j].q # q
    OBVIOUS
  <2>1. input[b] \in Seq(Frame)
    BY DEF PutInv, Types
  <2>2. input[b][j] \in Frame
    BY <2>1
  <2>3. client[input[b][j].q] # "idle"
    BY DEF PutInv, Delivery
  <2> QED
    BY <1>1, <2>2, <2>3 DEF Frame
<1>7. Delivery'
  <2>1. \A b \in Agents : \A j \in 1..Len(input'[b]) :
          Via[input'[b][j].q] = b /\ client'[input'[b][j].q] # "idle"
    BY <1>1, <1>4, <1>6 DEF PutInv, Delivery
  <2>2. ASSUME NEW b \in Agents, NEW j \in 1..Len(input'[b]), NEW k \in 1..Len(input'[b]),
               input'[b][j].kind = "request", IsRequest(input'[b][k], input'[b][j].q)
        PROVE  j = k
    <3>1. input'[b][k].q = input'[b][j].q /\ input'[b][k].kind = "request"
      BY <2>2 DEF IsRequest
    <3>2. CASE j \in 1..Len(input[b]) /\ input'[b][j] = input[b][j]
      <4>1. input'[b][k] # f
        BY <1>6, <3>1, <3>2
      <4>2. k \in 1..Len(input[b]) /\ input'[b][k] = input[b][k]
        BY <1>4, <4>1
      <4> QED
        BY <2>2, <3>1, <3>2, <4>2 DEF PutInv, Delivery, IsRequest
    <3>3. CASE b = a /\ j = Len(input[a]) + 1 /\ input'[b][j] = f
      <4>1. ~(k \in 1..Len(input[b]) /\ input'[b][k] = input[b][k])
        BY <1>6, <3>1, <3>3
      <4> QED
        BY <1>4, <3>3, <4>1
    <3> QED
      BY <1>4, <3>2, <3>3
  <2>3. \A b \in Agents : \A j, k \in 1..Len(input'[b]) :
          input'[b][j].kind = "request" /\ IsRequest(input'[b][k], input'[b][j].q) => j = k
    BY <2>2
  <2> QED
    BY <2>1, <2>3 DEF Delivery, IsRequest
<1>8. Unborn'
  <2> SUFFICES ASSUME NEW u \in Uploads, client'[u] = "idle" \/ Asked(u)'
               PROVE  name[Target[u]] # u /\ tmp[Target[u]] # u
    BY <1>1 DEF Unborn
  <2>1. CASE client'[u] = "idle"
    BY <1>1, <2>1 DEF PutInv, Unborn
  <2>2. CASE Asked(u)'
    <3>0. PICK b \in Agents : \E j \in 1..Len(input'[b]) : IsRequest(input'[b][j], u)
      BY <2>2 DEF Asked, IsRequest
    <3>1. PICK j \in 1..Len(input'[b]) : IsRequest(input'[b][j], u)
      BY <3>0
    <3>2. CASE j \in 1..Len(input[b]) /\ input'[b][j] = input[b][j]
      BY <3>1, <3>2 DEF PutInv, Unborn, Asked
    <3>3. CASE input'[b][j] = f
      <4>1. u = q
        BY <3>1, <3>3 DEF IsRequest
      <4> QED
        BY <1>1, <4>1 DEF PutInv, Unborn
    <3> QED
      BY <1>4, <3>2, <3>3
  <2> QED
    BY <2>1, <2>2
<1>9. Told'
  BY <1>1 DEF PutInv, Told
<1> QED
  BY <1>1, <1>3, <1>5, <1>7, <1>8, <1>9, Untouched DEF PutInv

\* A chunk on its way preserves the invariant.
LEMMA ClientChunkInv == PutInv /\ (\E u \in Uploads : ClientChunk(u)) => PutInv'
<1> SUFFICES ASSUME PutInv, NEW u \in Uploads, ClientChunk(u) PROVE PutInv'
  OBVIOUS
<1> USE Constants DEF ClientChunk, Put
<1> DEFINE a == Via[u]
           f == [kind |-> "chunk", q |-> u, n |-> next[u]]
<1>1. /\ client[u] = "sending" /\ next[u] \in 1..Chunks /\ a \in Agents
      /\ client' \in [Requests -> {"idle", "sending", "waiting", "gaveup", "ok", "failed"}]
      /\ client' = client \/ client' = [client EXCEPT ![u] = "waiting"]
      /\ next[u] = Chunks => client'[u] = "waiting"
      /\ input' = [input EXCEPT ![a] = Append(@, f)] /\ f \in Frame
      /\ next' = [next EXCEPT ![u] = next[u] + 1]
      /\ UNCHANGED <<loop, fd, name, tmp, data>>
  BY DEF PutInv, Types, Shape, Frame
<1>2. Starts
  BY <1>1 DEF Starts, PutInv, Types
<1>3. /\ input[a] \in Seq(Frame) /\ input'[a] = Append(input[a], f) /\ Len(input[a]) \in Nat
      /\ Append(input[a], f) \in Seq(Frame) /\ Len(input'[a]) = Len(input[a]) + 1
      /\ \A j \in 1..Len(input[a]) : input'[a][j] = input[a][j]
      /\ input'[a][Len(input[a]) + 1] = f
      /\ \A b \in Agents : b # a => input'[b] = input[b]
  BY <1>1, AppendFacts DEF PutInv, Types
<1>4. \A b \in Agents : \A j \in 1..Len(input'[b]) :
        \/ j \in 1..Len(input[b]) /\ input'[b][j] = input[b][j]
        \/ b = a /\ j = Len(input[a]) + 1 /\ input'[b][j] = f
  BY <1>3
<1>5. Types'
  BY <1>1, <1>3 DEF PutInv, Types
<1>6. Shape'
  <2>1. \A v \in Uploads : client'[v] \in {"idle", "sending"} => next'[v] <= Chunks
    BY <1>1 DEF PutInv, Types, Shape
  <2>2. \A b \in Agents : \A j \in 1..Len(input'[b]) :
          input'[b][j].kind = "chunk" => input'[b][j].q \in Uploads /\ input'[b][j].n \in 1..Chunks
    BY <1>1, <1>4 DEF PutInv, Shape
  <2> QED
    BY <1>1, <2>1, <2>2 DEF PutInv, Shape
<1>7. \A b \in Agents : \A j \in 1..Len(input[b]) : input[b][j].q \in Requests
  <2> SUFFICES ASSUME NEW b \in Agents, NEW j \in 1..Len(input[b]) PROVE input[b][j].q \in Requests
    OBVIOUS
  <2>1. input[b] \in Seq(Frame)
    BY DEF PutInv, Types
  <2>2. input[b][j] \in Frame
    BY <2>1
  <2> QED
    BY <2>2 DEF Frame
<1>8. Delivery'
  <2>1. \A b \in Agents : \A j \in 1..Len(input'[b]) :
          Via[input'[b][j].q] = b /\ client'[input'[b][j].q] # "idle"
    BY <1>1, <1>2, <1>4, <1>7 DEF PutInv, Delivery, Starts
  <2>2. ASSUME NEW b \in Agents, NEW j \in 1..Len(input'[b]), NEW k \in 1..Len(input'[b]),
               input'[b][j].kind = "request", IsRequest(input'[b][k], input'[b][j].q)
        PROVE  j = k
    <3>1. input'[b][j] # f /\ input'[b][k] # f
      BY <2>2 DEF IsRequest
    <3>2. /\ j \in 1..Len(input[b]) /\ input'[b][j] = input[b][j]
          /\ k \in 1..Len(input[b]) /\ input'[b][k] = input[b][k]
      BY <1>4, <3>1
    <3> QED
      BY <2>2, <3>2 DEF PutInv, Delivery, IsRequest
  <2>3. \A b \in Agents : \A j, k \in 1..Len(input'[b]) :
          input'[b][j].kind = "request" /\ IsRequest(input'[b][k], input'[b][j].q) => j = k
    BY <2>2
  <2> QED
    BY <2>1, <2>3 DEF Delivery, IsRequest
<1>9. Unborn'
  <2> SUFFICES ASSUME NEW v \in Uploads, client'[v] = "idle" \/ Asked(v)'
               PROVE  name[Target[v]] # v /\ tmp[Target[v]] # v
    BY <1>1 DEF Unborn
  <2>1. CASE client'[v] = "idle"
    BY <1>1, <2>1 DEF PutInv, Types, Unborn
  <2>2. CASE Asked(v)'
    <3>0. PICK b \in Agents : \E j \in 1..Len(input'[b]) : IsRequest(input'[b][j], v)
      BY <2>2 DEF Asked, IsRequest
    <3>1. PICK j \in 1..Len(input'[b]) : IsRequest(input'[b][j], v)
      BY <3>0
    <3>2. input'[b][j] # f
      BY <3>1 DEF IsRequest
    <3>3. j \in 1..Len(input[b]) /\ input'[b][j] = input[b][j]
      BY <1>4, <3>2
    <3> QED
      BY <3>1, <3>3 DEF PutInv, Unborn, Asked
  <2> QED
    BY <2>1, <2>2
<1>10. Told'
  BY <1>1 DEF PutInv, Types, Told
<1> QED
  BY <1>1, <1>2, <1>5, <1>6, <1>8, <1>9, <1>10, Untouched DEF PutInv

\* A client that gives up preserves the invariant.
LEMMA ClientGivesUpInv == PutInv /\ (\E u \in Uploads : ClientGivesUp(u)) => PutInv'
<1> SUFFICES ASSUME PutInv, NEW u \in Uploads, ClientGivesUp(u) PROVE PutInv'
  OBVIOUS
<1> USE Constants DEF ClientGivesUp, Becomes
<1>1. /\ client \in [Requests -> {"idle", "sending", "waiting", "gaveup", "ok", "failed"}]
      /\ client' \in [Requests -> {"idle", "sending", "waiting", "gaveup", "ok", "failed"}]
      /\ client' = [client EXCEPT ![u] = "gaveup"] /\ client[u] = "sending"
      /\ UNCHANGED <<next, input, loop, fd, name, tmp, data>>
  BY DEF PutInv, Types
<1>2. Starts
  BY <1>1 DEF Starts
<1>3. Types' /\ Shape' /\ Told'
  BY <1>1 DEF PutInv, Types, Shape, Told
<1>4. Delivery'
  <2>1. \A b \in Agents : \A j \in 1..Len(input[b]) : client'[input[b][j].q] # "idle"
    BY <1>1 DEF PutInv, Delivery
  <2> QED
    BY <1>1, <2>1 DEF PutInv, Delivery, IsRequest
<1>5. Unborn'
  BY <1>1 DEF PutInv, Unborn, Asked, IsRequest
<1> QED
  BY <1>1, <1>2, <1>3, <1>4, <1>5, Untouched DEF PutInv

-----------------------------------------------------------------------------
(* What the agent's steps have in common *)

\* A client's state is of its type, and nobody starts or goes back.
ClientsGoOn ==
    /\ client' \in [Requests -> {"idle", "sending", "waiting", "gaveup", "ok", "failed"}]
    /\ Starts
    /\ \A q \in Requests : client'[q] \in {"idle", "sending"} => client'[q] = client[q]

\* An answer reaches at most the client of the request.
LEMMA Answering ==
    ASSUME Types, NEW q \in Requests, NEW ok \in BOOLEAN, Answer(q, ok)
    PROVE  /\ ClientsGoOn
           /\ \A r \in Requests : client'[r] = "ok" => client[r] = "ok" \/ (r = q /\ ok)
BY DEF Types, Answer, ClientsGoOn, Starts

\* What holds of the input after a frame was read.
LEMMA Reading ==
    ASSUME PutInv, NEW a \in Agents, NEW at, Reads(a, at), ClientsGoOn
    PROVE  /\ input' \in [Agents -> Seq(Frame)] /\ Delivery'
           /\ \A b \in Agents : \A j \in 1..Len(input'[b]) :
                input'[b][j].kind = "chunk" => input'[b][j].q \in Uploads /\ input'[b][j].n \in 1..Chunks
           /\ \A u \in Uploads : Asked(u)' => Asked(u) /\ ~IsRequest(Head(input[a]), u)
           /\ Head(input[a]) \in Frame /\ Head(input[a]).q \in Requests
           /\ Via[Head(input[a]).q] = a /\ client[Head(input[a]).q] # "idle"
           /\ Head(input[a]).kind = "chunk" => Head(input[a]).q \in Uploads /\ Head(input[a]).n \in 1..Chunks
           /\ \A u \in Uploads : IsRequest(Head(input[a]), u) => Asked(u)
<1>1. input[a] # <<>> /\ input' = [input EXCEPT ![a] = Tail(@)] /\ Types /\ Shape /\ Delivery /\ Starts
  BY DEF Reads, PutInv, ClientsGoOn
<1>2. /\ input' \in [Agents -> Seq(Frame)] /\ Delivery'
      /\ \A b \in Agents : \A j \in 1..Len(input'[b]) :
           /\ input'[b][j].kind = "chunk" => input'[b][j].q \in Uploads /\ input'[b][j].n \in 1..Chunks
           /\ \E k \in 1..Len(input[b]) : input'[b][j] = input[b][k] /\ (b = a => k = j + 1)
      /\ Head(input[a]) \in Frame /\ Head(input[a]) = input[a][1] /\ 1 \in 1..Len(input[a])
  BY <1>1, Consumed
<1>3. ASSUME NEW u \in Uploads, Asked(u)' PROVE Asked(u) /\ ~IsRequest(Head(input[a]), u)
  <2>1. PICK b \in Agents : \E j \in 1..Len(input'[b]) : IsRequest(input'[b][j], u)
    BY <1>3 DEF Asked, IsRequest
  <2>2. PICK j \in 1..Len(input'[b]) : IsRequest(input'[b][j], u)
    BY <2>1
  <2>3. PICK k \in 1..Len(input[b]) : input'[b][j] = input[b][k] /\ (b = a => k = j + 1)
    BY <1>2
  <2>4. IsRequest(input[b][k], u)
    BY <2>2, <2>3
  <2>5. Asked(u)
    BY <2>4 DEF Asked
  <2>6. ASSUME IsRequest(Head(input[a]), u) PROVE FALSE
    <3>1. IsRequest(input[a][1], u)
      BY <1>2, <2>6
    <3>2. b = a
      <4>1. \A c \in Agents : \A i \in 1..Len(input[c]) : Via[input[c][i].q] = c
        BY <1>1 DEF Delivery
      <4>2. input[b][k].q = u /\ input[a][1].q = u
        BY <2>4, <3>1 DEF IsRequest
      <4>3. Via[input[b][k].q] = b /\ Via[input[a][1].q] = a
        BY <1>2, <4>1
      <4> QED
        BY <4>2, <4>3
    <3>3. input[a][1].kind = "request" /\ IsRequest(input[a][k], input[a][1].q)
      BY <2>4, <3>1, <3>2 DEF IsRequest
    <3>4. 1 = k
      BY <1>1, <1>2, <3>2, <3>3, SMTT(30) DEF Delivery
    <3>5. j \in Nat \ {0}
      BY <1>2 DEF Types
    <3> QED
      BY <2>3, <3>2, <3>4, <3>5
  <2> QED
    BY <2>5, <2>6
<1>4. /\ Head(input[a]).q \in Requests
      /\ Via[Head(input[a]).q] = a /\ client[Head(input[a]).q] # "idle"
      /\ Head(input[a]).kind = "chunk" => Head(input[a]).q \in Uploads /\ Head(input[a]).n \in 1..Chunks
  BY <1>1, <1>2 DEF Delivery, Shape, Frame
<1>5. \A u \in Uploads : IsRequest(Head(input[a]), u) => Asked(u)
  BY <1>2 DEF Asked
<1> QED
  BY <1>2, <1>3, <1>4, <1>5

\* The paths of an agent are one.
LEMMA OwnPath ==
    ASSUME OnePathEach, NEW a \in Agents, NEW u \in Uploads, Via[u] = a
    PROVE  \A p \in Paths : Mine(a, p) => p = Target[u]
BY DEF OnePathEach, Mine

\* What the steps of an agent do to its input.
InputGoesOn ==
    /\ input' \in [Agents -> Seq(Frame)] /\ Delivery'
    /\ \A b \in Agents : \A j \in 1..Len(input'[b]) :
         input'[b][j].kind = "chunk" => input'[b][j].q \in Uploads /\ input'[b][j].n \in 1..Chunks
    /\ \A u \in Uploads : Asked(u)' => Asked(u)

\* Input that is left alone stays as good.
LEMMA SameInput ==
    ASSUME PutInv, input' = input, ClientsGoOn
    PROVE  InputGoesOn
<1>1. \A b \in Agents : \A j \in 1..Len(input[b]) : input[b][j].q \in Requests
  <2> SUFFICES ASSUME NEW b \in Agents, NEW j \in 1..Len(input[b]) PROVE input[b][j].q \in Requests
    OBVIOUS
  <2>1. input[b] \in Seq(Frame)
    BY DEF PutInv, Types
  <2>2. input[b][j] \in Frame
    BY <2>1
  <2> QED
    BY <2>2 DEF Frame
<1>2. Delivery'
  <2>1. \A b \in Agents : \A j \in 1..Len(input[b]) : Via[input[b][j].q] = b /\ client'[input[b][j].q] # "idle"
    BY <1>1 DEF PutInv, Delivery, ClientsGoOn, Starts
  <2> QED
    BY <2>1 DEF PutInv, Delivery, IsRequest
<1>3. \A u \in Uploads : Asked(u)' => Asked(u)
  BY DEF Asked, IsRequest
<1> QED
  BY <1>2, <1>3 DEF PutInv, Types, Shape, InputGoesOn

\* A lost connection loses its input.
LEMMA NoInput ==
    ASSUME PutInv, NEW a \in Agents, input' = [input EXCEPT ![a] = <<>>], ClientsGoOn
    PROVE  InputGoesOn
<1>1. /\ input' \in [Agents -> Seq(Frame)] /\ input'[a] = <<>> /\ Len(input'[a]) = 0
      /\ \A b \in Agents : b # a => input'[b] = input[b]
  BY DEF PutInv, Types
<1>2. \A b \in Agents : \A j \in 1..Len(input'[b]) : b # a /\ j \in 1..Len(input[b]) /\ input'[b][j] = input[b][j]
  BY <1>1
<1>3. \A b \in Agents : \A j \in 1..Len(input[b]) : input[b][j].q \in Requests
  <2> SUFFICES ASSUME NEW b \in Agents, NEW j \in 1..Len(input[b]) PROVE input[b][j].q \in Requests
    OBVIOUS
  <2>1. input[b] \in Seq(Frame)
    BY DEF PutInv, Types
  <2>2. input[b][j] \in Frame
    BY <2>1
  <2> QED
    BY <2>2 DEF Frame
<1>4. Delivery'
  <2>1. \A b \in Agents : \A j \in 1..Len(input'[b]) :
          Via[input'[b][j].q] = b /\ client'[input'[b][j].q] # "idle"
    BY <1>2, <1>3 DEF PutInv, Delivery, ClientsGoOn, Starts
  <2>2. \A b \in Agents : \A j, k \in 1..Len(input'[b]) :
          input'[b][j].kind = "request" /\ IsRequest(input'[b][k], input'[b][j].q) => j = k
    BY <1>2 DEF PutInv, Delivery, IsRequest
  <2> QED
    BY <2>1, <2>2 DEF Delivery, IsRequest
<1>5. \A u \in Uploads : Asked(u)' => Asked(u)
  BY <1>2 DEF Asked, IsRequest
<1>6. \A b \in Agents : \A j \in 1..Len(input'[b]) :
         input'[b][j].kind = "chunk" => input'[b][j].q \in Uploads /\ input'[b][j].n \in 1..Chunks
  BY <1>2 DEF PutInv, Shape
<1> QED
  BY <1>1, <1>4, <1>5, <1>6 DEF InputGoesOn

\* An agent that keeps the invariant for itself and its path keeps it for all.
LEMMA AgentStep ==
    ASSUME OnePathEach, PutInv, NEW a \in Agents, ClientsGoOn, InputGoesOn, next' = next,
           loop' \in [Agents -> Loop], fd' \in [Agents -> Descriptor],
           name' \in [Paths -> Uploads \cup {Old}], tmp' \in [Paths -> Uploads \cup {Nobody}],
           data' \in [Uploads \cup {Old} -> Seq(Token)],
           \A b \in Agents \ {a} : loop'[b] = loop[b] /\ fd'[b] = fd[b],
           \A p \in Paths : ~Mine(a, p) => name'[p] = name[p] /\ tmp'[p] = tmp[p],
           \A u \in Uploads : Via[u] # a => data'[u] = data[u],
           loop'[a].at \in {"put", "done", "renamed"} <=> loop'[a].put \in Uploads,
           loop'[a].at \in {"put", "done"} <=> fd'[a].inode # Nobody,
           Receives(a)', \A p \in Paths : Mine(a, p) => Stores(p)',
           \A u \in Uploads : Via[u] = a =>
             /\ client'[u] = "idle" \/ Asked(u)' => name'[Target[u]] # u /\ tmp'[Target[u]] # u
             /\ client'[u] = "ok" => name'[Target[u]] # Old,
           \A u \in Uploads : Via[u] # a => (client'[u] = "ok" => client[u] = "ok")
    PROVE  PutInv'
<1> USE Constants
<1>1. Types'
  BY DEF Types, PutInv, ClientsGoOn, InputGoesOn
<1>2. Shape'
  <2>1. \A u \in Uploads : client'[u] \in {"idle", "sending"} => next'[u] <= Chunks
    BY DEF PutInv, Shape, ClientsGoOn
  <2>2. \A b \in Agents :
          /\ loop'[b].at \in {"put", "done", "renamed"} <=> loop'[b].put \in Uploads
          /\ loop'[b].at \in {"put", "done"} <=> fd'[b].inode # Nobody
    BY DEF PutInv, Shape
  <2> QED
    BY <2>1, <2>2 DEF Shape, InputGoesOn
<1>3. \A u \in Uploads : Via[u] # a => name'[Target[u]] = name[Target[u]] /\ tmp'[Target[u]] = tmp[Target[u]]
  <2>1. \A u \in Uploads : Via[u] # a => ~Mine(a, Target[u])
    BY DEF Mine, OnePathEach
  <2> QED
    BY <2>1
<1>4. Unborn'
  <2> SUFFICES ASSUME NEW u \in Uploads, client'[u] = "idle" \/ Asked(u)'
               PROVE  name'[Target[u]] # u /\ tmp'[Target[u]] # u
    BY DEF Unborn
  <2>1. client[u] = "idle" \/ Asked(u)
    BY DEF ClientsGoOn, InputGoesOn
  <2> QED
    BY <1>3, <2>1 DEF PutInv, Unborn
<1>5. Told'
  BY <1>3 DEF PutInv, Told
<1>6. /\ \A b \in Agents \ {a} : Receives(b)'
      /\ \A p \in Paths : ~Mine(a, p) => Stores(p)'
  BY OtherAgents DEF ClientsGoOn
<1>7. \A b \in Agents : Receives(b)'
  BY <1>6
<1>8. \A p \in Paths : Stores(p)'
  BY <1>6
<1> QED
  BY <1>1, <1>2, <1>4, <1>5, <1>7, <1>8 DEF PutInv, InputGoesOn

\* A frame that only changes what a client knows preserves the invariant.
LEMMA Quiet ==
    ASSUME OnePathEach, PutInv, NEW a \in Agents, NEW at, Reads(a, at), ClientsGoOn,
           UNCHANGED <<next, loop, fd, name, tmp, data>>,
           \A u \in Uploads : client'[u] = "ok" => client[u] = "ok"
    PROVE  PutInv'
<1>1. InputGoesOn
  BY Reading DEF InputGoesOn
<1>2. /\ Receives(a)' /\ \A p \in Paths : Stores(p)'
  BY Untouched DEF ClientsGoOn
<1>3. \A u \in Uploads :
        /\ client'[u] = "idle" \/ Asked(u)' => name[Target[u]] # u /\ tmp[Target[u]] # u
        /\ client'[u] = "ok" => name[Target[u]] # Old
  BY <1>1, Constants DEF PutInv, Unborn, Told, ClientsGoOn, InputGoesOn
<1>4. Types /\ Shape
  BY DEF PutInv
<1> QED
  BY <1>1, <1>2, <1>3, <1>4, AgentStep DEF Types, Shape

\* An agent that is idle or dead, and whose path kept its file, has nothing to keep.
LEMMA Dropped ==
    ASSUME OnePathEach, PutInv, NEW a \in Agents, ClientsGoOn, InputGoesOn,
           NEW at \in {"read", "dead"}, loop' = [loop EXCEPT ![a] = [Idle EXCEPT !.at = at]],
           fd' \in [Agents -> Descriptor], fd'[a].inode = Nobody, \A b \in Agents \ {a} : fd'[b] = fd[b],
           UNCHANGED <<next, name, data>>,
           tmp' \in [Paths -> Uploads \cup {Nobody}],
           \A p \in Paths : tmp'[p] = tmp[p] \/ (tmp'[p] = Nobody /\ Mine(a, p)),
           \A u \in Uploads : client'[u] = "ok" => client[u] = "ok" \/ (Via[u] = a /\ name[Target[u]] # Old)
    PROVE  PutInv'
<1> USE Constants
<1>1. /\ Types
      /\ [Idle EXCEPT !.at = at] \in Loop /\ [Idle EXCEPT !.at = at].at = at
      /\ [Idle EXCEPT !.at = at].put = Nobody
  <2>1. <<>> \in Seq(Token)
    OBVIOUS
  <2> QED
    BY <2>1 DEF PutInv, Loop, Idle
<1>2. /\ loop' \in [Agents -> Loop] /\ fd' \in [Agents -> Descriptor]
      /\ loop'[a].at = at /\ loop'[a].put = Nobody /\ fd'[a].inode = Nobody
      /\ \A b \in Agents \ {a} : loop'[b] = loop[b] /\ fd'[b] = fd[b]
  BY <1>1 DEF Types
<1>3. Receives(a)'
  BY <1>2 DEF Receives
<1>4. ASSUME NEW p \in Paths PROVE Stores(p)'
  <2>1. Stores(p) /\ (tmp'[p] = tmp[p] \/ tmp'[p] = Nobody)
    BY DEF PutInv
  <2> QED
    BY <2>1 DEF Stores, Content, ClientsGoOn, Starts
<1>5. \A u \in Uploads : client'[u] = "idle" \/ Asked(u)' => name[Target[u]] # u /\ tmp'[Target[u]] # u
  BY DEF PutInv, Unborn, ClientsGoOn, InputGoesOn
<1>6. \A u \in Uploads : client'[u] = "ok" => name[Target[u]] # Old
  BY DEF PutInv, Told
<1>7. \A u \in Uploads : Via[u] # a => (client'[u] = "ok" => client[u] = "ok")
  OBVIOUS
<1>8. \A p \in Paths : ~Mine(a, p) => name'[p] = name[p] /\ tmp'[p] = tmp[p]
  OBVIOUS
<1>9. name' \in [Paths -> Uploads \cup {Old}] /\ data' \in [Uploads \cup {Old} -> Seq(Token)]
  BY <1>1 DEF Types
<1> QED
  BY <1>2, <1>3, <1>4, <1>5, <1>6, <1>7, <1>8, <1>9, AgentStep

-----------------------------------------------------------------------------
(* The steps of an agent *)

\* Between puts, an exec or a stray chunk.
LEMMA DispatchInv ==
    ASSUME OnePathEach, PutInv, NEW a \in Agents, Dispatch(a)
    PROVE  PutInv'
<1> DEFINE f == Head(input[a])
<1>1. Reads(a, "read") /\ UNCHANGED <<next, loop, fd, name, tmp, data>>
  BY DEF Dispatch
<1>2. CASE f.kind = "chunk"
  <2>1. client' = client
    BY <1>2 DEF Dispatch
  <2>2. ClientsGoOn
    BY <2>1 DEF ClientsGoOn, Starts, PutInv, Types
  <2> QED
    BY <1>1, <2>1, <2>2, Quiet
<1>3. CASE f.kind # "chunk"
  <2>1. f.q \in Execs /\ Answer(f.q, TRUE)
    BY <1>3 DEF Dispatch
  <2>2. f.q \in Requests /\ f.q \notin Uploads
    BY <2>1, Constants
  <2>3. ClientsGoOn /\ \A r \in Requests : client'[r] = "ok" => client[r] = "ok" \/ r = f.q
    BY <2>1, <2>2, Answering DEF PutInv
  <2>4. \A u \in Uploads : client'[u] = "ok" => client[u] = "ok"
    BY <2>2, <2>3, Constants
  <2> QED
    BY <1>1, <2>3, <2>4, Quiet
<1> QED
  BY <1>2, <1>3

\* A frame the put skips.
LEMMA PutSkipsInv ==
    ASSUME OnePathEach, PutInv, NEW a \in Agents, PutSkips(a)
    PROVE  PutInv'
<1>1. Reads(a, "put") /\ UNCHANGED <<client, next, loop, fd, name, tmp, data>>
  BY DEF PutSkips
<1>2. ClientsGoOn
  BY <1>1 DEF ClientsGoOn, Starts, PutInv, Types
<1> QED
  BY <1>1, <1>2, Quiet

\* A put that cannot begin.
LEMMA OpenFailsInv ==
    ASSUME OnePathEach, PutInv, NEW a \in Agents, OpenFails(a)
    PROVE  PutInv'
<1> DEFINE u == Head(input[a]).q
<1>1. /\ Reads(a, "read") /\ UNCHANGED <<next, loop, fd, name, tmp, data>>
      /\ u \in Requests /\ Answer(u, FALSE)
  BY Constants DEF OpenFails
<1>2. ClientsGoOn /\ \A r \in Requests : client'[r] = "ok" => client[r] = "ok"
  BY <1>1, Answering DEF PutInv
<1> QED
  BY <1>1, <1>2, Constants, Quiet

\* A put that begins: the temporary file is empty and its own.
LEMMA OpenTargetInv ==
    ASSUME OnePathEach, PutInv, NEW a \in Agents, OpenTarget(a)
    PROVE  PutInv'
<1> USE Constants
<1>0. PICK u \in Uploads : u = Head(input[a]).q
  BY DEF OpenTarget
<1>a. PICK p \in Paths : p = Target[u]
  OBVIOUS
<1>b. PICK i : i = IF tmp[p] = Nobody THEN u ELSE tmp[p]
  OBVIOUS
<1> DEFINE l == [Idle EXCEPT !.at = "put", !.put = u]
           d == [inode |-> i, off |-> 0]
<1>1. /\ Reads(a, "read") /\ Head(input[a]).kind = "request" /\ u \in Uploads /\ p \in Paths
      /\ tmp' = [tmp EXCEPT ![p] = i] /\ data' = [data EXCEPT ![i] = <<>>]
      /\ fd' = [fd EXCEPT ![a] = d] /\ loop' = [loop EXCEPT ![a] = l]
      /\ UNCHANGED <<client, next, name>>
  BY <1>0, <1>a, <1>b DEF OpenTarget
<1>2. ClientsGoOn
  BY <1>1 DEF ClientsGoOn, Starts, PutInv, Types
<1>3. /\ InputGoesOn /\ Via[u] = a /\ client[u] # "idle" /\ Asked(u) /\ ~Asked(u)'
  <2>1. InputGoesOn /\ Via[u] = a /\ client[u] # "idle"
    BY <1>0, <1>1, <1>2, Reading DEF InputGoesOn
  <2>2. IsRequest(Head(input[a]), u)
    BY <1>0, <1>1 DEF IsRequest
  <2>3. Asked(u) /\ ~Asked(u)'
    BY <1>1, <1>2, <2>2, Reading
  <2> QED
    BY <2>1, <2>3
<1>4. i \in Uploads /\ Target[i] = p /\ i # name[p] /\ Via[i] = a
  <2>1. Stores(p) /\ tmp[p] \in Uploads \cup {Nobody}
    BY <1>1 DEF PutInv, Types
  <2>2. name[p] # u
    BY <1>a, <1>3 DEF PutInv, Unborn
  <2>3. i \in Uploads /\ Target[i] = p /\ i # name[p]
    BY <1>a, <1>b, <2>1, <2>2 DEF Stores
  <2> QED
    BY <1>a, <1>3, <2>3 DEF OnePathEach
<1>5. /\ Types /\ l \in Loop /\ l.at = "put" /\ l.put = u /\ l.stream = <<>> /\ d \in Descriptor
      /\ d.inode = i /\ d.off = 0 /\ <<>> \in Seq(Token) /\ Len(<<>>) = 0
  <2>1. <<>> \in Seq(Token) /\ Len(<<>>) = 0
    OBVIOUS
  <2> QED
    BY <1>1, <1>4, <2>1 DEF PutInv, Loop, Descriptor, Idle
<1>6. /\ loop' \in [Agents -> Loop] /\ fd' \in [Agents -> Descriptor]
      /\ tmp' \in [Paths -> Uploads \cup {Nobody}] /\ data' \in [Uploads \cup {Old} -> Seq(Token)]
      /\ name' \in [Paths -> Uploads \cup {Old}]
      /\ loop'[a] = l /\ fd'[a] = d /\ tmp'[p] = i /\ data'[i] = <<>>
      /\ \A b \in Agents \ {a} : loop'[b] = loop[b] /\ fd'[b] = fd[b]
      /\ \A r \in Paths : r # p => tmp'[r] = tmp[r]
      /\ \A v \in Uploads : v # i => data'[v] = data[v]
  BY <1>1, <1>4, <1>5 DEF Types
<1>7. Receives(a)'
  BY <1>a, <1>3, <1>5, <1>6 DEF Receives
<1>8. \A r \in Paths : Mine(a, r) => r = p
  BY <1>a, <1>3, OwnPath
<1>9. Stores(p)'
  <2>1. Stores(p) /\ name[p] \in Uploads \cup {Old}
    BY <1>1 DEF PutInv, Types
  <2> QED
    BY <1>1, <1>4, <1>6, <2>1 DEF Stores, Content
<1>10. ASSUME NEW v \in Uploads, Via[v] = a
       PROVE  /\ client'[v] = "idle" \/ Asked(v)' => name'[Target[v]] # v /\ tmp'[Target[v]] # v
              /\ client'[v] = "ok" => name'[Target[v]] # Old
  <2>1. Target[v] = p
    BY <1>3, <1>a, <1>10 DEF OnePathEach
  <2>2. client'[v] = "idle" \/ Asked(v)' => v # u /\ name[p] # v /\ tmp[p] # v
    <3>1. client'[v] = "idle" \/ Asked(v)' => client[v] = "idle" \/ Asked(v)
      BY <1>1, <1>3 DEF InputGoesOn
    <3>2. client'[v] = "idle" \/ Asked(v)' => v # u
      BY <1>1, <1>3
    <3> QED
      BY <2>1, <3>1, <3>2 DEF PutInv, Unborn
  <2> QED
    BY <1>1, <1>b, <1>6, <2>1, <2>2 DEF PutInv, Told
<1>11. /\ \A r \in Paths : ~Mine(a, r) => name'[r] = name[r] /\ tmp'[r] = tmp[r]
       /\ \A v \in Uploads : Via[v] # a => data'[v] = data[v]
  BY <1>a, <1>1, <1>3, <1>4, <1>6 DEF Mine
<1>12. \A r \in Paths : Mine(a, r) => Stores(r)'
  BY <1>8, <1>9
<1>13. /\ loop'[a].at \in {"put", "done", "renamed"} <=> loop'[a].put \in Uploads
       /\ loop'[a].at \in {"put", "done"} <=> fd'[a].inode # Nobody
  BY <1>1, <1>4, <1>5, <1>6
<1> QED
  BY <1>1, <1>2, <1>3, <1>6, <1>7, <1>10, <1>11, <1>12, <1>13, AgentStep

\* What is known of the put an agent is in.
LEMMA InPut ==
    ASSUME OnePathEach, PutInv, NEW a \in Agents, loop[a].at \in {"put", "done", "renamed"}
    PROVE  /\ loop[a].put \in Uploads /\ Via[loop[a].put] = a /\ Target[loop[a].put] \in Paths
           /\ loop[a].stream \in Seq(Token) /\ loop[a].sha \in Seq(Token)
           /\ \A p \in Paths : Mine(a, p) => p = Target[loop[a].put]
           /\ Mine(a, Target[loop[a].put])
           /\ loop[a].at \in {"put", "done"} =>
                /\ fd[a].inode \in Uploads /\ tmp[Target[loop[a].put]] = fd[a].inode
                /\ Via[fd[a].inode] = a /\ fd[a].inode # name[Target[loop[a].put]]
                /\ data[fd[a].inode] = loop[a].stream /\ fd[a].off = Len(loop[a].stream)
           /\ loop[a].at = "renamed" => name[Target[loop[a].put]] # Old
<1> USE Constants
<1> DEFINE u == loop[a].put
<1>1. /\ u \in Uploads /\ Via[u] = a /\ Target[u] \in Paths /\ loop[a] \in Loop /\ fd[a] \in Descriptor
      /\ Receives(a) /\ Stores(Target[u])
  BY DEF PutInv, Types, Shape, Receives
<1>2. loop[a].stream \in Seq(Token) /\ loop[a].sha \in Seq(Token)
  BY <1>1 DEF Loop
<1>3. \A p \in Paths : Mine(a, p) => p = Target[u]
  BY <1>1, OwnPath
<1>4. Mine(a, Target[u])
  BY <1>1 DEF Mine
<1>5. ASSUME loop[a].at \in {"put", "done"}
      PROVE  /\ fd[a].inode \in Uploads /\ tmp[Target[u]] = fd[a].inode
             /\ Via[fd[a].inode] = a /\ fd[a].inode # name[Target[u]]
             /\ data[fd[a].inode] = loop[a].stream /\ fd[a].off = Len(loop[a].stream)
  <2>1. fd[a].inode \in Uploads /\ tmp[Target[u]] = fd[a].inode
    BY <1>1, <1>5 DEF PutInv, Shape, Descriptor, Receives
  <2>2. Target[fd[a].inode] = Target[u] /\ fd[a].inode # name[Target[u]]
    BY <1>1, <2>1 DEF Stores
  <2>3. Via[fd[a].inode] = a
    BY <1>1, <2>1, <2>2 DEF OnePathEach
  <2> QED
    BY <1>1, <1>5, <2>1, <2>2, <2>3 DEF Receives
<1>6. loop[a].at = "renamed" => name[Target[u]] # Old
  BY <1>1 DEF Receives
<1> QED
  BY <1>1, <1>2, <1>3, <1>4, <1>5, <1>6

\* A chunk is appended, or Done ends the loop.
LEMMA PutChunkInv ==
    ASSUME OnePathEach, PutInv, NEW a \in Agents, PutChunk(a)
    PROVE  PutInv'
<1> USE Constants
<1>0. PICK f \in Frame : f = Head(input[a])
  BY TailFacts DEF PutChunk, Reads, PutInv, Types
<1>1. /\ Reads(a, "put") /\ loop[a].at = "put" /\ f.kind = "chunk"
      /\ UNCHANGED <<client, next, name, tmp>>
  BY <1>0 DEF PutChunk, Reads
<1>2. ClientsGoOn
  BY <1>1 DEF ClientsGoOn, Starts, PutInv, Types
<1>3. InputGoesOn /\ f.q \in Uploads /\ f.n \in 1..Chunks /\ Via[f.q] = a /\ client[f.q] # "idle"
  <2>1. InputGoesOn
    BY <1>1, <1>2, Reading DEF InputGoesOn
  <2> QED
    BY <1>0, <1>1, <1>2, <2>1, Reading
<1>4. PICK u \in Uploads : u = loop[a].put
  BY <1>1, InPut
<1>5. PICK p \in Paths : p = Target[u]
  BY <1>4
<1>6. PICK i \in Uploads : i = fd[a].inode
  BY <1>1, InPut
<1>7. /\ Via[u] = a /\ loop[a].stream \in Seq(Token) /\ \A r \in Paths : Mine(a, r) => r = p
      /\ tmp[p] = i /\ Via[i] = a /\ i # name[p] /\ data[i] = loop[a].stream
      /\ fd[a].off = Len(loop[a].stream) /\ loop[a] \in Loop /\ fd[a] \in Descriptor /\ Types
      /\ Stores(p)
  BY <1>1, <1>4, <1>5, <1>6, InPut DEF PutInv, Types
<1>8. /\ \A v \in Uploads : Via[v] = a =>
           /\ client'[v] = "idle" \/ Asked(v)' => name'[Target[v]] # v /\ tmp'[Target[v]] # v
           /\ client'[v] = "ok" => name'[Target[v]] # Old
      /\ \A v \in Uploads : Via[v] # a => (client'[v] = "ok" => client[v] = "ok")
      /\ next' = next
  BY <1>1, <1>3 DEF PutInv, Unborn, Told, InputGoesOn
<1>9. CASE f.n = Chunks
  <2> DEFINE l == [loop[a] EXCEPT !.at = "done", !.sha = Content(f.q)]
  <2>1. loop' = [loop EXCEPT ![a] = l] /\ fd' = fd /\ data' = data
    BY <1>0, <1>9, <1>7 DEF PutChunk, Types
  <2>2. l \in Loop /\ l.at = "done" /\ l.put = u /\ l.stream = loop[a].stream /\ l.sha = Content(f.q)
    BY <1>3, <1>4, <1>7, ContentType DEF Loop
  <2>3. /\ loop' \in [Agents -> Loop] /\ loop'[a] = l
        /\ \A b \in Agents \ {a} : loop'[b] = loop[b]
    BY <1>7, <2>1, <2>2 DEF Types
  <2>4. Receives(a)'
    BY <1>1, <1>3, <1>5, <1>6, <1>7, <2>1, <2>2, <2>3 DEF Receives, Content
  <2>5. Stores(p)'
    BY <1>1, <1>7, <2>1 DEF Stores, Content
  <2>6. \A r \in Paths : Mine(a, r) => Stores(r)'
    BY <1>7, <2>5
  <2>7. /\ loop'[a].at \in {"put", "done", "renamed"} <=> loop'[a].put \in Uploads
        /\ loop'[a].at \in {"put", "done"} <=> fd'[a].inode # Nobody
    BY <1>6, <2>1, <2>2, <2>3
  <2>8. /\ fd' \in [Agents -> Descriptor] /\ data' \in [Uploads \cup {Old} -> Seq(Token)]
        /\ name' \in [Paths -> Uploads \cup {Old}] /\ tmp' \in [Paths -> Uploads \cup {Nobody}]
        /\ \A b \in Agents \ {a} : loop'[b] = loop[b] /\ fd'[b] = fd[b]
        /\ \A r \in Paths : ~Mine(a, r) => name'[r] = name[r] /\ tmp'[r] = tmp[r]
        /\ \A v \in Uploads : Via[v] # a => data'[v] = data[v]
    BY <1>1, <1>7, <2>1, <2>3 DEF Types
  <2> QED
    BY <1>2, <1>3, <1>8, <2>3, <2>4, <2>6, <2>7, <2>8, AgentStep
<1>10. CASE f.n # Chunks
  <2> DEFINE tok == <<f.q, f.n>>
             l == [loop[a] EXCEPT !.stream = Append(@, tok)]
             d == [fd[a] EXCEPT !.off = @ + 1]
  <2>1. tok \in Token
    BY <1>3 DEF Token
  <2>2. WriteAt(data[i], fd[a].off, tok) = Append(loop[a].stream, tok)
    BY <1>7, <2>1, WriteAtEnd
  <2>3. /\ loop' = [loop EXCEPT ![a] = l] /\ fd' = [fd EXCEPT ![a] = d]
        /\ data' = [data EXCEPT ![i] = Append(loop[a].stream, tok)]
    <3>1. /\ loop' = [loop EXCEPT ![a].stream = Append(@, tok)]
          /\ data' = [data EXCEPT ![i] = WriteAt(@, fd[a].off, tok)]
          /\ fd' = [fd EXCEPT ![a].off = @ + 1]
      BY <1>0, <1>6, <1>10 DEF PutChunk
    <3> QED
      BY <1>7, <2>2, <3>1 DEF Types
  <2>4. /\ Append(loop[a].stream, tok) \in Seq(Token)
        /\ Len(Append(loop[a].stream, tok)) = Len(loop[a].stream) + 1 /\ Len(loop[a].stream) \in Nat
    BY <1>7, <2>1
  <2>5. /\ l \in Loop /\ l.at = "put" /\ l.put = u /\ l.stream = Append(loop[a].stream, tok)
        /\ d \in Descriptor /\ d.inode = i /\ d.off = Len(loop[a].stream) + 1
    <3>1. l \in Loop /\ l.at = "put" /\ l.put = u /\ l.stream = Append(loop[a].stream, tok)
      BY <1>1, <1>4, <1>7, <2>4 DEF Loop
    <3>2. d \in Descriptor /\ d.inode = i /\ d.off = fd[a].off + 1
      BY <1>6, <1>7 DEF Descriptor
    <3> QED
      BY <1>7, <3>1, <3>2
  <2>6. /\ loop' \in [Agents -> Loop] /\ loop'[a] = l /\ fd' \in [Agents -> Descriptor] /\ fd'[a] = d
        /\ \A b \in Agents \ {a} : loop'[b] = loop[b] /\ fd'[b] = fd[b]
        /\ data' \in [Uploads \cup {Old} -> Seq(Token)] /\ data'[i] = Append(loop[a].stream, tok)
        /\ \A v \in Uploads : v # i => data'[v] = data[v]
    BY <1>7, <2>3, <2>4, <2>5 DEF Types
  <2>7. Receives(a)'
    BY <1>1, <1>5, <1>7, <2>4, <2>5, <2>6, ZenonT(60) DEF Receives
  <2>8. Stores(p)'
    <3>1. name[p] \in Uploads \cup {Old}
      BY <1>7 DEF Types
    <3> QED
      BY <1>1, <1>7, <2>6, <3>1, SMTT(30) DEF Stores, Content
  <2>9. \A r \in Paths : Mine(a, r) => Stores(r)'
    BY <1>7, <2>8
  <2>10. /\ loop'[a].at \in {"put", "done", "renamed"} <=> loop'[a].put \in Uploads
         /\ loop'[a].at \in {"put", "done"} <=> fd'[a].inode # Nobody
    BY <2>5, <2>6
  <2>11. /\ name' \in [Paths -> Uploads \cup {Old}] /\ tmp' \in [Paths -> Uploads \cup {Nobody}]
         /\ \A r \in Paths : ~Mine(a, r) => name'[r] = name[r] /\ tmp'[r] = tmp[r]
         /\ \A v \in Uploads : Via[v] # a => data'[v] = data[v]
    BY <1>1, <1>7, <2>6 DEF Types
  <2> QED
    BY <1>2, <1>3, <1>8, <2>6, <2>7, <2>9, <2>10, <2>11, AgentStep, ZenonT(60)
<1> QED
  BY <1>9, <1>10

\* A closed descriptor is one.
LEMMA Closes ==
    ASSUME Types, NEW a \in Agents, fd' = [fd EXCEPT ![a] = Closed]
    PROVE  /\ fd' \in [Agents -> Descriptor] /\ fd'[a].inode = Nobody
           /\ \A b \in Agents \ {a} : fd'[b] = fd[b]
BY DEF Types, Closed, Descriptor

\* A put that ends with an Error and takes its file away.
LEMMA AbortInv ==
    ASSUME OnePathEach, PutInv, NEW a \in Agents, loop[a].at \in {"put", "done"}, Abort(a),
           (\E at : Reads(a, at)) \/ input' = input
    PROVE  PutInv'
<1> USE Constants
<1>1. PICK u \in Uploads : u = loop[a].put
  BY InPut
<1>2. /\ Mine(a, Target[u]) /\ Target[u] \in Paths
      /\ tmp' = [tmp EXCEPT ![Target[u]] = Nobody] /\ fd' = [fd EXCEPT ![a] = Closed]
      /\ loop' = [loop EXCEPT ![a] = Idle] /\ Answer(u, FALSE) /\ UNCHANGED <<next, name, data>>
      /\ Types /\ u \in Requests
  BY <1>1, InPut DEF Abort, PutInv
<1>3. ClientsGoOn /\ \A r \in Requests : client'[r] = "ok" => client[r] = "ok"
  BY <1>2, Answering
<1>4. InputGoesOn
  BY <1>3, Reading, SameInput DEF InputGoesOn
<1>5. [Idle EXCEPT !.at = "read"] = Idle
  BY DEF Idle
<1>6. /\ tmp' \in [Paths -> Uploads \cup {Nobody}]
      /\ \A p \in Paths : tmp'[p] = tmp[p] \/ (tmp'[p] = Nobody /\ Mine(a, p))
  BY <1>2 DEF Types
<1>7. \A v \in Uploads : client'[v] = "ok" => client[v] = "ok" \/ (Via[v] = a /\ name[Target[v]] # Old)
  BY <1>3
<1>8. loop' = [loop EXCEPT ![a] = [Idle EXCEPT !.at = "read"]]
  BY <1>2, <1>5
<1> QED
  BY <1>2, <1>3, <1>4, <1>6, <1>7, <1>8, Closes, Dropped

\* The verified file takes the path's name.
LEMMA RenameInv ==
    ASSUME OnePathEach, PutInv, NEW a \in Agents, Rename(a)
    PROVE  PutInv'
<1> USE Constants
<1>1. loop[a].at = "done" /\ loop[a].stream = loop[a].sha /\ UNCHANGED <<client, next, input, data>>
  BY DEF Rename
<1>2. PICK u \in Uploads : u = loop[a].put
  BY <1>1, InPut
<1>3. PICK p \in Paths : p = Target[u]
  BY <1>2
<1>4. PICK i \in Uploads : i = fd[a].inode
  BY <1>1, InPut
<1>5. /\ Via[u] = a /\ \A r \in Paths : Mine(a, r) => r = p
      /\ tmp[p] = i /\ Via[i] = a /\ data[i] = loop[a].sha /\ loop[a] \in Loop /\ Types /\ Mine(a, p)
  BY <1>1, <1>2, <1>3, <1>4, InPut DEF PutInv, Types
<1>6. PICK v \in Uploads : Via[v] = a /\ client[v] # "idle" /\ loop[a].sha = Content(v)
  BY <1>1 DEF PutInv, Receives
<1>7. Target[v] = p /\ Target[i] = p
  BY <1>3, <1>5, <1>6 DEF OnePathEach
<1> DEFINE l == [loop[a] EXCEPT !.at = "renamed"]
<1>8. /\ name' = [name EXCEPT ![p] = i] /\ tmp' = [tmp EXCEPT ![p] = Nobody]
      /\ fd' = [fd EXCEPT ![a] = Closed] /\ loop' = [loop EXCEPT ![a] = l]
  BY <1>2, <1>3, <1>5 DEF Rename, Types
<1>9. l \in Loop /\ l.at = "renamed" /\ l.put = u /\ Closed \in Descriptor /\ Closed.inode = Nobody
  BY <1>2, <1>5 DEF Loop, Descriptor, Closed
<1>10. /\ loop' \in [Agents -> Loop] /\ fd' \in [Agents -> Descriptor]
       /\ name' \in [Paths -> Uploads \cup {Old}] /\ tmp' \in [Paths -> Uploads \cup {Nobody}]
       /\ data' \in [Uploads \cup {Old} -> Seq(Token)]
       /\ loop'[a] = l /\ fd'[a] = Closed /\ name'[p] = i /\ tmp'[p] = Nobody
       /\ \A b \in Agents \ {a} : loop'[b] = loop[b] /\ fd'[b] = fd[b]
       /\ \A r \in Paths : ~Mine(a, r) => name'[r] = name[r] /\ tmp'[r] = tmp[r]
       /\ \A w \in Uploads : Via[w] # a => data'[w] = data[w]
  BY <1>1, <1>5, <1>8, <1>9 DEF Types
<1>11. ClientsGoOn
  BY <1>1, <1>5 DEF ClientsGoOn, Starts, Types
<1>12. InputGoesOn
  BY <1>1, <1>11, SameInput
<1>13. Receives(a)'
  BY <1>3, <1>5, <1>9, <1>10 DEF Receives
<1>14. Stores(p)'
  BY <1>1, <1>5, <1>6, <1>7, <1>10 DEF Stores, Content
<1>15. \A r \in Paths : Mine(a, r) => Stores(r)'
  BY <1>5, <1>14
<1>16. ASSUME NEW w \in Uploads, Via[w] = a
       PROVE  /\ client'[w] = "idle" \/ Asked(w)' => name'[Target[w]] # w /\ tmp'[Target[w]] # w
              /\ client'[w] = "ok" => name'[Target[w]] # Old
  <2>1. Target[w] = p
    BY <1>3, <1>5, <1>16 DEF OnePathEach
  <2>2. client'[w] = "idle" \/ Asked(w)' => tmp[p] # w
    <3>1. client'[w] = "idle" \/ Asked(w)' => client[w] = "idle" \/ Asked(w)
      BY <1>1, <1>12 DEF InputGoesOn
    <3> QED
      BY <2>1, <3>1 DEF PutInv, Unborn
  <2> QED
    BY <1>5, <1>10, <2>1, <2>2
<1>17. \A w \in Uploads : Via[w] # a => (client'[w] = "ok" => client[w] = "ok")
  BY <1>1
<1>18. /\ loop'[a].at \in {"put", "done", "renamed"} <=> loop'[a].put \in Uploads
       /\ loop'[a].at \in {"put", "done"} <=> fd'[a].inode # Nobody
  BY <1>9, <1>10
<1> QED
  BY <1>1, <1>10, <1>11, <1>12, <1>13, <1>15, <1>16, <1>17, <1>18, AgentStep

\* The Result of a put that is at its name.
LEMMA FinishInv ==
    ASSUME OnePathEach, PutInv, NEW a \in Agents, Finish(a)
    PROVE  PutInv'
<1> USE Constants
<1>1. loop[a].at = "renamed" /\ UNCHANGED <<next, input, fd, name, tmp, data>> /\ Types
  BY DEF Finish, PutInv
<1>2. PICK u \in Uploads : u = loop[a].put
  BY <1>1, InPut
<1>3. Via[u] = a /\ name[Target[u]] # Old /\ u \in Requests /\ Answer(u, TRUE)
  BY <1>1, <1>2, InPut DEF Finish
<1>4. /\ ClientsGoOn
      /\ \A r \in Requests : client'[r] = "ok" => client[r] = "ok" \/ r = u
  BY <1>1, <1>3, Answering
<1>5. InputGoesOn
  BY <1>1, <1>4, SameInput
<1>6. loop' = [loop EXCEPT ![a] = [Idle EXCEPT !.at = "read"]]
  BY DEF Finish, Idle
<1>7. fd' \in [Agents -> Descriptor] /\ fd'[a].inode = Nobody /\ \A b \in Agents \ {a} : fd'[b] = fd[b]
  BY <1>1 DEF PutInv, Shape, Types
<1>8. \A v \in Uploads : client'[v] = "ok" => client[v] = "ok" \/ (Via[v] = a /\ name[Target[v]] # Old)
  BY <1>3, <1>4
<1> QED
  BY <1>1, <1>4, <1>5, <1>6, <1>7, <1>8, Dropped DEF Types

\* What a lost connection tells its clients.
LEMMA HangingUp ==
    ASSUME Types, NEW a \in Agents, Hangs(a)
    PROVE  ClientsGoOn /\ \A q \in Requests : client'[q] = "ok" => client[q] = "ok"
BY DEF Types, Hangs, ClientsGoOn, Starts

\* The end of stdin, at a put or between puts.
LEMMA StdinEofInv ==
    ASSUME OnePathEach, PutInv, NEW a \in Agents, StdinEof(a)
    PROVE  PutInv'
<1> USE Constants
<1>1. /\ Hangs(a) /\ loop' = [loop EXCEPT ![a] = [Idle EXCEPT !.at = "dead"]]
      /\ fd' = [fd EXCEPT ![a] = Closed] /\ input' = [input EXCEPT ![a] = <<>>]
      /\ UNCHANGED <<next, name, data>> /\ Types
  BY DEF StdinEof, PutInv
<1>2. ClientsGoOn /\ \A q \in Requests : client'[q] = "ok" => client[q] = "ok"
  BY <1>1, HangingUp
<1>3. InputGoesOn
  BY <1>1, <1>2, NoInput
<1>4. /\ tmp' \in [Paths -> Uploads \cup {Nobody}]
      /\ \A p \in Paths : tmp'[p] = tmp[p] \/ (tmp'[p] = Nobody /\ Mine(a, p))
  <2>1. CASE loop[a].at = "put"
    <3>1. tmp' = [tmp EXCEPT ![Target[loop[a].put]] = Nobody]
      BY <2>1 DEF StdinEof
    <3> QED
      BY <1>1, <2>1, <3>1, InPut DEF Types
  <2>2. CASE loop[a].at # "put"
    BY <1>1, <2>2 DEF StdinEof, Types
  <2> QED
    BY <2>1, <2>2
<1>5. \A v \in Uploads : client'[v] = "ok" => client[v] = "ok" \/ (Via[v] = a /\ name[Target[v]] # Old)
  BY <1>2
<1> QED
  BY <1>1, <1>2, <1>3, <1>4, <1>5, Closes, Dropped

\* An agent that is killed leaves the temporary file.
LEMMA KilledInv ==
    ASSUME OnePathEach, PutInv, NEW a \in Agents, Killed(a)
    PROVE  PutInv'
<1> USE Constants
<1>1. /\ Hangs(a) /\ loop' = [loop EXCEPT ![a] = [Idle EXCEPT !.at = "dead"]]
      /\ fd' = [fd EXCEPT ![a] = Closed] /\ input' = [input EXCEPT ![a] = <<>>]
      /\ UNCHANGED <<next, name, tmp, data>> /\ Types
  BY DEF Killed, PutInv
<1>2. ClientsGoOn /\ \A q \in Requests : client'[q] = "ok" => client[q] = "ok"
  BY <1>1, HangingUp
<1>3. InputGoesOn
  BY <1>1, <1>2, NoInput
<1>4. /\ tmp' \in [Paths -> Uploads \cup {Nobody}]
      /\ \A p \in Paths : tmp'[p] = tmp[p] \/ (tmp'[p] = Nobody /\ Mine(a, p))
      /\ \A v \in Uploads : client'[v] = "ok" => client[v] = "ok" \/ (Via[v] = a /\ name[Target[v]] # Old)
  BY <1>1, <1>2 DEF Types
<1> QED
  BY <1>1, <1>2, <1>3, <1>4, Closes, Dropped

\* A new connection.
LEMMA ReconnectInv ==
    ASSUME OnePathEach, PutInv, NEW a \in Agents, Reconnect(a)
    PROVE  PutInv'
<1>1. /\ loop[a].at = "dead" /\ UNCHANGED <<client, next, input, fd, name, tmp, data>> /\ Types
      /\ loop' = [loop EXCEPT ![a] = [Idle EXCEPT !.at = "read"]]
  BY DEF Reconnect, PutInv, Idle
<1>2. ClientsGoOn
  BY <1>1 DEF ClientsGoOn, Starts, Types
<1>3. InputGoesOn
  BY <1>1, <1>2, SameInput
<1>4. fd' \in [Agents -> Descriptor] /\ fd'[a].inode = Nobody /\ \A b \in Agents \ {a} : fd'[b] = fd[b]
  BY <1>1 DEF PutInv, Shape, Types
<1>5. /\ tmp' \in [Paths -> Uploads \cup {Nobody}]
      /\ \A p \in Paths : tmp'[p] = tmp[p] \/ (tmp'[p] = Nobody /\ Mine(a, p))
      /\ \A v \in Uploads : client'[v] = "ok" => client[v] = "ok" \/ (Via[v] = a /\ name[Target[v]] # Old)
  BY <1>1 DEF Types
<1> QED
  BY <1>1, <1>2, <1>3, <1>4, <1>5, Dropped

-----------------------------------------------------------------------------
(* The theorems *)

\* Every step preserves the invariant.
LEMMA NextInv == OnePathEach /\ PutInv /\ [Next]_vars => PutInv'
<1> SUFFICES ASSUME OnePathEach, PutInv, [Next]_vars PROVE PutInv'
  OBVIOUS
<1>1. CASE \E q \in Requests : ClientRequest(q)
  BY <1>1, ClientRequestInv
<1>2. CASE \E u \in Uploads : ClientChunk(u)
  BY <1>2, ClientChunkInv
<1>3. CASE \E u \in Uploads : ClientGivesUp(u)
  BY <1>3, ClientGivesUpInv
<1>4. ASSUME NEW a \in Agents, Works(a) PROVE PutInv'
  <2>1. CASE Dispatch(a)
    BY <2>1, DispatchInv
  <2>2. CASE OpenTarget(a)
    BY <2>2, OpenTargetInv
  <2>3. CASE OpenFails(a)
    BY <2>3, OpenFailsInv
  <2>4. CASE PutChunk(a)
    BY <2>4, PutChunkInv
  <2>5. CASE PutSkips(a)
    BY <2>5, PutSkipsInv
  <2>6. CASE WriteFails(a)
    BY <2>6, AbortInv DEF WriteFails, Reads
  <2>7. CASE Mismatch(a)
    BY <2>7, AbortInv DEF Mismatch
  <2>8. CASE Rename(a)
    BY <2>8, RenameInv
  <2>9. CASE RenameFails(a)
    BY <2>9, AbortInv DEF RenameFails
  <2>10. CASE Finish(a)
    BY <2>10, FinishInv
  <2> QED
    BY <1>4, <2>1, <2>2, <2>3, <2>4, <2>5, <2>6, <2>7, <2>8, <2>9, <2>10 DEF Works
<1>5. ASSUME NEW a \in Agents, StdinEof(a) \/ Killed(a) \/ Reconnect(a) PROVE PutInv'
  BY <1>5, StdinEofInv, KilledInv, ReconnectInv
<1>6. CASE UNCHANGED vars
  <2>1. UNCHANGED <<client, next, input, loop, fd, name, tmp, data>>
    BY <1>6 DEF vars
  <2>2. Starts /\ ClientsGoOn
    BY <2>1 DEF Starts, ClientsGoOn, PutInv, Types
  <2>3. InputGoesOn
    BY <2>1, <2>2, SameInput
  <2>4. Types' /\ Shape' /\ Told' /\ Unborn'
    BY <2>1, <2>3 DEF PutInv, Types, Shape, Told, Unborn, InputGoesOn
  <2> QED
    BY <2>1, <2>2, <2>3, <2>4, Untouched DEF PutInv, InputGoesOn
<1> QED
  BY <1>1, <1>2, <1>3, <1>4, <1>5, <1>6 DEF Next

\* The invariant holds of every run.
THEOREM PutInvariant ==
    ASSUME OnePathEach
    PROVE  Spec => []PutInv
<1>1. PutInv /\ [Next]_vars => PutInv'
  BY NextInv
<1> QED
  BY <1>1, InitInv, PTL DEF Spec

\* TypeOK for every number of uploads, agents and chunks: every variable has its
\* type, and an agent in a put has a file open.
THEOREM PutTypes ==
    ASSUME OnePathEach
    PROVE  Spec => []TypeOK
<1>1. PutInv => TypeOK
  <2> SUFFICES ASSUME PutInv PROVE TypeOK
    OBVIOUS
  <2>1. ASSUME NEW a \in Agents PROVE loop[a].at \in {"read", "put", "done", "renamed", "dead"}
    BY DEF PutInv, Types, Loop
  <2> QED
    BY <2>1 DEF PutInv, Types, Shape, TypeOK
<1> QED
  BY <1>1, PutInvariant, PTL

\* WholeFiles for every number of uploads, agents and chunks, whatever fails: a
\* path holds what it held, or the whole of a file uploaded to it
\* (handleFilePutSync's temporary file, sha256 and rename).
THEOREM PutsAreWhole ==
    ASSUME OnePathEach
    PROVE  Spec => []WholeFiles
<1>1. PutInv => WholeFiles
  BY DEF PutInv, Stores, WholeFiles
<1> QED
  BY <1>1, PutInvariant, PTL

\* OkMeansStored for every number of uploads, agents and chunks, whatever fails: a
\* client that is told ok finds its file, or another upload to the path was begun.
THEOREM OkIsStored ==
    ASSUME OnePathEach
    PROVE  Spec => []OkMeansStored
<1>1. PutInv => OkMeansStored
  <2> SUFFICES ASSUME PutInv, NEW u \in Uploads, client[u] = "ok",
                      \A o \in Uploads \ {u} : Target[o] = Target[u] => client[o] = "idle"
               PROVE  name[Target[u]] # Old /\ data[name[Target[u]]] = Content(u)
    BY DEF OkMeansStored
  <2>1. name[Target[u]] # Old /\ Target[u] \in Paths
    BY Constants DEF PutInv, Told
  <2>2. PICK v \in Uploads : /\ Target[v] = Target[u] /\ client[v] # "idle"
                             /\ data[name[Target[u]]] = Content(v)
    BY <2>1 DEF PutInv, Stores
  <2>3. v = u
    BY <2>2
  <2> QED
    BY <2>1, <2>2, <2>3
<1> QED
  BY <1>1, PutInvariant, PTL
=============================================================================
