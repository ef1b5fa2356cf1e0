------------------------------- MODULE FilePut -------------------------------
(***************************************************************************)
(* Uploads: Session.FilePut on the client (internal/client/files.go), the   *)
(* agent's read loop and handleFilePutSync (cmd/rsb-agent), and the file    *)
(* system under them, with inodes so that a rename and an open descriptor   *)
(* meet as they do on POSIX.  The daemon between them only merges the       *)
(* frames of its clients into the agent's stdin, as HostConn models.  An    *)
(* agent stands for one connection to the host; two developers have two.    *)
(***************************************************************************)
EXTENDS Naturals, Sequences

CONSTANTS
    Uploads,    \* file_put requests
    Execs,      \* other requests, answered by the loop's dispatch
    Agents,     \* agents on the host
    Via,        \* Via[q]: the agent request q goes to
    Paths,      \* remote paths
    Target,     \* Target[u]: the remote path of upload u
    Chunks,     \* chunks of a file, the last one empty but for Done and the sha256
    Unreadable, \* uploads whose local file cannot be opened or read to its end
    Exclusive,  \* whether clients upload one after the other
    Faults      \* whether disks fill up and agents are lost

Requests == Uploads \cup Execs
Nobody == "nobody"
Old == "old"    \* the inode a path has before the first upload, and its content
Hole == "hole"  \* bytes nobody wrote

ASSUME FilePutAssumption ==
    /\ Via \in [Requests -> Agents]
    /\ Target \in [Uploads -> Paths]
    /\ Chunks \in Nat \ {0}
    /\ Unreadable \subseteq Uploads /\ Uploads \cap Execs = {}
    /\ Exclusive \in BOOLEAN /\ Faults \in BOOLEAN
    /\ Old \notin Uploads /\ Nobody \notin Uploads \cup {Old}

VARIABLES
    client,     \* client[q]: "idle", "sending", "waiting", "gaveup", "ok", "failed"
    next,       \* next[u]: the next chunk of u to send
    input,      \* input[a]: frames on agent a's stdin
    loop,       \* loop[a]: the read loop: [at, put, stream, sha], at "read", "put", "done", "renamed", "dead"
    fd,         \* fd[a]: the open file: [inode, off]
    name,       \* name[p]: the inode at path p
    tmp,        \* tmp[p]: the inode at p.rsbtmp, or Nobody
    data        \* data[i]: the content of inode i, one token per chunk

vars == <<client, next, input, loop, fd, name, tmp, data>>

\* What upload u's local file holds; its last chunk carries no data.
Content(u) == [i \in 1..(Chunks - 1) |-> <<u, i>>]

Idle == [at |-> "read", put |-> Nobody, stream |-> <<>>, sha |-> <<>>]
Closed == [inode |-> Nobody, off |-> 0]

Init ==
    /\ client = [q \in Requests |-> "idle"]
    /\ next = [u \in Uploads |-> 1]
    /\ input = [a \in Agents |-> <<>>]
    /\ loop = [a \in Agents |-> Idle]
    /\ fd = [a \in Agents |-> Closed]
    /\ name = [p \in Paths |-> Old]
    /\ tmp = [p \in Paths |-> Nobody]
    /\ data = [i \in Uploads \cup {Old} |-> <<>>]

-----------------------------------------------------------------------------
(* The clients *)

Put(a, f) == input' = [input EXCEPT ![a] = Append(@, f)]
Becomes(q, st) == client' = [client EXCEPT ![q] = st]

\* The Request goes out before the local file is opened.
ClientRequest(q) ==
    /\ client[q] = "idle"
    /\ Exclusive => \A o \in Uploads \ {q} : client[o] \notin {"sending", "waiting"}
    /\ loop[Via[q]].at # "dead"
    /\ Becomes(q, IF q \in Uploads THEN "sending" ELSE "waiting")
    /\ Put(Via[q], [kind |-> "request", q |-> q, n |-> 0])
    /\ UNCHANGED <<next, loop, fd, name, tmp, data>>

ClientChunk(u) ==
    /\ client[u] = "sending"
    /\ u \in Unreadable => next[u] < Chunks
    /\ Put(Via[u], [kind |-> "chunk", q |-> u, n |-> next[u]])
    /\ next' = [next EXCEPT ![u] = @ + 1]
    /\ client' = IF next[u] = Chunks THEN [client EXCEPT ![u] = "waiting"] ELSE client
    /\ UNCHANGED <<loop, fd, name, tmp, data>>

\* os.Open or Read fails: FilePut returns and sends nothing more.
ClientGivesUp(u) ==
    /\ client[u] = "sending" /\ u \in Unreadable
    /\ Becomes(u, "gaveup")
    /\ UNCHANGED <<next, input, loop, fd, name, tmp, data>>

-----------------------------------------------------------------------------
(* The agent's read loop *)

Answer(q, ok) ==
    client' = IF client[q] \in {"sending", "waiting"}
              THEN [client EXCEPT ![q] = IF ok THEN "ok" ELSE "failed"] ELSE client

Reads(a, at) ==
    /\ loop[a].at = at
    /\ input[a] # <<>>
    /\ input' = [input EXCEPT ![a] = Tail(@)]

\* Between puts an exec is dispatched and a stray chunk is ignored.
Dispatch(a) ==
    LET f == Head(input[a]) IN
    /\ Reads(a, "read")
    /\ f.kind = "chunk" \/ f.q \in Execs
    /\ IF f.kind = "chunk" THEN UNCHANGED client ELSE Answer(f.q, TRUE)
    /\ UNCHANGED <<next, loop, fd, name, tmp, data>>

\* A put opens p.rsbtmp: it creates the file, or truncates the one it finds.
OpenTarget(a) ==
    LET u == Head(input[a]).q
        p == Target[u]
        i == IF tmp[p] = Nobody THEN u ELSE tmp[p] IN
    /\ Reads(a, "read")
    /\ Head(input[a]).kind = "request" /\ u \in Uploads
    /\ tmp' = [tmp EXCEPT ![p] = i]
    /\ data' = [data EXCEPT ![i] = <<>>]
    /\ fd' = [fd EXCEPT ![a] = [inode |-> i, off |-> 0]]
    /\ loop' = [loop EXCEPT ![a] = [Idle EXCEPT !.at = "put", !.put = u]]
    /\ UNCHANGED <<client, next, name>>

\* mkdir or create fails.
OpenFails(a) ==
    LET u == Head(input[a]).q IN
    /\ Faults
    /\ Reads(a, "read")
    /\ Head(input[a]).kind = "request" /\ u \in Uploads
    /\ Answer(u, FALSE)
    /\ UNCHANGED <<next, loop, fd, name, tmp, data>>

\* A write at the descriptor's own offset, whatever happened to the file since.
WriteAt(c, off, tok) ==
    [j \in 1..(IF Len(c) > off THEN Len(c) ELSE off + 1) |->
        IF j = off + 1 THEN tok ELSE IF j <= Len(c) THEN c[j] ELSE Hole]

\* A chunk is written and hashed, whoever sent it; Done ends the loop.
PutChunk(a) ==
    LET f == Head(input[a])
        last == f.n = Chunks IN
    /\ Reads(a, "put")
    /\ f.kind = "chunk"
    /\ IF last
       THEN /\ loop' = [loop EXCEPT ![a].at = "done", ![a].sha = Content(f.q)]
            /\ UNCHANGED <<fd, data>>
       ELSE /\ loop' = [loop EXCEPT ![a].stream = Append(@, <<f.q, f.n>>)]
            /\ data' = [data EXCEPT ![fd[a].inode] = WriteAt(@, fd[a].off, <<f.q, f.n>>)]
            /\ fd' = [fd EXCEPT ![a].off = @ + 1]
    /\ UNCHANGED <<client, next, name, tmp>>

\* Any other frame is logged and skipped, a Request like the rest.
PutSkips(a) ==
    /\ Reads(a, "put")
    /\ Head(input[a]).kind # "chunk"
    /\ UNCHANGED <<client, next, loop, fd, name, tmp, data>>

\* The put ends with an Error and os.Remove(target).
Abort(a) ==
    LET u == loop[a].put IN
    /\ tmp' = [tmp EXCEPT ![Target[u]] = Nobody]
    /\ fd' = [fd EXCEPT ![a] = Closed]
    /\ loop' = [loop EXCEPT ![a] = Idle]
    /\ Answer(u, FALSE)
    /\ UNCHANGED <<next, name, data>>

\* The disk is full.
WriteFails(a) ==
    /\ Faults
    /\ Reads(a, "put")
    /\ Head(input[a]).kind = "chunk" /\ Head(input[a]).n # Chunks
    /\ Abort(a)

\* sha256 mismatch between the stream and what the sender of Done computed.
Mismatch(a) ==
    /\ loop[a].at = "done"
    /\ loop[a].stream # loop[a].sha
    /\ Abort(a)
    /\ UNCHANGED input

\* Mutant of Rename: the file replaces the old one at once, hashed or not.
RenameEarly(a) ==
    LET p == Target[loop[a].put] IN
    /\ loop[a].at \in {"put", "done"}
    /\ tmp[p] # Nobody
    /\ name' = [name EXCEPT ![p] = tmp[p]]
    /\ tmp' = [tmp EXCEPT ![p] = Nobody]
    /\ fd' = [fd EXCEPT ![a] = Closed]
    /\ loop' = [loop EXCEPT ![a].at = "renamed"]
    /\ UNCHANGED <<client, next, input, data>>

\* os.Rename gives whatever is at p.rsbtmp the name p.
Rename(a) ==
    LET p == Target[loop[a].put] IN
    /\ loop[a].at = "done"
    /\ loop[a].stream = loop[a].sha
    /\ tmp[p] # Nobody
    /\ name' = [name EXCEPT ![p] = tmp[p]]
    /\ tmp' = [tmp EXCEPT ![p] = Nobody]
    /\ fd' = [fd EXCEPT ![a] = Closed]
    /\ loop' = [loop EXCEPT ![a].at = "renamed"]
    /\ UNCHANGED <<client, next, input, data>>

\* Mutant of RenameFails: the error of os.Rename is not looked at.
RenameFailsUnseen(a) ==
    /\ loop[a].at = "done"
    /\ loop[a].stream = loop[a].sha
    /\ Faults \/ tmp[Target[loop[a].put]] = Nobody
    /\ loop' = [loop EXCEPT ![a].at = "renamed"]
    /\ fd' = [fd EXCEPT ![a] = Closed]
    /\ UNCHANGED <<client, next, input, name, tmp, data>>

\* There is nothing at p.rsbtmp any more, or the rename is refused.
RenameFails(a) ==
    /\ loop[a].at = "done"
    /\ loop[a].stream = loop[a].sha
    /\ Faults \/ tmp[Target[loop[a].put]] = Nobody
    /\ Abort(a)
    /\ UNCHANGED input


\* Chtimes, then the Result.
Finish(a) ==
    /\ loop[a].at = "renamed"
    /\ loop' = [loop EXCEPT ![a] = Idle]
    /\ Answer(loop[a].put, TRUE)
    /\ UNCHANGED <<next, input, fd, name, tmp, data>>

-----------------------------------------------------------------------------
(* Losing an agent *)

\* Everything in flight over this connection fails (failAll in the daemon).
Hangs(a) == client' = [q \in Requests |->
    IF Via[q] = a /\ client[q] \in {"sending", "waiting"} THEN "failed" ELSE client[q]]

\* stdin ends: a put removes its target; the agent exits.
StdinEof(a) ==
    /\ Faults
    /\ loop[a].at \in {"read", "put"}
    /\ tmp' = IF loop[a].at = "put" THEN [tmp EXCEPT ![Target[loop[a].put]] = Nobody] ELSE tmp
    /\ Hangs(a)
    /\ loop' = [loop EXCEPT ![a] = [Idle EXCEPT !.at = "dead"]]
    /\ fd' = [fd EXCEPT ![a] = Closed]
    /\ input' = [input EXCEPT ![a] = <<>>]
    /\ UNCHANGED <<next, name, data>>

\* The agent is killed, or its host restarts: p.rsbtmp stays as it is.
Killed(a) ==
    /\ Faults
    /\ loop[a].at # "dead"
    /\ Hangs(a)
    /\ loop' = [loop EXCEPT ![a] = [Idle EXCEPT !.at = "dead"]]
    /\ fd' = [fd EXCEPT ![a] = Closed]
    /\ input' = [input EXCEPT ![a] = <<>>]
    /\ UNCHANGED <<next, name, tmp, data>>

\* The daemon opens a new connection.
Reconnect(a) ==
    /\ loop[a].at = "dead"
    /\ loop' = [loop EXCEPT ![a] = Idle]
    /\ UNCHANGED <<client, next, input, fd, name, tmp, data>>

-----------------------------------------------------------------------------
Works(a) ==
    \/ Dispatch(a) \/ OpenTarget(a) \/ OpenFails(a) \/ PutChunk(a) \/ PutSkips(a) \/ WriteFails(a)
    \/ Mismatch(a) \/ Rename(a) \/ RenameFails(a) \/ Finish(a)

Next ==
    \/ \E q \in Requests : ClientRequest(q)
    \/ \E u \in Uploads : ClientChunk(u) \/ ClientGivesUp(u)
    \/ \E a \in Agents : Works(a) \/ StdinEof(a) \/ Killed(a) \/ Reconnect(a)

Spec == Init /\ [][Next]_vars

\* The agent works off its input; a client that is sending goes on or gives up.
FairSpec ==
    /\ Spec
    /\ \A a \in Agents : WF_vars(Works(a)) /\ WF_vars(Reconnect(a))
    /\ \A u \in Uploads : WF_vars(ClientChunk(u) \/ ClientGivesUp(u))

-----------------------------------------------------------------------------
(* Properties *)

\* Every variable has its type; an agent in a put has a file open.
TypeOK ==
    /\ client \in [Requests -> {"idle", "sending", "waiting", "gaveup", "ok", "failed"}]
    /\ next \in [Uploads -> 1..(Chunks + 1)]
    /\ \A a \in Agents :
         /\ loop[a].at \in {"read", "put", "done", "renamed", "dead"}
         /\ loop[a].at \in {"put", "done", "renamed"} <=> loop[a].put \in Uploads
         /\ loop[a].at \in {"put", "done"} <=> fd[a].inode # Nobody
    /\ name \in [Paths -> Uploads \cup {Old}]
    /\ tmp \in [Paths -> Uploads \cup {Nobody}]

\* A path holds what it held before, or the whole of a file somebody uploaded to
\* it: an upload that fails, at whatever step, or an agent that is lost, leaves no
\* half-written file and no file of another upload (SKILL.md on rsb cp: a damaged
\* transfer fails instead of leaving half a file).
WholeFiles == \A p \in Paths :
    name[p] # Old => \E u \in Uploads : Target[u] = p /\ data[name[p]] = Content(u)

\* A client that is told its upload succeeded finds exactly its file at the path,
\* unless another upload to that path was started.
OkMeansStored == \A u \in Uploads :
    client[u] = "ok" =>
        \/ name[Target[u]] # Old /\ data[name[Target[u]]] = Content(u)
        \/ \E o \in Uploads \ {u} : Target[o] = Target[u] /\ client[o] # "idle"

=============================================================================
