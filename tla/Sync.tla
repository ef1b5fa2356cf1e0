--------------------------------- MODULE Sync ---------------------------------
(***************************************************************************)
(* rsb sync (internal/client/files.go, cmdSync in cmd/rsb): a walk over a   *)
(* local directory that asks the agent for each file's remote mtime and     *)
(* size and uploads those that differ, while people go on editing.  Runs of *)
(* rsb sync follow each other over one pooled connection.  An upload is     *)
(* FilePut's, without its failures of the file system below: what is kept   *)
(* is which bytes it reads when, and which mtime the remote file has when.  *)
(***************************************************************************)
EXTENDS Naturals, Sequences, FiniteSets

CONSTANTS
    N,          \* files of the directory, numbered in the order of the walk
    Lens,       \* lengths a file may have, in chunks
    Links,      \* files that are symbolic links: Walk does not follow them
    MaxWrites,  \* bound: writes to local files
    MaxTime,    \* bound: seconds
    MaxSyncs,   \* bound: runs of rsb sync
    Faults      \* whether uploads fail and connections are lost

Files == 1..N

ASSUME SyncAssumption ==
    /\ {N, MaxWrites, MaxTime, MaxSyncs} \subseteq Nat
    /\ Lens # {} /\ Lens \subseteq Nat \ {0}
    /\ Links \subseteq Files
    /\ Faults \in BOOLEAN

VARIABLES
    clock,      \* the time, in whole seconds, here and on the host
    local,      \* local[f]: what is in the local file: [data, mtime]; no data when it is gone
    remote,     \* remote[f]: the same of the remote one
    writes,     \* writes to local files so far, the content of the next one
    at,         \* Sync: "off", "walk", "stat", "open", "read", "wait"
    cur,        \* the file the walk is at
    dry,        \* --dry-run
    listed,     \* the files Walk found in the directory
    info,       \* what Walk's lstat said of cur: [size, mtime]
    pos,        \* chunks of cur read
    res,        \* res[f]: where this sync reported f: "none", "skipped", "uploaded", "failed"
    inbox,      \* Requests the agent has not read
    agent,      \* its loop: [at, put, mtime, data, wrote], at "down", "idle", "create", "put", "done", "named"
    replies,    \* frames on their way to the client; its forwarders may reorder them
    syncs,      \* runs of rsb sync so far
    seen,       \* history: what cur held at lstat
    hasty,      \* history: hasty[f]: f was written twice within a second
    cut,        \* history: cut[f]: the remote f has content whose mtime was not set
    calm,       \* history: no local file was written since this sync began
    settled,    \* history: nothing was to be done when this sync began
    gaveUp      \* history: this sync gave up an upload after its Request

localVars   == <<clock, local, writes, hasty>>
clientVars  == <<at, cur, dry, listed, info, pos, res, syncs, seen, gaveUp>>
agentVars   == <<remote, inbox, agent, replies, cut>>
vars == <<localVars, clientVars, agentVars, calm, settled>>

Gone == [data |-> <<>>, mtime |-> 0]
Exists(f) == local[f].data # <<>>
Written(v, n, t) == [data |-> [i \in 1..n |-> v], mtime |-> t]
NoInfo == [size |-> 0, mtime |-> 0]
Idle == [at |-> "idle", put |-> 0, mtime |-> 0, data |-> <<>>, wrote |-> 0]
Down == [Idle EXCEPT !.at = "down"]

\* Files that were there before the first sync, of the shortest length.
Init ==
    /\ clock = 1
    /\ local = [f \in Files |-> Written(0, CHOOSE n \in Lens : \A m \in Lens : n <= m, 1)]
    /\ remote = [f \in Files |-> Gone]
    /\ writes = 0
    /\ at = "off" /\ cur = 1 /\ dry = FALSE /\ listed = {} /\ info = NoInfo /\ pos = 0
    /\ res = [f \in Files |-> "none"]
    /\ inbox = <<>> /\ agent = Down /\ replies = {} /\ syncs = 0
    /\ seen = <<>>
    /\ hasty = [f \in Files |-> FALSE] /\ cut = [f \in Files |-> FALSE]
    /\ calm = FALSE /\ settled = FALSE /\ gaveUp = FALSE

-----------------------------------------------------------------------------
(* Whoever edits the local files *)

Tick ==
    /\ clock < MaxTime
    /\ clock' = clock + 1
    /\ UNCHANGED <<local, writes, hasty, clientVars, agentVars, calm, settled>>

\* A file is written anew, or created.
Edit(f, n) ==
    /\ writes < MaxWrites
    /\ writes' = writes + 1
    /\ local' = [local EXCEPT ![f] = Written(writes + 1, n, clock)]
    /\ hasty' = [hasty EXCEPT ![f] = @ \/ local[f].mtime = clock]
    /\ calm' = FALSE
    /\ UNCHANGED <<clock, clientVars, agentVars, settled>>

\* A file is removed.  One that is being read goes on being readable, which is
\* as if it were removed afterwards.
Remove(f) ==
    /\ writes < MaxWrites /\ Exists(f)
    /\ ~(at = "read" /\ cur = f)
    /\ writes' = writes + 1
    /\ local' = [local EXCEPT ![f].data = <<>>]
    /\ calm' = FALSE
    /\ UNCHANGED <<clock, hasty, clientVars, agentVars, settled>>

-----------------------------------------------------------------------------
(* The walk *)

Failed == {f \in Files : res[f] = "failed"}
Succeeded == at = "off" /\ syncs > 0 /\ ~dry /\ Failed = {}

\* NewSession connects if there is no connection.  (Bound: the agent is not in
\* the middle of anything the sync before asked for, unless it is stuck there.)
StartSync(d) ==
    /\ at = "off" /\ syncs < MaxSyncs
    /\ inbox = <<>> /\ agent.at \in {"down", "idle", "put"}
    /\ at' = "walk" /\ cur' = 1 /\ dry' = d
    /\ listed' = {f \in Files : Exists(f)}
    /\ res' = [f \in Files |-> "none"]
    /\ syncs' = syncs + 1
    /\ agent' = IF agent.at = "down" THEN Idle ELSE agent
    /\ replies' = {}
    /\ settled' = (Succeeded /\ calm)
    /\ calm' = TRUE
    /\ gaveUp' = FALSE
    /\ UNCHANGED <<localVars, info, pos, seen, remote, inbox, cut>>

Reply(f, op, ok, st) == [f |-> f, op |-> op, ok |-> ok, st |-> st]
Refusal(f, op) == Reply(f, op, FALSE, Gone)

\* A Request goes into the connection, or, when that is closed, comes back as an
\* Error beside the frames under way.
Request(op, frames) ==
    IF agent.at = "down"
    THEN replies' = frames \cup {Refusal(cur, op)} /\ UNCHANGED inbox
    ELSE inbox' = Append(inbox, [f |-> cur, op |-> op, mtime |-> info'.mtime]) /\ replies' = frames

Report(r) == res' = [res EXCEPT ![cur] = r]
Onward == at' = "walk" /\ cur' = cur + 1

Absent ==
    /\ at = "walk" /\ cur \in Files \ listed
    /\ Onward
    /\ UNCHANGED <<localVars, dry, listed, info, pos, res, syncs, seen, gaveUp, agentVars, calm, settled>>

\* The file was there when the directory was read and is not any more.
LstatFails ==
    /\ at = "walk" /\ cur \in listed /\ ~Exists(cur)
    /\ Report("failed")
    /\ Onward
    /\ UNCHANGED <<localVars, dry, listed, info, pos, syncs, seen, gaveUp, agentVars, calm, settled>>

\* What lstat says of a link is about the link: a size of its own (0 here), and
\* the time it was made.
Lstat(f) == IF f \in Links THEN [size |-> 0, mtime |-> 1]
            ELSE [size |-> Len(local[f].data), mtime |-> local[f].mtime]

\* The size and the mtime are those of the content the walk sees now.
AskStat ==
    /\ at = "walk" /\ cur \in listed /\ Exists(cur)
    /\ info' = Lstat(cur)
    /\ seen' = local[cur].data
    /\ at' = "stat"
    /\ Request("stat", replies)
    /\ UNCHANGED <<localVars, cur, dry, listed, pos, res, syncs, gaveUp, remote, agent, cut, calm, settled>>

\* Mutant of UpToDate: the size alone decides.
UpToDateBySize(m) == m.op = "stat" /\ m.ok /\ m.st # Gone /\ Len(m.st.data) = info.size

\* The mtime and size heuristic.
UpToDate(m) == m.op = "stat" /\ m.ok /\ m.st # Gone
    /\ Len(m.st.data) = info.size /\ m.st.mtime = info.mtime

\* FileStat takes the first file_stat or Error frame, whoever it is for; an Error
\* means upload.
TakeStat(m) ==
    /\ at = "stat" /\ m \in replies
    /\ ~(m.op = "put" /\ m.ok)
    /\ info' = info
    /\ IF UpToDate(m) \/ dry
       THEN /\ Report(IF UpToDate(m) THEN "skipped" ELSE "uploaded")
            /\ Onward
            /\ replies' = replies \ {m}
            /\ UNCHANGED inbox
       ELSE /\ at' = "open"
            /\ Request("put", replies \ {m})
            /\ UNCHANGED <<cur, res>>
    /\ UNCHANGED <<localVars, dry, listed, pos, syncs, seen, gaveUp, remote, agent, cut, calm, settled>>

\* A Result is not what FileStat waits for, nor a file_stat what FilePut does.
DropFrame(m) ==
    /\ m \in replies /\ m.ok
    /\ \/ at = "stat" /\ m.op = "put"
       \/ at = "wait" /\ m.op = "stat"
    /\ replies' = replies \ {m}
    /\ UNCHANGED <<localVars, clientVars, remote, inbox, agent, cut, calm, settled>>

\* FilePut opens the file after its Request is out; if that fails it returns.
OpenLocal ==
    /\ at = "open" /\ Exists(cur)
    /\ at' = "read" /\ pos' = 0
    /\ UNCHANGED <<localVars, cur, dry, listed, info, res, syncs, seen, gaveUp, agentVars, calm, settled>>

OpenLocalFails ==
    /\ at = "open" /\ ~Exists(cur)
    /\ gaveUp' = TRUE
    /\ Report("failed")
    /\ Onward
    /\ UNCHANGED <<localVars, dry, listed, info, pos, syncs, seen, agentVars, calm, settled>>

\* A chunk is read and sent, and the agent writes it: with the Request taken in,
\* nothing else is in between.
SendChunk ==
    /\ at = "read" /\ inbox = <<>> /\ agent.at # "create"
    /\ pos < Len(local[cur].data)
    /\ pos' = pos + 1
    /\ agent' = IF agent.at = "put"
                THEN [agent EXCEPT !.data = Append(@, local[cur].data[pos + 1]), !.wrote = clock]
                ELSE agent
    /\ UNCHANGED <<localVars, at, cur, dry, listed, info, res, syncs, seen, gaveUp,
                   remote, inbox, replies, cut, calm, settled>>

\* End of the file: Done and the sha256 of what was read.
SendDone ==
    /\ at = "read" /\ inbox = <<>> /\ agent.at # "create"
    /\ pos >= Len(local[cur].data)
    /\ at' = "wait"
    /\ agent' = IF agent.at = "put" THEN [agent EXCEPT !.at = "done"] ELSE agent
    /\ UNCHANGED <<localVars, cur, dry, listed, info, pos, res, syncs, seen, gaveUp,
                   remote, inbox, replies, cut, calm, settled>>

\* Mutant of TakeAnswer: an Error ends the upload like a Result.
TakeAnswerUnread(m) ==
    /\ at = "wait" /\ m \in replies /\ ~(m.op = "stat" /\ m.ok)
    /\ Report("uploaded")
    /\ Onward
    /\ replies' = replies \ {m}
    /\ UNCHANGED <<localVars, dry, listed, info, pos, syncs, seen, gaveUp, remote, inbox, agent, cut, calm, settled>>

\* The first Result or Error, whoever it is for.
TakeAnswer(m) ==
    /\ at = "wait" /\ m \in replies /\ ~(m.op = "stat" /\ m.ok)
    /\ Report(IF m.ok THEN "uploaded" ELSE "failed")
    /\ Onward
    /\ replies' = replies \ {m}
    /\ UNCHANGED <<localVars, dry, listed, info, pos, syncs, seen, gaveUp, remote, inbox, agent, cut, calm, settled>>

\* The walk is over, and the summary printed.
EndSync ==
    /\ at = "walk" /\ cur \notin Files
    /\ at' = "off"
    /\ UNCHANGED <<localVars, cur, dry, listed, info, pos, res, syncs, seen, gaveUp, agentVars, calm, settled>>

-----------------------------------------------------------------------------
(* The agent *)

Reads(op) == inbox # <<>> /\ Head(inbox).op = op /\ inbox' = Tail(inbox)
Says(m) == replies' = replies \cup {m}

AnswerStat ==
    /\ agent.at = "idle" /\ Reads("stat")
    /\ LET f == Head(inbox).f IN Says(Reply(f, "stat", TRUE, remote[f]))
    /\ UNCHANGED <<localVars, clientVars, remote, agent, cut, calm, settled>>

AcceptPut ==
    /\ agent.at = "idle" /\ Reads("put")
    /\ agent' = [Idle EXCEPT !.at = "create", !.put = Head(inbox).f, !.mtime = Head(inbox).mtime]
    /\ UNCHANGED <<localVars, clientVars, remote, replies, cut, calm, settled>>

\* In the middle of a put any other frame is skipped.
SkipRequest ==
    /\ agent.at = "put" /\ inbox # <<>>
    /\ inbox' = Tail(inbox)
    /\ UNCHANGED <<localVars, clientVars, remote, agent, replies, cut, calm, settled>>

Create ==
    /\ agent.at = "create"
    /\ agent' = [agent EXCEPT !.at = "put", !.wrote = clock]
    /\ UNCHANGED <<localVars, clientVars, remote, inbox, replies, cut, calm, settled>>

\* Mutant of PutFails: the Error does not reach the client.
PutFailsSilently ==
    /\ Faults
    /\ \/ agent.at \in {"create", "done"}
       \/ agent.at = "put" /\ at = "read" /\ cur = agent.put
    /\ agent' = Idle
    /\ UNCHANGED <<localVars, clientVars, remote, inbox, replies, cut, calm, settled>>

\* The file cannot be created, written (when a chunk comes) or renamed.
PutFails ==
    /\ Faults
    /\ \/ agent.at \in {"create", "done"}
       \/ agent.at = "put" /\ at = "read" /\ cur = agent.put
    /\ Says(Refusal(agent.put, "put"))
    /\ agent' = Idle
    /\ UNCHANGED <<localVars, clientVars, remote, inbox, cut, calm, settled>>

\* The rename; the file's mtime is when it was last written, ...
Rename ==
    /\ agent.at = "done"
    /\ remote' = [remote EXCEPT ![agent.put] = [data |-> agent.data, mtime |-> agent.wrote]]
    /\ cut' = [cut EXCEPT ![agent.put] = TRUE]
    /\ agent' = [agent EXCEPT !.at = "named"]
    /\ UNCHANGED <<localVars, clientVars, inbox, replies, calm, settled>>

\* Mutant of Chtimes: the mtime is not set.
ChtimesNot ==
    /\ agent.at = "named"
    /\ cut' = [cut EXCEPT ![agent.put] = FALSE]
    /\ Says(Reply(agent.put, "put", TRUE, Gone))
    /\ agent' = Idle
    /\ UNCHANGED <<localVars, clientVars, remote, inbox, calm, settled>>

\* ... and only then that of the source.
Chtimes ==
    /\ agent.at = "named"
    /\ remote' = [remote EXCEPT ![agent.put].mtime = agent.mtime]
    /\ cut' = [cut EXCEPT ![agent.put] = FALSE]
    /\ Says(Reply(agent.put, "put", TRUE, Gone))
    /\ agent' = Idle
    /\ UNCHANGED <<localVars, clientVars, inbox, calm, settled>>

\* Mutant of Lose: a put the agent was in the middle of is forgotten.
LoseForgetsPut ==
    /\ Faults /\ agent.at # "down"
    /\ agent' = Down
    /\ inbox' = <<>>
    /\ replies' = replies \cup {Refusal(inbox[i].f, inbox[i].op) : i \in DOMAIN inbox}
    /\ UNCHANGED <<localVars, clientVars, remote, cut, calm, settled>>

\* The connection is lost: everything in flight gets an Error.
Lose ==
    /\ Faults /\ agent.at # "down"
    /\ agent' = Down
    /\ inbox' = <<>>
    /\ replies' = replies
         \cup {Refusal(inbox[i].f, inbox[i].op) : i \in DOMAIN inbox}
         \cup (IF agent.put = 0 THEN {} ELSE {Refusal(agent.put, "put")})
    /\ UNCHANGED <<localVars, clientVars, remote, cut, calm, settled>>

-----------------------------------------------------------------------------
Client ==
    \/ Absent \/ LstatFails \/ AskStat \/ OpenLocal \/ OpenLocalFails \/ SendChunk \/ SendDone \/ EndSync
    \/ \E m \in replies : TakeStat(m) \/ DropFrame(m) \/ TakeAnswer(m)
Agent == AnswerStat \/ AcceptPut \/ SkipRequest \/ Create \/ Rename \/ Chtimes
Editor == Tick \/ \E f \in Files : Remove(f) \/ \E n \in Lens : Edit(f, n)

Next == Editor \/ Client \/ Agent \/ PutFails \/ Lose \/ \E d \in BOOLEAN : StartSync(d)

Spec == Init /\ [][Next]_vars

\* A sync that runs goes on and so does the agent.
FairSpec == Spec /\ WF_vars(Client) /\ WF_vars(Agent)

-----------------------------------------------------------------------------
(* Properties *)

Stat == [size : Nat, mtime : Nat]
Content == [data : Seq(Nat), mtime : Nat]
Frames == [f : Files, op : {"stat", "put"}, ok : BOOLEAN, st : Content]

\* Every variable has its type, an agent in a put has a file, and while a sync
\* waits there is a frame for it under way or the agent has still one to write.
TypeOK ==
    /\ clock \in Nat /\ writes \in Nat /\ syncs \in Nat /\ pos \in Nat
    /\ local \in [Files -> Content] /\ remote \in [Files -> Content]
    /\ at \in {"off", "walk", "stat", "open", "read", "wait"} /\ cur \in 1..(N + 1)
    /\ at \notin {"off", "walk"} => cur \in Files
    /\ listed \subseteq Files /\ info \in Stat /\ seen \in Seq(Nat)
    /\ {dry, calm, settled, gaveUp} \subseteq BOOLEAN
    /\ res \in [Files -> {"none", "skipped", "uploaded", "failed"}]
    /\ inbox \in Seq([f : Files, op : {"stat", "put"}, mtime : Nat])
    /\ agent \in [at : {"down", "idle", "create", "put", "done", "named"}, put : 0..N,
                   mtime : Nat, data : Seq(Nat), wrote : Nat]
    /\ agent.at \in {"create", "put", "done", "named"} <=> agent.put \in Files
    /\ \A m \in replies : m \in Frames
    /\ hasty \in [Files -> BOOLEAN] /\ cut \in [Files -> BOOLEAN]
    /\ at \in {"stat", "wait"} => replies # {} \/ inbox # <<>> \/ agent.put # 0

\* Two contents of f had the same mtime: the local one was written twice within a
\* second, or the remote one kept the time of an upload that was cut short.
Ambiguous(f) == hasty[f] \/ cut[f]

\* A file is skipped only if the remote file holds what the local one held when
\* the walk looked at it, whoever edited it during earlier syncs and however
\* uploads of it failed (the mtime and size heuristic of Sync).
SkipIsSafe == [][\A f \in Files :
    res[f] # "skipped" /\ res'[f] = "skipped" /\ ~Ambiguous(f) /\ ~gaveUp => remote[f].data = seen]_vars

\* When a sync that reports no failure ends and nobody has written to the
\* directory since it began, the remote files are the local ones.
Mirrors == Succeeded /\ calm =>
    \A f \in Files : Exists(f) /\ ~Ambiguous(f) => remote[f].data = local[f].data

\* The comments in FilePut and Sync: the mtime is set so that the next sync skips
\* the file.  (Not a symbolic link, whose own size and mtime Walk sees.)
NextSyncSkips == settled /\ calm /\ ~dry => \A f \in Files \ Links : res[f] # "uploaded"

\* The agent waits for the chunks of an upload that its client gave up.
Orphan == agent.at = "put" /\ ~(at \in {"open", "read"} /\ cur = agent.put)

\* A sync comes to its end, whatever fails and whenever the connection is lost,
\* unless the agent is stuck in an upload that was given up.
SyncEnds == (at # "off") ~> (at = "off" \/ Orphan)

\* A file reported as uploaded is there; SKILL.md promises of a damaged transfer
\* that it fails visibly.
UploadedIsStored == at = "off" /\ ~dry =>
    \A f \in Files : res[f] = "uploaded" => remote[f].data # <<>>

\* The three without their exceptions; the README says what refutes each.  Sync's
\* comment: it transfers the files whose mtime or size differs.
SkipIsRight == Succeeded /\ calm => \A f \in Files : Exists(f) => remote[f].data = local[f].data

\* The comment on FilePut: sync's check skips the file the next time.
NextSyncSkipsAll == settled /\ calm /\ ~dry => \A f \in Files : res[f] # "uploaded"

\* The comment on handleFilePutSync: no other request is serviced during a put,
\* the right trade-off for sync (that is, they are afterwards).
SyncReturns == (at # "off") ~> (at = "off")
=============================================================================
