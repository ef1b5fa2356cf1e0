----------------------------- MODULE Sync_proofs -----------------------------
(***************************************************************************)
(* Proofs about rsb sync, for every number of files, edits, seconds and     *)
(* runs: types, what a sync that reports no failure leaves behind, what the *)
(* mtime and size heuristic skips and what the next sync finds to be done.  *)
(* The argument goes along the time of a file: content that was written     *)
(* once in its second (Fresh) is the same at every place that names this    *)
(* time, on its way to the host (Carried) and when the walk compares it.    *)
(***************************************************************************)
EXTENDS Sync, WellFoundedInduction, TLAPS

Away == {"off", "walk"}
Upload == {"open", "read", "wait"}

\* The client will hear of its Request, or the agent is in the middle of a put.
Pending ==
    /\ at = "stat" => \/ \E m \in replies : ~(m.op = "put" /\ m.ok)
                      \/ \E i \in DOMAIN inbox : inbox[i].op = "stat"
                      \/ agent.at = "put"
    /\ at \in {"open", "read"} => \/ \E m \in replies : ~(m.op = "stat" /\ m.ok)
                                  \/ \E i \in DOMAIN inbox : inbox[i].op = "put"
                                  \/ agent.put # 0
    /\ at = "wait" => \/ \E m \in replies : ~(m.op = "stat" /\ m.ok)
                      \/ agent.at \in {"done", "named"}

\* No time is later than that of the file it was taken from.
Times ==
    /\ clock >= 1
    /\ \A f \in Files : 1 <= local[f].mtime /\ local[f].mtime <= clock
    /\ at \notin Away => info.mtime <= local[cur].mtime
    /\ \A i \in DOMAIN inbox : inbox[i].op = "put" => inbox[i].mtime <= local[inbox[i].f].mtime
    /\ agent.put # 0 => agent.mtime <= local[agent.put].mtime
    /\ \A f \in Files : ~cut[f] => remote[f].mtime <= local[f].mtime

\* Time t is that of the content f has now, and of no other it ever had.
Fresh(f, t) == Exists(f) /\ ~hasty[f] /\ local[f].mtime = t

\* The agent has of the file what its client has read.
Copied ==
    /\ Len(agent.data) = (IF at = "read" THEN pos ELSE 0)
    /\ Len(agent.data) <= Len(local[cur].data)
    /\ \A i \in 1..Len(agent.data) : agent.data[i] = local[cur].data[i]

\* What is in a put that the agent writes or has renamed, and in the remote files.
Contents ==
    /\ agent.at = "create" => agent.data = <<>>
    /\ at = "read" => Exists(cur) /\ (inbox # <<>> \/ agent.at = "create" => pos = 0)
    /\ at = "read" /\ agent.at = "put" => Len(agent.data) >= pos
    /\ agent.at \in {"done", "named"} => agent.data # <<>>
    /\ agent.at = "named" => remote[agent.put].data = agent.data /\ cut[agent.put]
    /\ \A f \in Files : remote[f].data = <<>> => remote[f] = Gone

\* Content that goes to the host under its own time is the content of that time:
\* of an upload that is asked for, ...
Inbound == \A i \in DOMAIN inbox : inbox[i].op = "put" /\ Fresh(inbox[i].f, inbox[i].mtime) =>
    at \in {"open", "read"} /\ cur = inbox[i].f
\* ... that is being written, ...
Writing == agent.put # 0 /\ (Fresh(agent.put, agent.mtime) \/ (calm /\ at \in Upload)) =>
    /\ agent.at \in {"create", "put"} => at \in {"open", "read"} /\ cur = agent.put /\ Copied
    /\ agent.at \in {"done", "named"} => agent.data = local[agent.put].data
\* ... that is there.
Landed == \A f \in Files : ~cut[f] /\ Fresh(f, remote[f].mtime) => remote[f].data = local[f].data

Carried == Inbound /\ Writing /\ Landed

\* The connection is lost.
Refused == agent.at = "down" /\ \A m \in replies : ~m.ok

\* One Request is under way at a time, unless an upload was given up.
OneRequest(op) == <<[f |-> cur, op |-> op, mtime |-> info.mtime]>>
Own == agent.put = cur /\ agent.mtime = info.mtime

AtRest == Refused \/ (replies = {} /\ inbox = <<>> /\ agent.at \in {"idle", "put"})
InStat ==
    \/ Refused
    \/ replies = {} /\ inbox = <<>> /\ agent.at = "put"
    \/ replies = {} /\ inbox = OneRequest("stat") /\ agent.at \in {"idle", "put"}
    \/ replies = {Reply(cur, "stat", TRUE, remote[cur])} /\ inbox = <<>> /\ agent.at \in {"idle", "down"}
InPut ==
    \/ Refused
    \/ replies = {} /\ inbox = OneRequest("put") /\ agent.at = "idle"
    \/ replies = {} /\ inbox = <<>> /\ agent.at \in {"create", "put"} /\ Own
    \/ replies = {Refusal(cur, "put")} /\ inbox = <<>> /\ agent.at = "idle"
InWait ==
    \/ Refused
    \/ replies = {} /\ inbox = <<>> /\ agent.at \in {"done", "named"} /\ Own
    \/ replies = {Refusal(cur, "put")} /\ inbox = <<>> /\ agent.at = "idle"
    \/ replies = {Reply(cur, "put", TRUE, Gone)} /\ inbox = <<>> /\ agent.at \in {"idle", "down"}

InStep ==
    /\ agent.at = "down" => inbox = <<>>
    /\ ~gaveUp =>
         /\ at \in Away => AtRest
         /\ at = "stat" => InStat
         /\ at \in {"open", "read"} => InPut
         /\ at = "wait" => InWait

\* What the client compares with is what the remote file had all along.
Compared ==
    /\ at \notin Away /\ cur \in Links => info.size = 0
    /\ at = "stat" /\ ~gaveUp /\ cur \notin Links /\ ~Ambiguous(cur) /\ remote[cur].mtime = info.mtime =>
         remote[cur].data = seen

Alike(f) == Len(remote[f].data) = Len(local[f].data) /\ remote[f].mtime = local[f].mtime

\* Where a sync is.
Behind ==
    /\ \A f \in Files : res[f] # "none" => f < cur
    /\ at = "off" => syncs = 0 \/ cur = N + 1
    /\ calm => syncs > 0 /\ ~gaveUp

\* What a sync knows of a directory that nobody writes to.
Undisturbed == calm =>
    /\ listed = {f \in Files : Exists(f)}
    /\ at \notin Away => Exists(cur) /\ info = Lstat(cur) /\ seen = local[cur].data
    /\ \A f \in listed : f < cur => res[f] # "none"

\* A Result says that the file is there.
Stored == calm /\ at = "wait" /\ (\E m \in replies : m.ok) =>
    remote[cur].data = local[cur].data /\ remote[cur].mtime = info.mtime

\* So does its report.
Reported == calm /\ ~dry => \A f \in Files :
    /\ res[f] = "skipped" /\ ~Ambiguous(f) => remote[f].data = local[f].data
    /\ res[f] = "uploaded" => remote[f].data = local[f].data
    /\ res[f] \in {"skipped", "uploaded"} /\ f \notin Links => Alike(f)

Walked == Behind /\ Undisturbed /\ Stored /\ Reported

Settled == settled /\ calm =>
    /\ \A f \in listed \ Links : Alike(f)
    /\ at \in Upload /\ cur \notin Links => Refused
    /\ ~dry => \A f \in Files \ Links : res[f] # "uploaded"

-----------------------------------------------------------------------------
(* Types *)

Ask == [f : Files, op : {"stat", "put"}, mtime : Nat]
Put == [at : {"down", "idle", "create", "put", "done", "named"}, put : 0..N,
        mtime : Nat, data : Seq(Nat), wrote : Nat]
LocalTypes == clock \in Nat /\ writes \in Nat /\ local \in [Files -> Content]
ClientTypes ==
    /\ syncs \in Nat /\ pos \in Nat
    /\ at \in {"off", "walk", "stat", "open", "read", "wait"} /\ cur \in 1..(N + 1)
    /\ at \notin Away => cur \in Files
    /\ listed \subseteq Files /\ info \in Stat /\ seen \in Seq(Nat)
    /\ res \in [Files -> {"none", "skipped", "uploaded", "failed"}]
AgentTypes ==
    /\ remote \in [Files -> Content]
    /\ inbox \in Seq(Ask)
    /\ agent \in Put
    /\ agent.at \in {"create", "put", "done", "named"} <=> agent.put \in Files
    /\ \A m \in replies : m \in Frames

Flags ==
    /\ dry \in BOOLEAN /\ calm \in BOOLEAN /\ settled \in BOOLEAN /\ gaveUp \in BOOLEAN
    /\ hasty \in [Files -> BOOLEAN] /\ cut \in [Files -> BOOLEAN]

Types == LocalTypes /\ ClientTypes /\ AgentTypes /\ Flags

LEMMA Constants == /\ N \in Nat /\ MaxTime \in Nat /\ Links \subseteq Files /\ Files = 1..N /\ 0 \notin Files
                   /\ Lens \subseteq Nat \ {0}
BY SyncAssumption DEF Files

LEMMA Shortest == LET n == CHOOSE n \in Lens : \A m \in Lens : n <= m IN n \in Lens
<1> DEFINE R == {ss \in Nat \X Nat : ss[1] < ss[2]}
<1>1. IsWellFoundedOn(R, Nat)
  BY NatLessThanWellFounded DEF OpToRel
<1>2. PICK n \in Lens : \A m \in Lens : ~(<<m, n>> \in R)
  <2>1. Lens \subseteq Nat /\ Lens # {}
    BY SyncAssumption
  <2> QED
    BY <1>1, <2>1, WFMin
<1>3. \A m \in Lens : n <= m
  <2>1. SUFFICES ASSUME NEW m \in Lens PROVE n <= m
    OBVIOUS
  <2>2. m \in Nat /\ n \in Nat
    BY SyncAssumption
  <2>3. ~(m < n)
    BY <1>2, <2>2
  <2> QED
    BY <2>2, <2>3
<1> QED
  BY <1>3

LEMMA WrittenType == ASSUME NEW v \in Nat, NEW n \in Nat \ {0}, NEW t \in Nat
                     PROVE  /\ Written(v, n, t) \in Content /\ Written(v, n, t).mtime = t
                            /\ Written(v, n, t).data # <<>> /\ Len(Written(v, n, t).data) = n
<1> DEFINE d == [i \in 1..n |-> v]
<1>1. d \in Seq(Nat) /\ Len(d) = n /\ d # <<>>
  OBVIOUS
<1>2. Written(v, n, t) = [data |-> d, mtime |-> t]
  BY DEF Written
<1> HIDE DEF d
<1> QED
  BY <1>1, <1>2 DEF Content

LEMMA GoneType == Gone \in Content /\ Gone.data = <<>> /\ Gone.mtime = 0
BY DEF Gone, Content

LEMMA Bare ==
    /\ <<>> \in Seq(Nat) /\ <<>> \in Seq(Ask) /\ Len(<<>>) = 0 /\ NoInfo \in Stat
    /\ Idle \in Put /\ Idle.at = "idle" /\ Idle.put = 0 /\ Idle.put \notin Files
    /\ Down \in Put /\ Down.at = "down" /\ Down.put = 0 /\ Down.put \notin Files
<1>1. <<>> \in Seq(Nat) /\ <<>> \in Seq(Ask) /\ Len(<<>>) = 0 /\ NoInfo \in Stat
  BY DEF NoInfo, Stat
<1>2. 0 \in 0..N /\ 0 \notin Files
  BY Constants
<1>3. Idle \in Put /\ Idle.at = "idle" /\ Idle.put = 0
  BY <1>1, <1>2 DEF Idle, Put
<1>4. Down = [at |-> "down", put |-> 0, mtime |-> 0, data |-> <<>>, wrote |-> 0]
  BY DEF Down, Idle
<1>5. Down \in Put /\ Down.at = "down" /\ Down.put = 0
  BY <1>1, <1>2, <1>4 DEF Put
<1> QED
  BY <1>1, <1>2, <1>3, <1>5

LEMMA FrameType ==
    /\ \A f \in Files, op \in {"stat", "put"}, ok \in BOOLEAN, st \in Content :
         /\ Reply(f, op, ok, st) \in Frames
         /\ Reply(f, op, ok, st).f = f /\ Reply(f, op, ok, st).op = op /\ Reply(f, op, ok, st).st = st
         /\ (Reply(f, op, ok, st).ok <=> ok)
    /\ \A f \in Files, op \in {"stat", "put"} :
         /\ Refusal(f, op) \in Frames /\ ~Refusal(f, op).ok /\ Refusal(f, op).f = f /\ Refusal(f, op).op = op
<1>1. ASSUME NEW f \in Files, NEW op \in {"stat", "put"}, NEW ok \in BOOLEAN, NEW st \in Content
      PROVE  /\ Reply(f, op, ok, st) \in Frames
             /\ Reply(f, op, ok, st).f = f /\ Reply(f, op, ok, st).op = op /\ Reply(f, op, ok, st).st = st
             /\ (Reply(f, op, ok, st).ok <=> ok)
  BY <1>1, Zenon DEF Reply, Frames
<1>2. ASSUME NEW f \in Files, NEW op \in {"stat", "put"}
      PROVE Refusal(f, op) \in Frames /\ ~Refusal(f, op).ok /\ Refusal(f, op).f = f /\ Refusal(f, op).op = op
  <2>1. Gone \in Content /\ FALSE \in BOOLEAN
    BY GoneType
  <2>2. /\ Reply(f, op, FALSE, Gone) \in Frames
        /\ Reply(f, op, FALSE, Gone).f = f /\ Reply(f, op, FALSE, Gone).op = op
        /\ ~Reply(f, op, FALSE, Gone).ok
    BY <2>1, Zenon DEF Reply, Frames
  <2>3. Refusal(f, op) = Reply(f, op, FALSE, Gone)
    BY DEF Refusal
  <2> HIDE DEF Refusal
  <2> QED
    BY <2>2, <2>3
<1> QED
  BY <1>1, <1>2

LEMMA InitTypes == Init => Types
<1> SUFFICES ASSUME Init PROVE Types
  OBVIOUS
<1> DEFINE n == CHOOSE n \in Lens : \A m \in Lens : n <= m
<1>1. n \in Nat \ {0}
  BY Shortest, SyncAssumption
<1>3. local = [f \in Files |-> Written(0, n, 1)]
  BY DEF Init
<1> HIDE DEF n
<1>2. Written(0, n, 1) \in Content
  BY <1>1, WrittenType
<1>4. LocalTypes
  <2>1. clock = 1 /\ writes = 0
    BY DEF Init
  <2> QED
    BY <1>2, <1>3, <2>1 DEF LocalTypes
<1>5. ClientTypes
  <2>1. at = "off" /\ cur = 1 /\ listed = {} /\ info = NoInfo /\ pos = 0 /\ syncs = 0 /\ seen = <<>>
        /\ res = [f \in Files |-> "none"]
    BY DEF Init
  <2>2. 1 \in 1..(N + 1)
    BY Constants
  <2> QED
    BY <2>1, <2>2, Bare DEF ClientTypes, Away
<1>6. AgentTypes
  <2>1. inbox = <<>> /\ agent = Down /\ replies = {} /\ remote = [f \in Files |-> Gone]
    BY DEF Init
  <2> QED
    BY <2>1, Bare, GoneType DEF AgentTypes
<1>7. Flags
  BY Zenon DEF Init, Flags
<1> QED
  BY <1>4, <1>5, <1>6, <1>7 DEF Types

\* The first frame of the agent's inbox, and the others.
LEMMA InboxHead ==
    ASSUME NEW s \in Seq(Ask), s # <<>>
    PROVE  /\ Head(s) \in Ask /\ Head(s).f \in Files /\ Head(s).op \in {"stat", "put"} /\ Head(s).mtime \in Nat
           /\ Tail(s) \in Seq(Ask) /\ Head(s) = s[1] /\ 1 \in DOMAIN s
           /\ \A i \in DOMAIN Tail(s) : Tail(s)[i] = s[i + 1] /\ i + 1 \in DOMAIN s
           /\ \A i \in DOMAIN s : i # 1 => i - 1 \in DOMAIN Tail(s) /\ Tail(s)[i - 1] = s[i]
<1>1. Head(s) \in Ask /\ Tail(s) \in Seq(Ask)
  OBVIOUS
<1> QED
  BY <1>1 DEF Ask

LEMMA InboxMore ==
    ASSUME NEW s \in Seq(Ask), NEW a \in Ask
    PROVE  /\ Append(s, a) \in Seq(Ask) /\ Append(s, a) # <<>>
           /\ \A i \in DOMAIN s : i \in DOMAIN Append(s, a) /\ Append(s, a)[i] = s[i]
           /\ \A i \in DOMAIN Append(s, a) : Append(s, a)[i] = a \/ (i \in DOMAIN s /\ Append(s, a)[i] = s[i])
           /\ \E i \in DOMAIN Append(s, a) : Append(s, a)[i] = a
<1>1. /\ Append(s, a) \in Seq(Ask) /\ Len(Append(s, a)) = Len(s) + 1 /\ Len(s) \in Nat
      /\ Append(s, a)[Len(s) + 1] = a /\ \A i \in 1..Len(s) : Append(s, a)[i] = s[i]
      /\ DOMAIN s = 1..Len(s) /\ DOMAIN Append(s, a) = 1..(Len(s) + 1)
  OBVIOUS
<1>2. Len(s) + 1 \in DOMAIN Append(s, a)
  BY <1>1
<1> QED
  BY <1>1, <1>2

\* A Request goes out, or comes back.
LEMMA Requested ==
    ASSUME Types, cur \in Files, info' \in Stat, NEW op \in {"stat", "put"}, NEW F \in SUBSET replies, Request(op, F)
    PROVE  LET a == [f |-> cur, op |-> op, mtime |-> info'.mtime] IN
           /\ a \in Ask /\ a.f = cur /\ a.op = op /\ a.mtime = info'.mtime
           /\ \/ agent.at = "down" /\ replies' = F \cup {Refusal(cur, op)} /\ inbox' = inbox
              \/ agent.at # "down" /\ replies' = F /\ inbox' = Append(inbox, a)
           /\ inbox' \in Seq(Ask) /\ \A m \in replies' : m \in Frames
<1> DEFINE a == [f |-> cur, op |-> op, mtime |-> info'.mtime]
<1>1. a \in Ask /\ a.f = cur /\ a.op = op /\ a.mtime = info'.mtime
  BY DEF Ask, Stat
<1>2. \/ agent.at = "down" /\ replies' = F \cup {Refusal(cur, op)} /\ inbox' = inbox
      \/ agent.at # "down" /\ replies' = F /\ inbox' = Append(inbox, a)
  BY DEF Request
<1> HIDE DEF a
<1>3. inbox' \in Seq(Ask)
  BY <1>1, <1>2, InboxMore DEF Types, AgentTypes
<1>4. \A m \in replies' : m \in Frames
  BY <1>2, FrameType DEF Types, AgentTypes
<1> QED
  BY <1>1, <1>2, <1>3, <1>4 DEF a

\* The flags and the histories.
LEMMA FlagsKept == ASSUME Types, Next PROVE Flags'
<1>1. Flags
  BY DEF Types
<1>2. ASSUME NEW f \in Files, NEW n \in Lens, Edit(f, n) PROVE Flags'
  <2>1. hasty' = [hasty EXCEPT ![f] = @ \/ local[f].mtime = clock] /\ calm' = FALSE
        /\ UNCHANGED <<dry, settled, gaveUp, cut>>
    BY <1>2 DEF Edit, clientVars, agentVars
  <2> QED
    BY <1>1, <2>1, ZenonT(30) DEF Flags
<1>3. CASE Rename \/ Chtimes
  <2>1. (\E b \in BOOLEAN : cut' = [cut EXCEPT ![agent.put] = b]) /\ UNCHANGED <<dry, settled, gaveUp, calm, hasty>>
    BY <1>3 DEF Rename, Chtimes, localVars, clientVars
  <2> QED
    BY <1>1, <2>1, ZenonT(30) DEF Flags
<1>4. ASSUME NEW d \in BOOLEAN, StartSync(d) PROVE Flags'
  <2>1. dry' = d /\ settled' = (Succeeded /\ calm) /\ calm' = TRUE /\ gaveUp' = FALSE /\ UNCHANGED <<hasty, cut>>
    BY <1>4 DEF StartSync, localVars
  <2> QED
    BY <1>1, <2>1, ZenonT(30) DEF Flags
<1>5. CASE OpenLocalFails
  BY <1>1, <1>5, ZenonT(30) DEF Flags, OpenLocalFails, localVars, agentVars
<1>6. ASSUME NEW f \in Files, Remove(f) PROVE Flags'
  BY <1>1, <1>6, ZenonT(30) DEF Flags, Remove, clientVars, agentVars
<1>7. CASE Tick \/ Absent \/ LstatFails \/ AskStat \/ OpenLocal \/ SendChunk \/ SendDone \/ EndSync
  <2>1. UNCHANGED <<dry, settled, gaveUp, calm, hasty, cut>>
    BY <1>7 DEF Tick, Absent, LstatFails, AskStat, OpenLocal, SendChunk, SendDone, EndSync, localVars, clientVars, agentVars
  <2> QED
    BY <1>1, <2>1 DEF Flags
<1>8. ASSUME NEW m \in replies, TakeStat(m) \/ DropFrame(m) \/ TakeAnswer(m) PROVE Flags'
  <2>1. UNCHANGED <<dry, settled, gaveUp, calm, hasty, cut>>
    BY <1>8 DEF TakeStat, DropFrame, TakeAnswer, localVars, clientVars, agentVars
  <2> QED
    BY <1>1, <2>1 DEF Flags
<1>9. CASE AnswerStat \/ AcceptPut \/ SkipRequest \/ Create \/ PutFails \/ Lose
  <2>1. UNCHANGED <<dry, settled, gaveUp, calm, hasty, cut>>
    BY <1>9 DEF AnswerStat, AcceptPut, SkipRequest, Create, PutFails, Lose, localVars, clientVars
  <2> QED
    BY <1>1, <2>1 DEF Flags
<1> QED
  BY <1>2, <1>3, <1>4, <1>5, <1>6, <1>7, <1>8, <1>9 DEF Next, Client, Agent, Editor

LEMMA EditorTypes == ASSUME Types, Editor PROVE Types'
<1>1. Flags'
  BY FlagsKept DEF Next
<1>2. ClientTypes' /\ AgentTypes'
  BY DEF Editor, Tick, Edit, Remove, clientVars, agentVars, Types, ClientTypes, AgentTypes
<1>3. LocalTypes
  BY DEF Types
<1>4. CASE Tick
  <2>1. clock' = clock + 1 /\ UNCHANGED <<local, writes>>
    BY <1>4 DEF Tick
  <2> QED
    BY <1>1, <1>2, <1>3, <2>1 DEF LocalTypes, Types
<1>5. ASSUME NEW f \in Files, NEW n \in Lens, Edit(f, n) PROVE Types'
  <2>1. Written(writes + 1, n, clock) \in Content
    BY <1>3, WrittenType, Constants DEF LocalTypes
  <2>2. writes' = writes + 1 /\ clock' = clock /\ local' = [local EXCEPT ![f] = Written(writes + 1, n, clock)]
    BY <1>5 DEF Edit
  <2> QED
    BY <1>1, <1>2, <1>3, <2>1, <2>2 DEF LocalTypes, Types
<1>6. ASSUME NEW f \in Files, Remove(f) PROVE Types'
  <2>1. writes' = writes + 1 /\ clock' = clock /\ local' = [local EXCEPT ![f] = [local[f] EXCEPT !.data = <<>>]]
    BY <1>6 DEF Remove
  <2>2. [local[f] EXCEPT !.data = <<>>] \in Content
    BY <1>3, Bare DEF LocalTypes, Content
  <2> QED
    BY <1>1, <1>2, <1>3, <2>1, <2>2 DEF LocalTypes, Types
<1> QED
  BY <1>4, <1>5, <1>6 DEF Editor

LEMMA StartSyncTypes == ASSUME Types, NEW d \in BOOLEAN, StartSync(d) PROVE Types'
<1>1. LocalTypes'
  BY DEF Types, StartSync, localVars, LocalTypes
<1>2. Flags'
  BY FlagsKept DEF Next
<1>3. ClientTypes'
  <2>1. at' = "walk" /\ cur' = 1 /\ listed' = {f \in Files : Exists(f)} /\ res' = [f \in Files |-> "none"]
        /\ syncs' = syncs + 1 /\ UNCHANGED <<info, pos, seen>>
    BY DEF StartSync
  <2>2. 1 \in 1..(N + 1)
    BY Constants
  <2> QED
    BY <2>1, <2>2 DEF Types, ClientTypes, Away
<1>4. AgentTypes'
  <2>1. agent' = (IF agent.at = "down" THEN Idle ELSE agent) /\ replies' = {} /\ UNCHANGED <<inbox, remote>>
    BY DEF StartSync
  <2> QED
    BY <2>1, Bare DEF Types, AgentTypes
<1> QED
  BY <1>1, <1>2, <1>3, <1>4 DEF Types

LEMMA ClientTypesKept == ASSUME Types, Client PROVE Types'
<1>0. Flags'
  BY FlagsKept DEF Next
<1>1. LocalTypes'
  BY DEF Client, Absent, LstatFails, AskStat, OpenLocal, OpenLocalFails, SendChunk, SendDone, EndSync, TakeStat,
         DropFrame, TakeAnswer, localVars, Types, LocalTypes
<1>9. Flags' /\ LocalTypes' /\ (ClientTypes' /\ AgentTypes' => Types')
  BY <1>0, <1>1 DEF Types
<1> USE DEF Types, localVars, clientVars, agentVars
<1>2. CASE Absent \/ LstatFails \/ OpenLocal \/ OpenLocalFails \/ EndSync
  <2>1. AgentTypes'
    BY <1>2 DEF Absent, LstatFails, OpenLocal, OpenLocalFails, EndSync, AgentTypes
  <2>2. ClientTypes'
    <3>1. CASE Absent \/ LstatFails \/ OpenLocalFails
      <4>1. at' = "walk" /\ cur' = cur + 1 /\ (res' = res \/ res' = [res EXCEPT ![cur] = "failed"])
            /\ UNCHANGED <<listed, info, pos, syncs, seen>>
        BY <3>1 DEF Absent, LstatFails, OpenLocalFails, Onward, Report
      <4>2. cur \in Files
        BY <3>1 DEF Absent, LstatFails, OpenLocalFails, ClientTypes, Away
      <4> QED
        BY <4>1, <4>2, Constants DEF ClientTypes, Away
    <3>2. CASE OpenLocal \/ EndSync
      BY <3>2 DEF OpenLocal, EndSync, ClientTypes, Away
    <3> QED
      BY <1>2, <3>1, <3>2
  <2> QED
    BY <1>9, <2>1, <2>2
<1>3. CASE AskStat
  <2>1. cur \in Files /\ info' \in Stat /\ seen' \in Seq(Nat)
    BY <1>3 DEF AskStat, Lstat, Stat, ClientTypes, LocalTypes, Content
  <2>2. inbox' \in Seq(Ask) /\ \A m \in replies' : m \in Frames
    BY <1>3, <2>1, Requested DEF AskStat
  <2>3. AgentTypes'
    BY <1>3, <2>2 DEF AskStat, AgentTypes
  <2>4. ClientTypes'
    BY <1>3, <2>1 DEF AskStat, ClientTypes, Away
  <2> QED
    BY <1>9, <2>3, <2>4
<1>4. CASE SendChunk
  <2>1. AgentTypes'
    <3>1. CASE agent.at = "put"
      <4>1. local[cur].data \in Seq(Nat) /\ pos + 1 \in 1..Len(local[cur].data)
        BY <1>4 DEF SendChunk, ClientTypes, Away, LocalTypes, Content
      <4>2. local[cur].data[pos + 1] \in Nat
        BY <4>1
      <4>3. Append(agent.data, local[cur].data[pos + 1]) \in Seq(Nat)
        BY <4>2 DEF AgentTypes, Put
      <4>4. agent' = [agent EXCEPT !.data = Append(agent.data, local[cur].data[pos + 1]), !.wrote = clock]
        BY <1>4, <3>1 DEF SendChunk
      <4>5. agent' \in Put /\ agent'.at = agent.at /\ agent'.put = agent.put
        BY <4>3, <4>4 DEF AgentTypes, Put, LocalTypes
      <4> QED
        BY <1>4, <4>5 DEF SendChunk, AgentTypes
    <3>2. CASE agent.at # "put"
      BY <1>4, <3>2 DEF SendChunk, AgentTypes
    <3> QED
      BY <3>1, <3>2
  <2>2. ClientTypes'
    BY <1>4 DEF SendChunk, ClientTypes
  <2> QED
    BY <1>9, <2>1, <2>2
<1>5. CASE SendDone
  <2>1. AgentTypes'
    BY <1>5 DEF SendDone, AgentTypes, Put
  <2>2. ClientTypes'
    BY <1>5 DEF SendDone, ClientTypes, Away
  <2> QED
    BY <1>9, <2>1, <2>2
<1>6. ASSUME NEW m \in replies, TakeStat(m) PROVE Types'
  <2>1. CASE UpToDate(m) \/ dry
    <3>1. AgentTypes'
      BY <1>6, <2>1 DEF TakeStat, AgentTypes
    <3>2. ClientTypes'
      BY <1>6, <2>1, Constants DEF TakeStat, Report, Onward, ClientTypes, Away
    <3> QED
      BY <1>9, <3>1, <3>2
  <2>2. CASE ~(UpToDate(m) \/ dry)
    <3>1. cur \in Files /\ info' \in Stat /\ Request("put", replies \ {m})
      BY <1>6, <2>2 DEF TakeStat, ClientTypes, Away
    <3>2. inbox' \in Seq(Ask) /\ \A k \in replies' : k \in Frames
      BY <3>1, Requested
    <3>3. AgentTypes'
      BY <1>6, <3>2 DEF TakeStat, AgentTypes
    <3>4. ClientTypes'
      BY <1>6, <2>2, <3>1 DEF TakeStat, ClientTypes, Away
    <3> QED
      BY <1>9, <3>3, <3>4
  <2> QED
    BY <2>1, <2>2
<1>7. ASSUME NEW m \in replies, DropFrame(m) PROVE Types'
  <2>1. AgentTypes'
    BY <1>7 DEF DropFrame, AgentTypes
  <2>2. ClientTypes'
    BY <1>7 DEF DropFrame, ClientTypes
  <2> QED
    BY <1>9, <2>1, <2>2
<1>8. ASSUME NEW m \in replies, TakeAnswer(m) PROVE Types'
  <2>1. AgentTypes'
    BY <1>8 DEF TakeAnswer, AgentTypes
  <2>2. ClientTypes'
    BY <1>8, Constants DEF TakeAnswer, Report, Onward, ClientTypes, Away
  <2> QED
    BY <1>9, <2>1, <2>2
<1> QED
  BY <1>2, <1>3, <1>4, <1>5, <1>6, <1>7, <1>8 DEF Client

LEMMA AgentTypesKept == ASSUME Types, Agent \/ PutFails \/ Lose PROVE Types'
<1>0. Flags'
  BY FlagsKept DEF Next
<1>1. LocalTypes' /\ ClientTypes'
  BY DEF Agent, AnswerStat, AcceptPut, SkipRequest, Create, Rename, Chtimes, PutFails, Lose, localVars, clientVars,
         Types, LocalTypes, ClientTypes
<1>10. AgentTypes' => Types'
  BY <1>0, <1>1 DEF Types
<1> USE DEF Types
<1>2. CASE AnswerStat
  <2>1. inbox # <<>> /\ inbox' = Tail(inbox) /\ replies' = replies \cup {Reply(Head(inbox).f, "stat", TRUE, remote[Head(inbox).f])}
        /\ UNCHANGED <<remote, agent>>
    BY <1>2 DEF AnswerStat, Reads, Says
  <2>2. Head(inbox).f \in Files /\ inbox' \in Seq(Ask)
    BY <2>1, InboxHead DEF AgentTypes
  <2>3. Reply(Head(inbox).f, "stat", TRUE, remote[Head(inbox).f]) \in Frames
    BY <2>2, FrameType DEF AgentTypes
  <2> QED
    BY <1>10, <2>1, <2>2, <2>3 DEF AgentTypes
<1>3. CASE AcceptPut
  <2>1. inbox # <<>> /\ inbox' = Tail(inbox) /\ UNCHANGED <<remote, replies>>
        /\ agent' = [Idle EXCEPT !.at = "create", !.put = Head(inbox).f, !.mtime = Head(inbox).mtime]
    BY <1>3 DEF AcceptPut, Reads
  <2>2. Head(inbox).f \in Files /\ inbox' \in Seq(Ask) /\ Head(inbox).mtime \in Nat
    BY <2>1, InboxHead DEF AgentTypes
  <2>3. agent' \in Put /\ agent'.at = "create" /\ agent'.put \in Files
    <3>1. agent' = [at |-> "create", put |-> Head(inbox).f, mtime |-> Head(inbox).mtime, data |-> <<>>, wrote |-> 0]
      BY <2>1 DEF Idle
    <3> QED
      BY <2>2, <3>1, Bare, Constants DEF Put
  <2> QED
    BY <1>10, <2>1, <2>2, <2>3 DEF AgentTypes
<1>4. CASE SkipRequest
  BY <1>10, <1>4, InboxHead DEF SkipRequest, AgentTypes
<1>5. CASE Create
  <2>1. agent' \in Put /\ agent'.at = "put" /\ agent'.put = agent.put
    BY <1>5 DEF Create, AgentTypes, Put, LocalTypes
  <2> QED
    BY <1>10, <1>5, <2>1 DEF Create, AgentTypes
<1>6. CASE Rename
  <2>1. agent' \in Put /\ agent'.at = "named" /\ agent'.put = agent.put /\ agent.put \in Files
    BY <1>6 DEF Rename, AgentTypes, Put
  <2>2. remote' \in [Files -> Content] 
    BY <1>6 DEF Rename, AgentTypes, Put, Content
  <2> QED
    BY <1>10, <1>6, <2>1, <2>2 DEF Rename, AgentTypes
<1>7. CASE Chtimes
  <2>1. agent' = Idle /\ agent.put \in Files /\ replies' = replies \cup {Reply(agent.put, "put", TRUE, Gone)}
        /\ inbox' = inbox
    BY <1>7 DEF Chtimes, AgentTypes, Says
  <2>2. remote' \in [Files -> Content] 
    BY <1>7 DEF Chtimes, AgentTypes, Put, Content
  <2>3. Reply(agent.put, "put", TRUE, Gone) \in Frames
    BY <2>1, FrameType, GoneType
  <2>4. agent' \in Put /\ agent'.at = "idle" /\ agent'.put \notin Files
    BY <2>1, Bare
  <2> QED
    BY <1>10, <2>1, <2>2, <2>3, <2>4 DEF AgentTypes
<1>8. CASE PutFails
  <2>1. agent' = Idle /\ agent.put \in Files /\ replies' = replies \cup {Refusal(agent.put, "put")}
        /\ UNCHANGED <<inbox, remote>>
    BY <1>8 DEF PutFails, AgentTypes, Says
  <2>2. Refusal(agent.put, "put") \in Frames
    BY <2>1, FrameType
  <2>3. agent' \in Put /\ agent'.at = "idle" /\ agent'.put \notin Files
    BY <2>1, Bare
  <2> QED
    BY <1>10, <2>1, <2>2, <2>3 DEF AgentTypes
<1>9. CASE Lose
  <2>1. agent' \in Put /\ agent'.at = "down" /\ agent'.put \notin Files
    BY <1>9, Bare DEF Lose
  <2>2. \A i \in DOMAIN inbox : Refusal(inbox[i].f, inbox[i].op) \in Frames
    <3>1. \A i \in DOMAIN inbox : inbox[i].f \in Files /\ inbox[i].op \in {"stat", "put"}
      <4>1. \A i \in DOMAIN inbox : inbox[i] \in Ask
        BY DEF AgentTypes
      <4> QED
        BY <4>1 DEF Ask
    <3> QED
      BY <3>1, FrameType
  <2>3. agent.put # 0 => Refusal(agent.put, "put") \in Frames
    BY FrameType, Constants DEF AgentTypes, Put
  <2>4. \A m \in replies' : m \in Frames
    BY <1>9, <2>2, <2>3 DEF Lose, AgentTypes
  <2> QED
    BY <1>10, <1>9, <2>1, <2>4 DEF Lose, AgentTypes
<1> QED
  BY <1>2, <1>3, <1>4, <1>5, <1>6, <1>7, <1>8, <1>9 DEF Agent

-----------------------------------------------------------------------------
(* The directory, step by step *)

LEMMA NextTypes == ASSUME Types, Next PROVE Types'
<1>1. CASE Editor
  BY <1>1, EditorTypes
<1>2. CASE Client
  BY <1>2, ClientTypesKept
<1>3. CASE Agent \/ PutFails \/ Lose
  BY <1>3, AgentTypesKept
<1>4. ASSUME NEW d \in BOOLEAN, StartSync(d) PROVE Types'
  BY <1>4, StartSyncTypes
<1> QED
  BY <1>1, <1>2, <1>3, <1>4 DEF Next

\* The local files change when they are edited only, and a file whose content is
\* new is gone, was written twice within a second, or is younger.
LEMMA Others == ASSUME Next, ~Editor PROVE UNCHANGED localVars
<1>1. CASE Client
  BY <1>1 DEF Client, Absent, LstatFails, AskStat, OpenLocal, OpenLocalFails, SendChunk, SendDone, EndSync, TakeStat,
              DropFrame, TakeAnswer
<1>2. CASE Agent \/ PutFails \/ Lose
  BY <1>2 DEF Agent, AnswerStat, AcceptPut, SkipRequest, Create, Rename, Chtimes, PutFails, Lose
<1>3. ASSUME NEW d \in BOOLEAN, StartSync(d) PROVE UNCHANGED localVars
  BY <1>3 DEF StartSync
<1> QED
  BY <1>1, <1>2, <1>3 DEF Next

LEMMA LocalStep ==
    ASSUME Types, Times, Next
    PROVE  /\ 1 <= clock /\ clock <= clock'
           /\ \A f \in Files :
                /\ 1 <= local'[f].mtime /\ local[f].mtime <= local'[f].mtime /\ local'[f].mtime <= clock'
                /\ hasty[f] => hasty'[f]
                /\ \/ local'[f] = local[f] /\ (hasty'[f] <=> hasty[f])
                   \/ local'[f].data = <<>>
                   \/ hasty'[f]
                   \/ local[f].mtime < local'[f].mtime
<1>1. /\ clock \in Nat /\ 1 <= clock
      /\ \A f \in Files : local[f].mtime \in Nat /\ 1 <= local[f].mtime /\ local[f].mtime <= clock
  BY DEF Types, LocalTypes, Content, Times
<1>2. CASE ~Editor
  BY <1>1, <1>2, Others DEF localVars
<1>3. CASE Tick
  <2>1. clock' = clock + 1 /\ local' = local /\ hasty' = hasty
    BY <1>3 DEF Tick
  <2> QED
    BY <1>1, <2>1
<1>4. ASSUME NEW g \in Files, NEW n \in Lens, Edit(g, n)
      PROVE  /\ clock' = clock
             /\ \A f \in Files \ {g} : local'[f] = local[f] /\ (hasty'[f] <=> hasty[f])
             /\ local'[g].mtime = clock /\ (hasty[g] => hasty'[g]) /\ (local[g].mtime = clock => hasty'[g])
  <2>1. clock' = clock /\ local' = [local EXCEPT ![g] = Written(writes + 1, n, clock)]
        /\ hasty' = [hasty EXCEPT ![g] = @ \/ local[g].mtime = clock]
    BY <1>4 DEF Edit
  <2>2. local \in [Files -> Content] /\ hasty \in [Files -> BOOLEAN]
    BY DEF Types, LocalTypes, Flags
  <2>3. Written(writes + 1, n, clock).mtime = clock
    BY DEF Written
  <2>4. /\ \A f \in Files \ {g} : local'[f] = local[f]
        /\ local'[g].mtime = clock
    BY <2>1, <2>2, <2>3
  <2>5. /\ \A f \in Files \ {g} : hasty'[f] <=> hasty[f]
        /\ hasty'[g] <=> (hasty[g] \/ local[g].mtime = clock)
    BY <2>1, <2>2, ZenonT(30)
  <2> QED
    BY <2>1, <2>4, <2>5
<1>5. ASSUME NEW g \in Files, Remove(g)
      PROVE  /\ clock' = clock /\ hasty' = hasty
             /\ \A f \in Files \ {g} : local'[f] = local[f]
             /\ local'[g].mtime = local[g].mtime /\ local'[g].data = <<>>
  <2>1. clock' = clock /\ local' = [local EXCEPT ![g] = [local[g] EXCEPT !.data = <<>>]] /\ hasty' = hasty
    BY <1>5 DEF Remove
  <2>2. local \in [Files -> Content]
    BY DEF Types, LocalTypes
  <2> QED
    BY <2>1, <2>2 DEF Content
<1>6. ASSUME NEW g \in Files, NEW n \in Lens, Edit(g, n), NEW f \in Files
      PROVE  /\ 1 <= local'[f].mtime /\ local[f].mtime <= local'[f].mtime /\ local'[f].mtime <= clock'
             /\ hasty[f] => hasty'[f]
             /\ \/ local'[f] = local[f] /\ (hasty'[f] <=> hasty[f])
                \/ local'[f].data = <<>>
                \/ hasty'[f]
                \/ local[f].mtime < local'[f].mtime
  <2>1. CASE f = g
    BY <1>1, <1>4, <1>6, <2>1
  <2>2. CASE f # g
    BY <1>1, <1>4, <1>6, <2>2
  <2> QED
    BY <2>1, <2>2
<1>7. ASSUME NEW g \in Files, Remove(g), NEW f \in Files
      PROVE  /\ 1 <= local'[f].mtime /\ local[f].mtime <= local'[f].mtime /\ local'[f].mtime <= clock'
             /\ hasty[f] => hasty'[f]
             /\ \/ local'[f] = local[f] /\ (hasty'[f] <=> hasty[f])
                \/ local'[f].data = <<>>
                \/ hasty'[f]
                \/ local[f].mtime < local'[f].mtime
  <2>1. CASE f = g
    BY <1>1, <1>5, <1>7, <2>1
  <2>2. CASE f # g
    BY <1>1, <1>5, <1>7, <2>2
  <2> QED
    BY <2>1, <2>2
<1>8. ASSUME NEW g \in Files, (\E n \in Lens : Edit(g, n)) \/ Remove(g) PROVE clock' = clock
  BY <1>4, <1>5, <1>8
<1> QED
  BY <1>1, <1>2, <1>3, <1>6, <1>7, <1>8 DEF Editor

\* A sync goes on with the directory as it was, or a new one begins.
LEMMA CalmStep == ASSUME Types, Next, calm' PROVE UNCHANGED <<local, hasty>> /\ (calm \/ \E d \in BOOLEAN : StartSync(d))
<1>1. CASE Editor
  BY <1>1 DEF Editor, Tick, Edit, Remove
<1>2. CASE ~Editor
  <2>1. UNCHANGED <<local, hasty>>
    BY <1>2, Others DEF localVars
  <2>2. calm \/ \E d \in BOOLEAN : StartSync(d)
    <3>1. CASE Client
      BY <3>1 DEF Client, Absent, LstatFails, AskStat, OpenLocal, OpenLocalFails, SendChunk, SendDone, EndSync, TakeStat,
              DropFrame, TakeAnswer
    <3>2. CASE Agent \/ PutFails \/ Lose
      BY <3>2 DEF Agent, AnswerStat, AcceptPut, SkipRequest, Create, Rename, Chtimes, PutFails, Lose
    <3> QED
      BY <1>2, <3>1, <3>2 DEF Next
  <2> QED
    BY <2>1, <2>2
<1> QED
  BY <1>1, <1>2

LEMMA InitFirst == Init => Pending /\ Times /\ Contents
<1> SUFFICES ASSUME Init PROVE Pending /\ Times /\ Contents
  OBVIOUS
<1>1. Types
  BY InitTypes
<1>2. at = "off" /\ clock = 1 /\ inbox = <<>> /\ agent = Down /\ remote = [f \in Files |-> Gone]
  BY DEF Init
<1>3. \A f \in Files : local[f].mtime = 1
  BY DEF Init, Written
<1>4. \A f \in Files : remote[f] = Gone /\ remote[f].mtime = 0
  BY <1>2, GoneType
<1>5. Pending
  BY <1>2 DEF Pending
<1>6. Times
  BY <1>2, <1>3, <1>4, Bare DEF Times, Away
<1>7. Contents
  BY <1>2, <1>4, Bare DEF Contents
<1> QED
  BY <1>5, <1>6, <1>7

-----------------------------------------------------------------------------
(* Somebody is waited for *)

\* Requests go out from AskStat and TakeStat only.
LEMMA Asks ==
    ASSUME Types, Types', AskStat \/ \E m \in replies : TakeStat(m) /\ ~(UpToDate(m) \/ dry)
    PROVE  \E op \in {"stat", "put"}, F \in SUBSET replies, a \in Ask :
             /\ op = (IF at = "walk" THEN "stat" ELSE "put")
             /\ op = "stat" => F = replies /\ at = "walk" /\ at' = "stat" /\ AskStat
             /\ op = "put" => /\ at = "stat" /\ at' = "open" /\ info' = info
                              /\ \E m \in replies : /\ F = replies \ {m} /\ TakeStat(m)
                                                    /\ ~(m.op = "put" /\ m.ok) /\ ~UpToDate(m) /\ ~dry
             /\ a = [f |-> cur, op |-> op, mtime |-> info'.mtime]
             /\ a.f = cur /\ a.op = op /\ a.mtime = info'.mtime
             /\ \/ agent.at = "down" /\ replies' = F \cup {Refusal(cur, op)} /\ inbox' = inbox
                \/ agent.at # "down" /\ replies' = F /\ inbox' = Append(inbox, a)
             /\ cur' = cur /\ cur \in Files
             /\ UNCHANGED <<localVars, dry, listed, pos, res, syncs, gaveUp, remote, agent, cut, calm, settled>>
<1>1. CASE AskStat
  <2>1. cur \in Files /\ info' \in Stat
    BY <1>1 DEF AskStat, Types, ClientTypes
  <2>2. Request("stat", replies)
    BY <1>1 DEF AskStat
  <2> DEFINE a == [f |-> cur, op |-> "stat", mtime |-> info'.mtime]
  <2>3. /\ a \in Ask /\ a.f = cur /\ a.op = "stat" /\ a.mtime = info'.mtime
        /\ \/ agent.at = "down" /\ replies' = replies \cup {Refusal(cur, "stat")} /\ inbox' = inbox
           \/ agent.at # "down" /\ replies' = replies /\ inbox' = Append(inbox, a)
    BY <2>1, <2>2, Requested
  <2>4. at = "walk" /\ at' = "stat" /\ cur' = cur
        /\ UNCHANGED <<localVars, dry, listed, pos, res, syncs, gaveUp, remote, agent, cut, calm, settled>>
    BY <1>1 DEF AskStat
  <2>5. a = [f |-> cur, op |-> "stat", mtime |-> info'.mtime]
    OBVIOUS
  <2> HIDE DEF a
  <2> QED
    BY <1>1, <2>1, <2>3, <2>4, <2>5
<1>2. ASSUME NEW m \in replies, TakeStat(m), ~(UpToDate(m) \/ dry)
      PROVE  \E op \in {"stat", "put"}, F \in SUBSET replies, a \in Ask :
             /\ op = (IF at = "walk" THEN "stat" ELSE "put")
             /\ op = "stat" => F = replies /\ at = "walk" /\ at' = "stat" /\ AskStat
             /\ op = "put" => /\ at = "stat" /\ at' = "open" /\ info' = info
                              /\ \E k \in replies : /\ F = replies \ {k} /\ TakeStat(k)
                                                    /\ ~(k.op = "put" /\ k.ok) /\ ~UpToDate(k) /\ ~dry
             /\ a = [f |-> cur, op |-> op, mtime |-> info'.mtime]
             /\ a.f = cur /\ a.op = op /\ a.mtime = info'.mtime
             /\ \/ agent.at = "down" /\ replies' = F \cup {Refusal(cur, op)} /\ inbox' = inbox
                \/ agent.at # "down" /\ replies' = F /\ inbox' = Append(inbox, a)
             /\ cur' = cur /\ cur \in Files
             /\ UNCHANGED <<localVars, dry, listed, pos, res, syncs, gaveUp, remote, agent, cut, calm, settled>>
  <2>1. /\ at = "stat" /\ at' = "open" /\ cur' = cur /\ info' = info /\ ~(m.op = "put" /\ m.ok) /\ ~UpToDate(m) /\ ~dry
        /\ Request("put", replies \ {m})
        /\ UNCHANGED <<localVars, dry, listed, pos, res, syncs, gaveUp, remote, agent, cut, calm, settled>>
    BY <1>2 DEF TakeStat
  <2>2. cur \in Files /\ info' \in Stat /\ replies \ {m} \in SUBSET replies
    BY <2>1 DEF Types, ClientTypes, Away
  <2> DEFINE a == [f |-> cur, op |-> "put", mtime |-> info'.mtime]
  <2> DEFINE F == replies \ {m}
  <2>5. a = [f |-> cur, op |-> "put", mtime |-> info'.mtime] /\ F = replies \ {m}
    OBVIOUS
  <2>3. /\ a \in Ask /\ a.f = cur /\ a.op = "put" /\ a.mtime = info'.mtime
        /\ \/ agent.at = "down" /\ replies' = F \cup {Refusal(cur, "put")} /\ inbox' = inbox
           \/ agent.at # "down" /\ replies' = F /\ inbox' = Append(inbox, a)
    BY <2>1, <2>2, Requested
  <2> HIDE DEF a, F
  <2> QED
    BY <1>2, <2>1, <2>2, <2>3, <2>5
<1> QED
  BY <1>1, <1>2


LEMMA PendingStep == ASSUME Types, Types', Pending, Next PROVE Pending'
<1>1. CASE at' \in Away
  BY <1>1 DEF Pending, Away
<1>2. agent.put # 0 <=> agent.at \in {"create", "put", "done", "named"}
  BY Constants DEF Types, AgentTypes, Put
<1>2p. agent'.put # 0 <=> agent'.at \in {"create", "put", "done", "named"}
  BY Constants DEF Types, AgentTypes, Put
<1>3. CASE Editor
  <2>1. UNCHANGED <<at, replies, inbox, agent>>
    BY <1>3 DEF Editor, Tick, Edit, Remove, clientVars, agentVars
  <2> QED
    BY <2>1 DEF Pending
<1>4. CASE OpenLocal \/ SendChunk \/ SendDone
  <2>1. CASE OpenLocal
    <3>1. at = "open" /\ at' = "read" /\ UNCHANGED <<replies, inbox, agent>>
      BY <2>1 DEF OpenLocal, agentVars
    <3> QED
      BY <3>1 DEF Pending
  <2>2. CASE SendChunk
    <3>1. at = "read" /\ UNCHANGED <<at, replies, inbox>> /\ agent'.at = agent.at
      BY <2>2 DEF SendChunk, Types, AgentTypes, Put
    <3> QED
      BY <1>2, <1>2p, <3>1 DEF Pending
  <2>3. CASE SendDone
    <3>1. /\ at = "read" /\ at' = "wait" /\ inbox = <<>> /\ agent.at # "create" /\ UNCHANGED <<replies, inbox>>
          /\ agent'.at = (IF agent.at = "put" THEN "done" ELSE agent.at)
      BY <2>3 DEF SendDone, Types, AgentTypes, Put
    <3> QED
      BY <1>2, <3>1 DEF Pending
  <2> QED
    BY <1>4, <2>1, <2>2, <2>3
<1>5. CASE AskStat \/ \E m \in replies : TakeStat(m) /\ ~(UpToDate(m) \/ dry)
  <2>1. PICK op \in {"stat", "put"}, F \in SUBSET replies, a \in Ask :
             /\ op = (IF at = "walk" THEN "stat" ELSE "put")
             /\ op = "stat" => at = "walk" /\ at' = "stat"
             /\ op = "put" => at = "stat" /\ at' = "open"
             /\ a.op = op
             /\ \/ agent.at = "down" /\ replies' = F \cup {Refusal(cur, op)} /\ inbox' = inbox
                \/ agent.at # "down" /\ replies' = F /\ inbox' = Append(inbox, a)
             /\ cur \in Files
    BY <1>5, Asks
  <2>2. ~Refusal(cur, op).ok
    BY <2>1, FrameType
  <2>3. inbox \in Seq(Ask)
    BY DEF Types, AgentTypes
  <2>4. (\E m \in replies' : ~m.ok) \/ \E i \in DOMAIN inbox' : inbox'[i].op = op
    BY <2>1, <2>2, <2>3, InboxMore
  <2> QED
    BY <2>1, <2>4 DEF Pending
<1>6. ASSUME NEW m \in replies, DropFrame(m) PROVE Pending'
  <2>1. /\ m.ok /\ ((at = "stat" /\ m.op = "put") \/ (at = "wait" /\ m.op = "stat"))
        /\ replies' = replies \ {m} /\ UNCHANGED <<at, inbox, agent>>
    BY <1>6 DEF DropFrame, clientVars
  <2> QED
    BY <2>1 DEF Pending
<1>7. CASE AnswerStat
  <2>1. inbox # <<>> /\ Head(inbox).op = "stat" /\ inbox' = Tail(inbox) /\ agent.at = "idle" /\ UNCHANGED <<at, agent>>
        /\ replies' = replies \cup {Reply(Head(inbox).f, "stat", TRUE, remote[Head(inbox).f])}
    BY <1>7 DEF AnswerStat, Reads, Says, clientVars
  <2>2. Head(inbox) = inbox[1] /\ \A i \in DOMAIN inbox : i # 1 => i - 1 \in DOMAIN inbox' /\ inbox'[i - 1] = inbox[i]
    BY <2>1, InboxHead DEF Types, AgentTypes
  <2>3. Reply(Head(inbox).f, "stat", TRUE, remote[Head(inbox).f]).op = "stat"
    BY DEF Reply
  <2>4. \A m \in replies : m \in replies'
    BY <2>1
  <2>5. \E m \in replies' : m.op = "stat"
    BY <2>1, <2>3
  <2>6. (\E i \in DOMAIN inbox : inbox[i].op = "put") => \E i \in DOMAIN inbox' : inbox'[i].op = "put"
    BY <2>1, <2>2
  <2> QED
    BY <1>2, <2>1, <2>4, <2>5, <2>6 DEF Pending
<1>8. CASE AcceptPut
  <2>1. inbox # <<>> /\ Head(inbox).op = "put" /\ inbox' = Tail(inbox) /\ agent.at = "idle"
        /\ UNCHANGED <<at, replies>> /\ agent'.at = "create"
    BY <1>8 DEF AcceptPut, Reads, clientVars, Idle
  <2>2. Head(inbox) = inbox[1] /\ \A i \in DOMAIN inbox : i # 1 => i - 1 \in DOMAIN inbox' /\ inbox'[i - 1] = inbox[i]
    BY <2>1, InboxHead DEF Types, AgentTypes
  <2>3. (\E i \in DOMAIN inbox : inbox[i].op = "stat") => \E i \in DOMAIN inbox' : inbox'[i].op = "stat"
    BY <2>1, <2>2
  <2> QED
    BY <1>2, <1>2p, <2>1, <2>3 DEF Pending
<1>9. CASE SkipRequest \/ Create
  <2>1. UNCHANGED <<at, replies>> /\ agent'.at = "put" /\ agent.at \in {"create", "put"}
        /\ (agent.at = "create" => inbox' = inbox)
    BY <1>9 DEF SkipRequest, Create, clientVars, Types, AgentTypes, Put
  <2> QED
    BY <1>2p, <2>1 DEF Pending
<1>10. CASE Rename
  <2>1. UNCHANGED <<at, replies, inbox>> /\ agent'.at = "named" /\ agent.at = "done"
    BY <1>10 DEF Rename, clientVars, Types, AgentTypes, Put
  <2> QED
    BY <1>2p, <2>1 DEF Pending
<1>11. ASSUME NEW m, UNCHANGED <<at, inbox>>, replies' = replies \cup {m},
              (m.op = "put" /\ m.ok /\ agent.at = "named") \/ (m.op = "put" /\ ~m.ok)
       PROVE  Pending'
  <2>1. m \in replies' /\ \A k \in replies : k \in replies'
    BY <1>11
  <2> QED
    BY <1>2, <1>11, <2>1 DEF Pending
<1>12. CASE Chtimes
  <2>1. UNCHANGED <<at, inbox>> /\ agent.at = "named" /\ replies' = replies \cup {Reply(agent.put, "put", TRUE, Gone)}
    BY <1>12 DEF Chtimes, clientVars, Says
  <2>2. Reply(agent.put, "put", TRUE, Gone).op = "put" /\ Reply(agent.put, "put", TRUE, Gone).ok
    BY DEF Reply
  <2> QED
    BY <1>11, <2>1, <2>2
<1>13. CASE PutFails
  <2>1. UNCHANGED <<at, inbox>> /\ replies' = replies \cup {Refusal(agent.put, "put")} /\ agent.put \in Files
    BY <1>13 DEF PutFails, clientVars, Says, Types, AgentTypes
  <2>2. Refusal(agent.put, "put").op = "put" /\ ~Refusal(agent.put, "put").ok
    BY <2>1, FrameType
  <2> QED
    BY <1>11, <2>1, <2>2
<1>14. CASE Lose
  <2>1. UNCHANGED at /\ (\A m \in replies : m \in replies')
        /\ (\A i \in DOMAIN inbox : Refusal(inbox[i].f, inbox[i].op) \in replies')
        /\ (agent.put # 0 => Refusal(agent.put, "put") \in replies')
    BY <1>14 DEF Lose, clientVars
  <2>2. \A i \in DOMAIN inbox : ~Refusal(inbox[i].f, inbox[i].op).ok
    <3>1. \A i \in DOMAIN inbox : inbox[i] \in Ask
      BY DEF Types, AgentTypes
    <3> QED
      BY <3>1, FrameType DEF Ask
  <2>3. agent.put # 0 => ~Refusal(agent.put, "put").ok
    BY <1>2, FrameType DEF Types, AgentTypes
  <2>4. agent.put # 0 \/ (\E i \in DOMAIN inbox : TRUE) => \E m \in replies' : ~m.ok
    BY <2>1, <2>2, <2>3
  <2> QED
    BY <1>2, <2>1, <2>4 DEF Pending
<1>15. CASE Absent \/ LstatFails \/ OpenLocalFails \/ EndSync
  BY <1>1, <1>15 DEF Absent, LstatFails, OpenLocalFails, EndSync, Onward, Away
<1>16. ASSUME NEW m \in replies, TakeAnswer(m) \/ (TakeStat(m) /\ (UpToDate(m) \/ dry)) PROVE Pending'
  BY <1>1, <1>16 DEF TakeStat, TakeAnswer, Onward, Away
<1>17. ASSUME NEW d \in BOOLEAN, StartSync(d) PROVE Pending'
  BY <1>1, <1>17 DEF StartSync, Away
<1> QED
  BY <1>3, <1>4, <1>5, <1>6, <1>7, <1>8, <1>9, <1>10, <1>12, <1>13, <1>14, <1>15, <1>16, <1>17 DEF Next, Client, Agent

LEMMA PendingSays == Pending /\ Types => (at \in {"stat", "wait"} => replies # {} \/ inbox # <<>> \/ agent.put # 0)
<1>1. ASSUME Pending, Types PROVE at \in {"stat", "wait"} => replies # {} \/ inbox # <<>> \/ agent.put # 0
  <2>1. agent.put # 0 <=> agent.at \in {"create", "put", "done", "named"}
    BY <1>1, Constants DEF Types, AgentTypes, Put
  <2>2. inbox = <<>> => DOMAIN inbox = {}
    BY <1>1 DEF Types, AgentTypes
  <2> QED
    BY <1>1, <2>1, <2>2 DEF Pending
<1> QED
  BY <1>1

-----------------------------------------------------------------------------
(* Times *)

\* Nothing is read from the inbox, or its first frame is.
LEMMA InboxStep ==
    ASSUME Types, Types', Next
    PROVE  \/ \A i \in DOMAIN inbox' : i \in DOMAIN inbox /\ inbox'[i] = inbox[i]
           \/ inbox # <<>> /\ inbox' = Tail(inbox) /\ \A i \in DOMAIN inbox' : i + 1 \in DOMAIN inbox /\ inbox'[i] = inbox[i + 1]
           \/ AskStat \/ \E m \in replies : TakeStat(m) /\ ~(UpToDate(m) \/ dry)
<1>1. ASSUME inbox' = inbox PROVE \A i \in DOMAIN inbox' : i \in DOMAIN inbox /\ inbox'[i] = inbox[i]
  BY <1>1
<1>2. ASSUME inbox # <<>>, inbox' = Tail(inbox)
      PROVE \A i \in DOMAIN inbox' : i + 1 \in DOMAIN inbox /\ inbox'[i] = inbox[i + 1]
  BY <1>2, InboxHead DEF Types, AgentTypes
<1>3. ASSUME inbox' = <<>> PROVE \A i \in DOMAIN inbox' : i \in DOMAIN inbox /\ inbox'[i] = inbox[i]
  BY <1>3
<1>4. CASE Editor
  BY <1>1, <1>4 DEF Editor, Tick, Edit, Remove, agentVars
<1>5. CASE Absent \/ LstatFails \/ OpenLocal \/ OpenLocalFails \/ SendChunk \/ SendDone \/ EndSync
  BY <1>1, <1>5 DEF Absent, LstatFails, OpenLocal, OpenLocalFails, SendChunk, SendDone, EndSync, agentVars
<1>6. ASSUME NEW m \in replies, (TakeStat(m) /\ (UpToDate(m) \/ dry)) \/ DropFrame(m) \/ TakeAnswer(m) PROVE inbox' = inbox
  BY <1>6 DEF TakeStat, DropFrame, TakeAnswer
<1>7. CASE AnswerStat \/ AcceptPut \/ SkipRequest
  BY <1>2, <1>7 DEF AnswerStat, AcceptPut, SkipRequest, Reads
<1>8. CASE Create \/ Rename \/ Chtimes \/ PutFails \/ \E d \in BOOLEAN : StartSync(d)
  BY <1>1, <1>8 DEF Create, Rename, Chtimes, PutFails, StartSync
<1>9. CASE Lose
  BY <1>3, <1>9 DEF Lose
<1> QED
  BY <1>1, <1>4, <1>5, <1>6, <1>7, <1>8, <1>9 DEF Next, Client, Agent

\* What the agent's put is, from one step to the next.
LEMMA PutStep ==
    ASSUME Types, Types', Next
    PROVE  \/ agent'.put = 0
           \/ agent'.put = agent.put /\ agent'.mtime = agent.mtime /\ agent.put \in Files
           \/ AcceptPut
<1>1. agent \in Put /\ agent' \in Put
  BY DEF Types, AgentTypes
<1>2. CASE agent' = agent
  <2>1. agent.put # 0 => agent.put \in Files
    BY <1>1, Constants DEF Put
  <2> QED
    BY <1>2, <2>1
<1>3. CASE SendChunk \/ SendDone \/ Create \/ Rename
  <2>1. agent'.put = agent.put /\ agent'.mtime = agent.mtime
    BY <1>1, <1>3 DEF SendChunk, SendDone, Create, Rename, Put
  <2>2. agent.put # 0 => agent.put \in Files
    BY <1>1, Constants DEF Put
  <2> QED
    BY <2>1, <2>2
<1>4. CASE Chtimes \/ PutFails \/ Lose
  BY <1>4, Bare DEF Chtimes, PutFails, Lose
<1>5. ASSUME NEW d \in BOOLEAN, StartSync(d) PROVE agent'.put = 0 \/ agent' = agent
  BY <1>5, Bare DEF StartSync
<1>6. CASE Editor
  BY <1>2, <1>6 DEF Editor, Tick, Edit, Remove, agentVars
<1>7. CASE Absent \/ LstatFails \/ AskStat \/ OpenLocal \/ OpenLocalFails \/ EndSync \/ AnswerStat \/ SkipRequest
  BY <1>2, <1>7 DEF Absent, LstatFails, AskStat, OpenLocal, OpenLocalFails, EndSync, AnswerStat, SkipRequest, agentVars
<1>8. ASSUME NEW m \in replies, TakeStat(m) \/ DropFrame(m) \/ TakeAnswer(m) PROVE agent' = agent
  BY <1>8 DEF TakeStat, DropFrame, TakeAnswer
<1> QED
  BY <1>2, <1>3, <1>4, <1>5, <1>6, <1>7, <1>8 DEF Next, Client, Agent

\* The rename, and the time that is set after it.
LEMMA RenameEffect ==
    ASSUME Types, Rename
    PROVE  /\ agent.put \in Files /\ agent.at = "done" /\ agent'.at = "named" /\ agent'.data = agent.data
           /\ agent'.put = agent.put /\ agent'.mtime = agent.mtime
           /\ remote'[agent.put] = [data |-> agent.data, mtime |-> agent.wrote]
           /\ remote'[agent.put].data = agent.data
           /\ cut'[agent.put] /\ \A f \in Files \ {agent.put} : remote'[f] = remote[f] /\ (cut'[f] <=> cut[f])
<1>0. remote \in [Files -> Content] /\ cut \in [Files -> BOOLEAN] /\ agent \in Put
  BY DEF Types, AgentTypes, Flags
<1>1. agent.put \in Files /\ agent.at = "done"
  BY DEF Rename, Types, AgentTypes
<1>2. remote' = [remote EXCEPT ![agent.put] = [data |-> agent.data, mtime |-> agent.wrote]]
      /\ cut' = [cut EXCEPT ![agent.put] = TRUE] /\ agent' = [agent EXCEPT !.at = "named"]
  BY DEF Rename
<1>3. /\ cut'[agent.put]
      /\ \A f \in Files \ {agent.put} : cut'[f] <=> cut[f]
  BY <1>0, <1>1, <1>2, ZenonT(30)
<1>4. /\ remote'[agent.put] = [data |-> agent.data, mtime |-> agent.wrote]
      /\ \A f \in Files \ {agent.put} : remote'[f] = remote[f]
  BY <1>0, <1>1, <1>2
<1>5. agent'.at = "named" /\ agent'.data = agent.data /\ agent'.put = agent.put /\ agent'.mtime = agent.mtime
  BY <1>0, <1>2 DEF Put
<1> QED
  BY <1>1, <1>3, <1>4, <1>5

LEMMA ChtimesEffect ==
    ASSUME Types, Chtimes
    PROVE  /\ agent.put \in Files /\ agent.at = "named" /\ agent' = Idle
           /\ remote'[agent.put].data = remote[agent.put].data /\ remote'[agent.put].mtime = agent.mtime
           /\ ~cut'[agent.put] /\ \A f \in Files \ {agent.put} : remote'[f] = remote[f] /\ (cut'[f] <=> cut[f])
<1>0. remote \in [Files -> Content] /\ cut \in [Files -> BOOLEAN] /\ agent \in Put
  BY DEF Types, AgentTypes, Flags
<1>1. agent.put \in Files /\ agent.at = "named" /\ agent' = Idle
  BY DEF Chtimes, Types, AgentTypes
<1>2. remote' = [remote EXCEPT ![agent.put] = [remote[agent.put] EXCEPT !.mtime = agent.mtime]]
      /\ cut' = [cut EXCEPT ![agent.put] = FALSE]
  BY DEF Chtimes
<1>3. /\ ~cut'[agent.put]
      /\ \A f \in Files \ {agent.put} : cut'[f] <=> cut[f]
  BY <1>0, <1>1, <1>2, ZenonT(30)
<1>4. /\ remote'[agent.put].data = remote[agent.put].data /\ remote'[agent.put].mtime = agent.mtime
      /\ \A f \in Files \ {agent.put} : remote'[f] = remote[f]
  BY <1>0, <1>1, <1>2 DEF Content
<1> QED
  BY <1>1, <1>3, <1>4

LEMMA RemoteStep == ASSUME Next PROVE UNCHANGED <<remote, cut>> \/ Rename \/ Chtimes
<1>1. CASE Editor
  BY <1>1 DEF Editor, Tick, Edit, Remove, agentVars
<1>2. CASE Client
  BY <1>2 DEF Client, Absent, LstatFails, AskStat, OpenLocal, OpenLocalFails, SendChunk, SendDone, EndSync, TakeStat,
              DropFrame, TakeAnswer, agentVars
<1>3. CASE AnswerStat \/ AcceptPut \/ SkipRequest \/ Create \/ PutFails \/ Lose \/ \E d \in BOOLEAN : StartSync(d)
  BY <1>3 DEF AnswerStat, AcceptPut, SkipRequest, Create, PutFails, Lose, StartSync
<1> QED
  BY <1>1, <1>2, <1>3 DEF Next, Agent

LEMMA TimesStep == ASSUME Types, Types', Times, Next PROVE Times'
<1>0. /\ 1 <= clock'
      /\ \A f \in Files : 1 <= local'[f].mtime /\ local[f].mtime <= local'[f].mtime /\ local'[f].mtime <= clock'
  <2>1. clock \in Nat /\ clock' \in Nat
    BY DEF Types, LocalTypes
  <2> QED
    BY <2>1, LocalStep
<1>1. \A f \in Files : local[f].mtime \in Nat /\ local'[f].mtime \in Nat /\ remote[f].mtime \in Nat /\ remote'[f].mtime \in Nat
  BY DEF Types, LocalTypes, AgentTypes, Content
<1>2. agent.mtime \in Nat /\ agent'.mtime \in Nat /\ info.mtime \in Nat /\ info'.mtime \in Nat
  BY DEF Types, ClientTypes, AgentTypes, Put, Stat
<1>3. at' \notin Away => info'.mtime <= local'[cur'].mtime
  <2>1. CASE AskStat
    <3>1. cur' = cur /\ cur \in Files /\ local' = local /\ info' = Lstat(cur)
      BY <2>1 DEF AskStat, localVars, Types, ClientTypes
    <3>2. info'.mtime = 1 \/ info'.mtime = local[cur].mtime
      BY <3>1 DEF Lstat
    <3> QED
      BY <1>0, <1>1, <3>1, <3>2
  <2>2. CASE ~AskStat
    <3>1. at' \notin Away => at \notin Away /\ info' = info /\ cur' = cur
      <4>1. CASE Editor
        BY <4>1 DEF Editor, Tick, Edit, Remove, clientVars
      <4>2. CASE Agent \/ PutFails \/ Lose
        BY <4>2 DEF Agent, AnswerStat, AcceptPut, SkipRequest, Create, Rename, Chtimes, PutFails, Lose, clientVars
      <4>3. CASE Client
        BY <2>2, <4>3 DEF Client, Absent, LstatFails, OpenLocal, OpenLocalFails, SendChunk, SendDone, EndSync, TakeStat,
              DropFrame, TakeAnswer, Onward, Away, clientVars
      <4>4. CASE \E d \in BOOLEAN : StartSync(d)
        BY <4>4 DEF StartSync, Away
      <4> QED
        BY <4>1, <4>2, <4>3, <4>4 DEF Next
    <3>2. at \notin Away => cur \in Files /\ info.mtime <= local[cur].mtime
      BY DEF Times, Types, ClientTypes
    <3> QED
      BY <1>0, <1>1, <1>2, <3>1, <3>2
  <2> QED
    BY <2>1, <2>2
<1>4. \A i \in DOMAIN inbox : inbox[i].f \in Files /\ inbox[i].mtime \in Nat
  <2>1. \A i \in DOMAIN inbox : inbox[i] \in Ask
    BY DEF Types, AgentTypes
  <2> QED
    BY <2>1 DEF Ask
<1>5. ASSUME NEW i \in DOMAIN inbox', inbox'[i].op = "put" PROVE inbox'[i].mtime <= local'[inbox'[i].f].mtime
  <2>1. ASSUME NEW j \in DOMAIN inbox, inbox'[i] = inbox[j] PROVE inbox'[i].mtime <= local'[inbox'[i].f].mtime
    <3>1. inbox[j].f \in Files /\ inbox[j].mtime \in Nat /\ inbox[j].mtime <= local[inbox[j].f].mtime
      BY <1>4, <1>5, <2>1 DEF Times
    <3> QED
      BY <1>0, <1>1, <2>1, <3>1
  <2>2. CASE AskStat \/ \E m \in replies : TakeStat(m) /\ ~(UpToDate(m) \/ dry)
    <3>1. PICK op \in {"stat", "put"}, a \in Ask :
             /\ op = "put" => at = "stat" /\ info' = info
             /\ a.f = cur /\ a.op = op /\ a.mtime = info'.mtime
             /\ inbox' = inbox \/ inbox' = Append(inbox, a)
             /\ cur \in Files
      BY <2>2, Asks
    <3>2. CASE inbox'[i] = a
      <4>1. op = "put"
        BY <1>5, <3>1, <3>2
      <4>2. info.mtime <= local[cur].mtime
        BY <3>1, <4>1 DEF Times, Away
      <4> QED
        BY <1>0, <1>1, <1>2, <3>1, <3>2, <4>1, <4>2
    <3>3. CASE inbox'[i] # a
      <4>1. i \in DOMAIN inbox /\ inbox'[i] = inbox[i]
        <5>1. inbox \in Seq(Ask)
          BY DEF Types, AgentTypes
        <5>2. CASE inbox' = inbox
          BY <5>2
        <5>3. CASE inbox' = Append(inbox, a)
          BY <3>3, <5>1, <5>3, InboxMore
        <5> QED
          BY <3>1, <5>2, <5>3
      <4> QED
        BY <2>1, <4>1
    <3> QED
      BY <3>2, <3>3
  <2> QED
    BY <2>1, <2>2, InboxStep
<1>6. agent'.put # 0 => agent'.mtime <= local'[agent'.put].mtime
  <2>1. CASE AcceptPut
    <3>1. inbox # <<>> /\ Head(inbox).op = "put"
          /\ agent' = [Idle EXCEPT !.at = "create", !.put = Head(inbox).f, !.mtime = Head(inbox).mtime]
      BY <2>1 DEF AcceptPut, Reads
    <3>2. agent'.put = Head(inbox).f /\ agent'.mtime = Head(inbox).mtime
      BY <3>1 DEF Idle
    <3>3. Head(inbox) = inbox[1] /\ 1 \in DOMAIN inbox
      BY <3>1, InboxHead DEF Types, AgentTypes
    <3>4. inbox[1].f \in Files /\ inbox[1].mtime \in Nat /\ inbox[1].mtime <= local[inbox[1].f].mtime
      BY <1>4, <3>1, <3>3 DEF Times
    <3> QED
      BY <1>0, <1>1, <3>2, <3>3, <3>4
  <2>2. CASE agent'.put = agent.put /\ agent'.mtime = agent.mtime /\ agent.put \in Files
    <3>1. agent.mtime <= local[agent.put].mtime
      BY <2>2, Constants DEF Times
    <3> QED
      BY <1>0, <1>1, <1>2, <2>2, <3>1
  <2> QED
    BY <2>1, <2>2, PutStep
<1>7. ASSUME NEW f \in Files, ~cut'[f] PROVE remote'[f].mtime <= local'[f].mtime
  <2>1. CASE remote'[f].mtime = agent.mtime /\ f = agent.put
    <3>1. agent.mtime <= local[f].mtime
      BY <2>1, Constants DEF Times
    <3> QED
      BY <1>0, <1>1, <1>2, <2>1, <3>1
  <2>2. CASE remote'[f] = remote[f] /\ (cut'[f] <=> cut[f])
    <3>1. remote[f].mtime <= local[f].mtime
      BY <1>7, <2>2 DEF Times
    <3> QED
      BY <1>0, <1>1, <2>2, <3>1
  <2>3. \/ remote'[f].mtime = agent.mtime /\ f = agent.put
        \/ remote'[f] = remote[f] /\ (cut'[f] <=> cut[f])
    <3>1. CASE f = agent.put
      BY <1>7, <3>1, RemoteStep, RenameEffect, ChtimesEffect
    <3>2. CASE f # agent.put
      BY <3>2, RemoteStep, RenameEffect, ChtimesEffect
    <3> QED
      BY <3>1, <3>2
  <2> QED
    BY <2>1, <2>2, <2>3
<1> QED
  BY <1>0, <1>3, <1>5, <1>6, <1>7 DEF Times

-----------------------------------------------------------------------------
(* Contents *)

\* The agent's loop from one step to the next, in the steps that do not touch a put's content.
LEMMA ContentsStep == ASSUME Types, Types', Contents, Next PROVE Contents'
<1>0. agent \in Put /\ agent' \in Put /\ pos \in Nat /\ inbox \in Seq(Ask) /\ inbox' \in Seq(Ask)
  BY DEF Types, AgentTypes, ClientTypes
<1>1. ASSUME UNCHANGED <<agent, remote, cut>>, at' # "read" PROVE Contents'
  BY <1>1 DEF Contents
<1>2. ASSUME UNCHANGED <<agent, remote, cut, at, cur, pos>>, inbox' = inbox \/ inbox # <<>>,
             at = "read" => (Exists(cur) => Exists(cur)')
      PROVE  Contents'
  BY <1>2 DEF Contents
<1>3. CASE Tick \/ \E f \in Files : Remove(f)
  <2>1. UNCHANGED <<agent, remote, cut, at, cur, pos, inbox>>
    BY <1>3 DEF Tick, Remove, clientVars, agentVars
  <2>2. ASSUME at = "read", Exists(cur) PROVE Exists(cur)'
    <3>1. CASE Tick
      BY <2>2, <3>1 DEF Tick, Exists, clientVars
    <3>2. ASSUME NEW f \in Files, Remove(f) PROVE Exists(cur)'
      <4>1. cur # f /\ cur \in Files /\ cur' = cur /\ local' = [local EXCEPT ![f] = [local[f] EXCEPT !.data = <<>>]]
        BY <2>2, <3>2 DEF Remove, clientVars, Types, ClientTypes, Away
      <4> QED
        BY <2>2, <4>1 DEF Exists, Types, LocalTypes
    <3> QED
      BY <1>3, <3>1, <3>2
  <2> QED
    BY <1>2, <2>1, <2>2
<1>4. ASSUME NEW f \in Files, NEW n \in Lens, Edit(f, n) PROVE Contents'
  <2>1. UNCHANGED <<agent, remote, cut, at, cur, pos, inbox>> /\ local' = [local EXCEPT ![f] = Written(writes + 1, n, clock)]
    BY <1>4 DEF Edit, clientVars, agentVars
  <2>2. ASSUME at = "read", Exists(cur) PROVE Exists(cur)'
    <3>1. Written(writes + 1, n, clock).data # <<>>
      BY WrittenType, Constants DEF Types, LocalTypes
    <3>2. cur \in Files /\ local \in [Files -> Content]
      BY <2>2 DEF Types, LocalTypes, ClientTypes, Away
    <3> QED
      BY <2>1, <2>2, <3>1, <3>2 DEF Exists
  <2> QED
    BY <1>2, <2>1, <2>2
<1>5. CASE OpenLocal
  <2>1. at' = "read" /\ pos' = 0 /\ UNCHANGED <<agent, remote, cut, cur, inbox, local>> /\ Exists(cur)
    BY <1>5 DEF OpenLocal, agentVars, localVars
  <2>2. Len(agent.data) >= 0
    BY <1>0 DEF Put
  <2> QED
    BY <2>1, <2>2 DEF Contents, Exists
<1>6. CASE SendChunk
  <2>1. /\ at = "read" /\ inbox = <<>> /\ agent.at # "create" /\ pos < Len(local[cur].data) /\ pos' = pos + 1
        /\ UNCHANGED <<remote, cut, at, cur, inbox, local>>
    BY <1>6 DEF SendChunk, localVars
  <2>2. CASE agent.at = "put"
    <3>1. agent' = [agent EXCEPT !.data = Append(@, local[cur].data[pos + 1]), !.wrote = clock]
      BY <1>6, <2>2 DEF SendChunk
    <3>2. agent'.at = "put" /\ agent'.data = Append(agent.data, local[cur].data[pos + 1]) /\ agent.data \in Seq(Nat)
      BY <1>0, <2>2, <3>1 DEF Put
    <3>3. local[cur].data[pos + 1] \in Nat
      <4>1. local[cur].data \in Seq(Nat) /\ pos + 1 \in 1..Len(local[cur].data)
        BY <1>0, <2>1 DEF Types, ClientTypes, Away, LocalTypes, Content
      <4> QED
        BY <4>1
    <3>4. Len(agent'.data) = Len(agent.data) + 1 /\ Len(agent.data) \in Nat
      BY <3>2, <3>3
    <3>5. Len(agent.data) >= pos
      BY <2>1, <2>2 DEF Contents
    <3>6. Len(agent'.data) >= pos'
      BY <1>0, <2>1, <3>4, <3>5
    <3> QED
      BY <2>1, <3>2, <3>6 DEF Contents, Exists
  <2>3. CASE agent.at # "put"
    <3>1. agent' = agent
      BY <1>6, <2>3 DEF SendChunk
    <3> QED
      BY <2>1, <2>3, <3>1 DEF Contents, Exists
  <2> QED
    BY <2>2, <2>3
<1>7. CASE SendDone
  <2>1. /\ at = "read" /\ at' = "wait" /\ inbox = <<>> /\ pos >= Len(local[cur].data)
        /\ UNCHANGED <<remote, cut, cur, inbox>> /\ agent.at # "create"
    BY <1>7 DEF SendDone
  <2>2. CASE agent.at = "put"
    <3>1. agent'.at = "done" /\ agent'.data = agent.data
      BY <1>0, <1>7, <2>2 DEF SendDone, Put
    <3>2. Len(agent.data) >= pos /\ Exists(cur)
      BY <2>1, <2>2 DEF Contents
    <3>3. local[cur].data \in Seq(Nat) /\ local[cur].data # <<>> /\ agent.data \in Seq(Nat)
      BY <1>0, <2>1, <3>2 DEF Types, LocalTypes, ClientTypes, Away, Content, Put, Exists
    <3>4. Len(local[cur].data) > 0
      BY <3>3
    <3>5. Len(agent.data) > 0
      BY <1>0, <2>1, <3>2, <3>3, <3>4
    <3>6. agent.data # <<>>
      BY <3>5
    <3> QED
      BY <2>1, <3>1, <3>6 DEF Contents
  <2>3. CASE agent.at # "put"
    BY <1>1, <1>7, <2>1, <2>3 DEF SendDone
  <2> QED
    BY <2>2, <2>3
<1>8. CASE Absent \/ LstatFails \/ OpenLocalFails \/ EndSync \/ AskStat
  BY <1>1, <1>8 DEF Absent, LstatFails, OpenLocalFails, EndSync, AskStat, Onward, agentVars
<1>9. ASSUME NEW m \in replies, TakeStat(m) \/ TakeAnswer(m) PROVE Contents'
  BY <1>1, <1>9 DEF TakeStat, TakeAnswer, Onward
<1>10. CASE AnswerStat \/ \E m \in replies : DropFrame(m)
  <2>1. UNCHANGED <<agent, remote, cut, at, cur, pos, local>> /\ (inbox' = inbox \/ inbox # <<>>)
    BY <1>10 DEF AnswerStat, DropFrame, Reads, localVars, clientVars
  <2> QED
    BY <1>2, <2>1 DEF Exists
<1>11. CASE SkipRequest
  <2>1. UNCHANGED <<agent, remote, cut, at, cur, pos, local>> /\ inbox # <<>>
    BY <1>11 DEF SkipRequest, localVars, clientVars
  <2> QED
    BY <1>2, <2>1 DEF Exists
<1>12. CASE AcceptPut
  <2>1. /\ inbox # <<>> /\ UNCHANGED <<remote, cut, at, cur, pos, local>>
        /\ agent' = [Idle EXCEPT !.at = "create", !.put = Head(inbox).f, !.mtime = Head(inbox).mtime]
    BY <1>12 DEF AcceptPut, Reads, localVars, clientVars
  <2>2. agent'.at = "create" /\ agent'.data = <<>>
    BY <2>1 DEF Idle
  <2> QED
    BY <2>1, <2>2 DEF Contents, Exists
<1>13. CASE Create
  <2>1. /\ agent.at = "create" /\ UNCHANGED <<remote, cut, at, cur, pos, local, inbox>>
        /\ agent'.at = "put" /\ agent'.data = agent.data
    BY <1>0, <1>13 DEF Create, localVars, clientVars, Put
  <2>2. at = "read" => Len(agent'.data) >= pos'
    BY <2>1, Bare DEF Contents
  <2> QED
    BY <2>1, <2>2 DEF Contents, Exists
<1>14. CASE Rename
  <2>1. /\ agent'.put = agent.put /\ agent'.at = "named" /\ agent'.data = agent.data /\ agent.put \in Files
        /\ remote'[agent.put] = [data |-> agent.data, mtime |-> agent.wrote]
        /\ cut'[agent.put] /\ \A f \in Files \ {agent.put} : remote'[f] = remote[f]
    BY <1>14, RenameEffect
  <2>2. UNCHANGED <<at, cur, pos, local, inbox>> /\ agent.at = "done"
    BY <1>14 DEF Rename, localVars, clientVars
  <2>3. agent.data # <<>>
    BY <2>2 DEF Contents
  <2>4. \A f \in Files : remote'[f].data = <<>> => remote'[f] = Gone
    BY <2>1, <2>3 DEF Contents
  <2> QED
    BY <2>1, <2>2, <2>3, <2>4 DEF Contents, Exists
<1>15. ASSUME agent'.at \in {"idle", "down"}, UNCHANGED <<at, cur, pos, local>>, inbox' = inbox \/ inbox' = <<>>,
              \A f \in Files : remote'[f].data = <<>> => remote'[f] = Gone
       PROVE  Contents'
  BY <1>15 DEF Contents, Exists
<1>16. CASE Chtimes
  <2>1. UNCHANGED <<at, cur, pos, local, inbox>> /\ agent' = Idle /\ agent.at = "named"
    BY <1>16 DEF Chtimes, localVars, clientVars
  <2>2. agent.put \in Files /\ remote'[agent.put].data = remote[agent.put].data
        /\ \A f \in Files \ {agent.put} : remote'[f] = remote[f]
    BY <1>16, ChtimesEffect
  <2>3. remote'[agent.put].data # <<>>
    BY <2>1, <2>2 DEF Contents
  <2>4. \A f \in Files : remote'[f].data = <<>> => remote'[f] = Gone
    BY <2>2, <2>3 DEF Contents
  <2> QED
    BY <1>15, <2>1, <2>4, Bare
<1>17. CASE PutFails \/ Lose
  <2>1. UNCHANGED <<at, cur, pos, local, remote>> /\ (inbox' = inbox \/ inbox' = <<>>) /\ (agent' = Idle \/ agent' = Down)
    BY <1>17 DEF PutFails, Lose, localVars, clientVars
  <2> QED
    BY <1>15, <2>1, Bare DEF Contents
<1>18. ASSUME NEW d \in BOOLEAN, StartSync(d) PROVE Contents'
  <2>1. at' = "walk" /\ UNCHANGED <<remote, cut>> /\ agent' = (IF agent.at = "down" THEN Idle ELSE agent)
    BY <1>18 DEF StartSync
  <2> QED
    BY <2>1, Bare DEF Contents
<1> QED
  BY <1>3, <1>4, <1>5, <1>6, <1>7, <1>8, <1>9, <1>10, <1>11, <1>12, <1>13, <1>14, <1>16, <1>17, <1>18
  DEF Next, Client, Agent, Editor

-----------------------------------------------------------------------------
(* One Request at a time *)

\* One Request in the inbox.
LEMMA OneAsk == ASSUME NEW a
                PROVE  /\ <<a>> # <<>> /\ Head(<<a>>) = a /\ Tail(<<a>>) = <<>> /\ Append(<<>>, a) = <<a>>
                       /\ \A i \in DOMAIN <<a>> : <<a>>[i] = a
OBVIOUS

LEMMA AskSays == /\ OneRequest("stat") # <<>> /\ Head(OneRequest("stat")).op = "stat" /\ Tail(OneRequest("stat")) = <<>>
                 /\ OneRequest("put") # <<>> /\ Head(OneRequest("put")).op = "put" /\ Tail(OneRequest("put")) = <<>>
                 /\ Head(OneRequest("put")).f = cur /\ Head(OneRequest("put")).mtime = info.mtime
                 /\ Head(OneRequest("stat")).f = cur
BY OneAsk DEF OneRequest

\* Nothing that InStep looks at changes.
LEMMA InStepFrame ==
    ASSUME InStep, UNCHANGED <<at, cur, info, replies, inbox, agent, remote, gaveUp>> PROVE InStep'
BY DEF InStep, AtRest, InStat, InPut, InWait, Refused, OneRequest, Own, Reply, Refusal

LEMMA InStepWalk ==
    ASSUME Types, Types', InStep,
           Absent \/ LstatFails \/ OpenLocal \/ OpenLocalFails \/ EndSync \/ \E d \in BOOLEAN : StartSync(d)
    PROVE  InStep'
<1>1. CASE Absent \/ LstatFails \/ EndSync
  <2>1. at \in Away /\ at' \in Away /\ UNCHANGED <<replies, inbox, agent, remote, gaveUp>>
    BY <1>1 DEF Absent, LstatFails, EndSync, Onward, Away, agentVars
  <2> QED
    BY <2>1 DEF InStep, AtRest, Refused, Away
<1>2. CASE OpenLocal
  <2>1. at = "open" /\ at' = "read" /\ UNCHANGED <<cur, info, replies, inbox, agent, remote, gaveUp>>
    BY <1>2 DEF OpenLocal, agentVars
  <2> QED
    BY <2>1 DEF InStep, InPut, Refused, OneRequest, Own, Reply, Refusal, Away
<1>3. CASE OpenLocalFails
  <2>1. gaveUp' = TRUE /\ UNCHANGED <<inbox, agent>>
    BY <1>3 DEF OpenLocalFails, agentVars
  <2> QED
    BY <2>1 DEF InStep
<1>4. ASSUME NEW d \in BOOLEAN, StartSync(d) PROVE InStep'
  <2>1. /\ at' = "walk" /\ inbox' = <<>> /\ replies' = {} /\ agent.at \in {"down", "idle", "put"}
        /\ agent' = (IF agent.at = "down" THEN Idle ELSE agent)
    BY <1>4 DEF StartSync
  <2>2. agent'.at \in {"idle", "put"}
    BY <2>1, Bare
  <2> QED
    BY <2>1, <2>2 DEF InStep, AtRest, Away
<1> QED
  BY <1>1, <1>2, <1>3, <1>4

LEMMA InStepAsk ==
    ASSUME Types, Types', InStep, AskStat \/ \E m \in replies : TakeStat(m) /\ ~(UpToDate(m) \/ dry)
    PROVE  InStep'
<1>1. PICK op \in {"stat", "put"}, F \in SUBSET replies, a \in Ask :
         /\ op = (IF at = "walk" THEN "stat" ELSE "put")
         /\ op = "stat" => F = replies /\ at = "walk" /\ at' = "stat"
         /\ op = "put" => at = "stat" /\ at' = "open" /\ info' = info /\ \E m \in replies : F = replies \ {m}
         /\ a = [f |-> cur, op |-> op, mtime |-> info'.mtime]
         /\ \/ agent.at = "down" /\ replies' = F \cup {Refusal(cur, op)} /\ inbox' = inbox
            \/ agent.at # "down" /\ replies' = F /\ inbox' = Append(inbox, a)
         /\ cur' = cur /\ cur \in Files
         /\ UNCHANGED <<gaveUp, remote, agent>>
  BY Asks, ZenonT(60)
<1>2. agent'.at = "down" => inbox' = <<>>
  BY <1>1 DEF InStep
<1>3. ~Refusal(cur, op).ok
  BY <1>1, FrameType
<1>4. (\A m \in F : ~m.ok) /\ agent.at = "down" => Refused'
  BY <1>1, <1>3 DEF Refused
<1>5. inbox = <<>> => inbox' = OneRequest(op)' \/ agent.at = "down"
  BY <1>1, OneAsk DEF OneRequest
<1>6. CASE gaveUp
  BY <1>1, <1>2, <1>6 DEF InStep
<1>7. CASE ~gaveUp /\ op = "stat"
  <2>1. AtRest /\ at' = "stat" /\ F = replies
    BY <1>1, <1>7 DEF InStep, Away
  <2>2. CASE Refused
    <3>1. Refused'
      BY <1>4, <2>1, <2>2 DEF Refused
    <3> QED
      BY <1>2, <2>1, <3>1 DEF InStep, InStat, Away
  <2>3. CASE replies = {} /\ inbox = <<>> /\ agent.at \in {"idle", "put"}
    <3>1. replies' = {} /\ inbox' = OneRequest("stat")' /\ agent'.at \in {"idle", "put"}
      BY <1>1, <1>5, <1>7, <2>1, <2>3
    <3> QED
      BY <1>2, <2>1, <3>1 DEF InStep, InStat, Away
  <2> QED
    BY <2>1, <2>2, <2>3 DEF AtRest
<1>8. CASE ~gaveUp /\ op = "put"
  <2>1. InStat /\ at' = "open"
    BY <1>1, <1>8 DEF InStep
  <2>2. PICK m \in replies : F = replies \ {m}
    BY <1>1, <1>8
  <2>3. CASE Refused
    <3>1. Refused'
      BY <1>4, <2>2, <2>3 DEF Refused
    <3> QED
      BY <1>2, <2>1, <3>1 DEF InStep, InPut, Away
  <2>4. CASE replies = {Reply(cur, "stat", TRUE, remote[cur])} /\ inbox = <<>> /\ agent.at \in {"idle", "down"}
    <3>1. F = {}
      BY <2>2, <2>4
    <3>2. Refused' \/ (replies' = {} /\ inbox' = OneRequest("put")' /\ agent'.at = "idle")
      BY <1>1, <1>4, <1>5, <1>8, <2>4, <3>1
    <3> QED
      BY <1>2, <2>1, <3>2 DEF InStep, InPut, Away
  <2> QED
    BY <2>1, <2>2, <2>3, <2>4 DEF InStat
<1> QED
  BY <1>6, <1>7, <1>8

LEMMA InStepTake ==
    ASSUME Types, Types', InStep, NEW m \in replies,
           DropFrame(m) \/ TakeAnswer(m) \/ (TakeStat(m) /\ (UpToDate(m) \/ dry))
    PROVE  InStep'
<1>1. UNCHANGED <<inbox, agent, remote, gaveUp>> /\ replies' = replies \ {m} /\ at \in {"stat", "wait"}
  BY DEF DropFrame, TakeAnswer, TakeStat, clientVars
<1>2. agent'.at = "down" => inbox' = <<>>
  BY <1>1 DEF InStep
<1>3. CASE gaveUp
  BY <1>1, <1>2, <1>3 DEF InStep
<1>4. Refused => Refused'
  BY <1>1 DEF Refused
<1>5. ASSUME ~gaveUp PROVE Refused \/ (replies = {m} /\ inbox = <<>> /\ agent.at \in {"idle", "down"})
  BY <1>1, <1>5 DEF InStep, InStat, InWait
<1>6. CASE ~gaveUp /\ DropFrame(m)
  <2>1. /\ m.ok /\ UNCHANGED <<at, cur, info>>
        /\ (at = "stat" /\ m.op = "put") \/ (at = "wait" /\ m.op = "stat")
    BY <1>6 DEF DropFrame, clientVars
  <2>2. ~Refused
    BY <2>1 DEF Refused
  <2>3. at = "stat" => m = Reply(cur, "stat", TRUE, remote[cur])
    BY <1>6, <2>2 DEF InStep, InStat
  <2>4. at = "wait" => m = Refusal(cur, "put") \/ m = Reply(cur, "put", TRUE, Gone)
    BY <1>6, <2>2 DEF InStep, InWait
  <2> QED
    BY <2>1, <2>3, <2>4 DEF Reply, Refusal
<1>7. CASE ~gaveUp /\ (TakeAnswer(m) \/ (TakeStat(m) /\ (UpToDate(m) \/ dry)))
  <2>1. at' = "walk"
    BY <1>7 DEF TakeAnswer, TakeStat, Onward
  <2>2. AtRest'
    <3>1. CASE Refused
      BY <1>4, <3>1 DEF AtRest
    <3>2. CASE replies = {m} /\ inbox = <<>> /\ agent.at \in {"idle", "down"}
      <4>1. replies' = {} /\ inbox' = <<>> /\ agent'.at \in {"idle", "down"}
        BY <1>1, <3>2
      <4> QED
        BY <4>1 DEF AtRest, Refused
    <3> QED
      BY <1>5, <1>7, <3>1, <3>2
  <2> QED
    BY <1>2, <2>1, <2>2 DEF InStep, Away
<1> QED
  BY <1>3, <1>6, <1>7

LEMMA InStepSend == ASSUME Types, Types', InStep, SendChunk \/ SendDone PROVE InStep'
<1>1. /\ at = "read" /\ inbox = <<>> /\ agent.at # "create"
      /\ UNCHANGED <<cur, info, inbox, remote, replies, gaveUp>>
  BY DEF SendChunk, SendDone
<1>2. /\ agent.at # "put" => agent' = agent
      /\ agent.at = "put" => agent'.at = (IF SendDone THEN "done" ELSE "put")
                             /\ agent'.put = agent.put /\ agent'.mtime = agent.mtime
  <2>1. agent \in Put
    BY DEF Types, AgentTypes
  <2>2. CASE SendDone
    BY <2>1, <2>2 DEF SendDone, Put
  <2>3. CASE SendChunk
    <3>1. at' = "read"
      BY <1>1, <2>3 DEF SendChunk
    <3>2. ~SendDone
      BY <3>1 DEF SendDone
    <3> QED
      BY <2>1, <2>3, <3>2 DEF SendChunk, Put
  <2> QED
    BY <2>2, <2>3
<1>3. agent'.at = "down" => inbox' = <<>>
  BY <1>1
<1>4. at' = (IF SendDone THEN "wait" ELSE "read")
  <2>1. CASE SendDone
    BY <2>1 DEF SendDone
  <2>2. CASE ~SendDone
    BY <1>1, <2>2 DEF SendChunk
  <2> QED
    BY <2>1, <2>2
<1>5. OneRequest("put") # <<>>
  BY AskSays
<1>6. ASSUME ~gaveUp
      PROVE  \/ Refused
             \/ replies = {} /\ inbox = <<>> /\ agent.at = "put" /\ Own
             \/ replies = {Refusal(cur, "put")} /\ inbox = <<>> /\ agent.at = "idle"
  BY <1>1, <1>5, <1>6 DEF InStep, InPut
<1>7. /\ Refused => Refused'
      /\ agent.at = "put" /\ Own => Own'
      /\ replies = {Refusal(cur, "put")} => replies' = {Refusal(cur, "put")'}
      /\ Refusal(cur, "put")' = Refusal(cur', "put")
  BY <1>1, <1>2 DEF Refused, Own, Refusal, Reply, Gone
<1>8. ASSUME ~gaveUp PROVE at' = "read" => InPut'
  BY <1>1, <1>2, <1>4, <1>6, <1>7, <1>8 DEF InPut
<1>9. ASSUME ~gaveUp PROVE at' = "wait" => InWait'
  BY <1>1, <1>2, <1>4, <1>6, <1>7, <1>9 DEF InWait
<1> QED
  BY <1>1, <1>3, <1>4, <1>8, <1>9 DEF InStep, Away

LEMMA InStepAgent == ASSUME Types, Types', InStep, AnswerStat \/ AcceptPut \/ SkipRequest \/ Create PROVE InStep'
<1>1. /\ UNCHANGED <<at, cur, info, remote, gaveUp>> /\ agent.at \in {"idle", "put", "create"}
      /\ agent'.at # "down"
  BY DEF AnswerStat, AcceptPut, SkipRequest, Create, clientVars, Idle, Types, AgentTypes, Put
<1>2. CASE gaveUp
  BY <1>1, <1>2 DEF InStep
<1>3. ~Refused /\ OneRequest("stat")' = OneRequest("stat") /\ OneRequest("put")' = OneRequest("put")
      /\ Reply(cur, "stat", TRUE, remote[cur])' = Reply(cur, "stat", TRUE, remote[cur])
  BY <1>1 DEF Refused, OneRequest, Reply
<1>4. CASE ~gaveUp /\ AnswerStat
  <2>1. /\ agent.at = "idle" /\ inbox # <<>> /\ Head(inbox).op = "stat" /\ inbox' = Tail(inbox) /\ agent' = agent
        /\ replies' = replies \cup {Reply(Head(inbox).f, "stat", TRUE, remote[Head(inbox).f])}
    BY <1>4 DEF AnswerStat, Reads, Says
  <2>2. at = "stat" /\ replies = {} /\ inbox = OneRequest("stat")
    BY <1>3, <1>4, <2>1, AskSays DEF InStep, AtRest, InStat, InPut, InWait, Away, Types, ClientTypes
  <2>3. replies' = {Reply(cur, "stat", TRUE, remote[cur])} /\ inbox' = <<>>
    BY <2>1, <2>2, AskSays
  <2>4. replies' = {Reply(cur', "stat", TRUE, remote'[cur'])}
    BY <1>1, <2>3
  <2>5. InStat'
    BY <2>1, <2>3, <2>4 DEF InStat
  <2> QED
    BY <1>1, <2>2, <2>3, <2>5 DEF InStep, Away
<1>5. CASE ~gaveUp /\ AcceptPut
  <2>1. /\ agent.at = "idle" /\ inbox # <<>> /\ Head(inbox).op = "put" /\ inbox' = Tail(inbox) /\ replies' = replies
        /\ agent'.at = "create" /\ agent'.put = Head(inbox).f /\ agent'.mtime = Head(inbox).mtime
    BY <1>5 DEF AcceptPut, Reads, Idle
  <2>2. at \in {"open", "read"} /\ replies = {} /\ inbox = OneRequest("put")
    BY <1>3, <1>5, <2>1, AskSays DEF InStep, AtRest, InStat, InPut, InWait, Away, Types, ClientTypes
  <2>3. replies' = {} /\ inbox' = <<>> /\ Own'
    BY <1>1, <2>1, <2>2, AskSays DEF Own
  <2>4. InPut'
    BY <2>1, <2>3 DEF InPut
  <2> QED
    BY <1>1, <2>2, <2>4 DEF InStep, Away
<1>6. CASE ~gaveUp /\ SkipRequest
  <2>1. agent.at = "put" /\ inbox # <<>> /\ inbox' = Tail(inbox) /\ agent' = agent /\ replies' = replies
    BY <1>6 DEF SkipRequest
  <2>2. at = "stat" /\ replies = {} /\ inbox = OneRequest("stat")
    BY <1>3, <1>6, <2>1 DEF InStep, AtRest, InStat, InPut, InWait, Away, Types, ClientTypes
  <2>3. replies' = {} /\ inbox' = <<>>
    BY <2>1, <2>2, AskSays
  <2>4. InStat'
    BY <2>1, <2>3 DEF InStat
  <2> QED
    BY <1>1, <2>2, <2>4 DEF InStep, Away
<1>7. CASE ~gaveUp /\ Create
  <2>1. /\ agent.at = "create" /\ UNCHANGED <<inbox, replies>>
        /\ agent'.at = "put" /\ agent'.put = agent.put /\ agent'.mtime = agent.mtime
    BY <1>7 DEF Create, Types, AgentTypes, Put
  <2>2. at \in {"open", "read"} /\ replies = {} /\ inbox = <<>> /\ Own
    BY <1>3, <1>7, <2>1 DEF InStep, AtRest, InStat, InPut, InWait, Away, Types, ClientTypes
  <2>3. Own'
    BY <1>1, <2>1, <2>2 DEF Own
  <2>4. InPut'
    BY <2>1, <2>2, <2>3 DEF InPut
  <2> QED
    BY <1>1, <2>2, <2>4 DEF InStep, Away
<1> QED
  BY <1>2, <1>4, <1>5, <1>6, <1>7

LEMMA InStepPut == ASSUME Types, Types', InStep, Rename \/ Chtimes \/ PutFails PROVE InStep'
<1>1. /\ UNCHANGED <<at, cur, info, gaveUp, inbox>> /\ agent.at \in {"create", "put", "done", "named"}
      /\ (agent.at = "put" => PutFails /\ at = "read" /\ cur = agent.put)
      /\ (agent.at = "create" => PutFails)
      /\ agent'.at # "down"
  <2>1. CASE Rename
    BY <2>1, RenameEffect DEF Rename, clientVars
  <2>2. CASE Chtimes
    BY <2>2, ChtimesEffect, Bare DEF Chtimes, clientVars
  <2>3. CASE PutFails
    BY <2>3, Bare DEF PutFails, clientVars
  <2> QED
    BY <2>1, <2>2, <2>3
<1>2. CASE gaveUp
  BY <1>1, <1>2 DEF InStep
<1>3. ~Refused
  BY <1>1 DEF Refused
<1>4. CASE ~gaveUp /\ PutFails
  <2>1. /\ replies' = replies \cup {Refusal(agent.put, "put")} /\ agent'.at = "idle"
    BY <1>4, Bare DEF PutFails, Says
  <2>2. at \in {"open", "read", "wait"} /\ replies = {} /\ inbox = <<>> /\ agent.put = cur
    BY <1>1, <1>3, <1>4 DEF InStep, AtRest, InStat, InPut, InWait, Away, Types, ClientTypes, Own
  <2>3. replies' = {Refusal(cur, "put")} /\ inbox' = <<>>
    BY <1>1, <2>1, <2>2
  <2>4. replies' = {Refusal(cur', "put")}
    BY <1>1, <2>3
  <2>5. InPut' /\ InWait'
    BY <2>1, <2>3, <2>4 DEF InPut, InWait, Refusal, Reply, Gone
  <2> QED
    BY <1>1, <2>2, <2>5 DEF InStep, Away
<1>5. CASE ~gaveUp /\ Rename
  <2>1. agent.at = "done" /\ agent'.at = "named" /\ agent'.put = agent.put /\ agent'.mtime = agent.mtime
    BY <1>5, RenameEffect
  <2>2. at = "wait" /\ replies = {} /\ inbox = <<>> /\ Own
    BY <1>3, <1>5, <2>1 DEF InStep, AtRest, InStat, InPut, InWait, Away, Types, ClientTypes
  <2>3. replies' = {} /\ Own'
    BY <1>1, <1>5, <2>1, <2>2 DEF Own, Rename
  <2>4. InWait'
    BY <1>1, <2>1, <2>2, <2>3 DEF InWait
  <2> QED
    BY <1>1, <2>2, <2>4 DEF InStep, Away
<1>6. CASE ~gaveUp /\ Chtimes
  <2>1. agent.at = "named" /\ agent'.at = "idle" /\ replies' = replies \cup {Reply(agent.put, "put", TRUE, Gone)}
    BY <1>6, Bare DEF Chtimes, Says
  <2>2. at = "wait" /\ replies = {} /\ inbox = <<>> /\ agent.put = cur
    BY <1>3, <1>6, <2>1 DEF InStep, AtRest, InStat, InPut, InWait, Away, Types, ClientTypes, Own
  <2>3. replies' = {Reply(cur, "put", TRUE, Gone)}
    BY <2>1, <2>2
  <2>4. replies' = {Reply(cur', "put", TRUE, Gone)}
    BY <1>1, <2>3
  <2>5. InWait'
    BY <1>1, <2>1, <2>2, <2>4 DEF InWait, Reply, Gone
  <2> QED
    BY <1>1, <2>2, <2>5 DEF InStep, Away
<1> QED
  BY <1>2, <1>4, <1>5, <1>6

LEMMA InStepLose == ASSUME Types, Types', InStep, Lose PROVE InStep'
<1>1. /\ UNCHANGED <<at, cur, info, gaveUp, remote>> /\ agent'.at = "down" /\ inbox' = <<>> /\ agent.at # "down"
      /\ replies' = replies \cup {Refusal(inbox[i].f, inbox[i].op) : i \in DOMAIN inbox}
                            \cup (IF agent.put = 0 THEN {} ELSE {Refusal(agent.put, "put")})
  BY Bare DEF Lose, clientVars
<1>2. ~Refused
  BY <1>1 DEF Refused
<1>3. \A i \in DOMAIN inbox : ~Refusal(inbox[i].f, inbox[i].op).ok
  <2>1. \A i \in DOMAIN inbox : inbox[i] \in Ask
    BY DEF Types, AgentTypes
  <2> QED
    BY <2>1, FrameType DEF Ask
<1>4. agent.put # 0 => ~Refusal(agent.put, "put").ok
  BY Constants, FrameType DEF Types, AgentTypes, Put
<1>5. (\A m \in replies : ~m.ok) => Refused'
  BY <1>1, <1>3, <1>4 DEF Refused
<1>6. CASE gaveUp
  BY <1>1, <1>6 DEF InStep
<1>7. CASE ~gaveUp /\ \A m \in replies : ~m.ok
  BY <1>1, <1>5, <1>7 DEF InStep, AtRest, InStat, InPut, InWait
<1>8. CASE ~gaveUp /\ \E m \in replies : m.ok
  <2>1. cur \in Files => ~Refusal(cur, "put").ok
    BY FrameType
  <2>2. agent.at = "idle" => agent.put = 0
    BY Constants DEF Types, AgentTypes, Put
  <2>3. /\ inbox = <<>> /\ agent.at = "idle"
        /\ \/ at = "stat" /\ replies = {Reply(cur, "stat", TRUE, remote[cur])}
           \/ at = "wait" /\ replies = {Reply(cur, "put", TRUE, Gone)}
    BY <1>1, <1>2, <1>8, <2>1 DEF InStep, AtRest, InStat, InPut, InWait, Away, Types, ClientTypes
  <2>4. replies' = replies
    <3>1. DOMAIN inbox = {}
      BY <2>3
    <3> QED
      BY <1>1, <2>2, <2>3, <3>1
  <2>5. \/ at' = "stat" /\ replies' = {Reply(cur, "stat", TRUE, remote[cur])'}
        \/ at' = "wait" /\ replies' = {Reply(cur, "put", TRUE, Gone)'}
    BY <1>1, <2>3, <2>4 DEF Reply, Gone
  <2> QED
    BY <1>1, <2>5 DEF InStep, InStat, InWait, Away, Reply, Gone
<1> QED
  BY <1>6, <1>7, <1>8

LEMMA InStepStep == ASSUME Types, Types', InStep, Next PROVE InStep'
<1>1. CASE Editor
  BY <1>1, InStepFrame DEF Editor, Tick, Edit, Remove, clientVars, agentVars
<1> QED
  BY <1>1, InStepWalk, InStepAsk, InStepTake, InStepSend, InStepAgent, InStepPut, InStepLose DEF Next, Client, Agent

LEMMA InitInStep == Init => InStep
<1> SUFFICES ASSUME Init PROVE InStep
  OBVIOUS
<1>1. at = "off" /\ inbox = <<>> /\ agent = Down /\ replies = {}
  BY DEF Init
<1> QED
  BY <1>1, Bare DEF InStep, AtRest, Refused, Away

-----------------------------------------------------------------------------
(* What is carried to the host *)

\* Content is never new again.
LEMMA FreshKept ==
    ASSUME Types, Times, Next, NEW f \in Files, NEW t \in Nat, t <= local[f].mtime,
           local'[f].data # <<>>, ~hasty'[f], local'[f].mtime = t
    PROVE  Fresh(f, t) /\ local'[f] = local[f]
<1>1. local[f].mtime \in Nat
  BY DEF Types, LocalTypes, Content
<1>2. ~(local[f].mtime < local'[f].mtime)
  BY <1>1
<1>3. local'[f] = local[f] /\ (hasty'[f] <=> hasty[f])
  BY <1>2, LocalStep
<1> QED
  BY <1>3 DEF Fresh, Exists

\* The frames of the inbox that were there before.
LEMMA InboundKept ==
    ASSUME Types, Types', Times, Inbound, Next, NEW i \in DOMAIN inbox', NEW j \in DOMAIN inbox, inbox'[i] = inbox[j],
           inbox'[i].op = "put", Fresh(inbox[i].f, inbox[i].mtime)'
    PROVE  at \in {"open", "read"} /\ cur = inbox'[i].f /\ Exists(cur)
<1>1. inbox[j].f \in Files /\ inbox[j].mtime \in Nat
  <2>1. inbox[j] \in Ask
    BY DEF Types, AgentTypes
  <2> QED
    BY <2>1 DEF Ask
<1>2. inbox[j].mtime <= local[inbox[j].f].mtime
  BY DEF Times
<1>3. local'[inbox[j].f].data # <<>> /\ ~hasty'[inbox[j].f] /\ local'[inbox[j].f].mtime = inbox[j].mtime
  BY DEF Fresh, Exists
<1>4. Fresh(inbox[j].f, inbox[j].mtime) /\ local'[inbox[j].f] = local[inbox[j].f]
  BY <1>1, <1>2, <1>3, FreshKept
<1>5. at \in {"open", "read"} /\ cur = inbox[j].f
  BY <1>4 DEF Inbound
<1>6. Exists(cur)
  BY <1>4, <1>5 DEF Fresh
<1> QED
  BY <1>5, <1>6

LEMMA InboundStep == ASSUME Types, Types', Times, Inbound, Next PROVE Inbound'
<1> SUFFICES ASSUME NEW i \in DOMAIN inbox', inbox'[i].op = "put", Fresh(inbox[i].f, inbox[i].mtime)'
             PROVE  at' \in {"open", "read"} /\ cur' = inbox'[i].f
  BY DEF Inbound
<1>1. ASSUME NEW j \in DOMAIN inbox, inbox'[i] = inbox[j] PROVE at' \in {"open", "read"} /\ cur' = inbox'[i].f
  <2>1. at \in {"open", "read"} /\ cur = inbox'[i].f /\ Exists(cur)
    BY <1>1, InboundKept
  <2>2. CASE Editor
    BY <2>1, <2>2 DEF Editor, Tick, Edit, Remove, clientVars
  <2>3. CASE Agent \/ PutFails \/ Lose
    BY <2>1, <2>3 DEF Agent, AnswerStat, AcceptPut, SkipRequest, Create, Rename, Chtimes, PutFails, Lose, clientVars
  <2>4. CASE OpenLocal \/ SendChunk \/ SendDone
    <3>1. inbox' = <<>> \/ OpenLocal
      BY <2>4 DEF SendChunk, SendDone
    <3>2. OpenLocal
      BY <3>1
    <3> QED
      BY <2>1, <3>2 DEF OpenLocal
  <2>5. ~OpenLocalFails
    BY <2>1 DEF OpenLocalFails
  <2>6. at \notin {"walk", "stat", "wait", "off"}
    BY <2>1
  <2> QED
    BY <2>2, <2>3, <2>4, <2>5, <2>6
    DEF Next, Client, Absent, LstatFails, AskStat, EndSync, TakeStat, DropFrame, TakeAnswer, StartSync
<1>2. CASE AskStat \/ \E m \in replies : TakeStat(m) /\ ~(UpToDate(m) \/ dry)
  <2>1. PICK op \in {"stat", "put"}, a \in Ask :
           /\ op = (IF at = "walk" THEN "stat" ELSE "put")
           /\ op = "put" => at' = "open"
           /\ a.f = cur /\ a.op = op
           /\ inbox' = inbox \/ inbox' = Append(inbox, a)
           /\ cur' = cur
    BY <1>2, Asks
  <2>2. CASE inbox'[i] = a
    BY <2>1, <2>2
  <2>3. CASE inbox'[i] # a
    <3>1. inbox \in Seq(Ask)
      BY DEF Types, AgentTypes
    <3>2. CASE inbox' = inbox
      BY <1>1, <3>2
    <3>3. CASE inbox' = Append(inbox, a)
      <4>1. i \in DOMAIN inbox /\ inbox'[i] = inbox[i]
        BY <2>3, <3>1, <3>3, InboxMore
      <4> QED
        BY <1>1, <4>1
    <3> QED
      BY <2>1, <3>2, <3>3
  <2> QED
    BY <2>2, <2>3
<1> QED
  BY <1>1, <1>2, InboxStep

\* A put that goes on has gone on under the same conditions.
LEMMA WritingBefore ==
    ASSUME Types, Types', Times, InStep, calm => ~gaveUp, Next,
           agent.put \in Files, agent'.put = agent.put, agent'.mtime = agent.mtime,
           Fresh(agent.put, agent.mtime)' \/ (calm /\ at \in Upload)'
    PROVE  /\ Fresh(agent.put, agent.mtime) \/ (calm /\ at \in Upload)
           /\ local'[agent.put] = local[agent.put]
           /\ (at' \notin Upload) => Exists(agent.put)
<1>0. agent \in Put /\ agent.mtime \in Nat /\ agent.put # 0 /\ agent.at \in {"create", "put", "done", "named"}
  BY Constants DEF Types, AgentTypes, Put
<1>1. CASE Fresh(agent.put, agent.mtime)'
  <2>1. agent.mtime <= local[agent.put].mtime
    BY <1>0 DEF Times
  <2>2. local'[agent.put].data # <<>> /\ ~hasty'[agent.put] /\ local'[agent.put].mtime = agent.mtime
    BY <1>1 DEF Fresh, Exists
  <2>3. Fresh(agent.put, agent.mtime) /\ local'[agent.put] = local[agent.put]
    BY <1>0, <2>1, <2>2, FreshKept
  <2> QED
    BY <2>3 DEF Fresh
<1>2. CASE calm' /\ at' \in Upload
  <2>1. local' = local /\ calm
    <3>1. ASSUME NEW d \in BOOLEAN, StartSync(d) PROVE FALSE
      BY <1>2, <3>1 DEF StartSync, Upload
    <3> QED
      BY <1>2, <3>1, CalmStep
  <2>2. at \in Upload
    <3>1. CASE Editor \/ Agent \/ PutFails \/ Lose
      <4>1. at' = at
        BY <3>1 DEF Editor, Tick, Edit, Remove, Agent, AnswerStat, AcceptPut, SkipRequest, Create, Rename, Chtimes,
                    PutFails, Lose, clientVars
      <4> QED
        BY <1>2, <4>1
    <3>2. CASE Absent \/ LstatFails \/ AskStat \/ EndSync \/ OpenLocalFails
      BY <1>2, <3>2 DEF Absent, LstatFails, AskStat, EndSync, OpenLocalFails, Onward, Upload
    <3>3. CASE OpenLocal \/ SendChunk \/ SendDone
      BY <3>3 DEF OpenLocal, SendChunk, SendDone, Upload
    <3>4. ASSUME NEW m \in replies, TakeStat(m) PROVE FALSE
      <4>1. at = "stat" /\ ~gaveUp /\ replies # {}
        BY <2>1, <3>4 DEF TakeStat
      <4>2. agent.at \in {"down", "idle"}
        BY <4>1 DEF InStep, InStat, Refused
      <4> QED
        BY <1>0, <4>2
    <3>5. ASSUME NEW m \in replies, DropFrame(m) PROVE at' = at
      BY <3>5 DEF DropFrame, clientVars
    <3>6. ASSUME NEW m \in replies, TakeAnswer(m) PROVE FALSE
      BY <1>2, <3>6 DEF TakeAnswer, Onward, Upload
    <3>7. ASSUME NEW d \in BOOLEAN, StartSync(d) PROVE FALSE
      BY <1>2, <3>7 DEF StartSync, Upload
    <3> QED
      BY <1>2, <3>1, <3>2, <3>3, <3>4, <3>5, <3>6, <3>7 DEF Next, Client
  <2> QED
    BY <1>2, <2>1, <2>2
<1> QED
  BY <1>1, <1>2

LEMMA Halves == ASSUME NEW s \in Seq(Nat), NEW t \in Seq(Nat), Len(s) >= Len(t), Len(s) <= Len(t),
                       \A i \in 1..Len(s) : s[i] = t[i]
                PROVE s = t
<1>1. Len(s) = Len(t) /\ Len(s) \in Nat
  OBVIOUS
<1> QED
  BY <1>1

\* A chunk more.
LEMMA CopiedMore ==
    ASSUME NEW s \in Seq(Nat), NEW t \in Seq(Nat), Len(s) < Len(t), \A i \in 1..Len(s) : s[i] = t[i]
    PROVE  LET u == Append(s, t[Len(s) + 1]) IN
           u \in Seq(Nat) /\ Len(u) = Len(s) + 1 /\ Len(u) <= Len(t) /\ \A i \in 1..Len(u) : u[i] = t[i]
<1>1. Len(s) \in Nat /\ Len(t) \in Nat /\ Len(s) + 1 \in 1..Len(t)
  OBVIOUS
<1>2. t[Len(s) + 1] \in Nat
  BY <1>1
<1> DEFINE u == Append(s, t[Len(s) + 1])
<1>3. u \in Seq(Nat) /\ Len(u) = Len(s) + 1 /\ u[Len(s) + 1] = t[Len(s) + 1] /\ \A i \in 1..Len(s) : u[i] = s[i]
  BY <1>2
<1> HIDE DEF u
<1>4. ASSUME NEW i \in 1..Len(u) PROVE u[i] = t[i]
  <2>1. i \in 1..Len(s) \/ i = Len(s) + 1
    BY <1>1, <1>3
  <2> QED
    BY <1>3, <2>1
<1>5. Len(u) <= Len(t)
  BY <1>1, <1>3
<1> QED
  BY <1>3, <1>4, <1>5 DEF u

LEMMA WritingAccepted == ASSUME Types, Types', Times, Contents, Inbound, InStep, calm => ~gaveUp, AcceptPut PROVE Writing'
<1>1. /\ inbox # <<>> /\ Head(inbox).op = "put" /\ agent.at = "idle" /\ UNCHANGED <<at, cur, pos, local, hasty, calm>>
      /\ agent'.at = "create" /\ agent'.put = Head(inbox).f /\ agent'.mtime = Head(inbox).mtime /\ agent'.data = <<>>
  BY DEF AcceptPut, Reads, Idle, localVars, clientVars
<1>2. Head(inbox) = inbox[1] /\ 1 \in DOMAIN inbox /\ Head(inbox).f \in Files
  BY <1>1, InboxHead DEF Types, AgentTypes
<1> SUFFICES ASSUME Fresh(agent.put, agent.mtime)' \/ (calm /\ at \in Upload)'
             PROVE  at' \in {"open", "read"} /\ cur' = agent'.put /\ Copied'
  BY <1>1 DEF Writing
<1>3. at \in {"open", "read"} /\ cur = agent'.put
  <2>1. CASE Fresh(agent.put, agent.mtime)'
    <3>1. Fresh(Head(inbox).f, Head(inbox).mtime)
      BY <1>1, <2>1 DEF Fresh, Exists
    <3> QED
      BY <1>1, <1>2, <3>1 DEF Inbound
  <2>2. CASE calm' /\ at' \in Upload
    <3>1. ~gaveUp /\ at \in {"open", "read", "wait"}
      BY <1>1, <2>2 DEF Upload
    <3>2. at \in {"open", "read"} /\ inbox = OneRequest("put")
      BY <1>1, <3>1 DEF InStep, InPut, InWait, Refused
    <3> QED
      BY <1>1, <3>2, AskSays
  <2> QED
    BY <2>1, <2>2
<1>4. at = "read" => pos = 0
  BY <1>1 DEF Contents
<1>5. cur \in Files /\ local[cur].data \in Seq(Nat) /\ Len(local[cur].data) \in Nat
  BY <1>3, SMTT(40) DEF Types, ClientTypes, Away, LocalTypes, Content
<1>6. Copied'
  BY <1>1, <1>3, <1>4, <1>5, Bare DEF Copied
<1> QED
  BY <1>1, <1>3, <1>6

LEMMA WritingStep ==
    ASSUME Types, Types', Times, Contents, Inbound, Writing, InStep, calm => ~gaveUp, Next PROVE Writing'
<1>1. CASE AcceptPut
  BY <1>1, WritingAccepted
<1>2. CASE agent'.put = 0
  BY <1>2 DEF Writing
<1>3. CASE agent'.put = agent.put /\ agent'.mtime = agent.mtime /\ agent.put \in Files /\ ~AcceptPut
  <2> SUFFICES ASSUME Fresh(agent.put, agent.mtime)' \/ (calm /\ at \in Upload)'
               PROVE  /\ agent'.at \in {"create", "put"} => at' \in {"open", "read"} /\ cur' = agent'.put /\ Copied'
                      /\ agent'.at \in {"done", "named"} => agent'.data = local'[agent'.put].data
    BY DEF Writing
  <2>1. /\ Fresh(agent.put, agent.mtime) \/ (calm /\ at \in Upload)
        /\ local'[agent.put] = local[agent.put]
        /\ (at' \notin Upload) => Exists(agent.put)
    BY <1>3, WritingBefore
  <2>2. /\ agent \in Put /\ agent.put # 0 /\ agent.at \in {"create", "put", "done", "named"}
        /\ agent.data \in Seq(Nat) /\ local[agent.put].data \in Seq(Nat)
    BY <1>3, Constants DEF Types, AgentTypes, Put, LocalTypes, Content
  <2>3. /\ agent.at \in {"create", "put"} => at \in {"open", "read"} /\ cur = agent.put /\ Copied
        /\ agent.at \in {"done", "named"} => agent.data = local[agent.put].data
    BY <2>1, <2>2 DEF Writing
  <2>4. CASE UNCHANGED <<at, cur, pos>> /\ agent'.data = agent.data
             /\ (agent.at \in {"create", "put"} <=> agent'.at \in {"create", "put"})
    BY <1>3, <2>1, <2>2, <2>3, <2>4 DEF Copied
  <2>5. CASE Editor
    BY <2>4, <2>5 DEF Editor, Tick, Edit, Remove, clientVars, agentVars
  <2>6. CASE AnswerStat \/ SkipRequest \/ Create \/ Rename
    <3>1. UNCHANGED <<at, cur, pos>>
      BY <2>6 DEF AnswerStat, SkipRequest, Create, Rename, clientVars
    <3>2. agent'.data = agent.data /\ (agent.at \in {"create", "put"} <=> agent'.at \in {"create", "put"})
      BY <2>2, <2>6 DEF AnswerStat, SkipRequest, Create, Rename, Put
    <3> QED
      BY <2>4, <3>1, <3>2
  <2>7. CASE Chtimes \/ PutFails \/ Lose
    BY <1>3, <2>2, <2>7, Bare DEF Chtimes, PutFails, Lose
  <2>8. CASE agent' = agent /\ at \notin {"open", "read"}
    BY <1>3, <2>1, <2>2, <2>3, <2>8
  <2>9. CASE Absent \/ LstatFails \/ AskStat \/ EndSync
    BY <2>8, <2>9 DEF Absent, LstatFails, AskStat, EndSync, agentVars
  <2>10. ASSUME NEW m \in replies, TakeStat(m) \/ DropFrame(m) \/ TakeAnswer(m) PROVE agent' = agent /\ at \notin {"open", "read"}
    BY <2>10 DEF TakeStat, DropFrame, TakeAnswer
  <2>11. ASSUME NEW d \in BOOLEAN, StartSync(d) PROVE agent' = agent /\ at \notin {"open", "read"}
    <3>1. at = "off" /\ agent' = (IF agent.at = "down" THEN Idle ELSE agent)
      BY <2>11 DEF StartSync
    <3> QED
      BY <2>2, <3>1
  <2>12. CASE OpenLocal
    <3>1. at = "open" /\ at' = "read" /\ pos' = 0 /\ cur' = cur /\ agent' = agent
      BY <2>12 DEF OpenLocal, agentVars
    <3> QED
      BY <1>3, <2>1, <2>2, <2>3, <3>1 DEF Copied
  <2>13. CASE OpenLocalFails
    <3>1. at = "open" /\ at' = "walk" /\ agent' = agent /\ ~Exists(cur)
      BY <2>13 DEF OpenLocalFails, Onward, agentVars
    <3>2. agent.at \notin {"create", "put"}
      BY <2>1, <2>3, <3>1 DEF Upload
    <3> QED
      BY <1>3, <2>1, <2>2, <2>3, <3>1, <3>2
  <2>14. CASE SendChunk
    <3>1. /\ at = "read" /\ UNCHANGED <<at, cur>> /\ pos < Len(local[cur].data) /\ pos' = pos + 1 /\ agent.at # "create"
      BY <2>14 DEF SendChunk
    <3>2. CASE agent.at = "put"
      <4>1. cur = agent.put /\ Copied
        BY <2>3, <3>2
      <4>2. Len(agent.data) = pos /\ \A i \in 1..Len(agent.data) : agent.data[i] = local[cur].data[i]
        BY <3>1, <4>1 DEF Copied
      <4>3. agent'.at = "put" /\ agent'.data = Append(agent.data, local[cur].data[pos + 1])
        BY <2>2, <2>14, <3>2 DEF SendChunk, Put
      <4>4. Len(agent'.data) = pos' /\ Len(agent'.data) <= Len(local[cur].data)
            /\ \A i \in 1..Len(agent'.data) : agent'.data[i] = local[cur].data[i]
        <5>1. Len(agent.data) < Len(local[cur].data) /\ agent'.data = Append(agent.data, local[cur].data[Len(agent.data) + 1])
          BY <3>1, <4>2, <4>3
        <5>2. local[cur].data \in Seq(Nat)
          BY <2>2, <4>1
        <5>3. Len(agent'.data) = Len(agent.data) + 1 /\ Len(agent'.data) <= Len(local[cur].data)
              /\ \A i \in 1..Len(agent'.data) : agent'.data[i] = local[cur].data[i]
          BY <2>2, <4>2, <5>1, <5>2, CopiedMore, SMTT(40)
        <5> QED
          BY <3>1, <4>2, <5>3
      <4>5. Copied'
        BY <2>1, <3>1, <4>1, <4>4 DEF Copied
      <4> QED
        BY <1>3, <3>1, <4>1, <4>3, <4>5
    <3>3. CASE agent.at # "put"
      <4>1. agent' = agent
        BY <2>14, <3>3 DEF SendChunk
      <4> QED
        BY <1>3, <2>1, <2>2, <2>3, <3>1, <3>3, <4>1
    <3> QED
      BY <3>2, <3>3
  <2>15. CASE SendDone
    <3>1. at = "read" /\ pos >= Len(local[cur].data) /\ agent.at # "create"
      BY <2>15 DEF SendDone
    <3>2. CASE agent.at = "put"
      <4>1. cur = agent.put /\ Copied
        BY <2>3, <3>2
      <4>2. agent.data = local[cur].data
        <5>1. Len(agent.data) >= Len(local[cur].data) /\ Len(agent.data) <= Len(local[cur].data)
              /\ \A i \in 1..Len(agent.data) : agent.data[i] = local[cur].data[i]
          BY <3>1, <4>1 DEF Copied
        <5> QED
          BY <2>2, <4>1, <5>1, Halves
      <4>3. agent'.at = "done" /\ agent'.data = agent.data
        BY <2>2, <2>15, <3>2 DEF SendDone, Put
      <4> QED
        BY <1>3, <2>1, <4>1, <4>2, <4>3
    <3>3. CASE agent.at # "put"
      <4>1. agent' = agent
        BY <2>15, <3>3 DEF SendDone
      <4> QED
        BY <1>3, <2>1, <2>2, <2>3, <3>1, <3>3, <4>1
    <3> QED
      BY <3>2, <3>3
  <2> QED
    BY <1>3, <2>5, <2>6, <2>7, <2>8, <2>9, <2>10, <2>11, <2>12, <2>13, <2>14, <2>15 DEF Next, Client, Agent
<1> QED
  BY <1>1, <1>2, <1>3, PutStep

LEMMA LandedStep == ASSUME Types, Types', Times, Contents, Writing, Landed, Next PROVE Landed'
<1> SUFFICES ASSUME NEW f \in Files, ~cut'[f], Fresh(f, remote[f].mtime)'
             PROVE  remote'[f].data = local'[f].data
  BY DEF Landed
<1>1. local'[f].data # <<>> /\ ~hasty'[f] /\ local'[f].mtime = remote'[f].mtime
  BY DEF Fresh, Exists
<1>2. remote[f].mtime \in Nat /\ agent.mtime \in Nat
  BY DEF Types, AgentTypes, Content, Put
<1>3. CASE Chtimes /\ f = agent.put
  <2>1. agent.at = "named" /\ remote'[f].data = remote[f].data /\ remote'[f].mtime = agent.mtime /\ agent.put # 0
    BY <1>3, ChtimesEffect, Constants
  <2>2. agent.mtime <= local[f].mtime
    BY <1>3, <2>1 DEF Times
  <2>3. Fresh(f, agent.mtime) /\ local'[f] = local[f]
    BY <1>1, <1>2, <2>1, <2>2, FreshKept
  <2>4. agent.data = local[f].data
    BY <1>3, <2>1, <2>3 DEF Writing
  <2>5. remote[f].data = agent.data
    BY <1>3, <2>1 DEF Contents
  <2> QED
    BY <2>1, <2>3, <2>4, <2>5
<1>4. CASE ~(Chtimes /\ f = agent.put)
  <2>1. remote'[f] = remote[f] /\ ~cut[f]
    <3>1. CASE UNCHANGED <<remote, cut>>
      BY <3>1
    <3>2. CASE Rename
      BY <3>2, RenameEffect
    <3>3. CASE Chtimes
      BY <1>4, <3>3, ChtimesEffect
    <3> QED
      BY <3>1, <3>2, <3>3, RemoteStep
  <2>2. remote[f].mtime <= local[f].mtime
    BY <2>1 DEF Times
  <2>3. Fresh(f, remote[f].mtime) /\ local'[f] = local[f]
    BY <1>1, <1>2, <2>1, <2>2, FreshKept
  <2> QED
    BY <2>1, <2>3 DEF Landed
<1> QED
  BY <1>3, <1>4

LEMMA InitCarried == Init => Carried
<1> SUFFICES ASSUME Init PROVE Carried
  OBVIOUS
<1>1. at = "off" /\ inbox = <<>> /\ agent = Down /\ remote = [f \in Files |-> Gone]
  BY DEF Init
<1>2. \A f \in Files : local[f].mtime = 1
  BY DEF Init, Written
<1>3. \A f \in Files : remote[f].mtime = 0
  BY <1>1, GoneType
<1> QED
  BY <1>1, <1>2, <1>3, Bare DEF Carried, Inbound, Writing, Landed, Fresh

-----------------------------------------------------------------------------
(* What the walk compares and reports *)

\* What the client is at, between a file's lstat and its report.
LEMMA ClientStays ==
    ASSUME Next, ~AskStat, at' \notin Away
    PROVE  /\ at \notin Away /\ UNCHANGED <<info, cur, seen, listed, dry, gaveUp, syncs, res>>
           /\ at' = "stat" => at = "stat"
<1>1. CASE Editor
  BY <1>1 DEF Editor, Tick, Edit, Remove, clientVars
<1>2. CASE Agent \/ PutFails \/ Lose
  BY <1>2 DEF Agent, AnswerStat, AcceptPut, SkipRequest, Create, Rename, Chtimes, PutFails, Lose, clientVars
<1>3. CASE Absent \/ LstatFails \/ OpenLocalFails \/ EndSync \/ \E d \in BOOLEAN : StartSync(d)
  BY <1>3 DEF Absent, LstatFails, OpenLocalFails, EndSync, StartSync, Onward, Away
<1>4. CASE OpenLocal \/ SendChunk \/ SendDone
  BY <1>4 DEF OpenLocal, SendChunk, SendDone, Away
<1>5. ASSUME NEW m \in replies, TakeStat(m) \/ DropFrame(m) \/ TakeAnswer(m)
      PROVE  /\ at \notin Away /\ UNCHANGED <<info, cur, seen, listed, dry, gaveUp, syncs, res>>
             /\ at' = "stat" => at = "stat"
  BY <1>5 DEF TakeStat, DropFrame, TakeAnswer, Onward, Away, clientVars
<1> QED
  BY <1>1, <1>2, <1>3, <1>4, <1>5 DEF Next, Client

\* A file is renamed and gets its time while its client waits for the Result.
LEMMA RemoteKept ==
    ASSUME Types, InStep, ~gaveUp, Next
    PROVE  \/ UNCHANGED <<remote, cut>>
           \/ /\ at = "wait" /\ agent.put = cur /\ cur \in Files /\ agent.at \in {"done", "named"}
              /\ \A f \in Files \ {cur} : remote'[f] = remote[f] /\ (cut'[f] <=> cut[f])
<1>1. CASE Rename \/ Chtimes
  <2>1. agent.put \in Files /\ agent.at \in {"done", "named"}
        /\ \A f \in Files \ {agent.put} : remote'[f] = remote[f] /\ (cut'[f] <=> cut[f])
    BY <1>1, RenameEffect, ChtimesEffect
  <2>2. at = "wait" /\ agent.put = cur
    BY <2>1 DEF InStep, AtRest, InStat, InPut, InWait, Refused, Own, Away, Types, ClientTypes
  <2> QED
    BY <2>1, <2>2
<1> QED
  BY <1>1, RemoteStep

LEMMA ComparedStep == ASSUME Types, Types', Times, InStep, Landed, Compared, Next PROVE Compared'
<1>1. CASE AskStat
  <2>1. /\ cur' = cur /\ cur \in Files /\ info' = Lstat(cur) /\ seen' = local[cur].data /\ Exists(cur) /\ at' = "stat"
        /\ UNCHANGED <<local, hasty, remote, cut>>
    BY <1>1 DEF AskStat, localVars, Types, ClientTypes
  <2>2. cur \in Links => info'.size = 0
    BY <2>1 DEF Lstat
  <2>3. ASSUME cur \notin Links, ~Ambiguous(cur)', remote'[cur].mtime = info'.mtime PROVE remote'[cur].data = seen'
    <3>1. info'.mtime = local[cur].mtime
      BY <2>1, <2>3 DEF Lstat
    <3>2. ~hasty[cur] /\ ~cut[cur]
      BY <2>1, <2>3 DEF Ambiguous
    <3>3. Fresh(cur, remote[cur].mtime)
      BY <2>1, <2>3, <3>1, <3>2 DEF Fresh
    <3> QED
      BY <2>1, <3>2, <3>3 DEF Landed
  <2> QED
    BY <2>1, <2>2, <2>3 DEF Compared
<1>2. CASE ~AskStat /\ at' \notin Away
  <2>1. at \notin Away /\ UNCHANGED <<info, cur, seen, gaveUp>> /\ (at' = "stat" => at = "stat")
    BY <1>2, ClientStays
  <2>2. ASSUME at' = "stat", ~gaveUp', cur' \notin Links, ~Ambiguous(cur)', remote'[cur'].mtime = info'.mtime
        PROVE  remote'[cur'].data = seen'
    <3>1. at = "stat" /\ ~gaveUp /\ cur \in Files
      BY <2>1, <2>2 DEF Types, ClientTypes
    <3>2. UNCHANGED <<remote, cut>>
      BY <3>1, RemoteKept
    <3>3. hasty[cur] => hasty'[cur]
      BY <3>1, LocalStep
    <3>4. ~Ambiguous(cur)
      BY <2>1, <2>2, <3>2, <3>3 DEF Ambiguous
    <3> QED
      BY <2>1, <2>2, <3>1, <3>2, <3>4 DEF Compared
  <2> QED
    BY <2>1, <2>2 DEF Compared
<1>3. CASE at' \in Away
  BY <1>3 DEF Compared, Away
<1> QED
  BY <1>1, <1>2, <1>3

\* What a file is reported as.
LEMMA ResStep ==
    ASSUME Types, Next
    PROVE  \/ \E d \in BOOLEAN : StartSync(d)
           \/ cur' = cur /\ res' = res
           \/ Absent /\ cur' = cur + 1 /\ res' = res
           \/ /\ cur \in Files /\ cur' = cur + 1 /\ \A f \in Files \ {cur} : res'[f] = res[f]
              /\ \/ res'[cur] = "failed"
                 \/ res'[cur] = "skipped" /\ \E m \in replies : TakeStat(m) /\ UpToDate(m)
                 \/ res'[cur] = "uploaded" /\ dry /\ at = "stat"
                 \/ res'[cur] = "uploaded" /\ at = "wait" /\ \E m \in replies : m.ok
<1>0. res \in [Files -> {"none", "skipped", "uploaded", "failed"}]
  BY DEF Types, ClientTypes
<1>1. CASE Editor
  BY <1>1 DEF Editor, Tick, Edit, Remove, clientVars
<1>2. CASE Agent \/ PutFails \/ Lose
  BY <1>2 DEF Agent, AnswerStat, AcceptPut, SkipRequest, Create, Rename, Chtimes, PutFails, Lose, clientVars
<1>3. CASE Absent \/ EndSync \/ AskStat \/ OpenLocal \/ SendChunk \/ SendDone
  BY <1>3 DEF Absent, EndSync, AskStat, OpenLocal, SendChunk, SendDone, Onward
<1>4. CASE LstatFails \/ OpenLocalFails
  <2>1. cur \in Files /\ cur' = cur + 1 /\ res' = [res EXCEPT ![cur] = "failed"]
    BY <1>4 DEF LstatFails, OpenLocalFails, Onward, Report, Types, ClientTypes, Away
  <2> QED
    BY <1>0, <2>1
<1>5. ASSUME NEW m \in replies, TakeStat(m)
      PROVE  \/ cur' = cur /\ res' = res
             \/ /\ cur \in Files /\ cur' = cur + 1 /\ \A f \in Files \ {cur} : res'[f] = res[f]
                /\ \/ res'[cur] = "skipped" /\ \E k \in replies : TakeStat(k) /\ UpToDate(k)
                   \/ res'[cur] = "uploaded" /\ dry /\ at = "stat"
  <2>1. CASE UpToDate(m)
    <3>1. cur \in Files /\ cur' = cur + 1 /\ res' = [res EXCEPT ![cur] = "skipped"]
      BY <1>5, <2>1 DEF TakeStat, Onward, Report, Types, ClientTypes, Away
    <3> QED
      BY <1>0, <1>5, <2>1, <3>1
  <2>2. CASE ~UpToDate(m) /\ dry
    <3>1. at = "stat" /\ cur \in Files /\ cur' = cur + 1 /\ res' = [res EXCEPT ![cur] = "uploaded"]
      BY <1>5, <2>2 DEF TakeStat, Onward, Report, Types, ClientTypes, Away
    <3> QED
      BY <1>0, <2>2, <3>1
  <2>3. CASE ~UpToDate(m) /\ ~dry
    BY <1>5, <2>3 DEF TakeStat
  <2> QED
    BY <2>1, <2>2, <2>3
<1>6. ASSUME NEW m \in replies, DropFrame(m) PROVE cur' = cur /\ res' = res
  BY <1>6 DEF DropFrame, clientVars
<1>7. ASSUME NEW m \in replies, TakeAnswer(m)
      PROVE  /\ cur \in Files /\ cur' = cur + 1 /\ \A f \in Files \ {cur} : res'[f] = res[f]
             /\ \/ res'[cur] = "failed"
                \/ res'[cur] = "uploaded" /\ at = "wait" /\ m.ok
  <2>1. at = "wait" /\ cur \in Files /\ cur' = cur + 1 /\ res' = [res EXCEPT ![cur] = IF m.ok THEN "uploaded" ELSE "failed"]
    BY <1>7 DEF TakeAnswer, Onward, Report, Types, ClientTypes, Away
  <2> QED
    BY <1>0, <2>1
<1> QED
  BY <1>1, <1>2, <1>3, <1>4, <1>5, <1>6, <1>7 DEF Next, Client

\* A file the agent says is up to date.
LEMMA UpToDateSays ==
    ASSUME Types, InStep, Contents, Compared, ~gaveUp, NEW m \in replies, TakeStat(m), UpToDate(m)
    PROVE  /\ cur \in Files \ Links /\ at = "stat"
           /\ remote[cur] # Gone /\ Len(remote[cur].data) = info.size /\ remote[cur].mtime = info.mtime
           /\ ~Ambiguous(cur) => remote[cur].data = seen
<1>1. at = "stat" /\ m.ok /\ m.st # Gone /\ Len(m.st.data) = info.size /\ m.st.mtime = info.mtime
  BY DEF TakeStat, UpToDate
<1>2. m = Reply(cur, "stat", TRUE, remote[cur])
  BY <1>1 DEF InStep, InStat, Refused
<1>3. m.st = remote[cur] /\ cur \in Files
  BY <1>1, <1>2 DEF Reply, Types, ClientTypes, Away
<1>4. cur \notin Links
  <2>1. SUFFICES ASSUME cur \in Links PROVE FALSE
    OBVIOUS
  <2>2. Len(remote[cur].data) = 0 /\ remote[cur].data \in Seq(Nat)
    BY <1>1, <1>3, <2>1 DEF Compared, Away, Types, AgentTypes, Content
  <2>3. remote[cur].data = <<>>
    BY <2>2
  <2> QED
    BY <1>1, <1>3, <2>3 DEF Contents
<1> QED
  BY <1>1, <1>3, <1>4 DEF Compared

LEMMA BehindStep == ASSUME Types, Types', Behind, Undisturbed, Next PROVE Behind'
<1>0. cur \in Nat /\ syncs \in Nat /\ N \in Nat /\ Files = 1..N /\ cur \in 1..(N + 1) /\ cur' \in 1..(N + 1)
  BY Constants DEF Types, ClientTypes
<1>1. ASSUME NEW d \in BOOLEAN, StartSync(d) PROVE Behind'
  <2>1. at' = "walk" /\ res' = [f \in Files |-> "none"] /\ syncs' = syncs + 1 /\ gaveUp' = FALSE
    BY <1>1 DEF StartSync
  <2> QED
    BY <1>0, <2>1 DEF Behind
<1>2. CASE ~\E d \in BOOLEAN : StartSync(d)
  <2>1. \A f \in Files : res'[f] # "none" => f < cur'
    <3>1. \A f \in Files : f \in Nat /\ (res[f] # "none" => f < cur)
      BY <1>0 DEF Behind
    <3>2. CASE cur' = cur /\ res' = res
      BY <3>1, <3>2
    <3>3. CASE cur' = cur + 1 /\ res' = res
      BY <1>0, <3>1, <3>3
    <3>4. CASE cur \in Files /\ cur' = cur + 1 /\ \A f \in Files \ {cur} : res'[f] = res[f]
      <4>1. ASSUME NEW f \in Files, res'[f] # "none" PROVE f < cur'
        <5>1. f \in Files \ {cur} \/ f = cur
          OBVIOUS
        <5> QED
          BY <1>0, <3>1, <3>4, <4>1, <5>1
      <4> QED
        BY <4>1
    <3> QED
      BY <1>2, <3>2, <3>3, <3>4, ResStep
  <2>2. at' = "off" => syncs' = 0 \/ cur' = N + 1
    <3>1. SUFFICES ASSUME at' = "off" PROVE syncs' = 0 \/ cur' = N + 1
      OBVIOUS
    <3>2. EndSync \/ (at = "off" /\ UNCHANGED <<cur, syncs>>)
      <4>1. CASE Editor \/ Agent \/ PutFails \/ Lose
        BY <3>1, <4>1 DEF Editor, Tick, Edit, Remove, Agent, AnswerStat, AcceptPut, SkipRequest, Create, Rename, Chtimes,
                    PutFails, Lose, clientVars
      <4>2. CASE Client
        BY <3>1, <4>2 DEF Client, Absent, LstatFails, AskStat, OpenLocal, OpenLocalFails, SendChunk, SendDone, TakeStat,
              DropFrame, TakeAnswer, Onward, clientVars
      <4> QED
        BY <1>2, <4>1, <4>2 DEF Next
    <3>3. CASE EndSync
      <4>1. cur' = cur /\ cur \notin Files
        BY <3>3 DEF EndSync
      <4> QED
        BY <1>0, <4>1
    <3> QED
      BY <3>2, <3>3 DEF Behind
  <2>3. calm' => syncs' > 0 /\ ~gaveUp'
    <3>1. SUFFICES ASSUME calm' PROVE syncs' > 0 /\ ~gaveUp'
      OBVIOUS
    <3>2. calm
      BY <1>2, <3>1, CalmStep
    <3>3. ~OpenLocalFails
      BY <3>2 DEF Undisturbed, OpenLocalFails, Away
    <3>4. syncs' = syncs /\ gaveUp' = gaveUp
      <4>1. CASE Editor \/ Agent \/ PutFails \/ Lose
        BY <4>1 DEF Editor, Tick, Edit, Remove, Agent, AnswerStat, AcceptPut, SkipRequest, Create, Rename, Chtimes,
                    PutFails, Lose, clientVars
      <4>2. CASE Client
        BY <3>3, <4>2 DEF Client, Absent, LstatFails, AskStat, OpenLocal, SendChunk, SendDone, EndSync, TakeStat,
              DropFrame, TakeAnswer, clientVars
      <4> QED
        BY <1>2, <4>1, <4>2 DEF Next
    <3> QED
      BY <3>2, <3>4 DEF Behind
  <2> QED
    BY <2>1, <2>2, <2>3 DEF Behind
<1> QED
  BY <1>1, <1>2

LEMMA ListedKept == ASSUME Next PROVE (listed' = listed /\ settled' = settled /\ dry' = dry) \/ \E d \in BOOLEAN : StartSync(d)
<1>1. CASE Editor \/ Agent \/ PutFails \/ Lose
  BY <1>1 DEF Editor, Tick, Edit, Remove, Agent, AnswerStat, AcceptPut, SkipRequest, Create, Rename, Chtimes,
              PutFails, Lose, clientVars
<1>2. CASE Client
  BY <1>2 DEF Client, Absent, LstatFails, AskStat, OpenLocal, OpenLocalFails, SendChunk, SendDone, EndSync, TakeStat,
              DropFrame, TakeAnswer, clientVars
<1> QED
  BY <1>1, <1>2 DEF Next

LEMMA UndisturbedStep == ASSUME Types, Types', Undisturbed, Next PROVE Undisturbed'
<1> SUFFICES ASSUME calm'
             PROVE  /\ listed' = {f \in Files : Exists(f)'}
                    /\ at' \notin Away => Exists(cur)' /\ info' = Lstat(cur)' /\ seen' = local'[cur'].data
                    /\ \A f \in listed' : f < cur' => res'[f] # "none"
  BY DEF Undisturbed
<1>0. cur \in Nat /\ Files = 1..N /\ cur \in 1..(N + 1) /\ N \in Nat /\ listed \subseteq Files
  BY Constants DEF Types, ClientTypes
<1>1. local' = local /\ \A f \in Files : Exists(f)' = Exists(f)
  BY CalmStep DEF Exists
<1>2. ASSUME NEW d \in BOOLEAN, StartSync(d)
      PROVE  /\ listed' = {f \in Files : Exists(f)'}
             /\ at' \notin Away => Exists(cur)' /\ info' = Lstat(cur)' /\ seen' = local'[cur'].data
             /\ \A f \in listed' : f < cur' => res'[f] # "none"
  <2>1. at' = "walk" /\ cur' = 1 /\ listed' = {f \in Files : Exists(f)}
    BY <1>2 DEF StartSync
  <2>2. \A f \in listed' : ~(f < 1)
    BY <1>0, <2>1
  <2> QED
    BY <1>1, <2>1, <2>2 DEF Away
<1>3. CASE ~\E d \in BOOLEAN : StartSync(d)
  <2>1. calm /\ listed' = listed
    BY <1>3, CalmStep, ListedKept
  <2>2. listed' = {f \in Files : Exists(f)'}
    BY <1>1, <2>1 DEF Undisturbed
  <2>5. at' \notin Away => Exists(cur)' /\ info' = Lstat(cur)' /\ seen' = local'[cur'].data
    <3>1. CASE AskStat
      <4>1. at' = "stat" /\ cur' = cur /\ Exists(cur) /\ info' = Lstat(cur) /\ seen' = local[cur].data
        BY <3>1 DEF AskStat
      <4> QED
        BY <1>1, <4>1 DEF Lstat, Exists
    <3>2. CASE ~AskStat
      <4>1. at' \notin Away => at \notin Away /\ UNCHANGED <<info, cur, seen>>
        BY <3>2, ClientStays
      <4> QED
        BY <1>1, <2>1, <4>1 DEF Undisturbed, Lstat, Exists
    <3> QED
      BY <3>1, <3>2
  <2>6. ASSUME NEW f \in listed', f < cur' PROVE res'[f] # "none"
    <3>1. f \in listed /\ f \in Nat /\ f \in Files /\ (f < cur => res[f] # "none")
      BY <1>0, <2>1 DEF Undisturbed
    <3>2. CASE cur' = cur /\ res' = res
      BY <2>6, <3>1, <3>2
    <3>3. CASE Absent /\ cur' = cur + 1 /\ res' = res
      <4>1. f # cur
        BY <3>1, <3>3 DEF Absent
      <4>2. f < cur
        BY <1>0, <2>6, <3>1, <3>3, <4>1
      <4> QED
        BY <3>1, <3>3, <4>2
    <3>4. CASE cur' = cur + 1 /\ (\A g \in Files \ {cur} : res'[g] = res[g]) /\ res'[cur] # "none"
      <4>1. CASE f = cur
        BY <3>4, <4>1
      <4>2. CASE f # cur
        <5>1. f < cur /\ f \in Files \ {cur}
          BY <1>0, <2>6, <3>1, <3>4, <4>2
        <5> QED
          BY <3>1, <3>4, <5>1
      <4> QED
        BY <4>1, <4>2
    <3> QED
      BY <1>3, <3>2, <3>3, <3>4, ResStep
  <2> QED
    BY <2>2, <2>5, <2>6
<1> QED
  BY <1>2, <1>3

-----------------------------------------------------------------------------
(* Reports and a directory that is settled *)

\* The Results on their way: the one that a put ends with.
LEMMA OkReplies ==
    ASSUME Types, InStep, ~gaveUp, at \in {"read", "wait"}, Next, at' = "wait", \E m \in replies' : m.ok
    PROVE  \/ at = "wait" /\ (\E m \in replies : m.ok) /\ UNCHANGED <<remote, cut>>
           \/ at = "wait" /\ Chtimes
<1>1. ASSUME \E m \in replies : m.ok
      PROVE  at = "wait" /\ inbox = <<>> /\ agent.at \in {"idle", "down"}
  <2>1. at = "wait" \/ at = "read"
    OBVIOUS
  <2>2. cur \in Files => ~Refusal(cur, "put").ok
    BY FrameType
  <2>3. ~Refused
    BY <1>1 DEF Refused
  <2> QED
    BY <1>1, <2>1, <2>2, <2>3 DEF InStep, InPut, InWait, Types, ClientTypes, Away
<1>2. CASE \E m \in replies : m.ok
  <2>1. ~Rename /\ ~Chtimes
    BY <1>1, <1>2 DEF Rename, Chtimes
  <2>2. UNCHANGED <<remote, cut>>
    BY <2>1, RemoteStep
  <2> QED
    BY <1>1, <1>2, <2>2
<1>3. CASE ~\E m \in replies : m.ok
  <2>1. replies' \subseteq replies => FALSE
    BY <1>3
  <2>2. CASE Editor \/ AcceptPut \/ SkipRequest \/ Create \/ Rename
    BY <2>1, <2>2 DEF Editor, Tick, Edit, Remove, AcceptPut, SkipRequest, Create, Rename, agentVars
  <2>3. CASE SendChunk \/ SendDone
    BY <2>1, <2>3 DEF SendChunk, SendDone
  <2>4. CASE AnswerStat
    <3>1. agent.at = "idle" /\ inbox # <<>> /\ Head(inbox).op = "stat" /\ at' = at
      BY <2>4 DEF AnswerStat, Reads, clientVars
    <3>2. InWait /\ ~Refused
      BY <3>1 DEF InStep, Refused
    <3> QED
      BY <3>1, <3>2 DEF InWait
  <2>5. CASE PutFails
    <3>1. replies' = replies \cup {Refusal(agent.put, "put")} /\ agent.put \in Files
      BY <2>5 DEF PutFails, Says, Types, AgentTypes
    <3>2. ~Refusal(agent.put, "put").ok
      BY <3>1, FrameType
    <3> QED
      BY <1>3, <3>1, <3>2
  <2>6. CASE Lose
    <3>1. replies' = replies \cup {Refusal(inbox[i].f, inbox[i].op) : i \in DOMAIN inbox}
                            \cup (IF agent.put = 0 THEN {} ELSE {Refusal(agent.put, "put")})
      BY <2>6 DEF Lose
    <3>2. \A i \in DOMAIN inbox : ~Refusal(inbox[i].f, inbox[i].op).ok
      <4>1. \A i \in DOMAIN inbox : inbox[i] \in Ask
        BY DEF Types, AgentTypes
      <4> QED
        BY <4>1, FrameType DEF Ask
    <3>3. agent.put # 0 => ~Refusal(agent.put, "put").ok
      BY Constants, FrameType DEF Types, AgentTypes, Put
    <3> QED
      BY <1>3, <3>1, <3>2, <3>3
  <2>7. CASE Chtimes
    <3>1. at' = at
      BY <2>7 DEF Chtimes, clientVars
    <3> QED
      BY <2>7, <3>1
  <2>8. ASSUME NEW m \in replies, TakeStat(m) \/ DropFrame(m) \/ TakeAnswer(m) PROVE FALSE
    <3>1. at # "stat"
      OBVIOUS
    <3>2. DropFrame(m) \/ TakeAnswer(m)
      BY <2>8, <3>1 DEF TakeStat
    <3>3. replies' = replies \ {m}
      BY <3>2 DEF DropFrame, TakeAnswer
    <3> QED
      BY <2>1, <3>3
  <2>9. ~(Absent \/ LstatFails \/ AskStat \/ EndSync \/ OpenLocal \/ OpenLocalFails \/ \E d \in BOOLEAN : StartSync(d))
    BY DEF Absent, LstatFails, AskStat, EndSync, OpenLocal, OpenLocalFails, StartSync
  <2> QED
    BY <2>2, <2>3, <2>4, <2>5, <2>6, <2>7, <2>8, <2>9 DEF Next, Client, Agent
<1> QED
  BY <1>2, <1>3

LEMMA WaitsAfter == ASSUME Next, at' = "wait" PROVE at \in {"read", "wait"} /\ ~AskStat /\ ~\E d \in BOOLEAN : StartSync(d)
<1>1. CASE Editor \/ Agent \/ PutFails \/ Lose
  <2>1. at' = at
    BY <1>1 DEF Editor, Tick, Edit, Remove, Agent, AnswerStat, AcceptPut, SkipRequest, Create, Rename, Chtimes,
              PutFails, Lose, clientVars
  <2> QED
    BY <2>1 DEF AskStat, StartSync
<1>2. CASE Client
  BY <1>2 DEF Client, Absent, LstatFails, AskStat, OpenLocal, OpenLocalFails, SendChunk, SendDone, EndSync, TakeStat,
              DropFrame, TakeAnswer, Onward, clientVars, StartSync
<1>3. ASSUME NEW d \in BOOLEAN, StartSync(d) PROVE FALSE
  BY <1>3 DEF StartSync
<1> QED
  BY <1>1, <1>2, <1>3 DEF Next

LEMMA StoredStep ==
    ASSUME Types, Types', Contents, Writing, InStep, Behind, Stored, Next PROVE Stored'
<1> SUFFICES ASSUME calm', at' = "wait", \E m \in replies' : m.ok
             PROVE  remote'[cur'].data = local'[cur'].data /\ remote'[cur'].mtime = info'.mtime
  BY DEF Stored
<1>1. at \in {"read", "wait"} /\ ~AskStat /\ ~\E d \in BOOLEAN : StartSync(d)
  BY WaitsAfter
<1>2. calm /\ local' = local /\ ~gaveUp
  BY <1>1, CalmStep DEF Behind
<1>3. cur' = cur /\ info' = info /\ cur \in Files
  BY <1>1, ClientStays DEF Away, Types, ClientTypes
<1>4. CASE at = "wait" /\ (\E m \in replies : m.ok) /\ UNCHANGED <<remote, cut>>
  BY <1>2, <1>3, <1>4 DEF Stored
<1>5. CASE at = "wait" /\ Chtimes
  <2>1. agent.at = "named" /\ agent.put \in Files /\ remote'[agent.put].data = remote[agent.put].data
        /\ remote'[agent.put].mtime = agent.mtime
    BY <1>5, ChtimesEffect
  <2>2. Own
    BY <1>2, <1>5, <2>1 DEF InStep, InWait, Refused
  <2>3. agent.data = local[agent.put].data
    BY <1>2, <1>5, <2>1, Constants DEF Writing, Upload
  <2>4. remote[agent.put].data = agent.data
    BY <2>1 DEF Contents
  <2> QED
    BY <1>2, <1>3, <2>1, <2>2, <2>3, <2>4 DEF Own
<1> QED
  BY <1>1, <1>2, <1>4, <1>5, OkReplies

LEMMA ReportedStep ==
    ASSUME Types, Types', Times, Contents, InStep, Compared, Behind, Undisturbed, Stored, Reported, Next PROVE Reported'
<1> SUFFICES ASSUME calm', ~dry', NEW f \in Files
             PROVE  /\ res'[f] = "skipped" /\ ~Ambiguous(f)' => remote'[f].data = local'[f].data
                    /\ res'[f] = "uploaded" => remote'[f].data = local'[f].data
                    /\ res'[f] \in {"skipped", "uploaded"} /\ f \notin Links => Alike(f)'
  BY DEF Reported
<1>1. ASSUME NEW d \in BOOLEAN, StartSync(d) PROVE res'[f] = "none"
  BY <1>1 DEF StartSync
<1>2. CASE ~\E d \in BOOLEAN : StartSync(d)
  <2>1. calm /\ local' = local /\ hasty' = hasty /\ dry' = dry /\ ~gaveUp /\ ~dry
    BY <1>2, CalmStep, ListedKept DEF Behind
  <2>2. \/ UNCHANGED <<remote, cut>>
        \/ /\ at = "wait" /\ agent.put = cur /\ cur \in Files /\ agent.at \in {"done", "named"}
           /\ \A g \in Files \ {cur} : remote'[g] = remote[g] /\ (cut'[g] <=> cut[g])
    BY <2>1, RemoteKept
  <2>3. res[f] # "none" => f # cur
    <3>1. cur \in Nat /\ f \in Nat
      BY Constants DEF Types, ClientTypes
    <3> QED
      BY <3>1 DEF Behind
  <2>4. CASE res'[f] = res[f]
    <3>1. CASE res[f] = "none"
      BY <2>4, <3>1
    <3>2. CASE res[f] # "none"
      <4>1. remote'[f] = remote[f] /\ (cut'[f] <=> cut[f])
        BY <2>2, <2>3, <3>2
      <4>2. (Ambiguous(f)' <=> Ambiguous(f)) /\ (Alike(f)' <=> Alike(f))
        BY <2>1, <4>1 DEF Ambiguous, Alike
      <4> QED
        BY <2>1, <2>4, <4>1, <4>2 DEF Reported
    <3> QED
      BY <3>1, <3>2
  <2>5. CASE res'[f] # res[f]
    <3>1. /\ f = cur
          /\ \/ res'[cur] = "failed"
             \/ res'[cur] = "skipped" /\ \E m \in replies : TakeStat(m) /\ UpToDate(m)
             \/ res'[cur] = "uploaded" /\ at = "wait" /\ \E m \in replies : m.ok
      BY <1>2, <2>1, <2>5, ResStep
    <3>2. CASE res'[cur] = "failed"
      BY <3>1, <3>2
    <3>3. CASE res'[cur] = "skipped" /\ \E m \in replies : TakeStat(m) /\ UpToDate(m)
      <4>1. /\ cur \notin Links /\ at = "stat"
            /\ Len(remote[cur].data) = info.size /\ remote[cur].mtime = info.mtime
            /\ ~Ambiguous(cur) => remote[cur].data = seen
        BY <2>1, <3>3, UpToDateSays
      <4>2. info = Lstat(cur) /\ seen = local[cur].data
        BY <2>1, <4>1 DEF Undisturbed, Away
      <4>3. info.size = Len(local[cur].data) /\ info.mtime = local[cur].mtime
        BY <4>1, <4>2 DEF Lstat
      <4>4. UNCHANGED <<remote, cut>>
        BY <2>2, <4>1
      <4>5. Alike(f)' /\ (~Ambiguous(f)' => ~Ambiguous(cur))
        BY <2>1, <3>1, <4>1, <4>3, <4>4 DEF Alike, Ambiguous
      <4> QED
        BY <2>1, <3>1, <3>3, <4>1, <4>2, <4>4, <4>5
    <3>4. CASE res'[cur] = "uploaded" /\ at = "wait" /\ \E m \in replies : m.ok
      <4>1. remote[cur].data = local[cur].data /\ remote[cur].mtime = info.mtime
        BY <2>1, <3>4 DEF Stored
      <4>2. cur \notin Links => info.mtime = local[cur].mtime
        BY <2>1, <3>4 DEF Undisturbed, Away, Lstat
      <4>3. UNCHANGED <<remote, cut>>
        <5>1. agent.at \in {"idle", "down"}
          <6>1. cur \in Files /\ ~Refusal(cur, "put").ok
            BY <3>1, FrameType
          <6> QED
            BY <2>1, <3>4, <6>1 DEF InStep, InWait, Refused
        <5> QED
          BY <2>2, <5>1
      <4>4. f \notin Links => Alike(f)'
        BY <2>1, <3>1, <4>1, <4>2, <4>3 DEF Alike
      <4> QED
        BY <2>1, <3>1, <3>4, <4>1, <4>3, <4>4
    <3> QED
      BY <3>1, <3>2, <3>3, <3>4
  <2> QED
    BY <2>4, <2>5
<1> QED
  BY <1>1, <1>2

\* What is not read any more.
LEMMA RefusedStays ==
    ASSUME Types, InStep, Refused, at \in Upload, Next, at' \in Upload PROVE Refused'
<1>1. agent.at = "down" /\ inbox = <<>> /\ agent.put = 0
  BY Constants DEF Refused, InStep, Types, AgentTypes, Put
<1>2. ~(Agent \/ PutFails \/ Lose)
  BY <1>1 DEF Agent, AnswerStat, AcceptPut, SkipRequest, Create, Rename, Chtimes, PutFails, Lose
<1>3. ~(Absent \/ LstatFails \/ AskStat \/ EndSync \/ OpenLocalFails \/ \E d \in BOOLEAN : StartSync(d))
  BY DEF Absent, LstatFails, AskStat, EndSync, OpenLocalFails, StartSync, Onward, Upload
<1>4. CASE Editor \/ OpenLocal
  BY <1>4 DEF Editor, Tick, Edit, Remove, OpenLocal, agentVars, Refused
<1>5. CASE SendChunk \/ SendDone
  BY <1>1, <1>5 DEF SendChunk, SendDone, Refused
<1>6. ASSUME NEW m \in replies, TakeStat(m) \/ DropFrame(m) \/ TakeAnswer(m) PROVE Refused'
  <2>1. ~TakeStat(m)
    BY DEF TakeStat, Upload
  <2>2. replies' = replies \ {m} /\ agent' = agent
    BY <1>6, <2>1 DEF DropFrame, TakeAnswer
  <2> QED
    BY <2>2 DEF Refused
<1> QED
  BY <1>2, <1>3, <1>4, <1>5, <1>6 DEF Next, Client

LEMMA SettledStep ==
    ASSUME Types, Types', InStep, Behind, Undisturbed, Reported, Settled, Next PROVE Settled'
<1> SUFFICES ASSUME settled', calm'
             PROVE  /\ \A f \in listed' \ Links : Alike(f)'
                    /\ at' \in Upload /\ cur' \notin Links => Refused'
                    /\ ~dry' => \A f \in Files \ Links : res'[f] # "uploaded"
  BY DEF Settled
<1>0. cur \in Nat /\ Files = 1..N /\ cur \in 1..(N + 1) /\ N \in Nat /\ listed \subseteq Files
  BY Constants DEF Types, ClientTypes
<1>1. ASSUME NEW d \in BOOLEAN, StartSync(d)
      PROVE  /\ \A f \in listed' \ Links : Alike(f)'
             /\ at' \in Upload /\ cur' \notin Links => Refused'
             /\ ~dry' => \A f \in Files \ Links : res'[f] # "uploaded"
  <2>1. /\ at' = "walk" /\ res' = [f \in Files |-> "none"] /\ listed' = {f \in Files : Exists(f)}
        /\ settled' = (Succeeded /\ calm) /\ UNCHANGED <<local, remote>>
    BY <1>1 DEF StartSync, localVars
  <2>2. Succeeded /\ calm
    BY <2>1
  <2>3. at = "off" /\ syncs > 0 /\ ~dry /\ Failed = {} /\ cur = N + 1
    BY <2>2 DEF Succeeded, Behind, Types, ClientTypes
  <2>4. ASSUME NEW f \in listed' \ Links PROVE Alike(f)'
    <3>1. f \in Files /\ f \in listed /\ f < cur
      BY <1>0, <2>1, <2>2, <2>3 DEF Undisturbed
    <3>2. res[f] \in {"skipped", "uploaded"}
      BY <2>2, <2>3, <3>1 DEF Undisturbed, Failed, Types, ClientTypes
    <3>3. Alike(f)
      BY <2>2, <2>3, <3>1, <3>2 DEF Reported
    <3> QED
      BY <2>1, <3>3 DEF Alike
  <2> QED
    BY <2>1, <2>4 DEF Upload
<1>2. CASE ~\E d \in BOOLEAN : StartSync(d)
  <2>1. settled /\ calm /\ local' = local /\ dry' = dry /\ listed' = listed /\ ~gaveUp
    BY <1>2, CalmStep, ListedKept DEF Behind
  <2>2. /\ \A f \in listed \ Links : Alike(f)
        /\ at \in Upload /\ cur \notin Links => Refused
        /\ ~dry => \A f \in Files \ Links : res[f] # "uploaded"
    BY <2>1 DEF Settled
  <2>3. ASSUME NEW f \in listed' \ Links PROVE Alike(f)'
    <3>1. f \in Files /\ Alike(f)
      BY <1>0, <2>1, <2>2
    <3>2. remote'[f] = remote[f]
      <4>1. CASE UNCHANGED <<remote, cut>>
        BY <4>1
      <4>2. CASE /\ at = "wait" /\ agent.put = cur /\ cur \in Files /\ agent.at \in {"done", "named"}
                 /\ \A g \in Files \ {cur} : remote'[g] = remote[g] /\ (cut'[g] <=> cut[g])
        <5>1. f # cur
          BY <2>2, <4>2 DEF Refused, Upload
        <5> QED
          BY <3>1, <4>2, <5>1
      <4> QED
        BY <2>1, <4>1, <4>2, RemoteKept
    <3> QED
      BY <2>1, <3>1, <3>2 DEF Alike
  <2>4. ASSUME at' \in Upload, cur' \notin Links PROVE Refused'
    <3>1. CASE at \in Upload
      <4>1. ~AskStat
        BY <3>1 DEF AskStat, Upload
      <4>2. cur' = cur
        BY <2>4, <4>1, ClientStays DEF Upload, Away
      <4> QED
        BY <2>2, <2>4, <3>1, <4>2, RefusedStays
    <3>2. CASE at \notin Upload
      <4>1. \E m \in replies : TakeStat(m) /\ ~(UpToDate(m) \/ dry)
        <5>1. at' # at
          BY <2>4, <3>2
        <5>2. CASE Editor \/ Agent \/ PutFails \/ Lose
          BY <5>1, <5>2 DEF Editor, Tick, Edit, Remove, Agent, AnswerStat, AcceptPut, SkipRequest, Create, Rename, Chtimes,
              PutFails, Lose, clientVars
        <5>3. CASE Client
          BY <2>4, <3>2, <5>1, <5>3 DEF Client, Absent, LstatFails, AskStat, OpenLocal, OpenLocalFails, SendChunk, SendDone,
              EndSync, TakeStat, DropFrame, TakeAnswer, Onward, Upload, clientVars
        <5> QED
          BY <1>2, <5>2, <5>3 DEF Next
      <4>2. PICK m \in replies : TakeStat(m) /\ ~UpToDate(m) /\ ~dry
        BY <4>1
      <4>3. at = "stat" /\ cur' = cur
        BY <4>2 DEF TakeStat
      <4>4. Refused \/ m = Reply(cur, "stat", TRUE, remote[cur])
        BY <2>1, <4>2, <4>3 DEF InStep, InStat
      <4>5. CASE Refused
        <5>1. PICK op \in {"stat", "put"}, F \in SUBSET replies :
                 /\ op = (IF at = "walk" THEN "stat" ELSE "put")
                 /\ agent.at = "down" => replies' = F \cup {Refusal(cur, op)}
                 /\ cur \in Files /\ agent' = agent
          BY <4>1, Asks
        <5>2. ~Refusal(cur, op).ok
          BY <5>1, FrameType
        <5> QED
          BY <4>5, <5>1, <5>2 DEF Refused
      <4>6. CASE m = Reply(cur, "stat", TRUE, remote[cur])
        <5>1. m.op = "stat" /\ m.ok /\ m.st = remote[cur]
          BY <4>6 DEF Reply
        <5>2. Exists(cur) /\ info = Lstat(cur) /\ cur \in Files /\ cur \in listed
          BY <2>1, <4>3 DEF Undisturbed, Away, Types, ClientTypes
        <5>3. Alike(cur) /\ cur \notin Links
          BY <2>2, <2>4, <4>3, <5>2
        <5>4. info.size = Len(local[cur].data) /\ info.mtime = local[cur].mtime
          BY <5>2, <5>3 DEF Lstat
        <5>5. remote[cur] # Gone
          <6>1. local[cur].data \in Seq(Nat) /\ local[cur].data # <<>>
            BY <5>2 DEF Exists, Types, LocalTypes, Content
          <6>2. Len(remote[cur].data) # 0
            BY <5>3, <6>1 DEF Alike
          <6> QED
            BY <6>2, GoneType, Bare
        <5>6. UpToDate(m)
          BY <5>1, <5>3, <5>4, <5>5 DEF UpToDate, Alike
        <5> QED
          BY <4>2, <5>6
      <4> QED
        BY <4>4, <4>5, <4>6
    <3> QED
      BY <3>1, <3>2
  <2>5. ASSUME ~dry', NEW f \in Files \ Links PROVE res'[f] # "uploaded"
    <3>1. res[f] # "uploaded"
      BY <2>1, <2>2, <2>5
    <3>2. CASE res'[f] = res[f]
      BY <3>1, <3>2
    <3>3. CASE res'[f] # res[f]
      <4>1. /\ f = cur
            /\ \/ res'[cur] \in {"failed", "skipped"}
               \/ at = "wait" /\ \E m \in replies : m.ok
        BY <1>2, <2>1, <2>5, <3>3, ResStep
      <4>2. at = "wait" => \A m \in replies : ~m.ok
        BY <2>2, <4>1 DEF Refused, Upload
      <4> QED
        BY <4>1, <4>2
    <3> QED
      BY <3>2, <3>3
  <2> QED
    BY <2>3, <2>4, <2>5
<1> QED
  BY <1>1, <1>2

-----------------------------------------------------------------------------
(* The theorems *)

SyncInv == Types /\ Pending /\ Times /\ Contents /\ Carried /\ InStep /\ Compared /\ Walked /\ Settled

LEMMA InitWalk == Init => Compared /\ Walked /\ Settled
<1> SUFFICES ASSUME Init PROVE Compared /\ Walked /\ Settled
  OBVIOUS
<1>1. at = "off" /\ syncs = 0 /\ calm = FALSE /\ settled = FALSE /\ res = [f \in Files |-> "none"]
  BY DEF Init
<1> QED
  BY <1>1 DEF Compared, Walked, Behind, Undisturbed, Stored, Reported, Settled, Away

LEMMA InitSync == Init => SyncInv
BY InitTypes, InitFirst, InitCarried, InitInStep, InitWalk DEF SyncInv

LEMMA UnchangedSync == ASSUME SyncInv, UNCHANGED vars PROVE SyncInv'
<1>1. UNCHANGED <<clock, local, writes, hasty, at, cur, dry, listed, info, pos, res, syncs, seen, gaveUp,
                  remote, inbox, agent, replies, cut, calm, settled>>
  BY DEF vars, localVars, clientVars, agentVars
<1>2. Types' /\ Pending' /\ Times'
  BY <1>1 DEF SyncInv, Types, LocalTypes, ClientTypes, AgentTypes, Flags, Pending, Times
<1>3. Contents' /\ Carried'
  BY <1>1 DEF SyncInv, Contents, Carried, Inbound, Writing, Landed, Fresh, Copied, Exists
<1>4. InStep'
  BY <1>1, InStepFrame DEF SyncInv
<1>5. Compared' /\ Walked'
  BY <1>1 DEF SyncInv, Compared, Walked, Behind, Undisturbed, Stored, Reported, Exists, Ambiguous, Lstat, Alike
<1>6. Settled'
  BY <1>1 DEF SyncInv, Settled, Alike, Refused
<1> QED
  BY <1>2, <1>3, <1>4, <1>5, <1>6 DEF SyncInv

LEMMA NextSync == SyncInv /\ [Next]_vars => SyncInv'
<1>1. ASSUME SyncInv, Next PROVE SyncInv'
  <2>1. Types /\ Types'
    BY <1>1, NextTypes DEF SyncInv
  <2>2. calm => ~gaveUp
    BY <1>1 DEF SyncInv, Walked, Behind
  <2>3. Inbound /\ Writing /\ Landed /\ Behind /\ Undisturbed /\ Stored /\ Reported
    BY <1>1 DEF SyncInv, Carried, Walked
  <2>4. Pending /\ Times /\ Contents /\ InStep /\ Compared /\ Settled
    BY <1>1 DEF SyncInv
  <2>5. Pending' /\ Times' /\ Contents' /\ InStep'
    BY <1>1, <2>1, <2>4, PendingStep, TimesStep, ContentsStep, InStepStep
  <2>6. Carried'
    BY <1>1, <2>1, <2>2, <2>3, <2>4, InboundStep, WritingStep, LandedStep DEF Carried
  <2>7. Compared'
    BY <1>1, <2>1, <2>3, <2>4, ComparedStep
  <2>8. Walked'
    BY <1>1, <2>1, <2>3, <2>4, BehindStep, UndisturbedStep, StoredStep, ReportedStep DEF Walked
  <2>9. Settled'
    BY <1>1, <2>1, <2>3, <2>4, SettledStep
  <2> QED
    BY <2>1, <2>5, <2>6, <2>7, <2>8, <2>9 DEF SyncInv
<1>2. ASSUME SyncInv, UNCHANGED vars PROVE SyncInv'
  BY <1>2, UnchangedSync
<1> QED
  BY <1>1, <1>2

LEMMA SyncInvariant == Spec => []SyncInv
BY InitSync, NextSync, PTL DEF Spec

\* Types, and a sync that waits has something to wait for.
THEOREM SyncTypes == Spec => []TypeOK
<1>1. SyncInv => TypeOK
  <2>1. SUFFICES ASSUME SyncInv PROVE TypeOK
    OBVIOUS
  <2>2. at \in {"stat", "wait"} => replies # {} \/ inbox # <<>> \/ agent.put # 0
    BY <2>1, PendingSays DEF SyncInv
  <2>3. LocalTypes /\ ClientTypes /\ AgentTypes
    BY <2>1 DEF SyncInv, Types
  <2>4. {dry, calm, settled, gaveUp} \subseteq BOOLEAN /\ hasty \in [Files -> BOOLEAN] /\ cut \in [Files -> BOOLEAN]
    BY <2>1 DEF SyncInv, Types, Flags
  <2>5. inbox \in Seq([f : Files, op : {"stat", "put"}, mtime : Nat])
    BY <2>3 DEF AgentTypes, Ask
  <2>6. agent \in [at : {"down", "idle", "create", "put", "done", "named"}, put : 0..N,
                   mtime : Nat, data : Seq(Nat), wrote : Nat]
    BY <2>3 DEF AgentTypes, Put
  <2>7. at \notin {"off", "walk"} => cur \in Files
    BY <2>3 DEF ClientTypes, Away
  <2> QED
    BY <2>2, <2>3, <2>4, <2>5, <2>6, <2>7 DEF TypeOK, LocalTypes, ClientTypes, AgentTypes
<1> QED
  BY <1>1, SyncInvariant, PTL

\* When a sync that reports no failure ends over a directory that nobody has
\* written to since it began, each file's remote copy is the local file, whatever
\* was edited, uploaded and cut short before (Sync).
THEOREM Mirroring == Spec => []Mirrors
<1>1. SyncInv => Mirrors
  <2>1. SUFFICES ASSUME SyncInv, Succeeded, calm, NEW f \in Files, Exists(f), ~Ambiguous(f)
                 PROVE  remote[f].data = local[f].data
    BY DEF Mirrors
  <2>2. at = "off" /\ syncs > 0 /\ ~dry /\ Failed = {}
    BY <2>1 DEF Succeeded
  <2>3. cur = N + 1 /\ f < cur
    BY <2>1, <2>2, Constants DEF SyncInv, Walked, Behind, Types, ClientTypes
  <2>4. res[f] # "none"
    BY <2>1, <2>3 DEF SyncInv, Walked, Undisturbed
  <2>5. res[f] \in {"skipped", "uploaded"}
    BY <2>1, <2>2, <2>4 DEF SyncInv, Types, ClientTypes, Failed
  <2> QED
    BY <2>1, <2>2, <2>5 DEF SyncInv, Walked, Reported
<1> QED
  BY <1>1, SyncInvariant, PTL

\* A sync that begins when nothing is to be done uploads nothing, but links: the
\* mtime that an upload sets is the one the next sync finds (FilePut, Sync).
THEOREM SkipsNext == Spec => []NextSyncSkips
<1>1. SyncInv => NextSyncSkips
  BY DEF SyncInv, Settled, NextSyncSkips
<1> QED
  BY <1>1, SyncInvariant, PTL

\* A file is skipped only over a remote file that holds what the local one held
\* when the walk looked at it (the mtime and size heuristic of Sync).
THEOREM SkipSafe == Spec => SkipIsSafe
<1>1. SyncInv /\ [Next]_vars =>
        [\A f \in Files : res[f] # "skipped" /\ res'[f] = "skipped" /\ ~Ambiguous(f) /\ ~gaveUp => remote[f].data = seen]_vars
  <2>1. SUFFICES ASSUME SyncInv, Next, NEW f \in Files, res[f] # "skipped", res'[f] = "skipped", ~Ambiguous(f), ~gaveUp
                 PROVE  remote[f].data = seen
    OBVIOUS
  <2>2. ASSUME NEW d \in BOOLEAN, StartSync(d) PROVE FALSE
    <3>1. res' = [g \in Files |-> "none"]
      BY <2>2 DEF StartSync
    <3> QED
      BY <2>1, <3>1
  <2>3. f = cur /\ \E m \in replies : TakeStat(m) /\ UpToDate(m)
    BY <2>1, <2>2, ResStep DEF SyncInv
  <2> QED
    BY <2>1, <2>3, UpToDateSays DEF SyncInv
<1> QED
  BY <1>1, SyncInvariant, PTL DEF Spec, SkipIsSafe
=============================================================================
