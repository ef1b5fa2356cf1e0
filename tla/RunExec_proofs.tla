---------------------------- MODULE RunExec_proofs -----------------------------
(***************************************************************************)
(* Proofs about the middle of handleExec: the docker adapter, for every      *)
(* number of containers, names and requests, whatever the containers do      *)
(* between its calls to docker; and the bytes of a program, for every number *)
(* of chunks and every capacity of the channel and the pipes.                *)
(***************************************************************************)
EXTENDS RunExec, Sequences, FiniteSetTheorems, TLAPS

-----------------------------------------------------------------------------
(* Where a program runs (Docker) *)


Box == [at : {"absent", "running", "stopped", "removed"}, name : Names \cup {NoName},
        serves : Services \cup {NoName}, pid : Pids \cup {NoPid}]
Phases == {"idle", "inspect", "lookup", "mode", "pid", "info", "exec", "done"}
Ways == {"none", "ran", "failed", "no runtime", "permission", "unreachable", "cancelled"}
Call == [at : Phases, target : Names \cup {NoName}, pid : Pids \cup {NoPid}, end : Ways, in : Boxes \cup {NoBox}]

\* A container has a name from when it was made, that no other one has while it is
\* there, and a process id that is known to be used exactly while it runs.
BoxInv ==
    /\ host \in Hosts /\ box \in [Boxes -> Box]
    /\ \A b \in Boxes : /\ box[b].at = "absent" <=> box[b].name = NoName
                        /\ box[b].at = "running" <=> box[b].pid # NoPid
                        /\ box[b].pid \in used \cup {NoPid}
    /\ \A b, o \in Boxes : box[b].pid = box[o].pid /\ box[b].pid # NoPid => b = o
    /\ \A n \in Names : \A b, o \in Bearing(n) : b = o
    /\ used \subseteq Pids /\ {cancelled, calm, named} \subseteq SUBSET Calls
    /\ offered \in [Calls -> SUBSET Names]

\* The names that a request may end up with.
Fits(q, n) == n = Want[q] \/ n \in offered[q]

\* The target fits the request, whose containers that run are on offer; a process id
\* in hand is one that was used.
Aims(q, c) ==
    /\ c.at = "idle" <=> c.target = NoName
    /\ c.end = "ran" <=> c.in # NoBox
    /\ c.end # "none" <=> c.at = "done"
    /\ c.at # "idle" => Fits(q, c.target)
    /\ c.at \notin {"idle", "done"} => \A b \in Serving(Want[q]) : box[b].name \in offered[q]
    /\ c.pid \in used \cup {NoPid} /\ (c.pid # NoPid => c.at \in {"exec", "done"})

\* Whoever has the process id in hand bears the name of the target.
Held(q, c) ==
    /\ c.at = "exec" /\ c.pid # NoPid => \A b \in Boxes : box[b].pid = c.pid => box[b].name = c.target
    /\ c.end = "ran" => box[c.in].name = c.target

\* While a container of the name asked for is there, it is the target.
First(q, c) == q \in named =>
    /\ c.at # "idle" /\ c.target = Want[q]
    /\ c.at # "done" => Bearing(Want[q]) # {}
    /\ c.at = "lookup" => TRUE \notin Replies

\* Without the right to the socket only one end is reached.
Refused(q, c) == host.docker /\ ~host.allowed =>
    (c.at = "done" => c.end = "permission") /\ c.at # "exec" /\ c.pid = NoPid

CallInv(q, c) ==
    /\ Aims(q, c) /\ Refused(q, c)
    /\ ~Reuse => Held(q, c)
    /\ ~Faults => First(q, c)

DockerInv == BoxInv /\ call \in [Calls -> Call] /\ \A q \in Calls : CallInv(q, call[q])

-----------------------------------------------------------------------------
LEMMA Constants ==
    /\ \A n \in Names : n # NoName
    /\ Services \subseteq Names
    /\ \A q \in Calls : Want[q] \in Names
    /\ NoBox \notin Boxes /\ NoPid \notin Pids
BY DockerAssumption DEF NoPid

LEMMA InitInv == Init => DockerInv
<1> SUFFICES ASSUME Init PROVE DockerInv
  OBVIOUS
<1>1. BoxInv
  BY Constants DEF Init, BoxInv, Box, NoPid, Bearing
<1>2. call \in [Calls -> Call]
  BY Constants DEF Init, Call, Phases, Ways, NoPid
<1>3. \A q \in Calls : CallInv(q, call[q])
  BY Constants DEF Init, CallInv, Aims, Refused, Held, First, NoPid
<1> QED
  BY <1>1, <1>2, <1>3 DEF DockerInv

\* A container changes: it keeps its name, which nobody else has, and a new process
\* id is nobody else's.
LEMMA ChangeInv ==
    ASSUME DockerInv, NEW b \in Boxes, NEW d \in Box, Change(b, d), d.at # "absent",
           d.name \in Names, box[b].name \in {NoName, d.name}, Bearing(d.name) \subseteq {b},
           d.at = "running" <=> d.pid # NoPid, d.pid # NoPid => FreePid(d.pid)
    PROVE  DockerInv'
<1>1. /\ box' = [box EXCEPT ![b] = d]
      /\ used' = used \cup ({d.pid} \ {NoPid}) /\ calm' = {}
      /\ named' \subseteq named /\ UNCHANGED <<host, call, cancelled>>
      /\ \A q \in named' : Active(q) => Bearing(Want[q])' # {}
      /\ offered' = [q \in Calls |-> IF Active(q) /\ d.at = "running" /\ d.serves = Want[q]
                                    THEN offered[q] \cup {d.name} ELSE offered[q]]
  BY DEF Change
<1>2. /\ box'[b] = d /\ box' \in [Boxes -> Box]
      /\ \A o \in Boxes : o # b => box'[o] = box[o]
  BY <1>1 DEF DockerInv, BoxInv
<1>3. d.pid # NoPid => \A o \in Boxes : box[o].pid # d.pid
  BY DEF FreePid, DockerInv, BoxInv
<1>4. BoxInv'
  <2>1. host' \in Hosts /\ used' \subseteq Pids /\ {cancelled, calm, named}' \subseteq SUBSET Calls
    BY <1>1, Constants DEF DockerInv, BoxInv, Box
  <2>2. offered' \in [Calls -> SUBSET Names] /\ \A q \in Calls : offered[q] \subseteq offered'[q]
    BY <1>1 DEF DockerInv, BoxInv
  <2>3. \A o \in Boxes : /\ box'[o].at = "absent" <=> box'[o].name = NoName
                         /\ box'[o].at = "running" <=> box'[o].pid # NoPid
                         /\ box'[o].pid \in used' \cup {NoPid}
    BY <1>1, <1>2, Constants DEF DockerInv, BoxInv
  <2>4. \A o, e \in Boxes : box'[o].pid = box'[e].pid /\ box'[o].pid # NoPid => o = e
    BY <1>2, <1>3 DEF DockerInv, BoxInv
  <2>5. ASSUME NEW n \in Names, NEW o \in Bearing(n)', NEW e \in Bearing(n)' PROVE o = e
    <3>1. /\ o \in Boxes /\ (o # b => o \in Bearing(n))
          /\ e \in Boxes /\ (e # b => e \in Bearing(n))
          /\ o = b \/ e = b => n = d.name
      BY <1>2 DEF Bearing
    <3>2. CASE o = b \/ e = b
      BY <3>1, <3>2
    <3>3. CASE o # b /\ e # b
      BY <3>1, <3>3 DEF DockerInv, BoxInv
    <3> QED
      BY <3>2, <3>3
  <2> QED
    BY <1>2, <2>1, <2>2, <2>3, <2>4, <2>5 DEF BoxInv
<1>5. ASSUME NEW q \in Calls PROVE CallInv(q, call[q])'
  <2> DEFINE c == call[q]
  <2>1. CallInv(q, c) /\ c \in Call /\ call'[q] = c
    BY <1>1 DEF DockerInv
  <2>2. Aims(q, c)' /\ Refused(q, c)'
    <3>1. offered[q] \subseteq offered'[q]
      BY <1>1 DEF DockerInv, BoxInv
    <3>2. ASSUME c.at \notin {"idle", "done"}, NEW o \in Serving(Want[q])' PROVE box'[o].name \in offered'[q]
      <4>1. o \in Boxes /\ box'[o].at = "running" /\ box'[o].serves = Want[q]
        BY DEF Serving
      <4>2. CASE o = b
        BY <1>1, <1>2, <3>2, <4>1, <4>2 DEF Active
      <4>3. CASE o # b
        BY <1>2, <2>1, <3>1, <3>2, <4>1, <4>3 DEF CallInv, Aims, Serving
      <4> QED
        BY <4>2, <4>3
    <3> QED
      BY <1>1, <2>1, <3>1, <3>2 DEF CallInv, Aims, Refused, Fits
  <2>3. ASSUME ~Reuse PROVE Held(q, c)'
    <3>1. d.pid # NoPid => d.pid # c.pid
      BY <2>1, <2>3 DEF FreePid, CallInv, Aims
    <3>2. c.end = "ran" => c.in \in Boxes /\ c.target \in Names
      BY <2>1, Constants DEF CallInv, Aims, Call
    <3>3. Held(q, c)
      BY <2>1, <2>3 DEF CallInv
    <3>4. ASSUME c.at = "exec", c.pid # NoPid, NEW o \in Boxes, box'[o].pid = c.pid PROVE box'[o].name = c.target
      BY <1>2, <3>1, <3>3, <3>4 DEF Held
    <3>5. c.end = "ran" => box'[c.in].name = c.target
      BY <1>2, <3>2, <3>3, Constants DEF Held
    <3> QED
      BY <1>1, <3>4, <3>5 DEF Held
  <2>4. ASSUME ~Faults PROVE First(q, c)'
    BY <1>1, <2>1, <2>4 DEF CallInv, First, Active, Replies
  <2> QED
    BY <2>1, <2>2, <2>3, <2>4 DEF CallInv
<1> QED
  BY <1>1, <1>4, <1>5 DEF DockerInv

LEMMA BoxesInv ==
    ASSUME DockerInv, NEW b \in Boxes,
           \/ Stop(b) \/ Remove(b)
           \/ \E p \in Pids : Restart(b, p) \/ \E n \in Names, s \in Services \cup {NoName} : Create(b, n, s, p)
    PROVE  DockerInv'
<1>1. /\ box[b] \in Box
      /\ box[b].at # "absent" => box[b].name \in Names
      /\ box[b].at \in {"running", "stopped"} => Bearing(box[b].name) \subseteq {b}
  BY DEF DockerInv, BoxInv, Box, Bearing
<1>2. CASE Stop(b)
  <2> DEFINE d == [box[b] EXCEPT !.at = "stopped", !.pid = NoPid]
  <2>1. d \in Box /\ d.at = "stopped" /\ d.name = box[b].name /\ d.pid = NoPid
    BY <1>1 DEF Box
  <2>2. Change(b, d) /\ box[b].at = "running"
    BY <1>2 DEF Stop
  <2> HIDE DEF d
  <2> QED
    BY <1>1, <2>1, <2>2, ChangeInv
<1>3. CASE Remove(b)
  <2> DEFINE d == [box[b] EXCEPT !.at = "removed"]
  <2>1. d \in Box /\ d.at = "removed" /\ d.name = box[b].name /\ d.pid = box[b].pid
    BY <1>1 DEF Box
  <2>2. Change(b, d) /\ box[b].at = "stopped"
    BY <1>3 DEF Remove
  <2>3. box[b].pid = NoPid
    BY <2>2 DEF DockerInv, BoxInv
  <2> HIDE DEF d
  <2> QED
    BY <1>1, <2>1, <2>2, <2>3, ChangeInv
<1>4. ASSUME NEW p \in Pids, Restart(b, p) PROVE DockerInv'
  <2> DEFINE d == [box[b] EXCEPT !.at = "running", !.pid = p]
  <2>1. d \in Box /\ d.at = "running" /\ d.name = box[b].name /\ d.pid = p
    BY <1>1 DEF Box
  <2>2. Change(b, d) /\ box[b].at = "stopped" /\ FreePid(p) /\ p # NoPid
    BY <1>4, Constants DEF Restart
  <2> HIDE DEF d
  <2> QED
    BY <1>1, <2>1, <2>2, ChangeInv
<1>5. ASSUME NEW p \in Pids, NEW n \in Names, NEW s \in Services \cup {NoName}, Create(b, n, s, p) PROVE DockerInv'
  <2> DEFINE d == [at |-> "running", name |-> n, serves |-> s, pid |-> p]
  <2>1. d \in Box /\ d.at = "running" /\ d.name = n /\ d.pid = p
    BY DEF Box
  <2>2. Change(b, d) /\ box[b].name = NoName /\ FreePid(p) /\ p # NoPid /\ Bearing(n) = {}
    BY <1>5, Constants DEF Create, DockerInv, BoxInv
  <2> HIDE DEF d
  <2> QED
    BY <2>1, <2>2, ChangeInv
<1> QED
  BY <1>2, <1>3, <1>4, <1>5

\* One request moves on, in a world that stays as it is.
LEMMA CallStep ==
    ASSUME DockerInv, UNCHANGED <<host, world, cancelled>>, NEW q \in Calls,
           NEW c \in Call, call' = [call EXCEPT ![q] = c], CallInv(q, c)
    PROVE  DockerInv'
<1>1. call' \in [Calls -> Call] /\ call'[q] = c /\ \A p \in Calls : p # q => call'[p] = call[p]
  BY DEF DockerInv
<1>2. BoxInv'
  BY DEF DockerInv, BoxInv, Bearing, world
<1>3. \A p \in Calls : CallInv(p, call'[p])
  BY <1>1 DEF DockerInv
<1>4. ASSUME NEW p \in Calls PROVE CallInv(p, call[p])'
  <2>1. CallInv(p, call'[p])
    BY <1>3
  <2>2. Aims(p, call'[p]) => Aims(p, call[p])'
    BY DEF Aims, Fits, Serving, world
  <2>3. Refused(p, call'[p]) => Refused(p, call[p])'
    BY DEF Refused, world
  <2>4. Held(p, call'[p]) => Held(p, call[p])'
    BY DEF Held, world
  <2>5. First(p, call'[p]) => First(p, call[p])'
    BY DEF First, Bearing, Replies, world
  <2> QED
    BY <2>1, <2>2, <2>3, <2>4, <2>5 DEF CallInv
<1> QED
  BY <1>1, <1>2, <1>4 DEF DockerInv

\* The steps that only lead to another one.
LEMMA GotoInv ==
    ASSUME DockerInv, NEW q \in Calls, Active(q), call[q].at # "exec", call[q].pid = NoPid,
           NEW at \in {"lookup", "mode", "pid", "info", "exec"}, Goto(q, at),
           at = "lookup" /\ ~Faults => q \notin named \/ TRUE \notin Replies,
           at = "exec" => ~host.docker \/ host.allowed
    PROVE  DockerInv'
<1> DEFINE c == [call[q] EXCEPT !.at = at]
<1>1. /\ call[q] \in Call /\ CallInv(q, call[q]) /\ call[q].at \notin {"idle", "done"}
      /\ call' = [call EXCEPT ![q] = c] /\ UNCHANGED <<host, world, cancelled>>
  BY DEF DockerInv, Goto, Active
<1>2. /\ c \in Call /\ c.at = at /\ c.target = call[q].target /\ c.pid = NoPid
      /\ c.end = call[q].end /\ c.in = call[q].in
  BY <1>1 DEF Call, Phases
<1> HIDE DEF c
<1>3. Aims(q, c) /\ Refused(q, c)
  BY <1>1, <1>2 DEF CallInv, Aims, Refused
<1>4. (~Reuse => Held(q, c)) /\ (~Faults => First(q, c))
  BY <1>1, <1>2 DEF CallInv, Aims, Held, First
<1> QED
  BY <1>1, <1>2, <1>3, <1>4, CallStep DEF CallInv

\* The steps that end a request without a container.
LEMMA EndsInv ==
    ASSUME DockerInv, NEW q \in Calls, Active(q), NEW end \in Ways \ {"none", "ran"}, Ends(q, end, NoBox),
           host.docker /\ ~host.allowed => end = "permission"
    PROVE  DockerInv'
<1> DEFINE c == [call[q] EXCEPT !.at = "done", !.end = end, !.in = NoBox]
<1>1. /\ call[q] \in Call /\ CallInv(q, call[q]) /\ call[q].at \notin {"idle", "done"}
      /\ call' = [call EXCEPT ![q] = c] /\ UNCHANGED <<host, world, cancelled>>
  BY DEF DockerInv, Ends, Active
<1>2. /\ c \in Call /\ c.at = "done" /\ c.target = call[q].target /\ c.pid = call[q].pid
      /\ c.end = end /\ c.in = NoBox
  BY <1>1 DEF Call, Phases
<1> HIDE DEF c
<1>3. Aims(q, c) /\ Refused(q, c)
  BY <1>1, <1>2 DEF CallInv, Aims, Refused
<1>4. (~Reuse => Held(q, c)) /\ (~Faults => First(q, c))
  BY <1>1, <1>2 DEF CallInv, Aims, Held, First
<1> QED
  BY <1>1, <1>2, <1>3, <1>4, CallStep DEF CallInv

LEMMA BeginInv == ASSUME DockerInv, NEW q \in Calls, Begin(q) \/ Cancel(q) PROVE DockerInv'
<1>1. CASE Cancel(q)
  <2>1. BoxInv'
    BY <1>1 DEF Cancel, DockerInv, BoxInv, Bearing, world
  <2>2. \A p \in Calls : CallInv(p, call[p])'
    BY <1>1, ZenonT(60) DEF Cancel, DockerInv, CallInv, Aims, Fits, Serving, Refused, Held, First, Bearing, Replies, world
  <2> QED
    BY <1>1, <2>1, <2>2 DEF Cancel, DockerInv
<1>2. CASE Begin(q)
  <2>1. /\ UNCHANGED <<host, box, used, cancelled>> /\ call[q].at = "idle"
        /\ call' = [call EXCEPT ![q].at = "inspect", ![q].target = Want[q]]
        /\ calm' = calm \cup {q}
        /\ \A p \in named' : p \in named \/ (p = q /\ Bearing(Want[q]) # {})
        /\ named' \subseteq named \cup {q}
        /\ offered' = [offered EXCEPT ![q] = {box[b].name : b \in Serving(Want[q])}]
    BY <1>2 DEF Begin
  <2>2. BoxInv'
    <3>1. {box[b].name : b \in Serving(Want[q])} \subseteq Names
      BY DEF DockerInv, BoxInv, Box, Serving
    <3>2. offered' \in [Calls -> SUBSET Names] /\ \A n : Bearing(n)' = Bearing(n)
      BY <2>1, <3>1 DEF DockerInv, BoxInv, Bearing
    <3>3. host' \in Hosts /\ used' \subseteq Pids /\ {cancelled, calm, named}' \subseteq SUBSET Calls
      BY <2>1 DEF DockerInv, BoxInv
    <3> QED
      BY <2>1, <3>2, <3>3 DEF DockerInv, BoxInv
  <2>3. /\ call' \in [Calls -> Call] /\ \A p \in Calls : p # q => call'[p] = call[p]
        /\ call'[q].at = "inspect" /\ call'[q].target = Want[q] /\ call'[q].pid = call[q].pid
        /\ call'[q].end = call[q].end /\ call'[q].in = call[q].in
    BY <2>1, Constants DEF DockerInv, Call, Phases
  <2>4. ASSUME NEW p \in Calls PROVE CallInv(p, call[p])'
    <3>1. CallInv(p, call[p])
      BY DEF DockerInv
    <3>2. Aims(p, call[p])' /\ Refused(p, call[p])' /\ (~Reuse => Held(p, call[p])')
      <4>1. p # q => offered'[p] = offered[p]
        BY <2>1 DEF DockerInv, BoxInv
      <4>2. offered'[q] = {box[b].name : b \in Serving(Want[q])}
        BY <2>1 DEF DockerInv, BoxInv
      <4>3. \A n : Serving(n)' = Serving(n)
        BY <2>1 DEF Serving
      <4> QED
        BY <2>1, <2>3, <3>1, <4>1, <4>2, <4>3, Constants DEF CallInv, Aims, Refused, Held, Fits
    <3>3. ASSUME ~Faults PROVE First(p, call[p])'
      <4>1. CASE p = q
        <5>1. q \notin named
          BY <2>1, <3>1, <3>3, <4>1 DEF CallInv, First
        <5>2. q \in named' => Bearing(Want[q])' # {}
          BY <2>1, <5>1 DEF Bearing
        <5> QED
          BY <2>3, <4>1, <5>2 DEF First
      <4>2. CASE p # q
        BY <2>1, <2>3, <3>1, <3>3, <4>2 DEF CallInv, First, Bearing, Replies
      <4> QED
        BY <4>1, <4>2
    <3> QED
      BY <3>2, <3>3 DEF CallInv
  <2> QED
    BY <2>2, <2>3, <2>4 DEF DockerInv
<1> QED
  BY <1>1, <1>2

\* No process id is in hand before the last step.
LEMMA NoPidYet == DockerInv => \A q \in Calls : call[q].at \notin {"exec", "done"} => call[q].pid = NoPid
BY DEF DockerInv, CallInv, Aims

LEMMA InspectNameInv == ASSUME DockerInv, NEW q \in Calls, InspectName(q) PROVE DockerInv'
<1>1. call[q].at = "inspect" /\ call[q].pid = NoPid /\ Active(q)
  BY NoPidYet DEF InspectName, Active
<1>2. PICK answered \in Replies :
        Goto(q, IF answered /\ (Bearing(Want[q]) # {} \/ Want[q] \in Objects) THEN "mode" ELSE "lookup")
  BY DEF InspectName
<1>3. CASE Goto(q, "mode")
  BY <1>1, <1>3, GotoInv
<1>4. CASE Goto(q, "lookup") /\ ~(answered /\ Bearing(Want[q]) # {})
  <2>1. ASSUME q \in named, ~Faults PROVE TRUE \notin Replies
    <3>1. Bearing(Want[q]) # {}
      BY <1>1, <2>1 DEF DockerInv, CallInv, First
    <3> QED
      BY <1>2, <1>4, <2>1, <3>1 DEF Replies
  <2> QED
    BY <1>1, <1>4, <2>1, GotoInv
<1> QED
  BY <1>2, <1>3, <1>4

LEMMA FindServiceInv == ASSUME DockerInv, NEW q \in Calls, FindService(q) PROVE DockerInv'
<1>1. call[q].at = "lookup" /\ call[q].pid = NoPid /\ Active(q)
  BY NoPidYet DEF FindService, Active
<1>2. CASE Goto(q, "mode")
  BY <1>1, <1>2, GotoInv
<1>3. ASSUME TRUE \in Replies, NEW b \in Serving(Want[q]), GotoFor(q, "mode", box[b].name) PROVE DockerInv'
  <2> DEFINE c == [call[q] EXCEPT !.at = "mode", !.target = box[b].name]
  <2>1. /\ call[q] \in Call /\ CallInv(q, call[q]) /\ call' = [call EXCEPT ![q] = c]
        /\ UNCHANGED <<host, world, cancelled>>
    BY <1>3 DEF DockerInv, GotoFor
  <2>2. b \in Boxes /\ box[b].name \in Names /\ box[b].name \in offered[q]
    <3>1. b \in Boxes /\ box[b].name \in offered[q]
      BY <1>1, <1>3, <2>1 DEF Serving, CallInv, Aims
    <3>2. offered[q] \subseteq Names
      BY DEF DockerInv, BoxInv
    <3> QED
      BY <3>1, <3>2
  <2>3. /\ c \in Call /\ c.at = "mode" /\ c.target = box[b].name /\ c.pid = NoPid
        /\ c.end = call[q].end /\ c.in = call[q].in
    BY <1>1, <2>1, <2>2 DEF Call, Phases
  <2> HIDE DEF c
  <2>4. Aims(q, c) /\ Refused(q, c) /\ (~Reuse => Held(q, c))
    BY <1>1, <2>1, <2>2, <2>3, Constants DEF CallInv, Aims, Refused, Held, Fits
  <2>5. ~Faults => First(q, c)
    BY <1>1, <1>3, <2>1 DEF CallInv, First
  <2> QED
    BY <2>1, <2>3, <2>4, <2>5, CallStep DEF CallInv
<1>4. \/ Goto(q, "mode")
      \/ TRUE \in Replies /\ \E b \in Serving(Want[q]) : GotoFor(q, "mode", box[b].name)
  BY DEF FindService, Replies
<1> QED
  BY <1>2, <1>3, <1>4

LEMMA ChooseModeInv == ASSUME DockerInv, NEW q \in Calls, ChooseMode(q) PROVE DockerInv'
<1>1. call[q].at = "mode" /\ call[q].pid = NoPid /\ Active(q)
  BY NoPidYet DEF ChooseMode, Active
<1>2. CASE ~host.docker
  BY <1>1, <1>2, EndsInv DEF ChooseMode, Ways
<1>3. CASE host.docker
  <2>1. Goto(q, "pid") \/ Goto(q, "info")
    BY <1>3 DEF ChooseMode
  <2> QED
    BY <1>1, <2>1, GotoInv
<1> QED
  BY <1>2, <1>3

LEMMA InspectPidInv == ASSUME DockerInv, NEW q \in Calls, InspectPid(q) PROVE DockerInv'
<1>1. call[q].at = "pid" /\ call[q].pid = NoPid /\ Active(q)
  BY NoPidYet DEF InspectPid, Active
<1>2. CASE Goto(q, "info")
  BY <1>1, <1>2, GotoInv
<1>3. ASSUME TRUE \in Replies, NEW b \in Running(call[q].target),
             call' = [call EXCEPT ![q].at = "exec", ![q].pid = box[b].pid], UNCHANGED <<host, world, cancelled>>
      PROVE  DockerInv'
  <2> DEFINE c == [call[q] EXCEPT !.at = "exec", !.pid = box[b].pid]
  <2>1. call[q] \in Call /\ CallInv(q, call[q]) /\ call' = [call EXCEPT ![q] = c]
    BY <1>3 DEF DockerInv
  <2>2. /\ b \in Boxes /\ box[b].pid \in Pids /\ box[b].pid \in used /\ box[b].name = call[q].target
        /\ \A o \in Boxes : box[o].pid = box[b].pid => o = b
    BY <1>3 DEF Running, Bearing, DockerInv, BoxInv, Box
  <2>3. /\ c \in Call /\ c.at = "exec" /\ c.target = call[q].target /\ c.pid = box[b].pid
        /\ c.end = call[q].end /\ c.in = call[q].in
    BY <2>1, <2>2 DEF Call, Phases
  <2> HIDE DEF c
  <2>4. Aims(q, c)
    BY <1>1, <2>1, <2>2, <2>3, Constants DEF CallInv, Aims
  <2>5. Refused(q, c)
    BY <1>3 DEF Refused, Replies
  <2>6. ~Reuse => Held(q, c)
    BY <1>1, <2>1, <2>2, <2>3 DEF CallInv, Aims, Held
  <2>7. ~Faults => First(q, c)
    BY <1>1, <2>1, <2>3 DEF CallInv, First
  <2> QED
    BY <1>3, <2>1, <2>3, <2>4, <2>5, <2>6, <2>7, CallStep DEF CallInv
<1>4. \/ Goto(q, "info")
      \/ /\ TRUE \in Replies /\ UNCHANGED <<host, world, cancelled>>
         /\ \E b \in Running(call[q].target) : call' = [call EXCEPT ![q].at = "exec", ![q].pid = box[b].pid]
  BY DEF InspectPid, Replies
<1> QED
  BY <1>2, <1>3, <1>4

LEMMA CheckAccessInv == ASSUME DockerInv, NEW q \in Calls, CheckAccess(q) PROVE DockerInv'
<1>1. call[q].at = "info" /\ call[q].pid = NoPid /\ Active(q)
  BY NoPidYet DEF CheckAccess, Active
<1>2. PICK answered \in Replies :
        IF answered THEN Goto(q, "exec")
        ELSE \E end \in {"permission"} \cup (IF host.allowed THEN {"unreachable"} ELSE {}) : Ends(q, end, NoBox)
  BY DEF CheckAccess
<1>3. CASE answered
  BY <1>1, <1>2, <1>3, GotoInv DEF Replies
<1>4. CASE ~answered
  BY <1>1, <1>2, <1>4, EndsInv DEF Ways
<1> QED
  BY <1>3, <1>4

LEMMA ExecuteInv == ASSUME DockerInv, NEW q \in Calls, Execute(q) PROVE DockerInv'
<1>1. call[q].at = "exec" /\ Active(q) /\ call[q] \in Call /\ CallInv(q, call[q])
  BY DEF Execute, Active, DockerInv
<1>2. ~host.docker \/ host.allowed
  BY <1>1 DEF CallInv, Refused
<1>3. CASE Ends(q, "cancelled", NoBox) \/ Ends(q, "failed", NoBox)
  BY <1>1, <1>2, <1>3, EndsInv DEF Ways
<1>4. ASSUME NEW b \in Boxes, Ends(q, "ran", b),
             \/ call[q].pid = NoPid /\ b \in Running(call[q].target)
             \/ call[q].pid # NoPid /\ box[b].pid = call[q].pid
      PROVE  DockerInv'
  <2> DEFINE c == [call[q] EXCEPT !.at = "done", !.end = "ran", !.in = b]
  <2>1. call' = [call EXCEPT ![q] = c] /\ UNCHANGED <<host, world, cancelled>>
    BY <1>4 DEF Ends
  <2>2. /\ c \in Call /\ c.at = "done" /\ c.target = call[q].target /\ c.pid = call[q].pid
        /\ c.end = "ran" /\ c.in = b
    BY <1>1 DEF Call, Phases, Ways
  <2> HIDE DEF c
  <2>3. Aims(q, c) /\ Refused(q, c)
    BY <1>1, <1>2, <2>2, Constants DEF CallInv, Aims, Refused
  <2>4. ~Reuse => Held(q, c)
    BY <1>1, <1>4, <2>2 DEF CallInv, Held, Running, Bearing
  <2>5. ~Faults => First(q, c)
    BY <1>1, <2>2 DEF CallInv, First
  <2> QED
    BY <2>1, <2>2, <2>3, <2>4, <2>5, CallStep DEF CallInv
<1>5. \/ Ends(q, "cancelled", NoBox) \/ Ends(q, "failed", NoBox)
      \/ \E b \in Boxes : /\ Ends(q, "ran", b)
                          /\ \/ call[q].pid = NoPid /\ b \in Running(call[q].target)
                             \/ call[q].pid # NoPid /\ box[b].pid = call[q].pid
  BY DEF Execute, Running, Bearing
<1> QED
  BY <1>3, <1>4, <1>5

LEMMA NextInv == DockerInv /\ [Next]_vars => DockerInv'
<1> SUFFICES ASSUME DockerInv, [Next]_vars PROVE DockerInv'
  OBVIOUS
<1>1. CASE UNCHANGED vars
  <2>1. BoxInv' /\ call' \in [Calls -> Call]
    BY <1>1 DEF vars, world, DockerInv, BoxInv, Bearing
  <2>2. \A p \in Calls : CallInv(p, call[p])'
    BY <1>1 DEF vars, world, DockerInv, CallInv, Aims, Fits, Serving, Refused, Held, First, Bearing, Replies
  <2> QED
    BY <2>1, <2>2 DEF DockerInv
<1>2. ASSUME NEW q \in Calls, Begin(q) \/ Cancel(q) \/ AskDocker(q) \/ Advance(q) PROVE DockerInv'
  BY <1>2, BeginInv, InspectNameInv, FindServiceInv, InspectPidInv, CheckAccessInv, ChooseModeInv, ExecuteInv
     DEF AskDocker, Advance
<1>3. ASSUME NEW b \in Boxes,
             \/ Stop(b) \/ Remove(b)
             \/ \E p \in Pids : Restart(b, p) \/ \E n \in Names, s \in Services \cup {NoName} : Create(b, n, s, p)
      PROVE  DockerInv'
  BY <1>3, BoxesInv
<1> QED
  BY <1>1, <1>2, <1>3 DEF Next

\* The invariant holds of every run.
THEOREM DockerInvariant == Spec => []DockerInv
BY InitInv, NextInv, PTL DEF Spec

\* TypeOK for every number of containers and requests.
THEOREM DockerTypes == Spec => []TypeOK
<1>1. DockerInv => TypeOK
  BY DEF DockerInv, BoxInv, CallInv, Aims, TypeOK, Box, Call, Phases, Ways
<1> QED
  BY <1>1, DockerInvariant, PTL

\* RunsWhereNamed for every number of containers and requests, whatever containers
\* of whatever services are made, stopped and removed between the calls of
\* BuildArgv, if a process id is not given again meanwhile: the target is the name
\* asked for or the one of a container of the service that docker ps has seen run,
\* docker exec looks for that name a second time, and nsenter has the process of a
\* container of that name or none.
THEOREM RunsAsNamed ==
    ASSUME ~Reuse
    PROVE  Spec => []RunsWhereNamed
<1>1. DockerInv => RunsWhereNamed
  BY DEF DockerInv, CallInv, Aims, Held, Fits, RunsWhereNamed
<1> QED
  BY <1>1, DockerInvariant, PTL

\* NameGoesFirst under the same assumption, if docker commands do not fail without
\* reason (resolveContainerName takes a failing docker inspect for a name that is
\* not there).
THEOREM NamesBeforeServices ==
    ASSUME ~Reuse, ~Faults
    PROVE  Spec => []NameGoesFirst
<1>1. DockerInv => NameGoesFirst
  BY DEF DockerInv, CallInv, Aims, Held, First, NameGoesFirst
<1> QED
  BY <1>1, DockerInvariant, PTL

\* PermissionIsSaid: whichever of the docker commands fails first, a user without
\* the right to the socket is told so (BuildArgv ends with checkDockerAccess).
THEOREM PermissionSaid == Spec => []PermissionIsSaid
<1>1. DockerInv => PermissionIsSaid
  BY DEF DockerInv, CallInv, Refused, PermissionIsSaid
<1> QED
  BY <1>1, DockerInvariant, PTL


-----------------------------------------------------------------------------
\* A service is looked for while nothing changes: it has a running container, and
\* there is no container of its name.
Sought(q) == ~Faults /\ q \in calm /\ host.docker /\ host.allowed /\ Bearing(Want[q]) = {} /\ Serving(Want[q]) # {}

\* The target is a running container of the service, and so is who has the process
\* id in hand; unless it was cancelled, that is where the command has run.
Served(q, c) == Sought(q) =>
    /\ c.at # "idle"
    /\ c.at \in {"mode", "pid", "info", "exec"} =>
         Running(c.target) # {} /\ \A b \in Running(c.target) : box[b].serves = Want[q]
    /\ c.at = "exec" /\ c.pid # NoPid =>
         host.mode = "nsenter" /\ \E b \in Running(c.target) : box[b].pid = c.pid
    /\ c.at = "pid" => host.mode = "nsenter"
    /\ c.at = "done" /\ q \notin cancelled /\ (host.mode = "docker" \/ host.root) =>
         c.end = "ran" /\ box[c.in].serves = Want[q]

ServedInv == \A q \in Calls : Served(q, call[q])

\* One request moves on, in a world that stays as it is.
LEMMA ServedStep ==
    ASSUME DockerInv, ServedInv, UNCHANGED <<host, world, cancelled>>, NEW q \in Calls,
           NEW c, call' = [call EXCEPT ![q] = c], Served(q, c)
    PROVE  ServedInv'
<1>1. call'[q] = c /\ \A p \in Calls : p # q => call'[p] = call[p]
  BY DEF DockerInv
<1>2. ASSUME NEW p \in Calls PROVE Served(p, call[p])'
  <2>1. Served(p, call'[p])
    BY <1>1 DEF ServedInv
  <2>2. UNCHANGED <<host, box, calm, cancelled>>
    BY DEF world
  <2> QED
    BY <2>1, <2>2 DEF Served, Sought, Bearing, Serving, Running
<1> QED
  BY <1>2 DEF ServedInv

\* A container that changes leaves no request calm.
LEMMA ServedChange ==
    ASSUME NEW b \in Boxes, \/ Stop(b) \/ Remove(b)
                            \/ \E p \in Pids : Restart(b, p) \/ \E n \in Names, s \in Services \cup {NoName} : Create(b, n, s, p)
    PROVE  ServedInv'
<1>1. calm' = {}
  BY DEF Stop, Remove, Restart, Create, Change
<1> QED
  BY <1>1 DEF ServedInv, Served, Sought

LEMMA ServedBegin == ASSUME DockerInv, ServedInv, NEW q \in Calls, Begin(q) \/ Cancel(q) PROVE ServedInv'
<1>1. CASE Cancel(q)
  BY <1>1 DEF Cancel, ServedInv, Served, Sought, Bearing, Serving, Running, world
<1>2. CASE Begin(q)
  <2>1. /\ UNCHANGED <<host, box, cancelled>> /\ call'[q].at = "inspect"
        /\ \A p \in Calls : p # q => call'[p] = call[p] /\ (p \in calm' => p \in calm)
    BY <1>2 DEF Begin, DockerInv, Call, Phases
  <2> QED
    BY <2>1 DEF ServedInv, Served, Sought, Bearing, Serving, Running
<1> QED
  BY <1>1, <1>2

\* What each step of BuildArgv finds when nothing changes.
LEMMA ServedInspect ==
    ASSUME DockerInv, ServedInv, NEW q \in Calls, Want[q] \notin Objects, InspectName(q)
    PROVE  ServedInv'
<1>1. PICK at \in {"mode", "lookup"} : Goto(q, at) /\ (Sought(q) => at = "lookup")
  BY DEF InspectName, Replies, Sought
<1> DEFINE c == [call[q] EXCEPT !.at = at]
<1>2. call' = [call EXCEPT ![q] = c] /\ UNCHANGED <<host, world, cancelled>> /\ call[q] \in Call
  BY <1>1 DEF Goto, DockerInv
<1>3. c.at = at
  BY <1>2 DEF Call, Phases
<1> HIDE DEF c
<1>4. Served(q, c)
  BY <1>1, <1>3 DEF Served
<1> QED
  BY <1>2, <1>4, ServedStep

LEMMA ServedLookup == ASSUME DockerInv, ServedInv, NEW q \in Calls, FindService(q) PROVE ServedInv'
<1>1. call[q].at = "lookup" /\ call[q].pid = NoPid /\ call[q] \in Call
  BY NoPidYet DEF FindService, DockerInv
<1>2. CASE Goto(q, "mode") /\ ~Sought(q)
  <2> DEFINE c == [call[q] EXCEPT !.at = "mode"]
  <2>1. call' = [call EXCEPT ![q] = c] /\ UNCHANGED <<host, world, cancelled>>
    BY <1>2 DEF Goto
  <2>2. Served(q, c)
    BY <1>2 DEF Served
  <2> QED
    BY <2>1, <2>2, ServedStep
<1>3. ASSUME NEW b \in Serving(Want[q]), GotoFor(q, "mode", box[b].name) PROVE ServedInv'
  <2> DEFINE c == [call[q] EXCEPT !.at = "mode", !.target = box[b].name]
  <2>1. call' = [call EXCEPT ![q] = c] /\ UNCHANGED <<host, world, cancelled>>
    BY <1>3 DEF GotoFor
  <2>2. c.at = "mode" /\ c.target = box[b].name
    BY <1>1 DEF Call, Phases
  <2> HIDE DEF c
  <2>3. b \in Running(c.target) /\ \A o \in Running(c.target) : box[o].serves = Want[q]
    <3>1. b \in Boxes /\ box[b].at = "running" /\ box[b].serves = Want[q] /\ box[b].name \in Names
      BY <1>3 DEF Serving, DockerInv, BoxInv, Box
    <3>2. \A o \in Running(box[b].name) : o = b
      BY <3>1 DEF Running, Bearing, DockerInv, BoxInv
    <3> QED
      BY <2>2, <3>1, <3>2 DEF Running, Bearing
  <2>4. Served(q, c)
    BY <2>2, <2>3 DEF Served
  <2> QED
    BY <2>1, <2>4, ServedStep
<1>4. \/ Goto(q, "mode") /\ ~Sought(q)
      \/ \E b \in Serving(Want[q]) : GotoFor(q, "mode", box[b].name)
  BY DEF FindService, Replies, Sought
<1> QED
  BY <1>2, <1>3, <1>4

LEMMA ServedMode == ASSUME DockerInv, ServedInv, NEW q \in Calls, ChooseMode(q) PROVE ServedInv'
<1>1. call[q].at = "mode" /\ call[q].pid = NoPid /\ call[q] \in Call /\ Served(q, call[q])
  BY NoPidYet DEF ChooseMode, DockerInv, ServedInv
<1>2. CASE ~host.docker
  <2> DEFINE c == [call[q] EXCEPT !.at = "done", !.end = "no runtime", !.in = NoBox]
  <2>1. call' = [call EXCEPT ![q] = c] /\ UNCHANGED <<host, world, cancelled>>
    BY <1>2 DEF ChooseMode, Ends
  <2>2. Served(q, c)
    BY <1>2 DEF Served, Sought
  <2> QED
    BY <2>1, <2>2, ServedStep
<1>3. CASE host.docker
  <2>1. PICK at \in {"pid", "info"} : Goto(q, at) /\ (at = "pid" => host.mode = "nsenter")
    BY <1>3 DEF ChooseMode
  <2> DEFINE c == [call[q] EXCEPT !.at = at]
  <2>2. call' = [call EXCEPT ![q] = c] /\ UNCHANGED <<host, world, cancelled>>
    BY <2>1 DEF Goto
  <2>3. c.at = at /\ c.target = call[q].target /\ c.pid = call[q].pid
    BY <1>1 DEF Call, Phases
  <2> HIDE DEF c
  <2>4. Served(q, c)
    BY <1>1, <2>1, <2>3 DEF Served
  <2> QED
    BY <2>2, <2>4, ServedStep
<1> QED
  BY <1>2, <1>3

LEMMA ServedPid == ASSUME DockerInv, ServedInv, NEW q \in Calls, InspectPid(q) PROVE ServedInv'
<1>1. call[q].at = "pid" /\ call[q].pid = NoPid /\ call[q] \in Call /\ Served(q, call[q])
  BY NoPidYet DEF InspectPid, DockerInv, ServedInv
<1>2. CASE Goto(q, "info") /\ ~Sought(q)
  <2> DEFINE c == [call[q] EXCEPT !.at = "info"]
  <2>1. call' = [call EXCEPT ![q] = c] /\ UNCHANGED <<host, world, cancelled>>
    BY <1>2 DEF Goto
  <2>2. Served(q, c)
    BY <1>2 DEF Served
  <2> QED
    BY <2>1, <2>2, ServedStep
<1>3. ASSUME NEW b \in Running(call[q].target),
             call' = [call EXCEPT ![q].at = "exec", ![q].pid = box[b].pid], UNCHANGED <<host, world, cancelled>>
      PROVE  ServedInv'
  <2> DEFINE c == [call[q] EXCEPT !.at = "exec", !.pid = box[b].pid]
  <2>1. call' = [call EXCEPT ![q] = c]
    BY <1>3 DEF DockerInv
  <2>2. c.at = "exec" /\ c.target = call[q].target /\ c.pid = box[b].pid
    BY <1>1 DEF Call, Phases
  <2> HIDE DEF c
  <2>3. Served(q, c)
    BY <1>1, <1>3, <2>2 DEF Served
  <2> QED
    BY <1>3, <2>1, <2>3, ServedStep
<1>4. \/ Goto(q, "info") /\ ~Sought(q)
      \/ /\ UNCHANGED <<host, world, cancelled>>
         /\ \E b \in Running(call[q].target) : call' = [call EXCEPT ![q].at = "exec", ![q].pid = box[b].pid]
  BY <1>1 DEF InspectPid, Replies, Sought, Served
<1> QED
  BY <1>2, <1>3, <1>4

LEMMA ServedAccess == ASSUME DockerInv, ServedInv, NEW q \in Calls, CheckAccess(q) PROVE ServedInv'
<1>1. call[q].at = "info" /\ call[q].pid = NoPid /\ call[q] \in Call /\ Served(q, call[q])
  BY NoPidYet DEF CheckAccess, DockerInv, ServedInv
<1>2. CASE Goto(q, "exec")
  <2> DEFINE c == [call[q] EXCEPT !.at = "exec"]
  <2>1. call' = [call EXCEPT ![q] = c] /\ UNCHANGED <<host, world, cancelled>>
    BY <1>2 DEF Goto
  <2>2. c.at = "exec" /\ c.target = call[q].target /\ c.pid = NoPid
    BY <1>1 DEF Call, Phases
  <2> HIDE DEF c
  <2>3. Served(q, c)
    BY <1>1, <2>2 DEF Served
  <2> QED
    BY <2>1, <2>3, ServedStep
<1>3. ASSUME NEW end, Ends(q, end, NoBox), ~Sought(q) PROVE ServedInv'
  <2> DEFINE c == [call[q] EXCEPT !.at = "done", !.end = end, !.in = NoBox]
  <2>1. call' = [call EXCEPT ![q] = c] /\ UNCHANGED <<host, world, cancelled>>
    BY <1>3 DEF Ends
  <2>2. Served(q, c)
    BY <1>3 DEF Served
  <2> QED
    BY <2>1, <2>2, ServedStep
<1>4. Goto(q, "exec") \/ \E end \in Ways : Ends(q, end, NoBox) /\ ~Sought(q)
  BY DEF CheckAccess, Replies, Sought, Ways
<1> QED
  BY <1>2, <1>3, <1>4

LEMMA ServedExecute == ASSUME DockerInv, ServedInv, NEW q \in Calls, Execute(q) PROVE ServedInv'
<1>1. call[q].at = "exec" /\ call[q] \in Call /\ Served(q, call[q])
  BY DEF Execute, DockerInv, ServedInv
<1>2. ASSUME NEW end, NEW b, Ends(q, end, b),
             Sought(q) /\ q \notin cancelled /\ (host.mode = "docker" \/ host.root) =>
               end = "ran" /\ box[b].serves = Want[q]
      PROVE  ServedInv'
  <2> DEFINE c == [call[q] EXCEPT !.at = "done", !.end = end, !.in = b]
  <2>1. call' = [call EXCEPT ![q] = c] /\ UNCHANGED <<host, world, cancelled>>
    BY <1>2 DEF Ends
  <2>2. c.at = "done" /\ c.end = end /\ c.in = b
    BY <1>1 DEF Call, Phases
  <2> HIDE DEF c
  <2>3. Served(q, c)
    BY <1>2, <2>2 DEF Served, Sought
  <2> QED
    BY <2>1, <2>3, ServedStep
<1>3. CASE q \in cancelled
  BY <1>2, <1>3 DEF Execute
<1>4. CASE q \notin cancelled /\ call[q].pid # NoPid
  <2> DEFINE there == {b \in Boxes : host.root /\ box[b].at = "running" /\ box[b].pid = call[q].pid}
  <2>1. (there # {} /\ \E b \in there : Ends(q, "ran", b)) \/ (there = {} /\ Ends(q, "failed", NoBox))
    BY <1>4 DEF Execute
  <2>2. ASSUME Sought(q), host.mode = "docker" \/ host.root
        PROVE  there # {} /\ \A b \in there : box[b].serves = Want[q]
    <3>1. PICK o \in Running(call[q].target) : box[o].pid = call[q].pid
      BY <1>1, <1>4, <2>2 DEF Served
    <3>2. host.root
      BY <1>1, <1>4, <2>2 DEF Served
    <3>3. o \in there
      BY <3>1, <3>2 DEF Running, Bearing
    <3>4. \A b \in there : b = o
      BY <1>4, <3>1, <3>3 DEF DockerInv, BoxInv
    <3>5. box[o].serves = Want[q]
      BY <1>1, <2>2, <3>1 DEF Served
    <3> QED
      BY <3>3, <3>4, <3>5
  <2> HIDE DEF there
  <2> QED
    BY <1>2, <2>1, <2>2
<1>5. CASE q \notin cancelled /\ call[q].pid = NoPid
  <2> DEFINE there == Running(call[q].target)
  <2>1. \/ there # {} /\ \E b \in there : Ends(q, "ran", b)
        \/ (there = {} \/ TRUE \notin Replies \/ FALSE \in Replies) /\ Ends(q, "failed", NoBox)
    <3>1. PICK answered \in Replies : \/ answered /\ \E b \in there : Ends(q, "ran", b)
                                      \/ (answered => there = {}) /\ Ends(q, "failed", NoBox)
      BY <1>5 DEF Execute
    <3>2. answered = TRUE \/ answered = FALSE
      BY DEF Replies, Box
    <3> QED
      BY <3>1, <3>2
  <2>2. ASSUME Sought(q)
        PROVE  there # {} /\ Replies = {TRUE} /\ \A b \in there : box[b].serves = Want[q]
    BY <1>1, <2>2 DEF Served, Sought, Replies, Running, Bearing
  <2> HIDE DEF there
  <2> QED
    BY <1>2, <2>1, <2>2
<1> QED
  BY <1>3, <1>4, <1>5

LEMMA ServedNext ==
    ASSUME \A q \in Calls : Want[q] \notin Objects
    PROVE  DockerInv /\ ServedInv /\ [Next]_vars => ServedInv'
<1> SUFFICES ASSUME DockerInv, ServedInv, [Next]_vars PROVE ServedInv'
  OBVIOUS
<1>1. CASE UNCHANGED vars
  BY <1>1 DEF vars, world, ServedInv, Served, Sought, Bearing, Serving, Running
<1>2. ASSUME NEW q \in Calls, Begin(q) \/ Cancel(q) \/ AskDocker(q) \/ Advance(q) PROVE ServedInv'
  BY <1>2, ServedBegin, ServedInspect, ServedLookup, ServedPid, ServedAccess, ServedMode, ServedExecute
     DEF AskDocker, Advance
<1>3. ASSUME NEW b \in Boxes,
             \/ Stop(b) \/ Remove(b)
             \/ \E p \in Pids : Restart(b, p) \/ \E n \in Names, s \in Services \cup {NoName} : Create(b, n, s, p)
      PROVE  ServedInv'
  BY <1>3, ServedChange
<1> QED
  BY <1>1, <1>2, <1>3 DEF Next

LEMMA ServedImplies ==
    ASSUME DockerInv, ServedInv
    PROVE  FindsService
BY DEF ServedInv, Served, Sought, FindsService, Undisturbed, RanInService

LEMMA ServedInit == Init => ServedInv
BY DEF Init, ServedInv, Served, Sought

\* FindsService for every number of containers and requests, if no image or network
\* bears a name that is asked for (docker inspect answers for those too, and the
\* code takes the answer for a container): a service that has a running container
\* is found by docker ps, and nsenter and docker exec then run the command in one of
\* its containers.
THEOREM ServicesFound ==
    ASSUME \A q \in Calls : Want[q] \notin Objects
    PROVE  Spec => []FindsService
<1>1. DockerInv /\ ServedInv => FindsService
  BY ServedImplies
<1>2. DockerInv /\ ServedInv /\ [Next]_vars => ServedInv'
  BY ServedNext
<1> QED
  BY <1>1, <1>2, ServedInit, DockerInvariant, PTL DEF Spec

-----------------------------------------------------------------------------
(* The bytes of a program (AgentIO) *)

Frame == [kind : {"output", "result", "error"}, stream : IO!Streams \cup {"none"}, n : Nat]
Replied == handler \in {"replied", "gone"}

\* handleExec: before Start there is no program, and its streamers end before the
\* reply.
HandlerInv ==
    /\ handler \in {"setup", "pumped"} => proc = "none" /\ \A s \in IO!Streams : stream[s].at = "off"
    /\ handler = "setup" => pump.at = "off"
    /\ handler = "waiting" => proc # "none"
    /\ handler \in {"waited", "joining"} => proc = "exited"
    /\ Replied => proc # "running" /\ \A s \in IO!Streams : stream[s].at \in {"off", "done"}

\* Chunks a streamer has read and not written, and those on the wire.
InHand(s) == IF stream[s].at = "write" THEN 1 ELSE 0
OnWire(s) == IO!Sent(s, Len(wire))

\* A stream: on the wire, in the hand of its streamer and in its pipe are, in this
\* order, the chunks the program wrote.
StreamInv(s) ==
    /\ stream[s].at = "write" => stream[s].chunk = OnWire(s) + 1
    /\ \A i \in DOMAIN outPipe[s] : outPipe[s][i] = OnWire(s) + InHand(s) + i
    /\ wrote[s] = OnWire(s) + InHand(s) + Len(outPipe[s])

\* The wire: a terminal frame is the last one, and then no streamer writes.
WireInv ==
    /\ wire \in Seq(Frame)
    /\ \A i \in DOMAIN wire :
         IF IO!IsTerminal(wire[i]) THEN i = Len(wire) /\ Replied
         ELSE wire[i].stream \in IO!Streams /\ wire[i].n = IO!Sent(wire[i].stream, i)

Follows(s, t, k) == \A i \in DOMAIN s : s[i] = t[k + i]
Pumped == IF pump.at = "write" THEN 1 ELSE 0

\* The program has not exited and handleExec is not done with it; it may have input.
Flowing == proc # "exited" /\ handler \in {"setup", "pumped", "waiting"} /\ pump.at # "none"

Flow ==
    /\ Len(accepted) = Len(got) + Len(inPipe) + Pumped + Len(stdinCh)
    /\ Follows(inPipe, accepted, Len(got))
    /\ pump.at = "write" => pump.chunk = accepted[Len(got) + Len(inPipe) + 1]
    /\ Follows(stdinCh, accepted, Len(got) + Len(inPipe) + Pumped)
    /\ inOpen \/ pump.at = "done"
    /\ pump.at = "done" => pump.eof /\ stdinCh = <<>>
    /\ pump.eof => eofCh
    /\ eofCh => ended

\* Stdin: what the program read, what is in its pipe, in the pump's hand and in the
\* channel is, in this order, what the channel accepted; the pipe is closed only
\* with all of it inside, at the end of the client's input.  Without a pump nothing
\* gets there.
StdinInv ==
    /\ Len(got) <= Len(accepted) /\ Follows(got, accepted, 0)
    /\ sawEof /\ pump.at # "none" => ended /\ Len(got) = Len(accepted)
    /\ pump.at \in {"off", "none"} => inPipe = <<>> /\ got = <<>>
    /\ proc = "none" => ~sawEof
    /\ ended => fed = NumIn
    /\ pump.at = "write" => pump.chunk # 0
    /\ Flowing => Flow

\* AgentIO's TypeOK, variable by variable.
FlagTypes ==
    /\ ended \in BOOLEAN /\ registered \in BOOLEAN /\ eofCh \in BOOLEAN
    /\ inOpen \in BOOLEAN /\ sawEof \in BOOLEAN /\ outOpen \in BOOLEAN
QueueTypes ==
    /\ fed \in 0..NumIn
    /\ stdinCh \in Seq(1..NumIn) /\ accepted \in Seq(1..NumIn) /\ Len(stdinCh) <= Cap
    /\ inPipe \in Seq(1..NumIn) /\ Len(inPipe) <= PipeCap
    /\ got \in Seq(1..NumIn)
    /\ outPipe \in [IO!Streams -> Seq(1..NumOut)]
    /\ wrote \in [IO!Streams -> 0..NumOut]
WorkerTypes ==
    /\ pump \in [at : {"off", "none", "select", "write", "done"}, eof : BOOLEAN, chunk : 0..NumIn]
    /\ proc \in {"none", "running", "exited"}
    /\ stream \in [IO!Streams -> [at : {"off", "read", "write", "done"}, chunk : 0..NumOut]]
    /\ handler \in {"setup", "pumped", "waiting", "waited", "joining", "replied", "gone"}
IOTypes == FlagTypes /\ QueueTypes /\ WorkerTypes

IOInv == IOTypes /\ HandlerInv /\ WireInv /\ StdinInv /\ \A s \in IO!Streams : StreamInv(s)

-----------------------------------------------------------------------------
LEMMA IOConstants ==
    /\ NumIn \in Nat /\ NumOut \in Nat /\ Cap \in Nat \ {0} /\ PipeCap \in Nat \ {0}
    /\ IO!Streams = {"stdout", "stderr"} /\ IO!None = 0
BY RunAssumption DEF IO!AgentIOAssumption, IO!Streams, IO!None

\* The module's own copy of the library's operator.
LEMMA SameCardinality == \A S : IO!Cardinality(S) = Cardinality(S)
BY DEF Cardinality, IO!Cardinality, IsFiniteSet, IO!IsFiniteSet

\* Sent counts.
LEMMA SentType == ASSUME NEW s, NEW k \in Nat PROVE IO!Sent(s, k) \in Nat /\ IO!Sent(s, 0) = 0
<1> DEFINE S(n) == {i \in 1..n : wire[i].stream = s}
<1>1. IsFiniteSet(1..k) /\ S(k) \subseteq 1..k
  BY FS_Interval
<1>2. IsFiniteSet(S(k))
  BY <1>1, FS_Subset
<1>3. S(0) = {} /\ IO!Sent(s, k) = Cardinality(S(k)) /\ IO!Sent(s, 0) = Cardinality(S(0))
  BY SameCardinality DEF IO!Sent
<1> HIDE DEF S
<1> QED
  BY <1>2, <1>3, FS_CardinalityType, FS_EmptySet

\* One more frame on the wire counts for its own stream, after all the others.
LEMMA SentStep ==
    ASSUME wire \in Seq(Frame), NEW f \in Frame, wire' = Append(wire, f), NEW s
    PROVE  /\ \A k \in 0..Len(wire) : IO!Sent(s, k)' = IO!Sent(s, k)
           /\ OnWire(s)' = OnWire(s) + (IF f.stream = s THEN 1 ELSE 0)
<1> DEFINE n == Len(wire)
           S == {i \in 1..n : wire[i].stream = s}
           T == {i \in 1..(n + 1) : wire'[i].stream = s}
<1>1. /\ n \in Nat /\ Len(wire') = n + 1 /\ wire'[n + 1] = f
      /\ \A i \in 1..n : wire'[i] = wire[i]
  OBVIOUS
<1>2. ASSUME NEW k \in 0..n PROVE IO!Sent(s, k)' = IO!Sent(s, k)
  <2>1. {i \in 1..k : wire'[i].stream = s} = {i \in 1..k : wire[i].stream = s}
    BY <1>1
  <2> QED
    BY <2>1 DEF IO!Sent
<1>3. OnWire(s)' = Cardinality(T) /\ OnWire(s) = Cardinality(S)
  BY <1>1, SameCardinality DEF IO!Sent, OnWire
<1>4. IsFiniteSet(S)
  <2>1. IsFiniteSet(1..n) /\ S \subseteq 1..n
    BY <1>1, FS_Interval
  <2> QED
    BY <2>1, FS_Subset
<1>5. CASE f.stream = s
  <2>1. T = S \cup {n + 1} /\ n + 1 \notin S
    BY <1>1, <1>5
  <2>2. Cardinality(T) = Cardinality(S) + 1
    BY <1>4, <2>1, FS_AddElement
  <2> QED
    BY <1>2, <1>3, <1>5, <2>2
<1>6. CASE f.stream # s
  <2>1. T = S
    BY <1>1, <1>6
  <2>2. Cardinality(S) \in Nat
    BY <1>4, FS_CardinalityType
  <2> HIDE DEF S, T
  <2> QED
    BY <1>2, <1>3, <1>6, <2>1, <2>2
<1> QED
  BY <1>5, <1>6

\* Append, Head and Tail, place by place.
LEMMA AppendFacts ==
    ASSUME NEW S, NEW s \in Seq(S), NEW e \in S
    PROVE  /\ Append(s, e) \in Seq(S) /\ Len(Append(s, e)) = Len(s) + 1 /\ Len(s) \in Nat
           /\ DOMAIN Append(s, e) = 1..(Len(s) + 1) /\ DOMAIN s = 1..Len(s)
           /\ Append(s, e)[Len(s) + 1] = e /\ \A i \in 1..Len(s) : Append(s, e)[i] = s[i]
OBVIOUS

LEMMA TailFacts ==
    ASSUME NEW S, NEW s \in Seq(S), s # <<>>
    PROVE  /\ Tail(s) \in Seq(S) /\ Len(Tail(s)) = Len(s) - 1 /\ Len(s) \in Nat \ {0}
           /\ DOMAIN Tail(s) = 1..(Len(s) - 1) /\ DOMAIN s = 1..Len(s)
           /\ Head(s) \in S /\ Head(s) = s[1] /\ \A i \in 1..(Len(s) - 1) : Tail(s)[i] = s[i + 1]
OBVIOUS

\* A part of the way from the channel to the program grows or shrinks at an end.
LEMMA FollowsGrow ==
    ASSUME NEW S, NEW s \in Seq(S), NEW t \in Seq(S), NEW k \in Nat, NEW e \in S, Follows(s, t, k)
    PROVE  /\ k + Len(s) <= Len(t) => Follows(s, Append(t, e), k)
           /\ k + Len(s) = Len(t) => Follows(Append(s, e), Append(t, e), k)
           /\ e = t[k + Len(s) + 1] => Follows(Append(s, e), t, k)
BY AppendFacts, SMTT(30) DEF Follows

LEMMA FollowsShrink ==
    ASSUME NEW S, NEW s \in Seq(S), NEW t \in Seq(S), NEW k \in Nat, s # <<>>, Follows(s, t, k)
    PROVE  Follows(Tail(s), t, k + 1) /\ Head(s) = t[k + 1]
<1>1. Head(s) = t[k + 1]
  BY TailFacts DEF Follows
<1>2. ASSUME NEW i \in DOMAIN Tail(s) PROVE Tail(s)[i] = t[(k + 1) + i]
  <2>1. i \in 1..(Len(s) - 1) /\ i + 1 \in DOMAIN s /\ k + (i + 1) = (k + 1) + i
    BY TailFacts
  <2>2. Tail(s)[i] = s[i + 1] /\ s[i + 1] = t[k + (i + 1)]
    BY <2>1, TailFacts DEF Follows
  <2> QED
    BY <2>1, <2>2
<1> QED
  BY <1>1, <1>2 DEF Follows

LEMMA PumpTypes ==
    \A at \in {"off", "none", "select", "write", "done"}, eof \in BOOLEAN, chunk \in 0..NumIn :
        [at |-> at, eof |-> eof, chunk |-> chunk] \in
            [at : {"off", "none", "select", "write", "done"}, eof : BOOLEAN, chunk : 0..NumIn]
OBVIOUS

LEMMA SameTypes == IOTypes <=> IO!TypeOK
<1>1. {ended, registered, eofCh, inOpen, sawEof, outOpen} \subseteq BOOLEAN <=> FlagTypes
  BY DEF FlagTypes
<1>2. {stdinCh, accepted} \subseteq Seq(1..NumIn) <=> stdinCh \in Seq(1..NumIn) /\ accepted \in Seq(1..NumIn)
  OBVIOUS
<1> QED
  BY <1>1, <1>2 DEF IOTypes, QueueTypes, WorkerTypes, IO!TypeOK

LEMMA IOInitInv == IO!Init => IOInv
<1> SUFFICES ASSUME IO!Init PROVE IOInv
  OBVIOUS
<1> USE IOConstants DEF IO!Init
<1>1. IOTypes
  <2>1. FlagTypes
    BY DEF FlagTypes
  <2>2. QueueTypes
    BY DEF QueueTypes
  <2>3. WorkerTypes
    BY DEF WorkerTypes
  <2> QED
    BY <2>1, <2>2, <2>3 DEF IOTypes
<1>2. HandlerInv /\ WireInv
  BY DEF HandlerInv, WireInv, Replied
<1>3. StdinInv
  BY DEF StdinInv, Flowing, Flow, Follows, Pumped
<1>4. \A s \in IO!Streams : StreamInv(s)
  BY SentType DEF StreamInv, InHand, OnWire
<1> QED
  BY <1>1, <1>2, <1>3, <1>4 DEF IOInv

-----------------------------------------------------------------------------
\* What a step leaves alone keeps its part of the invariant.
LEMMA StreamsKept ==
    ASSUME \A s \in IO!Streams : StreamInv(s), UNCHANGED <<wrote, outPipe, stream, wire>>
    PROVE  (\A s \in IO!Streams : StreamInv(s))'
BY ZenonT(40) DEF StreamInv, InHand, OnWire, IO!Sent, IO!Streams

LEMMA WireKept == ASSUME WireInv, UNCHANGED wire, Replied => Replied' PROVE WireInv'
BY DEF WireInv, IO!Sent, IO!IsTerminal, IO!Streams

LEMMA StdinKept ==
    ASSUME StdinInv, UNCHANGED <<fed, accepted, ended, stdinCh, eofCh, pump, inPipe, inOpen, got, sawEof>>,
           Flowing' => Flowing, proc' = "none" => proc = "none"
    PROVE  StdinInv'
BY DEF StdinInv, Flow, Follows, Pumped

\* The frames of stdin, on their way to the program.
StdinStep ==
    \/ IO!FeedStdin \/ IO!CloseStdin \/ IO!PumpTake \/ IO!PumpSeesEof \/ IO!PumpCloses \/ IO!PumpWrite
    \/ IO!ProcRead \/ IO!ProcEof

LEMMA StdinStepFrame ==
    ASSUME IOInv, StdinStep
    PROVE  IOTypes' /\ HandlerInv' /\ WireInv' /\ (\A s \in IO!Streams : StreamInv(s))'
<1>1. UNCHANGED <<proc, handler, wrote, outPipe, stream, wire, outOpen, registered>>
  BY DEF StdinStep, IO!FeedStdin, IO!CloseStdin, IO!PumpTake, IO!PumpSeesEof, IO!PumpCloses, IO!PumpWrite,
         IO!ProcRead, IO!ProcEof, IO!procVars, IO!outVars, IO!inVars
<1>2. WireInv' /\ (\A s \in IO!Streams : StreamInv(s))'
  BY <1>1, StreamsKept, WireKept DEF IOInv, Replied
<1>3. HandlerInv'
  <2>1. pump.at = "off" => pump'.at = "off"
    BY DEF StdinStep, IO!FeedStdin, IO!CloseStdin, IO!PumpTake, IO!PumpSeesEof, IO!PumpCloses, IO!PumpWrite,
         IO!ProcRead, IO!ProcEof, IO!procVars, IO!outVars, IO!inVars
  <2> QED
    BY <1>1, <2>1 DEF IOInv, HandlerInv, Replied
<1>4. IOTypes'
  <2> USE IOConstants DEF IOInv, IOTypes
  <2>1. FlagTypes'
    BY <1>1 DEF FlagTypes, StdinStep, IO!FeedStdin, IO!CloseStdin, IO!PumpTake, IO!PumpSeesEof, IO!PumpCloses,
         IO!PumpWrite, IO!ProcRead, IO!ProcEof, IO!inVars, IO!procVars, IO!outVars
  <2>2. WorkerTypes'
    <3>1. stdinCh # <<>> => Head(stdinCh) \in 0..NumIn
      BY SMTT(30) DEF QueueTypes
    <3>2. CASE UNCHANGED pump
      BY <1>1, <3>2 DEF WorkerTypes
    <3>3. CASE IO!PumpTake \/ IO!PumpSeesEof \/ IO!PumpCloses \/ IO!PumpWrite
      <4>1. pump' \in [at : {"off", "none", "select", "write", "done"}, eof : BOOLEAN, chunk : 0..NumIn]
        <5>1. CASE IO!PumpTake
          BY <3>1, <5>1 DEF WorkerTypes, IO!PumpTake, IO!SetPump
        <5>2. CASE IO!PumpSeesEof \/ IO!PumpCloses
          <6>1. \E at \in {"select", "done"} : pump' = [at |-> at, eof |-> TRUE, chunk |-> 0]
            BY <5>2 DEF IO!PumpSeesEof, IO!PumpCloses, IO!SetPump
          <6> QED
            BY <6>1, PumpTypes
        <5>3. CASE IO!PumpWrite
          BY <5>3 DEF WorkerTypes, IO!PumpWrite, IO!SetPump
        <5> QED
          BY <3>3, <5>1, <5>2, <5>3
      <4> QED
        BY <1>1, <4>1 DEF WorkerTypes
    <3> QED
      BY <3>2, <3>3 DEF StdinStep, IO!FeedStdin, IO!CloseStdin, IO!ProcRead, IO!ProcEof, IO!inVars
  <2>3. QueueTypes'
    <3> USE DEF QueueTypes
    <3>1. CASE IO!FeedStdin
      <4>1. fed' \in 0..NumIn /\ fed + 1 \in 1..NumIn /\ UNCHANGED <<inPipe, got>>
        BY <3>1 DEF IO!FeedStdin, IO!procVars
      <4>2. \/ UNCHANGED <<stdinCh, accepted>>
            \/ /\ Len(stdinCh) < Cap
               /\ stdinCh' = Append(stdinCh, fed + 1) /\ accepted' = Append(accepted, fed + 1)
        BY <3>1 DEF IO!FeedStdin
      <4> QED
        <5>1. CASE UNCHANGED <<stdinCh, accepted>>
          BY <1>1, <4>1, <5>1
        <5>2. CASE /\ Len(stdinCh) < Cap
                   /\ stdinCh' = Append(stdinCh, fed + 1) /\ accepted' = Append(accepted, fed + 1)
          <6>1. stdinCh' \in Seq(1..NumIn) /\ accepted' \in Seq(1..NumIn) /\ Len(stdinCh') = Len(stdinCh) + 1
            BY <4>1, <5>2, AppendFacts
          <6> QED
            BY <1>1, <4>1, <5>2, <6>1
        <5> QED
          BY <4>2, <5>1, <5>2
    <3>2. CASE IO!CloseStdin
      BY <1>1, <3>2 DEF IO!CloseStdin, IO!inVars, IO!procVars, IO!outVars
    <3>3. CASE IO!PumpTake
      BY <1>1, <3>3 DEF IO!PumpTake, IO!inVars, IO!procVars, IO!outVars
    <3>4. CASE IO!PumpSeesEof
      BY <1>1, <3>4 DEF IO!PumpSeesEof, IO!inVars, IO!procVars, IO!outVars
    <3>5. CASE IO!PumpCloses
      BY <1>1, <3>5 DEF IO!PumpCloses, IO!inVars, IO!procVars, IO!outVars
    <3>6. CASE IO!PumpWrite
      <4>1. pump.chunk \in 1..NumIn
        BY <3>6 DEF IO!PumpWrite, StdinInv, WorkerTypes
      <4>2. \/ inPipe' = inPipe
            \/ Len(inPipe) < PipeCap /\ inPipe' = Append(inPipe, pump.chunk)
        BY <3>6 DEF IO!PumpWrite
      <4>3. UNCHANGED <<fed, accepted, stdinCh, got>>
        BY <3>6 DEF IO!PumpWrite, IO!procVars
      <4> QED
        <5>1. CASE inPipe' = inPipe
          BY <1>1, <4>3, <5>1
        <5>2. CASE Len(inPipe) < PipeCap /\ inPipe' = Append(inPipe, pump.chunk)
          <6>1. inPipe' \in Seq(1..NumIn) /\ Len(inPipe') = Len(inPipe) + 1
            BY <4>1, <5>2, AppendFacts
          <6> QED
            BY <1>1, <4>3, <5>2, <6>1
        <5> QED
          BY <4>2, <5>1, <5>2
    <3>7. CASE IO!ProcRead
      BY <1>1, <3>7, SMTT(30) DEF IO!ProcRead, IO!inVars, IO!procVars, IO!outVars
    <3>8. CASE IO!ProcEof
      BY <1>1, <3>8 DEF IO!ProcEof, IO!inVars, IO!procVars, IO!outVars
    <3> QED
      BY <3>1, <3>2, <3>3, <3>4, <3>5, <3>6, <3>7, <3>8 DEF StdinStep
  <2> QED
    BY <2>1, <2>2, <2>3
<1> QED
  BY <1>2, <1>3, <1>4

LEMMA StdinStepInv == ASSUME IOInv, StdinStep PROVE StdinInv'
<1> USE IOConstants
<1>1. UNCHANGED <<proc, handler>> /\ (Flowing' <=> Flowing)
  <2>1. UNCHANGED <<proc, handler>>
    BY DEF StdinStep, IO!FeedStdin, IO!CloseStdin, IO!PumpTake, IO!PumpSeesEof, IO!PumpCloses, IO!PumpWrite,
           IO!ProcRead, IO!ProcEof, IO!procVars, IO!outVars, IO!inVars
  <2>2. pump'.at = "none" <=> pump.at = "none"
    BY DEF StdinStep, IO!FeedStdin, IO!CloseStdin, IO!PumpTake, IO!PumpSeesEof, IO!PumpCloses, IO!PumpWrite,
           IO!ProcRead, IO!ProcEof, IO!SetPump, IO!inVars
  <2> QED
    BY <2>1, <2>2 DEF Flowing
<1>2. /\ StdinInv /\ HandlerInv
      /\ fed \in Nat /\ accepted \in Seq(1..NumIn) /\ stdinCh \in Seq(1..NumIn)
      /\ inPipe \in Seq(1..NumIn) /\ got \in Seq(1..NumIn)
      /\ pump.at \in {"off", "none", "select", "write", "done"} /\ pump.chunk \in 0..NumIn
      /\ Len(got) \in Nat /\ Len(inPipe) \in Nat /\ Len(stdinCh) \in Nat /\ Len(accepted) \in Nat
      /\ Pumped \in {0, 1}
  BY DEF IOInv, IOTypes, QueueTypes, WorkerTypes, Pumped
<1>3. CASE IO!FeedStdin
  <2>1. fed < NumIn /\ fed + 1 \in 1..NumIn /\ UNCHANGED <<ended, eofCh, pump, inPipe, inOpen, got, sawEof>>
    BY <1>2, <1>3 DEF IO!FeedStdin, IO!procVars
  <2>2. ~ended /\ Pumped' = Pumped
    BY <1>2, <2>1 DEF StdinInv, Pumped
  <2>3. CASE UNCHANGED <<stdinCh, accepted>>
    BY <1>1, <1>2, <2>1, <2>2, <2>3 DEF StdinInv, Flow, Follows
  <2>4. CASE stdinCh' = Append(stdinCh, fed + 1) /\ accepted' = Append(accepted, fed + 1)
    <3>1. /\ Len(stdinCh') = Len(stdinCh) + 1 /\ Len(accepted') = Len(accepted) + 1
          /\ \A i \in 1..Len(accepted) : accepted'[i] = accepted[i]
      BY <1>2, <2>1, <2>4, AppendFacts
    <3>2. Follows(got', accepted', 0) /\ Len(got') <= Len(accepted')
      <4>1. Follows(got, accepted, 0) /\ Len(got) <= Len(accepted)
        BY <1>2 DEF StdinInv
      <4>2. Follows(got, Append(accepted, fed + 1), 0)
        BY <1>2, <2>1, <4>1, FollowsGrow
      <4> QED
        BY <1>2, <2>1, <2>4, <3>1, <4>1, <4>2
    <3>3. ASSUME Flowing PROVE Flow'
      <4>1. Flow
        BY <1>2, <3>3 DEF StdinInv
      <4>2. Follows(inPipe', accepted', Len(got'))
        <5>1. Follows(inPipe, accepted, Len(got)) /\ Len(got) + Len(inPipe) <= Len(accepted)
          BY <1>2, <4>1 DEF Flow
        <5>2. Follows(inPipe, Append(accepted, fed + 1), Len(got))
          BY <1>2, <2>1, <5>1, FollowsGrow
        <5> QED
          BY <2>1, <2>4, <5>2
      <4>3. Follows(stdinCh', accepted', Len(got) + Len(inPipe) + Pumped)
        <5> DEFINE k == Len(got) + Len(inPipe) + Pumped
        <5>1. k \in Nat /\ Follows(stdinCh, accepted, k) /\ k + Len(stdinCh) = Len(accepted)
          BY <1>2, <4>1 DEF Flow
        <5> HIDE DEF k
        <5>2. Follows(Append(stdinCh, fed + 1), Append(accepted, fed + 1), k)
          BY <1>2, <2>1, <5>1, FollowsGrow
        <5> QED
          BY <2>4, <5>2 DEF k
      <4>4. pump.at = "write" => pump.chunk = accepted'[Len(got) + Len(inPipe) + 1]
        BY <1>2, <3>1, <4>1 DEF Flow, Pumped
      <4>5. pump.at # "done"
        BY <2>2, <4>1 DEF Flow
      <4> QED
        BY <1>2, <2>1, <2>2, <3>1, <4>1, <4>2, <4>3, <4>4, <4>5 DEF Flow
    <3> QED
      BY <1>1, <1>2, <2>1, <2>2, <3>1, <3>2, <3>3 DEF StdinInv
  <2> QED
    BY <1>3, <2>3, <2>4 DEF IO!FeedStdin
<1>4. CASE IO!CloseStdin
  BY <1>1, <1>2, <1>4 DEF StdinInv, Flow, Follows, Pumped, IO!CloseStdin, IO!procVars
<1>5. CASE IO!PumpTake
  <2>1. /\ pump.at = "select" /\ stdinCh # <<>>
        /\ pump' = [at |-> "write", eof |-> pump.eof, chunk |-> Head(stdinCh)] /\ stdinCh' = Tail(stdinCh)
        /\ UNCHANGED <<fed, accepted, ended, eofCh, inPipe, inOpen, got, sawEof>>
    BY <1>5 DEF IO!PumpTake, IO!SetPump, IO!procVars
  <2>2. Pumped = 0 /\ Pumped' = 1 /\ Len(stdinCh') = Len(stdinCh) - 1 /\ Head(stdinCh) # 0
    BY <1>2, <2>1, TailFacts DEF Pumped
  <2>3. ASSUME Flowing PROVE Flow'
    <3>1. Flow
      BY <1>2, <2>3 DEF StdinInv
    <3>2. /\ Follows(stdinCh', accepted, Len(got) + Len(inPipe) + 1)
          /\ Head(stdinCh) = accepted[Len(got) + Len(inPipe) + 1]
      <4> DEFINE k == Len(got) + Len(inPipe)
      <4>1. k \in Nat /\ Follows(stdinCh, accepted, k)
        BY <1>2, <2>2, <3>1 DEF Flow
      <4> HIDE DEF k
      <4>2. Follows(Tail(stdinCh), accepted, k + 1) /\ Head(stdinCh) = accepted[k + 1]
        BY <1>2, <2>1, <4>1, FollowsShrink
      <4> QED
        BY <2>1, <4>2 DEF k
    <3> QED
      BY <1>2, <2>1, <2>2, <3>1, <3>2 DEF Flow
  <2> QED
    BY <1>1, <1>2, <2>1, <2>2, <2>3 DEF StdinInv
<1>6. CASE IO!PumpSeesEof \/ IO!PumpCloses
  <2>1. /\ pump.at = "select" /\ pump'.at \in {"select", "done"} /\ pump'.eof
        /\ pump'.at = "select" => eofCh
        /\ pump'.at = "done" => pump.eof /\ stdinCh = <<>>
        /\ inOpen' = inOpen \/ pump'.at = "done"
        /\ UNCHANGED <<fed, accepted, ended, stdinCh, eofCh, inPipe, got, sawEof>>
    BY <1>6 DEF IO!PumpSeesEof, IO!PumpCloses, IO!SetPump, IO!procVars
  <2>2. Pumped = 0 /\ Pumped' = 0
    BY <2>1 DEF Pumped
  <2> QED
    BY <1>1, <1>2, <2>1, <2>2, SMTT(30) DEF StdinInv, Flow, Follows
<1>7. CASE IO!PumpWrite
  <2>1. /\ pump.at = "write" /\ pump' = [at |-> "select", eof |-> pump.eof, chunk |-> 0]
        /\ UNCHANGED <<fed, accepted, ended, stdinCh, eofCh, inOpen, got, sawEof>>
        /\ inOpen /\ proc # "exited" => inPipe' = Append(inPipe, pump.chunk)
    BY <1>7 DEF IO!PumpWrite, IO!SetPump, IO!procVars
  <2>2. Pumped = 1 /\ Pumped' = 0 /\ pump.chunk \in 1..NumIn
    BY <1>2, <2>1 DEF Pumped, StdinInv
  <2>3. ASSUME Flowing PROVE Flow'
    <3>1. Flow
      BY <1>2, <2>3 DEF StdinInv
    <3>2. inPipe' = Append(inPipe, pump.chunk) /\ Len(inPipe') = Len(inPipe) + 1
      BY <1>2, <2>1, <2>2, <2>3, <3>1, AppendFacts DEF Flow, Flowing
    <3>3. Follows(inPipe', accepted, Len(got))
      BY <1>2, <2>2, <2>1, <3>1, <3>2, FollowsGrow DEF Flow
    <3> QED
      BY <1>2, <2>1, <2>2, <3>1, <3>2, <3>3 DEF Flow
  <2> QED
    BY <1>1, <1>2, <2>1, <2>2, <2>3 DEF StdinInv
<1>8. CASE IO!ProcRead
  <2>1. /\ proc = "running" /\ inPipe # <<>> /\ got' = Append(got, Head(inPipe)) /\ inPipe' = Tail(inPipe)
        /\ UNCHANGED <<fed, accepted, ended, stdinCh, eofCh, pump, inOpen, sawEof>>
    BY <1>8 DEF IO!ProcRead
  <2>2. Flow /\ Flowing
    BY <1>2, <2>1 DEF HandlerInv, Replied, StdinInv, Flowing, IOInv, IOTypes, WorkerTypes
  <2>3. /\ Len(got') = Len(got) + 1 /\ Len(inPipe') = Len(inPipe) - 1 /\ Pumped' = Pumped
        /\ Head(inPipe) \in 1..NumIn /\ Len(inPipe) > 0
    BY <1>2, <2>1, AppendFacts, TailFacts DEF Pumped
  <2>4. Follows(inPipe', accepted, Len(got) + 1) /\ Head(inPipe) = accepted[Len(got) + 1]
    BY <1>2, <2>1, <2>2, FollowsShrink, ZenonT(40) DEF Flow
  <2>5. Follows(got', accepted, 0)
    BY <1>2, <2>1, <2>3, <2>4, FollowsGrow DEF StdinInv
  <2>6. ~ sawEof
    BY <1>2, <2>2, <2>3 DEF StdinInv, Flow
  <2>7. Flow'
    BY <1>2, <2>1, <2>2, <2>3, <2>4 DEF Flow
  <2> QED
    BY <1>1, <1>2, <2>1, <2>2, <2>3, <2>5, <2>6, <2>7 DEF StdinInv, Flow
<1>9. CASE IO!ProcEof
  <2>1. /\ proc = "running" /\ inPipe = <<>> /\ ~inOpen
        /\ UNCHANGED <<fed, accepted, ended, stdinCh, eofCh, pump, inPipe, inOpen, got>>
    BY <1>9 DEF IO!ProcEof, IO!inVars
  <2>2. pump.at # "none" => Flow /\ Flowing
    BY <1>2, <2>1 DEF HandlerInv, Replied, StdinInv, Flowing, IOInv, IOTypes, WorkerTypes
  <2>3. pump.at # "none" => ended /\ Len(got) = Len(accepted)
    BY <1>2, <2>1, <2>2 DEF Flow, Pumped
  <2> QED
    BY <1>1, <1>2, <2>1, <2>3 DEF StdinInv, Flow, Follows, Pumped
<1> QED
  BY <1>3, <1>4, <1>5, <1>6, <1>7, <1>8, <1>9 DEF StdinStep

-----------------------------------------------------------------------------
\* The output of the program, on its way to the wire.
OutputStep(s) == IO!ProcWrite(s) \/ IO!StreamRead(s) \/ IO!StreamWrite(s) \/ IO!StreamEnd(s)

\* The wire grows by one frame.
LEMMA WireStep ==
    ASSUME WireInv, NEW f \in Frame, wire' = Append(wire, f),
           \A i \in DOMAIN wire : ~IO!IsTerminal(wire[i]),
           IF IO!IsTerminal(f) THEN Replied' ELSE f.stream \in IO!Streams /\ f.n = OnWire(f.stream) + 1
    PROVE  WireInv'
<1>1. wire \in Seq(Frame)
  BY DEF WireInv
<1>2. /\ wire' \in Seq(Frame) /\ Len(wire') = Len(wire) + 1 /\ Len(wire) \in Nat
      /\ DOMAIN wire' = 1..(Len(wire) + 1) /\ DOMAIN wire = 1..Len(wire)
      /\ wire'[Len(wire) + 1] = f /\ \A i \in 1..Len(wire) : wire'[i] = wire[i]
  BY <1>1, AppendFacts
<1>3. ASSUME NEW i \in 1..Len(wire)
      PROVE  ~IO!IsTerminal(wire'[i]) /\ wire'[i].stream \in IO!Streams /\ wire'[i].n = IO!Sent(wire[i].stream, i)'
  <2>1. wire[i].stream \in IO!Streams /\ wire[i].n = IO!Sent(wire[i].stream, i) /\ ~IO!IsTerminal(wire[i])
    BY <1>2 DEF WireInv
  <2>2. \A j \in 1..i : wire'[j] = wire[j]
    BY <1>2
  <2>3. {j \in 1..i : wire'[j].stream = wire'[i].stream} = {j \in 1..i : wire[j].stream = wire[i].stream}
    BY <1>2, <2>2
  <2> QED
    BY <1>2, <2>1, <2>3 DEF IO!Sent
<1>4. ASSUME NEW i, i = Len(wire) + 1, ~IO!IsTerminal(f)
      PROVE  f.n = IO!Sent(wire[i].stream, i)'
  <2>1. OnWire(f.stream)' = f.n
    BY <1>1, <1>4, SentStep
  <2>2. {j \in 1..i : wire'[j].stream = wire'[i].stream} = {j \in 1..Len(wire') : wire'[j].stream = f.stream}
    BY <1>2, <1>4
  <2> QED
    BY <2>1, <2>2 DEF OnWire, IO!Sent
<1> QED
  BY <1>2, <1>3, <1>4 DEF WireInv, IO!IsTerminal, IO!Streams

LEMMA StreamTypes ==
    \A at \in {"off", "read", "write", "done"}, chunk \in 0..NumOut :
        [at |-> at, chunk |-> chunk] \in [at : {"off", "read", "write", "done"}, chunk : 0..NumOut]
OBVIOUS

LEMMA ProcWriteInv == ASSUME IOInv, NEW s \in IO!Streams, IO!ProcWrite(s) PROVE IOInv'
<1>1. /\ proc = "running" /\ wrote[s] < NumOut /\ Len(outPipe[s]) < PipeCap
      /\ wrote' = [wrote EXCEPT ![s] = @ + 1]
      /\ outPipe' = [outPipe EXCEPT ![s] = Append(@, wrote[s] + 1)]
      /\ UNCHANGED <<fed, accepted, ended, registered, stdinCh, eofCh, pump, inPipe, inOpen, proc, got, sawEof,
                     outOpen, stream, wire, handler>>
  BY DEF IO!ProcWrite, IO!inVars
<1>2. /\ wrote \in [IO!Streams -> 0..NumOut] /\ wrote[s] \in 0..NumOut
      /\ outPipe \in [IO!Streams -> Seq(1..NumOut)] /\ outPipe[s] \in Seq(1..NumOut)
  BY DEF IOInv, IOTypes, QueueTypes
<1>3. wrote[s] + 1 \in 1..NumOut
  BY <1>1, <1>2, IOConstants
<1>4. /\ wrote' \in [IO!Streams -> 0..NumOut] /\ wrote'[s] = wrote[s] + 1
      /\ outPipe' \in [IO!Streams -> Seq(1..NumOut)] /\ outPipe'[s] = Append(outPipe[s], wrote[s] + 1)
      /\ \A r \in IO!Streams : r # s => wrote'[r] = wrote[r] /\ outPipe'[r] = outPipe[r]
  <2>1. Append(outPipe[s], wrote[s] + 1) \in Seq(1..NumOut)
    BY <1>2, <1>3, AppendFacts
  <2> QED
    BY <1>1, <1>2, <1>3, <2>1, IOConstants
<1>5. FlagTypes' /\ QueueTypes' /\ WorkerTypes'
  BY <1>1, <1>4 DEF IOInv, IOTypes, FlagTypes, QueueTypes, WorkerTypes
<1>6. HandlerInv' /\ WireInv' /\ StdinInv'
  <2>1. HandlerInv'
    BY <1>1 DEF IOInv, HandlerInv, Replied
  <2> QED
    BY <1>1, <2>1, WireKept, StdinKept DEF IOInv, Replied, Flowing
<1>7. \A r \in IO!Streams : OnWire(r)' = OnWire(r) /\ InHand(r)' = InHand(r) /\ OnWire(r) \in Nat
  <2>1. Len(wire) \in Nat
    BY DEF IOInv, WireInv
  <2> QED
    BY <1>1, <2>1, SentType DEF OnWire, InHand, IO!Sent
<1>8. ASSUME NEW r \in IO!Streams PROVE StreamInv(r)'
  <2>1. StreamInv(r)
    BY DEF IOInv
  <2>2. CASE r # s
    BY <1>1, <1>4, <1>7, <2>1, <2>2 DEF StreamInv
  <2>3. CASE r = s
    <3>1. /\ DOMAIN outPipe'[s] = 1..(Len(outPipe[s]) + 1) /\ DOMAIN outPipe[s] = 1..Len(outPipe[s])
          /\ Len(outPipe'[s]) = Len(outPipe[s]) + 1 /\ Len(outPipe[s]) \in Nat
          /\ outPipe'[s][Len(outPipe[s]) + 1] = wrote[s] + 1
          /\ \A i \in 1..Len(outPipe[s]) : outPipe'[s][i] = outPipe[s][i]
      BY <1>2, <1>3, <1>4, AppendFacts
    <3>2. InHand(s) \in {0, 1}
      BY DEF InHand
    <3> QED
      BY <1>1, <1>4, <1>7, <2>1, <2>3, <3>1, <3>2 DEF StreamInv
  <2> QED
    BY <2>2, <2>3
<1> QED
  BY <1>5, <1>6, <1>8 DEF IOInv, IOTypes

\* A streamer goes on to at with chunk in its hand, or none.
LEMMA StreamerFrame ==
    ASSUME IOInv, NEW s \in IO!Streams, NEW at \in {"read", "write", "done"}, NEW chunk \in 0..NumOut,
           IO!SetStream(s, at, chunk), stream[s].at \in {"read", "write"},
           UNCHANGED <<fed, accepted, ended, registered, stdinCh, eofCh, pump, inPipe, inOpen, proc, got, sawEof, wrote,
                       outOpen, handler>>
    PROVE  /\ FlagTypes' /\ WorkerTypes' /\ HandlerInv' /\ StdinInv' /\ ~Replied
           /\ stream'[s] = [at |-> at, chunk |-> chunk]
           /\ \A r \in IO!Streams : r # s => stream'[r] = stream[r]
<1>1. stream \in [IO!Streams -> [at : {"off", "read", "write", "done"}, chunk : 0..NumOut]]
  BY DEF IOInv, IOTypes, WorkerTypes
<1>2. /\ stream' \in [IO!Streams -> [at : {"off", "read", "write", "done"}, chunk : 0..NumOut]]
      /\ stream'[s] = [at |-> at, chunk |-> chunk]
      /\ \A r \in IO!Streams : r # s => stream'[r] = stream[r]
  BY <1>1, StreamTypes DEF IO!SetStream
<1>3. FlagTypes' /\ WorkerTypes'
  BY <1>2 DEF IOInv, IOTypes, FlagTypes, WorkerTypes
<1>4. HandlerInv' /\ ~Replied
  BY DEF IOInv, HandlerInv, Replied
<1>5. StdinInv'
  BY StdinKept DEF IOInv, Flowing
<1> QED
  BY <1>2, <1>3, <1>4, <1>5

LEMMA StreamReadInv == ASSUME IOInv, NEW s \in IO!Streams, IO!StreamRead(s) PROVE IOInv'
<1>1. /\ stream[s].at = "read" /\ outPipe[s] # <<>>
      /\ IO!SetStream(s, "write", Head(outPipe[s]))
      /\ outPipe' = [outPipe EXCEPT ![s] = Tail(@)]
      /\ UNCHANGED <<fed, accepted, ended, registered, stdinCh, eofCh, pump, inPipe, inOpen, proc, got, sawEof, wrote,
                     outOpen, wire, handler>>
  BY DEF IO!StreamRead, IO!inVars, IO!procVars
<1>2. outPipe \in [IO!Streams -> Seq(1..NumOut)] /\ outPipe[s] \in Seq(1..NumOut)
  BY DEF IOInv, IOTypes, QueueTypes
<1>3. /\ Tail(outPipe[s]) \in Seq(1..NumOut) /\ Head(outPipe[s]) \in 1..NumOut
      /\ Len(Tail(outPipe[s])) = Len(outPipe[s]) - 1 /\ Len(outPipe[s]) \in Nat \ {0}
      /\ DOMAIN Tail(outPipe[s]) = 1..(Len(outPipe[s]) - 1) /\ DOMAIN outPipe[s] = 1..Len(outPipe[s])
      /\ Head(outPipe[s]) = outPipe[s][1]
      /\ \A i \in 1..(Len(outPipe[s]) - 1) : Tail(outPipe[s])[i] = outPipe[s][i + 1]
  BY <1>1, <1>2, TailFacts
<1>4. /\ outPipe' \in [IO!Streams -> Seq(1..NumOut)] /\ outPipe'[s] = Tail(outPipe[s])
      /\ \A r \in IO!Streams : r # s => outPipe'[r] = outPipe[r]
  BY <1>1, <1>2, <1>3
<1>5. Head(outPipe[s]) \in 0..NumOut
  BY <1>3
<1>6. /\ FlagTypes' /\ WorkerTypes' /\ HandlerInv' /\ StdinInv' /\ ~Replied
      /\ stream'[s] = [at |-> "write", chunk |-> Head(outPipe[s])]
      /\ \A r \in IO!Streams : r # s => stream'[r] = stream[r]
  BY <1>1, <1>5, StreamerFrame
<1>7. QueueTypes'
  BY <1>1, <1>4 DEF IOInv, IOTypes, QueueTypes
<1>8. WireInv'
  BY <1>1, WireKept DEF IOInv, Replied
<1>9. \A r \in IO!Streams : OnWire(r)' = OnWire(r) /\ OnWire(r) \in Nat
  <2>1. Len(wire) \in Nat
    BY DEF IOInv, WireInv
  <2> QED
    BY <1>1, <2>1, SentType DEF OnWire, IO!Sent
<1>10. ASSUME NEW r \in IO!Streams PROVE StreamInv(r)'
  <2>1. StreamInv(r)
    BY DEF IOInv
  <2>2. CASE r # s
    BY <1>1, <1>4, <1>6, <1>9, <2>1, <2>2 DEF StreamInv, InHand
  <2>3. CASE r = s
    <3>1. InHand(s) = 0 /\ InHand(s)' = 1
      BY <1>1, <1>6 DEF InHand
    <3>2. /\ wrote[s] = OnWire(s) + Len(outPipe[s]) /\ Head(outPipe[s]) = OnWire(s) + 1
          /\ \A i \in 1..(Len(outPipe[s]) - 1) : outPipe[s][i + 1] = OnWire(s) + (i + 1)
      BY <1>3, <1>9, <2>1, <2>3, <3>1 DEF StreamInv
    <3>3. wrote[s]' = OnWire(s)' + InHand(s)' + Len(outPipe'[s])
      BY <1>1, <1>3, <1>4, <1>9, <3>1, <3>2
    <3>4. ASSUME NEW i \in DOMAIN outPipe'[s] PROVE outPipe'[s][i] = OnWire(s)' + InHand(s)' + i
      <4>1. i \in 1..(Len(outPipe[s]) - 1) /\ outPipe'[s][i] = outPipe[s][i + 1]
        BY <1>3, <1>4, <3>4
      <4> QED
        BY <1>3, <1>9, <3>1, <3>2, <4>1, SMTT(30)
    <3>5. stream'[s].chunk = OnWire(s)' + 1
      BY <1>6, <1>9, <3>2
    <3> QED
      BY <2>3, <3>3, <3>4, <3>5 DEF StreamInv
  <2> QED
    BY <2>2, <2>3
<1> QED
  BY <1>6, <1>7, <1>8, <1>10 DEF IOInv, IOTypes

LEMMA StreamWriteInv == ASSUME IOInv, NEW s \in IO!Streams, IO!StreamWrite(s) PROVE IOInv'
<1> DEFINE f == IO!Out(s, stream[s].chunk)
<1>1. /\ stream[s].at = "write" /\ wire' = Append(wire, f)
      /\ IO!SetStream(s, "read", 0)
      /\ UNCHANGED <<fed, accepted, ended, registered, stdinCh, eofCh, pump, inPipe, inOpen, proc, got, sawEof, wrote,
                     outPipe, outOpen, handler>>
  BY IOConstants DEF IO!StreamWrite, IO!inVars, IO!procVars
<1>2. /\ FlagTypes' /\ WorkerTypes' /\ HandlerInv' /\ StdinInv' /\ ~Replied
      /\ stream'[s] = [at |-> "read", chunk |-> 0]
      /\ \A r \in IO!Streams : r # s => stream'[r] = stream[r]
  <2>1. 0 \in 0..NumOut
    BY IOConstants
  <2> QED
    BY <1>1, <2>1, StreamerFrame
<1>3. QueueTypes'
  BY <1>1 DEF IOInv, IOTypes, QueueTypes
<1>4. /\ f \in Frame /\ f.stream = s /\ f.n = OnWire(s) + 1 /\ ~IO!IsTerminal(f)
  <2>1. stream[s].chunk \in 0..NumOut
    BY DEF IOInv, IOTypes, WorkerTypes
  <2>2. stream[s].chunk = OnWire(s) + 1
    BY <1>1 DEF IOInv, StreamInv
  <2> QED
    BY <2>1, <2>2, IOConstants DEF IO!Out, Frame, IO!IsTerminal
<1> HIDE DEF f
<1>5. WireInv'
  <2>1. \A i \in DOMAIN wire : ~IO!IsTerminal(wire[i])
    BY <1>2 DEF IOInv, WireInv
  <2> QED
    BY <1>1, <1>4, <2>1, WireStep DEF IOInv
<1>6. \A r \in IO!Streams : OnWire(r) \in Nat /\ OnWire(r)' = OnWire(r) + IF r = s THEN 1 ELSE 0
  <2>1. Len(wire) \in Nat /\ wire \in Seq(Frame)
    BY DEF IOInv, WireInv
  <2>2. \A r \in IO!Streams : OnWire(r) \in Nat
    BY <2>1, SentType DEF OnWire
  <2> QED
    BY <1>1, <1>4, <2>1, <2>2, SentStep
<1>7. ASSUME NEW r \in IO!Streams PROVE StreamInv(r)'
  <2>1. StreamInv(r)
    BY DEF IOInv
  <2>2. CASE r # s
    BY <1>1, <1>2, <1>6, <2>1, <2>2 DEF StreamInv, InHand
  <2>3. CASE r = s
    <3>1. InHand(s) = 1 /\ InHand(s)' = 0
      BY <1>1, <1>2 DEF InHand
    <3> QED
      BY <1>1, <1>2, <1>6, <2>1, <2>3, <3>1 DEF StreamInv
  <2> QED
    BY <2>2, <2>3
<1> QED
  BY <1>2, <1>3, <1>5, <1>7 DEF IOInv, IOTypes

LEMMA StreamEndInv == ASSUME IOInv, NEW s \in IO!Streams, IO!StreamEnd(s) PROVE IOInv'
<1>1. /\ stream[s].at = "read" /\ IO!SetStream(s, "done", 0)
      /\ UNCHANGED <<fed, accepted, ended, registered, stdinCh, eofCh, pump, inPipe, inOpen, proc, got, sawEof, wrote,
                     outPipe, outOpen, wire, handler>>
  BY IOConstants DEF IO!StreamEnd, IO!inVars, IO!procVars
<1>2. /\ FlagTypes' /\ WorkerTypes' /\ HandlerInv' /\ StdinInv'
      /\ stream'[s] = [at |-> "done", chunk |-> 0]
      /\ \A r \in IO!Streams : r # s => stream'[r] = stream[r]
  <2>1. 0 \in 0..NumOut
    BY IOConstants
  <2> QED
    BY <1>1, <2>1, StreamerFrame
<1>3. QueueTypes' /\ WireInv'
  BY <1>1, WireKept DEF IOInv, IOTypes, QueueTypes, Replied
<1>4. ASSUME NEW r \in IO!Streams PROVE StreamInv(r)'
  <2>1. StreamInv(r) /\ InHand(r)' = InHand(r) /\ OnWire(r)' = OnWire(r)
    BY <1>1, <1>2 DEF IOInv, InHand, OnWire, IO!Sent
  <2> QED
    BY <1>1, <1>2, <2>1 DEF StreamInv
<1> QED
  BY <1>2, <1>3, <1>4 DEF IOInv, IOTypes

-----------------------------------------------------------------------------
\* handleExec, and the end of the program.
LEMMA StdinStopped ==
    ASSUME StdinInv, UNCHANGED <<fed, accepted, ended, pump, inPipe, got, sawEof>>,
           ~Flowing', proc' = "none" => proc = "none"
    PROVE  StdinInv'
BY DEF StdinInv, Follows

\* A terminal frame belongs to no stream.
LEMMA TerminalInv ==
    ASSUME IOInv, NEW kind \in {"error", "result"}, wire' = Append(wire, IO!Terminal(kind)),
           ~Replied, Replied', UNCHANGED <<wrote, outPipe, stream>>
    PROVE  WireInv' /\ \A s \in IO!Streams : StreamInv(s)'
<1> DEFINE f == IO!Terminal(kind)
<1>1. /\ f \in Frame /\ IO!IsTerminal(f) /\ wire' = Append(wire, f) /\ wire \in Seq(Frame)
      /\ \A s \in IO!Streams : f.stream # s
  BY IOConstants DEF IO!Terminal, Frame, IO!IsTerminal, IOInv, WireInv
<1> HIDE DEF f
<1>2. WireInv'
  <2>1. \A i \in DOMAIN wire : ~IO!IsTerminal(wire[i])
    BY DEF IOInv, WireInv
  <2> QED
    BY <1>1, <2>1, WireStep DEF IOInv
<1>3. ASSUME NEW s \in IO!Streams PROVE StreamInv(s)'
  <2>1. OnWire(s) \in Nat
    BY <1>1, SentType DEF OnWire
  <2>2. OnWire(s)' = OnWire(s)
    BY <1>1, <2>1, SentStep
  <2> QED
    BY <2>2 DEF IOInv, StreamInv, InHand
<1> QED
  BY <1>2, <1>3

HandlerStep == IO!Handler \/ IO!ProcExit

LEMMA HandlerStepInv == ASSUME IOInv, HandlerStep PROVE IOInv'
<1>1. UNCHANGED <<fed, accepted, ended, stdinCh, inPipe, got, sawEof, wrote, outPipe>>
  BY DEF HandlerStep, IO!Handler, IO!SpawnPump, IO!GiveNoInput, IO!StdinPipeFails, IO!StartFails, IO!Start, IO!WaitReturns, IO!SignalEOF, IO!SendResult,
         IO!UnregisterRunning, IO!ProcExit, IO!inVars, IO!procVars, IO!outVars
<1>2. QueueTypes'
  BY <1>1 DEF IOInv, IOTypes, QueueTypes
<1>3. IOTypes /\ FlagTypes /\ WorkerTypes /\ HandlerInv /\ StdinInv /\ WireInv
  BY DEF IOInv, IOTypes
<1>4. CASE IO!SpawnPump
  <2>1. /\ handler = "setup" /\ handler' = "pumped" /\ pump' = [at |-> "select", eof |-> FALSE, chunk |-> 0]
        /\ UNCHANGED <<registered, eofCh, inOpen, proc, outOpen, stream, wire>>
    BY <1>4, IOConstants DEF IO!SpawnPump, IO!SetPump, IO!procVars, IO!outVars
  <2>2. pump' \in [at : {"off", "none", "select", "write", "done"}, eof : BOOLEAN, chunk : 0..NumIn]
    BY <2>1, IOConstants, PumpTypes
  <2>3. FlagTypes' /\ WorkerTypes'
    <3>1. FlagTypes'
      BY <1>1, <1>3, <2>1 DEF FlagTypes
    <3>2. WorkerTypes'
      BY <1>3, <2>1, <2>2 DEF WorkerTypes
    <3> QED
      BY <3>1, <3>2
  <2>4. HandlerInv' /\ WireInv'
    BY <1>3, <2>1, WireKept DEF HandlerInv, Replied
  <2>5. StdinInv'
    <3>1. pump.at = "off" /\ Pumped = 0 /\ Pumped' = 0
      BY <1>3, <2>1 DEF HandlerInv, Pumped
    <3> QED
      BY <1>1, <1>3, <2>1, <3>1 DEF StdinInv, Flow, Flowing, Follows
  <2> QED
    BY <1>1, <1>2, <2>1, <2>3, <2>4, <2>5, StreamsKept DEF IOInv, IOTypes
<1>10. CASE IO!GiveNoInput
  <2>1. /\ handler = "setup" /\ handler' = "pumped" /\ pump' = [at |-> "none", eof |-> FALSE, chunk |-> 0]
        /\ inOpen' = FALSE /\ UNCHANGED <<registered, eofCh, proc, outOpen, stream, wire>>
    BY <1>10, IOConstants DEF IO!GiveNoInput, IO!SetPump, IO!procVars, IO!outVars
  <2>2. pump' \in [at : {"off", "none", "select", "write", "done"}, eof : BOOLEAN, chunk : 0..NumIn]
    BY <2>1, IOConstants, PumpTypes
  <2>3. FlagTypes' /\ WorkerTypes'
    <3>1. FlagTypes'
      BY <1>1, <1>3, <2>1 DEF FlagTypes
    <3>2. WorkerTypes'
      BY <1>3, <2>1, <2>2 DEF WorkerTypes
    <3> QED
      BY <3>1, <3>2
  <2>4. HandlerInv' /\ WireInv'
    BY <1>3, <2>1, WireKept DEF HandlerInv, Replied
  <2>5. StdinInv'
    <3>1. pump.at = "off" /\ ~Flowing'
      BY <1>3, <2>1 DEF HandlerInv, Flowing
    <3> QED
      BY <1>1, <1>3, <2>1, <3>1 DEF StdinInv, Follows
  <2> QED
    BY <1>1, <1>2, <2>1, <2>3, <2>4, <2>5, StreamsKept DEF IOInv, IOTypes
<1>5. CASE IO!StdinPipeFails \/ IO!StartFails
  <2>1. /\ handler \in {"setup", "pumped"} /\ handler' = "replied"
        /\ wire' = Append(wire, IO!Terminal("error")) /\ inOpen' \in {inOpen, FALSE}
        /\ UNCHANGED <<registered, eofCh, pump, proc, outOpen, stream>>
    BY <1>5 DEF IO!StdinPipeFails, IO!StartFails, IO!inVars, IO!procVars, IO!outVars
  <2>2. FlagTypes' /\ WorkerTypes' /\ HandlerInv'
    <3>1. FlagTypes'
      BY <1>1, <1>3, <2>1 DEF FlagTypes
    <3>2. WorkerTypes'
      BY <1>3, <2>1 DEF WorkerTypes
    <3>3. HandlerInv'
      BY <1>3, <2>1 DEF HandlerInv, Replied
    <3> QED
      BY <3>1, <3>2, <3>3
  <2>3. StdinInv'
    BY <1>1, <1>3, <2>1, StdinStopped DEF Flowing
  <2>4. WireInv' /\ \A s \in IO!Streams : StreamInv(s)'
    BY <1>1, <2>1, TerminalInv DEF Replied
  <2> QED
    BY <1>2, <2>2, <2>3, <2>4 DEF IOInv, IOTypes
<1>6. CASE IO!Start
  <2>1. /\ handler = "pumped" /\ handler' = "waiting" /\ proc' = "running"
        /\ stream' = [s \in IO!Streams |-> [at |-> "read", chunk |-> 0]]
        /\ UNCHANGED <<registered, eofCh, pump, inOpen, outOpen, wire>>
    BY <1>6, IOConstants DEF IO!Start, IO!inVars
  <2>2. stream' \in [IO!Streams -> [at : {"off", "read", "write", "done"}, chunk : 0..NumOut]]
    BY <2>1, IOConstants, StreamTypes
  <2>3. FlagTypes' /\ WorkerTypes' /\ HandlerInv' /\ WireInv'
    <3>1. FlagTypes'
      BY <1>1, <1>3, <2>1 DEF FlagTypes
    <3>2. WorkerTypes'
      BY <1>3, <2>1, <2>2 DEF WorkerTypes
    <3>3. HandlerInv'
      BY <1>3, <2>1, <2>2 DEF HandlerInv, Replied
    <3>4. WireInv'
      BY <1>3, <2>1, <2>2, WireKept DEF Replied
    <3> QED
      BY <3>1, <3>2, <3>3, <3>4
  <2>4. StdinInv'
    BY <1>1, <1>3, <2>1, StdinKept DEF Flowing, HandlerInv
  <2>5. ASSUME NEW s \in IO!Streams PROVE StreamInv(s)'
    <3>1. InHand(s) = 0 /\ InHand(s)' = 0 /\ stream'[s].at = "read" /\ OnWire(s)' = OnWire(s)
      BY <1>3, <2>1 DEF InHand, HandlerInv, OnWire, IO!Sent
    <3> QED
      BY <1>1, <3>1 DEF IOInv, StreamInv
  <2> QED
    BY <1>2, <2>3, <2>4, <2>5 DEF IOInv, IOTypes
<1>7. CASE IO!WaitReturns \/ IO!SignalEOF \/ IO!ProcExit
  <2>1. /\ UNCHANGED <<registered, pump, stream, wire>> /\ ~Flowing' /\ proc \in {"running", "exited"} /\ proc' = "exited"
        /\ inOpen' \in BOOLEAN /\ outOpen' \in BOOLEAN /\ eofCh' \in BOOLEAN
        /\ \/ handler = "waiting" /\ handler' = "waited"
           \/ handler = "waited" /\ handler' = "joining"
           \/ handler' = handler /\ proc = "running"
    <3> USE <1>3 DEF FlagTypes
    <3>1. CASE IO!WaitReturns
      BY <3>1 DEF IO!WaitReturns, IO!procVars, Flowing
    <3>2. CASE IO!SignalEOF
      <4>1. proc = "exited"
        BY <3>2 DEF IO!SignalEOF, HandlerInv
      <4> QED
        BY <3>2, <4>1 DEF IO!SignalEOF, IO!procVars, IO!outVars, Flowing
    <3>3. CASE IO!ProcExit
      BY <3>3 DEF IO!ProcExit, IO!inVars, IO!outVars, Flowing
    <3> QED
      BY <1>7, <3>1, <3>2, <3>3
  <2>2. FlagTypes' /\ WorkerTypes' /\ HandlerInv' /\ WireInv'
    <3>1. FlagTypes'
      BY <1>1, <1>3, <2>1 DEF FlagTypes
    <3>2. WorkerTypes'
      BY <1>3, <2>1 DEF WorkerTypes
    <3>3. HandlerInv'
      BY <1>3, <2>1 DEF HandlerInv, Replied
    <3>4. WireInv'
      BY <1>3, <2>1, WireKept DEF Replied
    <3> QED
      BY <3>1, <3>2, <3>3, <3>4
  <2>3. StdinInv'
    BY <1>1, <1>3, <2>1, StdinStopped
  <2> QED
    BY <1>1, <1>2, <2>1, <2>2, <2>3, StreamsKept DEF IOInv, IOTypes
<1>8. CASE IO!SendResult
  <2>1. /\ handler = "joining" /\ \A s \in IO!Streams : stream[s].at = "done"
        /\ handler' = "replied" /\ wire' = Append(wire, IO!Terminal("result"))
        /\ UNCHANGED <<registered, eofCh, pump, inOpen, proc, outOpen, stream>>
    BY <1>8 DEF IO!SendResult, IO!inVars, IO!procVars, IO!outVars
  <2>2. FlagTypes' /\ WorkerTypes' /\ HandlerInv'
    <3>1. FlagTypes'
      BY <1>1, <1>3, <2>1 DEF FlagTypes
    <3>2. WorkerTypes'
      BY <1>3, <2>1 DEF WorkerTypes
    <3>3. HandlerInv'
      BY <1>3, <2>1 DEF HandlerInv, Replied
    <3> QED
      BY <3>1, <3>2, <3>3
  <2>3. StdinInv'
    BY <1>1, <1>3, <2>1, StdinStopped DEF Flowing
  <2>4. WireInv' /\ \A s \in IO!Streams : StreamInv(s)'
    BY <1>1, <2>1, TerminalInv DEF Replied
  <2> QED
    BY <1>2, <2>2, <2>3, <2>4 DEF IOInv, IOTypes
<1>9. CASE IO!UnregisterRunning
  <2>1. /\ handler = "replied" /\ handler' = "gone" /\ registered' = FALSE
        /\ UNCHANGED <<eofCh, pump, inOpen, proc, outOpen, stream, wire>>
    BY <1>9 DEF IO!UnregisterRunning, IO!procVars, IO!outVars
  <2>2. FlagTypes' /\ WorkerTypes' /\ HandlerInv' /\ WireInv'
    <3>1. FlagTypes'
      BY <1>1, <1>3, <2>1 DEF FlagTypes
    <3>2. WorkerTypes'
      BY <1>3, <2>1 DEF WorkerTypes
    <3>3. HandlerInv'
      BY <1>3, <2>1 DEF HandlerInv, Replied
    <3>4. WireInv'
      BY <1>3, <2>1, WireKept DEF Replied
    <3> QED
      BY <3>1, <3>2, <3>3, <3>4
  <2>3. StdinInv'
    BY <1>1, <1>3, <2>1, StdinStopped DEF Flowing
  <2> QED
    BY <1>1, <1>2, <2>1, <2>2, <2>3, StreamsKept DEF IOInv, IOTypes
<1> QED
  BY <1>4, <1>5, <1>6, <1>7, <1>8, <1>9, <1>10 DEF HandlerStep, IO!Handler

LEMMA IONextInv == IOInv /\ [IO!Next]_ioVars => IOInv'
<1> SUFFICES ASSUME IOInv, [IO!Next]_ioVars PROVE IOInv'
  OBVIOUS
<1>1. CASE UNCHANGED ioVars
  <2>1. IOTypes' /\ HandlerInv'
    BY <1>1 DEF ioVars, IOInv, IOTypes, FlagTypes, QueueTypes, WorkerTypes, HandlerInv, Replied
  <2>2. WireInv' /\ StdinInv' /\ \A s \in IO!Streams : StreamInv(s)'
    BY <1>1, WireKept, StdinKept, StreamsKept DEF ioVars, IOInv, Replied, Flowing
  <2> QED
    BY <2>1, <2>2 DEF IOInv
<1>2. CASE StdinStep
  BY <1>2, StdinStepFrame, StdinStepInv DEF IOInv
<1>3. ASSUME NEW s \in IO!Streams, IO!ProcWrite(s) \/ IO!Streamer(s) PROVE IOInv'
  BY <1>3, ProcWriteInv, StreamReadInv, StreamWriteInv, StreamEndInv DEF IO!Streamer
<1>4. CASE HandlerStep
  BY <1>4, HandlerStepInv
<1> QED
  BY <1>1, <1>2, <1>3, <1>4 DEF IO!Next, IO!Pump, StdinStep, HandlerStep

-----------------------------------------------------------------------------
LEMMA IOInvImplies == IOInv => IO!TypeOK /\ IO!OutputInOrder /\ IO!StdinFaithful
<1> SUFFICES ASSUME IOInv PROVE IO!TypeOK /\ IO!OutputInOrder /\ IO!StdinFaithful
  OBVIOUS
<1>1. IO!TypeOK
  BY SameTypes DEF IOInv
<1>2. IO!OutputInOrder
  BY DEF IOInv, WireInv, IO!OutputInOrder
<1>3. got \in Seq(1..NumIn) /\ accepted \in Seq(1..NumIn) /\ Len(got) <= Len(accepted)
      /\ \A i \in 1..Len(got) : got[i] = accepted[i]
  BY DEF IOInv, IOTypes, QueueTypes, StdinInv, Follows
<1>4. IO!IsPrefix(got, accepted)
  BY <1>3 DEF IO!IsPrefix
<1>5. /\ sawEof /\ pump.at # "none" => ended /\ got = accepted
      /\ pump.at = "none" => got = <<>>
  BY <1>3 DEF IOInv, StdinInv
<1> QED
  BY <1>1, <1>2, <1>4, <1>5 DEF IO!StdinFaithful

-----------------------------------------------------------------------------
(* The two together *)

\* Each of the two runs by its own specification, by the way they are put together.
LEMMA RunsBoth == RunSpec => Spec /\ IO!Spec
<1>1. RunInit => Init /\ IO!Init
  BY DEF RunInit
<1>2. [RunNext]_<<contained, vars, ioVars>> => [Next]_vars /\ [IO!Next]_(IO!vars)
  BY DEF RunNext, ioVars, IO!vars, IO!inVars, IO!procVars, IO!outVars
<1> QED
  BY <1>1, <1>2, PTL DEF RunSpec, Spec, IO!Spec

\* The invariant of the bytes holds of every run.
THEOREM IOInvariant == RunSpec => []IOInv
<1>1. RunInit => IOInv
  BY IOInitInv DEF RunInit
<1>2. IOInv /\ [RunNext]_<<contained, vars, ioVars>> => IOInv'
  BY IONextInv DEF RunNext
<1> QED
  BY <1>1, <1>2, PTL DEF RunSpec

\* RunTypeOK for every number of containers, requests and chunks and every capacity.
THEOREM RunTypes == RunSpec => []RunTypeOK
<1>1. TypeOK /\ IOInv => RunTypeOK
  BY IOInvImplies DEF RunTypeOK
<1> QED
  BY <1>1, RunsBoth, DockerTypes, IOInvariant, PTL

\* OutputInOrder for every number of chunks: what a streamer has read is the next
\* chunk of its stream, a stream's frames are written by one goroutine, and the
\* terminal frame only after wg.Wait has seen them all end.
THEOREM OutputOrdered == RunSpec => []OutputInOrder
<1>1. IOInv => OutputInOrder
  BY IOInvImplies DEF OutputInOrder
<1> QED
  BY <1>1, IOInvariant, PTL

\* StdinFaithful for every number of chunks and every capacity: while the program
\* runs, what it read, its pipe, the pump's hand and the channel hold, in this order,
\* what the channel accepted, and the pump closes the pipe with its hand and the
\* channel empty.
THEOREM StdinArrives == RunSpec => []StdinFaithful
<1>1. IOInv => StdinFaithful
  BY IOInvImplies DEF StdinFaithful
<1> QED
  BY <1>1, IOInvariant, PTL
=============================================================================
