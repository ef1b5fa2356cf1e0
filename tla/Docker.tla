-------------------------------- MODULE Docker --------------------------------
(***************************************************************************)
(* The agent's docker adapter (internal/docker/docker.go): what a request   *)
(* with a container name runs, and where.  BuildArgv asks the docker        *)
(* command line up to four times, one call after the other and none of them *)
(* under the request's context, and the argv it returns names a container   *)
(* or a process once more.  Containers come and go between those calls;     *)
(* they, docker and nsenter are environment.                                *)
(***************************************************************************)
EXTENDS Naturals, FiniteSets

CONSTANTS
    Names,      \* names of containers
    Services,   \* the ones that are names of compose services as well
    NoName,     \* what is no name, and no service
    Objects,    \* names of docker images and networks
    Boxes,      \* containers, each made once
    NoBox,      \* what is no container
    Pids,       \* process ids of the host
    Reuse,      \* whether a process id is given again
    Calls,      \* requests for a container
    Want,       \* Want[q]: the name in the request
    Faults,     \* whether a docker command may fail without reason
    Hangs       \* whether one may never return

ASSUME DockerAssumption ==
    /\ NoName \notin Names /\ Services \subseteq Names
    /\ Objects \subseteq Names /\ Want \in [Calls -> Names]
    /\ NoBox \notin Boxes /\ Pids \subseteq Nat \ {0}
    /\ {Reuse, Faults, Hangs} \subseteq BOOLEAN

NoPid == 0

\* What the agent finds on its host: docker and nsenter on the PATH, the right to
\* use the docker socket, the right to enter namespaces, RSB_CONTAINER_MODE.
Hosts == [docker : BOOLEAN, nsenter : BOOLEAN, allowed : BOOLEAN, root : BOOLEAN, mode : {"docker", "nsenter"}]

VARIABLES
    host,       \* one of Hosts
    box,        \* box[b]: [at, name, serves, pid], serves the label of its compose service
    used,       \* process ids given so far
    call,       \* call[q]: [at, target, pid, end, in]
    cancelled,  \* the requests whose context has been cancelled
    calm,       \* (history) requests during which no container changed
    named,      \* (history) requests during which a container bore their name
    offered     \* (history) offered[q]: names that a running container of the service
                \* asked for has borne since the request began

world == <<box, used, calm, named, offered>>
vars == <<host, world, call, cancelled>>

Init ==
    /\ host \in Hosts
    /\ box = [b \in Boxes |-> [at |-> "absent", name |-> NoName, serves |-> NoName, pid |-> NoPid]]
    /\ used = {}
    /\ call = [q \in Calls |-> [at |-> "idle", target |-> NoName, pid |-> NoPid, end |-> "none", in |-> NoBox]]
    /\ cancelled = {} /\ calm = {} /\ named = {} /\ offered = [q \in Calls |-> {}]

Bearing(n) == {b \in Boxes : box[b].at \in {"running", "stopped"} /\ box[b].name = n}
Running(n) == {b \in Bearing(n) : box[b].at = "running"}
Serving(n) == {b \in Boxes : box[b].at = "running" /\ box[b].serves = n}

-----------------------------------------------------------------------------
(* The containers of the host *)

Active(q) == call[q].at \notin {"idle", "done"}

\* A container changes: no request in progress is calm any more.
Change(b, c) ==
    /\ box' = [box EXCEPT ![b] = c]
    /\ used' = used \cup ({c.pid} \ {NoPid})
    /\ calm' = {}
    /\ named' = {q \in named : Active(q) => Bearing(Want[q])' # {}}
    /\ offered' = [q \in Calls |-> IF Active(q) /\ c.at = "running" /\ c.serves = Want[q]
                                  THEN offered[q] \cup {c.name} ELSE offered[q]]
    /\ UNCHANGED <<host, call, cancelled>>

FreePid(p) == IF Reuse THEN \A b \in Boxes : box[b].pid # p ELSE p \notin used

\* Names are unique among the containers that exist; whoever makes one gives it the
\* label of a service, or none, whatever its name.
Create(b, n, s, p) ==
    /\ box[b].at = "absent" /\ Bearing(n) = {} /\ FreePid(p)
    /\ Change(b, [at |-> "running", name |-> n, serves |-> s, pid |-> p])

Restart(b, p) ==
    /\ box[b].at = "stopped" /\ FreePid(p)
    /\ Change(b, [box[b] EXCEPT !.at = "running", !.pid = p])

Stop(b) ==
    /\ box[b].at = "running"
    /\ Change(b, [box[b] EXCEPT !.at = "stopped", !.pid = NoPid])

Remove(b) ==
    /\ box[b].at = "stopped"
    /\ Change(b, [box[b] EXCEPT !.at = "removed"])

-----------------------------------------------------------------------------
(* BuildArgv, and the program it makes *)

\* What a docker command may return: an answer, or a failure.
Replies == IF ~host.docker \/ ~host.allowed THEN {FALSE} ELSE IF Faults THEN BOOLEAN ELSE {TRUE}

Goto(q, at) == call' = [call EXCEPT ![q].at = at] /\ UNCHANGED <<host, world, cancelled>>
GotoFor(q, at, target) ==
    call' = [call EXCEPT ![q].at = at, ![q].target = target] /\ UNCHANGED <<host, world, cancelled>>
Ends(q, end, b) ==
    call' = [call EXCEPT ![q].at = "done", ![q].end = end, ![q].in = b] /\ UNCHANGED <<host, world, cancelled>>

\* A request with a container; ResolveContainer gives the name back.
Begin(q) ==
    /\ call[q].at = "idle"
    /\ call' = [call EXCEPT ![q].at = "inspect", ![q].target = Want[q]]
    /\ calm' = calm \cup {q}
    /\ named' = IF Bearing(Want[q]) # {} THEN named \cup {q} ELSE named
    /\ offered' = [offered EXCEPT ![q] = {box[b].name : b \in Serving(Want[q])}]
    /\ UNCHANGED <<host, box, used, cancelled>>

\* A cancel, or the request's timeout, has nothing to kill before the program runs.
Cancel(q) ==
    /\ Active(q)
    /\ cancelled' = cancelled \cup {q}
    /\ UNCHANGED <<host, world, call>>

\* Mutants of InspectName: the service is looked up first; the error is not looked at.
InspectNothing(q) == call[q].at = "inspect" /\ Goto(q, "lookup")
InspectUnchecked(q) == call[q].at = "inspect" /\ Goto(q, "mode")

\* docker inspect answers for a container that exists, running or not, and for any
\* other object of that name that has an id.
InspectName(q) ==
    /\ call[q].at = "inspect"
    /\ \E answered \in Replies :
         Goto(q, IF answered /\ (Bearing(Want[q]) # {} \/ Want[q] \in Objects) THEN "mode" ELSE "lookup")

\* Mutant of FindService: the list is not filtered.
FindAny(q) ==
    /\ call[q].at = "lookup"
    /\ \E answered \in Replies, n \in Names : answered /\ Running(n) # {} /\ GotoFor(q, "mode", n)

\* docker ps lists the running containers of the service; the first of them is the
\* target.
FindService(q) ==
    /\ call[q].at = "lookup"
    /\ \E answered \in Replies :
         \/ answered /\ \E b \in Serving(Want[q]) : GotoFor(q, "mode", box[b].name)
         \/ (answered => Serving(Want[q]) = {}) /\ Goto(q, "mode")

\* No docker, or nsenter if it is asked for and there.
ChooseMode(q) ==
    /\ call[q].at = "mode"
    /\ IF ~host.docker THEN Ends(q, "no runtime", NoBox)
       ELSE Goto(q, IF host.mode = "nsenter" /\ host.nsenter THEN "pid" ELSE "info")

\* containerPID, of a container that runs; otherwise docker exec after all.
InspectPid(q) ==
    /\ call[q].at = "pid"
    /\ \E answered \in Replies :
         \/ answered /\ \E b \in Running(call[q].target) :
              /\ call' = [call EXCEPT ![q].at = "exec", ![q].pid = box[b].pid]
              /\ UNCHANGED <<host, world, cancelled>>
         \/ (answered => Running(call[q].target) = {}) /\ Goto(q, "info")

\* checkDockerAccess: what docker info prints says why it failed.  (A daemon that is
\* down prints the name of its socket, and passes for a missing right.)
CheckAccess(q) ==
    /\ call[q].at = "info"
    /\ \E answered \in Replies :
         IF answered THEN Goto(q, "exec")
         ELSE \E end \in {"permission"} \cup (IF host.allowed THEN {"unreachable"} ELSE {}) : Ends(q, end, NoBox)

\* The argv is run, unless the context is cancelled.  docker exec looks for the
\* name again; nsenter enters whatever has the process id, if it may.
Execute(q) ==
    /\ call[q].at = "exec"
    /\ IF q \in cancelled THEN Ends(q, "cancelled", NoBox)
       ELSE LET there == IF call[q].pid # NoPid
                         THEN {b \in Boxes : host.root /\ box[b].at = "running" /\ box[b].pid = call[q].pid}
                         ELSE Running(call[q].target) IN
            \E answered \in (IF call[q].pid # NoPid THEN {TRUE} ELSE Replies) :
              \/ answered /\ \E b \in there : Ends(q, "ran", b)
              \/ (answered => there = {}) /\ Ends(q, "failed", NoBox)

-----------------------------------------------------------------------------
\* The calls that wait for docker, and the ones that do not.
AskDocker(q) == InspectName(q) \/ FindService(q) \/ InspectPid(q) \/ CheckAccess(q)
Advance(q) == ChooseMode(q) \/ Execute(q)

Next ==
    \/ \E q \in Calls : Begin(q) \/ Cancel(q) \/ AskDocker(q) \/ Advance(q)
    \/ \E b \in Boxes : \/ Stop(b) \/ Remove(b)
                       \/ \E p \in Pids : Restart(b, p) \/ \E n \in Names, s \in Services \cup {NoName} : Create(b, n, s, p)

Spec == Init /\ [][Next]_vars

\* The agent goes on; docker answers unless it hangs.
FairSpec ==
    /\ Spec
    /\ \A q \in Calls : WF_vars(Advance(q)) /\ (~Hangs => WF_vars(AskDocker(q)))

-----------------------------------------------------------------------------
(* Properties *)

\* Types, the name a container keeps, and a process exactly for what runs.
TypeOK ==
    /\ host \in Hosts
    /\ box \in [Boxes -> [at : {"absent", "running", "stopped", "removed"}, name : Names \cup {NoName},
                          serves : Services \cup {NoName}, pid : Pids \cup {NoPid}]]
    /\ \A b \in Boxes : /\ box[b].at = "absent" <=> box[b].name = NoName
                        /\ box[b].at = "running" <=> box[b].pid # NoPid
    /\ \A b, o \in Boxes : box[b].pid = box[o].pid /\ box[b].pid # NoPid => b = o
    /\ used \subseteq Pids /\ {cancelled, calm, named} \subseteq SUBSET Calls
    /\ offered \in [Calls -> SUBSET Names]
    /\ call \in [Calls -> [at : {"idle", "inspect", "lookup", "mode", "pid", "info", "exec", "done"},
                           target : Names \cup {NoName}, pid : Pids \cup {NoPid},
                           end : {"none", "ran", "failed", "no runtime", "permission", "unreachable", "cancelled"},
                           in : Boxes \cup {NoBox}]]
    /\ \A q \in Calls : /\ call[q].at = "idle" <=> call[q].target = NoName
                        /\ call[q].end = "ran" <=> call[q].in # NoBox

\* Whatever containers do between the calls to docker, a command runs in a
\* container of the name asked for, or of a name that a running container of that
\* service has borne since the request began.  (One of another service can only get
\* it by taking the name over meanwhile: RunsInService.)
RunsWhereNamed == \A q \in Calls :
    call[q].end = "ran" => box[call[q].in].name \in {Want[q]} \cup offered[q]

\* An exact name goes before a service: with a container of that name there all the
\* time, the command does not run in another one.
NameGoesFirst == \A q \in Calls :
    call[q].end = "ran" /\ q \in named => box[call[q].in].name = Want[q]

\* The request got its chance: nothing changed while it ran, docker may be used,
\* and it was not cancelled.
Undisturbed(q) == call[q].at = "done" /\ q \in calm \ cancelled /\ host.docker /\ host.allowed /\ ~Faults

RanInService(q) == call[q].end = "ran" /\ box[call[q].in].serves = Want[q]

\* CHANGELOG: --container api finds myproject-api-1, so that a service that has a
\* running container, and no container its name, is where the command runs.
FindsService == \A q \in Calls :
    Undisturbed(q) /\ (host.mode = "docker" \/ host.root) /\ Bearing(Want[q]) = {} /\ Serving(Want[q]) # {} => RanInService(q)

\* resolveContainerName gives docker exec a name, not an id: by the time it runs,
\* the name may be that of a container without the label.
RunsInService == \A q \in Calls :
    call[q].end = "ran" => box[call[q].in].name = Want[q] \/ RanInService(q)

\* The comment on SocketPermissionError: docker is there and the user may not use
\* its socket.
PermissionIsSaid == \A q \in Calls :
    call[q].at = "done" /\ host.docker /\ ~host.allowed => call[q].end = "permission"

\* The same comment, the other way round: who may use it is not told to ask for it.
HintIsRight == \A q \in Calls : call[q].end = "permission" => ~host.allowed

\* The comment in resolveContainerName asks for a real running container.
FindsRunning == \A q \in Calls :
    Undisturbed(q) /\ (host.mode = "docker" \/ host.root) /\ Running(Want[q]) = {} /\ Serving(Want[q]) # {} => RanInService(q)

\* CHANGELOG: nsenter falls back to docker exec when it fails.
NsenterFallsBack == \A q \in Calls :
    Undisturbed(q) /\ Bearing(Want[q]) = {} /\ Serving(Want[q]) # {} => RanInService(q)

\* A request that is cancelled or timed out ends.
CancelledEnds == \A q \in Calls : (q \in cancelled) ~> (call[q].at = "done")
=============================================================================
