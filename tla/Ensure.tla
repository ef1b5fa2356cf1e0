-------------------------------- MODULE Ensure --------------------------------
(***************************************************************************)
(* rsb ensure (cmdEnsure in cmd/rsb): copy the agent program to a temporary *)
(* name on the host, make it executable, rename it into place and compare   *)
(* checksums.  Each step is an ssh or scp of its own, which may fail before *)
(* or after its effect; the user may interrupt the command.  The host's     *)
(* files are inodes, as a rename can move one that is still being written.  *)
(***************************************************************************)
EXTENDS Naturals

CONSTANTS
    Ensures,    \* runs of rsb ensure
    Hosts,      \* the hosts they are for
    On,         \* On[e]: the host of e
    Forced,     \* the runs with --force
    Size,       \* chunks of an agent program
    MaxBuild,   \* bound: builds of the agent program after the first
    Exclusive,  \* whether the ensures of a host run one after the other
    InPlace     \* whether a build overwrites the local program where it is

NoFile == "none"
First == "first"    \* the inode of the agent that was installed before

ASSUME EnsureAssumption ==
    /\ On \in [Ensures -> Hosts]
    /\ Forced \subseteq Ensures
    /\ Size \in Nat \ {0} /\ MaxBuild \in Nat
    /\ {Exclusive, InPlace} \subseteq BOOLEAN
    /\ NoFile \notin Ensures /\ First \notin Ensures

VARIABLES
    built,      \* the version of the local agent program
    ens,        \* ens[e]: [at, hash, source, chunk]: where e is, the checksum it wants, what scp reads
    live,       \* live[h]: the inode at ~/.rsb/rsb-agent
    new,        \* new[h]: the inode at ~/.rsb/rsb-agent.new
    fd,         \* fd[e]: the inode e's scp writes to
    data,       \* data[h][i]: the version of each chunk of inode i of h
    verified    \* history: verified[h]: the version the last ensure of h found installed

ensureVars == <<built, ens, live, new, fd, data, verified>>

Hole == MaxBuild + 1      \* bytes that were not written yet
Inodes == Ensures \cup {First}
Versions == 0..MaxBuild
Programs == [1..Size -> Versions \cup {Hole}]
Program(v) == [k \in 1..Size |-> v]
Truncated == [k \in 1..Size |-> Hole]
Whole(p) == \E v \in Versions : p = Program(v)
Installed(h) == IF live[h] = NoFile THEN Truncated ELSE data[h][live[h]]
Unknown == MaxBuild + 1

Steps == {"idle", "check", "scp", "copy", "chmod", "mv", "verify", "cleanup", "ready", "failed"}

\* A run that holds nothing, as before its first step and after its last.
Blank(at) == [at |-> at, hash |-> 0, source |-> 0, chunk |-> 1]

EnsureInit ==
    /\ built = 0
    /\ ens = [e \in Ensures |-> Blank("idle")]
    /\ live \in {[h \in Hosts |-> i] : i \in {First, NoFile}}
    /\ new = [h \in Hosts |-> NoFile]
    /\ fd = [e \in Ensures |-> NoFile]
    /\ data = [h \in Hosts |-> [i \in Inodes |-> IF i = First THEN Program(0) ELSE Truncated]]
    /\ verified = [h \in Hosts |-> Unknown]

Goto(e, from, to) == ens[e].at = from /\ ens' = [ens EXCEPT ![e].at = to]
Return(e, from, to) == ens[e].at = from /\ ens' = [ens EXCEPT ![e] = Blank(to)]

-----------------------------------------------------------------------------
(* scripts/build.sh *)

Build ==
    /\ built < MaxBuild
    /\ built' = built + 1
    /\ UNCHANGED <<ens, live, new, fd, data, verified>>

-----------------------------------------------------------------------------
(* cmdEnsure *)

\* The host answers uname, and the local program is hashed.
Begin(e) ==
    /\ Exclusive => \A o \in Ensures : On[o] = On[e] => ens[o].at \in {"idle", "ready", "failed"}
    /\ ens[e].at = "idle"
    /\ ens' = [ens EXCEPT ![e].at = "check", ![e].hash = built]
    /\ verified' = [verified EXCEPT ![On[e]] = Unknown]
    /\ UNCHANGED <<built, live, new, fd, data>>

Matches(e) == Installed(On[e]) = Program(ens[e].hash)

\* Without --force the same checksum is enough.
UpToDate(e) ==
    /\ e \notin Forced /\ Matches(e)
    /\ Return(e, "check", "ready")
    /\ verified' = [verified EXCEPT ![On[e]] = ens[e].hash]
    /\ UNCHANGED <<built, live, new, fd, data>>

\* A checksum that differs, or cannot be had; then mkdir, which fails as scp does.
Stale(e) ==
    /\ Goto(e, "check", "scp")
    /\ UNCHANGED <<built, live, new, fd, data, verified>>

\* scp truncates what is at the temporary name, or creates it.
ScpOpen(e) ==
    LET h == On[e]
        i == IF new[h] = NoFile THEN e ELSE new[h] IN
    /\ ens[e].at = "scp"
    /\ ens' = [ens EXCEPT ![e].at = "copy", ![e].source = built]
    /\ new' = [new EXCEPT ![h] = i]
    /\ fd' = [fd EXCEPT ![e] = i]
    /\ data' = [data EXCEPT ![h][i] = Truncated]
    /\ UNCHANGED <<built, live, verified>>

ScpChunk(e) ==
    /\ ens[e].at = "copy" /\ ens[e].chunk <= Size
    /\ data' = [data EXCEPT ![On[e]][fd[e]][ens[e].chunk] = IF InPlace THEN built ELSE ens[e].source]
    /\ ens' = [ens EXCEPT ![e].chunk = @ + 1]
    /\ UNCHANGED <<built, live, new, fd, verified>>

ScpEnds(e) ==
    /\ ens[e].at = "copy" /\ ens[e].chunk = Size + 1
    /\ ens' = [ens EXCEPT ![e].at = "chmod", ![e].source = 0, ![e].chunk = 1]
    /\ fd' = [fd EXCEPT ![e] = NoFile]
    /\ UNCHANGED <<built, live, new, data, verified>>

Chmod(e) ==
    /\ new[On[e]] # NoFile
    /\ Goto(e, "chmod", "mv")
    /\ UNCHANGED <<built, live, new, fd, data, verified>>

\* The rename; ssh may report a failure although it was done.
Mv(e) ==
    LET h == On[e] IN
    /\ new[h] # NoFile
    /\ Goto(e, "mv", "verify") \/ Goto(e, "mv", "cleanup")
    /\ live' = [live EXCEPT ![h] = new[h]]
    /\ new' = [new EXCEPT ![h] = NoFile]
    /\ UNCHANGED <<built, fd, data, verified>>

\* Mutant of StepFails: the error of scp is not looked at.
StepFailsUnseen(e) ==
    /\ Goto(e, "copy", "chmod") \/ \E at \in {"scp", "chmod", "mv"} : Goto(e, at, "cleanup")
    /\ fd' = [fd EXCEPT ![e] = NoFile]
    /\ UNCHANGED <<built, live, new, data, verified>>

\* Any step may fail without its effect, scp in the middle of it.
StepFails(e) ==
    /\ \E at \in {"scp", "copy", "chmod", "mv"} : Goto(e, at, "cleanup")
    /\ fd' = [fd EXCEPT ![e] = NoFile]
    /\ UNCHANGED <<built, live, new, data, verified>>

\* rm -f of the temporary name, which may fail like the step before it.
Cleanup(e) ==
    /\ Return(e, "cleanup", "failed")
    /\ new' = [new EXCEPT ![On[e]] = NoFile] \/ new' = new
    /\ UNCHANGED <<built, live, fd, data, verified>>

\* Mutant of Verify: that there is a checksum is enough.
VerifyAny(e) ==
    /\ Return(e, "verify", "ready")
    /\ verified' = [verified EXCEPT ![On[e]] = ens[e].hash]
    /\ UNCHANGED <<built, live, new, fd, data>>

Verify(e) ==
    /\ Matches(e)
    /\ Return(e, "verify", "ready")
    /\ verified' = [verified EXCEPT ![On[e]] = ens[e].hash]
    /\ UNCHANGED <<built, live, new, fd, data>>

\* Another checksum, or none because ssh failed.
VerifyFails(e) ==
    /\ Return(e, "verify", "failed")
    /\ UNCHANGED <<built, live, new, fd, data, verified>>

\* Ctrl-C, at any step: ssh and scp end too, and nothing is cleaned up.
Interrupt(e) ==
    /\ ens[e].at \notin {"idle", "ready", "failed"}
    /\ ens' = [ens EXCEPT ![e] = Blank("failed")]
    /\ fd' = [fd EXCEPT ![e] = NoFile]
    /\ UNCHANGED <<built, live, new, data, verified>>

-----------------------------------------------------------------------------
EnsureStep(e) ==
    \/ Begin(e) \/ UpToDate(e) \/ Stale(e) \/ ScpOpen(e) \/ ScpChunk(e) \/ ScpEnds(e)
    \/ Chmod(e) \/ Mv(e) \/ StepFails(e) \/ Cleanup(e) \/ Verify(e) \/ VerifyFails(e) \/ Interrupt(e)

EnsureNext == Build \/ \E e \in Ensures : EnsureStep(e)

EnsureSpec == EnsureInit /\ [][EnsureNext]_ensureVars

-----------------------------------------------------------------------------
(* Properties *)

EnsureTypeOK ==
    /\ built \in Versions
    /\ ens \in [Ensures -> [at : Steps, hash : Versions, source : Versions, chunk : 1..(Size + 1)]]
    /\ live \in [Hosts -> Inodes \cup {NoFile}] /\ new \in [Hosts -> Inodes \cup {NoFile}]
    /\ fd \in [Ensures -> Inodes \cup {NoFile}]
    /\ data \in [Hosts -> [Inodes -> Programs]]
    /\ verified \in [Hosts -> Versions \cup {Unknown}]

\* The comment in cmdEnsure: at no instant does a half-installed agent exist,
\* whatever step fails and wherever the command is interrupted.
LiveIsWhole == \A h \in Hosts : live[h] # NoFile => Whole(Installed(h))

\* What an ensure found installed stays installed until another one begins.
VerifiedIsInstalled == \A h \in Hosts :
    verified[h] # Unknown => Installed(h) = Program(verified[h])
=============================================================================
