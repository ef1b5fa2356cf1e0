---------------------------- MODULE Deploy_proofs -----------------------------
(***************************************************************************)
(* Proofs about rsb ensure beside the daemon's pool, for every set of       *)
(* hosts, ensures, clients and builds: what is installed is whole, what was *)
(* verified is what gets started, and a host has one agent.                 *)
(***************************************************************************)
EXTENDS Deploy, TLAPS

Active(e) == ens[e].at \notin {"idle", "ready", "failed"}

\* The ensures of a host run one after the other.
Alone == \A e, o \in Ensures : On[e] = On[o] /\ Active(e) /\ Active(o) => e = o

Temporary(e) == data[On[e]][new[On[e]]]

\* An ensure: a copy starts at the first chunk, and the file it may create does not
\* exist before; scp writes to the temporary name, and what it has written comes
\* from one build; what is renamed is whole; nobody is at work on a host that was
\* verified.
RunInv(e) ==
    /\ ens[e].at \in {"idle", "check", "scp"} =>
         ens[e].chunk = 1 /\ live[On[e]] # e /\ new[On[e]] # e
    /\ ens[e].at = "copy" =>
         /\ new[On[e]] # NoFile /\ fd[e] = new[On[e]]
         /\ \A k \in 1..Size : k < ens[e].chunk => Temporary(e)[k] = ens[e].source
    /\ ens[e].at \in {"chmod", "mv"} => new[On[e]] # NoFile /\ Whole(Temporary(e))
    /\ Active(e) => verified[On[e]] = Unknown

\* A host: the temporary name and the final one are never the same file; what is
\* installed is whole, and is what was verified.
HostInv(h) ==
    /\ new[h] # NoFile => new[h] # live[h]
    /\ live[h] # NoFile => Whole(Installed(h))
    /\ verified[h] # Unknown => Installed(h) = Program(verified[h])

EnsureInv ==
    /\ EnsureTypeOK /\ Alone
    /\ \A e \in Ensures : RunInv(e)
    /\ \A h \in Hosts : HostInv(h)

\* Everything about the pool: a connection that is starting is its client's, who
\* holds the mutex; one that is up is the one in the pool.
PoolInv ==
    /\ Pool!PoolTypeOK
    /\ conn \in [Clients -> [program : Programs, at : {"none", "starting", "up", "closed"}]]
    /\ client \in [Clients -> {"lock", "starting", "attached", "refused"}]
    /\ \A c \in Clients :
         /\ conn[c].at = "starting" <=> client[c] = "starting"
         /\ conn[c].at = "up" => pool[Want[c]] = c
         /\ client[c] = "starting" => ~Pool!Usable(Want[c])
         /\ client[c] \in {"lock", "starting"} => \A h \in Hosts : pool[h] # c

-----------------------------------------------------------------------------
(* The files of the hosts *)

\* What the constants are.
LEMMA EnsureConstants ==
    /\ Size \in Nat \ {0} /\ MaxBuild \in Nat
    /\ \A e \in Ensures : On[e] \in Hosts /\ e # NoFile /\ e # First /\ e \in Inodes
    /\ NoFile # First /\ First \in Inodes /\ NoFile \notin Inodes
BY EnsureAssumption DEF NoFile, First, Inodes

\* The agent program of a build, and an empty file, are programs.
LEMMA ProgramTypes ==
    /\ Truncated \in Programs
    /\ \A v \in Versions : Program(v) \in Programs /\ Whole(Program(v)) /\ v # Unknown
BY EnsureConstants DEF Truncated, Programs, Program, Whole, Versions, Hole, Unknown

\* What is at the final name is a program.
LEMMA InstalledType ==
    ASSUME EnsureTypeOK, NEW h \in Hosts
    PROVE  Installed(h) \in Programs
BY ProgramTypes DEF EnsureTypeOK, Installed

\* The initial states satisfy the invariant.
LEMMA EnsureInitInv == EnsureInit => EnsureInv
<1> SUFFICES ASSUME EnsureInit PROVE EnsureInv
  OBVIOUS
<1> USE EnsureConstants, ProgramTypes DEF EnsureInit
<1>1. 0 \in Versions /\ Unknown = MaxBuild + 1
  BY DEF Versions, Unknown
<1>2. live \in [Hosts -> Inodes \cup {NoFile}] /\ (\A h \in Hosts : live[h] \in {First, NoFile})
  OBVIOUS
<1>3. EnsureTypeOK
  <2>1. ens \in [Ensures -> [at : Steps, hash : Versions, source : Versions, chunk : 1..(Size + 1)]]
    BY <1>1 DEF Blank, Steps
  <2>2. data \in [Hosts -> [Inodes -> Programs]]
    BY <1>1
  <2> QED
    BY <1>1, <1>2, <2>1, <2>2 DEF EnsureTypeOK
<1>4. Alone /\ \A e \in Ensures : RunInv(e)
  BY <1>2 DEF Alone, RunInv, Active, Blank
<1>5. \A h \in Hosts : live[h] # NoFile => Installed(h) = Program(0)
  BY <1>2 DEF Installed
<1>6. \A h \in Hosts : HostInv(h)
  BY <1>1, <1>5 DEF HostInv
<1> QED
  BY <1>3, <1>4, <1>6 DEF EnsureInv

Runs == [at : Steps, hash : Versions, source : Versions, chunk : 1..(Size + 1)]

\* The record of an ensure keeps its type.
LEMMA RunsType ==
    ASSUME EnsureTypeOK, NEW e \in Ensures
    PROVE  /\ \A at \in Steps : [ens EXCEPT ![e].at = at] \in [Ensures -> Runs]
           /\ \A at \in Steps : [ens EXCEPT ![e] = Blank(at)] \in [Ensures -> Runs]
           /\ ens \in [Ensures -> Runs] /\ ens[e] \in Runs
<1>1. ens \in [Ensures -> Runs] /\ ens[e] \in Runs
  BY DEF EnsureTypeOK, Runs
<1>2. \A at \in Steps : Blank(at) \in Runs
  BY EnsureConstants DEF Blank, Runs, Versions
<1>3. \A at \in Steps : [ens[e] EXCEPT !.at = at] \in Runs
  BY <1>1 DEF Runs
<1> QED
  BY <1>1, <1>2, <1>3

\* Every step of an ensure, and a build, keeps the types, whether the ensures of a
\* host are exclusive or not.
LEMMA EnsureTypeStep == EnsureTypeOK /\ EnsureNext => EnsureTypeOK'
<1> SUFFICES ASSUME EnsureTypeOK, EnsureNext PROVE EnsureTypeOK'
  OBVIOUS
<1>1. CASE Build
  BY <1>1, EnsureConstants DEF Build, Versions, EnsureTypeOK
<1>2. ASSUME NEW e \in Ensures, EnsureStep(e) PROVE EnsureTypeOK'
  <2>1. ens' \in [Ensures -> Runs]
    <3>1. CASE Begin(e) \/ ScpOpen(e) \/ ScpChunk(e) \/ ScpEnds(e)
      <4>1. /\ 0 \in Versions /\ 1 \in 1..(Size + 1) /\ built \in Versions
            /\ {"check", "copy", "chmod"} \subseteq Steps
        BY EnsureConstants DEF Versions, Steps, EnsureTypeOK
      <4>2. CASE Begin(e)
        BY <4>1, <4>2, RunsType DEF Begin, Runs
      <4>3. CASE ScpOpen(e)
        BY <4>1, <4>3, RunsType DEF ScpOpen, Runs
      <4>4. CASE ScpChunk(e)
        BY <4>4, RunsType, EnsureConstants DEF ScpChunk, Runs
      <4>5. CASE ScpEnds(e)
        BY <4>1, <4>5, RunsType, ZenonT(60) DEF ScpEnds, Runs
      <4> QED
        BY <3>1, <4>2, <4>3, <4>4, <4>5
    <3>2. CASE \/ UpToDate(e) \/ Stale(e) \/ Chmod(e) \/ Mv(e) \/ StepFails(e) \/ Cleanup(e)
               \/ Verify(e) \/ VerifyFails(e) \/ Interrupt(e)
      <4>1. PICK at \in Steps : ens' = [ens EXCEPT ![e].at = at] \/ ens' = [ens EXCEPT ![e] = Blank(at)]
        BY <3>2 DEF UpToDate, Stale, Chmod, Mv, StepFails, Cleanup, Verify, VerifyFails, Interrupt, Goto,
           Return, Steps
      <4> QED
        BY <4>1, RunsType
    <3> QED
      BY <1>2, <3>1, <3>2 DEF EnsureStep
  <2>2. /\ built' \in Versions
        /\ live' \in [Hosts -> Inodes \cup {NoFile}] /\ new' \in [Hosts -> Inodes \cup {NoFile}]
        /\ fd' \in [Ensures -> Inodes \cup {NoFile}]
    <3>1. CASE ScpOpen(e) \/ ScpEnds(e) \/ Mv(e)
      <4>1. On[e] \in Hosts /\ new[On[e]] \in Inodes \cup {NoFile} /\ e \in Inodes
        BY EnsureConstants DEF EnsureTypeOK
      <4>2. CASE ScpOpen(e)
        BY <4>1, <4>2 DEF EnsureTypeOK, ScpOpen
      <4>3. CASE ScpEnds(e)
        BY <4>1, <4>3 DEF EnsureTypeOK, ScpEnds
      <4>4. CASE Mv(e)
        BY <4>1, <4>4 DEF EnsureTypeOK, Mv
      <4> QED
        BY <3>1, <4>2, <4>3, <4>4
    <3>2. CASE StepFails(e) \/ Cleanup(e) \/ Interrupt(e)
      BY <3>2, EnsureConstants DEF EnsureTypeOK, StepFails, Cleanup, Interrupt
    <3>3. CASE \/ Begin(e) \/ UpToDate(e) \/ Stale(e) \/ ScpChunk(e) \/ Chmod(e) \/ Verify(e) \/ VerifyFails(e)
      BY <3>3 DEF EnsureTypeOK, Begin, UpToDate, Stale, ScpChunk, Chmod, Verify, VerifyFails
    <3> QED
      BY <1>2, <3>1, <3>2, <3>3 DEF EnsureStep
  <2>3. verified' \in [Hosts -> Versions \cup {Unknown}]
    BY <1>2, RunsType DEF EnsureTypeOK, EnsureStep, Begin, UpToDate, Stale, ScpOpen, ScpChunk, ScpEnds, Chmod,
       Mv, StepFails, Cleanup, Verify, VerifyFails, Interrupt, Runs
  <2>4. data' \in [Hosts -> [Inodes -> Programs]]
    <3>1. CASE ScpChunk(e)
      <4> DEFINE v == IF InPlace THEN built ELSE ens[e].source
      <4>1. v \in Versions /\ ens[e].chunk \in 1..Size
        BY <3>1, RunsType, EnsureConstants DEF EnsureTypeOK, ScpChunk, Runs
      <4>2. \A d \in Programs : [d EXCEPT ![ens[e].chunk] = v] \in Programs
        BY <4>1 DEF Programs
      <4>3. \A f \in [Inodes -> Programs] : [f EXCEPT ![fd[e]][ens[e].chunk] = v] \in [Inodes -> Programs]
        BY <4>2
      <4> QED
        BY <3>1, <4>3 DEF ScpChunk, EnsureTypeOK
    <3>2. CASE ScpOpen(e)
      BY <3>2, ProgramTypes DEF ScpOpen, EnsureTypeOK
    <3> QED
      BY <1>2, <3>1, <3>2 DEF EnsureTypeOK, EnsureStep, Begin, UpToDate, Stale, ScpEnds, Chmod,
         Mv, StepFails, Cleanup, Verify, VerifyFails, Interrupt
  <2> QED
    BY <2>1, <2>2, <2>3, <2>4 DEF EnsureTypeOK, Runs
<1> QED
  BY <1>1, <1>2 DEF EnsureNext

\* A step of e that leaves the other hosts alone, and the other runs, keeps what
\* holds of them.
LEMMA Elsewhere ==
    ASSUME EnsureInv, NEW e \in Ensures,
           \A o \in Ensures \ {e} : On[o] = On[e] => ~Active(o),
           \A o \in Ensures \ {e} : ens'[o] = ens[o] /\ fd'[o] = fd[o],
           \A g \in Hosts \ {On[e]} :
               /\ live'[g] = live[g] /\ new'[g] = new[g]
               /\ data'[g] = data[g] /\ verified'[g] = verified[g],
           {live'[On[e]], new'[On[e]]} \subseteq {live[On[e]], new[On[e]], e, NoFile}
    PROVE  /\ Alone'
           /\ \A o \in Ensures \ {e} : RunInv(o)'
           /\ \A g \in Hosts \ {On[e]} : HostInv(g)'
<1> USE EnsureConstants
<1>1. Alone'
  BY DEF EnsureInv, Alone, Active
<1>2. ASSUME NEW o \in Ensures \ {e} PROVE RunInv(o)'
  <2>1. RunInv(o) /\ ens'[o] = ens[o] /\ fd'[o] = fd[o] /\ On[o] \in Hosts
    BY DEF EnsureInv
  <2>2. CASE On[o] # On[e]
    <3>1. /\ live'[On[o]] = live[On[o]] /\ new'[On[o]] = new[On[o]]
          /\ data'[On[o]] = data[On[o]] /\ verified'[On[o]] = verified[On[o]]
      BY <2>1, <2>2
    <3> QED
      BY <2>1, <3>1 DEF RunInv, Active, Temporary, Whole
  <2>3. CASE On[o] = On[e]
    <3>1. ens[o].at \in {"idle", "ready", "failed"}
      BY <2>3 DEF Active
    <3>2. ens[o].at = "idle" => ens'[o].chunk = 1 /\ live'[On[o]] # o /\ new'[On[o]] # o
      BY <2>1, <2>3 DEF RunInv
    <3> QED
      BY <2>1, <3>1, <3>2 DEF RunInv, Active
  <2> QED
    BY <2>2, <2>3
<1>3. ASSUME NEW g \in Hosts \ {On[e]} PROVE HostInv(g)'
  <2>1. /\ HostInv(g) /\ live'[g] = live[g] /\ new'[g] = new[g]
        /\ data'[g] = data[g] /\ verified'[g] = verified[g]
    BY DEF EnsureInv
  <2>2. Installed(g)' = Installed(g)
    BY <2>1 DEF Installed
  <2> QED
    BY <2>1, <2>2 DEF HostInv, Whole
<1> QED
  BY <1>1, <1>2, <1>3

\* A new build changes nothing on the hosts.
LEMMA BuildInv == EnsureInv /\ Build => EnsureInv'
<1> SUFFICES ASSUME EnsureInv, Build PROVE EnsureInv'
  OBVIOUS
<1>1. EnsureTypeOK'
  BY EnsureTypeStep DEF EnsureInv, EnsureNext
<1>2. UNCHANGED <<ens, live, new, fd, data, verified>>
  BY DEF Build
<1>3. Alone' /\ \A e \in Ensures : RunInv(e)'
  BY <1>2 DEF EnsureInv, Alone, Active, RunInv, Temporary, Whole
<1>4. \A h \in Hosts : HostInv(h)'
  BY <1>2 DEF EnsureInv, HostInv, Installed, Whole
<1> QED
  BY <1>1, <1>3, <1>4 DEF EnsureInv

\* An ensure that begins finds no other on its host, and takes back what was
\* verified.
LEMMA BeginInv ==
    ASSUME Exclusive, EnsureInv, NEW e \in Ensures, Begin(e)
    PROVE  EnsureInv'
<1> USE EnsureConstants DEF Begin
<1>1. EnsureTypeOK'
  BY EnsureTypeStep DEF EnsureNext, EnsureStep, EnsureInv
<1>2. /\ ens \in [Ensures -> Runs] /\ verified \in [Hosts -> Versions \cup {Unknown}]
      /\ RunInv(e) /\ HostInv(On[e])
  BY RunsType DEF EnsureInv, EnsureTypeOK
<1>3. \A o \in Ensures \ {e} : On[o] = On[e] => ~Active(o)
  BY DEF Active
<1>4. /\ Alone' /\ \A o \in Ensures \ {e} : RunInv(o)'
      /\ \A g \in Hosts \ {On[e]} : HostInv(g)'
  BY <1>2, <1>3, Elsewhere
<1>5. RunInv(e)'
  BY <1>2 DEF RunInv, Runs
<1>6. HostInv(On[e])'
  BY <1>2 DEF HostInv, Installed, Whole
<1> QED
  BY <1>1, <1>4, <1>5, <1>6 DEF EnsureInv

\* What an active ensure may rely on.
LEMMA AtWork ==
    ASSUME EnsureInv, NEW e \in Ensures, Active(e)
    PROVE  /\ \A o \in Ensures \ {e} : On[o] = On[e] => ~Active(o)
           /\ ens \in [Ensures -> Runs] /\ fd \in [Ensures -> Inodes \cup {NoFile}]
           /\ live \in [Hosts -> Inodes \cup {NoFile}] /\ new \in [Hosts -> Inodes \cup {NoFile}]
           /\ data \in [Hosts -> [Inodes -> Programs]]
           /\ verified \in [Hosts -> Versions \cup {Unknown}]
           /\ RunInv(e) /\ HostInv(On[e])
<1>1. \A o \in Ensures \ {e} : On[o] = On[e] => ~Active(o)
  BY DEF EnsureInv, Alone
<1> QED
  BY <1>1, EnsureConstants DEF EnsureInv, EnsureTypeOK, Runs

\* Steps that move on without a change of the files, and those that give up.
LEMMA QuietStepInv ==
    ASSUME EnsureInv, NEW e \in Ensures,
           \/ Stale(e) \/ Chmod(e) \/ StepFails(e) \/ Cleanup(e) \/ VerifyFails(e) \/ Interrupt(e)
    PROVE  EnsureInv'
<1> USE EnsureConstants DEF Goto, Return, Blank
<1>1. EnsureTypeOK' /\ Active(e)
  BY EnsureTypeStep DEF EnsureNext, EnsureStep, EnsureInv, Stale, Chmod, StepFails, Cleanup, VerifyFails,
     Interrupt, Active
<1>2. /\ \A o \in Ensures \ {e} : ens'[o] = ens[o] /\ fd'[o] = fd[o]
      /\ \/ ens[e].at = "check" /\ ens'[e].at = "scp" /\ ens'[e].chunk = ens[e].chunk
         \/ ens[e].at = "chmod" /\ ens'[e].at = "mv"
         \/ ens'[e].at \in {"cleanup", "failed"}
      /\ UNCHANGED <<live, data, verified>>
  BY <1>1, AtWork DEF Runs, Stale, Chmod, StepFails, Cleanup, VerifyFails, Interrupt
<1>3. \/ new' = new
      \/ new' = [new EXCEPT ![On[e]] = NoFile] /\ ens'[e].at = "failed"
  BY <1>1, AtWork DEF Runs, Stale, Chmod, StepFails, Cleanup, VerifyFails, Interrupt
<1>4. /\ Alone' /\ \A o \in Ensures \ {e} : RunInv(o)'
      /\ \A g \in Hosts \ {On[e]} : HostInv(g)'
  BY <1>1, <1>2, <1>3, AtWork, Elsewhere
<1>5. RunInv(e)'
  BY <1>1, <1>2, <1>3, AtWork DEF RunInv, Active, Temporary, Whole
<1>6. HostInv(On[e])'
  BY <1>1, <1>2, <1>3, AtWork DEF HostInv, Installed, Whole
<1> QED
  BY <1>1, <1>4, <1>5, <1>6 DEF EnsureInv

\* A checksum that matches: the program is whole and stays until the next ensure.
LEMMA ReadyInv ==
    ASSUME EnsureInv, NEW e \in Ensures, UpToDate(e) \/ Verify(e)
    PROVE  EnsureInv'
<1> USE EnsureConstants DEF Return, Blank, Matches
<1>1. EnsureTypeOK' /\ Active(e)
  BY EnsureTypeStep DEF EnsureNext, EnsureStep, EnsureInv, UpToDate, Verify, Active
<1>2. /\ \A o \in Ensures \ {e} : ens'[o] = ens[o]
      /\ ens'[e].at = "ready"
      /\ UNCHANGED <<live, new, fd, data>>
      /\ verified' = [verified EXCEPT ![On[e]] = ens[e].hash]
      /\ Installed(On[e]) = Program(ens[e].hash)
  BY <1>1, AtWork DEF UpToDate, Verify, Runs
<1>3. /\ Alone' /\ \A o \in Ensures \ {e} : RunInv(o)'
      /\ \A g \in Hosts \ {On[e]} : HostInv(g)'
  BY <1>1, <1>2, AtWork, Elsewhere
<1>4. RunInv(e)'
  BY <1>2 DEF RunInv, Active
<1>5. HostInv(On[e])'
  BY <1>1, <1>2, AtWork DEF HostInv, Installed, Whole
<1> QED
  BY <1>1, <1>3, <1>4, <1>5 DEF EnsureInv

\* Opening the temporary file does not touch the installed program.
LEMMA ScpOpenInv ==
    ASSUME EnsureInv, NEW e \in Ensures, ScpOpen(e)
    PROVE  EnsureInv'
<1> USE EnsureConstants
<1> DEFINE h == On[e]
           i == IF new[h] = NoFile THEN e ELSE new[h]
<1>1. EnsureTypeOK' /\ Active(e)
  BY EnsureTypeStep DEF EnsureNext, EnsureStep, EnsureInv, ScpOpen, Active
<1>2. /\ \A o \in Ensures \ {e} : ens'[o] = ens[o] /\ fd'[o] = fd[o]
      /\ ens[e].at = "scp" /\ ens'[e].at = "copy" /\ ens'[e].chunk = ens[e].chunk /\ fd'[e] = i
      /\ i \in Inodes /\ new' = [new EXCEPT ![h] = i] /\ live' = live /\ verified' = verified
      /\ \A g \in Hosts \ {h} : data'[g] = data[g]
      /\ \A j \in Inodes \ {i} : data'[h][j] = data[h][j]
  BY <1>1, AtWork DEF ScpOpen, Runs
<1>3. i # live[h] /\ i # NoFile
  BY <1>1, <1>2, AtWork DEF RunInv, HostInv
<1>4. /\ Alone' /\ \A o \in Ensures \ {e} : RunInv(o)'
      /\ \A g \in Hosts \ {h} : HostInv(g)'
  BY <1>1, <1>2, AtWork, Elsewhere
<1>5. RunInv(e)'
  <2>1. ens'[e].chunk = 1 /\ verified'[h] = Unknown
    BY <1>1, <1>2, AtWork DEF RunInv
  <2>2. new'[h] = i
    BY <1>1, <1>2, AtWork
  <2> QED
    BY <1>2, <1>3, <2>1, <2>2 DEF RunInv
<1>6. HostInv(h)'
  <2>1. Installed(h)' = Installed(h)
    BY <1>1, <1>2, <1>3, AtWork DEF Installed
  <2> QED
    BY <1>1, <1>2, <1>3, <2>1, AtWork DEF HostInv, Whole
<1> QED
  BY <1>1, <1>4, <1>5, <1>6 DEF EnsureInv

\* A chunk goes to the temporary file and comes from the build scp opened.
LEMMA ScpChunkInv ==
    ASSUME ~InPlace, EnsureInv, NEW e \in Ensures, ScpChunk(e)
    PROVE  EnsureInv'
<1> USE EnsureConstants
<1> DEFINE h == On[e]
           i == fd[e]
<1>1. EnsureTypeOK' /\ Active(e)
  BY EnsureTypeStep DEF EnsureNext, EnsureStep, EnsureInv, ScpChunk, Active
<1>2. /\ i = new[h] /\ i \in Inodes /\ i # live[h]
      /\ ens[e].chunk \in 1..Size
  BY <1>1, AtWork DEF ScpChunk, RunInv, HostInv, Runs
<1>3. /\ \A o \in Ensures \ {e} : ens'[o] = ens[o]
      /\ ens'[e].at = "copy" /\ ens'[e].chunk = ens[e].chunk + 1 /\ ens'[e].source = ens[e].source
      /\ UNCHANGED <<fd, new, live, verified>>
      /\ \A g \in Hosts \ {h} : data'[g] = data[g]
      /\ \A j \in Inodes \ {i} : data'[h][j] = data[h][j]
  BY <1>1, AtWork DEF ScpChunk, Runs
<1>4. data'[h][i] = [data[h][i] EXCEPT ![ens[e].chunk] = ens[e].source]
  BY <1>1, <1>2, AtWork DEF ScpChunk
<1>5. /\ Alone' /\ \A o \in Ensures \ {e} : RunInv(o)'
      /\ \A g \in Hosts \ {h} : HostInv(g)'
  BY <1>1, <1>3, AtWork, Elsewhere
<1>6. RunInv(e)'
  <2>1. ens[e].at = "copy" /\ RunInv(e) /\ data[h][i] \in [1..Size -> Versions \cup {Hole}]
    BY <1>1, <1>2, AtWork DEF ScpChunk, Programs
  <2>2. \A k \in 1..Size : k < ens[e].chunk + 1 => data'[h][i][k] = ens[e].source
    BY <1>2, <1>4, <2>1 DEF RunInv, Temporary
  <2> QED
    BY <1>2, <1>3, <2>1, <2>2 DEF RunInv, Active, Temporary
<1>7. HostInv(h)'
  <2>1. Installed(h)' = Installed(h)
    BY <1>1, <1>2, <1>3, AtWork DEF Installed
  <2> QED
    BY <1>1, <1>2, <1>3, <2>1, AtWork DEF HostInv, Whole
<1> QED
  BY <1>1, <1>5, <1>6, <1>7 DEF EnsureInv

\* When scp is done, the temporary file is whole.
LEMMA ScpEndsInv ==
    ASSUME EnsureInv, NEW e \in Ensures, ScpEnds(e)
    PROVE  EnsureInv'
<1> USE EnsureConstants
<1>1. EnsureTypeOK' /\ Active(e)
  BY EnsureTypeStep DEF EnsureNext, EnsureStep, EnsureInv, ScpEnds, Active
<1>2. /\ \A o \in Ensures \ {e} : ens'[o] = ens[o] /\ fd'[o] = fd[o]
      /\ ens[e].at = "copy" /\ ens[e].chunk = Size + 1 /\ ens'[e].at = "chmod"
      /\ UNCHANGED <<new, live, data, verified>>
  BY <1>1, AtWork DEF ScpEnds, Runs
<1>3. /\ Alone' /\ \A o \in Ensures \ {e} : RunInv(o)'
      /\ \A g \in Hosts \ {On[e]} : HostInv(g)'
  BY <1>1, <1>2, AtWork, Elsewhere
<1>4. new[On[e]] \in Inodes /\ RunInv(e) /\ ens[e].source \in Versions
  BY <1>1, <1>2, AtWork DEF RunInv, Runs
<1>5. Temporary(e) = Program(ens[e].source)
  <2>1. Temporary(e) \in [1..Size -> Versions \cup {Hole}]
    BY <1>1, <1>4, AtWork DEF Temporary, Programs
  <2>2. \A k \in 1..Size : Temporary(e)[k] = ens[e].source
    BY <1>2, <1>4 DEF RunInv
  <2> QED
    BY <2>1, <2>2 DEF Program
<1>6. RunInv(e)'
  BY <1>2, <1>4, <1>5 DEF RunInv, Active, Temporary, Whole
<1>7. HostInv(On[e])'
  BY <1>1, <1>2, AtWork DEF HostInv, Installed, Whole
<1> QED
  BY <1>1, <1>3, <1>6, <1>7 DEF EnsureInv

\* The rename installs a whole program.
LEMMA MvInv ==
    ASSUME EnsureInv, NEW e \in Ensures, Mv(e)
    PROVE  EnsureInv'
<1> USE EnsureConstants
<1> DEFINE h == On[e]
<1>1. EnsureTypeOK' /\ Active(e) /\ ens[e].at = "mv"
  BY EnsureTypeStep DEF EnsureNext, EnsureStep, EnsureInv, Mv, Active, Goto
<1>2. /\ \A o \in Ensures \ {e} : ens'[o] = ens[o]
      /\ ens'[e].at \in {"verify", "cleanup"}
      /\ UNCHANGED <<fd, data, verified>>
      /\ live' = [live EXCEPT ![h] = new[h]] /\ new' = [new EXCEPT ![h] = NoFile]
  BY <1>1, AtWork DEF Mv, Goto, Runs
<1>3. /\ Alone' /\ \A o \in Ensures \ {e} : RunInv(o)'
      /\ \A g \in Hosts \ {h} : HostInv(g)'
  BY <1>1, <1>2, AtWork, Elsewhere
<1>4. new[h] # NoFile /\ Whole(data[h][new[h]]) /\ verified[h] = Unknown
  BY <1>1, AtWork DEF RunInv, Temporary
<1>5. RunInv(e)'
  BY <1>2, <1>4 DEF RunInv
<1>6. HostInv(h)'
  <2>1. live'[h] = new[h] /\ new'[h] = NoFile /\ verified'[h] = Unknown
    BY <1>1, <1>2, <1>4, AtWork
  <2>2. Installed(h)' = data[h][new[h]]
    BY <1>2, <1>4, <2>1 DEF Installed
  <2> QED
    BY <1>4, <2>1, <2>2 DEF HostInv, Whole
<1> QED
  BY <1>1, <1>3, <1>5, <1>6 DEF EnsureInv

\* Every step of the ensures preserves the invariant.
LEMMA EnsureNextInv ==
    ASSUME Exclusive, ~InPlace, EnsureInv, EnsureNext
    PROVE  EnsureInv'
<1>1. ASSUME NEW e \in Ensures, EnsureStep(e) PROVE EnsureInv'
  BY <1>1, BeginInv, QuietStepInv, ReadyInv, ScpOpenInv, ScpChunkInv, ScpEndsInv, MvInv DEF EnsureStep
<1> QED
  BY <1>1, BuildInv DEF EnsureNext

-----------------------------------------------------------------------------
(* The pool *)

\* The clients' hosts, and the value that stands for no client.
LEMMA PoolConstants == (\A c \in Clients : Want[c] \in Hosts /\ c # Pool!Nobody) /\ Silent \subseteq Hosts
BY DeployAssumption DEF Pool!ConnPoolAssumption

\* The pool starts empty.
LEMMA PoolInitInv == Pool!PoolInit => PoolInv
<1> SUFFICES ASSUME Pool!PoolInit PROVE PoolInv
  OBVIOUS
<1>1. Pool!PoolTypeOK
  BY PoolConstants DEF Pool!PoolInit, Pool!PoolTypeOK, Pool!NoConn
<1>2. conn \in [Clients -> [program : Programs, at : {"none", "starting", "up", "closed"}]]
  BY ProgramTypes DEF Pool!PoolInit, Pool!NoConn
<1>3. \A c \in Clients : conn[c].at = "none" /\ client[c] = "lock"
  BY DEF Pool!PoolInit, Pool!NoConn
<1> QED
  BY <1>1, <1>2, <1>3, PoolConstants DEF Pool!PoolInit, PoolInv

\* Every step of the pool, and of an ensure, keeps what is known of the pool.
LEMMA PoolNextInv == PoolInv /\ EnsureTypeOK /\ (Pool!PoolNext \/ UNCHANGED poolVars) => PoolInv'
<1> SUFFICES ASSUME PoolInv, EnsureTypeOK, Pool!PoolNext \/ UNCHANGED poolVars PROVE PoolInv'
  OBVIOUS
<1> USE PoolConstants, InstalledType, ProgramTypes DEF PoolInv, Pool!PoolTypeOK, Pool!Usable, Pool!Goto, Pool!NoConn
<1>1. CASE UNCHANGED poolVars
  BY <1>1 DEF poolVars
<1>2. ASSUME NEW c \in Clients, Pool!Reuse(c) PROVE PoolInv'
  BY <1>2 DEF Pool!Reuse
<1>3. ASSUME NEW c \in Clients, Pool!Start(c) PROVE PoolInv'
  <2> DEFINE p == Installed(Want[c])
  <2>1. p \in Programs /\ conn' = [conn EXCEPT ![c] = [program |-> p, at |-> "starting"]]
    BY <1>3 DEF Pool!Start
  <2>2. Pool!PoolTypeOK'
    BY <1>3, <2>1 DEF Pool!Start
  <2>3. conn' \in [Clients -> [program : Programs, at : {"none", "starting", "up", "closed"}]]
    BY <2>1
  <2>4. /\ client' = [client EXCEPT ![c] = "starting"] /\ pool' = pool /\ ~Pool!Usable(Want[c])
        /\ \A d \in Clients : conn'[d].at = IF d = c THEN "starting" ELSE conn[d].at
    BY <1>3, <2>1 DEF Pool!Start
  <2>5. \A d \in Clients : (conn'[d].at = "starting" <=> client'[d] = "starting")
                          /\ (conn'[d].at = "up" => pool'[Want[d]] = d)
    BY <2>4
  <2>6. ASSUME NEW d \in Clients, client'[d] = "starting" PROVE ~Pool!Usable(Want[d])'
    <3>1. d = c
      BY <1>3, <2>4, <2>6 DEF Pool!Start
    <3> QED
      BY <1>3, <2>4, <3>1 DEF Pool!Start
  <2> QED
    BY <1>3, <2>2, <2>3, <2>4, <2>5, <2>6 DEF Pool!Start
<1>4. ASSUME NEW c \in Clients, Pool!Hello(c) PROVE PoolInv'
  BY <1>4 DEF Pool!Hello
<1>5. ASSUME NEW c \in Clients, Pool!NoHello(c) PROVE PoolInv'
  BY <1>5 DEF Pool!NoHello
<1>6. ASSUME NEW c \in Clients, Pool!Ends(c) PROVE PoolInv'
  BY <1>6 DEF Pool!Ends
<1> QED
  BY <1>1, <1>2, <1>3, <1>4, <1>5, <1>6 DEF Pool!PoolNext, Pool!GetConn, Pool!Handshake

\* The types of the files hold in every run, whether ensures are exclusive or not.
LEMMA EnsureTypesInvariant == Spec => []EnsureTypeOK
<1>1. Init => EnsureTypeOK
  BY EnsureInitInv DEF Init, EnsureInv
<1>2. EnsureTypeOK /\ [Next]_vars => EnsureTypeOK'
  <2> SUFFICES ASSUME EnsureTypeOK, [Next]_vars PROVE EnsureTypeOK'
    OBVIOUS
  <2>1. CASE EnsureNext
    BY <2>1, EnsureTypeStep
  <2>2. CASE UNCHANGED ensureVars
    BY <2>2 DEF ensureVars, EnsureTypeOK
  <2> QED
    BY <2>1, <2>2 DEF Next, vars
<1> QED
  BY <1>1, <1>2, PTL DEF Spec

\* Whatever the ensures do, the pool keeps its invariant.
LEMMA PoolInvariant == Spec => []PoolInv
<1>1. Init => PoolInv
  BY PoolInitInv DEF Init
<1>2. PoolInv /\ EnsureTypeOK /\ [Next]_vars => PoolInv'
  BY PoolNextInv DEF Next, vars, poolVars
<1> QED
  BY <1>1, <1>2, EnsureTypesInvariant, PTL DEF Spec

\* For any number of hosts and clients, and whatever fails: one agent per host.
THEOREM OneAgent == Spec => []OneAgentPerHost
<1>1. PoolInv => OneAgentPerHost
  BY PoolConstants DEF PoolInv, Pool!PoolTypeOK, Pool!Usable, OneAgentPerHost, Pool!OneAgentPerHost
<1> QED
  BY <1>1, PoolInvariant, PTL

\* Every variable has its type, whether ensures are exclusive or not.
THEOREM DeployTypes == Spec => []TypeOK
<1>1. PoolInv /\ EnsureTypeOK => TypeOK
  BY DEF PoolInv, TypeOK
<1> QED
  BY <1>1, PoolInvariant, EnsureTypesInvariant, PTL

-----------------------------------------------------------------------------
(* Ensures that run one after the other, from builds that replace the file *)

\* The invariant of the files holds in every run.
LEMMA EnsureInvariant ==
    ASSUME Exclusive, ~InPlace
    PROVE  Spec => []EnsureInv
<1>1. Init => EnsureInv
  BY EnsureInitInv DEF Init
<1>2. EnsureInv /\ [Next]_vars => EnsureInv'
  <2> SUFFICES ASSUME EnsureInv, [Next]_vars PROVE EnsureInv'
    OBVIOUS
  <2>1. CASE EnsureNext
    BY <2>1, EnsureNextInv
  <2>2. CASE UNCHANGED ensureVars
    BY <2>2 DEF ensureVars, EnsureInv, EnsureTypeOK, Alone, Active, RunInv, Temporary, HostInv, Installed, Whole
  <2> QED
    BY <2>1, <2>2 DEF Next, vars
<1> QED
  BY <1>1, <1>2, PTL DEF Spec

\* Whatever step fails and wherever an ensure is interrupted, no half of an agent
\* is at the final name.
THEOREM NeverHalfInstalled ==
    ASSUME Exclusive, ~InPlace
    PROVE  Spec => []LiveIsWhole
<1>1. EnsureInv => LiveIsWhole
  BY DEF EnsureInv, HostInv, LiveIsWhole
<1> QED
  BY <1>1, EnsureInvariant, PTL

\* What an ensure called ready is what the daemon starts, until another begins.
THEOREM VerifiedIsStarted ==
    ASSUME Exclusive, ~InPlace
    PROVE  Spec => EnsuredIsStarted
<1> DEFINE Starts == \A c \in Clients :
             conn[c].at = "none" /\ conn'[c].at = "starting" /\ verified[Want[c]] # Unknown
                 => conn'[c].program = Program(verified[Want[c]])
<1>1. EnsureInv /\ PoolInv /\ [Next]_vars => [Starts]_vars
  <2> SUFFICES ASSUME EnsureInv, PoolInv, [Next]_vars, NEW c \in Clients,
                      conn[c].at = "none", conn'[c].at = "starting", verified[Want[c]] # Unknown
               PROVE  conn'[c].program = Program(verified[Want[c]])
    OBVIOUS
  <2>1. Pool!PoolNext
    BY DEF Next, vars, poolVars
  <2>2. Pool!Start(c)
    BY <2>1 DEF PoolInv, Pool!PoolNext, Pool!GetConn, Pool!Handshake, Pool!Reuse, Pool!Start, Pool!Hello,
       Pool!NoHello, Pool!Ends, Pool!NoConn
  <2>3. conn'[c].program = Installed(Want[c])
    BY <2>2, PoolConstants DEF PoolInv, Pool!Start
  <2> QED
    BY <2>3, PoolConstants DEF EnsureInv, HostInv
<1> QED
  BY <1>1, EnsureInvariant, PoolInvariant, PTL DEF Spec, EnsuredIsStarted
=============================================================================
