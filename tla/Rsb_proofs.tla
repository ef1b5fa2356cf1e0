------------------------------- MODULE Rsb_proofs ------------------------------
(***************************************************************************)
(* Proofs about one rsb command, for every deadline, socket size, file,     *)
(* range, script and output of rg: what rsb exec shows is what the daemon   *)
(* sent, a program that keeps writing is awaited, each command of a repl    *)
(* gets its own answer in its own session and container, a download is the  *)
(* slice of the file that was asked for, and a search prints the matches    *)
(* that arrived whole.                                                      *)
(***************************************************************************)
EXTENDS Rsb, FiniteSetTheorems, WellFoundedInduction, TLAPS

-----------------------------------------------------------------------------
(* rsb exec *)

\* The variables but the two ends of the socket.
Types ==
    /\ at \in {"handshake", "request", "select", "leaving", "exited"}
    /\ why \in Terminals \cup {"none", "eof", "silence"}
    /\ why = "none" <=> at \in {"handshake", "request", "select"}
    /\ quiet \in 0..Deadline /\ gap \in 0..Deadline /\ shown \in 0..NumOut /\ left \in 0..NumIn
    /\ pump \in {"off", "read", "write", "end", "done"}
    /\ told \in [out : 0..NumOut, end : Terminals \cup {"none"}]

Flags == reading \in BOOLEAN /\ peer \in BOOLEAN /\ path \in BOOLEAN /\ lively \in BOOLEAN

\* One frame at most between the socket and the loop, and a bounded socket.
Channels ==
    /\ frameCh \in {<<>>} \cup {<<f>> : f \in Terminals \cup {"output", "eof"}}
    /\ reading => frameCh = <<>>
    /\ down \in Seq(Terminals \cup {"output"}) /\ Len(down) <= SockCap

\* Nothing was sent before the Request.
Unasked == at \in {"handshake", "request"} =>
    /\ told = [out |-> 0, end |-> "none"] /\ shown = 0
    /\ frameCh = <<>> /\ down = <<>> /\ ~reading

\* What is on its way is Output, and the answer at the end of it.
DownOrdered == \A i \in 1..Len(down) :
    down[i] = IF told.end # "none" /\ i = Len(down) THEN told.end ELSE "output"

Ended == IF told.end = "none" THEN 0 ELSE 1

\* While the loop runs: what was sent is shown, in the channel or in the socket.
InFlight == at = "select" =>
    /\ frameCh \in {<<>>, <<"output">>} =>
         /\ shown + Len(frameCh) + Len(down) = told.out + Ended
         /\ told.end # "none" => down # <<>>
    /\ frameCh \in {<<t>> : t \in Terminals} =>
         down = <<>> /\ frameCh = <<told.end>> /\ shown = told.out
    /\ frameCh = <<"eof">> => down = <<>> /\ ~peer /\ told.end = "none"

\* Once it has returned: why.
Reason ==
    /\ why = "eof" => ~peer /\ told.end = "none"
    /\ why \in Terminals =>
         \/ told.end = why /\ shown = told.out
         \/ why = "error" /\ at = "exited" /\ told.end = "none"

\* The timer of the client does not overtake the clock of a lively program.
Awaited == lively =>
    /\ why # "silence"
    /\ at = "select" =>
         /\ quiet < Deadline
         /\ frameCh = <<>> /\ down = <<>> => quiet <= gap

ClientInv == Types /\ Channels /\ Unasked /\ DownOrdered /\ InFlight /\ Reason /\ Awaited

-----------------------------------------------------------------------------
(* The invariant *)

\* A sequence of one frame is not empty and holds that frame.
LEMMA OneFrame ==
    ASSUME NEW f, NEW g
    PROVE  <<f>> # <<>> /\ Len(<<f>>) = 1 /\ Head(<<f>>) = f /\ (<<f>> = <<g>> <=> f = g)
<1>1. <<f>>[1] = f /\ <<g>>[1] = g
  OBVIOUS
<1> QED
  BY <1>1

\* The bounds are numbers.
LEMMA Bounds ==
    /\ NumIn \in Nat /\ NumOut \in Nat
    /\ SockCap \in Nat \ {0} /\ Deadline \in Nat \ {0}
    /\ UseStdin \in BOOLEAN
BY ClientExecAssumption

\* The initial states satisfy the invariant.
LEMMA InitInv == Init => ClientInv
<1> SUFFICES ASSUME Init PROVE ClientInv
  OBVIOUS
<1>1. Types
  BY Bounds DEF Init, Types, Terminals, Results
<1>2. Channels /\ DownOrdered
  BY Bounds DEF Init, Channels, DownOrdered
<1>3. Unasked /\ InFlight /\ Reason /\ Awaited
  BY DEF Init, Unasked, InFlight, Reason, Awaited, Terminals, Results
<1> QED
  BY <1>1, <1>2, <1>3 DEF ClientInv

\* A handshake preserves the invariant.
LEMMA HandshakeInv == ClientInv /\ Handshake => ClientInv'
<1> SUFFICES ASSUME ClientInv, Handshake PROVE ClientInv'
  OBVIOUS
<1> USE DEF ClientInv, Handshake, pumpVars, daemonVars
<1>1. Types'
  BY DEF Types, Terminals, Results
<1>2. Channels' /\ DownOrdered'
  BY DEF Channels, DownOrdered
<1>3. Unasked' /\ InFlight' /\ Reason' /\ Awaited'
  BY DEF Types, Unasked, InFlight, Reason, Awaited, Terminals, Results
<1> QED
  BY <1>1, <1>2, <1>3

\* Sending the request preserves the invariant.
LEMMA SendRequestInv == ClientInv /\ SendRequest => ClientInv'
<1> SUFFICES ASSUME ClientInv, SendRequest PROVE ClientInv'
  OBVIOUS
<1> USE DEF ClientInv, SendRequest
<1>1. Types'
  BY Bounds DEF Types, Terminals, Results
<1>2. Channels' /\ DownOrdered'
  BY DEF Channels, DownOrdered, Unasked
<1>3. Unasked' /\ Reason'
  BY DEF Types, Unasked, Reason, Terminals, Results
<1>4. InFlight'
  BY OneFrame DEF Types, Unasked, InFlight, Ended, Terminals, Results
<1>5. Awaited'
  BY Bounds DEF Types, Awaited, Unasked, Terminals, Results
<1> QED
  BY <1>1, <1>2, <1>3, <1>4, <1>5

\* Delivering a frame preserves the invariant.
LEMMA ReaderDeliversInv == ClientInv /\ ReaderDelivers => ClientInv'
<1> SUFFICES ASSUME ClientInv, ReaderDelivers PROVE ClientInv'
  OBVIOUS
<1> USE DEF ClientInv, ReaderDelivers, pumpVars, daemonVars
<1>1. Types'
  BY DEF Types
<1>2. Unasked' /\ Reason'
  BY DEF Types, Unasked, Reason
<1>3. CASE down = <<>>
  <2>1. ~peer /\ frameCh' = <<"eof">> /\ down' = down /\ frameCh = <<>> /\ frameCh' # <<>>
    BY <1>3, OneFrame DEF Channels
  <2>2. Channels' /\ DownOrdered'
    BY <1>3, <2>1 DEF Channels, DownOrdered
  <2>3. at = "select" => told.end = "none"
    BY <1>3, <2>1 DEF InFlight
  <2>4. InFlight'
    BY <1>3, <2>1, <2>3, OneFrame DEF InFlight, Terminals, Results
  <2>5. Awaited'
    BY <2>1 DEF Awaited
  <2> QED
    BY <1>1, <1>2, <2>2, <2>4, <2>5
<1>4. CASE down # <<>>
  <2>1. frameCh = <<>> /\ frameCh' = <<Head(down)>> /\ down' = Tail(down)
    BY <1>4 DEF Channels
  <2>2. /\ Len(down) \in Nat \ {0} /\ Head(down) = down[1]
        /\ down' \in Seq(Terminals \cup {"output"}) /\ Len(down') = Len(down) - 1
        /\ \A i \in 1..Len(down') : down'[i] = down[i + 1]
        /\ Head(down) \in Terminals \cup {"output"} /\ Len(down) <= SockCap
    BY <1>4, <2>1 DEF Channels
  <2>3. Channels'
    <3>1. frameCh' \in {<<f>> : f \in Terminals \cup {"output", "eof"}}
      BY <2>1, <2>2
    <3> QED
      BY <2>2, <3>1, Bounds DEF Channels
  <2>4. DownOrdered'
    BY <2>2 DEF DownOrdered
  <2>5. Head(down) = IF told.end # "none" /\ Len(down) = 1 THEN told.end ELSE "output"
    BY <2>2 DEF DownOrdered
  <2>6. InFlight'
    <3>1. CASE told.end # "none" /\ Len(down) = 1
      <4>1. /\ frameCh' = <<told.end>> /\ down' = <<>>
            /\ frameCh' \notin {<<>>, <<"output">>} /\ frameCh' # <<"eof">>
        BY <2>1, <2>2, <2>5, <3>1, OneFrame DEF Types, Terminals, Results
      <4>2. at = "select" => shown = told.out
        BY <2>1, <3>1 DEF InFlight, Types, Ended
      <4> QED
        BY <4>1, <4>2 DEF InFlight
    <3>2. CASE ~(told.end # "none" /\ Len(down) = 1)
      <4>1. /\ frameCh' = <<"output">> /\ Len(frameCh') = 1
            /\ frameCh' \notin {<<t>> : t \in Terminals} /\ frameCh' # <<"eof">>
        BY <2>1, <2>5, <3>2, OneFrame DEF Terminals, Results
      <4>2. at = "select" => shown + Len(down) = told.out + Ended
        BY <2>1 DEF InFlight, Types, Ended
      <4> QED
        BY <2>2, <3>2, <4>1, <4>2 DEF InFlight, Types, Ended
    <3> QED
      BY <3>1, <3>2
  <2>7. Awaited'
    BY <2>1, OneFrame DEF Awaited
  <2> QED
    BY <1>1, <1>2, <2>3, <2>4, <2>6, <2>7
<1> QED
  BY <1>3, <1>4

\* Showing output preserves the invariant.
LEMMA ShowOutputInv == ClientInv /\ ShowOutput => ClientInv'
<1> SUFFICES ASSUME ClientInv, ShowOutput PROVE ClientInv'
  OBVIOUS
<1> USE DEF ClientInv, ShowOutput, pumpVars, daemonVars
<1>1. Len(down) \in Nat /\ (down # <<>> => Len(down) > 0)
  BY DEF Channels
<1>2. shown + 1 + Len(down) = told.out + Ended /\ (told.end # "none" => down # <<>>)
  BY OneFrame, <1>1 DEF InFlight, Types
<1>3. Types'
  BY <1>1, <1>2, Bounds DEF Types, Ended
<1>4. Channels' /\ DownOrdered'
  BY DEF Channels, DownOrdered
<1>5. Unasked' /\ Reason'
  BY DEF Types, Unasked, Reason, Terminals, Results
<1>6. InFlight'
  BY <1>1, <1>2, OneFrame DEF InFlight, Ended, Types
<1>7. Awaited'
  BY Bounds DEF Awaited, Types
<1> QED
  BY <1>3, <1>4, <1>5, <1>6, <1>7

\* Taking a terminal frame preserves the invariant.
LEMMA TakeTerminalInv == ClientInv /\ TakeTerminal => ClientInv'
<1> SUFFICES ASSUME ClientInv, TakeTerminal PROVE ClientInv'
  OBVIOUS
<1> USE DEF ClientInv, TakeTerminal, Return, pumpVars, daemonVars
<1>1. PICK t \in Terminals \cup {"eof"} : frameCh = <<t>> /\ why' = t
  BY OneFrame
<1>2. Types'
  BY <1>1 DEF Types, Terminals, Results
<1>3. Channels' /\ DownOrdered'
  BY DEF Channels, DownOrdered
<1>4. Unasked' /\ InFlight'
  BY DEF Unasked, InFlight
<1>5. Reason'
  BY <1>1, OneFrame DEF InFlight, Reason, Terminals, Results
<1>6. Awaited'
  BY <1>1 DEF Awaited, Terminals, Results
<1> QED
  BY <1>2, <1>3, <1>4, <1>5, <1>6

\* The timer, the end of Exec and the stdin pump preserve the invariant.
LEMMA ClientStepsInv == ClientInv /\ (Silence \/ Leave \/ Pump) => ClientInv'
<1> SUFFICES ASSUME ClientInv, Silence \/ Leave \/ Pump PROVE ClientInv'
  OBVIOUS
<1> USE DEF ClientInv, Silence, Leave, Return, Pump, PumpRead, PumpWrite, PumpEnd, clientVars, pumpVars,
        daemonVars
<1>1. Types'
  BY Bounds DEF Types, Terminals, Results
<1>2. Channels' /\ DownOrdered'
  BY DEF Channels, DownOrdered
<1>3. Unasked' /\ InFlight'
  BY DEF Types, Unasked, InFlight, Ended
<1>4. Reason'
  BY DEF Types, Reason, Terminals, Results
<1>5. Awaited'
  <2>1. CASE Silence
    BY <2>1, Bounds DEF Types, Awaited
  <2>2. CASE Leave \/ Pump
    BY <2>2 DEF Awaited
  <2> QED
    BY <2>1, <2>2
<1> QED
  BY <1>1, <1>2, <1>3, <1>4, <1>5

\* A frame from the daemon preserves the invariant.
LEMMA DaemonSendsInv == ClientInv /\ (DaemonOutput \/ DaemonAnswer) => ClientInv'
<1> SUFFICES ASSUME ClientInv, DaemonOutput \/ DaemonAnswer PROVE ClientInv'
  OBVIOUS
<1>1. PICK f \in Terminals \cup {"output"} :
        /\ DaemonSends(f)
        /\ \/ f = "output" /\ told.out < NumOut /\ told' = [told EXCEPT !.out = @ + 1]
           \/ f \in Terminals /\ told' = [told EXCEPT !.end = f]
  BY DEF DaemonOutput, DaemonAnswer
<1> USE DEF ClientInv, DaemonSends, clientVars, pumpVars
<1>2. told \in [out : 0..NumOut, end : {"none"}] /\ told' \in [out : 0..NumOut, end : Terminals \cup {"none"}]
  BY <1>1, Bounds DEF Types, Terminals, Results
<1>3. /\ down' \in Seq(Terminals \cup {"output"}) /\ Len(down') = Len(down) + 1 /\ Len(down) \in Nat
      /\ \A i \in 1..Len(down) : down'[i] = down[i]
      /\ down'[Len(down) + 1] = f /\ down' # <<>>
  BY <1>1 DEF Channels
<1>4. Types'
  BY <1>1, <1>2, Bounds DEF Types
<1>5. Channels'
  BY <1>1, <1>3, Bounds DEF Channels
<1>6. DownOrdered'
  BY <1>1, <1>2, <1>3 DEF DownOrdered, Terminals, Results
<1>7. Unasked'
  BY <1>1 DEF Unasked
<1>8. InFlight'
  <2> SUFFICES ASSUME at = "select" PROVE InFlight'
    BY <1>1 DEF InFlight
  <2>1. frameCh \in {<<>>, <<"output">>} =>
          shown + Len(frameCh) + Len(down) + 1 = told'.out + (IF told'.end = "none" THEN 0 ELSE 1)
    BY <1>1, <1>2, <1>3, OneFrame, SMTT(30) DEF InFlight, Ended, Types, Terminals, Results
  <2>2. frameCh \notin {<<t>> : t \in Terminals}
    <3> SUFFICES ASSUME NEW t \in Terminals, frameCh = <<t>> PROVE FALSE
      OBVIOUS
    <3>1. <<t>> = <<told.end>>
      BY DEF InFlight
    <3>2. t = told.end
      BY <3>1, OneFrame
    <3> QED
      BY <1>2, <3>2 DEF Terminals, Results
  <2>3. frameCh # <<"eof">>
    BY <1>1 DEF InFlight
  <2> QED
    <3>1. frameCh' = frameCh
      BY <1>1
    <3>2. shown' = shown
      BY <1>1
    <3>3. frameCh \in {<<>>, <<"output">>} =>
            shown + Len(frameCh) + Len(down') = told'.out + (IF told'.end = "none" THEN 0 ELSE 1)
      <4>1. CASE frameCh = <<>>
        BY <1>2, <1>3, <2>1, <4>1 DEF Types
      <4>2. CASE frameCh = <<"output">>
        BY <1>2, <1>3, <2>1, <4>2, OneFrame DEF Types
      <4> QED
        BY <4>1, <4>2
    <3> QED
      BY <1>3, <2>2, <2>3, <3>1, <3>2, <3>3 DEF InFlight, Ended
<1>9. Reason'
  BY <1>1, <1>2 DEF Types, Reason, Terminals, Results
<1>10. Awaited'
  BY <1>1, <1>3, Bounds DEF Types, Awaited
<1> QED
  BY <1>4, <1>5, <1>6, <1>7, <1>8, <1>9, <1>10

\* The daemon's reads, its end and a dead path preserve the invariant.
LEMMA EnvironmentInv == ClientInv /\ (DaemonRead \/ DaemonCloses \/ PathDies) => ClientInv'
<1> SUFFICES ASSUME ClientInv, DaemonRead \/ DaemonCloses \/ PathDies PROVE ClientInv'
  OBVIOUS
<1> USE DEF ClientInv, DaemonRead, DaemonCloses, PathDies, clientVars, pumpVars, daemonVars
<1>1. Types'
  BY DEF Types
<1>2. Channels' /\ DownOrdered'
  BY DEF Channels, DownOrdered
<1>3. Unasked' /\ InFlight' /\ Reason' /\ Awaited'
  BY DEF Types, Unasked, InFlight, Ended, Reason, Awaited
<1> QED
  BY <1>1, <1>2, <1>3

\* Time preserves the invariant.
LEMMA TickInv == ClientInv /\ Tick => ClientInv'
<1> SUFFICES ASSUME ClientInv, Tick PROVE ClientInv'
  OBVIOUS
<1> USE DEF ClientInv, Tick, pumpVars
<1>1. Types'
  BY Bounds DEF Types
<1>2. Channels' /\ DownOrdered'
  BY DEF Channels, DownOrdered
<1>3. Unasked' /\ InFlight' /\ Reason'
  BY DEF Types, Unasked, InFlight, Ended, Reason
<1>4. Awaited'
  BY Bounds DEF Types, Awaited
<1> QED
  BY <1>1, <1>2, <1>3, <1>4

\* Every step preserves the invariant.
LEMMA NextInv == ClientInv /\ [Next]_vars => ClientInv'
<1> SUFFICES ASSUME ClientInv, [Next]_vars PROVE ClientInv'
  OBVIOUS
<1>1. CASE Exec \/ ReaderDelivers \/ Pump
  BY <1>1, HandshakeInv, SendRequestInv, ReaderDeliversInv, ShowOutputInv, TakeTerminalInv, ClientStepsInv DEF Exec
<1>2. CASE Daemon \/ Tick
  BY <1>2, DaemonSendsInv, EnvironmentInv, TickInv DEF Daemon
<1>3. CASE UNCHANGED vars
  BY <1>3 DEF vars, clientVars, pumpVars, daemonVars, ClientInv, Types, Channels, Unasked, DownOrdered,
     InFlight, Ended, Reason, Awaited
<1> QED
  BY <1>1, <1>2, <1>3 DEF Next

\* The invariant holds in every run.
THEOREM ClientInvariant == Spec => []ClientInv
BY InitInv, NextInv, PTL DEF Spec

\* The flags are Booleans.
LEMMA FlagsInvariant == Spec => []Flags
<1>1. Init => Flags
  BY DEF Init, Flags
<1>2. Flags /\ [Next]_vars => Flags'
  <2> SUFFICES ASSUME Flags, [Next]_vars PROVE Flags'
    OBVIOUS
  <2>1. CASE Exec \/ ReaderDelivers \/ Pump
    BY <2>1 DEF Flags, Exec, Handshake, SendRequest, ShowOutput, TakeTerminal, Silence, Leave, Return,
       ReaderDelivers, Pump, PumpRead, PumpWrite, PumpEnd, clientVars, pumpVars, daemonVars
  <2>2. CASE Daemon \/ Tick \/ UNCHANGED vars
    BY <2>2 DEF Flags, Daemon, DaemonRead, DaemonSends, DaemonOutput, DaemonAnswer, DaemonCloses, PathDies,
       Tick, clientVars, pumpVars, daemonVars, vars
  <2> QED
    BY <2>1, <2>2 DEF Next
<1> QED
  BY <1>1, <1>2, PTL DEF Spec

-----------------------------------------------------------------------------
(* What follows from it *)

\* Every variable has its type in every run (Exec's variables and the two channels).
THEOREM ClientTypes == Spec => []TypeOK
<1>1. ClientInv /\ Flags => TypeOK
  <2> SUFFICES ASSUME ClientInv, Flags PROVE TypeOK
    OBVIOUS
  <2>1. Len(frameCh) <= 1
    <3>1. CASE frameCh = <<>>
      BY <3>1
    <3>2. CASE frameCh # <<>>
      <4>1. PICK f \in Terminals \cup {"output", "eof"} : frameCh = <<f>>
        BY <3>2 DEF ClientInv, Channels
      <4>2. Len(frameCh) = 1
        BY <4>1, OneFrame
      <4> QED
        BY <4>2
    <3> QED
      BY <3>1, <3>2
  <2>2. {reading, peer, path, lively} \subseteq BOOLEAN
    BY DEF Flags
  <2> QED
    BY <2>1, <2>2 DEF ClientInv, Types, Channels, TypeOK
<1> QED
  BY <1>1, ClientInvariant, FlagsInvariant, PTL

\* Whatever the order of frames, timer and goroutines, the command ends with what
\* the daemon answered and has shown all output before it, unless it timed out.
THEOREM AnswerShown == Spec => []AnswerIsShown
<1>1. ClientInv => AnswerIsShown
  <2> SUFFICES ASSUME ClientInv PROVE AnswerIsShown
    OBVIOUS
  <2>1. at = "exited" /\ ExitStatus(why) = 0 => why = "zero"
    BY DEF ClientInv, Types, ExitStatus, Terminals, Results
  <2> QED
    BY <2>1 DEF ClientInv, Types, Reason, AnswerIsShown, Terminals, Results
<1> QED
  BY <1>1, ClientInvariant, PTL

\* For every deadline: a program whose frames keep coming is never timed out.
THEOREM LivelyAwaited == Spec => []LivelyIsAwaited
<1>1. ClientInv => LivelyIsAwaited
  BY DEF ClientInv, Awaited, LivelyIsAwaited
<1> QED
  BY <1>1, ClientInvariant, PTL

-----------------------------------------------------------------------------
(* A repl *)

Kinds == {"output", "result", "error"}

\* The input and the lists, as sequences over types that do not change.
TalkTypes ==
    /\ script \in Seq(Talk!Lines) /\ line \in 0..Len(script) /\ session \in 0..line /\ container \in 0..line
    /\ stage \in {"attach", "prompt", "reply", "exited"} /\ status \in {0, 1}
    /\ asked \in Seq([line : Nat, session : Nat, container : Nat])
    /\ \A r \in 1..Len(asked) : asked[r].line \in 1..line /\ asked[r].session \in 0..line /\ asked[r].container \in 0..line
    /\ replies \in Seq([req : Nat, kind : Kinds])
    /\ display \in Seq([line : Nat, req : Nat, kind : Kinds])
    /\ answered \in 0..Len(asked)

TalkFlags == link \in BOOLEAN /\ readFailed \in BOOLEAN

\* The last of the first n lines of s that is of one of the kinds, 0 if none is.
LastIn(s, kinds, n) ==
    LET is == {i \in 1..n : s[i] \in kinds} IN IF is = {} THEN 0 ELSE CHOOSE i \in is : \A j \in is : j <= i

\* The session and the container that the first n lines of s name.
SessionIn(s, n) == LastIn(s, {"session"}, n)
ContainerIn(s, n) ==
    LET i == LastIn(s, {"container", "container?"}, n) IN IF i > 0 /\ s[i] = "container" THEN i ELSE 0

\* The session and the container in force, now and in every request.
Settings ==
    /\ session = SessionIn(script, line) /\ container = ContainerIn(script, line)
    /\ \A r \in 1..Len(asked) :
         /\ script[asked[r].line] = "argv"
         /\ asked[r].session = SessionIn(script, asked[r].line)
         /\ asked[r].container = ContainerIn(script, asked[r].line)

\* Between commands nothing is on its way, and every request is answered unless a
\* read has failed.
Resting == stage # "reply" => replies = <<>> /\ (~readFailed => answered = Len(asked))

\* A command waits for frames of its own: output, and the answer at the end.
Awaiting == stage = "reply" =>
    /\ Len(asked) > 0 /\ asked[Len(asked)].line = line
    /\ \A i \in 1..Len(replies) :
         /\ replies[i].req = Len(asked)
         /\ replies[i].kind # "output" <=> answered = Len(asked) /\ i = Len(replies)
    /\ \A i \in 1..Len(display) : display[i].kind # "output" => display[i].req < Len(asked)
    /\ ~readFailed => answered >= Len(asked) - 1 /\ (answered = Len(asked) => replies # <<>>)

\* A read fails only once the daemon is gone and nothing is left to read.
Failing == readFailed => ~link /\ replies = <<>>

\* What was shown belongs to the request of its line, and ends with an answer.
Shown ==
    /\ \A i \in 1..Len(display) : display[i].req \in 1..Len(asked) /\ asked[display[i].req].line = display[i].line
    /\ \A i, j \in 1..Len(display) : i < j /\ display[i].kind # "output" => display[j].req > display[i].req

TalkInv == TalkTypes /\ Settings /\ Resting /\ Awaiting /\ Failing /\ Shown

\* Appending adds one element at the end.
LEMMA Appended ==
    ASSUME NEW S, NEW q \in Seq(S), NEW e \in S
    PROVE  /\ Append(q, e) \in Seq(S) /\ Len(q) \in Nat /\ Len(Append(q, e)) = Len(q) + 1 /\ Append(q, e) # <<>>
           /\ \A i \in 1..Len(q) : Append(q, e)[i] = q[i]
           /\ Append(q, e)[Len(q) + 1] = e
  OBVIOUS

\* Taking the head off moves every other element up.
LEMMA Taken ==
    ASSUME NEW S, NEW q \in Seq(S), q # <<>>
    PROVE  /\ Head(q) = q[1] /\ Head(q) \in S /\ Len(q) \in Nat \ {0}
           /\ Tail(q) \in Seq(S) /\ Len(Tail(q)) = Len(q) - 1
           /\ \A i \in 1..(Len(q) - 1) : Tail(q)[i] = q[i + 1]
           /\ (Tail(q) = <<>> <=> Len(q) = 1)
<1>1. /\ Head(q) = q[1] /\ Head(q) \in S /\ Len(q) \in Nat \ {0}
      /\ Tail(q) \in Seq(S) /\ Len(Tail(q)) = Len(q) - 1
      /\ \A i \in 1..(Len(q) - 1) : Tail(q)[i] = q[i + 1]
  OBVIOUS
<1>2. Tail(q) = <<>> <=> Len(Tail(q)) = 0
  BY <1>1
<1> QED
  BY <1>1, <1>2

\* A sequence whose elements lie in a set is one over that set.
LEMMA SeqOver ==
    ASSUME NEW S, NEW T, NEW q \in Seq(S), \A i \in 1..Len(q) : q[i] \in T
    PROVE  q \in Seq(T)
  OBVIOUS

\* The elements of a sequence over a set lie in it.
LEMMA SeqElement == ASSUME NEW S, NEW q \in Seq(S), NEW i \in 1..Len(q) PROVE q[i] \in S
  OBVIOUS

\* The last line of a kind: the new one if it is of that kind, else the one before.
LEMMA LastInNext ==
    ASSUME NEW s, NEW K, NEW n \in Nat
    PROVE  LastIn(s, K, n + 1) = IF s[n + 1] \in K THEN n + 1 ELSE LastIn(s, K, n)
<1>1. CASE s[n + 1] \in K
  <2> DEFINE is == {i \in 1..(n + 1) : s[i] \in K}
  <2>1. n + 1 \in is /\ \A i \in is : i \in 1..(n + 1)
    BY <1>1
  <2>2. \A i \in is : (\A j \in is : j <= i) => i = n + 1
    BY <2>1
  <2>3. \A j \in is : j <= n + 1
    BY <2>1
  <2>4. (CHOOSE i \in is : \A j \in is : j <= i) = n + 1
    <3> HIDE DEF is
    <3> QED
      BY <2>1, <2>2, <2>3
  <2>5. is # {}
    BY <2>1
  <2> QED
    BY <1>1, <2>4, <2>5 DEF LastIn
<1>2. CASE s[n + 1] \notin K
  <2>1. {i \in 1..(n + 1) : s[i] \in K} = {i \in 1..n : s[i] \in K}
    BY <1>2
  <2>2. LastIn(s, K, n + 1) = LastIn(s, K, n)
    <3> DEFINE is == {i \in 1..(n + 1) : s[i] \in K}
               js == {i \in 1..n : s[i] \in K}
    <3>1. is = js
      BY <2>1
    <3>2. LastIn(s, K, n + 1) = IF is = {} THEN 0 ELSE CHOOSE i \in is : \A j \in is : j <= i
      BY DEF LastIn
    <3>3. LastIn(s, K, n) = IF js = {} THEN 0 ELSE CHOOSE i \in js : \A j \in js : j <= i
      BY DEF LastIn
    <3> HIDE DEF is, js
    <3> QED
      BY <3>1, <3>2, <3>3
  <2> QED
    BY <1>2, <2>2
<1> QED
  BY <1>1, <1>2

\* Before the first line there is none.
LEMMA LastInNone == ASSUME NEW s, NEW K PROVE LastIn(s, K, 0) = 0
<1>1. {i \in 1..0 : s[i] \in K} = {}
  OBVIOUS
<1> QED
  BY <1>1 DEF LastIn

\* What the next line does to the session and the container.
LEMMA NextSettings ==
    ASSUME NEW s, NEW n \in Nat
    PROVE  /\ SessionIn(s, n + 1) = IF s[n + 1] = "session" THEN n + 1 ELSE SessionIn(s, n)
           /\ ContainerIn(s, n + 1) = IF s[n + 1] = "container" THEN n + 1
                                      ELSE IF s[n + 1] = "container?" THEN 0 ELSE ContainerIn(s, n)
<1>1. SessionIn(s, n + 1) = IF s[n + 1] = "session" THEN n + 1 ELSE SessionIn(s, n)
  BY LastInNext DEF SessionIn
<1>2. LastIn(s, {"container", "container?"}, n + 1) =
        IF s[n + 1] \in {"container", "container?"} THEN n + 1 ELSE LastIn(s, {"container", "container?"}, n)
  BY LastInNext
<1>3. ContainerIn(s, n + 1) = IF s[n + 1] = "container" THEN n + 1
                              ELSE IF s[n + 1] = "container?" THEN 0 ELSE ContainerIn(s, n)
  BY <1>2 DEF ContainerIn
<1> QED
  BY <1>1, <1>3

\* A command that starts is in step.
LEMMA TalkStarts ==
    ASSUME NEW scripts, NEW greetings, scripts \subseteq Seq(Talk!Lines), Talk!StartsWith(scripts, greetings)
    PROVE  TalkInv /\ TalkFlags
<1> USE DEF Talk!StartsWith
<1>0. Len(<<>>) = 0
  OBVIOUS
<1>1. TalkTypes
  <2>1. script \in Seq(Talk!Lines) /\ 0 \in 0..Len(script)
    OBVIOUS
  <2>2. asked \in Seq([line : Nat, session : Nat, container : Nat]) /\ Len(asked) = 0
    BY <1>0
  <2>3. replies \in Seq([req : Nat, kind : Kinds]) /\ display \in Seq([line : Nat, req : Nat, kind : Kinds])
    OBVIOUS
  <2> QED
    BY <2>1, <2>2, <2>3 DEF TalkTypes
<1>2. Settings
  BY <1>0, LastInNone DEF Settings, SessionIn, ContainerIn
<1>3. Resting /\ Awaiting /\ Failing /\ Shown
  BY <1>0 DEF Resting, Awaiting, Failing, Shown
<1>4. TalkFlags
  BY DEF TalkFlags
<1> QED
  BY <1>1, <1>2, <1>3, <1>4 DEF TalkInv

\* Attaching, and what does not change the settings or send a request.
LEMMA TalkPlainInv ==
    ASSUME TalkInv, Talk!Attach \/ Talk!EndOfInput \/ Talk!Quit \/ Talk!Ignore
    PROVE  TalkInv'
<1>1. /\ UNCHANGED <<script, session, container, asked, display, readFailed, greeting, link, replies, answered>>
      /\ stage # "reply" /\ stage' \in {"attach", "prompt", "exited"} /\ status' \in {0, 1}
      /\ line' \in 0..Len(script) /\ line <= line'
      /\ line' = line \/ (line' = line + 1 /\ script[line'] \in {"quit", "blank", "bad", "unknown", "session?"})
  BY DEF TalkInv, TalkTypes, Talk!Attach, Talk!EndOfInput, Talk!Quit, Talk!Ignore, Talk!Reads, Talk!daemonVars
<1>0. line \in Nat /\ Len(script) \in Nat /\ line <= Len(script) /\ line' \in line..Len(script)
  BY <1>1 DEF TalkInv, TalkTypes
<1>2. TalkTypes'
  <2>1. /\ line' \in 0..Len(script) /\ session \in 0..line' /\ container \in 0..line'
        /\ \A r \in 1..Len(asked) : asked[r].line \in 1..line' /\ asked[r].session \in 0..line'
                                    /\ asked[r].container \in 0..line'
    <3>1. /\ session \in 0..line /\ container \in 0..line
          /\ \A r \in 1..Len(asked) : asked[r].line \in 1..line /\ asked[r].session \in 0..line
                                      /\ asked[r].container \in 0..line
      BY DEF TalkInv, TalkTypes
    <3> QED
      BY <1>0, <3>1
  <2> QED
    BY <1>1, <2>1 DEF TalkInv, TalkTypes
<1>3. Settings'
  <2>1. SessionIn(script, line') = SessionIn(script, line) /\ ContainerIn(script, line') = ContainerIn(script, line)
    BY <1>0, <1>1, NextSettings
  <2> QED
    BY <1>1, <2>1 DEF TalkInv, Settings
<1>4. Resting' /\ Awaiting' /\ Failing' /\ Shown'
  BY <1>1 DEF TalkInv, Resting, Awaiting, Failing, Shown
<1> QED
  BY <1>2, <1>3, <1>4 DEF TalkInv

\* A line within the input takes one number after the last.
LEMMA NextLine ==
    ASSUME TalkInv, NEW kinds, Talk!Reads(kinds)
    PROVE  /\ line \in Nat /\ line' = line + 1 /\ line' \in 0..Len(script) /\ script[line'] \in kinds
           /\ session \in 0..line' /\ container \in 0..line' /\ stage = "prompt"
           /\ \A r \in 1..Len(asked) : /\ asked[r].line \in 1..line' /\ asked[r].session \in 0..line'
                                       /\ asked[r].container \in 0..line'
<1>1. /\ session \in 0..line /\ container \in 0..line
      /\ \A r \in 1..Len(asked) : asked[r].line \in 1..line /\ asked[r].session \in 0..line
                                  /\ asked[r].container \in 0..line
  BY DEF TalkInv, TalkTypes
<1>2. line \in Nat /\ Len(script) \in Nat
  BY DEF TalkInv, TalkTypes
<1>3. line' = line + 1 /\ line < Len(script) /\ script[line + 1] \in kinds /\ stage = "prompt"
  BY DEF Talk!Reads
<1> QED
  BY <1>1, <1>2, <1>3

\* Naming a session or a container.
LEMMA TalkSetInv == ASSUME TalkInv, Talk!SetSession \/ Talk!SetContainer PROVE TalkInv'
<1>1. /\ UNCHANGED <<script, stage, status, asked, display, readFailed, greeting, link, replies, answered>>
      /\ \/ Talk!Reads({"session"}) /\ session' = line' /\ container' = container
         \/ /\ Talk!Reads({"container", "container?"}) /\ session' = session
            /\ container' = IF script[line'] = "container" THEN line' ELSE 0
  BY DEF Talk!SetSession, Talk!SetContainer, Talk!daemonVars
<1>2. /\ line \in Nat /\ line' = line + 1 /\ line' \in 0..Len(script) /\ stage = "prompt"
      /\ session \in 0..line' /\ container \in 0..line'
      /\ \A r \in 1..Len(asked) : asked[r].line \in 1..line' /\ asked[r].session \in 0..line'
                                  /\ asked[r].container \in 0..line'
  BY <1>1, NextLine
<1>3. \/ script[line'] = "session" /\ session' = line' /\ container' = container
      \/ /\ script[line'] \in {"container", "container?"} /\ session' = session
         /\ container' = IF script[line'] = "container" THEN line' ELSE 0
  BY <1>1, NextLine
<1>4. TalkTypes'
  <2>1. session' \in 0..line' /\ container' \in 0..line'
    BY <1>2, <1>3
  <2> QED
    BY <1>1, <1>2, <2>1 DEF TalkInv, TalkTypes
<1>5. Settings'
  <2>1. session' = SessionIn(script, line') /\ container' = ContainerIn(script, line')
    BY <1>2, <1>3, NextSettings DEF TalkInv, Settings
  <2> QED
    BY <1>1, <2>1 DEF TalkInv, Settings
<1>6. Resting' /\ Awaiting' /\ Failing' /\ Shown'
  BY <1>1, <1>2 DEF TalkInv, Resting, Awaiting, Failing, Shown
<1> QED
  BY <1>4, <1>5, <1>6 DEF TalkInv

\* Sending a command, or failing to.
LEMMA TalkSendInv == ASSUME TalkInv, Talk!SendCommand PROVE TalkInv'
<1> DEFINE q == [line |-> line', session |-> session, container |-> container]
           n == Len(asked) + 1
<1>1. /\ UNCHANGED <<script, session, container, display, readFailed, greeting, link, replies, answered>>
      /\ Talk!Reads({"argv"})
      /\ \/ stage' = "reply" /\ asked' = Append(asked, q) /\ status' = status
         \/ stage' = "exited" /\ status' = 1 /\ asked' = asked
  BY DEF Talk!SendCommand, Talk!daemonVars
<1>2. /\ line \in Nat /\ line' = line + 1 /\ line' \in 0..Len(script) /\ stage = "prompt" /\ script[line'] = "argv"
      /\ session \in 0..line' /\ container \in 0..line'
      /\ \A r \in 1..Len(asked) : asked[r].line \in 1..line' /\ asked[r].session \in 0..line'
                                  /\ asked[r].container \in 0..line'
  BY <1>1, NextLine
<1>3. session = SessionIn(script, line') /\ container = ContainerIn(script, line')
  BY <1>2, NextSettings DEF TalkInv, Settings
<1>4. replies = <<>> /\ (~readFailed => answered = Len(asked))
  BY <1>2 DEF TalkInv, Resting
<1>5. CASE stage' = "exited" /\ status' = 1 /\ asked' = asked
  <2>1. TalkTypes'
    BY <1>1, <1>2, <1>5 DEF TalkInv, TalkTypes
  <2>2. Settings'
    BY <1>1, <1>3, <1>5 DEF TalkInv, Settings
  <2>3. Resting' /\ Awaiting' /\ Failing' /\ Shown'
    BY <1>1, <1>4, <1>5 DEF TalkInv, Resting, Awaiting, Failing, Shown
  <2> QED
    BY <2>1, <2>2, <2>3 DEF TalkInv
<1>6. CASE stage' = "reply" /\ asked' = Append(asked, q) /\ status' = status
  <2>1. /\ asked' \in Seq([line : Nat, session : Nat, container : Nat]) /\ Len(asked) \in Nat /\ Len(asked') = n
        /\ \A r \in 1..Len(asked) : asked'[r] = asked[r]
        /\ asked'[n] = q
    <3>1. asked \in Seq([line : Nat, session : Nat, container : Nat])
      BY DEF TalkInv, TalkTypes
    <3>2. q \in [line : Nat, session : Nat, container : Nat]
      BY <1>2
    <3> HIDE DEF q
    <3> QED
      BY <1>6, <3>1, <3>2, Appended
  <2>2. q.line = line' /\ q.session = session /\ q.container = container
    OBVIOUS
  <2> HIDE DEF q
  <2>3. \A r \in 1..n : r \in 1..Len(asked) \/ r = n
    BY <2>1
  <2>4. TalkTypes'
    <3>1. \A r \in 1..n : /\ asked'[r].line \in 1..line' /\ asked'[r].session \in 0..line'
                          /\ asked'[r].container \in 0..line'
      <4>1. /\ q.line \in 1..line' /\ q.session \in 0..line' /\ q.container \in 0..line'
        BY <1>2, <2>2
      <4>2. asked'[n].line \in 1..line' /\ asked'[n].session \in 0..line' /\ asked'[n].container \in 0..line'
        BY <2>1, <4>1
      <4> QED
        BY <1>2, <2>1, <2>3, <4>2, Zenon
    <3>2. answered \in 0..n
      BY <2>1 DEF TalkInv, TalkTypes
    <3> QED
      BY <1>1, <1>2, <1>6, <2>1, <3>1, <3>2 DEF TalkInv, TalkTypes
  <2>5. Settings'
    <3>1. \A r \in 1..n : /\ script[asked'[r].line] = "argv"
                          /\ asked'[r].session = SessionIn(script, asked'[r].line)
                          /\ asked'[r].container = ContainerIn(script, asked'[r].line)
      BY <1>2, <1>3, <2>1, <2>2, <2>3 DEF TalkInv, Settings
    <3> QED
      BY <1>1, <1>3, <2>1, <3>1 DEF Settings
  <2>6. Awaiting'
    <3>1. \A i \in 1..Len(display) : display[i].req < n
      BY <2>1 DEF TalkInv, Shown
    <3>2. Len(replies) = 0
      BY <1>4
    <3> QED
      BY <1>1, <1>4, <2>1, <2>2, <3>1, <3>2 DEF Awaiting
  <2>7. Resting' /\ Failing'
    BY <1>1, <1>6 DEF TalkInv, Resting, Failing
  <2>8. Shown'
    <3>1. \A i \in 1..Len(display) : display[i].req \in 1..n /\ asked'[display[i].req].line = display[i].line
      <4> SUFFICES ASSUME NEW i \in 1..Len(display)
                   PROVE  display[i].req \in 1..n /\ asked'[display[i].req].line = display[i].line
        OBVIOUS
      <4>1. display[i].req \in 1..Len(asked) /\ asked[display[i].req].line = display[i].line
        BY DEF TalkInv, Shown
      <4> QED
        BY <2>1, <4>1, SMTT(30)
    <3> QED
      BY <1>1, <2>1, <3>1 DEF TalkInv, Shown
  <2> QED
    BY <2>4, <2>5, <2>6, <2>7, <2>8 DEF TalkInv
<1> QED
  BY <1>1, <1>5, <1>6

\* Showing a frame: the first of those that wait, which belongs to the last request.
LEMMA TalkShowInv == ASSUME TalkInv, Talk!ShowOutput \/ Talk!ShowAnswer PROVE TalkInv'
<1> DEFINE f == replies[1]
           d == [line |-> line, req |-> Head(replies).req, kind |-> Head(replies).kind]
           m == Len(display) + 1
<1>1. /\ UNCHANGED <<script, line, status, session, container, asked, readFailed, greeting, link, answered>>
      /\ stage = "reply" /\ replies # <<>> /\ replies' = Tail(replies) /\ display' = Append(display, d)
      /\ stage' = IF Head(replies).kind = "output" THEN "reply" ELSE "prompt"
  BY DEF Talk!ShowOutput, Talk!ShowAnswer, Talk!Show
<1>2. /\ Head(replies) = f /\ f \in [req : Nat, kind : Kinds] /\ Len(replies) \in Nat \ {0}
      /\ replies' \in Seq([req : Nat, kind : Kinds]) /\ Len(replies') = Len(replies) - 1
      /\ \A i \in 1..Len(replies') : replies'[i] = replies[i + 1] /\ i + 1 \in 1..Len(replies)
      /\ (replies' = <<>> <=> Len(replies) = 1)
  <2>1. replies \in Seq([req : Nat, kind : Kinds])
    BY DEF TalkInv, TalkTypes
  <2>2. /\ Head(replies) = f /\ Head(replies) \in [req : Nat, kind : Kinds] /\ Len(replies) \in Nat \ {0}
        /\ Tail(replies) \in Seq([req : Nat, kind : Kinds]) /\ Len(Tail(replies)) = Len(replies) - 1
        /\ \A i \in 1..(Len(replies) - 1) : Tail(replies)[i] = replies[i + 1]
        /\ (Tail(replies) = <<>> <=> Len(replies) = 1)
    BY <1>1, <2>1, Taken, Zenon
  <2> HIDE DEF f
  <2> QED
    BY <1>1, <2>2, SMTT(30)
<1>3. /\ Len(asked) > 0 /\ asked[Len(asked)].line = line /\ f.req = Len(asked) /\ ~readFailed /\ Len(asked) \in Nat
      /\ (f.kind # "output" <=> answered = Len(asked) /\ Len(replies) = 1)
  <2>1. ~readFailed
    BY <1>1 DEF TalkInv, Failing
  <2>2. /\ Len(asked) > 0 /\ asked[Len(asked)].line = line
        /\ \A i \in 1..Len(replies) :
             /\ replies[i].req = Len(asked)
             /\ (replies[i].kind # "output" <=> answered = Len(asked) /\ i = Len(replies))
    BY <1>1 DEF TalkInv, Awaiting
  <2>3. 1 \in 1..Len(replies) /\ Len(asked) \in Nat
    BY <1>2 DEF TalkInv, TalkTypes
  <2> QED
    BY <2>1, <2>2, <2>3
<1>4. /\ d = [line |-> line, req |-> Len(asked), kind |-> f.kind]
      /\ d \in [line : Nat, req : Nat, kind : Kinds] /\ d.line = line /\ d.req = Len(asked) /\ d.kind = f.kind
  BY <1>2, <1>3, SMTT(30) DEF TalkInv, TalkTypes
<1> HIDE DEF d
<1>5. /\ display' \in Seq([line : Nat, req : Nat, kind : Kinds]) /\ Len(display) \in Nat /\ Len(display') = m
      /\ \A i \in 1..Len(display) : display'[i] = display[i]
      /\ display'[m] = d
      /\ \A i \in 1..m : i \in 1..Len(display) \/ i = m
  <2>1. display \in Seq([line : Nat, req : Nat, kind : Kinds])
    BY DEF TalkInv, TalkTypes
  <2> QED
    BY <1>1, <1>4, <2>1, Appended
<1>6. TalkTypes' /\ Settings' /\ Failing'
  <2>1. stage' \in {"prompt", "reply"}
    BY <1>1
  <2>2. TalkTypes'
    BY <1>1, <1>2, <1>5, <2>1 DEF TalkInv, TalkTypes
  <2> QED
    BY <1>1, <1>3, <2>2 DEF TalkInv, Settings, Failing
<1>7. Shown'
  <2>1. ASSUME NEW i \in 1..m PROVE display'[i].req \in 1..Len(asked) /\ asked[display'[i].req].line = display'[i].line
    <3>1. CASE i = m
      BY <1>3, <1>4, <1>5, <3>1
    <3>2. CASE i \in 1..Len(display)
      BY <1>5, <3>2 DEF TalkInv, Shown
    <3> QED
      BY <1>5, <3>1, <3>2
  <2>2. ASSUME NEW i \in 1..m, NEW j \in 1..m, i < j, display'[i].kind # "output"
        PROVE  display'[j].req > display'[i].req
    <3>1. i \in 1..Len(display) /\ display'[i] = display[i]
      BY <1>5, <2>2
    <3>2. CASE j = m
      <4>1. display[i].req < Len(asked)
        BY <1>1, <2>2, <3>1 DEF TalkInv, Awaiting
      <4>2. display[i].req \in Nat
        BY <1>3, <3>1 DEF TalkInv, Shown
      <4> QED
        BY <1>3, <1>4, <1>5, <3>1, <3>2, <4>1, <4>2
    <3>3. CASE j \in 1..Len(display)
      BY <1>5, <2>2, <3>1, <3>3 DEF TalkInv, Shown
    <3> QED
      BY <1>5, <3>2, <3>3
  <2> QED
    BY <1>1, <1>5, <2>1, <2>2 DEF Shown
<1>8. CASE f.kind = "output"
  <2>1. stage' = "reply"
    BY <1>1, <1>2, <1>8
  <2>2. Resting'
    BY <2>1 DEF Resting
  <2>3. \A i \in 1..Len(replies') : /\ replies'[i].req = Len(asked)
                                    /\ (replies'[i].kind # "output" <=> answered = Len(asked) /\ i = Len(replies'))
    <3> SUFFICES ASSUME NEW i \in 1..Len(replies')
                 PROVE  /\ replies'[i].req = Len(asked)
                        /\ (replies'[i].kind # "output" <=> answered = Len(asked) /\ i = Len(replies'))
      OBVIOUS
    <3>1. /\ replies[i + 1].req = Len(asked)
          /\ (replies[i + 1].kind # "output" <=> answered = Len(asked) /\ i + 1 = Len(replies))
      BY <1>1, <1>2 DEF TalkInv, Awaiting
    <3> QED
      BY <1>2, <3>1
  <2>4. \A i \in 1..m : display'[i].kind # "output" => display'[i].req < Len(asked)
    BY <1>1, <1>4, <1>5, <1>8 DEF TalkInv, Awaiting
  <2>5. answered >= Len(asked) - 1 /\ (answered = Len(asked) => replies' # <<>>)
    BY <1>1, <1>2, <1>3, <1>8 DEF TalkInv, Awaiting
  <2>6. Awaiting'
    BY <1>1, <1>3, <1>5, <2>3, <2>4, <2>5 DEF Awaiting
  <2> QED
    BY <1>6, <1>7, <2>2, <2>6 DEF TalkInv
<1>9. CASE f.kind # "output"
  <2>1. stage' = "prompt" /\ replies' = <<>> /\ answered = Len(asked)
    BY <1>1, <1>2, <1>3, <1>9
  <2>2. Resting' /\ Awaiting'
    BY <1>1, <2>1 DEF Resting, Awaiting
  <2> QED
    BY <1>6, <1>7, <2>2 DEF TalkInv
<1> QED
  BY <1>8, <1>9

\* A read that fails, and the loss of the daemon.
LEMMA TalkLostInv == ASSUME TalkInv, Talk!ReadFails \/ Talk!DaemonLost PROVE TalkInv'
<1>1. /\ UNCHANGED <<script, line, status, session, container, asked, display, greeting, replies, answered>>
      /\ \/ stage = "reply" /\ replies = <<>> /\ ~link /\ stage' = "prompt" /\ readFailed' /\ UNCHANGED link
         \/ ~link' /\ UNCHANGED <<stage, readFailed>>
  BY DEF Talk!ReadFails, Talk!DaemonLost, Talk!daemonVars, Talk!replVars
<1>2. TalkTypes' /\ Settings' /\ Shown'
  BY <1>1 DEF TalkInv, TalkTypes, Settings, Shown
<1>3. Resting' /\ Awaiting' /\ Failing'
  BY <1>1 DEF TalkInv, Resting, Awaiting, Failing
<1> QED
  BY <1>2, <1>3 DEF TalkInv

\* A frame of the daemon's: only for a command that waits, the last one.
LEMMA TalkReplyInv == ASSUME TalkInv, Talk!ReplyOutput \/ Talk!ReplyAnswer PROVE TalkInv'
<1> DEFINE n == Len(replies) + 1
<1>1. PICK kind \in Kinds :
        /\ link /\ answered < Len(asked)
        /\ replies' = Append(replies, [req |-> answered + 1, kind |-> kind])
        /\ UNCHANGED <<script, line, stage, status, session, container, asked, display, readFailed, greeting, link>>
        /\ answered' = IF kind = "output" THEN answered ELSE answered + 1
  BY DEF Kinds, Talk!ReplyOutput, Talk!ReplyAnswer, Talk!Reply, Talk!replVars
<1> DEFINE f == [req |-> answered + 1, kind |-> kind]
<1>2. /\ Len(asked) \in Nat /\ answered \in Nat /\ ~readFailed /\ stage = "reply"
      /\ answered = Len(asked) - 1
  BY <1>1 DEF TalkInv, TalkTypes, Resting, Awaiting, Failing
<1>3. f \in [req : Nat, kind : Kinds] /\ f.req = Len(asked) /\ f.kind = kind
  BY <1>2
<1> HIDE DEF f
<1>4. /\ replies' \in Seq([req : Nat, kind : Kinds]) /\ Len(replies) \in Nat /\ Len(replies') = n /\ replies' # <<>>
      /\ \A i \in 1..Len(replies) : replies'[i] = replies[i]
      /\ replies'[n] = f
      /\ \A i \in 1..n : i \in 1..Len(replies) \/ i = n
  <2>1. replies \in Seq([req : Nat, kind : Kinds]) /\ replies' = Append(replies, f)
    BY <1>1 DEF TalkInv, TalkTypes, f
  <2> QED
    BY <1>3, <2>1, Appended
<1>5. TalkTypes' /\ Settings' /\ Shown' /\ Failing' /\ Resting'
  <2>1. answered' \in 0..Len(asked)
    BY <1>1, <1>2
  <2>2. TalkTypes'
    BY <1>1, <1>4, <2>1 DEF TalkInv, TalkTypes
  <2> QED
    BY <1>1, <1>2, <2>2 DEF TalkInv, Settings, Shown, Failing, Resting
<1>6. Awaiting'
  <2>1. \A i \in 1..n : /\ replies'[i].req = Len(asked)
                        /\ (replies'[i].kind # "output" <=> answered' = Len(asked) /\ i = n)
    <3> SUFFICES ASSUME NEW i \in 1..n
                 PROVE  /\ replies'[i].req = Len(asked)
                        /\ (replies'[i].kind # "output" <=> answered' = Len(asked) /\ i = n)
      OBVIOUS
    <3>1. CASE i = n
      BY <1>1, <1>2, <1>3, <1>4, <3>1
    <3>2. CASE i \in 1..Len(replies)
      <4>1. replies[i].req = Len(asked) /\ replies[i].kind = "output"
        BY <1>2, <3>2 DEF TalkInv, Awaiting
      <4> QED
        BY <1>4, <3>2, <4>1
    <3> QED
      BY <1>4, <3>1, <3>2
  <2> QED
    BY <1>1, <1>2, <1>4, <2>1 DEF TalkInv, Awaiting
<1> QED
  BY <1>5, <1>6 DEF TalkInv

\* Every step of a repl keeps it in step.
LEMMA TalkNextInv == TalkInv /\ Talk!Next => TalkInv'
BY TalkPlainInv, TalkSetInv, TalkSendInv, TalkShowInv, TalkLostInv, TalkReplyInv DEF Talk!Next, Talk!Loop

\* So does a step of the other commands.
LEMMA TalkStays == TalkInv /\ UNCHANGED replVars => TalkInv'
<1> SUFFICES ASSUME TalkInv, UNCHANGED replVars PROVE TalkInv'
  OBVIOUS
<1> USE DEF replVars, TalkInv
<1>1. TalkTypes' /\ Settings'
  BY DEF TalkTypes, Settings
<1>2. Resting' /\ Failing' /\ Shown'
  BY DEF Resting, Failing, Shown
<1>3. Awaiting'
  BY DEF Awaiting
<1> QED
  BY <1>1, <1>2, <1>3

\* The flags are Booleans.
LEMMA TalkFlagsNext == TalkFlags /\ (Talk!Next \/ UNCHANGED replVars) => TalkFlags'
BY DEF TalkFlags, replVars, Talk!Next, Talk!Loop, Talk!Attach, Talk!EndOfInput, Talk!Quit, Talk!Ignore, Talk!SetSession,
   Talk!SetContainer, Talk!SendCommand, Talk!ShowOutput, Talk!ShowAnswer, Talk!Show, Talk!ReadFails,
   Talk!ReplyOutput, Talk!ReplyAnswer, Talk!Reply, Talk!DaemonLost, Talk!daemonVars, Talk!replVars

\* Everything sent before, the answer of each command, and at the prompt nothing left.
LEMMA TalkInStep == TalkInv /\ TalkFlags => Talk!ReplInStep /\ Talk!TypeOK
<1> SUFFICES ASSUME TalkInv, TalkFlags PROVE Talk!ReplInStep /\ Talk!TypeOK
  OBVIOUS
<1>1. /\ DOMAIN asked = 1..Len(asked) /\ DOMAIN display = 1..Len(display) /\ DOMAIN replies = 1..Len(replies)
      /\ Len(asked) \in Nat /\ Len(display) \in Nat /\ Len(replies) \in Nat
  BY DEF TalkInv, TalkTypes
<1>2. \A r \in DOMAIN asked :
        /\ script[asked[r].line] = "argv"
        /\ asked[r].session = Talk!LastOf({"session"}, asked[r].line)
        /\ asked[r].container = LET i == Talk!LastOf({"container", "container?"}, asked[r].line) IN
                                  IF i > 0 /\ script[i] = "container" THEN i ELSE 0
  BY <1>1 DEF TalkInv, Settings, SessionIn, ContainerIn, LastIn, Talk!LastOf
<1>3. \A i \in DOMAIN display : asked[display[i].req].line = display[i].line
  BY <1>1 DEF TalkInv, Shown
<1>4. \A i \in DOMAIN display : display[i].kind # "output" =>
        \A j \in (i + 1)..Len(display) : display[j].req > display[i].req
  BY <1>1 DEF TalkInv, Shown
<1>5. stage = "prompt" /\ ~readFailed => replies = <<>> /\ answered = Len(asked)
  BY DEF TalkInv, Resting
<1>6. Talk!ReplInStep
  BY <1>2, <1>3, <1>4, <1>5 DEF Talk!ReplInStep
<1>7. asked \in Seq([line : 1..line, session : 0..line, container : 0..line])
  <2>1. /\ asked \in Seq([line : Nat, session : Nat, container : Nat])
        /\ \A r \in 1..Len(asked) : asked[r].line \in 1..line /\ asked[r].session \in 0..line
                                    /\ asked[r].container \in 0..line
    BY DEF TalkInv, TalkTypes
  <2>2. \A r \in 1..Len(asked) : asked[r] \in [line : Nat, session : Nat, container : Nat]
    BY <2>1, SeqElement, Zenon
  <2>3. \A r \in 1..Len(asked) : asked[r] \in [line : 1..line, session : 0..line, container : 0..line]
    BY <2>1, <2>2
  <2> QED
    BY <2>1, <2>3, SeqOver
<1>8. replies \in Seq([req : DOMAIN asked, kind : {"output", "result", "error"}])
  <2>1. replies \in Seq([req : Nat, kind : Kinds])
    BY DEF TalkInv, TalkTypes
  <2>2. \A i \in 1..Len(replies) : replies[i] \in [req : Nat, kind : {"output", "result", "error"}]
    BY <2>1, SeqElement, Zenon DEF Kinds
  <2>3. \A i \in 1..Len(replies) : replies[i].req \in DOMAIN asked
    <3>1. CASE stage = "reply"
      <4>1. Len(asked) > 0 /\ \A i \in 1..Len(replies) : replies[i].req = Len(asked)
        BY <3>1 DEF TalkInv, Awaiting
      <4>2. Len(asked) \in DOMAIN asked
        BY <1>1, <4>1
      <4> QED
        BY <4>1, <4>2, Zenon
    <3>2. CASE stage # "reply"
      <4>1. Len(replies) = 0
        BY <3>2 DEF TalkInv, Resting
      <4> QED
        BY <4>1
    <3> QED
      BY <3>1, <3>2
  <2>4. \A i \in 1..Len(replies) : replies[i] \in [req : DOMAIN asked, kind : {"output", "result", "error"}]
    BY <2>2, <2>3
  <2> QED
    BY <2>1, <2>4, SeqOver
<1>9. link => Len(asked) <= answered + 1
  <2> SUFFICES ASSUME link PROVE Len(asked) <= answered + 1
    OBVIOUS
  <2>1. ~readFailed
    BY DEF TalkInv, Failing
  <2>2. answered = Len(asked) \/ answered >= Len(asked) - 1
    BY <2>1 DEF TalkInv, Resting, Awaiting
  <2>3. answered \in Nat
    BY <1>1 DEF TalkInv, TalkTypes
  <2> QED
    <3>1. CASE answered = Len(asked)
      BY <1>1, <3>1
    <3>2. CASE answered >= Len(asked) - 1
      BY <1>1, <2>3, <3>2
    <3> QED
      BY <2>2, <3>1, <3>2
<1>10. {link, readFailed} \subseteq BOOLEAN
  BY DEF TalkFlags
<1> QED
  BY <1>6, <1>7, <1>8, <1>9, <1>10 DEF Talk!TypeOK, TalkInv, TalkTypes

-----------------------------------------------------------------------------
(* One command of the four *)

rsbVars == <<cmd, vars, getVars, grepVars, replVars>>

\* Whatever the command, the part that is rsb exec behaves as ClientExec says, so
\* that what is proved of it holds of every run of rsb.
LEMMA RunsExec == RsbSpec => Spec
<1>1. RsbInit => Init
  BY DEF RsbInit
<1>2. [RsbNext]_rsbVars => [Next]_vars
  BY DEF RsbNext, rsbVars
<1> QED
  BY <1>1, <1>2, PTL DEF RsbSpec, Spec, rsbVars

\* A repl is in step in every run.
THEOREM TalkInvariant == RsbSpec => [](TalkInv /\ TalkFlags)
<1>1. RsbInit => TalkInv /\ TalkFlags
  <2> SUFFICES ASSUME RsbInit PROVE TalkInv /\ TalkFlags
    OBVIOUS
  <2>1. Given("repl", Scripts, <<>>) \subseteq Seq(Talk!Lines)
    <3>1. Scripts \subseteq Seq(Talk!Lines)
      BY RsbAssumption, Zenon DEF Talk!ReplAssumption
    <3>2. <<>> \in Seq(Talk!Lines)
      OBVIOUS
    <3> QED
      BY <3>1, <3>2 DEF Given
  <2> QED
    BY <2>1, TalkStarts DEF RsbInit
<1>2. TalkInv /\ TalkFlags /\ [RsbNext]_rsbVars => TalkInv' /\ TalkFlags'
  <2> SUFFICES ASSUME TalkInv, TalkFlags, [RsbNext]_rsbVars PROVE TalkInv' /\ TalkFlags'
    OBVIOUS
  <2>1. Talk!Next \/ UNCHANGED replVars
    BY DEF RsbNext, rsbVars
  <2> QED
    BY <2>1, TalkNextInv, TalkStays, TalkFlagsNext
<1> QED
  BY <1>1, <1>2, PTL DEF RsbSpec, rsbVars

\* For every script, however the daemon's frames, its loss and the failing reads
\* fall between the lines: each command runs in the session and the container its
\* script names, and shows its own frames up to its own answer.
THEOREM ReplKeepsStep == RsbSpec => []ReplInStep
BY TalkInvariant, TalkInStep, PTL DEF ReplInStep

-----------------------------------------------------------------------------
(* What a slice is *)

\* The module's own copy of the library's operator.
LEMMA SameCardinality == \A S : Get!Cardinality(S) = Cardinality(S)
BY DEF Cardinality, Get!Cardinality, IsFiniteSet, Get!IsFiniteSet

\* A set of positions is finite, and no larger than its bound.
LEMMA Positions ==
    ASSUME NEW n \in Nat, NEW ps \in SUBSET (1..n)
    PROVE  IsFiniteSet(ps) /\ Cardinality(ps) \in Nat /\ Cardinality(ps) <= n
<1>1. IsFiniteSet(1..n) /\ Cardinality(1..n) = n
  BY FS_Interval
<1> QED
  BY <1>1, FS_Subset, FS_CardinalityType

\* The newlines among the first n bytes.
Breaks(f, n) == {i \in 1..n : f[i] = "n"}
Lines(f, n) == Cardinality(Breaks(f, n))

\* The number of newlines is a number.
LEMMA LinesType == ASSUME NEW f, NEW n \in Nat PROVE IsFiniteSet(Breaks(f, n)) /\ Lines(f, n) \in Nat /\ Lines(f, n) <= n
BY Positions DEF Breaks, Lines

\* A byte is in the line that the newlines before it count.
LEMMA LineOfLines == ASSUME NEW f, NEW p PROVE Get!LineOf(f, p) = 1 + Lines(f, p - 1)
BY SameCardinality DEF Get!LineOf, Lines, Breaks

\* The newlines of a part agree with those of the whole, and more bytes have no fewer.
LEMMA LinesSame ==
    ASSUME NEW f, NEW g, NEW n \in Nat, \A i \in 1..n : f[i] = g[i]
    PROVE  \A k \in Nat : k <= n => Lines(f, k) = Lines(g, k)
<1> SUFFICES ASSUME NEW k \in Nat, k <= n PROVE Lines(f, k) = Lines(g, k)
  OBVIOUS
<1>1. Breaks(f, k) = Breaks(g, k)
  BY DEF Breaks
<1> QED
  BY <1>1 DEF Lines

LEMMA LinesMore ==
    ASSUME NEW f, NEW n \in Nat, NEW m \in Nat, n <= m
    PROVE  Lines(f, n) <= Lines(f, m)
<1>1. Breaks(f, n) \in SUBSET Breaks(f, m)
  BY DEF Breaks
<1> QED
  BY <1>1, LinesType, FS_Subset DEF Lines

\* Bytes up to the next newline are in one line, and that newline ends it.
LEMMA LinesNext ==
    ASSUME NEW f, NEW n \in Nat, NEW m \in Nat, n < m, \A i \in (n + 1)..(m - 1) : f[i] # "n"
    PROVE  /\ \A k \in n..(m - 1) : Lines(f, k) = Lines(f, n)
           /\ f[m] = "n" => Lines(f, m) = Lines(f, n) + 1
<1>1. ASSUME NEW k \in n..(m - 1) PROVE Lines(f, k) = Lines(f, n)
  <2>1. Breaks(f, k) = Breaks(f, n)
    BY DEF Breaks
  <2> QED
    BY <2>1 DEF Lines
<1>2. ASSUME f[m] = "n" PROVE Lines(f, m) = Lines(f, n) + 1
  <2>1. Breaks(f, m) = Breaks(f, n) \cup {m}
    BY <1>2 DEF Breaks
  <2>2. m \notin Breaks(f, n)
    BY DEF Breaks
  <2> QED
    BY <2>1, <2>2, LinesType, FS_AddElement DEF Lines
<1> QED
  BY <1>1, <1>2

\* Nothing is picked at no position.
LEMMA PicksNone == ASSUME NEW f PROVE Get!Picks(<<>>, f, {})
BY SameCardinality, FS_EmptySet DEF Get!Picks

\* What is picked depends on the bytes picked alone.
LEMMA PicksSame ==
    ASSUME NEW t, NEW f, NEW g, NEW ps, \A p \in ps : f[p] = g[p], Get!Picks(t, f, ps)
    PROVE  Get!Picks(t, g, ps)
BY DEF Get!Picks

\* The positions up to p of a set, counted, are those that a pick uses.
LEMMA PicksAdd ==
    ASSUME NEW S, NEW t \in Seq(S), NEW u \in Seq(S), NEW f, NEW n \in Nat, NEW ps \in SUBSET (1..n),
           Get!Picks(t, f, ps), \A i \in 1..Len(u) : f[n + i] = u[i]
    PROVE  /\ Get!Picks(t \o u, f, ps \cup ((n + 1)..(n + Len(u))))
           /\ t \o u \in Seq(S) /\ Len(t \o u) = Len(t) + Len(u)
<1> DEFINE m == Len(u)
           new == (n + 1)..(n + m)
<1>1. m \in Nat /\ t \o u \in Seq(S) /\ Len(t \o u) = Len(t) + m /\ Len(t) \in Nat
  OBVIOUS
<1>2. /\ \A i \in 1..Len(t) : (t \o u)[i] = t[i]
      /\ \A i \in 1..m : (t \o u)[Len(t) + i] = u[i]
  OBVIOUS
<1>3. IsFiniteSet(ps) /\ Cardinality(ps) = Len(t) /\ \A p \in ps : t[Cardinality(ps \cap 1..p)] = f[p]
  BY Positions, SameCardinality DEF Get!Picks
<1>4. ASSUME NEW k \in 0..m PROVE IsFiniteSet((n + 1)..(n + k)) /\ Cardinality((n + 1)..(n + k)) = k
  <2>1. n + 1 \in Int /\ n + k \in Int
    BY <1>1
  <2>2. IsFiniteSet((n + 1)..(n + k))
        /\ Cardinality((n + 1)..(n + k)) = IF n + 1 > n + k THEN 0 ELSE (n + k) - (n + 1) + 1
    BY <2>1, FS_Interval, Zenon
  <2> QED
    BY <1>1, <2>2
<1>5. ASSUME NEW k \in 0..m PROVE Cardinality(ps \cup ((n + 1)..(n + k))) = Len(t) + k
  <2>1. ps \cap ((n + 1)..(n + k)) = {}
    BY <1>1
  <2>2. Cardinality(ps \cup ((n + 1)..(n + k))) =
          Cardinality(ps) + Cardinality((n + 1)..(n + k)) - Cardinality(ps \cap ((n + 1)..(n + k)))
    BY <1>3, <1>4, FS_Union, Zenon
  <2>3. Cardinality({}) = 0
    BY FS_EmptySet
  <2>4. Cardinality((n + 1)..(n + k)) = k
    BY <1>4
  <2>5. Cardinality(ps) = Len(t)
    BY <1>3
  <2>6. Len(t) + k - 0 = Len(t) + k
    BY <1>1
  <2> QED
    BY <2>1, <2>2, <2>3, <2>4, <2>5, <2>6, Zenon
<1> HIDE DEF m
<1>6. Cardinality(ps \cup new) = Len(t \o u)
  BY <1>1, <1>5
<1>7. ASSUME NEW p \in ps PROVE (t \o u)[Cardinality((ps \cup new) \cap 1..p)] = f[p]
  <2>1. (ps \cup new) \cap 1..p = ps \cap 1..p
    <3>1. p \in 1..n
      OBVIOUS
    <3>2. \A x \in new : x > n
      BY <1>1
    <3> HIDE DEF new
    <3> QED
      BY <3>1, <3>2
  <2>2. Cardinality(ps \cap 1..p) \in 1..Len(t)
    <3>1. IsFiniteSet(ps \cap 1..p) /\ Cardinality(ps \cap 1..p) <= Cardinality(ps) /\ Cardinality(ps \cap 1..p) \in Nat
      BY <1>3, FS_Subset, FS_CardinalityType
    <3>2. ps \cap 1..p # {}
      OBVIOUS
    <3>3. Cardinality(ps \cap 1..p) # 0
      BY <3>1, <3>2, FS_EmptySet
    <3> QED
      BY <1>3, <3>1, <3>3
  <2> QED
    BY <1>2, <1>3, <2>1, <2>2
<1>8. ASSUME NEW p \in new PROVE (t \o u)[Cardinality((ps \cup new) \cap 1..p)] = f[p]
  <2>1. p - n \in 1..m /\ p = n + (p - n)
    BY <1>1
  <2>2. (ps \cup new) \cap 1..p = ps \cup ((n + 1)..(n + (p - n)))
    <3>1. \A x \in ps : x \in 1..p
      BY <2>1, <1>1
    <3>2. new \cap 1..p = (n + 1)..(n + (p - n))
      BY <2>1, <1>1
    <3> HIDE DEF new
    <3> QED
      BY <3>1, <3>2
  <2>3. Cardinality((ps \cup new) \cap 1..p) = Len(t) + (p - n)
    BY <1>5, <2>1, <2>2
  <2>4. (t \o u)[Len(t) + (p - n)] = u[p - n]
    BY <1>2, <2>1
  <2>5. f[n + (p - n)] = u[p - n]
    BY <2>1 DEF m
  <2> QED
    BY <2>1, <2>3, <2>4, <2>5
<1> QED
  BY <1>1, <1>6, <1>7, <1>8, SameCardinality DEF Get!Picks, m

\* What an interval of bytes adds, and one byte.
LEMMA PicksAddOne ==
    ASSUME NEW S, NEW t \in Seq(S), NEW b \in S, NEW f, NEW n \in Nat, NEW ps \in SUBSET (1..n),
           Get!Picks(t, f, ps), f[n + 1] = b
    PROVE  Get!Picks(Append(t, b), f, ps \cup {n + 1})
<1>1. <<b>> \in Seq(S) /\ Len(<<b>>) = 1 /\ <<b>>[1] = b /\ t \o <<b>> = Append(t, b)
  OBVIOUS
<1>2. (n + 1)..(n + Len(<<b>>)) = {n + 1}
  BY <1>1
<1>3. \A i \in 1..Len(<<b>>) : f[n + i] = <<b>>[i]
  BY <1>1
<1>4. Get!Picks(t \o <<b>>, f, ps \cup ((n + 1)..(n + Len(<<b>>))))
  BY <1>1, <1>3, PicksAdd
<1> QED
  BY <1>1, <1>2, <1>4

-----------------------------------------------------------------------------
(* Lines *)

Byte == Get!Byte

\* A whole number of lines.
Whole(f) == Len(f) = 0 \/ f[Len(f)] = "n"

\* f is the first part of g.
Opens(f, g) == Len(f) <= Len(g) /\ \A i \in 1..Len(f) : f[i] = g[i]

\* The whole lines at the front of a text have the same numbers and the same wanted
\* bytes in the text as by themselves.
LEMMA FrontLines ==
    ASSUME NEW f \in Seq(Byte), NEW g \in Seq(Byte), Opens(f, g), Whole(f), NEW q, Get!ByLine(q)
    PROVE  /\ \A p \in 1..Len(f) : Get!LineOf(g, p) = Get!LineOf(f, p) /\ Get!LineOf(g, p) <= Lines(f, Len(f))
           /\ \A p \in (Len(f) + 1)..Len(g) : Get!LineOf(g, p) >= Lines(f, Len(f)) + 1
           /\ Get!Wanted(f, q) = Get!Wanted(g, q) \cap 1..Len(f)
           /\ \A p \in 1..Len(g) : Get!LineOf(g, p) \in Nat
<1>1. /\ Len(f) \in Nat /\ Len(g) \in Nat /\ Len(f) <= Len(g) /\ \A i \in 1..Len(f) : f[i] = g[i]
      /\ DOMAIN f = 1..Len(f) /\ DOMAIN g = 1..Len(g)
  BY DEF Opens
<1>0. Len(f) \in Nat /\ Len(g) \in Nat
  OBVIOUS
<1>2. \A k \in Nat : k <= Len(f) => Lines(f, k) = Lines(g, k)
  BY <1>1, LinesSame
<1>3. ASSUME NEW p \in 1..Len(f)
      PROVE  Get!LineOf(g, p) = Get!LineOf(f, p) /\ Get!LineOf(g, p) <= Lines(f, Len(f))
  <2>1. p - 1 \in Nat /\ p - 1 <= Len(f) - 1 /\ Len(f) - 1 \in Nat
    BY <1>1
  <2>2. Lines(f, p - 1) = Lines(g, p - 1)
    BY <1>2, <2>1
  <2>3. Lines(f, p - 1) <= Lines(f, Len(f) - 1)
    BY <2>1, LinesMore
  <2>4. Lines(f, Len(f)) = Lines(f, Len(f) - 1) + 1
    <3>1. f[Len(f)] = "n"
      BY <1>1 DEF Whole
    <3>2. Len(f) - 1 < Len(f) /\ ((Len(f) - 1) + 1)..(Len(f) - 1) = {}
      BY <1>1
    <3> QED
      BY <1>1, <2>1, <3>1, <3>2, LinesNext
  <2>5. Lines(f, p - 1) \in Nat /\ Lines(f, Len(f) - 1) \in Nat
    BY <2>1, LinesType
  <2> QED
    BY <2>2, <2>3, <2>4, <2>5, LineOfLines
<1>4. ASSUME NEW p \in (Len(f) + 1)..Len(g) PROVE Get!LineOf(g, p) >= Lines(f, Len(f)) + 1
  <2>1. p - 1 \in Nat /\ Len(f) <= p - 1
    BY <1>1
  <2>2. Lines(g, Len(f)) <= Lines(g, p - 1) /\ Lines(g, Len(f)) = Lines(f, Len(f))
    BY <1>1, <1>2, <2>1, LinesMore
  <2>3. Lines(g, p - 1) \in Nat /\ Lines(f, Len(f)) \in Nat
    BY <1>1, <2>1, LinesType
  <2> QED
    BY <2>2, <2>3, LineOfLines
<1>5. ASSUME NEW p \in 1..Len(f) PROVE (f[p] = "r" /\ f[p + 1] = "n") <=> (g[p] = "r" /\ g[p + 1] = "n")
  <2>1. f[p] = g[p]
    BY <1>1
  <2>2. CASE p < Len(f)
    <3>1. p + 1 \in 1..Len(f)
      BY <1>1, <2>2
    <3> QED
      BY <1>1, <2>1, <3>1
  <2>3. CASE p = Len(f)
    <3>1. f[p] = "n"
      BY <1>1, <2>3 DEF Whole
    <3> QED
      BY <2>1, <3>1
  <2>4. p < Len(f) \/ p = Len(f)
    BY <1>0
  <2> QED
    BY <2>2, <2>3, <2>4
<1>6. Get!Wanted(f, q) = Get!Wanted(g, q) \cap 1..Len(f)
  BY <1>1, <1>3, <1>5 DEF Get!Wanted
<1>7. ASSUME NEW p \in 1..Len(g) PROVE Get!LineOf(g, p) \in Nat
  <2>1. p - 1 \in Nat
    BY <1>1
  <2> QED
    BY <2>1, LinesType, LineOfLines
<1> QED
  BY <1>3, <1>4, <1>6, <1>7

\* g has one more line than f.
OneMore(f, g) ==
    /\ Opens(f, g) /\ Whole(f) /\ Len(f) < Len(g) /\ g[Len(g)] = "n"
    /\ \A i \in (Len(f) + 1)..(Len(g) - 1) : g[i] # "n"

Within(q, n) == n >= q.start /\ (q.end > 0 => n <= q.end)

\* One more line adds its bytes, but for a carriage return at its end, if it is
\* within the range, and none if it is not.
LEMMA LineAdded ==
    ASSUME NEW f \in Seq(Byte), NEW g \in Seq(Byte), OneMore(f, g), NEW q, Get!ByLine(q)
    PROVE  /\ Lines(g, Len(g)) = Lines(f, Len(f)) + 1
           /\ Get!Wanted(g, q) = Get!Wanted(f, q) \cup
                (IF Within(q, Lines(f, Len(f)) + 1)
                 THEN {p \in (Len(f) + 1)..Len(g) : ~(g[p] = "r" /\ p + 1 = Len(g))} ELSE {})
           /\ Whole(g)
<1> DEFINE n == Lines(f, Len(f)) + 1
           new == (Len(f) + 1)..Len(g)
<1>1. /\ Len(f) \in Nat /\ Len(g) \in Nat /\ Len(f) < Len(g) /\ DOMAIN g = 1..Len(g) /\ g[Len(g)] = "n"
      /\ \A i \in (Len(f) + 1)..(Len(g) - 1) : g[i] # "n"
  BY DEF OneMore
<1>0. Len(f) \in Nat /\ Len(g) \in Nat
  OBVIOUS
<1>2. Lines(g, Len(f)) = Lines(f, Len(f)) /\ Lines(f, Len(f)) \in Nat
  <2>1. \A i \in 1..Len(f) : f[i] = g[i]
    BY DEF OneMore, Opens
  <2>2. \A k \in Nat : k <= Len(f) => Lines(f, k) = Lines(g, k)
    BY <1>1, <2>1, LinesSame, Zenon
  <2>3. Len(f) <= Len(f)
    BY <1>1
  <2> QED
    BY <1>1, <2>2, <2>3, LinesType, Zenon
<1>3. Lines(g, Len(g)) = n /\ \A k \in Len(f)..(Len(g) - 1) : Lines(g, k) = Lines(f, Len(f))
  <2>1. /\ \A k \in Len(f)..(Len(g) - 1) : Lines(g, k) = Lines(g, Len(f))
        /\ g[Len(g)] = "n" => Lines(g, Len(g)) = Lines(g, Len(f)) + 1
    BY <1>1, LinesNext, Zenon
  <2> QED
    BY <1>1, <1>2, <2>1, Zenon
<1>4. ASSUME NEW p \in new PROVE Get!LineOf(g, p) = n
  <2>1. p - 1 \in Len(f)..(Len(g) - 1)
    BY <1>1
  <2> QED
    BY <1>2, <1>3, <2>1, LineOfLines
<1>5. ASSUME NEW p \in new PROVE (g[p] = "r" /\ g[p + 1] = "n") <=> (g[p] = "r" /\ p + 1 = Len(g))
  <2>1. CASE p = Len(g)
    BY <1>1, <2>1
  <2>2. CASE p < Len(g)
    <3>1. g[p + 1] = "n" <=> p + 1 = Len(g)
      <4>1. p \in Nat /\ p + 1 \in (Len(f) + 1)..Len(g)
        BY <1>1, <2>2
      <4>2. p + 1 = Len(g) \/ p + 1 \in (Len(f) + 1)..(Len(g) - 1)
        BY <1>0, <4>1
      <4>3. Len(g) \notin (Len(f) + 1)..(Len(g) - 1)
        BY <1>1
      <4> QED
        BY <1>1, <4>2, <4>3, Zenon
    <3> QED
      BY <3>1
  <2>3. p = Len(g) \/ p < Len(g)
    BY <1>0
  <2> QED
    BY <2>1, <2>2, <2>3
<1>6. Get!Wanted(f, q) = Get!Wanted(g, q) \cap 1..Len(f)
  BY FrontLines DEF OneMore
<1>7. Get!Wanted(g, q) \cap new = IF Within(q, n) THEN {p \in new : ~(g[p] = "r" /\ p + 1 = Len(g))} ELSE {}
  <2>1. new \subseteq DOMAIN g
    BY <1>1
  <2>2. CASE Within(q, n)
    BY <1>4, <1>5, <2>1, <2>2 DEF Get!Wanted, Within
  <2>3. CASE ~Within(q, n)
    BY <1>4, <2>1, <2>3 DEF Get!Wanted, Within
  <2> QED
    BY <2>2, <2>3
<1>8. Get!Wanted(g, q) \subseteq 1..Len(f) \cup new
  <2>1. 1..Len(g) = 1..Len(f) \cup new
    BY <1>1
  <2>2. Get!Wanted(g, q) \subseteq 1..Len(g)
    BY <1>1 DEF Get!Wanted
  <2> QED
    BY <2>1, <2>2
<1> HIDE DEF new
<1>9. Get!Wanted(g, q) = Get!Wanted(f, q) \cup (Get!Wanted(g, q) \cap new)
  BY <1>6, <1>8
<1> QED
  BY <1>1, <1>3, <1>7, <1>9, Zenon DEF new, Whole

\* The bytes of f that are wanted stay so, and are the same, in a longer text.
LEMMA WantedKept ==
    ASSUME NEW f \in Seq(Byte), NEW g \in Seq(Byte), Opens(f, g), NEW q, NEW t, Get!Picks(t, f, Get!Wanted(f, q))
    PROVE  /\ Get!Picks(t, g, Get!Wanted(f, q)) /\ Get!Wanted(f, q) \in SUBSET (1..Len(f))
           /\ IsFiniteSet(Get!Wanted(f, q)) /\ Cardinality(Get!Wanted(f, q)) = Len(t) /\ Len(t) \in Nat
<1>1. Get!Wanted(f, q) \in SUBSET (1..Len(f)) /\ Len(f) \in Nat
  BY DEF Get!Wanted
<1>2. \A p \in Get!Wanted(f, q) : f[p] = g[p]
  BY <1>1 DEF Opens
<1>3. IsFiniteSet(Get!Wanted(f, q)) /\ Cardinality(Get!Wanted(f, q)) \in Nat
  BY <1>1, Positions
<1>4. Cardinality(Get!Wanted(f, q)) = Len(t)
  BY SameCardinality DEF Get!Picks
<1> QED
  BY <1>1, <1>2, <1>3, <1>4, PicksSame

\* A line that is not wanted adds nothing.
LEMMA LineSkipped ==
    ASSUME NEW f \in Seq(Byte), NEW g \in Seq(Byte), OneMore(f, g), NEW q, Get!ByLine(q),
           ~Within(q, Lines(f, Len(f)) + 1), NEW t, Get!Picks(t, f, Get!Wanted(f, q))
    PROVE  Get!Picks(t, g, Get!Wanted(g, q))
<1>1. Get!Wanted(g, q) = Get!Wanted(f, q)
  <2>1. Get!Wanted(g, q) = Get!Wanted(f, q) \cup
          (IF Within(q, Lines(f, Len(f)) + 1)
           THEN {p \in (Len(f) + 1)..Len(g) : ~(g[p] = "r" /\ p + 1 = Len(g))} ELSE {})
    BY LineAdded, Zenon
  <2> QED
    BY <2>1
<1>2. Opens(f, g)
  BY DEF OneMore
<1> QED
  BY <1>1, <1>2, WantedKept

\* With o after t, the picks are those at ps.
Reaches(t, o, g, ps) ==
    /\ o \in Seq(Byte) /\ t \o o \in Seq(Byte) /\ Len(t \o o) = Len(t) + Len(o)
    /\ Get!Picks(t \o o, g, ps)

\* Appending to a concatenation appends to its second part.
LEMMA ConcatAppend ==
    ASSUME NEW t \in Seq(Byte), NEW u \in Seq(Byte), NEW e \in Byte, NEW g, NEW ps,
           Get!Picks(Append(t \o u, e), g, ps)
    PROVE  Reaches(t, Append(u, e), g, ps)
<1>1. Append(t \o u, e) = t \o Append(u, e)
  OBVIOUS
<1>2. Append(u, e) \in Seq(Byte) /\ t \o Append(u, e) \in Seq(Byte)
      /\ Len(t \o Append(u, e)) = Len(t) + Len(Append(u, e))
  OBVIOUS
<1> QED
  BY <1>1, <1>2, Zenon DEF Reaches

\* t is what the request wants of f, and the line that g has more is in its range.
Takes(t, f, g, q) ==
    /\ OneMore(f, g) /\ Get!ByLine(q) /\ Within(q, Lines(f, Len(f)) + 1)
    /\ Get!Picks(t, f, Get!Wanted(f, q))

LastLine(f, g) == Append(Get!DropCR(SubSeq(g, Len(f) + 1, Len(g) - 1)), "n")

\* What handleFileGet sends for a line is what the line adds.
LEMMA LinePicked ==
    ASSUME NEW f \in Seq(Byte), NEW g \in Seq(Byte), NEW q, NEW t \in Seq(Byte), Takes(t, f, g, q)
    PROVE  /\ LastLine(f, g) \in Seq(Byte) /\ Get!Picks(t \o LastLine(f, g), g, Get!Wanted(g, q))
           /\ t \o LastLine(f, g) \in Seq(Byte) /\ Len(t \o LastLine(f, g)) = Len(t) + Len(LastLine(f, g))
<1> DEFINE out == LastLine(f, g)
           n == Len(f)
           m == Len(g)
           s == SubSeq(g, n + 1, m - 1)
           u == Get!DropCR(s)
           w == Get!Wanted(f, q)
<1>1. n \in Nat /\ m \in Nat /\ n < m /\ g[m] = "n" /\ Opens(f, g)
  BY DEF Takes, OneMore
<1>2. Get!Picks(t, g, w) /\ w \in SUBSET (1..n)
  BY <1>1, WantedKept DEF Takes
<1>3. Get!Wanted(g, q) = w \cup {p \in (n + 1)..m : ~(g[p] = "r" /\ p + 1 = m)}
  BY LineAdded DEF Takes
<1>4. s \in Seq(Byte) /\ Len(s) = m - 1 - n /\ \A i \in 1..Len(s) : s[i] = g[n + i]
  <2>1. n + 1 \in 1..(m + 1) /\ m - 1 \in 0..m
    BY <1>1
  <2> QED
    BY <1>1, <2>1
<1>7. out = Append(u, "n")
  BY DEF LastLine
<1> HIDE DEF n, m, s, w, out
<1>5. CASE s # <<>> /\ s[Len(s)] = "r"
  <2>1. Len(s) > 0 /\ g[m - 1] = "r" /\ m - 1 > n
    <3>1. Len(s) > 0
      BY <1>4, <1>5
    <3>2. n + Len(s) = m - 1
      BY <1>1, <1>4
    <3> QED
      BY <1>1, <1>4, <1>5, <3>1, <3>2
  <2>2. u = SubSeq(s, 1, Len(s) - 1)
    BY <1>5 DEF Get!DropCR
  <2>3. u \in Seq(Byte) /\ Len(u) = m - 2 - n /\ \A i \in 1..Len(u) : g[n + i] = u[i]
    BY <1>1, <1>4, <2>1, <2>2
  <2>4. Get!Picks(t \o u, g, w \cup ((n + 1)..(n + Len(u)))) /\ t \o u \in Seq(Byte)
    BY <1>1, <1>2, <2>3, PicksAdd
  <2>5. n + Len(u) = m - 2 /\ m - 2 \in Nat /\ m - 1 \in Nat /\ (m - 1) + 1 = m
    BY <1>1, <2>1, <2>3
  <2>6. w \cup ((n + 1)..(m - 2)) \in SUBSET (1..(m - 1))
    BY <1>1, <1>2, <2>5
  <2>7. "n" \in Byte
    BY DEF Byte, Get!Byte
  <2>8. Get!Picks(Append(t \o u, "n"), g, (w \cup ((n + 1)..(m - 2))) \cup {m})
    BY <1>1, <2>4, <2>5, <2>6, <2>7, PicksAddOne
  <2>9. {p \in (n + 1)..m : ~(g[p] = "r" /\ p + 1 = m)} = ((n + 1)..(m - 2)) \cup {m}
    <3>1. \A p \in (n + 1)..m : p = m \/ p = m - 1 \/ p \in (n + 1)..(m - 2)
      BY <1>1
    <3>2. g[m] # "r" /\ (m - 1) + 1 = m /\ \A p \in (n + 1)..(m - 2) : p \in (n + 1)..m /\ p + 1 # m
      BY <1>1
    <3>3. m \in (n + 1)..m
      BY <1>1
    <3> QED
      BY <2>1, <3>1, <3>2, <3>3
  <2>10. Reaches(t, out, g, (w \cup ((n + 1)..(m - 2))) \cup {m})
    <3>1. u \in Seq(Byte)
      BY <2>3
    <3> HIDE DEF u
    <3>2. Reaches(t, Append(u, "n"), g, (w \cup ((n + 1)..(m - 2))) \cup {m})
      BY <2>7, <2>8, <3>1, ConcatAppend
    <3> QED
      BY <1>7, <3>2, Zenon
  <2>11. Get!Wanted(g, q) = (w \cup ((n + 1)..(m - 2))) \cup {m}
    BY <1>3, <2>9
  <2> QED
    BY <2>10, <2>11, Zenon DEF out, Reaches
<1>6. CASE ~(s # <<>> /\ s[Len(s)] = "r")
  <2>1. u = s
    BY <1>6 DEF Get!DropCR
  <2>2. u \in Seq(Byte) /\ Len(u) = m - 1 - n /\ \A i \in 1..Len(u) : g[n + i] = u[i]
    BY <1>4, <2>1
  <2>3. Get!Picks(t \o u, g, w \cup ((n + 1)..(n + Len(u)))) /\ t \o u \in Seq(Byte)
    BY <1>1, <1>2, <2>2, PicksAdd
  <2>4. n + Len(u) = m - 1 /\ m - 1 \in Nat /\ (m - 1) + 1 = m
    BY <1>1, <2>2
  <2>5. w \cup ((n + 1)..(m - 1)) \in SUBSET (1..(m - 1))
    BY <1>1, <1>2, <2>4
  <2>6. "n" \in Byte
    BY DEF Byte, Get!Byte
  <2>7. Get!Picks(Append(t \o u, "n"), g, (w \cup ((n + 1)..(m - 1))) \cup {m})
    BY <1>1, <2>3, <2>4, <2>5, <2>6, PicksAddOne
  <2>8. m - 1 > n => g[m - 1] # "r"
    <3> SUFFICES ASSUME m - 1 > n PROVE g[m - 1] # "r"
      OBVIOUS
    <3>1. Len(s) \in 1..Len(s) /\ n + Len(s) = m - 1 /\ s # <<>>
      BY <1>1, <1>4
    <3>2. s[Len(s)] = g[m - 1]
      BY <1>4, <3>1
    <3> QED
      BY <1>6, <3>1, <3>2
  <2>9. {p \in (n + 1)..m : ~(g[p] = "r" /\ p + 1 = m)} = ((n + 1)..(m - 1)) \cup {m}
    <3>1. \A p \in (n + 1)..m : p = m \/ p \in (n + 1)..(m - 1)
      BY <1>1
    <3>2. \A p \in (n + 1)..m : p + 1 = m => p = m - 1 /\ m - 1 > n
      BY <1>1
    <3>3. \A p \in (n + 1)..(m - 1) : p \in (n + 1)..m
      BY <1>1
    <3>4. m \in (n + 1)..m
      BY <1>1
    <3> QED
      BY <1>1, <2>8, <3>1, <3>2, <3>3, <3>4
  <2>10. Reaches(t, out, g, (w \cup ((n + 1)..(m - 1))) \cup {m})
    <3>1. u \in Seq(Byte)
      BY <2>2
    <3> HIDE DEF u
    <3>2. Reaches(t, Append(u, "n"), g, (w \cup ((n + 1)..(m - 1))) \cup {m})
      BY <2>6, <2>7, <3>1, ConcatAppend
    <3> QED
      BY <1>7, <3>2, Zenon
  <2>11. Get!Wanted(g, q) = (w \cup ((n + 1)..(m - 1))) \cup {m}
    BY <1>3, <2>9
  <2> QED
    BY <2>10, <2>11, Zenon DEF out, Reaches
<1> QED
  BY <1>5, <1>6, Zenon DEF out

-----------------------------------------------------------------------------
(* Slices *)

\* A request without its cap.
Uncapped(q) == [q EXCEPT !.max = 0]

Request == [start : Int, end : Int, max : Int]

\* A cap does not change what a range wants.
LEMMA UncappedWants ==
    ASSUME NEW q \in Request, NEW f
    PROVE  /\ Get!ByLine(Uncapped(q)) <=> Get!ByLine(q)
           /\ Get!Wanted(f, Uncapped(q)) = Get!Wanted(f, q)
           /\ Uncapped(q).max = 0
<1>1. Uncapped(q).start = q.start /\ Uncapped(q).end = q.end /\ Uncapped(q).max = 0
  BY DEF Uncapped, Request
<1> HIDE DEF Uncapped
<1>2. Get!ByLine(Uncapped(q)) <=> Get!ByLine(q)
  BY <1>1 DEF Get!ByLine
<1>3. Get!Wanted(f, Uncapped(q)) = Get!Wanted(f, q)
  BY <1>1, <1>2, Zenon DEF Get!Wanted
<1> QED
  BY <1>1, <1>2, <1>3

\* The text of which a request wants a slice.
Text(f, q) == IF Get!ByLine(q) THEN Get!Closed(f) ELSE f

\* All that is wanted is the slice, when it meets the cap.
LEMMA AllFits ==
    ASSUME NEW f, NEW q \in Request, NEW t, NEW n \in Nat,
           Get!Wanted(Text(f, q), q) \in SUBSET (1..n), Get!Picks(t, Text(f, q), Get!Wanted(Text(f, q), q)),
           q.max > 0 => Len(t) <= q.max
    PROVE  Get!IsSlice(t, f, q) /\ Get!IsSlice(t, f, Uncapped(q))
<1> DEFINE g == Text(f, q)
           w == Get!Wanted(g, q)
<1>1. Cardinality(w) = Len(t) /\ IsFiniteSet(w) /\ Cardinality(w) \in Nat
  BY SameCardinality, Positions DEF Get!Picks
<1>2. ASSUME NEW S \in SUBSET w, q.max > 0 PROVE Get!Cardinality(S) <= q.max
  <2>1. Cardinality(S) <= Cardinality(w) /\ Cardinality(S) \in Nat
    BY <1>1, FS_Subset, FS_CardinalityType
  <2>2. q.max \in Int
    BY DEF Request
  <2> QED
    BY <1>1, <1>2, <2>1, <2>2, SameCardinality
<1> HIDE DEF w
<1>3. Get!Fits(g, q, w) = w
  <2>1. \A p : q.max > 0 => Get!Cardinality({o \in w : Get!Piece(g, q, o) <= Get!Piece(g, q, p)}) <= q.max
    BY <1>2
  <2> QED
    BY <2>1, Zenon DEF Get!Fits
<1>4. Get!IsSlice(t, f, q)
  BY <1>3, Zenon DEF Get!IsSlice, Text, w
<1>5. Text(f, Uncapped(q)) = g /\ Get!Wanted(g, Uncapped(q)) = w
  BY UncappedWants, Zenon DEF Text, w
<1>6. Get!Fits(g, Uncapped(q), w) = w
  <2>1. ~(Uncapped(q).max > 0)
    BY UncappedWants
  <2> QED
    BY <2>1, Zenon DEF Get!Fits
<1>7. Get!IsSlice(t, f, Uncapped(q))
  <2>1. Get!Picks(t, g, w)
    BY Zenon DEF w
  <2> QED
    BY <1>5, <1>6, <2>1, Zenon DEF Get!IsSlice, Text
<1> QED
  BY <1>4, <1>7

\* Beyond the end of the range nothing more is wanted.
LEMMA PastRange ==
    ASSUME NEW f \in Seq(Byte), NEW g \in Seq(Byte), Opens(f, g), Whole(f), NEW q \in Request, Get!ByLine(q),
           q.end > 0, Lines(f, Len(f)) + 1 > q.end
    PROVE  Get!Wanted(g, q) = Get!Wanted(f, q)
<1>1. /\ Get!Wanted(f, q) = Get!Wanted(g, q) \cap 1..Len(f)
      /\ \A p \in (Len(f) + 1)..Len(g) : Get!LineOf(g, p) >= Lines(f, Len(f)) + 1
      /\ \A p \in 1..Len(g) : Get!LineOf(g, p) \in Nat
  BY FrontLines
<1>2. Len(f) \in Nat /\ Len(g) \in Nat /\ Len(f) <= Len(g) /\ q.end \in Int /\ DOMAIN g = 1..Len(g)
  BY DEF Opens, Request
<1>3. Lines(f, Len(f)) \in Nat
  BY <1>2, LinesType
<1>4. ASSUME NEW p \in Get!Wanted(g, q) PROVE p \in 1..Len(f)
  <2>1. p \in 1..Len(g) /\ Get!LineOf(g, p) <= q.end
    BY <1>2 DEF Get!Wanted
  <2>2. p \notin (Len(f) + 1)..Len(g)
    BY <1>1, <1>2, <1>3, <2>1
  <2> QED
    BY <1>2, <2>1, <2>2
<1> QED
  BY <1>1, <1>4

\* The line that would exceed the cap, and all after it, are not in the slice.
LEMMA OverTheCap ==
    ASSUME NEW f \in Seq(Byte), NEW h \in Seq(Byte), NEW g \in Seq(Byte), OneMore(f, h), Opens(h, g),
           NEW q \in Request, Get!ByLine(q), q.max > 0,
           NEW t, Get!Picks(t, f, Get!Wanted(f, q)), Len(t) <= q.max, Cardinality(Get!Wanted(h, q)) > q.max
    PROVE  Get!Fits(g, q, Get!Wanted(g, q)) = Get!Wanted(f, q)
<1> DEFINE w == Get!Wanted(g, q)
           At(p) == {o \in w : Get!LineOf(g, o) <= Get!LineOf(g, p)}
           n == Lines(f, Len(f))
<1>1. /\ Len(f) \in Nat /\ Len(h) \in Nat /\ Len(g) \in Nat /\ Len(f) < Len(h) /\ Len(h) <= Len(g)
      /\ Opens(f, g) /\ Opens(f, h) /\ Whole(f) /\ Whole(h) /\ DOMAIN g = 1..Len(g)
  BY DEF OneMore, Opens, Whole
<1>2. /\ \A p \in 1..Len(f) : Get!LineOf(g, p) <= n
      /\ \A p \in (Len(f) + 1)..Len(g) : Get!LineOf(g, p) >= n + 1
      /\ Get!Wanted(f, q) = w \cap 1..Len(f)
      /\ \A p \in 1..Len(g) : Get!LineOf(g, p) \in Nat
  BY <1>1, FrontLines
<1>3. /\ \A p \in 1..Len(h) : Get!LineOf(g, p) <= n + 1
      /\ Get!Wanted(h, q) = w \cap 1..Len(h)
  <2>1. Lines(h, Len(h)) = n + 1
    BY LineAdded
  <2> QED
    BY <1>1, <2>1, FrontLines
<1>4. w \in SUBSET (1..Len(g)) /\ n \in Nat /\ q.max \in Int
  BY <1>1, LinesType DEF Get!Wanted, Request
<1>5. IsFiniteSet(w) /\ Cardinality(Get!Wanted(f, q)) = Len(t) /\ IsFiniteSet(Get!Wanted(f, q)) /\ Len(t) \in Nat
  BY <1>1, <1>4, Positions, WantedKept
<1>6. Get!Fits(g, q, w) = {p \in w : Cardinality(At(p)) <= q.max}
  BY SameCardinality DEF Get!Fits, Get!Piece
<1> HIDE DEF w, n
<1>7. ASSUME NEW p \in w, p \in 1..Len(f) PROVE Cardinality(At(p)) <= q.max
  <2>1. At(p) \in SUBSET Get!Wanted(f, q)
    <3> SUFFICES ASSUME NEW o \in At(p) PROVE o \in Get!Wanted(f, q)
      OBVIOUS
    <3>1. o \in w /\ Get!LineOf(g, o) <= Get!LineOf(g, p) /\ o \in 1..Len(g) /\ Get!LineOf(g, o) \in Nat
          /\ Get!LineOf(g, p) \in Nat
      BY <1>2, <1>4
    <3>2. Get!LineOf(g, o) <= n
      BY <1>2, <1>4, <1>7, <3>1
    <3>3. o \notin (Len(f) + 1)..Len(g)
      BY <1>2, <1>4, <3>1, <3>2
    <3>4. o \in 1..Len(f)
      BY <1>1, <3>1, <3>3
    <3> QED
      BY <1>2, <3>1, <3>4
  <2>2. Cardinality(At(p)) <= Len(t) /\ Cardinality(At(p)) \in Nat
    BY <1>5, <2>1, FS_Subset, FS_CardinalityType
  <2> QED
    BY <1>4, <1>5, <2>2
<1>8. ASSUME NEW p \in w, p \notin 1..Len(f) PROVE ~(Cardinality(At(p)) <= q.max)
  <2>1. p \in (Len(f) + 1)..Len(g) /\ Get!LineOf(g, p) \in Nat
    BY <1>1, <1>2, <1>4, <1>8
  <2>2. Get!LineOf(g, p) >= n + 1
    BY <1>2, <2>1
  <2>3. Get!Wanted(h, q) \in SUBSET At(p)
    <3> SUFFICES ASSUME NEW o \in Get!Wanted(h, q) PROVE o \in At(p)
      OBVIOUS
    <3>1. o \in w /\ o \in 1..Len(h) /\ o \in 1..Len(g) /\ Get!LineOf(g, o) \in Nat
      BY <1>2, <1>3, <1>4
    <3>2. Get!LineOf(g, o) <= n + 1
      BY <1>3, <3>1
    <3> QED
      BY <1>4, <2>1, <2>2, <3>1, <3>2
  <2>4. IsFiniteSet(At(p))
    <3>1. At(p) \in SUBSET w
      OBVIOUS
    <3> HIDE DEF At
    <3> QED
      BY <1>5, <3>1, FS_Subset
  <2> HIDE DEF At
  <2>5. Cardinality(Get!Wanted(h, q)) <= Cardinality(At(p)) /\ Cardinality(At(p)) \in Nat
        /\ Cardinality(Get!Wanted(h, q)) \in Nat
    BY <2>3, <2>4, FS_Subset, FS_CardinalityType
  <2> QED
    BY <1>4, <2>5
<1>9. Get!Fits(g, q, w) = w \cap 1..Len(f)
  <2> HIDE DEF At
  <2> QED
    BY <1>6, <1>7, <1>8
<1> QED
  BY <1>2, <1>9 DEF w

-----------------------------------------------------------------------------
(* A download *)

Prefix(f, n) == SubSeq(f, 1, n)

Frame == [kind : {"data"}, data : Seq(Byte)] \cup [kind : {"done"}, sha : Seq(Byte), truncated : BOOLEAN]
         \cup [kind : {"result", "error"}]

GetTypes ==
    /\ req \in Request /\ file \in Seq(Byte) /\ was \in 0..Len(file)
    /\ reader \in {"idle", "asked", "lines", "bytes", "final", "result", "over", "unheard"}
    /\ seen \in 0..Len(file) /\ pos \in 0..seen /\ lineNo \in 0..pos
    /\ sent \in Seq(Byte) /\ hashed \in Seq(Byte) /\ wire \in Seq(Frame)
    /\ outcome \in {"none", "waiting", "ok", "error"}

GetFlags == eof \in BOOLEAN /\ truncated \in BOOLEAN /\ res.truncated \in BOOLEAN

\* Nothing is read before the file is opened, and its end is not before the length
\* it had then.
Reading ==
    /\ reader \in {"idle", "asked"} => seen = 0 /\ pos = 0 /\ lineNo = 0 /\ ~eof /\ sent = <<>>
    /\ eof => seen >= was

\* The first bytes of a file, with a newline at their end.
Scanned(f, n) == Get!Closed(Prefix(f, n))

\* The whole lines scanned are those that are counted, and what they hold for the
\* request has been sent.
Sums(n, s, c, q) == n = Lines(c, Len(c)) /\ Get!Picks(s, c, Get!Wanted(c, q))
Scanning == reader = "lines" =>
    /\ Get!ByLine(req)
    /\ pos = 0 \/ file[pos] = "n" \/ (eof /\ pos = seen)
    /\ Sums(lineNo, sent, Scanned(file, pos), req)

\* The bytes read are those sent.
Copying == reader = "bytes" => ~Get!ByLine(req) /\ Len(sent) <= Len(file) /\ sent = Prefix(file, Len(sent))

Capped == req.max > 0 => Len(sent) <= req.max

\* What was sent is what was asked for, of the file at a moment since its opening.
Sealed(f, w, s, q, cut) == \E k \in w..Len(f) :
    /\ Get!IsSlice(s, Prefix(f, k), q)
    /\ ~cut => Get!IsSlice(s, Prefix(f, k), Uncapped(q))

\* The client has the Done.
Said == res # [sha |-> Get!NoSum, truncated |-> FALSE]

Announced == \E i \in 1..Len(wire) : wire[i].kind = "done"

Sealing == reader \in {"final", "result"} \/ Said \/ Announced => Sealed(file, was, sent, req, truncated)

\* A Done says what was sent, and a Result comes after it.
Closing ==
    /\ Said \/ Announced => reader \in {"result", "over", "unheard"}
    /\ Said => res = [sha |-> sent, truncated |-> truncated]
    /\ reader = "result" => Said \/ Announced
    /\ \A i \in 1..Len(wire) :
         /\ wire[i].kind = "done" => wire[i].sha = sent /\ wire[i].truncated = truncated
         /\ wire[i].kind = "result" =>
              reader = "over" /\ (Said \/ \E j \in 1..(i - 1) : wire[j].kind = "done")

\* What is hashed is what is stored.
Storing ==
    /\ reader = "idle" => outcome = "none" /\ hashed = <<>>
    /\ outcome # "none" => got = hashed /\ reader # "idle"
    /\ outcome = "ok" => Said /\ (~res.truncated => got = sent)

GetInv == GetTypes /\ Reading /\ Scanning /\ Copying /\ Capped /\ Sealing /\ Closing /\ Storing

\* A set of numbers that is not empty has a least.
LEMMA Least ==
    ASSUME NEW S \in SUBSET Nat, S # {}
    PROVE  Get!Min(S) \in S /\ \A n \in S : Get!Min(S) <= n
<1> DEFINE R == {ss \in Nat \X Nat : ss[1] < ss[2]}
<1>1. IsWellFoundedOn(R, Nat)
  BY NatLessThanWellFounded DEF OpToRel
<1>2. PICK n \in S : \A m \in S : ~(<<m, n>> \in R)
  BY <1>1, WFMin
<1>3. \A m \in S : n <= m
  <2>1. SUFFICES ASSUME NEW m \in S PROVE n <= m
    OBVIOUS
  <2>2. m \in Nat /\ n \in Nat
    OBVIOUS
  <2>3. ~(m < n)
    BY <1>2, <2>2
  <2> QED
    BY <2>2, <2>3
<1> QED
  BY <1>3 DEF Get!Min

\* The least of two numbers.
LEMMA Smaller ==
    ASSUME NEW a \in Nat, NEW b \in Nat
    PROVE  Get!Min({a, b}) = IF a <= b THEN a ELSE b
<1>1. {a, b} \in SUBSET Nat /\ {a, b} # {}
  OBVIOUS
<1>2. Get!Min({a, b}) \in {a, b} /\ \A n \in {a, b} : Get!Min({a, b}) <= n
  BY <1>1, Least
<1> HIDE DEF Get!Min
<1> QED
  BY <1>2

\* The next line goes to the first newline, or to the end of the file.
LEMMA NextEnd ==
    ASSUME GetInv, Get!HasLine
    PROVE  /\ Get!LineEnd \in (pos + 1)..(seen + 1) /\ pos < seen
           /\ \A i \in (pos + 1)..(Get!LineEnd - 1) : file[i] # "n"
           /\ (Get!LineEnd <= seen /\ file[Get!LineEnd] = "n") \/ (Get!LineEnd = seen + 1 /\ eof)
           /\ Get!Min({Get!LineEnd, seen}) = IF Get!LineEnd <= seen THEN Get!LineEnd ELSE seen
<1>1. pos \in Nat /\ seen \in Nat /\ pos <= seen
  BY DEF GetInv, GetTypes
<1>2. CASE Get!Newlines # {}
  <2>1. Get!Newlines \in SUBSET Nat
    BY <1>1 DEF Get!Newlines
  <2>2. Get!LineEnd \in Get!Newlines /\ \A n \in Get!Newlines : Get!LineEnd <= n
    BY <1>2, <2>1, Least, Zenon DEF Get!LineEnd
  <2>3. Get!LineEnd \in (pos + 1)..seen /\ file[Get!LineEnd] = "n"
    BY <2>2 DEF Get!Newlines
  <2>4. ASSUME NEW i \in (pos + 1)..(Get!LineEnd - 1) PROVE file[i] # "n"
    <3>1. i \notin Get!Newlines
      BY <1>1, <2>2, <2>3
    <3>2. i \in (pos + 1)..seen
      BY <1>1, <2>3
    <3> QED
      BY <3>1, <3>2 DEF Get!Newlines
  <2>5. Get!LineEnd \in Nat
    BY <1>1, <2>3
  <2>6. Get!Min({Get!LineEnd, seen}) = IF Get!LineEnd <= seen THEN Get!LineEnd ELSE seen
    BY <1>1, <2>5, Smaller
  <2>7. pos < seen /\ Get!LineEnd \in (pos + 1)..(seen + 1) /\ Get!LineEnd <= seen
    BY <1>1, <2>3
  <2> QED
    BY <2>3, <2>4, <2>6, <2>7
<1>3. CASE Get!Newlines = {}
  <2>1. Get!LineEnd = seen + 1 /\ eof /\ seen > pos
    BY <1>3 DEF Get!LineEnd, Get!HasLine
  <2>2. \A i \in (pos + 1)..seen : file[i] # "n"
    BY <1>3 DEF Get!Newlines
  <2>3. Get!Min({seen + 1, seen}) = IF seen + 1 <= seen THEN seen + 1 ELSE seen
    BY <1>1, Smaller
  <2>4. (seen + 1) - 1 = seen /\ pos < seen /\ seen + 1 \in (pos + 1)..(seen + 1)
    BY <1>1, <2>1
  <2> QED
    BY <2>1, <2>2, <2>3, <2>4
<1> QED
  BY <1>2, <1>3

\* Without a line, what is left holds no newline, and nothing at the end of the file.
LEMMA NoLine ==
    ASSUME GetInv, ~Get!HasLine, eof
    PROVE  pos = seen
<1>1. pos \in Nat /\ seen \in Nat /\ pos <= seen
  BY DEF GetInv, GetTypes
<1> QED
  BY <1>1 DEF Get!HasLine

\* The parts of a file.
LEMMA Prefixes ==
    ASSUME NEW f \in Seq(Byte), NEW n \in 0..Len(f)
    PROVE  Prefix(f, n) \in Seq(Byte) /\ Len(Prefix(f, n)) = n /\ \A i \in 1..n : Prefix(f, n)[i] = f[i]
  BY DEF Prefix

\* Appending to a file leaves its first bytes.
LEMMA PrefixGrown ==
    ASSUME NEW f \in Seq(Byte), NEW c \in Byte, NEW n \in 0..Len(f)
    PROVE  Prefix(Append(f, c), n) = Prefix(f, n)
  BY DEF Prefix

\* The closed text of the first bytes.
LEMMA ScannedText ==
    ASSUME NEW f \in Seq(Byte), NEW n \in 0..Len(f)
    PROVE  /\ Scanned(f, n) \in Seq(Byte) /\ Whole(Scanned(f, n))
           /\ n = 0 \/ f[n] = "n" => Scanned(f, n) = Prefix(f, n) /\ Len(Scanned(f, n)) = n
           /\ ~(n = 0 \/ f[n] = "n") => Scanned(f, n) = Append(Prefix(f, n), "n") /\ Len(Scanned(f, n)) = n + 1
           /\ \A i \in 1..n : Scanned(f, n)[i] = f[i]
<1> DEFINE p == Prefix(f, n)
<1>1. p \in Seq(Byte) /\ Len(p) = n /\ (\A i \in 1..n : p[i] = f[i]) /\ n \in Nat /\ "n" \in Byte
  BY Prefixes DEF Byte, Get!Byte
<1>2. Scanned(f, n) = IF p = <<>> \/ p[Len(p)] = "n" THEN p ELSE Append(p, "n")
  BY DEF Scanned, Get!Closed
<1> HIDE DEF p
<1>3. p = <<>> <=> n = 0
  BY <1>1
<1>4. n # 0 => p[Len(p)] = f[n]
  BY <1>1
<1>5. CASE n = 0 \/ f[n] = "n"
  <2>1. Scanned(f, n) = p
    BY <1>2, <1>3, <1>4, <1>5, Zenon
  <2>2. Whole(p)
    BY <1>1, <1>4, <1>5 DEF Whole
  <2> QED
    BY <1>1, <1>5, <2>1, <2>2 DEF p
<1>6. CASE ~(n = 0 \/ f[n] = "n")
  <2>1. Scanned(f, n) = Append(p, "n")
    BY <1>2, <1>3, <1>4, <1>6, Zenon
  <2>2. /\ Append(p, "n") \in Seq(Byte) /\ Len(Append(p, "n")) = n + 1 /\ Append(p, "n")[n + 1] = "n"
        /\ \A i \in 1..n : Append(p, "n")[i] = f[i]
    BY <1>1
  <2>3. Whole(Append(p, "n"))
    BY <2>2 DEF Whole
  <2> QED
    BY <1>6, <2>1, <2>2, <2>3, Zenon DEF p
<1> QED
  BY <1>5, <1>6

\* The line after the first n of v bytes ends at e, with its newline or without.
LineAt(f, n, e, v) ==
    /\ n < e /\ n < v /\ v <= Len(f)
    /\ n = 0 \/ f[n] = "n"
    /\ \A i \in (n + 1)..(e - 1) : f[i] # "n"
    /\ (e <= v /\ f[e] = "n") \/ e = v + 1

EndingAt(f, e) == Append(Prefix(f, e - 1), "n")

\* The next line of a file, with its newline: it is one more line than the lines
\* before it, and the text goes on from it.
LEMMA LineScanned ==
    ASSUME NEW f \in Seq(Byte), NEW n \in Nat, NEW e \in Nat, NEW v \in Nat, LineAt(f, n, e, v)
    PROVE  /\ Scanned(f, n) \in Seq(Byte) /\ Len(Scanned(f, n)) = n /\ Whole(Scanned(f, n))
           /\ EndingAt(f, e) \in Seq(Byte) /\ OneMore(Scanned(f, n), EndingAt(f, e))
           /\ SubSeq(EndingAt(f, e), n + 1, Len(EndingAt(f, e)) - 1) = SubSeq(f, n + 1, e - 1)
           /\ Scanned(f, v) \in Seq(Byte) /\ Opens(EndingAt(f, e), Scanned(f, v))
           /\ Scanned(f, IF e <= v THEN e ELSE v) = EndingAt(f, e)
<1> DEFINE h == EndingAt(f, e)
<1>0. /\ n < e /\ n < v /\ v <= Len(f) /\ (n = 0 \/ f[n] = "n")
      /\ (\A i \in (n + 1)..(e - 1) : f[i] # "n") /\ ((e <= v /\ f[e] = "n") \/ e = v + 1)
  BY DEF LineAt
<1>1. n \in 0..Len(f) /\ v \in 0..Len(f) /\ e - 1 \in 0..Len(f) /\ e # 0 /\ v # 0 /\ Len(f) \in Nat
  BY <1>0
<1>2. /\ Scanned(f, n) = Prefix(f, n) /\ Scanned(f, n) \in Seq(Byte) /\ Len(Scanned(f, n)) = n /\ Whole(Scanned(f, n))
      /\ \A i \in 1..n : Scanned(f, n)[i] = f[i]
  BY <1>0, <1>1, ScannedText
<1>3. /\ Prefix(f, e - 1) \in Seq(Byte) /\ Len(Prefix(f, e - 1)) = e - 1
      /\ \A i \in 1..(e - 1) : Prefix(f, e - 1)[i] = f[i]
  BY <1>1, Prefixes
<1>4. /\ h \in Seq(Byte) /\ Len(h) = e /\ h[e] = "n" /\ \A i \in 1..(e - 1) : h[i] = f[i]
  <2>1. "n" \in Byte
    BY DEF Byte, Get!Byte
  <2> HIDE DEF Prefix
  <2> QED
    BY <1>1, <1>3, <2>1 DEF EndingAt
<1> HIDE DEF h
<1>5. OneMore(Scanned(f, n), h)
  <2>1. Opens(Scanned(f, n), h)
    BY <1>0, <1>2, <1>4 DEF Opens
  <2>2. \A i \in (n + 1)..(e - 1) : h[i] # "n"
    BY <1>0, <1>4
  <2> QED
    BY <1>0, <1>2, <1>4, <2>1, <2>2 DEF OneMore
<1>6. SubSeq(h, n + 1, Len(h) - 1) = SubSeq(f, n + 1, e - 1)
  BY <1>1, <1>4
<1>7. CASE e <= v
  <2>1. f[e] = "n" /\ e \in 0..Len(f)
    BY <1>0, <1>1, <1>7
  <2>2. /\ Scanned(f, v) \in Seq(Byte) /\ \A i \in 1..v : Scanned(f, v)[i] = f[i]
        /\ Len(Scanned(f, v)) = v \/ Len(Scanned(f, v)) = v + 1
    BY <1>1, ScannedText
  <2>3. Opens(h, Scanned(f, v))
    <3>1. \A i \in 1..e : i \in 1..v /\ (i = e \/ i \in 1..(e - 1))
      BY <1>7
    <3> QED
      BY <1>4, <1>7, <2>1, <2>2, <3>1 DEF Opens
  <2>4. Scanned(f, e) = Prefix(f, e) /\ Prefix(f, e) \in Seq(Byte) /\ Len(Prefix(f, e)) = e
        /\ \A i \in 1..e : Prefix(f, e)[i] = f[i]
    BY <2>1, ScannedText, Prefixes
  <2>5. Prefix(f, e) = h
    <3>1. \A i \in 1..e : Prefix(f, e)[i] = h[i]
      <4>1. \A i \in 1..e : i = e \/ i \in 1..(e - 1)
        OBVIOUS
      <4> QED
        BY <1>4, <2>1, <2>4, <4>1
    <3> HIDE DEF Prefix
    <3> QED
      BY <1>4, <2>4, <3>1
  <2> QED
    BY <1>2, <1>4, <1>5, <1>6, <1>7, <2>2, <2>3, <2>4, <2>5 DEF h
<1>8. CASE ~(e <= v)
  <2>1. e = v + 1 /\ e - 1 = v /\ v \in (n + 1)..(e - 1)
    BY <1>0, <1>8
  <2>2. ~(v = 0 \/ f[v] = "n")
    BY <1>0, <1>1, <2>1
  <2>3. Scanned(f, v) = h
    BY <1>1, <2>1, <2>2, ScannedText DEF h, EndingAt
  <2>4. Opens(h, h)
    BY <1>4 DEF Opens
  <2> QED
    BY <1>2, <1>4, <1>5, <1>6, <1>8, <2>3, <2>4 DEF h
<1> QED
  BY <1>7, <1>8

\* Before the end of a download nothing is on its way but data and errors.
LEMMA Quiet ==
    ASSUME GetInv, reader \in {"idle", "asked", "lines", "bytes"}
    PROVE  /\ ~Said /\ ~Announced /\ outcome # "ok"
           /\ \A i \in 1..Len(wire) : wire[i].kind # "done" /\ wire[i].kind # "result"
<1>1. ~Said /\ ~Announced
  BY DEF GetInv, Closing
<1>2. outcome # "ok"
  BY <1>1 DEF GetInv, Storing
<1>3. \A i \in 1..Len(wire) : wire[i].kind # "done"
  BY <1>1 DEF Announced
<1>4. \A i \in 1..Len(wire) : wire[i].kind # "result"
  BY DEF GetInv, Closing
<1> QED
  BY <1>1, <1>2, <1>3, <1>4

\* A frame more on the wire.
LEMMA FrameSent ==
    ASSUME GetInv, NEW f \in Frame, Get!Send(f)
    PROVE  /\ wire' \in Seq(Frame) /\ Len(wire) \in Nat /\ Len(wire') = Len(wire) + 1
           /\ \A i \in 1..Len(wire) : wire'[i] = wire[i]
           /\ wire'[Len(wire) + 1] = f
  BY DEF GetInv, GetTypes, Get!Send

\* What the agent sends are frames.
LEMMA Frames ==
    /\ \A d \in Seq(Byte) : Get!Data(d) \in Frame /\ Get!Data(d).kind = "data"
    /\ [kind |-> "error"] \in Frame /\ [kind |-> "result"] \in Frame
    /\ \A s \in Seq(Byte), t \in BOOLEAN : [kind |-> "done", sha |-> s, truncated |-> t] \in Frame
  BY DEF Frame, Get!Data

\* A step of the agent before the end of a download, which sends data, an error or
\* nothing.
LEMMA QuietKept ==
    ASSUME GetInv, reader \in {"asked", "lines", "bytes"}, UNCHANGED <<hashed, got, res, outcome>>,
           reader' \in {"asked", "lines", "bytes", "final", "over"},
           wire' = wire \/ \E f \in Frame : f.kind \in {"data", "error"} /\ Get!Send(f)
    PROVE  /\ wire' \in Seq(Frame) /\ ~Said' /\ ~Announced' /\ Closing' /\ Storing'
<1>1. /\ ~Said /\ ~Announced /\ outcome # "ok"
      /\ \A i \in 1..Len(wire) : wire[i].kind # "done" /\ wire[i].kind # "result"
  BY Quiet
<1>2. wire' \in Seq(Frame) /\ \A i \in 1..Len(wire') : wire'[i].kind # "done" /\ wire'[i].kind # "result"
  <2>1. CASE wire' = wire
    BY <1>1, <2>1 DEF GetInv, GetTypes
  <2>2. ASSUME NEW f \in Frame, f.kind \in {"data", "error"}, Get!Send(f)
        PROVE  wire' \in Seq(Frame) /\ \A i \in 1..Len(wire') : wire'[i].kind # "done" /\ wire'[i].kind # "result"
    <3>1. /\ wire' \in Seq(Frame) /\ Len(wire) \in Nat /\ Len(wire') = Len(wire) + 1
          /\ \A i \in 1..Len(wire) : wire'[i] = wire[i]
          /\ wire'[Len(wire) + 1] = f
      BY <2>2, FrameSent
    <3>2. \A i \in 1..Len(wire') : i = Len(wire) + 1 \/ i \in 1..Len(wire)
      BY <3>1
    <3> QED
      BY <1>1, <2>2, <3>1, <3>2
  <2> QED
    BY <2>1, <2>2
<1>3. ~Said' /\ ~Announced'
  BY <1>1, <1>2 DEF Said, Announced
<1>4. Closing'
  BY <1>2, <1>3 DEF Closing
<1>5. Storing'
  BY <1>1 DEF GetInv, Storing
<1> QED
  BY <1>2, <1>3, <1>4, <1>5

\* A frame sent keeps the order of Done and Result.
LEMMA InOrder ==
    ASSUME GetInv, NEW f \in Frame, Get!Send(f), UNCHANGED <<sent, truncated, res>>,
           reader # "over", reader' \in {"result", "over"},
           f.kind = "done" => f.sha = sent /\ f.truncated = truncated,
           f.kind = "result" => reader = "result" /\ reader' = "over",
           reader' = "result" => f.kind = "done"
    PROVE  Closing' /\ (Said' <=> Said) /\ (Announced' => Announced \/ f.kind = "done") /\ wire' \in Seq(Frame)
<1>1. /\ wire' \in Seq(Frame) /\ Len(wire) \in Nat /\ Len(wire') = Len(wire) + 1
      /\ \A i \in 1..Len(wire) : wire'[i] = wire[i]
      /\ wire'[Len(wire) + 1] = f
  BY FrameSent
<1>2. \A i \in 1..Len(wire') : i = Len(wire) + 1 \/ i \in 1..Len(wire)
  BY <1>1
<1>3. \A i \in 1..Len(wire) : i \in 1..Len(wire') /\ Len(wire) + 1 \in 1..Len(wire')
  BY <1>1
<1>4. Said' <=> Said
  BY DEF Said
<1>5. Announced' => Announced \/ f.kind = "done"
  BY <1>1, <1>2, Zenon DEF Announced
<1>6. \A i \in 1..Len(wire) : wire[i].kind # "result"
  BY DEF GetInv, Closing
<1>7. ASSUME NEW i \in 1..Len(wire')
      PROVE  /\ wire'[i].kind = "done" => wire'[i].sha = sent /\ wire'[i].truncated = truncated
             /\ wire'[i].kind = "result" =>
                  reader' = "over" /\ (Said \/ \E j \in 1..(i - 1) : wire'[j].kind = "done")
  <2>1. CASE i \in 1..Len(wire)
    BY <1>1, <1>6, <2>1 DEF GetInv, Closing
  <2>2. CASE i = Len(wire) + 1
    <3>1. wire'[i] = f /\ i - 1 = Len(wire)
      BY <1>1, <2>2
    <3>2. f.kind = "result" => Said \/ \E j \in 1..Len(wire) : wire'[j].kind = "done"
      BY <1>1 DEF GetInv, Closing, Announced
    <3> QED
      BY <3>1, <3>2
  <2> QED
    BY <1>2, <2>1, <2>2
<1>8. Said \/ Announced' => reader' \in {"result", "over"}
  OBVIOUS
<1>9. reader' = "result" => Announced'
  BY <1>1, <1>3 DEF Announced
<1>10. Said => res = [sha |-> sent, truncated |-> truncated]
  BY DEF GetInv, Closing
<1> QED
  BY <1>1, <1>4, <1>5, <1>7, <1>8, <1>9, <1>10, Zenon DEF Closing

\* The request.
LEMMA AskInv == ASSUME GetInv, Get!Ask PROVE GetInv'
<1>1. /\ UNCHANGED <<req, file, was, seen, eof, pos, lineNo, sent, truncated, wire, hashed, res>>
      /\ reader = "idle" /\ reader' = "asked" /\ got' = <<>> /\ outcome' = "waiting"
  BY DEF Get!Ask
<1>2. GetTypes' /\ Reading' /\ Scanning' /\ Copying' /\ Capped'
  BY <1>1 DEF GetInv, GetTypes, Reading, Scanning, Copying, Capped
<1>3. ~Said /\ ~Announced /\ \A i \in 1..Len(wire) : wire[i].kind # "done" /\ wire[i].kind # "result"
  BY <1>1, Quiet
<1>4. ~Said' /\ ~Announced'
  BY <1>1, <1>3 DEF Said, Announced
<1>5. Sealing' /\ Closing'
  BY <1>1, <1>3, <1>4 DEF Sealing, Closing
<1>6. Storing'
  BY <1>1 DEF GetInv, Storing
<1> QED
  BY <1>2, <1>5, <1>6 DEF GetInv

\* Nothing is wanted, and nothing sent, of the first zero bytes.
LEMMA NothingScanned ==
    ASSUME NEW f \in Seq(Byte), NEW q
    PROVE  Sums(0, <<>>, Scanned(f, 0), q)
<1>1. 0 \in 0..Len(f)
  OBVIOUS
<1>2. Scanned(f, 0) \in Seq(Byte) /\ Len(Scanned(f, 0)) = 0
  BY <1>1, ScannedText
<1>3. Get!Wanted(Scanned(f, 0), q) = {}
  BY <1>2 DEF Get!Wanted
<1>4. Breaks(Scanned(f, 0), 0) = {}
  BY DEF Breaks
<1>5. Lines(Scanned(f, 0), 0) = 0
  BY <1>4, FS_EmptySet DEF Lines
<1> QED
  BY <1>2, <1>3, <1>5, PicksNone DEF Sums

\* The file is opened, and nothing of it is read yet.
LEMMA OpenInv == ASSUME GetInv, Get!Open PROVE GetInv'
<1>1. /\ UNCHANGED <<req, file, seen, eof, pos, lineNo, sent, truncated, wire, hashed, got, res, outcome>>
      /\ reader = "asked" /\ reader' = (IF Get!ByLine(req) THEN "lines" ELSE "bytes") /\ was' = Len(file)
  BY DEF Get!Open, Get!clientVars
<1>2. seen = 0 /\ pos = 0 /\ lineNo = 0 /\ ~eof /\ sent = <<>> /\ file \in Seq(Byte) /\ Len(sent) = 0
  BY <1>1 DEF GetInv, Reading, GetTypes
<1>3. reader' \in {"lines", "bytes"} /\ (reader' = "lines" <=> Get!ByLine(req))
  BY <1>1
<1>4. GetTypes'
  BY <1>1, <1>2, <1>3 DEF GetInv, GetTypes
<1>5. Reading'
  BY <1>1, <1>2, <1>3 DEF Reading
<1>6. Scanning'
  <2>1. Sums(0, <<>>, Scanned(file, 0), req)
    BY <1>2, NothingScanned
  <2> QED
    BY <1>1, <1>2, <1>3, <2>1 DEF Scanning, Get!ByLine
<1>7. Copying'
  <2>1. Prefix(file, 0) = <<>>
    <3>1. 0 \in 0..Len(file)
      BY <1>2
    <3>2. Prefix(file, 0) \in Seq(Byte) /\ Len(Prefix(file, 0)) = 0
      BY <1>2, <3>1, Prefixes
    <3> QED
      BY <3>2
  <2>2. 0 <= Len(file)
    BY <1>2
  <2>3. sent' = Prefix(file', Len(sent')) /\ Len(sent') <= Len(file')
    BY <1>1, <1>2, <2>1, <2>2
  <2> QED
    BY <1>1, <1>3, <2>3 DEF Copying, Get!ByLine
<1>8. Capped'
  BY <1>1 DEF GetInv, Capped
<1>9. ~Said' /\ ~Announced' /\ Closing' /\ Storing'
  BY <1>1, <1>3, QuietKept
<1>10. Sealing'
  BY <1>3, <1>9 DEF Sealing
<1> QED
  BY <1>4, <1>5, <1>6, <1>7, <1>8, <1>9, <1>10 DEF GetInv

\* An Error ends the download: a read fails, a line is too long, or the agent is lost.
LEMMA FailInv == ASSUME GetInv, Get!ReadFails \/ Get!LineTooLong \/ Get!Lost PROVE GetInv'
<1> DEFINE f == [kind |-> "error"]
<1>1. /\ UNCHANGED <<req, file, was, seen, eof, pos, lineNo, sent, truncated, hashed, got, res, outcome>>
      /\ reader \notin {"idle", "over"} /\ reader' = "over" /\ Get!Send(f)
  BY DEF Get!ReadFails, Get!LineTooLong, Get!Lost, Get!Fails, Get!clientVars
<1>2. f \in Frame /\ f.kind = "error"
  BY Frames
<1> HIDE DEF f
<1>3. Closing' /\ (Said' <=> Said) /\ (Announced' => Announced) /\ wire' \in Seq(Frame)
  BY <1>1, <1>2, InOrder
<1>4. GetTypes' /\ Reading' /\ Scanning' /\ Copying' /\ Capped'
  BY <1>1, <1>3 DEF GetInv, GetTypes, Reading, Scanning, Copying, Capped
<1>5. Sealing'
  BY <1>1, <1>3 DEF GetInv, Sealing
<1>6. Storing'
  BY <1>1, <1>3 DEF GetInv, Storing
<1> QED
  BY <1>3, <1>4, <1>5, <1>6 DEF GetInv

\* The path goes silent: what is on the wire still arrives, and nothing after it.
LEMMA PathDiesInv == ASSUME GetInv, Get!PathDies PROVE GetInv'
<1>1. /\ UNCHANGED <<req, file, was, seen, eof, pos, lineNo, sent, truncated, wire, hashed, got, res, outcome>>
      /\ reader \notin {"idle", "over"} /\ reader' = "unheard"
  BY DEF Get!PathDies, Get!clientVars
<1>2. (Said' <=> Said) /\ (Announced' <=> Announced)
  BY <1>1 DEF Said, Announced
<1>3. GetTypes' /\ Reading' /\ Scanning' /\ Copying' /\ Capped'
  BY <1>1 DEF GetInv, GetTypes, Reading, Scanning, Copying, Capped
<1>4. Closing'
  BY <1>1, <1>2 DEF GetInv, Closing
<1>5. Sealing'
  BY <1>1, <1>2 DEF GetInv, Sealing
<1>6. Storing'
  BY <1>1, <1>2 DEF GetInv, Storing
<1> QED
  BY <1>3, <1>4, <1>5, <1>6 DEF GetInv

\* The scanner reads on.
LEMMA ScanReadInv == ASSUME GetInv, Get!ScanRead PROVE GetInv'
<1>1. /\ UNCHANGED <<req, file, was, reader, pos, lineNo, sent, truncated, wire, hashed, got, res, outcome>>
      /\ reader = "lines" /\ ~eof
      /\ \/ (\E k \in (seen + 1)..Get!Min({Len(file), pos + MaxLine}) : seen' = k) /\ eof' = eof
         \/ seen = Len(file) /\ eof' = TRUE /\ seen' = seen
  BY DEF Get!ScanRead, Get!clientVars
<1>2. Len(file) \in Nat /\ pos \in Nat /\ seen \in Nat /\ MaxLine \in Nat /\ was \in 0..Len(file) /\ pos <= seen /\ seen <= Len(file)
  BY RsbAssumption DEF GetInv, GetTypes, Get!FileGetAssumption
<1>3. seen' \in seen..Len(file)
  <2>1. pos + MaxLine \in Nat
    BY <1>2
  <2>2. Get!Min({Len(file), pos + MaxLine}) = IF Len(file) <= pos + MaxLine THEN Len(file) ELSE pos + MaxLine
    BY <1>2, <2>1, Smaller
  <2> QED
    BY <1>1, <1>2, <2>1, <2>2
<1>4. GetTypes'
  <2>1. seen' \in 0..Len(file) /\ pos \in 0..seen'
    BY <1>2, <1>3
  <2> QED
    BY <1>1, <2>1 DEF GetInv, GetTypes
<1>5. Reading'
  <2>1. ~eof' \/ seen' = Len(file)
    BY <1>1, Zenon
  <2>2. Len(file) >= was
    BY <1>2
  <2>3. eof' => seen' >= was
    BY <2>1, <2>2, Zenon
  <2> QED
    BY <1>1, <2>3 DEF Reading
<1>6. Scanning' /\ Copying' /\ Capped'
  BY <1>1 DEF GetInv, Scanning, Copying, Capped
<1>7. ~Said' /\ ~Announced' /\ Closing' /\ Storing'
  BY <1>1, QuietKept
<1>8. Sealing'
  BY <1>1, <1>7 DEF Sealing
<1> QED
  BY <1>4, <1>5, <1>6, <1>7, <1>8 DEF GetInv

\* The lines before the next, and with it; the bytes scanned after it; the bytes of
\* the version of the file it is a line of.
Before == Scanned(file, pos)
After == EndingAt(file, Get!LineEnd)
Reached == Get!Min({Get!LineEnd, seen})
Version == IF eof THEN seen ELSE Len(file)

\* What the next line is to the lines before it.
LEMMA NextScanned ==
    ASSUME GetInv, reader = "lines", Get!HasLine
    PROVE  /\ Get!ByLine(req) /\ Before \in Seq(Byte) /\ After \in Seq(Byte) /\ OneMore(Before, After) /\ Whole(Before)
           /\ lineNo = Lines(Before, Len(Before)) /\ Get!Picks(sent, Before, Get!Wanted(Before, req)) /\ sent \in Seq(Byte)
           /\ Get!Line = LastLine(Before, After)
           /\ Reached \in (pos + 1)..seen /\ (file[Reached] = "n" \/ (eof /\ Reached = seen))
           /\ Scanned(file, Reached) = After /\ Lines(After, Len(After)) = lineNo + 1
           /\ Version \in was..Len(file) /\ Scanned(file, Version) \in Seq(Byte) /\ Opens(After, Scanned(file, Version))
<1> DEFINE e == Get!LineEnd
           c == Before
           h == After
           p == Reached
           v == Version
<1>1. /\ e \in (pos + 1)..(seen + 1) /\ pos < seen
      /\ \A i \in (pos + 1)..(e - 1) : file[i] # "n"
      /\ (e <= seen /\ file[e] = "n") \/ (e = seen + 1 /\ eof)
      /\ p = IF e <= seen THEN e ELSE seen
  BY NextEnd DEF Reached
<1>2. /\ file \in Seq(Byte) /\ Len(file) \in Nat /\ pos \in Nat /\ seen \in Nat /\ seen <= Len(file) /\ was \in 0..Len(file)
      /\ eof => seen >= was
  BY DEF GetInv, GetTypes, Reading
<1>3. Get!ByLine(req) /\ (pos = 0 \/ file[pos] = "n" \/ (eof /\ pos = seen)) /\ Sums(lineNo, sent, c, req)
  BY DEF GetInv, Scanning, Before
<1>4. pos = 0 \/ file[pos] = "n"
  BY <1>1, <1>2, <1>3
<1>5. v \in was..Len(file) /\ pos < v /\ ((e <= v /\ file[e] = "n") \/ e = v + 1)
  <2>1. CASE eof
    BY <1>1, <1>2, <2>1 DEF Version
  <2>2. CASE ~eof
    BY <1>1, <1>2, <2>2 DEF Version
  <2> QED
    BY <2>1, <2>2
<1>6. e \in Nat /\ v \in Nat /\ pos < e /\ v <= Len(file)
  BY <1>1, <1>2, <1>5
<1>7. h = EndingAt(file, e) /\ c = Scanned(file, pos)
  BY DEF After, Before
<1> HIDE DEF e, c, h, p, v
<1>8. /\ c \in Seq(Byte) /\ Len(c) = pos /\ Whole(c)
      /\ h \in Seq(Byte) /\ OneMore(c, h) /\ SubSeq(h, pos + 1, Len(h) - 1) = SubSeq(file, pos + 1, e - 1)
      /\ Scanned(file, v) \in Seq(Byte) /\ Opens(h, Scanned(file, v))
  <2>1. LineAt(file, pos, e, v)
    BY <1>1, <1>4, <1>5, <1>6 DEF LineAt
  <2> QED
    BY <1>2, <1>6, <1>7, <2>1, LineScanned
<1>9. Scanned(file, p) = h
  <2>1. (e <= seen /\ file[e] = "n") \/ e = seen + 1
    BY <1>1
  <2>2. Scanned(file, IF e <= seen THEN e ELSE seen) = h
    <3>1. LineAt(file, pos, e, seen)
      BY <1>1, <1>2, <1>4, <1>6, <2>1 DEF LineAt
    <3> QED
      BY <1>2, <1>6, <1>7, <3>1, LineScanned
  <2> QED
    BY <1>1, <2>2
<1>10. p \in (pos + 1)..seen /\ (file[p] = "n" \/ (eof /\ p = seen))
  BY <1>1, <1>2, <1>6
<1>11. lineNo = Lines(c, Len(c)) /\ Get!Picks(sent, c, Get!Wanted(c, req))
  BY <1>3, Zenon DEF Sums
<1>12. Lines(h, Len(h)) = lineNo + 1
  BY <1>3, <1>8, <1>11, LineAdded
<1>13. Get!Line = LastLine(c, h)
  BY <1>8 DEF Get!Line, LastLine, e
<1>14. sent \in Seq(Byte)
  BY DEF GetInv, GetTypes
<1> QED
  BY <1>3, <1>5, <1>8, <1>9, <1>10, <1>11, <1>12, <1>13, <1>14, Zenon DEF c, h, p, v

\* One line is scanned: the types, and the place in the file.
LEMMA ScannedTypes ==
    ASSUME GetInv, reader = "lines", Get!HasLine, Get!Scanned, UNCHANGED <<req, file, was, seen, eof, hashed, outcome>>,
           reader' \in {"lines", "final"}, wire' \in Seq(Frame), sent' \in Seq(Byte)
    PROVE  GetTypes' /\ Reading' /\ Copying'
<1>1. pos' = Get!Min({Get!LineEnd, seen}) /\ lineNo' = lineNo + 1
  BY DEF Get!Scanned
<1>2. pos' \in (pos + 1)..seen
  BY <1>1, NextScanned DEF Reached
<1>3. pos \in Nat /\ seen \in Nat /\ lineNo \in 0..pos
  BY DEF GetInv, GetTypes
<1>4. pos' \in 0..seen /\ lineNo' \in 0..pos'
  BY <1>1, <1>2, <1>3
<1>5. GetTypes'
  BY <1>4 DEF GetInv, GetTypes
<1> QED
  BY <1>5 DEF GetInv, Reading, Copying

\* A line before the range.
LEMMA SkipInv == ASSUME GetInv, Get!SkipLine PROVE GetInv'
<1> DEFINE c == Before
           h == After
           p == Reached
<1>1. /\ UNCHANGED <<req, file, was, reader, seen, eof, sent, truncated, wire, hashed, got, res, outcome>>
      /\ reader = "lines" /\ Get!HasLine /\ lineNo + 1 < req.start /\ Get!Scanned
      /\ pos' = p /\ lineNo' = lineNo + 1
  BY DEF Get!SkipLine, Get!clientVars, Get!Scanned, Reached
<1>2. /\ Get!ByLine(req) /\ c \in Seq(Byte) /\ h \in Seq(Byte) /\ OneMore(c, h)
      /\ lineNo = Lines(c, Len(c)) /\ Get!Picks(sent, c, Get!Wanted(c, req))
      /\ file[p] = "n" \/ (eof /\ p = seen)
      /\ Scanned(file, p) = h /\ Lines(h, Len(h)) = lineNo + 1
  BY <1>1, NextScanned
<1>3. ~Within(req, Lines(c, Len(c)) + 1)
  <2>1. lineNo \in Int /\ req.start \in Int
    BY DEF GetInv, GetTypes, Request
  <2> HIDE DEF c
  <2> QED
    BY <1>1, <1>2, <2>1 DEF Within
<1> HIDE DEF c, h, p
<1>4. Get!Picks(sent, h, Get!Wanted(h, req))
  BY <1>2, <1>3, LineSkipped
<1>5. Sums(lineNo', sent', Scanned(file', pos'), req')
  BY <1>1, <1>2, <1>4, Zenon DEF Sums
<1>6. Scanning'
  <2>1. Get!ByLine(req)' /\ (file'[pos'] = "n" \/ (eof' /\ pos' = seen'))
    BY <1>1, <1>2, Zenon DEF Get!ByLine
  <2> QED
    BY <1>5, <2>1, Zenon DEF Scanning
<1>7. wire' \in Seq(Frame) /\ sent' \in Seq(Byte)
  BY <1>1 DEF GetInv, GetTypes
<1>8. GetTypes' /\ Reading' /\ Copying'
  BY <1>1, <1>7, ScannedTypes
<1>9. Capped'
  BY <1>1 DEF GetInv, Capped
<1>10. ~Said' /\ ~Announced' /\ Closing' /\ Storing'
  BY <1>1, QuietKept
<1>11. Sealing'
  BY <1>1, <1>10 DEF Sealing
<1> QED
  BY <1>6, <1>8, <1>9, <1>10, <1>11 DEF GetInv

\* A line of the range, within the cap.
LEMMA SendInv == ASSUME GetInv, Get!SendLine PROVE GetInv'
<1> DEFINE c == Before
           h == After
           p == Reached
           out == Get!Line
<1>1. /\ UNCHANGED <<req, file, was, reader, seen, eof, truncated, hashed, got, res, outcome>>
      /\ reader = "lines" /\ Get!HasLine /\ lineNo + 1 >= req.start /\ ~Get!PastEnd /\ ~Get!OverCap /\ Get!Scanned
      /\ pos' = p /\ lineNo' = lineNo + 1 /\ sent' = sent \o out /\ Get!Send(Get!Data(out))
  BY DEF Get!SendLine, Get!clientVars, Get!Scanned, Reached
<1>2. /\ Get!ByLine(req) /\ c \in Seq(Byte) /\ h \in Seq(Byte) /\ OneMore(c, h)
      /\ lineNo = Lines(c, Len(c)) /\ Get!Picks(sent, c, Get!Wanted(c, req)) /\ sent \in Seq(Byte)
      /\ out = LastLine(c, h)
      /\ file[p] = "n" \/ (eof /\ p = seen)
      /\ Scanned(file, p) = h /\ Lines(h, Len(h)) = lineNo + 1
  BY <1>1, NextScanned
<1>3. Within(req, Lines(c, Len(c)) + 1)
  <2>1. lineNo \in Int /\ req.start \in Int /\ req.end \in Int
    BY DEF GetInv, GetTypes, Request
  <2> HIDE DEF c
  <2> QED
    BY <1>1, <1>2, <2>1 DEF Within, Get!PastEnd
<1>0. Takes(sent, c, h, req)
  BY <1>2, <1>3 DEF Takes
<1>4. req.max > 0 => Len(sent) + Len(out) <= req.max
  <2>1. req.max \in Int
    BY DEF GetInv, GetTypes, Request
  <2>2. Len(sent) \in Nat
    BY DEF GetInv, GetTypes
  <2>3. Len(out) \in Nat
    <3> HIDE DEF c, h, out
    <3>1. out \in Seq(Byte)
      BY <1>0, <1>2, LinePicked
    <3> QED
      BY <3>1
  <2>4. req.max > 0 => ~(Len(sent) + Len(out) > req.max)
    BY <1>1 DEF Get!OverCap
  <2> HIDE DEF out
  <2> QED
    BY <2>1, <2>2, <2>3, <2>4
<1> HIDE DEF c, h, p, out
<1>5. /\ out \in Seq(Byte) /\ Get!Picks(sent \o out, h, Get!Wanted(h, req))
      /\ sent \o out \in Seq(Byte) /\ Len(sent \o out) = Len(sent) + Len(out)
  BY <1>0, <1>2, LinePicked
<1>6. Sums(lineNo', sent', Scanned(file', pos'), req')
  BY <1>1, <1>2, <1>5, Zenon DEF Sums
<1>7. Scanning'
  <2>1. Get!ByLine(req)' /\ (file'[pos'] = "n" \/ (eof' /\ pos' = seen'))
    BY <1>1, <1>2, Zenon DEF Get!ByLine
  <2> QED
    BY <1>6, <2>1, Zenon DEF Scanning
<1>8. wire' \in Seq(Frame) /\ ~Said' /\ ~Announced' /\ Closing' /\ Storing'
  <2>1. Get!Data(out) \in Frame /\ Get!Data(out).kind = "data"
    BY <1>5, Frames
  <2> QED
    BY <1>1, <2>1, QuietKept
<1>9. GetTypes' /\ Reading' /\ Copying'
  <2>1. sent' \in Seq(Byte)
    BY <1>1, <1>5
  <2> QED
    BY <1>1, <1>8, <2>1, ScannedTypes
<1>10. Capped'
  BY <1>1, <1>4, <1>5 DEF Capped
<1>11. Sealing'
  BY <1>1, <1>8 DEF Sealing
<1> QED
  BY <1>7, <1>8, <1>9, <1>10, <1>11 DEF GetInv

\* A first part of a first part is one.
LEMMA OpensOn ==
    ASSUME NEW f \in Seq(Byte), NEW g \in Seq(Byte), NEW h \in Seq(Byte), Opens(f, g), Opens(g, h)
    PROVE  Opens(f, h)
  BY DEF Opens

\* A step that ends the reading, with what was sent sealed.
LEMMA FinalInv ==
    ASSUME GetInv, reader \in {"lines", "bytes"}, reader' = "final",
           UNCHANGED <<req, file, was, seen, eof, sent, wire, hashed, got, res, outcome>>,
           pos' \in 0..seen, lineNo' \in 0..pos', Sealed(file, was, sent, req, truncated')
    PROVE  GetInv'
<1>1. GetTypes' /\ Reading' /\ Scanning' /\ Copying' /\ Capped'
  BY DEF GetInv, GetTypes, Reading, Scanning, Copying, Capped
<1>2. Closing' /\ Storing'
  BY QuietKept
<1>3. Sealing'
  BY DEF Sealing
<1> QED
  BY <1>1, <1>2, <1>3 DEF GetInv

\* What is sealed is a slice of one version.
LEMMA SealedBy ==
    ASSUME NEW f, NEW w, NEW s, NEW q, NEW cut, NEW k \in w..Len(f), Get!IsSlice(s, Prefix(f, k), q),
           ~cut => Get!IsSlice(s, Prefix(f, k), Uncapped(q))
    PROVE  Sealed(f, w, s, q, cut)
  BY DEF Sealed

\* The text of a version, for a request by lines.
LEMMA TextOfVersion ==
    ASSUME NEW f, NEW k, NEW q, Get!ByLine(q)
    PROVE  Text(Prefix(f, k), q) = Scanned(f, k)
  BY DEF Text, Scanned

\* The line after the range ends the loop.
LEMMA PastEndSealed ==
    ASSUME GetInv, reader = "lines", Get!HasLine, Get!PastEnd, NEW cut
    PROVE  Sealed(file, was, sent, req, cut)
<1> DEFINE c == Before
           h == After
           v == Version
           g == Scanned(file, v)
<1>1. /\ Get!ByLine(req) /\ c \in Seq(Byte) /\ h \in Seq(Byte) /\ OneMore(c, h) /\ Whole(c)
      /\ lineNo = Lines(c, Len(c)) /\ Get!Picks(sent, c, Get!Wanted(c, req))
      /\ v \in was..Len(file) /\ g \in Seq(Byte) /\ Opens(h, g)
  BY NextScanned
<1>2. req \in Request /\ (req.max > 0 => Len(sent) <= req.max)
  BY DEF GetInv, GetTypes, Capped
<1> HIDE DEF c, h, v, g
<1>3. Opens(c, g)
  BY <1>1, OpensOn DEF OneMore
<1>4. req.end > 0 /\ Lines(c, Len(c)) + 1 > req.end
  BY <1>1 DEF Get!PastEnd
<1>5. Get!Wanted(g, req) = Get!Wanted(c, req)
  BY <1>1, <1>2, <1>3, <1>4, PastRange
<1>6. Get!Picks(sent, g, Get!Wanted(g, req)) /\ Get!Wanted(g, req) \in SUBSET (1..Len(c)) /\ Len(c) \in Nat
  <2>1. Get!Picks(sent, g, Get!Wanted(c, req)) /\ Get!Wanted(c, req) \in SUBSET (1..Len(c))
    BY <1>1, <1>3, WantedKept
  <2>2. Len(c) \in Nat
    BY <1>1
  <2> QED
    BY <1>5, <2>1, <2>2, Zenon
<1>7. Text(Prefix(file, v), req) = g
  BY <1>1, TextOfVersion, Zenon DEF g
<1>8. Get!IsSlice(sent, Prefix(file, v), req) /\ Get!IsSlice(sent, Prefix(file, v), Uncapped(req))
  BY <1>2, <1>6, <1>7, AllFits
<1> QED
  BY <1>1, <1>8, SealedBy

\* So does the line that the cap does not admit.
LEMMA OverCapSealed ==
    ASSUME GetInv, reader = "lines", Get!HasLine, lineNo + 1 >= req.start, ~Get!PastEnd, Get!OverCap
    PROVE  Sealed(file, was, sent, req, TRUE)
<1> DEFINE c == Before
           h == After
           v == Version
           g == Scanned(file, v)
           out == Get!Line
<1>1. /\ Get!ByLine(req) /\ c \in Seq(Byte) /\ h \in Seq(Byte) /\ OneMore(c, h) /\ Whole(c)
      /\ lineNo = Lines(c, Len(c)) /\ Get!Picks(sent, c, Get!Wanted(c, req)) /\ sent \in Seq(Byte)
      /\ out = LastLine(c, h)
      /\ v \in was..Len(file) /\ g \in Seq(Byte) /\ Opens(h, g)
  BY NextScanned
<1>2. req \in Request /\ (req.max > 0 => Len(sent) <= req.max) /\ lineNo \in Int
  BY DEF GetInv, GetTypes, Capped
<1>3. req.max > 0 /\ Len(sent) + Len(out) > req.max
  BY DEF Get!OverCap
<1>4. ~(req.end > 0 /\ lineNo + 1 > req.end)
  BY DEF Get!PastEnd
<1> HIDE DEF c, h, v, g, out
<1>5. Takes(sent, c, h, req)
  <2>1. req.start \in Int /\ req.end \in Int
    BY <1>2 DEF Request
  <2>2. Within(req, lineNo + 1)
    BY <1>2, <1>4, <2>1 DEF Within
  <2> QED
    BY <1>1, <2>2 DEF Takes
<1>6. Get!Picks(sent \o out, h, Get!Wanted(h, req)) /\ Len(sent \o out) = Len(sent) + Len(out)
  BY <1>1, <1>5, LinePicked
<1>7. Cardinality(Get!Wanted(h, req)) > req.max
  <2>1. Cardinality(Get!Wanted(h, req)) = Len(sent \o out)
    BY <1>6, SameCardinality DEF Get!Picks
  <2> QED
    BY <1>3, <1>6, <2>1
<1>8. Get!Fits(g, req, Get!Wanted(g, req)) = Get!Wanted(c, req)
  BY <1>1, <1>2, <1>3, <1>7, OverTheCap
<1>9. Get!Picks(sent, g, Get!Wanted(c, req))
  BY <1>1, WantedKept, OpensOn DEF OneMore
<1>10. Get!IsSlice(sent, Prefix(file, v), req)
  <2>1. g = Get!Closed(Prefix(file, v))
    BY DEF g, Scanned
  <2> QED
    BY <1>1, <1>8, <1>9, <2>1, Zenon DEF Get!IsSlice
<1> QED
  BY <1>1, <1>10, SealedBy

\* A line ends the loop: it is past the range, or over the cap.
LEMMA CutInv == ASSUME GetInv, Get!CutLine PROVE GetInv'
<1>1. /\ UNCHANGED <<req, file, was, seen, eof, sent, wire, hashed, got, res, outcome>>
      /\ reader = "lines" /\ reader' = "final" /\ Get!HasLine /\ lineNo + 1 >= req.start
      /\ Get!PastEnd \/ Get!OverCap
      /\ pos' = Reached /\ lineNo' = lineNo + 1
      /\ truncated' = ~Get!PastEnd
  BY DEF Get!CutLine, Get!Scanned, Get!clientVars, Reached
<1>2. pos' \in 0..seen /\ lineNo' \in 0..pos'
  <2>1. Reached \in (pos + 1)..seen
    BY <1>1, NextScanned
  <2>2. pos \in Nat /\ seen \in Nat /\ lineNo \in 0..pos
    BY DEF GetInv, GetTypes
  <2> QED
    BY <1>1, <2>1, <2>2
<1>3. Sealed(file, was, sent, req, truncated')
  <2>1. CASE Get!PastEnd
    BY <1>1, <2>1, PastEndSealed
  <2>2. CASE ~Get!PastEnd
    <3>1. Sealed(file, was, sent, req, TRUE)
      BY <1>1, <2>2, OverCapSealed
    <3>2. truncated' = TRUE
      BY <1>1, <2>2
    <3> QED
      BY <3>1, <3>2
  <2> QED
    BY <2>1, <2>2
<1> QED
  BY <1>1, <1>2, <1>3, FinalInv

\* The end of the file ends the loop.
LEMMA ScanEndsInv == ASSUME GetInv, Get!ScanEnds PROVE GetInv'
<1>1. /\ UNCHANGED <<req, file, was, seen, eof, pos, lineNo, sent, truncated, wire, hashed, got, res, outcome>>
      /\ reader = "lines" /\ reader' = "final" /\ eof /\ ~Get!HasLine
  BY DEF Get!ScanEnds, Get!clientVars
<1>2. pos = seen
  BY <1>1, NoLine
<1>3. /\ file \in Seq(Byte) /\ seen \in 0..Len(file) /\ req \in Request /\ pos \in 0..seen /\ lineNo \in 0..pos
      /\ (req.max > 0 => Len(sent) <= req.max) /\ seen >= was /\ was \in 0..Len(file)
  BY <1>1 DEF GetInv, GetTypes, Capped, Reading
<1> DEFINE c == Scanned(file, seen)
<1>4. c \in Seq(Byte)
  BY <1>3, ScannedText
<1>5. Get!ByLine(req) /\ Get!Picks(sent, c, Get!Wanted(c, req))
  BY <1>1, <1>2 DEF GetInv, Scanning, Sums
<1> HIDE DEF c
<1>6. Get!Wanted(c, req) \in SUBSET (1..Len(c)) /\ Len(c) \in Nat
  BY <1>4 DEF Get!Wanted
<1>7. Text(Prefix(file, seen), req) = c
  BY <1>5, TextOfVersion DEF c
<1>8. Get!IsSlice(sent, Prefix(file, seen), req) /\ Get!IsSlice(sent, Prefix(file, seen), Uncapped(req))
  BY <1>3, <1>5, <1>6, <1>7, AllFits
<1>9. seen \in was..Len(file)
  BY <1>3
<1>10. Sealed(file, was, sent, req, truncated')
  BY <1>8, <1>9, SealedBy
<1> QED
  BY <1>1, <1>3, <1>10, FinalInv

-----------------------------------------------------------------------------
(* Bytes *)

\* The first m bytes are what is picked at the first m positions.
LEMMA BytesPicked ==
    ASSUME NEW f \in Seq(Byte), NEW m \in 0..Len(f)
    PROVE  Get!Picks(Prefix(f, m), f, 1..m)
<1>1. Len(Prefix(f, m)) = m /\ \A i \in 1..m : Prefix(f, m)[i] = f[i]
  BY Prefixes
<1>2. ASSUME NEW p \in 0..m PROVE Get!Cardinality(1..p) = p
  <2>1. Cardinality(1..p) = IF 1 > p THEN 0 ELSE p - 1 + 1
    BY FS_Interval
  <2> QED
    BY <2>1, SameCardinality
<1>3. ASSUME NEW p \in 1..m PROVE (1..m) \cap (1..p) = 1..p /\ p \in 0..m
  OBVIOUS
<1>4. m \in 0..m
  OBVIOUS
<1> HIDE DEF Prefix
<1> QED
  BY <1>1, <1>2, <1>3, <1>4 DEF Get!Picks

\* All of a file is its first part.
LEMMA WholeFile == ASSUME NEW f \in Seq(Byte) PROVE Prefix(f, Len(f)) = f /\ Len(f) \in 0..Len(f) /\ DOMAIN f = 1..Len(f)
  BY DEF Prefix

\* The cap ends a download of bytes: the first max bytes of the file were sent.
LEMMA AtCapInv == ASSUME GetInv, Get!AtCap PROVE GetInv'
<1> DEFINE n == Len(sent)
<1>1. /\ UNCHANGED <<req, file, was, seen, eof, pos, lineNo, sent, wire, hashed, got, res, outcome>>
      /\ reader = "bytes" /\ reader' = "final" /\ req.max > 0 /\ n >= req.max /\ truncated' = TRUE
  BY DEF Get!AtCap, Get!clientVars
<1>2. /\ file \in Seq(Byte) /\ req \in Request /\ pos \in 0..seen /\ lineNo \in 0..pos
      /\ n <= req.max /\ was \in 0..Len(file) /\ sent \in Seq(Byte)
      /\ ~Get!ByLine(req) /\ n <= Len(file) /\ sent = Prefix(file, n)
  BY <1>1 DEF GetInv, GetTypes, Capped, Copying
<1>3. n \in Nat /\ Len(file) \in Nat /\ req.max = n /\ n \in 0..Len(file) /\ DOMAIN file = 1..Len(file)
  BY <1>1, <1>2 DEF Request
<1> HIDE DEF n
<1>4. Get!Wanted(file, req) = 1..Len(file)
  BY <1>2, <1>3, Zenon DEF Get!Wanted
<1>5. Get!Fits(file, req, 1..Len(file)) = 1..n
  <2>1. ASSUME NEW p \in 1..Len(file)
        PROVE  Get!Cardinality({o \in 1..Len(file) : Get!Piece(file, req, o) <= Get!Piece(file, req, p)}) = p
    <3>1. {o \in 1..Len(file) : Get!Piece(file, req, o) <= Get!Piece(file, req, p)} = 1..p
      BY <1>2, <1>3 DEF Get!Piece
    <3>2. Cardinality(1..p) = p
      <4>1. Cardinality(1..p) = IF 1 > p THEN 0 ELSE p - 1 + 1
        BY FS_Interval
      <4> QED
        BY <4>1
    <3> QED
      BY <3>1, <3>2, SameCardinality
  <2>2. Get!Fits(file, req, 1..Len(file)) = {p \in 1..Len(file) : p <= n}
    BY <1>1, <1>3, <2>1, Zenon DEF Get!Fits
  <2>3. \A p \in 1..Len(file) : p <= n => p \in 1..n
    BY <1>3
  <2>4. \A p \in 1..n : p \in 1..Len(file) /\ p <= n
    BY <1>3
  <2> QED
    BY <2>2, <2>3, <2>4
<1>6. Get!IsSlice(sent, file, req)
  <2>1. Get!Picks(sent, file, 1..n)
    BY <1>2, <1>3, BytesPicked
  <2> QED
    BY <1>2, <1>4, <1>5, <2>1, Zenon DEF Get!IsSlice
<1>7. Len(file) \in was..Len(file)
  BY <1>2, <1>3
<1>8. Sealed(file, was, sent, req, truncated')
  BY <1>1, <1>2, <1>6, <1>7, SealedBy, WholeFile
<1> QED
  BY <1>1, <1>2, <1>8, FinalInv

\* The end of the file ends it: the whole file was sent.
LEMMA ReadEndsInv == ASSUME GetInv, Get!ReadEnds PROVE GetInv'
<1>1. /\ UNCHANGED <<req, file, was, seen, eof, pos, lineNo, sent, truncated, wire, hashed, got, res, outcome>>
      /\ reader = "bytes" /\ reader' = "final" /\ Len(sent) = Len(file)
  BY DEF Get!ReadEnds, Get!clientVars
<1>2. /\ file \in Seq(Byte) /\ req \in Request /\ pos \in 0..seen /\ lineNo \in 0..pos
      /\ (req.max > 0 => Len(sent) <= req.max) /\ was \in 0..Len(file)
      /\ ~Get!ByLine(req) /\ sent = Prefix(file, Len(sent))
  BY <1>1 DEF GetInv, GetTypes, Capped, Copying
<1>3. Prefix(file, Len(file)) = file /\ Len(file) \in 0..Len(file) /\ DOMAIN file = 1..Len(file) /\ Len(file) \in Nat
  BY <1>2, WholeFile
<1>4. Get!Wanted(file, req) = 1..Len(file) /\ Text(file, req) = file
  BY <1>2, <1>3, Zenon DEF Get!Wanted, Text
<1>5. Get!Picks(sent, file, 1..Len(file))
  BY <1>1, <1>2, <1>3, BytesPicked
<1>6. Get!IsSlice(sent, file, req) /\ Get!IsSlice(sent, file, Uncapped(req))
  BY <1>2, <1>3, <1>4, <1>5, AllFits
<1>7. Len(file) \in was..Len(file)
  BY <1>2, <1>3
<1>8. Sealed(file, was, sent, req, truncated')
  BY <1>3, <1>6, <1>7, SealedBy
<1> QED
  BY <1>1, <1>2, <1>8, FinalInv

\* A chunk goes on where the last ended, within the cap.
LEMMA SendBytesInv == ASSUME GetInv, Get!SendBytes PROVE GetInv'
<1> DEFINE n == Len(sent)
           room == IF req.max > 0 THEN Get!Min({ChunkSize, req.max - n}) ELSE ChunkSize
           to == Get!Min({Len(file), n + room})
<1>1. /\ UNCHANGED <<req, file, was, reader, seen, eof, pos, lineNo, truncated, hashed, got, res, outcome>>
      /\ reader = "bytes" /\ room > 0 /\ to > n
      /\ Get!Send(Get!Data(SubSeq(file, n + 1, to))) /\ sent' = Prefix(file, to)
  BY DEF Get!SendBytes, Get!clientVars, Prefix
<1>2. /\ file \in Seq(Byte) /\ req \in Request /\ sent \in Seq(Byte)
      /\ (req.max > 0 => n <= req.max) /\ ~Get!ByLine(req) /\ n <= Len(file)
  BY <1>1 DEF GetInv, GetTypes, Capped, Copying
<1>3. n \in Nat /\ Len(file) \in Nat /\ ChunkSize \in Nat /\ req.max \in Int
  BY <1>2, RsbAssumption DEF Get!FileGetAssumption, Request
<1> HIDE DEF n
<1>4. room \in Nat /\ (req.max > 0 => n + room <= req.max)
  <2>1. CASE req.max > 0
    <3>1. req.max - n \in Nat
      BY <1>2, <1>3, <2>1
    <3>2. Get!Min({ChunkSize, req.max - n}) = IF ChunkSize <= req.max - n THEN ChunkSize ELSE req.max - n
      BY <1>3, <3>1, Smaller
    <3> QED
      BY <1>2, <1>3, <2>1, <3>1, <3>2
  <2>2. CASE ~(req.max > 0)
    BY <1>3, <2>2
  <2> QED
    BY <2>1, <2>2
<1> HIDE DEF room
<1>5. to \in n..Len(file) /\ to <= n + room
  <2>1. n + room \in Nat
    BY <1>3, <1>4
  <2>2. to = IF Len(file) <= n + room THEN Len(file) ELSE n + room
    BY <1>3, <2>1, Smaller
  <2> QED
    BY <1>2, <1>3, <1>4, <2>1, <2>2
<1> HIDE DEF to
<1>6. to \in 0..Len(file)
  BY <1>3, <1>5
<1>7. sent' \in Seq(Byte) /\ Len(sent') = to
  BY <1>1, <1>2, <1>6, Prefixes
<1>8. SubSeq(file, n + 1, to) \in Seq(Byte)
  BY <1>2, <1>3, <1>5
<1>9. wire' \in Seq(Frame) /\ ~Said' /\ ~Announced' /\ Closing' /\ Storing'
  <2>1. Get!Data(SubSeq(file, n + 1, to)) \in Frame /\ Get!Data(SubSeq(file, n + 1, to)).kind = "data"
    BY <1>8, Frames
  <2> QED
    BY <1>1, <2>1, QuietKept
<1>10. GetTypes' /\ Reading' /\ Scanning'
  BY <1>1, <1>7, <1>9 DEF GetInv, GetTypes, Reading, Scanning
<1>11. Copying'
  <2>1. Get!ByLine(req)' <=> Get!ByLine(req)
    BY <1>1 DEF Get!ByLine
  <2>2. Len(sent') <= Len(file) /\ sent' = Prefix(file, Len(sent'))
    BY <1>1, <1>3, <1>6, <1>7
  <2> QED
    BY <1>1, <1>2, <2>1, <2>2 DEF Copying
<1>12. Capped'
  BY <1>1, <1>3, <1>4, <1>5, <1>7 DEF Capped
<1>13. Sealing'
  BY <1>1, <1>9 DEF Sealing
<1> QED
  BY <1>9, <1>10, <1>11, <1>12, <1>13 DEF GetInv

-----------------------------------------------------------------------------
(* The end of a download *)

\* The Done says what was sent.
LEMMA SendDoneInv == ASSUME GetInv, GetFlags, Get!SendDone PROVE GetInv'
<1> DEFINE f == [kind |-> "done", sha |-> sent, truncated |-> truncated]
<1>1. /\ UNCHANGED <<req, file, was, seen, eof, pos, lineNo, sent, truncated, hashed, got, res, outcome>>
      /\ reader = "final" /\ reader' = "result" /\ Get!Send(f)
  BY DEF Get!SendDone, Get!clientVars
<1>2. f \in Frame /\ f.kind = "done" /\ f.sha = sent /\ f.truncated = truncated
  <2>1. sent \in Seq(Byte) /\ truncated \in BOOLEAN
    BY DEF GetInv, GetTypes, GetFlags
  <2> QED
    BY <2>1, Frames
<1> HIDE DEF f
<1>3. Closing' /\ (Said' <=> Said) /\ wire' \in Seq(Frame)
  BY <1>1, <1>2, InOrder
<1>4. GetTypes' /\ Reading' /\ Scanning' /\ Copying' /\ Capped'
  BY <1>1, <1>3 DEF GetInv, GetTypes, Reading, Scanning, Copying, Capped
<1>5. Sealing'
  BY <1>1 DEF GetInv, Sealing
<1>6. Storing'
  BY <1>1, <1>3 DEF GetInv, Storing
<1> QED
  BY <1>3, <1>4, <1>5, <1>6 DEF GetInv

\* The Result follows the Done.
LEMMA SendResultInv == ASSUME GetInv, Get!SendResult PROVE GetInv'
<1> DEFINE f == [kind |-> "result"]
<1>1. /\ UNCHANGED <<req, file, was, seen, eof, pos, lineNo, sent, truncated, hashed, got, res, outcome>>
      /\ reader = "result" /\ reader' = "over" /\ Get!Send(f)
  BY DEF Get!SendResult, Get!clientVars
<1>2. f \in Frame /\ f.kind = "result"
  BY Frames
<1> HIDE DEF f
<1>3. Closing' /\ (Said' <=> Said) /\ wire' \in Seq(Frame)
  BY <1>1, <1>2, InOrder
<1>4. GetTypes' /\ Reading' /\ Scanning' /\ Copying' /\ Capped'
  BY <1>1, <1>3 DEF GetInv, GetTypes, Reading, Scanning, Copying, Capped
<1>5. Sealing'
  BY <1>1 DEF GetInv, Sealing
<1>6. Storing'
  BY <1>1, <1>3 DEF GetInv, Storing
<1> QED
  BY <1>3, <1>4, <1>5, <1>6 DEF GetInv

\* The client takes the first frame.
LEMMA FrameTaken ==
    ASSUME GetInv, NEW kind, Get!Receive(kind)
    PROVE  /\ UNCHANGED <<req, file, was, reader, seen, eof, pos, lineNo, sent, truncated>>
           /\ outcome = "waiting" /\ Len(wire) \in Nat \ {0} /\ wire[1] \in Frame /\ wire[1].kind = kind
           /\ Head(wire) = wire[1] /\ wire' \in Seq(Frame) /\ Len(wire') = Len(wire) - 1
           /\ \A i \in 1..Len(wire') : i + 1 \in 1..Len(wire) /\ wire'[i] = wire[i + 1]
<1>1. wire \in Seq(Frame) /\ wire # <<>> /\ wire' = Tail(wire)
  BY DEF GetInv, GetTypes, Get!Receive
<1>2. Head(wire) = wire[1] /\ wire[1] \in Frame /\ Len(wire) \in Nat \ {0}
  BY <1>1
<1>3. wire' \in Seq(Frame) /\ Len(wire') = Len(wire) - 1
  BY <1>1
<1>4. \A i \in 1..(Len(wire) - 1) : wire'[i] = wire[i + 1]
  BY <1>1
<1>5. \A i \in 1..Len(wire') : i + 1 \in 1..Len(wire) /\ wire'[i] = wire[i + 1]
  BY <1>2, <1>3, <1>4
<1>6. UNCHANGED <<req, file, was, reader, seen, eof, pos, lineNo, sent, truncated>> /\ outcome = "waiting"
      /\ Head(wire).kind = kind
  BY DEF Get!Receive, Get!agentVars
<1> QED
  BY <1>2, <1>3, <1>5, <1>6

\* With the first frame gone, and the Done known if it was that, the rest keep their
\* order.
LEMMA RestInOrder ==
    ASSUME GetInv, NEW kind, Get!Receive(kind), Said => res' = res,
           Said' => Said \/ kind = "done", kind = "done" => Said',
           Said' => res' = [sha |-> sent, truncated |-> truncated]
    PROVE  Closing' /\ Sealing' /\ Reading' /\ Scanning' /\ Copying' /\ Capped'
<1>1. /\ UNCHANGED <<req, file, was, reader, seen, eof, pos, lineNo, sent, truncated>>
      /\ Len(wire) \in Nat \ {0} /\ wire[1].kind = kind /\ Len(wire') = Len(wire) - 1
      /\ \A i \in 1..Len(wire') : i + 1 \in 1..Len(wire) /\ wire'[i] = wire[i + 1]
  BY FrameTaken
<1>2. kind = "done" => Announced
  <2>1. 1 \in 1..Len(wire)
    BY <1>1
  <2> QED
    BY <1>1, <2>1 DEF Announced
<1>3. Announced' => Announced
  BY <1>1 DEF Announced
<1>4. Announced => Announced' \/ Said'
  <2> SUFFICES ASSUME NEW i \in 1..Len(wire), wire[i].kind = "done", ~Said' PROVE Announced'
    BY DEF Announced
  <2>1. i # 1
    BY <1>1
  <2>2. i - 1 \in 1..Len(wire') /\ (i - 1) + 1 = i
    BY <1>1, <2>1
  <2>3. wire'[i - 1].kind = "done"
    BY <1>1, <2>2
  <2> QED
    BY <2>2, <2>3 DEF Announced
<1>5. Said => Said'
  BY DEF Said
<1>6. Said' \/ Announced' => reader' \in {"result", "over", "unheard"} /\ (Said \/ Announced)
  BY <1>1, <1>2, <1>3 DEF GetInv, Closing
<1>7. reader' = "result" => Said' \/ Announced'
  BY <1>1, <1>4, <1>5 DEF GetInv, Closing
<1>8. ASSUME NEW i \in 1..Len(wire')
      PROVE  /\ wire'[i].kind = "done" => wire'[i].sha = sent' /\ wire'[i].truncated = truncated'
             /\ wire'[i].kind = "result" =>
                  reader' = "over" /\ (Said' \/ \E j \in 1..(i - 1) : wire'[j].kind = "done")
  <2>1. i + 1 \in 1..Len(wire) /\ wire'[i] = wire[i + 1] /\ (i + 1) - 1 = i
    BY <1>1
  <2>2. wire'[i].kind = "done" => wire'[i].sha = sent' /\ wire'[i].truncated = truncated'
    BY <1>1, <2>1 DEF GetInv, Closing
  <2>3. ASSUME wire'[i].kind = "result"
        PROVE  reader' = "over" /\ (Said' \/ \E j \in 1..(i - 1) : wire'[j].kind = "done")
    <3>1. reader = "over" /\ (Said \/ \E j \in 1..i : wire[j].kind = "done")
      BY <2>1, <2>3 DEF GetInv, Closing
    <3>2. ASSUME NEW j \in 1..i, wire[j].kind = "done", ~Said' PROVE \E k \in 1..(i - 1) : wire'[k].kind = "done"
      <4>1. j # 1
        BY <1>1, <3>2
      <4>2. j - 1 \in 1..(i - 1) /\ j - 1 \in 1..Len(wire') /\ (j - 1) + 1 = j
        BY <1>1, <4>1
      <4>3. wire'[j - 1].kind = "done"
        BY <1>1, <3>2, <4>2
      <4> QED
        BY <4>2, <4>3
    <3> QED
      BY <1>1, <1>5, <3>1, <3>2
  <2> QED
    BY <2>2, <2>3
<1>9. Closing'
  <2>1. Said' => res' = [sha |-> sent', truncated |-> truncated']
    BY <1>1
  <2> QED
    BY <1>6, <1>7, <1>8, <2>1, Zenon DEF Closing
<1>10. Sealing'
  BY <1>1, <1>6 DEF GetInv, Sealing
<1>11. Reading' /\ Scanning' /\ Copying' /\ Capped'
  BY <1>1 DEF GetInv, Reading, Scanning, Copying, Capped
<1> QED
  BY <1>9, <1>10, <1>11

\* A frame taken leaves the types.
LEMMA TakeTypes ==
    ASSUME GetInv, NEW kind, Get!Receive(kind), hashed' \in Seq(Byte), outcome' \in {"waiting", "ok", "error"}
    PROVE  GetTypes'
  BY FrameTaken DEF GetInv, GetTypes

\* A chunk is stored and hashed, or neither.
LEMMA WriteChunkInv == ASSUME GetInv, Get!WriteChunk PROVE GetInv'
<1>1. /\ Get!Receive("data") /\ UNCHANGED <<res, outcome>>
      /\ \/ got' = got \o Head(wire).data /\ hashed' = hashed \o Head(wire).data
         \/ got' = got /\ hashed' = hashed
  BY DEF Get!WriteChunk
<1>2. Said' <=> Said
  BY <1>1 DEF Said
<1>3. Said => res = [sha |-> sent, truncated |-> truncated]
  BY DEF GetInv, Closing
<1>4. Closing' /\ Sealing' /\ Reading' /\ Scanning' /\ Copying' /\ Capped'
  BY <1>1, <1>2, <1>3, RestInOrder
<1>5. outcome = "waiting" /\ got = hashed /\ reader # "idle" /\ reader' = reader
  BY <1>1, FrameTaken DEF GetInv, Storing
<1>6. got' = hashed'
  BY <1>1, <1>5
<1>7. hashed' \in Seq(Byte)
  <2>1. hashed \in Seq(Byte)
    BY DEF GetInv, GetTypes
  <2>2. Head(wire).data \in Seq(Byte)
    <3>1. wire[1] \in Frame /\ wire[1].kind = "data" /\ Head(wire) = wire[1]
      BY <1>1, FrameTaken
    <3> QED
      BY <3>1 DEF Frame
  <2>3. hashed \o Head(wire).data \in Seq(Byte)
    BY <2>1, <2>2
  <2> QED
    BY <1>1, <2>1, <2>3, Zenon
<1>8. GetTypes'
  BY <1>1, <1>5, <1>7, TakeTypes
<1>9. Storing'
  BY <1>1, <1>5, <1>6 DEF Storing
<1> QED
  BY <1>4, <1>8, <1>9 DEF GetInv

\* A sum of bytes is not the mark that stands for none.
LEMMA ASum == ASSUME NEW s \in Seq(Byte) PROVE s # Get!NoSum
<1>1. \A i \in 1..Len(s) : s[i] # "none"
  <2>1. \A i \in 1..Len(s) : s[i] \in Byte
    OBVIOUS
  <2> QED
    BY <2>1 DEF Byte, Get!Byte
<1>2. Len(Get!NoSum) = 1 /\ Get!NoSum[1] = "none"
  BY DEF Get!NoSum
<1> QED
  BY <1>1, <1>2

\* The client learns the sum and the flag.
LEMMA TakeDoneInv == ASSUME GetInv, Get!TakeDone PROVE GetInv'
<1>1. /\ Get!Receive("done") /\ UNCHANGED <<got, hashed, outcome>>
      /\ res' = [sha |-> Head(wire).sha, truncated |-> Head(wire).truncated]
  BY DEF Get!TakeDone
<1>2. /\ outcome = "waiting" /\ reader' = reader /\ Len(wire) \in Nat \ {0} /\ wire[1].kind = "done" /\ Head(wire) = wire[1]
      /\ sent' = sent /\ truncated' = truncated
  BY <1>1, FrameTaken
<1>3. res' = [sha |-> sent, truncated |-> truncated]
  <2>1. 1 \in 1..Len(wire)
    BY <1>2
  <2>2. wire[1].sha = sent /\ wire[1].truncated = truncated
    BY <1>2, <2>1 DEF GetInv, Closing
  <2> QED
    BY <1>1, <1>2, <2>2
<1>4. Said'
  <2>1. sent # Get!NoSum
    BY ASum DEF GetInv, GetTypes
  <2> QED
    BY <1>3, <2>1 DEF Said
<1>5. Said => res' = res
  BY <1>3 DEF GetInv, Closing
<1>6. Closing' /\ Sealing' /\ Reading' /\ Scanning' /\ Copying' /\ Capped'
  BY <1>1, <1>3, <1>4, <1>5, RestInOrder
<1>7. GetTypes'
  <2>1. hashed' \in Seq(Byte)
    BY <1>1 DEF GetInv, GetTypes
  <2> QED
    BY <1>1, <1>2, <2>1, TakeTypes
<1>8. Storing'
  BY <1>1, <1>2 DEF GetInv, Storing
<1> QED
  BY <1>6, <1>7, <1>8 DEF GetInv

\* At the Result the sums are compared.
LEMMA TakeResultInv == ASSUME GetInv, Get!TakeResult PROVE GetInv'
<1>1. /\ Get!Receive("result") /\ UNCHANGED <<got, hashed, res>>
      /\ outcome' = IF res.sha # Get!NoSum /\ res.sha # hashed /\ ~res.truncated THEN "error" ELSE "ok"
  BY DEF Get!TakeResult
<1>2. /\ outcome = "waiting" /\ reader' = reader /\ Len(wire) \in Nat \ {0} /\ wire[1].kind = "result"
      /\ sent' = sent /\ truncated' = truncated
  BY <1>1, FrameTaken
<1>3. Said
  <2>1. 1 \in 1..Len(wire) /\ 1..(1 - 1) = {}
    BY <1>2
  <2>2. Said \/ \E j \in 1..(1 - 1) : wire[j].kind = "done"
    BY <1>2, <2>1 DEF GetInv, Closing
  <2> QED
    BY <2>1, <2>2
<1>4. res = [sha |-> sent, truncated |-> truncated] /\ res.sha = sent
  BY <1>3 DEF GetInv, Closing
<1>5. Said' <=> Said
  BY <1>1 DEF Said
<1>6. Closing' /\ Sealing' /\ Reading' /\ Scanning' /\ Copying' /\ Capped'
  BY <1>1, <1>4, <1>5, RestInOrder
<1>7. outcome' \in {"ok", "error"}
  BY <1>1
<1>8. GetTypes'
  <2>1. hashed' \in Seq(Byte)
    BY <1>1 DEF GetInv, GetTypes
  <2> QED
    BY <1>1, <1>7, <2>1, TakeTypes
<1>9. got = hashed /\ reader # "idle"
  BY <1>2 DEF GetInv, Storing
<1>10. outcome' = "ok" /\ ~res.truncated => got = sent
  <2>1. sent # Get!NoSum
    BY ASum DEF GetInv, GetTypes
  <2> QED
    BY <1>1, <1>4, <1>9, <2>1, Zenon
<1>11. Storing'
  BY <1>1, <1>2, <1>3, <1>5, <1>7, <1>9, <1>10 DEF Storing
<1> QED
  BY <1>6, <1>8, <1>11 DEF GetInv

\* An Error ends the download.
LEMMA TakeErrorInv == ASSUME GetInv, Get!TakeError PROVE GetInv'
<1>1. Get!Receive("error") /\ UNCHANGED <<got, hashed, res>> /\ outcome' = "error"
  BY DEF Get!TakeError
<1>2. outcome = "waiting" /\ reader' = reader
  BY <1>1, FrameTaken
<1>3. Said' <=> Said
  BY <1>1 DEF Said
<1>4. Said => res = [sha |-> sent, truncated |-> truncated]
  BY DEF GetInv, Closing
<1>5. Closing' /\ Sealing' /\ Reading' /\ Scanning' /\ Copying' /\ Capped'
  BY <1>1, <1>3, <1>4, RestInOrder
<1>6. GetTypes'
  <2>1. hashed' \in Seq(Byte)
    BY <1>1 DEF GetInv, GetTypes
  <2> QED
    BY <1>1, <2>1, TakeTypes
<1>7. Storing'
  BY <1>1, <1>2 DEF GetInv, Storing
<1> QED
  BY <1>5, <1>6, <1>7 DEF GetInv

-----------------------------------------------------------------------------
(* The file grows *)

\* A file that grows keeps the versions it had.
LEMMA GrowInv == ASSUME GetInv, Get!Grow PROVE GetInv'
<1>1. PICK c \in Byte : file' = Append(file, c)
  BY DEF Get!Grow, Byte
<1>2. UNCHANGED <<req, was, reader, seen, eof, pos, lineNo, sent, truncated, wire, hashed, got, res, outcome>>
  BY DEF Get!Grow, Get!agentVars, Get!clientVars
<1>3. /\ file \in Seq(Byte) /\ Len(file) \in Nat /\ was \in 0..Len(file) /\ seen \in 0..Len(file) /\ pos \in 0..seen
      /\ sent \in Seq(Byte)
  BY DEF GetInv, GetTypes
<1>4. file' \in Seq(Byte) /\ Len(file') = Len(file) + 1 /\ \A i \in 1..Len(file) : file'[i] = file[i]
  BY <1>1, <1>3
<1>5. \A n \in 0..Len(file) : Prefix(file', n) = Prefix(file, n) /\ n \in 0..Len(file')
  BY <1>1, <1>3, <1>4, PrefixGrown
<1>6. GetTypes'
  <2>1. was' \in 0..Len(file') /\ seen' \in 0..Len(file') /\ pos' \in 0..seen'
    BY <1>2, <1>3, <1>5
  <2> QED
    BY <1>2, <1>4, <2>1 DEF GetInv, GetTypes
<1>7. Scanning'
  <2>1. pos \in 0..Len(file)
    BY <1>3
  <2>2. Scanned(file', pos') = Scanned(file, pos)
    BY <1>2, <1>5, <2>1 DEF Scanned
  <2>3. pos = 0 \/ file'[pos] = file[pos]
    BY <1>4, <2>1
  <2>4. Get!ByLine(req)' <=> Get!ByLine(req)
    BY <1>2 DEF Get!ByLine
  <2>5. reader = "lines" => (pos = 0 \/ file'[pos] = "n" \/ (eof /\ pos = seen)) /\ Get!ByLine(req)
                            /\ Sums(lineNo, sent, Scanned(file, pos), req)
    BY <2>3 DEF GetInv, Scanning
  <2> QED
    BY <1>2, <2>2, <2>4, <2>5, Zenon DEF Scanning
<1>8. Copying'
  <2>1. Get!ByLine(req)' <=> Get!ByLine(req)
    BY <1>2 DEF Get!ByLine
  <2>2. reader = "bytes" => ~Get!ByLine(req) /\ Len(sent) <= Len(file) /\ sent = Prefix(file, Len(sent))
    BY DEF GetInv, Copying
  <2>3. Len(sent) <= Len(file) => Len(sent) \in 0..Len(file) /\ Len(sent) <= Len(file')
    BY <1>3, <1>4
  <2> QED
    BY <1>2, <1>5, <2>1, <2>2, <2>3 DEF Copying
<1>9. Sealing'
  <2>1. Sealed(file, was, sent, req, truncated) => Sealed(file', was, sent, req, truncated)
    <3> SUFFICES ASSUME NEW k \in was..Len(file), Get!IsSlice(sent, Prefix(file, k), req),
                        ~truncated => Get!IsSlice(sent, Prefix(file, k), Uncapped(req))
                 PROVE  Sealed(file', was, sent, req, truncated)
      BY DEF Sealed
    <3>1. k \in was..Len(file') /\ k \in 0..Len(file)
      BY <1>3, <1>4
    <3> QED
      BY <1>5, <3>1, SealedBy
  <2>2. (Said' <=> Said) /\ (Announced' <=> Announced)
    BY <1>2 DEF Said, Announced
  <2> QED
    BY <1>2, <2>1, <2>2 DEF GetInv, Sealing
<1>10. Reading' /\ Capped' /\ Closing' /\ Storing'
  BY <1>2 DEF GetInv, Reading, Capped, Closing, Storing, Said, Announced
<1> QED
  BY <1>6, <1>7, <1>8, <1>9, <1>10 DEF GetInv

\* A run of the command starts with nothing read.
LEMMA GetStarts ==
    ASSUME NEW requests, NEW files, requests \subseteq Request, files \subseteq Seq(Byte),
           Get!StartsWith(requests, files)
    PROVE  GetInv /\ GetFlags
<1> USE DEF Get!StartsWith
<1>1. Len(<<>>) = 0 /\ <<>> \in Seq(Byte) /\ <<>> \in Seq(Frame)
  OBVIOUS
<1>2. file \in Seq(Byte) /\ req \in Request
  OBVIOUS
<1>3. GetTypes
  BY <1>1, <1>2 DEF GetTypes
<1>4. Reading /\ Scanning /\ Copying
  BY DEF Reading, Scanning, Copying
<1>5. Capped
  <2>1. req.max \in Int
    BY <1>2 DEF Request
  <2> QED
    BY <1>1, <2>1 DEF Capped
<1>6. ~Said /\ ~Announced
  BY <1>1 DEF Said, Announced
<1>7. Sealing /\ Closing
  BY <1>1, <1>6 DEF Sealing, Closing
<1>8. Storing
  BY DEF Storing
<1>9. GetFlags
  BY DEF GetFlags
<1> QED
  BY <1>3, <1>4, <1>5, <1>7, <1>8, <1>9 DEF GetInv

\* Every step of a download keeps the invariant.
LEMMA GetNextInv == ASSUME GetInv, GetFlags, Get!Next PROVE GetInv'
  BY AskInv, OpenInv, FailInv, PathDiesInv, ScanReadInv, SkipInv, CutInv, SendInv, ScanEndsInv, AtCapInv, SendBytesInv,
     ReadEndsInv, SendDoneInv, SendResultInv, WriteChunkInv, TakeDoneInv, TakeResultInv, TakeErrorInv, GrowInv,
     Zenon DEF Get!Next, Get!Agent, Get!Client

\* The flags stay flags.
LEMMA GetNextFlags == ASSUME GetInv, GetFlags, Get!Next PROVE GetFlags'
<1>1. CASE Get!TakeDone
  <2>1. Get!Receive("done") /\ res' = [sha |-> Head(wire).sha, truncated |-> Head(wire).truncated]
    BY <1>1 DEF Get!TakeDone
  <2>2. /\ Head(wire) \in Frame /\ Head(wire).kind = "done"
        /\ UNCHANGED <<eof, truncated>>
    BY <2>1, FrameTaken
  <2>3. Head(wire).truncated \in BOOLEAN
    BY <2>2 DEF Frame
  <2>4. res'.truncated = Head(wire).truncated
    BY <2>1
  <2> QED
    BY <2>2, <2>3, <2>4, Zenon DEF GetFlags
<1>2. CASE Get!CutLine
  BY <1>2, Zenon DEF Get!CutLine, Get!clientVars, GetFlags
<1>3. CASE Get!ScanRead
  BY <1>3, Zenon DEF Get!ScanRead, Get!clientVars, GetFlags
<1>4. CASE Get!AtCap
  BY <1>4, Zenon DEF Get!AtCap, Get!clientVars, GetFlags
<1>5. CASE Get!Ask \/ Get!Open \/ Get!LineTooLong \/ Get!SkipLine \/ Get!SendLine \/ Get!ScanEnds
           \/ Get!SendBytes \/ Get!ReadEnds \/ Get!SendDone \/ Get!SendResult \/ Get!ReadFails \/ Get!Lost \/ Get!PathDies
           \/ Get!Grow
  <2>1. UNCHANGED <<eof, truncated, res>>
    BY <1>5, Zenon DEF Get!Ask, Get!Open, Get!LineTooLong, Get!SkipLine, Get!SendLine, Get!ScanEnds,
           Get!SendBytes, Get!ReadEnds, Get!SendDone, Get!SendResult, Get!ReadFails, Get!Lost, Get!PathDies,
           Get!Grow, Get!clientVars, Get!agentVars
  <2> QED
    BY <2>1, Zenon DEF GetFlags
<1>6. CASE Get!WriteChunk \/ Get!TakeResult \/ Get!TakeError
  <2>1. UNCHANGED <<eof, truncated, res>>
    BY <1>6, Zenon DEF Get!WriteChunk, Get!TakeResult, Get!TakeError, Get!Receive, Get!agentVars
  <2> QED
    BY <2>1, Zenon DEF GetFlags
<1> QED
  BY <1>1, <1>2, <1>3, <1>4, <1>5, <1>6, Zenon DEF Get!Next, Get!Agent, Get!Client

\* Another command leaves the download alone.
LEMMA GetUnchanged == ASSUME GetInv, GetFlags, UNCHANGED getVars PROVE GetInv' /\ GetFlags'
<1>1. UNCHANGED <<req, file, was, reader, seen, eof, pos, lineNo, sent, truncated, wire, got, hashed, res, outcome>>
  BY DEF getVars
<1>2. GetFlags' /\ GetTypes' /\ Reading' /\ Copying' /\ Capped' /\ Closing' /\ Storing'
  BY <1>1 DEF GetInv, GetFlags, GetTypes, Reading, Copying, Capped, Closing, Storing, Said, Announced, Get!ByLine
<1>3. Scanning'
  BY <1>1 DEF GetInv, Scanning, Get!ByLine
<1>4. Sealing'
  BY <1>1 DEF GetInv, Sealing, Said, Announced
<1> QED
  BY <1>2, <1>3, <1>4 DEF GetInv

\* The bounds of a download.
GetBounds == cmd = "get" => req \in Requests /\ Len(file) <= MaxLen /\ Len(wire) <= WireCap

\* The file and the wire stay within their bounds.
LEMMA GetBoundsInv ==
    ASSUME GetInv, GetBounds, RsbNext
    PROVE  GetBounds'
<1> SUFFICES ASSUME cmd' = "get" PROVE req' \in Requests /\ Len(file') <= MaxLen /\ Len(wire') <= WireCap
  BY DEF GetBounds
<1>1. cmd = "get"
  BY DEF RsbNext
<1>2. Get!Next
  BY <1>1 DEF RsbNext
<1>3. req \in Requests /\ Len(file) <= MaxLen /\ Len(wire) <= WireCap
  BY <1>1 DEF GetBounds
<1>4. wire \in Seq(Frame) /\ file \in Seq(Byte) /\ Len(wire) \in Nat /\ Len(file) \in Nat
  BY DEF GetInv, GetTypes
<1>5. WireCap \in Nat /\ MaxLen \in Nat
  BY RsbAssumption DEF Get!FileGetAssumption
<1>6. req' = req
  BY <1>2, Zenon DEF Get!Next, Get!Agent, Get!Client, Get!Ask, Get!Open, Get!ScanRead, Get!LineTooLong, Get!SkipLine,
     Get!CutLine, Get!SendLine, Get!ScanEnds, Get!AtCap, Get!SendBytes, Get!ReadEnds, Get!SendDone, Get!SendResult,
     Get!WriteChunk, Get!TakeDone, Get!TakeResult, Get!TakeError, Get!Receive, Get!ReadFails, Get!Lost, Get!PathDies,
     Get!Grow
<1>7. file' = file \/ (Len(file) < MaxLen /\ \E c \in Byte : file' = Append(file, c))
  BY <1>2, Zenon DEF Get!Next, Get!Agent, Get!Client, Get!Ask, Get!Open, Get!ScanRead, Get!LineTooLong, Get!SkipLine,
     Get!CutLine, Get!SendLine, Get!ScanEnds, Get!AtCap, Get!SendBytes, Get!ReadEnds, Get!SendDone, Get!SendResult,
     Get!WriteChunk, Get!TakeDone, Get!TakeResult, Get!TakeError, Get!Receive, Get!ReadFails, Get!Lost, Get!PathDies,
     Get!Grow, Byte
<1>8. wire' = wire \/ (wire # <<>> /\ wire' = Tail(wire)) \/ \E f : Len(wire) < WireCap /\ wire' = Append(wire, f)
  BY <1>2, Zenon DEF Get!Next, Get!Agent, Get!Client, Get!Ask, Get!Open, Get!ScanRead, Get!LineTooLong, Get!SkipLine,
     Get!CutLine, Get!SendLine, Get!ScanEnds, Get!AtCap, Get!SendBytes, Get!ReadEnds, Get!SendDone, Get!SendResult,
     Get!WriteChunk, Get!TakeDone, Get!TakeResult, Get!TakeError, Get!Receive, Get!ReadFails, Get!Lost, Get!PathDies,
     Get!Grow,
     Get!Fails, Get!Send
<1>9. Len(file') <= MaxLen
  <2>1. ASSUME NEW c \in Byte, file' = Append(file, c), Len(file) < MaxLen PROVE Len(file') <= MaxLen
    BY <1>4, <1>5, <2>1
  <2> QED
    BY <1>3, <1>7, <2>1
<1>10. Len(wire') <= WireCap
  <2>1. ASSUME NEW f, wire' = Append(wire, f), Len(wire) < WireCap PROVE Len(wire') <= WireCap
    BY <1>4, <1>5, <2>1
  <2>2. CASE wire # <<>> /\ wire' = Tail(wire)
    BY <1>3, <1>4, <1>5, <2>2
  <2> QED
    BY <1>3, <1>8, <2>1, <2>2
<1> QED
  BY <1>3, <1>6, <1>9, <1>10

\* What is said of a download in its invariant.
LEMMA GetPromises == ASSUME GetInv, GetFlags PROVE SliceIsExact /\ OkIsWhole
<1>1. ASSUME Sealed(file, was, sent, req, truncated)
      PROVE  \E k \in was..Len(file) :
               /\ Get!IsSlice(sent, SubSeq(file, 1, k), req)
               /\ ~truncated => Get!IsSlice(sent, SubSeq(file, 1, k), [req EXCEPT !.max = 0])
  BY <1>1, Zenon DEF Sealed, Prefix, Uncapped
<1>2. Get!SliceIsExact
  <2>1. reader = "result" => \E f \in Get!Versions : Get!IsSlice(sent, f, req)
    BY <1>1, Zenon DEF GetInv, Sealing, Get!Versions
  <2> QED
    BY <2>1, Zenon DEF GetInv, Capped, Get!SliceIsExact
<1>3. Get!OkIsWhole
  <2> SUFFICES ASSUME outcome = "ok", ~res.truncated
               PROVE  \E f \in Get!Versions : Get!IsSlice(got, f, [req EXCEPT !.max = 0])
    BY Zenon DEF Get!OkIsWhole
  <2>1. Said /\ got = sent
    BY DEF GetInv, Storing
  <2>2. res = [sha |-> sent, truncated |-> truncated]
    BY <2>1 DEF GetInv, Closing
  <2>3. ~truncated
    BY <2>2 DEF GetFlags
  <2>4. Sealed(file, was, sent, req, truncated)
    BY <2>1 DEF GetInv, Sealing
  <2> QED
    BY <1>1, <2>1, <2>3, <2>4, Zenon DEF Get!Versions
<1> QED
  BY <1>2, <1>3 DEF SliceIsExact, OkIsWhole

\* The type invariant of FileGet.
LEMMA GetTypeOK == ASSUME GetInv, GetFlags, GetBounds, cmd = "get" PROVE Get!TypeOK
<1>1. {eof, truncated, res.truncated} \subseteq BOOLEAN
  BY Zenon DEF GetFlags
<1> QED
  BY <1>1 DEF GetInv, GetTypes, GetBounds, Get!TypeOK, Byte

\* The inputs of a command.
LEMMA GetGiven ==
    /\ Given("get", Requests, [start |-> 0, end |-> 0, max |-> 0]) \subseteq Request
    /\ Given("get", Get!Files, <<>>) \subseteq Seq(Byte)
<1>1. Requests \subseteq Request /\ [start |-> 0, end |-> 0, max |-> 0] \in Request
  BY RsbAssumption DEF Get!FileGetAssumption, Request
<1>2. <<>> \in Seq(Byte)
  OBVIOUS
<1>3. Get!Files \subseteq Seq(Byte)
  <2> SUFFICES ASSUME NEW n \in 0..MaxLen, NEW f \in [1..n -> Get!Byte] PROVE f \in Seq(Byte)
    BY DEF Get!Files
  <2>1. n \in Nat
    OBVIOUS
  <2> QED
    BY <2>1 DEF Byte
<1> QED
  BY <1>1, <1>2, <1>3, Zenon DEF Given

\* A download is in order in every run, whatever the file, the range, the cap and the
\* losses.
THEOREM DownloadInvariant == RsbSpec => [](GetInv /\ GetFlags /\ GetBounds)
<1>1. RsbInit => GetInv /\ GetFlags /\ GetBounds
  <2> SUFFICES ASSUME RsbInit PROVE GetInv /\ GetFlags /\ GetBounds
    OBVIOUS
  <2>1. Get!StartsWith(Given("get", Requests, [start |-> 0, end |-> 0, max |-> 0]), Given("get", Get!Files, <<>>))
    BY DEF RsbInit
  <2>2. GetInv /\ GetFlags
    BY <2>1, GetGiven, GetStarts
  <2>3. GetBounds
    <3> SUFFICES ASSUME cmd = "get" PROVE req \in Requests /\ Len(file) <= MaxLen /\ Len(wire) <= WireCap
      BY DEF GetBounds
    <3>1. req \in Requests /\ file \in Get!Files /\ wire = <<>>
      BY <2>1 DEF Given, Get!StartsWith
    <3>2. Len(file) <= MaxLen
      <4>1. PICK n \in 0..MaxLen : file \in [1..n -> Get!Byte]
        BY <3>1 DEF Get!Files
      <4>2. file \in Seq(Get!Byte) /\ Len(file) = n
        BY <4>1
      <4> QED
        BY <4>2
    <3>3. WireCap \in Nat /\ Len(<<>>) = 0
      BY RsbAssumption DEF Get!FileGetAssumption
    <3> QED
      BY <3>1, <3>2, <3>3
  <2> QED
    BY <2>2, <2>3
<1>2. GetInv /\ GetFlags /\ GetBounds /\ [RsbNext]_rsbVars
      => (GetInv /\ GetFlags /\ GetBounds)'
  <2> SUFFICES ASSUME GetInv, GetFlags, GetBounds, [RsbNext]_rsbVars
               PROVE  (GetInv /\ GetFlags /\ GetBounds)'
    OBVIOUS
  <2>1. Get!Next \/ UNCHANGED getVars
    BY Zenon DEF RsbNext, rsbVars
  <2>2. GetInv' /\ GetFlags'
    BY <2>1, GetNextInv, GetNextFlags, GetUnchanged
  <2>3. CASE RsbNext
    BY <2>3, GetBoundsInv, <2>2
  <2>4. CASE UNCHANGED rsbVars
    BY <2>2, <2>4 DEF GetBounds, getVars, rsbVars
  <2> QED
    BY <2>2, <2>3, <2>4
<1> QED
  BY <1>1, <1>2, PTL DEF RsbSpec, rsbVars

\* What the agent sends is what was asked for, of the file at a moment since it was
\* opened, while the file grows, and never more than the cap.
THEOREM SlicesExact == RsbSpec => []SliceIsExact
<1>1. GetInv /\ GetFlags /\ GetBounds => SliceIsExact
  BY GetPromises
<1> QED
  BY <1>1, DownloadInvariant, PTL

\* A download that reports success and is not truncated has stored all that was asked
\* for, whatever was lost or could not be written.
THEOREM WholeIfOk == RsbSpec => []OkIsWhole
<1>1. GetInv /\ GetFlags /\ GetBounds => OkIsWhole
  BY GetPromises
<1> QED
  BY <1>1, DownloadInvariant, PTL

-----------------------------------------------------------------------------
(* rsb grep *)

\* Positions of an output t: where a line begins, where it ends but for its newline.
LineStart(t, p) == p > 1 => t[p - 1] = "n"
LineEnd(t, p) == p < Len(t) /\ t[p + 1] = "n"
Plain(t, a, b) == \A p \in a..b : t[p] # "n"

\* The matches that are whole among the first n bytes.
Matches(t, n) == {p \in DOMAIN t : LineStart(t, p) /\ t[p] = "m" /\ \E q \in p..n : LineEnd(t, q)}

\* Every line of t is shorter than the buffer of the scanner.
LinesFit(t) == \A p, q \in DOMAIN t : p <= q /\ Plain(t, p, q) => q - p + 1 < LineCap

\* b is the last bytes that arrived, at a.
Window(b, a) == Len(b) <= a /\ \A i \in DOMAIN b : b[i] = a - Len(b) + i

\* b is the part that arrived, at a, of a line that is not whole.
Unfinished(t, b, a) ==
    /\ Window(b, a) /\ Plain(t, a - Len(b) + 1, a)
    /\ b = <<>> /\ a > 0 => t[a] = "n" \/ LineEnd(t, a)
    /\ b # <<>> => LineStart(t, a - Len(b) + 1) /\ ~LineEnd(t, a)

\* s has the members of S in ascending order.
Rising(s) == \A i, j \in DOMAIN s : i < j => s[i] < s[j]
Lists(s, S) == Rising(s) /\ (\A i \in DOMAIN s : s[i] \in S) /\ \A p \in S : \E i \in DOMAIN s : s[i] = p

SearchTypes ==
    /\ Search!IsOutput(text) /\ LinesFit(text) /\ cap \in Nat
    /\ phase \in {"send", "read", "scan", "ok", "error"}
    /\ arrived \in 0..Len(text) /\ past \in 0..Len(lineBuf)
    /\ lineBuf \in Seq(DOMAIN text) /\ complete \in Seq(DOMAIN text) /\ printed \in Seq(DOMAIN text)

SearchFlags == rgErr \in {0, 1} /\ warned \in BOOLEAN

\* The buffer is the end of what arrived: between chunks a part of one line.
Buffered ==
    /\ Window(lineBuf, arrived)
    /\ phase = "send" => arrived = 0
    /\ phase # "scan" => past = 0 /\ complete = <<>>
    /\ phase = "send" \/ phase = "read" => Unfinished(text, lineBuf, arrived)

\* The position in rg's output that the scanner is past.
At(a, b, n) == a - Len(b) + n

\* The scanner goes from line to line, and what it keeps is what it meets last.
Parsing == phase = "scan" =>
    LET p == At(arrived, lineBuf, past) IN
    /\ past = Len(lineBuf) => Unfinished(text, complete, arrived)
    /\ past < Len(lineBuf) => complete = <<>> /\ (LineStart(text, p + 1) \/ text[p + 1] = "n")

\* What was printed is the matches in what the scanner is past, ...
Printing ==
    /\ phase = "scan" => Lists(printed, Matches(text, At(arrived, lineBuf, past)))
    /\ phase = "send" \/ phase = "read" => Lists(printed, Matches(text, arrived))
    /\ phase \in {"send", "read", "scan"} => (cap > 0 => Len(printed) < cap)

\* ... in the end of all that arrived, or the first of them up to the cap.
Firsts(s, S, c) ==
    /\ Rising(s) /\ (\A i \in DOMAIN s : s[i] \in S) /\ (c > 0 => Len(s) <= c)
    /\ \A p \in S : (\E i \in DOMAIN s : s[i] = p) \/ (c > 0 /\ Len(s) = c /\ \A i \in DOMAIN s : s[i] < p)

Printed == phase = "ok" \/ phase = "error" => Firsts(printed, Matches(text, arrived), cap)

SearchInv == SearchTypes /\ Buffered /\ Parsing /\ Printing /\ Printed

\* An output as the module says, with the facts that are used of it.
LEMMA OutputFacts ==
    ASSUME NEW t, Search!IsOutput(t)
    PROVE  /\ Len(t) \in Nat /\ DOMAIN t = 1..Len(t)
           /\ \A i \in 1..Len(t) : i > 1 /\ t[i] = "n" => t[i - 1] # "n"
           /\ t # <<>> => t[1] # "n" /\ t[Len(t)] = "n"
<1>1. t \in Seq(Search!Byte)
  BY DEF Search!IsOutput
<1>2. Len(t) \in Nat /\ DOMAIN t = 1..Len(t)
  BY <1>1
<1> QED
  BY <1>2 DEF Search!IsOutput

\* Nothing is found where no line ends.
LEMMA NothingFound ==
    ASSUME NEW t, NEW a \in Nat, NEW b \in Nat, Len(t) \in Nat, DOMAIN t = 1..Len(t), a <= b,
           \A q \in (a + 1)..b : ~LineEnd(t, q)
    PROVE  Matches(t, b) = Matches(t, a)
<1>1. ASSUME NEW p \in Matches(t, b) PROVE p \in Matches(t, a)
  <2>1. PICK q \in p..b : LineEnd(t, q)
    BY DEF Matches
  <2>2. p \in 1..Len(t)
    BY DEF Matches
  <2>3. q \in p..a
    BY <2>1, <2>2
  <2> QED
    BY <2>1, <2>3 DEF Matches
<1>2. ASSUME NEW p \in Matches(t, a) PROVE p \in Matches(t, b)
  <2>1. PICK q \in p..a : LineEnd(t, q)
    BY DEF Matches
  <2>2. p \in 1..Len(t)
    BY DEF Matches
  <2>3. q \in p..b
    BY <2>1, <2>2
  <2> QED
    BY <2>1, <2>3 DEF Matches
<1> QED
  BY <1>1, <1>2

\* More bytes hold the matches of fewer.
LEMMA MatchesGrow ==
    ASSUME NEW t, NEW a \in Nat, NEW b \in Nat, Len(t) \in Nat, DOMAIN t = 1..Len(t), a <= b
    PROVE  Matches(t, a) \subseteq Matches(t, b)
<1>1. ASSUME NEW p \in Matches(t, a) PROVE p \in Matches(t, b)
  <2>1. PICK q \in p..a : LineEnd(t, q)
    BY DEF Matches
  <2>2. p \in 1..Len(t)
    BY DEF Matches
  <2>3. q \in p..b
    BY <2>1, <2>2
  <2> QED
    BY <2>1, <2>3 DEF Matches
<1> QED
  BY <1>1

\* The bytes from a to b are a line of t.
WholeLine(t, a, b) == a < b /\ b <= Len(t) /\ LineStart(t, a + 1) /\ LineEnd(t, b) /\ Plain(t, a + 1, b)

\* A match before the beginning of a line is whole before it.
LEMMA EarlierLine ==
    ASSUME NEW t, NEW a \in Nat, NEW b \in Nat, Len(t) \in Nat, DOMAIN t = 1..Len(t), a <= Len(t),
           LineStart(t, a + 1), NEW p \in Matches(t, b), p <= a
    PROVE  p \in Matches(t, a)
<1>1. p \in 1..Len(t) /\ t[p] = "m"
  BY DEF Matches
<1>2. t[a] = "n"
  BY <1>1 DEF LineStart
<1>3. p # a
  BY <1>1, <1>2
<1>4. a - 1 \in p..a /\ LineEnd(t, a - 1)
  BY <1>1, <1>2, <1>3 DEF LineEnd
<1> QED
  BY <1>4 DEF Matches

\* What is found among the first a bytes begins there.
LEMMA MatchesBelow ==
    ASSUME NEW t, NEW a \in Nat, Len(t) \in Nat, DOMAIN t = 1..Len(t), NEW p \in Matches(t, a)
    PROVE  p \in 1..Len(t) /\ p <= a
<1>1. p \in 1..Len(t) /\ \E q \in p..a : LineEnd(t, q)
  BY DEF Matches
<1> QED
  BY <1>1

\* One more line is one more match, if it is one.
LEMMA LineFound ==
    ASSUME NEW t, NEW a \in Nat, NEW b \in Nat, Len(t) \in Nat, DOMAIN t = 1..Len(t), WholeLine(t, a, b)
    PROVE  Matches(t, b) = Matches(t, a) \cup {p \in {a + 1} : t[p] = "m"}
<1>1. ASSUME NEW p \in Matches(t, b) PROVE p \in Matches(t, a) \/ (p = a + 1 /\ t[p] = "m")
  <2>1. p \in 1..Len(t) /\ LineStart(t, p) /\ t[p] = "m" /\ \E q \in p..b : LineEnd(t, q)
    BY DEF Matches
  <2>2. CASE p <= a
    BY <2>2, EarlierLine DEF WholeLine
  <2>3. CASE p > a + 1
    <3>1. PICK q \in p..b : LineEnd(t, q)
      BY <2>1
    <3>2. p - 1 \in (a + 1)..b
      BY <2>1, <2>3, <3>1
    <3>3. t[p - 1] = "n"
      BY <2>1, <2>3 DEF LineStart
    <3> QED
      BY <3>2, <3>3 DEF WholeLine, Plain
  <2> QED
    BY <2>1, <2>2, <2>3
<1>2. a + 1 \in 1..Len(t) /\ b \in (a + 1)..b
  BY DEF WholeLine
<1>3. t[a + 1] = "m" => a + 1 \in Matches(t, b)
  BY <1>2 DEF WholeLine, Matches
<1>4. Matches(t, a) \subseteq Matches(t, b)
  BY MatchesGrow DEF WholeLine
<1> QED
  BY <1>1, <1>3, <1>4

\* One more match at the end of the list.
LEMMA ListGrown ==
    ASSUME NEW N \in Nat, NEW s \in Seq(1..N), NEW S \in SUBSET (1..N), NEW e \in 1..N,
           Lists(s, S), \A p \in S : p < e
    PROVE  Lists(Append(s, e), S \cup {e})
<1>1. /\ Len(s) \in Nat /\ Len(Append(s, e)) = Len(s) + 1
      /\ \A i \in 1..Len(s) : Append(s, e)[i] = s[i] /\ s[i] \in 1..N
      /\ Append(s, e)[Len(s) + 1] = e
  OBVIOUS
<1>2. DOMAIN s = 1..Len(s) /\ DOMAIN Append(s, e) = 1..(Len(s) + 1)
  OBVIOUS
<1>3. Rising(Append(s, e))
  <2> SUFFICES ASSUME NEW i \in 1..(Len(s) + 1), NEW j \in 1..(Len(s) + 1), i < j
               PROVE  Append(s, e)[i] < Append(s, e)[j]
    BY <1>2 DEF Rising
  <2>1. i \in 1..Len(s) /\ s[i] \in S
    <3>1. i \in 1..Len(s)
      BY <1>1
    <3> QED
      BY <1>2, <3>1 DEF Lists
  <2>2. CASE j = Len(s) + 1
    BY <1>1, <2>1, <2>2
  <2>3. CASE j # Len(s) + 1
    <3>1. j \in 1..Len(s)
      BY <2>3, <1>1
    <3> QED
      BY <1>1, <1>2, <2>1, <3>1 DEF Lists, Rising
  <2> QED
    BY <2>2, <2>3
<1>4. \A i \in DOMAIN Append(s, e) : Append(s, e)[i] \in S \cup {e}
  <2> SUFFICES ASSUME NEW i \in 1..(Len(s) + 1) PROVE Append(s, e)[i] \in S \cup {e}
    BY <1>2
  <2>1. CASE i = Len(s) + 1
    BY <1>1, <2>1
  <2>2. CASE i \in 1..Len(s)
    BY <1>1, <1>2, <2>2 DEF Lists
  <2> QED
    BY <1>1, <2>1, <2>2
<1>5. ASSUME NEW p \in S \cup {e} PROVE \E i \in DOMAIN Append(s, e) : Append(s, e)[i] = p
  <2>1. CASE p = e
    BY <1>1, <1>2, <2>1
  <2>2. CASE p \in S
    <3>1. PICK i \in 1..Len(s) : s[i] = p
      BY <1>2, <2>2 DEF Lists
    <3>2. i \in 1..(Len(s) + 1)
      BY <1>1
    <3> QED
      BY <1>1, <1>2, <3>1, <3>2
  <2> QED
    BY <2>1, <2>2
<1> QED
  BY <1>3, <1>4, <1>5 DEF Lists

-----------------------------------------------------------------------------
(* The scanner *)

\* What the scanner's next token is.
NextToken ==
    /\ Search!TokenEnd \in (past + 1)..(Len(lineBuf) + 1)
    /\ Search!Token \in Seq(DOMAIN text) /\ Len(Search!Token) = Search!TokenEnd - 1 - past
    /\ DOMAIN Search!Token = 1..(Search!TokenEnd - 1 - past)
    /\ \A k \in 1..(Search!TokenEnd - 1 - past) : Search!Token[k] = At(arrived, lineBuf, past) + k
    /\ Plain(text, At(arrived, lineBuf, past) + 1, At(arrived, lineBuf, Search!TokenEnd - 1))
    /\ Search!TokenEnd <= Len(lineBuf) => text[At(arrived, lineBuf, Search!TokenEnd)] = "n"

\* A part of a sequence.
LEMMA SliceOf ==
    ASSUME NEW S, NEW q \in Seq(S), NEW a \in Nat, NEW b \in Nat, a <= b, b <= Len(q)
    PROVE  /\ SubSeq(q, a + 1, b) \in Seq(S) /\ Len(SubSeq(q, a + 1, b)) = b - a
           /\ \A k \in 1..(b - a) : SubSeq(q, a + 1, b)[k] = q[a + k]
OBVIOUS

LEMMA TokenFacts ==
    ASSUME SearchTypes, Buffered, past < Len(lineBuf)
    PROVE  NextToken
<1> DEFINE new == Search!Newlines
           e == Search!TokenEnd
           p == At(arrived, lineBuf, past)
<1>1. /\ Len(text) \in Nat /\ DOMAIN text = 1..Len(text) /\ arrived \in Nat /\ past \in Nat
      /\ Len(lineBuf) \in Nat /\ lineBuf \in Seq(1..Len(text)) /\ Len(lineBuf) <= arrived
      /\ arrived <= Len(text)
  <2>1. Len(text) \in Nat /\ DOMAIN text = 1..Len(text)
    BY OutputFacts DEF SearchTypes
  <2> QED
    BY <2>1 DEF SearchTypes, Buffered, Window
<1>2. \A i \in 1..Len(lineBuf) : lineBuf[i] = arrived - Len(lineBuf) + i
  BY <1>1 DEF Buffered, Window
<1>3. new \in SUBSET Nat /\ \A i \in (past + 1)..Len(lineBuf) : i \in new <=> text[lineBuf[i]] = "n"
  BY <1>1 DEF Search!Newlines
<1>4. /\ e \in (past + 1)..(Len(lineBuf) + 1)
      /\ e <= Len(lineBuf) => text[lineBuf[e]] = "n"
      /\ \A i \in (past + 1)..(e - 1) : text[lineBuf[i]] # "n"
  <2>1. CASE new = {}
    <3>1. e = Len(lineBuf) + 1
      BY <2>1 DEF Search!TokenEnd
    <3> HIDE DEF e, new
    <3> QED
      BY <1>1, <1>3, <2>1, <3>1
  <2>2. CASE new # {}
    <3>1. e = Get!Min(new)
      BY <2>2 DEF Search!TokenEnd, Search!Min, Get!Min
    <3>2. e \in new /\ \A n \in new : e <= n
      BY <1>3, <2>2, <3>1, Least
    <3>3. new \subseteq (past + 1)..Len(lineBuf)
      BY DEF Search!Newlines
    <3> HIDE DEF e, new
    <3>4. e \in (past + 1)..Len(lineBuf)
      BY <3>2, <3>3
    <3>5. \A i \in (past + 1)..(e - 1) : i \in (past + 1)..Len(lineBuf) /\ ~(e <= i)
      BY <1>1, <3>4
    <3> QED
      BY <1>1, <1>3, <3>2, <3>4, <3>5
  <2> QED
    BY <2>1, <2>2
<1>5. Search!Token = SubSeq(lineBuf, past + 1, e - 1)
  BY DEF Search!Token
<1> HIDE DEF e, new
<1>6. /\ Search!Token \in Seq(1..Len(text)) /\ Len(Search!Token) = e - 1 - past
      /\ \A k \in 1..(e - 1 - past) : Search!Token[k] = lineBuf[past + k]
  <2>1. /\ lineBuf \in Seq(1..Len(text)) /\ past \in Nat
        /\ e - 1 \in Nat /\ past <= e - 1 /\ e - 1 <= Len(lineBuf)
    BY <1>1, <1>4
  <2>2. /\ SubSeq(lineBuf, past + 1, e - 1) \in Seq(1..Len(text))
        /\ Len(SubSeq(lineBuf, past + 1, e - 1)) = e - 1 - past
        /\ \A k \in 1..(e - 1 - past) : SubSeq(lineBuf, past + 1, e - 1)[k] = lineBuf[past + k]
    BY <2>1, SliceOf
  <2> QED
    BY <1>5, <2>2, Zenon
<1>7. DOMAIN Search!Token = 1..(e - 1 - past)
  BY <1>6
<1>8. ASSUME NEW k \in 1..(e - 1 - past) PROVE Search!Token[k] = p + k
  <2>1. past + k \in 1..Len(lineBuf)
    BY <1>1, <1>4
  <2>2. lineBuf[past + k] = arrived - Len(lineBuf) + (past + k)
    BY <1>2, <2>1
  <2> QED
    BY <1>1, <1>4, <1>6, <2>2 DEF At
<1>9. Plain(text, p + 1, At(arrived, lineBuf, e - 1))
  <2> SUFFICES ASSUME NEW q \in (p + 1)..At(arrived, lineBuf, e - 1) PROVE text[q] # "n"
    BY DEF Plain
  <2>1. q - arrived + Len(lineBuf) \in (past + 1)..(e - 1)
    BY <1>1, <1>4 DEF At
  <2>2. lineBuf[q - arrived + Len(lineBuf)] = q
    <3>1. q - arrived + Len(lineBuf) \in 1..Len(lineBuf) /\ q \in Int
      BY <1>1, <1>4, <2>1
    <3>2. lineBuf[q - arrived + Len(lineBuf)] = arrived - Len(lineBuf) + (q - arrived + Len(lineBuf))
      BY <1>2, <3>1, Zenon
    <3> QED
      BY <1>1, <3>1, <3>2
  <2> QED
    BY <1>4, <2>1, <2>2
<1>10. e <= Len(lineBuf) => text[At(arrived, lineBuf, e)] = "n"
  BY <1>1, <1>2, <1>4 DEF At
<1> QED
  BY <1>1, <1>4, <1>6, <1>7, <1>8, <1>9, <1>10 DEF NextToken, e

\* The scanner never gives up: lines are shorter than its buffer.
LEMMA NeverTooLong ==
    ASSUME SearchTypes, Buffered, past < Len(lineBuf), Search!GrepAssumption
    PROVE  Len(Search!Token) < LineCap
<1> DEFINE p == At(arrived, lineBuf, past)
           n == Search!TokenEnd - 1 - past
<1>1. /\ Len(text) \in Nat /\ DOMAIN text = 1..Len(text) /\ arrived \in Nat /\ past \in Nat
      /\ Len(lineBuf) \in Nat /\ Len(lineBuf) <= arrived /\ arrived <= Len(text)
  <2>1. Len(text) \in Nat /\ DOMAIN text = 1..Len(text)
    BY OutputFacts DEF SearchTypes
  <2> QED
    BY <2>1 DEF SearchTypes, Buffered, Window
<1>2. NextToken
  BY TokenFacts
<1>3. n \in Nat /\ Len(Search!Token) = n /\ p \in Nat /\ p + n <= Len(text)
      /\ At(arrived, lineBuf, Search!TokenEnd - 1) = p + n /\ Search!TokenEnd \in Nat
  BY <1>1, <1>2 DEF NextToken, At
<1>4. LineCap \in Nat \ {0}
  BY DEF Search!GrepAssumption
<1>5. CASE n = 0
  BY <1>3, <1>4, <1>5
<1>6. CASE n > 0
  <2>1. Plain(text, p + 1, p + n)
    BY <1>2, <1>3 DEF NextToken
  <2>2. p + 1 \in 1..Len(text) /\ p + n \in 1..Len(text) /\ p + 1 <= p + n
    BY <1>1, <1>3, <1>6
  <2>3. (p + n) - (p + 1) + 1 < LineCap
    BY <1>1, <2>1, <2>2 DEF SearchTypes, LinesFit
  <2> QED
    BY <1>3, <1>4, <2>3
<1> QED
  BY <1>3, <1>5, <1>6

\* Where the scanner is after its next token.
Beyond == IF Search!TokenEnd <= Len(lineBuf) THEN Search!TokenEnd ELSE Len(lineBuf)

\* The numbers of a scan: the token is the n bytes after p.
ScanAt(p, n) ==
    /\ Len(text) \in Nat /\ DOMAIN text = 1..Len(text) /\ arrived \in Nat /\ arrived <= Len(text)
    /\ Len(lineBuf) \in Nat /\ Len(lineBuf) <= arrived /\ past \in Nat
    /\ p \in Nat /\ n \in Nat /\ p = At(arrived, lineBuf, past) /\ n = Search!TokenEnd - 1 - past
    /\ past < Len(lineBuf) /\ Beyond \in (past + 1)..Len(lineBuf)
    /\ p + n <= arrived /\ Plain(text, p + 1, p + n)
    /\ \/ /\ Search!TokenEnd = Len(lineBuf) + 1 /\ Beyond = Len(lineBuf)
          /\ n > 0 /\ p + n = arrived /\ At(arrived, lineBuf, Beyond) = p + n
       \/ /\ Search!TokenEnd \in 1..Len(lineBuf) /\ Beyond = Search!TokenEnd
          /\ p + n < arrived /\ At(arrived, lineBuf, Beyond) = p + n + 1 /\ text[p + n + 1] = "n"
    /\ Search!Token \in Seq(DOMAIN text) /\ Len(Search!Token) = n /\ DOMAIN Search!Token = 1..n
    /\ \A k \in 1..n : Search!Token[k] = p + k

\* The numbers among them.
LEMMA ScanNumbers ==
    ASSUME NEW p \in Nat, NEW n \in Nat, ScanAt(p, n)
    PROVE  /\ Len(text) \in Nat /\ DOMAIN text = 1..Len(text) /\ arrived \in Nat /\ arrived <= Len(text)
           /\ p + n \in Nat /\ p + n <= arrived /\ p + n + 1 \in Nat /\ p <= p + n
           /\ past \in Nat /\ Len(lineBuf) \in Nat /\ Beyond \in (past + 1)..Len(lineBuf)
           /\ At(arrived, lineBuf, Len(lineBuf)) = arrived
           /\ \/ Beyond = Len(lineBuf) /\ n > 0 /\ p + n = arrived /\ At(arrived, lineBuf, Beyond) = p + n
              \/ p + n < arrived /\ At(arrived, lineBuf, Beyond) = p + n + 1 /\ text[p + n + 1] = "n"
<1>1. /\ Len(text) \in Nat /\ DOMAIN text = 1..Len(text) /\ arrived \in Nat /\ arrived <= Len(text)
      /\ p + n \in Nat /\ p + n <= arrived /\ p + n + 1 \in Nat /\ p <= p + n /\ Len(lineBuf) \in Nat
  <2>1. /\ Len(text) \in Nat /\ DOMAIN text = 1..Len(text) /\ arrived \in Nat /\ arrived <= Len(text)
        /\ p + n <= arrived /\ Len(lineBuf) \in Nat
    BY Zenon DEF ScanAt
  <2>2. p + n \in Nat /\ p + n + 1 \in Nat /\ p <= p + n
    OBVIOUS
  <2> QED
    BY <2>1, <2>2
<1>2. At(arrived, lineBuf, Len(lineBuf)) = arrived
  BY <1>1 DEF At
<1>3. \/ Beyond = Len(lineBuf) /\ n > 0 /\ p + n = arrived /\ At(arrived, lineBuf, Beyond) = p + n
      \/ p + n < arrived /\ At(arrived, lineBuf, Beyond) = p + n + 1 /\ text[p + n + 1] = "n"
  BY Zenon DEF ScanAt
<1>4. past \in Nat /\ Len(lineBuf) \in Nat /\ Beyond \in (past + 1)..Len(lineBuf)
  BY Zenon DEF ScanAt
<1> QED
  BY <1>1, <1>2, <1>3, <1>4

LEMMA ScanFacts ==
    ASSUME SearchTypes, Buffered, past < Len(lineBuf)
    PROVE  \E p, n \in Nat : ScanAt(p, n)
<1> DEFINE p == At(arrived, lineBuf, past)
           n == Search!TokenEnd - 1 - past
<1>1. /\ Len(text) \in Nat /\ DOMAIN text = 1..Len(text) /\ arrived \in Nat /\ past \in Nat
      /\ Len(lineBuf) \in Nat /\ Len(lineBuf) <= arrived /\ arrived <= Len(text)
  <2>1. Len(text) \in Nat /\ DOMAIN text = 1..Len(text)
    BY OutputFacts DEF SearchTypes
  <2> QED
    BY <2>1 DEF SearchTypes, Buffered, Window
<1>2. NextToken
  BY TokenFacts
<1>3. Search!TokenEnd \in (past + 1)..(Len(lineBuf) + 1)
  BY <1>2 DEF NextToken
<1>4. /\ p \in Nat /\ n \in Nat /\ p + n <= arrived
      /\ At(arrived, lineBuf, Search!TokenEnd - 1) = p + n
      /\ At(arrived, lineBuf, Search!TokenEnd) = p + n + 1
      /\ At(arrived, lineBuf, Len(lineBuf)) = arrived
  BY <1>1, <1>3 DEF At
<1>5. CASE Search!TokenEnd = Len(lineBuf) + 1
  <2>1. Beyond = Len(lineBuf) /\ n > 0 /\ p + n = arrived
    BY <1>1, <1>5 DEF Beyond, At
  <2>2. Plain(text, p + 1, p + n)
    BY <1>2, <1>4 DEF NextToken
  <2>3. /\ Search!Token \in Seq(DOMAIN text) /\ Len(Search!Token) = n /\ DOMAIN Search!Token = 1..n
        /\ \A k \in 1..n : Search!Token[k] = p + k
    BY <1>2 DEF NextToken
  <2>4. Beyond \in (past + 1)..Len(lineBuf) /\ At(arrived, lineBuf, Beyond) = p + n
    BY <1>1, <1>4, <2>1
  <2> HIDE DEF p, n
  <2>5. ScanAt(p, n)
    BY <1>1, <1>4, <1>5, <2>1, <2>2, <2>3, <2>4 DEF ScanAt, p, n
  <2> QED
    BY <1>4, <2>5
<1>6. CASE Search!TokenEnd \in 1..Len(lineBuf)
  <2>1. Beyond = Search!TokenEnd /\ p + n < arrived
    BY <1>1, <1>3, <1>6 DEF Beyond, At
  <2>2. text[p + n + 1] = "n"
    BY <1>2, <1>4, <1>6 DEF NextToken
  <2>3. /\ Search!Token \in Seq(DOMAIN text) /\ Len(Search!Token) = n /\ DOMAIN Search!Token = 1..n
        /\ (\A k \in 1..n : Search!Token[k] = p + k) /\ Plain(text, p + 1, p + n)
    BY <1>2, <1>4, Zenon DEF NextToken
  <2>4. Beyond \in (past + 1)..Len(lineBuf) /\ At(arrived, lineBuf, Beyond) = p + n + 1
    BY <1>3, <1>4, <1>6, <2>1
  <2> HIDE DEF p, n
  <2>5. ScanAt(p, n)
    BY <1>1, <1>4, <1>6, <2>1, <2>2, <2>3, <2>4 DEF ScanAt, p, n
  <2> QED
    BY <1>4, <2>5
<1> QED
  BY <1>1, <1>3, <1>5, <1>6

\* The token among them.
LEMMA ScanToken ==
    ASSUME NEW p \in Nat, NEW n \in Nat, ScanAt(p, n)
    PROVE  /\ Search!Token \in Seq(DOMAIN text) /\ Len(Search!Token) = n /\ DOMAIN Search!Token = 1..n
           /\ \A k \in 1..n : Search!Token[k] = p + k
           /\ Search!Token # <<>> <=> n > 0
<1>1. /\ Search!Token \in Seq(DOMAIN text) /\ Len(Search!Token) = n /\ DOMAIN Search!Token = 1..n
      /\ \A k \in 1..n : Search!Token[k] = p + k
  BY Zenon DEF ScanAt
<1> QED
  BY <1>1

\* A token is a line of rg's if it begins and ends as one.
LEMMA JsonLine ==
    ASSUME NEW p \in Nat, NEW n \in Nat, ScanAt(p, n)
    PROVE  /\ Search!IsJson(Search!Token) <=> n > 0 /\ LineStart(text, p + 1) /\ LineEnd(text, p + n)
           /\ n > 0 => Search!Token[1] = p + 1
<1>1. n > 0 => Search!Token[1] = p + 1 /\ Search!Token[n] = p + n
  BY ScanToken
<1>2. Search!Token # <<>> <=> n > 0
  BY ScanToken
<1>3. \A k \in 1..n : n > 0 => Search!Token[k] = Search!Token[1] + k - 1
  BY <1>1, ScanToken
<1>4. DOMAIN Search!Token = 1..n /\ Len(Search!Token) = n
  BY ScanToken
<1> QED
  BY <1>1, <1>2, <1>3, <1>4 DEF Search!IsJson, Search!BeginsLine, Search!EndsLine, LineStart, LineEnd

\* What the scanner is at: nothing is left, or a line begins.
Moved(b) ==
    /\ Beyond = Len(lineBuf) => Unfinished(text, b, arrived)
    /\ Beyond < Len(lineBuf) => b = <<>> /\ LineStart(text, At(arrived, lineBuf, Beyond) + 1)

\* A whole line adds itself to what is found, if it is a match.
LEMMA WholeScanned ==
    ASSUME SearchTypes, NEW p \in Nat, NEW n \in Nat, ScanAt(p, n), Search!IsJson(Search!Token)
    PROVE  /\ Matches(text, At(arrived, lineBuf, Beyond)) = Matches(text, p) \cup {r \in {p + 1} : text[r] = "m"}
           /\ Moved(<<>>) /\ p + 1 \in DOMAIN text /\ Search!Token[1] = p + 1
<1>1. n > 0 /\ LineStart(text, p + 1) /\ LineEnd(text, p + n) /\ Search!Token[1] = p + 1
  BY JsonLine
<1>2. WholeLine(text, p, p + n)
  <2>1. p < p + n /\ p + n <= Len(text)
    BY <1>1, ScanNumbers
  <2>2. Plain(text, p + 1, p + n)
    BY DEF ScanAt
  <2> QED
    BY <1>1, <2>1, <2>2 DEF WholeLine
<1>3. Matches(text, p + n) = Matches(text, p) \cup {r \in {p + 1} : text[r] = "m"}
  BY <1>2, LineFound, ScanNumbers
<1>4. text[p + n + 1] = "n" /\ p + n + 1 \in 1..Len(text)
  BY <1>1, ScanNumbers DEF LineEnd
<1>5. ~LineEnd(text, p + n + 1)
  <2>1. SUFFICES ASSUME p + n + 1 < Len(text), text[(p + n + 1) + 1] = "n" PROVE FALSE
    BY DEF LineEnd
  <2>2. (p + n + 1) + 1 \in 1..Len(text) /\ (p + n + 1) + 1 > 1 /\ ((p + n + 1) + 1) - 1 = p + n + 1
    BY <2>1, ScanNumbers
  <2> QED
    BY <1>4, <2>1, <2>2, OutputFacts DEF SearchTypes
<1>6. Matches(text, p + n + 1) = Matches(text, p + n)
  <2>1. \A q \in ((p + n) + 1)..(p + n + 1) : q = p + n + 1
    OBVIOUS
  <2>2. \A q \in ((p + n) + 1)..(p + n + 1) : ~LineEnd(text, q)
    BY <1>5, <2>1, Zenon
  <2>3. /\ p + n \in Nat /\ p + n + 1 \in Nat /\ p + n <= p + n + 1
        /\ Len(text) \in Nat /\ DOMAIN text = 1..Len(text)
    BY ScanNumbers
  <2> QED
    BY <2>2, <2>3, NothingFound, Zenon
<1>7. Matches(text, At(arrived, lineBuf, Beyond)) = Matches(text, p + n)
  BY <1>6, ScanNumbers
<1>8. Moved(<<>>)
  <2>1. ASSUME Beyond = Len(lineBuf) PROVE arrived > 0 /\ (text[arrived] = "n" \/ LineEnd(text, arrived))
    <3>1. CASE p + n = arrived
      BY <1>1, <3>1 DEF ScanAt
    <3>2. CASE At(arrived, lineBuf, Beyond) = p + n + 1
      <4>1. arrived = p + n + 1
        BY <2>1, <3>2, ScanNumbers
      <4> QED
        BY <1>4, <4>1, ScanNumbers
    <3> QED
      BY <3>1, <3>2, ScanNumbers
  <2>2. ASSUME Beyond < Len(lineBuf) PROVE LineStart(text, At(arrived, lineBuf, Beyond) + 1)
    <3>1. At(arrived, lineBuf, Beyond) = p + n + 1
      BY <2>2 DEF ScanAt
    <3>2. ((p + n + 1) + 1) - 1 = p + n + 1
      BY DEF ScanAt
    <3> QED
      BY <1>4, <3>1, <3>2 DEF LineStart
  <2>3. Beyond = Len(lineBuf) => Unfinished(text, <<>>, arrived)
    BY <2>1 DEF Unfinished, Window, Plain, ScanAt
  <2> QED
    BY <2>2, <2>3 DEF Moved
<1> QED
  <2>1. p + 1 \in DOMAIN text
    BY <1>1, ScanNumbers
  <2> QED
    BY <1>1, <1>3, <1>7, <1>8, <2>1

\* What is not a whole line finds nothing; it is empty, or the last of the buffer.
LEMMA PartScanned ==
    ASSUME SearchTypes, NEW p \in Nat, NEW n \in Nat, ScanAt(p, n), ~Search!IsJson(Search!Token),
           LineStart(text, p + 1) \/ text[p + 1] = "n"
    PROVE  Matches(text, At(arrived, lineBuf, Beyond)) = Matches(text, p) /\ Moved(Search!Token)
<1>1. CASE n = 0
  <2>1. At(arrived, lineBuf, Beyond) = p + 1 /\ text[p + 1] = "n" /\ p + 1 <= arrived
    BY <1>1, ScanNumbers
  <2>2. ~LineEnd(text, p + 1)
    <3>1. SUFFICES ASSUME p + 1 < Len(text), text[(p + 1) + 1] = "n" PROVE FALSE
      BY DEF LineEnd
    <3>2. (p + 1) + 1 \in 1..Len(text) /\ (p + 1) + 1 > 1 /\ ((p + 1) + 1) - 1 = p + 1
      BY <3>1, ScanNumbers
    <3> QED
      BY <2>1, <3>1, <3>2, OutputFacts DEF SearchTypes
  <2>3. Matches(text, p + 1) = Matches(text, p)
    <3>1. \A q \in (p + 1)..(p + 1) : q = p + 1
      OBVIOUS
    <3>2. p + 1 \in Nat /\ p <= p + 1
      OBVIOUS
    <3> QED
      BY <2>2, <3>1, <3>2, NothingFound, ScanNumbers
  <2>4. Search!Token = <<>>
    BY <1>1, ScanToken
  <2>5. ASSUME Beyond = Len(lineBuf) PROVE Unfinished(text, <<>>, arrived)
    <3>1. arrived = p + 1
      BY <2>1, <2>5 DEF ScanAt, At
    <3>2. Len(<<>>) = 0 /\ arrived \in Nat /\ \A q \in (arrived - 0 + 1)..arrived : FALSE
      BY ScanNumbers
    <3>3. Window(<<>>, arrived) /\ Plain(text, arrived - Len(<<>>) + 1, arrived)
      BY <3>2 DEF Window, Plain
    <3> QED
      BY <2>1, <3>1, <3>3 DEF Unfinished
  <2>6. LineStart(text, (p + 1) + 1)
    <3>1. ((p + 1) + 1) - 1 = p + 1
      OBVIOUS
    <3> QED
      BY <2>1, <3>1 DEF LineStart
  <2> QED
    BY <2>1, <2>3, <2>4, <2>5, <2>6 DEF Moved
<1>2. CASE n > 0
  <2>1. text[p + 1] # "n"
    <3>1. p + 1 \in (p + 1)..(p + n)
      BY <1>2
    <3> QED
      BY <3>1 DEF ScanAt, Plain
  <2>2. LineStart(text, p + 1) /\ ~LineEnd(text, p + n)
    BY <1>2, <2>1, JsonLine DEF ScanAt
  <2>3. p + n = arrived /\ Beyond = Len(lineBuf) /\ At(arrived, lineBuf, Beyond) = p + n
    BY <2>2 DEF ScanAt, LineEnd
  <2>4. \A q \in (p + 1)..(p + n) : ~LineEnd(text, q)
    <3> SUFFICES ASSUME NEW q \in (p + 1)..(p + n), LineEnd(text, q) PROVE FALSE
      OBVIOUS
    <3>1. q # p + n
      BY <2>2
    <3>2. q + 1 \in (p + 1)..(p + n)
      BY <3>1
    <3> QED
      BY <3>2 DEF ScanAt, Plain, LineEnd
  <2>5. Matches(text, p + n) = Matches(text, p)
    BY <2>4, NothingFound, ScanNumbers
  <2>6. Unfinished(text, Search!Token, arrived)
    <3>1. /\ Len(Search!Token) = n /\ n <= arrived /\ arrived - n + 1 = p + 1 /\ DOMAIN Search!Token = 1..n
          /\ Search!Token # <<>>
      BY <1>2, <2>3, ScanToken
    <3>2. Window(Search!Token, arrived)
      BY <2>3, <3>1, ScanToken DEF Window
    <3>3. Plain(text, arrived - Len(Search!Token) + 1, arrived)
      <4>1. Plain(text, p + 1, p + n)
        BY Zenon DEF ScanAt
      <4> QED
        BY <2>3, <3>1, <4>1
    <3> QED
      BY <2>2, <2>3, <3>1, <3>2, <3>3 DEF Unfinished
  <2>7. Matches(text, At(arrived, lineBuf, Beyond)) = Matches(text, p)
    BY <2>3, <2>5
  <2>8. Beyond = Len(lineBuf) /\ ~(Beyond < Len(lineBuf))
    <3>1. Len(lineBuf) \in Nat
      BY Zenon DEF ScanAt
    <3> QED
      BY <2>3, <3>1
  <2> QED
    BY <2>6, <2>7, <2>8, Zenon DEF Moved
<1> QED
  BY <1>1, <1>2

-----------------------------------------------------------------------------
(* The steps *)

LEMMA SearchScans ==
    ASSUME SearchInv, Search!Scan
    PROVE  /\ phase = "scan" /\ past < Len(lineBuf) /\ past' = Beyond
           /\ Beyond \in 0..Len(lineBuf)
           /\ \E p, n \in Nat : ScanAt(p, n)
<1>1. phase = "scan" /\ past < Len(lineBuf) /\ past' = Search!Min({Search!TokenEnd, Len(lineBuf)})
  BY DEF Search!Scan, Search!HasToken
<1>2. PICK p \in Nat, n \in Nat : ScanAt(p, n)
  BY <1>1, ScanFacts DEF SearchInv
<1>3. Search!TokenEnd \in Nat /\ Len(lineBuf) \in Nat
  <2>1. /\ Len(lineBuf) \in Nat
        /\ Search!TokenEnd = Len(lineBuf) + 1 \/ Search!TokenEnd \in 1..Len(lineBuf)
    BY <1>2, Zenon DEF ScanAt
  <2> QED
    BY <2>1
<1>4. past' = Get!Min({Search!TokenEnd, Len(lineBuf)})
  BY <1>1 DEF Search!Min, Get!Min
<1>5. past' = Beyond
  BY <1>3, <1>4, Smaller DEF Beyond
<1>6. Beyond \in 0..Len(lineBuf)
  <2>1. past \in Nat /\ Len(lineBuf) \in Nat /\ Beyond \in (past + 1)..Len(lineBuf)
    BY <1>2, ScanNumbers
  <2> QED
    BY <2>1
<1> QED
  BY <1>1, <1>2, <1>5, <1>6

\* A token that is not a line of rg's is kept.
LEMMA SearchKeeps == ASSUME SearchInv, Search!Keep PROVE SearchInv'
<1>1. /\ ~Search!IsJson(Search!Token) /\ complete' = complete \o Search!Token
      /\ UNCHANGED <<text, cap, phase, arrived, lineBuf, printed>>
  BY DEF Search!Keep
<1>2. phase = "scan" /\ past < Len(lineBuf) /\ past' = Beyond /\ Beyond \in 0..Len(lineBuf)
  BY SearchScans DEF Search!Keep
<1>3. PICK p \in Nat, n \in Nat : ScanAt(p, n)
  BY SearchScans DEF Search!Keep
<1>4. p = At(arrived, lineBuf, past) /\ Search!Token \in Seq(DOMAIN text)
  BY <1>3 DEF ScanAt
<1>5. complete = <<>> /\ (LineStart(text, p + 1) \/ text[p + 1] = "n")
  BY <1>2, <1>4 DEF SearchInv, Parsing
<1>6. complete' = Search!Token
  BY <1>1, <1>4, <1>5
<1>7. Matches(text, At(arrived, lineBuf, Beyond)) = Matches(text, p) /\ Moved(Search!Token)
  BY <1>1, <1>3, <1>5, PartScanned DEF SearchInv
<1>8. SearchTypes'
  BY <1>1, <1>2, <1>4, <1>6 DEF SearchInv, SearchTypes
<1>9. Buffered'
  BY <1>1, <1>2 DEF SearchInv, Buffered
<1>10. Parsing'
  BY <1>1, <1>2, <1>6, <1>7 DEF Parsing, Moved
<1>11. Printing' /\ Printed'
  BY <1>1, <1>2, <1>4, <1>7 DEF SearchInv, Printing, Printed
<1> QED
  BY <1>8, <1>9, <1>10, <1>11 DEF SearchInv

\* A line that is no match finds nothing.
LEMMA SearchSkips == ASSUME SearchInv, Search!Skip PROVE SearchInv'
<1>1. /\ Search!IsJson(Search!Token) /\ text[Search!Token[1]] # "m"
      /\ UNCHANGED <<text, cap, phase, arrived, lineBuf, complete, printed>>
  BY DEF Search!Skip, Search!IsMatch
<1>2. phase = "scan" /\ past < Len(lineBuf) /\ past' = Beyond /\ Beyond \in 0..Len(lineBuf)
  BY SearchScans DEF Search!Skip
<1>3. PICK p \in Nat, n \in Nat : ScanAt(p, n)
  BY SearchScans DEF Search!Skip
<1>4. p = At(arrived, lineBuf, past)
  BY <1>3 DEF ScanAt
<1>5. complete = <<>>
  BY <1>2 DEF SearchInv, Parsing
<1>6. /\ Matches(text, At(arrived, lineBuf, Beyond)) = Matches(text, p) \cup {r \in {p + 1} : text[r] = "m"}
      /\ Moved(<<>>) /\ Search!Token[1] = p + 1
  BY <1>1, <1>3, WholeScanned DEF SearchInv
<1>7. Matches(text, At(arrived, lineBuf, Beyond)) = Matches(text, p)
  BY <1>1, <1>6
<1>8. SearchTypes'
  BY <1>1, <1>2 DEF SearchInv, SearchTypes
<1>9. Buffered'
  BY <1>1, <1>2 DEF SearchInv, Buffered
<1>10. Parsing'
  BY <1>1, <1>2, <1>5, <1>6 DEF Parsing, Moved
<1>11. Printing' /\ Printed'
  BY <1>1, <1>2, <1>4, <1>7 DEF SearchInv, Printing, Printed
<1> QED
  BY <1>8, <1>9, <1>10, <1>11 DEF SearchInv

\* A match becomes the last of the list.
LEMMA MatchFound ==
    ASSUME SearchInv, phase = "scan", past < Len(lineBuf), NEW p \in Nat, NEW n \in Nat, ScanAt(p, n),
           Search!IsMatch(Search!Token)
    PROVE  /\ Lists(Append(printed, Search!Token[1]), Matches(text, At(arrived, lineBuf, Beyond)))
           /\ Append(printed, Search!Token[1]) \in Seq(DOMAIN text)
           /\ Len(Append(printed, Search!Token[1])) = Len(printed) + 1 /\ Len(printed) \in Nat
           /\ Search!Token[1] = p + 1 /\ p + 1 \in Matches(text, At(arrived, lineBuf, Beyond))
           /\ \A r \in Matches(text, p) : r < p + 1
           /\ Moved(<<>>)
<1>1. /\ Matches(text, At(arrived, lineBuf, Beyond)) = Matches(text, p) \cup {r \in {p + 1} : text[r] = "m"}
      /\ Moved(<<>>) /\ p + 1 \in DOMAIN text /\ Search!Token[1] = p + 1
  BY WholeScanned DEF SearchInv, Search!IsMatch
<1>2. text[p + 1] = "m"
  BY <1>1 DEF Search!IsMatch
<1>3. Matches(text, At(arrived, lineBuf, Beyond)) = Matches(text, p) \cup {p + 1}
  BY <1>1, <1>2
<1>4. Len(text) \in Nat /\ DOMAIN text = 1..Len(text)
  BY ScanNumbers
<1>5. \A r \in Matches(text, p) : r \in 1..Len(text) /\ r < p + 1
  BY <1>4, MatchesBelow
<1>6. Lists(printed, Matches(text, p))
  BY DEF SearchInv, Printing, ScanAt
<1>7. printed \in Seq(1..Len(text))
  BY <1>4 DEF SearchInv, SearchTypes
<1>8. Lists(Append(printed, p + 1), Matches(text, p) \cup {p + 1})
  BY <1>1, <1>4, <1>5, <1>6, <1>7, ListGrown
<1>9. /\ Append(printed, p + 1) \in Seq(1..Len(text))
      /\ Len(Append(printed, p + 1)) = Len(printed) + 1 /\ Len(printed) \in Nat
  BY <1>1, <1>4, <1>7, Appended
<1> QED
  BY <1>1, <1>3, <1>4, <1>5, <1>8, <1>9

LEMMA PrintMatchInv == ASSUME SearchInv, Search!PrintMatch PROVE SearchInv'
<1>1. /\ Search!IsMatch(Search!Token) /\ ~Search!Last /\ printed' = Append(printed, Search!Token[1])
      /\ UNCHANGED <<text, cap, phase, arrived, lineBuf, complete>>
  BY DEF Search!PrintMatch
<1>2. phase = "scan" /\ past < Len(lineBuf) /\ past' = Beyond /\ Beyond \in 0..Len(lineBuf)
  BY SearchScans DEF Search!PrintMatch
<1>3. PICK p \in Nat, n \in Nat : ScanAt(p, n)
  BY SearchScans DEF Search!PrintMatch
<1>4. complete = <<>>
  BY <1>2 DEF SearchInv, Parsing
<1>5. /\ Lists(printed', Matches(text, At(arrived, lineBuf, Beyond))) /\ printed' \in Seq(DOMAIN text)
      /\ Len(printed') = Len(printed) + 1 /\ Len(printed) \in Nat /\ Moved(<<>>)
  BY <1>1, <1>2, <1>3, MatchFound
<1>6. cap > 0 => Len(printed') < cap
  BY <1>1, <1>5 DEF SearchInv, SearchTypes, Search!Last
<1>7. SearchTypes'
  BY <1>1, <1>2, <1>5 DEF SearchInv, SearchTypes
<1>8. Buffered'
  BY <1>1, <1>2 DEF SearchInv, Buffered
<1>9. Parsing'
  BY <1>1, <1>2, <1>4, <1>5 DEF Parsing, Moved
<1>10. Printing' /\ Printed'
  BY <1>1, <1>2, <1>5, <1>6 DEF SearchInv, Printing, Printed
<1> QED
  BY <1>7, <1>8, <1>9, <1>10 DEF SearchInv

\* The match that reaches the cap is the last that is printed.
LEMMA PrintLastInv == ASSUME SearchInv, Search!PrintLast PROVE SearchInv'
<1>1. /\ phase = "scan" /\ past < Len(lineBuf) /\ Search!IsMatch(Search!Token) /\ Search!Last
      /\ printed' = Append(printed, Search!Token[1]) /\ lineBuf' = <<>> /\ past' = 0 /\ complete' = <<>>
      /\ phase' = "ok" /\ UNCHANGED <<text, cap, arrived>>
  BY DEF Search!PrintLast, Search!HasToken
<1>2. PICK p \in Nat, n \in Nat : ScanAt(p, n)
  BY <1>1, ScanFacts DEF SearchInv
<1> DEFINE q == At(arrived, lineBuf, Beyond)
<1>3. /\ Lists(printed', Matches(text, q)) /\ printed' \in Seq(DOMAIN text)
      /\ Len(printed') = Len(printed) + 1 /\ Len(printed) \in Nat
      /\ p + 1 \in Matches(text, q) /\ \A r \in Matches(text, p) : r < p + 1
  BY <1>1, <1>2, MatchFound
<1>4. /\ Len(text) \in Nat /\ DOMAIN text = 1..Len(text) /\ arrived \in Nat /\ arrived <= Len(text)
      /\ q \in Nat /\ q <= arrived /\ p <= arrived
  BY <1>2, ScanNumbers
<1> HIDE DEF q
<1>5. cap > 0 /\ Len(printed') = cap
  <2>1. cap \in Nat /\ cap > 0 /\ Len(printed) + 1 >= cap /\ Len(printed) < cap
    BY <1>1 DEF SearchInv, SearchTypes, Search!Last, Printing
  <2> QED
    BY <1>3, <2>1
<1>6. LineStart(text, p + 1) /\ Matches(text, q) = Matches(text, p) \cup {r \in {p + 1} : text[r] = "m"}
  BY <1>1, <1>2, JsonLine, WholeScanned DEF SearchInv, Search!IsMatch, q
<1>7. \A i \in DOMAIN printed' : printed'[i] \in Matches(text, q) /\ printed'[i] <= p + 1
  <2>1. \A r \in Matches(text, q) : r \in 1..Len(text) /\ r <= p + 1
    <3> SUFFICES ASSUME NEW r \in Matches(text, q) PROVE r \in 1..Len(text) /\ r <= p + 1
      OBVIOUS
    <3>1. r \in 1..Len(text)
      BY <1>4, MatchesBelow
    <3>2. r \in Matches(text, p) \/ r = p + 1
      BY <1>6
    <3> QED
      BY <1>3, <3>1, <3>2
  <2> QED
    BY <1>3, <2>1 DEF Lists
<1>8. ASSUME NEW x \in Matches(text, arrived), x \notin Matches(text, q) PROVE x > p + 1
  <2>1. x \in 1..Len(text)
    BY <1>4, MatchesBelow
  <2>2. x # p + 1
    BY <1>3, <1>8
  <2>3. CASE x <= p
    <3>1. x \in Matches(text, p)
      BY <1>4, <1>6, <2>3, EarlierLine
    <3> QED
      BY <1>6, <1>8, <3>1
  <2> QED
    BY <2>1, <2>2, <2>3
<1>9. Firsts(printed', Matches(text, arrived), cap)
  <2>1. Rising(printed')
    BY <1>3 DEF Lists
  <2>2. \A i \in DOMAIN printed' : printed'[i] \in Matches(text, arrived)
    BY <1>4, <1>7, MatchesGrow
  <2>3. cap > 0 => Len(printed') <= cap
    BY <1>5 DEF SearchInv, SearchTypes
  <2>4. ASSUME NEW x \in Matches(text, arrived), ~\E i \in DOMAIN printed' : printed'[i] = x
        PROVE  \A i \in DOMAIN printed' : printed'[i] < x
    <3>1. x \notin Matches(text, q)
      BY <1>3, <2>4 DEF Lists
    <3>2. x > p + 1 /\ x \in 1..Len(text)
      BY <1>4, <1>8, <3>1, MatchesBelow
    <3>3. SUFFICES ASSUME NEW i \in DOMAIN printed' PROVE printed'[i] < x
      OBVIOUS
    <3>4. printed'[i] \in 1..Len(text) /\ printed'[i] <= p + 1
      BY <1>4, <1>7, MatchesBelow
    <3> QED
      BY <3>2, <3>4
  <2> QED
    BY <1>5, <2>1, <2>2, <2>3, <2>4 DEF Firsts
<1>10. SearchTypes'
  BY <1>1, <1>3 DEF SearchInv, SearchTypes
<1>11. Buffered' /\ Parsing' /\ Printing'
  BY <1>1, <1>4 DEF Buffered, Parsing, Printing, Window
<1>12. Printed'
  BY <1>1, <1>9 DEF Printed
<1> QED
  BY <1>10, <1>11, <1>12 DEF SearchInv

\* At the end of the buffer what was kept is the part of a line.
LEMMA SearchEndsInv == ASSUME SearchInv, Search!GrepAssumption, Search!ScanEnds PROVE SearchInv'
<1>1. /\ phase = "scan" /\ ~Search!HasToken /\ phase' = "read"
      /\ lineBuf' = complete /\ past' = 0 /\ complete' = <<>>
      /\ UNCHANGED <<text, cap, arrived, printed>>
  BY DEF Search!ScanEnds
<1>2. past \in 0..Len(lineBuf) /\ Len(lineBuf) \in Nat /\ Len(lineBuf) <= arrived /\ arrived \in Nat
  BY DEF SearchInv, SearchTypes, Buffered, Window
<1>3. past = Len(lineBuf)
  <2>1. ~(past < Len(lineBuf))
    BY <1>1, NeverTooLong DEF SearchInv, Search!HasToken
  <2> QED
    BY <1>2, <2>1
<1>4. Unfinished(text, complete, arrived) /\ At(arrived, lineBuf, past) = arrived
  BY <1>1, <1>2, <1>3 DEF SearchInv, Parsing, At
<1>5. SearchTypes'
  BY <1>1 DEF SearchInv, SearchTypes
<1>6. Buffered'
  BY <1>1, <1>4 DEF Buffered, Unfinished
<1>7. Parsing' /\ Printed'
  BY <1>1 DEF Parsing, Printed
<1>8. Printing'
  BY <1>1, <1>4 DEF SearchInv, Printing
<1> QED
  BY <1>5, <1>6, <1>7, <1>8 DEF SearchInv

\* The elements of two sequences, one after the other.
LEMMA Joined ==
    ASSUME NEW S, NEW q \in Seq(S), NEW r \in Seq(S)
    PROVE  /\ q \o r \in Seq(S) /\ Len(q \o r) = Len(q) + Len(r)
           /\ \A i \in 1..Len(q) : (q \o r)[i] = q[i]
           /\ \A i \in (Len(q) + 1)..(Len(q) + Len(r)) : (q \o r)[i] = r[i - Len(q)]
OBVIOUS

\* A chunk begins where the buffer ends.
LEMMA ChunkInv ==
    ASSUME SearchInv, NEW n \in (arrived + 1)..Len(text), Search!TakeChunk(n)
    PROVE  SearchInv'
<1> DEFINE chunk == [k \in 1..(n - arrived) |-> arrived + k]
           base == arrived - Len(lineBuf)
<1>1. /\ phase = "read" /\ phase' = "scan" /\ arrived' = n /\ lineBuf' = lineBuf \o chunk
      /\ UNCHANGED <<text, cap, past, complete, printed>>
  BY DEF Search!TakeChunk
<1>2. /\ Len(text) \in Nat /\ DOMAIN text = 1..Len(text) /\ arrived \in Nat /\ lineBuf \in Seq(1..Len(text))
      /\ Len(lineBuf) \in Nat /\ past = 0 /\ complete = <<>> /\ n \in Nat
  <2>1. Len(text) \in Nat /\ DOMAIN text = 1..Len(text)
    BY OutputFacts DEF SearchInv, SearchTypes
  <2> QED
    BY <1>1, <2>1 DEF SearchInv, SearchTypes, Buffered
<1>3. Unfinished(text, lineBuf, arrived) /\ Len(lineBuf) <= arrived
      /\ \A i \in 1..Len(lineBuf) : lineBuf[i] = base + i
  BY <1>1, <1>2 DEF SearchInv, Buffered, Window
<1>4. /\ chunk \in Seq(1..Len(text)) /\ Len(chunk) = n - arrived
      /\ \A k \in 1..(n - arrived) : chunk[k] = arrived + k
  <2>1. \A k \in 1..(n - arrived) : arrived + k \in 1..Len(text)
    BY <1>2
  <2>2. n - arrived \in Nat
    BY <1>2
  <2> QED
    BY <2>1, <2>2
<1> HIDE DEF chunk
<1>5. /\ lineBuf' \in Seq(1..Len(text)) /\ Len(lineBuf') = Len(lineBuf) + (n - arrived)
      /\ \A i \in 1..Len(lineBuf) : lineBuf'[i] = lineBuf[i]
      /\ \A i \in (Len(lineBuf) + 1)..(Len(lineBuf) + (n - arrived)) : lineBuf'[i] = chunk[i - Len(lineBuf)]
  <2>1. lineBuf \o chunk = lineBuf'
    BY <1>1
  <2>2. chunk \in Seq(1..Len(text)) /\ Len(chunk) = n - arrived
    BY <1>4
  <2> QED
    <3>1. /\ lineBuf \o chunk \in Seq(1..Len(text)) /\ Len(lineBuf \o chunk) = Len(lineBuf) + Len(chunk)
          /\ \A i \in 1..Len(lineBuf) : (lineBuf \o chunk)[i] = lineBuf[i]
          /\ \A i \in (Len(lineBuf) + 1)..(Len(lineBuf) + Len(chunk)) :
               (lineBuf \o chunk)[i] = chunk[i - Len(lineBuf)]
      BY <1>2, <2>2, Joined, Zenon
    <3> QED
      BY <2>1, <2>2, <3>1, Zenon
<1>6. base \in Nat /\ n - Len(lineBuf') = base /\ Len(lineBuf') <= n /\ Len(lineBuf') > 0 /\ Len(lineBuf') \in Nat
  BY <1>2, <1>3, <1>5
<1>7. ASSUME NEW i \in 1..Len(lineBuf') PROVE lineBuf'[i] = base + i
  <2>1. CASE i \in 1..Len(lineBuf)
    BY <1>3, <1>5, <2>1
  <2>2. CASE i \in (Len(lineBuf) + 1)..(Len(lineBuf) + (n - arrived))
    <3>1. i - Len(lineBuf) \in 1..(n - arrived)
      BY <1>2, <2>2
    <3>2. lineBuf'[i] = arrived + (i - Len(lineBuf))
      BY <1>4, <1>5, <2>2, <3>1
    <3> QED
      BY <1>2, <2>2, <3>2
  <2> QED
    BY <1>2, <1>5, <2>1, <2>2
<1>8. Window(lineBuf', n)
  <2>1. DOMAIN lineBuf' = 1..Len(lineBuf')
    BY <1>5
  <2> QED
    BY <1>6, <1>7, <2>1 DEF Window
<1>9. At(n, lineBuf', 0) = base
  BY <1>6 DEF At
<1>10. LineStart(text, base + 1) \/ text[base + 1] = "n"
  <2>1. CASE lineBuf = <<>>
    <3>1. base = arrived /\ (arrived > 0 => text[arrived] = "n" \/ LineEnd(text, arrived))
      BY <1>2, <1>3, <2>1 DEF Unfinished
    <3> QED
      BY <1>2, <3>1 DEF LineStart, LineEnd
  <2>2. CASE lineBuf # <<>>
    BY <1>3, <2>2 DEF Unfinished
  <2> QED
    BY <2>1, <2>2
<1>11. Matches(text, arrived) = Matches(text, base)
  <2>1. ASSUME NEW q \in (base + 1)..arrived, LineEnd(text, q) PROVE FALSE
    <3>1. lineBuf # <<>>
      BY <1>2, <1>3
    <3>2. ~LineEnd(text, arrived) /\ Plain(text, base + 1, arrived)
      BY <1>3, <3>1 DEF Unfinished
    <3>3. q + 1 \in (base + 1)..arrived
      <4>1. q # arrived
        BY <2>1, <3>2, Zenon
      <4>2. base \in Nat /\ arrived \in Nat
        BY <1>2, <1>6
      <4> QED
        BY <4>1, <4>2
    <3> QED
      BY <2>1, <3>2, <3>3 DEF Plain, LineEnd
  <2>2. base <= arrived
    BY <1>2
  <2> QED
    BY <1>2, <1>6, <2>1, <2>2, NothingFound
<1> HIDE DEF base
<1>12. SearchTypes'
  <2>1. n \in 0..Len(text) /\ 0 \in 0..Len(lineBuf')
    BY <1>2, <1>6
  <2> QED
    BY <1>1, <1>2, <1>5, <2>1 DEF SearchInv, SearchTypes
<1>13. Buffered' /\ Printed'
  BY <1>1, <1>8 DEF Buffered, Printed
<1>14. Parsing'
  <2>1. 0 < Len(lineBuf') /\ 0 # Len(lineBuf')
    BY <1>6
  <2> QED
    BY <1>1, <1>2, <1>9, <1>10, <2>1 DEF Parsing
<1>15. Printing'
  BY <1>1, <1>2, <1>9, <1>11 DEF SearchInv, Printing
<1> QED
  BY <1>12, <1>13, <1>14, <1>15 DEF SearchInv

\* A list of all is a list of the first.
LEMMA AllAreFirst ==
    ASSUME NEW s, NEW S, NEW c, Lists(s, S), c > 0 => Len(s) <= c
    PROVE  Firsts(s, S, c)
BY DEF Lists, Firsts

\* Grep returns, or does not yet; the rest stays.
LEMMA OtherInv ==
    ASSUME SearchInv, Search!SendRequest \/ Search!TakeStderr \/ Search!TakeResult \/ Search!TakeError
    PROVE  SearchInv'
<1>1. /\ phase \in {"send", "read"} /\ (phase = "send" => phase' \in {"read", "error"})
      /\ (phase = "read" => phase' \in {"read", "ok", "error"})
      /\ UNCHANGED <<text, cap, arrived, lineBuf, past, complete, printed>>
  BY DEF Search!SendRequest, Search!TakeStderr, Search!TakeResult, Search!TakeError, Search!bufVars, Search!errVars
<1>2. Unfinished(text, lineBuf, arrived) /\ Lists(printed, Matches(text, arrived)) /\ (cap > 0 => Len(printed) < cap)
  BY <1>1 DEF SearchInv, Buffered, Printing
<1>3. phase' \in {"read", "ok", "error"}
  BY <1>1
<1>4. Firsts(printed, Matches(text, arrived), cap)
  <2>1. cap \in Nat /\ Len(printed) \in Nat
    BY DEF SearchInv, SearchTypes
  <2>2. cap > 0 => Len(printed) <= cap
    BY <1>2, <2>1
  <2> QED
    BY <1>2, <2>2, AllAreFirst
<1>5. SearchTypes'
  BY <1>1, <1>3 DEF SearchInv, SearchTypes
<1>6. Buffered'
  BY <1>1, <1>2, <1>3 DEF SearchInv, Buffered
<1>7. Parsing' /\ Printing' /\ Printed'
  BY <1>1, <1>2, <1>3, <1>4 DEF Parsing, Printing, Printed
<1> QED
  BY <1>5, <1>6, <1>7 DEF SearchInv

\* The other commands leave the search alone.
LEMMA SearchStays == ASSUME SearchInv, SearchFlags, UNCHANGED grepVars PROVE SearchInv' /\ SearchFlags'
BY DEF grepVars, SearchInv, SearchFlags, SearchTypes, Buffered, Parsing, Printing, Printed

\* Every step of a search keeps the invariant.
LEMMA SearchNext ==
    ASSUME SearchInv, SearchFlags, Search!GrepAssumption, Search!Next
    PROVE  SearchInv' /\ SearchFlags'
<1>1. SearchInv'
  <2>1. ASSUME Search!TakeStdout PROVE SearchInv'
    <3>1. PICK n \in (arrived + 1)..Len(text) : Search!TakeChunk(n)
      BY <2>1 DEF Search!TakeStdout
    <3> QED
      BY <3>1, ChunkInv
  <2>2. ASSUME Search!Parse PROVE SearchInv'
    BY <2>2, SearchKeeps, SearchSkips, PrintMatchInv, PrintLastInv, SearchEndsInv, Zenon DEF Search!Parse
  <2> QED
    BY <2>1, <2>2, OtherInv, Zenon DEF Search!Next
<1>2. SearchFlags'
  <2>1. rgErr' \in {0, 1}
    BY DEF SearchFlags, Search!Next, Search!Parse, Search!SendRequest, Search!TakeStdout, Search!TakeChunk,
       Search!TakeStderr, Search!TakeResult, Search!TakeError, Search!Keep, Search!Skip, Search!PrintMatch,
       Search!PrintLast, Search!ScanEnds, Search!errVars
  <2>2. warned' \in BOOLEAN
    BY DEF SearchFlags, Search!Next, Search!Parse, Search!SendRequest, Search!TakeStdout, Search!TakeChunk,
       Search!TakeStderr, Search!TakeResult, Search!TakeError, Search!Keep, Search!Skip, Search!PrintMatch,
       Search!PrintLast, Search!ScanEnds, Search!errVars
  <2> QED
    BY <2>1, <2>2 DEF SearchFlags
<1> QED
  BY <1>1, <1>2

\* A search begins with nothing.
LEMMA SearchInit ==
    ASSUME NEW texts, NEW caps, Search!StartsWith(texts, caps),
           \A t \in texts : Search!IsOutput(t) /\ LinesFit(t), caps \subseteq Nat
    PROVE  SearchInv /\ SearchFlags
<1>1. /\ Search!IsOutput(text) /\ LinesFit(text) /\ cap \in Nat
      /\ phase = "send" /\ arrived = 0 /\ lineBuf = <<>> /\ past = 0 /\ complete = <<>>
      /\ printed = <<>> /\ rgErr = 0 /\ warned = FALSE
  BY DEF Search!StartsWith
<1>2. Len(text) \in Nat /\ DOMAIN text = 1..Len(text)
  BY <1>1, OutputFacts
<1>3. Len(<<>>) = 0 /\ DOMAIN <<>> = 1..0
  OBVIOUS
<1>4. SearchTypes
  <2>1. 0 \in 0..Len(text) /\ 0 \in 0..Len(<<>>) /\ <<>> \in Seq(DOMAIN text)
    BY <1>2
  <2> QED
    BY <1>1, <2>1 DEF SearchTypes
<1>5. Matches(text, 0) = {}
  <2> SUFFICES ASSUME NEW r \in Matches(text, 0) PROVE FALSE
    OBVIOUS
  <2>1. r \in 1..Len(text) /\ r <= 0
    BY <1>2, MatchesBelow
  <2> QED
    BY <2>1
<1>6. Buffered
  BY <1>1, <1>3 DEF Buffered, Unfinished, Window, Plain
<1>7. Parsing /\ Printed
  BY <1>1 DEF Parsing, Printed
<1>8. Printing
  <2>1. Lists(<<>>, {})
    BY <1>3 DEF Lists, Rising
  <2> QED
    BY <1>1, <1>3, <1>5, <2>1 DEF Printing
<1> QED
  BY <1>1, <1>4, <1>6, <1>7, <1>8 DEF SearchInv, SearchFlags

\* What the invariant promises.
LEMMA SearchPromises == ASSUME SearchInv, SearchFlags PROVE Search!GrepExact /\ Search!TypeOK
<1>1. Len(text) \in Nat /\ DOMAIN text = 1..Len(text) /\ arrived \in Nat
  <2>1. Len(text) \in Nat /\ DOMAIN text = 1..Len(text)
    BY OutputFacts DEF SearchInv, SearchTypes
  <2> QED
    BY <2>1 DEF SearchInv, SearchTypes
<1>2. Search!Found(arrived) = Matches(text, arrived)
  BY DEF Search!Found, Search!BeginsLine, Search!EndsLine, Matches, LineStart, LineEnd
<1>3. ASSUME phase = "scan" PROVE Search!GrepExact
  <2>1. Lists(printed, Matches(text, At(arrived, lineBuf, past)))
    BY <1>3 DEF SearchInv, Printing
  <2>2. At(arrived, lineBuf, past) \in Nat /\ At(arrived, lineBuf, past) <= arrived
    BY <1>1 DEF SearchInv, SearchTypes, Buffered, Window, At
  <2>3. Matches(text, At(arrived, lineBuf, past)) \subseteq Matches(text, arrived)
    BY <1>1, <2>2, MatchesGrow
  <2>4. cap > 0 => Len(printed) <= cap
    BY <1>3 DEF SearchInv, SearchTypes, Printing
  <2>5. \A i \in DOMAIN printed : printed[i] \in Search!Found(arrived)
    BY <1>2, <2>1, <2>3, Zenon DEF Lists
  <2>6. \A i, j \in DOMAIN printed : i < j => printed[i] < printed[j]
    BY <2>1, Zenon DEF Lists, Rising
  <2> QED
    BY <1>3, <2>4, <2>5, <2>6, Zenon DEF Search!GrepExact
<1>4. ASSUME phase # "scan" PROVE Search!GrepExact
  <2>1. Firsts(printed, Matches(text, arrived), cap)
    <3>1. CASE phase = "ok" \/ phase = "error"
      BY <3>1 DEF SearchInv, Printed
    <3>2. CASE phase = "send" \/ phase = "read"
      <4>1. Lists(printed, Matches(text, arrived)) /\ (cap > 0 => Len(printed) < cap)
        BY <3>2 DEF SearchInv, Printing
      <4>2. cap \in Nat /\ Len(printed) \in Nat
        BY DEF SearchInv, SearchTypes
      <4>3. cap > 0 => Len(printed) <= cap
        BY <4>1, <4>2
      <4> QED
        BY <4>1, <4>3, AllAreFirst
    <3> QED
      BY <1>4, <3>1, <3>2 DEF SearchInv, SearchTypes
  <2>2. \A i \in DOMAIN printed : printed[i] \in Search!Found(arrived)
    BY <1>2, <2>1, Zenon DEF Firsts
  <2>3. \A i, j \in DOMAIN printed : i < j => printed[i] < printed[j]
    BY <2>1, Zenon DEF Firsts, Rising
  <2>4. cap > 0 => Len(printed) <= cap
    BY <2>1, Zenon DEF Firsts
  <2>5. \A p \in Search!Found(arrived) : ~Search!Shows(p) =>
          cap > 0 /\ Len(printed) = cap /\ \A i \in DOMAIN printed : printed[i] < p
    BY <1>2, <2>1, Zenon DEF Firsts, Search!Shows
  <2> QED
    BY <2>2, <2>3, <2>4, <2>5, Zenon DEF Search!GrepExact
<1>5. phase = "read" => \A i \in DOMAIN lineBuf : lineBuf[i] = arrived - Len(lineBuf) + i /\ text[lineBuf[i]] # "n"
  <2> SUFFICES ASSUME phase = "read", NEW i \in DOMAIN lineBuf
               PROVE  lineBuf[i] = arrived - Len(lineBuf) + i /\ text[lineBuf[i]] # "n"
    OBVIOUS
  <2>1. lineBuf[i] = arrived - Len(lineBuf) + i /\ Plain(text, arrived - Len(lineBuf) + 1, arrived)
    BY DEF SearchInv, Buffered, Unfinished, Window
  <2>2. i \in 1..Len(lineBuf) /\ Len(lineBuf) \in Nat
    BY DEF SearchInv, SearchTypes
  <2>3. lineBuf[i] \in (arrived - Len(lineBuf) + 1)..arrived
    BY <1>1, <2>1, <2>2
  <2> QED
    BY <2>1, <2>3 DEF Plain
<1>6. Search!TypeOK
  BY <1>5 DEF SearchInv, SearchTypes, SearchFlags, Search!TypeOK
<1> QED
  BY <1>3, <1>4, <1>6

\* A search is in order in every run, wherever its chunks end, if every line of rg's
\* is shorter than the buffer of the scanner.
THEOREM SearchInvariant ==
    ASSUME \A t \in Texts : LinesFit(t)
    PROVE  RsbSpec => [](SearchInv /\ SearchFlags)
<1>1. Search!GrepAssumption
  BY RsbAssumption
<1>2. RsbInit => SearchInv /\ SearchFlags
  <2> SUFFICES ASSUME RsbInit PROVE SearchInv /\ SearchFlags
    OBVIOUS
  <2> DEFINE texts == Given("grep", Texts, <<>>)
             caps == Given("grep", Caps, 0)
  <2>1. Search!StartsWith(texts, caps)
    BY DEF RsbInit
  <2>2. Search!IsOutput(<<>>) /\ LinesFit(<<>>)
    BY DEF Search!IsOutput, LinesFit
  <2>3. \A t \in texts : Search!IsOutput(t) /\ LinesFit(t)
    BY <1>1, <2>2, Zenon DEF Given, Search!GrepAssumption
  <2>4. 0 \in Nat /\ Caps \subseteq Nat
    BY <1>1 DEF Search!GrepAssumption
  <2>5. caps \subseteq Nat
    BY <2>4, Zenon DEF Given
  <2> HIDE DEF texts, caps
  <2> QED
    BY <2>1, <2>3, <2>5, SearchInit
<1>3. SearchInv /\ SearchFlags /\ [RsbNext]_rsbVars => (SearchInv /\ SearchFlags)'
  <2> SUFFICES ASSUME SearchInv, SearchFlags, [RsbNext]_rsbVars PROVE (SearchInv /\ SearchFlags)'
    OBVIOUS
  <2>1. Search!Next \/ UNCHANGED grepVars
    BY Zenon DEF RsbNext, rsbVars
  <2> QED
    BY <1>1, <2>1, SearchNext, SearchStays
<1> QED
  BY <1>2, <1>3, PTL DEF RsbSpec, rsbVars

\* The matches printed are those that arrived whole, each once and in order, up to
\* the cap, wherever the chunks end, under the same assumption (a longer line ends
\* the scan, parseRgJSON does not look at the scanner's error).
THEOREM MatchesExact ==
    ASSUME \A t \in Texts : LinesFit(t)
    PROVE  RsbSpec => []GrepExact
<1>1. SearchInv /\ SearchFlags => GrepExact
  BY SearchPromises DEF GrepExact
<1> QED
  BY <1>1, SearchInvariant, PTL

\* Every variable of every command has its type, and what rsb grep keeps between two
\* chunks is less than a line, under the same assumption.
THEOREM RsbTypes ==
    ASSUME \A t \in Texts : LinesFit(t)
    PROVE  RsbSpec => []RsbTypeOK
<1>1. TypeOK /\ GetInv /\ GetFlags /\ GetBounds /\ SearchInv /\ SearchFlags /\ TalkInv /\ TalkFlags => RsbTypeOK
  BY GetTypeOK, SearchPromises, TalkInStep DEF RsbTypeOK
<1> QED
  BY <1>1, RunsExec, ClientTypes, DownloadInvariant, SearchInvariant, TalkInvariant, PTL
=============================================================================
