------------------------------ MODULE ClientExec ------------------------------
(***************************************************************************)
(* One `rsb exec` (internal/client/client.go, cmdExec in cmd/rsb): a loop   *)
(* that selects between the next frame and the inactivity timer, a          *)
(* goroutine that reads one frame at a time, one that pumps local stdin,    *)
(* and the exit status at the end.  The daemon, the program behind it and   *)
(* the writer of the local stdin are environment.                           *)
(***************************************************************************)
EXTENDS Naturals, Sequences

CONSTANTS
    UseStdin,       \* --stdin
    NumIn,          \* reads the local stdin holds
    StdinEnds,      \* whether the local stdin ever ends
    NumOut,         \* Output frames the daemon may send
    SockCap,        \* frames the socket holds in each direction
    Deadline,       \* clientTimeout, in ticks
    DaemonReads     \* whether the daemon keeps reading from the client

ASSUME ClientExecAssumption ==
    /\ {UseStdin, StdinEnds, DaemonReads} \subseteq BOOLEAN
    /\ {NumIn, NumOut} \subseteq Nat
    /\ {SockCap, Deadline} \subseteq Nat \ {0}

\* The frames that answer a request, with the exit status cmdExec ends with.
Results == {"zero", "code", "timeout", "signal"}
Terminals == Results \cup {"error"}

VARIABLES
    at,         \* Exec: "handshake", "request", "select", "leaving", "exited"
    why,        \* what made Exec return: a terminal, "eof", "silence" or "none"
    quiet,      \* ticks since resetTimer
    frameCh,    \* the frame (or "eof") the reader goroutine delivered
    reading,    \* a reader goroutine is in ReadFrame
    shown,      \* Output frames written to stdout and stderr
    pump,       \* the stdin goroutine: "off", "read", "write", "end", "done"
    left,       \* reads the local stdin still holds
    up, down,   \* the socket, towards and from the daemon
    peer,       \* the daemon holds its end open
    path,       \* its connection to the host is alive
    lively,     \* the program never lets a deadline pass without a frame
    told,       \* what the daemon sent: [out, end]
    gap         \* ticks since it sent a frame

clientVars == <<at, why, quiet, frameCh, reading, shown>>
pumpVars   == <<pump, left>>
daemonVars == <<peer, path, lively, told, gap>>
vars == <<clientVars, pumpVars, up, down, daemonVars>>

Init ==
    /\ at = "handshake" /\ why = "none" /\ quiet = 0
    /\ frameCh = <<>> /\ reading = FALSE /\ shown = 0
    /\ pump = "off" /\ left = NumIn
    /\ up = <<>> /\ down = <<>> /\ peer = TRUE
    /\ path = TRUE /\ lively \in BOOLEAN /\ told = [out |-> 0, end |-> "none"] /\ gap = 0

\* clientTimeout's mapping ends in os.Exit: 124 and 137 for what the agent
\* killed, 1 for every error, the client's own timeout included (fatalf).
ExitStatus(w) ==
    CASE w = "zero" -> 0 [] w = "code" -> 42 [] w = "timeout" -> 124 [] w = "signal" -> 137 [] OTHER -> 1

-----------------------------------------------------------------------------
(* Exec *)

\* attach and consumeHandshake: a Hello, or an Error or nothing from the daemon.
Handshake ==
    /\ at = "handshake"
    /\ \/ peer /\ at' = "request" /\ UNCHANGED why
       \/ at' = "exited" /\ why' = "error"
    /\ UNCHANGED <<quiet, frameCh, reading, shown, pumpVars, up, down, daemonVars>>

\* The Request, the pump, the first reader and the timer.
SendRequest ==
    /\ at = "request"
    /\ IF peer
       THEN /\ at' = "select" /\ UNCHANGED why
            /\ up' = Append(up, "request")
            /\ reading' = TRUE
            /\ pump' = IF UseStdin THEN "read" ELSE "done"
       ELSE at' = "exited" /\ why' = "error" /\ UNCHANGED <<up, reading, pump>>
    /\ quiet' = 0
    /\ gap' = 0
    /\ UNCHANGED <<frameCh, shown, left, down, peer, path, lively, told>>

\* Mutants of ReaderDelivers: the goroutine reads on; the end of the connection
\* overtakes what is still buffered.
ReaderLoops ==
    /\ at \in {"select", "leaving"} /\ reading
    /\ \/ down # <<>> /\ frameCh' = <<Head(down)>> /\ down' = Tail(down)
       \/ down = <<>> /\ ~peer /\ frameCh' = <<"eof">> /\ UNCHANGED down
    /\ UNCHANGED <<at, why, quiet, reading, shown, pumpVars, up, daemonVars>>

ReaderSeesEofFirst ==
    /\ at \in {"select", "leaving"} /\ reading
    /\ \/ peer /\ down # <<>> /\ frameCh' = <<Head(down)>> /\ down' = Tail(down)
       \/ ~peer /\ frameCh' = <<"eof">> /\ UNCHANGED down
    /\ reading' = FALSE
    /\ UNCHANGED <<at, why, quiet, shown, pumpVars, up, daemonVars>>

\* The reader goroutine delivers one frame and ends.
ReaderDelivers ==
    /\ at \in {"select", "leaving"} /\ reading
    /\ \/ down # <<>> /\ frameCh' = <<Head(down)>> /\ down' = Tail(down)
       \/ down = <<>> /\ ~peer /\ frameCh' = <<"eof">> /\ UNCHANGED down
    /\ reading' = FALSE
    /\ UNCHANGED <<at, why, quiet, shown, pumpVars, up, daemonVars>>

\* Mutant of ShowOutput: the timer runs on.
ShowOutputUntimed ==
    /\ at = "select" /\ frameCh = <<"output">>
    /\ shown' = shown + 1
    /\ frameCh' = <<>>
    /\ reading' = TRUE
    /\ UNCHANGED <<at, why, quiet, pumpVars, up, down, daemonVars>>

\* An Output frame resets the timer and starts the next reader.
ShowOutput ==
    /\ at = "select" /\ frameCh = <<"output">>
    /\ shown' = shown + 1
    /\ frameCh' = <<>>
    /\ reading' = TRUE
    /\ quiet' = 0
    /\ UNCHANGED <<at, why, pumpVars, up, down, daemonVars>>

Return(w) == at' = "leaving" /\ why' = w

\* A Result, an Error, or the end of the connection.
TakeTerminal ==
    /\ at = "select" /\ frameCh \in {<<t>> : t \in Terminals \cup {"eof"}}
    /\ Return(Head(frameCh))
    /\ frameCh' = <<>>
    /\ UNCHANGED <<quiet, reading, shown, pumpVars, up, down, daemonVars>>

\* The timer; select takes it even when a frame is there too.
Silence ==
    /\ at = "select" /\ quiet = Deadline
    /\ Return("silence")
    /\ UNCHANGED <<quiet, frameCh, reading, shown, pumpVars, up, down, daemonVars>>

\* The deferred `<-done` waits for the pump before the connection is closed.
Leave ==
    /\ at = "leaving" /\ pump = "done"
    /\ at' = "exited"
    /\ UNCHANGED <<why, quiet, frameCh, reading, shown, pumpVars, up, down, daemonVars>>

-----------------------------------------------------------------------------
(* pumpStdin *)

PumpRead ==
    /\ pump = "read"
    /\ \/ left > 0 /\ pump' = "write" /\ left' = left - 1
       \/ left = 0 /\ StdinEnds /\ pump' = "end" /\ UNCHANGED left
    /\ UNCHANGED <<clientVars, up, down, daemonVars>>

\* A write waits for room; its error is not looked at.
Writes(f) ==
    IF peer THEN Len(up) < SockCap /\ up' = Append(up, f) ELSE UNCHANGED up

PumpWrite ==
    /\ pump = "write"
    /\ pump' = "read"
    /\ Writes("stdin")
    /\ UNCHANGED <<clientVars, left, down, daemonVars>>

\* Mutant of PumpEnd: nobody is told that the pump is done.
PumpEndSilent ==
    /\ pump = "end"
    /\ pump' = "off"
    /\ Writes("end_stdin")
    /\ UNCHANGED <<clientVars, left, down, daemonVars>>

PumpEnd ==
    /\ pump = "end"
    /\ pump' = "done"
    /\ Writes("end_stdin")
    /\ UNCHANGED <<clientVars, left, down, daemonVars>>

-----------------------------------------------------------------------------
(* The daemon and time *)

DaemonRead ==
    /\ DaemonReads /\ peer /\ up # <<>>
    /\ up' = Tail(up)
    /\ UNCHANGED <<clientVars, pumpVars, down, daemonVars>>

DaemonSends(f) ==
    /\ peer /\ path /\ at \in {"select", "leaving"} /\ told.end = "none"
    /\ Len(down) < SockCap
    /\ down' = Append(down, f)
    /\ gap' = 0
    /\ UNCHANGED <<clientVars, pumpVars, up, peer, path, lively>>

DaemonOutput ==
    /\ told.out < NumOut
    /\ DaemonSends("output")
    /\ told' = [told EXCEPT !.out = @ + 1]

DaemonAnswer == \E t \in Terminals :
    /\ DaemonSends(t)
    /\ told' = [told EXCEPT !.end = t]

\* The daemon dies or drops the client.
DaemonCloses ==
    /\ peer
    /\ peer' = FALSE
    /\ UNCHANGED <<clientVars, pumpVars, up, down, path, lively, told, gap>>

\* The network to the host goes silent, and nobody notices.
PathDies ==
    /\ ~lively /\ path
    /\ path' = FALSE
    /\ UNCHANGED <<clientVars, pumpVars, up, down, peer, lively, told, gap>>

\* A lively program has its next frame out within the deadline, and the client
\* handles a frame in less than a tick.
Tick ==
    /\ at = "select" /\ quiet < Deadline
    /\ lively => gap + 1 < Deadline /\ down = <<>> /\ frameCh = <<>>
    /\ quiet' = quiet + 1
    /\ gap' = IF gap < Deadline THEN gap + 1 ELSE gap
    /\ UNCHANGED <<at, why, frameCh, reading, shown, pumpVars, up, down, peer, path, lively, told>>

-----------------------------------------------------------------------------
Exec == Handshake \/ SendRequest \/ ShowOutput \/ TakeTerminal \/ Silence \/ Leave
Pump == PumpRead \/ PumpWrite \/ PumpEnd
Daemon == DaemonRead \/ DaemonOutput \/ DaemonAnswer \/ DaemonCloses \/ PathDies
Next == Exec \/ ReaderDelivers \/ Pump \/ Daemon \/ Tick

Spec == Init /\ [][Next]_vars

\* Goroutines that can run do, time passes, a daemon that reads goes on reading.
\* Nothing makes the daemon send.
FairSpec ==
    /\ Spec
    /\ WF_vars(Exec) /\ WF_vars(ReaderDelivers) /\ WF_vars(Pump)
    /\ WF_vars(Tick) /\ WF_vars(DaemonRead)

-----------------------------------------------------------------------------
(* Properties *)

\* Every variable has its type, and there is at most one frame between the
\* daemon's socket and the loop: one reader at a time.
TypeOK ==
    /\ at \in {"handshake", "request", "select", "leaving", "exited"}
    /\ why \in Terminals \cup {"none", "eof", "silence"}
    /\ quiet \in 0..Deadline /\ shown \in 0..NumOut /\ left \in 0..NumIn
    /\ {reading, peer, path, lively} \subseteq BOOLEAN /\ gap \in 0..Deadline
    /\ Len(frameCh) <= 1 /\ (reading => frameCh = <<>>)
    /\ pump \in {"off", "read", "write", "end", "done"}
    /\ Len(down) <= SockCap
    /\ told \in [out : 0..NumOut, end : Terminals \cup {"none"}]

\* What the daemon answered is what the command ends with, unless the client
\* timed out, and every Output frame before it is on stdout or stderr by then.  In
\* particular exit status 0 means that the program exited with 0 (README: the exit
\* code of rsb exec is the remote command's).
AnswerIsShown ==
    /\ why \notin {"none", "silence"} /\ told.end # "none" => why = told.end /\ shown = told.out
    /\ at = "exited" /\ ExitStatus(why) = 0 => told.end = "zero" /\ shown = told.out

\* A program that keeps sending frames is never timed out by the client, however
\* long it runs (the comment on clientTimeout).
LivelyIsAwaited == lively => why # "silence"

\* A command whose local stdin ends comes back, whatever the program and the
\* daemon do, as long as the daemon reads or closes its end and the program ends
\* or falls silent.
Returns == (at = "select" /\ ~lively) ~> (at = "exited")

\* The comment in Exec: with no frame within the deadline the path is treated as
\* stuck, and the command fails loudly instead of hanging for ever.
StuckFails == (why = "silence") ~> (at = "exited")

\* The comment in Exec: only a truly stuck path, a dead daemon connection, times
\* out.
OnlyStuckTimesOut == why = "silence" => ~peer \/ ~path
=============================================================================
