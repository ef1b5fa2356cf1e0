------------------------------- MODULE AgentIO -------------------------------
(***************************************************************************)
(* The bytes of one exec in rsb-agent (cmd/rsb-agent/main.go): Stdin frames *)
(* go through a bounded channel and a pump into the program's stdin, the    *)
(* program's two outputs go through pipes and streamers to the wire, and    *)
(* handleExec waits for the program, ends the pump, joins the streamers and *)
(* writes the Result.  Chunks are numbered in the order they were produced. *)
(***************************************************************************)
EXTENDS Naturals, SequencesExt

CONSTANTS
    NumIn,      \* Stdin frames the client sends before EndStdin
    Cap,        \* capacity of rr.stdinCh (16 in newRunningReq)
    NumOut,     \* chunks the program may write on each stream
    PipeCap,    \* chunks an OS pipe holds
    MayFail     \* whether a pipe or Start may fail after the pump was spawned

AgentIOAssumption ==
    /\ NumIn \in Nat /\ NumOut \in Nat
    /\ Cap \in Nat \ {0} /\ PipeCap \in Nat \ {0}
    /\ MayFail \in BOOLEAN

Streams == {"stdout", "stderr"}
None == 0       \* no chunk in hand

VARIABLES
    fed,        \* Stdin frames the read loop has handled
    accepted,   \* (history) the ones it put in stdinCh
    ended,      \* it has handled EndStdin
    registered, \* the request is in the running map
    stdinCh,    \* rr.stdinCh
    eofCh,      \* rr.eofCh is closed
    pump,       \* pumpStdin: [at, eof, chunk]; at is "none" for a request without input
    inPipe,     \* the program's stdin pipe
    inOpen,     \* its write end is open
    proc,       \* the program: "none", "running", "exited"
    got,        \* chunks the program read
    sawEof,     \* the program read end of file
    outPipe,    \* outPipe[s]: the pipe of stream s
    outOpen,    \* the agent's read ends are open
    wrote,      \* wrote[s]: chunks the program wrote
    stream,     \* streamPipe: [at, chunk] per stream
    wire,       \* the frames of this request on the agent's stdout
    handler     \* handleExec

inVars  == <<fed, accepted, ended, registered, stdinCh, eofCh, pump, inPipe, inOpen>>
procVars == <<proc, got, sawEof, wrote>>
outVars == <<outPipe, outOpen, stream>>
vars == <<inVars, procVars, outVars, wire, handler>>

Out(s, n) == [kind |-> "output", stream |-> s, n |-> n]
Terminal(k) == [kind |-> k, stream |-> "none", n |-> None]

Init ==
    /\ fed = 0 /\ accepted = <<>> /\ ended = FALSE /\ registered = TRUE
    /\ stdinCh = <<>> /\ eofCh = FALSE
    /\ pump = [at |-> "off", eof |-> FALSE, chunk |-> None]
    /\ inPipe = <<>> /\ inOpen = TRUE
    /\ proc = "none" /\ got = <<>> /\ sawEof = FALSE
    /\ outPipe = [s \in Streams |-> <<>>] /\ outOpen = TRUE
    /\ wrote = [s \in Streams |-> 0]
    /\ stream = [s \in Streams |-> [at |-> "off", chunk |-> None]]
    /\ wire = <<>>
    /\ handler = "setup"

-----------------------------------------------------------------------------
(* The read loop *)

\* Mutant of FeedStdin: no bound.
FeedStdinUnbounded ==
    /\ fed < NumIn
    /\ fed' = fed + 1
    /\ IF registered
       THEN stdinCh' = Append(stdinCh, fed + 1) /\ accepted' = Append(accepted, fed + 1)
       ELSE UNCHANGED <<stdinCh, accepted>>
    /\ UNCHANGED <<ended, registered, eofCh, pump, inPipe, inOpen, procVars, outVars, wire, handler>>

\* feedStdin never blocks: a frame for a full channel, or for a request that is
\* gone, is dropped.
FeedStdin ==
    /\ fed < NumIn
    /\ fed' = fed + 1
    /\ IF registered /\ Len(stdinCh) < Cap
       THEN stdinCh' = Append(stdinCh, fed + 1) /\ accepted' = Append(accepted, fed + 1)
       ELSE UNCHANGED <<stdinCh, accepted>>
    /\ UNCHANGED <<ended, registered, eofCh, pump, inPipe, inOpen, procVars, outVars, wire, handler>>

\* closeStdin
CloseStdin ==
    /\ fed = NumIn /\ ~ended
    /\ ended' = TRUE
    /\ eofCh' = (eofCh \/ registered)
    /\ UNCHANGED <<fed, accepted, registered, stdinCh, pump, inPipe, inOpen, procVars, outVars, wire, handler>>

-----------------------------------------------------------------------------
(* pumpStdin and drainStdinCh *)

SetPump(at, eof, chunk) == pump' = [at |-> at, eof |-> eof, chunk |-> chunk]

\* A buffered chunk, in the select or in the drain after it.
PumpTake ==
    /\ pump.at = "select"
    /\ stdinCh # <<>>
    /\ SetPump("write", pump.eof, Head(stdinCh))
    /\ stdinCh' = Tail(stdinCh)
    /\ UNCHANGED <<fed, accepted, ended, registered, eofCh, inPipe, inOpen, procVars, outVars, wire, handler>>

\* The select picks the closed eofCh, even with chunks still buffered.
PumpSeesEof ==
    /\ pump.at = "select" /\ ~pump.eof
    /\ eofCh
    /\ SetPump("select", TRUE, None)
    /\ UNCHANGED <<fed, accepted, ended, registered, stdinCh, eofCh, inPipe, inOpen, procVars, outVars, wire, handler>>

\* Mutants of PumpCloses: no drain after EOF; no w.Close.
PumpClosesUndrained ==
    /\ pump.at = "select" /\ pump.eof
    /\ SetPump("done", TRUE, None)
    /\ inOpen' = FALSE
    /\ UNCHANGED <<fed, accepted, ended, registered, stdinCh, eofCh, inPipe, procVars, outVars, wire, handler>>

PumpLeavesOpen ==
    /\ pump.at = "select" /\ pump.eof
    /\ stdinCh = <<>>
    /\ SetPump("done", TRUE, None)
    /\ UNCHANGED <<fed, accepted, ended, registered, stdinCh, eofCh, inPipe, inOpen, procVars, outVars, wire, handler>>

\* The drain found the channel empty: the deferred w.Close.
PumpCloses ==
    /\ pump.at = "select" /\ pump.eof
    /\ stdinCh = <<>>
    /\ SetPump("done", TRUE, None)
    /\ inOpen' = FALSE
    /\ UNCHANGED <<fed, accepted, ended, registered, stdinCh, eofCh, inPipe, procVars, outVars, wire, handler>>

\* A write blocks on a full pipe; to a closed pipe or a program that is gone it
\* fails with an error that isClosedPipeErr lets pass.
PumpWrite ==
    /\ pump.at = "write"
    /\ IF inOpen /\ proc # "exited"
       THEN Len(inPipe) < PipeCap /\ inPipe' = Append(inPipe, pump.chunk)
       ELSE inPipe' = inPipe
    /\ SetPump("select", pump.eof, None)
    /\ UNCHANGED <<fed, accepted, ended, registered, stdinCh, eofCh, inOpen, procVars, outVars, wire, handler>>

-----------------------------------------------------------------------------
(* The program *)

ProcRead ==
    /\ proc = "running" /\ inPipe # <<>>
    /\ got' = Append(got, Head(inPipe))
    /\ inPipe' = Tail(inPipe)
    /\ UNCHANGED <<fed, accepted, ended, registered, stdinCh, eofCh, pump, inOpen, proc, sawEof, wrote, outVars, wire, handler>>

ProcEof ==
    /\ proc = "running" /\ inPipe = <<>> /\ ~inOpen /\ ~sawEof
    /\ sawEof' = TRUE
    /\ UNCHANGED <<inVars, proc, got, wrote, outVars, wire, handler>>

ProcWrite(s) ==
    /\ proc = "running" /\ wrote[s] < NumOut /\ Len(outPipe[s]) < PipeCap
    /\ wrote' = [wrote EXCEPT ![s] = @ + 1]
    /\ outPipe' = [outPipe EXCEPT ![s] = Append(@, wrote[s] + 1)]
    /\ UNCHANGED <<inVars, proc, got, sawEof, outOpen, stream, wire, handler>>

ProcExit ==
    /\ proc = "running"
    /\ proc' = "exited"
    /\ UNCHANGED <<inVars, got, sawEof, wrote, outVars, wire, handler>>

-----------------------------------------------------------------------------
(* streamPipe *)

SetStream(s, at, chunk) == stream' = [stream EXCEPT ![s] = [at |-> at, chunk |-> chunk]]

StreamRead(s) ==
    /\ stream[s].at = "read" /\ outOpen /\ outPipe[s] # <<>>
    /\ SetStream(s, "write", Head(outPipe[s]))
    /\ outPipe' = [outPipe EXCEPT ![s] = Tail(@)]
    /\ UNCHANGED <<inVars, procVars, outOpen, wire, handler>>

StreamWrite(s) ==
    /\ stream[s].at = "write"
    /\ wire' = Append(wire, Out(s, stream[s].chunk))
    /\ SetStream(s, "read", None)
    /\ UNCHANGED <<inVars, procVars, outPipe, outOpen, handler>>

\* End of file, or "file already closed".
StreamEnd(s) ==
    /\ stream[s].at = "read"
    /\ ~outOpen \/ (outPipe[s] = <<>> /\ proc = "exited")
    /\ SetStream(s, "done", None)
    /\ UNCHANGED <<inVars, procVars, outPipe, outOpen, wire, handler>>

-----------------------------------------------------------------------------
(* handleExec *)

SpawnPump ==
    /\ handler = "setup"
    /\ handler' = "pumped"
    /\ SetPump("select", FALSE, None)
    /\ UNCHANGED <<fed, accepted, ended, registered, stdinCh, eofCh, inPipe, inOpen, procVars, outVars, wire>>

\* req.StdinClosed: the program is at the end of its input when it starts.
GiveNoInput ==
    /\ handler = "setup"
    /\ handler' = "pumped"
    /\ SetPump("none", FALSE, None)
    /\ inOpen' = FALSE
    /\ UNCHANGED <<fed, accepted, ended, registered, stdinCh, eofCh, inPipe, procVars, outVars, wire>>

\* A failing StdinPipe answers and returns, before there is a pump.
StdinPipeFails ==
    /\ MayFail
    /\ handler = "setup"
    /\ handler' = "replied"
    /\ wire' = Append(wire, Terminal("error"))
    /\ UNCHANGED <<inVars, procVars, outVars>>

\* So does another failing pipe, or Start, and leaves eofCh alone; only a failing
\* Start closes the pipes.
StartFails ==
    /\ MayFail
    /\ handler = "pumped"
    /\ handler' = "replied"
    /\ wire' = Append(wire, Terminal("error"))
    /\ inOpen' \in {inOpen, FALSE}
    /\ UNCHANGED <<fed, accepted, ended, registered, stdinCh, eofCh, pump, inPipe, procVars, outVars>>

Start ==
    /\ handler = "pumped"
    /\ handler' = "waiting"
    /\ proc' = "running"
    /\ stream' = [s \in Streams |-> [at |-> "read", chunk |-> None]]
    /\ UNCHANGED <<inVars, got, sawEof, wrote, outPipe, outOpen, wire>>

\* cmd.Wait returns once the program is gone, and closes the agent's ends of all
\* three pipes, whatever they still hold.
WaitReturns ==
    /\ handler = "waiting" /\ proc = "exited"
    /\ handler' = "waited"
    /\ outOpen' = FALSE
    /\ inOpen' = FALSE
    /\ UNCHANGED <<fed, accepted, ended, registered, stdinCh, eofCh, pump, inPipe, procVars, outPipe, stream, wire>>

\* Mutant of SignalEOF: the pump is left to the client's EndStdin.
SignalNothing ==
    /\ handler = "waited"
    /\ handler' = "joining"
    /\ UNCHANGED <<inVars, procVars, outVars, wire>>

SignalEOF ==
    /\ handler = "waited"
    /\ handler' = "joining"
    /\ eofCh' = TRUE
    /\ UNCHANGED <<fed, accepted, ended, registered, stdinCh, pump, inPipe, inOpen, procVars, outVars, wire>>

\* Mutant of SendResult: the streamers are not joined.
SendResultUnjoined ==
    /\ handler = "joining"
    /\ handler' = "replied"
    /\ wire' = Append(wire, Terminal("result"))
    /\ UNCHANGED <<inVars, procVars, outVars>>

\* wg.Wait, then the Result.
SendResult ==
    /\ handler = "joining"
    /\ \A s \in Streams : stream[s].at = "done"
    /\ handler' = "replied"
    /\ wire' = Append(wire, Terminal("result"))
    /\ UNCHANGED <<inVars, procVars, outVars>>

UnregisterRunning ==
    /\ handler = "replied"
    /\ handler' = "gone"
    /\ registered' = FALSE
    /\ UNCHANGED <<fed, accepted, ended, stdinCh, eofCh, pump, inPipe, inOpen, procVars, outVars, wire>>

-----------------------------------------------------------------------------
Pump == PumpTake \/ PumpSeesEof \/ PumpCloses \/ PumpWrite
Streamer(s) == StreamRead(s) \/ StreamWrite(s) \/ StreamEnd(s)
Handler ==
    \/ SpawnPump \/ GiveNoInput \/ StdinPipeFails \/ StartFails \/ Start
    \/ WaitReturns \/ SignalEOF \/ SendResult \/ UnregisterRunning

Next ==
    \/ FeedStdin \/ CloseStdin
    \/ Pump \/ Handler
    \/ ProcRead \/ ProcEof \/ ProcExit
    \/ \E s \in Streams : ProcWrite(s) \/ Streamer(s)

Spec == Init /\ [][Next]_vars

\* Every goroutine that can run does; the program reads what there is to read
\* but may write, or exit, whenever it likes.
FairSpec ==
    /\ Spec
    /\ WF_vars(Pump) /\ WF_vars(Handler)
    /\ \A s \in Streams : WF_vars(Streamer(s))
    /\ WF_vars(ProcRead) /\ WF_vars(ProcEof)

-----------------------------------------------------------------------------
(* Properties *)

\* Every variable has its type and no channel or pipe is above its capacity.
TypeOK ==
    /\ fed \in 0..NumIn /\ {ended, registered, eofCh, inOpen, sawEof, outOpen} \subseteq BOOLEAN
    /\ {stdinCh, accepted} \subseteq Seq(1..NumIn) /\ Len(stdinCh) <= Cap
    /\ pump \in [at : {"off", "none", "select", "write", "done"}, eof : BOOLEAN, chunk : 0..NumIn]
    /\ inPipe \in Seq(1..NumIn) /\ Len(inPipe) <= PipeCap
    /\ proc \in {"none", "running", "exited"}
    /\ got \in Seq(1..NumIn)
    /\ wrote \in [Streams -> 0..NumOut]
    /\ outPipe \in [Streams -> Seq(1..NumOut)]
    /\ stream \in [Streams -> [at : {"off", "read", "write", "done"}, chunk : 0..NumOut]]
    /\ handler \in {"setup", "pumped", "waiting", "waited", "joining", "replied", "gone"}

UpTo(n) == [i \in 1..n |-> i]
IsTerminal(f) == f.kind \in {"result", "error"}

\* Output frames of stream s among the first k frames of the wire.
Sent(s, k) == Cardinality({i \in 1..k : wire[i].stream = s})

\* What the client sees of each stream is an initial part of what the program
\* wrote, without a gap: its k-th frame is the k-th chunk; and nothing follows the
\* one terminal frame (the comment before wg.Wait: all Output frames precede the
\* Result).
OutputInOrder ==
    /\ \A i \in DOMAIN wire : ~IsTerminal(wire[i]) => wire[i].n = Sent(wire[i].stream, i)
    /\ \A i \in DOMAIN wire : IsTerminal(wire[i]) => i = Len(wire)

\* The program reads exactly what the channel accepted, in order, and meets end of
\* file only after all of it: the drain after EOF keeps what the select would lose
\* (the comment on pumpStdin), and a full channel turns the new frame away, not an
\* old one.  A request without input reads nothing else than end of file.
StdinFaithful ==
    /\ IsPrefix(got, accepted)
    /\ pump.at = "none" => got = <<>>
    /\ sawEof /\ pump.at # "none" => ended /\ got = accepted

\* A program that reads on is given end of file once the client ended its input, or
\* declared that there is none.
EofReachesProgram ==
    ((ended \/ pump.at = "none") /\ proc = "running") ~> (sawEof \/ proc = "exited")

\* A program that has exited is answered and leaves nobody behind: the streamers end
\* although nobody drains its pipes, and the pump because handleExec calls signalEOF
\* when it finishes (its comment).  When a pipe or Start fails after the pump was
\* spawned, nobody does.
ExitIsAnswered == (proc = "exited") ~> (handler = "gone" /\ pump.at \in {"none", "done"})

\* The comment before wg.Wait: everything the program wrote precedes the Result.
OutputComplete ==
    \A i \in DOMAIN wire : wire[i].kind = "result" => \A s \in Streams : Sent(s, i) = wrote[s]

\* The comment in handleExec: a Stdin frame cannot be lost to a race.  A program
\* that reads to end of file has read every frame.
StdinComplete == sawEof /\ pump.at # "none" => got = UpTo(NumIn)
=============================================================================
