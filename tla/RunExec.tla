------------------------------- MODULE RunExec --------------------------------
(***************************************************************************)
(* The middle of handleExec (cmd/rsb-agent/main.go), for one request at a   *)
(* time: with a container it asks docker where the program runs (Docker);   *)
(* without one, and likewise once the program of one with a container has   *)
(* been started, it moves the bytes (AgentIO).  A request is followed       *)
(* through one of the two, the other's variables stay as they were.         *)
(***************************************************************************)
EXTENDS Docker

CONSTANTS NumIn, Cap, NumOut, PipeCap, MayFail      \* AgentIO's

VARIABLES
    contained,  \* the request names a container
    fed, accepted, ended, registered, stdinCh, eofCh, pump, inPipe, inOpen, proc, got, sawEof,
    outPipe, outOpen, wrote, stream, wire, handler  \* AgentIO's

ioVars == <<fed, accepted, ended, registered, stdinCh, eofCh, pump, inPipe, inOpen, proc, got, sawEof,
            outPipe, outOpen, wrote, stream, wire, handler>>

IO == INSTANCE AgentIO

ASSUME RunAssumption == IO!AgentIOAssumption

RunInit ==
    /\ contained \in BOOLEAN
    /\ Init /\ (~contained => host = CHOOSE h \in Hosts : TRUE)
    /\ IO!Init

RunNext ==
    \/ contained /\ Next /\ UNCHANGED <<contained, ioVars>>
    \/ ~contained /\ IO!Next /\ UNCHANGED <<contained, vars>>

RunSpec == RunInit /\ [][RunNext]_<<contained, vars, ioVars>>

\* Fairness is Docker's and AgentIO's, for the part that runs.
RunFairSpec ==
    /\ RunSpec
    /\ \A q \in Calls : WF_vars(Advance(q)) /\ (~Hangs => WF_vars(AskDocker(q)))
    /\ WF_ioVars(~contained /\ IO!Pump) /\ WF_ioVars(~contained /\ IO!Handler)
    /\ \A s \in IO!Streams : WF_ioVars(~contained /\ IO!Streamer(s))
    /\ WF_ioVars(~contained /\ IO!ProcRead) /\ WF_ioVars(~contained /\ IO!ProcEof)

-----------------------------------------------------------------------------
(* Properties *)

\* The type invariants of the two.
RunTypeOK == TypeOK /\ IO!TypeOK

\* What the client sees of each stream has no gap, and the Result comes last
\* (AgentIO).
OutputInOrder == IO!OutputInOrder

\* The program reads what the channel accepted, all of it before end of file, or
\* nothing (AgentIO).
StdinFaithful == IO!StdinFaithful

\* A program that reads on meets the end of its input (AgentIO).
EofReachesProgram == IO!EofReachesProgram

\* handleExec comes back: when its program has exited and with nobody left behind
\* (AgentIO), or when the request was cancelled while docker was asked (Docker).
ExecEnds == CancelledEnds /\ IO!ExitIsAnswered

\* Deviation of the code from its comments, see AgentIO.
StdinComplete == IO!StdinComplete
=============================================================================
