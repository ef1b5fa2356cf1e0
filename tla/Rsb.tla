--------------------------------- MODULE Rsb ----------------------------------
(***************************************************************************)
(* One run of the rsb command (main in cmd/rsb/main.go): rsb exec, which is *)
(* ClientExec, rsb cat and a download by rsb cp (FileGet), rsb grep (Grep)  *)
(* or rsb repl (Repl).  The command line says which; the others' variables  *)
(* stay as they were.                                                       *)
(***************************************************************************)
EXTENDS ClientExec

CONSTANTS
    Requests, MaxLen, ChunkSize, MaxLine, WireCap, Faults,  \* FileGet's
    Texts, Caps, LineCap,           \* Grep's
    Scripts, ReplOuts               \* Repl's

VARIABLES
    cmd,        \* "exec", "get", "grep" or "repl"
    req, file, was, reader, seen, eof, pos, lineNo, sent, truncated, wire, got, hashed, res, outcome,    \* FileGet's
    text, cap, phase, arrived, lineBuf, past, complete, printed, rgErr, warned,     \* Grep's
    script, line, stage, status, session, container, asked, greeting, link, replies, answered,
    display, readFailed     \* Repl's

getVars  == <<req, file, was, reader, seen, eof, pos, lineNo, sent, truncated, wire, got, hashed, res, outcome>>
grepVars == <<text, cap, phase, arrived, lineBuf, past, complete, printed, rgErr, warned>>
replVars == <<script, line, stage, status, session, container, asked, greeting, link, replies, answered,
              display, readFailed>>

Get    == INSTANCE FileGet WITH at <- reader
Search == INSTANCE Grep
Talk   == INSTANCE Repl

ASSUME RsbAssumption == Get!FileGetAssumption /\ Search!GrepAssumption /\ Talk!ReplAssumption

Commands == {"exec", "get", "grep", "repl"}

\* What a command may be given, and one value for those that do not run.
Given(c, inputs, none) == IF cmd = c THEN inputs ELSE {none}

RsbInit ==
    /\ cmd \in Commands
    /\ Init /\ (cmd # "exec" => ~lively)
    /\ Get!StartsWith(Given("get", Requests, [start |-> 0, end |-> 0, max |-> 0]), Given("get", Get!Files, <<>>))
    /\ Search!StartsWith(Given("grep", Texts, <<>>), Given("grep", Caps, 0))
    /\ Talk!StartsWith(Given("repl", Scripts, <<>>), Given("repl", {"hello", "error"}, "hello"))

RsbNext ==
    \/ cmd = "exec" /\ Next /\ UNCHANGED <<cmd, getVars, grepVars, replVars>>
    \/ cmd = "get"  /\ Get!Next /\ UNCHANGED <<cmd, vars, grepVars, replVars>>
    \/ cmd = "grep" /\ Search!Next /\ UNCHANGED <<cmd, vars, getVars, replVars>>
    \/ cmd = "repl" /\ Talk!Next /\ UNCHANGED <<cmd, vars, getVars, grepVars>>

RsbSpec == RsbInit /\ [][RsbNext]_<<cmd, vars, getVars, grepVars, replVars>>

\* Fairness is ClientExec's and FileGet's, for the command that runs.
RsbFairSpec ==
    /\ RsbSpec
    /\ WF_vars(cmd = "exec" /\ Exec) /\ WF_vars(cmd = "exec" /\ ReaderDelivers)
    /\ WF_vars(cmd = "exec" /\ Pump) /\ WF_vars(cmd = "exec" /\ Tick) /\ WF_vars(cmd = "exec" /\ DaemonRead)
    /\ WF_getVars(cmd = "get" /\ Get!Agent) /\ WF_getVars(cmd = "get" /\ Get!Client)

-----------------------------------------------------------------------------
(* Properties *)

\* The type invariants of the four.
RsbTypeOK == TypeOK /\ (cmd = "get" => Get!TypeOK) /\ Search!TypeOK /\ Talk!TypeOK

\* What the agent sends of a file is what was asked for (FileGet).
SliceIsExact == Get!SliceIsExact

\* A download that reports success is whole (FileGet).
OkIsWhole == Get!OkIsWhole

\* The matches printed are those that arrived (Grep).
GrepExact == Search!GrepExact

\* Each command of a repl gets its own answer (Repl).
ReplInStep == Talk!ReplInStep

\* rsb exec comes back although the path goes silent, and so does every download
\* whose path does not (ClientExec, FileGet).
CommandEnds == Returns /\ Get!Returns

\* Deviations of the code from its documents, see the modules: OkIsStored,
\* TruncatedMeansMore, NoHalfFile and SilenceEnds of FileGet, OkIsAll of Grep, RefusalIsShown
\* of Repl.
OkIsStored == Get!OkIsStored
TruncatedMeansMore == Get!TruncatedMeansMore
NoHalfFile == Get!NoHalfFile
SilenceEnds == Get!SilenceEnds
OkIsAll == Search!OkIsAll
RefusalIsShown == Talk!RefusalIsShown
=============================================================================
