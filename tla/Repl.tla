--------------------------------- MODULE Repl ---------------------------------
(***************************************************************************)
(* rsb repl (internal/client/repl.go): lines of input become requests over  *)
(* one connection, one at a time; replies are read without a look at their  *)
(* id until a Result or an Error.  The daemon answers each request in turn  *)
(* or is lost (HostConn).                                                   *)
(***************************************************************************)
EXTENDS Naturals, Sequences
LOCAL INSTANCE SequencesExt

CONSTANTS
    Scripts,    \* inputs: sequences of Lines
    ReplOuts    \* Output frames of a command

\* What a line of input may be: an argv or a shell line, blank, a bad JSON argv,
\* an unknown command, :session NAME, :session, :container NAME, :container,
\* :quit.
Lines == {"argv", "blank", "bad", "unknown", "session", "session?", "container", "container?", "quit"}

\* What Rsb assumes of the constants.
ReplAssumption == Scripts \subseteq Seq(Lines) /\ ReplOuts \in Nat

VARIABLES
    script,     \* the input
    line,       \* lines of it read
    stage,      \* Repl: "attach", "prompt", "reply", "exited"
    status,     \* what Repl returns
    session, container,     \* the number of the line that set it, 0 before
    asked,      \* the requests sent: [line, session, container]
    greeting,   \* the first frame the daemon sends: "hello" or "error"
    link,       \* whether the daemon is at the other end
    replies,    \* frames on their way: [req, kind]
    answered,   \* requests whose last frame the daemon sent
    display,    \* what was written: [line, req, kind]
    readFailed  \* whether a read failed

replVars == <<line, stage, status, session, container, asked, display, readFailed>>
daemonVars == <<greeting, link, replies, answered>>
vars == <<script, replVars, daemonVars>>

StartsWith(scripts, greetings) ==
    /\ script \in scripts
    /\ line = 0 /\ stage = "attach" /\ status = 0 /\ session = 0 /\ container = 0
    /\ asked = <<>> /\ display = <<>> /\ readFailed = FALSE
    /\ greeting \in greetings
    /\ link = (greeting = "hello") /\ replies = <<>> /\ answered = 0

Init == StartsWith(Scripts, {"hello", "error"})

-----------------------------------------------------------------------------
(* Repl *)

\* dialOrStart, attach, and a first frame that is taken for the Hello.
Attach ==
    /\ stage = "attach"
    /\ \/ stage' = "prompt" /\ UNCHANGED status
       \/ stage' = "exited" /\ status' = 1
    /\ UNCHANGED <<script, line, session, container, asked, display, readFailed, daemonVars>>

Reads(kinds) ==
    /\ stage = "prompt" /\ line < Len(script)
    /\ script[line + 1] \in kinds
    /\ line' = line + 1

EndOfInput ==
    /\ stage = "prompt" /\ line = Len(script)
    /\ stage' = "exited"
    /\ UNCHANGED <<script, line, status, session, container, asked, display, readFailed, daemonVars>>

Quit ==
    /\ Reads({"quit"})
    /\ stage' = "exited"
    /\ UNCHANGED <<script, status, session, container, asked, display, readFailed, daemonVars>>

\* A line that is only complained about, or not even that.  :session without a
\* name keeps the session.
Ignore ==
    /\ Reads({"blank", "bad", "unknown", "session?"})
    /\ UNCHANGED <<script, stage, status, session, container, asked, display, readFailed, daemonVars>>

SetSession ==
    /\ Reads({"session"})
    /\ session' = line'
    /\ UNCHANGED <<script, stage, status, container, asked, display, readFailed, daemonVars>>

\* :container without a name goes back to the host.
SetContainer ==
    /\ Reads({"container", "container?"})
    /\ container' = IF script[line'] = "container" THEN line' ELSE 0
    /\ UNCHANGED <<script, stage, status, session, asked, display, readFailed, daemonVars>>

\* The Request; the write may fail once the daemon is gone, and need not at once.
SendCommand ==
    /\ Reads({"argv"})
    /\ \/ /\ stage' = "reply"
          /\ asked' = Append(asked, [line |-> line', session |-> session, container |-> container])
          /\ UNCHANGED status
       \/ ~link /\ stage' = "exited" /\ status' = 1 /\ UNCHANGED asked
    /\ UNCHANGED <<script, session, container, display, readFailed, daemonVars>>

Show(to) ==
    /\ display' = Append(display, [line |-> line, req |-> Head(replies).req, kind |-> Head(replies).kind])
    /\ replies' = Tail(replies)
    /\ stage' = to
    /\ UNCHANGED <<script, line, status, session, container, asked, readFailed, greeting, link, answered>>

\* Mutant of ShowOutput: a frame that cannot be parsed ends the command.
ShowOutputReturns ==
    /\ stage = "reply" /\ replies # <<>> /\ Head(replies).kind = "output"
    /\ Show("reply") \/ Show("prompt")

ShowOutput ==
    /\ stage = "reply" /\ replies # <<>> /\ Head(replies).kind = "output"
    /\ Show("reply")

\* A Result or an Error ends runOneCommand.
ShowAnswer ==
    /\ stage = "reply" /\ replies # <<>> /\ Head(replies).kind # "output"
    /\ Show("prompt")

\* So does a read error, and the loop goes on.
ReadFails ==
    /\ stage = "reply" /\ replies = <<>> /\ ~link
    /\ stage' = "prompt"
    /\ readFailed' = TRUE
    /\ UNCHANGED <<script, line, status, session, container, asked, display, daemonVars>>

-----------------------------------------------------------------------------
(* The daemon *)

Told(kind) == Len(SelectSeq(replies \o display, LAMBDA f : f.req = answered + 1 /\ f.kind = kind))

Reply(kind) ==
    /\ link /\ answered < Len(asked)
    /\ replies' = Append(replies, [req |-> answered + 1, kind |-> kind])
    /\ UNCHANGED <<script, replVars, greeting, link>>

ReplyOutput == Told("output") < ReplOuts /\ Reply("output") /\ UNCHANGED answered
ReplyAnswer == \E kind \in {"result", "error"} : Reply(kind) /\ answered' = answered + 1

DaemonLost ==
    /\ link
    /\ link' = FALSE
    /\ UNCHANGED <<script, replVars, greeting, replies, answered>>

-----------------------------------------------------------------------------
Loop == EndOfInput \/ Quit \/ Ignore \/ SetSession \/ SetContainer \/ SendCommand
Next ==
    \/ Attach \/ Loop \/ ShowOutput \/ ShowAnswer \/ ReadFails
    \/ ReplyOutput \/ ReplyAnswer \/ DaemonLost

Spec == Init /\ [][Next]_vars

-----------------------------------------------------------------------------
(* Properties *)

\* Every variable has its type, and at most one request is not answered.
TypeOK ==
    /\ line \in 0..Len(script) /\ {session, container} \subseteq 0..line
    /\ stage \in {"attach", "prompt", "reply", "exited"} /\ status \in {0, 1}
    /\ asked \in Seq([line : 1..line, session : 0..line, container : 0..line])
    /\ {link, readFailed} \subseteq BOOLEAN
    /\ replies \in Seq([req : DOMAIN asked, kind : {"output", "result", "error"}])
    /\ answered \in 0..Len(asked) /\ (link => Len(asked) <= answered + 1)

LastOf(kinds, n) ==
    LET is == {i \in 1..n : script[i] \in kinds} IN IF is = {} THEN 0 ELSE CHOOSE i \in is : \A j \in is : j <= i

\* Every command runs in the session and the container that the last lines before
\* it name, and what is shown for a command is its own: its output, then its
\* answer, and nothing after it, so that at the next prompt nothing is left over
\* (the comment on Repl: all commands share one session; on runOneCommand: the
\* frames of the in-flight request, up to the terminal one).
ReplInStep ==
    /\ \A r \in DOMAIN asked : LET q == asked[r] IN
         /\ script[q.line] = "argv"
         /\ q.session = LastOf({"session"}, q.line)
         /\ q.container = LET i == LastOf({"container", "container?"}, q.line) IN
                            IF i > 0 /\ script[i] = "container" THEN i ELSE 0
    /\ \A i \in DOMAIN display : asked[display[i].req].line = display[i].line
    /\ \A i \in DOMAIN display : display[i].kind # "output" =>
         \A j \in (i + 1)..Len(display) : display[j].req > display[i].req
    /\ stage = "prompt" /\ ~readFailed => replies = <<>> /\ answered = Len(asked)

\* A daemon that refuses to attach says why (handshakeError), and the user sees it.
RefusalIsShown == greeting = "error" => stage \in {"attach", "exited"}
=============================================================================
