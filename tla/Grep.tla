--------------------------------- MODULE Grep ---------------------------------
(***************************************************************************)
(* rsb grep (Session.Grep and parseRgJSON in internal/client/grep.go): the  *)
(* stdout of rg --json on the host arrives in chunks that end anywhere; the *)
(* client scans what it has line by line, prints the matches among the      *)
(* whole ones, and keeps the rest for the next chunk.  Chunks of one        *)
(* request keep their order (HostConn).  What the client holds of rg's      *)
(* output is written as the positions of the bytes there.                   *)
(***************************************************************************)
EXTENDS Integers, Sequences, FiniteSetsExt

CONSTANTS
    Texts,      \* what rg may print
    Caps,       \* values of --max-matches, 0 for none
    LineCap     \* bytes of the scanner's buffer (1 MiB)

Byte == {"m", "c", "n"}     \* the first byte of a match, any other byte, a newline

\* rg prints JSON objects, none of them empty, each with its newline.
IsOutput(t) ==
    /\ t \in Seq(Byte)
    /\ t # <<>> => t[1] # "n" /\ t[Len(t)] = "n"
    /\ \A i \in DOMAIN t : i > 1 /\ t[i] = "n" => t[i - 1] # "n"

\* What Rsb assumes of the constants.
GrepAssumption ==
    /\ \A t \in Texts : IsOutput(t)
    /\ Caps \subseteq Nat /\ LineCap \in Nat \ {0}

VARIABLES
    text,       \* what rg prints in this run
    cap,        \* opts.MaxMatches
    phase,      \* Grep: "send", "read", in parseRgJSON "scan", and what it returned: "ok", "error"
    arrived,    \* bytes of rg's stdout that arrived
    lineBuf,    \* rgLineBuf
    past,       \* bytes of it that the scanner is past
    complete,   \* parseRgJSON's complete: what will be kept
    printed,    \* the lines printed, by the position of their first byte
    rgErr,      \* frames of rg's stderr kept
    warned      \* whether rg's stderr was shown

bufVars == <<lineBuf, past, complete>>
errVars == <<rgErr, warned>>
vars == <<text, cap, phase, arrived, bufVars, printed, errVars>>

StartsWith(texts, caps) ==
    /\ text \in texts /\ cap \in caps
    /\ phase = "send" /\ arrived = 0 /\ lineBuf = <<>> /\ past = 0 /\ complete = <<>>
    /\ printed = <<>> /\ rgErr = 0 /\ warned = FALSE

Init == StartsWith(Texts, Caps)

-----------------------------------------------------------------------------
(* parseRgJSON *)

\* bufio.Scanner: the next newline in the buffer, or what is left at its end; it
\* gives up at a token that fills its own buffer.
Newlines == {i \in (past + 1)..Len(lineBuf) : text[lineBuf[i]] = "n"}
TokenEnd == IF Newlines = {} THEN Len(lineBuf) + 1 ELSE Min(Newlines)
Token == SubSeq(lineBuf, past + 1, TokenEnd - 1)
HasToken == past < Len(lineBuf) /\ Len(Token) < LineCap

\* A token is valid JSON when it is one of rg's lines, and only then.
BeginsLine(p) == p > 1 => text[p - 1] = "n"
EndsLine(p) == p < Len(text) /\ text[p + 1] = "n"
IsJson(t) ==
    /\ t # <<>> /\ BeginsLine(t[1]) /\ EndsLine(t[Len(t)])
    /\ \A k \in DOMAIN t : t[k] = t[1] + k - 1

Scan == phase = "scan" /\ HasToken /\ past' = Min({TokenEnd, Len(lineBuf)})

\* Mutant of Keep: nothing is buffered across calls.
KeepNothing ==
    /\ Scan /\ ~IsJson(Token)
    /\ UNCHANGED <<text, cap, phase, arrived, lineBuf, complete, printed, errVars>>

\* What is not JSON may be a partial line: it is kept, without its newline.
Keep ==
    /\ Scan /\ ~IsJson(Token)
    /\ complete' = complete \o Token
    /\ UNCHANGED <<text, cap, phase, arrived, lineBuf, printed, errVars>>

IsMatch(t) == IsJson(t) /\ text[t[1]] = "m"
Last == cap > 0 /\ Len(printed) + 1 >= cap

\* The beginning or the end of a file, the summary.
Skip ==
    /\ Scan /\ IsJson(Token) /\ ~IsMatch(Token)
    /\ UNCHANGED <<text, cap, phase, arrived, lineBuf, complete, printed, errVars>>

PrintMatch ==
    /\ Scan /\ IsMatch(Token) /\ ~Last
    /\ printed' = Append(printed, Token[1])
    /\ UNCHANGED <<text, cap, phase, arrived, lineBuf, complete, errVars>>

\* At the cap the loop of Grep ends, and the rest of the chunk with it.
PrintLast ==
    /\ phase = "scan" /\ HasToken /\ IsMatch(Token) /\ Last
    /\ printed' = Append(printed, Token[1])
    /\ lineBuf' = <<>> /\ past' = 0 /\ complete' = <<>>
    /\ phase' = "ok"
    /\ UNCHANGED <<text, cap, arrived, errVars>>

ScanEnds ==
    /\ phase = "scan" /\ ~HasToken
    /\ lineBuf' = complete /\ past' = 0 /\ complete' = <<>>
    /\ phase' = "read"
    /\ UNCHANGED <<text, cap, arrived, printed, errVars>>

-----------------------------------------------------------------------------
(* Grep *)

SendRequest ==
    /\ phase = "send"
    /\ phase' \in {"read", "error"}
    /\ UNCHANGED <<text, cap, arrived, bufVars, printed, errVars>>

\* An Output frame of stdout that brings rg's output up to n bytes.
TakeChunk(n) ==
    /\ phase = "read"
    /\ arrived' = n
    /\ lineBuf' = lineBuf \o [k \in 1..(n - arrived) |-> arrived + k]
    /\ phase' = "scan"
    /\ UNCHANGED <<text, cap, past, complete, printed, errVars>>

TakeStdout == \E n \in (arrived + 1)..Len(text) : TakeChunk(n)

\* One frame of stderr is as good as several.
TakeStderr ==
    /\ phase = "read" /\ rgErr = 0
    /\ rgErr' = 1
    /\ UNCHANGED <<text, cap, phase, arrived, bufVars, printed, warned>>

\* The Result, whatever its exit code, time-out or signal says: rg may have been
\* killed.  Its stderr is shown if nothing was found.
TakeResult ==
    /\ phase = "read"
    /\ phase' = "ok"
    /\ warned' = (rgErr > 0 /\ printed = <<>>)
    /\ UNCHANGED <<text, cap, arrived, bufVars, printed, rgErr>>

\* An Error, rg not found among them, or the end of the connection.
TakeError ==
    /\ phase = "read"
    /\ phase' = "error"
    /\ UNCHANGED <<text, cap, arrived, bufVars, printed, errVars>>

Parse == Keep \/ Skip \/ PrintMatch \/ PrintLast \/ ScanEnds
Next == SendRequest \/ TakeStdout \/ TakeStderr \/ TakeResult \/ TakeError \/ Parse

Spec == Init /\ [][Next]_vars

-----------------------------------------------------------------------------
(* Properties *)

\* Every variable has its type, and what is kept from one chunk to the next is the
\* last that arrived, and of one line.
TypeOK ==
    /\ cap \in Nat /\ phase \in {"send", "read", "scan", "ok", "error"}
    /\ arrived \in 0..Len(text)
    /\ lineBuf \in Seq(DOMAIN text) /\ past \in 0..Len(lineBuf) /\ complete \in Seq(DOMAIN text)
    /\ phase = "read" => \A i \in DOMAIN lineBuf : lineBuf[i] = arrived - Len(lineBuf) + i /\ text[lineBuf[i]] # "n"
    /\ printed \in Seq(DOMAIN text) /\ rgErr \in {0, 1} /\ warned \in BOOLEAN

\* The matches among the first n bytes that are whole there, but for the newline.
Found(n) == {p \in DOMAIN text : BeginsLine(p) /\ text[p] = "m" /\ \E q \in p..n : EndsLine(q)}

Shows(p) == \E i \in DOMAIN printed : printed[i] = p

\* The matches printed are the first of those that arrived whole, each once and in
\* rg's order, however its output is cut into chunks, and no more than the cap
\* (the comment on parseRgJSON: a chunk may contain partial lines, so they are
\* buffered across calls).
GrepExact ==
    /\ \A i \in DOMAIN printed : printed[i] \in Found(arrived)
    /\ \A i, j \in DOMAIN printed : i < j => printed[i] < printed[j]
    /\ cap > 0 => Len(printed) <= cap
    /\ phase # "scan" => \A p \in Found(arrived) : ~Shows(p) =>
         cap > 0 /\ Len(printed) = cap /\ \A i \in DOMAIN printed : printed[i] < p

\* A search that reports success below the cap has found everything.
OkIsAll == phase = "ok" /\ Len(printed) # cap => \A p \in DOMAIN text : BeginsLine(p) /\ text[p] = "m" => Shows(p)
=============================================================================
