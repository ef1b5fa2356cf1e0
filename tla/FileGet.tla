------------------------------- MODULE FileGet -------------------------------
(***************************************************************************)
(* Downloads: handleFileGet on the agent (cmd/rsb-agent/files.go) reads a   *)
(* file, or a range of its lines, up to a byte cap; Session.FileGet on the  *)
(* client (internal/client/files.go) writes what arrives and checks its     *)
(* sha256; CP and `rsb cat` decide where it goes.  The file may grow while  *)
(* it is read, as a log does.  The frames between agent and client keep     *)
(* their order (HostConn).                                                  *)
(***************************************************************************)
EXTENDS Integers, Sequences, FiniteSetsExt

CONSTANTS
    Requests,   \* [start, end, max]: LineStart, LineEnd and MaxBytes, 0 for none
    MaxLen,     \* bytes the remote file may grow to
    ChunkSize,  \* bytes of one read
    MaxLine,    \* bytes of the scanner's buffer
    WireCap,    \* frames on their way to the client
    Faults      \* whether reads and writes fail and the agent is lost

\* What Rsb assumes of the constants.
FileGetAssumption ==
    /\ Requests \subseteq [start : Int, end : Int, max : Int]
    /\ MaxLen \in Nat /\ {ChunkSize, MaxLine, WireCap} \subseteq Nat \ {0}
    /\ Faults \in BOOLEAN

Byte == {"c", "r", "n"}     \* a letter, a carriage return, a newline
Untouched == <<"old">>      \* what the local file held before
NoSum == <<"none">>         \* no sha256 received; otherwise it is the bytes it covers

VARIABLES
    req,        \* the request
    file,       \* the remote file
    was,        \* bytes it held when it was opened
    at,         \* handleFileGet: "idle", "asked", "lines", "bytes", "final", "result", "over",
                \* or "unheard" once nothing of it reaches the client
    seen,       \* bytes of the file in the scanner's buffer or before it
    eof,        \* a read returned end of file
    pos,        \* bytes scanned
    lineNo,     \* lines scanned
    sent,       \* bytes sent, which is what the agent's hash covers
    truncated,  \* the agent's flag
    wire,       \* frames on their way
    got,        \* the local file
    hashed,     \* bytes the client's hash covers
    res,        \* FileGetResult: [sha, truncated]
    outcome     \* FileGet: "none", "waiting", "ok", "error"

agentVars == <<at, seen, eof, pos, lineNo, sent, truncated>>
clientVars == <<got, hashed, res, outcome>>
vars == <<req, file, was, agentVars, wire, clientVars>>

StartsWith(requests, files) ==
    /\ req \in requests /\ file \in files /\ was = 0
    /\ at = "idle" /\ seen = 0 /\ eof = FALSE /\ pos = 0 /\ lineNo = 0
    /\ sent = <<>> /\ truncated = FALSE /\ wire = <<>>
    /\ got = Untouched /\ hashed = <<>> /\ outcome = "none"
    /\ res = [sha |-> NoSum, truncated |-> FALSE]

Files == UNION {[1..n -> Byte] : n \in 0..MaxLen}
Init == StartsWith(Requests, Files)

\* Somebody appends to the file.
Grow ==
    /\ Len(file) < MaxLen
    /\ \E c \in Byte : file' = Append(file, c)
    /\ UNCHANGED <<req, was, agentVars, wire, clientVars>>

-----------------------------------------------------------------------------
(* The agent *)

Send(f) == Len(wire) < WireCap /\ wire' = Append(wire, f)
Data(d) == [kind |-> "data", data |-> d]
Fails == Send([kind |-> "error"]) /\ at' = "over"

ByLine(q) == q.start > 0 \/ q.end > 0

\* os.Open, and the choice between lines and bytes.
Open ==
    /\ at = "asked"
    /\ at' = IF ByLine(req) THEN "lines" ELSE "bytes"
    /\ was' = Len(file)
    /\ UNCHANGED <<req, file, seen, eof, pos, lineNo, sent, truncated, wire, clientVars>>

\* The path cannot be resolved or opened, or a read fails.
ReadFails ==
    /\ Faults /\ at \in {"asked", "lines", "bytes"}
    /\ Fails
    /\ UNCHANGED <<req, file, was, seen, eof, pos, lineNo, sent, truncated, clientVars>>

\* bufio.Scanner: the next newline in the buffer, or what is left at end of file.
Newlines == {i \in (pos + 1)..seen : file[i] = "n"}
HasLine == Newlines # {} \/ (eof /\ seen > pos)
LineEnd == IF Newlines # {} THEN Min(Newlines) ELSE seen + 1
DropCR(s) == IF s # <<>> /\ s[Len(s)] = "r" THEN SubSeq(s, 1, Len(s) - 1) ELSE s
Line == Append(DropCR(SubSeq(file, pos + 1, LineEnd - 1)), "n")
Scanned == pos' = Min({LineEnd, seen}) /\ lineNo' = lineNo + 1

ScanRead ==
    /\ at = "lines" /\ ~HasLine /\ ~eof /\ seen - pos < MaxLine
    /\ \/ \E k \in (seen + 1)..Min({Len(file), pos + MaxLine}) : seen' = k /\ UNCHANGED eof
       \/ seen = Len(file) /\ eof' = TRUE /\ UNCHANGED seen
    /\ UNCHANGED <<req, file, was, at, pos, lineNo, sent, truncated, wire, clientVars>>

\* A full buffer without a newline: ErrTooLong, with lines already sent or not.
LineTooLong ==
    /\ at = "lines" /\ ~HasLine /\ ~eof /\ seen - pos >= MaxLine
    /\ Fails
    /\ UNCHANGED <<req, file, was, seen, eof, pos, lineNo, sent, truncated, clientVars>>

SkipLine ==
    /\ at = "lines" /\ HasLine /\ lineNo + 1 < req.start
    /\ Scanned
    /\ UNCHANGED <<req, file, was, at, seen, eof, sent, truncated, wire, clientVars>>

PastEnd == req.end > 0 /\ lineNo + 1 > req.end
OverCap == req.max > 0 /\ Len(sent) + Len(Line) > req.max

\* A line beyond the range ends the loop, and so does one beyond the cap, which is
\* truncation.
CutLine ==
    /\ at = "lines" /\ HasLine /\ lineNo + 1 >= req.start
    /\ PastEnd \/ OverCap
    /\ truncated' = ~PastEnd
    /\ Scanned
    /\ at' = "final"
    /\ UNCHANGED <<req, file, was, seen, eof, sent, wire, clientVars>>

\* Mutant of SendLine: the cap is looked at after the line is sent.
SendLineUncapped ==
    /\ at = "lines" /\ HasLine /\ lineNo + 1 >= req.start
    /\ ~PastEnd
    /\ Send(Data(Line))
    /\ sent' = sent \o Line
    /\ Scanned
    /\ UNCHANGED <<req, file, was, at, seen, eof, truncated, clientVars>>

SendLine ==
    /\ at = "lines" /\ HasLine /\ lineNo + 1 >= req.start
    /\ ~PastEnd /\ ~OverCap
    /\ Send(Data(Line))
    /\ sent' = sent \o Line
    /\ Scanned
    /\ UNCHANGED <<req, file, was, at, seen, eof, truncated, clientVars>>

ScanEnds ==
    /\ at = "lines" /\ eof /\ ~HasLine
    /\ at' = "final"
    /\ UNCHANGED <<req, file, was, seen, eof, pos, lineNo, sent, truncated, wire, clientVars>>

\* A whole file stops at the cap, whether or not there is more of it.
AtCap ==
    /\ at = "bytes" /\ req.max > 0 /\ Len(sent) >= req.max
    /\ truncated' = TRUE
    /\ at' = "final"
    /\ UNCHANGED <<req, file, was, seen, eof, pos, lineNo, sent, wire, clientVars>>

\* One read, shrunk to what the cap leaves.
SendBytes ==
    LET room == IF req.max > 0 THEN Min({ChunkSize, req.max - Len(sent)}) ELSE ChunkSize
        to   == Min({Len(file), Len(sent) + room}) IN
    /\ at = "bytes" /\ room > 0 /\ to > Len(sent)
    /\ Send(Data(SubSeq(file, Len(sent) + 1, to)))
    /\ sent' = SubSeq(file, 1, to)
    /\ UNCHANGED <<req, file, was, at, seen, eof, pos, lineNo, truncated, clientVars>>

ReadEnds ==
    /\ at = "bytes" /\ Len(sent) = Len(file)
    /\ req.max > 0 => Len(sent) < req.max
    /\ at' = "final"
    /\ UNCHANGED <<req, file, was, seen, eof, pos, lineNo, sent, truncated, wire, clientVars>>

\* The chunk with Done, the flag and the sha256, then the Result.
SendDone ==
    /\ at = "final"
    /\ Send([kind |-> "done", sha |-> sent, truncated |-> truncated])
    /\ at' = "result"
    /\ UNCHANGED <<req, file, was, seen, eof, pos, lineNo, sent, truncated, clientVars>>

SendResult ==
    /\ at = "result"
    /\ Send([kind |-> "result"])
    /\ at' = "over"
    /\ UNCHANGED <<req, file, was, seen, eof, pos, lineNo, sent, truncated, clientVars>>

\* The agent or its host is lost, and the daemon answers with an Error.
Lost ==
    /\ Faults /\ at \notin {"idle", "over"}
    /\ Fails
    /\ UNCHANGED <<req, file, was, seen, eof, pos, lineNo, sent, truncated, clientVars>>

\* The network to the host goes silent, and nobody notices.
PathDies ==
    /\ Faults /\ at \notin {"idle", "over", "unheard"}
    /\ at' = "unheard"
    /\ UNCHANGED <<req, file, was, seen, eof, pos, lineNo, sent, truncated, wire, clientVars>>

-----------------------------------------------------------------------------
(* The client *)

\* CP creates the local file, which empties it, before it sends the request.
Ask ==
    /\ at = "idle"
    /\ at' = "asked" /\ got' = <<>> /\ outcome' = "waiting"
    /\ UNCHANGED <<req, file, was, seen, eof, pos, lineNo, sent, truncated, wire, hashed, res>>

Receive(kind) ==
    /\ outcome = "waiting" /\ wire # <<>> /\ Head(wire).kind = kind
    /\ wire' = Tail(wire)
    /\ UNCHANGED <<req, file, was, agentVars>>

\* Mutant of WriteChunk: the hash is fed whether or not the write succeeds.
WriteChunkHashed ==
    /\ Receive("data")
    /\ hashed' = hashed \o Head(wire).data
    /\ got' = got \o Head(wire).data \/ (Faults /\ UNCHANGED got)
    /\ UNCHANGED <<res, outcome>>

\* MultiWriter feeds the file, then the hash unless the file failed.  Its error is
\* not looked at.
WriteChunk ==
    /\ Receive("data")
    /\ \/ got' = got \o Head(wire).data /\ hashed' = hashed \o Head(wire).data
       \/ Faults /\ UNCHANGED <<got, hashed>>
    /\ UNCHANGED <<res, outcome>>

TakeDone ==
    /\ Receive("done")
    /\ res' = [sha |-> Head(wire).sha, truncated |-> Head(wire).truncated]
    /\ UNCHANGED <<got, hashed, outcome>>

\* The sha256 is compared unless the download was truncated.
TakeResult ==
    /\ Receive("result")
    /\ outcome' = IF res.sha # NoSum /\ res.sha # hashed /\ ~res.truncated THEN "error" ELSE "ok"
    /\ UNCHANGED <<got, hashed, res>>

\* Mutant of TakeError: the loop waits for a Result.
TakeErrorWaits ==
    /\ Receive("error")
    /\ UNCHANGED <<got, hashed, res, outcome>>

TakeError ==
    /\ Receive("error")
    /\ outcome' = "error"
    /\ UNCHANGED <<got, hashed, res>>

-----------------------------------------------------------------------------
Agent ==
    \/ Open \/ ScanRead \/ LineTooLong \/ SkipLine \/ CutLine \/ SendLine \/ ScanEnds
    \/ AtCap \/ SendBytes \/ ReadEnds \/ SendDone \/ SendResult
Client == WriteChunk \/ TakeDone \/ TakeResult \/ TakeError

Next == Ask \/ Agent \/ Client \/ Grow \/ ReadFails \/ Lost \/ PathDies
Spec == Init /\ [][Next]_vars

\* The agent's goroutine and the client go on when they can.
FairSpec == Spec /\ WF_vars(Agent) /\ WF_vars(Client)

-----------------------------------------------------------------------------
(* What a request asks for, of a file that does not change *)

\* t is what f holds at the positions ps, in their order.
Picks(t, f, ps) == Len(t) = Cardinality(ps) /\ \A p \in ps : t[Cardinality(ps \cap 1..p)] = f[p]

\* A file whose last line has its newline.
Closed(f) == IF f = <<>> \/ f[Len(f)] = "n" THEN f ELSE Append(f, "n")

LineOf(f, p) == 1 + Cardinality({i \in 1..(p - 1) : f[i] = "n"})

\* Without a range every byte; else the lines start..end, their newlines as "n".
Wanted(f, q) == {p \in DOMAIN f : ByLine(q) =>
    /\ LineOf(f, p) >= q.start /\ (q.end > 0 => LineOf(f, p) <= q.end)
    /\ ~(f[p] = "r" /\ f[p + 1] = "n")}

\* The cap admits whole lines, or bytes.
Piece(f, q, p) == IF ByLine(q) THEN LineOf(f, p) ELSE p
Fits(f, q, ps) == {p \in ps : q.max > 0 => Cardinality({o \in ps : Piece(f, q, o) <= Piece(f, q, p)}) <= q.max}

IsSlice(t, f, q) == LET g == IF ByLine(q) THEN Closed(f) ELSE f IN Picks(t, g, Fits(g, q, Wanted(g, q)))

\* The file at the moments since it was opened.
Versions == {SubSeq(file, 1, k) : k \in was..Len(file)}

-----------------------------------------------------------------------------
(* Properties *)

\* Every variable has its type; the agent stays within the file and the wire
\* within its bound.
TypeOK ==
    /\ req \in Requests /\ file \in Seq(Byte) /\ Len(file) <= MaxLen
    /\ at \in {"idle", "asked", "lines", "bytes", "final", "result", "over", "unheard"}
    /\ {eof, truncated, res.truncated} \subseteq BOOLEAN
    /\ was \in 0..Len(file) /\ pos \in 0..seen /\ seen \in 0..Len(file) /\ lineNo \in 0..pos
    /\ {sent, hashed} \subseteq Seq(Byte) /\ Len(wire) <= WireCap
    /\ outcome \in {"none", "waiting", "ok", "error"}

\* What the agent sends with Done is exactly the lines, or the bytes, asked for,
\* of the file as it was at some moment after it was opened, and never more than
\* the cap (CHANGELOG on rsb cat: --lines=1:100, --max-bytes=4096, against OOM).
SliceIsExact ==
    /\ at = "result" => \E f \in Versions : IsSlice(sent, f, req)
    /\ req.max > 0 => Len(sent) <= req.max

\* A download that reports success without "truncated" is the whole of what was
\* asked for, in the local file, whatever was lost or could not be written.
OkIsWhole ==
    outcome = "ok" /\ ~res.truncated => \E f \in Versions : IsSlice(got, f, [req EXCEPT !.max = 0])

\* Every download ends, however the agent and the client fail, unless the path goes
\* silent: FileGet has no timer.
Returns == (outcome = "waiting") ~> (outcome \in {"ok", "error"} \/ at = "unheard")

\* The comment on FileGetResult: truncated means that the agent stopped before end
\* of file.
TruncatedMeansMore == outcome = "ok" /\ res.truncated => ~IsSlice(got, file, [req EXCEPT !.max = 0])

\* The comment in Exec that a dead path fails loudly instead of hanging for ever, said
\* of downloads.
SilenceEnds == (at = "unheard" /\ outcome = "waiting") ~> (outcome \in {"ok", "error"})

\* The comment in FileGet: the hash of a truncated download matches, for it covers
\* exactly what was received.
OkIsStored == outcome = "ok" => got = sent

\* SKILL.md on rsb cp: a damaged transfer fails and leaves no half-written file.
NoHalfFile == outcome = "error" => got = Untouched
=============================================================================
