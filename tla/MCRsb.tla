-------------------------------- MODULE MCRsb ---------------------------------
(* Values for the constants of Rsb: ranges of lines and caps of a download,
   lines of ripgrep's output, lines of a repl. *)
EXTENDS Rsb
LOCAL INSTANCE SequencesExt

CONSTANTS Starts, Stops, Sizes, Lens

MCRequests == [start : Starts, end : Stops, max : Sizes]
MCLine(l) == [k \in 1..(l.len + 1) |-> IF k = l.len + 1 THEN "n" ELSE IF k = 1 /\ l.match THEN "m" ELSE "c"]
MCTexts == {FlattenSeq([i \in DOMAIN s |-> MCLine(s[i])]) :
               s \in UNION {[1..n -> [match : BOOLEAN, len : Lens]] : n \in 0..3}}
MCLines == {"argv", "blank", "bad", "unknown", "session", "session?", "container", "container?", "quit"}
MCScripts == UNION {[1..n -> MCLines] : n \in 0..3}
=============================================================================
