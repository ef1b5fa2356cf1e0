------------------------------ MODULE MCFilePut ------------------------------
(* Values for the constants of FilePut. *)
EXTENDS FilePut

CONSTANTS u1, u2, x1, a1, a2, p1, p2

MCVia == [q \in Requests |-> IF q = u2 /\ a2 \in Agents THEN a2 ELSE a1]
\* The same path for both uploads when there is only one.
MCTarget == [u \in Uploads |-> IF u = u2 /\ p2 \in Paths THEN p2 ELSE p1]
=============================================================================
