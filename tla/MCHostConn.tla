------------------------------ MODULE MCHostConn ------------------------------
(* Values for the constants of HostConn: c1 sends r1 and r2, c2 sends r3. *)
EXTENDS HostConn

CONSTANTS c1, c2, r1, r2, r3

MCOwner == [r \in Reqs |-> IF r = r3 THEN c2 ELSE c1]
\* r1 is the one with more Output frames than its reply channel holds.
MCOuts == [r \in Reqs |-> IF r = r1 THEN 2 ELSE 1]
=============================================================================
