------------------------------- MODULE MCDeploy -------------------------------
(* Values for the constants of Deploy: e1 forced, both ensures and all clients
   but c3 on h1. *)
EXTENDS Deploy

CONSTANTS c1, c2, c3, e1, e2, h1, h2

MCOn == [e \in Ensures |-> h1]
MCWant == [c \in Clients |-> IF c = c3 THEN h2 ELSE h1]
=============================================================================
