------------------------------ MODULE MCRunExec -------------------------------
(* Values for the constants of RunExec: a service api, containers api and api1. *)
EXTENDS RunExec

CONSTANTS api, api1, q1, b1, b2

MCWant == [q \in Calls |-> api]
=============================================================================
