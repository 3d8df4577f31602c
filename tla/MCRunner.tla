------------------------------ MODULE MCRunner ------------------------------
(* Small instances of Runner for TLC. *)
EXTENDS Runner

CONSTANTS a, b, k, v

(* A line of every kind that Command parses, help left out, and one that it
   does not. *)
OneValueLines ==
    {[op |-> op, key |-> k, value |-> v] :
        op \in {"set", "get", "delete", "quit", "bad"}}
=============================================================================
