------------------------------ MODULE Service ------------------------------
(***************************************************************************)
(* What the server promises its clients: every command takes effect at one *)
(* instant, between its line being read and its answer being sent, and the *)
(* answer is what the store held at that instant.  A command whose         *)
(* connection ends may have had its effect without an answer, never an     *)
(* answer without its effect.                                              *)
(*                                                                         *)
(*   kv       the store                                                    *)
(*   line     per connection, the command that has had no effect yet       *)
(*   ready    per connection, the answer of one that had                   *)
(*   answers  per connection, the answers sent                             *)
(***************************************************************************)
EXTENDS Sequences

CONSTANTS Conns, Keys, Lines, Nil,
    Effect(_, _),   \* the store after a line
    Answer(_, _)    \* what a line is answered with

VARIABLES kv, line, ready, answers

serviceVars == <<kv, line, ready, answers>>

Init ==
    /\ kv = [k \in Keys |-> Nil]
    /\ line = [c \in Conns |-> Nil]
    /\ ready = [c \in Conns |-> Nil]
    /\ answers = [c \in Conns |-> <<>>]

Begin(c) ==
    /\ line[c] = Nil /\ ready[c] = Nil
    /\ \E l \in Lines : line' = [line EXCEPT ![c] = l]
    /\ UNCHANGED <<kv, ready, answers>>

Serve(c) ==
    /\ line[c] # Nil
    /\ kv' = Effect(kv, line[c])
    /\ ready' = [ready EXCEPT ![c] = Answer(kv, line[c])]
    /\ line' = [line EXCEPT ![c] = Nil]
    /\ UNCHANGED answers

Deliver(c) ==
    /\ ready[c] # Nil
    /\ answers' = [answers EXCEPT ![c] = Append(@, ready[c])]
    /\ ready' = [ready EXCEPT ![c] = Nil]
    /\ UNCHANGED <<kv, line>>

(* Connections end.  A command among theirs may have its effect or not. *)
End(C) ==
    /\ line' = [c \in Conns |-> IF c \in C THEN Nil ELSE line[c]]
    /\ ready' = [c \in Conns |-> IF c \in C THEN Nil ELSE ready[c]]
    /\ \/ kv' = kv
       \/ \E c \in C : line[c] # Nil /\ kv' = Effect(kv, line[c])
    /\ UNCHANGED answers

Next ==
    \/ \E c \in Conns : Begin(c) \/ Serve(c) \/ Deliver(c)
    \/ \E C \in SUBSET Conns : End(C)

Spec == Init /\ [][Next]_serviceVars
=============================================================================
