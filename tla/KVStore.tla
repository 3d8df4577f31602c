------------------------------- MODULE KVStore -------------------------------
(***************************************************************************)
(* What the store promises its clients, with no file in sight: a map from  *)
(* keys to values that changes only by the writes it accepts and survives  *)
(* a crash.  Nil is "no value"; deleting a key gives it Nil.               *)
(*                                                                         *)
(*   kv       what a lookup answers for every key                          *)
(*   pending  the write that is being logged, or Nil                       *)
(*   doubt    per key, the values of writes that were reported as failed   *)
(*            and may nevertheless have reached the log: they are never    *)
(*            seen while the store is up, may surface at a restart, and    *)
(*            are gone for good once a later write to the key is accepted  *)
(***************************************************************************)
CONSTANTS Keys, Values, Nil

VARIABLES kv, pending, doubt

kvVars == <<kv, pending, doubt>>

Answers == Values \cup {Nil}

Init ==
    /\ kv = [k \in Keys |-> Nil]
    /\ pending = Nil
    /\ doubt = [k \in Keys |-> {}]

----------------------------------------------------------------------------
(* A write is taken on.  Only a key the store has can be deleted. *)
Begin(k, v) ==
    /\ pending = Nil
    /\ v = Nil => kv[k] # Nil
    /\ pending' = [key |-> k, value |-> v]
    /\ UNCHANGED <<kv, doubt>>

(* The write is accepted: it is visible from here on, whatever happens. *)
Commit ==
    /\ pending # Nil
    /\ kv' = [kv EXCEPT ![pending.key] = pending.value]
    /\ doubt' = [doubt EXCEPT ![pending.key] = {}]
    /\ pending' = Nil

(* The write fails: nobody sees it, but its value may be in the log. *)
Refuse ==
    /\ pending # Nil
    /\ \E left \in SUBSET (doubt[pending.key] \cup {pending.value}) :
          doubt' = [doubt EXCEPT ![pending.key] = left]
    /\ pending' = Nil
    /\ UNCHANGED kv

(* Values in doubt can be dropped, when the log that may hold them is. *)
Settle ==
    /\ doubt' \in [Keys -> SUBSET Answers]
    /\ \A k \in Keys : doubt'[k] \subseteq doubt[k]
    /\ UNCHANGED <<kv, pending>>

(* After a crash a key has the value it had, or one that was in doubt, or
   the one whose write was under way. *)
Survivors(k) ==
    {kv[k]} \cup doubt[k]
      \cup {p.value : p \in {q \in {pending} \ {Nil} : q.key = k}}

Crash ==
    /\ kv' \in [Keys -> Answers]
    /\ \A k \in Keys : kv'[k] \in Survivors(k)
    /\ pending' = Nil
    /\ doubt' = [k \in Keys |-> {}]

----------------------------------------------------------------------------
Next ==
    \/ \E k \in Keys, v \in Answers : Begin(k, v)
    \/ Commit
    \/ Refuse
    \/ Settle
    \/ Crash

Spec == Init /\ [][Next]_kvVars
=============================================================================
