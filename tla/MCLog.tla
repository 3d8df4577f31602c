-------------------------------- MODULE MCLog --------------------------------
(* Small instances of Log for TLC. *)
EXTENDS Log, TLC

CONSTANTS v1, v2

TwoKeys == {1, 2}

(* v2 alone is over the threshold of 2, v1 and a tombstone are not, two
   entries of different kinds are. *)
Sizes == (v1 :> 1) @@ (v2 :> 3) @@ (Tombstone :> 2)

(* A wall clock that can be set back. *)
ClockSetBack == {-1, 1}
=============================================================================
