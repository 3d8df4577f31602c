-------------------------- MODULE MCLoggedMemTable --------------------------
(* A small instance of LoggedMemTable for TLC. *)
EXTENDS LoggedMemTable, TLC

FiveRecords == 1..5

Lengths == (1 :> 2) @@ (2 :> 3) @@ (3 :> 2) @@ (4 :> 3) @@ (5 :> 2)

(* Two keys; the third record is a tombstone, smaller than what it replaces. *)
KeyOfRecord == <<"a", "b", "a", "a", "b">>

SizeOfRecord == <<3, 2, 1, 4, 2>>
=============================================================================
