------------------------------ MODULE MemTable ------------------------------
(***************************************************************************)
(* The sorted map of the newest entry per key and the size it keeps of     *)
(* itself.  Sizes stay far below 2^64, so that its saturating addition is  *)
(* an addition.                                                            *)
(***************************************************************************)
EXTENDS Integers, FiniteSets

CONSTANTS
    KeyOf,    \* the key of an entry,
    SizeOf    \* and the bytes of its key and of itself: entry_size

ASSUME SizeOfAssumption == SizeOf \in [DOMAIN KeyOf -> Nat]

NewMemTable == [inner |-> <<>>, size |-> 0]

(* The size of the entry that e is going to replace. *)
Replaced(m, e) == IF KeyOf[e] \in DOMAIN m.inner THEN SizeOf[m.inner[KeyOf[e]]] ELSE 0

Insert(m, e) ==
    [k \in DOMAIN m.inner \cup {KeyOf[e]} |-> IF k = KeyOf[e] THEN e ELSE m.inner[k]]

SaturatingSub(x, y) == IF x < y THEN 0 ELSE x - y

(* Mutation: what the entry replaces stays in the size. *)
ProcessCountsTwice(m, e) == [inner |-> Insert(m, e), size |-> m.size + SizeOf[e]]

(* Mutation: the first entry of a key stays. *)
ProcessKeepsFirst(m, e) ==
    IF KeyOf[e] \in DOMAIN m.inner THEN m
    ELSE [inner |-> Insert(m, e), size |-> m.size + SizeOf[e]]

(* MemTable::process *)
Process(m, e) ==
    [inner |-> Insert(m, e),
     size  |-> SaturatingSub(m.size, Replaced(m, e)) + SizeOf[e]]

IsEmpty(m) == m.size = 0 /\ DOMAIN m.inner = {}
=============================================================================
