---------------------------- MODULE MCMergedTables --------------------------
(* A small instance of MergedTables, and of TableFile in it, for TLC. *)
EXTENDS MergedTables, TLC

ThreeKeys == {1, 2, 3}

Lengths == (1 :> 2) @@ (2 :> 3) @@ (3 :> 2)

(* h2 = 0, a sum that wraps at Word, and an ordinary pair. *)
ThreeHashes == {<<5, 0>>, <<30, 29>>, <<3, 7>>}

(* No bits, a footer as long as that of one key, and one past every file. *)
ThreeCounts == {0, 10, 1000}

(* The newer file overlaps some of the keys, the older one all of them. *)
SomeNewer == {<<>>, <<2>>}

AllOlder == <<1, 2, 3>>
=============================================================================
