---------------------------- MODULE MergedTables ----------------------------
(***************************************************************************)
(* The k-way merge of compact over the files themselves: the table of      *)
(* TableFile, cut off and damaged as it may be, between a newer and an     *)
(* older one that are whole.  Log merges a key at a time from maps; here   *)
(* every file yields one entry at a time.                                  *)
(***************************************************************************)
EXTENDS TableFile

CONSTANTS
    Newer,    \* what a scan of the newer file can yield,
    Older     \* and what one of the older file does

(* What flush_to and compact write: the keys in order. *)
ASSUME OthersAssumption ==
    \A keys_held \in Newer \cup {Older} :
        /\ keys_held \in Seq(Ids)
        /\ \A i, j \in DOMAIN keys_held : i < j => keys_held[i] < keys_held[j]

VARIABLES
    scans,      \* what each file yields, newest file first; <<>> before
    heads,      \* what each has not yielded, its current entry first
    seen_keys,  \* the keys that have a winner,
    winner      \* and the file it is from, by the key

mergeVars == <<scans, heads, seen_keys, winner>>
mergedVars == <<tableVars, mergeVars>>

MergedInit == Init /\ scans = <<>> /\ heads = <<>> /\ seen_keys = {} /\ winner = <<>>

(* The files are listed and opened, newest first; a refused one yields
   nothing.  A scan is the same whenever its entries are read. *)
Open ==
    /\ stage \in {"read", "refused"} /\ scans = <<>>
    /\ \E newer \in Newer : scans' = <<newer, out, Older>>
    /\ heads' = scans'
    /\ UNCHANGED <<tableVars, seen_keys, winner>>

Retained == {i \in DOMAIN heads : heads[i] # <<>>}

(* Mutation: the last of the files that hold a key wins. *)
WinnerOldest(holders) == Max(holders)

Winner(holders) == Min(holders)

(* One round of the loop: the first file that holds the least key wins unless
   the key has a winner, and every file that holds it goes on. *)
Round ==
    /\ Retained # {}
    /\ LET least   == Min({Head(heads[i]) : i \in Retained})
           holders == {i \in Retained : Head(heads[i]) = least}
       IN  /\ winner' = IF least \in seen_keys THEN winner
                        ELSE [k \in seen_keys \cup {least} |->
                                 IF k = least THEN Winner(holders) ELSE winner[k]]
           /\ seen_keys' = seen_keys \cup {least}
           /\ heads' = [i \in DOMAIN heads |->
                           IF i \in holders THEN Tail(heads[i]) ELSE heads[i]]
    /\ UNCHANGED <<tableVars, scans>>

MergedNext == (Next /\ UNCHANGED mergeVars) \/ Open \/ Round

MergedSpec == MergedInit /\ [][MergedNext]_mergedVars

----------------------------------------------------------------------------
(* Properties. *)

Holders(k) == {i \in DOMAIN scans : k \in Range(scans[i])}

(* The merge by heads finds for every key the newest file that yields it, and
   misses none, as Log's merge of maps does: whatever was cut off or damaged
   (compact, read_next_entry). *)
NewestScanWins ==
    /\ \A k \in seen_keys : winner[k] = Min(Holders(k))
    /\ scans # <<>> /\ Retained = {} =>
          seen_keys = UNION {Range(scans[i]) : i \in DOMAIN scans}

(* A damaged record makes the merge take an older entry of its own key and of
   no other: every entry that is intact in a table with its footer wins
   against the older file (compact, header_read_next). *)
IntactBeatsOlder ==
    scans # <<>> /\ FooterIntact =>
        \A k \in seen_keys \cap keys : Intact(k) => winner[k] <= 2
=============================================================================
