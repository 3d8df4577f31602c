--------------------------- MODULE LoggedMemTable ---------------------------
(***************************************************************************)
(* The log file and the memtable that it backs: a write goes to the file   *)
(* and then to the memtable, a flush moves the memtable to a table, clears *)
(* it and then empties the file, and a process that starts rebuilds the    *)
(* memtable from the bytes it finds.  The tables are what a lookup in them *)
(* returns; Log has their files.                                           *)
(***************************************************************************)
EXTENDS WalFile, MemTable

ASSUME EntriesAssumption == Ids \subseteq DOMAIN KeyOf

VARIABLES
    memtable,
    tables,      \* per key the record that the tables serve
    unanswered   \* records that are whole in the file, of writes that failed

loggedVars == <<walVars, memtable, tables, unanswered>>

LoggedInit ==
    Init /\ memtable = NewMemTable /\ tables = <<>> /\ unanswered = {}

(* What a lookup in newer and then in older returns (Log::get). *)
Overlay(newer, older) ==
    [k \in DOMAIN newer \cup DOMAIN older |->
        IF k \in DOMAIN newer THEN newer[k] ELSE older[k]]

(* Log::write *)
Write ==
    /\ AppendRecord
    /\ memtable' = Process(memtable, last')
    /\ UNCHANGED <<tables, unanswered>>

(* The append is cut off, or the sync fails after a whole one. *)
WriteFails ==
    /\ \/ AppendTorn /\ UNCHANGED unanswered
       \/ AppendRecord /\ unanswered' = unanswered \cup {last'}
    /\ UNCHANGED <<memtable, tables>>

Damage == Flip /\ UNCHANGED <<memtable, tables, unanswered>>

(* Log::flush: a memtable that is empty writes no table, and the file is
   emptied all the same. *)
Flush ==
    /\ Truncate
    /\ tables' = Overlay(memtable.inner, tables)
    /\ memtable' = NewMemTable
    /\ unanswered' = {}

(* Mutation: set_len comes before the table, which then fails. *)
FlushTruncatesFirst ==
    /\ Truncate
    /\ unanswered' = {}
    /\ UNCHANGED <<memtable, tables>>

(* The table is written; its sync fails, or the memtable is cleared and then
   set_len fails.  The process goes on, or dies there and another starts. *)
FlushFails ==
    /\ TruncateFails
    /\ tables' = Overlay(memtable.inner, tables)
    /\ memtable' \in {memtable, NewMemTable}
    /\ UNCHANGED unanswered

(* The process ended and another one starts: from_file. *)
Start ==
    /\ StartReplay
    /\ memtable' = NewMemTable
    /\ unanswered' = {}
    /\ UNCHANGED tables

Rebuild ==
    /\ ReplayNext
    /\ memtable' = IF out' = out THEN memtable ELSE Process(memtable, out'[Len(out')])
    /\ UNCHANGED <<tables, unanswered>>

LoggedNext ==
    Write \/ WriteFails \/ Damage \/ Flush \/ FlushFails \/ Start \/ Rebuild

LoggedSpec == LoggedInit /\ [][LoggedNext]_loggedVars

----------------------------------------------------------------------------
(* Properties. *)

(* The bytes of the entries of m, each counted with its key. *)
Bytes(m) == UNION {{k} \X (1 .. SizeOf[m.inner[k]]) : k \in DOMAIN m.inner}

(* The size that decides about a flush is that of the entries the memtable
   holds, however often a key is written, in a replay too, so that it never
   saturates and is zero only when there is none (process, from_file). *)
SizeIsSum ==
    /\ memtable.size = Cardinality(Bytes(memtable))
    /\ IsEmpty(memtable) <=> DOMAIN memtable.inner = {}

(* Per key the newest of the records in S. *)
Newest(S) == [k \in {KeyOf[r] : r \in S} |-> Max({r \in S : KeyOf[r] = k})]

OnDisk == {r \in Ids : \E p \in 0 .. Len(file) : IntactAt(file, p, r)}

(* A restart serves each key from the newest of its records that are intact,
   whatever stands between them: a damaged record shows an older one of its
   key, or none, and touches no other key (from_file, header_read_next). *)
NewestIntactServed == replay = "done" => memtable.inner = Newest(OnDisk)

(* What the memtable and the tables under it serve. *)
Served == Overlay(memtable.inner, tables)

(* In a file without damage a restart changes nothing that is served, torn
   records or not, also when a flush cleared the memtable and failed to empty
   the file, whose records are then in a table as well: the memtable that the
   restart rebuilds hides of the tables nothing newer than itself, and shows
   only the writes besides that failed after a whole append (write, flush,
   from_file). *)
RestartChangesNothing ==
    replay # "on" /\ flips = 0 =>
        Served = Overlay(Newest(whole \ unanswered), tables)
=============================================================================
