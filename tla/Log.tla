--------------------------------- MODULE Log ---------------------------------
(***************************************************************************)
(* The storage engine: the write-ahead log, the memtable, the SSTables and *)
(* their compaction, as one process at a time drives them.  The mutex      *)
(* around Log makes a command atomic for other clients, so what can come   *)
(* between two steps of a command is a crash or an I/O error; pc says      *)
(* which of the engine's disk operations is next.                          *)
(***************************************************************************)
EXTENDS Integers, Sequences, FiniteSetsExt, Functions

CONSTANTS
    Keys,            \* the keys, ordered as the code orders strings
    Values,          \* the values a Set can carry
    Tombstone,       \* what Entry::Delete stores for its key
    Nil,             \* no entry, no value
    EntrySize,       \* bytes of key and entry, by the entry's value
    FlushThreshold,  \* the memtable size above which a flush is due
    CompactEvery,    \* COMPACT_EVERY_N_FLUSHES
    ClockSteps,      \* how far the wall clock can move between two tables
    CrashAt,         \* the pcs at which the process can be killed
    FailAt,          \* the pcs at which an I/O call can fail; "replay": at boot
    MaxWal,          \* bound: no command starts on a longer log
    MaxClock         \* bound: no command starts that could pass this time

Slot == Values \cup {Tombstone, Nil}

ASSUME KeysAssumption == Keys \subseteq Nat
ASSUME SlotAssumption ==
    /\ Nil \notin Keys /\ Nil \notin Values
    /\ Nil \notin [key : Keys, value : Values \cup {Tombstone, Nil}]
    /\ Tombstone \notin Values /\ Tombstone # Nil
ASSUME SizeAssumption == EntrySize \in [Values \cup {Tombstone} -> Nat \ {0}]
ASSUME BoundsAssumption ==
    /\ FlushThreshold \in Nat
    /\ CompactEvery \in Nat \ {0}
    /\ ClockSteps \subseteq Int
    /\ MaxWal \in Nat /\ MaxClock \in Nat
ASSUME FaultAssumption ==
    /\ CrashAt \subseteq {"idle", "write", "flush", "truncate", "merge",
                          "spill", "remove"}
    /\ FailAt \subseteq {"write", "flush", "truncate", "merge", "spill",
                         "remove", "replay"}

VARIABLES
    wal,          \* the records on disk, oldest first
    memtable,     \* key -> newest entry since the last flush
    sstables,     \* file name (its timestamp) -> the table in the file
    flush_count,  \* flushes, as this process counts them
    clock,        \* the wall clock when it was last read
    pc,           \* the disk operation that is next, "idle" or "down"
    entry,        \* the entry being written, or Nil
    doomed,       \* the tables a running compaction merges and then removes
    todo,         \* the keys its k-way merge has not reached
    merged        \* its output so far, a memtable that is not logged

vars == <<wal, memtable, sstables, flush_count, clock, pc, entry,
          doomed, todo, merged>>

compactVars == <<doomed, todo, merged>>

----------------------------------------------------------------------------
(* Entries, memtables and tables. *)

Record == [key : Keys, value : Values \cup {Tombstone}]

(* A record that was cut off.  Replay finds no checksum for it, skips it. *)
Torn == [key |-> Nil, value |-> Nil]

Empty == [k \in Keys |-> Nil]

Present(m) == {k \in Keys : m[k] # Nil}

(* MemTable::process: the newest entry of a key replaces the older one. *)
Process(m, e) == [m EXCEPT ![e.key] = e.value]

(* What process keeps in MemTable::size. *)
Size(m) == SumFunctionOnSet([k \in Present(m) |-> EntrySize[m[k]]], Present(m))

ShouldFlush(m) == Size(m) > FlushThreshold

(* MemTable::from_file: per key, the last record of the log. *)
Replay(w) ==
    [k \in Keys |->
        LET at == {i \in DOMAIN w : w[i].key = k}
        IN  IF at = {} THEN Nil ELSE w[Max(at)].value]

(* A table file: its entries, and the keys its Bloom filter lets through. *)
Table == [entries : [Keys -> Slot], filter : SUBSET Keys]

(* Mutation: the Bloom filter is fed the values and not the tombstones. *)
CompleteForgetsTombstones(m) ==
    [entries |-> m, filter |-> {k \in Keys : m[k] \in Values}]

Complete(m) == [entries |-> m, filter |-> Present(m)]

(* What a table can hold when flush_to is cut off before its sync: any of
   the entries, and a footer that hides any of those. *)
Partial(m) ==
    UNION {{[entries |-> [k \in Keys |-> IF k \in ks THEN m[k] ELSE Nil],
             filter  |-> shown] : shown \in SUBSET ks} :
           ks \in SUBSET Present(m)}

(* The tables with t under the name n, which may exist: it is overwritten. *)
With(tables, n, t) ==
    [f \in DOMAIN tables \cup {n} |-> IF f = n THEN t ELSE tables[f]]

(* Mutation: the names are walked in ascending order. *)
OldestEntry(tables, files, k) ==
    IF files = {} THEN Nil ELSE tables[Min(files)].entries[k]

(* The newest of these files is met first when the names are walked in
   descending order, and its entry decides. *)
NewestEntry(tables, files, k) ==
    IF files = {} THEN Nil ELSE tables[Max(files)].entries[k]

Holding(tables, k) == {n \in DOMAIN tables : tables[n].entries[k] # Nil}

(* Log::get asks the Bloom filter before it scans a table. *)
TableEntry(tables, k) ==
    NewestEntry(tables, {n \in Holding(tables, k) : k \in tables[n].filter}, k)

(* Mutation: a tombstone that wins does not count as the key's winner. *)
ScanLive(tables, k) ==
    NewestEntry(tables,
        {n \in Holding(tables, k) : tables[n].entries[k] \in Values}, k)

(* compact reads every entry of every table and asks no filter. *)
ScanEntry(tables, k) == NewestEntry(tables, Holding(tables, k), k)

ValueOf(slot) == IF slot = Tombstone THEN Nil ELSE slot

(* Log::get: the memtable decides if it has an entry for k, else the tables. *)
Lookup(m, tables, k) ==
    ValueOf(IF m[k] # Nil THEN m[k] ELSE TableEntry(tables, k))

Get(k) == Lookup(memtable, sstables, k)

----------------------------------------------------------------------------
(* The commands of Execute.  Get, Help and Quit change no state. *)

Init ==
    /\ wal = <<>>
    /\ memtable = Empty
    /\ sstables = <<>>
    /\ flush_count = 0
    /\ clock = 0
    /\ pc = "idle"
    /\ entry = Nil
    /\ doomed = {} /\ todo = {} /\ merged = Empty

(* Bound: a command makes at most one table and one compacted table per key. *)
HasRoom ==
    /\ Len(wal) < MaxWal
    /\ clock + 1 + Cardinality(Keys) <= MaxClock

MaybeFlush(m) == IF ShouldFlush(m) THEN "flush" ELSE "idle"

ExecuteSet(k, v) ==
    /\ pc = "idle" /\ HasRoom
    /\ entry' = [key |-> k, value |-> v]
    /\ pc' = "write"
    /\ UNCHANGED <<wal, memtable, sstables, flush_count, clock, compactVars>>

ExecuteDelete(k) ==
    /\ pc = "idle" /\ HasRoom
    /\ Get(k) # Nil
    /\ entry' = [key |-> k, value |-> Tombstone]
    /\ pc' = "write"
    /\ UNCHANGED <<wal, memtable, sstables, flush_count, clock, compactVars>>

(* A key that is not there gets no tombstone, but a flush that failed before
   is tried again. *)
ExecuteDeleteMiss(k) ==
    /\ pc = "idle" /\ HasRoom
    /\ Get(k) = Nil
    /\ pc' = MaybeFlush(memtable)
    /\ UNCHANGED <<wal, memtable, sstables, flush_count, clock, entry,
                   compactVars>>

(* Mutation: the memtable gets the entry, the log does not. *)
WriteUnlogged ==
    /\ pc = "write"
    /\ memtable' = Process(memtable, entry)
    /\ entry' = Nil
    /\ pc' = MaybeFlush(memtable')
    /\ UNCHANGED <<wal, sstables, flush_count, clock, compactVars>>

(* Log::write, then maybe_flush. *)
Write ==
    /\ pc = "write"
    /\ wal' = Append(wal, entry)
    /\ memtable' = Process(memtable, entry)
    /\ entry' = Nil
    /\ pc' = MaybeFlush(memtable')
    /\ UNCHANGED <<sstables, flush_count, clock, compactVars>>

----------------------------------------------------------------------------
(* Log::flush. *)

(* The name is the wall clock; a time before the epoch is an error, and an
   existing file of that name is overwritten. *)
AddTable(t) ==
    \E d \in ClockSteps :
        /\ clock + d >= 0
        /\ clock' = clock + d
        /\ sstables' = With(sstables, clock + d, t)

(* MemTable::flush_to, up to its sync and the clearing of the memtable. *)
FlushTable ==
    /\ pc = "flush"
    /\ AddTable(Complete(memtable))
    /\ memtable' = Empty
    /\ pc' = "truncate"
    /\ UNCHANGED <<wal, flush_count, entry, compactVars>>

(* Mutation: what is left over when the merge ends is not written. *)
MergeStepNoLastSpill(rest, m) ==
    IF ShouldFlush(m) THEN "spill"
    ELSE IF rest = {} THEN "remove" ELSE "merge"

(* Where the merge goes on with the keys in rest and the output m. *)
MergeStep(rest, m) ==
    IF ShouldFlush(m) \/ (rest = {} /\ Present(m) # {}) THEN "spill"
    ELSE IF rest = {} THEN "remove" ELSE "merge"

(* compact lists and opens the tables there are. *)
StartCompaction ==
    /\ doomed' = DOMAIN sstables
    /\ todo' = UNION {Present(sstables[n].entries) : n \in DOMAIN sstables}
    /\ pc' = MergeStep(todo', Empty)

(* The log is emptied and the flush counted; every CompactEvery flushes
   compact runs. *)
Truncate ==
    /\ pc = "truncate"
    /\ wal' = <<>>
    /\ flush_count' = flush_count + 1
    /\ IF flush_count' % CompactEvery = 0
       THEN StartCompaction
       ELSE pc' = "idle" /\ UNCHANGED <<doomed, todo>>
    /\ UNCHANGED <<memtable, sstables, clock, entry, merged>>

----------------------------------------------------------------------------
(* Log::compact. *)

(* The tables the merge reads. *)
Originals == Restrict(sstables, doomed)

(* One round of the merge loop: the newest entry of the least key wins, and a
   tombstone that wins is not written. *)
Merge ==
    /\ pc = "merge"
    /\ LET k == Min(todo)
           won == ScanEntry(Originals, k)
       IN  /\ merged' = IF won \in Values
                        THEN Process(merged, [key |-> k, value |-> won])
                        ELSE merged
           /\ todo' = todo \ {k}
    /\ pc' = MergeStep(todo', merged')
    /\ UNCHANGED <<wal, memtable, sstables, flush_count, clock, entry, doomed>>

(* Mutation: the output is written and kept in memory. *)
SpillKeepsMerged ==
    /\ pc = "spill"
    /\ AddTable(Complete(merged))
    /\ pc' = IF todo = {} THEN "remove" ELSE "merge"
    /\ UNCHANGED <<wal, memtable, flush_count, entry, doomed, todo, merged>>

Spill ==
    /\ pc = "spill"
    /\ AddTable(Complete(merged))
    /\ merged' = Empty
    /\ pc' = IF todo = {} THEN "remove" ELSE "merge"
    /\ UNCHANGED <<wal, memtable, flush_count, entry, doomed, todo>>

(* Mutation: the list of the doomed tables is not advanced. *)
RemoveSameAgain ==
    /\ pc = "remove"
    /\ sstables' = Restrict(sstables, DOMAIN sstables \ {Max(doomed)})
    /\ pc' = IF doomed = {} THEN "idle" ELSE "remove"
    /\ UNCHANGED <<wal, memtable, flush_count, clock, entry, compactVars>>

(* The originals go one file at a time, in the order of the listing: newest
   first. *)
Remove ==
    /\ pc = "remove"
    /\ doomed' = doomed \ {Max(doomed)}
    /\ sstables' = Restrict(sstables, DOMAIN sstables \ {Max(doomed)})
    /\ pc' = IF doomed' = {} THEN "idle" ELSE "remove"
    /\ UNCHANGED <<wal, memtable, flush_count, clock, entry, todo, merged>>

----------------------------------------------------------------------------
(* Crashes, I/O errors and the boot. *)

(* What the disk operation at pc can leave behind when it does not end. *)
Interrupted ==
    \/ /\ pc = "write"
       /\ wal' \in {Append(wal, Torn), Append(wal, entry)}
       /\ UNCHANGED <<sstables, clock>>
    \/ /\ pc = "flush"
       /\ \E t \in Partial(memtable) : AddTable(t)
       /\ UNCHANGED wal
    \/ /\ pc = "truncate"
       /\ wal' = <<>>
       /\ UNCHANGED <<sstables, clock>>
    \/ /\ pc = "spill"
       /\ \E t \in Partial(merged) : AddTable(t)
       /\ UNCHANGED wal
    \/ UNCHANGED <<wal, sstables, clock>>

DropCompaction == doomed' = {} /\ todo' = {} /\ merged' = Empty

(* The process is killed.  What was in memory is gone; flush_count, which is
   too, has no reader before Open sets it. *)
Crash ==
    /\ pc \in CrashAt
    /\ Interrupted
    /\ pc' = "down"
    /\ memtable' = Empty
    /\ entry' = Nil
    /\ DropCompaction
    /\ UNCHANGED flush_count

(* An I/O call returns an error and ? carries it out of the command. *)
Fail ==
    /\ pc \in FailAt
    /\ Interrupted
    /\ pc' = "idle"
    /\ entry' = Nil
    /\ DropCompaction
    /\ UNCHANGED <<memtable, flush_count>>

(* How many records the replay reads: a read error ends it like the end of
   the file does. *)
ReadBack == IF "replay" \in FailAt THEN 0..Len(wal) ELSE {Len(wal)}

(* Mutation: every boot starts counting flushes from zero. *)
OpenFromZero ==
    /\ pc = "down"
    /\ \E n \in ReadBack : memtable' = Replay(SubSeq(wal, 1, n))
    /\ flush_count' = 0
    /\ pc' = "idle"
    /\ UNCHANGED <<wal, sstables, clock, entry, compactVars>>

(* Log::new. *)
Open ==
    /\ pc = "down"
    /\ \E n \in ReadBack : memtable' = Replay(SubSeq(wal, 1, n))
    /\ flush_count' = Cardinality(DOMAIN sstables)
    /\ pc' = "idle"
    /\ UNCHANGED <<wal, sstables, clock, entry, compactVars>>

----------------------------------------------------------------------------
(* What a command that has started goes on with. *)
Proceed == Write \/ FlushTable \/ Truncate \/ Merge \/ Spill \/ Remove

Next ==
    \/ \E k \in Keys, v \in Values : ExecuteSet(k, v)
    \/ \E k \in Keys : ExecuteDelete(k) \/ ExecuteDeleteMiss(k)
    \/ Proceed
    \/ Crash
    \/ Fail
    \/ Open

(* Weak fairness of Proceed: the thread that runs a command holds the mutex,
   waits for nobody and loops over finite lists. *)
Spec == Init /\ [][Next]_vars

FairSpec == Spec /\ WF_vars(Proceed)

----------------------------------------------------------------------------
(* Properties. *)

Pcs == {"down", "idle", "write", "flush", "truncate", "merge", "spill", "remove"}

(* Every variable keeps its type; what is in flight matches pc. *)
TypeOK ==
    /\ wal \in Seq(Record \cup {Torn})
    /\ memtable \in [Keys -> Slot]
    /\ DOMAIN sstables \subseteq 0..clock
    /\ \A n \in DOMAIN sstables : sstables[n] \in Table
    /\ flush_count \in Nat
    /\ clock \in Nat
    /\ pc \in Pcs
    /\ entry \in Record \cup {Nil}
    /\ (entry # Nil) <=> (pc = "write")
    /\ doomed \subseteq DOMAIN sstables
    /\ todo \in SUBSET Keys
    /\ merged \in [Keys -> Slot]

(* The answers a client can count on in this state.  A command that is under
   way holds the mutex, and a restart will replay the log. *)
Memory == IF pc = "down" THEN Replay(wal) ELSE memtable

Tables ==
    IF pc = "remove" THEN Restrict(sstables, DOMAIN sstables \ doomed)
    ELSE sstables

View == [k \in Keys |-> Lookup(Memory, Tables, k)]

(* What a restart would find in the log and no lookup shows. *)
Doubt(k) ==
    IF pc = "down" \/ Replay(wal)[k] = Nil THEN {}
    ELSE {ValueOf(Replay(wal)[k])} \ {View[k]}

Contract == INSTANCE KVStore WITH
    kv <- View,
    pending <- IF entry = Nil THEN Nil
               ELSE [key |-> entry.key, value |-> ValueOf(entry.value)],
    doubt <- [k \in Keys |-> Doubt(k)]

(* The engine keeps the store's contract through flushes, compactions,
   crashes, torn files and I/O errors: an accepted write is never lost, none
   is invented, and a failed one can only surface at the next restart
   (Log::write, get, flush, compact, new). *)
ImplementsKVStore == Contract!Spec

(* A torn table has an entry for k that get's filters hide and compact finds. *)
Hidden(k) == Memory[k] = Nil /\ ScanEntry(Tables, k) # TableEntry(Tables, k)

(* Between them the tables are as if no Bloom filter were there: compact,
   which asks none, and get, which asks each, agree on every key the memtable
   leaves to the tables, torn tables included. *)
FilterHidesNothing == \A k \in Keys : ~Hidden(k)

(* The parts of the inductive invariant.  What the memtable holds is in the
   log, and it holds nothing once its table is written. *)
Logged ==
    pc # "down" =>
        \A k \in Keys : memtable[k] # Nil => Replay(wal)[k] # Nil

Flushed ==
    /\ pc \in {"truncate", "merge", "spill", "remove"} => memtable = Empty
    /\ pc = "truncate" => DOMAIN sstables # {}
    /\ pc \notin {"merge", "spill"} => merged = Empty

(* The tables of T that a compaction of D has written are complete and newer
   than those it reads. *)
OutputsNewer(T, D) ==
    /\ D # {}
    /\ \A n \in DOMAIN T \ D :
          /\ T[n].filter = Present(T[n].entries)
          /\ \A m \in D : m < n

(* What it has written, and what it holds in m, are the winners among D that
   are values; with the keys in rest still to come none is missing. *)
OutputsWin(T, D, rest, m) ==
    \A k \in Keys :
        LET won  == ScanEntry(Restrict(T, D), k)
            Fits == {Nil, won} \ {Tombstone}
        IN  /\ m[k] \in Fits
            /\ \A n \in DOMAIN T \ D : T[n].entries[k] \in Fits
            /\ won \in Values /\ k \notin rest =>
                  \/ m[k] # Nil
                  \/ \E n \in DOMAIN T \ D : T[n].entries[k] # Nil

Compacting ==
    /\ pc \in {"merge", "spill", "remove"} => OutputsNewer(sstables, doomed)
    /\ pc \in {"merge", "spill"} => OutputsWin(sstables, doomed, todo, merged)

(* At every step, even if removals are cut off: a memtable that the log can
   rebuild and a compaction whose output is right so far (Log, compact). *)
Steady ==
    /\ TypeOK
    /\ Logged
    /\ Flushed
    /\ Compacting

(* If removals are not cut off, filters hide nothing either (get). *)
Inductive == Steady /\ FilterHidesNothing

(* When the originals start to go, the merged tables hold each key at most
   once, in one file, and no tombstone (compact). *)
CompactedOnce ==
    pc = "remove" =>
        \A k \in Keys :
            /\ ScanEntry(Tables, k) # Tombstone
            /\ Cardinality(Holding(Tables, k)) <= 1

(* A key that has a value changes by a write to it, by a restart that finds a
   write that had failed, or because a torn table hid an entry of it that a
   removal that was cut off has uncovered, and by nothing else.  This holds
   even when compactions are cut off among their removals (compact). *)
LiveKeysSurvive ==
    [][\A k \in Keys :
          View'[k] # View[k] =>
              \/ pc = "write" /\ k = entry.key
              \/ View[k] = Nil \/ Doubt(k) # {} \/ Hidden(k)]_vars

(* A deleted key does not come back: it has a value again only by a write or
   by a restart that finds a write that had failed (compact, get). *)
NoResurrection ==
    [][\A k \in Keys :
          View[k] = Nil /\ View'[k] # Nil =>
              \/ pc = "write" /\ k = entry.key
              \/ Doubt(k) # {}]_vars

(* Flushing, compacting and a failed disk operation change no answer: the
   newest table is the one with the greatest name (flush_to, get). *)
OnlyWritesChangeAnswers ==
    [][pc # "write" /\ pc' # "down" => View' = View]_vars

(* An engine that opens answers from the whole log (Log::new). *)
OpenReadsTheWholeLog == [][pc = "down" => View' = View]_vars

(* However restarts fall between the flushes, tables do not pile up: a
   compaction leaves at most one per key that they hold, and before the next
   there are fewer than two rounds of flushes, one of them counted from the
   files a restart found (flush, new, compact). *)
TablesBounded ==
    pc = "idle" =>
        Cardinality(DOMAIN sstables) <=
            Cardinality({k \in Keys : Holding(sstables, k) # {}}) + 2 * CompactEvery - 2

(* A command that has started ends, or the process is killed: the merge and
   the removals come to an end (compact). *)
CommandEnds == pc \notin {"idle", "down"} ~> pc \in {"idle", "down"}
=============================================================================
