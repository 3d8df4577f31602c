------------------------------ MODULE LogTests ------------------------------
(***************************************************************************)
(* The repository's tests of the engine and of the parser as clients of    *)
(* Log.  A test is a script: the calls it makes and what it expects in     *)
(* between.  Unlike the tests, the process can be killed and a disk        *)
(* operation can fail in every call; a call that did not end is made       *)
(* again.  A test's entries are far below the flush threshold, so that     *)
(* Write stands for Log::write as well as for the write of a command.      *)
(***************************************************************************)
EXTENDS Log, Command

CONSTANTS
    a, b, c, d,       \* keys
    one, two, three,  \* values
    LongLines,        \* more lines for the parser, beside those of its tests
    FreeValues,       \* what a client that follows no script sets,
    FreeKeys,         \* its keys,
    FreeCrashAt,      \* and the pcs at which the process is killed for it
    MaxMishaps        \* bound: crashes and errors in a test

VARIABLES
    script,           \* what is left of the test, or Nil for any client
    mishaps,          \* the crashes and errors it has met
    listed            \* the tables it has listed (read_dir)

testVars == <<vars, script, mishaps, listed>>

(* The entries of a test, in the memtable or in a table. *)
TestKeys   == {a, b, c, d}
TestValues == {one, two, three, Tombstone}

OfTests(m) == \A k \in Keys : m[k] # Nil => k \in TestKeys /\ m[k] \in TestValues

(* The lines of the parser's tests are sequences of these words. *)
TestWords == {"set", "s", "get", "g", "delete", "del", "d", "quit", "q", "exit",
              "help", "h", "foo", "a", "b", "c"}

(* A test has its four keys to itself, whatever it has written is far below the
   flush threshold, and its words are in lower case. *)
TestsFit ==
    /\ TestKeys \subseteq Keys /\ {one, two, three} \subseteq Values
    /\ Cardinality(TestKeys) = 4
    /\ \A m \in [Keys -> Slot] : OfTests(m) => ~ShouldFlush(m)
    /\ \A w \in TestWords : Lowercase(w) = w

----------------------------------------------------------------------------
(* What a test can do, *)

Do(name, k, v) == [call |-> name, key |-> k, value |-> v]

Put(k, v)   == Do("write", k, v)
Bury(k)     == Do("write", k, Tombstone)
Set(k, v)   == Do("set", k, v)
Delete(k)   == Do("delete", k, Nil)
Flush       == Do("flush", Nil, Nil)
FlushIfDue  == Do("maybe_flush", Nil, Nil)
Compact     == Do("compact", Nil, Nil)
Reopen      == Do("drop and new", Nil, Nil)
Help        == Do("help", Nil, Nil)
List        == Do("list", Nil, Nil)

(* and expect: what get answers, how many entries the memtable has and whether
   there is one for k, an empty log and one that is not, some tables, at most n
   and none of those that were listed. *)
Gets(k, v)  == Do("get", k, v)
HasLen(n)   == Do("len", Nil, n)
HasKey(k)   == Do("contains_key", k, Nil)
LogEmpty    == Do("wal empty", Nil, Nil)
LogKept     == Do("wal kept", Nil, Nil)
SomeTable   == Do("some table", Nil, Nil)
AtMost(n)   == Do("tables", Nil, n)
ListedGone  == Do("listed gone", Nil, Nil)
Parses(l, outcome) == [call |-> "parse", words |-> l, outcome |-> outcome]

PutAndFlush(k, v) == <<Put(k, v), Flush>>

----------------------------------------------------------------------------
(* The tests of Log. *)

new_creates_empty_memtable == <<HasLen(0)>>

new_rebuilds_memtable_from_existing_file ==
    <<Put(a, one), Reopen, HasLen(1), HasKey(a)>>

get_returns_entry_from_memtable == <<Put(a, one), Gets(a, one)>>

get_returns_none_when_absent_from_both == <<Gets(a, Nil)>>

get_finds_entry_in_sstable_after_flush == PutAndFlush(a, one) \o <<Gets(a, one)>>

get_returns_newest_when_key_in_multiple_sstables ==
    <<Put(a, one)>> \o PutAndFlush(a, two) \o <<Gets(a, two)>>

flush_creates_sstable_file_on_disk == PutAndFlush(a, one) \o <<SomeTable>>

flush_clears_memtable == PutAndFlush(a, one) \o <<HasLen(0)>>

flush_truncates_wal == PutAndFlush(a, one) \o <<LogEmpty>>

maybe_flush_does_not_flush_when_below_threshold ==
    <<Put(a, one), FlushIfDue, HasKey(a), LogKept, AtMost(0)>>

get_returns_none_for_absent_key_across_multiple_sstables ==
    PutAndFlush(a, one) \o PutAndFlush(b, two) \o PutAndFlush(c, three)
      \o <<Gets(d, Nil)>>

get_returns_none_for_tombstone_in_memtable ==
    <<Put(a, one), Bury(a), Gets(a, Nil)>>

get_returns_none_after_flush_and_delete ==
    PutAndFlush(a, one) \o <<Bury(a), Gets(a, Nil)>>

get_skips_sstable_when_bloom_filter_says_absent ==
    PutAndFlush(a, one) \o <<Gets(d, Nil)>>

get_finds_key_when_bloom_filter_says_maybe_present ==
    get_finds_entry_in_sstable_after_flush

(* The tests of compact. *)

compact_with_no_sstables_is_noop == <<Compact, AtMost(0)>>

compact_newest_wins_for_duplicate_key ==
    PutAndFlush(a, one) \o PutAndFlush(a, two) \o <<Compact, Gets(a, two)>>

compact_preserves_all_unique_keys ==
    PutAndFlush(a, one) \o PutAndFlush(b, two)
      \o <<Compact, Gets(a, one), Gets(b, two)>>

compact_result_readable_via_get ==
    PutAndFlush(a, one) \o PutAndFlush(b, two) \o PutAndFlush(c, three)
      \o <<Compact, Gets(a, one), Gets(b, two), Gets(c, three)>>

compact_deletes_original_sstables ==
    PutAndFlush(a, one) \o PutAndFlush(b, two) \o <<List, Compact, ListedGone>>

(* How many tables there are before compact depends on the mishaps, here and in
   the next; without one they are two, and one. *)
compact_reduces_sstable_count ==
    PutAndFlush(a, one) \o PutAndFlush(a, two) \o <<Compact, AtMost(1)>>

compact_single_sstable_produces_one_output_and_deletes_original ==
    PutAndFlush(a, one) \o <<List, Compact, ListedGone, SomeTable, AtMost(1)>>

compact_three_sstables_with_overlapping_keys ==
    <<Put(a, one)>> \o PutAndFlush(b, one) \o <<Put(a, two)>> \o PutAndFlush(c, one)
      \o PutAndFlush(a, three)
      \o <<Compact, Gets(a, three), Gets(b, one), Gets(c, one)>>

compact_drops_tombstone_from_output ==
    PutAndFlush(a, one) \o <<Bury(a), Flush, Compact, Gets(a, Nil)>>

(* The tests of execute. *)

execute_set_adds_to_memtable == <<Set(a, one), HasLen(1), HasKey(a)>>

execute_delete_existing_key_tombstones_key ==
    <<Set(a, one), Delete(a), Gets(a, Nil)>>

execute_delete_missing_key_leaves_memtable_empty == <<Delete(a), HasLen(0)>>

execute_delete_persists_tombstone ==
    <<Set(a, one), Delete(a), Reopen, HasKey(a), Gets(a, Nil)>>

execute_help_leaves_memtable_empty == <<Help, HasLen(0)>>

execute_get_finds_key_in_sstable_after_flush ==
    <<Set(a, one), Flush, Gets(a, one)>>

(* And of what the repository has no test: the arm of execute for Delete, when
   contains must ask the tables.  They have the key, so that a tombstone must
   hide it, or it is deleted in them or was before a compaction, and there must
   be none. *)
delete_of_flushed_key ==
    PutAndFlush(a, one) \o <<Delete(a), Gets(a, Nil), Reopen, HasKey(a), Gets(a, Nil)>>

delete_after_flushed_tombstone ==
    PutAndFlush(a, one) \o <<Bury(a), Flush, Delete(a), HasLen(0)>>

delete_after_compaction ==
    PutAndFlush(a, one) \o <<Bury(a), Flush, Compact, Delete(a), HasLen(0)>>

(* The tests of the parser, and the long lines. *)
ParserScripts ==
    {<<Parses(t[1], t[2])>> : t \in ParseTests}
      \cup {<<Parses(l, Outcome(l))>> : l \in LongLines}

Scripts == ParserScripts \cup
    {new_creates_empty_memtable, new_rebuilds_memtable_from_existing_file,
     get_returns_entry_from_memtable, get_returns_none_when_absent_from_both,
     get_finds_entry_in_sstable_after_flush,
     get_returns_newest_when_key_in_multiple_sstables,
     flush_creates_sstable_file_on_disk, flush_clears_memtable, flush_truncates_wal,
     maybe_flush_does_not_flush_when_below_threshold,
     get_returns_none_for_absent_key_across_multiple_sstables,
     get_returns_none_for_tombstone_in_memtable,
     get_returns_none_after_flush_and_delete,
     get_skips_sstable_when_bloom_filter_says_absent,
     get_finds_key_when_bloom_filter_says_maybe_present,
     compact_with_no_sstables_is_noop, compact_newest_wins_for_duplicate_key,
     compact_preserves_all_unique_keys, compact_result_readable_via_get,
     compact_deletes_original_sstables, compact_reduces_sstable_count,
     compact_single_sstable_produces_one_output_and_deletes_original,
     compact_three_sstables_with_overlapping_keys, compact_drops_tombstone_from_output,
     execute_set_adds_to_memtable, execute_delete_existing_key_tombstones_key,
     execute_delete_missing_key_leaves_memtable_empty,
     execute_delete_persists_tombstone, execute_help_leaves_memtable_empty,
     execute_get_finds_key_in_sstable_after_flush, delete_of_flushed_key,
     delete_after_flushed_tombstone, delete_after_compaction}

----------------------------------------------------------------------------
(* What the engine does when it is called. *)

(* Log::write, up to the append. *)
CallWrite(e) ==
    /\ pc' = "write" /\ entry' = e
    /\ UNCHANGED <<wal, memtable, sstables, flush_count, clock, compactVars>>

(* Log::flush: flush_to makes no table of an empty memtable. *)
CallFlush ==
    /\ pc' = IF memtable = Empty THEN "truncate" ELSE "flush"
    /\ UNCHANGED <<wal, memtable, sstables, flush_count, clock, entry, compactVars>>

CallMaybeFlush ==
    /\ pc' = MaybeFlush(memtable)
    /\ UNCHANGED <<wal, memtable, sstables, flush_count, clock, entry, compactVars>>

(* Log::compact: without a table there is nothing to merge or remove. *)
CallCompact ==
    /\ IF DOMAIN sstables = {} THEN UNCHANGED <<pc, doomed, todo>>
       ELSE StartCompaction
    /\ UNCHANGED <<wal, memtable, sstables, flush_count, clock, entry, merged>>

(* The log is dropped; Open makes a new one of its files. *)
CallDrop ==
    /\ pc' = "down" /\ memtable' = Empty
    /\ UNCHANGED <<wal, sstables, flush_count, clock, entry, compactVars>>

(* The arm of execute for Delete. *)
CallDelete(k) ==
    IF Get(k) = Nil THEN CallMaybeFlush
    ELSE CallWrite([key |-> k, value |-> Tombstone])

Call(step) ==
    \/ step.call \in {"write", "set"} /\ CallWrite([key |-> step.key, value |-> step.value])
    \/ step.call = "delete" /\ CallDelete(step.key)
    \/ step.call = "flush" /\ CallFlush
    \/ step.call = "maybe_flush" /\ CallMaybeFlush
    \/ step.call = "compact" /\ CallCompact
    \/ step.call = "drop and new" /\ CallDrop
    \/ step.call = "help" /\ UNCHANGED vars

(* What a test expects, here and now. *)
Meets(step) ==
    CASE step.call = "get"          -> Get(step.key) = step.value
      [] step.call = "len"          -> Cardinality(Present(memtable)) = step.value
      [] step.call = "contains_key" -> memtable[step.key] # Nil
      [] step.call = "wal empty"    -> wal = <<>>
      [] step.call = "wal kept"     -> wal # <<>>
      [] step.call = "some table"   -> DOMAIN sstables # {}
      [] step.call = "tables"       -> Cardinality(DOMAIN sstables) <= step.value
      [] step.call = "listed gone"  -> listed \cap DOMAIN sstables = {}
      [] step.call = "parse"        -> Outcome(step.words) = step.outcome

Calls == {"write", "set", "delete", "flush", "maybe_flush", "compact", "drop and new",
          "help"}

Scripted == script \notin {Nil, <<>>}

InHand == Head(script)

TestInit == Init /\ script \in Scripts \cup {Nil} /\ mishaps = 0 /\ listed = {}

(* A client that follows no script. *)
AnyCommand ==
    /\ script = Nil
    /\ \/ \E k \in FreeKeys, v \in FreeValues : ExecuteSet(k, v)
       \/ \E k \in FreeKeys : ExecuteDelete(k) \/ ExecuteDeleteMiss(k)
    /\ UNCHANGED <<script, mishaps, listed>>

AnyCrash ==
    /\ script = Nil
    /\ pc \in FreeCrashAt
    /\ Crash
    /\ UNCHANGED <<script, mishaps, listed>>

(* A call of the test; some end at once. *)
Start ==
    /\ pc = "idle" /\ Scripted /\ InHand.call \in Calls
    /\ Call(InHand)
    /\ script' = IF pc' = "idle" \/ InHand.call = "drop and new" THEN Tail(script)
                 ELSE script
    /\ UNCHANGED <<mishaps, listed>>

Continue ==
    /\ Proceed
    /\ script' = IF pc' = "idle" /\ Scripted THEN Tail(script) ELSE script
    /\ UNCHANGED <<mishaps, listed>>

(* read_dir. *)
ListTables ==
    /\ pc = "idle" /\ Scripted /\ InHand.call = "list"
    /\ listed' = DOMAIN sstables
    /\ script' = Tail(script)
    /\ UNCHANGED <<vars, mishaps>>

Expect ==
    /\ pc = "idle" /\ Scripted /\ InHand.call \notin Calls \cup {"list"}
    /\ script' = Tail(script)
    /\ UNCHANGED <<vars, mishaps, listed>>

(* The call that was under way will be made again. *)
Mishap ==
    /\ Scripted /\ mishaps < MaxMishaps
    /\ Crash \/ Fail
    /\ mishaps' = mishaps + 1
    /\ UNCHANGED <<script, listed>>

Restart == Open /\ UNCHANGED <<script, mishaps, listed>>

TestNext ==
    \/ AnyCommand \/ AnyCrash
    \/ Start \/ Continue \/ ListTables \/ Expect \/ Mishap
    \/ Restart

FairTests == TestInit /\ [][TestNext]_testVars /\ WF_testVars(Continue)

----------------------------------------------------------------------------
(* Properties. *)

(* What the tests of Log, compact, execute and try_from expect of the engine and
   of the parser (of all but what execute prints) holds, and so does what the
   three scripts beside them expect of a delete that must ask the tables, even
   when the process is killed or a disk operation fails in any of the test's
   calls and the call is made again: doing again what was done in part, or
   done and not acknowledged, changes no outcome (Log::write, flush, compact,
   new, execute, try_from). *)
TestsPass ==
    pc = "idle" /\ Scripted /\ InHand.call \notin Calls \cup {"list"} => Meets(InHand)

(* A line that begins with the name of a command and was cut off when its
   connection broke is, if it is a command at all, the command it begins with,
   on the arguments of the line as far as they came: only the last of them can
   be cut short.  No beginning of a word that takes arguments is a command
   without any, though many are aliases (read_line, try_from). *)
CutKeepsCommand ==
    Scripted /\ InHand.call = "parse" =>
        \A cut \in CutLines(InHand.words) : Keeps(InHand.words, cut)

(* Tables do not pile up under a client that follows no script.  A process
   that is killed in its flushes can leave a table each time and count it as
   the flush that was due to compact. *)
ClientTablesBounded == script = Nil => TablesBounded
=============================================================================
