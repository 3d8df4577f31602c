# chickadee in TLA+

chickadee is an LSM-tree key-value store: a write-ahead log, an in-memory sorted
table, immutable table files with Bloom filters, a k-way compaction, and a line
protocol over stdin or TCP.  This directory models it in TLA+, checks small
instances with TLC and proves the main results with TLAPS for every instance.

All line references are to the repository; `log/` is `src/lib/log/`.

## 1. Inventory

| Part | State it keeps | Operations | Talks to |
|---|---|---|---|
| `Log` (`log/mod.rs`) | log file, memtable, table folder, flush count | `new`, `write`, `get`, `contains`, `flush`, `maybe_flush`, `compact` | memtable, table files, disk |
| `MemTable` (`log/memtable.rs`) | newest entry per key, their size in bytes | `process`, `from_file`, `should_flush`, `flush_to`, `clear` | record format, Bloom filter |
| Compaction (`log/sstable/compact.rs`) | heads of the open files, output memtable, winners, files to delete | one call, with a loop per key | table files |
| Record format (`log/header/`) | none; a cursor in a file | `serialize`, `deserialize`, `header_write`, `header_read_next`, `header_has_at_least_one` | log file, table files |
| `SSTable` (`log/sstable/mod.rs`) | filter, footer position, cursor | `from_path`, `read_next_entry` | record format, Bloom filter |
| `BloomFilter` (`log/sstable/bloom_filter.rs`) | bit array, bit count | `new`, `insert`, `may_contain`, `read_bloom_filter` | |
| `Command`, `Execute` (`log/command.rs`) | none | `try_from`, `execute` | `Log`, a writer |
| `Runner` (`run.rs`) | reader, writer | `run` | the mutex around `Log`, `Execute` |
| Server (`bin/server.rs`) | the shared mutex, a thread per connection | accept loop | `Runner` |
| CLI (`bin/cli.rs`) | one `Runner` over stdin and stdout | | `Runner` |
| Tests (`#[cfg(test)]` modules, `tests/`) | a folder of their own | scripts of calls and expectations | all of the above |
| `tui.rs` | none | prints help | |

What is hard in it:

* **Crashes and I/O errors between disk operations.**  A flush is a table file, a
  sync, a truncation of the log and perhaps a compaction; a compaction is a merge,
  several output files and several removals.  Each can be the last thing that
  happens, and the next start makes sense of what is there.
* **Order by wall clock.**  Which table is newer is decided by its file name, a
  timestamp.
* **Tombstones.**  They must shadow older tables and are dropped by the merge.
* **Damaged bytes.**  Torn appends followed by good ones, flipped bytes, a footer
  without a checksum, a table cut off so that its footer is record bytes.
* **Concurrency.**  A thread per connection, one mutex, answers that are written
  before the write they answer and sent after the mutex is released, clients that
  leave or do not read.
* **Input that breaks off.**  A line whose connection breaks is parsed as far as it came.

What makes each part correct:

* `Log`: an accepted write is answered until the next write to its key, through
  flushes, compactions, crashes and errors; a failed write is either never seen or
  appears at a restart; a call made again after an error changes no outcome; tables do
  not pile up; every command ends.
* Record format, log file: a replay is in order, yields no torn record, and a
  damaged byte costs one record; what a restart makes of the log is what the memtable
  was, size included.
* Compaction: for each key the newest file that yields it wins, one output holds it, and
  a damaged record exposes an older entry of no other key.
* `Command`: a line means one command with all of its words or none; a line that broke
  off means no other command than the one it begins with.
* Table file, Bloom filter: no false negative for a written entry; a scan ascends
  (the merge relies on it) and finds every intact entry.
* `Runner`, `Execute`: commands are atomic and answered from the store of their
  instant; nobody gets an answer before its effect; the mutex is always released.

`PROJECT.json` lists the hazards one by one, each at its line with the property
that would catch it.

## 2. Modules

```
 KVStore  <== refined by ==  Log             MCLog             LogProofs, CompactionProofs
                 Log + Command -> LogTests   MCLogTests        ClientProofs
 Service  <== refined by ==  Runner          MCRunner          RunnerProofs
 Header --+-> WalFile + MemTable -> LoggedMemTable
          |                                  MCLoggedMemTable  WalProofs    \ HeaderProofs
          +-> TableFile -> MergedTables      MCMergedTables    TableProofs  /  Extrema
              BloomFilter -^
```

The two halves meet in two places.  `Runner` runs on a `store` that is the `kv` of
`KVStore`, which `Log` implements: one call of the code to `Log` is one step there.
`Log` in turn takes files apart into records, maps and tables only; what `header_write`,
`header_read_next`, `flush_to`, `from_path`, `process` and the merge do to bytes, sizes and
cursors is in the modules of the files, and what these show is what `Log` builds on:

| `Log` takes for granted | shown by |
|---|---|
| `Replay`: a torn record is skipped, the others come in order, the newest wins | `ReplayInOrder`, `NewestIntactServed`, `RestartChangesNothing` |
| `Size` is the size of the entries the memtable holds | `SizeIsSum` |
| a complete table answers for each of its keys | `NoFalseNegatives`, `IntactEntriesServed` |
| `Merge` takes the least key and the newest file that has it | `ScanAscends`, `NewestScanWins` |
| a partial table may hold any of its entries and hide any of them | `TableFile` cuts at every byte |

### KVStore
The contract of `Log`: `kv`, the write that is being logged (`pending`), and for each
key the values of failed writes that may still be in the log (`doubt`).  `Begin`,
`Commit`, `Refuse`, `Crash`; `Settle` forgets doubts.

### Log
| Model | Code |
|---|---|
| `wal` | the records of `data/wal`; `Torn` is one that was cut off |
| `memtable` | `MemTable::inner`; `Size` computes `MemTable::size` |
| `sstables` | file name to table: its entries and the keys its filter lets through |
| `flush_count` | `Log::flush_count` |
| `clock` | the last timestamp; `ClockSteps` is how far it can move |
| `pc` | which disk operation comes next; `"idle"` between commands, `"down"` without a process |
| `doomed`, `todo`, `merged` | `to_delete`, the keys the merge has not reached, the output memtable of `compact` |

`ExecuteSet`, `ExecuteDelete` and `ExecuteDeleteMiss` are the arms of `execute`;
`Write` is `Log::write` (append, sync, `process`) and decides `maybe_flush`;
`FlushTable` and `Truncate` are `flush` up to and from `set_len`; `Merge` is one round
of the loop of `compact`, `Spill` one `flush_to` of its output, `Remove` one
`remove_file`.  `Crash` can happen at every `pc`, `Fail` is the `?` of the operation at
`pc`; both may leave what `Interrupted` says: a torn or complete record, a partial
table, nothing.  `Open` is `Log::new`.  `CrashAt` and `FailAt` choose where the faults
of a run can happen.

### Command, LogTests
`Command` is `Command::try_from` over words: `Named` the aliases, `Fit` the number of
arguments each arm takes, `ParseTests` the tests of the parser.  `CutLines` is what
`read_line` can return of a line whose connection breaks.

`LogTests` runs the repository's own tests on `Log`.  Each test is a script of calls
(`Log::write`, `flush`, `maybe_flush`, `compact`, a drop and a `new`, the arms of
`execute`) and expectations, named as in the code; beyond what the tests do, the process
can be killed and a disk operation can fail in every call, and the call is then made
again, up to `MaxMishaps` times in a script.  No code of the repository makes a call again;
a user who saw an error does.  Three scripts (`delete_of_flushed_key` and the two after it) are
of no test: a delete whose `contains` must ask the tables.  `ListTables` is a test's `read_dir`,
`listed` the paths it found.  `CallFlush` and `CallCompact` are the public
`flush` and `compact`, which the engine itself enters by `maybe_flush` only.  One script
is `Nil`: a client that gives any commands for ever.  The scripts' entries are below the
threshold, so that the `Write` of `Log`, which decides `maybe_flush` too, does what
`Log::write` does alone.

### Header, WalFile, TableFile, BloomFilter
A file is a sequence of cells that stand for bytes: cell *i* of record *r*, a byte of
the filter, the bit count, or a byte that was changed.  `ReadNext` is
`header_read_next`: the first intact record from the cursor on.  `WalFile` appends
records, completely or torn, truncates, flips bytes, and replays at any time.
`TableFile` is one table from the first `header_write` of `flush_to` to the last
`read_next_entry`: it can be cut off at every byte and have a byte changed, and
`from_path` reads whatever is in its last bytes as a footer.  `BloomFilter` has the
positions with their 64-bit wrap (`% Word`), bytes as sets of bits, and the two places
where a missing byte is passed over in silence.

### MemTable, LoggedMemTable
`Process` is `MemTable::process` with the size as the code keeps it, by saturating
subtraction of what is replaced; `SizeIsSum` compares it with the number of the bytes of the
entries there are (`Bytes`), which needs no recursion.  `LoggedMemTable` puts it on `WalFile`: `Write` appends
and processes, `WriteFails` is an append cut off or a whole one whose sync fails, `Flush`
moves the memtable to the tables, clears it and empties the file, `FlushFails` ends between
these: the table is written and its sync fails, or the memtable is cleared and `set_len` fails,
so that the process goes on with an empty memtable over a log whose records are in a table.
`Start` and `Rebuild` are `from_file`, one record at a time.  `tables` is what a lookup in all
the tables returns; their files are in `Log`.  Every
step of it is a step of `WalFile`, so the properties of that module are checked here.

### MergedTables
The table of `TableFile`, cut off and damaged as it may be, between a newer and an older
whole one (`Newer`, `Older`: what their scans yield, ascending sequences of keys), merged as
`compact` merges: `heads` are what the files have not yielded, their current entries first, `Retained`
the files the loop keeps, `seen_keys` the keys that have a winner, `Round` one pass.  Every
step is a step of `TableFile` or leaves it alone, so its properties are checked here.

### Service, Runner
`Service` is the contract: a command takes effect at one instant between being read
and being answered (`Serve`), and a connection that ends may take a command with it
or leave its effect without an answer (`End`).

| Model | Code |
|---|---|
| `store` | what `Log` answers |
| `holder` | whose guard is alive |
| `thread` | where in `run` and `execute` each connection's thread is |
| `line`, `buffer` | the parsed command, the contents of its `BufWriter` |
| `done` | lines carried out, which no code counts: it is there to state properties |
| `inbox`, `sent`, `received`, `taken`, `gone` | the socket and the client |

`ReadLine`, `Reject`, `Lock`, `Execute` (an arm of `execute` up to its answer), `Write`,
`MaybeFlush`, `Unlock` (the guard's scope ends) and `SendAnswer` are the thread's steps;
`Fail` is the `?` of `execute`, which drops the guard and then the `BufWriter` with what
is in it; `Disconnected` is the `?` of `read_line` and `flush`; `Kill` ends the process,
by a signal or because `accept` failed.

## 3. What TLC checks

| Run | Question | Bounds | States |
|---|---|---|---|
| `log` | Does the engine keep its contract, and is the inductive invariant one, with crashes and errors at every operation but the removals? | 2 keys, 2 values of different size, 6 table names, log of 2 before a command, a compaction every 2 flushes | 2.4 million |
| `log_remove` | With crashes and errors among the removals too, does a key that has a value keep it? Is what a compaction has written right so far? | 2 keys, 2 values, 7 names, log of 2 before a command; threshold 0 and a compaction every flush, so that one cut-off compaction meets the next | 2.8 million |
| `log_cadence` | Do the repository's tests pass when calls are interrupted and made again? Do tables stay bounded over restarts, do flush and compaction change no answer, does every command end? Does a line that broke off mean what it began with? | 4 keys, 3 small values and a large one, a compaction every 3 flushes, 11 names, 2 mishaps in a script; the client without a script: 2 keys, crashes before a command and in a write | 177 thousand |
| `table` | Is a table file right, cut off anywhere or damaged in one byte, and is a merge with a newer and an older file? | up to 3 records of 2 or 3 cells, 3 pairs of hashes, `Word` = 32, garbage bit counts 0, 10 and 1000, a newer file of 0 or 1 keys and an older one of all 3 | 300 thousand |
| `wal` | Are a replay and the memtable it makes right after torn appends, failed syncs, flips, truncations and flushes that fail on either side of the memtable's clear? | 5 records of 2 or 3 cells and 2 keys, one record smaller than what it replaces, 2 flips | 528 thousand |
| `server` | Are commands atomic, answers not early, and the mutex released? | 2 connections of 2 lines each, 1 key, 1 value, 1 answer on the wire, errors in `execute` and `maybe_flush` | 0.8 million |

Why the bounds are enough to be interesting.  In `Log` a value can be over the flush
threshold alone, two small entries can be, and one small entry is not, so flushes of
one and of two keys and flushes that do not happen are all there; six names hold two
flushes, a compaction with one or two spills, and a flush after it.  Two keys are
needed for a tombstone and a live key in one merge and for two outputs.  A compaction
every 3 flushes, with restarts between them, makes the restored `flush_count` differ
from the lost one by each possible remainder.  In `TableFile` the pairs of hashes have
`h2 = 0`, a sum that wraps at `Word`, and an ordinary one; a filter of 10 or 30 bits has a
last byte that is not full; the garbage bit counts are the one that makes every key
pass, one that lies within the file and one that is larger than it.  Two lines per
connection are a set and the delete or get that can observe another's.  Eleven names leave
room for the flushes and spills of the longest script and for those that are interrupted; two
mishaps are an interruption of a call and of the call that repeats it.  A test's four keys of one small value or a tombstone stay within the threshold of 8, as they do within
the code's four mebibytes, and a large value is over it alone: `TestsFit`, which TLC evaluates as an
assumption.  Five records over two
keys have an overwrite of an overwrite, a smaller entry between two larger ones and a flush
between two writes of a key.

What the properties say, beyond types:

* `ImplementsKVStore`: no accepted write is lost and none is invented; a failed write
  appears at a restart or never.
* `Inductive`: see section 5; TLC checks the very formula that is proved, in `log` under the
  commands and in `log_cadence` under the calls that only tests make.
* `FilterHidesNothing`: `compact`, which asks no filter, and `get`, which asks each, agree
  on every key the memtable does not answer.  A torn table breaks this for itself; what
  saves it is that the log still has all its entries.
* `CompactedOnce`: when the removals start, each key is in one output at most and no
  tombstone is left.
* `LiveKeysSurvive`: what still holds when a compaction is cut off among its removals: a key that
  has a value changes by a write to it or a failed write that surfaces, or if it was `Hidden`.
  A key is hidden when a torn table holds an entry of it that its filter denies: `get` does not
  see it, the next `compact` does.  While the log or a newer table has the key this does no harm;
  a removal that was cut off takes the newer table away.  To get there takes a torn table, a
  cut-off removal and a second compaction, which is why this run flushes and compacts at every
  chance.
* `Steady`: what is true at every step even then: types, a log that can rebuild the memtable, a
  compaction whose output is right so far.  `Inductive` is `Steady` and `FilterHidesNothing`.
* `ClientTablesBounded`: there are at most as many tables as keys in them, for the outputs of a
  compaction, and fewer than two rounds of flushes.
  `flush_count` is restored from the number of files, which is not the number of flushes
  (the comment at `log/mod.rs:65` says it is); this bound is what is left of the cadence.
* `OnlyWritesChangeAnswers`, `CommandEnds`.
* `TestsPass`: what the tests of `Log`, `compact`, `execute` and the parser expect holds when any
  of a test's calls is interrupted and made again; what was done in part, or done and not
  acknowledged, changes no outcome.  Among it: of the tables that are there before a compaction
  none is left, so a `compact` that does nothing fails.  Of the three scripts that are of no test
  it says that a delete finds a value that only a table has, and nothing where a table has a
  tombstone or a compaction dropped one; a delete that asks the memtable only fails.
* `CutKeepsCommand`: the first half of a line is no other command than the line: its only
  freedom is a last argument that is cut short, which the server cannot tell from a whole one.
* `SizeIsSum`: the size that decides about a flush never drifts from the entries it counts.
* `NewestIntactServed`: a restart serves each key from its newest intact record of the log.
* `RestartChangesNothing`: without damage and but for failed writes, a restart changes nothing of
  what memtable and tables serve together.  The memtable alone may change: after a flush that
  cleared it and failed at `set_len` it is empty, or has what was written since, and the restart
  brings the flushed records back above the table that has them too.  That they hide nothing
  there, in however many such flushes and writes to the same keys, is what the property says.
  The records that the log keeps are all of those since it was last emptied, so the newest of
  each key is among them.  With damage this fails: where the newest record of a key is damaged in
  such a log, an older one comes back above the newer one in the table.
* `NewestScanWins`, `IntactBeatsOlder`: the merge by cursors is the merge of maps that `Log`
  makes, and a damaged record lets an older entry of its own key through, not of another.
* `NoFalseNegatives`, `ScanAscends`, `IntactEntriesServed`; `ReplayInOrder`,
  `OneByteCostsOneRecord`.
* `AnsweredIsDone`: no client has an answer to a command that is not carried out.
* `ImplementsService`: linearizability, with clients that leave, errors and kills.
* `LockReleased`: whoever holds the mutex releases it, though no client need read anything.

Six other runs each check one statement of the repository's documentation that the code
does not keep, and end with a counterexample:

| Run | What happens |
|---|---|
| `resurrection` | `compact` drops a winning tombstone and removes the newest file first; a crash or error before the older ones are removed brings the deleted key back |
| `clock` | the wall clock steps back, a newer table gets a smaller name, and a flush makes `get` answer with an older entry |
| `replay` | `while let Ok(Some(..))` takes a read error for the end of the log; `Log::new` returns `Ok` without the rest of it |
| `footer` | the footer has no checksum; one changed byte makes the filter deny a key whose entry is intact |
| `ack` | `execute` writes its answer before `Log::write`; when the write fails, the dropped `BufWriter` still sends it |
| `stalled` | an answer larger than the `BufWriter` is sent with the mutex held, for as long as the client does not read |

Every property of a passing run has a mutation of the code's model that breaks it; the
mutations stand before the definitions they change, marked `Mutation`.

## 4. Fairness

`Log`: weak fairness of `Proceed`, the steps of a command that has started (`Continue` in
`LogTests`, which is `Proceed` and the script's bookkeeping).  Its thread
holds the mutex, waits for nobody, and loops over finite lists.  Nothing is assumed of
clients (a command need not come), crashes, errors or restarts.

`Runner`: weak fairness of each thread's steps, which the operating system's scheduler
gives.  Only weak: a thread that waits for the mutex may lose it to others for ever, since
Rust's `Mutex` promises no fairness, and no property here says otherwise.  None for
clients: they may never send, read or leave.  A send waits for room in the socket.

Runs with `CHECK_DEADLOCK FALSE` may really stop: a test ends with its last call, a table file is read once and done with,
and a server whose connections have ended, or whose process is gone, does nothing more.

## 5. What is proved

The theorems hold for every value of the constants; the named `ASSUME`s are what they
rest on, and TLC evaluates them in every run.

**`LogProofs`.**  `SafeEnvironment` is the setting of the run `log`: the clock only moves
forward (`ClockSteps` positive), neither crashes nor errors among the removals, and no
read error in the replay.  The runs `clock`, `resurrection` and `replay` show that each of
these is needed.  Then:

* `TypeCorrect`: `Spec => []TypeOK`, for which a clock that moves forward is enough.
* `InductiveHolds`: `Spec => []Inductive`.
* `FiltersHideNothing`: `Spec => []FilterHidesNothing`.
* `Refinement`: `Spec => ImplementsKVStore`.
* `AnswersChangeByWrites`: `Spec => OnlyWritesChangeAnswers`.
* `DeletedStaysDeleted`: `Spec => NoResurrection`, the statement that the run `resurrection`
  refutes once a compaction can be cut off among its removals: nowhere else can it fail.

`RemovalsMayFail` is the setting of `log_remove`: a clock that moves forward and a log that can be
read, with every crash and every other error.  Under it:

* `SteadyHolds`: `Spec => []Steady`.
* `LiveKeysKept`: `Spec => LiveKeysSurvive`.

`AnswersChangeByWrites` and `DeletedStaysDeleted` rest on the lemmas of the refinement, one per
action, that say which steps leave `View` as it is; what a crash can bring back is in `Doubt`.
`LiveKeysKept` is about the keys that are not hidden, of which `get` and `compact` see the same
entry: when the first original goes, by `OutputsWin` the merged tables already hold that entry if it
is a value.

The contract alone is not inductive.  `Inductive` adds: `Logged`, whatever the memtable holds
is in the log, so a crash loses nothing and a cut-off flush is harmless; `Flushed`, the
memtable is empty between the sync of its table and the truncation, so the double copy
agrees with itself; `FilterHidesNothing`, without which a torn table could let the merge
revive what `get` does not see; and `Compacting`: outputs are newer than all originals
(`OutputsNewer`) and hold exactly the winners that are values, except for keys still to come
(`OutputsWin`).  From `OutputsWin` with nothing left to come it follows that the first `Remove`
can be mapped to no change of `kv`: `View` leaves the doomed tables out from the moment the
removals start.  That mapping is right because the run has no fault among the removals; with
one, `Steady` and `LiveKeysSurvive` are what is left: of the parts of `Inductive` only
`FilterHidesNothing` is lost.

**`CompactionProofs`.**  `CompactedOnceHolds`: a clock that moves forward is enough, whatever crashes
and errors there are.  The invariant `OnceInv` says that during a compaction a key is in one place at
most, still to come, in the output that is not yet written, or in one of those that are; `Merge` and
`Spill` move keys from one place to the next.

**`HeaderProofs`, `WalProofs`.**  `Ascending` is the invariant of both files: the cells that are left
of records stand in the order of the records, and within a record in its own.  Appends keep it since
they append later cells, damage since it makes no cell of a record.  `ReadNextFinds` and
`LaterIsGreater`: what `header_read_next` returns is intact at or after the cursor, and whatever is
intact after it is a later record.  `ReplaysInOrder`: `Spec => []ReplayInOrder`, with the fact that the
last cell of a record is in the log only if its append was whole, for any records of any length and any
number of flips.

* `OneByteOneRecord`: `Spec => []OneByteCostsOneRecord`.  `CostInv` names the whole records that are not
  intact (`Lost`): an append adds none, a byte that changes adds the one it belongs to, so there are at
  most `flips` of them; and a replay has returned whatever is intact before its cursor.
* `LoggedIsWal`: `LoggedSpec => Spec`, so that what is proved of the file holds in the run `wal`.
* `SizeIsSumHolds`, `NewestIntactIsServed`, `RestartsChangeNothing`: under `LoggedSpec`, from `MemInv`:
  in a replay the memtable is that of the records returned (`Newest(Range(out))`, and each of them is
  intact); outside of one what memtable and tables serve is what the tables and over them the whole
  records whose writes succeeded would.  A flush that fails after its table is written keeps this since
  an overlay of what is there already is none (`OverlayAgain`), a write since it changes both sides in
  the same way (`OverlayInsert`).  A record that is processed
  is later than those before it, so `Insert` is what makes it the newest of its key; its size replaces a
  size that was counted, so the subtraction never saturates.

**`TableProofs`.**  `ByteForEveryPosition`: for every bit count and every hash each position has
its byte, so the silent `None` branches of `insert` and `may_contain` never run.
`NoFalseNegativesHolds`: `Spec => []NoFalseNegatives`, by two lemmas, an inserted key is contained
and stays so under other insertions.  `ScansAscend`: `Spec => []ScanAscends`, from `Ascending` and the
fact that record cells are of the keys written.  `TableTypeCorrect`: `Spec => []TypeOK`; its core is that
`from_path`, whatever bytes are the last ones, refuses the file or puts the footer within it and finds a
byte for each bit.

* `IntactEntriesAreServed`: `Spec => []IntactEntriesServed`.  `ServedInv` says that a scan has returned what
  is intact before its cursor, at its end what is intact before its footer, and nothing else; `OpenedInv`
  that a footer that is as written is read back as the filter that was written.  A record and an intact
  footer share no cell, so every intact record is before it.
* `MergedIsTable`: `MergedSpec => Spec`, so that what is proved of the table holds in the run `table`.
* `NewestScanAlwaysWins`, `IntactAlwaysBeatsOlder`: under `MergedSpec`, for a damaged file between any two
  others.  `HeadsInv` says that what a file has not yielded ascends, is larger than every key that has a
  winner, and is with those all that it yields; that the least head is the least key left, and the files
  whose head it is are all its holders, follows (`WinnerInv`).

**`RunnerProofs`.**  `WritesSucceed` is the setting of the run `server`: a buffered writer, and no
error of `Log::write`; the run `ack` shows that it is needed.  Unlike in that run, answers may be
larger than the buffer (`Large` is any set of values).

* `AnswersFollowWrites`: `Spec => [](Mutex /\ AnsweredIsDone)`: one thread at a time in `execute`, and no
  early answer.
* `RunnerTypeCorrect`: `Spec => []TypeOK`.
* `Linearizable`: `Spec => ImplementsService`.

The invariant `RunnerInv` relates each thread's place to the guard, to the command in hand and to
the buffer; its core is that between `Execute` and `Write` the prepared answer is still the answer
of the present store (`HandOf`), which holds because only the holder of the mutex writes.  `Write`
is then the instant of a set and of a delete that hits; `Execute` that of every other command.

**`ClientProofs`.**  Results about the clients of `LogTests`.

* `ClientTablesStayBounded`: `FairTests => []ClientTablesBounded`, for any finite set of keys, any
  cadence and any threshold.  `CountInv` follows how many tables there are beyond the flushes that are
  counted since one was last due to compact: none but one per key; or, after a restart, which takes
  the files it finds for flushes, not so many more that one of them would have been due.  That every
  output of a compaction has a key, and no key is in two of them (`OnceInv`), bounds what a compaction
  leaves by the keys there are.  `FreeClient` is the setting of the run: besides a clock that
  moves forward, the process is killed before a command or in an append.  A crash in a flush or in the
  truncation after it can leave a table and swallow the compaction that was due, every time, so that
  nothing bounds the tables then; `NilIsNoScript` says that the value for "no script" is not itself a
  sequence.
* `CutsKeepCommands`: `FairTests => []CutKeepsCommand`, for all lines and all cuts.
  `CutsAreBeginnings` says which words the twelve names and aliases can be cut off to; that none of
  these is another command without arguments is proved from the table of aliases
  (`BeginningKeepsCommand`), and that the arguments are those of the line follows from how
  `try_from` counts them (`CommandOf`).
* `TestsAlwaysPass`: `FairTests => []TestsPass`, for any number of crashes and errors in any of a
  test's calls, any keys and values beside those of the tests, any cadence of the compactions.
* `TestsKeepInductive`: `FairTests => []Inductive`, the engine's invariant under the calls that only
  tests make: a `flush` and a `compact` that are not due, and a log that is dropped and opened again.
* `TestCallsChangeNoAnswer`: `FairTests => OnlyWritesChangeAnswers`, for the same calls.

The last three rest on `TestsMayRun`, the setting of the run: `SafeEnvironment`; `TestsFit`, that the
tests' keys are four, their entries below the threshold and their words in lower case; and `FreeFits`,
that other clients use keys and values of the engine.  The tests cannot be taken one by one, since one
call of a test has as many states as the engine has steps and mishaps.  The invariant `TestInv` says
instead that there is something a test can know of the engine (`Known`: what each key has, which keys
the memtable has, what bounds the number of tables) of which two things hold.  It is enough for all that
is left of the script (`WillPass`: each step is `Ready`, and `After` gives what is known next).  And the
engine is where that says or on the way to where the step in hand will take it (`Tracks`): an answer is
the known one or what the write in hand aims at, and so is what a failed write may leave in doubt; the
memtable, and the log as a replay would read it, have the known keys or those of the write too; a flush
that was cut off has lost nothing of what it is there to flush.  One lemma per step of the engine shows
`Tracks` kept or, where the call ends, that it holds of what is known `After` it (`WriteTracks` to
`RemoveTracks`, `CrashTracks`, `FailTracks`, `OpenTracks`); `CallTracks` shows that every call starts
right.  `Ready` also says what all the scripts keep to: something is there to flush, and a compaction
finds the memtable empty.  A delete adds to the memtable if its key has a value (`Adds`); made again, it
finds none only where its own tombstone already is (`Buried`).  `files` has 0 or 1 where there are no
more tables than that, and `NoneListed` where none is left of those that were listed, which a compaction
brings about (`NoneLeft`).  That the 33 scripts of the engine are `Ready` from beginning to end is proved by
running them on what is known (`Goes`, `Runs`, `ScriptsPass`), and the parser's tests by the number of
words of a line (`OutcomeIs`).  TLC checked `Tracks`, with what is known as a history variable, before
it was proved.

`Extrema` proves that a non-empty set of naturals has a least element, which is `Min`, and one that is
bounded a greatest, which is `Max`.

**Only model-checked.**  Liveness (`CommandEnds`, `LockReleased`), which is out of the prover's
reach, as is anything about `ENABLED`; and the counterexamples.  Every invariant and every action
property of a passing run is stated by a theorem.  Induction over data is out of the prover's reach too: a fact about a
recursively defined value for every input cannot be proved.  That is why the modules have no
recursive operator and say what a replay, a scan or a memtable is directly: by the newest of a set of
records, or by counting bytes.

## 6. What is not modelled

* A power loss.  File operations are taken as durable in program order, as they are when a
  process is killed.  The code syncs files and not their folder, and does not sync `set_len`.
* Two processes on one data folder: no lock file prevents it, no text allows it.
* `Log::new` with `truncate = true`: tests only.
* Bytes that pass for a record by chance (magic and CRC32 both right).
* `wincode`, `xxh3` and `crc32fast`: an encoding that can be read back, two arbitrary numbers, a
  check that finds every change.
* The splitting of a line into characters and words, and the texts of errors and of the help.
* A poisoned mutex: `execute` has no path to a panic, the lints of `Cargo.toml` deny them.
* The four-mebibyte threshold and ten flushes: constants of the model, any values.
* Tests whose expectation is a text that is printed, the layout of bytes, or a line over a socket;
  tests of `MemTable` and of the record format, whose subjects are checked by `wal` and `table`; `demo/`.
* The CLI without a buffer, beyond what the run `ack` says of it: its writer is the terminal, so that an
  answer is out before its write by construction, and nobody waits for its mutex.
* More than one merged table that is damaged: `MergedTables` damages one of three.
* `tui.rs`.

## 7. Plan

Done, in this order: `Log` with its contract and proofs; the files; the server with its contract and
proofs; the memtable and the merge on top of the files; the parser and the tests; the proofs of
scans, replays and compactions; the proofs of what a restart, a table and a merge of damaged files serve,
of what compactions that are cut off leave, and of the clients: the tables that pile up, the lines that
are cut, and the tests that are interrupted.

What would come next:

1. A module that puts `Runner` on `Log` instead of `store`, for one connection and a crash, with the
   restart in it.
2. `ImplementsKVStore` with removals that are cut off, from a contract that lets a deleted key come
   back with a value it had.
