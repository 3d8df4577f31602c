---------------------------- MODULE ClientProofs ----------------------------
(***************************************************************************)
(* What is proved of the clients.  How many tables pile up under one that  *)
(* follows no script: for every number of keys, every cadence of the       *)
(* compactions and every threshold, however restarts fall between the      *)
(* flushes.  What is left of any line when its connection breaks.  And     *)
(* that the repository's tests pass however they are interrupted.          *)
(***************************************************************************)
EXTENDS LogTests, CompactionProofs

(* Finitely many keys, a clock that moves forward between two tables, and a
   process that is killed between commands or before an append ends.  Where a
   process is killed in its flushes the bound is false: see TablesBounded. *)
FreeClient ==
    /\ IsFiniteSet(Keys)
    /\ ClockForward
    /\ FreeKeys \subseteq Keys /\ FreeValues \subseteq Values
    /\ FreeCrashAt \subseteq {"idle", "write"}

(* Nil, which stands for no script, is not the rest of one. *)
NilIsNoScript == Nil # [i \in DOMAIN Nil |-> Nil[i]]

-----------------------------------------------------------------------------
(* Counting. *)

LEMMA Quotient ==
    ASSUME NEW x \in Nat, NEW n \in Nat \ {0}
    PROVE  /\ x \div n \in Int /\ x % n \in 0 .. n - 1
           /\ x = n * (x \div n) + (x % n)
OBVIOUS

LEMMA NextModulo ==
    ASSUME NEW x \in Nat, NEW n \in Nat \ {0}
    PROVE  /\ x % n \in 0 .. n - 1
           /\ (x + 1) % n = IF (x % n) + 1 = n THEN 0 ELSE (x % n) + 1
<1> DEFINE q == x \div n
           r == x % n
           p == (x + 1) \div n
           s == (x + 1) % n
<1>1. /\ q \in Int /\ r \in 0 .. n - 1 /\ x = n * q + r
      /\ p \in Int /\ s \in 0 .. n - 1 /\ x + 1 = n * p + s
  <2>1. x + 1 \in Nat
    OBVIOUS
  <2> QED
    BY <2>1, Quotient
<1> HIDE DEF q, r, p, s
<1> DEFINE diff == p - q
<1>2. diff \in Int /\ n * diff = (r + 1) - s
  BY <1>1
<1> HIDE DEF diff
<1>3. diff = 0 \/ diff = 1
  <2>1. ASSUME diff >= 2 PROVE FALSE
    <3>1. n * diff >= n * 2
      BY <1>2, <2>1
    <3> QED
      BY <1>1, <1>2, <3>1
  <2>2. ASSUME diff <= -1 PROVE FALSE
    <3>1. n * diff <= n * (-1)
      BY <1>2, <2>2
    <3> QED
      BY <1>1, <1>2, <3>1
  <2> QED
    BY <1>2, <2>1, <2>2
<1>4. CASE diff = 0
  <2>1. s = r + 1
    BY <1>1, <1>2, <1>4
  <2> QED
    BY <1>1, <2>1 DEF r, s
<1>5. CASE diff = 1
  <2>1. s = (r + 1) - n
    BY <1>1, <1>2, <1>5
  <2> QED
    BY <1>1, <2>1 DEF r, s
<1> QED
  BY <1>3, <1>4, <1>5

(* A set is no larger than one into which it can be mapped apart. *)
LEMMA NoLarger ==
    ASSUME NEW S, NEW T, IsFiniteSet(T), NEW f \in [S -> T],
           \A x, y \in S : f[x] = f[y] => x = y
    PROVE  IsFiniteSet(S) /\ Cardinality(S) <= Cardinality(T)
<1>1. f \in Injection(S, T)
  BY DEF Injection, IsInjective
<1> QED
  BY <1>1, FS_Injection

(* No entries, no size: the output of a merge that is empty is not spilled. *)
LEMMA SizeOfEmpty == Size(Empty) = 0
BY DEF Present, Empty, Size, SumFunctionOnSet, FoldFunctionOnSet, MapThenFoldSet

LEMMA SpillsSomething ==
    ASSUME NEW rest, NEW m \in [Keys -> Slot], MergeStep(rest, m) = "spill"
    PROVE  Present(m) # {}
<1> SUFFICES ASSUME Present(m) = {} PROVE FALSE
  OBVIOUS
<1>1. m = Empty
  BY DEF Present, Empty
<1>2. ~ShouldFlush(m)
  BY <1>1, SizeOfEmpty, BoundsAssumption DEF ShouldFlush
<1> QED
  BY <1>2 DEF MergeStep

-----------------------------------------------------------------------------
(* The invariant. *)

HeldKeys(T) == {k \in Keys : Holding(T, k) # {}}

Held == Cardinality(HeldKeys(sstables))

TableCount == Cardinality(DOMAIN sstables)

SinceDue == flush_count % CompactEvery

(* Of n tables those past the last compaction that was due are as many as the
   flushes since then.  Before that there is at most one per key; or, after a
   restart, which takes the files it finds for flushes, not so many more that
   a compaction would have been due among them. *)
Bounded(n) ==
    \/ n - SinceDue <= Held
    \/ n % CompactEvery = SinceDue /\ n - SinceDue <= Held + CompactEvery - 1

CountInv ==
    /\ pc \in {"idle", "down", "write", "flush"} => Bounded(TableCount)
    /\ pc = "truncate" => DOMAIN sstables # {} /\ Bounded(TableCount - 1)
    /\ pc = "spill" => Present(merged) # {}
    /\ Running =>
          /\ flush_count % CompactEvery = 0
          /\ doomed # {}
          /\ \A n \in Outputs : Present(sstables[n].entries) # {}

FreeInv == TypeOK /\ OnceInv /\ CountInv

LEMMA TablesAreFinite ==
    ASSUME IsFiniteSet(Keys), NEW last \in Nat, NEW T, DOMAIN T \subseteq 0 .. last
    PROVE  /\ IsFiniteSet(DOMAIN T) /\ Cardinality(DOMAIN T) \in Nat
           /\ IsFiniteSet(HeldKeys(T)) /\ Cardinality(HeldKeys(T)) \in Nat
<1>1. IsFiniteSet(0 .. last)
  BY FS_Interval
<1>2. IsFiniteSet(DOMAIN T)
  BY <1>1, FS_Subset
<1>3. HeldKeys(T) \subseteq Keys
  BY DEF HeldKeys
<1>4. IsFiniteSet(HeldKeys(T))
  BY <1>3, FS_Subset
<1> QED
  BY <1>2, <1>4, FS_CardinalityType

LEMMA Counts ==
    ASSUME TypeOK, IsFiniteSet(Keys)
    PROVE  /\ IsFiniteSet(DOMAIN sstables) /\ TableCount \in Nat
           /\ IsFiniteSet(HeldKeys(sstables)) /\ Held \in Nat
           /\ CompactEvery \in Nat \ {0} /\ flush_count \in Nat
           /\ SinceDue \in 0 .. CompactEvery - 1
<1>1. CompactEvery \in Nat \ {0} /\ flush_count \in Nat
  BY BoundsAssumption DEF TypeOK
<1>2. SinceDue \in 0 .. CompactEvery - 1
  BY <1>1, NextModulo DEF SinceDue
<1>3. DOMAIN sstables \subseteq 0 .. clock /\ clock \in Nat
  BY DEF TypeOK
<1> QED
  BY <1>1, <1>2, <1>3, TablesAreFinite DEF TableCount, Held

(* At the start and after a restart. *)
LEMMA OpenCounts ==
    ASSUME FreeInv, TypeOK', IsFiniteSet(Keys), Open
    PROVE  CountInv'
<1>1. /\ pc = "down" /\ pc' = "idle" /\ UNCHANGED <<sstables, doomed>>
      /\ flush_count' = TableCount
  BY DEF Open, compactVars, TableCount
<1>2. /\ TableCount' = TableCount /\ Held' = Held
  BY <1>1 DEF TableCount, Held
<1>3. /\ TableCount \in Nat /\ Held \in Nat /\ CompactEvery \in Nat \ {0}
      /\ SinceDue \in 0 .. CompactEvery - 1
  BY Counts DEF FreeInv
<1>4. /\ SinceDue' = TableCount % CompactEvery
      /\ SinceDue' \in 0 .. CompactEvery - 1
  BY <1>1, <1>3, NextModulo DEF SinceDue
<1>5. Bounded(TableCount)
  BY <1>1 DEF FreeInv, CountInv
<1>6. TableCount - SinceDue' <= Held + CompactEvery - 1
  <2>1. CASE TableCount - SinceDue <= Held
    BY <1>3, <1>4, <2>1
  <2>2. CASE /\ TableCount % CompactEvery = SinceDue
             /\ TableCount - SinceDue <= Held + CompactEvery - 1
    BY <1>4, <2>2
  <2> QED
    BY <1>5, <2>1, <2>2 DEF Bounded
<1>7. Bounded(TableCount)'
  BY <1>2, <1>4, <1>6 DEF Bounded
<1> QED
  BY <1>1, <1>7 DEF CountInv, Running

(* A step that changes no table and counts no flush, outside of a compaction. *)
LEMMA NothingCounted ==
    ASSUME CountInv, UNCHANGED <<sstables, flush_count>>,
           pc \in {"idle", "down", "write", "flush"},
           pc' \in {"idle", "down", "write", "flush"}
    PROVE  CountInv'
<1>1. TableCount' = TableCount /\ Held' = Held /\ SinceDue' = SinceDue
  BY DEF TableCount, Held, SinceDue
<1>2. Bounded(TableCount)'
  BY <1>1 DEF CountInv, Bounded
<1> QED
  BY <1>2 DEF CountInv, Running

(* A flush adds one table under a name of its own. *)
LEMMA FlushCounts ==
    ASSUME FreeInv, TypeOK', IsFiniteSet(Keys), ClockForward, FlushTable
    PROVE  CountInv'
<1>1. /\ pc = "flush" /\ pc' = "truncate" /\ flush_count' = flush_count
      /\ AddTable(Complete(memtable))
  BY DEF FlushTable
<1>2. Complete(memtable) \in Table
  BY CompleteType DEF FreeInv, TypeOK
<1>3. /\ clock' \in Nat /\ clock < clock' /\ clock \in Nat
      /\ sstables' = With(sstables, clock', Complete(memtable))
  BY <1>1, <1>2, AddTableType DEF FreeInv, TypeOK
<1>4. /\ DOMAIN sstables' = DOMAIN sstables \cup {clock'}
      /\ clock' \notin DOMAIN sstables
      /\ \A n \in DOMAIN sstables : sstables'[n] = sstables[n]
  BY <1>3 DEF With, FreeInv, TypeOK
<1>5. /\ IsFiniteSet(DOMAIN sstables) /\ TableCount \in Nat /\ Held \in Nat
      /\ CompactEvery \in Nat \ {0} /\ SinceDue \in 0 .. CompactEvery - 1
  BY Counts DEF FreeInv
<1>6. TableCount' = TableCount + 1
  BY <1>4, <1>5, FS_AddElement DEF TableCount
<1>7. Held <= Held'
  <2>1. HeldKeys(sstables) \subseteq HeldKeys(sstables')
    BY <1>4 DEF HeldKeys, Holding
  <2>2. IsFiniteSet(HeldKeys(sstables'))
    BY <1>3, TablesAreFinite DEF TypeOK
  <2> QED
    BY <2>1, <2>2, FS_Subset DEF Held
<1>8. Bounded(TableCount) /\ SinceDue' = SinceDue
  BY <1>1 DEF FreeInv, CountInv, SinceDue
<1>9. Bounded(TableCount - 1)'
  <2>1. TableCount' - 1 = TableCount
    BY <1>5, <1>6
  <2>2. Held' \in Nat
    BY TablesAreFinite DEF TypeOK, Held
  <2> QED
    BY <1>5, <1>7, <1>8, <2>1, <2>2 DEF Bounded
<1>10. DOMAIN sstables' # {}
  BY <1>4
<1> QED
  BY <1>1, <1>9, <1>10 DEF CountInv, Running

(* The flush is counted; when one is due, all tables are to be compacted. *)
LEMMA TruncateCounts ==
    ASSUME FreeInv, TypeOK', IsFiniteSet(Keys), Truncate
    PROVE  CountInv'
<1>1. /\ pc = "truncate" /\ flush_count' = flush_count + 1
      /\ UNCHANGED <<sstables, merged>>
      /\ merged = Empty
  BY DEF Truncate, FreeInv, OnceInv
<1>2. /\ TableCount \in Nat /\ Held \in Nat /\ CompactEvery \in Nat \ {0}
      /\ flush_count \in Nat /\ SinceDue \in 0 .. CompactEvery - 1
      /\ IsFiniteSet(DOMAIN sstables)
  BY Counts DEF FreeInv
<1>3. /\ DOMAIN sstables # {} /\ Bounded(TableCount - 1)
  BY <1>1 DEF FreeInv, CountInv
<1>4. TableCount - 1 \in Nat
  <2>1. TableCount # 0
    BY <1>2, <1>3, FS_EmptySet DEF TableCount
  <2> QED
    BY <1>2, <2>1
<1>5. TableCount' = TableCount /\ Held' = Held
  BY <1>1 DEF TableCount, Held
<1>6. SinceDue' = IF SinceDue + 1 = CompactEvery THEN 0 ELSE SinceDue + 1
  BY <1>1, <1>2, NextModulo DEF SinceDue
<1>7. CASE flush_count' % CompactEvery = 0
  <2>1. /\ doomed' = DOMAIN sstables /\ pc' = MergeStep(todo', Empty)
    BY <1>1, <1>7 DEF Truncate, StartCompaction
  <2>2. pc' \in {"merge", "remove"}
    <3>1. Empty \in [Keys -> Slot] /\ Present(Empty) = {} /\ todo' \in SUBSET Keys
      BY DEF Empty, Slot, Present, TypeOK
    <3> QED
      BY <2>1, <3>1, MergeStepPlaces, SpillsSomething
  <2>3. Outputs' = {}
    BY <1>1, <2>1 DEF Outputs
  <2> QED
    BY <1>3, <1>7, <2>1, <2>2, <2>3 DEF CountInv, Running
<1>8. CASE flush_count' % CompactEvery # 0
  <2>1. pc' = "idle"
    BY <1>8 DEF Truncate
  <2>2. SinceDue' = SinceDue + 1 /\ SinceDue + 1 # CompactEvery
    BY <1>6, <1>8 DEF SinceDue
  <2>3. CASE (TableCount - 1) - SinceDue <= Held
    <3>1. TableCount - SinceDue' <= Held
      BY <1>2, <2>2, <2>3
    <3> QED
      BY <1>5, <2>1, <3>1 DEF CountInv, Running, Bounded
  <2>4. CASE /\ (TableCount - 1) % CompactEvery = SinceDue
             /\ (TableCount - 1) - SinceDue <= Held + CompactEvery - 1
    <3>1. TableCount % CompactEvery = SinceDue'
      <4>1. (TableCount - 1) + 1 = TableCount
        BY <1>2
      <4>2. TableCount % CompactEvery =
               IF SinceDue + 1 = CompactEvery THEN 0 ELSE SinceDue + 1
        BY <1>2, <1>4, <2>4, <4>1, NextModulo
      <4> QED
        BY <2>2, <4>2
    <3>2. TableCount - SinceDue' <= Held + CompactEvery - 1
      BY <1>2, <2>2, <2>4
    <3> QED
      BY <1>5, <2>1, <3>1, <3>2 DEF CountInv, Running, Bounded
  <2> QED
    BY <1>3, <2>3, <2>4 DEF Bounded
<1> QED
  BY <1>7, <1>8

LEMMA MergeCounts ==
    ASSUME FreeInv, TypeOK', Merge
    PROVE  CountInv'
<1>1. /\ pc = "merge" /\ UNCHANGED <<sstables, flush_count, doomed>>
      /\ pc' = MergeStep(todo', merged')
  BY DEF Merge
<1>2. merged' \in [Keys -> Slot] /\ todo' \in SUBSET Keys
  BY DEF TypeOK
<1>3. /\ pc' \in {"merge", "spill", "remove"}
      /\ pc' = "spill" => Present(merged') # {}
  BY <1>1, <1>2, MergeStepPlaces, SpillsSomething
<1>4. Outputs' = Outputs
  BY <1>1 DEF Outputs
<1> QED
  BY <1>1, <1>3, <1>4 DEF FreeInv, CountInv, Running

LEMMA SpillCounts ==
    ASSUME FreeInv, TypeOK', ClockForward, Spill
    PROVE  CountInv'
<1>1. /\ pc = "spill" /\ AddTable(Complete(merged)) /\ pc' \in {"merge", "remove"}
      /\ UNCHANGED <<flush_count, doomed>>
  BY DEF Spill
<1>2. Complete(merged) \in Table /\ Complete(merged).entries = merged
  BY CompleteType DEF FreeInv, TypeOK, Complete
<1>3. /\ clock' \in Nat /\ clock < clock' /\ clock \in Nat
      /\ sstables' = With(sstables, clock', Complete(merged))
  BY <1>1, <1>2, AddTableType DEF FreeInv, TypeOK
<1>4. /\ DOMAIN sstables' = DOMAIN sstables \cup {clock'}
      /\ sstables'[clock'].entries = merged
      /\ \A n \in DOMAIN sstables : sstables'[n] = sstables[n] /\ n # clock'
  BY <1>2, <1>3 DEF With, FreeInv, TypeOK
<1>5. /\ Running /\ Present(merged) # {}
      /\ flush_count % CompactEvery = 0 /\ doomed # {}
      /\ \A n \in Outputs : Present(sstables[n].entries) # {}
  BY <1>1 DEF FreeInv, CountInv, Running
<1>6. \A n \in Outputs' : Present(sstables'[n].entries) # {}
  <2>1. \A n \in Outputs' : n = clock' \/ n \in Outputs
    BY <1>1, <1>4 DEF Outputs
  <2> QED
    BY <1>4, <1>5, <2>1 DEF Outputs
<1> QED
  BY <1>1, <1>5, <1>6 DEF CountInv, Running

(* Tables that share no key and are none of them empty are no more than the
   keys they hold. *)
LEMMA TablesPerKey ==
    ASSUME IsFiniteSet(Keys), NEW last \in Nat, NEW T, DOMAIN T \subseteq 0 .. last,
           \A n \in DOMAIN T : Present(T[n].entries) # {},
           \A k \in Keys : \A n, m \in DOMAIN T :
              T[n].entries[k] # Nil /\ T[m].entries[k] # Nil => n = m
    PROVE  Cardinality(DOMAIN T) <= Cardinality(HeldKeys(T))
<1> DEFINE key == [n \in DOMAIN T |-> CHOOSE k \in Keys : T[n].entries[k] # Nil]
<1>1. \A n \in DOMAIN T : key[n] \in Keys /\ T[n].entries[key[n]] # Nil
  BY DEF Present
<1>2. key \in [DOMAIN T -> HeldKeys(T)]
  <2>1. \A n \in DOMAIN T : n \in Holding(T, key[n])
    BY <1>1 DEF Holding
  <2>2. \A n \in DOMAIN T : key[n] \in HeldKeys(T)
    BY <1>1, <2>1 DEF HeldKeys
  <2> QED
    BY <2>2
<1> HIDE DEF key
<1>3. \A n, m \in DOMAIN T : key[n] = key[m] => n = m
  BY <1>1
<1>4. IsFiniteSet(HeldKeys(T))
  BY TablesAreFinite
<1> QED
  BY <1>2, <1>3, <1>4, NoLarger

LEMMA RemoveCounts ==
    ASSUME FreeInv, TypeOK', IsFiniteSet(Keys), Remove
    PROVE  CountInv'
<1> DEFINE x == Max(doomed)
           D == DOMAIN sstables \ {x}
<1>1. /\ pc = "remove" /\ doomed' = doomed \ {x}
      /\ sstables' = Restrict(sstables, D)
      /\ UNCHANGED flush_count
      /\ pc' = IF doomed' = {} THEN "idle" ELSE "remove"
  BY DEF Remove
<1>2. /\ flush_count % CompactEvery = 0 /\ flush_count' % CompactEvery = 0
      /\ doomed # {}
      /\ \A k \in Keys : PlaceOf(k)
      /\ \A n \in Outputs : Present(sstables[n].entries) # {}
  BY <1>1 DEF FreeInv, CountInv, OnceInv, Running
<1> HIDE DEF x
<1>3. DOMAIN sstables' = D /\ \A n \in D : sstables'[n] = sstables[n]
  BY <1>1, RestrictIs
<1>4. Outputs' \subseteq Outputs /\ \A n \in Outputs' : sstables'[n] = sstables[n]
  BY <1>1, <1>3 DEF Outputs
<1>5. \A n \in Outputs' : Present(sstables'[n].entries) # {}
  BY <1>2, <1>4
<1>6. CASE doomed' = {}
  <2>1. pc' = "idle"
    BY <1>1, <1>6
  <2>2. DOMAIN sstables' = Outputs
    <3>1. doomed = {x}
      BY <1>1, <1>2, <1>6
    <3> QED
      BY <1>3, <3>1 DEF Outputs
  <2>3. \A n \in Outputs : sstables'[n] = sstables[n]
    BY <1>3, <2>2
  <2>4. ASSUME NEW k \in Keys, NEW n \in Outputs, NEW m \in Outputs,
               sstables'[n].entries[k] # Nil, sstables'[m].entries[k] # Nil
        PROVE  n = m
    BY <1>2, <2>3, <2>4 DEF PlaceOf
  <2>5. Cardinality(DOMAIN sstables') <= Cardinality(HeldKeys(sstables'))
    <3>1. /\ clock' \in Nat /\ DOMAIN sstables' \subseteq 0 .. clock'
          /\ \A n \in DOMAIN sstables' : Present(sstables'[n].entries) # {}
      BY <1>2, <2>2, <2>3 DEF TypeOK
    <3> QED
      BY <2>2, <2>4, <3>1, TablesPerKey
  <2>6. SinceDue' = 0
    BY <1>2 DEF SinceDue
  <2>7. TableCount' \in Nat /\ Held' \in Nat
    BY TablesAreFinite DEF TypeOK, TableCount, Held
  <2>8. TableCount' - SinceDue' <= Held'
    BY <2>5, <2>6, <2>7 DEF TableCount, Held
  <2> QED
    BY <2>1, <2>8 DEF CountInv, Running, Bounded
<1>7. CASE doomed' # {}
  BY <1>1, <1>2, <1>5, <1>7 DEF CountInv, Running
<1> QED
  BY <1>6, <1>7

(* What happens to Log under such a client. *)
FreeNext ==
    \/ \E k \in Keys, v \in Values : ExecuteSet(k, v)
    \/ \E k \in Keys : ExecuteDelete(k) \/ ExecuteDeleteMiss(k)
    \/ Proceed
    \/ pc \in {"idle", "write"} /\ Crash
    \/ Open

LEMMA FreeInvNext ==
    ASSUME FreeClient, FreeInv, [FreeNext]_vars
    PROVE  FreeInv'
<1>1. IsFiniteSet(Keys) /\ ClockForward
  BY DEF FreeClient
<1>2. TypeOK' /\ OnceInv'
  <2>1. [Next]_vars
    BY DEF FreeNext, Next
  <2> QED
    BY <1>1, <2>1, TypeOKStep, OnceInvStep DEF FreeInv
<1> SUFFICES CountInv'
  BY <1>2 DEF FreeInv
<1>3. ASSUME NEW k \in Keys,
             (\E v \in Values : ExecuteSet(k, v)) \/ ExecuteDelete(k)
               \/ ExecuteDeleteMiss(k)
      PROVE  CountInv'
  <2>1. /\ pc = "idle" /\ pc' \in {"write", "flush", "idle"}
        /\ UNCHANGED <<sstables, flush_count>>
    BY <1>3 DEF ExecuteSet, ExecuteDelete, ExecuteDeleteMiss, MaybeFlush
  <2> QED
    BY <2>1, NothingCounted DEF FreeInv
<1>4. CASE Write
  <2>1. /\ pc = "write" /\ pc' \in {"flush", "idle"}
        /\ UNCHANGED <<sstables, flush_count>>
    BY <1>4 DEF Write, MaybeFlush
  <2> QED
    BY <2>1, NothingCounted DEF FreeInv
<1>5. CASE FlushTable
  BY <1>1, <1>2, <1>5, FlushCounts
<1>6. CASE Truncate
  BY <1>1, <1>2, <1>6, TruncateCounts
<1>7. CASE Merge
  BY <1>2, <1>7, MergeCounts
<1>8. CASE Spill
  BY <1>1, <1>2, <1>8, SpillCounts
<1>9. CASE Remove
  BY <1>1, <1>2, <1>9, RemoveCounts
<1>10. CASE pc \in {"idle", "write"} /\ Crash
  <2>1. /\ pc \in {"idle", "write"} /\ pc' = "down"
        /\ UNCHANGED <<sstables, flush_count>>
    BY <1>10 DEF Crash, Interrupted
  <2> QED
    BY <2>1, NothingCounted DEF FreeInv
<1>11. CASE Open
  BY <1>1, <1>2, <1>11, OpenCounts
<1>12. CASE UNCHANGED vars
  BY <1>12 DEF vars, FreeInv, CountInv, Bounded, TableCount, Held, SinceDue,
               Running, Outputs
<1> QED
  BY <1>2, <1>3, <1>4, <1>5, <1>6, <1>7, <1>8, <1>9, <1>10, <1>11, <1>12
  DEF FreeNext, Proceed

LEMMA FreeInvInit == FreeClient /\ Init => FreeInv
<1> SUFFICES ASSUME FreeClient, Init PROVE FreeInv
  OBVIOUS
<1>1. TypeOK /\ OnceInv
  BY TypeOKInit DEF Init, OnceInv, Running
<1>2. TableCount = 0 /\ SinceDue = 0 /\ Held \in Nat /\ pc = "idle"
  <2>1. DOMAIN sstables = {} /\ flush_count = 0 /\ pc = "idle"
    BY DEF Init
  <2>2. Held \in Nat
    BY <1>1, Counts DEF FreeClient
  <2>3. 0 % CompactEvery = 0
    BY BoundsAssumption
  <2> QED
    BY <2>1, <2>2, <2>3, FS_EmptySet DEF TableCount, SinceDue
<1> QED
  BY <1>1, <1>2 DEF FreeInv, CountInv, Bounded, Running

LEMMA FreeInvBounds ==
    ASSUME FreeClient, FreeInv
    PROVE  TablesBounded
<1> SUFFICES ASSUME pc = "idle"
             PROVE  TableCount <= Held + 2 * CompactEvery - 2
  BY DEF TablesBounded, TableCount, Held, HeldKeys
<1>1. /\ TableCount \in Nat /\ Held \in Nat /\ CompactEvery \in Nat \ {0}
      /\ SinceDue \in 0 .. CompactEvery - 1
  BY Counts DEF FreeInv, FreeClient
<1>2. Bounded(TableCount)
  BY DEF FreeInv, CountInv
<1> QED
  BY <1>1, <1>2 DEF Bounded

(* A client without a script has had none, and goes on with steps of Log. *)
LEMMA FreeStep ==
    ASSUME FreeClient, NilIsNoScript, [TestNext]_testVars, script' = Nil
    PROVE  script = Nil /\ [FreeNext]_vars
<1>1. Scripted => Tail(script) # Nil
  BY DEF Scripted, NilIsNoScript
<1>2. CASE AnyCommand
  BY <1>2 DEF AnyCommand, FreeNext, FreeClient
<1>3. CASE AnyCrash
  BY <1>3 DEF AnyCrash, FreeNext, FreeClient
<1>4. CASE Start \/ ListTables \/ Expect \/ Mishap
  <2>1. Scripted /\ script' \in {script, Tail(script)}
    BY <1>4 DEF Start, ListTables, Expect, Mishap
  <2> QED
    BY <1>1, <2>1 DEF Scripted
<1>5. CASE Continue
  <2>1. Proceed /\ script' = IF pc' = "idle" /\ Scripted THEN Tail(script) ELSE script
    BY <1>5 DEF Continue
  <2> QED
    BY <1>1, <2>1 DEF FreeNext
<1>6. CASE Restart
  BY <1>6 DEF Restart, FreeNext
<1>7. CASE UNCHANGED testVars
  BY <1>7 DEF testVars, vars
<1> QED
  BY <1>2, <1>3, <1>4, <1>5, <1>6, <1>7 DEF TestNext

(* However restarts fall between the flushes of a client that follows no
   script, its tables do not pile up: for every number of keys, every cadence
   and every threshold (flush, new, compact). *)
THEOREM ClientTablesStayBounded ==
    FreeClient /\ NilIsNoScript => (FairTests => []ClientTablesBounded)
<1> SUFFICES ASSUME FreeClient, NilIsNoScript
             PROVE  FairTests => []ClientTablesBounded
  OBVIOUS
<1> DEFINE Inv == script = Nil => FreeInv
<1>1. TestInit => Inv
  BY FreeInvInit DEF TestInit
<1>2. Inv /\ [TestNext]_testVars => Inv'
  BY FreeStep, FreeInvNext
<1>3. Inv => ClientTablesBounded
  BY FreeInvBounds DEF ClientTablesBounded
<1> QED
  BY <1>1, <1>2, <1>3, PTL DEF FairTests

-----------------------------------------------------------------------------
(* Lines that are cut off. *)

(* The beginnings of the names and aliases of the commands. *)
NameBeginnings ==
    [set    |-> {"s", "se"},
     s      |-> {},
     get    |-> {"g", "ge"},
     g      |-> {},
     delete |-> {"d", "de", "del", "dele", "delet"},
     del    |-> {"d", "de"},
     d      |-> {},
     quit   |-> {"q", "qu", "qui"},
     q      |-> {},
     exit   |-> {"e", "ex", "exi"},
     help   |-> {"h", "he", "hel"},
     h      |-> {}]

(* What is left of a name is a beginning of it, whatever its case. *)
CutsAreBeginnings ==
    \A w \in DOMAIN Cut : Named(w) # {} =>
        \A x \in Cut[w] : Lowercase(x) \in NameBeginnings[Lowercase(w)]

LinesAreWords == \E W : LongLines \subseteq Seq(W)

(* A beginning of a name that is a command without arguments is that command:
   "q" is quit, and "d" and "del" want an argument. *)
LEMMA BeginningKeepsCommand ==
    ASSUME CutsAreBeginnings,
           NEW w, Named(w) # {}, NEW x \in Beginnings(w),
           NEW op \in Named(x), Takes[op] = 0
    PROVE  op \in Named(w)
<1>1. /\ Lowercase(x) \in NameBeginnings[Lowercase(w)]
      /\ op \in DOMAIN Aliases /\ Lowercase(x) \in Aliases[op]
  BY DEF CutsAreBeginnings, Beginnings, Named
<1>2. op \in {"quit", "help"}
  BY <1>1 DEF Takes, Aliases
<1>3. PICK name \in DOMAIN Aliases : Lowercase(w) \in Aliases[name]
  BY DEF Named
<1>4. Lowercase(w) \in {"set", "s", "get", "g", "delete", "del", "d",
                        "quit", "q", "exit", "help", "h"}
  BY <1>3 DEF Aliases
<1>5. CASE op = "quit"
  <2>1. Lowercase(x) \in {"quit", "q", "exit"}
    BY <1>1, <1>5 DEF Aliases
  <2>2. Lowercase(w) = "quit"
    BY <1>1, <1>4, <2>1 DEF NameBeginnings
  <2> QED
    BY <1>5, <2>2 DEF Named, Aliases
<1>6. CASE op = "help"
  <2>1. Lowercase(x) \in {"help", "h"}
    BY <1>1, <1>6 DEF Aliases
  <2>2. Lowercase(w) = "help"
    BY <1>1, <1>4, <2>1 DEF NameBeginnings
  <2> QED
    BY <1>6, <2>2 DEF Named, Aliases
<1> QED
  BY <1>2, <1>5, <1>6

(* A line of at least one word that is a command is the command its first word
   names, on the words after it; quit and help look at none. *)
LEMMA CommandOf ==
    ASSUME NEW W, NEW line \in Seq(W), IsCommand(TryFrom(line))
    PROVE  LET got == TryFrom(line)
           IN  /\ line # <<>> /\ got.op \in Named(line[1])
               /\ Len(got.args) = Takes[got.op]
               /\ DOMAIN got.args = 1 .. Takes[got.op]
               /\ Takes[got.op] \in Nat
               /\ Takes[got.op] # 0 => Len(line) = Takes[got.op] + 1
               /\ \A i \in DOMAIN got.args : got.args[i] = line[i + 1]
<1> DEFINE op   == CHOOSE o \in Named(line[1]) : TRUE
           rest == Tail(line)
<1>1. ~IsCommand(Missing) /\ ~IsCommand(TooMany) /\ ~IsCommand(Unrecognized)
  BY DEF IsCommand, Missing, TooMany, Unrecognized
<1>2. line # <<>> /\ Named(line[1]) # {} /\ TryFrom(line) = Fit(op, rest)
  BY <1>1 DEF TryFrom
<1>3. op \in Named(line[1]) /\ op \in DOMAIN Aliases
  BY <1>2 DEF Named
<1>4. /\ rest \in Seq(W) /\ Len(rest) \in Nat /\ Len(line) = Len(rest) + 1
      /\ \A i \in 1 .. Len(rest) : rest[i] = line[i + 1]
  BY <1>2, HeadTailProperties, LenProperties
<1> HIDE DEF op, rest
<1>5. Takes[op] \in Nat /\ (op \in {"quit", "help"} => Takes[op] = 0)
  BY <1>3 DEF Takes, Aliases
<1>6. /\ Len(rest) >= Takes[op]
      /\ Len(rest) > Takes[op] => op \in {"quit", "help"}
      /\ Fit(op, rest) = [op |-> op, args |-> SubSeq(rest, 1, Takes[op])]
  BY <1>1, <1>2, <1>4, <1>5 DEF Fit
<1> DEFINE args == SubSeq(rest, 1, Takes[op])
<1>7. /\ args \in Seq(W) /\ Len(args) = Takes[op]
      /\ \A i \in 1 .. Takes[op] : args[i] = rest[i]
  <2>1. \A i \in 1 .. Takes[op] : rest[i] \in W
    BY <1>4, <1>5, <1>6, ElementOfSeq
  <2> QED
    BY <1>5, <2>1, SubSeqProperties
<1>8. DOMAIN args = 1 .. Takes[op]
  BY <1>7, LenProperties
<1>9. TryFrom(line).op = op /\ TryFrom(line).args = args
  <2>1. TryFrom(line) = [op |-> op, args |-> args]
    BY <1>2, <1>6
  <2> HIDE DEF args
  <2> QED
    BY <2>1
<1> HIDE DEF args
<1> QED
  BY <1>2, <1>3, <1>4, <1>5, <1>6, <1>7, <1>8, <1>9

LEMMA CutIsKept ==
    ASSUME CutsAreBeginnings, NEW W, NEW words \in Seq(W), NEW cut \in CutLines(words)
    PROVE  Keeps(words, cut)
<1> DEFINE got == TryFrom(cut)
           Whole == W \cup UNION {Cut[w] : w \in DOMAIN Cut}
<1> SUFFICES ASSUME words # <<>>, Named(words[1]) # {}, IsCommand(got)
             PROVE  /\ got.op \in Named(words[1])
                    /\ \A i \in DOMAIN got.args :
                          \/ got.args[i] = words[i + 1]
                          \/ i = Len(got.args) /\ got.args[i] \in Beginnings(words[i + 1])
  BY DEF Keeps
<1>1. /\ Len(words) \in Nat \ {0} /\ DOMAIN words = 1 .. Len(words)
      /\ \A i \in 1 .. Len(words) : words[i] \in W
  BY EmptySeq, LenProperties, ElementOfSeq
<1>2. CASE \E n \in 0 .. Len(words) : cut = SubSeq(words, 1, n)
  <2>1. PICK n \in 0 .. Len(words) : cut = SubSeq(words, 1, n)
    BY <1>2
  <2>2. /\ cut \in Seq(W) /\ Len(cut) = n
        /\ \A i \in 1 .. n : cut[i] = words[i]
    <3>1. \A i \in 1 .. n : words[i] \in W
      BY <1>1
    <3> QED
      BY <1>1, <2>1, <3>1, SubSeqProperties
  <2>3. /\ cut # <<>> /\ got.op \in Named(cut[1])
        /\ DOMAIN got.args = 1 .. Takes[got.op] /\ Takes[got.op] \in Nat
        /\ Takes[got.op] # 0 => Len(cut) = Takes[got.op] + 1
        /\ \A i \in DOMAIN got.args : got.args[i] = cut[i + 1]
    BY <2>2, CommandOf
  <2>4. n # 0
    BY <2>2, <2>3, EmptySeq
  <2> HIDE DEF got
  <2> QED
    BY <1>1, <2>2, <2>3, <2>4
<1>3. CASE \E n \in DOMAIN words : \E w \in Beginnings(words[n]) :
             cut = Append(SubSeq(words, 1, n - 1), w)
  <2>1. PICK n \in DOMAIN words : \E w \in Beginnings(words[n]) :
               cut = Append(SubSeq(words, 1, n - 1), w)
    BY <1>3
  <2>2. PICK w \in Beginnings(words[n]) : cut = Append(SubSeq(words, 1, n - 1), w)
    BY <2>1
  <2>3. w \in Whole
    BY <2>2 DEF Beginnings
  <2>4. /\ SubSeq(words, 1, n - 1) \in Seq(Whole)
        /\ Len(SubSeq(words, 1, n - 1)) = n - 1
        /\ \A i \in 1 .. n - 1 : SubSeq(words, 1, n - 1)[i] = words[i]
    <3>1. \A i \in 1 .. n - 1 : words[i] \in Whole
      BY <1>1
    <3>2. n \in Nat /\ n >= 1
      BY <1>1
    <3> HIDE DEF Whole
    <3> QED
      BY <3>1, <3>2, SubSeqProperties
  <2> HIDE DEF Whole
  <2>5. /\ cut \in Seq(Whole) /\ Len(cut) = n
        /\ \A i \in 1 .. n - 1 : cut[i] = words[i]
        /\ cut[n] = w
    BY <1>1, <2>2, <2>3, <2>4, AppendProperties
  <2>6. /\ cut # <<>> /\ got.op \in Named(cut[1])
        /\ Len(got.args) = Takes[got.op]
        /\ DOMAIN got.args = 1 .. Takes[got.op] /\ Takes[got.op] \in Nat
        /\ Takes[got.op] # 0 => Len(cut) = Takes[got.op] + 1
        /\ \A i \in DOMAIN got.args : got.args[i] = cut[i + 1]
    BY <2>5, CommandOf
  <2> HIDE DEF got
  <2>7. CASE n = 1
    <3>1. Takes[got.op] = 0
      BY <2>5, <2>6, <2>7
    <3>2. got.op \in Named(words[1])
      BY <2>2, <2>5, <2>6, <2>7, <3>1, BeginningKeepsCommand
    <3> QED
      BY <2>6, <3>1, <3>2
  <2>8. CASE n # 1
    <3>1. cut[1] = words[1]
      BY <1>1, <2>5, <2>8
    <3>2. ASSUME NEW i \in DOMAIN got.args
          PROVE  \/ got.args[i] = words[i + 1]
                 \/ i = Len(got.args) /\ got.args[i] \in Beginnings(words[i + 1])
      <4>1. i \in 1 .. n - 1 /\ Len(got.args) = n - 1 /\ got.args[i] = cut[i + 1]
        BY <1>1, <2>5, <2>6, <3>2
      <4>2. CASE i = n - 1
        BY <1>1, <2>2, <2>5, <4>1, <4>2
      <4>3. CASE i # n - 1
        BY <1>1, <2>5, <4>1, <4>3
      <4> QED
        BY <4>2, <4>3
    <3> QED
      BY <2>6, <3>1, <3>2
  <2> QED
    BY <2>7, <2>8
<1> QED
  BY <1>2, <1>3 DEF CutLines

(* What a test does beside giving the parser a line, *)
EngineSteps ==
    [call  : Calls \cup {"list", "get", "len", "contains_key", "wal empty", "wal kept",
                         "some table", "tables", "listed gone"},
     key   : {a, b, c, d, Nil},
     value : {one, two, three, Tombstone, Nil, 0, 1}]

(* and the lines it gives. *)
TestLines == LongLines \cup {t[1] : t \in ParseTests}

ParserSteps ==
    {Parses(l, Outcome(l)) : l \in LongLines}
      \cup {Parses(t[1], t[2]) : t \in ParseTests}

Steps == EngineSteps \cup ParserSteps

LEMMA ShortLines ==
    ASSUME NEW W, NEW outcome
    PROVE  /\ <<<<>>, outcome>>[1] \in Seq(W)
           /\ \A x \in W : <<<<x>>, outcome>>[1] \in Seq(W)
           /\ \A x, y \in W : <<<<x, y>>, outcome>>[1] \in Seq(W)
           /\ \A x, y, z \in W : <<<<x, y, z>>, outcome>>[1] \in Seq(W)
           /\ \A x, y, z, w \in W : <<<<x, y, z, w>>, outcome>>[1] \in Seq(W)
OBVIOUS

LEMMA ParsedWords == \A t \in ParseTests : t[1] \in Seq(TestWords)
<1>1. /\ "set" \in TestWords /\ "s" \in TestWords /\ "get" \in TestWords
      /\ "g" \in TestWords /\ "delete" \in TestWords /\ "del" \in TestWords
      /\ "d" \in TestWords /\ "quit" \in TestWords /\ "q" \in TestWords
      /\ "exit" \in TestWords /\ "help" \in TestWords /\ "h" \in TestWords
      /\ "foo" \in TestWords /\ "a" \in TestWords /\ "b" \in TestWords
      /\ "c" \in TestWords
  BY DEF TestWords
<1> SUFFICES ASSUME NEW t \in ParseTests PROVE t[1] \in Seq(TestWords)
  OBVIOUS
<1>2. CASE t \in {<<<<"set", "a", "b">>, "set">>, <<<<"s", "a", "b">>, "set">>,
                  <<<<"get", "a", "b">>, "too many arguments">>,
                  <<<<"delete", "a", "b">>, "too many arguments">>}
  BY <1>1, <1>2, ShortLines, Zenon
<1>3. CASE t \in {<<<<"get", "a">>, "get">>, <<<<"g", "a">>, "get">>,
                  <<<<"delete", "a">>, "delete">>, <<<<"del", "a">>, "delete">>,
                  <<<<"d", "a">>, "delete">>,
                  <<<<"set", "a">>, "missing required arguments">>}
  BY <1>1, <1>3, ShortLines, Zenon
<1>4. CASE t \in {<<<<"quit">>, "quit">>, <<<<"q">>, "quit">>, <<<<"exit">>, "quit">>,
                  <<<<"help">>, "help">>, <<<<"h">>, "help">>,
                  <<<<"set">>, "missing required arguments">>,
                  <<<<"get">>, "missing required arguments">>,
                  <<<<"delete">>, "missing required arguments">>,
                  <<<<"foo">>, "unrecognized command">>}
  BY <1>1, <1>4, ShortLines, Zenon
<1>5. CASE t = <<<<>>, "missing required arguments">>
  BY <1>5, ShortLines
<1>6. CASE t = <<<<"set", "a", "b", "c">>, "too many arguments">>
  BY <1>1, <1>6, ShortLines
<1> QED
  BY <1>2, <1>3, <1>4, <1>5, <1>6, Zenon DEF ParseTests

LEMMA OneStep == \A s \in Steps : <<s>> \in Seq(Steps)
OBVIOUS

LEMMA ParsedLine ==
    ASSUME NEW s \in Steps, s.call = "parse"
    PROVE  s.words \in TestLines
<1>1. s \notin EngineSteps
  BY DEF EngineSteps, Calls
<1> QED
  BY <1>1 DEF Steps, ParserSteps, Parses, TestLines

LEMMA EngineCalls ==
    /\ \A k \in {a, b, c, d}, v \in {one, two, three} :
          /\ Put(k, v) \in Steps /\ Set(k, v) \in Steps /\ Gets(k, v) \in Steps
          /\ PutAndFlush(k, v) \in Seq(Steps)
    /\ \A k \in {a, b, c, d} :
          /\ Bury(k) \in Steps /\ Delete(k) \in Steps
          /\ HasKey(k) \in Steps /\ Gets(k, Nil) \in Steps
    /\ \A n \in {0, 1} : HasLen(n) \in Steps /\ AtMost(n) \in Steps
    /\ {Flush, FlushIfDue, Compact, Reopen, Help, List} \subseteq Steps
    /\ {LogEmpty, LogKept, SomeTable, ListedGone} \subseteq Steps
<1>1. EngineSteps \subseteq Steps
  BY DEF Steps
<1>2. \A k \in {a, b, c, d}, v \in {one, two, three} :
          Put(k, v) \in EngineSteps /\ Set(k, v) \in EngineSteps /\ Gets(k, v) \in EngineSteps
  BY DEF Put, Set, Gets, Do, EngineSteps, Calls
<1>3. \A k \in {a, b, c, d} :
          /\ Bury(k) \in EngineSteps /\ Delete(k) \in EngineSteps
          /\ HasKey(k) \in EngineSteps /\ Gets(k, Nil) \in EngineSteps
  BY DEF Bury, Delete, HasKey, Gets, Do, EngineSteps, Calls
<1>4. \A n \in {0, 1} : HasLen(n) \in EngineSteps /\ AtMost(n) \in EngineSteps
  BY DEF HasLen, AtMost, Do, EngineSteps, Calls
<1>5. /\ {Flush, FlushIfDue, Compact, Reopen, Help, List} \subseteq EngineSteps
      /\ {LogEmpty, LogKept, SomeTable, ListedGone} \subseteq EngineSteps
  BY DEF Flush, FlushIfDue, Compact, Reopen, Help, List, LogEmpty, LogKept, SomeTable,
         ListedGone, Do, EngineSteps, Calls
<1>6. \A k \in {a, b, c, d}, v \in {one, two, three} : PutAndFlush(k, v) \in Seq(Steps)
  BY <1>1, <1>2, <1>5 DEF PutAndFlush
<1> QED
  BY <1>1, <1>2, <1>3, <1>4, <1>5, <1>6

(* What tests begin with: one put and flush, and another. *)
LEMMA TwoFlushes ==
    \A k, m \in {a, b, c, d}, v, w \in {one, two, three} :
        PutAndFlush(k, v) \o PutAndFlush(m, w) \in Seq(Steps)
BY EngineCalls, ConcatProperties

LEMMA TestsAreSteps == Scripts \subseteq Seq(Steps)
<1>1. ParserScripts \subseteq Seq(Steps)
  BY OneStep DEF ParserScripts, ParserSteps, Steps
<1>2. {new_creates_empty_memtable, new_rebuilds_memtable_from_existing_file,
       get_returns_entry_from_memtable, get_returns_none_when_absent_from_both,
       maybe_flush_does_not_flush_when_below_threshold,
       get_returns_none_for_tombstone_in_memtable, compact_with_no_sstables_is_noop,
       execute_set_adds_to_memtable, execute_delete_existing_key_tombstones_key,
       execute_delete_missing_key_leaves_memtable_empty,
       execute_delete_persists_tombstone, execute_help_leaves_memtable_empty,
       execute_get_finds_key_in_sstable_after_flush} \subseteq Seq(Steps)
  BY EngineCalls
  DEF new_creates_empty_memtable, new_rebuilds_memtable_from_existing_file,
      get_returns_entry_from_memtable, get_returns_none_when_absent_from_both,
      maybe_flush_does_not_flush_when_below_threshold,
      get_returns_none_for_tombstone_in_memtable, compact_with_no_sstables_is_noop,
      execute_set_adds_to_memtable, execute_delete_existing_key_tombstones_key,
      execute_delete_missing_key_leaves_memtable_empty,
      execute_delete_persists_tombstone, execute_help_leaves_memtable_empty,
      execute_get_finds_key_in_sstable_after_flush
<1>3. {get_finds_entry_in_sstable_after_flush, flush_creates_sstable_file_on_disk,
       flush_clears_memtable, flush_truncates_wal,
       get_returns_none_after_flush_and_delete,
       get_skips_sstable_when_bloom_filter_says_absent,
       get_finds_key_when_bloom_filter_says_maybe_present,
       compact_single_sstable_produces_one_output_and_deletes_original,
       compact_drops_tombstone_from_output, delete_of_flushed_key,
       delete_after_flushed_tombstone, delete_after_compaction} \subseteq Seq(Steps)
  <2>1. {<<Gets(a, one)>>, <<SomeTable>>, <<HasLen(0)>>, <<LogEmpty>>,
         <<Bury(a), Gets(a, Nil)>>, <<Gets(d, Nil)>>,
         <<List, Compact, ListedGone, SomeTable, AtMost(1)>>,
         <<Bury(a), Flush, Compact, Gets(a, Nil)>>,
         <<Delete(a), Gets(a, Nil), Reopen, HasKey(a), Gets(a, Nil)>>,
         <<Bury(a), Flush, Delete(a), HasLen(0)>>,
         <<Bury(a), Flush, Compact, Delete(a), HasLen(0)>>} \subseteq Seq(Steps)
    BY EngineCalls
  <2>2. \A s \in Seq(Steps) : PutAndFlush(a, one) \o s \in Seq(Steps)
    BY EngineCalls, ConcatProperties
  <2> QED
    BY <2>1, <2>2
    DEF get_finds_entry_in_sstable_after_flush, flush_creates_sstable_file_on_disk,
        flush_clears_memtable, flush_truncates_wal,
        get_returns_none_after_flush_and_delete,
        get_skips_sstable_when_bloom_filter_says_absent,
        get_finds_key_when_bloom_filter_says_maybe_present,
        compact_single_sstable_produces_one_output_and_deletes_original,
        compact_drops_tombstone_from_output, delete_of_flushed_key,
        delete_after_flushed_tombstone, delete_after_compaction
<1>4. {compact_newest_wins_for_duplicate_key, compact_preserves_all_unique_keys,
       compact_deletes_original_sstables, compact_reduces_sstable_count} \subseteq Seq(Steps)
  <2>1. {<<Compact, Gets(a, two)>>, <<Compact, Gets(a, one), Gets(b, two)>>,
         <<List, Compact, ListedGone>>, <<Compact, AtMost(1)>>} \subseteq Seq(Steps)
    BY EngineCalls
  <2>2. \A k, m \in {a, b, c, d}, v, w \in {one, two, three}, s \in Seq(Steps) :
            PutAndFlush(k, v) \o PutAndFlush(m, w) \o s \in Seq(Steps)
    BY TwoFlushes, ConcatProperties
  <2>3. compact_newest_wins_for_duplicate_key \in Seq(Steps)
    BY <2>1, <2>2 DEF compact_newest_wins_for_duplicate_key
  <2>4. compact_preserves_all_unique_keys \in Seq(Steps)
    BY <2>1, <2>2 DEF compact_preserves_all_unique_keys
  <2>5. compact_reduces_sstable_count \in Seq(Steps)
    BY <2>1, <2>2 DEF compact_reduces_sstable_count
  <2>6. compact_deletes_original_sstables \in Seq(Steps)
    BY <2>1, <2>2 DEF compact_deletes_original_sstables
  <2> QED
    BY <2>3, <2>4, <2>5, <2>6
<1>5. {get_returns_newest_when_key_in_multiple_sstables,
       get_returns_none_for_absent_key_across_multiple_sstables,
       compact_result_readable_via_get,
       compact_three_sstables_with_overlapping_keys} \subseteq Seq(Steps)
  <2>1. /\ <<Put(a, one)>> \in Seq(Steps) /\ <<Put(a, two)>> \in Seq(Steps)
        /\ <<Gets(a, two)>> \in Seq(Steps) /\ <<Gets(d, Nil)>> \in Seq(Steps)
        /\ <<Compact, Gets(a, one), Gets(b, two), Gets(c, three)>> \in Seq(Steps)
        /\ <<Compact, Gets(a, three), Gets(b, one), Gets(c, one)>> \in Seq(Steps)
    BY EngineCalls
  <2>2. \A s, t \in Seq(Steps) : s \o t \in Seq(Steps)
    BY ConcatProperties
  <2>3. \A k \in {a, b, c, d}, v \in {one, two, three} : PutAndFlush(k, v) \in Seq(Steps)
    BY EngineCalls
  <2>4. get_returns_newest_when_key_in_multiple_sstables \in Seq(Steps)
    BY <2>1, <2>2, <2>3 DEF get_returns_newest_when_key_in_multiple_sstables
  <2>5. get_returns_none_for_absent_key_across_multiple_sstables \in Seq(Steps)
    BY <2>1, <2>2, <2>3 DEF get_returns_none_for_absent_key_across_multiple_sstables
  <2>6. compact_result_readable_via_get \in Seq(Steps)
    BY <2>1, <2>2, <2>3 DEF compact_result_readable_via_get
  <2>7. compact_three_sstables_with_overlapping_keys \in Seq(Steps)
    BY <2>1, <2>2, <2>3 DEF compact_three_sstables_with_overlapping_keys
  <2> QED
    BY <2>4, <2>5, <2>6, <2>7
<1> QED
  BY <1>1, <1>2, <1>3, <1>4, <1>5 DEF Scripts

ScriptInv == script = Nil \/ script \in Seq(Steps)

(* A line that is cut off is the command it begins with or none, for every
   line and every way to cut it: no name or alias begins with one of another
   command that takes no argument, and the arguments are cut off at their end
   (read_line, try_from). *)
THEOREM CutsKeepCommands ==
    CutsAreBeginnings /\ LinesAreWords => (FairTests => []CutKeepsCommand)
<1> SUFFICES ASSUME CutsAreBeginnings, LinesAreWords
             PROVE  FairTests => []CutKeepsCommand
  OBVIOUS
<1>1. TestInit => ScriptInv
  BY TestsAreSteps DEF TestInit, ScriptInv
<1>2. ScriptInv /\ [TestNext]_testVars => ScriptInv'
  <2>1. [TestNext]_testVars => script' = script \/ (Scripted /\ script' = Tail(script))
    BY DEF TestNext, testVars, AnyCommand, AnyCrash, Start, Continue, ListTables, Expect,
           Mishap, Restart
  <2> QED
    BY <2>1, HeadTailProperties DEF ScriptInv, Scripted
<1>3. ScriptInv => CutKeepsCommand
  <2> SUFFICES ASSUME ScriptInv, Scripted, InHand.call = "parse",
                      NEW cut \in CutLines(InHand.words)
               PROVE  Keeps(InHand.words, cut)
    BY DEF CutKeepsCommand
  <2>1. InHand \in Steps
    BY HeadTailProperties DEF ScriptInv, Scripted, InHand
  <2>2. InHand.words \in TestLines
    BY <2>1, ParsedLine
  <2>3. \E W : InHand.words \in Seq(W)
    <3>1. \A t \in ParseTests : t[1] \in Seq(TestWords)
      BY ParsedWords
    <3> QED
      BY <2>2, <3>1 DEF TestLines, LinesAreWords
  <2> QED
    BY <2>3, CutIsKept
<1> QED
  BY <1>1, <1>2, <1>3, PTL DEF FairTests
-----------------------------------------------------------------------------
(* The tests of the engine.  What a test can tell of it: what each key has,
   which keys the memtable has, and of the tables what bounds their number and
   whether none is left of those that were listed. *)
Known(v, m, n) == [view |-> v, mem |-> m, files |-> n]

NoneListed == 2

Blank == Known([k \in Keys |-> Nil], {}, {0, 1})

Writes(s) == s.call \in {"write", "set", "delete"}

Written(s) == IF s.call = "delete" THEN Tombstone ELSE s.value

(* A delete writes if its key has a value. *)
Adds(A, s) ==
    s.call \in {"write", "set"} \/ (s.call = "delete" /\ A.view[s.key] # Nil)

(* It can tell after s, which did what it should, *)
After(A, s) ==
    Known(IF Writes(s)
          THEN [k \in Keys |-> IF k = s.key THEN ValueOf(Written(s)) ELSE A.view[k]]
          ELSE A.view,
          IF Adds(A, s) THEN A.mem \cup {s.key}
          ELSE IF s.call = "flush" THEN {} ELSE A.mem,
          IF s.call = "flush" THEN {}
          ELSE IF s.call = "compact" THEN A.files \cup {1, NoneListed}
          ELSE IF s.call = "list" THEN A.files \ {NoneListed} ELSE A.files)

Expectations ==
    {"get", "len", "contains_key", "wal empty", "wal kept", "some table", "tables",
     "listed gone", "parse"}

(* and must before s: that the expectation will be met, that there is something to
   flush, and that all a compaction leaves is in its tables. *)
Ready(A, s) ==
    /\ s.call \in Calls \cup {"list"} \cup Expectations
    /\ Writes(s) => s.key \in TestKeys /\ Written(s) \in TestValues
    /\ s.call = "flush" => A.mem # {}
    /\ s.call = "compact" => A.mem = {}
    /\ s.call = "get" => s.key \in Keys /\ A.view[s.key] = s.value
    /\ s.call = "len" => Cardinality(A.mem) = s.value
    /\ s.call = "contains_key" => s.key \in A.mem
    /\ s.call = "wal empty" => A.mem = {}
    /\ s.call = "wal kept" => A.mem # {}
    /\ s.call = "some table" => A.mem = {} /\ \E k \in Keys : A.view[k] # Nil
    /\ s.call = "tables" => s.value \in A.files /\ s.value \in {0, 1}
    /\ s.call = "listed gone" => NoneListed \in A.files
    /\ s.call = "parse" => Outcome(s.words) = s.outcome

Nothing == Do("nothing", Nil, Nil)

(* The step a test is at: the next one, if it has been begun or not, or none. *)
Doing(s) == {Nothing} \cup (IF s = <<>> THEN {} ELSE {Head(s)})

(* What the write h would make of k, *)
Aim(h, k) == IF Writes(h) /\ h.key = k THEN {ValueOf(Written(h))} ELSE {}

(* and of the keys in memory. *)
Mems(A, h) == IF Adds(A, h) THEN {A.mem, A.mem \cup {h.key}} ELSE {A.mem}

(* The parts of the invariant, for what is known before the step h.  Every
   answer and every doubt is what it was or what h aims at. *)
Answers(A, h) ==
    \A k \in Keys : /\ View[k] \in {A.view[k]} \cup Aim(h, k)
                     /\ Doubt(k) \subseteq Aim(h, k)

(* The keys that are in memory and in the log; a flush can have emptied both,
   but not lost what it is there to flush. *)
InMemory(A, h) ==
    /\ h.call # "flush" =>
          Present(Memory) \in Mems(A, h) /\ Present(Replay(wal)) \in Mems(A, h)
    /\ ~Adds(A, h) /\ h.call # "flush" /\ A.mem = {} => wal = <<>>
    /\ h.call = "flush" => Present(Memory) # {} \/ DOMAIN sstables # {}

(* A delete whose key no longer shows a value has left its tombstone. *)
Buried(A, h) ==
    \A k \in Keys :
        h.call = "delete" /\ h.key = k /\ A.view[k] # Nil /\ View[k] = Nil =>
            k \in Present(Memory)

(* A flush or a compaction that was cut off can leave more tables. *)
OnDisk(A, h) ==
    /\ h.call # "flush" /\ 0 \in A.files => DOMAIN sstables = {}
    /\ h.call \notin {"flush", "compact"} /\ 1 \in A.files =>
          Cardinality(DOMAIN sstables) <= 1

(* The engine is at work on h and nothing else; what a compaction has written
   is in one table at most. *)
AtWork(A, h) ==
    /\ pc = "write" => /\ Writes(h) /\ entry = [key |-> h.key, value |-> Written(h)]
                       /\ A.mem \cup {h.key} \in Mems(A, h)
    /\ pc \in {"flush", "truncate"} => h.call = "flush"
    /\ Running => h.call \in {"flush", "compact"} /\ wal = <<>>
    /\ pc = "merge" => Outputs = {}
    /\ pc = "spill" => Outputs = {} /\ todo = {}
    /\ pc = "remove" => Cardinality(Outputs) <= 1

Tracks(A, h) ==
    Answers(A, h) /\ InMemory(A, h) /\ Buried(A, h) /\ OnDisk(A, h) /\ AtWork(A, h)

(* Nothing but a test's entries is anywhere. *)
OfTest(e) == e.key \in TestKeys /\ e.value \in TestValues

Content ==
    /\ \A i \in DOMAIN wal : wal[i] = Torn \/ OfTest(wal[i])
    /\ OfTests(memtable) /\ OfTests(merged)
    /\ \A n \in DOMAIN sstables : OfTests(sstables[n].entries)
    /\ entry # Nil => OfTest(entry)
-----------------------------------------------------------------------------
(* The entries a test leaves. *)

LEMMA TestEntries ==
    /\ OfTests(Empty)
    /\ TestsFit => \A m \in [Keys -> Slot], e \in Record :
           OfTests(m) /\ OfTest(e) => OfTests(Process(m, e))
<1>1. OfTests(Empty)
  BY DEF OfTests, Empty
<1>2. ASSUME NEW m \in [Keys -> Slot], NEW e \in Record, OfTests(m), OfTest(e)
      PROVE  OfTests(Process(m, e))
  BY <1>2 DEF OfTests, OfTest, Process
<1> QED
  BY <1>1, <1>2

LEMMA ReplayContent ==
    ASSUME TypeOK, Content
    PROVE  OfTests(Replay(wal))
<1> SUFFICES ASSUME NEW k \in Keys, Replay(wal)[k] # Nil
             PROVE  k \in TestKeys /\ Replay(wal)[k] \in TestValues
  BY DEF OfTests
<1> DEFINE at == {i \in DOMAIN wal : wal[i].key = k}
<1>1. Replay(wal)[k] = IF at = {} THEN Nil ELSE wal[Max(at)].value
  BY DEF Replay
<1>2. wal \in Seq(Record \cup {Torn})
  BY DEF TypeOK
<1>3. Max(at) \in DOMAIN wal /\ wal[Max(at)] \in Record
  BY <1>1, <1>2, LastRecord
<1>4. Max(at) \in at
  <2>1. Len(wal) \in Nat /\ DOMAIN wal = 1..Len(wal)
    BY <1>2, LenProperties
  <2>2. at \in SUBSET (0..Len(wal)) /\ at # {}
    BY <1>1, <2>1
  <2> QED
    BY <2>1, <2>2, MaxIsGreatest
<1>5. wal[Max(at)].key = k
  BY <1>4
<1>6. wal[Max(at)] # Torn
  BY <1>5, SlotAssumption DEF Torn
<1> QED
  BY <1>1, <1>3, <1>5, <1>6 DEF Content, OfTest

(* A table that is added. *)
LEMMA AddedContent ==
    ASSUME Content, NEW t, OfTests(t.entries), AddTable(t)
    PROVE  \A n \in DOMAIN sstables' : OfTests(sstables'[n].entries)
<1>1. PICK n : sstables' = With(sstables, n, t)
  BY DEF AddTable
<1> QED
  BY <1>1 DEF With, Content

LEMMA PartialContent ==
    ASSUME NEW m \in [Keys -> Slot], OfTests(m), NEW t \in Partial(m)
    PROVE  OfTests(t.entries)
BY PartialType DEF OfTests

LEMMA LoggedContent ==
    ASSUME TypeOK, Content, NEW e, wal' = Append(wal, e), e = Torn \/ OfTest(e)
    PROVE  \A i \in DOMAIN wal' : wal'[i] = Torn \/ OfTest(wal'[i])
<1>1. wal \in Seq(Record \cup {Torn}) /\ Len(wal) \in Nat /\ DOMAIN wal = 1..Len(wal)
  BY LenProperties DEF TypeOK
<1>2. /\ DOMAIN wal' = 1 .. Len(wal) + 1
      /\ wal'[Len(wal) + 1] = e
      /\ \A i \in 1..Len(wal) : wal'[i] = wal[i]
  BY <1>1
<1> QED
  BY <1>1, <1>2 DEF Content

LEMMA InterruptedContent ==
    ASSUME TypeOK, Content, Interrupted
    PROVE  /\ \A i \in DOMAIN wal' : wal'[i] = Torn \/ OfTest(wal'[i])
           /\ \A n \in DOMAIN sstables' : OfTests(sstables'[n].entries)
<1>1. CASE /\ pc = "write"
           /\ wal' \in {Append(wal, Torn), Append(wal, entry)}
           /\ UNCHANGED <<sstables, clock>>
  <2>1. OfTest(entry)
    BY <1>1 DEF TypeOK, Content
  <2> QED
    BY <1>1, <2>1, LoggedContent DEF Content
<1>2. CASE /\ \E t \in Partial(memtable) : AddTable(t)
           /\ UNCHANGED wal
  BY <1>2, PartialContent, AddedContent DEF TypeOK, Content
<1>3. CASE /\ \E t \in Partial(merged) : AddTable(t)
           /\ UNCHANGED wal
  BY <1>3, PartialContent, AddedContent DEF TypeOK, Content
<1>4. CASE UNCHANGED <<wal, sstables, clock>>
  BY <1>4 DEF Content
<1>5. CASE wal' = <<>> /\ UNCHANGED <<sstables, clock>>
  BY <1>5 DEF Content
<1> QED
  BY <1>1, <1>2, <1>3, <1>4, <1>5 DEF Interrupted

(* A winner of the merge is an entry of one of the tables. *)
LEMMA WinnerContent ==
    ASSUME TypeOK, Content, NEW k \in Keys, ScanEntry(Originals, k) # Nil
    PROVE  k \in TestKeys /\ ScanEntry(Originals, k) \in TestValues
<1>1. clock \in Nat /\ IsTables(sstables, clock) /\ doomed \in SUBSET DOMAIN sstables
  BY DEF TypeOK, IsTables
<1>2. /\ DOMAIN Originals = doomed /\ IsTables(Originals, clock)
      /\ \A n \in doomed : Originals[n] = sstables[n]
  BY <1>1, RestrictIs DEF Originals
<1>3. Holding(Originals, k) # {}
  BY <1>1, <1>2, EntryTypes
<1>4. PICK n \in doomed : /\ Originals[n].entries[k] # Nil
                          /\ ScanEntry(Originals, k) = Originals[n].entries[k]
  BY <1>1, <1>2, <1>3, ScanPicks
<1> QED
  BY <1>1, <1>2, <1>4 DEF Content, OfTests

(* No step but the start of a write brings in an entry. *)
LEMMA ContentStep ==
    ASSUME Steady, TypeOK', SafeEnvironment, TestsFit, Content,
           Proceed \/ Crash \/ Fail \/ Open
    PROVE  Content'
<1> USE DEF SafeEnvironment
<1>a. TypeOK
  BY DEF Steady
<1>1. CASE Write
  <2>1. /\ pc = "write" /\ wal' = Append(wal, entry) /\ memtable' = Process(memtable, entry)
        /\ entry' = Nil /\ UNCHANGED <<sstables, merged>>
    BY <1>1 DEF Write, compactVars
  <2>2. entry \in Record /\ OfTest(entry) /\ memtable \in [Keys -> Slot]
    BY <1>a, <2>1 DEF TypeOK, Content
  <2>3. OfTests(memtable')
    BY <2>1, <2>2, TestEntries DEF Content
  <2>4. \A i \in DOMAIN wal' : wal'[i] = Torn \/ OfTest(wal'[i])
    BY <1>a, <2>1, <2>2, LoggedContent
  <2> QED
    BY <2>1, <2>3, <2>4 DEF Content
<1>2. CASE FlushTable
  <2>1. /\ AddTable(Complete(memtable)) /\ memtable' = Empty
        /\ UNCHANGED <<wal, merged, entry>>
    BY <1>2 DEF FlushTable, compactVars
  <2>2. OfTests(Complete(memtable).entries)
    BY DEF Complete, Content
  <2>3. \A n \in DOMAIN sstables' : OfTests(sstables'[n].entries)
    BY <2>1, <2>2, AddedContent
  <2> QED
    BY <2>1, <2>3, TestEntries DEF Content
<1>3. CASE Truncate
  <2>1. wal' = <<>> /\ UNCHANGED <<memtable, sstables, entry, merged>>
    BY <1>3 DEF Truncate, StartCompaction
  <2> QED
    BY <2>1 DEF Content
<1>4. CASE Merge
  <2> DEFINE k   == Min(todo)
             won == ScanEntry(Originals, k)
  <2>1. /\ merged' = IF won \in Values THEN Process(merged, [key |-> k, value |-> won])
                     ELSE merged
        /\ UNCHANGED <<wal, memtable, sstables, entry>>
    BY <1>4 DEF Merge
  <2>2. OfTests(merged')
    <3>1. CASE won \in Values
      <4> SUFFICES ASSUME NEW m \in Keys, merged'[m] # Nil
                   PROVE  m \in TestKeys /\ merged'[m] \in TestValues
        BY DEF OfTests
      <4>1. merged'[m] = IF m = k THEN won ELSE merged[m]
        BY <1>a, <2>1, <3>1 DEF Process, TypeOK
      <4>2. won # Nil
        BY <3>1, SlotAssumption
      <4> QED
        BY <1>a, <4>1, <4>2, WinnerContent DEF Content, OfTests
    <3>2. CASE won \notin Values
      BY <2>1, <3>2 DEF Content
    <3> QED
      BY <3>1, <3>2
  <2> QED
    BY <2>1, <2>2 DEF Content
<1>5. CASE Spill
  <2>1. /\ AddTable(Complete(merged)) /\ merged' = Empty
        /\ UNCHANGED <<wal, memtable, entry>>
    BY <1>5 DEF Spill
  <2>2. OfTests(Complete(merged).entries)
    BY DEF Complete, Content
  <2>3. \A n \in DOMAIN sstables' : OfTests(sstables'[n].entries)
    BY <2>1, <2>2, AddedContent
  <2> QED
    BY <2>1, <2>3, TestEntries DEF Content
<1>6. CASE Remove
  <2>1. UNCHANGED <<wal, memtable, entry, merged>>
    BY <1>6 DEF Remove
  <2>2. /\ DOMAIN sstables' \subseteq DOMAIN sstables
        /\ \A n \in DOMAIN sstables' : sstables'[n] = sstables[n]
    BY <1>6, RestrictIs DEF Remove
  <2> QED
    BY <2>1, <2>2 DEF Content
<1>7. CASE Crash \/ Fail
  <2>1. /\ Interrupted /\ memtable' \in {memtable, Empty} /\ entry' = Nil
        /\ merged' = Empty
    BY <1>7 DEF Crash, Fail, DropCompaction
  <2>2. OfTests(memtable')
    BY <2>1, TestEntries DEF Content
  <2> QED
    BY <1>a, <2>1, <2>2, InterruptedContent, TestEntries DEF Content
<1>8. CASE Open
  <2>1. UNCHANGED <<wal, sstables, entry, merged>>
    BY <1>8 DEF Open, compactVars
  <2>2. memtable' = Replay(wal)
    BY <1>a, <1>8, OpenReads
  <2> QED
    BY <1>a, <2>1, <2>2, ReplayContent DEF Content
<1> QED
  BY <1>1, <1>2, <1>3, <1>4, <1>5, <1>6, <1>7, <1>8 DEF Proceed
-----------------------------------------------------------------------------
(* What each step does to what is known. *)

LEMMA NotBuried ==
    ASSUME NEW A, NEW h, h.call # "delete"
    PROVE  Buried(A, h) /\ Buried(A, h)'
BY DEF Buried

LEMMA BuriedKept ==
    ASSUME NEW A, NEW h, Buried(A, h), AnswersStay, Memory' = Memory
    PROVE  Buried(A, h)'
BY DEF Buried, AnswersStay, Present

LEMMA Advances ==
    ASSUME NEW A, NEW h, Ready(A, h), Tracks(A, Nothing)
    PROVE  Tracks(A, h)
<1>1. /\ Nothing.call = "nothing" /\ ~Writes(Nothing) /\ ~Adds(A, Nothing)
      /\ \A k : Aim(Nothing, k) = {}
  BY DEF Nothing, Do, Writes, Adds, Aim
<1>2. Answers(A, h)
  BY <1>1 DEF Tracks, Answers
<1>7. Buried(A, h)
  BY <1>1 DEF Tracks, Answers, Buried
<1>3. Present(Memory) = A.mem /\ Present(Replay(wal)) = A.mem /\ (A.mem = {} => wal = <<>>)
  BY <1>1 DEF Tracks, InMemory, Mems
<1>4. InMemory(A, h)
  BY <1>3 DEF InMemory, Mems, Ready
<1>5. OnDisk(A, h)
  BY <1>1 DEF Tracks, OnDisk
<1>6. AtWork(A, h)
  BY <1>1 DEF Tracks, AtWork, Running
<1> QED
  BY <1>2, <1>4, <1>5, <1>6, <1>7 DEF Tracks

(* Where no answer changes and no doubt comes up. *)
LEMMA AnswersKept ==
    ASSUME NEW A, NEW h, Answers(A, h), AnswersStay,
           \A k \in Keys : Doubt(k)' \subseteq Doubt(k)
    PROVE  /\ Answers(A, h)'
           /\ ~Writes(h) => Answers(After(A, h), Nothing)'
<1>1. Answers(A, h)'
  BY DEF Answers, AnswersStay
<1>2. ASSUME ~Writes(h) PROVE Answers(After(A, h), Nothing)'
  <2>1. /\ After(A, h).view = A.view
        /\ \A k : Aim(h, k) = {} /\ Aim(Nothing, k) = {}
    BY <1>2 DEF After, Known, Aim, Nothing, Do, Writes
  <2> QED
    BY <1>1, <2>1 DEF Answers
<1> QED
  BY <1>1, <1>2

(* A memtable with a test's entries is not due. *)
LEMMA NotDue ==
    ASSUME TestsFit
    PROVE  \A m \in [Keys -> Slot] : OfTests(m) => ~ShouldFlush(m)
BY DEF TestsFit

LEMMA MergeGoesOnSmall ==
    ASSUME TestsFit, NEW rest, NEW m \in [Keys -> Slot], OfTests(m)
    PROVE  MergeStep(rest, m) = IF rest # {} THEN "merge"
                                ELSE IF Present(m) # {} THEN "spill" ELSE "remove"
BY NotDue DEF MergeStep

LEMMA WriteTracks ==
    ASSUME Inductive, TypeOK', TestsFit, Content, Content',
           NEW A, NEW h, Tracks(A, h), Write
    PROVE  pc' = "idle" /\ Tracks(After(A, h), Nothing)'
<1> DEFINE B == After(A, h)
<1>1. /\ pc = "write" /\ wal' = Append(wal, entry) /\ memtable' = Process(memtable, entry)
      /\ pc' = MaybeFlush(memtable') /\ UNCHANGED sstables
  BY DEF Write
<1>2. pc' = "idle"
  BY <1>1, NotDue DEF MaybeFlush, TypeOK, Content
<1>3. /\ Writes(h) /\ entry = [key |-> h.key, value |-> Written(h)]
      /\ A.mem \cup {h.key} \in Mems(A, h)
  BY <1>1 DEF Tracks, AtWork
<1>4. /\ entry \in Record /\ h.key \in Keys /\ Written(h) # Nil
      /\ memtable \in [Keys -> Slot] /\ wal \in Seq(Record \cup {Torn})
  BY <1>1, <1>3, SlotAssumption DEF Inductive, Steady, TypeOK, Record
<1>5. /\ B.view = [k \in Keys |-> IF k = h.key THEN ValueOf(Written(h)) ELSE A.view[k]]
      /\ B.mem = A.mem \cup {h.key}
      /\ B.files = A.files
      /\ h.call \notin {"flush", "compact"}
  <2>1. h.call \in {"write", "set", "delete"}
    BY <1>3 DEF Writes
  <2>2. IF Adds(A, h) THEN B.mem = A.mem \cup {h.key}
                      ELSE B.mem = A.mem /\ A.mem = A.mem \cup {h.key}
    BY <1>3, <2>1 DEF After, Known, Mems
  <2> QED
    BY <1>3, <2>1, <2>2 DEF After, Known
<1>6. Answers(B, Nothing)'
  <2>1. /\ View' = [View EXCEPT ![h.key] = ValueOf(Written(h))]
        /\ \A k \in Keys : Doubt(k)' = IF k = h.key THEN {} ELSE Doubt(k)
    BY <1>3, WriteStep DEF Inductive
  <2>2. ASSUME NEW k \in Keys
        PROVE  View'[k] = B.view[k] /\ Doubt(k)' = {}
    <3>1. k # h.key => View[k] = A.view[k] /\ Doubt(k) = {}
      BY DEF Tracks, Answers, Aim
    <3>2. View'[k] = IF k = h.key THEN ValueOf(Written(h)) ELSE View[k]
      BY <2>1 DEF View
    <3> QED
      BY <1>5, <2>1, <3>1, <3>2
  <2> QED
    BY <2>2 DEF Answers
<1>7. Present(Memory') = B.mem /\ Present(Replay(wal')) = B.mem
  <2>1. Memory = memtable /\ Memory' = memtable'
    BY <1>1, <1>2 DEF Memory
  <2>2. \A k \in Keys : /\ memtable'[k] = IF k = h.key THEN Written(h) ELSE memtable[k]
                        /\ Replay(wal')[k] = IF k = h.key THEN Written(h) ELSE Replay(wal)[k]
    BY <1>1, <1>3, <1>4, ReplayAppend DEF Process
  <2>3. /\ Present(memtable') = Present(memtable) \cup {h.key}
        /\ Present(Replay(wal')) = Present(Replay(wal)) \cup {h.key}
    BY <1>4, <2>2 DEF Present
  <2>4. Present(memtable) \in {A.mem, A.mem \cup {h.key}}
        /\ Present(Replay(wal)) \in {A.mem, A.mem \cup {h.key}}
    BY <1>5, <2>1 DEF Tracks, InMemory, Mems
  <2> QED
    BY <1>5, <2>1, <2>3, <2>4
<1>8. InMemory(B, Nothing)'
  BY <1>5, <1>7 DEF InMemory, Mems, Adds, Nothing, Do
<1>11. Buried(B, Nothing)'
  BY NotBuried DEF Nothing, Do
<1>9. OnDisk(B, Nothing)'
  BY <1>1, <1>5 DEF Tracks, OnDisk, Nothing, Do
<1>10. AtWork(B, Nothing)'
  BY <1>2 DEF AtWork, Running
<1> QED
  BY <1>2, <1>6, <1>8, <1>9, <1>10, <1>11 DEF Tracks

LEMMA FlushTracks ==
    ASSUME Inductive, ClockForward, NEW A, NEW h, Tracks(A, h), FlushTable
    PROVE  pc' = "truncate" /\ Tracks(A, h)'
<1>1. /\ pc = "flush" /\ pc' = "truncate" /\ AddTable(Complete(memtable))
  BY DEF FlushTable
<1>2. h.call = "flush"
  BY <1>1 DEF Tracks, AtWork
<1>3. Answers(A, h)'
  BY FlushStep, AllShown, AnswersKept DEF Inductive, Tracks, DoubtStays
<1>4. DOMAIN sstables' # {}
  BY <1>1 DEF AddTable, With
<1>5. InMemory(A, h)' /\ OnDisk(A, h)' /\ AtWork(A, h)'
  BY <1>1, <1>2, <1>4 DEF InMemory, OnDisk, AtWork, Running
<1> QED
  BY <1>1, <1>2, <1>3, <1>5, NotBuried DEF Tracks

(* A compaction that starts on a test's tables. *)
LEMMA StartTracks ==
    ASSUME TypeOK, TestsFit, StartCompaction, UNCHANGED sstables
    PROVE  pc' \in {"merge", "remove"} /\ Outputs' = {}
<1>1. Empty \in [Keys -> Slot] /\ OfTests(Empty) /\ Present(Empty) = {}
  BY TestEntries DEF Empty, Slot, Present
<1>2. pc' = MergeStep(todo', Empty) /\ doomed' = DOMAIN sstables
  BY DEF StartCompaction
<1> QED
  BY <1>1, <1>2, MergeGoesOnSmall DEF Outputs

LEMMA TruncateTracks ==
    ASSUME Inductive, TypeOK', TestsFit, NEW A, NEW h, Tracks(A, h), Truncate
    PROVE  IF pc' = "idle" THEN Tracks(After(A, h), Nothing)' ELSE Tracks(A, h)'
<1>1. /\ pc = "truncate" /\ memtable = Empty /\ wal' = <<>>
      /\ UNCHANGED <<memtable, sstables>> /\ DOMAIN sstables # {}
      /\ \/ pc' = "idle"
         \/ StartCompaction
  BY DEF Truncate, Inductive, Steady, Flushed
<1>2. h.call = "flush" /\ ~Writes(h)
  BY <1>1 DEF Tracks, AtWork, Writes
<1>3. Answers(A, h)' /\ Answers(After(A, h), Nothing)'
  BY <1>2, TruncateStep, AllShown, AnswersKept DEF Inductive, Tracks
<1>4. After(A, h).mem = {} /\ After(A, h).files = {}
  BY <1>2 DEF After, Known, Adds
<1>5. CASE pc' = "idle"
  <2>1. Memory' = Empty /\ Present(Memory') = {} /\ Present(Replay(wal')) = {}
    BY <1>1, <1>5, ReplayEmpty DEF Memory, Present, Empty
  <2>2. InMemory(After(A, h), Nothing)'
    BY <1>1, <1>4, <2>1 DEF InMemory, Mems, Adds, Nothing, Do
  <2>3. OnDisk(After(A, h), Nothing)' /\ AtWork(After(A, h), Nothing)'
    BY <1>4, <1>5 DEF OnDisk, AtWork, Running
  <2>4. Buried(After(A, h), Nothing)'
    BY NotBuried DEF Nothing, Do
  <2> QED
    BY <1>3, <1>5, <2>2, <2>3, <2>4 DEF Tracks
<1>6. CASE pc' # "idle"
  <2>1. pc' \in {"merge", "remove"} /\ Outputs' = {}
    BY <1>1, <1>6, StartTracks DEF Inductive, Steady
  <2>2. AtWork(A, h)'
    BY <1>1, <1>2, <2>1, FS_EmptySet DEF AtWork
  <2>3. InMemory(A, h)' /\ OnDisk(A, h)' /\ Buried(A, h)'
    BY <1>1, <1>2, NotBuried DEF InMemory, OnDisk
  <2> QED
    BY <1>3, <1>6, <2>2, <2>3 DEF Tracks
<1> QED
  BY <1>5, <1>6

LEMMA MergeTracks ==
    ASSUME Inductive, TypeOK', TestsFit, Content', NEW A, NEW h, Tracks(A, h), Merge
    PROVE  pc' # "idle" /\ Tracks(A, h)'
<1>1. /\ pc = "merge" /\ UNCHANGED <<wal, memtable, sstables, doomed>>
      /\ pc' = MergeStep(todo', merged')
  BY DEF Merge
<1>2. h.call \in {"flush", "compact"} /\ wal = <<>> /\ Outputs = {}
  BY <1>1 DEF Tracks, AtWork, Running
<1>3. pc' = IF todo' # {} THEN "merge"
            ELSE IF Present(merged') # {} THEN "spill" ELSE "remove"
  BY <1>1, MergeGoesOnSmall DEF TypeOK, Content
<1>4. Answers(A, h)'
  <2>1. AnswersStay
    BY MergeStepKeeps, AllShown DEF Inductive
  <2> QED
    BY <1>1, <1>3, <2>1, DoubtFollows, AnswersKept DEF Tracks, DoubtStays
<1>5. Memory' = Memory
  BY <1>1, <1>3 DEF Memory
<1>6. InMemory(A, h)' /\ OnDisk(A, h)' /\ Buried(A, h)'
  BY <1>1, <1>2, <1>5, NotBuried DEF Tracks, InMemory, OnDisk
<1>7. Outputs' = {}
  BY <1>1, <1>2 DEF Outputs
<1>8. AtWork(A, h)'
  BY <1>1, <1>2, <1>3, <1>7, FS_EmptySet DEF AtWork
<1> QED
  BY <1>3, <1>4, <1>6, <1>8 DEF Tracks

(* A compaction reads some table, so that no test that has no table runs one. *)
LEMMA Compacts ==
    ASSUME Steady, Running, NEW A, NEW h, Tracks(A, h)
    PROVE  /\ h.call \in {"flush", "compact"} /\ ~Writes(h) /\ wal = <<>>
           /\ memtable = Empty
           /\ DOMAIN sstables # {} /\ doomed # {} /\ doomed \subseteq DOMAIN sstables
           /\ h.call = "compact" => A.mem = {} /\ 0 \notin A.files
<1>1. h.call \in {"flush", "compact"} /\ wal = <<>>
  BY DEF Tracks, AtWork
<1>2. ~Writes(h)
  BY <1>1 DEF Writes
<1>3. memtable = Empty /\ doomed # {} /\ doomed \subseteq DOMAIN sstables
  BY DEF Steady, TypeOK, Flushed, Compacting, OutputsNewer, Running
<1>4. DOMAIN sstables # {}
  BY <1>3
<1>5. ASSUME h.call = "compact" PROVE A.mem = {} /\ 0 \notin A.files
  <2>1. Present(Replay(wal)) = A.mem
    BY <1>5 DEF Tracks, InMemory, Mems, Adds
  <2>2. Present(Replay(<<>>)) = {}
    BY ReplayEmpty DEF Present, Empty
  <2> QED
    BY <1>1, <1>4, <1>5, <2>1, <2>2 DEF Tracks, OnDisk
<1> QED
  BY <1>1, <1>2, <1>3, <1>4, <1>5

LEMMA SpillTracks ==
    ASSUME Inductive, ClockForward, NEW A, NEW h, Tracks(A, h), Spill
    PROVE  pc' = "remove" /\ Tracks(A, h)'
<1>1. /\ pc = "spill" /\ AddTable(Complete(merged)) /\ UNCHANGED <<wal, memtable, doomed>>
      /\ pc' = IF todo = {} THEN "remove" ELSE "merge"
  BY DEF Spill
<1>2. Outputs = {} /\ todo = {}
  BY <1>1 DEF Tracks, AtWork
<1>3. /\ h.call \in {"flush", "compact"} /\ wal = <<>> /\ DOMAIN sstables # {}
      /\ h.call = "compact" => 0 \notin A.files
  BY <1>1, Compacts DEF Inductive, Running
<1>4. Answers(A, h)'
  <2>1. AnswersStay
    BY SpillStep, AllShown DEF Inductive
  <2> QED
    BY <1>1, <2>1, DoubtFollows, AnswersKept DEF Tracks, DoubtStays
<1>5. PICK n : DOMAIN sstables' = DOMAIN sstables \cup {n}
  BY <1>1 DEF AddTable, With
<1>6. Outputs' \in SUBSET {n}
  BY <1>1, <1>2, <1>5 DEF Outputs
<1>7. Cardinality(Outputs') <= 1
  <2>1. Cardinality({}) <= 1
    BY FS_EmptySet
  <2>2. Cardinality({n}) = 1
    BY FS_Singleton
  <2> QED
    BY <1>6, <2>1, <2>2
<1>8. Memory' = Memory
  BY <1>1 DEF Memory
<1>9. InMemory(A, h)' /\ OnDisk(A, h)' /\ Buried(A, h)'
  BY <1>1, <1>3, <1>5, <1>8, NotBuried DEF Tracks, InMemory, OnDisk
<1>10. AtWork(A, h)'
  BY <1>1, <1>2, <1>3, <1>7 DEF AtWork
<1> QED
  BY <1>1, <1>2, <1>4, <1>9, <1>10 DEF Tracks

LEMMA RemoveTracks ==
    ASSUME Inductive, NEW A, NEW h, Tracks(A, h), Remove
    PROVE  IF pc' = "idle" THEN Tracks(After(A, h), Nothing)' ELSE Tracks(A, h)'
<1> DEFINE x == Max(doomed)
           B == After(A, h)
<1>1. /\ pc = "remove" /\ doomed' = doomed \ {x}
      /\ sstables' = Restrict(sstables, DOMAIN sstables \ {x})
      /\ pc' = IF doomed' = {} THEN "idle" ELSE "remove"
      /\ UNCHANGED <<wal, memtable>>
  BY DEF Remove
<1>2. /\ h.call \in {"flush", "compact"} /\ ~Writes(h) /\ wal = <<>> /\ memtable = Empty
      /\ doomed # {} /\ doomed \subseteq DOMAIN sstables
      /\ h.call = "compact" => A.mem = {} /\ 0 \notin A.files
  BY <1>1, Compacts DEF Inductive, Running
<1>3. Answers(A, h)' /\ Answers(B, Nothing)'
  BY <1>2, RemoveStep, AnswersKept DEF Inductive, Tracks, DoubtStays
<1>4. x \in doomed
  <2>1. doomed \in SUBSET (0..clock) /\ clock \in Nat
    BY <1>2 DEF Inductive, Steady, TypeOK
  <2> QED
    BY <1>2, <2>1, MaxIsGreatest
<1> HIDE DEF x
<1>5. DOMAIN sstables' = DOMAIN sstables \ {x} /\ Outputs' = Outputs
  <2>1. DOMAIN sstables' = DOMAIN sstables \ {x}
    BY <1>1, RestrictIs
  <2> QED
    BY <1>1, <1>4, <2>1 DEF Outputs
<1>6. Cardinality(Outputs) <= 1
  BY <1>1 DEF Tracks, AtWork
<1>7. Memory' = Memory /\ Memory = Empty /\ Present(Empty) = {} /\ Present(Replay(wal)) = {}
  BY <1>1, <1>2, ReplayEmpty DEF Memory, Present, Empty
<1>8. CASE pc' = "idle"
  <2>1. DOMAIN sstables' = Outputs
    BY <1>1, <1>5, <1>8 DEF Outputs
  <2>2. /\ B.mem = {}
        /\ \/ B.files = {}
           \/ h.call = "compact" /\ B.files = A.files \cup {1, NoneListed}
    BY <1>2 DEF After, Known, Adds
  <2>3. InMemory(B, Nothing)'
    BY <1>1, <1>2, <1>7, <2>2 DEF InMemory, Mems, Adds, Nothing, Do
  <2>6. Buried(B, Nothing)'
    BY NotBuried DEF Nothing, Do
  <2>4. OnDisk(B, Nothing)'
    BY <1>2, <1>6, <2>1, <2>2 DEF OnDisk, NoneListed
  <2>5. AtWork(B, Nothing)'
    BY <1>8 DEF AtWork, Running
  <2> QED
    BY <1>3, <1>8, <2>3, <2>4, <2>5, <2>6 DEF Tracks
<1>9. CASE pc' # "idle"
  <2>1. pc' = "remove" /\ DOMAIN sstables' # {}
    BY <1>1, <1>2, <1>5, <1>9
  <2>2. InMemory(A, h)' /\ OnDisk(A, h)' /\ Buried(A, h)'
    BY <1>1, <1>2, <1>7, <2>1, NotBuried DEF Tracks, InMemory, OnDisk, Mems
  <2>3. AtWork(A, h)'
    BY <1>1, <1>2, <1>5, <1>6, <2>1 DEF AtWork
  <2> QED
    BY <1>3, <1>9, <2>2, <2>3 DEF Tracks
<1> QED
  BY <1>8, <1>9

(* What an operation that is cut off leaves in the log and among the tables. *)
LEMMA CutOffTracks ==
    ASSUME Inductive, SafeEnvironment, TestsFit, Content,
           NEW A, NEW h, Tracks(A, h), pc # "down", Interrupted
    PROVE  /\ h.call # "flush" => Present(Replay(wal')) \in Mems(A, h)
           /\ ~Adds(A, h) /\ h.call # "flush" /\ A.mem = {} => wal' = <<>>
           /\ h.call = "flush" => \/ Present(memtable) # {} /\ Present(Replay(wal')) # {}
                                  \/ DOMAIN sstables' # {}
           /\ OnDisk(A, h)'
<1>1. \/ /\ pc = "write" /\ wal' \in {Append(wal, Torn), Append(wal, entry)}
         /\ UNCHANGED sstables
      \/ /\ pc \in {"flush", "spill"} /\ (\E t : AddTable(t)) /\ UNCHANGED wal
      \/ pc = "truncate" /\ wal' = <<>> /\ UNCHANGED sstables
      \/ UNCHANGED <<wal, sstables>>
  BY DEF Interrupted
<1>2. \/ wal' = wal
      \/ pc = "write" /\ wal' \in {Append(wal, Torn), Append(wal, entry)}
      \/ pc = "truncate" /\ wal' = <<>>
  BY <1>1
<1>t. pc = "truncate" => h.call = "flush" /\ DOMAIN sstables # {}
  BY DEF Tracks, AtWork, Inductive, Steady, Flushed
<1>3. \/ sstables' = sstables
      \/ pc \in {"flush", "spill"} /\ DOMAIN sstables \subseteq DOMAIN sstables'
  BY <1>1 DEF AddTable, With
<1>4. Memory = memtable
  BY DEF Memory
<1>5. \/ \A k \in Keys : Replay(wal')[k] = Replay(wal)[k]
      \/ /\ pc = "write"
         /\ \A k \in Keys : Replay(wal')[k] =
               IF k = entry.key THEN entry.value ELSE Replay(wal)[k]
      \/ pc = "truncate"
  BY <1>2, InterruptedLog DEF Inductive
<1>6. pc = "write" =>
         /\ Writes(h) /\ entry.key = h.key /\ entry.key \in Keys /\ entry.value # Nil
         /\ A.mem \cup {h.key} \in Mems(A, h)
  BY SlotAssumption DEF Tracks, AtWork, Inductive, Steady, TypeOK, Record
<1>7. \/ Present(Replay(wal')) = Present(Replay(wal))
      \/ pc = "write" /\ Present(Replay(wal')) = Present(Replay(wal)) \cup {h.key}
      \/ pc = "truncate"
  BY <1>5, <1>6 DEF Present
<1>8. ASSUME h.call # "flush" PROVE Present(Replay(wal')) \in Mems(A, h)
  BY <1>t, <1>6, <1>7, <1>8 DEF Tracks, InMemory, Mems
<1>9. ASSUME ~Adds(A, h), h.call # "flush", A.mem = {} PROVE wal' = <<>>
  <2>1. pc # "write"
    BY <1>6, <1>9 DEF Mems
  <2> QED
    BY <1>t, <1>2, <1>9, <2>1 DEF Tracks, InMemory
<1>10. ASSUME h.call = "flush"
       PROVE  \/ Present(memtable) # {} /\ Present(Replay(wal')) # {}
              \/ DOMAIN sstables' # {}
  <2>1. Present(memtable) # {} => Present(Replay(wal)) # {}
    BY DEF Inductive, Steady, Logged, Present
  <2> QED
    BY <1>t, <1>3, <1>4, <1>7, <1>10, <2>1 DEF Tracks, InMemory
<1>11. OnDisk(A, h)'
  <2>1. CASE sstables' = sstables
    BY <2>1 DEF Tracks, OnDisk
  <2>2. CASE pc = "flush"
    BY <2>2 DEF Tracks, OnDisk, AtWork
  <2>3. CASE pc = "spill"
    <3>1. Running
      BY <2>3 DEF Running
    <3>2. h.call \in {"flush", "compact"} /\ (h.call = "compact" => 0 \notin A.files)
      BY <3>1, Compacts DEF Inductive
    <3> QED
      BY <3>2 DEF OnDisk
  <2> QED
    BY <1>3, <2>1, <2>2, <2>3
<1> QED
  BY <1>8, <1>9, <1>10, <1>11

LEMMA EndTracks ==
    ASSUME Inductive, SafeEnvironment, TestsFit, Content,
           NEW A, NEW h, Tracks(A, h),
           pc \notin {"remove", "down"}, Interrupted,
           pc' = "down", memtable' = Empty, merged' = Empty
    PROVE  Tracks(A, h)'
<1>1. ASSUME NEW k \in Keys
      PROVE  View'[k] \in {A.view[k]} \cup Aim(h, k) /\ Doubt(k)' \subseteq Aim(h, k)
  <2>1. /\ Doubt(k)' = {}
        /\ \/ View'[k] = View[k]
           \/ View'[k] \in Doubt(k)
           \/ /\ pc = "write" /\ k = entry.key
              /\ View'[k] = ValueOf(entry.value)
    BY ProcessEnds DEF Inductive, FilterHidesNothing, SafeEnvironment
  <2>2. pc = "write" => Writes(h) /\ entry.key = h.key /\ entry.value = Written(h)
    BY DEF Tracks, AtWork
  <2> QED
    BY <2>1, <2>2 DEF Tracks, Answers, Aim
<1>2. Answers(A, h)'
  BY <1>1 DEF Answers
<1>3. Memory' = Replay(wal')
  BY DEF Memory
<1>4. InMemory(A, h)' /\ OnDisk(A, h)'
  BY <1>3, CutOffTracks DEF InMemory
<1>5. AtWork(A, h)'
  BY DEF AtWork, Running
<1>6. Buried(A, h)'
  <2> SUFFICES ASSUME NEW k \in Keys, h.call = "delete", h.key = k, A.view[k] # Nil,
                      View'[k] = Nil, Replay(wal')[k] = Nil
               PROVE  FALSE
    BY <1>3 DEF Buried, Present
  <2>1. memtable[k] = Nil /\ View'[k] = View[k]
    BY ProcessEnds DEF Inductive, FilterHidesNothing, SafeEnvironment
  <2>2. Memory = memtable
    BY DEF Memory
  <2> QED
    BY <2>1, <2>2 DEF Tracks, Buried, Present
<1> QED
  BY <1>2, <1>4, <1>5, <1>6 DEF Tracks

LEMMA CrashTracks ==
    ASSUME Inductive, SafeEnvironment, TestsFit, Content,
           NEW A, NEW h, Tracks(A, h), Crash
    PROVE  Tracks(A, h)'
<1>1. /\ pc \notin {"remove", "down"} /\ Interrupted
      /\ pc' = "down" /\ memtable' = Empty /\ merged' = Empty
  BY FaultAssumption DEF Crash, DropCompaction, SafeEnvironment
<1> QED
  BY <1>1, EndTracks

LEMMA FailTracks ==
    ASSUME Inductive, SafeEnvironment, TestsFit, Content,
           NEW A, NEW h, Tracks(A, h), Fail
    PROVE  pc' = "idle" /\ Tracks(A, h)'
<1>1. /\ pc \notin {"remove", "down"} /\ Interrupted
      /\ pc' = "idle" /\ UNCHANGED memtable
  BY FaultAssumption DEF Fail, SafeEnvironment
<1>2. Answers(A, h)'
  <2>1. AnswersStay
    BY <1>1, FailStep, AllShown DEF Inductive, SafeEnvironment
  <2>2. ASSUME NEW k \in Keys
        PROVE  \/ Doubt(k)' = Doubt(k)
               \/ Doubt(k)' = {}
               \/ pc = "write" /\ k = entry.key /\ Doubt(k)' \subseteq {ValueOf(entry.value)}
    BY <1>1, <2>1, FailStep DEF Inductive, SafeEnvironment, AnswersStay
  <2>3. pc = "write" => Writes(h) /\ entry.key = h.key /\ entry.value = Written(h)
    BY DEF Tracks, AtWork
  <2> QED
    BY <2>1, <2>2, <2>3 DEF Tracks, Answers, Aim, AnswersStay
<1>3. Memory' = memtable /\ Memory = memtable
  BY <1>1 DEF Memory
<1>4. InMemory(A, h)' /\ OnDisk(A, h)'
  BY <1>1, <1>3, CutOffTracks DEF Tracks, InMemory
<1>5. AtWork(A, h)'
  BY <1>1 DEF AtWork, Running
<1>6. Buried(A, h)'
  <2>1. AnswersStay
    BY <1>1, FailStep, AllShown DEF Inductive, SafeEnvironment
  <2> QED
    BY <1>3, <2>1, BuriedKept DEF Tracks
<1> QED
  BY <1>1, <1>2, <1>4, <1>5, <1>6 DEF Tracks

LEMMA OpenTracks ==
    ASSUME Inductive, SafeEnvironment, NEW A, NEW h, Tracks(A, h), Open
    PROVE  pc' = "idle" /\ Tracks(A, h)'
<1>1. /\ pc = "down" /\ pc' = "idle" /\ UNCHANGED <<wal, sstables>>
      /\ memtable' = Replay(wal)
  BY OpenReads DEF Open, Inductive, Steady, SafeEnvironment
<1>2. Answers(A, h)'
  BY OpenStep, AnswersKept DEF Tracks, Inductive, SafeEnvironment, DoubtStays
<1>3. Memory' = Memory
  BY <1>1 DEF Memory
<1>4. InMemory(A, h)' /\ OnDisk(A, h)'
  BY <1>1, <1>3 DEF Tracks, InMemory, OnDisk
<1>5. AtWork(A, h)'
  BY <1>1 DEF AtWork, Running
<1>6. Buried(A, h)'
  BY <1>3, OpenStep, BuriedKept DEF Tracks, Inductive, SafeEnvironment
<1> QED
  BY <1>1, <1>2, <1>4, <1>5, <1>6 DEF Tracks

(* A step that tells nothing new. *)
LEMMA PassiveTracks ==
    ASSUME NEW A, NEW h, Tracks(A, h)', ~Writes(h), h.call \notin {"flush", "compact"}
    PROVE  Tracks(After(A, h), Nothing)'
<1>1. /\ After(A, h).view = A.view /\ After(A, h).mem = A.mem
      /\ After(A, h).files \subseteq A.files
      /\ h.call \notin {"write", "set", "delete"} /\ ~Adds(A, h)
  BY DEF After, Known, Writes, Adds
<1>2. /\ Nothing.call = "nothing" /\ ~Writes(Nothing) /\ ~Adds(After(A, h), Nothing)
      /\ \A k : Aim(Nothing, k) = {} /\ Aim(h, k) = {}
  BY DEF Nothing, Do, Writes, Adds, Aim
<1>3. Answers(After(A, h), Nothing)'
  BY <1>1, <1>2 DEF Tracks, Answers
<1>4. InMemory(After(A, h), Nothing)'
  BY <1>1, <1>2 DEF Tracks, InMemory, Mems
<1>5. OnDisk(After(A, h), Nothing)'
  BY <1>1, <1>2 DEF Tracks, OnDisk
<1>6. AtWork(After(A, h), Nothing)'
  BY <1>1, <1>2 DEF Tracks, AtWork
<1> QED
  BY <1>2, <1>3, <1>4, <1>5, <1>6, NotBuried DEF Tracks

LEMMA UnchangedTracks ==
    ASSUME NEW A, NEW h, Tracks(A, h), UNCHANGED vars
    PROVE  Tracks(A, h)'
<1>1. /\ View' = View /\ \A k : Doubt(k)' = Doubt(k)
      /\ Memory' = Memory /\ Outputs' = Outputs
  BY DEF vars, View, Memory, Tables, Doubt, Outputs
<1>2. Answers(A, h)'
  BY <1>1 DEF Tracks, Answers
<1>3. InMemory(A, h)' /\ OnDisk(A, h)'
  BY <1>1 DEF vars, Tracks, InMemory, OnDisk
<1>4. AtWork(A, h)'
  BY <1>1 DEF vars, Tracks, AtWork, Running
<1>5. Buried(A, h)'
  BY <1>1, BuriedKept DEF Tracks, AnswersStay
<1> QED
  BY <1>2, <1>3, <1>4, <1>5 DEF Tracks

-----------------------------------------------------------------------------
(* A call of a test that is made. *)

LEMMA UnchangedInvariant ==
    ASSUME Inductive, Content, UNCHANGED vars
    PROVE  Inductive' /\ Content'
<1>1. TypeOK' /\ Logged' /\ Flushed' /\ Compacting'
  BY DEF vars, Inductive, Steady, TypeOK, Logged, Flushed, Compacting
<1>2. FilterHidesNothing'
  BY DEF vars, Inductive, FilterHidesNothing, Hidden, Memory, Tables
<1> QED
  BY <1>1, <1>2 DEF vars, Inductive, Steady, Content

LEMMA CallWriteStarts ==
    ASSUME Inductive, TestsFit, Content, pc = "idle",
           NEW A, NEW h, Writes(h), Adds(A, h), Ready(A, h), Tracks(A, h),
           CallWrite([key |-> h.key, value |-> Written(h)])
    PROVE  Inductive' /\ Content' /\ pc' = "write" /\ Tracks(A, h)'
<1> DEFINE e == [key |-> h.key, value |-> Written(h)]
<1>1. /\ pc' = "write" /\ entry' = e
      /\ UNCHANGED <<wal, memtable, sstables, flush_count, clock, doomed, todo, merged>>
  BY DEF CallWrite, compactVars
<1>2. h.key \in TestKeys /\ Written(h) \in TestValues
  BY DEF Ready
<1>3. e \in Record /\ OfTest(e) /\ e.key = h.key /\ e.value = Written(h)
  BY <1>2 DEF TestsFit, TestValues, Record, OfTest
<1> HIDE DEF e
<1>4. e # Nil
  BY <1>3, SlotAssumption DEF Record
<1>5. TypeOK'
  BY <1>1, <1>3, <1>4 DEF Inductive, Steady, TypeOK, Pcs
<1>6. Rest' /\ ShownStays /\ AnswersStay /\ DoubtStays
  BY <1>1, QuietStep DEF Inductive
<1>7. Inductive'
  BY <1>5, <1>6, AllShown DEF Inductive, Steady, Rest
<1>8. Content'
  BY <1>1, <1>3 DEF Content
<1>9. Answers(A, h)'
  BY <1>6, AnswersKept DEF Tracks, DoubtStays
<1>10. Memory' = Memory
  BY <1>1 DEF Memory
<1>11. InMemory(A, h)' /\ OnDisk(A, h)'
  BY <1>1, <1>10 DEF Tracks, InMemory, OnDisk
<1>12. A.mem \cup {h.key} \in Mems(A, h)
  BY DEF Mems
<1>13. AtWork(A, h)'
  BY <1>1, <1>12 DEF AtWork, Running, e
<1>14. Buried(A, h)'
  BY <1>6, <1>10, BuriedKept DEF Tracks
<1> QED
  BY <1>1, <1>7, <1>8, <1>9, <1>11, <1>13, <1>14 DEF Tracks

LEMMA CallMaybeFlushTracks ==
    ASSUME Inductive, TestsFit, Content, pc = "idle", CallMaybeFlush
    PROVE  UNCHANGED vars
<1>1. ~ShouldFlush(memtable)
  BY NotDue DEF Content, Inductive, Steady, TypeOK
<1> QED
  BY <1>1 DEF CallMaybeFlush, MaybeFlush, vars, compactVars

LEMMA CallDeleteTracks ==
    ASSUME Inductive, TestsFit, Content, pc = "idle",
           NEW A, NEW h, h.call = "delete", Ready(A, h), Tracks(A, h), CallDelete(h.key)
    PROVE  /\ Inductive' /\ Content'
           /\ IF pc' = "idle" THEN Tracks(After(A, h), Nothing)' ELSE Tracks(A, h)'
<1> DEFINE B == After(A, h)
<1>1. Writes(h) /\ Written(h) = Tombstone /\ h.key \in Keys
  BY DEF Writes, Written, Ready, TestsFit
<1>2. Get(h.key) = View[h.key] /\ ValueOf(Tombstone) = Nil
  BY <1>1 DEF Get, View, Memory, Tables, ValueOf
<1>3. CASE Get(h.key) # Nil
  <2>1. CallWrite([key |-> h.key, value |-> Written(h)])
    BY <1>1, <1>3 DEF CallDelete
  <2>2. View[h.key] \in {A.view[h.key], Nil}
    BY <1>1, <1>2 DEF Tracks, Answers, Aim
  <2>3. Adds(A, h)
    BY <1>2, <1>3, <2>2 DEF Adds
  <2> QED
    BY <1>1, <2>1, <2>3, CallWriteStarts
<1>4. CASE Get(h.key) = Nil
  <2>1. UNCHANGED vars
    BY <1>4, CallMaybeFlushTracks DEF CallDelete
  <2>2. Inductive' /\ Content' /\ Tracks(A, h)' /\ pc' = "idle"
    BY <2>1, UnchangedInvariant, UnchangedTracks DEF vars
  <2>3. /\ B.view = [k \in Keys |-> IF k = h.key THEN Nil ELSE A.view[k]]
        /\ B.mem = IF A.view[h.key] # Nil THEN A.mem \cup {h.key} ELSE A.mem
        /\ B.files = A.files
    BY <1>1, <1>2 DEF After, Known, Adds
  <2>4. Answers(B, Nothing)
    <3>1. ASSUME NEW k \in Keys
          PROVE  View[k] = B.view[k] /\ Doubt(k) = {}
      <4>1. CASE k = h.key
        <5>1. /\ Doubt(k) \subseteq {Nil}
              /\ Doubt(k) \subseteq {ValueOf(Replay(wal)[k])} \ {View[k]}
          BY <1>1, <1>2, <4>1 DEF Tracks, Answers, Aim, Doubt
        <5> QED
          BY <1>2, <1>4, <2>3, <4>1, <5>1
      <4>2. CASE k # h.key
        BY <2>3, <4>2 DEF Tracks, Answers, Aim
      <4> QED
        BY <4>1, <4>2
    <3> QED
      BY <3>1 DEF Answers
  <2>5. InMemory(B, Nothing)
    <3>1. Memory = memtable
      BY DEF Memory
    <3>2. Adds(A, h) <=> A.view[h.key] # Nil
      BY DEF Adds
    <3>3. Present(memtable) \in Mems(A, h) /\ Present(Replay(wal)) \in Mems(A, h)
      BY <3>1 DEF Tracks, InMemory
    <3>4. CASE A.view[h.key] = Nil
      BY <2>3, <3>1, <3>2, <3>3, <3>4 DEF Tracks, InMemory, Mems, Adds, Nothing, Do
    <3>5. CASE A.view[h.key] # Nil
      <4>1. h.key \in Present(memtable)
        BY <1>1, <1>2, <1>4, <3>1, <3>5 DEF Tracks, Buried
      <4>2. h.key \in Present(Replay(wal))
        BY <1>1, <4>1 DEF Inductive, Steady, Logged, Present
      <4>3. /\ Present(memtable) = A.mem \cup {h.key}
            /\ Present(Replay(wal)) = A.mem \cup {h.key}
        BY <3>2, <3>3, <3>5, <4>1, <4>2 DEF Mems
      <4> QED
        BY <2>3, <3>1, <3>5, <4>3 DEF InMemory, Mems, Adds, Nothing, Do
    <3> QED
      BY <3>4, <3>5
  <2>6. OnDisk(B, Nothing) /\ AtWork(B, Nothing)
    BY <2>3 DEF Tracks, OnDisk, AtWork, Running
  <2>7. Tracks(B, Nothing)
    BY <2>4, <2>5, <2>6, NotBuried DEF Tracks, Nothing, Do
  <2> QED
    BY <2>1, <2>2, <2>7, UnchangedTracks
<1> QED
  BY <1>3, <1>4

LEMMA CallFlushTracks ==
    ASSUME Inductive, Content, pc = "idle",
           NEW A, NEW h, h.call = "flush", Tracks(A, h), CallFlush
    PROVE  Inductive' /\ Content' /\ pc' # "idle" /\ Tracks(A, h)'
<1>1. /\ pc' = IF memtable = Empty THEN "truncate" ELSE "flush"
      /\ UNCHANGED <<wal, memtable, sstables, flush_count, clock, entry,
                     doomed, todo, merged>>
  BY DEF CallFlush, compactVars
<1>2. memtable = Empty => DOMAIN sstables # {}
  <2>1. Memory = memtable /\ Present(Empty) = {}
    BY DEF Memory, Present, Empty
  <2> QED
    BY <2>1 DEF Tracks, InMemory
<1>3. TypeOK'
  BY <1>1 DEF Inductive, Steady, TypeOK, Pcs
<1>4. Rest' /\ ShownStays /\ AnswersStay /\ DoubtStays
  BY <1>1, <1>2, QuietStep DEF Inductive
<1>5. Inductive'
  BY <1>3, <1>4, AllShown DEF Inductive, Steady, Rest
<1>6. Content'
  BY <1>1 DEF Content
<1>7. Answers(A, h)'
  BY <1>4, AnswersKept DEF Tracks, DoubtStays
<1>8. Memory' = Memory
  BY <1>1 DEF Memory
<1>9. InMemory(A, h)' /\ OnDisk(A, h)' /\ AtWork(A, h)'
  BY <1>1, <1>8 DEF Tracks, InMemory, OnDisk, AtWork, Running
<1> QED
  BY <1>1, <1>5, <1>6, <1>7, <1>9, NotBuried DEF Tracks

LEMMA CallCompactTracks ==
    ASSUME Inductive, TestsFit, Content, pc = "idle",
           NEW A, NEW h, h.call = "compact", Ready(A, h), Tracks(A, h), CallCompact
    PROVE  /\ Inductive' /\ Content'
           /\ IF pc' = "idle" THEN Tracks(After(A, h), Nothing)' ELSE Tracks(A, h)'
<1> DEFINE B == After(A, h)
<1>1. UNCHANGED <<wal, memtable, sstables, flush_count, clock, entry, merged>>
  BY DEF CallCompact
<1>2. A.mem = {} /\ wal = <<>> /\ Present(memtable) = {}
  <2>1. Memory = memtable
    BY DEF Memory
  <2> QED
    BY <2>1 DEF Ready, Tracks, InMemory, Mems, Adds
<1>3. memtable = Empty
  BY <1>2 DEF Inductive, Steady, TypeOK, Present, Empty
<1>4. /\ ~Writes(h) /\ B.view = A.view /\ B.mem = {}
      /\ B.files = A.files \cup {1, NoneListed}
  BY <1>2 DEF After, Known, Writes, Adds
<1>5. CASE DOMAIN sstables = {}
  <2>1. UNCHANGED vars
    BY <1>1, <1>5 DEF CallCompact, vars
  <2>2. Answers(B, Nothing)
    BY <1>4 DEF Tracks, Answers, Aim
  <2>3. InMemory(B, Nothing)
    BY <1>2, <1>4 DEF Tracks, InMemory, Mems, Adds, Nothing, Do
  <2>4. OnDisk(B, Nothing) /\ AtWork(B, Nothing)
    BY <1>5, FS_EmptySet DEF OnDisk, AtWork, Running
  <2>5. Tracks(B, Nothing)
    BY <2>2, <2>3, <2>4, NotBuried DEF Tracks, Nothing, Do
  <2> QED
    BY <2>1, <2>5, UnchangedInvariant, UnchangedTracks DEF vars
<1>6. CASE DOMAIN sstables # {}
  <2>1. StartCompaction
    BY <1>6 DEF CallCompact
  <2>2. Flushed' /\ Compacting' /\ ShownStays
    BY <1>1, <1>3, <1>6, <2>1, CompactionStarts DEF Inductive
  <2>3. FilterHidesNothing' /\ AnswersStay
    BY <2>2, AllShown DEF Inductive
  <2>4. pc' \in {"merge", "remove"} /\ Outputs' = {}
    BY <1>1, <2>1, StartTracks DEF Inductive, Steady
  <2>5. TypeOK'
    <3>1. doomed' = DOMAIN sstables /\ todo' \in SUBSET Keys
      BY <2>1 DEF StartCompaction, Present
    <3> QED
      BY <1>1, <2>4, <3>1 DEF Inductive, Steady, TypeOK, Pcs
  <2>6. Inductive'
    BY <1>1, <1>3, <2>2, <2>3, <2>5 DEF Inductive, Steady, Logged, Empty
  <2>7. Content'
    BY <1>1 DEF Content
  <2>8. Answers(A, h)'
    BY <1>1, <2>3, <2>4, DoubtFollows, AnswersKept DEF Tracks, DoubtStays
  <2>9. Memory' = Memory
    BY <1>1, <2>4 DEF Memory
  <2>10. InMemory(A, h)' /\ OnDisk(A, h)'
    BY <1>1, <2>9 DEF Tracks, InMemory, OnDisk
  <2>11. AtWork(A, h)'
    BY <1>1, <1>2, <2>4, FS_EmptySet DEF AtWork
  <2> QED
    BY <2>4, <2>6, <2>7, <2>8, <2>10, <2>11, NotBuried DEF Tracks
<1> QED
  BY <1>5, <1>6

LEMMA CallDropTracks ==
    ASSUME Inductive, SafeEnvironment, TestsFit, Content, pc = "idle",
           NEW A, NEW h, h.call = "drop and new", Tracks(A, h), CallDrop
    PROVE  Inductive' /\ Content' /\ Tracks(After(A, h), Nothing)'
<1>1. /\ pc' = "down" /\ memtable' = Empty
      /\ UNCHANGED <<wal, sstables, flush_count, clock, entry, doomed, todo, merged>>
  BY DEF CallDrop, compactVars
<1>2. merged = Empty /\ Interrupted
  BY <1>1 DEF Inductive, Steady, Flushed, Interrupted
<1>3. Rest' /\ \A k \in Keys : ~Hidden(k)'
  BY <1>1, <1>2, ProcessEnds DEF Inductive, FilterHidesNothing, SafeEnvironment
<1>4. TypeOK'
  <2>1. Empty \in [Keys -> Slot]
    BY DEF Empty, Slot
  <2> QED
    BY <1>1, <2>1 DEF Inductive, Steady, TypeOK, Pcs
<1>5. Inductive'
  BY <1>3, <1>4 DEF Inductive, Steady, Rest, FilterHidesNothing
<1>6. Content'
  BY <1>1, TestEntries DEF Content
<1>7. Tracks(A, h)'
  BY <1>1, <1>2, EndTracks
<1> QED
  BY <1>5, <1>6, <1>7, PassiveTracks DEF Writes

LEMMA CallTracks ==
    ASSUME Inductive, SafeEnvironment, TestsFit, Content, pc = "idle",
           NEW A, NEW h, Ready(A, h), Tracks(A, h), Call(h)
    PROVE  /\ Inductive' /\ Content'
           /\ IF pc' = "idle" \/ h.call = "drop and new"
              THEN Tracks(After(A, h), Nothing)' ELSE Tracks(A, h)'
<1>1. CASE h.call \in {"write", "set"} /\ CallWrite([key |-> h.key, value |-> h.value])
  <2>1. Writes(h) /\ Written(h) = h.value /\ Adds(A, h)
    BY <1>1 DEF Writes, Written, Adds
  <2> QED
    BY <1>1, <2>1, CallWriteStarts
<1>2. CASE h.call = "delete" /\ CallDelete(h.key)
  BY <1>2, CallDeleteTracks
<1>3. CASE h.call = "flush" /\ CallFlush
  BY <1>3, CallFlushTracks
<1>4. CASE h.call = "maybe_flush" /\ CallMaybeFlush
  <2>1. UNCHANGED vars
    BY <1>4, CallMaybeFlushTracks
  <2> QED
    BY <1>4, <2>1, UnchangedInvariant, UnchangedTracks, PassiveTracks DEF Writes, vars
<1>5. CASE h.call = "compact" /\ CallCompact
  BY <1>5, CallCompactTracks
<1>6. CASE h.call = "drop and new" /\ CallDrop
  BY <1>6, CallDropTracks
<1>7. CASE h.call = "help" /\ UNCHANGED vars
  BY <1>7, UnchangedInvariant, UnchangedTracks, PassiveTracks DEF Writes, vars
<1> QED
  BY <1>1, <1>2, <1>3, <1>4, <1>5, <1>6, <1>7 DEF Call

(* What a command that has started goes on with. *)
LEMMA ProceedTracks ==
    ASSUME Inductive, TypeOK', SafeEnvironment, TestsFit, Content, Content',
           NEW A, NEW h, Tracks(A, h), Proceed
    PROVE  IF pc' = "idle" THEN Tracks(After(A, h), Nothing)' ELSE Tracks(A, h)'
BY WriteTracks, FlushTracks, TruncateTracks, MergeTracks, SpillTracks, RemoveTracks
DEF Proceed, SafeEnvironment

(* The tables that were listed: a new one has a new name, and a compaction removes
   all that it found. *)
NoneLeft(A, h) ==
    /\ listed \subseteq 0..clock
    /\ Running => listed \cap DOMAIN sstables \subseteq doomed
    /\ NoneListed \in A.files /\ h.call \notin {"flush", "compact"} =>
          listed \cap DOMAIN sstables = {}

LEMMA AddedUnlisted ==
    ASSUME ClockForward, clock \in Nat, listed \subseteq 0..clock, NEW t, AddTable(t)
    PROVE  /\ listed \subseteq 0..clock'
           /\ listed \cap DOMAIN sstables' = listed \cap DOMAIN sstables
<1>1. PICK i \in ClockSteps : clock' = clock + i /\ sstables' = With(sstables, clock + i, t)
  BY DEF AddTable
<1>2. i \in Nat \ {0}
  BY DEF ClockForward
<1>3. DOMAIN sstables' = DOMAIN sstables \cup {clock + i}
  BY <1>1 DEF With
<1>4. clock + i \notin listed
  BY <1>2
<1> QED
  BY <1>1, <1>2, <1>3, <1>4

LEMMA ListedKept ==
    ASSUME TypeOK, SafeEnvironment, NEW A, NEW h, NoneLeft(A, h), UNCHANGED listed,
           Proceed \/ Crash \/ Fail \/ Open
    PROVE  /\ NoneLeft(A, h)'
           /\ Running /\ Proceed /\ pc' = "idle" => listed \cap DOMAIN sstables' = {}
<1>1. clock \in Nat /\ doomed \subseteq DOMAIN sstables /\ ClockForward
      /\ listed \subseteq 0..clock
  BY DEF TypeOK, SafeEnvironment, NoneLeft
<1> DEFINE Kept == /\ listed \subseteq 0..clock'
                   /\ listed \cap DOMAIN sstables' \subseteq listed \cap DOMAIN sstables
<1>2. ASSUME Kept, Running' => \/ Running /\ doomed' = doomed
                              \/ doomed' = DOMAIN sstables'
      PROVE  NoneLeft(A, h)'
  BY <1>2 DEF NoneLeft
<1>3. CASE Write \/ Open
  <2>1. UNCHANGED <<sstables, clock>> /\ ~Running'
    BY <1>3 DEF Write, Open, MaybeFlush, Running
  <2>2. ~(Running /\ Proceed)
    BY <1>3 DEF Write, Open, Running, Proceed, FlushTable, Truncate, Merge, Spill, Remove
  <2> QED
    BY <1>1, <1>2, <2>1, <2>2
<1>4. CASE FlushTable
  <2>1. AddTable(Complete(memtable)) /\ pc = "flush" /\ pc' = "truncate"
    BY <1>4 DEF FlushTable
  <2>2. Kept
    BY <1>1, <2>1, AddedUnlisted
  <2> QED
    BY <1>2, <2>1, <2>2 DEF Running
<1>5. CASE Truncate
  <2>1. /\ UNCHANGED <<sstables, clock>> /\ pc = "truncate"
        /\ pc' = "idle" \/ doomed' = DOMAIN sstables
    BY <1>5 DEF Truncate, StartCompaction
  <2> QED
    BY <1>1, <1>2, <2>1 DEF Running
<1>6. CASE Merge
  <2>1. UNCHANGED <<sstables, clock, doomed>> /\ pc = "merge" /\ pc' # "idle"
    BY <1>6 DEF Merge, MergeStep
  <2> QED
    BY <1>1, <1>2, <2>1 DEF Running
<1>7. CASE Spill
  <2>1. AddTable(Complete(merged)) /\ pc = "spill" /\ pc' # "idle" /\ UNCHANGED doomed
    BY <1>7 DEF Spill
  <2>2. Kept
    BY <1>1, <2>1, AddedUnlisted
  <2> QED
    BY <1>2, <2>1, <2>2 DEF Running
<1>8. CASE Remove
  <2> DEFINE x == Max(doomed)
  <2>1. /\ pc = "remove" /\ doomed' = doomed \ {x} /\ UNCHANGED clock
        /\ DOMAIN sstables' = DOMAIN sstables \ {x}
        /\ pc' = IF doomed' = {} THEN "idle" ELSE "remove"
    BY <1>8, RestrictIs DEF Remove
  <2> HIDE DEF x
  <2>2. listed \cap DOMAIN sstables' \subseteq doomed'
    BY <2>1 DEF NoneLeft, Running
  <2> QED
    BY <1>1, <2>1, <2>2 DEF NoneLeft
<1>9. CASE Crash \/ Fail
  <2>1. Interrupted /\ ~Running' /\ pc \notin {"remove"}
    BY <1>9 DEF Crash, Fail, Running, SafeEnvironment
  <2>2. (\E t : AddTable(t)) \/ UNCHANGED <<sstables, clock>>
    BY <2>1 DEF Interrupted
  <2>3. Kept
    BY <1>1, <2>2, AddedUnlisted
  <2>4. NoneLeft(A, h)'
    BY <1>2, <2>1, <2>3
  <2> QED
    BY <1>6, <1>7, <1>8, <2>4 DEF Proceed, Running, Write, FlushTable, Truncate
<1> QED
  BY <1>3, <1>4, <1>5, <1>6, <1>7, <1>8, <1>9 DEF Proceed

(* A call or a command that goes on. *)
LEMMA AfterFiles ==
    ASSUME NEW A, NEW h, h.call # "compact"
    PROVE  NoneListed \in After(A, h).files =>
               NoneListed \in A.files /\ h.call \notin {"flush", "list"}
BY DEF After, Known

LEMMA ProceedLeaves ==
    ASSUME TypeOK, SafeEnvironment, NEW A, NEW h, Tracks(A, h), NoneLeft(A, h),
           UNCHANGED listed, Proceed
    PROVE  IF pc' = "idle" THEN NoneLeft(After(A, h), Nothing)' ELSE NoneLeft(A, h)'
<1>1. /\ NoneLeft(A, h)'
      /\ Running /\ pc' = "idle" => listed' \cap DOMAIN sstables' = {}
  BY ListedKept
<1>2. CASE h.call = "compact"
  <2>1. Running
    BY <1>2 DEF Tracks, AtWork, Writes, Running, Proceed, Write, FlushTable, Truncate,
                Merge, Spill, Remove
  <2> QED
    BY <1>1, <2>1 DEF NoneLeft
<1>3. CASE h.call # "compact"
  BY <1>1, <1>3, AfterFiles DEF NoneLeft
<1> QED
  BY <1>2, <1>3

LEMMA CallLeaves ==
    ASSUME pc = "idle", NEW A, NEW h, h.call \in Calls, Tracks(A, h), NoneLeft(A, h),
           UNCHANGED listed, Call(h)
    PROVE  IF pc' = "idle" \/ h.call = "drop and new"
           THEN NoneLeft(After(A, h), Nothing)' ELSE NoneLeft(A, h)'
<1>1. UNCHANGED <<sstables, clock>>
  BY DEF Call, CallWrite, CallDelete, CallFlush, CallMaybeFlush, CallCompact, CallDrop, vars
<1>2. CASE h.call = "compact"
  <2>1. CallCompact
    BY <1>2 DEF Call
  <2>2. \/ DOMAIN sstables = {} /\ UNCHANGED pc
        \/ doomed' = DOMAIN sstables /\ pc' # "idle"
    BY <2>1 DEF CallCompact, StartCompaction, MergeStep
  <2> QED
    BY <1>1, <1>2, <2>2 DEF NoneLeft, Running
<1>3. CASE h.call # "compact"
  <2>1. ~Running'
    BY <1>3 DEF Call, CallWrite, CallDelete, CallFlush, CallMaybeFlush, CallDrop,
                MaybeFlush, Running, vars
  <2> QED
    BY <1>1, <1>3, <2>1, AfterFiles DEF NoneLeft
<1> QED
  BY <1>2, <1>3

(* With nothing to do the engine does nothing. *)
LEMMA NothingProceeds ==
    ASSUME Inductive, NEW A, Tracks(A, Nothing)
    PROVE  ~Proceed
BY DEF Tracks, AtWork, Running, Nothing, Do, Writes, Proceed, Write, FlushTable,
       Truncate, Merge, Spill, Remove
-----------------------------------------------------------------------------
(* A script from here to its end. *)

Closed(G) ==
    \A g \in G : g.left # <<>> =>
        /\ Ready(g.known, Head(g.left))
        /\ [known |-> After(g.known, Head(g.left)), left |-> Tail(g.left)] \in G

(* What is known now is enough for every step that is left of the test. *)
WillPass(A, s) == \E G : Closed(G) /\ [known |-> A, left |-> s] \in G

LEMMA PassOn ==
    ASSUME NEW A, NEW s, WillPass(A, s), s # <<>>
    PROVE  Ready(A, Head(s)) /\ WillPass(After(A, Head(s)), Tail(s))
<1>1. PICK G : Closed(G) /\ [known |-> A, left |-> s] \in G
  BY DEF WillPass
<1>2. /\ Ready(A, Head(s))
      /\ [known |-> After(A, Head(s)), left |-> Tail(s)] \in G
  BY <1>1 DEF Closed
<1> QED
  BY <1>1, <1>2 DEF WillPass

LEMMA PassNone == ASSUME NEW A PROVE WillPass(A, <<>>)
<1> DEFINE G == {[known |-> A, left |-> <<>>]}
<1>1. Closed(G)
  BY DEF Closed
<1> QED
  BY <1>1 DEF WillPass

LEMMA PassFirst ==
    ASSUME NEW A, NEW s, Ready(A, Head(s)), WillPass(After(A, Head(s)), Tail(s))
    PROVE  WillPass(A, s)
<1> DEFINE first == [known |-> A, left |-> s]
           next  == [known |-> After(A, Head(s)), left |-> Tail(s)]
<1>1. PICK G : Closed(G) /\ next \in G
  BY DEF WillPass
<1>2. Closed(G \cup {first})
  <2> SUFFICES ASSUME NEW g \in G \cup {first}, g.left # <<>>
               PROVE  /\ Ready(g.known, Head(g.left))
                      /\ [known |-> After(g.known, Head(g.left)), left |-> Tail(g.left)]
                           \in G \cup {first}
    BY DEF Closed
  <2>1. CASE g \in G
    BY <1>1, <2>1 DEF Closed
  <2>2. CASE g = first
    <3>1. g.known = A /\ g.left = s
      BY <2>2
    <3> QED
      BY <1>1, <3>1
  <2> QED
    BY <2>1, <2>2
<1> QED
  BY <1>2 DEF WillPass

(* What a test expects is what is known. *)
LEMMA ExpectationsMet ==
    ASSUME Inductive, pc = "idle", NEW A, NEW h, h.call \notin Calls \cup {"list"},
           Ready(A, h), Tracks(A, h), NoneLeft(A, h)
    PROVE  Meets(h)
<1>1. h.call \in Expectations
  BY DEF Ready
<1>2. /\ Memory = memtable /\ Tables = sstables
      /\ memtable \in [Keys -> Slot]
      /\ h.call \notin {"write", "set", "delete", "flush", "compact"}
      /\ ~Adds(A, h)
  BY DEF Adds, Memory, Tables, Inductive, Steady, TypeOK, Calls
<1>3. /\ Present(memtable) = A.mem /\ Present(Replay(wal)) = A.mem
      /\ A.mem = {} => wal = <<>>
  BY <1>2 DEF Tracks, InMemory, Mems
<1>4. \A k \in Keys : View[k] = A.view[k]
  BY <1>2 DEF Tracks, Answers, Aim, Writes
<1>5. CASE h.call = "get"
  BY <1>2, <1>4, <1>5 DEF Ready, Meets, Get, View
<1>6. CASE h.call = "len"
  BY <1>3, <1>6 DEF Ready, Meets
<1>7. CASE h.call = "contains_key"
  BY <1>3, <1>7 DEF Ready, Meets, Present
<1>8. CASE h.call = "wal empty"
  BY <1>3, <1>8 DEF Ready, Meets
<1>9. CASE h.call = "wal kept"
  <2>1. Present(Replay(<<>>)) = {}
    BY ReplayEmpty DEF Present, Empty
  <2> QED
    BY <1>3, <1>9, <2>1 DEF Ready, Meets
<1>10. CASE h.call = "some table"
  <2>1. PICK k \in Keys : A.view[k] # Nil
    BY <1>10 DEF Ready
  <2>2. memtable[k] = Nil
    BY <1>3, <1>10 DEF Ready, Present
  <2>3. TableEntry(sstables, k) # Nil
    BY <1>2, <1>4, <2>1, <2>2, ViewAt DEF ValueOf
  <2>4. DOMAIN sstables # {}
    BY <2>3 DEF TableEntry, NewestEntry, Holding
  <2> QED
    BY <1>10, <2>4 DEF Meets
<1>11. CASE h.call = "tables"
  <2>1. h.value \in A.files
    BY <1>11 DEF Ready
  <2>2. 0 \in A.files => Cardinality(DOMAIN sstables) <= 0
    BY <1>2, FS_EmptySet DEF Tracks, OnDisk
  <2>3. 1 \in A.files => Cardinality(DOMAIN sstables) <= 1
    BY <1>2 DEF Tracks, OnDisk
  <2>4. h.value \in {0, 1}
    BY <1>11 DEF Ready
  <2> QED
    BY <1>11, <2>1, <2>2, <2>3, <2>4 DEF Meets
<1>12. CASE h.call = "parse"
  BY <1>12 DEF Ready, Meets
<1>13. CASE h.call = "listed gone"
  BY <1>13 DEF Ready, Meets, NoneLeft
<1> QED
  BY <1>1, <1>5, <1>6, <1>7, <1>8, <1>9, <1>10, <1>11, <1>12, <1>13 DEF Expectations

(* The invariant: what is known carries the test to its end, and the engine is
   where that says or on the way from there to where the next step will take
   it. *)
TestInv ==
    /\ Inductive
    /\ script # Nil =>
          /\ Content
          /\ \E A : /\ WillPass(A, script)
                    /\ \E h \in Doing(script) : Tracks(A, h) /\ NoneLeft(A, h)

(* It may be taken to be on the way. *)
LEMMA AtStep ==
    ASSUME TestInv, script # Nil
    PROVE  \E A : /\ WillPass(A, script)
                  /\ script = <<>> => Tracks(A, Nothing) /\ NoneLeft(A, Nothing)
                  /\ script # <<>> => /\ Ready(A, InHand)
                                      /\ Tracks(A, InHand) /\ NoneLeft(A, InHand)
                                      /\ WillPass(After(A, InHand), Tail(script))
<1>1. PICK A : /\ WillPass(A, script)
               /\ \E h \in Doing(script) : Tracks(A, h) /\ NoneLeft(A, h)
  BY DEF TestInv
<1>2. script # <<>> => /\ Ready(A, InHand) /\ WillPass(After(A, InHand), Tail(script))
                       /\ Tracks(A, InHand)
  BY <1>1, PassOn, Advances DEF Doing, InHand
<1>4. script # <<>> => NoneLeft(A, InHand)
  BY <1>1 DEF Doing, InHand, NoneLeft, Nothing, Do
<1>3. script = <<>> => Tracks(A, Nothing) /\ NoneLeft(A, Nothing)
  BY <1>1 DEF Doing
<1> QED
  BY <1>1, <1>2, <1>3, <1>4

FreeFits == FreeKeys \subseteq Keys /\ FreeValues \subseteq Values

LEMMA TestInvStep ==
    ASSUME SafeEnvironment, TestsFit, FreeFits, TestInv, [TestNext]_testVars
    PROVE  TestInv'
<1>i. Inductive
  BY DEF TestInv
<1>n. ASSUME [Next]_vars PROVE Inductive' /\ TypeOK'
  BY <1>i, <1>n, InductiveStep DEF Inductive, Steady
<1>1. CASE UNCHANGED testVars
  <2>1. UNCHANGED vars /\ script' = script /\ listed' = listed
    BY <1>1 DEF testVars
  <2>2. ASSUME script # Nil PROVE Content'
    BY <1>i, <2>1, <2>2, UnchangedInvariant DEF TestInv
  <2>3. ASSUME script # Nil
        PROVE  \E A : /\ WillPass(A, script)
                      /\ \E h \in Doing(script) : Tracks(A, h)' /\ NoneLeft(A, h)'
    <3>1. \A A, h : NoneLeft(A, h) => NoneLeft(A, h)'
      BY <2>1 DEF NoneLeft, vars, Running
    <3> QED
      BY <2>1, <2>3, <3>1, UnchangedTracks DEF TestInv
  <2> QED
    BY <1>n, <2>1, <2>2, <2>3 DEF TestInv
<1>2. CASE script = Nil /\ TestNext
  <2>1. script' = script
    BY <1>2 DEF TestNext, AnyCommand, AnyCrash, Start, Continue, ListTables, Expect,
                Mishap, Restart, Scripted
  <2>2. Next
    BY <1>2 DEF TestNext, AnyCommand, AnyCrash, Start, Continue, ListTables, Expect,
                Mishap, Restart, Scripted, FreeFits, Next
  <2> QED
    BY <1>2, <1>n, <2>1, <2>2 DEF TestInv
<1>3. CASE script # Nil /\ TestNext
  <2>1. PICK A : /\ WillPass(A, script)
                 /\ script = <<>> => Tracks(A, Nothing) /\ NoneLeft(A, Nothing)
                 /\ script # <<>> => /\ Ready(A, InHand)
                                     /\ Tracks(A, InHand) /\ NoneLeft(A, InHand)
                                     /\ WillPass(After(A, InHand), Tail(script))
    BY <1>3, AtStep
  <2>0. PICK h : h = IF script = <<>> THEN Nothing ELSE InHand
    OBVIOUS
  <2> DEFINE B == After(A, h)
  <2>2. /\ Content /\ Tracks(A, h) /\ NoneLeft(A, h) /\ h \in Doing(script)
        /\ Scripted <=> script # <<>>
    BY <1>3, <2>0, <2>1 DEF TestInv, Doing, InHand, Scripted
  <2>3. script # <<>> => h = InHand /\ Ready(A, h) /\ WillPass(B, Tail(script))
    BY <2>0, <2>1
  <2> HIDE DEF B
  <2>4. ASSUME script' = script, Inductive', Content', Tracks(A, h)', NoneLeft(A, h)'
        PROVE  TestInv'
    BY <2>1, <2>2, <2>4 DEF TestInv
  <2>5. ASSUME script # <<>>, script' = Tail(script), Inductive', Content',
               Tracks(B, Nothing)', NoneLeft(B, Nothing)'
        PROVE  TestInv'
    BY <2>3, <2>5 DEF TestInv, Doing
  <2>6. CASE Start
    <3>1. pc = "idle" /\ script # <<>> /\ h.call \in Calls /\ Call(h) /\ UNCHANGED listed
      BY <2>2, <2>3, <2>6 DEF Start
    <3>2. /\ Inductive' /\ Content'
          /\ IF pc' = "idle" \/ h.call = "drop and new"
             THEN Tracks(B, Nothing)' ELSE Tracks(A, h)'
      BY <1>i, <2>2, <2>3, <3>1, CallTracks DEF B
    <3>3. script' = IF pc' = "idle" \/ h.call = "drop and new" THEN Tail(script)
                    ELSE script
      BY <2>3, <2>6, <3>1 DEF Start
    <3>4. IF pc' = "idle" \/ h.call = "drop and new"
          THEN NoneLeft(B, Nothing)' ELSE NoneLeft(A, h)'
      BY <2>2, <3>1, CallLeaves DEF B
    <3> QED
      BY <2>4, <2>5, <3>1, <3>2, <3>3, <3>4
  <2>7. CASE Continue
    <3>1. Proceed /\ Next /\ UNCHANGED listed
      BY <2>7 DEF Continue, Next
    <3>2. Inductive' /\ TypeOK' /\ Content'
      BY <1>i, <1>n, <2>2, <3>1, ContentStep DEF Inductive
    <3>3. script # <<>>
      BY <1>i, <2>1, <3>1, NothingProceeds
    <3>4. IF pc' = "idle" THEN Tracks(B, Nothing)' ELSE Tracks(A, h)'
      BY <1>i, <2>2, <3>1, <3>2, ProceedTracks DEF B
    <3>5. script' = IF pc' = "idle" THEN Tail(script) ELSE script
      BY <2>2, <2>7, <3>3 DEF Continue
    <3>6. IF pc' = "idle" THEN NoneLeft(B, Nothing)' ELSE NoneLeft(A, h)'
      BY <1>i, <2>2, <3>1, ProceedLeaves DEF B, Inductive, Steady
    <3> QED
      BY <2>4, <2>5, <3>2, <3>3, <3>4, <3>5, <3>6
  <2>8. CASE Expect
    <3>1. /\ script # <<>> /\ h.call \notin Calls /\ script' = Tail(script)
          /\ UNCHANGED vars /\ UNCHANGED listed
      BY <2>2, <2>3, <2>8 DEF Expect
    <3>2. Inductive' /\ Content' /\ Tracks(A, h)'
      BY <1>i, <2>2, <3>1, UnchangedInvariant, UnchangedTracks
    <3>3. Tracks(B, Nothing)'
      BY <3>1, <3>2, PassiveTracks DEF B, Writes, Calls
    <3>4. h.call # "compact"
      BY <3>1 DEF Calls
    <3>5. NoneLeft(B, Nothing)'
      BY <2>2, <3>1, <3>4, AfterFiles DEF B, NoneLeft, vars, Running
    <3> QED
      BY <2>5, <3>1, <3>2, <3>3, <3>5
  <2>11. CASE ListTables
    <3>1. /\ script # <<>> /\ h.call = "list" /\ script' = Tail(script)
          /\ pc = "idle" /\ listed' = DOMAIN sstables /\ UNCHANGED vars
      BY <2>2, <2>3, <2>11 DEF ListTables
    <3>2. Inductive' /\ Content' /\ Tracks(A, h)'
      BY <1>i, <2>2, <3>1, UnchangedInvariant, UnchangedTracks
    <3>3. Tracks(B, Nothing)'
      BY <3>1, <3>2, PassiveTracks DEF B, Writes
    <3>4. NoneListed \notin B.files
      BY <3>1, AfterFiles DEF B
    <3>5. listed' \subseteq 0..clock'
      BY <1>i, <3>1 DEF Inductive, Steady, TypeOK, vars
    <3>6. NoneLeft(B, Nothing)'
      BY <3>1, <3>4, <3>5 DEF NoneLeft, vars, Running
    <3> QED
      BY <2>5, <3>1, <3>2, <3>3, <3>6
  <2>9. CASE Mishap
    <3>1. (Crash \/ Fail) /\ Next /\ script' = script /\ UNCHANGED listed
      BY <2>9 DEF Mishap, Next
    <3>2. Inductive' /\ Content'
      BY <1>i, <1>n, <2>2, <3>1, ContentStep DEF Inductive
    <3>3. Tracks(A, h)'
      BY <1>i, <2>2, <3>1, CrashTracks, FailTracks
    <3>4. NoneLeft(A, h)'
      BY <1>i, <2>2, <3>1, ListedKept DEF Inductive, Steady
    <3> QED
      BY <2>4, <3>1, <3>2, <3>3, <3>4
  <2>10. CASE Restart
    <3>1. Open /\ Next /\ script' = script /\ UNCHANGED listed
      BY <2>10 DEF Restart, Next
    <3>2. Inductive' /\ Content'
      BY <1>i, <1>n, <2>2, <3>1, ContentStep DEF Inductive
    <3>3. Tracks(A, h)'
      BY <1>i, <2>2, <3>1, OpenTracks
    <3>4. NoneLeft(A, h)'
      BY <1>i, <2>2, <3>1, ListedKept DEF Inductive, Steady
    <3> QED
      BY <2>4, <3>1, <3>2, <3>3, <3>4
  <2> QED
    BY <1>3, <2>6, <2>7, <2>8, <2>9, <2>10, <2>11 DEF TestNext, AnyCommand, AnyCrash
<1> QED
  BY <1>1, <1>2, <1>3
-----------------------------------------------------------------------------
(* The scripts.  A step is ready and changes what is known from A to B; *)
Goes(A, s, B) == s \in Steps /\ Ready(A, s) /\ After(A, s) = B

(* steps do, whatever is left to do after them. *)
Runs(A, s, B) ==
    s \in Seq(Steps) /\ \A t \in Seq(Steps) : WillPass(B, t) => WillPass(A, s \o t)

LEMMA HeadTailOfConcat ==
    ASSUME NEW S, NEW s \in Seq(S), NEW t \in Seq(S), s # <<>>
    PROVE  Head(s \o t) = Head(s) /\ Tail(s \o t) = Tail(s) \o t
<1> DEFINE u == s \o t
<1>1. /\ u \in Seq(S) /\ Len(u) = Len(s) + Len(t)
      /\ \A i \in 1 .. Len(s) + Len(t) : u[i] = IF i <= Len(s) THEN s[i] ELSE t[i - Len(s)]
  BY ConcatProperties
<1>2. Len(s) \in Nat \ {0} /\ Len(t) \in Nat
  BY EmptySeq, LenProperties
<1> HIDE DEF u
<1>3. u # <<>>
  BY <1>1, <1>2, EmptySeq
<1>4. /\ Head(s) = s[1] /\ Head(u) = u[1]
      /\ Tail(s) \in Seq(S) /\ Len(Tail(s)) = Len(s) - 1
      /\ Tail(u) \in Seq(S) /\ Len(Tail(u)) = Len(u) - 1
      /\ \A i \in 1 .. Len(Tail(s)) : Tail(s)[i] = s[i + 1]
      /\ \A i \in 1 .. Len(Tail(u)) : Tail(u)[i] = u[i + 1]
  BY <1>1, <1>3, HeadTailProperties
<1>5. Head(u) = Head(s)
  BY <1>1, <1>2, <1>4
<1> DEFINE w == Tail(s) \o t
<1>6. /\ w \in Seq(S) /\ Len(w) = Len(Tail(s)) + Len(t)
      /\ \A i \in 1 .. Len(Tail(s)) + Len(t) :
            w[i] = IF i <= Len(Tail(s)) THEN Tail(s)[i] ELSE t[i - Len(Tail(s))]
  BY <1>4, ConcatProperties
<1> HIDE DEF w
<1>7. Len(Tail(u)) = Len(w) /\ \A i \in 1 .. Len(w) : Tail(u)[i] = w[i]
  <2>1. Len(Tail(u)) = Len(w)
    BY <1>1, <1>2, <1>4, <1>6
  <2> SUFFICES ASSUME NEW i \in 1 .. Len(w) PROVE Tail(u)[i] = w[i]
    BY <2>1
  <2>2. Tail(u)[i] = u[i + 1] /\ i + 1 \in 1 .. Len(s) + Len(t)
    BY <1>1, <1>2, <1>4, <1>6, <2>1
  <2>3. CASE i <= Len(Tail(s))
    BY <1>1, <1>2, <1>4, <1>6, <2>2, <2>3
  <2>4. CASE ~(i <= Len(Tail(s)))
    <3>1. i - Len(Tail(s)) = (i + 1) - Len(s)
      BY <1>2, <1>4
    <3> QED
      BY <1>1, <1>2, <1>4, <1>6, <2>2, <2>4, <3>1
  <2> QED
    BY <2>3, <2>4
<1>8. Tail(u) = w
  BY <1>4, <1>6, <1>7, SeqEqual
<1> QED
  BY <1>5, <1>8 DEF u, w

LEMMA RunsNone == ASSUME NEW A PROVE Runs(A, <<>>, A)
<1>1. <<>> \in Seq(Steps) /\ \A t \in Seq(Steps) : <<>> \o t = t
  BY EmptySeq, ConcatEmptySeq
<1> QED
  BY <1>1 DEF Runs

LEMMA RunsFirst ==
    ASSUME NEW A, NEW B, NEW C, NEW s \in Seq(Steps), s # <<>>,
           Goes(A, Head(s), B), Runs(B, Tail(s), C)
    PROVE  Runs(A, s, C)
<1> SUFFICES ASSUME NEW t \in Seq(Steps), WillPass(C, t) PROVE WillPass(A, s \o t)
  BY DEF Runs
<1>1. Head(s \o t) = Head(s) /\ Tail(s \o t) = Tail(s) \o t
  BY HeadTailOfConcat
<1>2. WillPass(B, Tail(s) \o t)
  BY DEF Runs
<1> QED
  BY <1>1, <1>2, PassFirst DEF Goes

LEMMA RunsOn ==
    ASSUME NEW A, NEW s, NEW B, NEW t, NEW C, Runs(A, s, B), Runs(B, t, C)
    PROVE  Runs(A, s \o t, C)
<1>1. s \in Seq(Steps) /\ t \in Seq(Steps) /\ s \o t \in Seq(Steps)
  BY ConcatProperties DEF Runs
<1> SUFFICES ASSUME NEW u \in Seq(Steps), WillPass(C, u) PROVE WillPass(A, (s \o t) \o u)
  BY <1>1 DEF Runs
<1>2. (s \o t) \o u = s \o (t \o u) /\ t \o u \in Seq(Steps)
  BY <1>1, ConcatAssociative, ConcatProperties
<1> QED
  BY <1>2 DEF Runs

LEMMA RunsPass == ASSUME NEW A, NEW s, NEW B, Runs(A, s, B) PROVE WillPass(A, s)
<1>1. <<>> \in Seq(Steps) /\ s \o <<>> = s
  BY EmptySeq, ConcatEmptySeq DEF Runs
<1> QED
  BY <1>1, PassNone DEF Runs

LEMMA RunsOne == ASSUME NEW A, NEW x, NEW B, Goes(A, x, B) PROVE Runs(A, <<x>>, B)
<1>1. <<x>> \in Seq(Steps) /\ <<x>> # <<>> /\ Head(<<x>>) = x /\ Tail(<<x>>) = <<>>
  BY DEF Goes
<1> QED
  BY <1>1, RunsNone, RunsFirst

LEMMA RunsTwo ==
    ASSUME NEW A, NEW x, NEW B, NEW y, NEW C, Goes(A, x, B), Goes(B, y, C)
    PROVE  Runs(A, <<x, y>>, C)
<1> DEFINE s == <<x, y>>
<1>1. /\ s \in Seq(Steps) /\ s # <<>>
      /\ Goes(A, Head(s), B) /\ Tail(s) = <<y>>
  BY DEF Goes
<1>2. Runs(B, <<y>>, C)
  BY RunsOne
<1> HIDE DEF s
<1>3. Runs(A, s, C)
  BY <1>1, <1>2, RunsFirst
<1> QED
  BY <1>3 DEF s

LEMMA RunsThree ==
    ASSUME NEW A, NEW x, NEW B, NEW y, NEW C, NEW z, NEW D,
           Goes(A, x, B), Goes(B, y, C), Goes(C, z, D)
    PROVE  Runs(A, <<x, y, z>>, D)
<1> DEFINE s == <<x, y, z>>
<1>1. /\ s \in Seq(Steps) /\ s # <<>>
      /\ Goes(A, Head(s), B) /\ Tail(s) = <<y, z>>
  BY DEF Goes
<1>2. Runs(B, <<y, z>>, D)
  BY RunsTwo
<1> HIDE DEF s
<1>3. Runs(A, s, D)
  BY <1>1, <1>2, RunsFirst
<1> QED
  BY <1>3 DEF s

LEMMA RunsFour ==
    ASSUME NEW A, NEW x, NEW B, NEW y, NEW C, NEW z, NEW D, NEW w, NEW E,
           Goes(A, x, B), Goes(B, y, C), Goes(C, z, D), Goes(D, w, E)
    PROVE  Runs(A, <<x, y, z, w>>, E)
<1> DEFINE s == <<x, y, z, w>>
<1>1. /\ s \in Seq(Steps) /\ s # <<>>
      /\ Goes(A, Head(s), B) /\ Tail(s) = <<y, z, w>>
  BY DEF Goes
<1>2. Runs(B, <<y, z, w>>, E)
  BY RunsThree
<1> HIDE DEF s
<1>3. Runs(A, s, E)
  BY <1>1, <1>2, RunsFirst
<1> QED
  BY <1>3 DEF s

(* One step before four more. *)
LEMMA RunsMore ==
    ASSUME NEW A, NEW x, NEW B, NEW y, NEW z, NEW w, NEW r, NEW C,
           Goes(A, x, B), Runs(B, <<y, z, w, r>>, C)
    PROVE  Runs(A, <<x, y, z, w, r>>, C)
<1> DEFINE s == <<x, y, z, w, r>>
           t == <<y, z, w, r>>
<1>1. t \in Seq(Steps) /\ Len(t) = 4
  BY DEF Runs
<1>2. y \in Steps /\ z \in Steps /\ w \in Steps /\ r \in Steps
  <2>1. \A i \in 1 .. 4 : t[i] \in Steps
    BY <1>1, ElementOfSeq
  <2> QED
    BY <2>1
<1>3. s \in Seq(Steps) /\ s # <<>> /\ Goes(A, Head(s), B) /\ Tail(s) = t
  BY <1>2 DEF Goes
<1> HIDE DEF s, t
<1>4. Runs(B, t, C)
  BY DEF t
<1>5. Runs(A, s, C)
  BY <1>3, <1>4, RunsFirst
<1> QED
  BY <1>5 DEF s

(* v, after k got x. *)
Sees(v, k, x) == [j \in Keys |-> IF j = k THEN x ELSE v[j]]

LEMMA FourKeysApart ==
    ASSUME TestsFit
    PROVE  a # b /\ a # c /\ a # d /\ b # c /\ b # d /\ c # d
<1>1. ASSUME NEW x, NEW y, NEW z PROVE IsFiniteSet({x, y, z}) /\ Cardinality({x, y, z}) <= 3
  <2>1. IsFiniteSet({}) /\ Cardinality({}) = 0
    BY FS_EmptySet
  <2>2. IsFiniteSet({x}) /\ Cardinality({x}) = 1
    BY FS_Singleton
  <2>3. {x, y} = {x} \cup {y} /\ {x, y, z} = {x, y} \cup {z}
    OBVIOUS
  <2>4. IsFiniteSet({x, y}) /\ Cardinality({x, y}) \in {1, 2}
    BY <2>2, <2>3, FS_AddElement
  <2>5. IsFiniteSet({x, y, z}) /\ Cardinality({x, y, z}) \in {1, 2, 3}
    BY <2>3, <2>4, FS_AddElement
  <2> QED
    BY <2>5
<1>2. \A x, y, z : TestKeys # {x, y, z}
  <2> SUFFICES ASSUME NEW x, NEW y, NEW z, TestKeys = {x, y, z} PROVE FALSE
    OBVIOUS
  <2>1. Cardinality(TestKeys) <= 3
    BY <1>1
  <2> QED
    BY <2>1 DEF TestsFit
<1>3. /\ TestKeys # {b, c, d} /\ TestKeys # {a, b, c} /\ TestKeys # {a, b, d}
  BY <1>2
<1>4. (a = b \/ a = c \/ a = d) => TestKeys = {b, c, d}
  BY DEF TestKeys
<1>5. (b = d \/ c = d) => TestKeys = {a, b, c}
  BY DEF TestKeys
<1>6. b = c => TestKeys = {a, b, d}
  BY DEF TestKeys
<1> QED
  BY <1>3, <1>4, <1>5, <1>6

(* What the calls do to what is known: a value that is put, *)
LEMMA PutGoes ==
    ASSUME TestsFit, NEW v, NEW m, NEW n, NEW k \in TestKeys, NEW x \in {one, two, three}
    PROVE  /\ Goes(Known(v, m, n), Put(k, x), Known(Sees(v, k, x), m \cup {k}, n))
           /\ Goes(Known(v, m, n), Set(k, x), Known(Sees(v, k, x), m \cup {k}, n))
<1>1. Put(k, x) \in Steps /\ Set(k, x) \in Steps
  BY EngineCalls DEF TestKeys
<1>2. x \in TestValues /\ x # Tombstone
  BY SlotAssumption DEF TestsFit, TestValues
<1> QED
  BY <1>1, <1>2
  DEF Goes, Ready, After, Known, Sees, Put, Set, Do, Writes, Written, Adds, Calls, ValueOf

(* a tombstone that is written, *)
LEMMA BuryGoes ==
    ASSUME TestsFit, NEW v, NEW m, NEW n, NEW k \in TestKeys
    PROVE  Goes(Known(v, m, n), Bury(k), Known(Sees(v, k, Nil), m \cup {k}, n))
<1>1. Bury(k) \in Steps
  BY EngineCalls DEF TestKeys
<1> QED
  BY <1>1
  DEF Goes, Ready, After, Known, Sees, Bury, Do, Writes, Written, Adds, Calls, ValueOf,
      TestValues

(* a key that is deleted, *)
LEMMA DeleteGoes ==
    ASSUME TestsFit, NEW v, NEW m, NEW n, NEW k \in TestKeys
    PROVE  Goes(Known(v, m, n), Delete(k),
                Known(Sees(v, k, Nil), IF v[k] # Nil THEN m \cup {k} ELSE m, n))
<1>1. Delete(k) \in Steps
  BY EngineCalls DEF TestKeys
<1> QED
  BY <1>1
  DEF Goes, Ready, After, Known, Sees, Delete, Do, Writes, Written, Adds, Calls, ValueOf,
      TestValues

(* a flush of something, a compaction of everything, *)
LEMMA FlushGoes ==
    ASSUME NEW v, NEW m, NEW n, m # {}
    PROVE  Goes(Known(v, m, n), Flush, Known(v, {}, {}))
<1>1. Flush \in Steps
  BY EngineCalls
<1> QED
  BY <1>1 DEF Goes, Ready, After, Known, Flush, Do, Writes, Adds, Calls

LEMMA CompactGoes ==
    ASSUME NEW v, NEW n
    PROVE  Goes(Known(v, {}, n), Compact, Known(v, {}, n \cup {1, NoneListed}))
<1>1. Compact \in Steps
  BY EngineCalls
<1> QED
  BY <1>1 DEF Goes, Ready, After, Known, Compact, Do, Writes, Adds, Calls

(* a listing, *)
LEMMA ListGoes ==
    ASSUME NEW v, NEW m, NEW n
    PROVE  Goes(Known(v, m, n), List, Known(v, m, n \ {NoneListed}))
<1>1. List \in Steps
  BY EngineCalls
<1> QED
  BY <1>1 DEF Goes, Ready, After, Known, List, Do, Writes, Adds

(* and what changes nothing: other calls and what is expected. *)
LEMMA ReopenGoes ==
    ASSUME NEW v, NEW m, NEW n
    PROVE  /\ Goes(Known(v, m, n), Reopen, Known(v, m, n))
           /\ Goes(Known(v, m, n), FlushIfDue, Known(v, m, n))
           /\ Goes(Known(v, m, n), Help, Known(v, m, n))
<1>1. Reopen \in Steps /\ FlushIfDue \in Steps /\ Help \in Steps
  BY EngineCalls
<1> QED
  BY <1>1 DEF Goes, Ready, After, Known, Reopen, FlushIfDue, Help, Do, Writes, Adds, Calls

LEMMA GetsGoes ==
    ASSUME TestsFit, NEW v, NEW m, NEW n, NEW k \in TestKeys,
           NEW x \in {one, two, three, Nil}, v[k] = x
    PROVE  Goes(Known(v, m, n), Gets(k, x), Known(v, m, n))
<1>1. Gets(k, x) \in Steps /\ k \in Keys
  BY EngineCalls DEF TestKeys, TestsFit
<1> QED
  BY <1>1 DEF Goes, Ready, After, Known, Gets, Do, Writes, Adds, Calls, Expectations

LEMMA HasLenGoes ==
    ASSUME NEW v, NEW m, NEW n, NEW i \in {0, 1}, Cardinality(m) = i
    PROVE  Goes(Known(v, m, n), HasLen(i), Known(v, m, n))
<1>1. HasLen(i) \in Steps
  BY EngineCalls
<1> QED
  BY <1>1 DEF Goes, Ready, After, Known, HasLen, Do, Writes, Adds, Calls,
              Expectations

LEMMA HasKeyGoes ==
    ASSUME NEW v, NEW m, NEW n, NEW k \in TestKeys, k \in m
    PROVE  Goes(Known(v, m, n), HasKey(k), Known(v, m, n))
<1>1. HasKey(k) \in Steps
  BY EngineCalls DEF TestKeys
<1> QED
  BY <1>1 DEF Goes, Ready, After, Known, HasKey, Do, Writes, Adds, Calls,
              Expectations

LEMMA LogGoes ==
    ASSUME NEW v, NEW m, NEW n
    PROVE  /\ m = {} => Goes(Known(v, m, n), LogEmpty, Known(v, m, n))
           /\ m # {} => Goes(Known(v, m, n), LogKept, Known(v, m, n))
<1>1. LogEmpty \in Steps /\ LogKept \in Steps
  BY EngineCalls
<1> QED
  BY <1>1 DEF Goes, Ready, After, Known, LogEmpty, LogKept, Do, Writes, Adds, Calls,
              Expectations

LEMMA TableGoes ==
    ASSUME NEW v, NEW n
    PROVE  /\ (\E k \in Keys : v[k] # Nil) =>
                Goes(Known(v, {}, n), SomeTable, Known(v, {}, n))
           /\ \A m, i : i \in n /\ i \in {0, 1} =>
                Goes(Known(v, m, n), AtMost(i), Known(v, m, n))
<1>1. SomeTable \in Steps /\ \A i \in {0, 1} : AtMost(i) \in Steps
  BY EngineCalls
<1>2. ASSUME \E k \in Keys : v[k] # Nil
      PROVE  Goes(Known(v, {}, n), SomeTable, Known(v, {}, n))
  BY <1>1, <1>2 DEF Goes, Ready, After, Known, SomeTable, Do, Writes, Adds, Calls,
              Expectations
<1>3. ASSUME NEW m, NEW i \in {0, 1}, i \in n
      PROVE  Goes(Known(v, m, n), AtMost(i), Known(v, m, n))
  BY <1>1, <1>3 DEF Goes, Ready, After, Known, AtMost, Do, Writes, Adds, Calls,
              Expectations
<1> QED
  BY <1>2, <1>3

LEMMA ListedGoneGoes ==
    ASSUME NEW v, NEW m, NEW n, NoneListed \in n
    PROVE  Goes(Known(v, m, n), ListedGone, Known(v, m, n))
<1>1. ListedGone \in Steps
  BY EngineCalls
<1> QED
  BY <1>1 DEF Goes, Ready, After, Known, ListedGone, Do, Writes, Adds, Calls,
              Expectations

(* What the tests begin with. *)
LEMMA PutAndFlushRuns ==
    ASSUME TestsFit, NEW v, NEW m, NEW n, NEW k \in TestKeys, NEW x \in {one, two, three}
    PROVE  Runs(Known(v, m, n), PutAndFlush(k, x), Known(Sees(v, k, x), {}, {}))
<1>1. Goes(Known(v, m, n), Put(k, x), Known(Sees(v, k, x), m \cup {k}, n))
  BY PutGoes
<1>2. Goes(Known(Sees(v, k, x), m \cup {k}, n), Flush, Known(Sees(v, k, x), {}, {}))
  BY FlushGoes
<1> QED
  BY <1>1, <1>2, RunsTwo DEF PutAndFlush

Unset == [k \in Keys |-> Nil]

(* All that was written is in tables, in any number of them. *)
AllFlushed(v) == Known(v, {}, {})

(* It is in one table at most. *)
Compacted(v) == Known(v, {}, {1, NoneListed})

LEMMA MemtableTestsPass ==
    ASSUME TestsFit
    PROVE  /\ WillPass(Blank, new_creates_empty_memtable)
           /\ WillPass(Blank, new_rebuilds_memtable_from_existing_file)
           /\ WillPass(Blank, get_returns_entry_from_memtable)
           /\ WillPass(Blank, get_returns_none_when_absent_from_both)
           /\ WillPass(Blank, maybe_flush_does_not_flush_when_below_threshold)
           /\ WillPass(Blank, get_returns_none_for_tombstone_in_memtable)
           /\ WillPass(Blank, execute_set_adds_to_memtable)
           /\ WillPass(Blank, execute_delete_existing_key_tombstones_key)
           /\ WillPass(Blank, execute_delete_missing_key_leaves_memtable_empty)
           /\ WillPass(Blank, execute_delete_persists_tombstone)
           /\ WillPass(Blank, execute_help_leaves_memtable_empty)
           /\ WillPass(Blank, compact_with_no_sstables_is_noop)
<1> DEFINE A == Known(Sees(Unset, a, one), {a}, {0, 1})
           B == Known(Sees(Sees(Unset, a, one), a, Nil), {a}, {0, 1})
           C == Known(Unset, {}, {0, 1} \cup {1, NoneListed})
<1>1. /\ Blank = Known(Unset, {}, {0, 1}) /\ Unset[a] = Nil
      /\ Sees(Unset, a, one)[a] = one /\ Sees(Sees(Unset, a, one), a, Nil)[a] = Nil
      /\ Sees(Unset, a, Nil) = Unset
      /\ a \in TestKeys /\ one \in {one, two, three} /\ Nil \in {one, two, three, Nil}
      /\ {} \cup {a} = {a} /\ {a} \cup {a} = {a} /\ a \in {a} /\ {a} # {}
      /\ (IF Sees(Unset, a, one)[a] # Nil THEN {a} \cup {a} ELSE {a}) = {a}
      /\ (IF Unset[a] # Nil THEN {} \cup {a} ELSE {}) = {}
  BY DEF Blank, Unset, Sees, TestsFit, TestKeys
<1>2. Cardinality({}) = 0 /\ Cardinality({a}) = 1
  BY FS_EmptySet, FS_Singleton
<1>3. Goes(Blank, Put(a, one), A) /\ Goes(Blank, Set(a, one), A)
  BY <1>1, PutGoes
<1>4. /\ Goes(A, Reopen, A) /\ Goes(A, FlushIfDue, A) /\ Goes(A, HasKey(a), A)
      /\ Goes(A, LogKept, A) /\ Goes(A, HasLen(1), A) /\ Goes(A, Gets(a, one), A)
  BY <1>1, <1>2, ReopenGoes, HasKeyGoes, LogGoes, HasLenGoes, GetsGoes
<1>5. Goes(A, Bury(a), B) /\ Goes(A, Delete(a), B)
  BY <1>1, BuryGoes, DeleteGoes
<1>6. Goes(B, Gets(a, Nil), B) /\ Goes(B, HasKey(a), B) /\ Goes(B, Reopen, B)
  BY <1>1, GetsGoes, HasKeyGoes, ReopenGoes
<1>7. Goes(Blank, HasLen(0), Blank) /\ Goes(Blank, Gets(a, Nil), Blank)
  BY <1>1, <1>2, HasLenGoes, GetsGoes
<1>8. Goes(Blank, Delete(a), Blank)
  BY <1>1, DeleteGoes
<1>9. Goes(A, AtMost(0), A)
  BY TableGoes
<1>10. /\ Goes(Blank, Help, Blank)
       /\ Goes(Blank, Compact, C) /\ Goes(C, AtMost(0), C)
  <2>1. 0 \in {0, 1} \cup {1, NoneListed} /\ 0 \in {0, 1}
    OBVIOUS
  <2> QED
    BY <1>1, <2>1, ReopenGoes, CompactGoes, TableGoes
<1> HIDE DEF A, B, C
<1>11. /\ WillPass(Blank, new_creates_empty_memtable)
       /\ WillPass(Blank, get_returns_none_when_absent_from_both)
  BY <1>7, RunsOne, RunsPass
     DEF new_creates_empty_memtable, get_returns_none_when_absent_from_both
<1>12. /\ WillPass(Blank, get_returns_entry_from_memtable)
       /\ WillPass(Blank, execute_delete_missing_key_leaves_memtable_empty)
       /\ WillPass(Blank, execute_help_leaves_memtable_empty)
       /\ WillPass(Blank, compact_with_no_sstables_is_noop)
  <2>1. Runs(Blank, <<Put(a, one), Gets(a, one)>>, A)
    BY <1>3, <1>4, RunsTwo
  <2>2. Runs(Blank, <<Delete(a), HasLen(0)>>, Blank)
    BY <1>7, <1>8, RunsTwo
  <2>3. Runs(Blank, <<Compact, AtMost(0)>>, C)
    BY <1>10, RunsTwo
  <2>4. Runs(Blank, <<Help, HasLen(0)>>, Blank)
    BY <1>7, <1>10, RunsTwo
  <2> QED
    BY <2>1, <2>2, <2>3, <2>4, RunsPass
    DEF get_returns_entry_from_memtable, execute_help_leaves_memtable_empty,
        execute_delete_missing_key_leaves_memtable_empty, compact_with_no_sstables_is_noop
<1>13. /\ WillPass(Blank, get_returns_none_for_tombstone_in_memtable)
       /\ WillPass(Blank, execute_set_adds_to_memtable)
       /\ WillPass(Blank, execute_delete_existing_key_tombstones_key)
  <2>1. Runs(Blank, <<Put(a, one), Bury(a), Gets(a, Nil)>>, B)
    BY <1>3, <1>5, <1>6, RunsThree
  <2>2. Runs(Blank, <<Set(a, one), HasLen(1), HasKey(a)>>, A)
    BY <1>3, <1>4, RunsThree
  <2>3. Runs(Blank, <<Set(a, one), Delete(a), Gets(a, Nil)>>, B)
    BY <1>3, <1>5, <1>6, RunsThree
  <2> QED
    BY <2>1, <2>2, <2>3, RunsPass
    DEF get_returns_none_for_tombstone_in_memtable, execute_set_adds_to_memtable,
        execute_delete_existing_key_tombstones_key
<1>14. WillPass(Blank, new_rebuilds_memtable_from_existing_file)
  <2>1. Runs(Blank, <<Put(a, one), Reopen, HasLen(1), HasKey(a)>>, A)
    BY <1>3, <1>4, RunsFour
  <2> QED
    BY <2>1, RunsPass DEF new_rebuilds_memtable_from_existing_file
<1>15. WillPass(Blank, maybe_flush_does_not_flush_when_below_threshold)
  <2>1. Runs(A, <<FlushIfDue, HasKey(a), LogKept, AtMost(0)>>, A)
    BY <1>4, <1>9, RunsFour
  <2>2. Runs(Blank, <<Put(a, one), FlushIfDue, HasKey(a), LogKept, AtMost(0)>>, A)
    BY <1>3, <2>1, RunsMore
  <2> QED
    BY <2>2, RunsPass DEF maybe_flush_does_not_flush_when_below_threshold
<1>16. WillPass(Blank, execute_delete_persists_tombstone)
  <2>1. Runs(A, <<Delete(a), Reopen, HasKey(a), Gets(a, Nil)>>, B)
    BY <1>5, <1>6, RunsFour
  <2>2. Runs(Blank, <<Set(a, one), Delete(a), Reopen, HasKey(a), Gets(a, Nil)>>, B)
    BY <1>3, <2>1, RunsMore
  <2> QED
    BY <2>2, RunsPass DEF execute_delete_persists_tombstone
<1> QED
  BY <1>11, <1>12, <1>13, <1>14, <1>15, <1>16

LEMMA FlushTestsPass ==
    ASSUME TestsFit
    PROVE  /\ WillPass(Blank, get_finds_entry_in_sstable_after_flush)
           /\ WillPass(Blank, get_finds_key_when_bloom_filter_says_maybe_present)
           /\ WillPass(Blank, flush_creates_sstable_file_on_disk)
           /\ WillPass(Blank, flush_clears_memtable)
           /\ WillPass(Blank, flush_truncates_wal)
           /\ WillPass(Blank, get_returns_none_after_flush_and_delete)
           /\ WillPass(Blank, get_skips_sstable_when_bloom_filter_says_absent)
           /\ WillPass(Blank, compact_single_sstable_produces_one_output_and_deletes_original)
           /\ WillPass(Blank, compact_drops_tombstone_from_output)
           /\ WillPass(Blank, execute_get_finds_key_in_sstable_after_flush)
           /\ WillPass(Blank, delete_of_flushed_key)
           /\ WillPass(Blank, delete_after_flushed_tombstone)
           /\ WillPass(Blank, delete_after_compaction)
<1> DEFINE v == Sees(Unset, a, one)
           w == Sees(v, a, Nil)
           A == AllFlushed(v)
           B == Known(w, {a}, {})
           C == Compacted(v)
           D == Compacted(w)
<1>1. /\ Blank = Known(Unset, {}, {0, 1})
      /\ v[a] = one /\ v[d] = Nil /\ w[a] = Nil
      /\ \E k \in Keys : v[k] # Nil
      /\ a \in TestKeys /\ d \in TestKeys /\ one \in {one, two, three}
      /\ Nil \in {one, two, three, Nil}
      /\ {} \cup {a} = {a} /\ {a} # {} /\ a \in {a}
      /\ {} \cup {1, NoneListed} = {1, NoneListed} /\ 1 \in {0, 1}
      /\ 1 \in {1, NoneListed} /\ NoneListed \in {1, NoneListed}
      /\ {} \ {NoneListed} = {} /\ Sees(w, a, Nil) = w
  <2>1. a # d /\ a \in Keys /\ d \in Keys /\ one # Nil
    BY FourKeysApart, SlotAssumption DEF TestsFit, TestKeys
  <2> QED
    BY <2>1 DEF Blank, Unset, Sees, TestKeys
<1>2. Cardinality({}) = 0
  BY FS_EmptySet
<1> HIDE DEF v
<1>3. /\ Runs(Blank, PutAndFlush(a, one), A)
      /\ Goes(Blank, Set(a, one), Known(v, {a}, {0, 1}))
      /\ Goes(Known(v, {a}, {0, 1}), Flush, A)
  <2>1. Runs(Blank, PutAndFlush(a, one), A)
    BY <1>1, PutAndFlushRuns DEF AllFlushed, v
  <2>2. Goes(Blank, Set(a, one), Known(v, {a}, {0, 1}))
    BY <1>1, PutGoes DEF v
  <2>3. Goes(Known(v, {a}, {0, 1}), Flush, A)
    BY <1>1, FlushGoes DEF AllFlushed
  <2> QED
    BY <2>1, <2>2, <2>3
<1>4. /\ Goes(A, Gets(a, one), A) /\ Goes(A, Gets(d, Nil), A)
      /\ Goes(A, SomeTable, A) /\ Goes(A, HasLen(0), A) /\ Goes(A, LogEmpty, A)
  BY <1>1, <1>2, GetsGoes, TableGoes, HasLenGoes, LogGoes DEF AllFlushed
<1>5. /\ Goes(A, Bury(a), B) /\ Goes(B, Gets(a, Nil), B)
      /\ Goes(B, Flush, AllFlushed(w))
  BY <1>1, BuryGoes, GetsGoes, FlushGoes DEF AllFlushed
<1>6. /\ Goes(A, Compact, C) /\ Goes(C, SomeTable, C) /\ Goes(C, AtMost(1), C)
      /\ Goes(A, List, A) /\ Goes(C, ListedGone, C)
      /\ Goes(AllFlushed(w), Compact, D) /\ Goes(D, Gets(a, Nil), D)
  BY <1>1, CompactGoes, TableGoes, GetsGoes, ListGoes, ListedGoneGoes
  DEF AllFlushed, Compacted
<1>d. /\ Goes(A, Delete(a), B) /\ Goes(B, Reopen, B) /\ Goes(B, HasKey(a), B)
      /\ Goes(AllFlushed(w), Delete(a), AllFlushed(w)) /\ Goes(D, Delete(a), D)
      /\ Goes(AllFlushed(w), HasLen(0), AllFlushed(w)) /\ Goes(D, HasLen(0), D)
  <2>1. /\ v[a] # Nil /\ w[a] = Nil
        /\ (IF v[a] # Nil THEN {} \cup {a} ELSE {}) = {a}
        /\ (IF w[a] # Nil THEN {} \cup {a} ELSE {}) = {}
    BY <1>1, SlotAssumption DEF TestsFit
  <2> HIDE DEF w
  <2>2. Goes(A, Delete(a), B)
    BY <1>1, <2>1, DeleteGoes DEF AllFlushed, w
  <2>3. /\ Goes(AllFlushed(w), Delete(a), AllFlushed(w)) /\ Goes(D, Delete(a), D)
    BY <1>1, <2>1, DeleteGoes DEF AllFlushed, Compacted
  <2>4. /\ Goes(B, Reopen, B) /\ Goes(B, HasKey(a), B)
        /\ Goes(AllFlushed(w), HasLen(0), AllFlushed(w)) /\ Goes(D, HasLen(0), D)
    BY <1>1, <1>2, ReopenGoes, HasKeyGoes, HasLenGoes DEF AllFlushed, Compacted
  <2> QED
    BY <2>2, <2>3, <2>4
<1> HIDE DEF A, B, C, D, w
<1>7. ASSUME NEW s, NEW E, Runs(A, s, E)
      PROVE  WillPass(Blank, PutAndFlush(a, one) \o s)
  BY <1>3, <1>7, RunsOn, RunsPass
<1>8. /\ Runs(A, <<Gets(a, one)>>, A) /\ Runs(A, <<Gets(d, Nil)>>, A)
      /\ Runs(A, <<SomeTable>>, A) /\ Runs(A, <<HasLen(0)>>, A)
      /\ Runs(A, <<LogEmpty>>, A)
  BY <1>4, RunsOne
<1>9. /\ Runs(A, <<Bury(a), Gets(a, Nil)>>, B)
      /\ Runs(A, <<List, Compact, ListedGone, SomeTable, AtMost(1)>>, C)
      /\ Runs(A, <<Bury(a), Flush, Compact, Gets(a, Nil)>>, D)
      /\ Runs(Blank, <<Set(a, one), Flush, Gets(a, one)>>, A)
  <2>1. Runs(A, <<Bury(a), Gets(a, Nil)>>, B)
    BY <1>5, RunsTwo
  <2>2. Runs(A, <<List, Compact, ListedGone, SomeTable, AtMost(1)>>, C)
    <3>1. Runs(A, <<Compact, ListedGone, SomeTable, AtMost(1)>>, C)
      BY <1>6, RunsFour
    <3> QED
      BY <1>6, <3>1, RunsMore
  <2>3. Runs(A, <<Bury(a), Flush, Compact, Gets(a, Nil)>>, D)
    BY <1>5, <1>6, RunsFour
  <2>4. Runs(Blank, <<Set(a, one), Flush, Gets(a, one)>>, A)
    BY <1>3, <1>4, RunsThree
  <2> QED
    BY <2>1, <2>2, <2>3, <2>4
<1>e. /\ Runs(A, <<Delete(a), Gets(a, Nil), Reopen, HasKey(a), Gets(a, Nil)>>, B)
      /\ Runs(A, <<Bury(a), Flush, Delete(a), HasLen(0)>>, AllFlushed(w))
      /\ Runs(A, <<Bury(a), Flush, Compact, Delete(a), HasLen(0)>>, D)
  <2>1. Runs(B, <<Gets(a, Nil), Reopen, HasKey(a), Gets(a, Nil)>>, B)
    BY <1>5, <1>d, RunsFour
  <2>2. Runs(B, <<Flush, Compact, Delete(a), HasLen(0)>>, D)
    BY <1>5, <1>6, <1>d, RunsFour
  <2>3. Runs(A, <<Bury(a), Flush, Delete(a), HasLen(0)>>, AllFlushed(w))
    BY <1>5, <1>d, RunsFour
  <2> QED
    BY <1>5, <1>d, <2>1, <2>2, <2>3, RunsMore
<1>10. /\ WillPass(Blank, get_finds_entry_in_sstable_after_flush)
       /\ WillPass(Blank, get_finds_key_when_bloom_filter_says_maybe_present)
       /\ WillPass(Blank, flush_creates_sstable_file_on_disk)
       /\ WillPass(Blank, flush_clears_memtable)
       /\ WillPass(Blank, flush_truncates_wal)
       /\ WillPass(Blank, get_skips_sstable_when_bloom_filter_says_absent)
  BY <1>7, <1>8
  DEF get_finds_entry_in_sstable_after_flush,
      get_finds_key_when_bloom_filter_says_maybe_present,
      flush_creates_sstable_file_on_disk, flush_clears_memtable, flush_truncates_wal,
      get_skips_sstable_when_bloom_filter_says_absent
<1>11. /\ WillPass(Blank, get_returns_none_after_flush_and_delete)
       /\ WillPass(Blank, compact_single_sstable_produces_one_output_and_deletes_original)
       /\ WillPass(Blank, compact_drops_tombstone_from_output)
  BY <1>7, <1>9
  DEF get_returns_none_after_flush_and_delete,
      compact_single_sstable_produces_one_output_and_deletes_original,
      compact_drops_tombstone_from_output
<1>12. WillPass(Blank, execute_get_finds_key_in_sstable_after_flush)
  BY <1>9, RunsPass DEF execute_get_finds_key_in_sstable_after_flush
<1>13. /\ WillPass(Blank, delete_of_flushed_key)
       /\ WillPass(Blank, delete_after_flushed_tombstone)
       /\ WillPass(Blank, delete_after_compaction)
  BY <1>7, <1>e
  DEF delete_of_flushed_key, delete_after_flushed_tombstone, delete_after_compaction
<1> QED
  BY <1>10, <1>11, <1>12, <1>13

(* Several puts and flushes. *)
LEMMA TwoFlushesRun ==
    ASSUME TestsFit, NEW k \in TestKeys, NEW x \in {one, two, three},
           NEW l \in TestKeys, NEW y \in {one, two, three}
    PROVE  Runs(Blank, PutAndFlush(k, x) \o PutAndFlush(l, y),
                AllFlushed(Sees(Sees(Unset, k, x), l, y)))
<1>1. Blank = Known(Unset, {}, {0, 1})
  BY DEF Blank, Unset
<1>2. Runs(Blank, PutAndFlush(k, x), Known(Sees(Unset, k, x), {}, {}))
  BY <1>1, PutAndFlushRuns
<1>3. Runs(Known(Sees(Unset, k, x), {}, {}), PutAndFlush(l, y),
           AllFlushed(Sees(Sees(Unset, k, x), l, y)))
  BY PutAndFlushRuns DEF AllFlushed
<1> QED
  BY <1>2, <1>3, RunsOn

(* A compaction, and what it keeps. *)
LEMMA CompactRuns ==
    ASSUME TestsFit, NEW v, NEW k \in TestKeys, NEW x \in {one, two, three}, v[k] = x
    PROVE  /\ Goes(AllFlushed(v), List, AllFlushed(v))
           /\ Goes(AllFlushed(v), Compact, Compacted(v))
           /\ Goes(Compacted(v), Gets(k, x), Compacted(v))
           /\ Goes(Compacted(v), AtMost(1), Compacted(v))
           /\ Goes(Compacted(v), ListedGone, Compacted(v))
<1>1. /\ {} \cup {1, NoneListed} = {1, NoneListed} /\ {} \ {NoneListed} = {}
      /\ 1 \in {1, NoneListed} /\ NoneListed \in {1, NoneListed} /\ 1 \in {0, 1}
      /\ x \in {one, two, three, Nil}
  OBVIOUS
<1> QED
  BY <1>1, CompactGoes, GetsGoes, TableGoes, ListGoes, ListedGoneGoes
  DEF AllFlushed, Compacted

LEMMA CompactionTestsPass ==
    ASSUME TestsFit
    PROVE  /\ WillPass(Blank, get_returns_newest_when_key_in_multiple_sstables)
           /\ WillPass(Blank, get_returns_none_for_absent_key_across_multiple_sstables)
           /\ WillPass(Blank, compact_newest_wins_for_duplicate_key)
           /\ WillPass(Blank, compact_preserves_all_unique_keys)
           /\ WillPass(Blank, compact_deletes_original_sstables)
           /\ WillPass(Blank, compact_reduces_sstable_count)
           /\ WillPass(Blank, compact_result_readable_via_get)
           /\ WillPass(Blank, compact_three_sstables_with_overlapping_keys)
<1>k. /\ a \in TestKeys /\ b \in TestKeys /\ c \in TestKeys /\ d \in TestKeys
      /\ a \in Keys /\ b \in Keys /\ c \in Keys /\ d \in Keys
      /\ a # b /\ a # c /\ a # d /\ b # c /\ b # d /\ c # d
      /\ one \in {one, two, three} /\ two \in {one, two, three}
      /\ three \in {one, two, three} /\ Nil \in {one, two, three, Nil}
      /\ two \in {one, two, three, Nil}
  BY FourKeysApart DEF TestKeys, TestsFit
<1>b. Blank = Known(Unset, {}, {0, 1})
  BY DEF Blank, Unset
<1>1. WillPass(Blank, get_returns_newest_when_key_in_multiple_sstables)
  <2> DEFINE v == Sees(Unset, a, one)
             w == Sees(v, a, two)
  <2>1. w[a] = two
    BY <1>k DEF Sees
  <2> HIDE DEF v, w
  <2>2. Runs(Blank, <<Put(a, one)>>, Known(v, {} \cup {a}, {0, 1}))
    BY <1>k, <1>b, PutGoes, RunsOne DEF v
  <2>3. Runs(Known(v, {} \cup {a}, {0, 1}), PutAndFlush(a, two), AllFlushed(w))
    BY <1>k, PutAndFlushRuns DEF w, AllFlushed
  <2>4. Runs(AllFlushed(w), <<Gets(a, two)>>, AllFlushed(w))
    BY <1>k, <2>1, GetsGoes, RunsOne DEF AllFlushed
  <2>5. Runs(Blank, <<Put(a, one)>> \o PutAndFlush(a, two), AllFlushed(w))
    BY <2>2, <2>3, RunsOn
  <2> QED
    BY <2>4, <2>5, RunsOn, RunsPass DEF get_returns_newest_when_key_in_multiple_sstables
<1>2. /\ WillPass(Blank, compact_newest_wins_for_duplicate_key)
      /\ WillPass(Blank, compact_reduces_sstable_count)
  <2> DEFINE v == Sees(Sees(Unset, a, one), a, two)
             A == AllFlushed(v)
             C == Compacted(v)
  <2>1. v[a] = two
    BY <1>k DEF Sees
  <2>2. Runs(Blank, PutAndFlush(a, one) \o PutAndFlush(a, two), A)
    BY <1>k, TwoFlushesRun
  <2> HIDE DEF v
  <2>3. Goes(A, Compact, C) /\ Goes(C, Gets(a, two), C) /\ Goes(C, AtMost(1), C)
    BY <1>k, <2>1, CompactRuns
  <2> HIDE DEF A, C
  <2>4. /\ Runs(A, <<Compact, Gets(a, two)>>, C)
        /\ Runs(A, <<Compact, AtMost(1)>>, C)
    BY <2>3, RunsTwo
  <2> QED
    BY <2>2, <2>4, RunsOn, RunsPass
    DEF compact_newest_wins_for_duplicate_key, compact_reduces_sstable_count
<1>3. /\ WillPass(Blank, compact_preserves_all_unique_keys)
      /\ WillPass(Blank, compact_deletes_original_sstables)
  <2> DEFINE v == Sees(Sees(Unset, a, one), b, two)
             A == AllFlushed(v)
             C == Compacted(v)
  <2>1. v[a] = one /\ v[b] = two
    BY <1>k DEF Sees
  <2>2. Runs(Blank, PutAndFlush(a, one) \o PutAndFlush(b, two), A)
    BY <1>k, TwoFlushesRun
  <2> HIDE DEF v
  <2>3. /\ Goes(A, Compact, C) /\ Goes(C, Gets(a, one), C) /\ Goes(C, Gets(b, two), C)
        /\ Goes(A, List, A) /\ Goes(C, ListedGone, C)
    BY <1>k, <2>1, CompactRuns
  <2> HIDE DEF A, C
  <2>4. /\ Runs(A, <<Compact, Gets(a, one), Gets(b, two)>>, C)
        /\ Runs(A, <<List, Compact, ListedGone>>, C)
    BY <2>3, RunsThree
  <2> QED
    BY <2>2, <2>4, RunsOn, RunsPass
    DEF compact_preserves_all_unique_keys, compact_deletes_original_sstables
<1>4. /\ WillPass(Blank, get_returns_none_for_absent_key_across_multiple_sstables)
      /\ WillPass(Blank, compact_result_readable_via_get)
  <2> DEFINE u == Sees(Sees(Unset, a, one), b, two)
             v == Sees(u, c, three)
             A == AllFlushed(v)
             C == Compacted(v)
             s == PutAndFlush(a, one) \o PutAndFlush(b, two)
             t == s \o PutAndFlush(c, three)
  <2>1. v[a] = one /\ v[b] = two /\ v[c] = three /\ v[d] = Nil
    BY <1>k DEF Sees, Unset
  <2>2. Runs(Blank, s, AllFlushed(u))
    BY <1>k, TwoFlushesRun
  <2> HIDE DEF u, s
  <2>3. Runs(AllFlushed(u), PutAndFlush(c, three), A)
    BY <1>k, PutAndFlushRuns DEF AllFlushed
  <2> HIDE DEF v
  <2>4. Runs(Blank, t, A)
    BY <2>2, <2>3, RunsOn
  <2>5. /\ Goes(A, Compact, C) /\ Goes(C, Gets(a, one), C) /\ Goes(C, Gets(b, two), C)
        /\ Goes(C, Gets(c, three), C)
    BY <1>k, <2>1, CompactRuns
  <2>6. Goes(A, Gets(d, Nil), A)
    BY <1>k, <2>1, GetsGoes DEF AllFlushed
  <2> HIDE DEF A, C, t
  <2>7. Runs(A, <<Compact, Gets(a, one), Gets(b, two), Gets(c, three)>>, C)
    BY <2>5, RunsFour
  <2>8. Runs(A, <<Gets(d, Nil)>>, A)
    BY <2>6, RunsOne
  <2> QED
    BY <2>4, <2>7, <2>8, RunsOn, RunsPass
    DEF get_returns_none_for_absent_key_across_multiple_sstables,
        compact_result_readable_via_get, s, t
<1>5. WillPass(Blank, compact_three_sstables_with_overlapping_keys)
  <2> DEFINE v == Sees(Unset, a, one)
             w == Sees(v, b, one)
             x == Sees(w, a, two)
             y == Sees(x, c, one)
             z == Sees(y, a, three)
             A == AllFlushed(z)
             C == Compacted(z)
  <2>1. z[a] = three /\ z[b] = one /\ z[c] = one
    BY <1>k DEF Sees
  <2> HIDE DEF v, w, x, y, z
  <2>2. Runs(Blank, <<Put(a, one)>>, Known(v, {} \cup {a}, {0, 1}))
    BY <1>k, <1>b, PutGoes, RunsOne DEF v
  <2>3. Runs(Known(v, {} \cup {a}, {0, 1}), PutAndFlush(b, one), Known(w, {}, {}))
    BY <1>k, PutAndFlushRuns DEF w
  <2>4. Runs(Known(w, {}, {}), <<Put(a, two)>>, Known(x, {} \cup {a}, {}))
    BY <1>k, PutGoes, RunsOne DEF x
  <2>5. Runs(Known(x, {} \cup {a}, {}), PutAndFlush(c, one), Known(y, {}, {}))
    BY <1>k, PutAndFlushRuns DEF y
  <2>6. Runs(Known(y, {}, {}), PutAndFlush(a, three), A)
    BY <1>k, PutAndFlushRuns DEF z, AllFlushed
  <2>7. /\ Goes(A, Compact, C) /\ Goes(C, Gets(a, three), C) /\ Goes(C, Gets(b, one), C)
        /\ Goes(C, Gets(c, one), C)
    BY <1>k, <2>1, CompactRuns
  <2> HIDE DEF A, C
  <2>8. Runs(A, <<Compact, Gets(a, three), Gets(b, one), Gets(c, one)>>, C)
    BY <2>7, RunsFour
  <2>9. Runs(Blank, <<Put(a, one)>> \o PutAndFlush(b, one), Known(w, {}, {}))
    BY <2>2, <2>3, RunsOn
  <2>10. Runs(Blank, <<Put(a, one)>> \o PutAndFlush(b, one) \o <<Put(a, two)>>,
              Known(x, {} \cup {a}, {}))
    BY <2>4, <2>9, RunsOn
  <2>11. Runs(Blank, <<Put(a, one)>> \o PutAndFlush(b, one) \o <<Put(a, two)>>
                       \o PutAndFlush(c, one), Known(y, {}, {}))
    BY <2>5, <2>10, RunsOn
  <2>12. Runs(Blank, <<Put(a, one)>> \o PutAndFlush(b, one) \o <<Put(a, two)>>
                       \o PutAndFlush(c, one) \o PutAndFlush(a, three), A)
    BY <2>6, <2>11, RunsOn
  <2> QED
    BY <2>8, <2>12, RunsOn, RunsPass DEF compact_three_sstables_with_overlapping_keys
<1> QED
  BY <1>1, <1>2, <1>3, <1>4, <1>5

(* The parser's tests. *)
LEMMA NamesOfWords ==
    ASSUME TestsFit
    PROVE  /\ Named("set") = {"set"} /\ Named("s") = {"set"}
           /\ Named("get") = {"get"} /\ Named("g") = {"get"}
           /\ Named("delete") = {"delete"} /\ Named("del") = {"delete"}
           /\ Named("d") = {"delete"}
           /\ Named("quit") = {"quit"} /\ Named("q") = {"quit"} /\ Named("exit") = {"quit"}
           /\ Named("help") = {"help"} /\ Named("h") = {"help"}
           /\ Named("foo") = {}
<1>1. /\ Lowercase("set") = "set" /\ Lowercase("s") = "s" /\ Lowercase("get") = "get"
      /\ Lowercase("g") = "g" /\ Lowercase("delete") = "delete" /\ Lowercase("del") = "del"
      /\ Lowercase("d") = "d" /\ Lowercase("quit") = "quit" /\ Lowercase("q") = "q"
      /\ Lowercase("exit") = "exit" /\ Lowercase("help") = "help" /\ Lowercase("h") = "h"
      /\ Lowercase("foo") = "foo"
  BY DEF TestsFit, TestWords
<1>2. /\ Named("set") = {"set"} /\ Named("s") = {"set"}
      /\ Named("get") = {"get"} /\ Named("g") = {"get"}
  BY <1>1 DEF Named, Aliases
<1>3. /\ Named("delete") = {"delete"} /\ Named("del") = {"delete"}
      /\ Named("d") = {"delete"}
  BY <1>1 DEF Named, Aliases
<1>4. /\ Named("quit") = {"quit"} /\ Named("q") = {"quit"} /\ Named("exit") = {"quit"}
      /\ Named("help") = {"help"} /\ Named("h") = {"help"}
  BY <1>1 DEF Named, Aliases
<1>5. Named("foo") = {}
  BY <1>1 DEF Named, Aliases
<1> QED
  BY <1>2, <1>3, <1>4, <1>5

(* What comes of the command op with n words after it. *)
OutcomeWith(op, n) ==
    IF n < Takes[op] THEN "missing required arguments"
    ELSE IF n > Takes[op] /\ op \notin {"quit", "help"} THEN "too many arguments"
    ELSE op

LEMMA OutcomeIs ==
    ASSUME NEW words, words # <<>>, NEW op \in DOMAIN Takes, Named(words[1]) = {op},
           NEW n \in Nat, Len(Tail(words)) = n
    PROVE  Outcome(words) = OutcomeWith(op, n)
<1>1. (CHOOSE o \in {op} : TRUE) = op
  OBVIOUS
<1>2. TryFrom(words) = Fit(op, Tail(words))
  BY <1>1 DEF TryFrom
<1>3. ~IsCommand(Missing) /\ ~IsCommand(TooMany)
  BY DEF IsCommand, Missing, TooMany
<1>4. /\ Missing.err = "missing required arguments"
      /\ TooMany.err = "too many arguments"
  BY DEF Missing, TooMany
<1>5. Takes[op] \in Nat
  BY DEF Takes
<1>o. Outcome(words) = IF IsCommand(TryFrom(words)) THEN TryFrom(words).op
                       ELSE TryFrom(words).err
  BY DEF Outcome
<1>6. CASE n < Takes[op]
  <2>1. ~(n > Takes[op]) /\ Len(Tail(words)) < Takes[op]
    BY <1>5, <1>6
  <2>2. Fit(op, Tail(words)) = Missing
    BY <2>1 DEF Fit
  <2> QED
    BY <1>2, <1>3, <1>4, <1>6, <1>o, <2>2 DEF OutcomeWith
<1>7. CASE ~(n < Takes[op]) /\ n > Takes[op] /\ op \notin {"quit", "help"}
  <2>1. Fit(op, Tail(words)) = TooMany
    BY <1>7 DEF Fit
  <2> QED
    BY <1>2, <1>3, <1>4, <1>7, <1>o, <2>1 DEF OutcomeWith
<1>8. CASE ~(n < Takes[op]) /\ ~(n > Takes[op] /\ op \notin {"quit", "help"})
  <2> DEFINE args == SubSeq(Tail(words), 1, Takes[op])
  <2>1. TryFrom(words) = [op |-> op, args |-> args]
    BY <1>2, <1>8 DEF Fit
  <2> HIDE DEF args
  <2>2. IsCommand(TryFrom(words)) /\ TryFrom(words).op = op
    BY <2>1 DEF IsCommand
  <2> QED
    BY <1>8, <1>o, <2>2 DEF OutcomeWith
<1> QED
  BY <1>6, <1>7, <1>8

(* A line by the number of its words. *)
LEMMA LineOutcomes ==
    ASSUME NEW x, NEW op \in DOMAIN Takes, Named(x) = {op}
    PROVE  /\ Outcome(<<x>>) = OutcomeWith(op, 0)
           /\ \A y : Outcome(<<x, y>>) = OutcomeWith(op, 1)
           /\ \A y, z : Outcome(<<x, y, z>>) = OutcomeWith(op, 2)
           /\ \A y, z, w : Outcome(<<x, y, z, w>>) = OutcomeWith(op, 3)
<1>1. Outcome(<<x>>) = OutcomeWith(op, 0)
  <2> DEFINE line == <<x>>
  <2>1. line # <<>> /\ line[1] = x /\ Len(Tail(line)) = 0 /\ 0 \in Nat
    OBVIOUS
  <2> HIDE DEF line
  <2>2. Outcome(line) = OutcomeWith(op, 0)
    BY <2>1, OutcomeIs, Zenon
  <2> QED
    BY <2>2 DEF line
<1>2. ASSUME NEW y PROVE Outcome(<<x, y>>) = OutcomeWith(op, 1)
  <2> DEFINE line == <<x, y>>
  <2>1. line # <<>> /\ line[1] = x /\ Len(Tail(line)) = 1
    OBVIOUS
  <2> HIDE DEF line
  <2>2. Outcome(line) = OutcomeWith(op, 1)
    BY <2>1, OutcomeIs
  <2> QED
    BY <2>2 DEF line
<1>3. ASSUME NEW y, NEW z PROVE Outcome(<<x, y, z>>) = OutcomeWith(op, 2)
  <2> DEFINE line == <<x, y, z>>
  <2>1. line # <<>> /\ line[1] = x /\ Len(Tail(line)) = 2
    OBVIOUS
  <2> HIDE DEF line
  <2>2. Outcome(line) = OutcomeWith(op, 2)
    BY <2>1, OutcomeIs
  <2> QED
    BY <2>2 DEF line
<1>4. ASSUME NEW y, NEW z, NEW w PROVE Outcome(<<x, y, z, w>>) = OutcomeWith(op, 3)
  <2> DEFINE line == <<x, y, z, w>>
  <2>1. line # <<>> /\ line[1] = x /\ Len(Tail(line)) = 3
    OBVIOUS
  <2> HIDE DEF line
  <2>2. Outcome(line) = OutcomeWith(op, 3)
    BY <2>1, OutcomeIs
  <2> QED
    BY <2>2 DEF line
<1> QED
  BY <1>1, <1>2, <1>3, <1>4

(* A test of the parser. *)
Parsed(t) == Outcome(t[1]) = t[2]

LEMMA ParsedIs == \A l, o : Outcome(l) = o => Parsed(<<l, o>>)
BY DEF Parsed

LEMMA ParserTestsHold ==
    ASSUME TestsFit
    PROVE  \A t \in ParseTests : Parsed(t)
<1>1. /\ OutcomeWith("set", 2) = "set" /\ OutcomeWith("get", 1) = "get"
      /\ OutcomeWith("delete", 1) = "delete" /\ OutcomeWith("quit", 0) = "quit"
      /\ OutcomeWith("help", 0) = "help"
      /\ \A n \in {0, 1} : OutcomeWith("set", n) = "missing required arguments"
      /\ OutcomeWith("get", 0) = "missing required arguments"
      /\ OutcomeWith("delete", 0) = "missing required arguments"
      /\ OutcomeWith("set", 3) = "too many arguments"
      /\ OutcomeWith("get", 2) = "too many arguments"
      /\ OutcomeWith("delete", 2) = "too many arguments"
  BY DEF OutcomeWith, Takes
<1>2. {"set", "get", "delete", "quit", "help"} \subseteq DOMAIN Takes
  BY DEF Takes
<1>3. ASSUME NEW x \in {"set", "s"}
      PROVE  /\ Outcome(<<x>>) = "missing required arguments"
             /\ \A y : Outcome(<<x, y>>) = "missing required arguments"
             /\ \A y, z : Outcome(<<x, y, z>>) = "set"
             /\ \A y, z, w : Outcome(<<x, y, z, w>>) = "too many arguments"
  <2>1. Named(x) = {"set"} /\ "set" \in DOMAIN Takes
    BY <1>2, NamesOfWords
  <2>2. /\ Outcome(<<x>>) = OutcomeWith("set", 0)
        /\ \A y : Outcome(<<x, y>>) = OutcomeWith("set", 1)
        /\ \A y, z : Outcome(<<x, y, z>>) = OutcomeWith("set", 2)
        /\ \A y, z, w : Outcome(<<x, y, z, w>>) = OutcomeWith("set", 3)
    BY <2>1, LineOutcomes, Zenon
  <2> QED
    BY <1>1, <2>2, Zenon
<1>4. ASSUME NEW x \in {"get", "g"}
      PROVE  /\ Outcome(<<x>>) = "missing required arguments"
             /\ \A y : Outcome(<<x, y>>) = "get"
             /\ \A y, z : Outcome(<<x, y, z>>) = "too many arguments"
  <2>1. Named(x) = {"get"} /\ "get" \in DOMAIN Takes
    BY <1>2, NamesOfWords
  <2>2. /\ Outcome(<<x>>) = OutcomeWith("get", 0)
        /\ \A y : Outcome(<<x, y>>) = OutcomeWith("get", 1)
        /\ \A y, z : Outcome(<<x, y, z>>) = OutcomeWith("get", 2)
    BY <2>1, LineOutcomes, Zenon
  <2> QED
    BY <1>1, <2>2, Zenon
<1>5. ASSUME NEW x \in {"delete", "del", "d"}
      PROVE  /\ Outcome(<<x>>) = "missing required arguments"
             /\ \A y : Outcome(<<x, y>>) = "delete"
             /\ \A y, z : Outcome(<<x, y, z>>) = "too many arguments"
  <2>1. Named(x) = {"delete"} /\ "delete" \in DOMAIN Takes
    BY <1>2, NamesOfWords
  <2>2. /\ Outcome(<<x>>) = OutcomeWith("delete", 0)
        /\ \A y : Outcome(<<x, y>>) = OutcomeWith("delete", 1)
        /\ \A y, z : Outcome(<<x, y, z>>) = OutcomeWith("delete", 2)
    BY <2>1, LineOutcomes, Zenon
  <2> QED
    BY <1>1, <2>2, Zenon
<1>6. ASSUME NEW x \in {"quit", "q", "exit"} PROVE Outcome(<<x>>) = "quit"
  <2>1. Named(x) = {"quit"}
    BY NamesOfWords
  <2> QED
    BY <1>1, <1>2, <2>1, LineOutcomes
<1>7. ASSUME NEW x \in {"help", "h"} PROVE Outcome(<<x>>) = "help"
  <2>1. Named(x) = {"help"}
    BY NamesOfWords
  <2> QED
    BY <1>1, <1>2, <2>1, LineOutcomes
<1>8. Outcome(<<>>) = "missing required arguments"
  BY DEF Outcome, TryFrom, IsCommand, Missing
<1>9. Outcome(<<"foo">>) = "unrecognized command"
  <2> DEFINE line == <<"foo">>
  <2>1. line # <<>> /\ line[1] = "foo"
    OBVIOUS
  <2> HIDE DEF line
  <2>2. TryFrom(line) = Unrecognized
    BY <2>1, NamesOfWords DEF TryFrom
  <2>3. ~IsCommand(Unrecognized) /\ Unrecognized.err = "unrecognized command"
    BY DEF IsCommand, Unrecognized
  <2>4. Outcome(line) = "unrecognized command"
    BY <2>2, <2>3 DEF Outcome
  <2> QED
    BY <2>4 DEF line
<1>10. /\ Parsed(<<<<"set", "a", "b">>, "set">>) /\ Parsed(<<<<"s", "a", "b">>, "set">>)
       /\ Parsed(<<<<"set", "a">>, "missing required arguments">>)
       /\ Parsed(<<<<"set">>, "missing required arguments">>)
       /\ Parsed(<<<<"set", "a", "b", "c">>, "too many arguments">>)
  BY <1>3, ParsedIs, Zenon
<1>11. /\ Parsed(<<<<"get", "a">>, "get">>) /\ Parsed(<<<<"g", "a">>, "get">>)
       /\ Parsed(<<<<"get">>, "missing required arguments">>)
       /\ Parsed(<<<<"get", "a", "b">>, "too many arguments">>)
  BY <1>4, ParsedIs, Zenon
<1>12. /\ Parsed(<<<<"delete", "a">>, "delete">>) /\ Parsed(<<<<"del", "a">>, "delete">>)
       /\ Parsed(<<<<"d", "a">>, "delete">>)
       /\ Parsed(<<<<"delete">>, "missing required arguments">>)
       /\ Parsed(<<<<"delete", "a", "b">>, "too many arguments">>)
  BY <1>5, ParsedIs, Zenon
<1>13. /\ Parsed(<<<<"quit">>, "quit">>) /\ Parsed(<<<<"q">>, "quit">>)
       /\ Parsed(<<<<"exit">>, "quit">>)
       /\ Parsed(<<<<"help">>, "help">>) /\ Parsed(<<<<"h">>, "help">>)
       /\ Parsed(<<<<>>, "missing required arguments">>)
       /\ Parsed(<<<<"foo">>, "unrecognized command">>)
  BY <1>6, <1>7, <1>8, <1>9, ParsedIs, Zenon
<1> QED
  BY <1>10, <1>11, <1>12, <1>13, Zenon DEF ParseTests

LEMMA ParserScriptsPass ==
    ASSUME TestsFit, NEW s \in ParserScripts
    PROVE  WillPass(Blank, s)
<1>1. \E l, o : s = <<Parses(l, o)>> /\ Outcome(l) = o
  BY ParserTestsHold DEF ParserScripts, Parsed
<1>2. PICK x : s = <<x>> /\ x.call = "parse" /\ Outcome(x.words) = x.outcome
  BY <1>1 DEF Parses
<1>3. Head(s) = x /\ Tail(s) = <<>>
  BY <1>2
<1>4. Ready(Blank, x)
  BY <1>2 DEF Ready, Writes, Calls, Expectations
<1> QED
  BY <1>3, <1>4, PassNone, PassFirst

LEMMA ScriptsPass ==
    ASSUME TestsFit
    PROVE  \A s \in Scripts : WillPass(Blank, s)
BY ParserScriptsPass, MemtableTestsPass, FlushTestsPass, CompactionTestsPass DEF Scripts

(* Nothing is known at first, and it is right. *)
LEMMA TestInvInit ==
    ASSUME TestsFit, TestInit
    PROVE  TestInv
<1>1. Init /\ script \in Scripts \cup {Nil} /\ listed = {}
  BY DEF TestInit
<1>2. Inductive
  BY <1>1, InductiveInit
<1>3. Contract!Init
  BY <1>1, RefinementInit
<1>4. /\ wal = <<>> /\ memtable = Empty /\ merged = Empty /\ entry = Nil
      /\ DOMAIN sstables = {} /\ pc = "idle"
  BY <1>1 DEF Init
<1>5. Content
  BY <1>4, TestEntries DEF Content
<1>6. \A k \in Keys : View[k] = Nil /\ Doubt(k) = {}
  BY <1>3 DEF Contract!Init
<1>7. Memory = Empty /\ Replay(wal) = Empty /\ Present(Empty) = {}
  BY <1>4, ReplayEmpty DEF Memory, Present, Empty
<1>8. /\ Blank.view = [k \in Keys |-> Nil] /\ Blank.mem = {}
      /\ Nothing.call = "nothing" /\ ~Writes(Nothing)
      /\ ~Adds(Blank, Nothing) /\ \A k : Aim(Nothing, k) = {}
  BY DEF Blank, Known, Nothing, Do, Writes, Adds, Aim
<1>9. Cardinality(DOMAIN sstables) <= 1
  BY <1>4, FS_EmptySet
<1>10. Tracks(Blank, Nothing)
  <2>1. Answers(Blank, Nothing)
    BY <1>6, <1>8 DEF Answers
  <2>2. InMemory(Blank, Nothing)
    BY <1>4, <1>7, <1>8 DEF InMemory, Mems
  <2>3. OnDisk(Blank, Nothing)
    BY <1>4, <1>8, <1>9 DEF OnDisk
  <2>4. AtWork(Blank, Nothing)
    BY <1>4 DEF AtWork, Running
  <2> QED
    BY <1>8, <2>1, <2>2, <2>3, <2>4, NotBuried DEF Tracks
<1>11. NoneLeft(Blank, Nothing)
  BY <1>1, <1>4 DEF NoneLeft, Running
<1> QED
  BY <1>1, <1>2, <1>5, <1>10, <1>11, ScriptsPass DEF TestInv, Doing

(* A call changes no answer, unless it is the one that ends the process. *)
LEMMA CallKeepsAnswers ==
    ASSUME Inductive, TestsFit, Content, pc = "idle",
           NEW A, NEW h, Ready(A, h), Tracks(A, h), Call(h), pc' # "down"
    PROVE  View' = View
<1>1. ASSUME NEW e, CallWrite(e) PROVE View' = View
  BY <1>1, QuietStep DEF CallWrite, compactVars, Inductive, AnswersStay
<1>2. CASE CallMaybeFlush
  BY <1>2, CallMaybeFlushTracks DEF vars, View, Memory, Tables
<1>3. CASE h.call = "flush" /\ CallFlush
  <2>1. memtable = Empty => DOMAIN sstables # {}
    <3>1. Memory = memtable /\ Present(Empty) = {}
      BY DEF Memory, Present, Empty
    <3> QED
      BY <1>3, <3>1 DEF Tracks, InMemory
  <2> QED
    BY <1>3, <2>1, QuietStep DEF CallFlush, compactVars, Inductive, AnswersStay
<1>4. CASE h.call = "compact" /\ CallCompact
  <2>1. UNCHANGED <<wal, memtable, sstables, flush_count, clock, entry, merged>>
    BY <1>4 DEF CallCompact
  <2>2. memtable = Empty
    <3>1. Present(memtable) = {}
      BY <1>4 DEF Memory, Ready, Tracks, InMemory, Mems, Adds
    <3> QED
      BY <3>1 DEF Inductive, Steady, TypeOK, Present, Empty
  <2>3. CASE DOMAIN sstables = {}
    <3>1. UNCHANGED vars
      BY <1>4, <2>1, <2>3 DEF CallCompact, vars
    <3> QED
      BY <3>1 DEF vars, View, Memory, Tables
  <2>4. CASE DOMAIN sstables # {}
    BY <1>4, <2>1, <2>2, <2>4, CompactionStarts, AllShown
    DEF CallCompact, Inductive, AnswersStay
  <2> QED
    BY <2>3, <2>4
<1>5. CASE h.call = "drop and new" /\ CallDrop
  BY <1>5 DEF CallDrop
<1>6. CASE UNCHANGED vars
  BY <1>6 DEF vars, View, Memory, Tables
<1> QED
  BY <1>1, <1>2, <1>3, <1>4, <1>5, <1>6 DEF Call, CallDelete

LEMMA TestStepKeepsAnswers ==
    ASSUME SafeEnvironment, TestsFit, FreeFits, TestInv, [TestNext]_testVars,
           pc # "write", pc' # "down"
    PROVE  View' = View
<1>1. CASE Start
  <2>1. script # Nil /\ script # <<>> /\ pc = "idle" /\ Content /\ Inductive
    BY <1>1 DEF Start, Scripted, TestInv
  <2>2. PICK A, h : h = InHand /\ Ready(A, h) /\ Tracks(A, h)
    BY <2>1, AtStep
  <2>3. Call(h)
    BY <1>1, <2>2 DEF Start
  <2> QED
    BY <2>1, <2>2, <2>3, CallKeepsAnswers
<1>2. CASE ~Start
  <2>1. [Next]_vars
    BY <1>2 DEF TestNext, AnyCommand, AnyCrash, Continue, ListTables, Expect, Mishap,
                Restart, FreeFits, Next, testVars
  <2> QED
    BY <2>1, StepKeepsAnswers DEF TestInv
<1> QED
  BY <1>1, <1>2

-----------------------------------------------------------------------------
(* What a test may be run with: the clock moves forward, nothing fails among
   the removals of a compaction or when the log is read, its keys are its own,
   and other clients have keys and values of the engine. *)
TestsMayRun == SafeEnvironment /\ TestsFit /\ FreeFits

LEMMA TestInvHolds == TestsMayRun => (FairTests => []TestInv)
<1> SUFFICES ASSUME TestsMayRun PROVE FairTests => []TestInv
  OBVIOUS
<1>1. TestInit => TestInv
  BY TestInvInit DEF TestsMayRun
<1>2. TestInv /\ [TestNext]_testVars => TestInv'
  BY TestInvStep DEF TestsMayRun
<1> QED
  BY <1>1, <1>2, PTL DEF FairTests

(* What the tests of Log, compact, execute and try_from expect, and the scripts
   of deletes beside them, holds however often the process is killed or a disk
   operation fails in their calls: for every number of keys and values, every
   cadence of the compactions and every threshold that is far enough
   (Log::write, flush, compact, new, execute, try_from). *)
THEOREM TestsAlwaysPass == TestsMayRun => (FairTests => []TestsPass)
<1> SUFFICES ASSUME TestsMayRun PROVE FairTests => []TestsPass
  OBVIOUS
<1>1. TestInv => TestsPass
  <2> SUFFICES ASSUME TestInv, pc = "idle", Scripted,
                      InHand.call \notin Calls \cup {"list"}
               PROVE  Meets(InHand)
    BY DEF TestsPass
  <2>1. Inductive /\ script # Nil /\ script # <<>>
    BY DEF TestInv, Scripted
  <2>2. PICK A : Ready(A, InHand) /\ Tracks(A, InHand) /\ NoneLeft(A, InHand)
    BY <2>1, AtStep
  <2> QED
    BY <2>1, <2>2, ExpectationsMet
<1> QED
  BY <1>1, TestInvHolds, PTL

(* The engine's invariant also holds under the calls that only the tests make:
   a log dropped and opened again, a compaction and a flush that are called and
   not due (Log::flush, compact, new). *)
THEOREM TestsKeepInductive == TestsMayRun => (FairTests => []Inductive)
<1>1. TestInv => Inductive
  BY DEF TestInv
<1> QED
  BY <1>1, TestInvHolds, PTL

(* Nor does any of those calls, one that failed or the restart after a crash
   change an answer: only writes do (flush_to, get, compact). *)
THEOREM TestCallsChangeNoAnswer ==
    TestsMayRun => (FairTests => OnlyWritesChangeAnswers)
<1> SUFFICES ASSUME TestsMayRun PROVE FairTests => OnlyWritesChangeAnswers
  OBVIOUS
<1>1. TestInv /\ [TestNext]_testVars =>
          [pc # "write" /\ pc' # "down" => View' = View]_vars
  BY TestStepKeepsAnswers DEF TestsMayRun
<1> QED
  BY <1>1, TestInvHolds, PTL DEF FairTests, OnlyWritesChangeAnswers
=============================================================================
