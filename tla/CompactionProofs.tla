-------------------------- MODULE CompactionProofs --------------------------
(***************************************************************************)
(* What a compaction leaves behind, for every value of the constants and   *)
(* under every crash and I/O error: no assumption but a clock that moves   *)
(* forward between two tables.                                             *)
(***************************************************************************)
EXTENDS LogProofs

Outputs == DOMAIN sstables \ doomed

Running == pc \in {"merge", "spill", "remove"}

(* A key is in one place at most: still to come, in the output that is not
   written, or in one of the outputs that are. *)
PlaceOf(k) ==
    /\ merged[k] \in Values \cup {Nil}
    /\ \A n \in Outputs : sstables[n].entries[k] \in Values \cup {Nil}
    /\ \A n, m \in Outputs :
          sstables[n].entries[k] # Nil /\ sstables[m].entries[k] # Nil => n = m
    /\ merged[k] # Nil \/ k \in todo =>
          \A n \in Outputs : sstables[n].entries[k] = Nil
    /\ k \in todo => merged[k] = Nil

OnceInv ==
    /\ pc \notin {"merge", "spill"} => merged = Empty
    /\ pc = "merge" => todo # {}
    /\ Running => \A k \in Keys : PlaceOf(k)

(* Where a merge that goes on stands. *)
LEMMA MergeStepPlaces ==
    ASSUME NEW rest \in SUBSET Keys, NEW m \in [Keys -> Slot]
    PROVE  /\ MergeStep(rest, m) \in {"merge", "spill", "remove"}
           /\ MergeStep(rest, m) = "merge" => rest # {}
           /\ MergeStep(rest, m) = "remove" => m = Empty
<1>1. Present(m) = {} => m = Empty
  BY DEF Present, Empty
<1> QED
  BY <1>1 DEF MergeStep

(* Outside of a compaction there is nothing to show. *)
LEMMA NotRunning ==
    ASSUME OnceInv, pc \notin {"merge", "spill"} \/ merged' = Empty,
           ~Running', merged' \in {merged, Empty}
    PROVE  OnceInv'
BY DEF OnceInv, Running

LEMMA TruncateOnce ==
    ASSUME TypeOK, TypeOK', OnceInv, Truncate
    PROVE  OnceInv'
<1>1. pc = "truncate" /\ merged = Empty /\ UNCHANGED <<merged, sstables>>
  BY DEF Truncate, OnceInv
<1>2. CASE StartCompaction
  <2>1. Outputs' = {}
    BY <1>1, <1>2 DEF StartCompaction, Outputs
  <2>2. pc' = MergeStep(todo', merged')
    BY <1>1, <1>2 DEF StartCompaction
  <2>3. pc' = "merge" => todo' # {}
    BY <2>2, MergeStepPlaces DEF TypeOK
  <2>4. \A k \in Keys : PlaceOf(k)'
    BY <1>1, <2>1 DEF PlaceOf, Empty
  <2> QED
    BY <1>1, <2>3, <2>4 DEF OnceInv
<1>3. CASE pc' = "idle"
  BY <1>1, <1>3 DEF OnceInv, Running
<1> QED
  BY <1>2, <1>3 DEF Truncate

(* A round takes a key from those to come, of which no output has an entry. *)
LEMMA MergeOnce ==
    ASSUME TypeOK, TypeOK', OnceInv, Merge
    PROVE  OnceInv'
<1> DEFINE k0  == Min(todo)
           won == ScanEntry(Originals, k0)
<1>1. /\ pc = "merge" /\ UNCHANGED <<sstables, doomed>>
      /\ merged' = IF won \in Values
                   THEN Process(merged, [key |-> k0, value |-> won]) ELSE merged
      /\ todo' = todo \ {k0}
      /\ pc' = MergeStep(todo', merged')
  BY DEF Merge
<1>2. k0 \in todo /\ k0 \in Keys
  <2>1. todo \in SUBSET Nat /\ todo # {} /\ todo \subseteq Keys
    BY <1>1, KeysAssumption DEF OnceInv, TypeOK
  <2> QED
    BY <2>1, MinIsLeast
<1> HIDE DEF k0, won
<1>3. /\ merged'[k0] = merged[k0] \/ merged'[k0] \in Values
      /\ \A k \in Keys \ {k0} : merged'[k] = merged[k]
  BY <1>1, <1>2 DEF Process, TypeOK
<1>4. Outputs' = Outputs
  BY <1>1 DEF Outputs
<1>5. ASSUME NEW k \in Keys
      PROVE  PlaceOf(k)'
  <2>1. PlaceOf(k)
    BY <1>1 DEF OnceInv, Running
  <2>2. CASE k = k0
    <3>1. k \in todo /\ k \notin todo'
      BY <1>1, <1>2, <2>2
    <3> QED
      BY <1>1, <1>3, <1>4, <2>1, <2>2, <3>1 DEF PlaceOf
  <2>3. CASE k # k0
    <3>1. (k \in todo' <=> k \in todo) /\ merged'[k] = merged[k]
      BY <1>1, <1>3, <2>3
    <3> QED
      BY <1>1, <1>4, <2>1, <3>1 DEF PlaceOf
  <2> QED
    BY <2>2, <2>3
<1>6. /\ pc' = "merge" => todo' # {}
      /\ pc' \notin {"merge", "spill"} => merged' = Empty
  BY <1>1, MergeStepPlaces DEF TypeOK
<1> QED
  BY <1>5, <1>6 DEF OnceInv

(* What is not written has no entry in what is, and gets a name of its own. *)
LEMMA SpillOnce ==
    ASSUME ClockForward, TypeOK, TypeOK', OnceInv, Spill
    PROVE  OnceInv'
<1>1. /\ pc = "spill" /\ AddTable(Complete(merged)) /\ merged' = Empty
      /\ UNCHANGED <<doomed, todo>>
      /\ pc' = IF todo = {} THEN "remove" ELSE "merge"
  BY DEF Spill
<1>2. Complete(merged) \in Table /\ Complete(merged).entries = merged
  BY CompleteType DEF TypeOK, Complete
<1>3. /\ clock' \in Nat /\ clock < clock' /\ clock \in Nat
      /\ sstables' = With(sstables, clock', Complete(merged))
  BY <1>1, <1>2, AddTableType DEF TypeOK
<1>4. /\ DOMAIN sstables' = DOMAIN sstables \cup {clock'}
      /\ sstables'[clock'].entries = merged
      /\ \A n \in DOMAIN sstables : sstables'[n] = sstables[n] /\ n # clock'
  BY <1>2, <1>3 DEF With, TypeOK
<1>5. Outputs' = Outputs \cup {clock'} /\ Outputs \subseteq DOMAIN sstables
  BY <1>1, <1>4 DEF Outputs, TypeOK
<1>6. ASSUME NEW k \in Keys
      PROVE  PlaceOf(k)'
  <2>1. PlaceOf(k)
    BY <1>1 DEF OnceInv, Running
  <2>2. merged'[k] = Nil
    BY <1>1 DEF Empty
  <2>3. \A n \in Outputs' : \/ n = clock' /\ sstables'[n].entries[k] = merged[k]
                            \/ n \in Outputs /\ sstables'[n] = sstables[n]
    BY <1>4, <1>5
  <2>4. k \in todo' => k \in todo /\ merged[k] = Nil
    BY <1>1, <2>1 DEF PlaceOf
  <2>5. \A n \in Outputs' : sstables'[n].entries[k] \in Values \cup {Nil}
    BY <2>1, <2>3 DEF PlaceOf
  <2>6. ASSUME NEW n \in Outputs', NEW m \in Outputs',
               sstables'[n].entries[k] # Nil, sstables'[m].entries[k] # Nil
        PROVE  n = m
    BY <2>1, <2>3, <2>6 DEF PlaceOf
  <2>7. k \in todo' => \A n \in Outputs' : sstables'[n].entries[k] = Nil
    BY <2>1, <2>3, <2>4 DEF PlaceOf
  <2> QED
    BY <2>2, <2>5, <2>6, <2>7 DEF PlaceOf
<1> QED
  BY <1>1, <1>6 DEF OnceInv

LEMMA RemoveOnce ==
    ASSUME TypeOK, OnceInv, Remove
    PROVE  OnceInv'
<1> DEFINE x == Max(doomed)
           D == DOMAIN sstables \ {x}
<1>1. /\ pc = "remove" /\ doomed' = doomed \ {x}
      /\ sstables' = Restrict(sstables, D)
      /\ UNCHANGED <<todo, merged>>
      /\ pc' \in {"idle", "remove"}
  BY DEF Remove
<1> HIDE DEF x
<1>2. DOMAIN sstables' = D /\ \A n \in D : sstables'[n] = sstables[n]
  BY <1>1, RestrictIs
<1>3. \A n \in Outputs' : n \in Outputs /\ sstables'[n] = sstables[n]
  BY <1>1, <1>2 DEF Outputs
<1>4. ASSUME NEW k \in Keys
      PROVE  PlaceOf(k)'
  <2>1. PlaceOf(k)
    BY <1>1 DEF OnceInv, Running
  <2> QED
    BY <1>1, <1>3, <2>1 DEF PlaceOf
<1> QED
  BY <1>1, <1>4 DEF OnceInv

LEMMA OnceInvStep ==
    ASSUME ClockForward, TypeOK, TypeOK', OnceInv, [Next]_vars
    PROVE  OnceInv'
<1>1. ASSUME NEW k \in Keys,
             (\E v \in Values : ExecuteSet(k, v)) \/ ExecuteDelete(k)
               \/ ExecuteDeleteMiss(k)
      PROVE  OnceInv'
  <2>1. pc = "idle" /\ pc' \in {"write", "flush", "idle"} /\ merged' = merged
    BY <1>1 DEF ExecuteSet, ExecuteDelete, ExecuteDeleteMiss, MaybeFlush, compactVars
  <2> QED
    BY <2>1, NotRunning DEF Running
<1>2. CASE Write \/ FlushTable
  <2>1. /\ pc \in {"write", "flush"} /\ pc' \in {"flush", "idle", "truncate"}
        /\ merged' = merged
    BY <1>2 DEF Write, FlushTable, MaybeFlush, compactVars
  <2> QED
    BY <2>1, NotRunning DEF Running
<1>3. CASE Crash \/ Fail
  <2>1. pc' \in {"down", "idle"} /\ merged' = Empty
    BY <1>3 DEF Crash, Fail, DropCompaction
  <2> QED
    BY <2>1, NotRunning DEF Running
<1>4. CASE Open
  <2>1. pc = "down" /\ pc' = "idle" /\ merged' = merged
    BY <1>4 DEF Open, compactVars
  <2> QED
    BY <2>1, NotRunning DEF Running
<1>5. CASE UNCHANGED vars
  BY <1>5 DEF vars, OnceInv, Running, PlaceOf, Outputs
<1> QED
  BY <1>1, <1>2, <1>3, <1>4, <1>5, TruncateOnce, MergeOnce, SpillOnce, RemoveOnce
  DEF Next, Proceed

(* When the originals start to go, the tables that stay hold each key at most
   once, in one file, and no tombstone, whatever crashed or failed in the
   compactions before (compact). *)
THEOREM CompactedOnceHolds == ClockForward => (Spec => []CompactedOnce)
<1> SUFFICES ASSUME ClockForward PROVE Spec => []CompactedOnce
  OBVIOUS
<1>1. Init => OnceInv
  BY DEF Init, OnceInv, Running
<1>2. TypeOK /\ TypeOK' /\ OnceInv /\ [Next]_vars => OnceInv'
  BY OnceInvStep
<1>3. TypeOK /\ OnceInv => CompactedOnce
  <2> SUFFICES ASSUME TypeOK, OnceInv, pc = "remove", NEW k \in Keys
               PROVE  /\ ScanEntry(Tables, k) # Tombstone
                      /\ Cardinality(Holding(Tables, k)) <= 1
    BY DEF CompactedOnce
  <2>1. PlaceOf(k)
    BY DEF OnceInv, Running
  <2>2. /\ DOMAIN Tables = Outputs
        /\ \A n \in Outputs : Tables[n] = sstables[n]
        /\ IsTables(Tables, clock)
    BY RestrictIs DEF Tables, Outputs, IsTables, TypeOK
  <2>3. ScanEntry(Tables, k) # Tombstone
    <3>1. CASE Holding(Tables, k) = {}
      BY <3>1, SlotAssumption DEF ScanEntry, NewestEntry
    <3>2. CASE Holding(Tables, k) # {}
      <4>1. PICK n \in DOMAIN Tables : ScanEntry(Tables, k) = Tables[n].entries[k]
        BY <2>2, <3>2, ScanPicks DEF TypeOK
      <4> QED
        BY <2>1, <2>2, <4>1, SlotAssumption DEF PlaceOf
    <3> QED
      BY <3>1, <3>2
  <2>4. \A n, m \in Holding(Tables, k) : n = m
    BY <2>1, <2>2 DEF PlaceOf, Holding
  <2>5. CASE Holding(Tables, k) = {}
    BY <2>3, <2>5, FS_EmptySet
  <2>6. CASE Holding(Tables, k) # {}
    <3>1. PICK n : Holding(Tables, k) = {n}
      BY <2>4, <2>6
    <3> QED
      BY <2>3, <3>1, FS_Singleton
  <2> QED
    BY <2>3, <2>5, <2>6
<1> QED
  BY <1>1, <1>2, <1>3, TypeCorrect, PTL DEF Spec
=============================================================================
