------------------------------ MODULE LogProofs ------------------------------
(***************************************************************************)
(* Theorems about Log for every value of its constants, under the          *)
(* environment the passing run "log" assumes: the wall clock moves forward *)
(* between two tables, the removals of a compaction are not cut off, and   *)
(* the log can be read back at boot.  What holds where removals are cut    *)
(* off, as in the run "log_remove", is proved without that assumption.     *)
(***************************************************************************)
EXTENDS Log, Extrema, FiniteSetTheorems, SequenceTheorems, WellFoundedInduction,
        TLAPS

ClockForward == ClockSteps \subseteq Nat \ {0}

SafeEnvironment ==
    /\ ClockForward
    /\ "remove" \notin CrashAt /\ "remove" \notin FailAt
    /\ "replay" \notin FailAt

(* A process that can also be killed, or meet an error, among the removals. *)
RemovalsMayFail == ClockForward /\ "replay" \notin FailAt

----------------------------------------------------------------------------
(* The log. *)

(* Where the records for a key are, and which is last: Replay's choice. *)
LEMMA LastRecord ==
    ASSUME NEW w \in Seq(Record \cup {Torn}), NEW k \in Keys,
           NEW at, at = {i \in DOMAIN w : w[i].key = k}, at # {}
    PROVE  /\ Max(at) \in DOMAIN w
           /\ w[Max(at)] \in Record
<1>1. Len(w) \in Nat /\ DOMAIN w = 1..Len(w)
  BY LenProperties
<1>2. at \in SUBSET (0..Len(w))
  BY <1>1
<1>3. Max(at) \in at
  BY <1>1, <1>2, MaxIsGreatest
<1>4. w[Max(at)] \in Record \cup {Torn}
  BY <1>1, <1>3, ElementOfSeq
<1>5. w[Max(at)] # Torn
  BY <1>3, SlotAssumption DEF Torn
<1> QED
  BY <1>3, <1>4, <1>5

LEMMA ReplayType ==
    ASSUME NEW w \in Seq(Record \cup {Torn})
    PROVE  Replay(w) \in [Keys -> Slot]
<1> SUFFICES ASSUME NEW k \in Keys
             PROVE  Replay(w)[k] \in Slot
  BY DEF Replay
<1> DEFINE at == {i \in DOMAIN w : w[i].key = k}
<1>1. CASE at = {}
  BY <1>1 DEF Replay, Slot
<1>2. CASE at # {}
  BY <1>2, LastRecord DEF Replay, Slot, Record
<1> QED
  BY <1>1, <1>2

LEMMA ReplayEmpty == Replay(<<>>) = Empty
  BY DEF Replay, Empty

(* Replaying one more record. *)
LEMMA ReplayAppend ==
    ASSUME NEW w \in Seq(Record \cup {Torn}), NEW e \in Record \cup {Torn},
           NEW k \in Keys
    PROVE  Replay(Append(w, e))[k] =
              IF e.key = k THEN e.value ELSE Replay(w)[k]
<1> DEFINE u == Append(w, e)
           at == {i \in DOMAIN w : w[i].key = k}
           bt == {i \in DOMAIN u : u[i].key = k}
<1>1. Len(w) \in Nat /\ DOMAIN w = 1..Len(w)
  BY LenProperties
<1>2. /\ DOMAIN u = 1..(Len(w) + 1)
      /\ u[Len(w) + 1] = e
      /\ \A i \in 1..Len(w) : u[i] = w[i]
  OBVIOUS
<1>3. CASE e.key = k
  <2>1. bt \in SUBSET Nat /\ Len(w) + 1 \in bt
    BY <1>1, <1>2, <1>3
  <2>2. \A m \in bt : m <= Len(w) + 1
    BY <1>1, <1>2
  <2>3. Max(bt) = Len(w) + 1
    BY <2>1, <2>2, MaxIs
  <2> QED
    BY <1>2, <1>3, <2>1, <2>3 DEF Replay
<1>4. CASE e.key # k
  <2>1. bt = at
    BY <1>1, <1>2, <1>4
  <2>2. CASE at = {}
    BY <1>4, <2>1, <2>2 DEF Replay
  <2>3. CASE at # {}
    <3>1. Max(at) \in DOMAIN w
      BY <2>3, LastRecord
    <3>2. u[Max(at)] = w[Max(at)]
      BY <1>1, <1>2, <3>1
    <3> QED
      BY <1>4, <2>1, <2>3, <3>2 DEF Replay
  <2> QED
    BY <2>2, <2>3
<1> QED
  BY <1>3, <1>4

----------------------------------------------------------------------------
(* The tables. *)

IsTables(T, c) == /\ DOMAIN T \subseteq 0..c
                  /\ \A n \in DOMAIN T : T[n] \in Table

(* The entry of the newest of some files is the entry of one of them that
   is at least as new as the others. *)
LEMMA NewestEntryIs ==
    ASSUME NEW c \in Nat, NEW T, IsTables(T, c), NEW k,
           NEW F \in SUBSET DOMAIN T, F # {}
    PROVE  \E n \in F : /\ \A m \in F : m <= n
                        /\ NewestEntry(T, F, k) = T[n].entries[k]
<1>1. F \in SUBSET (0..c)
  BY DEF IsTables
<1> QED
  BY <1>1, MaxIsGreatest DEF NewestEntry

(* A file as new as every other one decides. *)
LEMMA NewestDecides ==
    ASSUME NEW F \in SUBSET Nat, NEW n \in F, \A m \in F : m <= n,
           NEW T, NEW k
    PROVE  NewestEntry(T, F, k) = T[n].entries[k]
  BY MaxIs DEF NewestEntry

LEMMA EntryTypes ==
    ASSUME NEW c \in Nat, NEW T, IsTables(T, c), NEW k \in Keys
    PROVE  /\ ScanEntry(T, k) \in Slot
           /\ TableEntry(T, k) \in Slot
           /\ ScanEntry(T, k) = Nil <=> Holding(T, k) = {}
<1> DEFINE F == {n \in Holding(T, k) : k \in T[n].filter}
<1>1. Holding(T, k) \in SUBSET DOMAIN T /\ F \in SUBSET DOMAIN T
  BY DEF Holding
<1>2. \A n \in DOMAIN T : T[n].entries[k] \in Slot
  BY DEF IsTables, Table
<1>3. /\ Holding(T, k) # {} => \E n \in Holding(T, k) :
                                  ScanEntry(T, k) = T[n].entries[k]
      /\ Holding(T, k) = {} => ScanEntry(T, k) = Nil
  <2>1. ASSUME Holding(T, k) # {}
        PROVE  \E n \in Holding(T, k) : ScanEntry(T, k) = T[n].entries[k]
    BY <1>1, <2>1, NewestEntryIs DEF ScanEntry
  <2> QED
    BY <2>1 DEF ScanEntry, NewestEntry
<1>4. /\ F # {} => \E n \in F : TableEntry(T, k) = T[n].entries[k]
      /\ F = {} => TableEntry(T, k) = Nil
  <2>1. ASSUME F # {}
        PROVE  \E n \in F : TableEntry(T, k) = T[n].entries[k]
    BY <1>1, <2>1, NewestEntryIs DEF TableEntry
  <2> QED
    BY <2>1 DEF TableEntry, NewestEntry
<1>5. Nil \in Slot
  BY DEF Slot
<1>6. TableEntry(T, k) \in Slot
  BY <1>1, <1>2, <1>4, <1>5
<1> QED
  BY <1>1, <1>2, <1>3, <1>5, <1>6 DEF Holding

(* The entry that a scan finds is the entry of some table. *)
LEMMA ScanPicks ==
    ASSUME NEW c \in Nat, NEW T, IsTables(T, c), NEW k,
           Holding(T, k) # {}
    PROVE  \E n \in DOMAIN T : /\ T[n].entries[k] # Nil
                               /\ ScanEntry(T, k) = T[n].entries[k]
<1>1. Holding(T, k) \in SUBSET DOMAIN T
  BY DEF Holding
<1>2. PICK n \in Holding(T, k) :
         NewestEntry(T, Holding(T, k), k) = T[n].entries[k]
  BY <1>1, NewestEntryIs
<1> QED
  BY <1>2 DEF ScanEntry, Holding

(* Adding a table keeps the tables well formed. *)
LEMMA WithType ==
    ASSUME NEW c \in Nat, NEW T, IsTables(T, c), NEW x \in Nat, c < x,
           NEW t \in Table
    PROVE  /\ IsTables(With(T, x, t), x)
           /\ DOMAIN With(T, x, t) = DOMAIN T \cup {x}
           /\ With(T, x, t)[x] = t
           /\ \A n \in DOMAIN T : With(T, x, t)[n] = T[n] /\ n < x
  BY DEF IsTables, With

(* What a new table that is newer than all others changes: it decides the
   keys it holds, for compact, and those it holds and shows, for get. *)
LEMMA WithNewest ==
    ASSUME NEW c \in Nat, NEW T, IsTables(T, c), NEW x \in Nat, c < x,
           NEW t \in Table, NEW k \in Keys
    PROVE  /\ ScanEntry(With(T, x, t), k) =
                 IF t.entries[k] # Nil THEN t.entries[k] ELSE ScanEntry(T, k)
           /\ TableEntry(With(T, x, t), k) =
                 IF t.entries[k] # Nil /\ k \in t.filter
                 THEN t.entries[k] ELSE TableEntry(T, k)
<1> DEFINE U == With(T, x, t)
           F == {n \in Holding(T, k) : k \in T[n].filter}
           G == {n \in Holding(U, k) : k \in U[n].filter}
<1>1. /\ DOMAIN U = DOMAIN T \cup {x}
      /\ U[x] = t
      /\ \A n \in DOMAIN T : U[n] = T[n] /\ n < x
  BY DEF IsTables, With
<1>2. DOMAIN T \in SUBSET Nat /\ x \notin DOMAIN T
  BY <1>1 DEF IsTables
<1> HIDE DEF U
<1>3. /\ Holding(U, k) = Holding(T, k) \cup
                            (IF t.entries[k] # Nil THEN {x} ELSE {})
      /\ G = F \cup
               (IF t.entries[k] # Nil /\ k \in t.filter THEN {x} ELSE {})
  BY <1>1 DEF Holding
<1>4. ASSUME NEW A \in SUBSET DOMAIN T
      PROVE  /\ NewestEntry(U, A \cup {x}, k) = t.entries[k]
             /\ NewestEntry(U, A, k) = NewestEntry(T, A, k)
  <2> DEFINE Ax == A \cup {x}
  <2>1. Ax \in SUBSET Nat /\ x \in Ax /\ \A m \in Ax : m <= x
    BY <1>1, <1>2
  <2> HIDE DEF Ax
  <2>5. NewestEntry(U, Ax, k) = U[x].entries[k]
    BY <2>1, NewestDecides
  <2>2. NewestEntry(U, A \cup {x}, k) = t.entries[k]
    BY <1>1, <2>5 DEF Ax
  <2>3. CASE A = {}
    BY <2>2, <2>3 DEF NewestEntry
  <2>4. CASE A # {}
    <3>1. A \in SUBSET (0..c)
      BY DEF IsTables
    <3>2. Max(A) \in A
      BY <2>4, <3>1, MaxIsGreatest
    <3> QED
      BY <1>1, <2>2, <2>4, <3>2 DEF NewestEntry
  <2> QED
    BY <2>3, <2>4
<1>5. Holding(T, k) \in SUBSET DOMAIN T /\ F \in SUBSET DOMAIN T
  BY DEF Holding
<1>6. ScanEntry(U, k) =
         IF t.entries[k] # Nil THEN t.entries[k] ELSE ScanEntry(T, k)
  BY <1>3, <1>4, <1>5 DEF ScanEntry
<1>7. TableEntry(U, k) =
         IF t.entries[k] # Nil /\ k \in t.filter
         THEN t.entries[k] ELSE TableEntry(T, k)
  BY <1>3, <1>4, <1>5 DEF TableEntry
<1> QED
  BY <1>6, <1>7 DEF U

(* Tables whose filters show all they hold look the same to both readers. *)
LEMMA CompleteAgrees ==
    ASSUME NEW T, NEW k \in Keys,
           \A n \in DOMAIN T : T[n].filter = Present(T[n].entries)
    PROVE  TableEntry(T, k) = ScanEntry(T, k)
<1>1. {n \in Holding(T, k) : k \in T[n].filter} = Holding(T, k)
  BY DEF Holding, Present
<1> QED
  BY <1>1 DEF TableEntry, ScanEntry

LEMMA RestrictIs ==
    ASSUME NEW T, NEW D \in SUBSET DOMAIN T
    PROVE  /\ DOMAIN Restrict(T, D) = D
           /\ \A n \in D : Restrict(T, D)[n] = T[n]
           /\ \A c : IsTables(T, c) => IsTables(Restrict(T, D), c)
  BY DEF Restrict, IsTables

(* Where newer tables than the ones in Old hold a key, they decide it, and
   otherwise the ones in Old do. *)
LEMMA NewerDecide ==
    ASSUME NEW c \in Nat, NEW T, IsTables(T, c), NEW Old \in SUBSET DOMAIN T,
           \A n \in DOMAIN T \ Old, m \in Old : m < n,
           NEW k \in Keys
    PROVE  ScanEntry(T, k) =
              IF Holding(Restrict(T, DOMAIN T \ Old), k) # {}
              THEN ScanEntry(Restrict(T, DOMAIN T \ Old), k)
              ELSE ScanEntry(Restrict(T, Old), k)
<1> DEFINE A == Holding(Restrict(T, DOMAIN T \ Old), k)
           B == Holding(Restrict(T, Old), k)
<1>1. /\ A \in SUBSET (DOMAIN T \ Old)
      /\ B \in SUBSET Old
      /\ Holding(T, k) = A \cup B
  BY RestrictIs DEF Holding
<1>2. DOMAIN T \in SUBSET (0..c)
  BY DEF IsTables
<1>3. CASE A # {}
  <2> DEFINE AB == A \cup B
             x == Max(A)
  <2>1. x \in A /\ \A m \in A : m <= x
    BY <1>1, <1>2, <1>3, MaxIsGreatest
  <2> HIDE DEF x
  <2>2. AB \in SUBSET Nat /\ x \in AB /\ \A m \in AB : m <= x
    BY <1>1, <1>2, <2>1
  <2> HIDE DEF AB, A, B
  <2>3. NewestEntry(T, AB, k) = T[x].entries[k]
    BY <2>2, MaxIs DEF NewestEntry
  <2>4. NewestEntry(T, A \cup B, k) = T[x].entries[k]
    BY <2>3 DEF AB, A, B
  <2>5. Restrict(T, DOMAIN T \ Old)[x] = T[x]
    BY <1>1, <2>1, RestrictIs
  <2> QED
    BY <1>1, <1>3, <2>4, <2>5 DEF ScanEntry, NewestEntry, x, A, B
<1>4. CASE A = {}
  <2>1. CASE B = {}
    BY <1>1, <1>4, <2>1 DEF ScanEntry, NewestEntry
  <2>2. CASE B # {}
    <3>1. Max(B) \in B
      BY <1>1, <1>2, <2>2, MaxIsGreatest
    <3>2. Restrict(T, Old)[Max(B)] = T[Max(B)]
      BY <1>1, <3>1, RestrictIs
    <3> QED
      BY <1>1, <1>4, <2>2, <3>2 DEF ScanEntry, NewestEntry
  <2> QED
    BY <2>1, <2>2
<1> QED
  BY <1>3, <1>4

----------------------------------------------------------------------------
(* Type correctness. *)

(* A torn table is a table, and holds only what it was to hold. *)
LEMMA PartialType ==
    ASSUME NEW m \in [Keys -> Slot], NEW t \in Partial(m)
    PROVE  /\ t \in Table
           /\ \A k \in Keys : t.entries[k] \in {Nil, m[k]}
<1>1. PICK ks \in SUBSET Present(m) : \E shown \in SUBSET ks :
         t = [entries |-> [k \in Keys |-> IF k \in ks THEN m[k] ELSE Nil],
              filter |-> shown]
  BY DEF Partial
<1>2. t \in Table
  BY <1>1 DEF Table, Present, Slot
<1>3. \A k \in Keys : t.entries[k] \in {Nil, m[k]}
  BY <1>1
<1> QED
  BY <1>2, <1>3

LEMMA CompleteType ==
    ASSUME NEW m \in [Keys -> Slot]
    PROVE  Complete(m) \in Table
  BY DEF Complete, Table, Present

(* A table that is added has a name that is new and past every other. *)
LEMMA AddTableType ==
    ASSUME TypeOK, ClockForward, NEW t \in Table, AddTable(t)
    PROVE  /\ clock' \in Nat /\ clock < clock'
           /\ sstables' = With(sstables, clock', t)
           /\ IsTables(sstables', clock')
           /\ DOMAIN sstables \subseteq DOMAIN sstables'
<1>1. PICK d \in ClockSteps : /\ clock' = clock + d
                              /\ sstables' = With(sstables, clock + d, t)
  BY DEF AddTable
<1>2. clock' \in Nat /\ clock < clock'
  BY <1>1 DEF ClockForward, TypeOK
<1>3. sstables' = With(sstables, clock', t)
  BY <1>1
<1>4. /\ IsTables(With(sstables, clock', t), clock')
      /\ DOMAIN With(sstables, clock', t) = DOMAIN sstables \cup {clock'}
  BY <1>2 DEF TypeOK, IsTables, With
<1> QED
  BY <1>2, <1>3, <1>4

(* Whatever a disk operation leaves behind when it is cut off is well
   formed. *)
LEMMA InterruptedType ==
    ASSUME TypeOK, ClockForward, Interrupted
    PROVE  /\ wal' \in Seq(Record \cup {Torn})
           /\ clock' \in Nat
           /\ IsTables(sstables', clock')
<1>1. CASE /\ pc = "write"
           /\ wal' \in {Append(wal, Torn), Append(wal, entry)}
           /\ UNCHANGED <<sstables, clock>>
  BY <1>1 DEF TypeOK, IsTables
<1>2. CASE /\ \E t \in Partial(memtable) : AddTable(t)
           /\ UNCHANGED wal
  BY <1>2, PartialType, AddTableType DEF TypeOK
<1>3. CASE /\ \E t \in Partial(merged) : AddTable(t)
           /\ UNCHANGED wal
  BY <1>3, PartialType, AddTableType DEF TypeOK
<1>4. CASE wal' \in {<<>>, wal} /\ UNCHANGED <<sstables, clock>>
  BY <1>4, EmptySeq DEF TypeOK, IsTables
<1> QED
  BY <1>1, <1>2, <1>3, <1>4 DEF Interrupted

LEMMA TypeOKInit == Init => TypeOK
<1> SUFFICES ASSUME Init PROVE TypeOK
  OBVIOUS
<1>1. wal \in Seq(Record \cup {Torn})
  BY DEF Init
<1>2. DOMAIN sstables = {}
  BY DEF Init
<1> QED
  BY <1>1, <1>2 DEF Init, TypeOK, Empty, Slot, Pcs

LEMMA TypeOKStep ==
    ASSUME TypeOK, ClockForward, [Next]_vars
    PROVE  TypeOK'
<1>1. ASSUME NEW k \in Keys, NEW v \in Values, ExecuteSet(k, v)
      PROVE  TypeOK'
  <2>1. [key |-> k, value |-> v] \in Record
    BY DEF Record
  <2>2. Nil \notin Record
    BY SlotAssumption DEF Record
  <2> QED
    BY <1>1, <2>1, <2>2 DEF ExecuteSet, TypeOK, compactVars, Pcs
<1>2. ASSUME NEW k \in Keys, ExecuteDelete(k)
      PROVE  TypeOK'
  <2>1. [key |-> k, value |-> Tombstone] \in Record
    BY DEF Record
  <2>2. Nil \notin Record
    BY SlotAssumption DEF Record
  <2> QED
    BY <1>2, <2>1, <2>2 DEF ExecuteDelete, TypeOK, compactVars, Pcs
<1>3. ASSUME NEW k \in Keys, ExecuteDeleteMiss(k)
      PROVE  TypeOK'
  BY <1>3 DEF ExecuteDeleteMiss, MaybeFlush, TypeOK, compactVars, Pcs
<1>4. CASE Write
  <2>1. entry \in Record
    BY <1>4 DEF Write, TypeOK
  <2>2. wal' \in Seq(Record \cup {Torn})
    BY <1>4, <2>1 DEF Write, TypeOK
  <2>3. memtable' \in [Keys -> Slot]
    BY <1>4, <2>1 DEF Write, Process, TypeOK, Record, Slot
  <2>4. pc' \in {"flush", "idle"}
    BY <1>4 DEF Write, MaybeFlush
  <2> QED
    BY <1>4, <2>2, <2>3, <2>4 DEF Write, TypeOK, compactVars, Pcs
<1>5. CASE FlushTable
  <2>1. Complete(memtable) \in Table
    BY CompleteType DEF TypeOK
  <2>2. /\ clock' \in Nat /\ IsTables(sstables', clock')
        /\ DOMAIN sstables \subseteq DOMAIN sstables'
    BY <1>5, <2>1, AddTableType DEF FlushTable
  <2>3. memtable' \in [Keys -> Slot]
    BY <1>5 DEF FlushTable, Empty, Slot
  <2> QED
    BY <1>5, <2>2, <2>3 DEF FlushTable, TypeOK, IsTables, compactVars, Pcs
<1>6. CASE Truncate
  <2>1. wal' \in Seq(Record \cup {Torn})
    BY <1>6 DEF Truncate, StartCompaction
  <2>2. /\ doomed' \subseteq DOMAIN sstables
        /\ todo' \in SUBSET Keys
    BY <1>6 DEF Truncate, StartCompaction, TypeOK, Present
  <2>3. pc' \in {"idle", "spill", "remove", "merge"}
    BY <1>6 DEF Truncate, StartCompaction, MergeStep
  <2> QED
    BY <1>6, <2>1, <2>2, <2>3 DEF Truncate, StartCompaction, TypeOK, Pcs
<1>7. CASE Merge
  <2>1. merged' \in [Keys -> Slot]
    BY <1>7 DEF Merge, TypeOK, Process, Slot
  <2>2. todo' \in SUBSET Keys
    BY <1>7 DEF Merge, TypeOK
  <2>3. pc' \in {"spill", "remove", "merge"}
    BY <1>7 DEF Merge, MergeStep
  <2> QED
    BY <1>7, <2>1, <2>2, <2>3 DEF Merge, TypeOK, Pcs
<1>8. CASE Spill
  <2>1. Complete(merged) \in Table
    BY CompleteType DEF TypeOK
  <2>2. /\ clock' \in Nat /\ IsTables(sstables', clock')
        /\ DOMAIN sstables \subseteq DOMAIN sstables'
    BY <1>8, <2>1, AddTableType DEF Spill
  <2>3. merged' \in [Keys -> Slot]
    BY <1>8 DEF Spill, Empty, Slot
  <2> QED
    BY <1>8, <2>2, <2>3 DEF Spill, TypeOK, IsTables, Pcs
<1>9. CASE Remove
  <2> DEFINE D == DOMAIN sstables \ {Max(doomed)}
  <2>1. DOMAIN sstables' = D /\ \A n \in D : sstables'[n] = sstables[n]
    BY <1>9, RestrictIs DEF Remove
  <2>2. pc' \in {"idle", "remove"}
    BY <1>9 DEF Remove
  <2> QED
    BY <1>9, <2>1, <2>2 DEF Remove, TypeOK, Pcs
<1>10. CASE Crash
  <2>1. memtable' \in [Keys -> Slot] /\ merged' \in [Keys -> Slot]
    BY <1>10 DEF Crash, DropCompaction, Empty, Slot
  <2> QED
    BY <1>10, <2>1, InterruptedType
    DEF Crash, DropCompaction, TypeOK, IsTables, Pcs
<1>11. CASE Fail
  <2>1. merged' \in [Keys -> Slot]
    BY <1>11 DEF Fail, DropCompaction, Empty, Slot
  <2> QED
    BY <1>11, <2>1, InterruptedType
    DEF Fail, DropCompaction, TypeOK, IsTables, Pcs
<1>12. CASE Open
  <2>1. PICK n \in ReadBack : memtable' = Replay(SubSeq(wal, 1, n))
    BY <1>12 DEF Open
  <2>2. Len(wal) \in Nat
    BY LenProperties DEF TypeOK
  <2>3. n \in Int /\ n <= Len(wal)
    BY <2>2 DEF ReadBack
  <2>4. \A i \in 1..n : wal[i] \in Record \cup {Torn}
    BY <2>2, <2>3, ElementOfSeq DEF TypeOK
  <2>5. SubSeq(wal, 1, n) \in Seq(Record \cup {Torn})
    BY <2>3, <2>4, SubSeqProperties
  <2>6. memtable' \in [Keys -> Slot]
    BY <2>1, <2>5, ReplayType
  <2>7. Cardinality(DOMAIN sstables) \in Nat
    <3>1. IsFiniteSet(0..clock)
      BY FS_Interval DEF TypeOK
    <3> QED
      BY <3>1, FS_Subset, FS_CardinalityType DEF TypeOK
  <2> QED
    BY <1>12, <2>6, <2>7 DEF Open, TypeOK, compactVars, Pcs
<1>13. CASE UNCHANGED vars
  BY <1>13 DEF vars, TypeOK
<1> QED
  BY <1>1, <1>2, <1>3, <1>4, <1>5, <1>6, <1>7, <1>8, <1>9, <1>10, <1>11,
     <1>12, <1>13 DEF Next, Proceed

(* The engine's variables keep their types, what is in flight matches the
   operation that is next, and a compaction only lists tables there are
   (Log, MemTable, compact). *)
THEOREM TypeCorrect == ClockForward => (Spec => []TypeOK)
<1> SUFFICES ASSUME ClockForward PROVE Spec => []TypeOK
  OBVIOUS
<1>1. TypeOK /\ [Next]_vars => TypeOK'
  BY TypeOKStep
<1> QED
  BY TypeOKInit, <1>1, PTL DEF Spec

----------------------------------------------------------------------------
(* The tables while a compaction runs. *)

(* compact reads every table there is, but its own output does not count:
   over all the tables the winner is the one among the originals. *)
LEMMA WinnersStand ==
    ASSUME NEW c \in Nat, NEW T, IsTables(T, c), NEW D \in SUBSET DOMAIN T,
           NEW rest, NEW m, OutputsNewer(T, D), OutputsWin(T, D, rest, m),
           NEW k \in Keys
    PROVE  ScanEntry(T, k) = ScanEntry(Restrict(T, D), k)
<1> DEFINE Out == Restrict(T, DOMAIN T \ D)
           won == ScanEntry(Restrict(T, D), k)
<1>1. ScanEntry(T, k) = IF Holding(Out, k) # {} THEN ScanEntry(Out, k) ELSE won
  BY NewerDecide DEF OutputsNewer
<1>2. DOMAIN Out = DOMAIN T \ D /\ IsTables(Out, c)
      /\ \A n \in DOMAIN T \ D : Out[n] = T[n]
  BY RestrictIs
<1>3. \A n \in DOMAIN T \ D : T[n].entries[k] \in {Nil, won}
  BY DEF OutputsWin
<1>4. CASE Holding(Out, k) = {}
  BY <1>1, <1>4
<1>5. CASE Holding(Out, k) # {}
  <2> HIDE DEF Out
  <2>1. PICK n \in DOMAIN Out : /\ Out[n].entries[k] # Nil
                               /\ ScanEntry(Out, k) = Out[n].entries[k]
    BY <1>2, <1>5, ScanPicks
  <2> QED
    BY <1>1, <1>2, <1>3, <1>5, <2>1
<1> QED
  BY <1>4, <1>5

(* Where a lookup in the newer tables alone finds an entry, a lookup in all
   the tables finds the same. *)
LEMMA NewerAnswer ==
    ASSUME NEW c \in Nat, NEW T, IsTables(T, c), NEW Old \in SUBSET DOMAIN T,
           \A n \in DOMAIN T \ Old, m \in Old : m < n,
           NEW k \in Keys, TableEntry(Restrict(T, DOMAIN T \ Old), k) # Nil
    PROVE  TableEntry(T, k) = TableEntry(Restrict(T, DOMAIN T \ Old), k)
<1> DEFINE Out == Restrict(T, DOMAIN T \ Old)
           A == {n \in Holding(Out, k) : k \in Out[n].filter}
           B == {n \in Holding(T, k) : k \in T[n].filter}
<1>1. A # {}
  BY DEF TableEntry, NewestEntry
<1>2. /\ DOMAIN Out = DOMAIN T \ Old
      /\ \A n \in DOMAIN T \ Old : Out[n] = T[n]
  BY RestrictIs
<1>3. /\ A \in SUBSET (DOMAIN T \ Old) /\ A \subseteq B
      /\ B \ A \subseteq Old /\ DOMAIN T \in SUBSET (0..c)
  BY <1>2 DEF Holding, IsTables
<1> HIDE DEF A, B
<1>4. PICK x \in A : /\ \A m \in A : m <= x
                     /\ NewestEntry(Out, A, k) = Out[x].entries[k]
  <2>1. A \in SUBSET (0..c)
    BY <1>3
  <2>2. Max(A) \in A /\ \A m \in A : m <= Max(A)
    BY <1>1, <2>1, MaxIsGreatest
  <2> QED
    BY <1>1, <2>2 DEF NewestEntry
<1>5. B \in SUBSET Nat /\ x \in B /\ \A m \in B : m <= x
  <2>1. B \subseteq DOMAIN T
    BY DEF B, Holding
  <2>2. x \in DOMAIN T \ Old /\ x \in Nat
    BY <1>3, <1>4
  <2>3. ASSUME NEW m \in B, m \notin A
        PROVE  m <= x
    BY <1>3, <2>1, <2>2, <2>3
  <2> QED
    BY <1>3, <1>4, <2>1, <2>3
<1>6. NewestEntry(T, B, k) = T[x].entries[k]
  <2>1. Max(B) = x /\ B # {}
    BY <1>5, MaxIs
  <2> QED
    BY <2>1 DEF NewestEntry
<1>7. x \in DOMAIN T \ Old
  BY <1>3, <1>4
<1> QED
  BY <1>2, <1>4, <1>6, <1>7 DEF TableEntry, A, B

(* When nothing is left to merge or to write, the outputs alone answer like
   the originals do: the originals can go. *)
LEMMA OutputsSuffice ==
    ASSUME NEW c \in Nat, NEW T, IsTables(T, c), NEW D \in SUBSET DOMAIN T,
           NEW m, OutputsNewer(T, D), OutputsWin(T, D, {}, m),
           NEW k \in Keys, m[k] = Nil
    PROVE  ValueOf(TableEntry(Restrict(T, DOMAIN T \ D), k)) =
              ValueOf(ScanEntry(Restrict(T, D), k))
<1> DEFINE Out == Restrict(T, DOMAIN T \ D)
           won == ScanEntry(Restrict(T, D), k)
<1>1. DOMAIN Out = DOMAIN T \ D /\ IsTables(Out, c)
      /\ \A n \in DOMAIN T \ D : Out[n] = T[n]
  BY RestrictIs
<1>2. TableEntry(Out, k) = ScanEntry(Out, k)
  BY <1>1, CompleteAgrees DEF OutputsNewer
<1>3. \A n \in DOMAIN Out : Out[n].entries[k] \in {Nil, won} \ {Tombstone}
  BY <1>1 DEF OutputsWin
<1>4. won \in Slot
  BY RestrictIs, EntryTypes
<1>5. CASE Holding(Out, k) # {}
  <2> HIDE DEF Out
  <2>1. PICK n \in DOMAIN Out : /\ Out[n].entries[k] # Nil
                               /\ ScanEntry(Out, k) = Out[n].entries[k]
    BY <1>1, <1>5, ScanPicks
  <2>2. TableEntry(Out, k) = won
    BY <1>2, <1>3, <2>1
  <2> QED
    BY <2>2 DEF Out
<1>6. CASE Holding(Out, k) = {}
  <2>1. ScanEntry(Out, k) = Nil
    BY <1>6 DEF ScanEntry, NewestEntry
  <2>2. \A n \in DOMAIN T \ D : T[n].entries[k] = Nil
    BY <1>1, <1>6 DEF Holding
  <2>3. won \notin Values
    BY <2>2 DEF OutputsWin
  <2> QED
    BY <1>2, <1>4, <2>1, <2>3, SlotAssumption DEF ValueOf, Slot
<1> QED
  BY <1>5, <1>6

(* A table written from the merge's output, whole or torn, changes no key
   for either reader. *)
LEMMA OutputChangesNothing ==
    ASSUME NEW c \in Nat, NEW T, IsTables(T, c), NEW D \in SUBSET DOMAIN T,
           NEW rest, NEW m, OutputsNewer(T, D), OutputsWin(T, D, rest, m),
           NEW k \in Keys, ScanEntry(T, k) = TableEntry(T, k),
           NEW x \in Nat, c < x, NEW t \in Table, t.entries[k] \in {Nil, m[k]}
    PROVE  /\ ScanEntry(With(T, x, t), k) = ScanEntry(T, k)
           /\ TableEntry(With(T, x, t), k) = TableEntry(T, k)
<1>1. t.entries[k] # Nil => t.entries[k] = ScanEntry(T, k)
  BY WinnersStand DEF OutputsWin
<1>2. /\ ScanEntry(With(T, x, t), k) =
            IF t.entries[k] # Nil THEN t.entries[k] ELSE ScanEntry(T, k)
      /\ TableEntry(With(T, x, t), k) =
            IF t.entries[k] # Nil /\ k \in t.filter
            THEN t.entries[k] ELSE TableEntry(T, k)
  BY WithNewest
<1> QED
  BY <1>1, <1>2

(* The tables that are merged stay as they are when an output joins them. *)
LEMMA WithKeepsOriginals ==
    ASSUME NEW c \in Nat, NEW T, IsTables(T, c), NEW D \in SUBSET DOMAIN T,
           NEW x \in Nat, c < x, NEW t \in Table
    PROVE  /\ Restrict(With(T, x, t), D) = Restrict(T, D)
           /\ DOMAIN With(T, x, t) \ D = (DOMAIN T \ D) \cup {x}
<1>1. x \notin DOMAIN T
  BY DEF IsTables
<1> QED
  BY <1>1 DEF Restrict, With

(* An output that is complete keeps the compaction right, with nothing held
   back. *)
LEMMA SpillKeepsWinners ==
    ASSUME NEW c \in Nat, NEW T, IsTables(T, c), NEW D \in SUBSET DOMAIN T,
           NEW rest, NEW m \in [Keys -> Slot],
           OutputsNewer(T, D), OutputsWin(T, D, rest, m),
           NEW x \in Nat, c < x
    PROVE  /\ OutputsNewer(With(T, x, Complete(m)), D)
           /\ OutputsWin(With(T, x, Complete(m)), D, rest, Empty)
<1> DEFINE U == With(T, x, Complete(m))
<1>1. Complete(m) \in Table
  BY CompleteType
<1>2. /\ Restrict(U, D) = Restrict(T, D)
      /\ DOMAIN U \ D = (DOMAIN T \ D) \cup {x}
  BY <1>1, WithKeepsOriginals
<1>3. /\ U[x] = Complete(m)
      /\ \A n \in DOMAIN T : U[n] = T[n] /\ n < x
  BY DEF IsTables, With
<1> HIDE DEF U
<1>4. OutputsNewer(U, D)
  BY <1>2, <1>3 DEF OutputsNewer, Complete
<1>5. ASSUME NEW k \in Keys,
             NEW won, won = ScanEntry(Restrict(T, D), k)
      PROVE  /\ Empty[k] \in {Nil, won} \ {Tombstone}
             /\ \A n \in DOMAIN U \ D :
                   U[n].entries[k] \in {Nil, won} \ {Tombstone}
             /\ won \in Values /\ k \notin rest =>
                   \E n \in DOMAIN U \ D : U[n].entries[k] # Nil
  <2>1. Empty[k] \in {Nil, won} \ {Tombstone}
    BY SlotAssumption DEF Empty
  <2>2. U[x].entries[k] = m[k]
    BY <1>3 DEF Complete
  <2>3. \A n \in DOMAIN U \ D : U[n].entries[k] \in {Nil, won} \ {Tombstone}
    BY <1>2, <1>3, <1>5, <2>2 DEF OutputsWin
  <2>4. ASSUME won \in Values, k \notin rest
        PROVE  \E n \in DOMAIN U \ D : U[n].entries[k] # Nil
    BY <1>2, <1>3, <1>5, <2>2, <2>4 DEF OutputsWin
  <2> QED
    BY <2>1, <2>3, <2>4
<1>6. OutputsWin(U, D, rest, Empty)
  BY <1>2, <1>5 DEF OutputsWin
<1> QED
  BY <1>4, <1>6 DEF U

----------------------------------------------------------------------------
(* What each step does to the invariant, to the answers and to the writes in
   doubt.  TypeOK is TypeOKStep's business; Rest is the rest of Steady. *)

Rest == Logged /\ Flushed /\ Compacting

AnswersStay == View' = View

DoubtStays == \A k \in Keys : Doubt(k)' = Doubt(k)

(* What no filter hides stays so, and answers as before. *)
ShownStays ==
    \A k \in Keys : ~Hidden(k) => ~Hidden(k)' /\ View'[k] = View[k]

(* An answer depends on the memory and the tables that are in view. *)
LEMMA ViewAt ==
    ASSUME NEW k \in Keys
    PROVE  View[k] = ValueOf(IF Memory[k] # Nil THEN Memory[k]
                             ELSE TableEntry(Tables, k))
  BY DEF View, Lookup

LEMMA ShownIs ==
    ASSUME NEW k \in Keys
    PROVE  ~Hidden(k) <=>
              (Memory[k] = Nil => ScanEntry(Tables, k) = TableEntry(Tables, k))
  BY DEF Hidden

(* If no filter hides anything, nothing changes for any key. *)
LEMMA AllShown ==
    ASSUME FilterHidesNothing, ShownStays
    PROVE  FilterHidesNothing' /\ AnswersStay
<1>1. \A k \in Keys : ~Hidden(k)' /\ View'[k] = View[k]
  BY DEF FilterHidesNothing, ShownStays
<1>2. View' = View
  BY <1>1 DEF View
<1> QED
  BY <1>1, <1>2 DEF FilterHidesNothing, AnswersStay

(* A doubt about a key changes with the log, the answer and the process. *)
LEMMA DoubtFollows ==
    ASSUME UNCHANGED wal, AnswersStay, pc # "down", pc' # "down"
    PROVE  DoubtStays
BY DEF AnswersStay, DoubtStays, Doubt

(* Steps that touch no file and no table. *)
LEMMA QuietStep ==
    ASSUME Steady, UNCHANGED <<wal, memtable, sstables, doomed, todo, merged>>,
           pc \in {"idle", "write", "flush"},
           \/ pc' \in {"idle", "write", "flush"}
           \/ pc' = "truncate" /\ memtable = Empty /\ DOMAIN sstables # {}
    PROVE  Rest' /\ ShownStays /\ AnswersStay /\ DoubtStays
<1>1. Memory' = memtable /\ Memory = memtable
  BY DEF Memory
<1>2. Tables' = sstables /\ Tables = sstables
  BY DEF Tables
<1>3. View' = View
  BY <1>1, <1>2 DEF View
<1>4. \A k \in Keys : Doubt(k)' = Doubt(k)
  BY <1>3 DEF Doubt
<1>5. Logged' /\ Flushed' /\ Compacting'
  BY DEF Steady, Logged, Flushed, Compacting
<1>6. ShownStays
  BY <1>1, <1>2, <1>3 DEF ShownStays, Hidden
<1> QED
  BY <1>3, <1>4, <1>5, <1>6 DEF Rest, AnswersStay, DoubtStays

(* Write makes its entry visible and no longer in doubt. *)
LEMMA WriteStep ==
    ASSUME Steady, Write
    PROVE  /\ Rest'
           /\ \A k \in Keys : ~Hidden(k) => ~Hidden(k)'
           /\ View' = [View EXCEPT ![entry.key] = ValueOf(entry.value)]
           /\ \A k \in Keys : Doubt(k)' = IF k = entry.key THEN {} ELSE Doubt(k)
<1> DEFINE e == entry
<1>1. /\ pc = "write" /\ pc' \in {"idle", "flush"}
      /\ wal' = Append(wal, e) /\ memtable' = Process(memtable, e)
      /\ UNCHANGED <<sstables, doomed, todo, merged>>
  BY DEF Write, MaybeFlush, compactVars
<1>2. e \in Record /\ e.key \in Keys /\ e.value \in Slot /\ e.value # Nil
  BY <1>1, SlotAssumption DEF Steady, TypeOK, Record, Slot
<1>3. ASSUME NEW k \in Keys
      PROVE  memtable'[k] = IF k = e.key THEN e.value ELSE memtable[k]
  BY <1>1, <1>2 DEF Process, Steady, TypeOK
<1>4. ASSUME NEW k \in Keys
      PROVE  Replay(wal')[k] = IF k = e.key THEN e.value ELSE Replay(wal)[k]
  BY <1>1, <1>2, ReplayAppend DEF Steady, TypeOK
<1>5. Memory' = memtable' /\ Memory = memtable
  BY <1>1 DEF Memory
<1>6. Tables' = sstables /\ Tables = sstables
  BY <1>1 DEF Tables
<1> HIDE DEF e
<1>7. ASSUME NEW k \in Keys
      PROVE  View'[k] = IF k = e.key THEN ValueOf(e.value) ELSE View[k]
  <2>1. View'[k] = ValueOf(IF memtable'[k] # Nil THEN memtable'[k]
                           ELSE TableEntry(sstables, k))
    BY <1>5, <1>6 DEF View, Lookup
  <2> QED
    BY <1>2, <1>3, <1>5, <1>6, <2>1, ViewAt
<1>8. View' = [View EXCEPT ![e.key] = ValueOf(e.value)]
  BY <1>2, <1>7 DEF View
<1>9. ASSUME NEW k \in Keys
      PROVE  Doubt(k)' = IF k = e.key THEN {} ELSE Doubt(k)
  BY <1>1, <1>2, <1>4, <1>7 DEF Doubt
<1>10. Logged'
  BY <1>1, <1>2, <1>3, <1>4 DEF Steady, Logged
<1>11. Flushed' /\ Compacting'
  BY <1>1 DEF Steady, Flushed, Compacting
<1>12. \A k \in Keys : ~Hidden(k) => ~Hidden(k)'
  BY <1>2, <1>3, <1>5, <1>6 DEF Hidden
<1> QED
  BY <1>8, <1>9, <1>10, <1>11, <1>12 DEF Rest, e

(* The flushed table answers like the memtable did. *)
LEMMA FlushStep ==
    ASSUME Steady, ClockForward, FlushTable
    PROVE  Rest' /\ ShownStays /\ AnswersStay /\ DoubtStays
<1> DEFINE t == Complete(memtable)
<1>1. /\ pc = "flush" /\ pc' = "truncate" /\ memtable' = Empty
      /\ UNCHANGED <<wal, doomed, todo, merged>>
  BY DEF FlushTable, compactVars
<1>2. t \in Table
  BY CompleteType DEF Steady, TypeOK
<1>3. /\ clock' \in Nat /\ clock < clock'
      /\ sstables' = With(sstables, clock', t)
  BY <1>2, AddTableType DEF FlushTable, Steady
<1>4. clock \in Nat /\ IsTables(sstables, clock)
  BY DEF Steady, TypeOK, IsTables
<1>5. Memory' = Empty /\ Memory = memtable
  BY <1>1 DEF Memory
<1>6. Tables' = sstables' /\ Tables = sstables
  BY <1>1 DEF Tables
<1>7. ASSUME NEW k \in Keys
      PROVE  /\ ScanEntry(sstables', k) =
                   IF memtable[k] # Nil THEN memtable[k]
                   ELSE ScanEntry(sstables, k)
             /\ TableEntry(sstables', k) =
                   IF memtable[k] # Nil THEN memtable[k]
                   ELSE TableEntry(sstables, k)
  <2>1. t.entries = memtable /\ t.filter = Present(memtable)
    BY DEF Complete
  <2> HIDE DEF t
  <2>2. /\ ScanEntry(With(sstables, clock', t), k) =
              IF t.entries[k] # Nil THEN t.entries[k] ELSE ScanEntry(sstables, k)
        /\ TableEntry(With(sstables, clock', t), k) =
              IF t.entries[k] # Nil /\ k \in t.filter
              THEN t.entries[k] ELSE TableEntry(sstables, k)
    BY <1>2, <1>3, <1>4, WithNewest
  <2> QED
    BY <1>3, <2>1, <2>2 DEF Present
<1>8. ASSUME NEW k \in Keys
      PROVE  View'[k] = View[k]
  <2>1. View'[k] = ValueOf(TableEntry(sstables', k))
    BY <1>5, <1>6 DEF View, Lookup, Empty
  <2> QED
    BY <1>5, <1>6, <1>7, <2>1, ViewAt
<1>9. View' = View
  BY <1>8 DEF View
<1>10. \A k \in Keys : Doubt(k)' = Doubt(k)
  BY <1>1, <1>9 DEF Doubt
<1>11. Logged' /\ Compacting'
  BY <1>1 DEF Logged, Compacting, Empty
<1>12. Flushed'
  <2>1. clock' \in DOMAIN sstables'
    BY <1>3 DEF With
  <2> QED
    BY <1>1, <2>1 DEF Steady, Flushed
<1>13. ShownStays
  BY <1>5, <1>6, <1>7, <1>8 DEF ShownStays, Hidden
<1> QED
  BY <1>9, <1>10, <1>11, <1>12, <1>13 DEF Rest, AnswersStay, DoubtStays

(* Once the outputs suffice, they answer like all the tables did. *)
LEMMA ReadyToRemove ==
    ASSUME NEW c \in Nat, NEW T, IsTables(T, c), NEW D \in SUBSET DOMAIN T,
           OutputsNewer(T, D), OutputsWin(T, D, {}, Empty),
           NEW k \in Keys, ScanEntry(T, k) = TableEntry(T, k)
    PROVE  LET Out == Restrict(T, DOMAIN T \ D)
           IN  /\ ValueOf(TableEntry(Out, k)) = ValueOf(TableEntry(T, k))
               /\ ScanEntry(Out, k) = TableEntry(Out, k)
<1> DEFINE Out == Restrict(T, DOMAIN T \ D)
<1>1. Empty[k] = Nil
  BY DEF Empty
<1>2. ValueOf(TableEntry(Out, k)) = ValueOf(ScanEntry(Restrict(T, D), k))
  BY <1>1, OutputsSuffice
<1>3. ScanEntry(Restrict(T, D), k) = ScanEntry(T, k)
  BY WinnersStand
<1>4. \A n \in DOMAIN Out : Out[n].filter = Present(Out[n].entries)
  BY RestrictIs DEF OutputsNewer
<1>5. TableEntry(Out, k) = ScanEntry(Out, k)
  BY <1>4, CompleteAgrees
<1> QED
  BY <1>2, <1>3, <1>5

(* A step that goes on with a merge of the tables in doomed' leaves the
   answers alone, also if it was the last. *)
LEMMA MergeGoesOn ==
    ASSUME Steady, memtable = Empty, pc \in {"idle", "truncate", "merge"},
           UNCHANGED <<memtable, sstables>>,
           doomed' \subseteq DOMAIN sstables, merged' \in [Keys -> Slot],
           OutputsNewer(sstables, doomed'),
           OutputsWin(sstables, doomed', todo', merged'),
           pc' = MergeStep(todo', merged')
    PROVE  /\ Flushed' /\ Compacting'
           /\ ShownStays
<1>1. clock \in Nat /\ IsTables(sstables, clock)
  BY DEF Steady, TypeOK, IsTables
<1>2. Memory = Empty /\ Memory' = Empty
  BY DEF Memory, MergeStep
<1>3. Tables = sstables
  BY DEF Tables
<1>4. \A k \in Keys :
         ~Hidden(k) <=> ScanEntry(sstables, k) = TableEntry(sstables, k)
  BY <1>2, <1>3, ShownIs DEF Empty
<1>5. Compacting'
  BY DEF Compacting
<1>6. CASE pc' \in {"merge", "spill"}
  <2>1. Tables' = sstables
    BY <1>6 DEF Tables
  <2>2. View' = View
    BY <1>2, <1>3, <2>1 DEF View
  <2>3. ShownStays
    BY <1>2, <1>3, <2>1, <2>2 DEF ShownStays, Hidden
  <2>4. Flushed'
    BY <1>6 DEF Flushed
  <2> QED
    BY <1>5, <2>3, <2>4
<1>7. CASE pc' = "remove"
  <2>1. todo' = {} /\ Present(merged') = {}
    BY <1>7 DEF MergeStep
  <2>2. merged' = Empty
    BY <2>1 DEF Present, Empty
  <2>3. Tables' = Restrict(sstables, DOMAIN sstables \ doomed')
    BY <1>7 DEF Tables
  <2>4. ASSUME NEW k \in Keys, ~Hidden(k)
        PROVE  /\ ValueOf(TableEntry(Tables', k)) =
                     ValueOf(TableEntry(sstables, k))
               /\ ScanEntry(Tables', k) = TableEntry(Tables', k)
    BY <1>1, <1>4, <2>1, <2>2, <2>3, <2>4, ReadyToRemove
  <2>5. ShownStays
    BY <1>2, <1>3, <2>4 DEF ShownStays, Hidden, View, Lookup, Empty
  <2>6. Flushed'
    BY <1>7, <2>2 DEF Flushed
  <2> QED
    BY <1>5, <2>5, <2>6
<1> QED
  BY <1>6, <1>7 DEF MergeStep

(* A compaction that starts has every key of every table to go through. *)
LEMMA CompactionStarts ==
    ASSUME Steady, memtable = Empty, pc \in {"idle", "truncate"},
           DOMAIN sstables # {}, UNCHANGED <<memtable, sstables, merged>>,
           StartCompaction
    PROVE  Flushed' /\ Compacting' /\ ShownStays
<1> DEFINE D == DOMAIN sstables
<1>1. merged' = Empty /\ merged' \in [Keys -> Slot]
  BY DEF Steady, Flushed, TypeOK
<1>2. /\ doomed' = D
      /\ todo' = UNION {Present(sstables[n].entries) : n \in D}
      /\ pc' = MergeStep(todo', merged')
  BY <1>1 DEF StartCompaction
<1>3. Restrict(sstables, D) = [n \in D |-> sstables[n]]
  BY DEF Restrict
<1>4. OutputsNewer(sstables, D)
  BY DEF OutputsNewer
<1>5. ASSUME NEW k \in Keys, k \notin todo'
      PROVE  ScanEntry(Restrict(sstables, D), k) = Nil
  <2>1. \A n \in D : sstables[n].entries[k] = Nil
    BY <1>2, <1>5 DEF Present
  <2>2. Holding(Restrict(sstables, D), k) = {}
    BY <1>3, <2>1 DEF Holding
  <2> QED
    BY <2>2 DEF ScanEntry, NewestEntry
<1>6. OutputsWin(sstables, D, todo', Empty)
  BY <1>5, SlotAssumption DEF OutputsWin, Empty
<1> QED
  BY <1>1, <1>2, <1>4, <1>6, MergeGoesOn

(* Emptying the log settles every doubt. *)
LEMMA TruncateStep ==
    ASSUME Steady, TypeOK', Truncate
    PROVE  Rest' /\ ShownStays /\ \A k \in Keys : Doubt(k)' = {}
<1>1. /\ pc = "truncate" /\ memtable = Empty /\ merged = Empty
      /\ wal' = <<>> /\ UNCHANGED <<memtable, sstables, merged>>
      /\ DOMAIN sstables # {}
  BY DEF Truncate, StartCompaction, Steady, Flushed
<1>2. \A k \in Keys : Doubt(k)' = {}
  BY <1>1, ReplayEmpty DEF Doubt, Empty
<1>3. Logged'
  BY <1>1 DEF Logged, Empty
<1>4. CASE flush_count' % CompactEvery = 0
  <2>1. StartCompaction
    BY <1>4 DEF Truncate
  <2>2. Flushed' /\ Compacting' /\ ShownStays
    BY <1>1, <2>1, CompactionStarts
  <2> QED
    BY <1>2, <1>3, <2>2 DEF Rest
<1>5. CASE flush_count' % CompactEvery # 0
  <2>1. pc' = "idle"
    BY <1>5 DEF Truncate, StartCompaction
  <2>2. Memory' = Memory /\ Tables' = Tables
    BY <1>1, <2>1 DEF Memory, Tables
  <2>3. View' = View
    BY <2>2 DEF View
  <2>4. ShownStays
    BY <2>2, <2>3 DEF ShownStays, Hidden
  <2>5. Flushed' /\ Compacting'
    BY <1>1, <2>1 DEF Flushed, Compacting
  <2> QED
    BY <1>2, <1>3, <2>4, <2>5 DEF Rest
<1> QED
  BY <1>4, <1>5

(* One key of the merge. *)
LEMMA MergeStepKeeps ==
    ASSUME Steady, TypeOK', Merge
    PROVE  Rest' /\ ShownStays
<1> DEFINE k0  == Min(todo)
           won == ScanEntry(Restrict(sstables, doomed), k0)
<1>1. /\ pc = "merge" /\ memtable = Empty
      /\ UNCHANGED <<wal, memtable, sstables, doomed>>
      /\ merged' = IF won \in Values
                   THEN Process(merged, [key |-> k0, value |-> won])
                   ELSE merged
      /\ todo' = todo \ {k0}
      /\ pc' = MergeStep(todo', merged')
  BY DEF Merge, Originals, Steady, Flushed
<1>2. /\ doomed' \subseteq DOMAIN sstables /\ merged' \in [Keys -> Slot]
      /\ merged \in [Keys -> Slot]
  BY <1>1 DEF TypeOK, Steady
<1>3. OutputsNewer(sstables, doomed) /\ OutputsWin(sstables, doomed, todo, merged)
  BY <1>1 DEF Steady, Compacting
<1>4. ASSUME NEW k \in Keys,
             NEW w, w = ScanEntry(Restrict(sstables, doomed), k)
      PROVE  /\ merged'[k] \in {Nil, w} \ {Tombstone}
             /\ w \in Values /\ k \notin todo' =>
                   \/ merged'[k] # Nil
                   \/ \E n \in DOMAIN sstables \ doomed :
                         sstables[n].entries[k] # Nil
  <2>1. /\ merged[k] \in {Nil, w} \ {Tombstone}
        /\ w \in Values /\ k \notin todo =>
              \/ merged[k] # Nil
              \/ \E n \in DOMAIN sstables \ doomed :
                    sstables[n].entries[k] # Nil
    BY <1>3, <1>4 DEF OutputsWin
  <2>2. CASE k = k0 /\ w \in Values
    <3>1. merged'[k] = w
      BY <1>1, <1>2, <1>4, <2>2 DEF Process
    <3> QED
      BY <2>2, <3>1, SlotAssumption
  <2>3. CASE ~(k = k0 /\ w \in Values)
    <3>1. merged'[k] = merged[k]
      BY <1>1, <1>2, <1>4, <2>3 DEF Process
    <3>2. w \in Values /\ k \notin todo' => k \notin todo
      BY <1>1, <2>3
    <3> QED
      BY <2>1, <3>1, <3>2
  <2> QED
    BY <2>2, <2>3
<1>5. OutputsWin(sstables, doomed, todo', merged')
  BY <1>3, <1>4 DEF OutputsWin
<1>6. Flushed' /\ Compacting' /\ ShownStays
  BY <1>1, <1>2, <1>3, <1>5, MergeGoesOn
<1>7. Logged'
  BY <1>1 DEF Logged, Empty
<1> QED
  BY <1>6, <1>7 DEF Rest

(* An output of the merge, and maybe the last one. *)
LEMMA SpillStep ==
    ASSUME Steady, ClockForward, Spill
    PROVE  Rest' /\ ShownStays
<1> DEFINE t == Complete(merged)
<1>1. /\ pc = "spill" /\ memtable = Empty /\ merged' = Empty
      /\ UNCHANGED <<wal, memtable, doomed, todo>>
      /\ pc' = IF todo = {} THEN "remove" ELSE "merge"
      /\ merged \in [Keys -> Slot] /\ doomed \subseteq DOMAIN sstables
  BY DEF Spill, Steady, Flushed, TypeOK
<1>2. t \in Table
  BY <1>1, CompleteType
<1>3. /\ clock' \in Nat /\ clock < clock'
      /\ sstables' = With(sstables, clock', t)
      /\ IsTables(sstables', clock') /\ DOMAIN sstables \subseteq DOMAIN sstables'
  BY <1>2, AddTableType DEF Spill, Steady
<1>4. clock \in Nat /\ IsTables(sstables, clock)
  BY DEF Steady, TypeOK, IsTables
<1>5. OutputsNewer(sstables, doomed) /\ OutputsWin(sstables, doomed, todo, merged)
  BY <1>1 DEF Steady, Compacting
<1>6. OutputsNewer(sstables', doomed) /\ OutputsWin(sstables', doomed, todo, Empty)
  BY <1>1, <1>3, <1>4, <1>5, SpillKeepsWinners
<1>7. Memory = Empty /\ Memory' = Empty /\ Tables = sstables
  BY <1>1 DEF Memory, Tables
<1>8. ASSUME NEW k \in Keys, ~Hidden(k)
      PROVE  /\ ScanEntry(sstables, k) = TableEntry(sstables, k)
             /\ ScanEntry(sstables', k) = ScanEntry(sstables, k)
             /\ TableEntry(sstables', k) = TableEntry(sstables, k)
  <2>1. ScanEntry(sstables, k) = TableEntry(sstables, k)
    BY <1>7, <1>8 DEF Hidden, Empty
  <2>2. t.entries[k] \in {Nil, merged[k]}
    BY DEF Complete
  <2> HIDE DEF t
  <2>3. /\ ScanEntry(With(sstables, clock', t), k) = ScanEntry(sstables, k)
        /\ TableEntry(With(sstables, clock', t), k) = TableEntry(sstables, k)
    BY <1>1, <1>2, <1>3, <1>4, <1>5, <2>1, <2>2, OutputChangesNothing
  <2> QED
    BY <1>3, <2>1, <2>3
<1>9. Logged' /\ Compacting'
  BY <1>1, <1>6 DEF Logged, Compacting, Empty
<1>10. Flushed'
  BY <1>1 DEF Flushed
<1>11. ShownStays
  <2>1. CASE todo # {}
    <3>1. Tables' = sstables'
      BY <1>1, <2>1 DEF Tables
    <3> QED
      BY <1>7, <1>8, <3>1 DEF ShownStays, Hidden, View, Lookup
  <2>2. CASE todo = {}
    <3>1. Tables' = Restrict(sstables', DOMAIN sstables' \ doomed)
      BY <1>1, <2>2 DEF Tables
    <3>2. ASSUME NEW k \in Keys, ~Hidden(k)
          PROVE  /\ ValueOf(TableEntry(Tables', k)) =
                       ValueOf(TableEntry(sstables', k))
                 /\ ScanEntry(Tables', k) = TableEntry(Tables', k)
      <4>1. ScanEntry(sstables', k) = TableEntry(sstables', k)
        BY <1>8, <3>2
      <4>2. doomed \in SUBSET DOMAIN sstables'
        BY <1>1, <1>3
      <4> QED
        BY <1>3, <1>6, <2>2, <3>1, <4>1, <4>2, ReadyToRemove
    <3> QED
      BY <1>7, <1>8, <3>2 DEF ShownStays, Hidden, View, Lookup, Empty
  <2> QED
    BY <2>1, <2>2
<1> QED
  BY <1>9, <1>10, <1>11 DEF Rest

(* Removing the newest original leaves the outputs, which are what answers. *)
LEMMA RemoveStep ==
    ASSUME Steady, Remove
    PROVE  Rest' /\ ShownStays /\ AnswersStay /\ DoubtStays
<1> DEFINE x == Max(doomed)
           D == DOMAIN sstables \ {x}
<1>1. /\ pc = "remove" /\ memtable = Empty /\ merged = Empty
      /\ UNCHANGED <<wal, memtable, merged>>
      /\ doomed' = doomed \ {x}
      /\ sstables' = Restrict(sstables, D)
      /\ pc' = IF doomed' = {} THEN "idle" ELSE "remove"
      /\ OutputsNewer(sstables, doomed)
  BY DEF Remove, Steady, Flushed, Compacting
<1>2. x \in doomed
  <2>1. doomed \in SUBSET (0..clock) /\ doomed # {} /\ clock \in Nat
    BY <1>1 DEF Steady, TypeOK, OutputsNewer
  <2> QED
    BY <2>1, MaxIsGreatest
<1> HIDE DEF x
<1>3. DOMAIN sstables' = D /\ \A n \in D : sstables'[n] = sstables[n]
  BY <1>1, RestrictIs
<1>4. D \ doomed' = DOMAIN sstables \ doomed
  BY <1>1, <1>2
<1>5. Tables' = Tables
  <2>1. Tables = [n \in DOMAIN sstables \ doomed |-> sstables[n]]
    BY <1>1 DEF Tables, Restrict
  <2>2. CASE doomed' = {}
    BY <1>1, <1>4, <2>1, <2>2 DEF Tables, Restrict
  <2>3. CASE doomed' # {}
    <3>1. Tables' = [n \in D \ doomed' |-> sstables'[n]]
      BY <1>1, <1>3, <2>3 DEF Tables, Restrict
    <3> QED
      BY <1>3, <1>4, <2>1, <3>1
  <2> QED
    BY <2>2, <2>3
<1>6. Memory' = Memory
  BY <1>1 DEF Memory
<1>7. View' = View
  BY <1>5, <1>6 DEF View
<1>8. ShownStays
  BY <1>5, <1>6, <1>7 DEF ShownStays, Hidden
<1>9. doomed' # {} => OutputsNewer(sstables', doomed')
  BY <1>1, <1>3, <1>4 DEF OutputsNewer
<1>10. Flushed' /\ Logged' /\ Compacting'
  BY <1>1, <1>9 DEF Flushed, Logged, Compacting, Empty
<1>11. DoubtStays
  BY <1>1, <1>7 DEF DoubtStays, Doubt
<1> QED
  BY <1>7, <1>8, <1>10, <1>11 DEF Rest, AnswersStay

(* What a cut-off operation leaves on disk changes no answer of the tables
   for a key the memtable does not hold, and adds at most one record to the
   log, or empties it once its table is written. *)
LEMMA InterruptedKeeps ==
    ASSUME Steady, ClockForward, pc # "remove", pc # "down", Interrupted
    PROVE  /\ \A k \in Keys : memtable[k] = Nil /\ ~Hidden(k) =>
                 /\ ScanEntry(sstables', k) = TableEntry(sstables', k)
                 /\ TableEntry(sstables', k) = TableEntry(sstables, k)
           /\ \/ wal' = wal
              \/ /\ pc = "write"
                 /\ wal' \in {Append(wal, Torn), Append(wal, entry)}
              \/ pc = "truncate" /\ wal' = <<>>
<1>1. Memory = memtable /\ Tables = sstables
  BY DEF Memory, Tables
<1>2. ASSUME NEW k \in Keys, memtable[k] = Nil, ~Hidden(k)
      PROVE  ScanEntry(sstables, k) = TableEntry(sstables, k)
  BY <1>1, <1>2 DEF Hidden
<1>3. clock \in Nat /\ IsTables(sstables, clock)
  BY DEF Steady, TypeOK, IsTables
<1>4. CASE /\ pc = "write"
           /\ wal' \in {Append(wal, Torn), Append(wal, entry)}
           /\ UNCHANGED <<sstables, clock>>
  BY <1>2, <1>4
<1>5. CASE /\ pc = "flush"
           /\ \E t \in Partial(memtable) : AddTable(t)
           /\ UNCHANGED wal
  <2>1. PICK t \in Partial(memtable) : AddTable(t)
    BY <1>5
  <2>2. t \in Table /\ \A k \in Keys : memtable[k] = Nil => t.entries[k] = Nil
    BY PartialType DEF Steady, TypeOK
  <2>3. /\ clock' \in Nat /\ clock < clock'
        /\ sstables' = With(sstables, clock', t)
    BY <2>1, <2>2, AddTableType DEF Steady
  <2>4. ASSUME NEW k \in Keys, memtable[k] = Nil
        PROVE  /\ ScanEntry(sstables', k) = ScanEntry(sstables, k)
               /\ TableEntry(sstables', k) = TableEntry(sstables, k)
    BY <1>3, <2>2, <2>3, <2>4, WithNewest
  <2> QED
    BY <1>2, <1>5, <2>4
<1>6. CASE /\ pc = "spill"
           /\ \E t \in Partial(merged) : AddTable(t)
           /\ UNCHANGED wal
  <2>1. PICK t \in Partial(merged) : AddTable(t)
    BY <1>6
  <2>2. t \in Table /\ \A k \in Keys : t.entries[k] \in {Nil, merged[k]}
    BY PartialType DEF Steady, TypeOK
  <2>3. /\ clock' \in Nat /\ clock < clock'
        /\ sstables' = With(sstables, clock', t)
    BY <2>1, <2>2, AddTableType DEF Steady
  <2>4. /\ OutputsNewer(sstables, doomed)
        /\ OutputsWin(sstables, doomed, todo, merged)
        /\ doomed \in SUBSET DOMAIN sstables
    BY <1>6 DEF Steady, Compacting, TypeOK
  <2>5. ASSUME NEW k \in Keys, memtable[k] = Nil, ~Hidden(k)
        PROVE  /\ ScanEntry(sstables', k) = ScanEntry(sstables, k)
               /\ TableEntry(sstables', k) = TableEntry(sstables, k)
    <3>1. ScanEntry(sstables, k) = TableEntry(sstables, k)
      BY <1>2, <2>5
    <3> QED
      BY <1>3, <2>2, <2>3, <2>4, <3>1, OutputChangesNothing
  <2> QED
    BY <1>2, <1>6, <2>5
<1>7. CASE /\ \/ wal' = wal
              \/ pc = "truncate" /\ wal' = <<>>
           /\ UNCHANGED <<sstables, clock>>
  BY <1>2, <1>7
<1> QED
  BY <1>4, <1>5, <1>6, <1>7 DEF Interrupted

(* What the log can replay after a cut-off operation. *)
LEMMA InterruptedLog ==
    ASSUME Steady,
           \/ wal' = wal
           \/ pc = "write" /\ wal' \in {Append(wal, Torn), Append(wal, entry)}
           \/ pc = "truncate" /\ wal' = <<>>
    PROVE  \/ \A k \in Keys : Replay(wal')[k] = Replay(wal)[k]
           \/ /\ pc = "write"
              /\ \A k \in Keys : Replay(wal')[k] =
                    IF k = entry.key THEN entry.value ELSE Replay(wal)[k]
           \/ pc = "truncate" /\ Replay(wal') = Empty
<1>1. CASE wal' = wal
  BY <1>1
<1>2. CASE wal' = Append(wal, Torn)
  <2>1. Torn.key = Nil /\ Torn \in Record \cup {Torn}
    BY DEF Torn
  <2>2. ASSUME NEW k \in Keys
        PROVE  Replay(wal')[k] = Replay(wal)[k]
    BY <1>2, <2>1, ReplayAppend, SlotAssumption DEF Steady, TypeOK
  <2> QED
    BY <2>2
<1>3. CASE pc = "write" /\ wal' = Append(wal, entry)
  <2>1. entry \in Record \cup {Torn}
    BY <1>3 DEF Steady, TypeOK
  <2>2. ASSUME NEW k \in Keys
        PROVE  Replay(wal')[k] =
                  IF k = entry.key THEN entry.value ELSE Replay(wal)[k]
    BY <1>3, <2>1, ReplayAppend DEF Steady, TypeOK
  <2> QED
    BY <1>3, <2>2
<1>4. CASE pc = "truncate" /\ wal' = <<>>
  BY <1>4, ReplayEmpty
<1> QED
  BY <1>1, <1>2, <1>3, <1>4

(* A failed operation changes no answer; the entry of a failed write may be
   in doubt from here on, and nothing is if the log was emptied. *)
LEMMA FailStep ==
    ASSUME Steady, ClockForward, pc # "remove", Fail
    PROVE  /\ Rest' /\ ShownStays
           /\ \/ \A k \in Keys : View'[k] = View[k] => Doubt(k)' = Doubt(k)
              \/ /\ pc = "write"
                 /\ \A k \in Keys : View'[k] = View[k] =>
                       IF k = entry.key THEN Doubt(k)' \subseteq {ValueOf(entry.value)}
                       ELSE Doubt(k)' = Doubt(k)
              \/ /\ pc = "truncate"
                 /\ \A k \in Keys : Doubt(k)' = {}
<1>1. /\ pc \notin {"remove", "down"} /\ pc' = "idle"
      /\ UNCHANGED memtable /\ merged' = Empty /\ Interrupted
  BY FaultAssumption DEF Fail, DropCompaction
<1>2. /\ \A k \in Keys : memtable[k] = Nil /\ ~Hidden(k) =>
            /\ ScanEntry(sstables', k) = TableEntry(sstables', k)
            /\ TableEntry(sstables', k) = TableEntry(sstables, k)
      /\ \/ wal' = wal
         \/ pc = "write" /\ wal' \in {Append(wal, Torn), Append(wal, entry)}
         \/ pc = "truncate" /\ wal' = <<>>
  BY <1>1, InterruptedKeeps
<1>3. \/ \A k \in Keys : Replay(wal')[k] = Replay(wal)[k]
      \/ /\ pc = "write"
         /\ \A k \in Keys : Replay(wal')[k] =
               IF k = entry.key THEN entry.value ELSE Replay(wal)[k]
      \/ pc = "truncate" /\ Replay(wal') = Empty
  BY <1>2, InterruptedLog
<1>4. /\ Memory = memtable /\ Memory' = memtable
      /\ Tables = sstables /\ Tables' = sstables'
  BY <1>1 DEF Memory, Tables
<1>6. ShownStays
  BY <1>2, <1>4 DEF ShownStays, Hidden, View, Lookup
<1>7. Flushed' /\ Compacting'
  BY <1>1 DEF Flushed, Compacting
<1>8. pc = "write" => entry \in Record /\ entry.value # Nil
  BY SlotAssumption DEF Steady, TypeOK, Record
<1>a. pc = "truncate" => \A k \in Keys : memtable[k] = Nil
  BY DEF Steady, Flushed, Empty
<1>9. Logged'
  BY <1>1, <1>3, <1>8, <1>a DEF Steady, Logged
<1>10. CASE \A k \in Keys : Replay(wal')[k] = Replay(wal)[k]
  BY <1>1, <1>6, <1>7, <1>9, <1>10 DEF Rest, Doubt
<1>11. CASE /\ pc = "write"
            /\ \A k \in Keys : Replay(wal')[k] =
                  IF k = entry.key THEN entry.value ELSE Replay(wal)[k]
  <2>1. ASSUME NEW k \in Keys, View'[k] = View[k]
        PROVE  IF k = entry.key THEN Doubt(k)' \subseteq {ValueOf(entry.value)}
               ELSE Doubt(k)' = Doubt(k)
    BY <1>1, <1>11, <2>1 DEF Doubt
  <2> QED
    BY <1>6, <1>7, <1>9, <1>11, <2>1 DEF Rest
<1>12. CASE pc = "truncate" /\ Replay(wal') = Empty
  <2>1. \A k \in Keys : Doubt(k)' = {}
    BY <1>12 DEF Doubt, Empty
  <2> QED
    BY <1>6, <1>7, <1>9, <1>12, <2>1 DEF Rest
<1> QED
  BY <1>3, <1>10, <1>11, <1>12

(* When the process ends, a key answers as before, or with a write in doubt,
   or with the write that was under way. *)
LEMMA ProcessEnds ==
    ASSUME Steady, ClockForward, pc \notin {"remove", "down"}, Interrupted,
           pc' = "down", memtable' = Empty, merged' = Empty
    PROVE  /\ Rest'
           /\ \A k \in Keys : Doubt(k)' = {}
           /\ \A k \in Keys : ~Hidden(k) =>
                 /\ ~Hidden(k)'
                 /\ \/ View'[k] = View[k]
                    \/ View'[k] \in Doubt(k)
                    \/ /\ pc = "write" /\ k = entry.key
                       /\ View'[k] = ValueOf(entry.value)
                 /\ Replay(wal')[k] = Nil => memtable[k] = Nil /\ View'[k] = View[k]
<1>1. /\ pc \notin {"remove", "down"} /\ pc' = "down"
      /\ memtable' = Empty /\ merged' = Empty /\ Interrupted
  OBVIOUS
<1>2. /\ \A k \in Keys : memtable[k] = Nil /\ ~Hidden(k) =>
            /\ ScanEntry(sstables', k) = TableEntry(sstables', k)
            /\ TableEntry(sstables', k) = TableEntry(sstables, k)
      /\ \/ wal' = wal
         \/ pc = "write" /\ wal' \in {Append(wal, Torn), Append(wal, entry)}
         \/ pc = "truncate" /\ wal' = <<>>
  BY <1>1, InterruptedKeeps
<1>3. \/ \A k \in Keys : Replay(wal')[k] = Replay(wal)[k]
      \/ /\ pc = "write"
         /\ \A k \in Keys : Replay(wal')[k] =
               IF k = entry.key THEN entry.value ELSE Replay(wal)[k]
      \/ pc = "truncate" /\ Replay(wal') = Empty
  BY <1>2, InterruptedLog
<1>a. pc = "truncate" => \A k \in Keys : memtable[k] = Nil
  BY DEF Steady, Flushed, Empty
<1>4. /\ Memory = memtable /\ Memory' = Replay(wal')
      /\ Tables = sstables /\ Tables' = sstables'
  BY <1>1 DEF Memory, Tables
<1>5. pc = "write" => entry \in Record /\ entry.value # Nil
  BY SlotAssumption DEF Steady, TypeOK, Record
<1>6. ASSUME NEW k \in Keys, Replay(wal')[k] = Nil
      PROVE  memtable[k] = Nil
  BY <1>1, <1>3, <1>5, <1>6, <1>a DEF Steady, Logged
<1>7. ASSUME NEW k \in Keys, ~Hidden(k)
      PROVE  \/ View'[k] = View[k]
             \/ View'[k] \in Doubt(k)
             \/ /\ pc = "write" /\ k = entry.key
                /\ View'[k] = ValueOf(entry.value)
  <2>1. View'[k] = ValueOf(IF Replay(wal')[k] # Nil THEN Replay(wal')[k]
                           ELSE TableEntry(sstables', k))
    BY <1>4 DEF View, Lookup
  <2>2. CASE Replay(wal')[k] = Nil
    BY <1>2, <1>4, <1>6, <1>7, <2>1, <2>2, ViewAt
  <2>3. CASE Replay(wal')[k] # Nil /\ Replay(wal')[k] = Replay(wal)[k]
    BY <1>1, <2>1, <2>3 DEF Doubt
  <2>4. CASE Replay(wal')[k] # Nil /\ Replay(wal')[k] # Replay(wal)[k]
    BY <1>3, <2>1, <2>4 DEF Empty
  <2> QED
    BY <2>2, <2>3, <2>4
<1>11. ASSUME NEW k \in Keys, ~Hidden(k), Replay(wal')[k] = Nil
       PROVE  memtable[k] = Nil /\ View'[k] = View[k]
  BY <1>2, <1>4, <1>6, <1>11, ViewAt DEF View, Lookup
<1>8. \A k \in Keys : ~Hidden(k) => ~Hidden(k)'
  BY <1>2, <1>4, <1>6 DEF Hidden
<1>9. Logged' /\ Flushed' /\ Compacting'
  BY <1>1 DEF Logged, Flushed, Compacting
<1>10. \A k \in Keys : Doubt(k)' = {}
  BY <1>1 DEF Doubt
<1> QED
  BY <1>7, <1>8, <1>9, <1>10, <1>11 DEF Rest

LEMMA CrashStep ==
    ASSUME Steady, ClockForward, pc # "remove", Crash
    PROVE  /\ Rest'
           /\ \A k \in Keys : Doubt(k)' = {}
           /\ \A k \in Keys : ~Hidden(k) =>
                 /\ ~Hidden(k)'
                 /\ \/ View'[k] = View[k]
                    \/ View'[k] \in Doubt(k)
                    \/ /\ pc = "write" /\ k = entry.key
                       /\ View'[k] = ValueOf(entry.value)
<1>1. /\ pc \notin {"remove", "down"} /\ pc' = "down"
      /\ memtable' = Empty /\ merged' = Empty /\ Interrupted
  BY FaultAssumption DEF Crash, DropCompaction
<1> QED
  BY <1>1, ProcessEnds

(* A boot that can read the log reads all of it. *)
LEMMA OpenReads ==
    ASSUME TypeOK, "replay" \notin FailAt, Open
    PROVE  memtable' = Replay(wal)
<1>1. PICK n \in ReadBack : memtable' = Replay(SubSeq(wal, 1, n))
  BY DEF Open
<1>2. n = Len(wal)
  BY DEF ReadBack
<1>3. SubSeq(wal, 1, Len(wal)) = wal
  BY SubSeqFull DEF TypeOK
<1> QED
  BY <1>1, <1>2, <1>3

(* A boot that can read the log answers what the log and the tables hold. *)
LEMMA OpenStep ==
    ASSUME Steady, "replay" \notin FailAt, Open
    PROVE  Rest' /\ ShownStays /\ AnswersStay /\ DoubtStays
<1>1. /\ pc = "down" /\ pc' = "idle" /\ merged = Empty
      /\ UNCHANGED <<wal, sstables, doomed, todo, merged>>
  BY DEF Open, compactVars, Steady, Flushed
<1>2. memtable' = Replay(wal)
  BY OpenReads DEF Steady
<1>3. /\ Memory = Replay(wal) /\ Memory' = Replay(wal)
      /\ Tables = sstables /\ Tables' = sstables
  BY <1>1, <1>2 DEF Memory, Tables
<1>4. View' = View
  BY <1>3 DEF View
<1>5. ShownStays
  BY <1>3, <1>4 DEF ShownStays, Hidden
<1>6. Logged' /\ Flushed' /\ Compacting'
  BY <1>1, <1>2 DEF Logged, Flushed, Compacting
<1>7. ASSUME NEW k \in Keys
      PROVE  Doubt(k)' = {} /\ Doubt(k) = {}
  <2>1. Replay(wal)[k] # Nil => View[k] = ValueOf(Replay(wal)[k])
    BY <1>3, ViewAt
  <2> QED
    BY <1>1, <1>4, <2>1 DEF Doubt
<1> QED
  BY <1>4, <1>5, <1>6, <1>7 DEF Rest, AnswersStay, DoubtStays

----------------------------------------------------------------------------
(* The invariant. *)

LEMMA SteadyInit == Init => Steady
<1> SUFFICES ASSUME Init PROVE Steady
  OBVIOUS
<1>1. TypeOK
  BY TypeOKInit
<1>2. Logged /\ Flushed /\ Compacting
  BY DEF Init, Logged, Flushed, Compacting, Empty
<1> QED
  BY <1>1, <1>2 DEF Steady

(* A removal that is cut off. *)
LEMMA CutRemoval ==
    ASSUME Steady, pc = "remove", Crash \/ Fail
    PROVE  /\ Rest'
           /\ memtable = Empty /\ memtable' = Empty
           /\ pc' \in {"down", "idle"} /\ UNCHANGED <<wal, sstables>>
<1>1. /\ memtable = Empty /\ memtable' = Empty /\ merged' = Empty
      /\ pc' \in {"down", "idle"} /\ UNCHANGED <<wal, sstables>>
  BY DEF Crash, Fail, Interrupted, DropCompaction, Steady, Flushed
<1>2. Logged' /\ Flushed' /\ Compacting'
  BY <1>1 DEF Logged, Flushed, Compacting, Empty
<1> QED
  BY <1>1, <1>2 DEF Rest

(* The merged tables decide every key that has a value, with the originals
   beside them or without. *)
LEMMA CutRemovalKeepsLive ==
    ASSUME Steady, pc = "remove", Crash \/ Fail,
           NEW k \in Keys, View[k] # Nil, Doubt(k) = {}
    PROVE  View'[k] = View[k]
<1> DEFINE Out == Restrict(sstables, DOMAIN sstables \ doomed)
<1>1. /\ memtable = Empty /\ memtable' = Empty
      /\ pc' \in {"down", "idle"} /\ UNCHANGED <<wal, sstables>>
  BY CutRemoval
<1>2. /\ Memory = Empty /\ Tables = Out /\ Tables' = sstables
      /\ Memory' \in {Empty, Replay(wal)}
  BY <1>1 DEF Memory, Tables
<1>3. View[k] = ValueOf(TableEntry(Out, k))
  BY <1>2, ViewAt DEF Empty
<1>4. TableEntry(Out, k) # Nil
  BY <1>3 DEF ValueOf
<1>5. TableEntry(sstables, k) = TableEntry(Out, k)
  <2>1. clock \in Nat /\ IsTables(sstables, clock) /\ doomed \in SUBSET DOMAIN sstables
    BY DEF Steady, TypeOK, IsTables
  <2>2. \A n \in DOMAIN sstables \ doomed, m \in doomed : m < n
    BY DEF Steady, Compacting, OutputsNewer
  <2> QED
    BY <1>4, <2>1, <2>2, NewerAnswer
<1>6. Replay(wal)[k] # Nil => ValueOf(Replay(wal)[k]) = View[k]
  BY DEF Doubt
<1>7. View'[k] = ValueOf(IF Memory'[k] # Nil THEN Memory'[k]
                         ELSE TableEntry(sstables, k))
  BY <1>1, <1>2 DEF View, Lookup
<1> QED
  BY <1>2, <1>3, <1>5, <1>6, <1>7 DEF Empty

LEMMA SteadyStep ==
    ASSUME Steady, RemovalsMayFail, [Next]_vars
    PROVE  Steady'
<1>1. TypeOK'
  BY TypeOKStep DEF Steady, RemovalsMayFail
<1>2. Rest'
  <2>1. ASSUME NEW k \in Keys, NEW v \in Values, ExecuteSet(k, v)
        PROVE  Rest'
    BY <2>1, QuietStep DEF ExecuteSet, compactVars
  <2>2. ASSUME NEW k \in Keys, ExecuteDelete(k) \/ ExecuteDeleteMiss(k)
        PROVE  Rest'
    BY <2>2, QuietStep
    DEF ExecuteDelete, ExecuteDeleteMiss, MaybeFlush, compactVars
  <2>3. CASE Proceed
    BY <1>1, <2>3, WriteStep, FlushStep, TruncateStep, MergeStepKeeps,
       SpillStep, RemoveStep DEF Proceed, RemovalsMayFail
  <2>4. CASE Crash
    BY <2>4, CrashStep, CutRemoval DEF RemovalsMayFail
  <2>5. CASE Fail
    BY <2>5, FailStep, CutRemoval DEF RemovalsMayFail
  <2>6. CASE Open
    BY <2>6, OpenStep DEF RemovalsMayFail
  <2>7. CASE UNCHANGED vars
    BY <2>7 DEF vars, Rest, Steady, Logged, Flushed, Compacting
  <2> QED
    BY <2>1, <2>2, <2>3, <2>4, <2>5, <2>6, <2>7 DEF Next
<1> QED
  BY <1>1, <1>2 DEF Steady, Rest

(* Even if removals are cut off, the log can rebuild the memtable and what a
   compaction has written is right so far (Log, compact). *)
THEOREM SteadyHolds == RemovalsMayFail => (Spec => []Steady)
<1> SUFFICES ASSUME RemovalsMayFail PROVE Spec => []Steady
  OBVIOUS
<1>1. Steady /\ [Next]_vars => Steady'
  BY SteadyStep
<1> QED
  BY SteadyInit, <1>1, PTL DEF Spec

(* What every step but a write and a removal that is cut off does to a key
   that no filter hides an entry of. *)
LEMMA OtherStepsShow ==
    ASSUME Steady, TypeOK', RemovalsMayFail, [Next]_vars,
           ~Write, ~Crash, pc # "remove" \/ ~Fail
    PROVE  ShownStays
<1>1. ASSUME NEW k \in Keys, NEW v \in Values, ExecuteSet(k, v)
      PROVE  ShownStays
  BY <1>1, QuietStep DEF ExecuteSet, compactVars
<1>2. ASSUME NEW k \in Keys, ExecuteDelete(k) \/ ExecuteDeleteMiss(k)
      PROVE  ShownStays
  BY <1>2, QuietStep
  DEF ExecuteDelete, ExecuteDeleteMiss, MaybeFlush, compactVars
<1>3. CASE Proceed
  BY <1>3, FlushStep, TruncateStep, MergeStepKeeps, SpillStep, RemoveStep
  DEF Proceed, RemovalsMayFail
<1>4. CASE Fail
  BY <1>4, FailStep DEF RemovalsMayFail
<1>5. CASE Open
  BY <1>5, OpenStep DEF RemovalsMayFail
<1>6. CASE UNCHANGED vars
  BY <1>6 DEF vars, ShownStays, Hidden, View, Memory, Tables
<1> QED
  BY <1>1, <1>2, <1>3, <1>4, <1>5, <1>6 DEF Next

LEMMA InductiveInit == Init => Inductive
<1> SUFFICES ASSUME Init PROVE Inductive
  OBVIOUS
<1>1. DOMAIN Tables = {}
  BY DEF Init, Tables
<1>2. FilterHidesNothing
  BY <1>1, CompleteAgrees DEF FilterHidesNothing, Hidden
<1> QED
  BY <1>2, SteadyInit DEF Inductive

LEMMA InductiveStep ==
    ASSUME Inductive, SafeEnvironment, [Next]_vars
    PROVE  Inductive'
<1>1. RemovalsMayFail /\ Steady
  BY DEF SafeEnvironment, RemovalsMayFail, Inductive
<1>2. Steady'
  BY <1>1, SteadyStep
<1>3. ASSUME Write PROVE FilterHidesNothing'
  BY <1>1, <1>3, WriteStep DEF Inductive, FilterHidesNothing
<1>4. ASSUME Crash PROVE FilterHidesNothing'
  <2>1. pc # "remove"
    BY <1>4 DEF Crash, SafeEnvironment
  <2> QED
    BY <1>1, <1>4, <2>1, CrashStep DEF Inductive, FilterHidesNothing, SafeEnvironment
<1>5. ASSUME ~Write /\ ~Crash PROVE FilterHidesNothing'
  <2>1. pc # "remove" \/ ~Fail
    BY DEF Fail, SafeEnvironment
  <2>2. ShownStays
    BY <1>1, <1>2, <1>5, <2>1, OtherStepsShow DEF Steady
  <2> QED
    BY <2>2, AllShown DEF Inductive
<1>6. FilterHidesNothing'
  BY <1>3, <1>4, <1>5
<1> QED
  BY <1>2, <1>6 DEF Inductive

(* In a safe environment every reachable state has the invariant: what the
   memtable holds can be rebuilt from the log, a torn table hides nothing,
   and what a compaction has written is right so far. *)
THEOREM InductiveHolds == SafeEnvironment => (Spec => []Inductive)
<1> SUFFICES ASSUME SafeEnvironment PROVE Spec => []Inductive
  OBVIOUS
<1>1. Inductive /\ [Next]_vars => Inductive'
  BY InductiveStep
<1> QED
  BY InductiveInit, <1>1, PTL DEF Spec

(* A lookup, which asks the Bloom filters, and a compaction, which does not,
   find the same entry for every key that is not in memory (get, compact). *)
THEOREM FiltersHideNothing == SafeEnvironment => (Spec => []FilterHidesNothing)
<1>1. Inductive => FilterHidesNothing
  BY DEF Inductive
<1> QED
  BY InductiveHolds, <1>1, PTL

----------------------------------------------------------------------------
(* The engine implements the contract. *)

Pending == IF entry = Nil THEN Nil
           ELSE [key |-> entry.key, value |-> ValueOf(entry.value)]

Doubts == [k \in Keys |-> Doubt(k)]

LEMMA AnswerTypes ==
    TypeOK => /\ View \in [Keys -> Values \cup {Nil}]
              /\ Doubts \in [Keys -> SUBSET (Values \cup {Nil})]
<1> SUFFICES ASSUME TypeOK
             PROVE  /\ View \in [Keys -> Values \cup {Nil}]
                    /\ Doubts \in [Keys -> SUBSET (Values \cup {Nil})]
  OBVIOUS
<1>1. clock \in Nat /\ IsTables(sstables, clock)
  BY DEF TypeOK, IsTables
<1>2. IsTables(Tables, clock)
  BY <1>1, RestrictIs DEF Tables
<1>3. Memory \in [Keys -> Slot] /\ Replay(wal) \in [Keys -> Slot]
  BY ReplayType DEF Memory, TypeOK
<1>4. \A s \in Slot : ValueOf(s) \in Values \cup {Nil}
  BY DEF ValueOf, Slot
<1>5. ASSUME NEW k \in Keys
      PROVE  View[k] \in Values \cup {Nil}
    BY <1>1, <1>2, <1>3, <1>4, ViewAt, EntryTypes
<1>6. ASSUME NEW k \in Keys
      PROVE  Doubt(k) \in SUBSET (Values \cup {Nil})
  BY <1>3, <1>4 DEF Doubt
<1> QED
  BY <1>5, <1>6 DEF View, Doubts

(* Steps the contract does not see, or only as doubts being settled. *)
LEMMA Unseen ==
    ASSUME TypeOK', AnswersStay, Pending' = Pending,
           \A k \in Keys : Doubt(k)' \subseteq Doubt(k)
    PROVE  Contract!Settle
<1>1. Doubts' \in [Keys -> SUBSET Contract!Answers]
  <2>1. TypeOK' => (View \in [Keys -> Values \cup {Nil}]
                     /\ Doubts \in [Keys -> SUBSET (Values \cup {Nil})])'
    BY AnswerTypes, PTL
  <2> QED
    BY <2>1 DEF Contract!Answers
<1>2. \A k \in Keys : Doubts'[k] \subseteq Doubts[k]
  BY DEF Doubts
<1> QED
  BY <1>1, <1>2 DEF Contract!Settle, AnswersStay, Pending, Doubts

LEMMA RefinementInit == Init => Contract!Init
<1> SUFFICES ASSUME Init PROVE Contract!Init
  OBVIOUS
<1>1. Memory = Empty /\ DOMAIN Tables = {} /\ Replay(wal) = Empty
  BY ReplayEmpty DEF Init, Memory, Tables
<1>2. ASSUME NEW k \in Keys
      PROVE  View[k] = Nil /\ Doubt(k) = {}
  <2>1. TableEntry(Tables, k) = Nil
    BY <1>1 DEF TableEntry, NewestEntry, Holding
  <2>2. View[k] = Nil
    BY <1>1, <2>1, ViewAt DEF Empty, ValueOf
  <2> QED
    BY <1>1, <2>2 DEF Doubt, Empty
<1>3. entry = Nil
  BY DEF Init
<1> QED
  BY <1>2, <1>3 DEF Contract!Init, View

LEMMA RefinementStep ==
    ASSUME Inductive, Inductive', SafeEnvironment, [Next]_vars
    PROVE  [Contract!Next]_Contract!kvVars
<1>a. /\ Steady /\ FilterHidesNothing /\ TypeOK' /\ RemovalsMayFail /\ ClockForward
      /\ ~Write /\ ~Crash => AnswersStay
  <2>1. /\ Steady /\ FilterHidesNothing /\ TypeOK' /\ RemovalsMayFail /\ ClockForward
        /\ pc # "remove" \/ ~Fail
    BY DEF Inductive, Steady, SafeEnvironment, RemovalsMayFail, Fail
  <2>2. ASSUME ~Write, ~Crash PROVE AnswersStay
    BY <2>1, <2>2, OtherStepsShow, AllShown
  <2> QED
    BY <2>1, <2>2
<1> USE <1>a DEF Contract!Next
<1>1. ASSUME NEW k \in Keys, NEW v \in Values, ExecuteSet(k, v)
      PROVE  Contract!Begin(k, v)
  <2>1. AnswersStay /\ DoubtStays
    BY <1>1, QuietStep DEF ExecuteSet, compactVars
  <2>2. entry = Nil /\ entry' = [key |-> k, value |-> v] /\ entry' # Nil
    BY <1>1 DEF ExecuteSet, Steady, TypeOK
  <2>3. v # Nil /\ ValueOf(v) = v
    BY SlotAssumption DEF ValueOf
  <2> QED
    BY <2>1, <2>2, <2>3 DEF Contract!Begin, AnswersStay, DoubtStays
<1>2. ASSUME NEW k \in Keys, ExecuteDelete(k)
      PROVE  Contract!Begin(k, Nil)
  <2>1. AnswersStay /\ DoubtStays
    BY <1>2, QuietStep DEF ExecuteDelete, compactVars
  <2>2. /\ entry = Nil /\ entry' = [key |-> k, value |-> Tombstone]
        /\ entry' # Nil
    BY <1>2 DEF ExecuteDelete, Steady, TypeOK
  <2>3. ValueOf(Tombstone) = Nil
    BY DEF ValueOf
  <2>4. View[k] # Nil
    BY <1>2 DEF ExecuteDelete, Get, View, Memory, Tables
  <2> QED
    BY <2>1, <2>2, <2>3, <2>4 DEF Contract!Begin, AnswersStay, DoubtStays
<1>3. ASSUME NEW k \in Keys, ExecuteDeleteMiss(k)
      PROVE  Contract!Settle
  <2>1. AnswersStay /\ DoubtStays
    BY <1>3, QuietStep DEF ExecuteDeleteMiss, MaybeFlush, compactVars
  <2>2. Pending' = Pending
    BY <1>3 DEF ExecuteDeleteMiss, Pending
  <2> QED
    BY <2>1, <2>2, Unseen DEF DoubtStays
<1>4. CASE Write
  <2>1. /\ View' = [View EXCEPT ![entry.key] = ValueOf(entry.value)]
        /\ \A k \in Keys :
              Doubt(k)' = IF k = entry.key THEN {} ELSE Doubt(k)
    BY <1>4, WriteStep
  <2>2. entry \in Record /\ entry # Nil /\ entry.key \in Keys /\ entry' = Nil
    BY <1>4 DEF Write, Steady, TypeOK, Record
  <2>3. [key |-> entry.key, value |-> ValueOf(entry.value)] # Nil
    <3>1. ValueOf(entry.value) \in Values \cup {Tombstone, Nil}
      BY <2>2 DEF Record, ValueOf
    <3> QED
      BY <2>2, <3>1, SlotAssumption
  <2> QED
    BY <2>1, <2>2, <2>3 DEF Contract!Commit
<1>5. CASE FlushTable \/ Merge \/ Spill \/ Remove
  <2>1. AnswersStay /\ DoubtStays
    <3>1. AnswersStay /\ UNCHANGED wal /\ pc # "down" /\ pc' # "down"
      BY <1>5 DEF Write, FlushTable, Merge, MergeStep, Spill, Remove, Crash
    <3> QED
      BY <3>1, DoubtFollows
  <2>2. entry' = entry
    BY <1>5 DEF FlushTable, Merge, Spill, Remove
  <2> QED
    BY <2>1, <2>2, Unseen DEF DoubtStays, Pending
<1>6. CASE Truncate
  <2>1. AnswersStay /\ \A k \in Keys : Doubt(k)' = {}
    BY <1>6, TruncateStep DEF Truncate, Write, Crash, StartCompaction, MergeStep
  <2>2. entry' = entry
    BY <1>6 DEF Truncate, StartCompaction
  <2> QED
    BY <2>1, <2>2, Unseen DEF Pending
<1>7. CASE Crash
  <2>1. \A k \in Keys :
           /\ Doubt(k)' = {}
           /\ \/ View'[k] = View[k]
              \/ View'[k] \in Doubt(k)
              \/ /\ pc = "write" /\ k = entry.key
                 /\ View'[k] = ValueOf(entry.value)
    BY <1>7, CrashStep DEF Crash, SafeEnvironment, FilterHidesNothing
  <2>2. entry' = Nil
    BY <1>7 DEF Crash
  <2>3. View' \in [Keys -> Contract!Answers]
    <3>1. TypeOK' => (View \in [Keys -> Values \cup {Nil}]
                       /\ Doubts \in [Keys -> SUBSET (Values \cup {Nil})])'
      BY AnswerTypes, PTL
    <3> QED
      BY <3>1 DEF Contract!Answers
  <2>4. pc = "write" => entry # Nil /\ Pending # Nil /\ Pending.key = entry.key
                          /\ Pending.value = ValueOf(entry.value)
    <3> SUFFICES ASSUME pc = "write"
                 PROVE  entry # Nil /\ Pending # Nil /\ Pending.key = entry.key
                          /\ Pending.value = ValueOf(entry.value)
      OBVIOUS
    <3>1. entry # Nil /\ entry \in Record
      BY DEF Steady, TypeOK
    <3>2. ValueOf(entry.value) \in Values \cup {Tombstone, Nil}
      BY <3>1 DEF Record, ValueOf
    <3>3. [key |-> entry.key, value |-> ValueOf(entry.value)] # Nil
      BY <3>1, <3>2, SlotAssumption DEF Record
    <3> QED
      BY <3>1, <3>3 DEF Pending
  <2>5. ASSUME NEW k \in Keys
        PROVE  View'[k] \in Contract!Survivors(k)
    BY <2>1, <2>4 DEF Contract!Survivors, Pending, Doubts
  <2> QED
    BY <2>1, <2>2, <2>3, <2>5 DEF Contract!Crash
<1>8. CASE Fail
  <2>1. /\ AnswersStay
        /\ \/ DoubtStays
           \/ /\ pc = "write"
              /\ \A k \in Keys :
                    IF k = entry.key THEN Doubt(k)' \subseteq {ValueOf(entry.value)}
                    ELSE Doubt(k)' = Doubt(k)
           \/ pc = "truncate" /\ \A k \in Keys : Doubt(k)' = {}
    <3>1. pc # "remove" /\ AnswersStay
      BY <1>8, FailStep, AllShown DEF Fail, SafeEnvironment
    <3> QED
      BY <1>8, <3>1, FailStep DEF AnswersStay, DoubtStays
  <2>2. entry' = Nil
    BY <1>8 DEF Fail
  <2>3. CASE pc = "write"
    <3>1. entry # Nil /\ entry \in Record /\ entry.key \in Keys
      BY <2>3 DEF Steady, TypeOK, Record
    <3>2. PICK key \in Keys : key = entry.key
      BY <3>1
    <3> DEFINE left == Doubt(key)'
    <3>3. ValueOf(entry.value) \in Values \cup {Tombstone, Nil}
      BY <3>1 DEF Record, ValueOf
    <3>4. [key |-> entry.key, value |-> ValueOf(entry.value)] # Nil
      BY <3>1, <3>3, SlotAssumption DEF Record
    <3>5. /\ left \in SUBSET (Doubt(key) \cup {ValueOf(entry.value)})
          /\ \A k \in Keys \ {key} : Doubt(k)' = Doubt(k)
      BY <2>1, <2>3, <3>1, <3>2 DEF DoubtStays
    <3> HIDE DEF left
    <3>6. Doubts' = [Doubts EXCEPT ![key] = left]
      BY <3>1, <3>5 DEF Doubts, left
    <3>7. Contract!Refuse
      BY <2>1, <2>2, <3>1, <3>4, <3>5, <3>6, <3>2
      DEF Contract!Refuse, AnswersStay, Doubts
    <3> QED
      BY <3>7
  <2>4. CASE pc # "write"
    <3>1. entry = Nil
      BY <2>4 DEF Steady, TypeOK
    <3>2. AnswersStay /\ \A k \in Keys : Doubt(k)' \subseteq Doubt(k)
      BY <2>1, <2>4 DEF DoubtStays
    <3> QED
      BY <2>2, <3>1, <3>2, Unseen DEF Pending
  <2> QED
    BY <2>3, <2>4
<1>9. CASE Open
  <2>1. AnswersStay /\ DoubtStays
    BY <1>9, OpenStep DEF RemovalsMayFail
  <2>2. entry' = entry
    BY <1>9 DEF Open
  <2> QED
    BY <2>1, <2>2, Unseen DEF DoubtStays, Pending
<1>10. CASE UNCHANGED vars
  <2>1. View' = View /\ entry' = entry
    BY <1>10 DEF vars, View, Memory, Tables
  <2>2. \A k \in Keys : Doubt(k)' = Doubt(k)
    BY <1>10, <2>1 DEF vars, Doubt
  <2> QED
    BY <2>1, <2>2 DEF Contract!kvVars
<1> QED
  BY <1>1, <1>2, <1>3, <1>4, <1>5, <1>6, <1>7, <1>8, <1>9, <1>10
  DEF Next, Proceed, Contract!Answers

(* The engine keeps the store's contract: with a clock that moves forward,
   removals that are not cut off and a log that can be read, accepted writes
   survive crashes, torn files and I/O errors at every other point, nothing
   is invented, and a failed write surfaces at a restart or never
   (Log::write, get, flush, compact, new). *)
THEOREM Refinement == SafeEnvironment => (Spec => ImplementsKVStore)
<1> SUFFICES ASSUME SafeEnvironment PROVE Spec => ImplementsKVStore
  OBVIOUS
<1>1. Inductive /\ Inductive' /\ [Next]_vars => [Contract!Next]_Contract!kvVars
  BY RefinementStep
<1> QED
  BY RefinementInit, InductiveHolds, <1>1, PTL
  DEF Spec, ImplementsKVStore, Contract!Spec

----------------------------------------------------------------------------
LEMMA StepKeepsAnswers ==
    ASSUME Inductive, SafeEnvironment, [Next]_vars, pc # "write", pc' # "down"
    PROVE  View' = View
<1>1. ~Write /\ ~Crash /\ (pc # "remove" \/ ~Fail)
  BY DEF Write, Crash, Fail, SafeEnvironment
<1>2. Steady /\ FilterHidesNothing /\ TypeOK' /\ RemovalsMayFail
  BY InductiveStep DEF Inductive, Steady, SafeEnvironment, RemovalsMayFail
<1> QED
  BY <1>1, <1>2, OtherStepsShow, AllShown DEF AnswersStay

(* A flush, a compaction, a failed disk operation, a start and a command that
   has not written yet leave every answer as it is (flush, compact, new). *)
THEOREM AnswersChangeByWrites ==
    SafeEnvironment => (Spec => OnlyWritesChangeAnswers)
<1> SUFFICES ASSUME SafeEnvironment PROVE Spec => OnlyWritesChangeAnswers
  OBVIOUS
<1>1. ASSUME Inductive, [Next]_vars
      PROVE  [pc # "write" /\ pc' # "down" => View' = View]_vars
  BY <1>1, StepKeepsAnswers
<1> QED
  BY InductiveHolds, <1>1, PTL DEF Spec, OnlyWritesChangeAnswers

(* As long as no compaction is cut off among its removals a deleted key stays
   deleted, through every other crash and error (compact, get). *)
THEOREM DeletedStaysDeleted == SafeEnvironment => (Spec => NoResurrection)
<1> SUFFICES ASSUME SafeEnvironment PROVE Spec => NoResurrection
  OBVIOUS
<1> DEFINE Kept == \A k \in Keys :
                      View[k] = Nil /\ View'[k] # Nil =>
                          \/ pc = "write" /\ k = entry.key
                          \/ Doubt(k) # {}
<1>1. ASSUME Inductive, [Next]_vars
      PROVE  [Kept]_vars
  <2>1. /\ Steady /\ FilterHidesNothing /\ TypeOK' /\ RemovalsMayFail /\ ClockForward
        /\ pc # "remove" \/ ~(Crash \/ Fail)
    BY <1>1, InductiveStep
    DEF Inductive, Steady, SafeEnvironment, RemovalsMayFail, Crash, Fail
  <2>2. CASE Crash
    BY <2>1, <2>2, CrashStep DEF FilterHidesNothing
  <2>3. CASE Write
    <3>1. pc = "write" /\ View' = [View EXCEPT ![entry.key] = ValueOf(entry.value)]
      BY <2>1, <2>3, WriteStep DEF Write
    <3>2. ASSUME NEW k \in Keys, k # entry.key
          PROVE  View'[k] = View[k]
      BY <3>1, <3>2 DEF View
    <3> QED
      BY <3>1, <3>2
  <2>4. CASE ~Crash /\ ~Write
    <3>1. View' = View
      BY <1>1, <2>1, <2>4, OtherStepsShow, AllShown DEF AnswersStay
    <3> QED
      BY <3>1
  <2> QED
    BY <2>2, <2>3, <2>4
<1> QED
  BY InductiveHolds, <1>1, PTL DEF Spec, NoResurrection

(* Even if compactions are cut off among their removals, a key that has a
   value changes by a write to it, by a restart that finds a write that had
   failed, or because a torn table hid an entry of it, and by nothing else:
   when the originals start to go, the merged tables already decide every key
   that has a value (compact, Log::write). *)
THEOREM LiveKeysKept == RemovalsMayFail => (Spec => LiveKeysSurvive)
<1> SUFFICES ASSUME RemovalsMayFail PROVE Spec => LiveKeysSurvive
  OBVIOUS
<1> DEFINE Kept == \A k \in Keys :
                      View'[k] # View[k] =>
                          \/ pc = "write" /\ k = entry.key
                          \/ View[k] = Nil \/ Doubt(k) # {} \/ Hidden(k)
<1>1. ASSUME Steady, [Next]_vars
      PROVE  [Kept]_vars
  <2>1. TypeOK' /\ ClockForward
    BY <1>1, SteadyStep DEF Steady, RemovalsMayFail
  <2>2. CASE Write
    <3>1. pc = "write" /\ View' = [View EXCEPT ![entry.key] = ValueOf(entry.value)]
      BY <1>1, <2>2, WriteStep DEF Write
    <3>2. ASSUME NEW k \in Keys, k # entry.key
          PROVE  View'[k] = View[k]
      BY <3>1, <3>2 DEF View
    <3> QED
      BY <3>1, <3>2
  <2>3. CASE Crash /\ pc # "remove"
    BY <1>1, <2>1, <2>3, CrashStep
  <2>4. CASE pc = "remove" /\ (Crash \/ Fail)
    BY <1>1, <2>4, CutRemovalKeepsLive
  <2>5. CASE ~Write /\ ~Crash /\ (pc # "remove" \/ ~Fail)
    BY <1>1, <2>1, <2>5, OtherStepsShow DEF ShownStays
  <2> QED
    BY <2>2, <2>3, <2>4, <2>5
<1> QED
  BY SteadyHolds, <1>1, PTL DEF Spec, LiveKeysSurvive
=============================================================================
