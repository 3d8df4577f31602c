------------------------------ MODULE WalProofs ------------------------------
(***************************************************************************)
(* What a replay of the log finds, and the memtable that it makes, for any *)
(* number of records of any length, cut off and damaged in any way.        *)
(***************************************************************************)
EXTENDS LoggedMemTable, HeaderProofs, FiniteSetTheorems

(* Records, or their beginnings, of which some bytes have changed. *)
LogCell == RecordCells \cup {Bad}

IsFile(f) == f \in Seq(LogCell)

(* What has been written: the records in ascending order, none of them later
   than the last, and the last cell of one only if its append was whole. *)
Written ==
    /\ IsFile(file)
    /\ last \in Nat /\ \A r \in whole : r <= last
    /\ whole \in SUBSET Ids
    /\ Ascending(file)
    /\ \A i \in DOMAIN file, r \in Ids, n \in Nat :
          IsCell(file, i, r, n) => r <= last /\ (n = RecLen[r] => r \in whole)

(* What a replay has returned: whole records in ascending order, and before
   any that is to come. *)
Returned ==
    /\ replay \in {"off", "on", "done"}
    /\ cursor \in 0 .. Len(file)
    /\ out \in Seq(whole)
    /\ \A i, j \in DOMAIN out : i < j => out[i] < out[j]
    /\ replay = "on" =>
          \A p \in Nat, r \in Ids :
             cursor <= p /\ IntactAt(file, p, r) => \A i \in DOMAIN out : out[i] < r

WalInv == Written /\ Returned

LEMMA IdsAreNaturals == Ids \subseteq Nat
BY WalAssumption, FS_CardinalityType

LEMMA FileDomain ==
    ASSUME IsFile(file)
    PROVE  Len(file) \in Nat /\ DOMAIN file = 1 .. Len(file)
BY LenProperties DEF IsFile

LEMMA WalInvInit == Init => WalInv
<1> SUFFICES ASSUME Init PROVE WalInv
  OBVIOUS
<1>1. file = <<>> /\ out = <<>> /\ DOMAIN file = {} /\ DOMAIN out = {} /\ Len(file) = 0
  BY EmptySeq DEF Init
<1>2. IsFile(file) /\ out \in Seq(whole)
  BY <1>1, EmptySeq DEF IsFile
<1> QED
  BY <1>1, <1>2 DEF Init, WalInv, Written, Returned, Ascending

LEMMA LogAppend ==
    ASSUME NEW f \in Seq(LogCell), NEW l \in Ids, NEW n \in Nat, NEW tail,
           tail \in [1 .. n -> RecordCells],
           \A i \in 1 .. n : tail[i] = [rec |-> l, at |-> i]
    PROVE  /\ f \o tail \in Seq(LogCell)
           /\ DOMAIN (f \o tail) = 1 .. Len(f) + n
           /\ \A i \in DOMAIN f : (f \o tail)[i] = f[i]
           /\ \A i \in 1 .. n : (f \o tail)[Len(f) + i] = [rec |-> l, at |-> i]
BY AppendedCells DEF LogCell

(* The first cells of a record. *)
LEMMA TornTail ==
    ASSUME NEW r \in Ids, NEW n \in 0 .. RecLen[r]
    PROVE  LET tail == SubSeq(Framed(r), 1, n)
           IN  /\ tail \in [1 .. n -> RecordCells]
               /\ \A i \in 1 .. n : tail[i] = [rec |-> r, at |-> i]
<1> DEFINE tail == SubSeq(Framed(r), 1, n)
<1>1. RecLen[r] \in Nat /\ n \in Nat
  BY RecLenAssumption
<1>2. Framed(r) \in [1 .. RecLen[r] -> RecordCells]
  BY <1>1 DEF Framed, RecordCells
<1>3. tail = [i \in 1 .. n |-> Framed(r)[i]]
  BY <1>1, <1>2
<1>4. \A i \in 1 .. n : i \in 1 .. RecLen[r] /\ i \in Nat
  BY <1>1
<1>5. \A i \in 1 .. n : Framed(r)[i] = [rec |-> r, at |-> i]
  BY <1>4 DEF Framed
<1>6. \A i \in 1 .. n : [rec |-> r, at |-> i] \in RecordCells
  BY <1>4 DEF RecordCells
<1> HIDE DEF tail
<1>7. /\ tail \in [1 .. n -> RecordCells]
      /\ \A i \in 1 .. n : tail[i] = [rec |-> r, at |-> i]
  BY <1>3, <1>5, <1>6
<1> QED
  BY <1>7 DEF tail

(* The append of the next record, or of the first n cells of it. *)
LEMMA AppendKeeps ==
    ASSUME Written, last + 1 \in Ids, last' = last + 1,
           NEW n \in 0 .. RecLen[last + 1], NEW tail,
           tail \in [1 .. n -> RecordCells],
           \A i \in 1 .. n : tail[i] = [rec |-> last + 1, at |-> i],
           file' = file \o tail,
           whole' = IF n = RecLen[last + 1] THEN whole \cup {last + 1} ELSE whole
    PROVE  Written'
<1> DEFINE l == last + 1
<1>1. /\ Len(file) \in Nat /\ DOMAIN file = 1 .. Len(file)
      /\ n \in Nat /\ l \in Nat /\ l \in Ids /\ Ids \subseteq Nat
  BY FileDomain, IdsAreNaturals, RecLenAssumption DEF Written
<1>2. /\ IsFile(file')
      /\ DOMAIN file' = 1 .. Len(file) + n
      /\ \A i \in DOMAIN file : file'[i] = file[i]
      /\ \A i \in 1 .. n : file'[Len(file) + i] = [rec |-> l, at |-> i]
  <2>1. /\ file \o tail \in Seq(LogCell)
        /\ DOMAIN (file \o tail) = 1 .. Len(file) + n
        /\ \A i \in DOMAIN file : (file \o tail)[i] = file[i]
        /\ \A i \in 1 .. n : (file \o tail)[Len(file) + i] = [rec |-> l, at |-> i]
    <3> HIDE DEF l
    <3>1. \A i \in 1 .. n : tail[i] = [rec |-> l, at |-> i]
      BY DEF l
    <3>2. file \in Seq(LogCell)
      BY DEF Written, IsFile
    <3> QED
      BY <1>1, <3>1, <3>2, LogAppend
  <2> QED
    BY <2>1 DEF IsFile
<1>3. Ascending(file')
  <2>1. \A i \in DOMAIN file, r \in Ids, m \in Nat : IsCell(file, i, r, m) => r < l
    BY <1>1 DEF Written
  <2>2. file \in Seq(RecordCells \cup {Bad})
    BY DEF Written, IsFile, LogCell
  <2> QED
    BY <1>1, <2>1, <2>2, AppendAscending DEF Written
<1>4. ASSUME NEW i \in DOMAIN file', NEW r \in Ids, NEW m \in Nat,
             IsCell(file', i, r, m)
      PROVE  r <= last' /\ (m = RecLen[r] => r \in whole')
  <2>1. CASE i <= Len(file)
    <3>1. i \in DOMAIN file
      BY <1>1, <1>2, <2>1
    <3>2. IsCell(file, i, r, m)
      BY <1>2, <1>4, <3>1 DEF IsCell
    <3>3. r <= last /\ (m = RecLen[r] => r \in whole)
      BY <3>1, <3>2 DEF Written
    <3> QED
      BY <1>1, <3>3 DEF Written
  <2>2. CASE i > Len(file)
    <3>1. i - Len(file) \in 1 .. n /\ Len(file) + (i - Len(file)) = i
      BY <1>1, <1>2, <2>2
    <3>2. file'[i] = [rec |-> l, at |-> i - Len(file)]
      BY <1>2, <3>1
    <3>3. r = l /\ m = i - Len(file) /\ m <= n
      BY <1>4, <3>1, <3>2 DEF IsCell
    <3> QED
      BY <1>1, <3>3, RecLenAssumption
  <2> QED
    BY <1>1, <1>2, <2>1, <2>2
<1>5. whole' \in SUBSET Ids /\ \A r \in whole' : r <= last'
  BY <1>1 DEF Written
<1> QED
  BY <1>1, <1>2, <1>3, <1>4, <1>5 DEF Written

(* What stops a replay, or is not one, leaves nothing to be returned. *)
LEMMA StopKeeps ==
    ASSUME Written', Stop
    PROVE  Returned'
<1>1. out' = <<>> /\ DOMAIN out' = {} /\ replay' = "off" /\ cursor' = 0
  BY EmptySeq DEF Stop
<1>2. out' \in Seq(whole')
  BY <1>1, EmptySeq
<1>3. Len(file') \in Nat
  BY LenProperties DEF Written, IsFile
<1> QED
  BY <1>1, <1>2, <1>3 DEF Returned

LEMMA ReplayKeeps ==
    ASSUME WalInv, ReplayNext
    PROVE  Returned'
<1> DEFINE next == ReadNext(file, cursor)
<1>1. /\ replay = "on" /\ cursor' = next.pos
      /\ UNCHANGED <<file, last, whole>>
      /\ IF next.entry = None
         THEN replay' = "done" /\ UNCHANGED out
         ELSE out' = Append(out, next.entry) /\ UNCHANGED replay
  BY DEF ReplayNext
<1>2. /\ Len(file) \in Nat /\ DOMAIN file = 1 .. Len(file)
      /\ Ids \subseteq Nat /\ whole \subseteq Ids
  BY FileDomain, IdsAreNaturals DEF WalInv, Written
<1>3. /\ next.pos \in 0 .. Len(file)
      /\ next.entry # None =>
            \E p \in Nat :
               /\ cursor <= p
               /\ next.entry \in Ids
               /\ IntactAt(file, p, next.entry)
               /\ next.pos = p + RecLen[next.entry]
  <2> HIDE DEF next
  <2> QED
    BY <1>2, ReadNextFinds DEF WalInv, Returned, next
<1> HIDE DEF next
<1>4. CASE next.entry = None
  BY <1>1, <1>3, <1>4 DEF WalInv, Returned
<1>5. CASE next.entry # None
  <2> DEFINE r == next.entry
  <2>1. PICK p \in Nat : /\ cursor <= p /\ r \in Ids /\ IntactAt(file, p, r)
                         /\ next.pos = p + RecLen[r]
    BY <1>3, <1>5
  <2>2. r \in whole
    <3>1. RecLen[r] \in Nat /\ p + RecLen[r] \in DOMAIN file
          /\ IsCell(file, p + RecLen[r], r, RecLen[r])
      BY <1>2, <2>1, IntactCells
    <3> QED
      BY <2>1, <3>1 DEF WalInv, Written
  <2>3. /\ out \in Seq(whole) /\ Len(out) \in Nat /\ DOMAIN out = 1 .. Len(out)
        /\ \A i, j \in DOMAIN out : i < j => out[i] < out[j]
        /\ \A i \in DOMAIN out : out[i] \in whole /\ out[i] < r
    BY <1>1, <2>1, LenProperties, ElementOfSeq DEF WalInv, Returned
  <2> HIDE DEF r
  <2>4. /\ out' \in Seq(whole) /\ DOMAIN out' = 1 .. Len(out) + 1
        /\ \A i \in 1 .. Len(out) : out'[i] = out[i]
        /\ out'[Len(out) + 1] = r
    BY <1>1, <1>5, <2>2, <2>3 DEF r
  <2>5. ASSUME NEW i \in DOMAIN out', NEW j \in DOMAIN out', i < j
        PROVE  out'[i] < out'[j]
    <3>1. i \in 1 .. Len(out)
      BY <2>3, <2>4, <2>5
    <3>2. CASE j \in 1 .. Len(out)
      BY <2>3, <2>4, <2>5, <3>1, <3>2
    <3>3. CASE j = Len(out) + 1
      BY <2>3, <2>4, <3>1, <3>3
    <3> QED
      BY <2>3, <2>4, <3>2, <3>3
  <2>6. ASSUME NEW q \in Nat, NEW s \in Ids, next.pos <= q, IntactAt(file, q, s),
               NEW i \in DOMAIN out'
        PROVE  out'[i] < s
    <3>1. r < s
      BY <1>2, <2>1, <2>6, LaterIsGreater DEF WalInv, Written
    <3>2. r \in Nat /\ s \in Nat /\ \A j \in DOMAIN out : out[j] \in Nat
      BY <1>2, <2>1, <2>3
    <3> QED
      BY <2>3, <2>4, <3>1, <3>2
  <2> QED
    BY <1>1, <1>3, <1>5, <2>4, <2>5, <2>6 DEF WalInv, Returned
<1> QED
  BY <1>4, <1>5

LEMMA WalInvNext == WalInv /\ [Next]_walVars => WalInv'
<1> SUFFICES ASSUME WalInv, [Next]_walVars PROVE WalInv'
  OBVIOUS
<1>1. /\ Len(file) \in Nat /\ DOMAIN file = 1 .. Len(file) /\ Ids \subseteq Nat
      /\ file \in Seq(LogCell)
  BY FileDomain, IdsAreNaturals DEF WalInv, Written, IsFile
<1>2. CASE AppendRecord
  <2> DEFINE tail == Framed(last + 1)
             n == RecLen[last + 1]
  <2>1. /\ last + 1 \in Ids /\ n \in Nat
        /\ tail \in [1 .. n -> RecordCells]
        /\ \A i \in 1 .. n : tail[i] = [rec |-> last + 1, at |-> i]
    BY <1>2, RecLenAssumption DEF AppendRecord, Framed, RecordCells
  <2>2. n \in 0 .. RecLen[last + 1]
    BY <2>1
  <2>3. /\ file' = file \o tail /\ last' = last + 1
        /\ whole' = whole \cup {last + 1}
    BY <1>2 DEF AppendRecord
  <2>4. Written'
    BY <2>1, <2>2, <2>3, AppendKeeps DEF WalInv
  <2> QED
    BY <1>2, <2>4, StopKeeps DEF AppendRecord, WalInv
<1>3. CASE AppendTorn
  <2>1. /\ last + 1 \in Ids /\ last' = last + 1 /\ whole' = whole
        /\ RecLen[last + 1] \in Nat
    BY <1>3, RecLenAssumption DEF AppendTorn
  <2>2. PICK n \in 0 .. RecLen[last + 1] - 1 :
           file' = file \o SubSeq(Framed(last + 1), 1, n)
    BY <1>3 DEF AppendTorn
  <2> DEFINE tail == SubSeq(Framed(last + 1), 1, n)
  <2>3. /\ n \in 0 .. RecLen[last + 1] /\ n # RecLen[last + 1] /\ n \in Nat
    BY <2>1
  <2>5. /\ tail \in [1 .. n -> RecordCells]
        /\ \A i \in 1 .. n : tail[i] = [rec |-> last + 1, at |-> i]
    BY <2>1, <2>3, TornTail
  <2>6. Written'
    BY <2>1, <2>2, <2>3, <2>5, AppendKeeps DEF WalInv
  <2> QED
    BY <1>3, <2>6, StopKeeps DEF AppendTorn, WalInv
<1>4. CASE Flip
  <2>1. PICK i \in DOMAIN file : file' = [file EXCEPT ![i] = Bad]
    BY <1>4 DEF Flip
  <2>2. UNCHANGED <<last, whole>>
    BY <1>4 DEF Flip
  <2>3. IsFile(file') /\ DOMAIN file' = DOMAIN file
    BY <1>1, <2>1 DEF IsFile, LogCell
  <2>4. \A j \in DOMAIN file', r \in Ids, n \in Nat :
           IsCell(file', j, r, n) => j \in DOMAIN file /\ IsCell(file, j, r, n)
    BY <1>1, <2>1, RecLenAssumption DEF IsCell
  <2>5. Written'
    BY <2>2, <2>3, <2>4, DamagedAscending DEF WalInv, Written
  <2> QED
    BY <1>4, <2>5, StopKeeps DEF Flip, WalInv
<1>5. CASE Truncate
  <2>1. file' = <<>> /\ DOMAIN file' = {} /\ whole' = {} /\ UNCHANGED last
    BY <1>5, EmptySeq DEF Truncate
  <2>2. IsFile(file')
    BY <2>1, EmptySeq DEF IsFile
  <2>3. Written'
    BY <2>1, <2>2 DEF WalInv, Written, Ascending
  <2> QED
    BY <1>5, <2>3, StopKeeps DEF Truncate, WalInv
<1>6. CASE StartReplay
  <2>1. Written'
    BY <1>6 DEF StartReplay, WalInv, Written
  <2>2. out' = <<>> /\ DOMAIN out' = {} /\ out' \in Seq(whole')
    BY <1>6, EmptySeq DEF StartReplay
  <2>3. Returned'
    BY <1>1, <1>6, <2>2 DEF StartReplay, Returned
  <2> QED
    BY <2>1, <2>3 DEF WalInv
<1>7. CASE ReplayNext
  <2>1. Written'
    BY <1>7 DEF ReplayNext, WalInv, Written
  <2> QED
    BY <1>7, <2>1, ReplayKeeps DEF WalInv
<1>8. CASE TruncateFails
  <2>1. Written'
    BY <1>8 DEF TruncateFails, WalInv, Written
  <2> QED
    BY <1>8, <2>1, StopKeeps DEF TruncateFails, WalInv
<1>9. CASE UNCHANGED walVars
  BY <1>9 DEF walVars, WalInv, Written, Returned
<1> QED
  BY <1>2, <1>3, <1>4, <1>5, <1>6, <1>7, <1>8, <1>9 DEF Next

(* A replay yields the records that were appended whole, in their order, each
   once, whatever was cut off, changed or truncated before (from_file,
   header_read_next). *)
THEOREM ReplaysInOrder == Spec => []ReplayInOrder
<1>1. WalInv => ReplayInOrder
  <2> SUFFICES ASSUME WalInv PROVE ReplayInOrder
    OBVIOUS
  <2>1. \A i \in DOMAIN out : out[i] \in whole
    BY ElementOfSeq, LenProperties DEF WalInv, Returned
  <2> QED
    BY <2>1 DEF WalInv, Returned, ReplayInOrder, Range
<1> QED
  BY WalInvInit, WalInvNext, <1>1, PTL DEF Spec

-----------------------------------------------------------------------------
(* What a replay misses. *)

(* The records that were appended whole and are not to be found any more. *)
Lost == {r \in whole : \A p \in Nat : ~IntactAt(file, p, r)}

(* Each byte that changed cost at most one record, and a replay has returned
   every record that its cursor has passed. *)
CostInv ==
    /\ flips \in Nat
    /\ Cardinality(Lost) <= flips
    /\ replay # "off" =>
          \A p \in Nat, r \in Ids :
             IntactAt(file, p, r) /\ (replay = "done" \/ p < cursor) =>
                \E i \in DOMAIN out : out[i] = r

LEMMA LostIsFinite ==
    ASSUME NEW S \in SUBSET Ids
    PROVE  IsFiniteSet(S) /\ Cardinality(S) \in Nat
BY WalAssumption, FS_Subset, FS_CardinalityType

(* No record is lost by an append, whether it is cut off or not. *)
LEMMA AppendLosesNothing ==
    ASSUME WalInv, AppendRecord \/ AppendTorn
    PROVE  Lost' \subseteq Lost
<1> DEFINE l == last + 1
<1>1. /\ Len(file) \in Nat /\ DOMAIN file = 1 .. Len(file)
      /\ file \in Seq(LogCell)
  BY FileDomain DEF WalInv, Written, IsFile
<1>2. l \in Ids /\ RecLen[l] \in Nat
  BY RecLenAssumption DEF AppendRecord, AppendTorn
<1> HIDE DEF l
<1>3. PICK n \in 0 .. RecLen[l] : \E tail \in [1 .. n -> RecordCells] :
         /\ file' = file \o tail
         /\ \A i \in 1 .. n : tail[i] = [rec |-> l, at |-> i]
         /\ n # RecLen[l] => whole' = whole
         /\ whole' \subseteq whole \cup {l}
  <2>1. CASE AppendRecord
    <3> DEFINE all == Framed(l)
    <3>1. file' = file \o all /\ whole' = whole \cup {l}
      BY <2>1 DEF AppendRecord, l
    <3>2. /\ all \in [1 .. RecLen[l] -> RecordCells]
          /\ \A i \in 1 .. RecLen[l] : all[i] = [rec |-> l, at |-> i]
      BY <1>2 DEF Framed, RecordCells
    <3>3. RecLen[l] \in 0 .. RecLen[l]
      BY <1>2
    <3> HIDE DEF all
    <3> QED
      BY <3>1, <3>2, <3>3
  <2>2. CASE AppendTorn
    <3>1. PICK n \in 0 .. RecLen[l] - 1 : file' = file \o SubSeq(Framed(l), 1, n)
      BY <2>2 DEF AppendTorn, l
    <3>2. n \in 0 .. RecLen[l] /\ n # RecLen[l] /\ whole' = whole
      BY <1>2, <2>2 DEF AppendTorn
    <3>3. LET tail == SubSeq(Framed(l), 1, n)
          IN  /\ tail \in [1 .. n -> RecordCells]
              /\ \A i \in 1 .. n : tail[i] = [rec |-> l, at |-> i]
      BY <1>2, <3>2, TornTail
    <3> QED
      BY <3>1, <3>2, <3>3
  <2> QED
    BY <2>1, <2>2
<1>4. /\ n \in Nat
      /\ file' \in Seq(LogCell) /\ Len(file') = Len(file) + n
      /\ \A i \in DOMAIN file : file'[i] = file[i]
      /\ \A i \in 1 .. n : file'[Len(file) + i] = [rec |-> l, at |-> i]
  <2>1. n \in Nat
    BY <1>2
  <2>2. /\ file' \in Seq(LogCell)
        /\ DOMAIN file' = 1 .. Len(file) + n
        /\ \A i \in DOMAIN file : file'[i] = file[i]
        /\ \A i \in 1 .. n : file'[Len(file) + i] = [rec |-> l, at |-> i]
    <3>1. PICK tail \in [1 .. n -> RecordCells] :
             /\ file' = file \o tail
             /\ \A i \in 1 .. n : tail[i] = [rec |-> l, at |-> i]
      BY <1>3
    <3> QED
      BY <1>1, <1>2, <2>1, <3>1, LogAppend
  <2>3. Len(file') = Len(file) + n
    BY <1>1, <2>1, <2>2, LenProperties
  <2> QED
    BY <2>1, <2>2, <2>3
<1>5. ASSUME NEW p \in Nat, NEW r \in Ids, IntactAt(file, p, r)
      PROVE  IntactAt(file', p, r)
  <2>1. RecLen[r] \in Nat /\ p + RecLen[r] <= Len(file)
    BY <1>5, RecLenAssumption DEF IntactAt
  <2>2. \A i \in 1 .. RecLen[r] : p + i \in DOMAIN file
    BY <1>1, <2>1
  <2> QED
    BY <1>1, <1>4, <1>5, <2>1, <2>2 DEF IntactAt
<1>6. n = RecLen[l] => IntactAt(file', Len(file), l)
  BY <1>1, <1>4 DEF IntactAt
<1> SUFFICES ASSUME NEW r \in whole', \A p \in Nat : ~IntactAt(file', p, r)
             PROVE  r \in Lost
  BY DEF Lost
<1>7. r # l \/ n # RecLen[l]
  BY <1>1, <1>6
<1>8. r \in whole /\ r \in Ids
  BY <1>3, <1>7 DEF WalInv, Written
<1> QED
  BY <1>5, <1>8 DEF Lost

(* A byte that changes belongs to one record. *)
LEMMA FlipLosesOne ==
    ASSUME WalInv, Flip
    PROVE  \E r : Lost' \subseteq Lost \cup {r}
<1>1. /\ Len(file) \in Nat /\ DOMAIN file = 1 .. Len(file)
      /\ file \in Seq(LogCell)
  BY FileDomain DEF WalInv, Written, IsFile
<1>2. PICK i \in DOMAIN file : file' = [file EXCEPT ![i] = Bad] /\ file[i] # Bad
  BY DEF Flip
<1>3. whole' = whole /\ whole \subseteq Ids
  BY DEF Flip, WalInv, Written
<1>4. file[i] \in RecordCells
  BY <1>1, <1>2 DEF LogCell
<1>5. PICK r \in Ids, m \in Nat : file[i] = [rec |-> r, at |-> m]
  BY <1>4 DEF RecordCells
<1>6. /\ Len(file') = Len(file)
      /\ \A j \in DOMAIN file : j # i => file'[j] = file[j]
  BY <1>1, <1>2
<1>7. ASSUME NEW p \in Nat, NEW s \in Ids, IntactAt(file, p, s), s # r
      PROVE  IntactAt(file', p, s)
  <2>1. RecLen[s] \in Nat /\ p + RecLen[s] <= Len(file)
        /\ \A j \in 1 .. RecLen[s] : file[p + j] = [rec |-> s, at |-> j]
    BY <1>7, RecLenAssumption DEF IntactAt
  <2>2. ASSUME NEW j \in 1 .. RecLen[s]
        PROVE  file'[p + j] = [rec |-> s, at |-> j]
    <3>1. p + j \in DOMAIN file
      BY <1>1, <2>1
    <3>2. p + j # i
      <4>1. file[p + j] = [rec |-> s, at |-> j]
        BY <2>1
      <4>2. [rec |-> s, at |-> j].rec # [rec |-> r, at |-> m].rec
        BY <1>7
      <4> QED
        BY <1>5, <4>1, <4>2
    <3> QED
      BY <1>6, <2>1, <3>1, <3>2
  <2> QED
    BY <1>6, <2>1, <2>2 DEF IntactAt
<1>8. Lost' \subseteq Lost \cup {r}
  BY <1>3, <1>7 DEF Lost
<1> QED
  BY <1>8

LEMMA CostInvInit == Init => CostInv
<1> SUFFICES ASSUME Init PROVE CostInv
  OBVIOUS
<1>1. Lost = {}
  BY DEF Init, Lost
<1> QED
  BY <1>1, FS_EmptySet DEF Init, CostInv

LEMMA ReplayMissesNone ==
    ASSUME WalInv, CostInv, ReplayNext
    PROVE  CostInv'
<1> DEFINE next == ReadNext(file, cursor)
<1>1. /\ replay = "on" /\ cursor' = next.pos
      /\ UNCHANGED <<file, last, whole, flips>>
      /\ IF next.entry = None
         THEN replay' = "done" /\ UNCHANGED out
         ELSE out' = Append(out, next.entry) /\ UNCHANGED replay
  BY DEF ReplayNext
<1>2. /\ Len(file) \in Nat /\ DOMAIN file = 1 .. Len(file)
      /\ cursor \in 0 .. Len(file) /\ next.pos \in 0 .. Len(file)
      /\ out \in Seq(whole)
  BY FileDomain, ReadNextFinds DEF WalInv, Written, Returned
<1>3. \A i \in DOMAIN out : i \in DOMAIN out' /\ out'[i] = out[i]
  BY <1>1, <1>2
<1>4. next.entry # None => \E i \in DOMAIN out' : out'[i] = next.entry
  BY <1>1, <1>2
<1>5. ASSUME NEW p \in Nat, NEW r \in Ids, IntactAt(file, p, r),
             next.entry = None \/ p < next.pos
      PROVE  \E i \in DOMAIN out' : out'[i] = r
  <2>1. CASE p < cursor
    BY <1>1, <1>3, <1>5, <2>1 DEF CostInv
  <2>2. CASE cursor <= p
    <3>1. r = next.entry
      BY <1>2, <1>5, <2>2, ReadNextPasses
    <3> QED
      BY <1>4, <3>1, RecLenAssumption
  <2> QED
    BY <1>2, <2>1, <2>2
<1> HIDE DEF next
<1>6. Lost' = Lost
  BY <1>1 DEF Lost
<1> QED
  BY <1>1, <1>5, <1>6 DEF CostInv

LEMMA CostInvNext == WalInv /\ CostInv /\ [Next]_walVars => CostInv'
<1> SUFFICES ASSUME WalInv, CostInv, [Next]_walVars PROVE CostInv'
  OBVIOUS
<1>1. Lost \in SUBSET Ids
  BY DEF Lost, WalInv, Written
<1>2. CASE AppendRecord \/ AppendTorn
  <2>1. Lost' \subseteq Lost
    BY <1>2, AppendLosesNothing
  <2>2. Cardinality(Lost') <= Cardinality(Lost)
    BY <1>1, <2>1, LostIsFinite, FS_Subset
  <2>3. Cardinality(Lost') \in Nat /\ Cardinality(Lost) \in Nat
    BY <1>1, <2>1, LostIsFinite
  <2>4. replay' = "off" /\ flips' = flips
    BY <1>2 DEF AppendRecord, AppendTorn, Stop
  <2> QED
    BY <2>2, <2>3, <2>4 DEF CostInv
<1>3. CASE Flip
  <2>1. PICK r : Lost' \subseteq Lost \cup {r}
    BY <1>3, FlipLosesOne
  <2>2. IsFiniteSet(Lost) /\ Cardinality(Lost) \in Nat
    BY <1>1, LostIsFinite
  <2>3. /\ IsFiniteSet(Lost \cup {r})
        /\ Cardinality(Lost \cup {r}) \in Nat
        /\ Cardinality(Lost \cup {r}) <= Cardinality(Lost) + 1
    <3> DEFINE L == Lost
    <3>1. IsFiniteSet(L) /\ Cardinality(L) \in Nat
      BY <2>2
    <3> HIDE DEF L
    <3>2. /\ IsFiniteSet(L \cup {r})
          /\ Cardinality(L \cup {r}) \in {Cardinality(L), Cardinality(L) + 1}
      BY <3>1, FS_AddElement
    <3>3. /\ IsFiniteSet(L \cup {r})
          /\ Cardinality(L \cup {r}) \in Nat
          /\ Cardinality(L \cup {r}) <= Cardinality(L) + 1
      BY <3>1, <3>2
    <3> QED
      BY <3>3 DEF L
  <2>4. Cardinality(Lost') <= Cardinality(Lost \cup {r}) /\ Cardinality(Lost') \in Nat
    BY <2>1, <2>3, FS_Subset, FS_CardinalityType
  <2>5. replay' = "off" /\ flips' = flips + 1
    BY <1>3 DEF Flip, Stop
  <2> QED
    BY <2>2, <2>3, <2>4, <2>5 DEF CostInv
<1>4. CASE Truncate
  <2>1. Lost' = {} /\ flips' = 0 /\ replay' = "off"
    BY <1>4 DEF Truncate, Stop, Lost
  <2>2. Cardinality({}) = 0
    BY FS_EmptySet
  <2> QED
    BY <2>1, <2>2 DEF CostInv
<1>5. CASE StartReplay
  <2>1. Lost' = Lost /\ replay' = "on" /\ cursor' = 0 /\ flips' = flips
    BY <1>5 DEF StartReplay, Lost
  <2> QED
    BY <2>1 DEF CostInv
<1>6. CASE ReplayNext
  BY <1>6, ReplayMissesNone
<1>7. CASE UNCHANGED walVars
  BY <1>7 DEF walVars, CostInv, Lost
<1>8. CASE TruncateFails
  <2>1. Lost' = Lost /\ replay' = "off" /\ flips' = flips
    BY <1>8 DEF TruncateFails, Stop, Lost
  <2> QED
    BY <2>1 DEF CostInv
<1> QED
  BY <1>2, <1>3, <1>4, <1>5, <1>6, <1>7, <1>8 DEF Next

(* The records that are intact when a replay ends are the ones it has
   returned. *)
LEMMA ReplayReturnsIntact ==
    ASSUME WalInv, CostInv, replay = "done"
    PROVE  whole \ Range(out) \subseteq Lost
BY DEF WalInv, Written, CostInv, Lost, Range

(* A byte that changes costs one record at most, wherever it is, and an append
   that is cut off costs none of the others, for any number of records of any
   length (header_read_next, from_file). *)
THEOREM OneByteOneRecord == Spec => []OneByteCostsOneRecord
<1>1. WalInv /\ CostInv => OneByteCostsOneRecord
  <2> SUFFICES ASSUME WalInv, CostInv, replay = "done"
               PROVE  Cardinality(whole \ Range(out)) <= flips
    BY DEF OneByteCostsOneRecord
  <2>1. Lost \in SUBSET Ids
    BY DEF Lost, WalInv, Written
  <2>2. /\ Cardinality(whole \ Range(out)) <= Cardinality(Lost)
        /\ Cardinality(whole \ Range(out)) \in Nat /\ Cardinality(Lost) \in Nat
    BY <2>1, ReplayReturnsIntact, LostIsFinite, FS_Subset, FS_CardinalityType
  <2> QED
    BY <2>2 DEF CostInv
<1> QED
  BY WalInvInit, WalInvNext, CostInvInit, CostInvNext, <1>1, PTL DEF Spec

-----------------------------------------------------------------------------
(* The memtable. *)

(* An entry counts with its bytes. *)
LEMMA RowSize ==
    ASSUME NEW k, NEW n \in Nat
    PROVE  IsFiniteSet({k} \X (1 .. n)) /\ Cardinality({k} \X (1 .. n)) = n
<1>1. IsFiniteSet({k}) /\ Cardinality({k}) = 1
  BY FS_EmptySet, FS_AddElement, {} \cup {k} = {k}
<1>2. IsFiniteSet(1 .. n) /\ Cardinality(1 .. n) = n
  BY FS_Interval
<1>3. /\ IsFiniteSet({k} \X (1 .. n))
      /\ Cardinality({k} \X (1 .. n)) = Cardinality({k}) * Cardinality(1 .. n)
  BY <1>1, <1>2, FS_Product
<1> QED
  BY <1>1, <1>2, <1>3

(* A memtable of entries, with the size they have together. *)
Sized(m) ==
    /\ \A k \in DOMAIN m.inner : m.inner[k] \in Ids
    /\ IsFiniteSet(Bytes(m))
    /\ m.size = Cardinality(Bytes(m))

LEMMA NewIsSized == Sized(NewMemTable) /\ NewMemTable.inner = Newest({})
<1>1. DOMAIN NewMemTable.inner = {} /\ NewMemTable.size = 0
  BY EmptySeq DEF NewMemTable
<1>2. Bytes(NewMemTable) = {}
  BY <1>1 DEF Bytes
<1>3. NewMemTable.inner = Newest({})
  BY DEF NewMemTable, Newest
<1> QED
  BY <1>1, <1>2, <1>3, FS_EmptySet DEF Sized

(* process keeps the size right: the bytes of what it replaces go, those of
   the new entry come, and the subtraction does not saturate. *)
LEMMA ProcessKeepsSized ==
    ASSUME NEW m, Sized(m), NEW e \in Ids
    PROVE  Sized(Process(m, e))
<1> DEFINE p    == Process(m, e)
           key  == KeyOf[e]
           B    == Bytes(m)
           old  == IF key \in DOMAIN m.inner THEN {key} \X (1 .. SizeOf[m.inner[key]])
                   ELSE {}
           rest == B \ old
           new  == {key} \X (1 .. SizeOf[e])
<1>1. /\ p.inner = [k \in DOMAIN m.inner \cup {key} |-> IF k = key THEN e ELSE m.inner[k]]
      /\ p.size = SaturatingSub(m.size, Replaced(m, e)) + SizeOf[e]
  BY DEF Process, Insert
<1>2. \A r \in Ids : SizeOf[r] \in Nat
  BY SizeOfAssumption, EntriesAssumption
<1>3. \A k \in DOMAIN p.inner : p.inner[k] \in Ids
  BY <1>1 DEF Sized
<1>4. /\ old \subseteq B /\ IsFiniteSet(B) /\ Cardinality(B) \in Nat
      /\ m.size = Cardinality(B)
  BY FS_CardinalityType DEF Sized, Bytes
<1>5. IsFiniteSet(old) /\ Cardinality(old) = Replaced(m, e) /\ Replaced(m, e) \in Nat
  <2>1. CASE key \in DOMAIN m.inner
    <3>1. SizeOf[m.inner[key]] \in Nat
      BY <1>2, <2>1 DEF Sized
    <3> QED
      BY <2>1, <3>1, RowSize DEF Replaced
  <2>2. CASE key \notin DOMAIN m.inner
    BY <2>2, FS_EmptySet DEF Replaced
  <2> QED
    BY <2>1, <2>2
<1>6. IsFiniteSet(new) /\ Cardinality(new) = SizeOf[e] /\ SizeOf[e] \in Nat
  BY <1>2, RowSize
<1>7. Bytes(p) = rest \cup new /\ rest \cap new = {}
  <2>1. ASSUME NEW b
        PROVE  b \in Bytes(p) <=> \E k \in DOMAIN p.inner : b \in {k} \X (1 .. SizeOf[p.inner[k]])
    BY DEF Bytes
  <2>2. ASSUME NEW b
        PROVE  b \in B <=> \E k \in DOMAIN m.inner : b \in {k} \X (1 .. SizeOf[m.inner[k]])
    BY DEF Bytes
  <2>3. ASSUME NEW b
        PROVE  b \in rest <=>
                  \E k \in DOMAIN m.inner \ {key} : b \in {k} \X (1 .. SizeOf[m.inner[k]])
    <3> HIDE DEF B
    <3>1. ASSUME NEW k \in DOMAIN m.inner, k # key, b \in {k} \X (1 .. SizeOf[m.inner[k]])
          PROVE  b \notin old
      BY <3>1
    <3>2. ASSUME b \in B, b \notin old
          PROVE  \E k \in DOMAIN m.inner \ {key} : b \in {k} \X (1 .. SizeOf[m.inner[k]])
      BY <2>2, <3>2
    <3> QED
      BY <2>2, <3>1, <3>2
  <2> HIDE DEF rest
  <2>4. ASSUME NEW b
        PROVE  b \in Bytes(p) <=> b \in rest \/ b \in new
    <3>1. DOMAIN p.inner = (DOMAIN m.inner \ {key}) \cup {key}
      BY <1>1
    <3>2. /\ p.inner[key] = e
          /\ \A k \in DOMAIN m.inner \ {key} : p.inner[k] = m.inner[k]
      BY <1>1
    <3> HIDE DEF p, key
    <3> QED
      BY <2>1, <2>3, <3>1, <3>2
  <2>5. ASSUME NEW b \in rest, b \in new
        PROVE  FALSE
    BY <2>3, <2>5
  <2> HIDE DEF p, new
  <2> QED
    BY <2>4, <2>5
<1> HIDE DEF p, B, old, new
<1>8. B \cap old = old
  BY <1>4
<1>9. IsFiniteSet(rest) /\ Cardinality(rest) = Cardinality(B) - Cardinality(old)
  <2>1. /\ IsFiniteSet(B \ old)
        /\ Cardinality(B \ old) = Cardinality(B) - Cardinality(B \cap old)
    BY <1>4, FS_Difference
  <2> QED
    BY <1>8, <2>1
<1>10. Cardinality(old) <= Cardinality(B)
  BY <1>4, FS_Subset
<1>11. Cardinality(rest) \in Nat
  BY <1>9, FS_CardinalityType
<1> HIDE DEF rest
<1>12. /\ IsFiniteSet(rest \cup new)
       /\ Cardinality(rest \cup new) = Cardinality(rest) + Cardinality(new)
  <2>1. /\ IsFiniteSet(rest \cup new)
        /\ Cardinality(rest \cup new) =
              Cardinality(rest) + Cardinality(new) - Cardinality(rest \cap new)
    BY <1>6, <1>9, FS_Union
  <2>2. Cardinality(rest \cap new) = 0
    BY <1>7, FS_EmptySet
  <2> QED
    BY <1>6, <1>11, <2>1, <2>2
<1>13. SaturatingSub(m.size, Replaced(m, e)) = Cardinality(rest)
  BY <1>4, <1>5, <1>9, <1>10 DEF SaturatingSub
<1>14. IsFiniteSet(Bytes(p)) /\ p.size = Cardinality(Bytes(p))
  BY <1>1, <1>6, <1>7, <1>12, <1>13
<1> QED
  BY <1>3, <1>14 DEF Sized, p

(* An entry that is newer than all others of S decides its key. *)
LEMMA InsertNewest ==
    ASSUME NEW S \in SUBSET Nat, NEW e \in Nat, \A r \in S : r < e,
           NEW m, m.inner = Newest(S)
    PROVE  Insert(m, e) = Newest(S \cup {e})
<1> DEFINE T == S \cup {e}
<1>1. DOMAIN m.inner \cup {KeyOf[e]} = {KeyOf[r] : r \in T}
  BY DEF Newest
<1>2. ASSUME NEW k \in {KeyOf[r] : r \in T}
      PROVE  (IF k = KeyOf[e] THEN e ELSE m.inner[k]) = Max({r \in T : KeyOf[r] = k})
  <2> DEFINE of == {r \in T : KeyOf[r] = k}
  <2>1. CASE k = KeyOf[e]
    <3>1. of \in SUBSET Nat /\ e \in of /\ \A r \in of : r <= e
      <4>1. ASSUME NEW r \in T
            PROVE  r \in Nat /\ r <= e
        <5>1. CASE r \in S
          <6>1. r \in Nat /\ e \in Nat /\ r < e
            BY <5>1
          <6> QED
            BY <6>1
        <5>2. CASE r = e
          BY <5>2
        <5> QED
          BY <4>1, <5>1, <5>2
      <4> QED
        BY <2>1, <4>1
    <3> HIDE DEF of
    <3>2. Max(of) = e
      BY <3>1, MaxIs
    <3> QED
      BY <2>1, <3>2 DEF of
  <2>2. CASE k # KeyOf[e]
    <3>1. of = {r \in S : KeyOf[r] = k} /\ k \in {KeyOf[r] : r \in S}
      BY <2>2
    <3> QED
      BY <2>2, <3>1 DEF Newest
  <2> QED
    BY <2>1, <2>2
<1> QED
  BY <1>1, <1>2 DEF Insert, Newest

(* Over the same tables an entry changes what is served in the same way. *)
LEMMA OverlayInsert ==
    ASSUME NEW m, NEW n, NEW e, NEW t, Overlay(m.inner, t) = Overlay(n.inner, t)
    PROVE  Overlay(Insert(m, e), t) = Overlay(Insert(n, e), t)
<1> DEFINE served(x) == Overlay(x.inner, t)
           after(x)  == [k \in DOMAIN served(x) \cup {KeyOf[e]} |->
                            IF k = KeyOf[e] THEN e ELSE served(x)[k]]
<1>1. Overlay(Insert(m, e), t) = after(m)
  BY DEF Overlay, Insert
<1>2. Overlay(Insert(n, e), t) = after(n)
  BY DEF Overlay, Insert
<1>3. served(m) = served(n)
  OBVIOUS
<1>4. after(m) = after(n)
  <2> HIDE DEF served
  <2> QED
    BY <1>3
<1> QED
  BY <1>1, <1>2, <1>4

(* What is in the tables as well is served as before. *)
LEMMA OverlayAgain ==
    ASSUME NEW f, NEW t
    PROVE  Overlay(f, Overlay(f, t)) = Overlay(f, t)
BY DEF Overlay

LEMMA OverlayNothing ==
    ASSUME NEW g, DOMAIN g = {}, NEW f, NEW t
    PROVE  Overlay(g, Overlay(f, t)) = Overlay(f, t)
BY DEF Overlay

(* While the process lives it serves the whole records of the writes that
   succeeded, over the tables, and in a replay the memtable is that of what it
   has returned. *)
MemInv ==
    /\ Sized(memtable)
    /\ unanswered \subseteq whole
    /\ replay # "off" => unanswered = {}
    /\ replay # "off" =>
          \A i \in DOMAIN out : \E p \in Nat : IntactAt(file, p, out[i])
    /\ replay # "off" => memtable.inner = Newest(Range(out))
    /\ replay = "off" /\ flips = 0 =>
          Served = Overlay(Newest(whole \ unanswered), tables)

LEMMA LoggedStepIsStep ==
    ASSUME [LoggedNext]_loggedVars
    PROVE  [Next]_walVars
BY DEF LoggedNext, loggedVars, Write, WriteFails, Damage, Flush, FlushFails, Start,
       Rebuild, Next

LEMMA MemInvInit == LoggedInit => MemInv
<1> SUFFICES ASSUME LoggedInit PROVE MemInv
  OBVIOUS
<1>1. whole \ unanswered = {} /\ replay = "off" /\ memtable = NewMemTable
  BY DEF LoggedInit, Init
<1> QED
  BY <1>1, NewIsSized DEF MemInv, Served, LoggedInit

(* A replay that ends without damage has returned all whole records. *)
LEMMA DoneIsWhole ==
    ASSUME WalInv, CostInv, replay = "done", flips = 0
    PROVE  Range(out) = whole
<1>1. Lost \in SUBSET Ids
  BY DEF Lost, WalInv, Written
<1>2. Cardinality(Lost) = 0
  BY <1>1, LostIsFinite DEF CostInv
<1>3. Lost = {}
  BY <1>1, <1>2, LostIsFinite, FS_EmptySet
<1>4. whole \subseteq Range(out)
  BY <1>3, ReplayReturnsIntact
<1>5. Range(out) \subseteq whole
  BY ElementOfSeq, LenProperties DEF WalInv, Returned, Range
<1> QED
  BY <1>4, <1>5

LEMMA SettledMemory ==
    ASSUME WalInv, CostInv, MemInv, replay # "on", flips = 0
    PROVE  Served = Overlay(Newest(whole \ unanswered), tables)
<1>1. CASE replay = "off"
  BY <1>1 DEF MemInv
<1>2. CASE replay = "done"
  BY <1>2, DoneIsWhole DEF MemInv, Served
<1> QED
  BY <1>1, <1>2 DEF WalInv, Returned

LEMMA WriteKeepsMemory ==
    ASSUME WalInv, CostInv, MemInv, Write
    PROVE  MemInv'
<1>1. /\ replay # "on" /\ replay' = "off" /\ flips' = flips
      /\ last + 1 \in Ids /\ whole' = whole \cup {last + 1}
      /\ unanswered' = unanswered /\ tables' = tables
      /\ memtable' = Process(memtable, last + 1)
  BY DEF Write, AppendRecord, Stop
<1>2. Sized(memtable')
  BY <1>1, ProcessKeepsSized DEF MemInv
<1>3. ASSUME flips = 0
      PROVE  Served' = Overlay(Newest(whole' \ unanswered'), tables')
  <2> DEFINE S == whole \ unanswered
             e == last + 1
  <2>1. /\ S \in SUBSET Nat /\ e \in Nat /\ \A r \in S : r < e
        /\ e \notin whole
    <3>1. /\ last \in Nat /\ whole \subseteq Nat
          /\ \A r \in whole : r <= last
      BY IdsAreNaturals DEF WalInv, Written
    <3>2. \A r \in whole : r < last + 1
      BY <3>1
    <3>3. last + 1 \in Nat /\ last + 1 \notin whole
      BY <3>1, <3>2
    <3> QED
      BY <3>1, <3>2, <3>3
  <2>2. Overlay(memtable.inner, tables) = Overlay(Newest(S), tables)
    BY <1>1, <1>3, SettledMemory DEF Served
  <2>3. whole' \ unanswered' = S \cup {e}
    BY <1>1, <2>1 DEF MemInv
  <2>4. memtable'.inner = Insert(memtable, e)
    BY <1>1 DEF Process
  <2> HIDE DEF S, e
  <2>5. PICK m : m = [inner |-> Newest(S), size |-> 0]
    OBVIOUS
  <2>6. m.inner = Newest(S)
    BY <2>5
  <2>7. Newest(S \cup {e}) = Insert(m, e)
    BY <2>1, <2>6, InsertNewest
  <2>8. Overlay(Insert(memtable, e), tables) = Overlay(Insert(m, e), tables)
    <3>1. Overlay(memtable.inner, tables) = Overlay(m.inner, tables)
      BY <2>2, <2>6
    <3> QED
      BY <3>1, OverlayInsert
  <2> QED
    BY <1>1, <2>3, <2>4, <2>7, <2>8 DEF Served
<1> QED
  BY <1>1, <1>2, <1>3 DEF MemInv

LEMMA RebuildKeepsMemory ==
    ASSUME WalInv, MemInv, Rebuild
    PROVE  MemInv'
<1> DEFINE next == ReadNext(file, cursor)
<1>1. /\ replay = "on" /\ replay' # "off"
      /\ UNCHANGED <<file, whole, flips, unanswered>>
      /\ IF next.entry = None THEN out' = out ELSE out' = Append(out, next.entry)
      /\ memtable' = IF out' = out THEN memtable ELSE Process(memtable, out'[Len(out')])
  BY DEF Rebuild, ReplayNext
<1>2. /\ Len(file) \in Nat /\ DOMAIN file = 1 .. Len(file)
      /\ Ids \subseteq Nat /\ cursor \in 0 .. Len(file)
      /\ out \in Seq(whole) /\ whole \subseteq Ids
      /\ Len(out) \in Nat /\ DOMAIN out = 1 .. Len(out)
      /\ \A i \in DOMAIN out : out[i] \in whole
  BY FileDomain, IdsAreNaturals, LenProperties, ElementOfSeq DEF WalInv, Written, Returned
<1>3. CASE next.entry = None
  BY <1>1, <1>3 DEF MemInv
<1>4. CASE next.entry # None
  <2> DEFINE e == next.entry
  <2>1. \E p \in Nat : /\ cursor <= p /\ e \in Ids /\ IntactAt(file, p, e)
    <3> HIDE DEF next, e
    <3>1. \E p \in Nat : /\ cursor <= p
                          /\ next.entry \in Ids
                          /\ IntactAt(file, p, next.entry)
      BY <1>2, <1>4, ReadNextFinds DEF next
    <3> QED
      BY <3>1 DEF e
  <2>2. \A i \in DOMAIN out : out[i] < e
    BY <1>1, <2>1 DEF WalInv, Returned
  <2> HIDE DEF next, e
  <2>3. /\ out' = Append(out, e) /\ Len(out') = Len(out) + 1 /\ out'[Len(out')] = e
        /\ DOMAIN out' = 1 .. Len(out) + 1
        /\ \A i \in DOMAIN out : out'[i] = out[i]
    BY <1>1, <1>2, <1>4, <2>1 DEF e
  <2>4. out' # out /\ memtable' = Process(memtable, e)
    <3>1. Len(out') # Len(out)
      <4>1. Len(out) \in Nat /\ Len(out') = Len(out) + 1
        BY <1>2, <2>3
      <4> QED
        BY <4>1
    <3>2. out' # out
      BY <3>1
    <3>3. memtable' = Process(memtable, out'[Len(out')])
      BY <1>1, <3>2
    <3> QED
      BY <2>3, <3>2, <3>3
  <2>5. Range(out') = Range(out) \cup {e}
    <3>1. DOMAIN out' = DOMAIN out \cup {Len(out')}
      BY <1>2, <2>3
    <3> QED
      BY <2>3, <3>1 DEF Range
  <2>6. /\ Range(out) \in SUBSET Nat /\ e \in Nat
        /\ \A r \in Range(out) : r < e
    BY <1>2, <2>1, <2>2 DEF Range
  <2>7. memtable'.inner = Newest(Range(out'))
    <3>1. memtable.inner = Newest(Range(out))
      BY <1>1 DEF MemInv
    <3>2. memtable'.inner = Insert(memtable, e)
      BY <2>4 DEF Process
    <3> QED
      BY <2>5, <2>6, <3>1, <3>2, InsertNewest
  <2>8. Sized(memtable')
    BY <2>1, <2>4, ProcessKeepsSized DEF MemInv
  <2>9. \A i \in DOMAIN out' : \E p \in Nat : IntactAt(file, p, out'[i])
    <3>1. DOMAIN out' = DOMAIN out \cup {Len(out')}
      BY <1>2, <2>3
    <3> QED
      BY <1>1, <2>1, <2>3, <3>1 DEF MemInv
  <2> QED
    BY <1>1, <2>7, <2>8, <2>9 DEF MemInv
<1> QED
  BY <1>3, <1>4

LEMMA MemInvNext ==
    ASSUME WalInv, CostInv, MemInv, [LoggedNext]_loggedVars
    PROVE  MemInv'
<1>1. CASE Write
  BY <1>1, WriteKeepsMemory
<1>2. CASE WriteFails
  <2>1. /\ replay # "on" /\ replay' = "off" /\ flips' = flips
        /\ memtable' = memtable /\ tables' = tables /\ last + 1 \in Ids
        /\ \/ whole' = whole /\ unanswered' = unanswered
           \/ /\ whole' = whole \cup {last + 1}
              /\ unanswered' = unanswered \cup {last + 1}
    BY <1>2 DEF WriteFails, AppendTorn, AppendRecord, Stop
  <2>2. last + 1 \notin whole
    BY DEF WalInv, Written
  <2>3. whole' \ unanswered' = whole \ unanswered
    BY <2>1, <2>2
  <2>4. flips = 0 => Served = Overlay(Newest(whole \ unanswered), tables)
    BY <2>1, SettledMemory
  <2> QED
    BY <2>1, <2>3, <2>4 DEF MemInv, Served
<1>3. CASE Damage
  <2>1. /\ replay' = "off" /\ flips' = flips + 1
        /\ UNCHANGED <<whole, memtable, unanswered>>
    BY <1>3 DEF Damage, Flip, Stop
  <2>2. flips' # 0
    BY <2>1 DEF CostInv
  <2> QED
    BY <2>1, <2>2 DEF MemInv
<1>4. CASE Flush
  <2>1. /\ replay' = "off" /\ whole' = {} /\ memtable' = NewMemTable
        /\ unanswered' = {}
    BY <1>4 DEF Flush, Truncate, Stop
  <2>2. whole' \ unanswered' = {}
    BY <2>1
  <2> QED
    BY <2>1, <2>2, NewIsSized DEF MemInv, Served
<1>5. CASE Start
  <2>1. /\ replay' = "on" /\ out' = <<>> /\ memtable' = NewMemTable
        /\ unanswered' = {}
    BY <1>5 DEF Start, StartReplay
  <2>2. DOMAIN out' = {} /\ Range(out') = {}
    BY <2>1, EmptySeq DEF Range
  <2> QED
    BY <2>1, <2>2, NewIsSized DEF MemInv
<1>6. CASE Rebuild
  BY <1>6, RebuildKeepsMemory
<1>7. CASE UNCHANGED loggedVars
  BY <1>7 DEF loggedVars, walVars, MemInv, Served, Newest, Range
<1>8. CASE FlushFails
  <2>1. /\ replay # "on" /\ replay' = "off"
        /\ UNCHANGED <<whole, flips, unanswered>>
        /\ tables' = Overlay(memtable.inner, tables)
        /\ memtable' = memtable \/ memtable' = NewMemTable
    BY <1>8 DEF FlushFails, TruncateFails, Stop
  <2>2. ASSUME flips = 0
        PROVE  Served' = Overlay(Newest(whole \ unanswered), tables')
    <3>1. Overlay(memtable'.inner, tables') = tables'
      <4>1. DOMAIN NewMemTable.inner = {}
        BY EmptySeq DEF NewMemTable
      <4>2. Overlay(memtable.inner, Overlay(memtable.inner, tables)) =
               Overlay(memtable.inner, tables)
        BY OverlayAgain
      <4>3. Overlay(NewMemTable.inner, Overlay(memtable.inner, tables)) =
               Overlay(memtable.inner, tables)
        BY <4>1, OverlayNothing
      <4>4. CASE memtable' = memtable
        BY <2>1, <4>2, <4>4
      <4>5. CASE memtable' = NewMemTable
        BY <2>1, <4>3, <4>5
      <4> QED
        BY <2>1, <4>4, <4>5
    <3>2. tables' = Overlay(Newest(whole \ unanswered), tables)
      BY <2>1, <2>2, SettledMemory DEF Served
    <3>3. Overlay(Newest(whole \ unanswered), tables') = tables'
      BY <3>2, OverlayAgain
    <3> QED
      BY <3>1, <3>3 DEF Served
  <2>3. Sized(memtable')
    BY <2>1, NewIsSized DEF MemInv
  <2> QED
    BY <2>1, <2>2, <2>3 DEF MemInv
<1> QED
  BY <1>1, <1>2, <1>3, <1>4, <1>5, <1>6, <1>7, <1>8 DEF LoggedNext

(* The log and its memtable together keep all of this. *)
LoggedInv == WalInv /\ CostInv /\ MemInv

LEMMA LoggedInvHolds == LoggedSpec => []LoggedInv
<1>1. LoggedInit => LoggedInv
  BY WalInvInit, CostInvInit, MemInvInit DEF LoggedInit, LoggedInv
<1>2. LoggedInv /\ [LoggedNext]_loggedVars => LoggedInv'
  BY LoggedStepIsStep, WalInvNext, CostInvNext, MemInvNext DEF LoggedInv
<1> QED
  BY <1>1, <1>2, PTL DEF LoggedSpec

(* The log with a memtable is the log: what holds of its file and its replay
   holds here (Log::write, from_file). *)
THEOREM LoggedIsWal == LoggedSpec => Spec
<1>1. LoggedInit => Init
  BY DEF LoggedInit
<1> QED
  BY <1>1, LoggedStepIsStep, PTL DEF LoggedSpec, Spec

(* The size by which a flush is decided is that of the entries, for any
   entries and sizes and however often a key is written (process). *)
THEOREM SizeIsSumHolds == LoggedSpec => []SizeIsSum
<1>1. LoggedInv => SizeIsSum
  <2> SUFFICES ASSUME Sized(memtable) PROVE SizeIsSum
    BY DEF LoggedInv, MemInv
  <2>1. memtable.size = Cardinality(Bytes(memtable))
    BY DEF Sized
  <2>2. DOMAIN memtable.inner = {} => memtable.size = 0
    <3>1. DOMAIN memtable.inner = {} => Bytes(memtable) = {}
      BY DEF Bytes
    <3> QED
      BY <2>1, <3>1, FS_EmptySet
  <2> QED
    BY <2>1, <2>2 DEF SizeIsSum, IsEmpty
<1> QED
  BY <1>1, LoggedInvHolds, PTL

(* A restart serves each key from the newest of its intact records, whatever
   was cut off or changed, for any number of records (from_file). *)
THEOREM NewestIntactIsServed == LoggedSpec => []NewestIntactServed
<1>1. LoggedInv => NewestIntactServed
  <2> SUFFICES ASSUME WalInv, CostInv, MemInv, replay = "done"
               PROVE  memtable.inner = Newest(OnDisk)
    BY DEF LoggedInv, NewestIntactServed
  <2>1. Len(file) \in Nat /\ DOMAIN file = 1 .. Len(file)
    BY FileDomain DEF WalInv, Written
  <2>2. ASSUME NEW r \in Range(out)
        PROVE  r \in OnDisk
    <3>1. PICK i \in DOMAIN out : out[i] = r
      BY DEF Range
    <3>2. r \in Ids
      BY <3>1, ElementOfSeq, LenProperties DEF WalInv, Written, Returned
    <3>3. PICK p \in Nat : IntactAt(file, p, r)
      BY <3>1 DEF MemInv
    <3>4. p + 1 \in DOMAIN file
      BY <2>1, <3>2, <3>3, IntactCells
    <3> QED
      BY <2>1, <3>2, <3>3, <3>4 DEF OnDisk
  <2>3. OnDisk \subseteq Range(out)
    BY <2>1 DEF OnDisk, CostInv, Range
  <2>4. OnDisk = Range(out)
    BY <2>2, <2>3
  <2> QED
    BY <2>4 DEF MemInv
<1> QED
  BY <1>1, LoggedInvHolds, PTL

(* As long as no byte has changed, what is served is what a restart would
   serve, but for the failed writes that it shows besides, for any number of
   records, restarts, torn appends and flushes that cleared the memtable and
   failed to empty the file (write, flush, from_file). *)
THEOREM RestartsChangeNothing == LoggedSpec => []RestartChangesNothing
<1>1. LoggedInv => RestartChangesNothing
  BY SettledMemory DEF LoggedInv, RestartChangesNothing
<1> QED
  BY <1>1, LoggedInvHolds, PTL
=============================================================================
