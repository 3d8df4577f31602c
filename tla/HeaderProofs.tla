---------------------------- MODULE HeaderProofs ----------------------------
(***************************************************************************)
(* What the reader of records finds in a file whose records were written   *)
(* in ascending order, whatever was cut off and whatever bytes changed:    *)
(* the log and the tables share these facts.                               *)
(***************************************************************************)
EXTENDS Header, Extrema, SequenceTheorems

(* Cell i of the file is cell n of record r. *)
IsCell(file, i, r, n) == file[i] = [rec |-> r, at |-> n]

RecordCells == [rec : Ids, at : Nat]

(* The cells that are left of records stand in ascending order: of the
   records, and within one. *)
Ascending(file) ==
    \A i, j \in DOMAIN file : \A r, s \in Ids : \A n, m \in Nat :
        i < j /\ IsCell(file, i, r, n) /\ IsCell(file, j, s, m) =>
            r < s \/ (r = s /\ n < m)

(* A record that is intact at p fills the cells from there on. *)
LEMMA IntactCells ==
    ASSUME NEW file, Len(file) \in Nat, DOMAIN file = 1 .. Len(file),
           NEW p \in Nat, NEW r \in Ids, IntactAt(file, p, r)
    PROVE  /\ RecLen[r] \in Nat /\ RecLen[r] > 1
           /\ p + 1 \in DOMAIN file /\ IsCell(file, p + 1, r, 1)
           /\ p + RecLen[r] \in DOMAIN file
           /\ IsCell(file, p + RecLen[r], r, RecLen[r])
<1>1. RecLen[r] \in Nat /\ RecLen[r] > 1
  BY RecLenAssumption
<1>2. 1 \in 1 .. RecLen[r] /\ RecLen[r] \in 1 .. RecLen[r]
  BY <1>1
<1>3. \A i \in 1 .. RecLen[r] : file[p + i] = [rec |-> r, at |-> i]
  BY DEF IntactAt
<1>4. p + RecLen[r] <= Len(file)
  BY DEF IntactAt
<1>5. IsCell(file, p + 1, r, 1) /\ IsCell(file, p + RecLen[r], r, RecLen[r])
  BY <1>2, <1>3 DEF IsCell
<1> QED
  BY <1>1, <1>4, <1>5

(* A read finds the first intact record, or there is none from the cursor on,
   and the cursor moves past it and stays in the file (header_read_next). *)
LEMMA ReadNextFinds ==
    ASSUME NEW file, Len(file) \in Nat, DOMAIN file = 1 .. Len(file),
           NEW pos \in 0 .. Len(file)
    PROVE  LET next == ReadNext(file, pos)
           IN  /\ next.pos \in 0 .. Len(file)
               /\ next.entry = None =>
                     \A p \in Nat, r \in Ids : pos <= p => ~IntactAt(file, p, r)
               /\ next.entry # None =>
                     \E p \in Nat :
                        /\ pos <= p
                        /\ next.entry \in Ids
                        /\ IntactAt(file, p, next.entry)
                        /\ next.pos = p + RecLen[next.entry]
                        /\ \A q \in pos .. p - 1, r \in Ids : ~IntactAt(file, q, r)
<1> DEFINE S == Starts(file, pos)
           next == ReadNext(file, pos)
<1>1. S \in SUBSET Nat
  BY DEF Starts
<1>2. ASSUME NEW p \in Nat, NEW r \in Ids, pos <= p, IntactAt(file, p, r)
      PROVE  p \in S
  <2>1. p + 1 \in DOMAIN file
    BY <1>2, IntactCells
  <2> QED
    BY <1>2, <2>1 DEF Starts
<1>3. CASE S = {}
  BY <1>2, <1>3 DEF ReadNext
<1>4. CASE S # {}
  <2> DEFINE p == Min(S)
             r == EntryAt(file, p)
  <2>1. p \in S /\ \A q \in S : p <= q
    BY <1>1, <1>4, MinIsLeast
  <2>2. p \in Nat /\ pos <= p /\ p <= Len(file) - 1
    BY <2>1 DEF Starts
  <2>3. r \in Ids /\ IntactAt(file, p, r)
    BY <2>1 DEF Starts, EntryAt
  <2>4. next.entry = r /\ next.pos = p + RecLen[r]
    BY <1>4 DEF ReadNext
  <2> HIDE DEF S, p, r, next
  <2>5. RecLen[r] \in Nat /\ p + RecLen[r] \in DOMAIN file
    BY <2>2, <2>3, IntactCells
  <2>6. next.pos \in 0 .. Len(file)
    BY <2>2, <2>4, <2>5
  <2>7. ASSUME NEW q \in pos .. p - 1, NEW s \in Ids
        PROVE  ~IntactAt(file, q, s)
    BY <1>2, <2>1, <2>2
  <2>8. next.entry # None
    BY <2>3, <2>4, RecLenAssumption
  <2> QED
    BY <2>2, <2>3, <2>4, <2>6, <2>7, <2>8 DEF next
<1> QED
  BY <1>3, <1>4

(* Two records that are intact do not overlap. *)
LEMMA IntactApart ==
    ASSUME NEW file, Len(file) \in Nat, DOMAIN file = 1 .. Len(file),
           NEW p \in Nat, NEW r \in Ids, IntactAt(file, p, r),
           NEW q \in Nat, NEW s \in Ids, IntactAt(file, q, s),
           p <= q, q < p + RecLen[r]
    PROVE  p = q /\ r = s
<1>1. RecLen[r] \in Nat
  BY RecLenAssumption
<1>2. IsCell(file, q + 1, s, 1)
  BY IntactCells
<1>3. (q - p) + 1 \in 1 .. RecLen[r] /\ p + ((q - p) + 1) = q + 1
  BY <1>1
<1>4. file[q + 1] = [rec |-> r, at |-> (q - p) + 1]
  BY <1>3 DEF IntactAt
<1>5. r = s /\ (q - p) + 1 = 1
  BY <1>2, <1>4 DEF IsCell
<1> QED
  BY <1>5

(* What is intact and ends up behind the cursor was behind it before or is
   what the read has returned: a read passes over no record. *)
LEMMA ReadNextPasses ==
    ASSUME NEW file, Len(file) \in Nat, DOMAIN file = 1 .. Len(file),
           NEW pos \in 0 .. Len(file),
           NEW q \in Nat, NEW s \in Ids, IntactAt(file, q, s), pos <= q,
           ReadNext(file, pos).entry = None \/ q < ReadNext(file, pos).pos
    PROVE  s = ReadNext(file, pos).entry
<1> DEFINE next == ReadNext(file, pos)
<1>1. /\ next.entry = None =>
            \A p \in Nat, r \in Ids : pos <= p => ~IntactAt(file, p, r)
      /\ next.entry # None =>
            \E p \in Nat :
               /\ pos <= p
               /\ next.entry \in Ids
               /\ IntactAt(file, p, next.entry)
               /\ next.pos = p + RecLen[next.entry]
               /\ \A k \in pos .. p - 1, r \in Ids : ~IntactAt(file, k, r)
  <2> HIDE DEF next
  <2> QED
    BY ReadNextFinds DEF next
<1>2. next.entry # None /\ q < next.pos
  BY <1>1
<1> HIDE DEF next
<1>3. PICK p \in Nat : /\ pos <= p
                       /\ next.entry \in Ids
                       /\ IntactAt(file, p, next.entry)
                       /\ next.pos = p + RecLen[next.entry]
                       /\ \A k \in pos .. p - 1, r \in Ids : ~IntactAt(file, k, r)
  BY <1>1, <1>2
<1>4. p <= q
  BY <1>3
<1>5. s = next.entry
  BY <1>2, <1>3, <1>4, IntactApart
<1> QED
  BY <1>5 DEF next

(* What is intact behind a record was written after it. *)
LEMMA LaterIsGreater ==
    ASSUME NEW file, Len(file) \in Nat, DOMAIN file = 1 .. Len(file),
           Ascending(file), Ids \subseteq Nat,
           NEW p \in Nat, NEW r \in Ids, IntactAt(file, p, r),
           NEW q \in Nat, NEW s \in Ids, IntactAt(file, q, s),
           p + RecLen[r] <= q
    PROVE  r < s
<1>1. /\ RecLen[r] \in Nat /\ RecLen[r] > 1
      /\ p + RecLen[r] \in DOMAIN file
      /\ IsCell(file, p + RecLen[r], r, RecLen[r])
  BY IntactCells
<1>2. q + 1 \in DOMAIN file /\ IsCell(file, q + 1, s, 1)
  BY IntactCells
<1>3. p + RecLen[r] < q + 1
  BY <1>1
<1>4. r < s \/ (r = s /\ RecLen[r] < 1)
  BY <1>1, <1>2, <1>3 DEF Ascending
<1> QED
  BY <1>1, <1>4

(* The first cells of record r behind a file, as an append leaves them. *)
LEMMA AppendedCells ==
    ASSUME NEW Others, NEW file \in Seq(RecordCells \cup Others), NEW tail,
           NEW l \in Ids, NEW n \in Nat,
           tail \in [1 .. n -> RecordCells],
           \A i \in 1 .. n : tail[i] = [rec |-> l, at |-> i]
    PROVE  /\ file \o tail \in Seq(RecordCells \cup Others)
           /\ DOMAIN (file \o tail) = 1 .. Len(file) + n
           /\ \A i \in DOMAIN file : (file \o tail)[i] = file[i]
           /\ \A i \in 1 .. n : (file \o tail)[Len(file) + i] = [rec |-> l, at |-> i]
<1> DEFINE C == RecordCells \cup Others
<1>1. file \in Seq(C) /\ Len(file) \in Nat /\ DOMAIN file = 1 .. Len(file)
  BY LenProperties
<1>2. tail \in [1 .. n -> C]
  OBVIOUS
<1>3. tail \in Seq(C) /\ Len(tail) = n
  BY <1>2, IsASeq, LenProperties
<1> HIDE DEF C
<1>4. file \o tail \in Seq(C) /\ Len(file \o tail) = Len(file) + n
  BY <1>1, <1>3, ConcatProperties
<1>5. DOMAIN (file \o tail) = 1 .. Len(file) + n
  BY <1>1, <1>4, LenProperties
<1>6. \A i \in 1 .. Len(file) + n :
         (file \o tail)[i] = IF i <= Len(file) THEN file[i] ELSE tail[i - Len(file)]
  BY <1>1, <1>3, ConcatProperties
<1>7. \A i \in DOMAIN file : (file \o tail)[i] = file[i]
  BY <1>1, <1>6
<1>8. ASSUME NEW i \in 1 .. n
      PROVE  (file \o tail)[Len(file) + i] = [rec |-> l, at |-> i]
  <2>1. /\ Len(file) + i \in 1 .. Len(file) + n
        /\ ~(Len(file) + i <= Len(file)) /\ (Len(file) + i) - Len(file) = i
    BY <1>1
  <2> QED
    BY <1>6, <2>1
<1> QED
  BY <1>4, <1>5, <1>7, <1>8 DEF C

(* An append keeps the order if its record comes after all there are. *)
LEMMA AppendAscending ==
    ASSUME NEW Others, NEW file \in Seq(RecordCells \cup Others),
           Ascending(file), Ids \subseteq Nat, NEW tail, NEW l \in Ids, NEW n \in Nat,
           tail \in [1 .. n -> RecordCells],
           \A i \in 1 .. n : tail[i] = [rec |-> l, at |-> i],
           \A i \in DOMAIN file, r \in Ids, m \in Nat : IsCell(file, i, r, m) => r < l
    PROVE  Ascending(file \o tail)
<1> DEFINE new == file \o tail
<1>1. Len(file) \in Nat /\ DOMAIN file = 1 .. Len(file)
  BY LenProperties
<1>2. /\ DOMAIN new = 1 .. Len(file) + n
      /\ \A i \in DOMAIN file : new[i] = file[i]
      /\ \A i \in 1 .. n : new[Len(file) + i] = [rec |-> l, at |-> i]
  BY AppendedCells
<1> HIDE DEF new
<1>3. ASSUME NEW i \in DOMAIN new, i > Len(file), NEW r \in Ids, NEW m \in Nat,
             IsCell(new, i, r, m)
      PROVE  r = l /\ m = i - Len(file)
  <2>1. i - Len(file) \in 1 .. n /\ Len(file) + (i - Len(file)) = i
    BY <1>1, <1>2, <1>3
  <2>2. new[i] = [rec |-> l, at |-> i - Len(file)]
    BY <1>2, <2>1
  <2> QED
    BY <1>3, <2>2 DEF IsCell
<1> SUFFICES ASSUME NEW i \in DOMAIN new, NEW j \in DOMAIN new, i < j,
                    NEW r \in Ids, NEW s \in Ids, NEW p \in Nat, NEW q \in Nat,
                    IsCell(new, i, r, p), IsCell(new, j, s, q)
             PROVE  r < s \/ (r = s /\ p < q)
  BY DEF Ascending, new
<1>4. CASE j <= Len(file)
  <2>1. i \in DOMAIN file /\ j \in DOMAIN file
    BY <1>1, <1>2, <1>4
  <2>2. IsCell(file, i, r, p) /\ IsCell(file, j, s, q)
    BY <1>2, <2>1 DEF IsCell
  <2> QED
    BY <2>1, <2>2 DEF Ascending
<1>5. CASE j > Len(file) /\ i <= Len(file)
  <2>1. i \in DOMAIN file
    BY <1>1, <1>2, <1>5
  <2>2. IsCell(file, i, r, p)
    BY <1>2, <2>1 DEF IsCell
  <2>3. r < l
    BY <2>1, <2>2
  <2>4. s = l
    BY <1>3, <1>5
  <2> QED
    BY <2>3, <2>4
<1>6. CASE i > Len(file)
  <2>1. j > Len(file)
    BY <1>1, <1>2, <1>6
  <2>2. r = l /\ s = l /\ p = i - Len(file) /\ q = j - Len(file)
    BY <1>3, <1>6, <2>1
  <2> QED
    BY <1>1, <1>2, <2>2
<1> QED
  BY <1>1, <1>2, <1>4, <1>5, <1>6

(* A byte that changes, a file that is cut short and cells of other kinds
   keep the order. *)
LEMMA DamagedAscending ==
    ASSUME NEW file, Ascending(file), NEW new,
           \A i \in DOMAIN new, r \in Ids, n \in Nat :
              IsCell(new, i, r, n) => i \in DOMAIN file /\ IsCell(file, i, r, n)
    PROVE  Ascending(new)
BY DEF Ascending
=============================================================================
