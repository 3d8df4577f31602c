---------------------------- MODULE TableProofs ----------------------------
(***************************************************************************)
(* What holds of a table's Bloom filter, of what a table serves, and of    *)
(* its merge with two others, for every hash function, every size of the   *)
(* filter, every memtable and every damage.                                *)
(***************************************************************************)
EXTENDS MergedTables, HeaderProofs, FiniteSetTheorems, TLAPS

-----------------------------------------------------------------------------
(* A position is an index below bit_count: the modulus is never left out and
   never zero (positions, checked_rem). *)
LEMMA PositionInRange ==
    ASSUME NEW h \in Hashes, NEW n \in Nat
    PROVE  \A p \in Positions(h, n) : p \in Nat /\ p < n
<1>1. CASE n = 0
  BY <1>1 DEF Positions
<1>2. CASE n # 0
  <2> SUFFICES ASSUME NEW i \in 0 .. Rounds - 1
               PROVE  LET s == (h[1] + ((i * h[2]) % Word)) % Word
                      IN  s % n \in Nat /\ s % n < n
    BY <1>2 DEF Positions
  <2>1. h[1] \in Nat /\ h[2] \in Nat /\ i \in Nat /\ Word \in Nat \ {0}
    BY WordAssumption DEF Hashes
  <2>2. i * h[2] \in Int
    BY <2>1
  <2>3. (i * h[2]) % Word \in Int
    BY <2>1, <2>2
  <2>4. (h[1] + ((i * h[2]) % Word)) % Word \in Int
    BY <2>1, <2>3
  <2> QED
    BY <1>2, <2>4
<1> QED
  BY <1>1, <1>2

(* The array new allocates has a byte for every position that insert and
   may_contain ask for: get and get_mut never return None. *)
THEOREM ByteForEveryPosition ==
    ASSUME NEW n \in Nat
    PROVE  EveryPositionHasAByte(n)
<1> SUFFICES ASSUME NEW h \in Hashes, NEW p \in Positions(h, n)
             PROVE  p \div 8 \in 0 .. ByteCount(n) - 1
  BY DEF EveryPositionHasAByte
<1>1. p \in Nat /\ p < n
  BY PositionInRange
<1> QED
  BY <1>1 DEF ByteCount

-----------------------------------------------------------------------------
(* insert and may_contain. *)

IsFilter(f) ==
    f \in [bit_count : Nat, inner : [0 .. ByteCount(f.bit_count) - 1 -> Byte]]

LEMMA NewFilterIsFilter ==
    ASSUME NEW n \in Nat
    PROVE  IsFilter(NewFilter(n)) /\ NewFilter(n).bit_count = n
BY DEF IsFilter, NewFilter, Byte

(* insert keeps the size of the filter, clears no bit, and sets the bits of
   all positions of its key. *)
LEMMA InsertSets ==
    ASSUME NEW f, IsFilter(f), NEW h \in Hashes
    PROVE  LET g == Insert(f, h)
           IN  /\ IsFilter(g)
               /\ g.bit_count = f.bit_count
               /\ DOMAIN g.inner = DOMAIN f.inner
               /\ \A b \in DOMAIN f.inner :
                     g.inner[b] = f.inner[b] \cup BitsOf(Positions(h, f.bit_count), b)
<1> DEFINE at == Positions(h, f.bit_count)
           inner == [b \in DOMAIN f.inner |-> f.inner[b] \cup BitsOf(at, b)]
           g == Insert(f, h)
<1>1. g = [bit_count |-> f.bit_count, inner |-> inner]
  <2> DEFINE old == f.inner
             n   == f.bit_count
  <2>1. f = [bit_count |-> n, inner |-> old]
    BY DEF IsFilter
  <2>2. g = [f EXCEPT !.inner = inner]
    BY DEF Insert
  <2> HIDE DEF old, n, inner, g
  <2>3. g = [bit_count |-> n, inner |-> inner]
    BY <2>1, <2>2
  <2> QED
    BY <2>3 DEF n
<1>2. inner \in [0 .. ByteCount(f.bit_count) - 1 -> Byte]
  <2> SUFFICES ASSUME NEW b \in DOMAIN f.inner
               PROVE  f.inner[b] \cup BitsOf(at, b) \in Byte
    BY DEF IsFilter
  <2>1. f.inner[b] \in Byte
    BY DEF IsFilter
  <2>2. \A p \in at : p \in Nat
    BY PositionInRange DEF IsFilter
  <2>3. BitsOf(at, b) \subseteq 0..7
    BY <2>2 DEF BitsOf
  <2> QED
    BY <2>1, <2>3 DEF Byte
<1> QED
  BY <1>1, <1>2 DEF IsFilter

(* A key that is inserted is found. *)
LEMMA InsertedIsContained ==
    ASSUME NEW f, IsFilter(f), NEW h \in Hashes
    PROVE  MayContain(Insert(f, h), h)
<1> DEFINE g == Insert(f, h)
<1> SUFFICES ASSUME NEW p \in Positions(h, g.bit_count), p \div 8 \in DOMAIN g.inner
             PROVE  p % 8 \in g.inner[p \div 8]
  BY DEF MayContain
<1>1. p \in Positions(h, f.bit_count) /\ p \div 8 \in DOMAIN f.inner
  BY InsertSets
<1>2. p % 8 \in BitsOf(Positions(h, f.bit_count), p \div 8)
  BY <1>1 DEF BitsOf
<1> QED
  BY <1>1, <1>2, InsertSets

(* A key that was found is found after any other insertion. *)
LEMMA ContainedStays ==
    ASSUME NEW f, IsFilter(f), NEW h \in Hashes, NEW other \in Hashes,
           MayContain(f, h)
    PROVE  MayContain(Insert(f, other), h)
<1> DEFINE g == Insert(f, other)
<1> SUFFICES ASSUME NEW p \in Positions(h, g.bit_count), p \div 8 \in DOMAIN g.inner
             PROVE  p % 8 \in g.inner[p \div 8]
  BY DEF MayContain
<1>1. p \in Positions(h, f.bit_count) /\ p \div 8 \in DOMAIN f.inner
  BY InsertSets
<1>2. p % 8 \in f.inner[p \div 8]
  BY <1>1 DEF MayContain
<1> QED
  BY <1>1, <1>2, InsertSets

-----------------------------------------------------------------------------
(* The filter of a table that is being written. *)

FilterInv ==
    /\ keys \in SUBSET Ids
    /\ todo \in SUBSET keys
    /\ hash \in [keys -> Hashes]
    /\ IsFilter(bloom)
    /\ NoFalseNegatives

LEMMA FilterInvInit == Init => FilterInv
<1> SUFFICES ASSUME Init PROVE FilterInv
  OBVIOUS
<1>1. keys \in SUBSET Ids /\ todo = keys /\ hash \in [keys -> Hashes]
  BY TableAssumption DEF Init
<1>2. Cardinality(keys) \in Nat
  BY <1>1, TableAssumption, FS_Subset, FS_CardinalityType
<1>3. IsFilter(bloom)
  BY <1>2, NewFilterIsFilter DEF Init
<1> QED
  BY <1>1, <1>3 DEF FilterInv, NoFalseNegatives

LEMMA FilterInvNext == FilterInv /\ [Next]_tableVars => FilterInv'
<1> SUFFICES ASSUME FilterInv, [Next]_tableVars PROVE FilterInv'
  OBVIOUS
<1> USE DEF FilterInv
<1>1. CASE WriteEntry
  <2> DEFINE k == Min(todo)
  <2>1. k \in todo
    <3>1. todo # {} /\ todo \in SUBSET Nat
      BY <1>1, TableAssumption DEF WriteEntry
    <3> QED
      BY <3>1, MinIsLeast
  <2>2. CASE k \in keys
    <3>1. bloom' = Insert(bloom, hash[k]) /\ UNCHANGED <<keys, hash>>
          /\ todo' = todo \ {k}
      BY <1>1 DEF WriteEntry, fixed
    <3>2. hash[k] \in Hashes
      BY <2>2
    <3>3. IsFilter(bloom')
      BY <3>1, <3>2, InsertSets
    <3>4. ASSUME NEW l \in keys \ todo'
          PROVE  MayContain(bloom', hash[l])
      <4>1. CASE l = k
        BY <4>1, <3>1, <3>2, InsertedIsContained
      <4>2. CASE l # k
        <5>1. l \in keys \ todo /\ hash[l] \in Hashes
          BY <4>2, <3>1
        <5>2. MayContain(bloom, hash[l])
          BY <5>1 DEF NoFalseNegatives
        <5> QED
          BY <5>1, <5>2, <3>1, <3>2, ContainedStays
      <4> QED
        BY <4>1, <4>2
    <3> QED
      BY <3>1, <3>3, <3>4 DEF NoFalseNegatives
  <2> QED
    BY <2>1, <2>2
<1>2. CASE ~WriteEntry
  <2>1. UNCHANGED <<keys, hash, bloom, todo>>
    BY <1>2 DEF Next, WriteFooter, Cut, Flip, FromPath, Refuse, ReadNextEntry,
                tableVars, fixed, writer
  <2> QED
    BY <2>1 DEF NoFalseNegatives
<1> QED
  BY <1>1, <1>2

(* may_contain is right when it says no, for every entry flush_to has
   written, whatever the hashes of the keys are. *)
THEOREM NoFalseNegativesHolds == Spec => []NoFalseNegatives
<1>1. FilterInv => NoFalseNegatives
  BY DEF FilterInv
<1> QED
  BY FilterInvInit, FilterInvNext, <1>1, PTL DEF Spec

-----------------------------------------------------------------------------
(* The file and its scan. *)

OtherCells == BitsCell \cup CountCell \cup {Bad}

IsTableFile(f) == f \in Seq(RecordCells \cup OtherCells)

(* What is written: the records of the keys that are not left to write, in
   ascending order, and the keys that are come after them. *)
WrittenInv ==
    /\ keys \in SUBSET Ids
    /\ todo \in SUBSET keys
    /\ IsTableFile(file)
    /\ Ascending(file)
    /\ \A i \in DOMAIN file, r \in Ids, n \in Nat :
          IsCell(file, i, r, n) => r \in keys \ todo
    /\ \A r \in keys \ todo, k \in todo : r < k

(* What a scan has returned comes before anything that is to come. *)
ScanInv ==
    /\ stage \in {"writing", "written", "cut", "open", "read", "refused"}
    /\ cursor \in 0 .. Len(file)
    /\ out \in Seq(keys \ todo)
    /\ \A i, j \in DOMAIN out : i < j => out[i] < out[j]
    /\ stage \in {"writing", "written", "cut"} => cursor = 0 /\ out = <<>>
    /\ stage = "open" =>
          \A p \in Nat, r \in Ids :
             cursor <= p /\ IntactAt(file, p, r) => \A i \in DOMAIN out : out[i] < r

LEMMA TableFileDomain ==
    ASSUME NEW f, IsTableFile(f)
    PROVE  Len(f) \in Nat /\ DOMAIN f = 1 .. Len(f)
BY LenProperties DEF IsTableFile

LEMMA TableAppend ==
    ASSUME NEW f \in Seq(RecordCells \cup OtherCells), NEW tail,
           NEW r \in Ids, NEW n \in Nat, tail \in [1 .. n -> RecordCells],
           \A i \in 1 .. n : tail[i] = [rec |-> r, at |-> i]
    PROVE  /\ f \o tail \in Seq(RecordCells \cup OtherCells)
           /\ DOMAIN (f \o tail) = 1 .. Len(f) + n
           /\ \A i \in DOMAIN f : (f \o tail)[i] = f[i]
           /\ \A i \in 1 .. n : (f \o tail)[Len(f) + i] = [rec |-> r, at |-> i]
BY AppendedCells

LEMMA NoRecordCells ==
    ASSUME NEW c \in OtherCells, NEW r \in Ids, NEW n \in Nat
    PROVE  c # [rec |-> r, at |-> n]
<1>1. CASE c \in BitsCell
  BY <1>1 DEF BitsCell
<1>2. CASE c \in CountCell
  BY <1>2 DEF CountCell
<1>3. CASE c = Bad
  BY <1>3, RecLenAssumption
<1> QED
  BY <1>1, <1>2, <1>3 DEF OtherCells

LEMMA ScanInvInit == Init => WrittenInv /\ ScanInv
<1> SUFFICES ASSUME Init PROVE WrittenInv /\ ScanInv
  OBVIOUS
<1>1. /\ file = <<>> /\ DOMAIN file = {} /\ Len(file) = 0
      /\ out = <<>> /\ DOMAIN out = {} /\ cursor = 0
  BY EmptySeq DEF Init
<1>2. IsTableFile(file) /\ out \in Seq(keys \ todo)
  BY <1>1, EmptySeq DEF IsTableFile
<1> QED
  BY <1>1, <1>2 DEF Init, WrittenInv, ScanInv, Ascending

(* The next record is that of the least key that is left. *)
LEMMA WriteEntryKeeps ==
    ASSUME WrittenInv, ScanInv, WriteEntry
    PROVE  WrittenInv' /\ ScanInv'
<1> DEFINE k == Min(todo)
<1>1. k \in todo /\ \A l \in todo : k <= l
  <2>1. todo # {} /\ todo \in SUBSET Nat
    BY TableAssumption DEF WriteEntry, WrittenInv
  <2> QED
    BY <2>1, MinIsLeast
<1>2. /\ file' = file \o Framed(k) /\ todo' = todo \ {k}
      /\ stage = "writing" /\ UNCHANGED <<keys, stage, cursor, out>>
  BY DEF WriteEntry, fixed, reader
<1> HIDE DEF k
<1>3. /\ k \in Ids /\ k \in keys /\ k \in Nat /\ Ids \subseteq Nat
      /\ keys \subseteq Ids /\ todo \subseteq keys
  BY <1>1, TableAssumption DEF WrittenInv
<1> DEFINE n == RecLen[k]
           tail == Framed(k)
<1>4. /\ n \in Nat
      /\ tail \in [1 .. n -> RecordCells]
      /\ \A i \in 1 .. n : tail[i] = [rec |-> k, at |-> i]
  BY <1>3, RecLenAssumption DEF Framed, RecordCells
<1>5. /\ file \in Seq(RecordCells \cup OtherCells)
      /\ Len(file) \in Nat /\ DOMAIN file = 1 .. Len(file)
  BY TableFileDomain DEF WrittenInv, IsTableFile
<1> HIDE DEF n, tail
<1>6. /\ file' \in Seq(RecordCells \cup OtherCells)
      /\ DOMAIN file' = 1 .. Len(file) + n
      /\ \A i \in DOMAIN file : file'[i] = file[i]
      /\ \A i \in 1 .. n : file'[Len(file) + i] = [rec |-> k, at |-> i]
  <2>1. /\ file \o tail \in Seq(RecordCells \cup OtherCells)
        /\ DOMAIN (file \o tail) = 1 .. Len(file) + n
        /\ \A i \in DOMAIN file : (file \o tail)[i] = file[i]
        /\ \A i \in 1 .. n : (file \o tail)[Len(file) + i] = [rec |-> k, at |-> i]
    BY <1>3, <1>4, <1>5, TableAppend
  <2> QED
    BY <1>2, <2>1 DEF tail
<1>7. Ascending(file')
  <2>1. \A i \in DOMAIN file, r \in Ids, m \in Nat : IsCell(file, i, r, m) => r < k
    BY <1>1 DEF WrittenInv
  <2>2. Ascending(file)
    BY DEF WrittenInv
  <2>3. Ascending(file \o tail)
    BY <1>3, <1>4, <1>5, <2>1, <2>2, AppendAscending
  <2> QED
    BY <1>2, <2>3 DEF tail
<1>8. ASSUME NEW i \in DOMAIN file', NEW r \in Ids, NEW m \in Nat, IsCell(file', i, r, m)
      PROVE  r \in keys' \ todo'
  <2>1. CASE i <= Len(file)
    <3>1. i \in DOMAIN file
      BY <1>5, <1>6, <2>1
    <3>2. IsCell(file, i, r, m)
      BY <1>6, <1>8, <3>1 DEF IsCell
    <3> QED
      BY <1>2, <3>1, <3>2 DEF WrittenInv
  <2>2. CASE i > Len(file)
    <3>1. i - Len(file) \in 1 .. n /\ Len(file) + (i - Len(file)) = i
      BY <1>4, <1>5, <1>6, <2>2
    <3>2. file'[i] = [rec |-> k, at |-> i - Len(file)]
      BY <1>6, <3>1
    <3>3. r = k
      BY <1>8, <3>2 DEF IsCell
    <3> QED
      BY <1>2, <1>3, <3>3
  <2> QED
    BY <1>5, <1>6, <2>1, <2>2
<1>9. \A r \in keys' \ todo', l \in todo' : r < l
  <2> SUFFICES ASSUME NEW r \in keys \ (todo \ {k}), NEW l \in todo \ {k}
               PROVE  r < l
    BY <1>2
  <2>1. r \in Nat /\ l \in Nat
    BY <1>3
  <2>2. CASE r = k
    BY <1>1, <1>3, <2>1, <2>2
  <2>3. CASE r # k
    BY <2>3 DEF WrittenInv
  <2> QED
    BY <2>2, <2>3
<1>10. WrittenInv'
  BY <1>2, <1>3, <1>6, <1>7, <1>8, <1>9 DEF WrittenInv, IsTableFile
<1>11. ScanInv'
  <2>1. out' = <<>> /\ cursor' = 0 /\ DOMAIN out' = {} /\ out' \in Seq(keys' \ todo')
    BY <1>2, EmptySeq DEF ScanInv
  <2>2. Len(file') \in Nat
    BY <1>10, LenProperties DEF WrittenInv, IsTableFile
  <2> QED
    BY <1>2, <2>1, <2>2 DEF ScanInv
<1> QED
  BY <1>10, <1>11

(* What writes no record: the footer, a cut and a changed byte. *)
LEMMA NoRecordAdded ==
    ASSUME WrittenInv, UNCHANGED <<keys, todo>>, IsTableFile(file'),
           \A i \in DOMAIN file', r \in Ids, n \in Nat :
              IsCell(file', i, r, n) => i \in DOMAIN file /\ IsCell(file, i, r, n)
    PROVE  WrittenInv'
<1>1. Ascending(file')
  BY DamagedAscending DEF WrittenInv
<1> QED
  BY <1>1 DEF WrittenInv

LEMMA FooterCells ==
    ASSUME NEW f, IsFilter(f)
    PROVE  /\ FooterLen(f.bit_count) \in Nat \ {0}
           /\ Footer(f) \in Seq(OtherCells)
           /\ Len(Footer(f)) = FooterLen(f.bit_count)
           /\ \A i \in 1 .. FooterLen(f.bit_count) : Footer(f)[i] \in OtherCells
<1> DEFINE n == FooterLen(f.bit_count)
<1>1. f.bit_count \in Nat /\ ByteCount(f.bit_count) \in Nat /\ n \in Nat \ {0}
  BY DEF IsFilter, FooterLen, ByteCount
<1>2. ASSUME NEW i \in 1 .. n
      PROVE  Footer(f)[i] \in OtherCells
  <2>1. CASE i <= ByteCount(f.bit_count)
    <3>1. i - 1 \in 0 .. ByteCount(f.bit_count) - 1
      BY <1>1, <2>1
    <3>2. f.inner[i - 1] \in Byte
      BY <3>1 DEF IsFilter
    <3>3. Footer(f)[i] = [bits |-> f.inner[i - 1]]
      BY <2>1 DEF Footer
    <3> QED
      BY <3>2, <3>3 DEF OtherCells, BitsCell
  <2>2. CASE ~(i <= ByteCount(f.bit_count))
    <3>1. Footer(f)[i] = [count |-> f.bit_count]
      BY <2>2 DEF Footer
    <3> QED
      BY <1>1, <3>1 DEF OtherCells, CountCell
  <2> QED
    BY <2>1, <2>2
<1> HIDE DEF n
<1>3. Footer(f) \in [1 .. n -> OtherCells]
  BY <1>2 DEF Footer, n
<1>4. Footer(f) \in Seq(OtherCells) /\ Len(Footer(f)) = n
  BY <1>1, <1>3, IsASeq, LenProperties
<1> QED
  BY <1>1, <1>2, <1>4 DEF n

LEMMA WriteFooterKeeps ==
    ASSUME WrittenInv, ScanInv, IsFilter(bloom), WriteFooter
    PROVE  WrittenInv' /\ ScanInv'
<1> DEFINE tail == Footer(bloom)
           C == RecordCells \cup OtherCells
<1>1. /\ file' = file \o tail /\ stage = "writing" /\ stage' = "written"
      /\ UNCHANGED <<keys, todo, cursor, out>>
  BY DEF WriteFooter, fixed, writer, reader
<1>2. /\ file \in Seq(C) /\ Len(file) \in Nat /\ DOMAIN file = 1 .. Len(file)
  BY TableFileDomain DEF WrittenInv, IsTableFile
<1>3. /\ tail \in Seq(OtherCells) /\ Len(tail) \in Nat
      /\ \A i \in 1 .. Len(tail) : tail[i] \in OtherCells
  BY FooterCells
<1>4. tail \in Seq(C)
  BY <1>3
<1> HIDE DEF tail, C
<1>5. file' \in Seq(C) /\ Len(file') = Len(file) + Len(tail)
  BY <1>1, <1>2, <1>4, ConcatProperties
<1>6. \A i \in 1 .. Len(file) + Len(tail) :
         file'[i] = IF i <= Len(file) THEN file[i] ELSE tail[i - Len(file)]
  BY <1>1, <1>2, <1>4, ConcatProperties
<1>7. ASSUME NEW i \in DOMAIN file', NEW r \in Ids, NEW n \in Nat, IsCell(file', i, r, n)
      PROVE  i \in DOMAIN file /\ IsCell(file, i, r, n)
  <2>1. i \in 1 .. Len(file) + Len(tail)
    BY <1>5, LenProperties
  <2>2. CASE i <= Len(file)
    BY <1>2, <1>6, <1>7, <2>1, <2>2 DEF IsCell
  <2>3. CASE i > Len(file)
    <3>1. i - Len(file) \in 1 .. Len(tail)
      BY <1>2, <1>3, <2>1, <2>3
    <3>2. file'[i] = tail[i - Len(file)]
      BY <1>2, <1>6, <2>1, <2>3
    <3>3. file'[i] \in OtherCells
      BY <1>3, <3>1, <3>2
    <3> QED
      BY <1>7, <3>3, NoRecordCells DEF IsCell
  <2> QED
    BY <1>2, <2>1, <2>2, <2>3
<1>8. WrittenInv'
  BY <1>1, <1>5, <1>7, NoRecordAdded DEF IsTableFile, C
<1>9. ScanInv'
  <2>1. out' = <<>> /\ cursor' = 0 /\ DOMAIN out' = {} /\ out' \in Seq(keys' \ todo')
    BY <1>1, EmptySeq DEF ScanInv
  <2> QED
    BY <1>1, <1>2, <1>3, <1>5, <2>1 DEF ScanInv
<1> QED
  BY <1>8, <1>9

LEMMA CutKeeps ==
    ASSUME WrittenInv, ScanInv, Cut
    PROVE  WrittenInv' /\ ScanInv'
<1> DEFINE C == RecordCells \cup OtherCells
<1>1. PICK n \in 0 .. Len(file) : file' = SubSeq(file, 1, n)
  BY DEF Cut
<1>2. /\ stage \in {"writing", "written"} /\ stage' = "cut"
      /\ UNCHANGED <<keys, todo, cursor, out>>
  BY DEF Cut, fixed, writer, reader
<1>3. /\ file \in Seq(C) /\ Len(file) \in Nat /\ DOMAIN file = 1 .. Len(file)
  BY TableFileDomain DEF WrittenInv, IsTableFile
<1> HIDE DEF C
<1>4. /\ file' \in Seq(C) /\ Len(file') = n /\ DOMAIN file' = 1 .. n
      /\ \A i \in 1 .. n : file'[i] = file[i]
  BY <1>1, <1>3
<1>5. WrittenInv'
  <2>1. \A i \in DOMAIN file', r \in Ids, m \in Nat :
           IsCell(file', i, r, m) => i \in DOMAIN file /\ IsCell(file, i, r, m)
    BY <1>3, <1>4 DEF IsCell
  <2> QED
    BY <1>2, <1>4, <2>1, NoRecordAdded DEF IsTableFile, C
<1>6. ScanInv'
  <2>1. out' = <<>> /\ cursor' = 0 /\ DOMAIN out' = {} /\ out' \in Seq(keys' \ todo')
    BY <1>2, EmptySeq DEF ScanInv
  <2> QED
    BY <1>2, <1>3, <1>4, <2>1 DEF ScanInv
<1> QED
  BY <1>5, <1>6

(* A changed byte makes no record of what was none. *)
LEMMA FlipKeeps ==
    ASSUME WrittenInv, ScanInv, Flip
    PROVE  WrittenInv' /\ ScanInv'
<1> DEFINE C == RecordCells \cup OtherCells
<1>1. /\ stage \in {"written", "cut"}
      /\ UNCHANGED <<keys, todo, stage, cursor, out>>
  BY DEF Flip, fixed, writer, reader
<1>2. /\ file \in Seq(C) /\ Len(file) \in Nat /\ DOMAIN file = 1 .. Len(file)
  BY TableFileDomain DEF WrittenInv, IsTableFile
<1>3. PICK i \in DOMAIN file, c \in OtherCells : file' = [file EXCEPT ![i] = c]
  <2>1. PICK i \in DOMAIN file :
           \/ /\ file[i] \in RecordCell
              /\ file' = [file EXCEPT ![i] = Bad]
           \/ /\ file[i] \in BitsCell
              /\ \E b \in 0..7 :
                    file' = [file EXCEPT ![i].bits = (@ \ {b}) \cup ({b} \ @)]
           \/ /\ file[i] \in CountCell
              /\ \E n \in BitCounts \ {file[i].count} :
                    file' = [file EXCEPT ![i].count = n]
    BY DEF Flip
  <2>2. CASE file' = [file EXCEPT ![i] = Bad]
    BY <2>2 DEF OtherCells
  <2>3. ASSUME file[i] \in BitsCell, NEW b \in 0..7,
               file' = [file EXCEPT ![i].bits = (@ \ {b}) \cup ({b} \ @)]
        PROVE  \E c \in OtherCells : file' = [file EXCEPT ![i] = c]
    <3> DEFINE bits == (file[i].bits \ {b}) \cup ({b} \ file[i].bits)
               c == [bits |-> bits]
    <3>1. file[i].bits \in Byte /\ file[i] = [bits |-> file[i].bits]
      BY <2>3 DEF BitsCell
    <3>2. bits \in Byte
      BY <3>1 DEF Byte
    <3>3. c \in OtherCells
      BY <3>2 DEF OtherCells, BitsCell
    <3>4. file' = [file EXCEPT ![i] = [file[i] EXCEPT !.bits = bits]]
      BY <2>3
    <3> HIDE DEF bits
    <3>5. [file[i] EXCEPT !.bits = bits] = c
      BY <3>1
    <3> QED
      BY <3>3, <3>4, <3>5
  <2>4. ASSUME file[i] \in CountCell, NEW n \in BitCounts,
               file' = [file EXCEPT ![i].count = n]
        PROVE  \E c \in OtherCells : file' = [file EXCEPT ![i] = c]
    <3> DEFINE c == [count |-> n]
    <3>1. file[i] = [count |-> file[i].count]
      BY <2>4 DEF CountCell
    <3>2. c \in OtherCells
      BY TableAssumption DEF OtherCells, CountCell
    <3>3. file' = [file EXCEPT ![i] = [file[i] EXCEPT !.count = n]]
      BY <2>4
    <3>4. [file[i] EXCEPT !.count = n] = c
      BY <3>1
    <3> QED
      BY <3>2, <3>3, <3>4
  <2> QED
    BY <2>1, <2>2, <2>3, <2>4
<1>4. c \in C
  OBVIOUS
<1> HIDE DEF C
<1>5. /\ file' \in Seq(C) /\ Len(file') = Len(file) /\ DOMAIN file' = DOMAIN file
      /\ file'[i] = c /\ \A j \in DOMAIN file \ {i} : file'[j] = file[j]
  BY <1>2, <1>3, <1>4
<1>6. WrittenInv'
  <2>1. ASSUME NEW j \in DOMAIN file', NEW r \in Ids, NEW m \in Nat,
               IsCell(file', j, r, m)
        PROVE  j \in DOMAIN file /\ IsCell(file, j, r, m)
    <3>1. j # i
      BY <1>5, <2>1, NoRecordCells DEF IsCell
    <3> QED
      BY <1>5, <2>1, <3>1 DEF IsCell
  <2> QED
    BY <1>1, <1>5, <2>1, NoRecordAdded DEF IsTableFile, C
<1>7. ScanInv'
  <2>1. out' = <<>> /\ cursor' = 0 /\ DOMAIN out' = {} /\ out' \in Seq(keys' \ todo')
    BY <1>1, EmptySeq DEF ScanInv
  <2> QED
    BY <1>1, <1>2, <1>5, <2>1 DEF ScanInv
<1> QED
  BY <1>6, <1>7

LEMMA FromPathKeeps ==
    ASSUME WrittenInv, ScanInv, FromPath
    PROVE  WrittenInv' /\ ScanInv'
<1>1. stage \in {"written", "cut"} /\ UNCHANGED <<keys, file, todo>>
  BY DEF FromPath, Refuse, fixed, writer
<1>2. \/ stage' = "refused" /\ UNCHANGED <<cursor, out>>
      \/ stage' = "open" /\ cursor' = 0 /\ out' = <<>>
  BY DEF FromPath, Refuse, reader
<1>3. WrittenInv'
  BY <1>1 DEF WrittenInv
<1>4. Len(file) \in Nat
  BY TableFileDomain DEF WrittenInv
<1>5. out' = <<>> /\ cursor' = 0 /\ DOMAIN out' = {} /\ out' \in Seq(keys' \ todo')
  BY <1>1, <1>2, EmptySeq DEF ScanInv
<1> QED
  BY <1>1, <1>2, <1>3, <1>4, <1>5 DEF ScanInv

LEMMA ReadNextEntryKeeps ==
    ASSUME WrittenInv, ScanInv, ReadNextEntry
    PROVE  WrittenInv' /\ ScanInv'
<1> DEFINE next == ReadNext(file, cursor)
           W == keys \ todo
<1>1. /\ stage = "open" /\ UNCHANGED <<keys, file, todo>>
      /\ \/ /\ stage' = "read" /\ cursor' \in {cursor, next.pos}
            /\ out' = out
         \/ /\ next.entry # None /\ stage' = "open" /\ cursor' = next.pos
            /\ out' = Append(out, next.entry)
  BY DEF ReadNextEntry, fixed, writer
<1>2. WrittenInv'
  BY <1>1 DEF WrittenInv
<1>3. /\ Len(file) \in Nat /\ DOMAIN file = 1 .. Len(file)
      /\ Ids \subseteq Nat /\ W \subseteq Ids
  BY TableFileDomain, TableAssumption DEF WrittenInv
<1>4. /\ next.pos \in 0 .. Len(file)
      /\ next.entry # None =>
            \E p \in Nat :
               /\ cursor <= p
               /\ next.entry \in Ids
               /\ IntactAt(file, p, next.entry)
               /\ next.pos = p + RecLen[next.entry]
  <2> HIDE DEF next
  <2> QED
    BY <1>3, ReadNextFinds DEF ScanInv, next
<1> HIDE DEF next
<1>5. CASE stage' = "read"
  <2>1. out' = out /\ cursor' \in 0 .. Len(file)
    BY <1>1, <1>4, <1>5 DEF ScanInv
  <2> QED
    BY <1>1, <1>2, <1>5, <2>1 DEF ScanInv
<1>6. CASE stage' = "open"
  <2> DEFINE r == next.entry
  <2>1. /\ r # None /\ cursor' = next.pos /\ out' = Append(out, r)
    BY <1>1, <1>6
  <2>2. PICK p \in Nat : /\ cursor <= p /\ r \in Ids /\ IntactAt(file, p, r)
                         /\ next.pos = p + RecLen[r]
    BY <1>4, <2>1
  <2>3. r \in W
    <3>1. p + 1 \in DOMAIN file /\ IsCell(file, p + 1, r, 1)
      BY <1>3, <2>2, IntactCells
    <3> QED
      BY <2>2, <3>1 DEF WrittenInv
  <2> HIDE DEF W
  <2>4. /\ out \in Seq(W) /\ Len(out) \in Nat /\ DOMAIN out = 1 .. Len(out)
        /\ \A i, j \in DOMAIN out : i < j => out[i] < out[j]
        /\ \A i \in DOMAIN out : out[i] \in W /\ out[i] < r
    BY <1>1, <2>2, LenProperties, ElementOfSeq DEF ScanInv, W
  <2> HIDE DEF r
  <2>5. /\ out' \in Seq(W) /\ DOMAIN out' = 1 .. Len(out) + 1
        /\ \A i \in 1 .. Len(out) : out'[i] = out[i]
        /\ out'[Len(out) + 1] = r
    BY <2>1, <2>3, <2>4
  <2>6. ASSUME NEW i \in DOMAIN out', NEW j \in DOMAIN out', i < j
        PROVE  out'[i] < out'[j]
    <3>1. i \in 1 .. Len(out)
      BY <2>4, <2>5, <2>6
    <3>2. CASE j \in 1 .. Len(out)
      BY <2>4, <2>5, <2>6, <3>1, <3>2
    <3>3. CASE j = Len(out) + 1
      BY <2>4, <2>5, <3>1, <3>3
    <3> QED
      BY <2>4, <2>5, <3>2, <3>3
  <2>7. ASSUME NEW q \in Nat, NEW s \in Ids, next.pos <= q, IntactAt(file, q, s),
               NEW i \in DOMAIN out'
        PROVE  out'[i] < s
    <3>1. r < s
      BY <1>3, <2>2, <2>7, LaterIsGreater DEF WrittenInv, r
    <3>2. r \in Nat /\ s \in Nat /\ \A j \in DOMAIN out : out[j] \in Nat
      BY <1>3, <2>3, <2>4
    <3> QED
      BY <2>4, <2>5, <3>1, <3>2
  <2> QED
    BY <1>1, <1>2, <1>4, <1>6, <2>1, <2>5, <2>6, <2>7 DEF ScanInv, W
<1> QED
  BY <1>1, <1>5, <1>6

LEMMA ScanInvNext ==
    ASSUME WrittenInv, ScanInv, IsFilter(bloom), [Next]_tableVars
    PROVE  WrittenInv' /\ ScanInv'
<1>1. CASE UNCHANGED tableVars
  BY <1>1 DEF tableVars, WrittenInv, ScanInv
<1> QED
  BY <1>1, WriteEntryKeeps, WriteFooterKeeps, CutKeeps, FlipKeeps, FromPathKeeps,
     ReadNextEntryKeeps DEF Next

(* A scan yields keys that were written and in ascending order, for every
   memtable, every length of its records, and whatever was cut off or changed:
   no hash function and no footer can disturb it (read_next_entry,
   header_read_next). *)
THEOREM ScansAscend == Spec => []ScanAscends
<1> DEFINE Inv == FilterInv /\ WrittenInv /\ ScanInv
<1>1. Init => Inv
  BY FilterInvInit, ScanInvInit
<1>2. Inv /\ [Next]_tableVars => Inv'
  BY FilterInvNext, ScanInvNext DEF FilterInv
<1>3. Inv => ScanAscends
  <2> SUFFICES ASSUME Inv PROVE ScanAscends
    OBVIOUS
  <2>1. \A i \in DOMAIN out : out[i] \in keys \ todo
    BY ElementOfSeq, LenProperties DEF ScanInv
  <2> QED
    BY <2>1 DEF ScanInv, ScanAscends
<1> QED
  BY <1>1, <1>2, <1>3, PTL DEF Spec

-----------------------------------------------------------------------------
(* The types. *)

(* The footer an opened table goes by, and what never changes. *)
FooterInv ==
    /\ keys # {}
    /\ hash \in [keys -> SomeHashes]
    /\ bloom.bit_count = 10 * Cardinality(keys)
    /\ flips \in 0 .. MaxFlips
    /\ stage \notin {"open", "read"} => table = None
    /\ stage \in {"open", "read"} =>
          /\ table.filter.inner \in [0 .. ByteCount(table.filter.bit_count) - 1 -> Byte]
          /\ table.pos = Len(file) - FooterLen(table.filter.bit_count)
          /\ table.pos \in Nat

LEMMA FooterInvInit == Init => FooterInv
<1> SUFFICES ASSUME Init PROVE FooterInv
  OBVIOUS
<1>1. Cardinality(keys) \in Nat
  BY TableAssumption, FS_Subset, FS_CardinalityType DEF Init
<1>2. bloom.bit_count = 10 * Cardinality(keys)
  BY <1>1, NewFilterIsFilter DEF Init
<1> QED
  BY <1>2, TableAssumption DEF Init, FooterInv

(* Whatever number the last four bytes are, the filter is read from the bytes
   before them, and a file that has too few of those is refused. *)
LEMMA FromPathFooter ==
    ASSUME WrittenInv, FooterInv, FromPath
    PROVE  FooterInv'
<1>1. /\ UNCHANGED <<keys, hash, bloom, file, flips>>
      /\ stage \in {"written", "cut"} /\ table = None
  BY DEF FromPath, Refuse, fixed, writer, FooterInv
<1>2. CASE Refuse
  BY <1>1, <1>2 DEF Refuse, reader, FooterInv
<1>3. CASE ~Refuse
  <2>1. PICK n \in CountRead :
           /\ Len(file) > 0
           /\ Len(file) >= FooterLen(n)
           /\ stage' = "open"
           /\ \E filter \in FiltersRead(n, Len(file) - FooterLen(n)) :
                 table' = [filter |-> filter, pos |-> Len(file) - FooterLen(n)]
    BY <1>3 DEF FromPath
  <2>2. PICK filter \in FiltersRead(n, Len(file) - FooterLen(n)) :
           table' = [filter |-> filter, pos |-> Len(file) - FooterLen(n)]
    BY <2>1
  <2>3. n \in Nat
    <3>1. CASE file[Len(file)] \in CountCell
      BY <3>1 DEF CountRead, CountCell
    <3>2. CASE file[Len(file)] \notin CountCell
      BY <3>2, TableAssumption DEF CountRead
    <3> QED
      BY <3>1, <3>2
  <2>4. Len(file) \in Nat /\ FooterLen(n) \in Nat
    BY <2>3, TableFileDomain DEF WrittenInv, FooterLen, ByteCount
  <2>5. filter.bit_count = n /\ filter.inner \in [0 .. ByteCount(n) - 1 -> Byte]
    <3>1. PICK garbage \in {{}, 0..7} :
             filter = [bit_count |-> n,
                       inner |-> [b \in 0 .. ByteCount(n) - 1 |->
                           LET cell == file[(Len(file) - FooterLen(n)) + b + 1]
                           IN  IF cell \in BitsCell THEN cell.bits ELSE garbage]]
      BY <2>2 DEF FiltersRead
    <3>2. garbage \in Byte
      BY DEF Byte
    <3>3. \A cell : (IF cell \in BitsCell THEN cell.bits ELSE garbage) \in Byte
      BY <3>2 DEF BitsCell
    <3> QED
      BY <3>1, <3>3
  <2> QED
    BY <1>1, <2>1, <2>2, <2>4, <2>5 DEF FooterInv
<1> QED
  BY <1>2, <1>3

LEMMA FooterInvNext ==
    ASSUME FilterInv, WrittenInv, FooterInv, [Next]_tableVars
    PROVE  FooterInv'
<1>1. CASE WriteEntry
  <2> DEFINE k == Min(todo)
  <2>1. k \in keys
    <3>1. todo # {} /\ todo \in SUBSET Nat
      BY <1>1, TableAssumption DEF WriteEntry, WrittenInv
    <3> QED
      BY <3>1, MinIsLeast DEF WrittenInv
  <2>2. bloom' = Insert(bloom, hash[k])
    BY <1>1 DEF WriteEntry
  <2> HIDE DEF k
  <2>3. hash[k] \in Hashes /\ IsFilter(bloom)
    BY <2>1 DEF FilterInv
  <2>4. bloom'.bit_count = bloom.bit_count
    BY <2>2, <2>3, InsertSets
  <2> QED
    BY <1>1, <2>4 DEF WriteEntry, fixed, reader, FooterInv
<1>2. CASE WriteFooter \/ Cut
  BY <1>2 DEF WriteFooter, Cut, fixed, writer, reader, FooterInv
<1>3. CASE Flip
  <2>1. flips < MaxFlips /\ flips' = flips + 1 /\ MaxFlips \in Nat
    BY <1>3, TableAssumption DEF Flip
  <2> QED
    BY <1>3, <2>1 DEF Flip, fixed, writer, reader, FooterInv
<1>4. CASE FromPath
  BY <1>4, FromPathFooter
<1>5. CASE ReadNextEntry
  BY <1>5 DEF ReadNextEntry, fixed, writer, FooterInv
<1>6. CASE UNCHANGED tableVars
  BY <1>6 DEF tableVars, FooterInv
<1> QED
  BY <1>1, <1>2, <1>3, <1>4, <1>5, <1>6 DEF Next

(* Every variable keeps its type, and the footer an opened table goes by lies
   in its file, whatever its last four bytes say (flush_to, from_path,
   read_bloom_filter). *)
THEOREM TableTypeCorrect == Spec => []TypeOK
<1> DEFINE Inv == FilterInv /\ WrittenInv /\ ScanInv /\ FooterInv
<1>1. Init => Inv
  BY FilterInvInit, ScanInvInit, FooterInvInit
<1>2. Inv /\ [Next]_tableVars => Inv'
  BY FilterInvNext, ScanInvNext, FooterInvNext DEF FilterInv
<1>3. Inv => TypeOK
  <2> SUFFICES ASSUME Inv PROVE TypeOK
    OBVIOUS
  <2>1. \A i \in DOMAIN file : file[i] \in Cell
    <3>1. RecordCells \cup OtherCells = Cell
      BY DEF RecordCells, OtherCells, Cell, RecordCell
    <3> QED
      BY <3>1, ElementOfSeq, LenProperties DEF WrittenInv, IsTableFile
  <2>2. out \in Seq(keys)
    BY DEF ScanInv
  <2>3. /\ keys \in (SUBSET Ids) \ {{}} /\ todo \in SUBSET keys
        /\ hash \in [keys -> SomeHashes]
    BY DEF WrittenInv, FooterInv
  <2>4. bloom.inner \in [0 .. ByteCount(bloom.bit_count) - 1 -> Byte]
    BY DEF FilterInv, IsFilter
  <2> QED
    BY <2>1, <2>2, <2>3, <2>4 DEF ScanInv, FooterInv, TypeOK
<1> QED
  BY <1>1, <1>2, <1>3, PTL DEF Spec

-----------------------------------------------------------------------------
(* What a table serves. *)

(* A scan has returned what is intact before the cursor, to its end what is
   intact before the footer it goes by, and nothing else. *)
ServedInv ==
    /\ stage = "open" =>
          \A p \in Nat, r \in Ids :
             IntactAt(file, p, r) /\ p < cursor => r \in Range(out)
    /\ stage = "read" =>
          \A p \in Nat, r \in Ids :
             IntactAt(file, p, r) /\ p <= table.pos => r \in Range(out)
    /\ \A i \in DOMAIN out : \E p \in Nat : IntactAt(file, p, out[i])

(* A footer that is as written gives the filter back, and with it a file is
   refused only if it holds no record. *)
OpenedInv ==
    /\ stage \in {"open", "read"} /\ FooterIntact => table.filter = bloom
    /\ stage = "refused" /\ FooterIntact =>
          \A p \in Nat, r \in Ids : ~IntactAt(file, p, r)

(* The cells of a footer that is as written. *)
LEMMA FooterIntactCells ==
    ASSUME WrittenInv, IsFilter(bloom), FooterIntact
    PROVE  /\ FooterLen(bloom.bit_count) \in Nat \ {0}
           /\ Len(file) \in Nat /\ Len(file) >= FooterLen(bloom.bit_count)
           /\ \A i \in 1 .. FooterLen(bloom.bit_count) :
                 LET c == file[(Len(file) - FooterLen(bloom.bit_count)) + i]
                 IN  c = Footer(bloom)[i] /\ c \in OtherCells
<1> DEFINE n == FooterLen(bloom.bit_count)
           footer == Footer(bloom)
           start == Len(file) - n
           C == RecordCells \cup OtherCells
<1>1. /\ n \in Nat \ {0} /\ Len(footer) = n
      /\ \A i \in 1 .. n : footer[i] \in OtherCells
  BY FooterCells
<1>2. file \in Seq(C) /\ Len(file) \in Nat
  BY TableFileDomain DEF WrittenInv, IsTableFile
<1>3. Len(file) >= n /\ SubSeq(file, start + 1, Len(file)) = footer
  BY <1>1 DEF FooterIntact
<1> HIDE DEF n, footer, C
<1>4. ASSUME NEW i \in 1 .. n
      PROVE  file[start + i] = footer[i]
  <2>1. /\ start + 1 \in 1 .. Len(file) /\ start \in Nat
        /\ i \in 1 .. (Len(file) - (start + 1)) + 1
        /\ (start + 1) + i - 1 = start + i
    BY <1>1, <1>2, <1>3
  <2> HIDE DEF start
  <2>2. SubSeq(file, start + 1, Len(file))[i] = file[(start + 1) + i - 1]
    BY <1>2, <2>1, SubSeqProperties
  <2> QED
    BY <1>3, <2>1, <2>2
<1> QED
  BY <1>1, <1>2, <1>3, <1>4 DEF n, footer

(* No record begins in a footer that is as written. *)
LEMMA NoRecordInFooter ==
    ASSUME WrittenInv, IsFilter(bloom), FooterIntact,
           NEW p \in Nat, NEW r \in Ids, IntactAt(file, p, r)
    PROVE  p < Len(file) - FooterLen(bloom.bit_count)
<1> DEFINE n == FooterLen(bloom.bit_count)
           start == Len(file) - n
<1>1. /\ n \in Nat \ {0} /\ Len(file) \in Nat /\ Len(file) >= n
      /\ \A i \in 1 .. n : file[start + i] \in OtherCells
  BY FooterIntactCells
<1>2. p + 1 \in 1 .. Len(file) /\ file[p + 1] = [rec |-> r, at |-> 1]
  <2>1. DOMAIN file = 1 .. Len(file)
    BY TableFileDomain DEF WrittenInv
  <2> QED
    BY <1>1, <2>1, IntactCells DEF IsCell
<1> HIDE DEF n
<1>3. ASSUME ~(p < start) PROVE FALSE
  <2>1. (p + 1) - start \in 1 .. n /\ start + ((p + 1) - start) = p + 1
    BY <1>1, <1>2, <1>3
  <2>2. file[p + 1] \in OtherCells
    BY <1>1, <2>1
  <2> QED
    BY <1>2, <2>2, NoRecordCells
<1> QED
  BY <1>3 DEF n

(* from_path reads such a footer back as it was written. *)
LEMMA FooterReadBack ==
    ASSUME WrittenInv, IsFilter(bloom), FooterIntact
    PROVE  /\ CountRead = {bloom.bit_count}
           /\ \A filter \in FiltersRead(bloom.bit_count,
                                        Len(file) - FooterLen(bloom.bit_count)) :
                 filter = bloom
<1> DEFINE bits == bloom.bit_count
           n == FooterLen(bits)
           start == Len(file) - n
<1>1. /\ bits \in Nat /\ ByteCount(bits) \in Nat /\ n = ByteCount(bits) + 1
      /\ bloom.inner \in [0 .. ByteCount(bits) - 1 -> Byte]
      /\ bloom = [bit_count |-> bits, inner |-> bloom.inner]
  BY DEF IsFilter, ByteCount, FooterLen
<1>2. /\ Len(file) \in Nat
      /\ \A i \in 1 .. n : file[start + i] = Footer(bloom)[i]
  BY FooterIntactCells
<1>3. file[Len(file)] = [count |-> bits]
  <2>1. n \in 1 .. n /\ start + n = Len(file) /\ ~(n <= ByteCount(bits))
    BY <1>1, <1>2
  <2>2. Footer(bloom)[n] = [count |-> bits]
    BY <2>1 DEF Footer
  <2> QED
    BY <1>2, <2>1, <2>2
<1>4. CountRead = {bits}
  <2>1. file[Len(file)] \in CountCell
    BY <1>1, <1>3 DEF CountCell
  <2> QED
    BY <1>3, <2>1 DEF CountRead
<1>5. ASSUME NEW b \in 0 .. ByteCount(bits) - 1
      PROVE  file[start + b + 1] \in BitsCell /\ file[start + b + 1].bits = bloom.inner[b]
  <2>1. /\ b + 1 \in 1 .. n /\ b + 1 <= ByteCount(bits) /\ (b + 1) - 1 = b
        /\ start + (b + 1) = start + b + 1
    BY <1>1, <1>2
  <2>2. Footer(bloom)[b + 1] = [bits |-> bloom.inner[b]]
    BY <2>1 DEF Footer
  <2>3. file[start + b + 1] = [bits |-> bloom.inner[b]]
    BY <1>2, <2>1, <2>2
  <2> QED
    BY <1>1, <2>3 DEF BitsCell
<1>6. ASSUME NEW filter \in FiltersRead(bits, start)
      PROVE  filter = bloom
  <2>1. PICK garbage \in {{}, 0..7} :
           filter = [bit_count |-> bits,
                     inner |-> [b \in 0 .. ByteCount(bits) - 1 |->
                         LET cell == file[start + b + 1]
                         IN  IF cell \in BitsCell THEN cell.bits ELSE garbage]]
    BY DEF FiltersRead
  <2>2. filter = [bit_count |-> bits,
                  inner |-> [b \in 0 .. ByteCount(bits) - 1 |-> bloom.inner[b]]]
    BY <1>5, <2>1
  <2>3. [b \in 0 .. ByteCount(bits) - 1 |-> bloom.inner[b]] = bloom.inner
    BY <1>1
  <2> QED
    BY <1>1, <2>2, <2>3
<1> QED
  BY <1>4, <1>6

LEMMA ServedInvInit == Init => ServedInv /\ OpenedInv
<1> SUFFICES ASSUME Init PROVE ServedInv /\ OpenedInv
  OBVIOUS
<1>1. stage = "writing" /\ DOMAIN out = {}
  BY EmptySeq DEF Init
<1> QED
  BY <1>1 DEF ServedInv, OpenedInv

(* from_path refuses a file with its footer only when nothing is intact. *)
LEMMA FromPathServes ==
    ASSUME WrittenInv, ScanInv, IsFilter(bloom), FromPath
    PROVE  ServedInv' /\ OpenedInv'
<1>1. UNCHANGED <<keys, file, bloom>> /\ (FooterIntact' <=> FooterIntact)
  BY DEF FromPath, Refuse, fixed, writer, FooterIntact
<1>2. \/ stage' = "refused" /\ out' = out
      \/ stage' = "open" /\ cursor' = 0 /\ out' = <<>>
  BY DEF FromPath, Refuse, reader
<1>3. out' = <<>> /\ DOMAIN out' = {}
  BY <1>2, EmptySeq DEF FromPath, ScanInv
<1>4. ServedInv'
  BY <1>2, <1>3 DEF ServedInv
<1>5. ASSUME FooterIntact
      PROVE  OpenedInv'
  <2>1. /\ CountRead = {bloom.bit_count}
        /\ \A filter \in FiltersRead(bloom.bit_count,
                                     Len(file) - FooterLen(bloom.bit_count)) :
              filter = bloom
    BY <1>5, FooterReadBack
  <2>2. /\ Len(file) > 0 /\ Len(file) >= FooterLen(bloom.bit_count)
        /\ Len(file) \in Nat /\ DOMAIN file = 1 .. Len(file)
    BY <1>5, FooterIntactCells, TableFileDomain DEF WrittenInv
  <2>3. ~(Len(file) = 0) /\ ~(Len(file) < FooterLen(bloom.bit_count))
    BY <2>2, <1>5, FooterIntactCells
  <2>4. CASE ~HasAtLeastOne(file) /\ Refuse
    <3>1. stage' = "refused"
      BY <2>4 DEF Refuse
    <3>2. ASSUME NEW p \in Nat, NEW r \in Ids, IntactAt(file, p, r)
          PROVE  FALSE
      <4>1. p + 1 \in 1 .. Len(file)
        BY <2>2, <3>2, IntactCells
      <4>2. p \in 0 .. Len(file) - 1
        BY <2>2, <4>1
      <4> QED
        BY <2>4, <3>2, <4>2 DEF HasAtLeastOne, Starts
    <3> QED
      BY <1>1, <3>1, <3>2 DEF OpenedInv
  <2>5. CASE /\ stage' = "open"
             /\ \E filter \in FiltersRead(bloom.bit_count,
                                          Len(file) - FooterLen(bloom.bit_count)) :
                   table' = [filter |-> filter,
                             pos |-> Len(file) - FooterLen(bloom.bit_count)]
    <3>1. table'.filter = bloom
      BY <2>1, <2>5
    <3> QED
      BY <1>1, <2>5, <3>1 DEF OpenedInv
  <2>6. \/ ~HasAtLeastOne(file) /\ Refuse
        \/ /\ stage' = "open"
           /\ \E filter \in FiltersRead(bloom.bit_count,
                                        Len(file) - FooterLen(bloom.bit_count)) :
                 table' = [filter |-> filter,
                           pos |-> Len(file) - FooterLen(bloom.bit_count)]
    BY <2>1, <2>3 DEF FromPath
  <2> QED
    BY <2>4, <2>5, <2>6
<1> QED
  BY <1>1, <1>4, <1>5 DEF OpenedInv

(* A read passes over no record, and the scan ends behind the last of them or
   behind the start of the footer. *)
LEMMA ReadNextEntryServes ==
    ASSUME WrittenInv, ScanInv, FooterInv, ServedInv, OpenedInv, ReadNextEntry
    PROVE  ServedInv' /\ OpenedInv'
<1> DEFINE next == ReadNext(file, cursor)
<1>1. /\ stage = "open" /\ UNCHANGED <<keys, file, bloom, table>>
      /\ IF cursor > table.pos \/ next.entry = None
         THEN stage' = "read" /\ out' = out
         ELSE stage' = "open" /\ out' = Append(out, next.entry) /\ cursor' = next.pos
  BY DEF ReadNextEntry, AtFooter, fixed, writer
<1>2. /\ Len(file) \in Nat /\ DOMAIN file = 1 .. Len(file)
      /\ cursor \in 0 .. Len(file)
      /\ out \in Seq(keys \ todo) /\ Len(out) \in Nat /\ DOMAIN out = 1 .. Len(out)
      /\ table.pos \in Nat
  BY <1>1, TableFileDomain, LenProperties DEF WrittenInv, ScanInv, FooterInv
<1>3. OpenedInv'
  <2>1. FooterIntact' <=> FooterIntact
    BY <1>1 DEF FooterIntact
  <2> QED
    BY <1>1, <2>1 DEF OpenedInv
<1>4. ASSUME NEW q \in Nat, NEW s \in Ids, IntactAt(file, q, s), cursor <= q,
             next.entry = None \/ q < next.pos
      PROVE  s = next.entry
  BY <1>2, <1>4, ReadNextPasses
<1>5. CASE cursor > table.pos \/ next.entry = None
  <2>1. ASSUME NEW p \in Nat, NEW r \in Ids, IntactAt(file, p, r), p <= table.pos
        PROVE  r \in Range(out)
    <3>1. CASE p < cursor
      BY <1>1, <2>1, <3>1 DEF ServedInv
    <3>2. CASE ~(p < cursor)
      <4>1. cursor <= p /\ next.entry = None
        BY <1>2, <1>5, <2>1, <3>2
      <4>2. r = None
        BY <1>4, <2>1, <4>1
      <4> QED
        BY <4>2, RecLenAssumption
    <3> QED
      BY <3>1, <3>2
  <2> QED
    BY <1>1, <1>3, <1>5, <2>1 DEF ServedInv
<1>6. CASE ~(cursor > table.pos \/ next.entry = None)
  <2> DEFINE e == next.entry
  <2>1. \E p \in Nat : e \in Ids /\ IntactAt(file, p, e)
    <3>1. next.entry # None =>
            \E p \in Nat : next.entry \in Ids /\ IntactAt(file, p, next.entry)
      <4> HIDE DEF next
      <4> QED
        BY <1>2, ReadNextFinds DEF next
    <3> QED
      BY <1>6, <3>1
  <2>2. next.pos \in Nat
    <3> HIDE DEF next
    <3>1. next.pos \in 0 .. Len(file)
      BY <1>2, ReadNextFinds DEF next
    <3> QED
      BY <1>2, <3>1
  <2> HIDE DEF next, e
  <2>3. /\ stage' = "open" /\ out' = Append(out, e) /\ cursor' = next.pos
    BY <1>1, <1>6 DEF e
  <2>4. /\ DOMAIN out' = 1 .. Len(out) + 1 /\ out'[Len(out) + 1] = e
        /\ \A i \in DOMAIN out : out'[i] = out[i]
    BY <1>2, <2>3
  <2>5. e \in Range(out') /\ Range(out) \subseteq Range(out')
    BY <1>2, <2>4 DEF Range
  <2>6. ASSUME NEW p \in Nat, NEW r \in Ids, IntactAt(file, p, r), p < next.pos
        PROVE  r \in Range(out')
    <3>1. CASE p < cursor
      BY <1>1, <2>5, <2>6, <3>1 DEF ServedInv
    <3>2. CASE ~(p < cursor)
      <4>1. cursor <= p
        BY <1>2, <3>2
      <4>2. r = e
        BY <1>4, <2>6, <4>1 DEF e
      <4> QED
        BY <2>5, <4>2
    <3> QED
      BY <3>1, <3>2
  <2>7. ASSUME NEW i \in DOMAIN out'
        PROVE  \E p \in Nat : IntactAt(file, p, out'[i])
    <3>1. CASE i \in DOMAIN out
      BY <2>4, <3>1 DEF ServedInv
    <3>2. CASE i \notin DOMAIN out
      <4>1. i = Len(out) + 1
        BY <1>2, <2>4, <3>2
      <4> QED
        BY <2>1, <2>4, <4>1
    <3> QED
      BY <3>1, <3>2
  <2> QED
    BY <1>1, <1>3, <2>3, <2>6, <2>7 DEF ServedInv
<1> QED
  BY <1>5, <1>6

LEMMA ServedInvNext ==
    ASSUME FilterInv, WrittenInv, ScanInv, FooterInv, ServedInv, OpenedInv,
           [Next]_tableVars
    PROVE  ServedInv' /\ OpenedInv'
<1>1. CASE FromPath
  BY <1>1, FromPathServes DEF FilterInv
<1>2. CASE ReadNextEntry
  BY <1>2, ReadNextEntryServes
<1>3. CASE UNCHANGED tableVars
  BY <1>3 DEF tableVars, ServedInv, OpenedInv, FooterIntact
<1>4. CASE WriteEntry \/ WriteFooter \/ Cut \/ Flip
  <2>1. /\ stage \in {"writing", "written", "cut"} /\ out' = out
        /\ stage' \in {"writing", "written", "cut"}
    BY <1>4 DEF WriteEntry, WriteFooter, Cut, Flip, reader
  <2>2. out' = <<>> /\ DOMAIN out' = {}
    BY <2>1, EmptySeq DEF ScanInv
  <2> QED
    BY <2>1, <2>2 DEF ServedInv, OpenedInv
<1> QED
  BY <1>1, <1>2, <1>3, <1>4 DEF Next

TableInv ==
    FilterInv /\ WrittenInv /\ ScanInv /\ FooterInv /\ ServedInv /\ OpenedInv

LEMMA TableInvHolds == Spec => []TableInv
<1>1. Init => TableInv
  BY FilterInvInit, ScanInvInit, FooterInvInit, ServedInvInit DEF TableInv
<1>2. TableInv /\ [Next]_tableVars => TableInv'
  BY FilterInvNext, ScanInvNext, FooterInvNext, ServedInvNext DEF TableInv, FilterInv
<1> QED
  BY <1>1, <1>2, PTL DEF Spec

(* A record that is intact was written. *)
LEMMA IntactIsWritten ==
    ASSUME WrittenInv, NEW p \in Nat, NEW r \in Ids, IntactAt(file, p, r)
    PROVE  r \in keys \ todo
<1>1. Len(file) \in Nat /\ DOMAIN file = 1 .. Len(file)
  BY TableFileDomain DEF WrittenInv
<1>2. p + 1 \in DOMAIN file /\ IsCell(file, p + 1, r, 1)
  BY <1>1, IntactCells
<1> QED
  BY <1>2 DEF WrittenInv

LEMMA IntactIsServed ==
    ASSUME TableInv, stage \in {"read", "refused"}, FooterIntact,
           NEW k \in keys
    PROVE  Intact(k) <=> Serves(k)
<1>1. /\ Len(file) \in Nat /\ DOMAIN file = 1 .. Len(file) /\ k \in Ids
  BY TableFileDomain DEF TableInv, WrittenInv
<1>2. ASSUME Intact(k)
      PROVE  Serves(k)
  <2>1. PICK p \in 0 .. Len(file) - 1 : IntactAt(file, p, k)
    BY <1>2 DEF Intact
  <2>2. p \in Nat
    BY <1>1
  <2>3. stage = "read" /\ table.filter = bloom
    BY <1>1, <2>1, <2>2 DEF TableInv, OpenedInv
  <2>4. p < Len(file) - FooterLen(bloom.bit_count)
    BY <1>1, <2>1, <2>2, NoRecordInFooter DEF TableInv, FilterInv
  <2>5. table.pos = Len(file) - FooterLen(bloom.bit_count) /\ table.pos \in Nat
    BY <2>3 DEF TableInv, FooterInv
  <2>6. k \in Range(out)
    BY <1>1, <2>1, <2>2, <2>3, <2>4, <2>5 DEF TableInv, ServedInv
  <2>7. MayContain(bloom, hash[k])
    BY <1>1, <2>1, <2>2, IntactIsWritten DEF TableInv, FilterInv, NoFalseNegatives
  <2> QED
    BY <2>3, <2>6, <2>7 DEF Serves
<1>3. ASSUME Serves(k)
      PROVE  Intact(k)
  <2>1. PICK i \in DOMAIN out : out[i] = k
    BY <1>3 DEF Serves, Range
  <2>2. PICK p \in Nat : IntactAt(file, p, k)
    BY <2>1 DEF TableInv, ServedInv
  <2>3. p + 1 \in 1 .. Len(file)
    BY <1>1, <2>2, IntactCells
  <2>4. p \in 0 .. Len(file) - 1
    BY <1>1, <2>3
  <2> QED
    BY <2>2, <2>4 DEF Intact
<1> QED
  BY <1>2, <1>3

(* While the footer is as written, get finds exactly the entries whose bytes
   are as written, and a file that holds none of them is refused: for every
   memtable, every hash function, and whatever was cut off or changed
   (from_path, read_next_entry, may_contain). *)
THEOREM IntactEntriesAreServed == Spec => []IntactEntriesServed
<1>1. TableInv => IntactEntriesServed
  BY IntactIsServed DEF IntactEntriesServed
<1> QED
  BY TableInvHolds, <1>1, PTL

-----------------------------------------------------------------------------
(* The merge by the heads of three files. *)

Ascends(s) == \A i, j \in DOMAIN s : i < j => s[i] < s[j]

(* What a file has not yielded is what it yields but for keys that have a
   winner, and all of it comes after those. *)
HeadsInv ==
    \A i \in 1 .. 3 :
       /\ scans[i] \in Seq(Ids)
       /\ heads[i] \in Seq(Ids) /\ Ascends(heads[i])
       /\ Range(heads[i]) \subseteq Range(scans[i])
       /\ Range(scans[i]) \subseteq Range(heads[i]) \cup seen_keys
       /\ \A k \in seen_keys : \A j \in DOMAIN heads[i] : k < heads[i][j]

WinnerInv ==
    /\ DOMAIN winner = seen_keys
    /\ \A k \in seen_keys :
          k \in Ids /\ Holders(k) # {} /\ winner[k] = Min(Holders(k))

MergeInv ==
    /\ scans = <<>> => heads = <<>> /\ seen_keys = {}
    /\ scans # <<>> =>
          /\ DOMAIN scans = 1 .. 3 /\ DOMAIN heads = 1 .. 3
          /\ stage \in {"read", "refused"} /\ scans[2] = out
          /\ HeadsInv
    /\ WinnerInv

LEMMA MergeInvInit == MergedInit => MergeInv
<1> SUFFICES ASSUME MergedInit PROVE MergeInv
  OBVIOUS
<1>1. scans = <<>> /\ heads = <<>> /\ seen_keys = {} /\ winner = <<>>
  BY DEF MergedInit
<1>2. DOMAIN winner = {}
  BY <1>1, EmptySeq
<1> QED
  BY <1>1, <1>2 DEF MergeInv, WinnerInv

(* A file that is being read or refused yields keys in order. *)
LEMMA OutAscends ==
    ASSUME TableInv
    PROVE  out \in Seq(Ids) /\ Ascends(out)
<1>1. out \in Seq(keys \ todo) /\ keys \ todo \subseteq Ids
  BY DEF TableInv, ScanInv, WrittenInv
<1>2. out \in Seq(Ids)
  BY <1>1
<1> QED
  BY <1>2 DEF TableInv, ScanInv, Ascends

LEMMA OpenKeeps ==
    ASSUME TableInv, MergeInv, Open
    PROVE  MergeInv'
<1>1. PICK newer \in Newer : scans' = <<newer, out, Older>>
  BY DEF Open
<1>2. /\ stage \in {"read", "refused"} /\ stage' = stage /\ out' = out
      /\ heads' = scans' /\ seen_keys = {} /\ DOMAIN winner = {}
      /\ UNCHANGED <<seen_keys, winner>>
  BY DEF Open, tableVars, MergeInv, WinnerInv
<1>3. /\ newer \in Seq(Ids) /\ Ascends(newer)
      /\ Older \in Seq(Ids) /\ Ascends(Older)
      /\ out \in Seq(Ids) /\ Ascends(out)
  BY OutAscends, OthersAssumption DEF Ascends
<1>4. /\ DOMAIN scans' = 1 .. 3
      /\ scans'[1] = newer /\ scans'[2] = out /\ scans'[3] = Older
      /\ scans' # <<>>
  BY <1>1, EmptySeq
<1>5. \A i \in 1 .. 3 : scans'[i] \in Seq(Ids) /\ Ascends(scans'[i])
  BY <1>3, <1>4
<1>6. HeadsInv'
  BY <1>2, <1>5 DEF HeadsInv
<1>7. WinnerInv'
  BY <1>2 DEF WinnerInv
<1> QED
  BY <1>2, <1>4, <1>6, <1>7 DEF MergeInv

(* The head of a file is the least it has not yielded, and its tail the rest. *)
LEMMA HeadIsLeast ==
    ASSUME NEW s \in Seq(Ids), Ascends(s), s # <<>>
    PROVE  /\ Head(s) \in Range(s) /\ Head(s) \in Ids
           /\ \A j \in DOMAIN s : Head(s) <= s[j]
           /\ Tail(s) \in Seq(Ids) /\ Ascends(Tail(s))
           /\ Range(s) = {Head(s)} \cup Range(Tail(s))
           /\ \A j \in DOMAIN Tail(s) : Head(s) < Tail(s)[j]
<1> DEFINE t == Tail(s)
<1>1. /\ Len(s) \in Nat /\ DOMAIN s = 1 .. Len(s) /\ Len(s) # 0
      /\ \A j \in DOMAIN s : s[j] \in Ids
  BY LenProperties, ElementOfSeq, EmptySeq
<1>2. Head(s) = s[1] /\ 1 \in DOMAIN s
  BY <1>1
<1>3. /\ t \in Seq(Ids) /\ Len(t) = Len(s) - 1 /\ DOMAIN t = 1 .. Len(s) - 1
      /\ \A j \in 1 .. Len(s) - 1 : t[j] = s[j + 1]
  BY <1>1, HeadTailProperties, LenProperties
<1> HIDE DEF t
<1>4. \A j \in DOMAIN t : j + 1 \in DOMAIN s /\ 1 < j + 1 /\ t[j] = s[j + 1]
  BY <1>1, <1>3
<1>5. \A j \in DOMAIN t : Head(s) < t[j]
  BY <1>2, <1>4 DEF Ascends
<1>6. \A j \in DOMAIN s : Head(s) <= s[j]
  <2> SUFFICES ASSUME NEW j \in DOMAIN s PROVE Head(s) <= s[j]
    OBVIOUS
  <2>1. s[1] \in Nat
    BY <1>1, <1>2, TableAssumption
  <2>2. CASE j = 1
    BY <1>2, <2>1, <2>2
  <2>3. CASE j # 1
    <3>1. 1 < j /\ s[j] \in Nat
      <4>1. j \in Nat /\ 1 <= j
        BY <1>1
      <4>2. s[j] \in Ids /\ Ids \subseteq Nat
        BY <1>1, TableAssumption
      <4>3. s[j] \in Nat
        BY <4>2
      <4>4. 1 < j
        BY <2>3, <4>1
      <4> QED
        BY <4>3, <4>4
    <3>2. s[1] < s[j]
      BY <1>2, <3>1 DEF Ascends
    <3> QED
      BY <1>2, <2>1, <3>1, <3>2
  <2> QED
    BY <2>2, <2>3
<1>7. Ascends(t)
  <2> SUFFICES ASSUME NEW i \in DOMAIN t, NEW j \in DOMAIN t, i < j
               PROVE  t[i] < t[j]
    BY DEF Ascends
  <2>1. i + 1 < j + 1
    BY <1>3
  <2> QED
    BY <1>4, <2>1 DEF Ascends
<1>8. Range(s) = {Head(s)} \cup Range(t)
  <2>1. ASSUME NEW j \in DOMAIN s
        PROVE  s[j] \in {Head(s)} \cup Range(t)
    <3>1. CASE j = 1
      BY <1>2, <3>1
    <3>2. CASE j # 1
      <4>1. j - 1 \in DOMAIN t /\ (j - 1) + 1 = j
        BY <1>1, <1>3, <3>2
      <4>2. t[j - 1] = s[j]
        BY <1>4, <4>1
      <4> QED
        BY <4>1, <4>2 DEF Range
    <3> QED
      BY <3>1, <3>2
  <2>2. \A j \in DOMAIN t : t[j] \in Range(s)
    BY <1>4 DEF Range
  <2>3. Head(s) \in Range(s)
    BY <1>2 DEF Range
  <2> QED
    BY <2>1, <2>2, <2>3 DEF Range
<1>9. Head(s) \in Range(s) /\ Head(s) \in Ids
  BY <1>1, <1>2 DEF Range
<1> QED
  BY <1>3, <1>5, <1>6, <1>7, <1>8, <1>9 DEF t

(* A round takes the least key that is left, and the files that hold it at
   their heads are those that yield it. *)
LEMMA RoundHolders ==
    ASSUME MergeInv, scans # <<>>, Retained # {},
           NEW least, least = Min({Head(heads[i]) : i \in Retained})
    PROVE  /\ least \in Ids /\ least \in Nat /\ least \notin seen_keys
           /\ \A k \in seen_keys : k < least
           /\ \A i \in Retained : Head(heads[i]) \in Nat /\ least <= Head(heads[i])
           /\ {i \in Retained : Head(heads[i]) = least} = Holders(least)
           /\ Holders(least) # {}
<1> DEFINE H == {Head(heads[i]) : i \in Retained}
<1>1. DOMAIN scans = 1 .. 3 /\ DOMAIN heads = 1 .. 3 /\ HeadsInv
  BY DEF MergeInv
<1>2. \A i \in Retained : /\ i \in 1 .. 3 /\ heads[i] # <<>>
                          /\ heads[i] \in Seq(Ids) /\ Ascends(heads[i])
  BY <1>1 DEF Retained, HeadsInv
<1>3. \A i \in Retained : /\ Head(heads[i]) \in Range(heads[i])
                          /\ Head(heads[i]) \in Ids
                          /\ \A j \in DOMAIN heads[i] : Head(heads[i]) <= heads[i][j]
  BY <1>2, HeadIsLeast
<1>4. H \in SUBSET Nat /\ H # {}
  BY <1>3, TableAssumption
<1>5. least \in H /\ \A y \in H : least <= y
  BY <1>4, MinIsLeast
<1>6. PICK first \in Retained : least = Head(heads[first])
  BY <1>5
<1>7. least \in Ids /\ least \in Nat
  BY <1>3, <1>6, TableAssumption
<1>8. \A i \in Retained : Head(heads[i]) \in Nat /\ least <= Head(heads[i])
  BY <1>3, <1>5, TableAssumption
<1>9. \A k \in seen_keys : k < least
  <2>1. PICK j \in DOMAIN heads[first] : least = heads[first][j]
    BY <1>3, <1>6 DEF Range
  <2> QED
    BY <1>1, <1>2, <2>1 DEF HeadsInv
<1>10. least \notin seen_keys
  <2>1. least \in seen_keys => least < least
    BY <1>9
  <2>2. ~(least < least)
    BY <1>7
  <2> QED
    BY <2>1, <2>2
<1>11. ASSUME NEW i \in Holders(least)
       PROVE  i \in Retained /\ Head(heads[i]) = least
  <2>1. i \in 1 .. 3 /\ least \in Range(scans[i])
    BY <1>1 DEF Holders
  <2>2. least \in Range(heads[i])
    BY <1>1, <1>10, <2>1 DEF HeadsInv
  <2>3. PICK j \in DOMAIN heads[i] : heads[i][j] = least
    BY <2>2 DEF Range
  <2>4. i \in Retained
    BY <1>1, <2>1, <2>3, EmptySeq DEF Retained
  <2>5. Head(heads[i]) <= least /\ least <= Head(heads[i]) /\ Head(heads[i]) \in Nat
    BY <1>3, <1>8, <2>3, <2>4
  <2> QED
    BY <1>7, <2>4, <2>5
<1>12. ASSUME NEW i \in Retained, Head(heads[i]) = least
       PROVE  i \in Holders(least)
  BY <1>1, <1>2, <1>3, <1>12 DEF HeadsInv, Holders
<1>13. {i \in Retained : Head(heads[i]) = least} = Holders(least)
  <2>1. Holders(least) \subseteq Retained
    BY <1>11
  <2> QED
    BY <1>11, <1>12, <2>1
<1>14. Holders(least) # {}
  BY <1>6, <1>12
<1> QED
  BY <1>7, <1>8, <1>9, <1>10, <1>13, <1>14

LEMMA RoundKeeps ==
    ASSUME MergeInv, Round
    PROVE  MergeInv'
<1> DEFINE least   == Min({Head(heads[i]) : i \in Retained})
           holders == {i \in Retained : Head(heads[i]) = least}
<1>1. /\ Retained # {}
      /\ winner' = IF least \in seen_keys THEN winner
                   ELSE [k \in seen_keys \cup {least} |->
                            IF k = least THEN Winner(holders) ELSE winner[k]]
      /\ seen_keys' = seen_keys \cup {least}
      /\ heads' = [i \in DOMAIN heads |->
                      IF i \in holders THEN Tail(heads[i]) ELSE heads[i]]
      /\ UNCHANGED <<stage, out, scans>>
  BY DEF Round, tableVars
<1>2. scans # <<>>
  <2>1. heads # <<>>
    BY <1>1, EmptySeq DEF Retained
  <2> QED
    BY <2>1 DEF MergeInv
<1>3. /\ least \in Ids /\ least \in Nat /\ least \notin seen_keys
      /\ \A k \in seen_keys : k < least
      /\ \A i \in Retained : Head(heads[i]) \in Nat /\ least <= Head(heads[i])
      /\ holders = Holders(least)
      /\ Holders(least) # {}
  <2> HIDE DEF least
  <2> QED
    BY <1>1, <1>2, RoundHolders DEF least
<1>4. DOMAIN scans = 1 .. 3 /\ DOMAIN heads = 1 .. 3 /\ HeadsInv
  BY <1>2 DEF MergeInv
<1> HIDE DEF least
<1>5. HeadsInv'
  <2> SUFFICES ASSUME NEW i \in 1 .. 3
               PROVE  /\ scans'[i] \in Seq(Ids)
                      /\ heads'[i] \in Seq(Ids) /\ Ascends(heads'[i])
                      /\ Range(heads'[i]) \subseteq Range(scans'[i])
                      /\ Range(scans'[i]) \subseteq Range(heads'[i]) \cup seen_keys'
                      /\ \A k \in seen_keys' : \A j \in DOMAIN heads'[i] :
                            k < heads'[i][j]
    BY DEF HeadsInv
  <2>1. /\ scans[i] \in Seq(Ids)
        /\ heads[i] \in Seq(Ids) /\ Ascends(heads[i])
        /\ Range(heads[i]) \subseteq Range(scans[i])
        /\ Range(scans[i]) \subseteq Range(heads[i]) \cup seen_keys
        /\ \A k \in seen_keys : \A j \in DOMAIN heads[i] : k < heads[i][j]
    BY <1>4 DEF HeadsInv
  <2>2. CASE i \in holders
    <3>1. heads'[i] = Tail(heads[i]) /\ Head(heads[i]) = least /\ heads[i] # <<>>
      BY <1>1, <1>4, <2>2 DEF Retained
    <3>2. /\ Tail(heads[i]) \in Seq(Ids) /\ Ascends(Tail(heads[i]))
          /\ Range(heads[i]) = {least} \cup Range(Tail(heads[i]))
          /\ \A j \in DOMAIN Tail(heads[i]) : least < Tail(heads[i])[j]
      BY <2>1, <3>1, HeadIsLeast
    <3>3. ASSUME NEW k \in seen_keys', NEW j \in DOMAIN heads'[i]
          PROVE  k < heads'[i][j]
      <4>1. least < heads'[i][j]
        BY <3>1, <3>2
      <4>2. CASE k = least
        BY <4>1, <4>2
      <4>3. CASE k # least
        <5>1. heads'[i][j] \in Range(heads[i])
          BY <3>1, <3>2 DEF Range
        <5>2. PICK m \in DOMAIN heads[i] : heads[i][m] = heads'[i][j]
          BY <5>1 DEF Range
        <5> QED
          BY <1>1, <2>1, <4>3, <5>2
      <4> QED
        BY <4>2, <4>3
    <3> QED
      BY <1>1, <2>1, <3>1, <3>2, <3>3
  <2>3. CASE i \notin holders
    <3>1. heads'[i] = heads[i]
      BY <1>1, <1>4, <2>3
    <3>2. ASSUME NEW j \in DOMAIN heads[i]
          PROVE  least < heads[i][j]
      <4>1. heads[i] # <<>> /\ i \in Retained
        BY <1>4, <3>2, EmptySeq DEF Retained
      <4>2. least <= Head(heads[i]) /\ Head(heads[i]) # least
            /\ Head(heads[i]) \in Nat
        BY <1>3, <2>3, <4>1
      <4>3. Head(heads[i]) <= heads[i][j]
        BY <2>1, <4>1, HeadIsLeast
      <4>4. heads[i][j] \in Ids /\ Ids \subseteq Nat
        BY <2>1, ElementOfSeq, LenProperties, TableAssumption
      <4>5. heads[i][j] \in Nat /\ least \in Nat
        BY <1>3, <4>4
      <4> QED
        BY <4>2, <4>3, <4>5
    <3> QED
      BY <1>1, <2>1, <3>1, <3>2
  <2> QED
    BY <2>2, <2>3
<1>6. WinnerInv'
  <2>1. winner' = [k \in seen_keys \cup {least} |->
                      IF k = least THEN Min(Holders(least)) ELSE winner[k]]
    BY <1>1, <1>3 DEF Winner
  <2>2. \A k : Holders(k)' = Holders(k)
    BY <1>1 DEF Holders
  <2>3. \A k \in seen_keys :
           k \in Ids /\ k # least /\ Holders(k) # {} /\ winner[k] = Min(Holders(k))
    BY <1>3 DEF MergeInv, WinnerInv
  <2>4. DOMAIN winner' = seen_keys'
    BY <1>1, <2>1
  <2>5. ASSUME NEW k \in seen_keys'
        PROVE  k \in Ids /\ Holders(k) # {} /\ winner'[k] = Min(Holders(k))
    BY <1>1, <1>3, <2>1, <2>3
  <2> QED
    BY <2>2, <2>4, <2>5 DEF WinnerInv
<1>7. DOMAIN heads' = 1 .. 3
  BY <1>1, <1>4
<1> QED
  BY <1>1, <1>2, <1>4, <1>5, <1>6, <1>7 DEF MergeInv

LEMMA MergedStepIsStep ==
    ASSUME [MergedNext]_mergedVars
    PROVE  [Next]_tableVars
BY DEF MergedNext, mergedVars, Open, Round

(* What a table that is read or refused yields does not change. *)
LEMMA ReadIsOver ==
    ASSUME stage \in {"read", "refused"}, Next
    PROVE  FALSE
BY DEF Next, WriteEntry, WriteFooter, Cut, Flip, FromPath, ReadNextEntry

LEMMA MergeInvNext ==
    ASSUME TableInv, MergeInv, [MergedNext]_mergedVars
    PROVE  MergeInv'
<1>1. CASE Next /\ UNCHANGED mergeVars
  <2>1. scans = <<>> /\ UNCHANGED <<scans, heads, seen_keys, winner>>
    BY <1>1, ReadIsOver DEF MergeInv, mergeVars
  <2> QED
    BY <2>1 DEF MergeInv, WinnerInv, Holders
<1>2. CASE Open
  BY <1>2, OpenKeeps
<1>3. CASE Round
  BY <1>3, RoundKeeps
<1>4. CASE UNCHANGED mergedVars
  BY <1>4 DEF mergedVars, mergeVars, tableVars, MergeInv, HeadsInv, WinnerInv, Holders
<1> QED
  BY <1>1, <1>2, <1>3, <1>4 DEF MergedNext

(* Beside the merge the table goes through what it goes through alone. *)
THEOREM MergedIsTable == MergedSpec => Spec
<1>1. MergedInit => Init
  BY DEF MergedInit
<1>2. [MergedNext]_mergedVars => [Next]_tableVars
  BY MergedStepIsStep
<1> QED
  BY <1>1, <1>2, PTL DEF MergedSpec, Spec

LEMMA MergeInvHolds == MergedSpec => [](TableInv /\ MergeInv)
<1>1. MergedSpec => []TableInv
  BY MergedIsTable, TableInvHolds, PTL
<1>2. TableInv /\ MergeInv /\ [MergedNext]_mergedVars => MergeInv'
  BY MergeInvNext
<1> QED
  BY <1>1, <1>2, MergeInvInit, PTL DEF MergedSpec

(* The merge by heads gives every key to the newest file that yields it and
   misses none, for every file, cut off or damaged as it may be, between every
   two others (compact, read_next_entry). *)
THEOREM NewestScanAlwaysWins == MergedSpec => []NewestScanWins
<1>1. TableInv /\ MergeInv => NewestScanWins
  <2> SUFFICES ASSUME MergeInv PROVE NewestScanWins
    OBVIOUS
  <2>1. \A k \in seen_keys : winner[k] = Min(Holders(k))
    BY DEF MergeInv, WinnerInv
  <2>2. ASSUME scans # <<>>, Retained = {}
        PROVE  seen_keys = UNION {Range(scans[i]) : i \in DOMAIN scans}
    <3>1. DOMAIN scans = 1 .. 3 /\ DOMAIN heads = 1 .. 3 /\ HeadsInv
      BY <2>2 DEF MergeInv
    <3>2. \A i \in 1 .. 3 : heads[i] = <<>>
      BY <2>2, <3>1 DEF Retained
    <3>3. \A i \in 1 .. 3 : Range(heads[i]) = {}
      BY <3>2, EmptySeq DEF Range
    <3>4. \A i \in 1 .. 3 : Range(scans[i]) \subseteq seen_keys
      BY <3>1, <3>3 DEF HeadsInv
    <3>5. \A k \in seen_keys : \E i \in 1 .. 3 : k \in Range(scans[i])
      BY <3>1 DEF MergeInv, WinnerInv, Holders
    <3> QED
      BY <3>1, <3>4, <3>5
  <2> QED
    BY <2>1, <2>2 DEF NewestScanWins
<1> QED
  BY <1>1, MergeInvHolds, PTL

(* An entry that is intact in a table with its footer wins against the older
   file, whatever else of the table is damaged (compact, header_read_next). *)
THEOREM IntactAlwaysBeatsOlder == MergedSpec => []IntactBeatsOlder
<1>1. TableInv /\ MergeInv => IntactBeatsOlder
  <2> SUFFICES ASSUME TableInv, MergeInv, scans # <<>>, FooterIntact,
                      NEW k \in seen_keys, k \in keys, Intact(k)
               PROVE  winner[k] <= 2
    BY DEF IntactBeatsOlder
  <2>1. stage \in {"read", "refused"} /\ scans[2] = out /\ DOMAIN scans = 1 .. 3
    BY DEF MergeInv
  <2>2. k \in Range(out)
    BY <2>1, IntactIsServed DEF Serves
  <2>3. 2 \in Holders(k) /\ Holders(k) \in SUBSET Nat
    BY <2>1, <2>2 DEF Holders
  <2>4. Min(Holders(k)) <= 2
    BY <2>3, MinIsLeast
  <2> QED
    BY <2>4 DEF MergeInv, WinnerInv
<1> QED
  BY <1>1, MergeInvHolds, PTL
=============================================================================
