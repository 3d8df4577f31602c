----------------------------- MODULE TableFile -----------------------------
(***************************************************************************)
(* One table file, from flush_to to the reads of get and compact.  The     *)
(* file holds the records in key order, the bytes of the Bloom filter and  *)
(* the bit count.  The writer can be cut off at any byte, and bytes can    *)
(* change afterwards.  A record is known by its key, a number: a memtable  *)
(* holds one entry per key and walks its keys in order.                    *)
(***************************************************************************)
EXTENDS Header, BloomFilter

CONSTANTS
    SomeHashes,  \* the hashes that keys are tried with
    BitCounts,   \* what four bytes that are no bit count can be read as
    MaxFlips     \* bound: bytes that change

ASSUME TableAssumption ==
    /\ Ids \subseteq Nat /\ IsFiniteSet(Ids)
    /\ SomeHashes \subseteq Hashes
    /\ BitCounts \subseteq Nat /\ MaxFlips \in Nat

VARIABLES
    keys,     \* the keys of the memtable that is flushed, fixed
    hash,     \* the two hashes of each of them, fixed
    file,     \* the cells on disk
    bloom,    \* the filter flush_to fills
    todo,     \* the keys whose entries are not written
    stage,    \* "writing", "written", "cut", "open", "read" or "refused"
    flips,    \* bytes that have changed
    table,    \* what from_path returns: filter and bloom_filter_pos, or None
    cursor,   \* the file's cursor
    out       \* the keys read_next_entry has returned

tableVars == <<hash, keys, file, bloom, todo, stage, flips, table, cursor, out>>

fixed == <<hash, keys>>
writer == <<bloom, todo>>
reader == <<table, cursor, out>>

RecordCell == [rec : Ids, at : Nat]
BitsCell == [bits : Byte]
CountCell == [count : Nat]    \* four bytes in the code

FooterLen(bit_count) == ByteCount(bit_count) + 1

(* inner as it is written out, and the bit count behind it. *)
Footer(filter) ==
    [i \in 1 .. FooterLen(filter.bit_count) |->
        IF i <= ByteCount(filter.bit_count) THEN [bits |-> filter.inner[i - 1]]
        ELSE [count |-> filter.bit_count]]

Init ==
    /\ keys \in (SUBSET Ids) \ {{}}
    /\ hash \in [keys -> SomeHashes]
    /\ file = <<>>
    /\ bloom = NewFilter(10 * Cardinality(keys))
    /\ todo = keys
    /\ stage = "writing"
    /\ flips = 0
    /\ table = None /\ cursor = 0 /\ out = <<>>

----------------------------------------------------------------------------
(* MemTable::flush_to. *)

(* Mutation: the entries are not walked in ascending order. *)
WriteEntryDescending ==
    /\ stage = "writing" /\ todo # {}
    /\ file' = file \o Framed(Max(todo))
    /\ bloom' = Insert(bloom, hash[Max(todo)])
    /\ todo' = todo \ {Max(todo)}
    /\ UNCHANGED <<fixed, stage, flips, reader>>

WriteEntry ==
    /\ stage = "writing" /\ todo # {}
    /\ file' = file \o Framed(Min(todo))
    /\ bloom' = Insert(bloom, hash[Min(todo)])
    /\ todo' = todo \ {Min(todo)}
    /\ UNCHANGED <<fixed, stage, flips, reader>>

WriteFooter ==
    /\ stage = "writing" /\ todo = {}
    /\ file' = file \o Footer(bloom)
    /\ stage' = "written"
    /\ UNCHANGED <<fixed, writer, flips, reader>>

(* The writer dies or fails before sync_all returns: some prefix is there. *)
Cut ==
    /\ stage \in {"writing", "written"} /\ flips = 0
    /\ \E n \in 0 .. Len(file) :
          /\ n < Len(file) \/ stage = "writing"
          /\ file' = SubSeq(file, 1, n)
    /\ stage' = "cut"
    /\ UNCHANGED <<fixed, writer, flips, reader>>

(* One byte of the file changes: a record's checksum is wrong then, a byte of
   the filter has another bit, the bit count is another number. *)
Flip ==
    /\ stage \in {"written", "cut"} /\ flips < MaxFlips
    /\ \E i \in DOMAIN file :
          \/ /\ file[i] \in RecordCell
             /\ file' = [file EXCEPT ![i] = Bad]
          \/ /\ file[i] \in BitsCell
             /\ \E b \in 0..7 :
                   file' = [file EXCEPT ![i].bits = (@ \ {b}) \cup ({b} \ @)]
          \/ /\ file[i] \in CountCell
             /\ \E n \in BitCounts \ {file[i].count} :
                   file' = [file EXCEPT ![i].count = n]
    /\ flips' = flips + 1
    /\ UNCHANGED <<fixed, stage, writer, reader>>

----------------------------------------------------------------------------
(* SSTable::from_path and read_next_entry. *)

(* The bit count that read_bloom_filter takes from the last four bytes. *)
CountRead ==
    IF file[Len(file)] \in CountCell THEN {file[Len(file)].count} ELSE BitCounts

(* The filter it takes from the bytes before those, start being where the
   footer starts.  The bytes of records are one or the other garbage. *)
FiltersRead(n, start) ==
    {[bit_count |-> n,
      inner |-> [b \in 0 .. ByteCount(n) - 1 |->
          LET cell == file[start + b + 1]
          IN  IF cell \in BitsCell THEN cell.bits ELSE garbage]] :
     garbage \in {{}, 0..7}}

Refuse ==
    /\ stage' = "refused"
    /\ UNCHANGED <<fixed, file, writer, flips, reader>>

(* from_path returns None for a file that is shorter than its footer or holds
   no valid entry. *)
FromPath ==
    /\ stage \in {"written", "cut"}
    /\ \/ Len(file) = 0 /\ Refuse
       \/ /\ Len(file) > 0
          /\ \E n \in CountRead :
                \/ Len(file) < FooterLen(n) /\ Refuse
                \/ Len(file) >= FooterLen(n) /\ ~HasAtLeastOne(file) /\ Refuse
                \/ /\ Len(file) >= FooterLen(n) /\ HasAtLeastOne(file)
                   /\ LET start == Len(file) - FooterLen(n)
                      IN  \E filter \in FiltersRead(n, start) :
                             table' = [filter |-> filter, pos |-> start]
                   /\ cursor' = 0 /\ out' = <<>>
                   /\ stage' = "open"
                   /\ UNCHANGED <<fixed, file, writer, flips>>

(* The cursor is past the entries. *)
AtFooter(pos) == pos > table.pos

ReadNextEntry ==
    /\ stage = "open"
    /\ LET next == ReadNext(file, cursor)
       IN  IF AtFooter(cursor) \/ next.entry = None
           THEN /\ stage' = "read"
                /\ cursor' = IF AtFooter(cursor) THEN cursor ELSE next.pos
                /\ UNCHANGED out
           ELSE /\ out' = Append(out, next.entry)
                /\ cursor' = next.pos
                /\ UNCHANGED stage
    /\ UNCHANGED <<fixed, file, writer, flips, table>>

Next == WriteEntry \/ WriteFooter \/ Cut \/ Flip \/ FromPath \/ ReadNextEntry

Spec == Init /\ [][Next]_tableVars
----------------------------------------------------------------------------
(* Properties. *)

Cell == RecordCell \cup BitsCell \cup CountCell \cup {Bad}

(* Every variable keeps its type, and the footer an opened table goes by lies
   in its file. *)
TypeOK ==
    /\ keys \in (SUBSET Ids) \ {{}}
    /\ hash \in [keys -> SomeHashes]
    /\ todo \in SUBSET keys
    /\ \A i \in DOMAIN file : file[i] \in Cell
    /\ bloom.bit_count = 10 * Cardinality(keys)
    /\ bloom.inner \in [0 .. ByteCount(bloom.bit_count) - 1 -> Byte]
    /\ stage \in {"writing", "written", "cut", "open", "read", "refused"}
    /\ flips \in 0 .. MaxFlips
    /\ stage \notin {"open", "read"} => table = None
    /\ stage \in {"open", "read"} =>
          /\ table.filter.inner \in [0 .. ByteCount(table.filter.bit_count) - 1 -> Byte]
          /\ table.pos = Len(file) - FooterLen(table.filter.bit_count)
          /\ table.pos \in Nat
    /\ cursor \in 0 .. Len(file)
    /\ out \in Seq(keys)

(* The filter has no false negative for an entry that is written
   (flush_to inserts what it writes; insert and may_contain agree). *)
NoFalseNegatives == \A k \in keys \ todo : MayContain(bloom, hash[k])

(* Whatever was cut off or damaged, a scan yields only keys that were written
   and yields them in ascending order: the merge of compact takes the least
   head of its files and relies on it (read_next_entry, header_read_next). *)
ScanAscends ==
    /\ \A i \in DOMAIN out : out[i] \in keys \ todo
    /\ \A i, j \in DOMAIN out : i < j => out[i] < out[j]

Intact(k) == \E p \in 0 .. Len(file) - 1 : IntactAt(file, p, k)

FooterIntact ==
    LET footer == Footer(bloom)
    IN  /\ Len(file) >= Len(footer)
        /\ SubSeq(file, Len(file) - Len(footer) + 1, Len(file)) = footer

(* What get finds in the table. *)
Serves(k) ==
    /\ stage = "read"
    /\ MayContain(table.filter, hash[k])
    /\ k \in Range(out)

(* While the footer is as written, every entry whose bytes are as written is
   found, and with the last of them gone the file is refused (from_path,
   read_next_entry, may_contain). *)
IntactEntriesServed ==
    stage \in {"read", "refused"} /\ FooterIntact =>
        \A k \in keys : Intact(k) <=> Serves(k)

Finished ==
    Len(file) = SumFunctionOnSet(RecLen, keys) + FooterLen(bloom.bit_count)

(* An answer "not in this table" is right for every entry that is there, also
   after one byte of a finished table has changed: records have a checksum,
   the footer has none (may_contain, read_bloom_filter). *)
FalseIsAlwaysCorrect ==
    stage \in {"open", "read"} /\ Finished /\ flips <= 1 =>
        \A k \in keys : ~MayContain(table.filter, hash[k]) => ~Intact(k)
=============================================================================
