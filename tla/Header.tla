------------------------------- MODULE Header -------------------------------
(***************************************************************************)
(* The on-disk format of an entry: magic, checksum, length, payload.  A    *)
(* file is a sequence of cells; offsets count from 0, as the cursor does.  *)
(* That the bytes at an offset pass for a record that was not written      *)
(* there (its magic and its CRC32 both right by chance) is left out.       *)
(***************************************************************************)
EXTENDS Integers, Sequences, FiniteSetsExt

CONSTANTS
    Ids,      \* what is written: a record's identity
    RecLen,   \* cells of a record, header and payload, by its identity
    Bad,      \* a cell whose byte was changed
    None      \* no entry, no table

ASSUME RecLenAssumption ==
    /\ RecLen \in [Ids -> Nat \ {0, 1}]
    /\ None \notin Ids
    /\ Bad \notin [rec : Ids, at : Nat]

(* Serializer::serialize *)
Framed(r) == [i \in 1 .. RecLen[r] |-> [rec |-> r, at |-> i]]

(* Deserializer::deserialize on the bytes from offset p on: magic, length and
   checksum agree only where all of a record is. *)
IntactAt(file, p, r) ==
    /\ p + RecLen[r] <= Len(file)
    /\ \A i \in 1 .. RecLen[r] : file[p + i] = [rec |-> r, at |-> i]

Starts(file, pos) ==
    {p \in pos .. Len(file) - 1 : \E r \in Ids : IntactAt(file, p, r)}

EntryAt(file, p) == CHOOSE r \in Ids : IntactAt(file, p, r)

(* Mutation: bad data at the cursor ends the file. *)
ReadNextGivesUp(file, pos) ==
    IF pos \notin Starts(file, pos) THEN [entry |-> None, pos |-> Len(file)]
    ELSE [entry |-> EntryAt(file, pos), pos |-> pos + RecLen[EntryAt(file, pos)]]

(* Mutation: after bad data the cursor is moved by the record's length only,
   not by what was skipped. *)
ReadNextForgetsSkipped(file, pos) ==
    IF Starts(file, pos) = {} THEN [entry |-> None, pos |-> Len(file)]
    ELSE LET r == EntryAt(file, Min(Starts(file, pos)))
         IN  [entry |-> r, pos |-> pos + RecLen[r]]

(* header_read_next: the first record from pos on and the cursor behind it.
   With none the cursor is at the end, where read_to_end left it. *)
ReadNext(file, pos) ==
    IF Starts(file, pos) = {} THEN [entry |-> None, pos |-> Len(file)]
    ELSE LET p == Min(Starts(file, pos))
             r == EntryAt(file, p)
         IN  [entry |-> r, pos |-> p + RecLen[r]]

(* header_has_at_least_one *)
HasAtLeastOne(file) == Starts(file, 0) # {}
=============================================================================
