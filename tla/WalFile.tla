------------------------------ MODULE WalFile ------------------------------
(***************************************************************************)
(* The log as bytes: records are appended, an append can be cut off and    *)
(* followed by others, bytes can change, every start replays the file from *)
(* its beginning and a flush empties it.  Records are numbered as they are *)
(* appended.                                                               *)
(***************************************************************************)
EXTENDS Header

CONSTANT MaxFlips   \* bound: bytes that change

ASSUME WalAssumption ==
    /\ IsFiniteSet(Ids) /\ Ids = 1 .. Cardinality(Ids)
    /\ MaxFlips \in Nat

VARIABLES
    file,     \* the cells on disk
    last,     \* the number of the last record, its append complete or not
    whole,    \* the records appended completely since the file was empty
    flips,    \* bytes of this file that have changed
    replay,   \* "off", "on", or "done" until the next operation
    cursor,   \* the cursor of the replay
    out       \* the records it has returned

walVars == <<file, last, whole, flips, replay, cursor, out>>

Init ==
    /\ file = <<>> /\ last = 0 /\ whole = {} /\ flips = 0
    /\ replay = "off" /\ cursor = 0 /\ out = <<>>

Stop == replay # "on" /\ replay' = "off" /\ cursor' = 0 /\ out' = <<>>

(* header_write *)
AppendRecord ==
    /\ last + 1 \in Ids
    /\ file' = file \o Framed(last + 1)
    /\ last' = last + 1
    /\ whole' = whole \cup {last + 1}
    /\ Stop
    /\ UNCHANGED flips

(* header_write fails, or the process dies in it: some cells are written. *)
AppendTorn ==
    /\ last + 1 \in Ids
    /\ \E n \in 0 .. RecLen[last + 1] - 1 :
          file' = file \o SubSeq(Framed(last + 1), 1, n)
    /\ last' = last + 1
    /\ Stop
    /\ UNCHANGED <<whole, flips>>

(* A byte on disk changes. *)
Flip ==
    /\ flips < MaxFlips
    /\ \E i \in DOMAIN file :
          file[i] # Bad /\ file' = [file EXCEPT ![i] = Bad]
    /\ flips' = flips + 1
    /\ Stop
    /\ UNCHANGED <<last, whole>>

(* set_len(0) and the seek after it *)
Truncate ==
    /\ file # <<>>
    /\ file' = <<>> /\ whole' = {} /\ flips' = 0
    /\ Stop
    /\ UNCHANGED last

(* set_len fails, or a flush ends before it: the records stay. *)
TruncateFails ==
    /\ file # <<>>
    /\ Stop
    /\ UNCHANGED <<file, last, whole, flips>>

(* MemTable::from_file, of a process that starts. *)
StartReplay ==
    /\ replay' = "on" /\ cursor' = 0 /\ out' = <<>>
    /\ UNCHANGED <<file, last, whole, flips>>

ReplayNext ==
    /\ replay = "on"
    /\ LET next == ReadNext(file, cursor)
       IN  /\ cursor' = next.pos
           /\ IF next.entry = None
              THEN replay' = "done" /\ UNCHANGED out
              ELSE out' = Append(out, next.entry) /\ UNCHANGED replay
    /\ UNCHANGED <<file, last, whole, flips>>

Next ==
    \/ AppendRecord \/ AppendTorn \/ Flip
    \/ Truncate \/ TruncateFails
    \/ StartReplay \/ ReplayNext

Spec == Init /\ [][Next]_walVars

----------------------------------------------------------------------------
(* Properties. *)

(* A replay yields records in the order they were appended, each once, and
   none whose append was cut off (from_file, header_read_next). *)
ReplayInOrder ==
    /\ Range(out) \subseteq whole
    /\ \A i, j \in DOMAIN out : i < j => out[i] < out[j]

(* A changed byte costs one record, and a torn record costs none of the
   others, wherever in the file they are (header_read_next). *)
OneByteCostsOneRecord ==
    replay = "done" => Cardinality(whole \ Range(out)) <= flips
=============================================================================
