---------------------------- MODULE RunnerProofs ----------------------------
(***************************************************************************)
(* Theorems about Runner for any number of connections, keys and values,   *)
(* for answers that stay in the BufWriter or go through it, and for every  *)
(* error but one: that of Log::write, which comes after its answer.        *)
(***************************************************************************)
EXTENDS Runner, SequenceTheorems, TLAPS

WritesSucceed == Buffered /\ "write" \notin FailAt

Critical == {"execute", "write", "flush", "unlock"}

InHand == {"reject", "lock", "execute", "write"}

Answers == Words \X (Keys \cup Values \cup {Nil})

Types ==
    /\ store \in [Keys -> Values \cup {Nil}]
    /\ holder \in Conns \cup {Nil}
    /\ thread \in [Conns -> {"read", "reject", "lock", "execute", "write",
                             "flush", "unlock", "send", "drop", "ended"}]
    /\ line \in [Conns -> Lines \cup {Nil}]
    /\ buffer \in [Conns -> Answers \cup {Nil}]
    /\ done \in [Conns -> Nat]
    /\ inbox \in [Conns -> Seq(Lines)]
    /\ received \in [Conns -> Seq(Answers)]

(* One thread is in execute, the one that holds the mutex. *)
Mutex == \A c \in Conns : holder = c <=> thread[c] \in Critical

(* The command in hand, and the answer a write has prepared: the store has not
   changed since. *)
HandOf(c) ==
    /\ line[c] # Nil <=> thread[c] \in InHand
    /\ thread[c] = "reject" => line[c].op = "bad"
    /\ buffer[c] # Nil => thread[c] \in {"write", "flush", "unlock", "send", "drop"}
    /\ thread[c] = "write" => buffer[c] = Answer(store, line[c])

(* The answer in the buffer is the next one after those that have left. *)
CountOf(c) ==
    Len(received[c]) + (IF line[c] = Nil /\ buffer[c] # Nil THEN 1 ELSE 0) <= done[c]

RunnerInv ==
    /\ Types
    /\ Mutex
    /\ \A c \in Conns : HandOf(c) /\ CountOf(c)

----------------------------------------------------------------------------
(* Answers and effects. *)

(* Every answer is a word and what it is about, never Nil. *)
LEMMA AnswerType ==
    ASSUME NEW kv \in [Keys -> Values \cup {Nil}], NEW l \in Lines
    PROVE  Answer(kv, l) \in Answers /\ Answer(kv, l) # Nil
<1>1. l.key \in Keys /\ l.value \in Values /\ kv[l.key] \in Values \cup {Nil}
  BY LinesAssumption
<1>2. Answer(kv, l) \in Answers
  BY <1>1 DEF Answer, Answers, Words
<1> QED
  BY <1>2, LinesAssumption DEF Answers

(* A write leaves a store behind. *)
LEMMA EffectType ==
    ASSUME NEW kv \in [Keys -> Values \cup {Nil}], NEW l \in Lines
    PROVE  Effect(kv, l) \in [Keys -> Values \cup {Nil}]
<1>1. l.key \in Keys /\ l.value \in Values
  BY LinesAssumption
<1> QED
  BY <1>1 DEF Effect

(* A command that does not go on to write has no effect. *)
LEMMA NoEffect ==
    ASSUME NEW kv \in [Keys -> Values \cup {Nil}], NEW l \in Lines,
           ~(l.op = "set" \/ (l.op = "delete" /\ kv[l.key] # Nil))
    PROVE  Effect(kv, l) = kv
<1>1. l.key \in Keys
  BY LinesAssumption
<1> QED
  BY <1>1 DEF Effect

----------------------------------------------------------------------------
(* One thread's step. *)

(* What does not change for the connections other than c. *)
OthersKeep(c) ==
    \A d \in Conns \ {c} :
        /\ thread'[d] = thread[d] /\ line'[d] = line[d]
        /\ buffer'[d] = buffer[d] /\ done'[d] = done[d]
        /\ received'[d] = received[d]

(* A step of c's thread keeps the invariant if it keeps c's part of it, takes
   or releases the mutex for c only and writes to the store with the mutex. *)
LEMMA ThreadStep ==
    ASSUME RunnerInv, NEW c \in Conns, Types', OthersKeep(c),
           store' = store \/ holder = c,
           holder' = holder \/ (holder \in {c, Nil} /\ holder' \in {c, Nil}),
           holder' = c <=> thread'[c] \in Critical,
           HandOf(c)', CountOf(c)'
    PROVE  RunnerInv'
<1>1. ASSUME NEW d \in Conns, d # c
      PROVE  (holder = d <=> thread[d] \in Critical)' /\ HandOf(d)' /\ CountOf(d)'
  <2>1. /\ thread'[d] = thread[d] /\ line'[d] = line[d]
        /\ buffer'[d] = buffer[d] /\ done'[d] = done[d]
        /\ received'[d] = received[d]
    BY <1>1 DEF OthersKeep
  <2>2. /\ holder = d <=> thread[d] \in Critical
        /\ HandOf(d) /\ CountOf(d)
    BY DEF RunnerInv, Mutex
  <2>3. holder' = d <=> holder = d
    BY <1>1, LinesAssumption
  <2>4. thread[d] = "write" => store' = store
    BY <1>1, <2>2 DEF Critical
  <2>5. HandOf(d)'
    BY <2>1, <2>2, <2>4 DEF HandOf
  <2>6. CountOf(d)'
    BY <2>1, <2>2 DEF CountOf
  <2> QED
    BY <2>1, <2>2, <2>3, <2>5, <2>6
<1>2. Mutex'
  BY <1>1 DEF Mutex
<1>3. \A d \in Conns : HandOf(d)' /\ CountOf(d)'
  BY <1>1
<1> QED
  BY <1>2, <1>3 DEF RunnerInv

(* The values of the functions that the invariant types. *)
LEMMA TypesAt ==
    ASSUME Types, NEW c \in Conns
    PROVE  /\ line[c] \in Lines \cup {Nil}
           /\ buffer[c] \in Answers \cup {Nil}
           /\ done[c] \in Nat
           /\ inbox[c] \in Seq(Lines)
           /\ received[c] \in Seq(Answers) /\ Len(received[c]) \in Nat
BY DEF Types

(* One answer more is covered by one command more. *)
LEMMA OneMore ==
    ASSUME NEW n \in Nat, NEW m \in Nat, n <= m, NEW P \in BOOLEAN
    PROVE  n + (IF P THEN 1 ELSE 0) <= m + 1
OBVIOUS

(* With or without an answer in the buffer, no more have left than were due. *)
LEMMA LeftOnes ==
    ASSUME Types, NEW c \in Conns, CountOf(c)
    PROVE  Len(received[c]) <= done[c]
<1>1. \A n, m \in Nat, P \in BOOLEAN : n + (IF P THEN 1 ELSE 0) <= m => n <= m
  OBVIOUS
<1> QED
  BY <1>1, TypesAt DEF CountOf

(* An answer may be dropped from the buffer. *)
LEMMA AnswerDropped ==
    ASSUME Types, NEW c \in Conns, CountOf(c),
           buffer'[c] = Nil, done'[c] = done[c], received'[c] = received[c]
    PROVE  CountOf(c)'
<1>1. Len(received[c]) <= done[c] /\ Len(received[c]) \in Nat /\ done[c] \in Nat
  BY LeftOnes, TypesAt
<1>2. Len(received'[c]) + 0 <= done'[c]
  BY <1>1
<1> QED
  BY <1>2 DEF CountOf

LEMMA ReadLineKeeps ==
    ASSUME RunnerInv, NEW c \in Conns, ReadLine(c)
    PROVE  RunnerInv'
<1> USE DEF ReadLine, Go, clientVars
<1>1. Types /\ HandOf(c) /\ CountOf(c) /\ (holder = c <=> thread[c] \in Critical)
  BY DEF RunnerInv, Mutex
<1>2. thread[c] = "read" /\ line[c] = Nil /\ buffer[c] = Nil /\ holder # c
  BY <1>1 DEF HandOf, InHand, Critical
<1>3. UNCHANGED <<store, holder, buffer, done, received>>
  OBVIOUS
<1>4. CASE inbox[c] = <<>> \/ Head(inbox[c]).op = "quit"
  <2>1. /\ thread' = [thread EXCEPT ![c] = "ended"]
        /\ line' = line
        /\ inbox' = inbox \/ inbox' = [inbox EXCEPT ![c] = Tail(@)]
    BY <1>4
  <2>2. inbox[c] # <<>> => Tail(inbox[c]) \in Seq(Lines)
    BY <1>1, TypesAt
  <2>3. Types'
    BY <1>1, <1>3, <1>4, <2>1, <2>2 DEF Types
  <2>4. OthersKeep(c)
    BY <1>1, <1>3, <2>1 DEF OthersKeep, Types
  <2>5. thread'[c] = "ended"
    BY <1>1, <2>1 DEF Types
  <2>6. HandOf(c)' /\ CountOf(c)'
    BY <1>1, <1>2, <1>3, <2>1, <2>5 DEF HandOf, CountOf, InHand
  <2> QED
    BY <1>2, <1>3, <2>3, <2>4, <2>5, <2>6, ThreadStep DEF Critical
<1>5. CASE inbox[c] # <<>> /\ Head(inbox[c]).op # "quit"
  <2> DEFINE l == Head(inbox[c])
  <2>1. /\ inbox' = [inbox EXCEPT ![c] = Tail(@)]
        /\ line' = [line EXCEPT ![c] = l]
        /\ thread' = [thread EXCEPT ![c] = IF l.op = "bad" THEN "reject" ELSE "lock"]
    BY <1>5
  <2>2. l \in Lines /\ Tail(inbox[c]) \in Seq(Lines)
    BY <1>1, <1>5, TypesAt
  <2>3. l # Nil
    BY <2>2, LinesAssumption
  <2> HIDE DEF l
  <2>4. Types'
    BY <1>1, <1>3, <2>1, <2>2 DEF Types
  <2>5. OthersKeep(c)
    BY <1>1, <1>3, <2>1 DEF OthersKeep, Types
  <2>6. /\ thread'[c] \in {"reject", "lock"} /\ line'[c] = l
        /\ thread'[c] = "reject" => l.op = "bad"
    BY <1>1, <2>1 DEF Types
  <2>7. HandOf(c)' /\ CountOf(c)'
    BY <1>1, <1>2, <1>3, <2>3, <2>6 DEF HandOf, CountOf, InHand
  <2> QED
    BY <1>2, <1>3, <2>4, <2>5, <2>6, <2>7, ThreadStep DEF Critical
<1> QED
  BY <1>4, <1>5

LEMMA RejectKeeps ==
    ASSUME WritesSucceed, RunnerInv, NEW c \in Conns, Reject(c)
    PROVE  RunnerInv'
<1> DEFINE a == Answer(store, line[c])
<1>1. Types /\ HandOf(c) /\ CountOf(c) /\ (holder = c <=> thread[c] \in Critical)
  BY DEF RunnerInv, Mutex
<1>2. /\ thread[c] = "reject" /\ line[c] # Nil /\ line[c] \in Lines
      /\ holder # c /\ buffer[c] = Nil
  BY <1>1, TypesAt DEF Reject, HandOf, InHand, Critical
<1>3. a \in Answers /\ a # Nil
  BY <1>1, <1>2, AnswerType DEF Types
<1> HIDE DEF a
<1>4. /\ buffer' = [buffer EXCEPT ![c] = a]
      /\ line' = [line EXCEPT ![c] = Nil]
      /\ done' = [done EXCEPT ![c] = @ + 1]
      /\ thread' = [thread EXCEPT ![c] = "send"]
      /\ UNCHANGED <<store, holder, inbox, received>>
  BY DEF Reject, WriteAnswer, WritesSucceed, Finish, Go, a
<1>5. Types'
  BY <1>1, <1>3, <1>4 DEF Types
<1>6. OthersKeep(c)
  BY <1>1, <1>4 DEF OthersKeep, Types
<1>7. /\ thread'[c] = "send" /\ line'[c] = Nil /\ buffer'[c] = a
      /\ done'[c] = done[c] + 1 /\ received'[c] = received[c]
  BY <1>1, <1>4 DEF Types
<1>8. HandOf(c)'
  BY <1>7 DEF HandOf, InHand
<1>9. Len(received[c]) <= done[c]
  BY <1>1, <1>2, TypesAt DEF CountOf
<1>10. CountOf(c)'
  <2>1. Len(received[c]) + (IF line'[c] = Nil /\ buffer'[c] # Nil THEN 1 ELSE 0)
            <= done[c] + 1
    BY <1>1, <1>9, TypesAt, OneMore
  <2> QED
    BY <2>1, <1>7 DEF CountOf
<1> QED
  BY <1>2, <1>4, <1>5, <1>6, <1>7, <1>8, <1>10, ThreadStep DEF Critical

LEMMA LockKeeps ==
    ASSUME RunnerInv, NEW c \in Conns, Lock(c)
    PROVE  RunnerInv'
<1>1. Types /\ HandOf(c) /\ CountOf(c)
  BY DEF RunnerInv
<1>2. thread[c] = "lock" /\ holder = Nil
  BY DEF Lock
<1>3. /\ holder' = c
      /\ thread' = [thread EXCEPT ![c] = "execute"]
      /\ UNCHANGED <<store, line, buffer, done, inbox, received>>
  BY DEF Lock, Go
<1>4. Types'
  BY <1>1, <1>3 DEF Types
<1>5. OthersKeep(c)
  BY <1>1, <1>3 DEF OthersKeep, Types
<1>6. thread'[c] = "execute"
  BY <1>1, <1>3 DEF Types
<1>7. HandOf(c)' /\ CountOf(c)'
  BY <1>1, <1>2, <1>3, <1>6 DEF HandOf, CountOf, InHand
<1> QED
  BY <1>2, <1>3, <1>4, <1>5, <1>6, <1>7, ThreadStep DEF Critical

(* What execute finds: the mutex is its own and the buffer is empty. *)
LEMMA ExecuteFinds ==
    ASSUME RunnerInv, NEW c \in Conns, thread[c] = "execute"
    PROVE  /\ holder = c /\ line[c] \in Lines /\ line[c] # Nil /\ buffer[c] = Nil
           /\ Answer(store, line[c]) \in Answers /\ Answer(store, line[c]) # Nil
<1>1. Types /\ HandOf(c) /\ (holder = c <=> thread[c] \in Critical)
  BY DEF RunnerInv, Mutex
<1>2. line[c] \in Lines /\ line[c] # Nil
  BY <1>1, TypesAt DEF HandOf, InHand
<1> QED
  BY <1>1, <1>2, AnswerType DEF HandOf, Critical, Types

LEMMA ExecuteKeeps ==
    ASSUME WritesSucceed, RunnerInv, NEW c \in Conns, Execute(c)
    PROVE  RunnerInv'
<1> DEFINE a == Answer(store, line[c])
           next == thread'[c]
<1>1. Types /\ HandOf(c) /\ CountOf(c)
  BY DEF RunnerInv
<1>2. /\ thread[c] = "execute" /\ holder = c /\ line[c] # Nil /\ buffer[c] = Nil
      /\ a \in Answers /\ a # Nil
  BY ExecuteFinds DEF Execute
<1> HIDE DEF a
<1>3. /\ buffer' = [buffer EXCEPT ![c] = a]
      /\ UNCHANGED <<store, holder, inbox, received>>
  BY DEF Execute, WriteAnswer, WritesSucceed, a
<1>4. CASE thread' = [thread EXCEPT ![c] = "write"] /\ UNCHANGED <<line, done>>
  <2>1. Types'
    BY <1>1, <1>2, <1>3, <1>4 DEF Types
  <2>2. OthersKeep(c)
    BY <1>1, <1>3, <1>4 DEF OthersKeep, Types
  <2>3. thread'[c] = "write" /\ buffer'[c] = a
    BY <1>1, <1>3, <1>4 DEF Types
  <2>4. HandOf(c)' /\ CountOf(c)'
    BY <1>1, <1>2, <1>3, <1>4, <2>3 DEF HandOf, CountOf, InHand, a
  <2> QED
    BY <1>2, <1>3, <2>1, <2>2, <2>3, <2>4, ThreadStep DEF Critical
<1>5. CASE Finish(c) /\ thread' = [thread EXCEPT ![c] =
               IF line[c].op = "delete" THEN "flush" ELSE "unlock"]
  <2>1. /\ line' = [line EXCEPT ![c] = Nil]
        /\ done' = [done EXCEPT ![c] = @ + 1]
    BY <1>5 DEF Finish
  <2>2. Types'
    BY <1>1, <1>2, <1>3, <1>5, <2>1 DEF Types
  <2>3. OthersKeep(c)
    BY <1>1, <1>3, <1>5, <2>1 DEF OthersKeep, Types
  <2>4. /\ thread'[c] \in {"flush", "unlock"} /\ line'[c] = Nil
        /\ buffer'[c] = a /\ done'[c] = done[c] + 1 /\ received'[c] = received[c]
    BY <1>1, <1>3, <1>5, <2>1 DEF Types
  <2>5. HandOf(c)' /\ CountOf(c)'
    BY <1>1, <1>2, <2>4, TypesAt DEF HandOf, CountOf, InHand
  <2> QED
    BY <1>2, <1>3, <2>2, <2>3, <2>4, <2>5, ThreadStep DEF Critical
<1> QED
  BY <1>4, <1>5 DEF Execute, Go

LEMMA WriteKeeps ==
    ASSUME RunnerInv, NEW c \in Conns, Write(c)
    PROVE  RunnerInv'
<1>1. Types /\ HandOf(c) /\ CountOf(c) /\ (holder = c <=> thread[c] \in Critical)
  BY DEF RunnerInv, Mutex
<1>2. /\ thread[c] = "write" /\ holder = c /\ line[c] # Nil /\ line[c] \in Lines
  BY <1>1, TypesAt DEF Write, HandOf, InHand, Critical
<1>3. /\ store' = Effect(store, line[c])
      /\ line' = [line EXCEPT ![c] = Nil]
      /\ done' = [done EXCEPT ![c] = @ + 1]
      /\ thread' = [thread EXCEPT ![c] = "flush"]
      /\ UNCHANGED <<holder, buffer, inbox, received>>
  BY DEF Write, Finish, Go
<1>4. store' \in [Keys -> Values \cup {Nil}]
  BY <1>1, <1>2, <1>3, EffectType DEF Types
<1>5. Types'
  BY <1>1, <1>3, <1>4 DEF Types
<1>6. OthersKeep(c)
  BY <1>1, <1>3 DEF OthersKeep, Types
<1>7. /\ thread'[c] = "flush" /\ line'[c] = Nil
      /\ buffer'[c] = buffer[c] /\ done'[c] = done[c] + 1 /\ received'[c] = received[c]
  BY <1>1, <1>3 DEF Types
<1>8. HandOf(c)'
  BY <1>7 DEF HandOf, InHand
<1>9. Len(received[c]) <= done[c]
  BY <1>1, <1>2, TypesAt DEF CountOf
<1>10. CountOf(c)'
  <2>1. Len(received[c]) + (IF line'[c] = Nil /\ buffer'[c] # Nil THEN 1 ELSE 0)
            <= done[c] + 1
    BY <1>1, <1>9, TypesAt, OneMore
  <2> QED
    BY <2>1, <1>7 DEF CountOf
<1> QED
  BY <1>2, <1>3, <1>5, <1>6, <1>7, <1>8, <1>10, ThreadStep DEF Critical

LEMMA MaybeFlushKeeps ==
    ASSUME RunnerInv, NEW c \in Conns, MaybeFlush(c)
    PROVE  RunnerInv'
<1>1. Types /\ HandOf(c) /\ CountOf(c) /\ (holder = c <=> thread[c] \in Critical)
  BY DEF RunnerInv, Mutex
<1>2. /\ thread[c] = "flush"
      /\ thread' = [thread EXCEPT ![c] = "unlock"]
      /\ UNCHANGED <<store, holder, line, buffer, done, inbox, received>>
  BY DEF MaybeFlush, Go
<1>3. Types'
  BY <1>1, <1>2 DEF Types
<1>4. OthersKeep(c)
  BY <1>1, <1>2 DEF OthersKeep, Types
<1>5. thread'[c] = "unlock"
  BY <1>1, <1>2 DEF Types
<1>6. HandOf(c)' /\ CountOf(c)'
  BY <1>1, <1>2, <1>5 DEF HandOf, CountOf, InHand
<1> QED
  BY <1>1, <1>2, <1>3, <1>4, <1>5, <1>6, ThreadStep DEF Critical

LEMMA UnlockKeeps ==
    ASSUME RunnerInv, NEW c \in Conns, Unlock(c)
    PROVE  RunnerInv'
<1>1. Types /\ HandOf(c) /\ CountOf(c) /\ (holder = c <=> thread[c] \in Critical)
  BY DEF RunnerInv, Mutex
<1>2. /\ thread[c] = "unlock" /\ holder' = Nil
      /\ thread' = [thread EXCEPT ![c] = "send"]
      /\ UNCHANGED <<store, line, buffer, done, inbox, received>>
  BY DEF Unlock, Go
<1>3. Types'
  BY <1>1, <1>2 DEF Types
<1>4. OthersKeep(c)
  BY <1>1, <1>2 DEF OthersKeep, Types
<1>5. thread'[c] = "send" /\ holder = c /\ holder' # c
  BY <1>1, <1>2, LinesAssumption DEF Types, Critical
<1>6. HandOf(c)' /\ CountOf(c)'
  BY <1>1, <1>2, <1>5 DEF HandOf, CountOf, InHand
<1> QED
  BY <1>2, <1>3, <1>4, <1>5, <1>6, ThreadStep DEF Critical

LEMMA SendAnswerKeeps ==
    ASSUME RunnerInv, NEW c \in Conns, SendAnswer(c)
    PROVE  RunnerInv'
<1> DEFINE next == IF thread[c] = "drop" THEN "ended" ELSE "read"
<1>1. Types /\ HandOf(c) /\ CountOf(c) /\ (holder = c <=> thread[c] \in Critical)
  BY DEF RunnerInv, Mutex
<1>2. /\ thread[c] \in {"send", "drop"}
      /\ thread' = [thread EXCEPT ![c] = next]
      /\ buffer' = [buffer EXCEPT ![c] = Nil]
      /\ UNCHANGED <<store, holder, line, done, inbox>>
      /\ \/ UNCHANGED received
         \/ buffer[c] # Nil /\ received' = [received EXCEPT ![c] = Append(@, buffer[c])]
  BY DEF SendAnswer, Go, Put
<1>3. line[c] = Nil /\ holder # c
  BY <1>1, <1>2 DEF HandOf, InHand, Critical
<1>4. received' \in [Conns -> Seq(Answers)]
  <2>1. buffer[c] # Nil => Append(received[c], buffer[c]) \in Seq(Answers)
    BY <1>1, TypesAt
  <2> QED
    BY <1>1, <1>2, <2>1 DEF Types
<1>5. Types'
  BY <1>1, <1>2, <1>4 DEF Types
<1>6. OthersKeep(c)
  BY <1>1, <1>2 DEF OthersKeep, Types
<1>7. /\ thread'[c] \in {"read", "ended"} /\ buffer'[c] = Nil
      /\ line'[c] = Nil /\ done'[c] = done[c]
  BY <1>1, <1>2, <1>3 DEF Types
<1>8. HandOf(c)'
  BY <1>7 DEF HandOf, InHand
<1>9. CountOf(c)'
  <2>1. CASE UNCHANGED received
    BY <1>1, <1>7, <2>1, AnswerDropped
  <2>2. CASE buffer[c] # Nil /\ received' = [received EXCEPT ![c] = Append(@, buffer[c])]
    <3>1. Len(received'[c]) = Len(received[c]) + 1
      BY <1>1, <2>2, TypesAt DEF Types
    <3>2. Len(received[c]) + 1 <= done[c]
      BY <1>1, <1>3, <2>2 DEF CountOf
    <3> QED
      BY <1>1, <1>7, <3>1, <3>2, TypesAt DEF CountOf
  <2> QED
    BY <1>2, <2>1, <2>2
<1> QED
  BY <1>2, <1>3, <1>5, <1>6, <1>7, <1>8, <1>9, ThreadStep DEF Critical

----------------------------------------------------------------------------
(* Errors and the end of the process. *)

LEMMA FailKeeps ==
    ASSUME WritesSucceed, RunnerInv, NEW c \in Conns, Fail(c)
    PROVE  RunnerInv'
<1>1. Types /\ HandOf(c) /\ CountOf(c) /\ (holder = c <=> thread[c] \in Critical)
  BY DEF RunnerInv, Mutex
<1>2. thread[c] \in {"execute", "flush"}
  BY WriterAssumption DEF Fail, WritesSucceed
<1>3. /\ holder' = Nil
      /\ line' = [line EXCEPT ![c] = Nil]
      /\ thread' = [thread EXCEPT ![c] = "drop"]
      /\ UNCHANGED <<store, buffer, done, inbox, received>>
  BY DEF Fail, Go
<1>4. holder = c /\ holder' # c
  BY <1>1, <1>2, <1>3, LinesAssumption DEF Critical
<1>5. Types'
  BY <1>1, <1>3 DEF Types
<1>6. OthersKeep(c)
  BY <1>1, <1>3 DEF OthersKeep, Types
<1>7. thread'[c] = "drop" /\ line'[c] = Nil /\ UNCHANGED <<buffer, done, received>>
  BY <1>1, <1>3 DEF Types
<1>8. HandOf(c)'
  BY <1>7 DEF HandOf, InHand
<1>9. buffer[c] # Nil => line[c] = Nil
  BY <1>1, <1>2 DEF HandOf, InHand
<1>10. CountOf(c)'
  BY <1>1, <1>7, <1>9, TypesAt DEF CountOf
<1> QED
  BY <1>3, <1>4, <1>5, <1>6, <1>7, <1>8, <1>10, ThreadStep DEF Critical

LEMMA DisconnectedKeeps ==
    ASSUME RunnerInv, NEW c \in Conns, Disconnected(c)
    PROVE  RunnerInv'
<1>1. Types /\ HandOf(c) /\ CountOf(c) /\ (holder = c <=> thread[c] \in Critical)
  BY DEF RunnerInv, Mutex
<1>2. /\ thread[c] \in {"read", "send"}
      /\ buffer' = [buffer EXCEPT ![c] = Nil]
      /\ thread' = [thread EXCEPT ![c] = "ended"]
      /\ UNCHANGED <<store, holder, line, done, inbox, received>>
  BY DEF Disconnected, Go
<1>3. line[c] = Nil /\ holder # c
  BY <1>1, <1>2 DEF HandOf, InHand, Critical
<1>4. Types'
  BY <1>1, <1>2 DEF Types
<1>5. OthersKeep(c)
  BY <1>1, <1>2 DEF OthersKeep, Types
<1>6. /\ thread'[c] = "ended" /\ buffer'[c] = Nil
      /\ UNCHANGED <<line, done, received>>
  BY <1>1, <1>2 DEF Types
<1>7. HandOf(c)'
  BY <1>3, <1>6 DEF HandOf, InHand
<1>8. CountOf(c)'
  BY <1>1, <1>6, AnswerDropped
<1> QED
  BY <1>2, <1>3, <1>4, <1>5, <1>6, <1>7, <1>8, ThreadStep DEF Critical

LEMMA KillKeeps ==
    ASSUME RunnerInv, Kill
    PROVE  RunnerInv'
<1>1. Types /\ \A c \in Conns : HandOf(c) /\ CountOf(c)
  BY DEF RunnerInv
<1>2. /\ holder' = Nil
      /\ thread' = [c \in Conns |-> "ended"]
      /\ line' = [c \in Conns |-> Nil]
      /\ buffer' = [c \in Conns |-> Nil]
      /\ UNCHANGED <<done, inbox, received>>
  BY DEF Kill
<1>3. store' \in [Keys -> Values \cup {Nil}]
  <2>1. ASSUME NEW c \in Conns, thread[c] = "write", store' = Effect(store, line[c])
        PROVE  store' \in [Keys -> Values \cup {Nil}]
    <3>1. line[c] \in Lines
      BY <1>1, <2>1, TypesAt DEF HandOf, InHand
    <3> QED
      BY <1>1, <2>1, <3>1, EffectType DEF Types
  <2> QED
    BY <1>1, <2>1 DEF Kill, Types
<1>4. Types'
  BY <1>1, <1>2, <1>3 DEF Types
<1>5. Mutex'
  BY <1>2, LinesAssumption DEF Mutex, Critical
<1>6. ASSUME NEW c \in Conns
      PROVE  HandOf(c)' /\ CountOf(c)'
  <2>1. /\ thread'[c] = "ended" /\ line'[c] = Nil /\ buffer'[c] = Nil
        /\ done'[c] = done[c] /\ received'[c] = received[c]
    BY <1>2
  <2>2. HandOf(c)'
    BY <2>1 DEF HandOf, InHand
  <2>3. CountOf(c)'
    BY <1>1, <2>1, AnswerDropped
  <2> QED
    BY <2>2, <2>3
<1> QED
  BY <1>4, <1>5, <1>6 DEF RunnerInv

(* A client touches its own counters and the lines on their way, which the
   invariant does not speak of. *)
LEMMA ClientKeeps ==
    ASSUME RunnerInv,
           UNCHANGED <<store, holder, thread, line, buffer, done, received>>,
           inbox' \in [Conns -> Seq(Lines)]
    PROVE  RunnerInv'
<1>1. Types' /\ Mutex'
  BY DEF RunnerInv, Types, Mutex
<1>2. \A c \in Conns : HandOf(c)' /\ CountOf(c)'
  BY DEF RunnerInv, HandOf, CountOf
<1> QED
  BY <1>1, <1>2 DEF RunnerInv

----------------------------------------------------------------------------
(* The invariant. *)

LEMMA RunnerInvInit == Init => RunnerInv
<1> SUFFICES ASSUME Init PROVE RunnerInv
  OBVIOUS
<1>1. Types
  BY DEF Init, Types
<1>2. Mutex
  BY LinesAssumption DEF Init, Mutex, Critical
<1>3. \A c \in Conns : HandOf(c) /\ CountOf(c)
  BY DEF Init, HandOf, CountOf, InHand
<1> QED
  BY <1>1, <1>2, <1>3 DEF RunnerInv

LEMMA RunnerInvNext ==
    ASSUME WritesSucceed, RunnerInv, [Next]_vars
    PROVE  RunnerInv'
<1>1. ASSUME NEW c \in Conns, Send(c)
      PROVE  RunnerInv'
  <2>1. inbox' \in [Conns -> Seq(Lines)]
    BY <1>1, TypesAt DEF Send, RunnerInv, Types
  <2> QED
    BY <1>1, <2>1, ClientKeeps DEF Send
<1>2. ASSUME NEW c \in Conns, Take(c) \/ Leave(c)
      PROVE  RunnerInv'
  BY <1>2, ClientKeeps DEF Take, Leave, RunnerInv, Types
<1>3. ASSUME NEW c \in Conns, Thread(c)
      PROVE  RunnerInv'
  BY <1>3, ReadLineKeeps, RejectKeeps, LockKeeps, ExecuteKeeps, WriteKeeps,
     MaybeFlushKeeps, UnlockKeeps, SendAnswerKeeps DEF Thread
<1>4. ASSUME NEW c \in Conns, Fail(c) \/ Disconnected(c)
      PROVE  RunnerInv'
  BY <1>4, FailKeeps, DisconnectedKeeps
<1>5. CASE Kill
  BY <1>5, KillKeeps
<1>6. CASE UNCHANGED vars
  BY <1>6, ClientKeeps DEF vars, RunnerInv, Types
<1> QED
  BY <1>1, <1>2, <1>3, <1>4, <1>5, <1>6 DEF Next

(* One thread at a time is in execute, and nobody has the answer to a command
   that has not been carried out, as long as the log's writes succeed: the
   answer waits in the BufWriter until the guard is gone (run). *)
THEOREM AnswersFollowWrites ==
    ASSUME WritesSucceed
    PROVE  Spec => [](Mutex /\ AnsweredIsDone)
<1>1. RunnerInv => Mutex /\ AnsweredIsDone
  <2> SUFFICES ASSUME RunnerInv, NEW c \in Conns
               PROVE  Len(received[c]) <= done[c]
    BY DEF RunnerInv, AnsweredIsDone
  <2> QED
    BY LeftOnes DEF RunnerInv
<1>2. RunnerInv /\ [Next]_vars => RunnerInv'
  BY RunnerInvNext
<1> QED
  BY <1>1, <1>2, RunnerInvInit, PTL DEF Spec

----------------------------------------------------------------------------
(* The clients' side: every line is in the inbox, in hand, carried out or was
   lost, and no more answers are on their way than the socket has room for. *)

ClientTypes ==
    /\ sent \in [Conns -> Nat] /\ taken \in [Conns -> Nat]
    /\ gone \subseteq Conns

LinesOf(c) ==
    done[c] + Len(inbox[c]) + (IF line[c] = Nil THEN 0 ELSE 1) <= sent[c]

AnswersOf(c) ==
    taken[c] <= Len(received[c]) /\ Len(received[c]) - taken[c] <= SocketRoom

ClientInv ==
    /\ ClientTypes
    /\ \A c \in Conns : LinesOf(c) /\ AnswersOf(c)

(* Its lines stay accounted for if c's thread only reads one, carries out or
   drops the one in hand, and the answers if it sends one into room. *)
LEMMA PipeStep ==
    ASSUME Types, Types', ClientInv, NEW c \in Conns, UNCHANGED clientVars,
           \A d \in Conns \ {c} : /\ done'[d] = done[d] /\ inbox'[d] = inbox[d]
                                  /\ line'[d] = line[d] /\ received'[d] = received[d],
           LinesOf(c)',
           \/ received'[c] = received[c]
           \/ /\ Len(received'[c]) = Len(received[c]) + 1
              /\ Len(received[c]) - taken[c] < SocketRoom
    PROVE  ClientInv'
<1>1. ClientTypes'
  BY DEF ClientInv, ClientTypes, clientVars
<1>2. ASSUME NEW d \in Conns, d # c
      PROVE  LinesOf(d)' /\ AnswersOf(d)'
  BY <1>2 DEF ClientInv, LinesOf, AnswersOf, clientVars
<1>3. AnswersOf(c)'
  <2>1. Len(received[c]) \in Nat /\ taken[c] \in Nat /\ SocketRoom \in Nat
    BY TypesAt, WriterAssumption DEF ClientInv, ClientTypes
  <2> QED
    BY <2>1 DEF ClientInv, AnswersOf, clientVars
<1> QED
  BY <1>1, <1>2, <1>3 DEF ClientInv

(* The line in hand is done, or dropped. *)
LEMMA LineEnds ==
    ASSUME Types, ClientInv, NEW c \in Conns,
           UNCHANGED <<inbox, sent>>, line[c] # Nil, line'[c] = Nil,
           done'[c] \in {done[c], done[c] + 1}
    PROVE  LinesOf(c)'
<1>1. done[c] \in Nat /\ Len(inbox[c]) \in Nat /\ sent[c] \in Nat
  BY TypesAt DEF ClientInv, ClientTypes
<1>2. done[c] + Len(inbox[c]) + 1 <= sent[c]
  BY DEF ClientInv, LinesOf
<1>3. done'[c] + Len(inbox'[c]) + 0 <= sent'[c]
  BY <1>1, <1>2
<1> QED
  BY <1>3 DEF LinesOf

LEMMA ClientInvInit == Init => ClientInv
<1> SUFFICES ASSUME Init PROVE ClientInv
  OBVIOUS
<1>1. Len(<<>>) = 0 /\ SocketRoom \in Nat
  BY WriterAssumption
<1> QED
  BY <1>1 DEF Init, ClientInv, ClientTypes, LinesOf, AnswersOf

(* A client's own step. *)
LEMMA ClientMoves ==
    ASSUME Types, ClientInv, NEW c \in Conns, Send(c) \/ Take(c) \/ Leave(c)
    PROVE  ClientInv'
<1>1. \A d \in Conns :
         /\ done[d] \in Nat /\ Len(inbox[d]) \in Nat /\ Len(received[d]) \in Nat
         /\ sent[d] \in Nat /\ taken[d] \in Nat
  BY TypesAt DEF ClientInv, ClientTypes
<1>2. SocketRoom \in Nat
  BY WriterAssumption
<1>3. CASE Send(c)
  <2>1. PICK l \in Lines : inbox' = [inbox EXCEPT ![c] = Append(@, l)]
    BY <1>3 DEF Send
  <2>2. /\ sent' = [sent EXCEPT ![c] = @ + 1]
        /\ UNCHANGED <<done, line, received, taken, gone>>
    BY <1>3 DEF Send
  <2>3. ClientTypes'
    BY <2>2 DEF ClientInv, ClientTypes
  <2>4. /\ Len(inbox'[c]) = Len(inbox[c]) + 1 /\ sent'[c] = sent[c] + 1
        /\ \A d \in Conns \ {c} : inbox'[d] = inbox[d] /\ sent'[d] = sent[d]
    BY <2>1, <2>2, TypesAt DEF Types, ClientInv, ClientTypes
  <2>5. \A d \in Conns : LinesOf(d)'
    <3> SUFFICES ASSUME NEW d \in Conns PROVE LinesOf(d)'
      OBVIOUS
    <3> DEFINE n == IF line[d] = Nil THEN 0 ELSE 1
    <3>1. n \in Nat /\ done[d] + Len(inbox[d]) + n <= sent[d]
      BY DEF ClientInv, LinesOf
    <3> HIDE DEF n
    <3>2. done'[d] + Len(inbox'[d]) + n <= sent'[d]
      BY <1>1, <2>2, <2>4, <3>1
    <3> QED
      BY <2>2, <3>2 DEF LinesOf, n
  <2>6. \A d \in Conns : AnswersOf(d)'
    BY <2>2 DEF ClientInv, AnswersOf
  <2> QED
    BY <2>3, <2>5, <2>6 DEF ClientInv
<1>4. CASE Take(c)
  <2>1. /\ taken[c] < Len(received[c]) /\ taken' = [taken EXCEPT ![c] = @ + 1]
        /\ UNCHANGED <<done, line, inbox, received, sent, gone>>
    BY <1>4 DEF Take
  <2>2. ClientTypes' /\ \A d \in Conns : LinesOf(d)'
    BY <2>1 DEF ClientInv, ClientTypes, LinesOf
  <2>3. \A d \in Conns : AnswersOf(d)'
    BY <1>1, <1>2, <2>1 DEF ClientInv, ClientTypes, AnswersOf
  <2> QED
    BY <2>2, <2>3 DEF ClientInv
<1>5. CASE Leave(c)
  BY <1>5 DEF Leave, ClientInv, ClientTypes, LinesOf, AnswersOf
<1> QED
  BY <1>3, <1>4, <1>5

(* A thread's step. *)
LEMMA ThreadKeepsClients ==
    ASSUME WritesSucceed, RunnerInv, RunnerInv', ClientInv, NEW c \in Conns,
           Thread(c) \/ Fail(c) \/ Disconnected(c)
    PROVE  ClientInv'
<1>1. Types /\ Types' /\ HandOf(c)
  BY DEF RunnerInv
<1>2. /\ done[c] \in Nat /\ Len(inbox[c]) \in Nat /\ Len(received[c]) \in Nat
      /\ sent[c] \in Nat /\ taken[c] \in Nat /\ inbox[c] \in Seq(Lines)
  BY <1>1, TypesAt DEF ClientInv, ClientTypes
<1>3. CASE ReadLine(c)
  <2>1. /\ thread[c] = "read" /\ line[c] = Nil
        /\ UNCHANGED <<done, received, clientVars>>
    BY <1>1, <1>3 DEF ReadLine, HandOf, InHand
  <2>2. CASE inbox[c] = <<>>
    <3>1. UNCHANGED <<inbox, line>>
      BY <1>3, <2>2 DEF ReadLine
    <3> QED
      BY <1>1, <2>1, <3>1, PipeStep DEF ClientInv, LinesOf, clientVars
  <2>3. CASE inbox[c] # <<>>
    <3>1. /\ inbox' = [inbox EXCEPT ![c] = Tail(@)]
          /\ line' = line \/ line' = [line EXCEPT ![c] = Head(inbox[c])]
      BY <1>3, <2>3 DEF ReadLine
    <3>2. Len(inbox'[c]) = Len(inbox[c]) - 1
      BY <1>1, <1>2, <2>3, <3>1, EmptySeq, HeadTailProperties DEF Types
    <3>3. done[c] + Len(inbox[c]) + 0 <= sent[c]
      BY <2>1 DEF ClientInv, LinesOf
    <3>4. \A n \in {0, 1} : done'[c] + Len(inbox'[c]) + n <= sent'[c]
      BY <1>2, <2>1, <3>2, <3>3 DEF clientVars
    <3>5. LinesOf(c)'
      BY <3>4 DEF LinesOf
    <3> QED
      BY <1>1, <2>1, <3>1, <3>5, PipeStep DEF Types
  <2> QED
    BY <2>2, <2>3
<1>4. CASE Reject(c) \/ Execute(c) \/ Write(c)
  <2>1. /\ line[c] # Nil
        /\ UNCHANGED <<inbox, received, clientVars>>
    BY <1>1, <1>4 DEF Reject, Execute, Write, WriteAnswer, WritesSucceed, HandOf, InHand
  <2>2. UNCHANGED <<line, done>> \/ Finish(c)
    BY <1>4 DEF Reject, Execute, Write
  <2>3. CASE UNCHANGED <<line, done>>
    BY <1>1, <2>1, <2>3, PipeStep DEF ClientInv, LinesOf, clientVars
  <2>4. CASE Finish(c)
    <3>1. /\ line' = [line EXCEPT ![c] = Nil] /\ done' = [done EXCEPT ![c] = @ + 1]
      BY <2>4 DEF Finish
    <3>2. LinesOf(c)'
      BY <1>1, <2>1, <3>1, LineEnds DEF Types, clientVars
    <3> QED
      BY <1>1, <2>1, <3>1, <3>2, PipeStep DEF Types
  <2> QED
    BY <2>2, <2>3, <2>4
<1>5. CASE Lock(c) \/ MaybeFlush(c) \/ Unlock(c)
  <2>1. UNCHANGED <<done, inbox, line, received, clientVars>>
    BY <1>5 DEF Lock, MaybeFlush, Unlock
  <2> QED
    BY <1>1, <2>1, PipeStep DEF ClientInv, LinesOf, clientVars
<1>6. CASE SendAnswer(c)
  <2>1. UNCHANGED <<done, inbox, line, clientVars>>
    BY <1>6 DEF SendAnswer
  <2>2. LinesOf(c)'
    BY <2>1 DEF ClientInv, LinesOf, clientVars
  <2>3. CASE UNCHANGED received
    BY <1>1, <2>1, <2>2, <2>3, PipeStep
  <2>4. CASE Put(c, buffer[c]) /\ c \notin gone
    <3>1. Len(received[c]) - taken[c] < SocketRoom
      BY <1>6, <2>4 DEF SendAnswer, HasRoom
    <3>2. received' = [received EXCEPT ![c] = Append(@, buffer[c])]
      BY <2>4 DEF Put
    <3>3. received'[c] = Append(received[c], buffer[c])
      BY <1>1, <3>2 DEF Types
    <3>4. Len(received'[c]) = Len(received[c]) + 1
      BY <1>1, <3>3, TypesAt
    <3> QED
      BY <1>1, <2>1, <2>2, <3>1, <3>2, <3>4, PipeStep DEF Types
  <2> QED
    BY <1>6, <2>3, <2>4 DEF SendAnswer
<1>7. CASE Fail(c)
  <2>1. /\ line[c] # Nil \/ line[c] = Nil
        /\ line' = [line EXCEPT ![c] = Nil]
        /\ UNCHANGED <<done, inbox, received, clientVars>>
    BY <1>7 DEF Fail
  <2>2. line'[c] = Nil
    BY <1>1, <2>1 DEF Types
  <2>3. CASE line[c] # Nil
    <3>1. LinesOf(c)'
      BY <1>1, <2>1, <2>2, <2>3, LineEnds DEF clientVars
    <3> QED
      BY <1>1, <2>1, <3>1, PipeStep DEF Types
  <2>4. CASE line[c] = Nil
    <3>1. LinesOf(c)'
      BY <2>1, <2>2, <2>4 DEF ClientInv, LinesOf, clientVars
    <3> QED
      BY <1>1, <2>1, <3>1, PipeStep DEF Types
  <2> QED
    BY <2>3, <2>4
<1>8. CASE Disconnected(c)
  <2>1. UNCHANGED <<done, inbox, line, received, clientVars>>
    BY <1>8 DEF Disconnected
  <2> QED
    BY <1>1, <2>1, PipeStep DEF ClientInv, LinesOf, clientVars
<1> QED
  BY <1>3, <1>4, <1>5, <1>6, <1>7, <1>8 DEF Thread

LEMMA ClientInvNext ==
    ASSUME WritesSucceed, RunnerInv, RunnerInv', ClientInv, [Next]_vars
    PROVE  ClientInv'
<1>1. ASSUME NEW c \in Conns, Send(c) \/ Take(c) \/ Leave(c)
      PROVE  ClientInv'
  BY <1>1, ClientMoves DEF RunnerInv
<1>2. ASSUME NEW c \in Conns, Thread(c) \/ Fail(c) \/ Disconnected(c)
      PROVE  ClientInv'
  BY <1>2, ThreadKeepsClients
<1>3. CASE Kill
  <2>1. /\ line' = [c \in Conns |-> Nil]
        /\ UNCHANGED <<done, inbox, received, clientVars>>
    BY <1>3 DEF Kill
  <2>2. ASSUME NEW c \in Conns
        PROVE  LinesOf(c)' /\ AnswersOf(c)'
    <3>1. line'[c] = Nil
      BY <2>1
    <3>2. LinesOf(c)'
      BY <2>1, <3>1, LineEnds DEF RunnerInv, ClientInv, LinesOf, clientVars
    <3> QED
      BY <2>1, <3>2 DEF ClientInv, AnswersOf, clientVars
  <2> QED
    BY <2>1, <2>2 DEF ClientInv, ClientTypes, clientVars
<1>4. CASE UNCHANGED vars
  BY <1>4 DEF vars, clientVars, ClientInv, ClientTypes, LinesOf, AnswersOf
<1> QED
  BY <1>1, <1>2, <1>3, <1>4 DEF Next

(* Every variable keeps its type: the thread in execute is the one that holds
   the mutex, no line is carried out that was not sent, and no client takes an
   answer that has not left (run, execute). *)
THEOREM RunnerTypeCorrect ==
    ASSUME WritesSucceed
    PROVE  Spec => []TypeOK
<1>1. RunnerInv /\ ClientInv => TypeOK
  <2> SUFFICES ASSUME RunnerInv, ClientInv PROVE TypeOK
    OBVIOUS
  <2>1. ASSUME NEW c \in Conns
        PROVE  /\ done[c] + Len(inbox[c]) <= sent[c]
               /\ taken[c] \in 0 .. Len(received[c])
               /\ Len(received[c]) - taken[c] <= SocketRoom
    <3>1. /\ done[c] \in Nat /\ Len(inbox[c]) \in Nat /\ Len(received[c]) \in Nat
          /\ sent[c] \in Nat /\ taken[c] \in Nat
      BY TypesAt DEF RunnerInv, ClientInv, ClientTypes
    <3>2. LinesOf(c) /\ AnswersOf(c)
      BY DEF ClientInv
    <3>3. \A n \in {0, 1} : done[c] + Len(inbox[c]) + n <= sent[c] =>
                               done[c] + Len(inbox[c]) <= sent[c]
      BY <3>1
    <3> QED
      BY <3>1, <3>2, <3>3 DEF LinesOf, AnswersOf
  <2>2. ASSUME NEW c \in Conns
        PROVE  /\ holder = c <=> thread[c] \in {"execute", "write", "flush", "unlock"}
               /\ line[c] \in Lines \cup {Nil}
               /\ line[c] # Nil <=> thread[c] \in {"reject", "lock", "execute", "write"}
               /\ buffer[c] # Nil =>
                     thread[c] \in {"write", "flush", "unlock", "send", "drop"}
    BY TypesAt DEF RunnerInv, Mutex, Critical, HandOf, InHand
  <2> QED
    BY <2>1, <2>2 DEF TypeOK, RunnerInv, Types, ClientInv, ClientTypes
<1>2. RunnerInv /\ [Next]_vars => RunnerInv'
  BY RunnerInvNext
<1>3. RunnerInv /\ RunnerInv' /\ ClientInv /\ [Next]_vars => ClientInv'
  BY ClientInvNext
<1> QED
  BY <1>1, <1>2, <1>3, RunnerInvInit, ClientInvInit, PTL DEF Spec

----------------------------------------------------------------------------
(* Refinement: every step is a step of the service or changes nothing of it. *)

(* The answers of the commands that have had their effect. *)
Ready == [c \in Conns |-> IF line[c] = Nil THEN buffer[c] ELSE Nil]

ServiceStep == [Promise!Next]_(Promise!serviceVars)

LEMMA Stutter ==
    ASSUME UNCHANGED <<store, line, received>>, Ready' = Ready
    PROVE  ServiceStep
BY DEF ServiceStep, Promise!serviceVars, Ready

LEMMA Serves ==
    ASSUME NEW c \in Conns, line[c] # Nil,
           store' = Effect(store, line[c]),
           line' = [line EXCEPT ![c] = Nil],
           Ready' = [Ready EXCEPT ![c] = Answer(store, line[c])],
           received' = received
    PROVE  ServiceStep
<1>1. Promise!Serve(c)
  BY DEF Promise!Serve, Ready
<1> QED
  BY <1>1 DEF ServiceStep, Promise!Next

LEMMA Ends ==
    ASSUME NEW C \in SUBSET Conns,
           line' = [c \in Conns |-> IF c \in C THEN Nil ELSE line[c]],
           Ready' = [c \in Conns |-> IF c \in C THEN Nil ELSE Ready[c]],
           \/ store' = store
           \/ \E c \in C : line[c] # Nil /\ store' = Effect(store, line[c]),
           received' = received
    PROVE  ServiceStep
<1>1. Promise!End(C)
  BY DEF Promise!End, Ready
<1> QED
  BY <1>1 DEF ServiceStep, Promise!Next

(* What c's thread finds when the invariant holds. *)
LEMMA FindsOwn ==
    ASSUME RunnerInv, NEW c \in Conns
    PROVE  /\ store \in [Keys -> Values \cup {Nil}]
           /\ line \in [Conns -> Lines \cup {Nil}]
           /\ buffer \in [Conns -> Answers \cup {Nil}]
           /\ received \in [Conns -> Seq(Answers)]
           /\ line[c] # Nil <=> thread[c] \in InHand
           /\ thread[c] = "reject" => line[c].op = "bad"
           /\ buffer[c] # Nil => thread[c] \in {"write", "flush", "unlock", "send", "drop"}
           /\ thread[c] = "write" => buffer[c] = Answer(store, line[c])
BY DEF RunnerInv, Types, HandOf

LEMMA ReadLineRefines ==
    ASSUME RunnerInv, NEW c \in Conns, ReadLine(c)
    PROVE  ServiceStep
<1>1. /\ thread[c] = "read" /\ line[c] = Nil /\ buffer[c] = Nil
      /\ UNCHANGED <<store, buffer, received>>
  BY FindsOwn DEF ReadLine, InHand
<1>2. CASE line' = line
  BY <1>1, <1>2, Stutter DEF Ready
<1>3. CASE inbox[c] # <<>> /\ line' = [line EXCEPT ![c] = Head(inbox[c])]
  <2>1. Head(inbox[c]) \in Lines
    BY <1>3, TypesAt DEF RunnerInv
  <2>2. Ready' = Ready
    BY <1>1, <1>3, FindsOwn DEF Ready
  <2>3. Promise!Begin(c)
    BY <1>1, <1>3, <2>1, <2>2 DEF Promise!Begin, Ready
  <2> QED
    BY <2>3 DEF ServiceStep, Promise!Next
<1> QED
  BY <1>2, <1>3 DEF ReadLine

LEMMA RejectRefines ==
    ASSUME WritesSucceed, RunnerInv, NEW c \in Conns, Reject(c)
    PROVE  ServiceStep
<1>1. /\ thread[c] = "reject" /\ line[c] # Nil /\ line[c] \in Lines
      /\ line[c].op = "bad"
  BY FindsOwn DEF Reject, InHand
<1>2. /\ buffer' = [buffer EXCEPT ![c] = Answer(store, line[c])]
      /\ line' = [line EXCEPT ![c] = Nil]
      /\ UNCHANGED <<store, received>>
  BY DEF Reject, WriteAnswer, WritesSucceed, Finish
<1>3. Effect(store, line[c]) = store
  BY <1>1, FindsOwn, NoEffect
<1>4. Ready' = [Ready EXCEPT ![c] = Answer(store, line[c])]
  BY <1>2, FindsOwn DEF Ready
<1> QED
  BY <1>1, <1>2, <1>3, <1>4, Serves

LEMMA ExecuteRefines ==
    ASSUME WritesSucceed, RunnerInv, NEW c \in Conns, Execute(c)
    PROVE  ServiceStep
<1>1. thread[c] = "execute" /\ line[c] # Nil /\ line[c] \in Lines /\ buffer[c] = Nil
  BY ExecuteFinds DEF Execute
<1>2. /\ buffer' = [buffer EXCEPT ![c] = Answer(store, line[c])]
      /\ UNCHANGED <<store, received>>
  BY DEF Execute, WriteAnswer, WritesSucceed
<1>3. CASE line[c].op = "set" \/ (line[c].op = "delete" /\ store[line[c].key] # Nil)
  <2>1. line' = line
    BY <1>3 DEF Execute
  <2>2. Ready' = Ready
    BY <1>1, <1>2, <2>1, FindsOwn DEF Ready
  <2> QED
    BY <1>2, <2>1, <2>2, Stutter
<1>4. CASE ~(line[c].op = "set" \/ (line[c].op = "delete" /\ store[line[c].key] # Nil))
  <2>1. line' = [line EXCEPT ![c] = Nil]
    BY <1>4 DEF Execute, Finish
  <2>2. Effect(store, line[c]) = store
    BY <1>1, <1>4, FindsOwn, NoEffect
  <2>3. Ready' = [Ready EXCEPT ![c] = Answer(store, line[c])]
    BY <1>2, <2>1, FindsOwn DEF Ready
  <2> QED
    BY <1>1, <1>2, <2>1, <2>2, <2>3, Serves
<1> QED
  BY <1>3, <1>4

LEMMA WriteRefines ==
    ASSUME RunnerInv, NEW c \in Conns, Write(c)
    PROVE  ServiceStep
<1>1. line[c] # Nil /\ buffer[c] = Answer(store, line[c])
  BY FindsOwn DEF Write, InHand
<1>2. /\ store' = Effect(store, line[c])
      /\ line' = [line EXCEPT ![c] = Nil]
      /\ UNCHANGED <<buffer, received>>
  BY DEF Write, Finish
<1>3. Ready' = [Ready EXCEPT ![c] = Answer(store, line[c])]
  BY <1>1, <1>2, FindsOwn DEF Ready
<1> QED
  BY <1>1, <1>2, <1>3, Serves

LEMMA SendAnswerRefines ==
    ASSUME RunnerInv, NEW c \in Conns, SendAnswer(c)
    PROVE  ServiceStep
<1>1. line[c] = Nil
  BY FindsOwn DEF SendAnswer, InHand
<1>2. /\ buffer' = [buffer EXCEPT ![c] = Nil]
      /\ UNCHANGED <<store, line>>
  BY DEF SendAnswer
<1>3. Ready' = [Ready EXCEPT ![c] = Nil]
  BY <1>2, FindsOwn DEF Ready
<1>4. CASE buffer[c] # Nil /\ received' = [received EXCEPT ![c] = Append(@, buffer[c])]
  <2>1. Ready[c] = buffer[c]
    BY <1>1 DEF Ready
  <2>2. Promise!Deliver(c)
    BY <1>2, <1>3, <1>4, <2>1 DEF Promise!Deliver, Ready
  <2> QED
    BY <2>2 DEF ServiceStep, Promise!Next
<1>5. CASE received' = received
  <2>1. line' = [d \in Conns |-> IF d \in {c} THEN Nil ELSE line[d]]
    BY <1>1, <1>2, FindsOwn
  <2>2. Ready' = [d \in Conns |-> IF d \in {c} THEN Nil ELSE Ready[d]]
    BY <1>3 DEF Ready
  <2> QED
    BY <1>2, <1>5, <2>1, <2>2, Ends
<1> QED
  BY <1>4, <1>5 DEF SendAnswer, Put

LEMMA FailRefines ==
    ASSUME WritesSucceed, RunnerInv, NEW c \in Conns, Fail(c)
    PROVE  ServiceStep
<1>1. thread[c] \in {"execute", "flush"}
  BY WriterAssumption DEF Fail, WritesSucceed
<1>2. line' = [line EXCEPT ![c] = Nil] /\ UNCHANGED <<store, buffer, received>>
  BY DEF Fail
<1>3. CASE thread[c] = "execute"
  <2>1. buffer[c] = Nil
    BY <1>3, FindsOwn
  <2>2. line' = [d \in Conns |-> IF d \in {c} THEN Nil ELSE line[d]]
    BY <1>2, FindsOwn
  <2>3. Ready' = [d \in Conns |-> IF d \in {c} THEN Nil ELSE Ready[d]]
    BY <1>2, <2>1, FindsOwn DEF Ready
  <2> QED
    BY <1>2, <2>2, <2>3, Ends
<1>4. CASE thread[c] = "flush"
  <2>1. line' = line
    BY <1>2, <1>4, FindsOwn DEF InHand
  <2> QED
    BY <1>2, <2>1, Stutter DEF Ready
<1> QED
  BY <1>1, <1>3, <1>4

LEMMA DisconnectedRefines ==
    ASSUME RunnerInv, NEW c \in Conns, Disconnected(c)
    PROVE  ServiceStep
<1>1. line[c] = Nil
  BY FindsOwn DEF Disconnected, InHand
<1>2. /\ buffer' = [buffer EXCEPT ![c] = Nil]
      /\ UNCHANGED <<store, line, received>>
  BY DEF Disconnected
<1>3. line' = [d \in Conns |-> IF d \in {c} THEN Nil ELSE line[d]]
  BY <1>1, <1>2, FindsOwn
<1>4. Ready' = [d \in Conns |-> IF d \in {c} THEN Nil ELSE Ready[d]]
  BY <1>1, <1>2, FindsOwn DEF Ready
<1> QED
  BY <1>2, <1>3, <1>4, Ends

LEMMA KillRefines ==
    ASSUME RunnerInv, Kill
    PROVE  ServiceStep
<1>1. /\ line' = [d \in Conns |-> IF d \in Conns THEN Nil ELSE line[d]]
      /\ Ready' = [d \in Conns |-> IF d \in Conns THEN Nil ELSE Ready[d]]
      /\ received' = received
  BY DEF Kill, Ready
<1>2. \/ store' = store
      \/ \E c \in Conns : line[c] # Nil /\ store' = Effect(store, line[c])
  BY FindsOwn DEF Kill, InHand
<1> QED
  BY <1>1, <1>2, Ends

LEMMA StepRefines ==
    ASSUME WritesSucceed, RunnerInv, [Next]_vars
    PROVE  ServiceStep
<1>1. ASSUME NEW c \in Conns,
             Send(c) \/ Take(c) \/ Leave(c) \/ Lock(c) \/ MaybeFlush(c) \/ Unlock(c)
      PROVE  ServiceStep
  BY <1>1, Stutter DEF Send, Take, Leave, Lock, MaybeFlush, Unlock, Ready
<1>2. ASSUME NEW c \in Conns, Thread(c)
      PROVE  ServiceStep
  BY <1>1, <1>2, ReadLineRefines, RejectRefines, ExecuteRefines, WriteRefines,
     SendAnswerRefines DEF Thread
<1>3. ASSUME NEW c \in Conns, Fail(c) \/ Disconnected(c)
      PROVE  ServiceStep
  BY <1>3, FailRefines, DisconnectedRefines
<1>4. CASE UNCHANGED vars
  BY <1>4, Stutter DEF vars, Ready
<1> QED
  BY <1>1, <1>2, <1>3, <1>4, KillRefines DEF Next

LEMMA InitRefines == Init => Promise!Init
BY DEF Init, Promise!Init

(* Every command takes effect at one instant and is answered from the store of
   that instant, whatever the other connections do and whenever clients leave,
   reads and flushes of the log fail or the process is killed (run, execute). *)
THEOREM Linearizable ==
    ASSUME WritesSucceed
    PROVE  Spec => ImplementsService
<1>1. RunnerInv /\ [Next]_vars => [Promise!Next]_(Promise!serviceVars)
  BY StepRefines DEF ServiceStep
<1>2. RunnerInv /\ [Next]_vars => RunnerInv'
  BY RunnerInvNext
<1> QED
  BY <1>1, <1>2, RunnerInvInit, InitRefines, PTL
  DEF Spec, ImplementsService, Promise!Spec
=============================================================================
