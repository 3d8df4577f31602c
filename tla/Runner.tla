------------------------------- MODULE Runner -------------------------------
(***************************************************************************)
(* The command loop of every connection and the mutex around the store:    *)
(* lines are read, parsed, executed under the mutex and answered through a *)
(* buffered writer that is flushed after the mutex is released.  The store *)
(* is the map that Log implements; a call to it succeeds or fails.         *)
(***************************************************************************)
EXTENDS Integers, Sequences, FiniteSets

CONSTANTS
    Conns,       \* the connections; the CLI is one
    Keys, Values,
    Nil,         \* no value, no line, no answer, no thread
    Lines,       \* the lines clients send, as [op, key, value]
    Buffered,    \* TRUE: BufWriter over a socket; FALSE: stdout, by the line
    Large,       \* the values that do not fit into the writer's buffer
    FailAt,      \* "execute", "write", "flush": calls to Log that can fail
    SocketRoom,  \* answers that fit between the server and a client
    MaxLines     \* bound: the lines a client sends

(* The first word of an answer says what kind it is. *)
Words == {"is", "deleted", "not found", "help", "error"}

ASSUME LinesAssumption ==
    /\ Lines \subseteq [op : {"set", "get", "delete", "help", "quit", "bad"},
                        key : Keys, value : Values]
    /\ Nil \notin Values /\ Nil \notin Lines /\ Nil \notin Conns
    /\ Nil \notin Words \X (Keys \cup Values \cup {Nil})
ASSUME WriterAssumption ==
    /\ Buffered \in BOOLEAN /\ Large \subseteq Values
    /\ FailAt \subseteq {"execute", "write", "flush"}
    /\ SocketRoom \in Nat \ {0} /\ MaxLines \in Nat

VARIABLES
    store,     \* key -> value: what Log answers
    holder,    \* the connection whose thread holds the mutex, or Nil
    thread,    \* what each thread does next
    line,      \* the command it has read and not carried out, or Nil
    buffer,    \* the answer in its writer's buffer, or Nil
    done,      \* how many of its lines it has carried out
    inbox,     \* lines sent and not read
    sent,      \* how many lines each client has sent
    received,  \* the answers that have left for a client
    taken,     \* how many of them the client has taken off its socket
    gone       \* the clients that have left

clientVars == <<sent, taken, gone>>
vars == <<store, holder, thread, line, buffer, done, inbox, received, clientVars>>

Init ==
    /\ store = [k \in Keys |-> Nil]
    /\ holder = Nil
    /\ thread = [c \in Conns |-> "read"]
    /\ line = [c \in Conns |-> Nil]
    /\ buffer = [c \in Conns |-> Nil]
    /\ done = [c \in Conns |-> 0]
    /\ inbox = [c \in Conns |-> <<>>]
    /\ sent = [c \in Conns |-> 0]
    /\ received = [c \in Conns |-> <<>>]
    /\ taken = [c \in Conns |-> 0]
    /\ gone = {}

(* What a line is answered with, by the store it finds. *)
Answer(kv, l) ==
    CASE l.op = "set" -> <<"is", l.value>>
      [] l.op = "get" /\ kv[l.key] # Nil -> <<"is", kv[l.key]>>
      [] l.op = "delete" /\ kv[l.key] # Nil -> <<"deleted", l.key>>
      [] l.op \in {"get", "delete"} /\ kv[l.key] = Nil -> <<"not found", l.key>>
      [] l.op = "help" -> <<"help", Nil>>
      [] OTHER -> <<"error", Nil>>

(* What it makes of the store. *)
Effect(kv, l) ==
    CASE l.op = "set" -> [kv EXCEPT ![l.key] = l.value]
      [] l.op = "delete" -> [kv EXCEPT ![l.key] = Nil]
      [] OTHER -> kv

----------------------------------------------------------------------------
(* The clients. *)

Send(c) ==
    /\ c \notin gone /\ sent[c] < MaxLines
    /\ \E l \in Lines : inbox' = [inbox EXCEPT ![c] = Append(@, l)]
    /\ sent' = [sent EXCEPT ![c] = @ + 1]
    /\ UNCHANGED <<store, holder, thread, line, buffer, done, received, taken, gone>>

Take(c) ==
    /\ c \notin gone /\ taken[c] < Len(received[c])
    /\ taken' = [taken EXCEPT ![c] = @ + 1]
    /\ UNCHANGED <<store, holder, thread, line, buffer, done, inbox, received,
                   sent, gone>>

(* What the client had sent can be read nevertheless, and is carried out. *)
Leave(c) ==
    /\ c \notin gone
    /\ gone' = gone \cup {c}
    /\ UNCHANGED <<store, holder, thread, line, buffer, done, inbox, received,
                   sent, taken>>

----------------------------------------------------------------------------
(* Runner::run and Execute::execute. *)

Go(c, next) == thread' = [thread EXCEPT ![c] = next]

HasRoom(c) == c \in gone \/ Len(received[c]) - taken[c] < SocketRoom

Put(c, a) == received' = [received EXCEPT ![c] = Append(@, a)]

(* read_line and the parse.  The end of the input and quit end the loop. *)
ReadLine(c) ==
    /\ thread[c] = "read"
    /\ IF inbox[c] = <<>>
       THEN /\ c \in gone
            /\ Go(c, "ended")
            /\ UNCHANGED <<inbox, line>>
       ELSE /\ inbox' = [inbox EXCEPT ![c] = Tail(@)]
            /\ IF Head(inbox[c]).op = "quit"
               THEN Go(c, "ended") /\ UNCHANGED line
               ELSE /\ line' = [line EXCEPT ![c] = Head(inbox[c])]
                    /\ Go(c, IF Head(inbox[c]).op = "bad" THEN "reject" ELSE "lock")
    /\ UNCHANGED <<store, holder, buffer, done, received, clientVars>>

(* The line is carried out. *)
Finish(c) ==
    /\ line' = [line EXCEPT ![c] = Nil]
    /\ done' = [done EXCEPT ![c] = @ + 1]

(* Mutation: the answer is sent on as soon as it is written. *)
WriteAnswerThrough(c, a) ==
    HasRoom(c) /\ Put(c, a) /\ UNCHANGED buffer

(* writeln!: an answer stays in the BufWriter, but one that does not fit into
   it goes to the socket, all but its line end, and waits there for room.
   stdout shows a line as soon as it is complete. *)
Through(a) == ~Buffered \/ a[2] \in Large

WriteAnswer(c, a) ==
    /\ Through(a) => HasRoom(c)
    /\ IF Buffered
       THEN buffer' = [buffer EXCEPT ![c] = a] /\ UNCHANGED received
       ELSE Put(c, a) /\ UNCHANGED buffer

(* A line that does not parse is answered without the store. *)
Reject(c) ==
    /\ thread[c] = "reject"
    /\ WriteAnswer(c, Answer(store, line[c]))
    /\ Finish(c)
    /\ Go(c, "send")
    /\ UNCHANGED <<store, holder, inbox, clientVars>>

(* Mutation: the lock is one that others can hold too. *)
LockShared(c) ==
    /\ thread[c] = "lock"
    /\ holder' = c
    /\ Go(c, "execute")
    /\ UNCHANGED <<store, line, buffer, done, inbox, received, clientVars>>

Lock(c) ==
    /\ thread[c] = "lock" /\ holder = Nil
    /\ holder' = c
    /\ Go(c, "execute")
    /\ UNCHANGED <<store, line, buffer, done, inbox, received, clientVars>>

(* The arms of execute up to the answer.  A set, and a delete that hits, go on
   to write; a delete that misses goes on to maybe_flush. *)
Execute(c) ==
    LET l == line[c]
    IN  /\ thread[c] = "execute"
        /\ WriteAnswer(c, Answer(store, l))
        /\ IF l.op = "set" \/ (l.op = "delete" /\ store[l.key] # Nil)
           THEN Go(c, "write") /\ UNCHANGED <<line, done>>
           ELSE Finish(c) /\ Go(c, IF l.op = "delete" THEN "flush" ELSE "unlock")
        /\ UNCHANGED <<store, holder, inbox, clientVars>>

(* Log::write *)
Write(c) ==
    /\ thread[c] = "write"
    /\ store' = Effect(store, line[c])
    /\ Finish(c)
    /\ Go(c, "flush")
    /\ UNCHANGED <<holder, buffer, inbox, received, clientVars>>

(* Log::maybe_flush changes no answer of the store. *)
MaybeFlush(c) ==
    /\ thread[c] = "flush"
    /\ Go(c, "unlock")
    /\ UNCHANGED <<store, holder, line, buffer, done, inbox, received, clientVars>>

(* Mutation: the guard lives until the answer is flushed. *)
UnlockAfterSend(c) ==
    /\ thread[c] = "unlock" /\ HasRoom(c)
    /\ holder' = Nil
    /\ IF buffer[c] = Nil THEN UNCHANGED received ELSE Put(c, buffer[c])
    /\ buffer' = [buffer EXCEPT ![c] = Nil]
    /\ Go(c, "read")
    /\ UNCHANGED <<store, line, done, inbox, clientVars>>

(* The guard is dropped where its match arm ends. *)
Unlock(c) ==
    /\ thread[c] = "unlock"
    /\ holder' = Nil
    /\ Go(c, "send")
    /\ UNCHANGED <<store, line, buffer, done, inbox, received, clientVars>>

(* writer.flush(), or the flush of a BufWriter that is dropped after an error.
   Nobody receives what is sent to a client that has left. *)
SendAnswer(c) ==
    /\ thread[c] \in {"send", "drop"}
    /\ HasRoom(c)
    /\ IF buffer[c] = Nil \/ c \in gone THEN UNCHANGED received
       ELSE Put(c, buffer[c])
    /\ buffer' = [buffer EXCEPT ![c] = Nil]
    /\ Go(c, IF thread[c] = "drop" THEN "ended" ELSE "read")
    /\ UNCHANGED <<store, holder, line, done, inbox, clientVars>>

----------------------------------------------------------------------------
(* Errors: ? carries them out of run, past the guard, and the thread ends. *)

(* A call to Log fails, or writing an answer to a client that has left. *)
Fail(c) ==
    /\ \/ thread[c] \in FailAt
       \/ thread[c] = "execute" /\ c \in gone /\ Through(Answer(store, line[c]))
    /\ holder' = Nil
    /\ line' = [line EXCEPT ![c] = Nil]
    /\ Go(c, "drop")
    /\ UNCHANGED <<store, buffer, done, inbox, received, clientVars>>

(* read_line or writer.flush() fails. *)
Disconnected(c) ==
    /\ thread[c] \in {"read", "send"} /\ c \in gone
    /\ buffer' = [buffer EXCEPT ![c] = Nil]
    /\ Go(c, "ended")
    /\ UNCHANGED <<store, holder, line, done, inbox, received, clientVars>>

(* The process ends: it is killed, or the accept loop returns an error and
   main with it.  A write that is under way is in the log or it is not. *)
Kill ==
    /\ \E c \in Conns : thread[c] # "ended"
    /\ \/ UNCHANGED store
       \/ \E c \in Conns : thread[c] = "write" /\ store' = Effect(store, line[c])
    /\ holder' = Nil
    /\ thread' = [c \in Conns |-> "ended"]
    /\ line' = [c \in Conns |-> Nil]
    /\ buffer' = [c \in Conns |-> Nil]
    /\ UNCHANGED <<done, inbox, received, clientVars>>

----------------------------------------------------------------------------
Thread(c) ==
    \/ ReadLine(c) \/ Reject(c)
    \/ Lock(c) \/ Execute(c) \/ Write(c) \/ MaybeFlush(c) \/ Unlock(c)
    \/ SendAnswer(c)

Next ==
    \/ \E c \in Conns :
          Send(c) \/ Take(c) \/ Leave(c) \/ Thread(c) \/ Fail(c) \/ Disconnected(c)
    \/ Kill

(* Every thread is scheduled.  A client owes nothing: it may never send, read
   its answers or leave. *)
Spec == Init /\ [][Next]_vars

FairSpec == Spec /\ \A c \in Conns : WF_vars(Thread(c))

----------------------------------------------------------------------------
(* Properties. *)

(* Every variable keeps its type, the thread inside execute is the one that
   holds the mutex, and a command in hand is one that is not carried out. *)
TypeOK ==
    /\ store \in [Keys -> Values \cup {Nil}]
    /\ thread \in [Conns -> {"read", "reject", "lock", "execute", "write",
                             "flush", "unlock", "send", "drop", "ended"}]
    /\ \A c \in Conns :
          /\ holder = c <=> thread[c] \in {"execute", "write", "flush", "unlock"}
          /\ line[c] \in Lines \cup {Nil}
          /\ line[c] # Nil <=> thread[c] \in {"reject", "lock", "execute", "write"}
          /\ buffer[c] # Nil => thread[c] \in {"write", "flush", "unlock", "send", "drop"}
          /\ done[c] + Len(inbox[c]) <= sent[c]
          /\ taken[c] \in 0 .. Len(received[c])
          /\ Len(received[c]) - taken[c] <= SocketRoom
    /\ gone \subseteq Conns

(* Nobody has the answer to a command that has not been carried out: it stays
   in the writer's buffer until the write is in the log (execute, run). *)
AnsweredIsDone == \A c \in Conns : Len(received[c]) <= done[c]

Promise == INSTANCE Service WITH
    kv <- store,
    ready <- [c \in Conns |-> IF line[c] = Nil THEN buffer[c] ELSE Nil],
    answers <- received

(* Every command takes effect at one instant and is answered from the store of
   that instant, whatever the other connections do and whenever clients leave,
   calls to Log fail or the process is killed (run, execute). *)
ImplementsService == Promise!Spec

(* A client that takes no answers stops no other one: whoever holds the mutex
   releases it (run: the guard is dropped before the writer is flushed). *)
LockReleased == \A c \in Conns : holder = c ~> holder # c
=============================================================================
