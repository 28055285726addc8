------------------------------ MODULE QmpClient ------------------------------
(***************************************************************************)
(* tools/uvk5_qmp.py: threads that share one QMP connection through a      *)
(* lock, and the emulator at its other end, which answers commands in the  *)
(* order it receives them and sends events at any time.                    *)
(*                                                                         *)
(* A reply carries no identity on the wire.  The model tags it with the    *)
(* thread and the number of the command it answers, and the client never   *)
(* looks at the tag: only the properties do.                               *)
(***************************************************************************)
EXTENDS Integers, Sequences, FiniteSets

CONSTANTS
    Threads,        \* request threads and the frame pump
    MaxCommands,    \* bound on the commands of one thread
    MaxEvents,      \* bound on the events the emulator sends
    MaxTimeouts     \* bound on the receives that time out

ASSUME QmpAssumption ==
    /\ MaxCommands \in Nat
    /\ MaxEvents \in Nat
    /\ MaxTimeouts \in Nat

NoAnswer == [kind |-> "none"]
Event == [kind |-> "event"]
Reply(kind, cmd) == [kind |-> kind, cmd |-> cmd]

VARIABLES
    open,       \* the emulator's end of the connection
    lock,       \* the threads inside "with self._lock"
    pc,         \* each thread: idle, wait, send or read
    issued,     \* commands each thread has called
    answer,     \* what the last command of each thread returned or raised
    toServer,   \* commands on the wire
    toClient,   \* messages on the wire and in _buf
    events,
    timeouts

vars == <<open, lock, pc, issued, answer, toServer, toClient, events, timeouts>>

Command(t) == <<t, issued[t]>>

-----------------------------------------------------------------------------
(* command() *)

Call(t) ==
    /\ pc[t] = "idle" /\ issued[t] < MaxCommands
    /\ pc' = [pc EXCEPT ![t] = "wait"]
    /\ issued' = [issued EXCEPT ![t] = @ + 1]
    /\ answer' = [answer EXCEPT ![t] = NoAnswer]
    /\ UNCHANGED <<open, lock, toServer, toClient, events, timeouts>>

\* Mutant: no lock around the exchange.
AcquireUnlocked(t) ==
    /\ pc[t] = "wait"
    /\ lock' = lock \cup {t}
    /\ pc' = [pc EXCEPT ![t] = "send"]
    /\ UNCHANGED <<open, issued, answer, toServer, toClient, events, timeouts>>

Acquire(t) ==
    /\ pc[t] = "wait"
    /\ lock = {}
    /\ lock' = {t}
    /\ pc' = [pc EXCEPT ![t] = "send"]
    /\ UNCHANGED <<open, issued, answer, toServer, toClient, events, timeouts>>

\* A return or an exception leaves the with block and drops the lock.
Leave(t, result) ==
    /\ pc' = [pc EXCEPT ![t] = "idle"]
    /\ answer' = [answer EXCEPT ![t] = result]
    /\ lock' = lock \ {t}

SendAll(t) ==
    /\ pc[t] = "send" /\ open
    /\ toServer' = Append(toServer, Command(t))
    /\ pc' = [pc EXCEPT ![t] = "read"]
    /\ UNCHANGED <<open, lock, issued, answer, toClient, events, timeouts>>

\* sendall raises on a connection the emulator has closed.
SendFails(t) ==
    /\ pc[t] = "send" /\ ~open
    /\ Leave(t, [kind |-> "closed"])
    /\ UNCHANGED <<open, issued, toServer, toClient, events, timeouts>>

\* An event: keep reading.
ReadEvent(t) ==
    /\ pc[t] = "read" /\ toClient # <<>> /\ Head(toClient).kind = "event"
    /\ toClient' = Tail(toClient)
    /\ UNCHANGED <<open, lock, pc, issued, answer, toServer, events, timeouts>>

\* Mutant: the line is read and left in _buf.
ReadReplyKept(t) ==
    /\ pc[t] = "read" /\ toClient # <<>> /\ Head(toClient).kind # "event"
    /\ Leave(t, Head(toClient))
    /\ UNCHANGED <<open, issued, toServer, toClient, events, timeouts>>

\* The first return or error is taken for this command's.
ReadReply(t) ==
    /\ pc[t] = "read" /\ toClient # <<>> /\ Head(toClient).kind # "event"
    /\ toClient' = Tail(toClient)
    /\ Leave(t, Head(toClient))
    /\ UNCHANGED <<open, issued, toServer, events, timeouts>>

\* Mutant: an empty recv is read as "nothing yet".
ReadClosedSpins(t) ==
    /\ pc[t] = "read" /\ toClient = <<>> /\ ~open
    /\ UNCHANGED vars

\* recv returns nothing: "QMP connection closed".
ReadClosed(t) ==
    /\ pc[t] = "read" /\ toClient = <<>> /\ ~open
    /\ Leave(t, [kind |-> "closed"])
    /\ UNCHANGED <<open, issued, toServer, toClient, events, timeouts>>

\* recv raises after the two seconds uvk5_socket.connect left on the socket.
ReadTimesOut(t) ==
    /\ pc[t] = "read" /\ toClient = <<>> /\ open /\ timeouts < MaxTimeouts
    /\ timeouts' = timeouts + 1
    /\ Leave(t, [kind |-> "timeout"])
    /\ UNCHANGED <<open, issued, toServer, toClient, events>>

-----------------------------------------------------------------------------
(* The emulator's monitor *)

Serve ==
    /\ open /\ toServer # <<>>
    /\ \E kind \in {"return", "error"} :
          toClient' = Append(toClient, Reply(kind, Head(toServer)))
    /\ toServer' = Tail(toServer)
    /\ UNCHANGED <<open, lock, pc, issued, answer, events, timeouts>>

SendEvent ==
    /\ open /\ events < MaxEvents
    /\ events' = events + 1
    /\ toClient' = Append(toClient, Event)
    /\ UNCHANGED <<open, lock, pc, issued, answer, toServer, timeouts>>

Exit ==
    /\ open
    /\ open' = FALSE
    /\ toServer' = <<>>
    /\ UNCHANGED <<lock, pc, issued, answer, toClient, events, timeouts>>

-----------------------------------------------------------------------------
Init ==
    /\ open = TRUE
    /\ lock = {}
    /\ pc = [t \in Threads |-> "idle"]
    /\ issued = [t \in Threads |-> 0]
    /\ answer = [t \in Threads |-> NoAnswer]
    /\ toServer = <<>>
    /\ toClient = <<>>
    /\ events = 0
    /\ timeouts = 0

ReadStep(t) == ReadEvent(t) \/ ReadReply(t) \/ ReadClosed(t)

ClientStep(t) == SendAll(t) \/ SendFails(t) \/ ReadStep(t)

Next ==
    \/ \E t \in Threads : Call(t) \/ Acquire(t) \/ ClientStep(t) \/ ReadTimesOut(t)
    \/ Serve
    \/ SendEvent
    \/ Exit

\* Threads run, the lock is granted fairly and the monitor answers.
Fairness ==
    /\ \A t \in Threads : WF_vars(ClientStep(t)) /\ SF_vars(Acquire(t))
    /\ WF_vars(Serve)

Spec == Init /\ [][Next]_vars /\ Fairness

-----------------------------------------------------------------------------
\* What a thread takes as the outcome of its command is the emulator's reply to
\* that command: "keep reading until the matching return arrives".
AnswersOwnCommand ==
    \A t \in Threads :
        answer[t].kind \in {"return", "error"} => answer[t].cmd = Command(t)

(***************************************************************************)
(* Until a receive has timed out every thread gets the reply to its own    *)
(* command.  Replies are matched by order alone, so this rests on the lock *)
(* and on nothing being left on the wire.                                  *)
(***************************************************************************)
AnswersOwnUntilTimeout == timeouts = 0 => AnswersOwnCommand

\* Commands on the wire and replies not yet read.
Unread(messages) == {i \in 1..Len(messages) : messages[i].kind # "event"}
Outstanding == Len(toServer) + Cardinality(Unread(toClient))

(***************************************************************************)
(* The connection is never further behind than the receives that timed     *)
(* out: beyond one stray reply for each, whoever takes the lock finds      *)
(* nothing on the wire, and a reader only its own command.                 *)
(***************************************************************************)
OneOutstanding ==
    /\ Outstanding <= timeouts + 1
    /\ (\A t \in Threads : pc[t] # "read") => Outstanding <= timeouts

(***************************************************************************)
(* Every call ends: no thread holds the lock for ever, whatever the events *)
(* and whenever the emulator exits.                                        *)
(***************************************************************************)
CallsEnd == \A t \in Threads : (pc[t] # "idle") ~> (pc[t] = "idle")

=============================================================================
