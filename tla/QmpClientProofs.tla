--------------------------- MODULE QmpClientProofs ---------------------------
(***************************************************************************)
(* Theorems about QmpClient for any number of threads, commands, events    *)
(* and timeouts, and about FramePump, whose grabs are commands of such     *)
(* clients, for any emulators, panel contents and faults, and about        *)
(* KeyControl, whose requests send theirs through such a client, for any   *)
(* keys, any number of requests in flight and any number of lost fetches.  *)
(***************************************************************************)
EXTENDS QmpClient, FramePump, KeyControl, FiniteSetTheorems, TLAPS

Commands == Threads \X Nat
Messages == [kind : {"event"}] \cup [kind : {"return", "error"}, cmd : Commands]

QmpTypes ==
    /\ open \in BOOLEAN
    /\ pc \in [Threads -> {"idle", "wait", "send", "read"}]
    /\ issued \in [Threads -> Nat]
    /\ DOMAIN answer = Threads
    /\ toServer \in Seq(Commands)
    /\ toClient \in Seq(Messages)
    /\ timeouts \in Nat

\* The lock is held by the one thread inside the exchange.
Exclusive ==
    /\ lock = {t \in Threads : pc[t] \in {"send", "read"}}
    /\ \A t, u \in lock : t = u

\* An emulator that has gone reads no command.
ClosedTakesNothing == ~open => toServer = <<>>

\* Until a receive has timed out, what is on the wire is the reader's command,
\* or the reply to it, and neither is there twice.
WireIsReaders ==
    timeouts = 0 =>
        /\ Len(toServer) = 0 \/ Len(toServer) = 1
        /\ Len(toServer) = 1 => Unread(toClient) = {}
        /\ \A i, j \in Unread(toClient) : i = j
        /\ \A i \in 1..Len(toServer) : \E t \in Threads : pc[t] = "read" /\ toServer[i] = Command(t)
        /\ \A i \in Unread(toClient) : \E t \in Threads : pc[t] = "read" /\ toClient[i].cmd = Command(t)

QmpInv == QmpTypes /\ Exclusive /\ ClosedTakesNothing
OwnInv == WireIsReaders /\ AnswersOwnUntilTimeout

-----------------------------------------------------------------------------
\* How many replies wait in the buffer: finitely many; one more after a reply
\* was appended; one less after one was read; and events do not count.
LEMMA UnreadFinite ==
    ASSUME NEW q \in Seq(Messages)
    PROVE  IsFiniteSet(Unread(q)) /\ Cardinality(Unread(q)) \in Nat
<1>1. IsFiniteSet(1..Len(q))
  BY FS_Interval
<1>2. Unread(q) \in SUBSET (1..Len(q))
  BY DEF Unread
<1> QED
  BY <1>1, <1>2, FS_Subset, FS_CardinalityType

\* The monitor appends: the unread replies grow by the last place, if it is a reply.
LEMMA UnreadAppend ==
    ASSUME NEW q \in Seq(Messages), NEW m \in Messages
    PROVE  /\ m.kind = "event" => Unread(Append(q, m)) = Unread(q)
           /\ m.kind # "event" => /\ Unread(Append(q, m)) = Unread(q) \cup {Len(q) + 1}
                                  /\ Cardinality(Unread(Append(q, m))) = Cardinality(Unread(q)) + 1
<1>1. /\ m.kind = "event" => Unread(Append(q, m)) = Unread(q)
      /\ m.kind # "event" => Unread(Append(q, m)) = Unread(q) \cup {Len(q) + 1}
  BY DEF Unread
<1>2. Len(q) + 1 \notin Unread(q)
  BY DEF Unread
<1> QED
  BY <1>1, <1>2, UnreadFinite, FS_AddElement

\* Taking the first message shifts the places of the others by one.
LEMMA UnreadTail ==
    ASSUME NEW q \in Seq(Messages), q # <<>>
    PROVE  /\ \A i \in Unread(Tail(q)) : i + 1 \in Unread(q) /\ Tail(q)[i] = q[i + 1]
           /\ Cardinality(Unread(Tail(q))) = Cardinality(Unread(q) \ {1})
<1> DEFINE S == Unread(Tail(q))
           T == Unread(q) \ {1}
           f == [i \in S |-> i + 1]
<1>1. Tail(q) \in Seq(Messages) /\ Len(Tail(q)) = Len(q) - 1
      /\ \A i \in 1..Len(Tail(q)) : Tail(q)[i] = q[i + 1]
  OBVIOUS
<1>2. \A i \in S : i \in Nat /\ i + 1 \in T /\ Tail(q)[i] = q[i + 1]
  BY <1>1 DEF Unread
<1>3. \A j \in T : j - 1 \in S /\ (j - 1) + 1 = j
  BY <1>1 DEF Unread
<1>4. IsFiniteSet(T)
  BY UnreadFinite, FS_RemoveElement
<1>5. f \in [S -> T]
  BY <1>2
<1>6. f \in Injection(S, T)
  <2>1. \A i, j \in S : f[i] = f[j] => i = j
    BY <1>2
  <2> QED
    BY <1>5, <2>1 DEF Injection, IsInjective
<1>7. f \in Surjection(S, T)
  <2>1. \A j \in T : \E i \in S : f[i] = j
    BY <1>3
  <2> QED
    BY <1>5, <2>1 DEF Surjection
<1>8. Cardinality(S) = Cardinality(T)
  BY <1>4, <1>6, <1>7, FS_Injection
<1> QED
  BY <1>2, <1>8

\* What is unread after the first message was taken is what was unread behind it.
LEMMA UnreadAfterHead ==
    ASSUME NEW q \in Seq(Messages), q # <<>>
    PROVE  Cardinality(Unread(Tail(q))) =
               IF Head(q).kind = "event" THEN Cardinality(Unread(q)) ELSE Cardinality(Unread(q)) - 1
<1>1. 1 \in Unread(q) <=> Head(q).kind # "event"
  BY DEF Unread
<1>2. Cardinality(Unread(q) \ {1}) =
          IF 1 \in Unread(q) THEN Cardinality(Unread(q)) - 1 ELSE Cardinality(Unread(q))
  BY UnreadFinite, FS_RemoveElement
<1> QED
  BY <1>1, <1>2, UnreadTail

-----------------------------------------------------------------------------
\* Types, the lock and the closed connection.
LEMMA InitQmpInv == Init => QmpInv
  BY DEF Init, QmpInv, QmpTypes, Exclusive, ClosedTakesNothing

\* Every step of the threads and the monitor keeps QmpInv.
LEMMA NextQmpInv == QmpInv /\ [Next]_vars => QmpInv'
<1> SUFFICES ASSUME QmpInv, [Next]_vars PROVE QmpInv'
  OBVIOUS
<1>0. QmpTypes /\ Exclusive /\ ClosedTakesNothing
  BY DEF QmpInv
<1>1. ASSUME NEW t \in Threads, Call(t) PROVE QmpInv'
  BY <1>0, <1>1 DEF Call, QmpInv, QmpTypes, Exclusive, ClosedTakesNothing
<1>2. ASSUME NEW t \in Threads, Acquire(t) PROVE QmpInv'
  BY <1>0, <1>2 DEF Acquire, QmpInv, QmpTypes, Exclusive, ClosedTakesNothing
<1>3. ASSUME NEW t \in Threads, SendAll(t) PROVE QmpInv'
  <2>1. Command(t) \in Commands
    BY <1>0 DEF Command, Commands, QmpTypes
  <2>2. QmpTypes'
    BY <1>0, <1>3, <2>1 DEF SendAll, QmpTypes
  <2> QED
    BY <1>0, <1>3, <2>2 DEF SendAll, QmpInv, QmpTypes, Exclusive, ClosedTakesNothing
<1>4. ASSUME NEW t \in Threads, ReadEvent(t) PROVE QmpInv'
  BY <1>0, <1>4 DEF ReadEvent, QmpInv, QmpTypes, Exclusive, ClosedTakesNothing
<1>5. ASSUME NEW t \in Threads,
             SendFails(t) \/ ReadReply(t) \/ ReadClosed(t) \/ ReadTimesOut(t)
      PROVE  QmpInv'
  <2>1. /\ pc[t] \in {"send", "read"} /\ pc' = [pc EXCEPT ![t] = "idle"] /\ lock' = lock \ {t}
        /\ UNCHANGED <<open, issued, toServer>>
        /\ DOMAIN answer' = DOMAIN answer
        /\ timeouts' \in {timeouts, timeouts + 1}
        /\ toClient' = toClient \/ (toClient # <<>> /\ toClient' = Tail(toClient))
    BY <1>5 DEF SendFails, ReadReply, ReadClosed, ReadTimesOut, Leave
  <2>2. toClient' \in Seq(Messages) /\ timeouts' \in Nat
    <3>1. toClient # <<>> => Tail(toClient) \in Seq(Messages)
      BY <1>0 DEF QmpTypes
    <3>2. toClient' \in Seq(Messages)
      BY <1>0, <2>1, <3>1, Zenon DEF QmpTypes
    <3> QED
      BY <1>0, <2>1, <3>2 DEF QmpTypes
  <2>3. QmpTypes'
    BY <1>0, <2>1, <2>2 DEF QmpTypes
  <2> QED
    BY <1>0, <2>1, <2>3 DEF QmpInv, QmpTypes, Exclusive, ClosedTakesNothing
<1>6. CASE Serve
  <2>1. Head(toServer) \in Commands /\ toServer' \in Seq(Commands)
    BY <1>0, <1>6 DEF Serve, QmpTypes
  <2>2. toClient' \in Seq(Messages)
    BY <1>0, <1>6, <2>1 DEF Serve, QmpTypes, Messages, Reply
  <2> QED
    BY <1>0, <1>6, <2>1, <2>2 DEF Serve, QmpInv, QmpTypes, Exclusive, ClosedTakesNothing
<1>7. CASE SendEvent
  <2>1. toClient' \in Seq(Messages)
    BY <1>0, <1>7 DEF SendEvent, QmpTypes, Messages, Event
  <2> QED
    BY <1>0, <1>7, <2>1 DEF SendEvent, QmpInv, QmpTypes, Exclusive, ClosedTakesNothing
<1>8. CASE Exit
  <2>1. <<>> \in Seq(Commands)
    OBVIOUS
  <2>2. QmpTypes'
    BY <1>0, <1>8, <2>1 DEF Exit, QmpTypes
  <2> QED
    BY <1>0, <1>8, <2>2 DEF Exit, QmpInv, QmpTypes, Exclusive, ClosedTakesNothing
<1>9. CASE UNCHANGED vars
  BY <1>0, <1>9 DEF vars, QmpInv, QmpTypes, Exclusive, ClosedTakesNothing
<1> QED
  BY <1>1, <1>2, <1>3, <1>4, <1>5, <1>6, <1>7, <1>8, <1>9 DEF Next, ClientStep, ReadStep

\* What each step does to the number of outstanding commands and replies.
LEMMA NextOneOutstanding == QmpInv /\ QmpInv' /\ OneOutstanding /\ [Next]_vars => OneOutstanding'
<1> SUFFICES ASSUME QmpInv, QmpInv', OneOutstanding, [Next]_vars PROVE OneOutstanding'
  OBVIOUS
<1> DEFINE n == Cardinality(Unread(toClient))
           k == Len(toServer)
           Idle == \A t \in Threads : pc[t] # "read"
<1>0. /\ QmpTypes /\ Exclusive /\ ClosedTakesNothing
      /\ n \in Nat /\ k \in Nat /\ n' \in Nat /\ k' \in Nat /\ timeouts \in Nat
      /\ toClient \in Seq(Messages) /\ toServer \in Seq(Commands)
  BY UnreadFinite DEF QmpInv, QmpTypes
<1>1. k + n <= timeouts + 1 /\ (Idle => k + n <= timeouts)
  BY DEF OneOutstanding, Outstanding
<1>2. SUFFICES k' + n' <= timeouts' + 1 /\ (Idle' => k' + n' <= timeouts')
  BY DEF OneOutstanding, Outstanding
<1> DEFINE Goal == k' + n' <= timeouts' + 1 /\ (Idle' => k' + n' <= timeouts')
<1>3. ASSUME NEW t \in Threads, Call(t) \/ Acquire(t) \/ SendFails(t) PROVE Goal
  <2>1. UNCHANGED <<toServer, toClient, timeouts>> /\ (Idle' => Idle)
    BY <1>0, <1>3 DEF Call, Acquire, SendFails, Leave, QmpTypes
  <2> QED
    BY <1>1, <2>1
<1>4. ASSUME NEW t \in Threads, SendAll(t) PROVE Goal
  <2>1. Idle
    BY <1>0, <1>4 DEF SendAll, Exclusive
  <2>2. k' = k + 1 /\ n' = n /\ ~Idle' /\ timeouts' = timeouts
    BY <1>0, <1>4 DEF SendAll, QmpTypes
  <2> QED
    BY <1>0, <1>1, <2>1, <2>2
<1>5. ASSUME NEW t \in Threads, ReadEvent(t) PROVE Goal
  <2>1. n' = n
    BY <1>0, <1>5, UnreadAfterHead DEF ReadEvent
  <2>2. UNCHANGED <<k, timeouts, pc>>
    BY <1>5 DEF ReadEvent
  <2> QED
    BY <1>1, <2>1, <2>2
<1>6. ASSUME NEW t \in Threads, ReadReply(t) PROVE Goal
  <2>1. n' = n - 1
    BY <1>0, <1>6, UnreadAfterHead DEF ReadReply
  <2>2. UNCHANGED <<k, timeouts>>
    BY <1>6 DEF ReadReply
  <2> QED
    BY <1>0, <1>1, <2>1, <2>2
<1>7. ASSUME NEW t \in Threads, ReadClosed(t) PROVE Goal
  <2>1. toServer' = <<>> /\ toClient' = <<>> /\ timeouts' = timeouts
    BY <1>0, <1>7 DEF ReadClosed, ClosedTakesNothing
  <2>2. Unread(toClient') = {}
    BY <2>1 DEF Unread
  <2>3. n' = 0 /\ k' = 0
    BY <2>1, <2>2, FS_EmptySet
  <2> QED
    BY <1>0, <2>1, <2>3
<1>8. ASSUME NEW t \in Threads, ReadTimesOut(t) PROVE Goal
  <2>1. UNCHANGED <<k, n>> /\ timeouts' = timeouts + 1
    BY <1>8 DEF ReadTimesOut
  <2> QED
    BY <1>0, <1>1, <2>1
<1>9. CASE Serve
  <2>1. k' = k - 1 /\ timeouts' = timeouts /\ (Idle' => Idle)
    BY <1>0, <1>9 DEF Serve
  <2>2. PICK kind \in {"return", "error"} : toClient' = Append(toClient, Reply(kind, Head(toServer)))
    BY <1>9 DEF Serve
  <2>3. Reply(kind, Head(toServer)) \in Messages /\ Reply(kind, Head(toServer)).kind # "event"
    BY <1>0, <1>9 DEF Serve, Reply, Messages
  <2>4. n' = n + 1
    BY <1>0, <2>2, <2>3, UnreadAppend
  <2> QED
    BY <1>0, <1>1, <2>1, <2>4
<1>10. CASE SendEvent
  <2>1. Event \in Messages /\ Event.kind = "event"
    BY DEF Event, Messages
  <2>2. n' = n
    BY <1>0, <1>10, <2>1, UnreadAppend DEF SendEvent
  <2>3. UNCHANGED <<k, timeouts, pc>>
    BY <1>10 DEF SendEvent
  <2> QED
    BY <1>1, <2>2, <2>3
<1>11. CASE Exit
  <2>1. k' = 0 /\ UNCHANGED <<n, timeouts, pc>>
    BY <1>11 DEF Exit
  <2> QED
    BY <1>0, <1>1, <2>1
<1>12. CASE UNCHANGED vars
  <2>1. UNCHANGED <<k, n, timeouts, pc>>
    BY <1>12 DEF vars
  <2> QED
    BY <1>1, <2>1
<1> QED
  BY <1>3, <1>4, <1>5, <1>6, <1>7, <1>8, <1>9, <1>10, <1>11, <1>12 DEF Next, ClientStep, ReadStep

-----------------------------------------------------------------------------
\* Until the first timeout, the wire carries the reader's exchange only, and so
\* the reply that ends a read is the reader's own.
LEMMA InitOwnInv == Init => OwnInv /\ OneOutstanding
<1> SUFFICES ASSUME Init PROVE OwnInv /\ OneOutstanding
  OBVIOUS
<1>1. Unread(toClient) = {} /\ Len(toServer) = 0
  BY DEF Init, Unread
<1>2. Cardinality(Unread(toClient)) = 0
  BY <1>1, FS_EmptySet
<1>3. AnswersOwnCommand
  BY DEF Init, AnswersOwnCommand, NoAnswer
<1> QED
  BY <1>1, <1>2, <1>3 DEF Init, OwnInv, WireIsReaders, AnswersOwnUntilTimeout, OneOutstanding, Outstanding

\* Until a receive times out, the one reply in flight is the lock holder's.
LEMMA NextOwnInv == QmpInv /\ OwnInv /\ [Next]_vars => OwnInv'
<1> SUFFICES ASSUME QmpInv, OwnInv, [Next]_vars, timeouts' = 0
             PROVE  WireIsReaders' /\ AnswersOwnCommand'
  BY DEF OwnInv, WireIsReaders, AnswersOwnUntilTimeout
<1>0. QmpTypes /\ Exclusive /\ ClosedTakesNothing
      /\ toClient \in Seq(Messages) /\ toServer \in Seq(Commands) /\ Len(toServer) \in Nat
  BY DEF QmpInv, QmpTypes
<1>1. timeouts = 0
  <2>1. timeouts' \in {timeouts, timeouts + 1}
    BY DEF Next, vars, ClientStep, ReadStep, Call, Acquire, SendAll, SendFails, ReadEvent, ReadReply,
           ReadClosed, ReadTimesOut, Serve, SendEvent, Exit
  <2> QED
    BY <1>0, <2>1 DEF QmpTypes
<1>2. /\ Len(toServer) = 0 \/ Len(toServer) = 1
      /\ Len(toServer) = 1 => Unread(toClient) = {}
      /\ \A i, j \in Unread(toClient) : i = j
      /\ \A i \in 1..Len(toServer) : \E t \in Threads : pc[t] = "read" /\ toServer[i] = Command(t)
      /\ \A i \in Unread(toClient) : \E t \in Threads : pc[t] = "read" /\ toClient[i].cmd = Command(t)
      /\ AnswersOwnCommand
  BY <1>1 DEF OwnInv, WireIsReaders, AnswersOwnUntilTimeout
<1>2a. Len(toServer) = 0 \/ Len(toServer) = 1
  BY <1>2, Zenon
<1>2b. Len(toServer) = 1 => Unread(toClient) = {}
  BY <1>2, Zenon
<1>3. ASSUME NEW t \in Threads, Call(t) PROVE WireIsReaders' /\ AnswersOwnCommand'
  <2>1. \A u \in Threads : pc[u] = "read" => pc'[u] = "read" /\ Command(u)' = Command(u)
    BY <1>0, <1>3 DEF Call, Command, QmpTypes
  <2>2. WireIsReaders'
    BY <1>2, <1>3, <2>1 DEF Call, WireIsReaders
  <2>3. AnswersOwnCommand'
    BY <1>0, <1>2, <1>3 DEF Call, AnswersOwnCommand, Command, QmpTypes, NoAnswer
  <2> QED
    BY <2>2, <2>3
<1>4. ASSUME NEW t \in Threads, Acquire(t) PROVE WireIsReaders' /\ AnswersOwnCommand'
  <2>1. \A u \in Threads : (pc[u] = "read" => pc'[u] = "read") /\ Command(u)' = Command(u)
    BY <1>0, <1>4 DEF Acquire, Command, QmpTypes
  <2> QED
    BY <1>2, <1>4, <2>1 DEF Acquire, WireIsReaders, AnswersOwnCommand
<1>5. ASSUME NEW t \in Threads, SendAll(t) PROVE WireIsReaders' /\ AnswersOwnCommand'
  <2>1. \A u \in Threads : pc[u] # "read"
    BY <1>0, <1>5 DEF SendAll, Exclusive
  <2>2. Len(toServer) = 0 /\ Unread(toClient) = {}
    BY <1>0, <1>2, <2>1
  <2>3. toServer' = <<Command(t)>> /\ toClient' = toClient /\ pc'[t] = "read" /\ Command(t)' = Command(t)
    BY <1>0, <1>5, <2>2 DEF SendAll, QmpTypes, Command
  <2>4. WireIsReaders'
    BY <2>2, <2>3 DEF WireIsReaders
  <2>5. AnswersOwnCommand'
    BY <1>2, <1>5 DEF SendAll, AnswersOwnCommand, Command
  <2> QED
    BY <2>4, <2>5
<1>6. ASSUME NEW t \in Threads, ReadEvent(t) PROVE WireIsReaders' /\ AnswersOwnCommand'
  <2>1. /\ toClient # <<>> /\ toClient' = Tail(toClient)
        /\ UNCHANGED <<pc, issued, answer, toServer>>
    BY <1>6 DEF ReadEvent
  <2>2. \A i \in Unread(toClient)' : i \in Nat /\ i + 1 \in Unread(toClient)
                                     /\ toClient'[i] = toClient[i + 1]
    BY <1>0, <2>1, UnreadTail DEF Unread
  <2>3. WireIsReaders'
    <3>1. \A i, j \in Unread(toClient)' : i = j
      BY <1>2, <2>2
    <3>2. Unread(toClient) = {} => Unread(toClient)' = {}
      BY <2>2
    <3>3. \A i \in Unread(toClient)' : \E u \in Threads : pc'[u] = "read" /\ toClient'[i].cmd = Command(u)'
      BY <1>2, <2>1, <2>2 DEF Command
    <3>4. \A i \in 1..Len(toServer') : \E u \in Threads : pc'[u] = "read" /\ toServer'[i] = Command(u)'
      BY <1>2, <2>1 DEF Command
    <3>5. Len(toServer') = 0 \/ Len(toServer') = 1
      BY <1>2a, <2>1, Zenon
    <3>6. Len(toServer') = 1 => Unread(toClient)' = {}
      BY <1>2b, <2>1, <3>2, Zenon
    <3> QED
      BY <3>1, <3>3, <3>4, <3>5, <3>6, Zenon DEF WireIsReaders
  <2>4. AnswersOwnCommand'
    BY <1>2, <2>1 DEF AnswersOwnCommand, Command
  <2> QED
    BY <2>3, <2>4
<1>7. ASSUME NEW t \in Threads, ReadReply(t) PROVE WireIsReaders' /\ AnswersOwnCommand'
  <2>1. /\ pc[t] = "read" /\ toClient # <<>> /\ toClient' = Tail(toClient)
        /\ UNCHANGED <<issued, toServer>> /\ answer' = [answer EXCEPT ![t] = Head(toClient)]
    BY <1>7 DEF ReadReply, Leave
  <2>2. 1 \in Unread(toClient)
    BY <1>0, <1>7 DEF ReadReply, Unread
  <2>3. PICK u \in Threads : pc[u] = "read" /\ toClient[1].cmd = Command(u)
    BY <1>2, <2>2
  <2>4. u = t
    BY <1>0, <2>1, <2>3 DEF Exclusive
  <2>5. AnswersOwnCommand'
    BY <1>0, <1>2, <2>1, <2>3, <2>4 DEF AnswersOwnCommand, Command, QmpTypes
  <2>6. Unread(toClient)' = {}
    BY <1>0, <1>2, <2>1, <2>2, UnreadTail DEF Unread
  <2>7. Len(toServer') = 0
    BY <1>2a, <1>2b, <2>1, <2>2
  <2>8. WireIsReaders'
    BY <2>6, <2>7 DEF WireIsReaders
  <2> QED
    BY <2>5, <2>8
<1>8. ASSUME NEW t \in Threads, SendFails(t) \/ ReadClosed(t) PROVE WireIsReaders' /\ AnswersOwnCommand'
  <2>1. /\ ~open /\ UNCHANGED <<issued, toServer, toClient>>
        /\ answer' = [answer EXCEPT ![t] = [kind |-> "closed"]]
        /\ pc[t] = "send" \/ toClient = <<>>
    BY <1>8 DEF SendFails, ReadClosed, Leave
  <2>2. toServer = <<>> /\ Len(toServer) = 0
    BY <1>0, <2>1 DEF ClosedTakesNothing
  <2>3. Unread(toClient) = {}
    <3>1. CASE pc[t] = "send"
      BY <1>0, <1>2, <3>1 DEF Exclusive
    <3>2. CASE toClient = <<>>
      BY <3>2 DEF Unread
    <3> QED
      BY <1>8, <2>1, <3>1, <3>2 DEF SendFails, ReadClosed
  <2>4. WireIsReaders'
    BY <2>1, <2>2, <2>3 DEF WireIsReaders
  <2>5. AnswersOwnCommand'
    BY <1>0, <1>2, <2>1 DEF AnswersOwnCommand, Command, QmpTypes
  <2> QED
    BY <2>4, <2>5
<1>9. ASSUME NEW t \in Threads, ReadTimesOut(t) PROVE FALSE
  BY <1>1, <1>9 DEF ReadTimesOut
<1>10. CASE Serve
  <2>1. toServer # <<>> /\ toServer' = Tail(toServer) /\ UNCHANGED <<pc, issued, answer>>
    BY <1>10 DEF Serve
  <2>2. PICK kind \in {"return", "error"} : toClient' = Append(toClient, Reply(kind, Head(toServer)))
    BY <1>10 DEF Serve
  <2>3. Len(toServer) = 1 /\ Unread(toClient) = {} /\ Len(toServer') = 0
    BY <1>0, <1>2a, <1>2b, <2>1
  <2>4. /\ Reply(kind, Head(toServer)) \in Messages /\ Reply(kind, Head(toServer)).kind # "event"
        /\ Reply(kind, Head(toServer)).cmd = toServer[1]
    BY <1>0, <2>1 DEF Reply, Messages
  <2>5. /\ Unread(toClient)' = {Len(toClient) + 1}
        /\ toClient'[Len(toClient) + 1].cmd = toServer[1]
    BY <1>0, <2>2, <2>3, <2>4, UnreadAppend
  <2>6. WireIsReaders'
    <3>1. PICK u \in Threads : pc[u] = "read" /\ toServer[1] = Command(u)
      BY <1>2, <2>3
    <3>2. pc'[u] = "read" /\ toClient'[Len(toClient) + 1].cmd = Command(u)'
      BY <2>1, <2>5, <3>1 DEF Command
    <3> QED
      BY <2>3, <2>5, <3>2 DEF WireIsReaders
  <2> QED
    BY <1>2, <2>1, <2>6 DEF AnswersOwnCommand, Command
<1>11. CASE SendEvent
  <2>1. Event \in Messages /\ Event.kind = "event"
    BY DEF Event, Messages
  <2>2. /\ Unread(toClient)' = Unread(toClient) /\ UNCHANGED <<pc, issued, answer, toServer>>
        /\ \A i \in Unread(toClient) : toClient'[i] = toClient[i]
    BY <1>0, <1>11, <2>1, UnreadAppend DEF SendEvent, Unread
  <2> QED
    BY <1>2, <2>2 DEF WireIsReaders, AnswersOwnCommand, Command
<1>12. CASE Exit
  BY <1>2, <1>12 DEF Exit, WireIsReaders, AnswersOwnCommand, Command
<1>13. CASE UNCHANGED vars
  BY <1>2, <1>13 DEF vars, WireIsReaders, AnswersOwnCommand, Command
<1> QED
  BY <1>3, <1>4, <1>5, <1>6, <1>7, <1>8, <1>9, <1>10, <1>11, <1>12, <1>13 DEF Next, ClientStep, ReadStep

-----------------------------------------------------------------------------
(***************************************************************************)
(* Until a receive has timed out, every thread of any number of them gets  *)
(* the emulator's reply to its own command, whatever events come between.  *)
(***************************************************************************)
THEOREM QmpAnswersOwn == Spec => []AnswersOwnUntilTimeout
<1>1. OwnInv => AnswersOwnUntilTimeout
  BY DEF OwnInv
<1> QED
  BY InitQmpInv, NextQmpInv, InitOwnInv, NextOwnInv, <1>1, PTL DEF Spec

(***************************************************************************)
(* A timeout leaves at most one stray reply on the connection, for good:   *)
(* the exchange is never further behind than the timeouts there were.      *)
(***************************************************************************)
THEOREM QmpOneOutstanding == Spec => []OneOutstanding
  BY InitQmpInv, NextQmpInv, InitOwnInv, NextOneOutstanding, PTL DEF Spec

-----------------------------------------------------------------------------
(* The frame pump, which reads the panel through this client *)

\* What the re-check of the grabber rests on: a snapshot that is still current
\* is the pump's grabber, so a rebind to None leaves no current snapshot.
SnapshotIsBound == current => ppc # "idle" /\ held = grabber /\ grabber # None

\* The inductive invariant.
PumpInv == SnapshotIsBound /\ BlankStaysBlank

\* The pump starts without a grabber.
LEMMA InitPumpInv == PumpInit => PumpInv
  BY DEF PumpInit, PumpInv, SnapshotIsBound, BlankStaysBlank

\* Rebinds, grabs and publications keep PumpInv.
LEMMA NextPumpInv == PumpInv /\ [PumpNext]_allPumpVars => PumpInv'
<1> SUFFICES ASSUME PumpInv, [PumpNext]_allPumpVars PROVE PumpInv'
  OBVIOUS
<1> USE DEF PumpInv, SnapshotIsBound, BlankStaysBlank, guestVars, sharedVars, pumpVars, streamVars
<1>1. ASSUME NEW c \in Clients, NEW v \in Values, Draw(c, v) PROVE PumpInv'
  BY <1>1 DEF Draw
<1>2. ASSUME NEW c \in Clients, Blit(c) \/ SetInvert(c) \/ Dies(c) PROVE PumpInv'
  BY <1>2 DEF Blit, SetInvert, Dies
<1>3. ASSUME NEW c \in Clients \cup {None}, Rebind(c) PROVE PumpInv'
  BY <1>3 DEF Rebind
<1>4. CASE SetBuffers
  BY <1>4 DEF SetBuffers
<1>5. CASE Snapshot
  BY <1>5 DEF Snapshot
<1>6. CASE ReadFirst \/ ReadInvert \/ ReadSecond \/ FallBack \/ ReadGuestRam
  <2>1. UNCHANGED <<grabber, raw, png, held, current>> /\ ppc' # "idle"
    BY <1>6 DEF ReadFirst, ReadInvert, ReadSecond, FallBack, ReadGuestRam
  <2> QED
    BY <2>1
<1>7. CASE GrabFails
  BY <1>7 DEF GrabFails, EndRound
<1>8. CASE Publish
  BY <1>8 DEF Publish, EndRound
<1>9. CASE StreamStep
  BY <1>9 DEF StreamStep, StreamLatest, StreamChanged, StreamKeepalive, StreamNothing
<1>10. CASE UNCHANGED allPumpVars
  BY <1>10 DEF allPumpVars
<1> QED
  BY <1>1, <1>2, <1>3, <1>4, <1>5, <1>6, <1>7, <1>8, <1>9, <1>10 DEF PumpNext, PumpStep

(***************************************************************************)
(* A screen blanked by rebind(None) stays blank until the next rebind.     *)
(***************************************************************************)
THEOREM PumpBlankStaysBlank == PumpSpec => []BlankStaysBlank
<1>1. PumpInv => BlankStaysBlank
  BY DEF PumpInv
<1> QED
  BY InitPumpInv, NextPumpInv, <1>1, PTL DEF PumpSpec

(***************************************************************************)
(* Every step that publishes a frame publishes one of the emulator the     *)
(* pump is bound to in that very step.                                     *)
(***************************************************************************)
THEOREM PumpPublishedIsBound == PumpSpec => PublishedIsBound
<1>1. ASSUME PumpInv, [PumpNext]_allPumpVars
      PROVE  [png' # png /\ png' # None => grabber = held]_allPumpVars
  <2> SUFFICES ASSUME PumpNext, png' # png, png' # None PROVE grabber = held
    BY <1>1
  <2> USE DEF guestVars, sharedVars, pumpVars, streamVars
  <2>1. ASSUME NEW c \in Clients, NEW v \in Values, Draw(c, v) PROVE FALSE
    BY <2>1 DEF Draw
  <2>2. ASSUME NEW c \in Clients, Blit(c) \/ SetInvert(c) \/ Dies(c) PROVE FALSE
    BY <2>2 DEF Blit, SetInvert, Dies
  <2>3. ASSUME NEW c \in Clients \cup {None}, Rebind(c) PROVE FALSE
    BY <2>3 DEF Rebind
  <2>4. CASE Publish
    BY <1>1, <2>4 DEF Publish, PumpInv, SnapshotIsBound
  <2>5. CASE SetBuffers \/ Snapshot \/ ReadFirst \/ ReadInvert \/ ReadSecond
             \/ FallBack \/ ReadGuestRam \/ GrabFails \/ StreamStep
    BY <2>5 DEF SetBuffers, Snapshot, ReadFirst, ReadInvert, ReadSecond, FallBack,
                ReadGuestRam, GrabFails, StreamStep, StreamLatest, StreamChanged,
                StreamKeepalive, StreamNothing
  <2> QED
    BY <2>1, <2>2, <2>3, <2>4, <2>5 DEF PumpNext, PumpStep
<1> QED
  BY InitPumpInv, NextPumpInv, <1>1, PTL DEF PumpSpec, PublishedIsBound

-----------------------------------------------------------------------------
(* KeyControl *)

\* A keypad without power holds nothing.
OffReleased == ~on => pressed = {} /\ ptt = FALSE

KeyInv == KeyTypeOK /\ OffReleased /\ NoStuckKey

\* With requests one after the other and none lost, a PTT request in flight
\* carries the state of the button, and a radio that is keyed while the button
\* is up has such a request on its way.
PttFollows ==
    ~overlapped /\ lost = 0 =>
        /\ \A r \in Requests : req[r].op = "ptt" => req[r].held = pttHeld
        /\ ptt /\ ~pttHeld => \E r \in Requests : req[r].op = "ptt"

-----------------------------------------------------------------------------
\* What a request can be, by its kind.
LEMMA RequestShapes ==
    ASSUME NEW x \in ReqStates
    PROVE  /\ x.op = "free" => x = Free
           /\ x.op = "key" => x \in KeyStates
           /\ x.op = "ptt" => x \in PttStates
           /\ x.op = "release" => x \in ReleaseStates
           /\ x.op \in {"free", "key", "ptt", "release"}
<1>1. CASE x = Free
  BY <1>1 DEF Free
<1>2. CASE x \in KeyStates
  <2>1. x.op = "key"
    BY <1>2 DEF KeyStates, Key
  <2> QED
    BY <1>2, <2>1
<1>3. CASE x \in PttStates
  <2>1. x.op = "ptt"
    BY <1>3 DEF PttStates, Ptt
  <2> QED
    BY <1>3, <2>1
<1>4. CASE x \in ReleaseStates
  <2>1. x.op = "release"
    BY <1>4 DEF ReleaseStates, ReleaseAll
  <2> QED
    BY <1>4, <2>1
<1> QED
  BY <1>1, <1>2, <1>3, <1>4 DEF ReqStates

\* The fields of the requests that are being handled.
LEMMA RequestFields ==
    ASSUME NEW r \in Requests, req \in [Requests -> ReqStates]
    PROVE  /\ req[r].op = "key" => /\ req[r].key \in Keys
                                   /\ [req[r] EXCEPT !.pc = "held"] = Key(req[r].key, "held")
           /\ req[r].op = "ptt" => req[r].held \in BOOLEAN
           /\ req[r].op = "release" => [req[r] EXCEPT !.pc = "ptt"] = [op |-> "release", pc |-> "ptt"]
<1>0. req[r] \in ReqStates
  OBVIOUS
<1>1. ASSUME req[r].op = "key"
      PROVE  req[r].key \in Keys /\ [req[r] EXCEPT !.pc = "held"] = Key(req[r].key, "held")
  <2>1. PICK k \in Keys, a \in Actions \cup {"held"} : req[r] = Key(k, a)
    BY <1>0, <1>1, RequestShapes DEF KeyStates
  <2> QED
    BY <2>1 DEF Key
<1>2. ASSUME req[r].op = "ptt" PROVE req[r].held \in BOOLEAN
  <2>1. PICK h \in BOOLEAN : req[r] = Ptt(h)
    BY <1>0, <1>2, RequestShapes DEF PttStates
  <2> QED
    BY <2>1 DEF Ptt
<1>3. ASSUME req[r].op = "release"
      PROVE  [req[r] EXCEPT !.pc = "ptt"] = [op |-> "release", pc |-> "ptt"]
  <2>1. req[r] = ReleaseAll \/ req[r] = [op |-> "release", pc |-> "ptt"]
    BY <1>0, <1>3, RequestShapes DEF ReleaseStates
  <2> QED
    BY <2>1 DEF ReleaseAll
<1> QED
  BY <1>1, <1>2, <1>3

\* The keypad never holds two keys: what is set is one key or none.
LEMMA AtMostOneKey ==
    ASSUME NEW S, S = {} \/ \E k \in Keys : S = {k}
    PROVE  S \in SUBSET Keys /\ Cardinality(S) <= 1
<1>1. Cardinality(S) = 0 \/ Cardinality(S) = 1
  BY FS_EmptySet, FS_Singleton
<1> QED
  BY <1>1

\* No key is held and no request is on its way at the start.
LEMMA InitKeyInv == KeyInit => KeyInv /\ PttFollows
<1> SUFFICES ASSUME KeyInit PROVE KeyInv /\ PttFollows
  OBVIOUS
<1>1. KeyTypeOK
  <2>1. pressed \in SUBSET Keys /\ Cardinality(pressed) <= 1
    BY AtMostOneKey DEF KeyInit
  <2>2. req \in [Requests -> ReqStates]
    BY DEF KeyInit, ReqStates
  <2>3. lost \in 0..MaxLost
    BY KeyAssumption DEF KeyInit
  <2> QED
    BY <2>1, <2>2, <2>3, Zenon DEF KeyInit, KeyTypeOK
<1>2. \A r \in Requests : req[r].op = "free"
  BY DEF KeyInit, Free
<1> QED
  BY <1>1, <1>2 DEF KeyInit, KeyInv, OffReleased, NoStuckKey, PttFollows

-----------------------------------------------------------------------------
\* Types are kept when the keypad is set to what it was, one key or nothing.
LEMMA TypesKept ==
    ASSUME KeyTypeOK, on' \in BOOLEAN, ptt' \in BOOLEAN, pttHeld' \in BOOLEAN,
           latched' \in BOOLEAN, overlapped' \in BOOLEAN,
           pressed' = pressed \/ pressed' = {} \/ \E k \in Keys : pressed' = {k},
           pressedAt' \in SUBSET Keys, req' \in [Requests -> ReqStates],
           lost' = lost \/ (lost < MaxLost /\ lost' = lost + 1)
    PROVE  KeyTypeOK'
<1>1. pressed' \in SUBSET Keys /\ Cardinality(pressed') <= 1
  <2>1. CASE pressed' = pressed
    BY <2>1, Zenon DEF KeyTypeOK
  <2>2. CASE pressed' = {} \/ \E k \in Keys : pressed' = {k}
    BY <2>2, AtMostOneKey
  <2> QED
    BY <2>1, <2>2
<1>2. lost' \in 0..MaxLost
  BY KeyAssumption DEF KeyTypeOK
<1> QED
  BY <1>1, <1>2, Zenon DEF KeyTypeOK

\* A fetch takes a free request, so no tap that holds a key is overwritten;
\* if no two requests have met by then, nothing else was in flight.
LEMMA SendEffect ==
    ASSUME KeyTypeOK, NEW x \in ReqStates, Send(x)
    PROVE  /\ req' \in [Requests -> ReqStates] /\ overlapped' \in BOOLEAN
           /\ \A r \in Requests : Holding(r) => Holding(r)'
           /\ \A r \in Requests : req'[r] = req[r] \/ req'[r] = x
           /\ \E r \in Requests : req'[r] = x
           /\ ~overlapped' => ~overlapped /\ Quiet
<1>1. PICK r \in Requests : IsFree(r) /\ req' = [req EXCEPT ![r] = x]
  BY DEF Send
<1>2. req \in [Requests -> ReqStates]
  BY DEF KeyTypeOK
<1>3. req' \in [Requests -> ReqStates] /\ req'[r] = x
      /\ \A q \in Requests \ {r} : req'[q] = req[q]
  BY <1>1, <1>2
<1>4. ~Holding(r)
  BY <1>1 DEF Holding, IsFree
<1>5. overlapped' \in BOOLEAN /\ (~overlapped' => ~overlapped /\ Quiet)
  BY DEF Send, KeyTypeOK
<1> QED
  BY <1>1, <1>3, <1>4, <1>5 DEF Holding

\* The page: nothing but the requests and the page's own state changes.
LEMMA PageKeepsInv ==
    ASSUME KeyInv,
           \/ \E k \in Keys : Down(k) \/ Up(k) \/ \E action \in Actions : Script(k, action)
           \/ \E h \in BOOLEAN : SetPtt(h)
    PROVE  KeyInv' /\ (PttFollows => PttFollows')
<1> USE DEF pageVars, histVars
<1>0. KeyTypeOK /\ OffReleased /\ NoStuckKey
  BY DEF KeyInv
<1>a. /\ on \in BOOLEAN /\ ptt \in BOOLEAN /\ pttHeld \in BOOLEAN /\ latched \in BOOLEAN
      /\ overlapped \in BOOLEAN /\ pressedAt \in SUBSET Keys /\ req \in [Requests -> ReqStates]
  BY <1>0 DEF KeyTypeOK
<1>1. ASSUME NEW k \in Keys, Down(k) PROVE KeyInv' /\ (PttFollows => PttFollows')
  <2>1. KeyTypeOK'
    BY <1>0, <1>1, <1>a, TypesKept DEF Down
  <2> QED
    BY <1>0, <1>1, <2>1 DEF Down, KeyInv, OffReleased, NoStuckKey, Holding, PttFollows
<1>2. ASSUME NEW x \in ReqStates, Send(x), UNCHANGED <<on, pressed, ptt, latched, lost>>,
             pressedAt' \in SUBSET Keys, pttHeld' \in BOOLEAN,
             x.op # "ptt" => pttHeld' = pttHeld, x.op = "ptt" => x.held = pttHeld'
      PROVE  KeyInv' /\ (PttFollows => PttFollows')
  <2>1. /\ req' \in [Requests -> ReqStates] /\ overlapped' \in BOOLEAN
        /\ \A r \in Requests : Holding(r) => Holding(r)'
        /\ \A r \in Requests : req'[r] = req[r] \/ req'[r] = x
        /\ \E r \in Requests : req'[r] = x
        /\ ~overlapped' => ~overlapped /\ Quiet
    BY <1>0, <1>2, SendEffect
  <2>2. KeyTypeOK'
    BY <1>0, <1>2, <1>a, <2>1, TypesKept
  <2>3. OffReleased' /\ NoStuckKey'
    BY <1>0, <1>2, <2>1 DEF OffReleased, NoStuckKey
  <2>4. ASSUME PttFollows, ~overlapped', lost' = 0
        PROVE  /\ \A r \in Requests : req'[r].op = "ptt" => req'[r].held = pttHeld'
               /\ ptt' /\ ~pttHeld' => \E r \in Requests : req'[r].op = "ptt"
    <3>1. \A r \in Requests : req[r].op = "free"
      BY <2>1, <2>4 DEF Quiet, IsFree
    <3>2. ~(ptt /\ ~pttHeld)
      BY <1>2, <2>1, <2>4, <3>1 DEF PttFollows
    <3> QED
      BY <1>2, <2>1, <3>1, <3>2
  <2> QED
    BY <2>2, <2>3, <2>4 DEF KeyInv, PttFollows
<1>3. ASSUME NEW k \in Keys, NEW a \in Actions, Send(Key(k, a)),
             UNCHANGED <<on, pressed, ptt, pttHeld, latched, lost>>, pressedAt' \in SUBSET Keys
      PROVE  KeyInv' /\ (PttFollows => PttFollows')
  <2>1. Key(k, a) \in KeyStates /\ Key(k, a).op = "key"
    BY <1>3 DEF KeyStates, Key
  <2>2. Key(k, a) \in ReqStates /\ Key(k, a).op # "ptt"
    BY <2>1 DEF ReqStates
  <2>3. /\ UNCHANGED <<on, pressed, ptt, latched, lost>> /\ pttHeld' \in BOOLEAN
        /\ pttHeld' = pttHeld /\ pressedAt' \in SUBSET Keys /\ Send(Key(k, a))
    BY <1>3, <1>a
  <2> QED
    BY <1>2, <2>2, <2>3
<1>4. ASSUME NEW k \in Keys, Up(k) PROVE KeyInv' /\ (PttFollows => PttFollows')
  BY <1>3, <1>4, <1>a, KeyAssumption DEF Up
<1>5. ASSUME NEW k \in Keys, NEW a \in Actions, Script(k, a) PROVE KeyInv' /\ (PttFollows => PttFollows')
  BY <1>3, <1>5, <1>a DEF Script
<1>6. ASSUME NEW h \in BOOLEAN, SetPtt(h) PROVE KeyInv' /\ (PttFollows => PttFollows')
  <2>1. Ptt(h) \in PttStates /\ Ptt(h).op = "ptt" /\ Ptt(h).held = h
    BY DEF PttStates, Ptt
  <2>2. Ptt(h) \in ReqStates
    BY <2>1 DEF ReqStates
  <2> QED
    BY <1>2, <1>6, <1>a, <2>1, <2>2, Zenon DEF SetPtt
<1> QED
  BY <1>1, <1>4, <1>5, <1>6

\* The blur of the window: the keys still held and /api/release-all, at once.
LEMMA BlurKeepsInv ==
    ASSUME KeyInv, Blur
    PROVE  KeyInv' /\ (PttFollows => PttFollows')
<1>0. KeyTypeOK /\ OffReleased /\ NoStuckKey
  BY DEF KeyInv
<1>a. /\ on \in BOOLEAN /\ ptt \in BOOLEAN /\ pttHeld \in BOOLEAN /\ latched \in BOOLEAN
      /\ overlapped \in BOOLEAN /\ pressedAt \in SUBSET Keys /\ req \in [Requests -> ReqStates]
  BY <1>0 DEF KeyTypeOK
<1>1. PICK f \in [pressedAt \cup {"all"} -> {r \in Requests : IsFree(r)}] :
          req' = [r \in Requests |->
                     IF r = f["all"] THEN ReleaseAll
                     ELSE IF \E k \in pressedAt : f[k] = r
                          THEN Key(CHOOSE k \in pressedAt : f[k] = r, "tap")
                          ELSE req[r]]
  BY DEF Blur
<1>2. /\ pressedAt' = {} /\ UNCHANGED <<on, pressed, ptt, pttHeld, latched, lost>>
      /\ overlapped' = (overlapped \/ ~Quiet \/ pressedAt # {})
  BY DEF Blur
<1>3. f["all"] \in {r \in Requests : IsFree(r)} /\ \A k \in pressedAt : f[k] \in {r \in Requests : IsFree(r)}
  OBVIOUS
<1>4. ASSUME NEW r \in Requests
      PROVE  /\ req'[r] \in ReqStates
             /\ req'[r] = req[r] \/ (IsFree(r) /\ req'[r].op \in {"key", "release"})
  <2>1. CASE r = f["all"]
    <3>1. req'[r] = ReleaseAll
      BY <1>1, <2>1
    <3> QED
      BY <1>3, <2>1, <3>1 DEF ReqStates, ReleaseStates, ReleaseAll
  <2>2. CASE r # f["all"] /\ \E k \in pressedAt : f[k] = r
    <3> DEFINE c == CHOOSE k \in pressedAt : f[k] = r
    <3>1. c \in pressedAt /\ f[c] = r
      BY <2>2
    <3>2. req'[r] = Key(c, "tap")
      BY <1>1, <2>2
    <3> HIDE DEF c
    <3>3. Key(c, "tap") \in KeyStates /\ Key(c, "tap").op = "key"
      BY <1>a, <3>1, KeyAssumption DEF KeyStates, Key
    <3> QED
      BY <1>3, <3>1, <3>2, <3>3 DEF ReqStates
  <2>3. CASE r # f["all"] /\ ~\E k \in pressedAt : f[k] = r
    <3>1. req'[r] = req[r]
      BY <1>1, <2>3
    <3> QED
      BY <1>a, <3>1
  <2> QED
    BY <2>1, <2>2, <2>3
<1>5. req' \in [Requests -> ReqStates]
  BY <1>1, <1>4
<1>6. \A r \in Requests : Holding(r) => Holding(r)'
  BY <1>4 DEF Holding, IsFree
<1>7. overlapped' \in BOOLEAN
  BY <1>2
<1>8. KeyTypeOK'
  BY <1>0, <1>2, <1>5, <1>7, <1>a, TypesKept
<1>9. OffReleased' /\ NoStuckKey'
  BY <1>0, <1>2, <1>6 DEF OffReleased, NoStuckKey
<1>10. ASSUME PttFollows, ~overlapped', lost' = 0
       PROVE  /\ \A r \in Requests : req'[r].op = "ptt" => req'[r].held = pttHeld'
              /\ ptt' /\ ~pttHeld' => \E r \in Requests : req'[r].op = "ptt"
  <2>1. \A r \in Requests : req[r].op = "free"
    BY <1>2, <1>10 DEF Quiet, IsFree
  <2>2. ~(ptt /\ ~pttHeld)
    BY <1>2, <1>10, <2>1 DEF PttFollows
  <2>3. \A r \in Requests : req'[r].op # "ptt"
    BY <1>4, <2>1
  <2> QED
    BY <1>2, <2>2, <2>3
<1> QED
  BY <1>8, <1>9, <1>10 DEF KeyInv, PttFollows

\* A request that ends or moves on, while the keypad is left alone or set.
LEMMA HandlerKeepsInv ==
    ASSUME KeyInv, NEW r \in Requests, Lose(r) \/ Handle(r)
    PROVE  KeyInv' /\ (PttFollows => PttFollows')
<1> USE DEF pageVars, histVars
<1>0. KeyTypeOK /\ OffReleased /\ NoStuckKey
  BY DEF KeyInv
<1>a. /\ on \in BOOLEAN /\ ptt \in BOOLEAN /\ pttHeld \in BOOLEAN /\ latched \in BOOLEAN
      /\ overlapped \in BOOLEAN /\ pressedAt \in SUBSET Keys /\ req \in [Requests -> ReqStates]
  BY <1>0 DEF KeyTypeOK
<1>b. ASSUME Finish(r)
      PROVE  /\ req' \in [Requests -> ReqStates] /\ req'[r].op = "free"
             /\ \A q \in Requests \ {r} : req'[q] = req[q]
  BY <1>a, <1>b DEF Finish, Free, ReqStates
<1>c. UNCHANGED <<pressedAt, pttHeld, overlapped>> /\ on' = on
  <2>1. CASE Lose(r)
    BY <2>1 DEF Lose
  <2>2. CASE IgnoredWhileOff(r)
    BY <2>2 DEF IgnoredWhileOff
  <2>3. CASE KeyOnce(r) \/ KeyDown(r) \/ KeyUp(r)
    BY <2>3 DEF KeyOnce, KeyDown, KeyUp
  <2>4. CASE ApiPtt(r) \/ ReleaseKeys(r) \/ ReleasePtt(r)
    BY <2>4 DEF ApiPtt, ReleaseKeys, ReleasePtt
  <2> QED
    BY <2>1, <2>2, <2>3, <2>4 DEF Handle
<1>1. CASE Lose(r)
  <2>1. UNCHANGED <<pressed, ptt, latched>> /\ Finish(r) /\ lost < MaxLost /\ lost' = lost + 1
    BY <1>1 DEF Lose
  <2>2. KeyTypeOK'
    BY <1>0, <1>a, <1>b, <1>c, <2>1, TypesKept
  <2>3. ~Holding(r)
    <3>1. req[r] \in {Key(k, a) : k \in Keys, a \in Actions} \/ req[r].op # "key"
      BY <1>1 DEF Lose, Ptt, ReleaseAll
    <3> QED
      BY <3>1, KeyAssumption DEF Holding, Key
  <2>4. lost' # 0
    BY <1>0, <2>1 DEF KeyTypeOK
  <2> QED
    BY <1>0, <1>b, <1>c, <2>1, <2>2, <2>3, <2>4 DEF KeyInv, OffReleased, NoStuckKey, Holding, PttFollows
<1>2. CASE IgnoredWhileOff(r)
  <2>1. UNCHANGED <<pressed, ptt, latched, lost>> /\ Finish(r) /\ ~on
    BY <1>2 DEF IgnoredWhileOff
  <2>2. KeyTypeOK'
    BY <1>0, <1>a, <1>b, <1>c, <2>1, TypesKept
  <2> QED
    BY <1>0, <1>b, <1>c, <2>1, <2>2 DEF KeyInv, OffReleased, NoStuckKey, PttFollows
<1>3. CASE KeyOnce(r)
  <2>1. /\ req[r].op = "key" /\ on /\ Finish(r) /\ UNCHANGED <<ptt, lost>> /\ latched' \in BOOLEAN
        /\ pressed' = {} \/ (pressed' = {req[r].key} /\ latched')
    BY <1>3 DEF KeyOnce, keypad_set_press
  <2>2. req[r].key \in Keys
    BY <1>a, <2>1, RequestFields
  <2>3. KeyTypeOK'
    BY <1>0, <1>a, <1>b, <1>c, <2>1, <2>2, TypesKept
  <2> QED
    BY <1>0, <1>b, <1>c, <2>1, <2>3 DEF KeyInv, OffReleased, NoStuckKey, PttFollows
<1>4. CASE KeyDown(r)
  <2>1. /\ req[r].op = "key" /\ on /\ pressed' = {req[r].key} /\ UNCHANGED <<ptt, lost>>
        /\ latched' = FALSE /\ req' = [req EXCEPT ![r] = [req[r] EXCEPT !.pc = "held"]]
    BY <1>4 DEF KeyDown, keypad_set_press
  <2>2. req[r].key \in Keys /\ req' = [req EXCEPT ![r] = Key(req[r].key, "held")]
    BY <1>a, <2>1, RequestFields
  <2>3. Key(req[r].key, "held") \in KeyStates /\ Key(req[r].key, "held").op = "key"
        /\ Key(req[r].key, "held").pc = "held"
    BY <2>2 DEF KeyStates, Key
  <2>4. /\ req' \in [Requests -> ReqStates] /\ req'[r].op = "key" /\ req'[r].pc = "held"
        /\ \A q \in Requests \ {r} : req'[q] = req[q]
    BY <1>a, <2>2, <2>3 DEF ReqStates
  <2>5. KeyTypeOK'
    BY <1>0, <1>a, <1>c, <2>1, <2>2, <2>4, TypesKept
  <2> QED
    BY <1>0, <1>c, <2>1, <2>4, <2>5 DEF KeyInv, OffReleased, NoStuckKey, Holding, PttFollows
<1>5. CASE KeyUp(r)
  <2>1. req[r].op = "key" /\ pressed' = {} /\ Finish(r) /\ latched' = FALSE /\ UNCHANGED <<ptt, lost>>
    BY <1>5 DEF KeyUp, keypad_set_press
  <2>2. KeyTypeOK'
    BY <1>0, <1>a, <1>b, <1>c, <2>1, TypesKept
  <2> QED
    BY <1>0, <1>b, <1>c, <2>1, <2>2 DEF KeyInv, OffReleased, NoStuckKey, PttFollows
<1>6. CASE ApiPtt(r)
  <2>1. req[r].op = "ptt" /\ on /\ ptt' = req[r].held /\ Finish(r) /\ UNCHANGED <<pressed, latched, lost>>
    BY <1>6 DEF ApiPtt, keypad_set_ptt
  <2>2. req[r].held \in BOOLEAN
    BY <1>a, <2>1, RequestFields
  <2>3. KeyTypeOK'
    BY <1>0, <1>a, <1>b, <1>c, <2>1, <2>2, TypesKept
  <2>4. ~Holding(r)
    BY <2>1 DEF Holding
  <2>5. OffReleased' /\ NoStuckKey'
    BY <1>0, <1>b, <1>c, <2>1, <2>4 DEF OffReleased, NoStuckKey, Holding
  <2>6. PttFollows => PttFollows'
    BY <1>b, <1>c, <2>1 DEF PttFollows
  <2> QED
    BY <2>3, <2>5, <2>6 DEF KeyInv
<1>7. CASE ReleaseKeys(r)
  <2>1. /\ req[r].op = "release" /\ pressed' = {} /\ UNCHANGED <<ptt, lost>>
        /\ latched' = FALSE /\ req' = [req EXCEPT ![r] = [req[r] EXCEPT !.pc = "ptt"]]
    BY <1>7 DEF ReleaseKeys, keypad_set_press
  <2>2. req' = [req EXCEPT ![r] = [op |-> "release", pc |-> "ptt"]]
    BY <1>a, <2>1, RequestFields
  <2>3. [op |-> "release", pc |-> "ptt"] \in ReqStates
    BY DEF ReqStates, ReleaseStates
  <2>4. /\ req' \in [Requests -> ReqStates] /\ req'[r].op = "release"
        /\ \A q \in Requests \ {r} : req'[q] = req[q]
    BY <1>a, <2>2, <2>3
  <2>5. KeyTypeOK'
    BY <1>0, <1>a, <1>c, <2>1, <2>4, TypesKept
  <2> QED
    BY <1>0, <1>c, <2>1, <2>4, <2>5 DEF KeyInv, OffReleased, NoStuckKey, PttFollows
<1>8. CASE ReleasePtt(r)
  <2>1. req[r].op = "release" /\ ptt' = FALSE /\ Finish(r) /\ UNCHANGED <<pressed, latched, lost>>
    BY <1>8 DEF ReleasePtt, keypad_set_ptt
  <2>2. KeyTypeOK'
    BY <1>0, <1>a, <1>b, <1>c, <2>1, TypesKept
  <2>3. OffReleased' /\ NoStuckKey'
    BY <1>0, <1>b, <1>c, <2>1 DEF OffReleased, NoStuckKey, Holding
  <2>4. PttFollows => PttFollows'
    BY <1>b, <1>c, <2>1 DEF PttFollows
  <2> QED
    BY <2>2, <2>3, <2>4 DEF KeyInv
<1> QED
  BY <1>1, <1>2, <1>3, <1>4, <1>5, <1>6, <1>7, <1>8 DEF Handle

\* Power and resets clear the keypad or leave it.
LEMMA PowerKeepsInv ==
    ASSUME KeyInv, PowerOff \/ PowerOn \/ SystemReset
    PROVE  KeyInv' /\ (PttFollows => PttFollows')
<1> USE DEF pageVars, histVars
<1>0. KeyTypeOK /\ OffReleased /\ NoStuckKey
  BY DEF KeyInv
<1>a. /\ on \in BOOLEAN /\ ptt \in BOOLEAN /\ pttHeld \in BOOLEAN /\ latched \in BOOLEAN
      /\ overlapped \in BOOLEAN /\ pressedAt \in SUBSET Keys /\ req \in [Requests -> ReqStates]
  BY <1>0 DEF KeyTypeOK
<1>1. UNCHANGED <<pressedAt, pttHeld, req, overlapped, lost>> /\ on' \in BOOLEAN
  BY <1>a DEF PowerOff, PowerOn, SystemReset
<1>2. \/ pressed' = {} /\ ptt' = FALSE /\ latched' = FALSE
      \/ UNCHANGED <<pressed, ptt, latched>> /\ on'
  BY DEF PowerOff, PowerOn, SystemReset, keypad_reset
<1>3. ptt' \in BOOLEAN /\ latched' \in BOOLEAN
  BY <1>a, <1>2
<1>4. KeyTypeOK'
  BY <1>0, <1>1, <1>2, <1>3, <1>a, TypesKept
<1>5. OffReleased' /\ NoStuckKey'
  BY <1>0, <1>1, <1>2 DEF OffReleased, NoStuckKey, Holding
<1>6. PttFollows => PttFollows'
  BY <1>1, <1>2 DEF PttFollows
<1> QED
  BY <1>4, <1>5, <1>6 DEF KeyInv

\* Every step of the page, the handlers and the power keeps the invariants.
LEMMA NextKeyInv == KeyInv /\ [KeyNext]_keyVars => KeyInv' /\ (PttFollows => PttFollows')
<1> SUFFICES ASSUME KeyInv, [KeyNext]_keyVars PROVE KeyInv' /\ (PttFollows => PttFollows')
  OBVIOUS
<1>1. CASE UNCHANGED keyVars
  <2>1. UNCHANGED <<on, pressed, ptt, pressedAt, pttHeld, req, latched, overlapped, lost>>
    BY <1>1 DEF keyVars, pageVars, histVars
  <2>2. KeyTypeOK'
    BY <2>1, TypesKept DEF KeyInv, KeyTypeOK
  <2> QED
    BY <2>1, <2>2 DEF KeyInv, OffReleased, NoStuckKey, Holding, PttFollows
<1>2. CASE KeyNext
  BY <1>2, PageKeepsInv, BlurKeepsInv, HandlerKeepsInv, PowerKeepsInv DEF KeyNext
<1> QED
  BY <1>1, <1>2

-----------------------------------------------------------------------------
(***************************************************************************)
(* The matrix, the page and the requests keep their types; keypad_set_press *)
(* never leaves two keys of the matrix down together.                      *)
(***************************************************************************)
THEOREM KeyTypeCorrect == KeySpec => []KeyTypeOK
<1>1. KeyInv => KeyTypeOK
  BY DEF KeyInv
<1> QED
  BY InitKeyInv, NextKeyInv, <1>1, PTL DEF KeySpec

(***************************************************************************)
(* However many taps, scripts and blurs overlap, and whatever is lost, a   *)
(* key is down only while a tap holds one or a script asked for it.        *)
(***************************************************************************)
THEOREM KeyNeverStuck == KeySpec => []NoStuckKey
<1>1. KeyInv => NoStuckKey
  BY DEF KeyInv
<1> QED
  BY InitKeyInv, NextKeyInv, <1>1, PTL DEF KeySpec

(***************************************************************************)
(* When each request is answered before the next one is sent and none is   *)
(* lost, the radio is never left keyed with the PTT button up.             *)
(***************************************************************************)
THEOREM KeyNotLeftKeyed == KeySpec => []NotLeftKeyedInTurn
<1>1. PttFollows => NotLeftKeyedInTurn
  <2> SUFFICES ASSUME PttFollows, ~overlapped, lost = 0, Quiet, ~pttHeld, ptt PROVE FALSE
    BY DEF NotLeftKeyedInTurn, NotLeftKeyed
  <2>1. PICK r \in Requests : req[r].op = "ptt"
    BY DEF PttFollows
  <2> QED
    BY <2>1 DEF Quiet, IsFree
<1> QED
  BY InitKeyInv, NextKeyInv, <1>1, PTL DEF KeySpec

=============================================================================
