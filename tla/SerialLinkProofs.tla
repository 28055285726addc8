--------------------------- MODULE SerialLinkProofs ---------------------------
(***************************************************************************)
(* Theorems about the serial link and the programs that use it: for any    *)
(* image, any bounds on tries, handshakes, faults and premature waits, and *)
(* a MAGIC in the streamed screen that reaches over any number of tokens.  *)
(***************************************************************************)
EXTENDS SerialLink, WellFoundedInduction, TLAPS

-----------------------------------------------------------------------------
(* What is in flight: from the reader's buffer back to the device's input *)

Marks == {"AB", "CD", "noise"}
Received == buf \o wire
Pipe == Received \o toDev
Items(p) == {i \in 1..Len(p) : p[i].id \notin Marks}
Others(p) == {i \in Items(p) : p[i].id # "hello"}
Hellos(p) == {i \in Items(p) : p[i].id = "hello"}

\* A frame is whole from its first byte on, and is never preceded by a mark of
\* the next one: what take returns is a message.
Framed(s) ==
    \A i \in 1..Len(s) :
        /\ s[i].id = "AB" => i < Len(s) /\ s[i + 1].id = "CD"
        /\ s[i].id = "CD" => i < Len(s) /\ s[i + 1].id \notin Marks

Running == rstate \in {"send", "wait"}

ScriptInv ==
    /\ rstate \in {"send", "wait", "ok", "failed"}
    /\ rstep \in Nat \ {0}
    /\ talking \in {"command", "session"}
    /\ Running => rstep <= Len(Script)
    /\ Running /\ talking = "command" => Command # Hello

-----------------------------------------------------------------------------
(* What the reader takes and leaves *)

\* A set of positions that is not empty has a first one ...
LEMMA FirstIndex ==
    ASSUME NEW n \in Nat, NEW I \in SUBSET (1..n), I # {}
    PROVE  Min(I) \in I /\ \A i \in I : Min(I) <= i
<1>1. I \subseteq Nat
  OBVIOUS
<1>2. PICK m \in I : \A y \in I : ~ (<<y, m>> \in OpToRel(<, Nat))
  BY <1>1, WFMin, NatLessThanWellFounded
<1>3. \A y \in I : ~(y < m)
  BY <1>1, <1>2 DEF OpToRel
<1>4. \A y \in I : m <= y
  BY <1>1, <1>3
<1> QED
  BY <1>4 DEF Min

\* ... and a last one.
LEMMA LastIndex ==
    ASSUME NEW n \in Nat, NEW I \in SUBSET (1..n), I # {}
    PROVE  Max(I) \in I /\ \A i \in I : Max(I) >= i
<1> DEFINE T == {n - i : i \in I}
<1>1. T \subseteq Nat /\ T # {}
  <2>1. \A i \in I : n - i \in Nat
    OBVIOUS
  <2>2. PICK i \in I : TRUE
    OBVIOUS
  <2>3. n - i \in T
    BY <2>2
  <2> QED
    BY <2>1, <2>3
<1>2. PICK x \in T : \A y \in T : ~ (<<y, x>> \in OpToRel(<, Nat))
  BY <1>1, WFMin, NatLessThanWellFounded
<1>3. \A y \in T : ~(y < x)
  BY <1>1, <1>2 DEF OpToRel
<1>4. PICK m \in I : x = n - m
  OBVIOUS
<1>5. \A i \in I : m >= i
  <2> SUFFICES ASSUME NEW i \in I PROVE m >= i
    OBVIOUS
  <2>1. n - i \in T
    OBVIOUS
  <2>2. ~(n - i < n - m)
    BY <1>3, <1>4, <2>1
  <2>3. n - i \in Nat /\ n - m \in Nat /\ i \in Nat /\ m \in Nat
    OBVIOUS
  <2> QED
    BY <2>2, <2>3
<1> QED
  BY <1>5 DEF Max

\* What is taken was in the buffer, two places after a MAGIC.
LEMMA TakenIn ==
    ASSUME NEW T, NEW b \in Seq(T), NEW i \in Taken(b)
    PROVE  /\ i \in 1..Len(b) /\ i - 2 \in 1..Len(b)
           /\ b[i - 2].id = "AB" /\ b[i - 1].id = "CD"
           /\ \A s \in Stops(b) : i - 2 < s
<1>1. PICK k \in Kept(b) : i = k + 2 /\ \A s \in Stops(b) : k < s
  BY DEF Taken
<1>2. k \in Magics(b) /\ k \in 1..Len(b)
  BY <1>1 DEF Kept, Magics
<1>3. k \notin Stops(b)
  BY <1>1, <1>2
<1>4. b[k].id # "noise" /\ k + 2 <= Len(b)
  BY <1>1, <1>2, <1>3 DEF Stops
<1>5. b[k].id = "AB" /\ b[k + 1].id = "CD"
  BY <1>2, <1>4 DEF Magics
<1> QED
  BY <1>1, <1>2, <1>4, <1>5

\* The answer that counts is the last one taken.
LEMMA LatestIs ==
    ASSUME NEW T, NEW b \in Seq(T), NEW id, Latest(b, id) # NoMessage
    PROVE  \E i \in Taken(b) : b[i].id = id /\ Latest(b, id) = b[i]
<1> DEFINE at == {i \in Taken(b) : b[i].id = id}
<1>1. at # {} /\ Latest(b, id) = b[Max(at)]
  BY DEF Latest
<1>2. at \in SUBSET (1..Len(b)) /\ Len(b) \in Nat
  BY TakenIn
<1>3. Max(at) \in at
  BY <1>1, <1>2, LastIndex
<1> QED
  BY <1>1, <1>3

\* The same of the part of a stream that has been read.
FramedSoFar(b) ==
    \A i \in 1..Len(b) :
        /\ b[i].id = "AB" /\ i < Len(b) => b[i + 1].id = "CD"
        /\ b[i].id = "CD" /\ i < Len(b) => b[i + 1].id \notin Marks

\* What stays is a suffix, and everything up to a message taken is gone.
LEMMA LeftIs ==
    ASSUME NEW T, NEW b \in Seq(T)
    PROVE  \E n \in 0..Len(b) :
              /\ Left(b) = SubSeq(b, n + 1, Len(b))
              /\ FramedSoFar(b) => \A i \in Taken(b) : i <= n
<1>1. CASE Stops(b) = {}
  <2>1. SubSeq(b, Len(b) + 1, Len(b)) = <<>>
    OBVIOUS
  <2> QED
    BY <1>1, <2>1, TakenIn DEF Left
<1>2. CASE Stops(b) # {}
  <2>1. Stops(b) \in SUBSET (1..Len(b)) /\ Len(b) \in Nat
    BY DEF Stops, Kept, Magics
  <2> DEFINE m == Min(Stops(b))
  <2>2. m \in Stops(b) /\ m \in 1..Len(b)
    BY <1>2, <2>1, FirstIndex
  <2>3. Left(b) = SubSeq(b, (m - 1) + 1, Len(b)) /\ m - 1 \in 0..Len(b)
    BY <1>2, <2>2 DEF Left
  <2>4. b[m].id \in {"AB", "noise"}
    BY <2>2 DEF Stops, Kept, Magics
  <2>5. ASSUME FramedSoFar(b), NEW i \in Taken(b) PROVE i <= m - 1
    <3>1. /\ i \in 1..Len(b) /\ i - 2 \in 1..Len(b) /\ i - 2 < m
          /\ b[i - 1].id = "CD"
      BY <2>2, TakenIn
    <3>2. b[(i - 1) + 1].id \notin Marks
      BY <2>5, <3>1 DEF FramedSoFar
    <3>3. m # i - 1 /\ m # i
      BY <2>4, <3>1, <3>2 DEF Marks
    <3> QED
      BY <2>2, <3>1, <3>3
  <2> QED
    BY <2>3, <2>5
<1> QED
  BY <1>1, <1>2

\* The positions of a tail.
LEMMA TailIs ==
    ASSUME NEW T, NEW s \in Seq(T), s # <<>>
    PROVE  /\ Head(s) \in T /\ Head(s) = s[1] /\ Tail(s) \in Seq(T)
           /\ Len(s) \in Nat \ {0} /\ Len(Tail(s)) = Len(s) - 1
           /\ \A i \in 1..(Len(s) - 1) : Tail(s)[i] = s[i + 1]
  OBVIOUS

\* A frame at the end of the wire.
LEMMA FrameIs ==
    ASSUME NEW T, NEW s \in Seq(T), NEW u \in T, NEW v \in T, NEW m \in T
    PROVE  /\ s \o <<u, v, m>> \in Seq(T) /\ Len(s \o <<u, v, m>>) = Len(s) + 3
           /\ \A i \in 1..Len(s) : (s \o <<u, v, m>>)[i] = s[i]
           /\ (s \o <<u, v, m>>)[Len(s) + 1] = u
           /\ (s \o <<u, v, m>>)[Len(s) + 2] = v
           /\ (s \o <<u, v, m>>)[Len(s) + 3] = m
  OBVIOUS

\* Left and take forget a prefix of the buffer: what holds of every token in
\* it holds of the rest.
LEMMA RestIsSuffix ==
    ASSUME NEW T, NEW b \in Seq(T), NEW n \in 0..Len(b)
    PROVE  /\ SubSeq(b, n + 1, Len(b)) \in Seq(T)
           /\ Len(SubSeq(b, n + 1, Len(b))) = Len(b) - n
           /\ \A i \in 1..(Len(b) - n) : SubSeq(b, n + 1, Len(b))[i] = b[n + i]
  OBVIOUS

\* What take leaves is a suffix too.
LEMMA TakeIs ==
    ASSUME NEW T, NEW b \in Seq(T)
    PROVE  \E n \in 0..Len(b) : take(b).rest = SubSeq(b, n + 1, Len(b))
<1>1. CASE Kept(b) = {}
  <2>1. SubSeq(b, Len(b) + 1, Len(b)) = <<>>
    OBVIOUS
  <2> QED
    BY <1>1, <2>1 DEF take
<1>2. CASE Kept(b) # {}
  <2> DEFINE m == Min(Kept(b))
  <2>1. Kept(b) \in SUBSET (1..Len(b)) /\ Len(b) \in Nat
    BY DEF Kept, Magics
  <2>2. m \in 1..Len(b)
    BY <1>2, <2>1, FirstIndex
  <2>3. CASE b[m].id = "noise" \/ m + 2 > Len(b)
    <3>1. take(b).rest = SubSeq(b, m, Len(b))
      BY <1>2, <2>3 DEF take
    <3>2. m - 1 \in 0..Len(b) /\ (m - 1) + 1 = m
      BY <2>2
    <3> QED
      BY <3>1, <3>2
  <2>4. CASE ~(b[m].id = "noise" \/ m + 2 > Len(b))
    <3>1. take(b).rest = SubSeq(b, m + 3, Len(b))
      BY <1>2, <2>4 DEF take
    <3>2. m + 2 \in 0..Len(b) /\ (m + 2) + 1 = m + 3
      BY <2>2, <2>4
    <3> QED
      BY <3>1, <3>2
  <2> QED
    BY <2>3, <2>4
<1> QED
  BY <1>1, <1>2

-----------------------------------------------------------------------------
(* Programming through the bootloader *)

FlasherTokens == [id : {"AB", "CD", "dev_info"}]
                   \cup [id : {"page_resp"}, index : Nat, err : {0, 1}]
FlasherCommands == [id : {"bl_ver"}] \cup [id : {"page"}, index : Nat]

\* A success on its way to the flasher, or read by it, is that of a page that
\* has been programmed.
Honest(s) ==
    \A i \in 1..Len(s) : s[i].id = "page_resp" /\ s[i].err = 0 => s[i].index \in pages

\* The inductive invariant: the pages behind the flasher are all programmed.
FlasherInv ==
    /\ toDev \in Seq(FlasherCommands)
    /\ wire \in Seq(FlasherTokens) /\ buf \in Seq(FlasherTokens)
    /\ index \in Nat \ {0}
    /\ Honest(buf) /\ Honest(wire)
    /\ 1..(index - 1) \subseteq pages
    /\ fstate = "ok" => index = Pages + 1

\* The flasher starts at the first page.
LEMMA InitFlasherInv == LinkInit => FlasherInv
  BY SerialFlashAssumption DEF LinkInit, FlasherInit, FlasherInv, Honest

\* A frame of the bootloader keeps the wire honest.
LEMMA AnswerHonest ==
    ASSUME FlasherInv, NEW m \in FlasherTokens,
           m.id = "page_resp" /\ m.err = 0 => m.index \in pages',
           pages \subseteq pages', wire' = wire \o build(m)
    PROVE  (wire \in Seq(FlasherTokens) /\ Honest(wire))'
<1>1. AB \in FlasherTokens /\ CD \in FlasherTokens
  BY DEF AB, CD, FlasherTokens
<1>3. /\ wire' \in Seq(FlasherTokens) /\ Len(wire') = Len(wire) + 3
      /\ \A i \in 1..Len(wire) : wire'[i] = wire[i]
      /\ wire'[Len(wire) + 1] = AB /\ wire'[Len(wire) + 2] = CD /\ wire'[Len(wire) + 3] = m
  <2>1. wire \in Seq(FlasherTokens)
    BY DEF FlasherInv
  <2> QED
    BY <1>1, <2>1, FrameIs DEF build
<1>4. ASSUME NEW i \in 1..Len(wire'), wire'[i].id = "page_resp", wire'[i].err = 0
      PROVE  wire'[i].index \in pages'
  <2>1. i \in 1..Len(wire) \/ i = Len(wire) + 1 \/ i = Len(wire) + 2 \/ i = Len(wire) + 3
    BY <1>3 DEF FlasherInv
  <2>2. CASE i \in 1..Len(wire)
    BY <1>3, <1>4, <2>2 DEF FlasherInv, Honest
  <2>3. CASE i = Len(wire) + 1 \/ i = Len(wire) + 2
    BY <1>3, <1>4, <2>3 DEF AB, CD
  <2> QED
    BY <1>3, <1>4, <2>1, <2>2, <2>3
<1> QED
  BY <1>3, <1>4 DEF Honest

\* Programming, announcements and faults keep FlasherInv.
LEMMA NextFlasherInv == FlasherInv /\ FlasherNext => FlasherInv'
<1> SUFFICES ASSUME FlasherInv, FlasherNext PROVE FlasherInv'
  OBVIOUS
<1> USE DEF FlasherInv, flasherVars, bootVars, linkVars
<1>1. ASSUME NEW n \in 0..Len(buf), buf' = SubSeq(buf, n + 1, Len(buf)), pages' = pages
      PROVE  (buf \in Seq(FlasherTokens) /\ Honest(buf))'
  BY <1>1, RestIsSuffix DEF Honest
<1>2. CASE DeviceSeen
  <2>1. \E n \in 0..Len(buf) : buf' = SubSeq(buf, n + 1, Len(buf))
    BY <1>2, TakeIs DEF DeviceSeen
  <2> QED
    BY <1>1, <1>2, <2>1 DEF DeviceSeen, Honest
<1>3. CASE Handshake
  <2>1. \E n \in 0..Len(buf) : buf' = SubSeq(buf, n + 1, Len(buf))
    BY <1>3, LeftIs DEF Handshake
  <2>2. toDev' \in Seq(FlasherCommands)
    BY <1>3 DEF Handshake, Send, FlasherCommands
  <2> QED
    BY <1>1, <1>3, <2>1, <2>2 DEF Handshake, Honest
<1>4. CASE Deadline
  BY <1>4 DEF Deadline, Honest
<1>5. CASE SendPage
  BY <1>5 DEF SendPage, Send, FlasherCommands, Honest
<1>6. CASE ReadReply
  <2>1. \E n \in 0..Len(buf) : buf' = SubSeq(buf, n + 1, Len(buf))
    BY <1>6, LeftIs DEF ReadReply
  <2> DEFINE reply == Latest(buf, "page_resp")
             acked == PageAcked(reply)
  <2>2. acked => index \in pages
    <3> SUFFICES ASSUME acked PROVE index \in pages
      OBVIOUS
    <3>1. PICK i \in Taken(buf) : buf[i].id = "page_resp" /\ reply = buf[i]
      BY LatestIs DEF PageAcked
    <3>2. i \in 1..Len(buf)
      BY TakenIn
    <3> QED
      BY <3>1, <3>2 DEF Honest, PageAcked
  <2>3. index' = IF acked THEN index + 1 ELSE index
    BY <1>6 DEF ReadReply
  <2>4. index' \in Nat \ {0} /\ (1..(index - 1) \subseteq pages)'
    BY <1>6, <2>2, <2>3 DEF ReadReply
  <2>5. (fstate = "ok" => index = Pages + 1)'
    BY <1>6, <2>3 DEF ReadReply
  <2> QED
    BY <1>1, <1>6, <2>1, <2>4, <2>5 DEF ReadReply, Honest
<1>7. CASE Pump
  BY <1>7 DEF Pump, feed, Honest
<1>8. CASE Announce
  <2>1. wire' = wire \o build([id |-> "dev_info"])
    BY <1>8 DEF Announce, build
  <2>2. [id |-> "dev_info"] \in FlasherTokens
    BY DEF FlasherTokens
  <2>3. (wire \in Seq(FlasherTokens) /\ Honest(wire))'
    BY <1>8, <2>1, <2>2, AnswerHonest DEF Announce
  <2> QED
    BY <1>8, <2>3 DEF Announce, Honest
<1>9. CASE BootHears
  <2>1. toDev # <<>> /\ toDev' \in Seq(FlasherCommands) /\ Head(toDev) \in FlasherCommands
    <3>1. toDev # <<>> /\ toDev' = Tail(toDev)
      BY <1>9 DEF BootHears, Drop, Answer
    <3> QED
      BY <3>1, TailIs
  <2>2. CASE UNCHANGED <<wire, pages>>
    BY <1>9, <2>1, <2>2 DEF BootHears, Drop, Answer, Honest
  <2>3. CASE /\ Head(toDev).id = "page"
             /\ Answer([id |-> "page_resp", index |-> Head(toDev).index, err |-> 0])
             /\ pages' = pages \cup {Head(toDev).index}
    <3> DEFINE m == [id |-> "page_resp", index |-> Head(toDev).index, err |-> 0]
    <3>1. m \in FlasherTokens /\ m.index \in pages' /\ wire' = wire \o build(m)
      BY <2>1, <2>3 DEF FlasherTokens, FlasherCommands, Answer
    <3>2. (wire \in Seq(FlasherTokens) /\ Honest(wire))'
      BY <2>3, <3>1, AnswerHonest
    <3> QED
      BY <1>9, <2>1, <2>3, <3>2 DEF BootHears, Answer, Honest
  <2> QED
    BY <1>9, <2>2, <2>3 DEF BootHears, Drop
<1>10. CASE BootFaults
  <2>1. toDev # <<>> /\ toDev' \in Seq(FlasherCommands) /\ Head(toDev) \in FlasherCommands
    <3>1. toDev # <<>> /\ toDev' = Tail(toDev)
      BY <1>10 DEF BootFaults, Drop, Answer
    <3> QED
      BY <3>1, TailIs
  <2>2. CASE Drop
    BY <1>10, <2>1, <2>2 DEF BootFaults, Drop, Honest
  <2>3. CASE /\ Head(toDev).id = "page"
             /\ Answer([id |-> "page_resp", index |-> Head(toDev).index, err |-> 1])
    <3> DEFINE m == [id |-> "page_resp", index |-> Head(toDev).index, err |-> 1]
    <3>1. m \in FlasherTokens /\ m.err # 0 /\ wire' = wire \o build(m)
      BY <2>1, <2>3 DEF FlasherTokens, FlasherCommands, Answer
    <3>2. (wire \in Seq(FlasherTokens) /\ Honest(wire))'
      BY <1>10, <3>1, AnswerHonest DEF BootFaults
    <3> QED
      BY <1>10, <2>1, <2>3, <3>2 DEF BootFaults, Answer, Honest
  <2> QED
    BY <1>10, <2>2, <2>3 DEF BootFaults
<1> QED
  BY <1>2, <1>3, <1>4, <1>5, <1>6, <1>7, <1>8, <1>9, <1>10 DEF FlasherNext

\* Without the flasher on the link its state is never touched.
LinkFlasherInv ==
    IF tool = "flasher" THEN FlasherInv ELSE fstate = "announce"

LEMMA NextLinkFlasherInv == LinkFlasherInv /\ [LinkNext]_allVars => LinkFlasherInv'
<1> SUFFICES ASSUME LinkFlasherInv, [LinkNext]_allVars PROVE LinkFlasherInv'
  OBVIOUS
<1> USE DEF LinkFlasherInv
<1>1. CASE tool = "flasher" /\ FlasherNext /\ tool' = tool
  BY <1>1, NextFlasherInv
<1>2. CASE tool # "flasher" /\ UNCHANGED <<tool, flasherAll>>
  BY <1>2 DEF flasherAll, flasherVars
<1>3. CASE UNCHANGED allVars
  <2>1. UNCHANGED <<tool, toDev, wire, buf, index, fstate, pages>>
    BY <1>3 DEF allVars, linkVars, flasherAll, flasherVars, bootVars
  <2> QED
    BY <2>1 DEF FlasherInv, Honest
<1> QED
  BY <1>1, <1>2, <1>3 DEF LinkNext, RadioTools

(***************************************************************************)
(* Whatever pages or answers are lost, late or refused, and wherever recv  *)
(* cuts the stream, a programming run that reports success has programmed  *)
(* every page of an image of any length.                                   *)
(***************************************************************************)
THEOREM LinkProgrammedIsImage == LinkSpec => []ProgrammedIsImage
<1>1. LinkInit => LinkFlasherInv
  BY InitFlasherInv DEF LinkInit, FlasherInit, LinkFlasherInv
<1>2. LinkFlasherInv => ProgrammedIsImage
  <2> SUFFICES ASSUME LinkFlasherInv, fstate = "ok" PROVE 1..Pages \subseteq pages
    BY DEF ProgrammedIsImage
  <2>1. index = Pages + 1 /\ 1..(index - 1) \subseteq pages
    BY DEF LinkFlasherInv, FlasherInv
  <2> QED
    BY <2>1, SerialFlashAssumption
<1> QED
  BY <1>1, <1>2, NextLinkFlasherInv, PTL DEF LinkSpec

-----------------------------------------------------------------------------
(* What the link does to what is in flight *)

\* Reading changes nothing of all that is on its way to the host.
LEMMA FeedIs ==
    ASSUME NEW T, NEW b \in Seq(T), NEW w \in Seq(T), w # <<>>
    PROVE  Append(b, Head(w)) \o Tail(w) = b \o w
  OBVIOUS

\* The positions of a concatenation.
LEMMA ConcatIs ==
    ASSUME NEW T, NEW s \in Seq(T), NEW u \in Seq(T), NEW z, z = s \o u
    PROVE  /\ z \in Seq(T) /\ Len(z) = Len(s) + Len(u)
           /\ \A i \in 1..Len(z) : z[i] = IF i <= Len(s) THEN s[i] ELSE u[i - Len(s)]
  OBVIOUS

\* q holds, in the order of p, nothing but messages and commands that p holds
\* after its n-th place.
Same(x, y) == x.id = y.id /\ x.of = y.of

Thins(q, p, n) ==
    \E f \in [1..Len(q) -> Int] :
        /\ \A i \in Items(q) : f[i] \in Items(p) /\ n < f[i] /\ Same(q[i], p[f[i]])
        /\ \A i, j \in Items(q) : i < j => f[i] < f[j]

\* It is so when what lies after the k-th place has moved by c.
Shifted(q, p, n, k, c) ==
    \A i \in Items(q) :
        /\ i <= k => i \in Items(p) /\ n < i /\ Same(q[i], p[i])
        /\ k < i  => i + c \in Items(p) /\ n < i + c /\ k < i + c /\ Same(q[i], p[i + c])

LEMMA ShiftThins ==
    ASSUME NEW q, NEW p, NEW n \in Nat, NEW k \in Nat, NEW c \in Int, Shifted(q, p, n, k, c)
    PROVE  Thins(q, p, n)
<1> DEFINE f == [i \in 1..Len(q) |-> IF i <= k THEN i ELSE i + c]
<1>1. \A i \in Items(q) : i \in 1..Len(q) /\ i \in Int
  BY DEF Items
<1>2. f \in [1..Len(q) -> Int] /\ \A i \in Items(q) : f[i] = IF i <= k THEN i ELSE i + c
  BY <1>1
<1> HIDE DEF f
<1>3. \A i \in Items(q) : f[i] \in Items(p) /\ n < f[i] /\ Same(q[i], p[f[i]])
  BY <1>1, <1>2 DEF Shifted
<1>4. \A i, j \in Items(q) : i < j => f[i] < f[j]
  BY <1>1, <1>2 DEF Shifted
<1> QED
  BY <1>2, <1>3, <1>4 DEF Thins

\* The device drops a command,
LEMMA DropThins ==
    ASSUME NEW T, NEW p \in Seq(T), NEW q \in Seq(T), NEW k \in Nat, NEW n \in Nat \ {0},
           Len(p) = k + n, Len(q) = k + n - 1,
           \A i \in 1..k : q[i] = p[i],
           \A i \in 1..(n - 1) : q[k + i] = p[k + i + 1]
    PROVE  Thins(q, p, 0)
<1>1. ASSUME NEW i \in Items(q)
      PROVE  /\ i <= k => i \in Items(p) /\ 0 < i /\ Same(q[i], p[i])
             /\ k < i => i + 1 \in Items(p) /\ 0 < i + 1 /\ k < i + 1 /\ Same(q[i], p[i + 1])
  <2>1. i \in 1..Len(q)
    BY DEF Items
  <2>2. CASE i <= k
    BY <2>1, <2>2 DEF Items, Same
  <2>3. CASE k < i
    <3>1. i - k \in 1..(n - 1) /\ i = k + (i - k)
      BY <2>1, <2>3
    <3>2. q[k + (i - k)] = p[k + (i - k) + 1]
      BY <3>1
    <3>3. q[i] = p[i + 1] /\ i + 1 \in 1..Len(p)
      BY <2>1, <3>1, <3>2
    <3> QED
      BY <2>1, <2>3, <3>3 DEF Items, Same
  <2> QED
    BY <2>1, <2>2, <2>3
<1>2. Shifted(q, p, 0, k, 1)
  BY <1>1 DEF Shifted
<1>3. 0 \in Nat /\ 1 \in Int
  OBVIOUS
<1> QED
  BY <1>2, <1>3, ShiftThins, Zenon

\* or answers it,
LEMMA AnswerThins ==
    ASSUME NEW T, NEW p \in Seq(T), NEW q \in Seq(T), NEW k \in Nat, NEW n \in Nat \ {0},
           Len(p) = k + n, Len(q) = k + n + 2,
           \A i \in 1..k : q[i] = p[i],
           q[k + 1].id \in Marks, q[k + 2].id \in Marks,
           p[k + 1].id \notin Marks, Same(q[k + 3], p[k + 1]),
           \A i \in 1..(n - 1) : q[k + 3 + i] = p[k + i + 1]
    PROVE  Thins(q, p, 0)
<1>1. ASSUME NEW i \in Items(q)
      PROVE  /\ i <= k => i \in Items(p) /\ 0 < i /\ Same(q[i], p[i])
             /\ k < i => /\ i + (-2) \in Items(p) /\ 0 < i + (-2) /\ k < i + (-2)
                         /\ Same(q[i], p[i + (-2)])
  <2>1. i \in 1..Len(q) /\ q[i].id \notin Marks
    BY DEF Items
  <2>2. CASE i <= k
    BY <2>1, <2>2 DEF Items, Same
  <2>3. CASE k < i
    <3>1. i # k + 1 /\ i # k + 2
      BY <2>1
    <3>2. CASE i = k + 3
      <4>1. i + (-2) = k + 1 /\ k + 1 \in 1..Len(p)
        BY <3>2
      <4> QED
        BY <2>3, <3>2, <4>1 DEF Items
    <3>3. CASE k + 3 < i
      <4>1. PICK j \in 1..(n - 1) : i = k + 3 + j /\ i + (-2) = k + j + 1
        <5>1. i \in Nat /\ i <= k + n + 2
          BY <2>1
        <5>2. PICK j \in Int : j = i - k - 3
          BY <5>1
        <5>3. j \in 1..(n - 1)
          BY <3>3, <5>1, <5>2
        <5>4. i = k + 3 + j /\ i + (-2) = k + j + 1
          BY <5>1, <5>2
        <5> QED
          BY <5>3, <5>4
      <4>2. q[k + 3 + j] = p[k + j + 1]
        BY <4>1
      <4>3. q[i] = p[i + (-2)] /\ i + (-2) \in 1..Len(p)
        BY <2>1, <4>1, <4>2
      <4> QED
        BY <2>1, <3>3, <4>3 DEF Items, Same
    <3> QED
      BY <2>1, <2>3, <3>1, <3>2, <3>3
  <2> QED
    BY <2>1, <2>2, <2>3
<1>2. Shifted(q, p, 0, k, -2)
  BY <1>1 DEF Shifted
<1> QED
  BY <1>2, ShiftThins

\* the screen is streamed,
LEMMA StreamThins ==
    ASSUME NEW T, NEW p \in Seq(T), NEW q \in Seq(T), NEW k \in Nat, NEW n \in Nat,
           Len(p) = k + n, Len(q) = k + n + 1,
           \A i \in 1..k : q[i] = p[i],
           q[k + 1].id \in Marks,
           \A i \in 1..n : q[k + i + 1] = p[k + i]
    PROVE  Thins(q, p, 0)
<1>1. ASSUME NEW i \in Items(q)
      PROVE  /\ i <= k => i \in Items(p) /\ 0 < i /\ Same(q[i], p[i])
             /\ k < i => /\ i + (-1) \in Items(p) /\ 0 < i + (-1) /\ k < i + (-1)
                         /\ Same(q[i], p[i + (-1)])
  <2>1. i \in 1..Len(q) /\ q[i].id \notin Marks
    BY DEF Items
  <2>2. CASE i <= k
    BY <2>1, <2>2 DEF Items, Same
  <2>3. CASE k < i
    <3>1. i # k + 1
      BY <2>1
    <3>2. i - k - 1 \in 1..n /\ i = k + (i - k - 1) + 1 /\ i + (-1) = k + (i - k - 1)
      BY <2>1, <2>3, <3>1
    <3>3. q[k + (i - k - 1) + 1] = p[k + (i - k - 1)]
      BY <3>2
    <3>4. q[i] = p[i + (-1)] /\ i + (-1) \in 1..Len(p)
      BY <2>1, <3>2, <3>3
    <3> QED
      BY <2>1, <2>3, <3>1, <3>4 DEF Items, Same
  <2> QED
    BY <2>1, <2>2, <2>3
<1>2. Shifted(q, p, 0, k, -1)
  BY <1>1 DEF Shifted
<1> QED
  BY <1>2, ShiftThins

\* and the reader forgets what it has looked at.
LEMMA ForgetThins ==
    ASSUME NEW T, NEW p \in Seq(T), NEW q \in Seq(T), NEW n \in Nat,
           Len(q) = Len(p) - n,
           \A i \in 1..(Len(p) - n) : q[i] = p[n + i]
    PROVE  Thins(q, p, n)
<1>1. ASSUME NEW i \in Items(q)
      PROVE  /\ i <= 0 => i \in Items(p) /\ n < i /\ Same(q[i], p[i])
             /\ 0 < i => i + n \in Items(p) /\ n < i + n /\ 0 < i + n /\ Same(q[i], p[i + n])
  <2>1. i \in 1..Len(q) /\ q[i].id \notin Marks /\ Len(p) \in Nat
    BY DEF Items
  <2>2. q[i] = p[i + n] /\ i + n \in 1..Len(p)
    BY <2>1
  <2> QED
    BY <2>1, <2>2 DEF Items, Same
<1>2. Shifted(q, p, n, 0, n)
  BY <1>1 DEF Shifted
<1> QED
  BY <1>2, ShiftThins

-----------------------------------------------------------------------------
(* The scripts *)

RadioIds == {"hello", "erase", "write", "validate", "info", "app"}
RadioCommands == [id : RadioIds, of : Nat]

\* A step of a script is a command, and a session is the plain handshake.
IsStep(c) == c \in RadioCommands /\ (c.id = "hello" => c = Hello)

LEMMA StepIs ==
    ASSUME NEW id \in RadioIds \ {"hello"}, NEW of \in Nat
    PROVE  IsStep(Cmd(id, of)) /\ Cmd(id, of).id = id
  BY DEF IsStep, Cmd, RadioCommands

LEMMA HelloIsStep == IsStep(Hello) /\ Hello.id = "hello"
  BY DEF IsStep, Hello, Cmd, RadioCommands, RadioIds

\* A quotient does not exceed its dividend.
LEMMA QuotientAtMost ==
    ASSUME NEW p \in Nat, NEW q \in Nat \ {0}
    PROVE  p \div q \in Nat /\ p \div q <= p
  OBVIOUS

LEMMA ImageWritesIs ==
    /\ ImageWrites \in Seq(RadioCommands)
    /\ \A i \in 1..Len(ImageWrites) : IsStep(ImageWrites[i]) /\ ImageWrites[i].id # "validate"
<1>1. Chunks \in Nat \ {0} /\ Renew \in Nat \ {0} /\ Chunks - 1 \in Nat
  BY SlotSerialAssumption
<1> DEFINE n == Chunks + (Chunks - 1) \div Renew
           F(p) == IF p % (Renew + 1) = 0 THEN Hello
                   ELSE Cmd("write", p - p \div (Renew + 1))
<1>2. n \in Nat
  <2>1. (Chunks - 1) \div Renew \in Nat
    BY <1>1, QuotientAtMost
  <2> QED
    BY <1>1, <2>1
<1>3. ASSUME NEW p \in 1..n PROVE IsStep(F(p)) /\ F(p).id # "validate"
  <2>1. p \div (Renew + 1) \in Nat /\ p \div (Renew + 1) <= p /\ p \in Nat
    BY <1>1, <1>2, QuotientAtMost
  <2>2. p - p \div (Renew + 1) \in Nat
    BY <2>1
  <2>3. "write" \in RadioIds \ {"hello"}
    BY DEF RadioIds
  <2> QED
    BY <2>2, <2>3, StepIs, HelloIsStep
<1> HIDE DEF n, F
<1>4. ImageWrites = [p \in 1..n |-> F(p)]
  BY DEF ImageWrites, n, F
<1>5. \A p \in 1..n : F(p) \in RadioCommands
  BY <1>3 DEF IsStep
<1> QED
  BY <1>2, <1>3, <1>4, <1>5

\* An install ends with the only validation of its script.
LEMMA InstallIs ==
    /\ Install \in Seq(RadioCommands) /\ Len(Install) \in Nat \ {0}
    /\ \A i \in 1..Len(Install) : IsStep(Install[i])
    /\ Install[Len(Install)].id = "validate"
    /\ \A i \in 1..(Len(Install) - 1) : Install[i].id # "validate"
<1> DEFINE e == Cmd("erase", 0)
           h == Cmd("write", 0)
           v == Cmd("validate", 0)
           w == ImageWrites
<1>1. /\ IsStep(e) /\ IsStep(h) /\ IsStep(v)
      /\ e.id # "validate" /\ h.id # "validate" /\ v.id = "validate"
  BY StepIs DEF RadioIds
<1>2. e \in RadioCommands /\ h \in RadioCommands /\ v \in RadioCommands
  BY <1>1 DEF IsStep
<1>3. w \in Seq(RadioCommands)
      /\ \A i \in 1..Len(w) : IsStep(w[i]) /\ w[i].id # "validate"
  BY ImageWritesIs
<1>4. Install = (<<e, h>> \o w) \o <<v>>
  BY DEF Install
<1> HIDE DEF e, h, v, w
<1>5. /\ Install \in Seq(RadioCommands) /\ Len(Install) = Len(w) + 3 /\ Len(w) \in Nat
      /\ Install[1] = e /\ Install[2] = h /\ Install[Len(w) + 3] = v
      /\ \A i \in 3..(Len(w) + 2) : Install[i] = w[i - 2]
  BY <1>2, <1>3, <1>4
<1>6. ASSUME NEW i \in 3..(Len(w) + 2) PROVE IsStep(Install[i]) /\ Install[i].id # "validate"
  BY <1>3, <1>5
<1> QED
  BY <1>1, <1>5, <1>6

LEMMA AskAppsIs ==
    /\ AskApps \in Seq(RadioCommands) /\ Len(AskApps) \in Nat \ {0}
    /\ \A i \in 1..Len(AskApps) : IsStep(AskApps[i])
<1>1. \A s \in 1..AppSlots : IsStep(Cmd("app", s))
  BY SlotSerialAssumption, StepIs DEF RadioIds
<1>2. \A s \in 1..AppSlots : Cmd("app", s) \in RadioCommands
  BY <1>1 DEF IsStep
<1> QED
  BY <1>1, <1>2, SlotSerialAssumption DEF AskApps

\* Every script is a handshake and then steps; that of an install is Install.
LEMMA ScriptIs ==
    ASSUME tool \in RadioTools
    PROVE  /\ Len(Script) \in Nat \ {0} /\ Script[1] = Hello
           /\ \A i \in 1..Len(Script) : IsStep(Script[i])
           /\ tool = "install" =>
                 /\ Script[Len(Script)].id = "validate"
                 /\ \A i \in 1..(Len(Script) - 1) : Script[i].id # "validate"
<1>1. Hello \in RadioCommands
  BY HelloIsStep DEF IsStep
<1>2. ASSUME NEW s \in Seq(RadioCommands), Len(s) \in Nat \ {0},
             Script = <<Hello>> \o s, \A i \in 1..Len(s) : IsStep(s[i])
      PROVE  /\ Len(Script) = Len(s) + 1 /\ Script[1] = Hello
             /\ \A i \in 2..(Len(s) + 1) : Script[i] = s[i - 1]
             /\ \A i \in 1..Len(Script) : IsStep(Script[i])
  <2>1. /\ Len(Script) = Len(s) + 1 /\ Script[1] = Hello
        /\ \A i \in 2..(Len(s) + 1) : Script[i] = s[i - 1]
    BY <1>1, <1>2
  <2> QED
    BY <1>2, <2>1, HelloIsStep
<1>3. CASE tool = "install"
  <2>1. Script = <<Hello>> \o Install
    BY <1>3 DEF Script
  <2>2. /\ Len(Script) = Len(Install) + 1 /\ Script[1] = Hello
        /\ \A i \in 2..(Len(Install) + 1) : Script[i] = Install[i - 1]
        /\ \A i \in 1..Len(Script) : IsStep(Script[i])
    BY <1>2, <2>1, InstallIs
  <2>3. Script[Len(Script)].id = "validate"
    BY <2>2, InstallIs
  <2>4. \A i \in 1..(Len(Script) - 1) : Script[i].id # "validate"
    BY <2>2, InstallIs, HelloIsStep
  <2> QED
    BY <2>2, <2>3, <2>4, InstallIs
<1>4. CASE tool = "info"
  <2>1. Script = <<Hello>> \o <<Cmd("info", 0)>>
    BY <1>4 DEF Script
  <2>2. IsStep(Cmd("info", 0))
    BY StepIs DEF RadioIds
  <2>3. Cmd("info", 0) \in RadioCommands
    BY <2>2 DEF IsStep
  <2> DEFINE s == <<Cmd("info", 0)>>
  <2>4. s \in Seq(RadioCommands) /\ Len(s) = 1 /\ \A i \in 1..Len(s) : IsStep(s[i])
    BY <2>2, <2>3
  <2> HIDE DEF s
  <2> QED
    BY <1>2, <1>4, <2>1, <2>4 DEF s
<1>5. CASE tool = "apps"
  <2>1. Script = <<Hello>> \o AskApps
    BY <1>5 DEF Script
  <2> QED
    BY <1>2, <1>5, <2>1, AskAppsIs
<1> QED
  BY <1>3, <1>4, <1>5 DEF RadioTools

-----------------------------------------------------------------------------
(* The slot tool and the page's question about the apps *)

RadioTokens == [id : Marks]
                 \cup [id : RadioIds, of : Nat, status : {0, 5, 6}, crc : BOOLEAN]

\* What is on the link, framed, and where in its script the program is.
RadioTypes ==
    /\ tool \in RadioTools
    /\ toDev \in Seq(RadioCommands)
    /\ wire \in Seq(RadioTokens) /\ buf \in Seq(RadioTokens)
    /\ Framed(Received)
    /\ cells \in [0..Chunks -> {"old", "blank", "new", "mixed"}]
    /\ premature \in Nat
    /\ ScriptInv

\* Commands and messages are no marks.
LEMMA RadioIdsNoMarks == RadioIds \cap Marks = {}
  BY DEF RadioIds, Marks

AnyToken == RadioTokens \cup RadioCommands

\* The positions of all that is in flight, before a step and after it.
LEMMA LinkIs ==
    ASSUME toDev \in Seq(AnyToken), wire \in Seq(AnyToken), buf \in Seq(AnyToken)
    PROVE  /\ Received \in Seq(AnyToken) /\ Pipe \in Seq(AnyToken)
           /\ Len(buf) \in Nat /\ Len(wire) \in Nat /\ Len(toDev) \in Nat
           /\ Len(Received) = Len(buf) + Len(wire)
           /\ Len(Pipe) = Len(Received) + Len(toDev)
           /\ \A i \in 1..Len(Received) :
                 Received[i] = IF i <= Len(buf) THEN buf[i] ELSE wire[i - Len(buf)]
           /\ \A i \in 1..Len(Pipe) :
                 Pipe[i] = IF i <= Len(Received) THEN Received[i] ELSE toDev[i - Len(Received)]
<1>1. PICK r : r = Received
  OBVIOUS
<1>2. r = buf \o wire
  BY <1>1 DEF Received
<1>3. /\ r \in Seq(AnyToken) /\ Len(r) = Len(buf) + Len(wire)
      /\ \A i \in 1..Len(r) : r[i] = IF i <= Len(buf) THEN buf[i] ELSE wire[i - Len(buf)]
  BY <1>2, ConcatIs
<1>4. PICK s \in Seq(AnyToken) : s = r
  BY <1>3
<1>5. PICK p : p = s \o toDev
  OBVIOUS
<1>6. Pipe = p
  BY <1>1, <1>4, <1>5 DEF Pipe
<1>7. /\ p \in Seq(AnyToken) /\ Len(p) = Len(s) + Len(toDev)
      /\ \A i \in 1..Len(p) : p[i] = IF i <= Len(s) THEN s[i] ELSE toDev[i - Len(s)]
  BY <1>5, ConcatIs
<1> QED
  BY <1>1, <1>3, <1>4, <1>6, <1>7

LEMMA LinkIsNext ==
    ASSUME toDev' \in Seq(AnyToken), wire' \in Seq(AnyToken), buf' \in Seq(AnyToken)
    PROVE  /\ Received' \in Seq(AnyToken) /\ Pipe' \in Seq(AnyToken)
           /\ Len(buf') \in Nat /\ Len(wire') \in Nat /\ Len(toDev') \in Nat
           /\ Len(Received') = Len(buf') + Len(wire')
           /\ Len(Pipe') = Len(Received') + Len(toDev')
           /\ \A i \in 1..Len(Received') :
                 Received'[i] = IF i <= Len(buf') THEN buf'[i] ELSE wire'[i - Len(buf')]
           /\ \A i \in 1..Len(Pipe') :
                 Pipe'[i] = IF i <= Len(Received') THEN Received'[i] ELSE toDev'[i - Len(Received')]
<1>1. PICK r : r = Received'
  OBVIOUS
<1>2. r = buf' \o wire'
  BY <1>1 DEF Received
<1>3. /\ r \in Seq(AnyToken) /\ Len(r) = Len(buf') + Len(wire')
      /\ \A i \in 1..Len(r) : r[i] = IF i <= Len(buf') THEN buf'[i] ELSE wire'[i - Len(buf')]
  BY <1>2, ConcatIs
<1>4. PICK s \in Seq(AnyToken) : s = r
  BY <1>3
<1>5. PICK p : p = s \o toDev'
  OBVIOUS
<1>6. Pipe' = p
  BY <1>1, <1>4, <1>5 DEF Pipe
<1>7. /\ p \in Seq(AnyToken) /\ Len(p) = Len(s) + Len(toDev')
      /\ \A i \in 1..Len(p) : p[i] = IF i <= Len(s) THEN s[i] ELSE toDev'[i - Len(s)]
  BY <1>5, ConcatIs
<1> QED
  BY <1>1, <1>3, <1>4, <1>6, <1>7

LEMMA LinkTypes ==
    /\ Seq(RadioTokens) \subseteq Seq(AnyToken)
    /\ Seq(RadioCommands) \subseteq Seq(AnyToken)
  BY DEF AnyToken

LEMMA MarkTokens ==
    /\ AB \in RadioTokens /\ CD \in RadioTokens /\ [id |-> "noise"] \in RadioTokens
    /\ AB.id = "AB" /\ CD.id = "CD" /\ Marks = {"AB", "CD", "noise"}
  BY DEF AB, CD, RadioTokens, Marks

\* recv and the reader.
LEMMA FeedStep ==
    ASSUME RadioTypes, feed
    PROVE  /\ wire' \in Seq(RadioTokens) /\ buf' \in Seq(RadioTokens) /\ toDev' = toDev
           /\ Received' = Received /\ Pipe' = Pipe
<1>1. wire # <<>> /\ buf' = Append(buf, Head(wire)) /\ wire' = Tail(wire) /\ toDev' = toDev
  BY DEF feed
<1>2. wire' \in Seq(RadioTokens) /\ buf' \in Seq(RadioTokens)
  BY <1>1 DEF RadioTypes
<1>3. Received' = Received
  BY <1>1, FeedIs DEF RadioTypes, Received
<1> QED
  BY <1>1, <1>2, <1>3 DEF Pipe

\* The device answers its oldest command.
LEMMA AnswerStep ==
    ASSUME RadioTypes, toDev # <<>>, NEW m \in RadioTokens, Same(m, Head(toDev)), Answer(m)
    PROVE  /\ wire' \in Seq(RadioTokens) /\ buf' = buf /\ toDev' \in Seq(RadioCommands)
           /\ Len(wire') = Len(wire) + 3
           /\ \A i \in 1..Len(wire) : wire'[i] = wire[i]
           /\ wire'[Len(wire) + 1] = AB /\ wire'[Len(wire) + 2] = CD /\ wire'[Len(wire) + 3] = m
           /\ Framed(Received') /\ Thins(Pipe', Pipe, 0)
<1>1. wire' = wire \o <<AB, CD, m>> /\ toDev' = Tail(toDev) /\ buf' = buf
  BY DEF Answer, build
<1>2. /\ wire' \in Seq(RadioTokens) /\ Len(wire') = Len(wire) + 3
      /\ \A i \in 1..Len(wire) : wire'[i] = wire[i]
      /\ wire'[Len(wire) + 1] = AB /\ wire'[Len(wire) + 2] = CD /\ wire'[Len(wire) + 3] = m
  BY <1>1, MarkTokens, FrameIs DEF RadioTypes
<1>3. /\ Head(toDev) \in RadioCommands /\ Head(toDev) = toDev[1] /\ toDev' \in Seq(RadioCommands)
      /\ Len(toDev) \in Nat \ {0} /\ Len(toDev') = Len(toDev) - 1
      /\ \A i \in 1..(Len(toDev) - 1) : toDev'[i] = toDev[i + 1]
  BY <1>1, TailIs DEF RadioTypes
<1>4. Head(toDev).id \notin Marks /\ m.id \notin Marks
  BY <1>3, RadioIdsNoMarks DEF RadioCommands, Same
<1> DEFINE k == Len(Received)
           n == Len(toDev)
           r == Received
           r2 == Received'
           p == Pipe
           q == Pipe'
<1>5. /\ r \in Seq(AnyToken) /\ p \in Seq(AnyToken)
      /\ Len(buf) \in Nat /\ Len(wire) \in Nat
      /\ k = Len(buf) + Len(wire) /\ Len(p) = k + n
      /\ \A i \in 1..k : r[i] = IF i <= Len(buf) THEN buf[i] ELSE wire[i - Len(buf)]
      /\ \A i \in 1..Len(p) : p[i] = IF i <= k THEN r[i] ELSE toDev[i - k]
  BY LinkTypes, LinkIs DEF RadioTypes
<1>6. /\ r2 \in Seq(AnyToken) /\ q \in Seq(AnyToken)
      /\ Len(r2) = Len(buf') + Len(wire') /\ Len(q) = Len(r2) + Len(toDev')
      /\ \A i \in 1..Len(r2) : r2[i] = IF i <= Len(buf') THEN buf'[i] ELSE wire'[i - Len(buf')]
      /\ \A i \in 1..Len(q) : q[i] = IF i <= Len(r2) THEN r2[i] ELSE toDev'[i - Len(r2)]
  BY <1>1, <1>2, <1>3, LinkTypes, LinkIsNext DEF RadioTypes
<1> HIDE DEF k, n, r, r2, p, q
<1>7. k \in Nat /\ n \in Nat \ {0} /\ Len(r2) = k + 3 /\ Len(q) = k + n + 2
  BY <1>1, <1>2, <1>3, <1>5, <1>6 DEF n
<1>8. ASSUME NEW i \in 1..k PROVE r2[i] = r[i]
  <2>1. i \in 1..Len(r2) /\ Len(buf') = Len(buf)
    BY <1>1, <1>7
  <2>2. CASE i <= Len(buf)
    BY <1>1, <1>5, <1>6, <2>1, <2>2
  <2>3. CASE ~(i <= Len(buf))
    <3>1. i - Len(buf) \in 1..Len(wire)
      BY <1>5, <1>7, <2>3
    <3>2. wire'[i - Len(buf)] = wire[i - Len(buf)]
      BY <1>2, <3>1
    <3> QED
      BY <1>1, <1>5, <1>6, <2>1, <2>3, <3>2
  <2> QED
    BY <2>2, <2>3
<1>9. r2[k + 1] = AB /\ r2[k + 2] = CD /\ r2[k + 3] = m
  <2>1. ASSUME NEW j \in 1..3 PROVE r2[k + j] = wire'[Len(wire) + j]
    <3>1. k + j \in 1..Len(r2) /\ ~(k + j <= Len(buf)) /\ (k + j) - Len(buf) = Len(wire) + j
      BY <1>5, <1>7
    <3> QED
      BY <1>1, <1>6, <3>1
  <2>2. 1 \in 1..3 /\ 2 \in 1..3 /\ 3 \in 1..3
    OBVIOUS
  <2> QED
    BY <1>2, <2>1, <2>2
<1>10. Framed(r2)
  <2> SUFFICES ASSUME NEW i \in 1..Len(r2)
               PROVE  /\ r2[i].id = "AB" => i < Len(r2) /\ r2[i + 1].id = "CD"
                      /\ r2[i].id = "CD" => i < Len(r2) /\ r2[i + 1].id \notin Marks
    BY DEF Framed
  <2>1. CASE i <= k
    <3>1. /\ r[i].id = "AB" => i < k /\ r[i + 1].id = "CD"
          /\ r[i].id = "CD" => i < k /\ r[i + 1].id \notin Marks
      BY <1>7, <2>1 DEF RadioTypes, Framed, r, k
    <3> QED
      BY <1>7, <1>8, <2>1, <3>1
  <2>2. CASE i = k + 1
    BY <1>7, <1>9, <2>2, MarkTokens
  <2>3. CASE i = k + 2
    BY <1>4, <1>7, <1>9, <2>3, MarkTokens
  <2>4. CASE i = k + 3
    BY <1>4, <1>7, <1>9, <2>4, MarkTokens
  <2> QED
    BY <1>7, <2>1, <2>2, <2>3, <2>4
<1>11. Thins(q, p, 0)
  <2>1. ASSUME NEW i \in 1..k PROVE q[i] = p[i]
    <3>1. i \in 1..Len(q) /\ i \in 1..Len(p) /\ i <= k /\ i <= Len(r2)
      BY <1>5, <1>7
    <3> QED
      BY <1>5, <1>6, <1>8, <3>1
  <2>2. q[k + 1] = AB /\ q[k + 2] = CD /\ q[k + 3] = m
    BY <1>6, <1>7, <1>9
  <2>3. p[k + 1] = Head(toDev)
    <3>1. k + 1 \in 1..Len(p) /\ ~(k + 1 <= k) /\ (k + 1) - k = 1
      BY <1>5, <1>7
    <3> QED
      BY <1>3, <1>5, <3>1
  <2>4. ASSUME NEW i \in 1..(n - 1) PROVE q[k + 3 + i] = p[k + i + 1]
    <3>1. q[k + 3 + i] = toDev'[i]
      BY <1>6, <1>7
    <3>2. p[k + i + 1] = toDev[i + 1]
      BY <1>5, <1>7
    <3> QED
      BY <1>3, <3>1, <3>2 DEF n
  <2>5. /\ q[k + 1].id \in Marks /\ q[k + 2].id \in Marks
        /\ p[k + 1].id \notin Marks /\ Same(q[k + 3], p[k + 1])
    BY <1>4, <2>2, <2>3, MarkTokens
  <2> QED
    BY <1>5, <1>6, <1>7, <2>1, <2>4, <2>5, AnswerThins
<1> QED
  BY <1>1, <1>2, <1>3, <1>10, <1>11 DEF r2, p, q

\* Or it drops it.
LEMMA DropStep ==
    ASSUME RadioTypes, toDev # <<>>, Drop
    PROVE  /\ wire' = wire /\ buf' = buf /\ toDev' \in Seq(RadioCommands)
           /\ Received' = Received /\ Thins(Pipe', Pipe, 0)
<1>1. wire' = wire /\ buf' = buf /\ toDev' = Tail(toDev) /\ Received' = Received
  BY DEF Drop, Received
<1>2. /\ toDev' \in Seq(RadioCommands)
      /\ Len(toDev) \in Nat \ {0} /\ Len(toDev') = Len(toDev) - 1
      /\ \A i \in 1..(Len(toDev) - 1) : toDev'[i] = toDev[i + 1]
  BY <1>1, TailIs DEF RadioTypes
<1> DEFINE k == Len(Received)
           n == Len(toDev)
           r == Received
           p == Pipe
           q == Pipe'
<1>3. /\ p \in Seq(AnyToken) /\ k \in Nat /\ Len(p) = k + n
      /\ \A i \in 1..Len(p) : p[i] = IF i <= k THEN r[i] ELSE toDev[i - k]
  BY LinkTypes, LinkIs DEF RadioTypes
<1>4. /\ q \in Seq(AnyToken) /\ Len(q) = k + Len(toDev')
      /\ \A i \in 1..Len(q) : q[i] = IF i <= k THEN r[i] ELSE toDev'[i - k]
  BY <1>1, <1>2, LinkTypes, LinkIsNext DEF RadioTypes
<1> HIDE DEF k, n, r, p, q
<1>5. n \in Nat \ {0} /\ Len(q) = k + n - 1
  BY <1>2, <1>3, <1>4 DEF n
<1>6. \A i \in 1..k : q[i] = p[i]
  BY <1>3, <1>4, <1>5
<1>7. ASSUME NEW i \in 1..(n - 1) PROVE q[k + i] = p[k + i + 1]
  <2>1. q[k + i] = toDev'[i]
    BY <1>3, <1>4, <1>5
  <2>2. p[k + i + 1] = toDev[i + 1]
    BY <1>3, <1>5
  <2> QED
    BY <1>2, <2>1, <2>2 DEF n
<1>8. Thins(q, p, 0)
  BY <1>3, <1>4, <1>5, <1>6, <1>7, DropThins
<1> QED
  BY <1>1, <1>2, <1>8 DEF p, q

\* The firmware streams its screen.
LEMMA StreamStep ==
    ASSUME RadioTypes, Stream
    PROVE  /\ wire' \in Seq(RadioTokens) /\ buf' = buf /\ toDev' = toDev
           /\ Len(wire') = Len(wire) + 1
           /\ \A i \in 1..Len(wire) : wire'[i] = wire[i]
           /\ wire'[Len(wire) + 1].id = "noise"
           /\ Framed(Received') /\ Thins(Pipe', Pipe, 0)
<1>1. wire' = Append(wire, [id |-> "noise"]) /\ toDev' = toDev /\ buf' = buf
  BY DEF Stream
<1>2. /\ wire' \in Seq(RadioTokens) /\ Len(wire') = Len(wire) + 1
      /\ \A i \in 1..Len(wire) : wire'[i] = wire[i]
      /\ wire'[Len(wire) + 1].id = "noise"
  BY <1>1, MarkTokens DEF RadioTypes
<1> DEFINE k == Len(Received)
           n == Len(toDev)
           r == Received
           r2 == Received'
           p == Pipe
           q == Pipe'
<1>5. /\ r \in Seq(AnyToken) /\ p \in Seq(AnyToken)
      /\ Len(buf) \in Nat /\ Len(wire) \in Nat /\ n \in Nat
      /\ k = Len(buf) + Len(wire) /\ Len(p) = k + n
      /\ \A i \in 1..k : r[i] = IF i <= Len(buf) THEN buf[i] ELSE wire[i - Len(buf)]
      /\ \A i \in 1..Len(p) : p[i] = IF i <= k THEN r[i] ELSE toDev[i - k]
  BY LinkTypes, LinkIs DEF RadioTypes
<1>6. /\ r2 \in Seq(AnyToken) /\ q \in Seq(AnyToken)
      /\ Len(r2) = Len(buf') + Len(wire') /\ Len(q) = Len(r2) + Len(toDev')
      /\ \A i \in 1..Len(r2) : r2[i] = IF i <= Len(buf') THEN buf'[i] ELSE wire'[i - Len(buf')]
      /\ \A i \in 1..Len(q) : q[i] = IF i <= Len(r2) THEN r2[i] ELSE toDev'[i - Len(r2)]
  BY <1>1, <1>2, LinkTypes, LinkIsNext DEF RadioTypes
<1> HIDE DEF k, n, r, r2, p, q
<1>7. k \in Nat /\ Len(r2) = k + 1 /\ Len(q) = k + n + 1
  BY <1>1, <1>2, <1>5, <1>6 DEF n
<1>8. ASSUME NEW i \in 1..k PROVE r2[i] = r[i]
  <2>1. i \in 1..Len(r2) /\ Len(buf') = Len(buf)
    BY <1>1, <1>7
  <2>2. CASE i <= Len(buf)
    BY <1>1, <1>5, <1>6, <2>1, <2>2
  <2>3. CASE ~(i <= Len(buf))
    <3>1. i - Len(buf) \in 1..Len(wire)
      BY <1>5, <1>7, <2>3
    <3>2. wire'[i - Len(buf)] = wire[i - Len(buf)]
      BY <1>2, <3>1
    <3> QED
      BY <1>1, <1>5, <1>6, <2>1, <2>3, <3>2
  <2> QED
    BY <2>2, <2>3
<1>9. r2[k + 1].id = "noise"
  <2>1. k + 1 \in 1..Len(r2) /\ ~(k + 1 <= Len(buf)) /\ (k + 1) - Len(buf) = Len(wire) + 1
    BY <1>5, <1>7
  <2> QED
    BY <1>1, <1>2, <1>6, <2>1
<1>10. Framed(r2)
  <2> SUFFICES ASSUME NEW i \in 1..Len(r2)
               PROVE  /\ r2[i].id = "AB" => i < Len(r2) /\ r2[i + 1].id = "CD"
                      /\ r2[i].id = "CD" => i < Len(r2) /\ r2[i + 1].id \notin Marks
    BY DEF Framed
  <2>1. CASE i <= k
    <3>1. /\ r[i].id = "AB" => i < k /\ r[i + 1].id = "CD"
          /\ r[i].id = "CD" => i < k /\ r[i + 1].id \notin Marks
      BY <1>7, <2>1 DEF RadioTypes, Framed, r, k
    <3> QED
      BY <1>7, <1>8, <2>1, <3>1
  <2>2. CASE i = k + 1
    BY <1>9, <2>2
  <2> QED
    BY <1>7, <2>1, <2>2
<1>11. Thins(q, p, 0)
  <2>1. ASSUME NEW i \in 1..k PROVE q[i] = p[i]
    <3>1. i \in 1..Len(q) /\ i \in 1..Len(p) /\ i <= k /\ i <= Len(r2)
      BY <1>5, <1>7
    <3> QED
      BY <1>5, <1>6, <1>8, <3>1
  <2>2. q[k + 1].id \in Marks
    BY <1>6, <1>7, <1>9, MarkTokens
  <2>3. ASSUME NEW i \in 1..n PROVE q[k + i + 1] = p[k + i]
    <3>1. q[k + i + 1] = toDev[i]
      <4>1. k + i + 1 \in 1..Len(q) /\ ~(k + i + 1 <= Len(r2)) /\ (k + i + 1) - Len(r2) = i
        BY <1>5, <1>7
      <4> QED
        BY <1>1, <1>6, <4>1
    <3>2. p[k + i] = toDev[i]
      BY <1>5, <1>7
    <3> QED
      BY <3>1, <3>2
  <2> QED
    BY <1>5, <1>6, <1>7, <2>1, <2>2, <2>3, StreamThins
<1> QED
  BY <1>1, <1>2, <1>10, <1>11 DEF r2, p, q

\* The reader forgets what it has looked at, up to the last message it took.
LEMMA ForgetStep ==
    ASSUME RadioTypes, buf' = Left(buf), UNCHANGED <<toDev, wire>>
    PROVE  /\ buf' \in Seq(RadioTokens) /\ Framed(Received')
           /\ \A i \in 1..Len(buf') : \E j \in 1..Len(buf) : buf'[i] = buf[j]
           /\ \E n \in 0..Len(buf) :
                 Thins(Pipe', Pipe, n) /\ \A i \in Taken(buf) : i <= n
<1>1. /\ toDev \in Seq(AnyToken) /\ wire \in Seq(AnyToken) /\ buf \in Seq(AnyToken)
      /\ buf \in Seq(RadioTokens)
  BY LinkTypes DEF RadioTypes
<1> DEFINE r == Received
           r2 == Received'
           p == Pipe
           q == Pipe'
<1>2. /\ r \in Seq(AnyToken) /\ p \in Seq(AnyToken)
      /\ Len(buf) \in Nat /\ Len(wire) \in Nat /\ Len(toDev) \in Nat
      /\ Len(r) = Len(buf) + Len(wire) /\ Len(p) = Len(r) + Len(toDev)
      /\ \A i \in 1..Len(r) : r[i] = IF i <= Len(buf) THEN buf[i] ELSE wire[i - Len(buf)]
      /\ \A i \in 1..Len(p) : p[i] = IF i <= Len(r) THEN r[i] ELSE toDev[i - Len(r)]
  BY <1>1, LinkIs
<1>3. PICK n \in 0..Len(buf) :
         /\ buf' = SubSeq(buf, n + 1, Len(buf))
         /\ FramedSoFar(buf) => \A i \in Taken(buf) : i <= n
  BY <1>1, LeftIs
<1>4. /\ buf' \in Seq(RadioTokens) /\ Len(buf') = Len(buf) - n
      /\ \A i \in 1..(Len(buf) - n) : buf'[i] = buf[n + i]
  BY <1>1, <1>3, RestIsSuffix
<1>5. /\ r2 \in Seq(AnyToken) /\ q \in Seq(AnyToken)
      /\ Len(r2) = Len(buf') + Len(wire) /\ Len(q) = Len(r2) + Len(toDev)
      /\ \A i \in 1..Len(r2) : r2[i] = IF i <= Len(buf') THEN buf'[i] ELSE wire[i - Len(buf')]
      /\ \A i \in 1..Len(q) : q[i] = IF i <= Len(r2) THEN r2[i] ELSE toDev[i - Len(r2)]
  <2>1. toDev' \in Seq(AnyToken) /\ wire' \in Seq(AnyToken) /\ buf' \in Seq(AnyToken)
    BY <1>1, <1>4, LinkTypes
  <2> QED
    BY <2>1, LinkIsNext
<1>6. Framed(r)
  BY DEF RadioTypes
<1> HIDE DEF r, r2, p, q
<1>7. FramedSoFar(buf)
  <2> SUFFICES ASSUME NEW i \in 1..Len(buf), i < Len(buf)
               PROVE  /\ buf[i].id = "AB" => buf[i + 1].id = "CD"
                      /\ buf[i].id = "CD" => buf[i + 1].id \notin Marks
    BY DEF FramedSoFar
  <2>1. i \in 1..Len(r) /\ i + 1 \in 1..Len(r) /\ i <= Len(buf) /\ i + 1 <= Len(buf)
    BY <1>2
  <2>2. r[i] = buf[i] /\ r[i + 1] = buf[i + 1]
    BY <1>2, <2>1
  <2> QED
    BY <1>6, <2>1, <2>2 DEF Framed
<1>8. n \in Nat /\ Len(r2) = Len(r) - n /\ Len(q) = Len(p) - n
  BY <1>2, <1>4, <1>5
<1>9. ASSUME NEW i \in 1..(Len(r) - n) PROVE r2[i] = r[n + i]
  <2>0. i \in 1..Len(r2) /\ n + i \in 1..Len(r)
    BY <1>2, <1>8
  <2>1. CASE i <= Len(buf')
    <3>1. i \in 1..(Len(buf) - n) /\ n + i <= Len(buf)
      BY <1>2, <1>4, <1>8, <2>1
    <3> QED
      BY <1>2, <1>4, <1>5, <2>0, <2>1, <3>1
  <2>2. CASE ~(i <= Len(buf'))
    <3>1. ~(n + i <= Len(buf)) /\ i - Len(buf') = (n + i) - Len(buf)
      BY <1>2, <1>4, <1>8, <2>2
    <3> QED
      BY <1>2, <1>5, <2>0, <2>2, <3>1
  <2> QED
    BY <2>1, <2>2
<1>10. Framed(r2)
  <2> SUFFICES ASSUME NEW i \in 1..Len(r2)
               PROVE  /\ r2[i].id = "AB" => i < Len(r2) /\ r2[i + 1].id = "CD"
                      /\ r2[i].id = "CD" => i < Len(r2) /\ r2[i + 1].id \notin Marks
    BY DEF Framed
  <2>1. n + i \in 1..Len(r) /\ r2[i] = r[n + i]
    BY <1>2, <1>8, <1>9
  <2>2. /\ r[n + i].id = "AB" => n + i < Len(r) /\ r[n + i + 1].id = "CD"
        /\ r[n + i].id = "CD" => n + i < Len(r) /\ r[n + i + 1].id \notin Marks
    BY <1>6, <2>1 DEF Framed
  <2>3. n + i < Len(r) => i < Len(r2) /\ r2[i + 1] = r[n + i + 1]
    BY <1>2, <1>8, <1>9
  <2> QED
    BY <2>1, <2>2, <2>3
<1>11. ASSUME NEW i \in 1..(Len(p) - n) PROVE q[i] = p[n + i]
  <2>0. i \in 1..Len(q) /\ n + i \in 1..Len(p)
    BY <1>2, <1>8
  <2>1. CASE i <= Len(r2)
    <3>1. i \in 1..(Len(r) - n) /\ n + i <= Len(r)
      BY <1>2, <1>8, <2>1
    <3> QED
      BY <1>2, <1>5, <1>9, <2>0, <2>1, <3>1
  <2>2. CASE ~(i <= Len(r2))
    <3>1. ~(n + i <= Len(r)) /\ i - Len(r2) = (n + i) - Len(r)
      BY <1>2, <1>8, <2>2
    <3> QED
      BY <1>2, <1>5, <2>0, <2>2, <3>1
  <2> QED
    BY <2>1, <2>2
<1>12. Thins(q, p, n)
  BY <1>2, <1>5, <1>8, <1>11, ForgetThins
<1>13. \A i \in 1..Len(buf') : \E j \in 1..Len(buf) : buf'[i] = buf[j]
  <2> SUFFICES ASSUME NEW i \in 1..Len(buf') PROVE \E j \in 1..Len(buf) : buf'[i] = buf[j]
    OBVIOUS
  <2>1. Len(buf') = Len(buf) - n /\ Len(buf) \in Nat /\ n \in Nat
    BY <1>2, <1>4, <1>8
  <2>2. i \in 1..(Len(buf) - n) /\ n + i \in 1..Len(buf)
    BY <2>1
  <2>3. buf'[i] = buf[n + i]
    BY <1>4, <2>2
  <2> QED
    BY <2>2, <2>3
<1> QED
  BY <1>3, <1>4, <1>7, <1>10, <1>12, <1>13 DEF r2, p, q

\* A program sends a command.
LEMMA SendStep ==
    ASSUME RadioTypes, NEW m \in RadioCommands, Send(m), UNCHANGED <<wire, buf>>
    PROVE  /\ toDev' \in Seq(RadioCommands) /\ Received' = Received
           /\ Len(Pipe) \in Nat /\ Len(Pipe') = Len(Pipe) + 1
           /\ \A i \in 1..Len(Pipe) : Pipe'[i] = Pipe[i]
           /\ Pipe'[Len(Pipe) + 1] = m
<1>1. toDev' = Append(toDev, m) /\ Received' = Received
  BY DEF Send, Received
<1>2. /\ toDev' \in Seq(RadioCommands) /\ Len(toDev') = Len(toDev) + 1
      /\ \A i \in 1..Len(toDev) : toDev'[i] = toDev[i]
      /\ toDev'[Len(toDev) + 1] = m
  BY <1>1 DEF RadioTypes
<1> DEFINE k == Len(Received)
           r == Received
           p == Pipe
           q == Pipe'
<1>3. /\ p \in Seq(AnyToken) /\ k \in Nat /\ Len(toDev) \in Nat /\ Len(p) = k + Len(toDev)
      /\ \A i \in 1..Len(p) : p[i] = IF i <= k THEN r[i] ELSE toDev[i - k]
  BY LinkTypes, LinkIs DEF RadioTypes
<1>4. /\ q \in Seq(AnyToken) /\ Len(q) = k + Len(toDev')
      /\ \A i \in 1..Len(q) : q[i] = IF i <= k THEN r[i] ELSE toDev'[i - k]
  BY <1>1, <1>2, LinkTypes, LinkIsNext DEF RadioTypes
<1> HIDE DEF k, r, p, q
<1>5. Len(p) \in Nat /\ Len(q) = Len(p) + 1
  BY <1>2, <1>3, <1>4
<1>6. ASSUME NEW i \in 1..Len(p) PROVE q[i] = p[i]
  <2>1. i \in 1..Len(q)
    BY <1>5
  <2>2. CASE i <= k
    BY <1>3, <1>4, <2>1, <2>2
  <2>3. CASE ~(i <= k)
    <3>1. i - k \in 1..Len(toDev)
      BY <1>3, <2>3
    <3> QED
      BY <1>2, <1>3, <1>4, <2>1, <2>3, <3>1
  <2> QED
    BY <2>2, <2>3
<1>7. q[Len(p) + 1] = m
  BY <1>2, <1>3, <1>4, <1>5
<1> QED
  BY <1>1, <1>2, <1>5, <1>6, <1>7 DEF p, q

-----------------------------------------------------------------------------
(* The types are kept *)

LEMMA SameThins == ASSUME NEW p PROVE Thins(p, p, 0)
<1>1. \A i \in Items(p) : i \in Nat /\ 0 < i /\ i + 0 = i
  BY DEF Items
<1>2. Shifted(p, p, 0, 0, 0)
  BY <1>1 DEF Shifted, Same
<1> QED
  BY <1>2, ShiftThins

LEMMA RepliedIs ==
    ASSUME NEW c \in RadioCommands, NEW s \in {0, 5, 6}, NEW x \in BOOLEAN
    PROVE  /\ Replied(c, s, x) \in RadioTokens /\ Same(Replied(c, s, x), c)
           /\ Replied(c, s, x).id = c.id /\ Replied(c, s, x).status = s
           /\ Replied(c, s, x).crc = x
  BY DEF Replied, RadioTokens, RadioCommands, Same

\* The verdict the firmware gives on a command.
Verdict(c) == IF c.id = "validate" /\ Image \cup {cells[0]} \notin {{"new"}, {"old"}} THEN 5 ELSE 0

\* Whatever the firmware does, nothing new is in flight after it.
LinkKept ==
    /\ toDev' \in Seq(RadioCommands)
    /\ wire' \in Seq(RadioTokens) /\ buf' \in Seq(RadioTokens)
    /\ Framed(Received')
    /\ Thins(Pipe', Pipe, 0)

LEMMA HeadIs ==
    ASSUME RadioTypes, toDev # <<>>
    PROVE  Head(toDev) \in RadioCommands
  BY TailIs DEF RadioTypes

LEMMA ExecutesStep ==
    ASSUME RadioTypes, SlotExecutes
    PROVE  LinkKept /\ Answer(Replied(Head(toDev), Verdict(Head(toDev)), Image = {"new"}))
<1> DEFINE m == Replied(Head(toDev), Verdict(Head(toDev)), Image = {"new"})
<1>1. toDev # <<>> /\ Answer(m)
  BY DEF SlotExecutes, Verdict
<1>2. Verdict(Head(toDev)) \in {0, 5, 6}
  BY DEF Verdict
<1>3. (Image = {"new"}) \in BOOLEAN
  OBVIOUS
<1>4. m \in RadioTokens /\ Same(m, Head(toDev))
  BY <1>1, <1>2, <1>3, HeadIs, RepliedIs
<1> HIDE DEF m
<1>5. LinkKept
  BY <1>1, <1>4, AnswerStep DEF LinkKept, RadioTypes
<1> QED
  BY <1>1, <1>5 DEF m

LEMMA RefusesStep ==
    ASSUME RadioTypes, toDev # <<>>, Answer(Replied(Head(toDev), 6, FALSE))
    PROVE  LinkKept
<1> DEFINE m == Replied(Head(toDev), 6, FALSE)
<1>1. m \in RadioTokens /\ Same(m, Head(toDev)) /\ Answer(m)
  BY HeadIs, RepliedIs
<1> HIDE DEF m
<1> QED
  BY <1>1, AnswerStep DEF LinkKept, RadioTypes

LEMMA DropKept == ASSUME RadioTypes, toDev # <<>>, Drop PROVE LinkKept
  BY DropStep DEF LinkKept, RadioTypes

LEMMA LinkSame == ASSUME RadioTypes, UNCHANGED <<toDev, wire, buf>> PROVE LinkKept
<1>1. Received' = Received /\ Pipe' = Pipe
  BY DEF Received, Pipe
<1> QED
  BY <1>1, SameThins DEF LinkKept, RadioTypes

LEMMA FaultsStep == ASSUME RadioTypes, SlotFaults PROVE LinkKept
<1>1. toDev # <<>>
  BY DEF SlotFaults
<1>2. CASE Drop
  BY <1>1, <1>2, DropKept
<1>3. CASE UNCHANGED linkVars
  BY <1>3, LinkSame DEF linkVars
<1>4. CASE Answer(Replied(Head(toDev), 6, FALSE))
  BY <1>1, <1>4, RefusesStep
<1> QED
  BY <1>2, <1>3, <1>4 DEF SlotFaults

LEMMA DeviceStep ==
    ASSUME RadioTypes, SlotExecutes \/ SlotDeaf \/ SlotFaults \/ ScreenStreams
    PROVE  LinkKept
<1>1. CASE SlotDeaf
  BY <1>1, DropKept DEF SlotDeaf
<1>2. CASE ScreenStreams
  BY <1>2, StreamStep DEF ScreenStreams, LinkKept, RadioTypes
<1> QED
  BY <1>1, <1>2, ExecutesStep, FaultsStep

LEMMA CommandIs ==
    ASSUME RadioTypes, Running
    PROVE  IsStep(Command) /\ IsStep(Wanted) /\ Wanted \in RadioCommands
<1>1. rstep \in 1..Len(Script)
  BY ScriptIs DEF RadioTypes, ScriptInv
<1>2. IsStep(Command)
  BY <1>1, ScriptIs DEF RadioTypes, Command
<1> QED
  BY <1>2, HelloIsStep DEF Wanted, IsStep

\* The end of a step of the script.
LEMMA AdvanceStep ==
    ASSUME RadioTypes, rstate = "wait", Advance, tool' = tool
    PROVE  ScriptInv' /\ (rstate' = "send" \/ rstate' = "ok")
           /\ (rstate' = "ok" => rstep = Len(Script))
<1>1. Script' = Script
  BY DEF Script
<1>2. rstep \in Nat \ {0} /\ rstep <= Len(Script) /\ Len(Script) \in Nat
  BY ScriptIs DEF RadioTypes, ScriptInv, Running
<1>3. /\ rstep' = rstep + 1
      /\ rstate' = IF rstep = Len(Script) THEN "ok" ELSE "send"
      /\ talking' = IF rstep < Len(Script) /\ Script[rstep + 1] = Hello
                    THEN "session" ELSE "command"
  BY DEF Advance
<1>4. Command' = Script[rstep + 1] /\ Hello' = Hello
  BY <1>1, <1>3 DEF Command, Hello, Cmd
<1>5. CASE rstep = Len(Script)
  BY <1>2, <1>3, <1>5 DEF ScriptInv, Running
<1>6. CASE rstep < Len(Script)
  BY <1>1, <1>2, <1>3, <1>4, <1>6 DEF ScriptInv, Running
<1> QED
  BY <1>2, <1>5, <1>6, <1>3

\* The link and the script keep their shape.
LEMMA NextRadioTypes == RadioTypes /\ RadioNext /\ tool' = tool => RadioTypes'
<1> SUFFICES ASSUME RadioTypes, RadioNext, tool' = tool PROVE RadioTypes'
  OBVIOUS
<1>1. Script' = Script /\ Hello' = Hello
  BY DEF Script, Hello, Cmd
<1>2. rstep' = rstep => Command' = Command
  BY <1>1 DEF Command
<1>3. ASSUME LinkKept \/ (toDev' \in Seq(RadioCommands) /\ wire' \in Seq(RadioTokens)
                          /\ buf' \in Seq(RadioTokens) /\ Framed(Received')),
             cells' \in [0..Chunks -> {"old", "blank", "new", "mixed"}],
             premature' \in Nat, ScriptInv'
      PROVE  RadioTypes'
  BY <1>3 DEF RadioTypes, LinkKept
<1>4. UNCHANGED radioVars => ScriptInv' /\ premature' \in Nat
  BY <1>1, <1>2 DEF radioVars, ScriptInv, Running, RadioTypes
<1>5. UNCHANGED slotVars => cells' \in [0..Chunks -> {"old", "blank", "new", "mixed"}]
  BY DEF slotVars, RadioTypes
<1>6. CASE RadioSend
  <2>1. rstate = "send" /\ Running
    BY <1>6 DEF RadioSend, Running
  <2>2. toDev' \in Seq(RadioCommands) /\ Received' = Received
    BY <1>6, <2>1, CommandIs, SendStep DEF RadioSend
  <2>3. ScriptInv'
    BY <1>1, <1>2, <1>6, <2>1 DEF RadioSend, ScriptInv, Running, RadioTypes
  <2> QED
    BY <1>3, <1>5, <1>6, <2>2, <2>3 DEF RadioSend, RadioTypes
<1>7. CASE ReadLoop
  BY <1>3, <1>4, <1>5, <1>7, FeedStep DEF ReadLoop, RadioTypes
<1>8. CASE PumpLooks
  BY <1>3, <1>4, <1>5, <1>8, ForgetStep DEF PumpLooks, RadioTypes
<1>9. CASE SessionUp
  <2>1. ScriptInv'
    <3>1. CASE Command = Hello
      BY <1>9, <3>1, AdvanceStep DEF SessionUp
    <3>2. CASE Command # Hello
      BY <1>1, <1>2, <1>9, <3>2 DEF SessionUp, ScriptInv, Running, RadioTypes
    <3> QED
      BY <3>1, <3>2
  <2> QED
    BY <1>3, <1>5, <1>9, <2>1, ForgetStep DEF SessionUp, RadioTypes
<1>10. CASE CommandAnswered
  <2>1. ScriptInv'
    <3>1. CASE Advance
      BY <1>10, <3>1, AdvanceStep DEF CommandAnswered
    <3>2. CASE rstate' = "failed" /\ UNCHANGED <<rstep, talking, attempt, handshakes>>
      BY <3>2 DEF ScriptInv, Running, RadioTypes
    <3> QED
      BY <1>10, <3>1, <3>2 DEF CommandAnswered
  <2> QED
    BY <1>3, <1>5, <1>10, <2>1, ForgetStep DEF CommandAnswered, RadioTypes
<1>11. CASE Retry \/ GiveUp \/ HandshakeAgain \/ NoSession
  <2>1. WaitEnds
    BY <1>11 DEF Retry, GiveUp, HandshakeAgain, NoSession
  <2>2. LinkKept /\ premature' \in Nat /\ rstep' = rstep /\ UNCHANGED slotVars /\ Running
    BY <2>1, LinkSame DEF WaitEnds, linkVars, RadioTypes, Running
  <2>3. ScriptInv'
    <3>1. CASE Retry
      BY <1>1, <1>2, <2>2, <3>1 DEF Retry, ScriptInv, Running, RadioTypes
    <3>2. CASE GiveUp
      BY <1>1, <1>2, <2>2, <3>2 DEF GiveUp, ScriptInv, Running, RadioTypes
    <3>3. CASE HandshakeAgain
      BY <1>1, <1>2, <2>2, <3>3 DEF HandshakeAgain, ScriptInv, Running, RadioTypes
    <3>4. CASE NoSession
      BY <1>1, <1>2, <2>2, <3>4 DEF NoSession, ScriptInv, Running, RadioTypes
    <3> QED
      BY <1>11, <3>1, <3>2, <3>3, <3>4
  <2> QED
    BY <1>3, <1>5, <2>2, <2>3
<1>12. CASE SlotExecutes
  <2>1. cells' \in [0..Chunks -> {"old", "blank", "new", "mixed"}]
    BY <1>12 DEF SlotExecutes, RadioTypes
  <2> QED
    BY <1>3, <1>4, <1>12, <2>1, DeviceStep DEF SlotExecutes
<1>13. CASE SlotDeaf \/ SlotFaults \/ ScreenStreams
  <2>1. UNCHANGED radioVars /\ cells' = cells
    BY <1>13 DEF SlotDeaf, SlotFaults, ScreenStreams, slotVars
  <2> QED
    BY <1>3, <1>4, <1>13, <2>1, DeviceStep DEF RadioTypes
<1> QED
  BY <1>6, <1>7, <1>8, <1>9, <1>10, <1>11, <1>12, <1>13 DEF RadioNext

-----------------------------------------------------------------------------
(* Answers and commands *)

\* Whose answers are in flight while at most one wait has ended too early: of
\* commands other than handshakes only the current one's, once; before a command
\* is sent none; and during a handshake it can only be the late one, with the
\* handshake's own answer behind it.
Own(p) ==
    /\ \A i \in Others(p) : Same(p[i], Command)
    /\ \A i, j \in Others(p) : i = j
    /\ rstate = "send" /\ talking = "command" => Others(p) = {}
    /\ Running /\ talking = "session" =>
          \A i \in Others(p) :
             /\ premature = 1
             /\ rstate = "send" => Hellos(p) = {}
             /\ \A j, k \in Hellos(p) : j = k /\ i < j
    /\ premature = 0 =>
          /\ rstate = "send" => Items(p) = {}
          /\ rstate = "wait" => \A i, j \in Items(p) : i = j

OwnAnswers == Own(Pipe) /\ ~misread

\* The inductive invariant.
AnswersInv == RadioTypes /\ (premature < 2 => OwnAnswers)

LEMMA OthersAre ==
    ASSUME NEW p
    PROVE  /\ Others(p) = {i \in Items(p) : p[i].id # "hello"}
           /\ Hellos(p) = {i \in Items(p) : p[i].id = "hello"}
           /\ \A i \in Items(p) : i \in Nat
  BY DEF Others, Hellos, Items

\* Fewer in the same order is as good.
LEMMA OwnThins ==
    ASSUME NEW p, NEW q, NEW n \in Nat, Thins(q, p, n), Own(p)
    PROVE  Own(q)
<1>1. PICK f \in [1..Len(q) -> Int] :
         /\ \A i \in Items(q) : f[i] \in Items(p) /\ n < f[i] /\ Same(q[i], p[f[i]])
         /\ \A i, j \in Items(q) : i < j => f[i] < f[j]
  BY DEF Thins
<1>2. \A i, j \in Items(q) : f[i] = f[j] => i = j
  <2>1. \A i \in Items(q) : i \in Nat /\ f[i] \in Nat
    BY <1>1, OthersAre
  <2> QED
    BY <1>1, <2>1
<1>3. /\ \A i \in Others(q) : f[i] \in Others(p) /\ Same(q[i], p[f[i]])
      /\ \A i \in Hellos(q) : f[i] \in Hellos(p)
  BY <1>1, OthersAre DEF Same
<1>4. /\ \A i \in Others(q) : i \in Items(q) /\ i \in Nat /\ f[i] \in Nat
      /\ \A i \in Hellos(q) : i \in Items(q) /\ i \in Nat /\ f[i] \in Nat
  BY <1>1, OthersAre
<1>5. \A i \in Others(q) : Same(q[i], Command)
  BY <1>3 DEF Own, Same
<1>6. \A i, j \in Others(q) : i = j
  BY <1>2, <1>3, <1>4 DEF Own
<1>7. rstate = "send" /\ talking = "command" => Others(q) = {}
  BY <1>3 DEF Own
<1>8. ASSUME Running, talking = "session", NEW i \in Others(q)
      PROVE  /\ premature = 1
             /\ rstate = "send" => Hellos(q) = {}
             /\ \A j, k \in Hellos(q) : j = k /\ i < j
  <2>1. /\ premature = 1
        /\ rstate = "send" => Hellos(p) = {}
        /\ \A j, k \in Hellos(p) : j = k /\ f[i] < j
    BY <1>3, <1>8 DEF Own
  <2>2. ASSUME NEW j \in Hellos(q), NEW k \in Hellos(q) PROVE j = k /\ i < j
    <3>1. f[j] = f[k] /\ f[i] < f[j]
      BY <1>3, <2>1
    <3>2. j = k
      BY <1>2, <1>4, <3>1
    <3>3. ~(j < i) /\ i # j
      BY <1>1, <1>4, <3>1
    <3> QED
      BY <1>4, <3>2, <3>3
  <2> QED
    BY <1>3, <2>1, <2>2
<1>9. premature = 0 => /\ rstate = "send" => Items(q) = {}
                       /\ rstate = "wait" => \A i, j \in Items(q) : i = j
  BY <1>1, <1>2 DEF Own
<1> QED
  BY <1>5, <1>6, <1>7, <1>8, <1>9 DEF Own

\* A step that only takes from what is in flight.
LEMMA OwnKept ==
    ASSUME OwnAnswers, NEW n \in Nat, Thins(Pipe', Pipe, n), UNCHANGED <<tool, radioVars>>
    PROVE  OwnAnswers'
<1>1. Own(Pipe')
  BY OwnThins DEF OwnAnswers
<1>2. Command' = Command
  BY DEF Command, Script, radioVars
<1> QED
  BY <1>1, <1>2 DEF OwnAnswers, Own, Running, radioVars

\* A step that leaves nothing but handshakes in flight, and nothing at all while
\* no wait has ended too early.
LEMMA OwnCleared ==
    ASSUME Others(Pipe') = {}, premature' = 0 => Items(Pipe') = {},
           rstate' # "wait", ~misread'
    PROVE  OwnAnswers'
  BY DEF OwnAnswers, Own

\* Nothing is coming.
LEMMA NothingComing ==
    ASSUME RadioTypes, ~AnswerComing
    PROVE  Items(Pipe) = {}
<1>1. toDev = <<>> /\ wire = <<>> /\ \A i \in DOMAIN buf : buf[i].id \in Marks
  BY DEF AnswerComing, Quiet, Marks
<1>2. toDev \in Seq(AnyToken) /\ wire \in Seq(AnyToken) /\ buf \in Seq(AnyToken)
  BY LinkTypes DEF RadioTypes
<1>3. /\ Len(buf) \in Nat /\ Len(wire) = 0 /\ Len(toDev) = 0
      /\ Len(Received) = Len(buf) + Len(wire)
      /\ Len(Pipe) = Len(Received) + Len(toDev)
      /\ \A i \in 1..Len(Received) :
            Received[i] = IF i <= Len(buf) THEN buf[i] ELSE wire[i - Len(buf)]
      /\ \A i \in 1..Len(Pipe) :
            Pipe[i] = IF i <= Len(Received) THEN Received[i] ELSE toDev[i - Len(Received)]
  BY <1>1, <1>2, LinkIs
<1>4. ASSUME NEW i \in 1..Len(Pipe) PROVE Pipe[i].id \in Marks
  <2>1. i \in 1..Len(Received) /\ i <= Len(Received) /\ i <= Len(buf) /\ i \in DOMAIN buf
    BY <1>2, <1>3
  <2>2. Pipe[i] = buf[i]
    BY <1>3, <2>1
  <2> QED
    BY <1>1, <2>1, <2>2
<1> QED
  BY <1>4 DEF Items

\* A message that was taken is in flight, and is gone when the rest is left.
LEMMA TakenInPipe ==
    ASSUME RadioTypes, NEW i \in Taken(buf), buf[i].id \notin Marks
    PROVE  i \in Items(Pipe) /\ Pipe[i] = buf[i]
<1>1. toDev \in Seq(AnyToken) /\ wire \in Seq(AnyToken) /\ buf \in Seq(AnyToken)
  BY LinkTypes DEF RadioTypes
<1>2. i \in 1..Len(buf)
  BY <1>1, TakenIn
<1>3. /\ Len(buf) \in Nat /\ Len(wire) \in Nat /\ Len(toDev) \in Nat
      /\ Len(Received) = Len(buf) + Len(wire)
      /\ Len(Pipe) = Len(Received) + Len(toDev)
      /\ \A k \in 1..Len(Received) :
            Received[k] = IF k <= Len(buf) THEN buf[k] ELSE wire[k - Len(buf)]
      /\ \A k \in 1..Len(Pipe) :
            Pipe[k] = IF k <= Len(Received) THEN Received[k] ELSE toDev[k - Len(Received)]
  BY <1>1, LinkIs
<1>4. i \in 1..Len(Received) /\ i \in 1..Len(Pipe) /\ i <= Len(Received) /\ i <= Len(buf)
  BY <1>2, <1>3
<1>5. Pipe[i] = buf[i]
  BY <1>3, <1>4
<1> QED
  BY <1>4, <1>5 DEF Items

\* After a message was taken, what is in flight was behind it.
LEMMA LeftBehind ==
    ASSUME RadioTypes, buf' = Left(buf), UNCHANGED <<toDev, wire>>,
           NEW i \in Taken(buf), NEW x \in Items(Pipe')
    PROVE  \E y \in Items(Pipe) : i < y /\ Same(Pipe'[x], Pipe[y])
<1>1. PICK n \in 0..Len(buf) : Thins(Pipe', Pipe, n) /\ \A k \in Taken(buf) : k <= n
  BY ForgetStep
<1>2. PICK f \in [1..Len(Pipe') -> Int] :
         \A k \in Items(Pipe') : f[k] \in Items(Pipe) /\ n < f[k] /\ Same(Pipe'[k], Pipe[f[k]])
  BY <1>1 DEF Thins
<1>3. i <= n /\ n < f[x] /\ f[x] \in Items(Pipe) /\ Same(Pipe'[x], Pipe[f[x]])
  BY <1>1, <1>2
<1>4. i \in Nat /\ f[x] \in Nat
  BY <1>3, TakenIn, OthersAre DEF RadioTypes
<1> QED
  BY <1>3, <1>4

\* No step of the program or of the firmware confuses two answers while at most
\* one wait has ended too early.
LEMMA NextOwnAnswers ==
    ASSUME RadioTypes, premature < 2 => OwnAnswers, RadioNext, tool' = tool, premature' < 2
    PROVE  OwnAnswers'
<1>1. premature \in Nat /\ premature <= premature' /\ OwnAnswers
  <2>1. premature \in Nat
    BY DEF RadioTypes
  <2>2. UNCHANGED premature \/ WaitEnds
    BY DEF RadioNext, RadioSend, ReadLoop, PumpLooks, SessionUp, CommandAnswered, Retry,
           GiveUp, HandshakeAgain, NoSession, SlotExecutes, SlotDeaf, SlotFaults,
           ScreenStreams, radioVars
  <2>3. premature' = premature \/ premature' = premature + 1
    BY <2>1, <2>2 DEF WaitEnds
  <2> QED
    BY <2>1, <2>3
<1>2. Own(Pipe) /\ ~misread
  BY <1>1 DEF OwnAnswers
<1>3. CASE RadioSend
  <2>1. /\ rstate = "send" /\ rstate' = "wait" /\ Running
        /\ UNCHANGED <<rstep, talking, premature, misread>>
    BY <1>3 DEF RadioSend, Running
  <2>2. IsStep(Command) /\ IsStep(Wanted) /\ Wanted \in RadioCommands
    BY <2>1, CommandIs
  <2> DEFINE p == Pipe
             q == Pipe'
             L == Len(Pipe)
  <2>3. /\ L \in Nat /\ Len(p) = L /\ Len(q) = L + 1
        /\ \A i \in 1..L : q[i] = p[i]
        /\ q[L + 1] = Wanted
    BY <1>3, <2>2, SendStep DEF RadioSend
  <2>4. Wanted.id \notin Marks
    BY <2>2, RadioIdsNoMarks DEF RadioCommands
  <2>5. Command' = Command /\ Hello' = Hello
    BY <2>1 DEF Command, Script, Hello, Cmd
  <2>6. Own(p)
    BY <1>2
  <2>7. \A i \in Items(p) : i \in 1..L
    BY DEF Items
  <2> HIDE DEF p, q, L
  <2>8. Items(q) = Items(p) \cup {L + 1}
    <3>1. \A i \in 1..L : i \in Items(q) <=> i \in Items(p)
      BY <2>3 DEF Items
    <3>2. L + 1 \in Items(q) /\ \A i \in Items(q) : i \in 1..L \/ i = L + 1
      BY <2>3, <2>4 DEF Items
    <3> QED
      BY <2>7, <3>1, <3>2
  <2>9. CASE talking = "session"
    <3>1. Wanted = Hello /\ Wanted.id = "hello"
      BY <2>9, HelloIsStep DEF Wanted
    <3>2. Others(q) = Others(p) /\ Hellos(q) = Hellos(p) \cup {L + 1}
      BY <2>3, <2>7, <2>8, <3>1 DEF Others, Hellos
    <3>3. \A i \in Others(p) : i \in 1..L /\ q[i] = p[i]
      BY <2>3, <2>7 DEF Others
    <3>4. \A i \in Others(q) : Same(q[i], Command)
      BY <2>6, <3>2, <3>3 DEF Own
    <3>5. \A i, j \in Others(q) : i = j
      BY <2>6, <3>2 DEF Own
    <3>6. ASSUME NEW i \in Others(q)
          PROVE  premature = 1 /\ \A j, k \in Hellos(q) : j = k /\ i < j
      <4>1. premature = 1 /\ Hellos(p) = {}
        BY <2>1, <2>6, <2>9, <3>2 DEF Own
      <4> QED
        BY <2>3, <3>2, <3>3, <4>1
    <3>7. premature = 0 => \A i, j \in Items(q) : i = j
      BY <2>1, <2>6, <2>8 DEF Own
    <3> QED
      BY <1>2, <2>1, <2>5, <2>9, <3>4, <3>5, <3>6, <3>7 DEF OwnAnswers, Own, Running, q
  <2>10. CASE talking = "command"
    <3>1. Wanted = Command /\ Command.id # "hello"
      BY <2>1, <2>2, <2>10 DEF Wanted, RadioTypes, ScriptInv, IsStep
    <3>2. Others(p) = {}
      BY <2>1, <2>6, <2>10 DEF Own
    <3>3. Others(q) = {L + 1}
      BY <2>3, <2>7, <2>8, <3>1, <3>2 DEF Others
    <3>4. \A i \in Others(q) : Same(q[i], Command)
      BY <2>3, <3>1, <3>3 DEF Same
    <3>5. premature = 0 => \A i, j \in Items(q) : i = j
      BY <2>1, <2>6, <2>8 DEF Own
    <3> QED
      BY <1>2, <2>1, <2>5, <2>10, <3>3, <3>4, <3>5 DEF OwnAnswers, Own, Running, q
  <2> QED
    BY <2>9, <2>10 DEF RadioTypes, ScriptInv
<1>4. CASE ReadLoop
  <2>1. Pipe' = Pipe
    BY <1>4, FeedStep DEF ReadLoop
  <2> QED
    BY <1>1, <1>4, <2>1, SameThins, OwnKept DEF ReadLoop
<1>5. CASE PumpLooks
  <2>1. \E n \in 0..Len(buf) : Thins(Pipe', Pipe, n)
    BY <1>5, ForgetStep DEF PumpLooks
  <2>2. \E n \in Nat : Thins(Pipe', Pipe, n)
    BY <2>1
  <2> QED
    BY <1>1, <1>5, <2>2, OwnKept DEF PumpLooks
<1>6. CASE SessionUp
  <2>1. /\ rstate = "wait" /\ talking = "session" /\ Running
        /\ buf' = Left(buf) /\ UNCHANGED <<toDev, wire, premature, misread>>
        /\ Latest(buf, "hello") # NoMessage
    BY <1>6 DEF SessionUp, Running
  <2>2. PICK i \in Taken(buf) : buf[i].id = "hello"
    BY <2>1, LatestIs DEF RadioTypes
  <2>3. i \in Hellos(Pipe) /\ i \in Items(Pipe) /\ i \in Nat
    BY <2>2, TakenInPipe, OthersAre DEF Marks
  <2>4. ASSUME NEW x \in Others(Pipe') PROVE FALSE
    <3>1. PICK y \in Items(Pipe) : i < y /\ Same(Pipe'[x], Pipe[y])
      BY <2>1, <2>4, LeftBehind, OthersAre
    <3>2. y \in Others(Pipe) /\ y \in Nat
      BY <2>4, <3>1, OthersAre DEF Same
    <3>3. y < i
      BY <1>2, <2>1, <2>3, <3>2 DEF Own
    <3> QED
      BY <2>3, <3>1, <3>2, <3>3
  <2>5. ASSUME premature' = 0, NEW x \in Items(Pipe') PROVE FALSE
    <3>1. PICK y \in Items(Pipe) : i < y
      BY <2>1, <2>5, LeftBehind
    <3>2. y = i
      BY <1>2, <2>1, <2>3, <2>5 DEF Own
    <3> QED
      BY <2>3, <3>1, <3>2
  <2>6. rstate' # "wait"
    BY <1>6, <2>1, AdvanceStep DEF SessionUp
  <2> QED
    BY <1>2, <2>1, <2>4, <2>5, <2>6, OwnCleared
<1>7. CASE CommandAnswered
  <2> DEFINE ack == Latest(buf, Command.id)
  <2>1. /\ rstate = "wait" /\ talking = "command" /\ Running
        /\ buf' = Left(buf) /\ UNCHANGED <<toDev, wire, premature>>
        /\ ack # NoMessage /\ misread' = (misread \/ ack.of # Command.of)
    BY <1>7 DEF CommandAnswered, Running
  <2>2. PICK i \in Taken(buf) : buf[i].id = Command.id /\ ack = buf[i]
    BY <2>1, LatestIs DEF RadioTypes
  <2>3. Command.id # "hello" /\ Command.id \notin Marks
    <3>1. IsStep(Command) /\ Command # Hello
      BY <2>1, CommandIs DEF RadioTypes, ScriptInv
    <3> QED
      BY <3>1, RadioIdsNoMarks DEF IsStep, RadioCommands
  <2>4. i \in Others(Pipe) /\ i \in Items(Pipe) /\ i \in Nat /\ Pipe[i] = buf[i]
    BY <2>2, <2>3, TakenInPipe, OthersAre
  <2>5. ack.of = Command.of
    BY <1>2, <2>2, <2>4 DEF Own, Same
  <2>6. ASSUME NEW x \in Others(Pipe') PROVE FALSE
    <3>1. PICK y \in Items(Pipe) : i < y /\ Same(Pipe'[x], Pipe[y])
      BY <2>1, <2>6, LeftBehind, OthersAre
    <3>2. y \in Others(Pipe)
      BY <2>6, <3>1, OthersAre DEF Same
    <3>3. y = i
      BY <1>2, <2>4, <3>2 DEF Own
    <3> QED
      BY <2>4, <3>1, <3>3
  <2>7. ASSUME premature' = 0, NEW x \in Items(Pipe') PROVE FALSE
    <3>1. PICK y \in Items(Pipe) : i < y
      BY <2>1, <2>7, LeftBehind
    <3>2. y = i
      BY <1>2, <2>1, <2>4, <2>7 DEF Own
    <3> QED
      BY <2>4, <3>1, <3>2
  <2>8. rstate' # "wait"
    BY <1>7, <2>1, AdvanceStep DEF CommandAnswered
  <2>9. ~misread'
    BY <1>2, <2>1, <2>5
  <2> QED
    BY <2>6, <2>7, <2>8, <2>9, OwnCleared
<1>8. CASE WaitEnds /\ (Retry \/ GiveUp \/ HandshakeAgain \/ NoSession)
  <2>1. /\ rstate = "wait" /\ Running
        /\ premature' = premature + (IF AnswerComing THEN 1 ELSE 0)
        /\ UNCHANGED <<toDev, wire, buf, misread, rstep>>
    BY <1>8 DEF WaitEnds, linkVars, Running
  <2>2. Pipe' = Pipe /\ Command' = Command
    BY <2>1 DEF Pipe, Received, Command, Script
  <2>3. rstate' # "wait"
    BY <1>8 DEF Retry, GiveUp, HandshakeAgain, NoSession
  <2>4. CASE ~AnswerComing
    <3>1. Items(Pipe') = {} /\ Others(Pipe') = {}
      BY <2>2, <2>4, NothingComing DEF Others
    <3> QED
      BY <1>2, <2>1, <2>3, <3>1, OwnCleared
  <2>5. CASE AnswerComing
    <3>1. premature = 0 /\ premature' = 1
      BY <1>1, <2>1, <2>5
    <3>2. CASE talking = "session"
      <4>1. Others(Pipe) = {}
        BY <1>2, <2>1, <3>1, <3>2 DEF Own
      <4> QED
        BY <1>2, <2>1, <2>2, <2>3, <3>1, <4>1, OwnCleared
    <3>3. CASE talking = "command"
      <4>1. /\ rstate' = "failed" \/ (rstate' = "send" /\ talking' = "session")
        BY <1>8, <3>3 DEF Retry, GiveUp, HandshakeAgain, NoSession
      <4>2. \A i \in Others(Pipe) : Hellos(Pipe) = {}
        <5>1. \A i, j \in Items(Pipe) : i = j
          BY <1>2, <2>1, <3>1 DEF Own
        <5> QED
          BY <5>1 DEF Others, Hellos
      <4> QED
        BY <1>2, <2>1, <2>2, <3>1, <4>1, <4>2 DEF OwnAnswers, Own, Running
    <3> QED
      BY <3>2, <3>3 DEF RadioTypes, ScriptInv
  <2> QED
    BY <2>4, <2>5
<1>9. CASE SlotExecutes \/ SlotDeaf \/ SlotFaults \/ ScreenStreams
  <2>1. Thins(Pipe', Pipe, 0)
    BY <1>9, DeviceStep DEF LinkKept
  <2>2. UNCHANGED radioVars
    BY <1>9 DEF SlotExecutes, SlotDeaf, SlotFaults, ScreenStreams
  <2> QED
    BY <1>1, <2>1, <2>2, OwnKept
<1>10. Retry \/ GiveUp \/ HandshakeAgain \/ NoSession => WaitEnds
  BY DEF Retry, GiveUp, HandshakeAgain, NoSession
<1> QED
  BY <1>3, <1>4, <1>5, <1>6, <1>7, <1>8, <1>9, <1>10 DEF RadioNext

\* Without a program that talks to the slots none of its history is made.
LinkAnswersInv ==
    IF tool \in RadioTools THEN AnswersInv ELSE ~misread

LEMMA InitAnswersInv == LinkInit => LinkAnswersInv
<1> SUFFICES ASSUME LinkInit PROVE LinkAnswersInv
  OBVIOUS
<1>1. ~misread
  BY DEF LinkInit, RadioInit
<1>2. ASSUME tool \in RadioTools PROVE AnswersInv
  <2>1. /\ toDev = <<>> /\ wire = <<>> /\ buf = <<>> /\ premature = 0
        /\ rstate = "send" /\ rstep = 1 /\ talking = "session"
        /\ cells = [k \in 0..Chunks |-> "old"]
    BY DEF LinkInit, RadioInit
  <2>2. Received = <<>> /\ Pipe = <<>>
    BY <2>1 DEF Received, Pipe
  <2>3. Items(Pipe) = {} /\ Others(Pipe) = {}
    BY <2>2 DEF Items, Others
  <2>4. ScriptInv
    BY <1>2, <2>1, ScriptIs DEF ScriptInv, Running
  <2>5. RadioTypes
    BY <1>2, <2>1, <2>2, <2>4 DEF RadioTypes, Framed
  <2> QED
    BY <1>1, <2>1, <2>3, <2>5 DEF AnswersInv, OwnAnswers, Own
<1> QED
  BY <1>1, <1>2 DEF LinkAnswersInv

LEMMA RadioSame ==
    ASSUME RadioTypes, UNCHANGED allVars
    PROVE  RadioTypes'
  BY DEF RadioTypes, ScriptInv, Running, Command, Script, Received, Hello, Cmd,
         allVars, linkVars, radioAll, radioVars, slotVars

LEMMA NextAnswersInv == LinkAnswersInv /\ [LinkNext]_allVars => LinkAnswersInv'
<1> SUFFICES ASSUME LinkAnswersInv, [LinkNext]_allVars PROVE LinkAnswersInv'
  OBVIOUS
<1>1. CASE tool \in RadioTools /\ RadioNext /\ tool' = tool
  <2>1. RadioTypes'
    BY <1>1, NextRadioTypes DEF LinkAnswersInv, AnswersInv
  <2>2. premature' < 2 => OwnAnswers'
    BY <1>1, NextOwnAnswers DEF LinkAnswersInv, AnswersInv
  <2> QED
    BY <1>1, <2>1, <2>2 DEF LinkAnswersInv, AnswersInv
<1>2. CASE tool \notin RadioTools /\ UNCHANGED <<tool, radioAll>>
  BY <1>2 DEF LinkAnswersInv, radioAll, radioVars
<1>3. CASE UNCHANGED allVars
  <2>1. UNCHANGED <<tool, toDev, wire, buf, radioVars>>
    BY <1>3 DEF allVars, linkVars, radioAll
  <2>2. CASE tool \in RadioTools
    <3>1. RadioTypes'
      BY <1>3, <2>2, RadioSame DEF LinkAnswersInv, AnswersInv
    <3>2. Pipe' = Pipe /\ premature' = premature
      BY <2>1 DEF Pipe, Received, radioVars
    <3>3. premature < 2 => OwnAnswers'
      BY <2>1, <2>2, <3>2, SameThins, OwnKept DEF LinkAnswersInv, AnswersInv
    <3> QED
      BY <2>1, <2>2, <3>1, <3>2, <3>3 DEF LinkAnswersInv, AnswersInv
  <2>3. CASE tool \notin RadioTools
    BY <2>1, <2>3 DEF LinkAnswersInv, radioVars
  <2> QED
    BY <2>2, <2>3
<1>4. CASE tool = "bare" /\ Next /\ UNCHANGED <<tool, linkVars, radioAll, flasherAll>>
  BY <1>2, <1>4 DEF RadioTools
<1>5. CASE tool = "flasher" /\ FlasherNext /\ UNCHANGED <<tool, vars, radioAll>>
  BY <1>2, <1>5 DEF RadioTools
<1> QED
  BY <1>1, <1>3, <1>4, <1>5 DEF LinkNext

(***************************************************************************)
(* For scripts of any length, any number of tries and handshakes, and any  *)
(* commands dropped, refused or late: it takes two waits that end before   *)
(* their answer for a command to be given the answer to another.           *)
(***************************************************************************)
THEOREM LinkAnswersOwnCommand == LinkSpec => []AnswersOwnCommand
<1>1. LinkAnswersInv => AnswersOwnCommand
  BY DEF LinkAnswersInv, AnswersInv, OwnAnswers, AnswersOwnCommand
<1> QED
  BY <1>1, InitAnswersInv, NextAnswersInv, PTL DEF LinkSpec

-----------------------------------------------------------------------------
(* What an install that succeeded has left *)

Asks(p) == \E i \in Items(p) : p[i].id = "validate"

\* Nothing that changes the slot is sent after the validation.
LastAsked(p) ==
    \A i, j \in Items(p) : p[i].id = "validate" /\ i < j => p[j].id \in {"validate", "hello"}

Harmless == \A i \in 1..Len(toDev) : toDev[i].id \in {"validate", "hello"}
Whole == \A k \in 0..Chunks : cells[k] = "new"

\* A validation that passed, on its way or read, is one of the slot as it is.
PassedWhole(s) == \A i \in 1..Len(s) : s[i].id = "validate" /\ Validated(s[i]) => Whole

\* The inductive invariant.
WholeInv ==
    /\ LastAsked(Pipe)
    /\ Asks(Pipe) => rstep >= Len(Script)
    /\ PassedWhole(buf) /\ PassedWhole(wire)
    /\ rstate = "ok" => Whole /\ Harmless

LEMMA LastAskedThins ==
    ASSUME NEW p, NEW q, NEW n \in Nat, Thins(q, p, n)
    PROVE  /\ LastAsked(p) => LastAsked(q)
           /\ Asks(q) => Asks(p)
<1>1. PICK f \in [1..Len(q) -> Int] :
         /\ \A i \in Items(q) : f[i] \in Items(p) /\ n < f[i] /\ Same(q[i], p[f[i]])
         /\ \A i, j \in Items(q) : i < j => f[i] < f[j]
  BY DEF Thins
<1>2. Asks(q) => Asks(p)
  BY <1>1 DEF Asks, Same
<1>3. LastAsked(p) => LastAsked(q)
  BY <1>1 DEF LastAsked, Same
<1> QED
  BY <1>2, <1>3

\* Behind a validation that the host has coming, the commands are harmless.
LEMMA AskedBefore ==
    ASSUME RadioTypes, LastAsked(Pipe),
           (\E i \in 1..Len(buf) : buf[i].id = "validate")
             \/ (\E i \in 1..Len(wire) : wire[i].id = "validate")
    PROVE  Harmless /\ Asks(Pipe)
<1>1. toDev \in Seq(AnyToken) /\ wire \in Seq(AnyToken) /\ buf \in Seq(AnyToken)
  BY LinkTypes DEF RadioTypes
<1>2. /\ Len(buf) \in Nat /\ Len(wire) \in Nat /\ Len(toDev) \in Nat
      /\ Len(Received) = Len(buf) + Len(wire)
      /\ Len(Pipe) = Len(Received) + Len(toDev)
      /\ \A k \in 1..Len(Received) :
            Received[k] = IF k <= Len(buf) THEN buf[k] ELSE wire[k - Len(buf)]
      /\ \A k \in 1..Len(Pipe) :
            Pipe[k] = IF k <= Len(Received) THEN Received[k] ELSE toDev[k - Len(Received)]
  BY <1>1, LinkIs
<1>3. \E i \in 1..Len(Received) : Received[i].id = "validate"
  <2>1. CASE \E i \in 1..Len(buf) : buf[i].id = "validate"
    <3>1. PICK i \in 1..Len(buf) : buf[i].id = "validate"
      BY <2>1
    <3>2. i \in 1..Len(Received) /\ i <= Len(buf)
      BY <1>2
    <3> QED
      BY <1>2, <3>1, <3>2
  <2>2. CASE \E i \in 1..Len(wire) : wire[i].id = "validate"
    <3>1. PICK i \in 1..Len(wire) : wire[i].id = "validate"
      BY <2>2
    <3>2. Len(buf) + i \in 1..Len(Received) /\ ~(Len(buf) + i <= Len(buf)) /\ (Len(buf) + i) - Len(buf) = i
      BY <1>2
    <3>3. Received[Len(buf) + i].id = "validate"
      BY <1>2, <3>1, <3>2
    <3> QED
      BY <3>2, <3>3
  <2> QED
    BY <2>1, <2>2
<1>4. PICK i \in 1..Len(Received) : Received[i].id = "validate"
  BY <1>3
<1>5. i \in 1..Len(Pipe) /\ Pipe[i].id = "validate" /\ i <= Len(Received)
  BY <1>2, <1>4
<1>6. i \in Items(Pipe)
  BY <1>5 DEF Items, Marks
<1>7. ASSUME NEW j \in 1..Len(toDev) PROVE toDev[j].id \in {"validate", "hello"}
  <2>1. /\ Len(Received) + j \in 1..Len(Pipe) /\ ~(Len(Received) + j <= Len(Received))
        /\ (Len(Received) + j) - Len(Received) = j /\ i < Len(Received) + j
    BY <1>2
  <2>2. Pipe[Len(Received) + j] = toDev[j]
    BY <1>2, <2>1
  <2>3. toDev[j].id \notin Marks
    <3>1. toDev[j] \in RadioCommands
      BY DEF RadioTypes
    <3> QED
      BY <3>1, RadioIdsNoMarks DEF RadioCommands
  <2>4. Len(Received) + j \in Items(Pipe)
    BY <2>1, <2>2, <2>3 DEF Items
  <2> QED
    BY <1>5, <1>6, <2>1, <2>2, <2>4 DEF LastAsked
<1> QED
  BY <1>5, <1>6, <1>7 DEF Harmless, Asks

\* A validation passes only a whole slot.
LEMMA VerdictWhole ==
    ASSUME RadioTypes, NEW c, c.id = "validate", Verdict(c) = 0, Image = {"new"}
    PROVE  Whole
<1>1. Image \cup {cells[0]} \in {{"new"}, {"old"}}
  BY DEF Verdict
<1>2. cells[0] = "new"
  BY <1>1
<1>3. ASSUME NEW k \in 1..Chunks PROVE cells[k] = "new"
  <2>1. cells[k] \in Image
    BY DEF Image
  <2> QED
    BY <2>1
<1> QED
  BY <1>2, <1>3, SlotSerialAssumption DEF Whole

\* Steps that leave the slot and the end of the script alone.
LEMMA WholeThins ==
    ASSUME WholeInv, NEW n \in Nat, Thins(Pipe', Pipe, n), UNCHANGED <<tool, cells>>,
           rstep \in Nat, rstep' = rstep \/ rstep' = rstep + 1, Len(Script) \in Nat,
           \A i \in 1..Len(buf') : \E j \in 1..Len(buf) : buf'[i] = buf[j],
           wire' = wire,
           rstate' = "ok" => Whole /\ Harmless'
    PROVE  WholeInv'
<1>1. Script' = Script /\ (Whole <=> Whole')
  BY DEF Script, Whole
<1>2. LastAsked(Pipe') /\ (Asks(Pipe') => Asks(Pipe))
  BY LastAskedThins DEF WholeInv
<1>3. PassedWhole(buf)' /\ PassedWhole(wire)'
  BY <1>1 DEF WholeInv, PassedWhole, Validated
<1>4. (Asks(Pipe) => rstep >= Len(Script))'
  BY <1>1, <1>2 DEF WholeInv, Asks
<1>5. LastAsked(Pipe)'
  BY <1>2 DEF LastAsked
<1> QED
  BY <1>1, <1>3, <1>4, <1>5 DEF WholeInv

\* An install keeps WholeInv.
LEMMA NextWholeInv ==
    ASSUME RadioTypes, WholeInv, RadioNext, tool = "install", tool' = tool
    PROVE  WholeInv'
<1>1. Script' = Script /\ Len(Script) \in Nat \ {0} /\ rstep \in Nat \ {0}
  BY ScriptIs DEF Script, RadioTypes, ScriptInv
<1>2. /\ Script[Len(Script)].id = "validate"
      /\ \A i \in 1..(Len(Script) - 1) : Script[i].id # "validate"
  BY ScriptIs DEF RadioTypes
<1>3. Running => rstep <= Len(Script)
  BY DEF RadioTypes, ScriptInv
<1>4. Running => (Command.id = "validate" <=> rstep = Len(Script))
  BY <1>1, <1>2, <1>3 DEF Command
<1>5. ASSUME buf' = Left(buf), UNCHANGED <<toDev, wire, cells>>,
             rstep' = rstep \/ rstep' = rstep + 1,
             rstate' = "ok" => Whole /\ Harmless
      PROVE  WholeInv'
  <2>1. /\ \E n \in 0..Len(buf) : Thins(Pipe', Pipe, n)
        /\ \A i \in 1..Len(buf') : \E j \in 1..Len(buf) : buf'[i] = buf[j]
    BY <1>5, ForgetStep
  <2>2. \E n \in Nat : Thins(Pipe', Pipe, n)
    BY <2>1
  <2>3. rstate' = "ok" => Whole /\ Harmless'
    BY <1>5 DEF Harmless
  <2> QED
    BY <1>1, <1>5, <2>1, <2>2, <2>3, WholeThins
<1>6. CASE RadioSend
  <2>1. /\ rstate = "send" /\ rstate' = "wait" /\ Running /\ rstep' = rstep
        /\ UNCHANGED <<wire, buf, cells>> /\ Send(Wanted)
    BY <1>6 DEF RadioSend, Running, slotVars
  <2>2. IsStep(Wanted) /\ Wanted \in RadioCommands
    BY <2>1, CommandIs
  <2> DEFINE p == Pipe
             q == Pipe'
             L == Len(Pipe)
  <2>3. /\ L \in Nat /\ Len(p) = L /\ Len(q) = L + 1
        /\ \A i \in 1..L : q[i] = p[i]
        /\ q[L + 1] = Wanted
    BY <2>1, <2>2, SendStep
  <2>4. Wanted = Hello \/ Wanted = Command
    BY DEF Wanted
  <2>5. Asks(p) => Wanted.id \in {"validate", "hello"}
    <3> SUFFICES ASSUME Asks(p) PROVE Wanted.id \in {"validate", "hello"}
      OBVIOUS
    <3>1. rstep = Len(Script)
      BY <1>1, <1>3, <2>1 DEF WholeInv
    <3> QED
      BY <1>4, <2>1, <2>4, <3>1, HelloIsStep
  <2>6. Wanted.id = "validate" => rstep = Len(Script)
    BY <1>4, <2>1, <2>4, HelloIsStep
  <2>7. LastAsked(p) /\ (Asks(p) => rstep >= Len(Script))
    BY DEF WholeInv
  <2> HIDE DEF p, q, L
  <2>8. \A i \in Items(q) : (i \in Items(p) /\ q[i] = p[i] /\ i <= L) \/ i = L + 1
    BY <2>3 DEF Items
  <2>9. LastAsked(q)
    <3> SUFFICES ASSUME NEW i \in Items(q), NEW j \in Items(q), q[i].id = "validate", i < j
                 PROVE  q[j].id \in {"validate", "hello"}
      BY DEF LastAsked
    <3>1. i \in Nat /\ j \in Nat /\ i <= L + 1 /\ j <= L + 1
      BY <2>3 DEF Items
    <3>2. i \in Items(p) /\ q[i] = p[i]
      BY <2>3, <2>8, <3>1
    <3>3. CASE j = L + 1
      BY <2>3, <2>5, <3>2, <3>3 DEF Asks
    <3>4. CASE j \in Items(p) /\ q[j] = p[j]
      BY <2>7, <3>2, <3>4 DEF LastAsked
    <3> QED
      BY <2>8, <3>3, <3>4
  <2>10. Asks(q) => rstep >= Len(Script)
    <3> SUFFICES ASSUME NEW i \in Items(q), q[i].id = "validate" PROVE rstep >= Len(Script)
      BY DEF Asks
    <3>1. CASE i = L + 1
      BY <1>1, <2>3, <2>6, <3>1
    <3>2. CASE i \in Items(p) /\ q[i] = p[i]
      BY <2>7, <3>2 DEF Asks
    <3> QED
      BY <2>8, <3>1, <3>2
  <2>11. PassedWhole(buf)' /\ PassedWhole(wire)'
    BY <2>1 DEF WholeInv, PassedWhole, Whole, Validated
  <2> QED
    BY <1>1, <2>1, <2>9, <2>10, <2>11 DEF WholeInv, LastAsked, Asks, q
<1>7. CASE ReadLoop
  <2>1. /\ Pipe' = Pipe /\ UNCHANGED <<toDev, rstate, rstep, cells>>
        /\ wire # <<>> /\ buf' = Append(buf, Head(wire)) /\ wire' = Tail(wire)
    BY <1>7, FeedStep DEF ReadLoop, feed, radioVars, slotVars
  <2>2. Whole' <=> Whole
    BY <2>1 DEF Whole
  <2>3. \A i \in 1..Len(wire') : \E j \in 1..Len(wire) : wire'[i] = wire[j]
    BY <2>1 DEF RadioTypes
  <2>4. \A i \in 1..Len(buf') : \/ \E j \in 1..Len(buf) : buf'[i] = buf[j]
                                \/ \E j \in 1..Len(wire) : buf'[i] = wire[j]
    BY <2>1 DEF RadioTypes
  <2>5. PassedWhole(buf)' /\ PassedWhole(wire)'
    BY <2>2, <2>3, <2>4 DEF WholeInv, PassedWhole, Validated
  <2> QED
    BY <1>1, <2>1, <2>2, <2>5 DEF WholeInv, LastAsked, Asks, Harmless
<1>8. CASE PumpLooks
  <2>1. buf' = Left(buf) /\ UNCHANGED <<toDev, wire, cells, rstep, rstate>>
    BY <1>8 DEF PumpLooks, radioVars, slotVars
  <2> QED
    BY <1>5, <2>1 DEF WholeInv
<1>9. CASE SessionUp
  <2>1. /\ rstate = "wait" /\ Running
        /\ buf' = Left(buf) /\ UNCHANGED <<toDev, wire, cells>>
    BY <1>9 DEF SessionUp, Running, slotVars
  <2>2. CASE Command = Hello
    <3>1. rstep' = rstep + 1 /\ (rstate' = "ok" => rstep = Len(Script))
      BY <1>9, <2>1, <2>2, AdvanceStep DEF SessionUp, Advance
    <3>2. rstate' # "ok"
      BY <1>4, <2>1, <2>2, <3>1, HelloIsStep
    <3> QED
      BY <1>5, <2>1, <3>1, <3>2
  <2>3. CASE Command # Hello
    BY <1>5, <1>9, <2>1, <2>3 DEF SessionUp
  <2> QED
    BY <2>2, <2>3
<1>10. CASE CommandAnswered
  <2> DEFINE ack == Latest(buf, Command.id)
  <2>1. /\ rstate = "wait" /\ talking = "command" /\ Running /\ ack # NoMessage
        /\ buf' = Left(buf) /\ UNCHANGED <<toDev, wire, cells>>
    BY <1>10 DEF CommandAnswered, Running, slotVars
  <2>2. CASE Accepts(ack)
    <3>1. rstep' = rstep + 1 /\ (rstate' = "ok" => rstep = Len(Script))
      BY <1>10, <2>1, <2>2, AdvanceStep DEF CommandAnswered, Advance
    <3>2. ASSUME rstate' = "ok" PROVE Whole /\ Harmless
      <4>1. Command.id = "validate"
        BY <1>4, <2>1, <3>1, <3>2
      <4>2. Validated(ack)
        BY <2>2, <4>1 DEF Accepts
      <4>3. PICK i \in Taken(buf) : buf[i].id = "validate" /\ ack = buf[i]
        BY <2>1, <4>1, LatestIs DEF RadioTypes
      <4>4. i \in 1..Len(buf)
        BY TakenIn DEF RadioTypes
      <4>5. Whole
        BY <4>2, <4>3, <4>4 DEF WholeInv, PassedWhole
      <4>6. Harmless
        BY <4>3, <4>4, AskedBefore DEF WholeInv
      <4> QED
        BY <4>5, <4>6
    <3> QED
      BY <1>5, <2>1, <3>1, <3>2
  <2>3. CASE ~Accepts(ack)
    BY <1>5, <1>10, <2>1, <2>3 DEF CommandAnswered
  <2> QED
    BY <2>2, <2>3
<1>11. CASE Retry \/ GiveUp \/ HandshakeAgain \/ NoSession
  <2>1. WaitEnds /\ rstate' # "ok"
    BY <1>11 DEF Retry, GiveUp, HandshakeAgain, NoSession
  <2>2. UNCHANGED <<toDev, wire, buf, cells, rstep>>
    BY <2>1 DEF WaitEnds, linkVars, slotVars
  <2>3. Pipe' = Pipe
    BY <2>2 DEF Pipe, Received
  <2> QED
    BY <1>1, <2>1, <2>2, <2>3 DEF WholeInv, LastAsked, Asks, PassedWhole, Whole, Validated
<1>12. CASE SlotExecutes
  <2> DEFINE c == Head(toDev)
             m == Replied(c, Verdict(c), Image = {"new"})
  <2>1. LinkKept /\ Answer(m) /\ toDev # <<>> /\ UNCHANGED <<rstate, rstep>>
    BY <1>12, ExecutesStep DEF SlotExecutes, radioVars
  <2>2. /\ c \in RadioCommands /\ c = toDev[1] /\ 1 \in 1..Len(toDev)
        /\ Len(Tail(toDev)) = Len(toDev) - 1 /\ Len(toDev) \in Nat
        /\ \A i \in 1..(Len(toDev) - 1) : Tail(toDev)[i] = toDev[i + 1]
    BY <2>1, TailIs DEF RadioTypes
  <2>3. /\ Verdict(c) \in {0, 5, 6} /\ (Image = {"new"}) \in BOOLEAN
    BY DEF Verdict
  <2>4. /\ m \in RadioTokens /\ Same(m, c)
        /\ m.id = c.id /\ m.status = Verdict(c) /\ m.crc = (Image = {"new"})
    BY <2>2, <2>3, RepliedIs
  <2>5. c.id \in {"validate", "hello"} => cells' = cells
    BY <1>12 DEF SlotExecutes
  <2>6. m.id = "validate" /\ Validated(m) => Whole /\ cells' = cells
    <3> SUFFICES ASSUME m.id = "validate", Validated(m) PROVE Whole /\ cells' = cells
      OBVIOUS
    <3>1. c.id = "validate" /\ Verdict(c) = 0 /\ Image = {"new"}
      BY <2>4 DEF Validated
    <3> QED
      BY <2>5, <3>1, VerdictWhole
  <2>7. Harmless => cells' = cells
    BY <2>2, <2>5 DEF Harmless
  <2> HIDE DEF m, c
  <2>8. /\ buf' = buf /\ Len(wire') = Len(wire) + 3 /\ Len(wire) \in Nat
        /\ \A i \in 1..Len(wire) : wire'[i] = wire[i]
        /\ wire'[Len(wire) + 1] = AB /\ wire'[Len(wire) + 2] = CD /\ wire'[Len(wire) + 3] = m
    BY <2>1, <2>4, AnswerStep DEF c, RadioTypes
  <2>9. /\ \A i \in 1..Len(buf) : buf[i].id = "validate" => Harmless
        /\ \A i \in 1..Len(wire) : wire[i].id = "validate" => Harmless
    BY AskedBefore DEF WholeInv
  <2>10. cells' = cells => (Whole <=> Whole')
    BY DEF Whole
  <2>11. PassedWhole(buf)'
    BY <2>7, <2>8, <2>9, <2>10 DEF WholeInv, PassedWhole, Validated
  <2>12. PassedWhole(wire)'
    <3> SUFFICES ASSUME NEW i \in 1..Len(wire'), wire'[i].id = "validate", Validated(wire'[i])
                 PROVE  Whole'
      BY DEF PassedWhole, Validated
    <3>1. i \in 1..Len(wire) \/ i = Len(wire) + 1 \/ i = Len(wire) + 2 \/ i = Len(wire) + 3
      BY <2>8
    <3>2. CASE i \in 1..Len(wire)
      BY <2>7, <2>8, <2>9, <2>10, <3>2 DEF WholeInv, PassedWhole, Validated
    <3>3. CASE i = Len(wire) + 1 \/ i = Len(wire) + 2
      BY <2>8, <3>3, MarkTokens
    <3>4. CASE i = Len(wire) + 3
      BY <2>6, <2>8, <2>10, <3>4
    <3> QED
      BY <3>1, <3>2, <3>3, <3>4
  <2>13. LastAsked(Pipe') /\ (Asks(Pipe') => Asks(Pipe))
    BY <2>1, LastAskedThins DEF LinkKept, WholeInv
  <2>14. rstate' = "ok" => Whole' /\ Harmless'
    <3> SUFFICES ASSUME rstate' = "ok" PROVE Whole' /\ Harmless'
      OBVIOUS
    <3>1. Whole /\ Harmless
      BY <2>1 DEF WholeInv
    <3>2. toDev' = Tail(toDev)
      BY <2>1 DEF Answer
    <3>3. Harmless'
      BY <2>2, <3>1, <3>2 DEF Harmless
    <3> QED
      BY <2>7, <2>10, <3>1, <3>3
  <2> QED
    BY <1>1, <2>1, <2>11, <2>12, <2>13, <2>14 DEF WholeInv, LastAsked, Asks
<1>13. CASE SlotDeaf \/ SlotFaults \/ ScreenStreams
  <2>1. UNCHANGED <<rstate, rstep, cells>> /\ LinkKept
    BY <1>13, DeviceStep DEF SlotDeaf, SlotFaults, ScreenStreams, radioVars, slotVars
  <2>2. LastAsked(Pipe') /\ (Asks(Pipe') => Asks(Pipe))
    BY <2>1, LastAskedThins DEF LinkKept, WholeInv
  <2>3. Whole <=> Whole'
    BY <2>1 DEF Whole
  <2>4. buf' = buf /\ (toDev' = toDev \/ (toDev # <<>> /\ toDev' = Tail(toDev)))
    BY <1>13 DEF SlotDeaf, SlotFaults, ScreenStreams, Drop, Answer, Stream, linkVars
  <2>5. Harmless => Harmless'
    <3>1. toDev # <<>> => /\ Len(Tail(toDev)) = Len(toDev) - 1 /\ Len(toDev) \in Nat
                          /\ \A i \in 1..(Len(toDev) - 1) : Tail(toDev)[i] = toDev[i + 1]
      BY TailIs DEF RadioTypes
    <3> QED
      BY <2>4, <3>1 DEF Harmless
  <2>6. \A i \in 1..Len(wire') : \/ i \in 1..Len(wire) /\ wire'[i] = wire[i]
                                 \/ wire'[i].id \in Marks
                                 \/ ~Validated(wire'[i])
    <3>1. CASE wire' = wire
      BY <3>1
    <3>2. CASE ScreenStreams
      <4>1. /\ Len(wire') = Len(wire) + 1 /\ Len(wire) \in Nat
            /\ \A i \in 1..Len(wire) : wire'[i] = wire[i]
            /\ wire'[Len(wire) + 1].id = "noise"
        BY <3>2, StreamStep DEF ScreenStreams, RadioTypes
      <4> QED
        BY <4>1 DEF Marks
    <3>3. CASE toDev # <<>> /\ Answer(Replied(Head(toDev), 6, FALSE))
      <4> DEFINE m == Replied(Head(toDev), 6, FALSE)
      <4>1. /\ m \in RadioTokens /\ Same(m, Head(toDev)) /\ m.status = 6
        BY <3>3, HeadIs, RepliedIs
      <4>a. Answer(m) /\ toDev # <<>>
        BY <3>3
      <4> HIDE DEF m
      <4>b. wire \in Seq(RadioTokens) /\ Len(wire) \in Nat
        BY DEF RadioTypes
      <4>2. /\ Len(wire') = Len(wire) + 3 /\ Len(wire) \in Nat
            /\ \A i \in 1..Len(wire) : wire'[i] = wire[i]
            /\ wire'[Len(wire) + 1] = AB /\ wire'[Len(wire) + 2] = CD /\ wire'[Len(wire) + 3] = m
        BY <4>1, <4>a, <4>b, AnswerStep
      <4> QED
        BY <4>1, <4>2, MarkTokens DEF Validated
    <3> QED
      BY <1>13, <3>1, <3>2, <3>3 DEF SlotDeaf, SlotFaults, Drop, linkVars
  <2>7. PassedWhole(buf)' /\ PassedWhole(wire)'
    <3>1. \A i \in 1..Len(wire') : wire'[i].id = "validate" /\ Validated(wire'[i]) => Whole
      BY <2>6 DEF WholeInv, PassedWhole, Marks
    <3> QED
      BY <2>3, <2>4, <3>1 DEF WholeInv, PassedWhole, Validated
  <2> QED
    BY <1>1, <2>1, <2>2, <2>3, <2>5, <2>7 DEF WholeInv, LastAsked, Asks
<1> QED
  BY <1>6, <1>7, <1>8, <1>9, <1>10, <1>11, <1>12, <1>13 DEF RadioNext

\* Only an install is judged by what it leaves.
LinkWholeInv == tool = "install" => RadioTypes /\ WholeInv

LEMMA InitWholeInv == LinkInit => LinkWholeInv
<1> SUFFICES ASSUME LinkInit, tool = "install" PROVE RadioTypes /\ WholeInv
  BY DEF LinkWholeInv
<1>1. RadioTypes
  BY InitAnswersInv DEF LinkAnswersInv, AnswersInv, RadioTools
<1>2. toDev = <<>> /\ wire = <<>> /\ buf = <<>> /\ rstate = "send"
  BY DEF LinkInit, RadioInit
<1>3. Pipe = <<>>
  BY <1>2 DEF Received, Pipe
<1>4. Items(Pipe) = {}
  BY <1>3 DEF Items
<1> QED
  BY <1>1, <1>2, <1>4 DEF WholeInv, LastAsked, Asks, PassedWhole

LEMMA NextLinkWholeInv == LinkWholeInv /\ [LinkNext]_allVars => LinkWholeInv'
<1> SUFFICES ASSUME LinkWholeInv, [LinkNext]_allVars, tool' = "install"
             PROVE  RadioTypes' /\ WholeInv'
  BY DEF LinkWholeInv
<1>1. tool' = tool
  BY DEF LinkNext, allVars
<1>2. RadioTypes /\ WholeInv
  BY <1>1 DEF LinkWholeInv
<1>3. CASE RadioNext
  BY <1>1, <1>2, <1>3, NextRadioTypes, NextWholeInv DEF RadioTools
<1>4. CASE UNCHANGED allVars
  <2>1. RadioTypes'
    BY <1>2, <1>4, RadioSame
  <2>2. UNCHANGED <<tool, toDev, wire, buf, rstate, rstep, cells>>
    BY <1>4 DEF allVars, linkVars, radioAll, radioVars, slotVars
  <2>3. Pipe' = Pipe /\ Script' = Script
    BY <2>2 DEF Pipe, Received, Script, Cmd
  <2> QED
    BY <1>2, <2>1, <2>2, <2>3
       DEF WholeInv, LastAsked, Asks, Items, PassedWhole, Validated, Harmless, Whole
<1> QED
  BY <1>1, <1>3, <1>4 DEF LinkNext

(***************************************************************************)
(* An install that reports success has left the whole image and its header *)
(* for images of any length, any number of tries and handshakes and any    *)
(* loss, refusal or delay: the validation is the last command of its       *)
(* script, it is asked for only once everything before it was              *)
(* acknowledged, and nothing but the device's own verdict on the cells as  *)
(* they then stood can be read as its answer.                              *)
(***************************************************************************)
THEOREM LinkInstalledIsWhole == LinkSpec => []InstalledIsWhole
<1>1. LinkWholeInv => InstalledIsWhole
  BY DEF LinkWholeInv, WholeInv, Whole, InstalledIsWhole
<1> QED
  BY <1>1, InitWholeInv, NextLinkWholeInv, PTL DEF LinkSpec

-----------------------------------------------------------------------------
(* The queue and the guest's buffer *)

\* Sums and differences of positions in a ring of N cells wrap at most once.
LEMMA Wrap ==
    ASSUME NEW N \in Nat \ {0}, NEW a \in 0..(N - 1), NEW b \in 0..(N - 1)
    PROVE  /\ (a + b) % N \in 0..(N - 1) /\ (a - b) % N \in 0..(N - 1)
           /\ a + b < N => (a + b) % N = a + b
           /\ a + b >= N => (a + b) % N = a + b - N
           /\ a >= b => (a - b) % N = a - b
           /\ a < b => (a - b) % N = a - b + N
<1>1. (a + b) % N \in 0..(N - 1) /\ (a - b) % N \in 0..(N - 1)
  OBVIOUS
<1>2. a + b < N => (a + b) % N = a + b
  OBVIOUS
<1>3. a + b >= N => (a + b) % N = a + b - N
  OBVIOUS
<1>4. a >= b => (a - b) % N = a - b
  OBVIOUS
<1>5. a < b => (a - b) % N = a - b + N
  OBVIOUS
<1> QED
  BY <1>1, <1>2, <1>3, <1>4, <1>5

\* In a ring of N cells with u of them in use, from t up to h, the cell i places
\* after t, and how far it lies after h.
LEMMA RingCell ==
    ASSUME NEW N \in Nat \ {0}, NEW h \in 0..(N - 1), NEW t \in 0..(N - 1),
           NEW i \in 0..(N - 1)
    PROVE  LET u == (h - t) % N
               c == (t + i) % N
           IN /\ u \in 0..(N - 1) /\ c \in 0..(N - 1)
              /\ (c - h) % N = IF i < u THEN i - u + N ELSE i - u
<1> DEFINE u == (h - t) % N
           c == (t + i) % N
<1>1. /\ u \in 0..(N - 1)
      /\ h >= t => u = h - t
      /\ h < t => u = h - t + N
  BY Wrap
<1>2. /\ c \in 0..(N - 1)
      /\ t + i < N => c = t + i
      /\ t + i >= N => c = t + i - N
  BY Wrap
<1> HIDE DEF u, c
<1>4. /\ c >= h => (c - h) % N = c - h
      /\ c < h => (c - h) % N = c - h + N
  BY <1>2, Wrap
<1>5. (c - h) % N = IF i < u THEN i - u + N ELSE i - u
  BY <1>1, <1>2, <1>4
<1> QED
  BY <1>1, <1>2, <1>5 DEF u, c

\* Filling n free cells of the ring moves h, emptying n moves t.
LEMMA RingMove ==
    ASSUME NEW N \in Nat \ {0}, NEW h \in 0..(N - 1), NEW t \in 0..(N - 1),
           NEW n \in 0..(N - 1)
    PROVE  LET u == (h - t) % N
           IN /\ (h + n) % N \in 0..(N - 1) /\ (t + n) % N \in 0..(N - 1)
              /\ u + n < N => (((h + n) % N) - t) % N = u + n
              /\ n <= u => (h - ((t + n) % N)) % N = u - n
<1> DEFINE u == (h - t) % N
           g == (h + n) % N
           s == (t + n) % N
<1>1. /\ u \in 0..(N - 1)
      /\ h >= t => u = h - t
      /\ h < t => u = h - t + N
  BY Wrap
<1>2. /\ g \in 0..(N - 1)
      /\ h + n < N => g = h + n
      /\ h + n >= N => g = h + n - N
  BY Wrap
<1>3. /\ s \in 0..(N - 1)
      /\ t + n < N => s = t + n
      /\ t + n >= N => s = t + n - N
  BY Wrap
<1> HIDE DEF u, g, s
<1>5. /\ g >= t => (g - t) % N = g - t
      /\ g < t => (g - t) % N = g - t + N
  BY <1>2, Wrap
<1>6. /\ h >= s => (h - s) % N = h - s
      /\ h < s => (h - s) % N = h - s + N
  BY <1>3, Wrap
<1>7. u + n < N => (g - t) % N = u + n
  BY <1>1, <1>2, <1>5
<1>8. n <= u => (h - s) % N = u - n
  BY <1>1, <1>3, <1>6
<1> QED
  BY <1>2, <1>3, <1>7, <1>8 DEF u, g, s

\* Two steps around the ring are one.
LEMMA RingSum ==
    ASSUME NEW N \in Nat \ {0}, NEW t \in 0..(N - 1), NEW n \in 0..(N - 1),
           NEW i \in 0..(N - 1), n + i < N
    PROVE  (((t + n) % N) + i) % N = (t + (n + i)) % N
<1> DEFINE s == (t + n) % N
           k == n + i
<1>1. /\ s \in 0..(N - 1)
      /\ t + n < N => s = t + n
      /\ t + n >= N => s = t + n - N
  BY Wrap
<1>2. k \in 0..(N - 1)
  OBVIOUS
<1>3. k = n + i
  OBVIOUS
<1> HIDE DEF s, k
<1>4. /\ t + k < N => (t + k) % N = t + k
      /\ t + k >= N => (t + k) % N = t + k - N
  BY <1>2, Wrap
<1>5. /\ s + i < N => (s + i) % N = s + i
      /\ s + i >= N => (s + i) % N = s + i - N
  BY <1>1, Wrap
<1>6. (s + i) % N = (t + k) % N
  BY <1>1, <1>2, <1>3, <1>4, <1>5
<1> QED
  BY <1>6 DEF s, k

\* What the counts and pointers of the receive path are, and how far apart: the
\* buffer and the queue together hold no more than a frame.
StreamTypes ==
    /\ sent \in Nat /\ received \in 0..sent /\ next \in Nat
    /\ sent - next + 1 <= Window
    /\ rx_head \in 0..(Fifo - 1) /\ rx_tail \in 0..(Fifo - 1)
    /\ en \in BOOLEAN /\ circ \in BOOLEAN /\ cndtr \in 0..Ring
    /\ guest \in {"boot", "run"}

\* A circular channel never stops, and what the driver knows of is in the
\* buffer.
ChannelInv ==
    /\ guest = "boot" => ~circ
    /\ guest = "run" /\ circ =>
          /\ en /\ cndtr # 0
          /\ read_ptr \in 0..(Ring - 1) /\ write_ptr \in 0..(Ring - 1)
          /\ (write_ptr - read_ptr) % Ring <= Unread
    /\ guest = "run" /\ ~circ =>
          /\ en <=> cndtr # 0
          /\ read_ptr \in 0..Ring /\ write_ptr \in 0..Ring
          /\ read_ptr <= write_ptr /\ write_ptr <= Ring - cndtr

StreamInv == StreamTypes /\ ChannelInv /\ StreamIntact

LEMMA Sizes == Fifo \in Nat \ {0} /\ Ring \in Nat \ {0} /\ Window \in Nat /\ Window < Ring
  BY SerialAssumption

\* Buffer and queue never hold more than the host may have in flight.
LEMMA StreamBounds ==
    ASSUME StreamInv
    PROVE  /\ Used \in 0..(Fifo - 1) /\ Unread \in Nat /\ Unread + Used < Ring
           /\ Unread + Used = received - next + 1
<1>1. Used \in 0..(Fifo - 1)
  BY Sizes, Wrap DEF Used, StreamInv, StreamTypes
<1>2. Unread \in Nat
  <2>1. CASE guest = "boot"
    BY <2>1 DEF Unread, StreamInv, ChannelInv
  <2>2. CASE guest = "run" /\ circ
    <3>1. Unread = (Ring - cndtr - read_ptr) % Ring
      BY <2>2 DEF Unread
    <3>2. Ring - cndtr - read_ptr \in Int
      BY <2>2, Sizes DEF StreamInv, StreamTypes, ChannelInv
    <3> QED
      BY <3>1, <3>2, Sizes
  <2>3. CASE guest = "run" /\ ~circ
    <3>1. Unread = Ring - cndtr - read_ptr
      BY <2>3 DEF Unread
    <3>2. cndtr \in 0..Ring /\ read_ptr \in 0..Ring /\ read_ptr <= Ring - cndtr
      BY <2>3, Sizes DEF StreamInv, StreamTypes, ChannelInv
    <3> QED
      BY <3>1, <3>2, Sizes
  <2> QED
    BY <2>1, <2>2, <2>3 DEF StreamInv, StreamTypes
<1>3. received = next + Unread + Used - 1
  BY DEF StreamInv, StreamIntact
<1> QED
  BY <1>1, <1>2, <1>3, Sizes DEF StreamInv, StreamTypes

\* The channel and the driver see nothing of a step that leaves them alone.
LEMMA UnreadKept ==
    ASSUME ChannelInv, UNCHANGED <<guest, circ, cndtr, en, read_ptr, write_ptr>>
    PROVE  Unread' = Unread /\ ChannelInv'
<1>1. Unread' = Unread
  BY DEF Unread
<1> QED
  BY <1>1 DEF ChannelInv

LEMMA HostSendStream ==
    ASSUME StreamInv, HostSend
    PROVE  StreamInv'
<1>1. /\ UNCHANGED <<received, rx_fifo, rx_head, rx_tail, en, circ, cndtr, mem>>
      /\ UNCHANGED <<guest, write_ptr, read_ptr, next>>
      /\ sent' = sent + 1 /\ sent - next + 1 < Window
  BY DEF HostSend, fifoVars, dmaVars, guestVars
<1>2. Unread' = Unread /\ ChannelInv' /\ Used' = Used
  BY <1>1, UnreadKept DEF StreamInv, Used
<1>3. StreamTypes'
  BY <1>1, Sizes DEF StreamInv, StreamTypes
<1> QED
  BY <1>1, <1>2, <1>3 DEF StreamInv, StreamIntact

LEMMA DeliverStream ==
    ASSUME StreamInv, NEW n \in 1..Fifo, py32_stub_receive(n)
    PROVE  StreamInv'
<1>1. /\ UNCHANGED <<sent, rx_tail, en, circ, cndtr, mem>>
      /\ UNCHANGED <<guest, write_ptr, read_ptr, next>>
      /\ n <= Fifo - 1 - Used /\ n <= sent - received /\ received' = received + n
  BY DEF py32_stub_receive, py32_stub_can_receive, dmaVars, guestVars
<1>2. Unread' = Unread /\ ChannelInv'
  BY <1>1, UnreadKept DEF StreamInv
<1>3. /\ Used \in 0..(Fifo - 1) /\ n \in 0..(Fifo - 1) /\ n < Fifo - Used
      /\ Fifo \in Nat \ {0} /\ Unread \in Nat
  BY <1>1, Sizes, StreamBounds
<1>4. /\ rx_fifo' = [i \in 0..(Fifo - 1) |->
                        LET k == (i - rx_head) % Fifo
                        IN IF k < n THEN received + k + 1 ELSE rx_fifo[i]]
      /\ rx_head' = (rx_head + n) % Fifo
  BY <1>3 DEF py32_stub_receive
<1>5. /\ rx_head \in 0..(Fifo - 1) /\ rx_tail \in 0..(Fifo - 1)
      /\ received \in Nat /\ next \in Nat /\ sent \in Nat
      /\ received = next + Unread + Used - 1
  BY DEF StreamInv, StreamTypes, StreamIntact
<1>6. rx_head' \in 0..(Fifo - 1) /\ Used' = Used + n
  <2>1. ((rx_head - rx_tail) % Fifo) + n < Fifo
    BY <1>3 DEF Used
  <2> QED
    BY <1>1, <1>3, <1>4, <1>5, <2>1, RingMove DEF Used
<1>7. StreamTypes'
  BY <1>1, <1>5, <1>6 DEF StreamInv, StreamTypes
<1>8. ASSUME NEW i \in 0..(Used' - 1)
      PROVE  rx_fifo'[(rx_tail + i) % Fifo] = next + Unread + i
  <2> DEFINE c == (rx_tail + i) % Fifo
  <2>1. i \in 0..(Fifo - 1)
    BY <1>3, <1>6
  <2>2. /\ c \in 0..(Fifo - 1)
        /\ i < Used => (c - rx_head) % Fifo = i - Used + Fifo
        /\ i >= Used => (c - rx_head) % Fifo = i - Used
    <3>1. c \in 0..(Fifo - 1)
      BY <1>3, <1>5, <2>1, RingCell
    <3>2. (c - rx_head) % Fifo = IF i < Used THEN i - Used + Fifo ELSE i - Used
      BY <1>3, <1>5, <2>1, RingCell DEF Used
    <3> HIDE DEF c
    <3> QED
      BY <1>3, <2>1, <3>1, <3>2
  <2> HIDE DEF c
  <2>3. CASE i < Used
    <3>1. ~((c - rx_head) % Fifo < n)
      BY <1>3, <2>1, <2>2, <2>3
    <3>2. rx_fifo'[c] = rx_fifo[c]
      BY <1>4, <2>2, <3>1
    <3>3. i \in 0..(Used - 1)
      BY <1>3, <2>1, <2>3
    <3> QED
      BY <3>2, <3>3 DEF StreamInv, StreamIntact, c
  <2>4. CASE i >= Used
    <3>1. (c - rx_head) % Fifo = i - Used /\ i - Used < n
      BY <1>3, <1>6, <2>1, <2>2, <2>4
    <3>2. rx_fifo'[c] = received + (i - Used) + 1
      BY <1>4, <2>2, <3>1
    <3>3. rx_fifo'[c] = next + Unread + i
      BY <1>3, <1>5, <2>1, <3>2
    <3> QED
      BY <3>3 DEF c
  <2> QED
    BY <1>3, <2>1, <2>3, <2>4
<1>9. received' = next + Unread + Used' - 1
  BY <1>1, <1>3, <1>5, <1>6
<1>10. \A i \in 0..(Unread - 1) : mem'[(read_ptr' + i) % Ring] = next' + i
  BY <1>1 DEF StreamInv, StreamIntact
<1> QED
  BY <1>1, <1>2, <1>7, <1>8, <1>9, <1>10 DEF StreamInv, StreamIntact

LEMMA ReadDrStream ==
    ASSUME StreamInv, ReadDr
    PROVE  StreamInv'
<1>1. /\ UNCHANGED <<sent, received, rx_fifo, rx_head, en, circ, cndtr, mem>>
      /\ UNCHANGED <<guest, write_ptr, read_ptr>>
      /\ guest = "boot" /\ Used # 0
      /\ rx_tail' = (rx_tail + 1) % Fifo /\ next' = rx_fifo[rx_tail] + 1
  BY DEF ReadDr, hostVars, dmaVars
<1>2. Unread' = Unread /\ ChannelInv' /\ Unread = 0
  BY <1>1, UnreadKept DEF StreamInv, ChannelInv, Unread
<1>3. Used \in 1..(Fifo - 1) /\ 1 \in 0..(Fifo - 1) /\ Fifo \in Nat \ {0}
  BY <1>1, Sizes, StreamBounds
<1>4. /\ rx_head \in 0..(Fifo - 1) /\ rx_tail \in 0..(Fifo - 1)
      /\ received \in Nat /\ next \in Nat /\ sent \in Nat
      /\ received = next + Used - 1
  BY <1>2, <1>3 DEF StreamInv, StreamTypes, StreamIntact
<1>5. rx_tail' \in 0..(Fifo - 1) /\ Used' = Used - 1
  <2>1. 1 <= (rx_head - rx_tail) % Fifo
    BY <1>3 DEF Used
  <2> QED
    BY <1>1, <1>3, <1>4, <2>1, RingMove DEF Used
<1>6. \A i \in 0..(Used - 1) : rx_fifo[(rx_tail + i) % Fifo] = next + i
  BY <1>2, <1>4 DEF StreamInv, StreamIntact
<1>7. next' = next + 1
  <2>1. (rx_tail + 0) % Fifo = rx_tail
    BY <1>3, <1>4
  <2>2. 0 \in 0..(Used - 1)
    BY <1>3
  <2>3. rx_fifo[rx_tail] = next + 0
    BY <1>6, <2>1, <2>2
  <2> QED
    BY <1>1, <1>4, <2>3
<1>8. ASSUME NEW i \in 0..(Used' - 1)
      PROVE  rx_fifo'[(rx_tail' + i) % Fifo] = next' + Unread' + i
  <2>1. i \in 0..(Fifo - 1) /\ 1 + i \in 0..(Used - 1) /\ 1 + i < Fifo
    BY <1>3, <1>5
  <2>2. (rx_tail' + i) % Fifo = (rx_tail + (1 + i)) % Fifo
    BY <1>1, <1>3, <1>4, <2>1, RingSum
  <2>3. rx_fifo[(rx_tail + (1 + i)) % Fifo] = next + (1 + i)
    BY <1>6, <2>1
  <2> QED
    BY <1>1, <1>2, <1>4, <1>7, <2>1, <2>2, <2>3
<1>9. StreamTypes'
  BY <1>1, <1>3, <1>4, <1>5, <1>7, Sizes DEF StreamInv, StreamTypes
<1>10. received' = next' + Unread' + Used' - 1
  <2>1. received' = received /\ Unread' = 0 /\ Used \in Nat /\ next \in Nat
    BY <1>1, <1>2, <1>3, <1>4
  <2>2. received = next + Used - 1 /\ Used' = Used - 1 /\ next' = next + 1
    BY <1>4, <1>5, <1>7
  <2> QED
    BY <2>1, <2>2
<1> QED
  BY <1>2, <1>8, <1>9, <1>10 DEF StreamInv, StreamIntact

\* Setting up the channel, when nothing is unread, and a reset leave the queue
\* as it is and the buffer empty.
LEMMA FreshStream ==
    ASSUME StreamInv, StreamTypes', ChannelInv', Unread' = 0,
           UNCHANGED <<sent, received, rx_fifo, rx_head, rx_tail>>,
           next' = next + Unread
    PROVE  StreamInv'
<1>1. Used' = Used
  BY DEF Used
<1>2. /\ next \in Nat /\ Unread \in Nat /\ Used \in Nat
      /\ received = next + Unread + Used - 1
  BY StreamBounds, Sizes DEF StreamInv, StreamTypes, StreamIntact
<1>3. \A i \in 0..(Used - 1) : rx_fifo'[(rx_tail' + i) % Fifo] = next' + 0 + i
  BY <1>2 DEF StreamInv, StreamIntact
<1>4. received' = next' + 0 + Used' - 1
  BY <1>1, <1>2
<1> QED
  BY <1>1, <1>3, <1>4 DEF StreamInv, StreamIntact

LEMMA ConfigureStream ==
    ASSUME StreamInv, NEW c \in BOOLEAN, Configure(c)
    PROVE  StreamInv'
<1>1. /\ UNCHANGED <<sent, received, rx_fifo, rx_head, rx_tail, mem, next>>
      /\ guest' = "run" /\ en' = TRUE /\ circ' = c /\ cndtr' = Ring
      /\ write_ptr' = 0 /\ read_ptr' = 0
  BY DEF Configure, hostVars, fifoVars
<1>2. Unread = 0
  <2>1. CASE guest = "boot"
    BY <2>1 DEF Unread, StreamInv, ChannelInv
  <2>2. CASE guest = "run" /\ ~en /\ read_ptr = Ring
    <3>1. ~circ
      BY <2>2 DEF StreamInv, ChannelInv
    <3>2. Unread = Ring - cndtr - read_ptr
      BY <2>2, <3>1 DEF Unread
    <3>3. cndtr \in 0..Ring /\ read_ptr <= Ring - cndtr
      BY <2>2, <3>1, Sizes DEF StreamInv, StreamTypes, ChannelInv
    <3> QED
      BY <2>2, <3>2, <3>3, Sizes
  <2> QED
    BY <2>1, <2>2 DEF Configure
<1>3. Ring - Ring - 0 = 0 /\ 0 % Ring = 0 /\ (0 - 0) % Ring = 0
  BY Sizes
<1>4. Unread' = 0
  <2>1. CASE c
    BY <1>1, <1>3, <2>1 DEF Unread
  <2>2. CASE ~c
    BY <1>1, <1>3, <2>2 DEF Unread
  <2> QED
    BY <2>1, <2>2
<1>5. StreamTypes'
  BY <1>1, Sizes DEF StreamInv, StreamTypes
<1>6. ChannelInv'
  BY <1>1, <1>3, <1>4, Sizes DEF ChannelInv
<1>7. next' = next + Unread
  BY <1>1, <1>2 DEF StreamInv, StreamTypes
<1> QED
  BY <1>1, <1>4, <1>5, <1>6, <1>7, FreshStream

LEMMA ResetStream ==
    ASSUME StreamInv, Reset
    PROVE  StreamInv'
<1>1. /\ UNCHANGED <<sent, received, rx_fifo, rx_head, rx_tail, mem>>
      /\ en' = FALSE /\ circ' = FALSE /\ cndtr' = 0 /\ guest' = "boot"
      /\ write_ptr' = 0 /\ read_ptr' = 0 /\ next' = received - Used + 1
  BY DEF Reset, hostVars, fifoVars
<1>2. Unread' = 0 /\ ChannelInv'
  BY <1>1 DEF Unread, ChannelInv
<1>3. next' = next + Unread /\ next \in Nat /\ Unread \in Nat
  BY <1>1, StreamBounds, Sizes DEF StreamInv, StreamTypes
<1>4. StreamTypes'
  <2>1. next' \in Nat /\ next' >= next
    BY <1>3
  <2>2. sent' - next' + 1 <= Window
    BY <1>1, <1>3, <2>1, Sizes DEF StreamInv, StreamTypes
  <2>3. /\ sent' \in Nat /\ received' \in 0..sent'
        /\ rx_head' \in 0..(Fifo - 1) /\ rx_tail' \in 0..(Fifo - 1)
    BY <1>1 DEF StreamInv, StreamTypes
  <2>4. cndtr' \in 0..Ring
    BY <1>1, Sizes
  <2>5. en' \in BOOLEAN /\ circ' \in BOOLEAN /\ guest' \in {"boot", "run"}
    BY <1>1
  <2> QED
    BY <2>1, <2>2, <2>3, <2>4, <2>5 DEF StreamTypes
<1> QED
  BY <1>1, <1>2, <1>3, <1>4, FreshStream

LEMMA ConsumeStream ==
    ASSUME StreamInv, Consume
    PROVE  StreamInv'
<1>1. /\ UNCHANGED <<sent, received, rx_fifo, rx_head, rx_tail, en, circ, cndtr, mem>>
      /\ UNCHANGED <<guest, write_ptr>>
      /\ guest = "run" /\ read_ptr # write_ptr
      /\ next' = mem[read_ptr] + 1
      /\ read_ptr' = IF circ THEN (read_ptr + 1) % Ring ELSE read_ptr + 1
  BY DEF Consume, hostVars, fifoVars, dmaVars
<1>2. /\ Unread \in Nat /\ Used \in Nat /\ Unread < Ring
      /\ next \in Nat /\ sent \in Nat /\ received \in Nat
      /\ received = next + Unread + Used - 1
  BY Sizes, StreamBounds DEF StreamInv, StreamTypes, StreamIntact
<1>3. Used' = Used
  BY <1>1 DEF Used
<1>4. /\ read_ptr \in 0..(Ring - 1) /\ Unread > 0 /\ Unread' = Unread - 1 /\ ChannelInv'
      /\ \A i \in 0..(Unread - 2) : (read_ptr' + i) % Ring = (read_ptr + (1 + i)) % Ring
  <2>1. CASE circ
    <3> DEFINE P == Ring - cndtr
    <3>1. /\ P \in 0..(Ring - 1) /\ read_ptr \in 0..(Ring - 1) /\ write_ptr \in 0..(Ring - 1)
          /\ (write_ptr - read_ptr) % Ring <= Unread /\ en
          /\ cndtr \in Nat \ {0}
      BY <1>1, <2>1, Sizes DEF StreamInv, StreamTypes, ChannelInv
    <3>2. Unread = (P - read_ptr) % Ring /\ Unread' = (P - read_ptr') % Ring
      BY <1>1, <2>1 DEF Unread
    <3>3. (write_ptr - read_ptr) % Ring \in Nat \ {0}
      BY <1>1, <3>1, Sizes, Wrap
    <3>4. Ring > 1
      BY <1>1, <3>1, Sizes
    <3>5. 1 \in 0..(Ring - 1) /\ read_ptr' = (read_ptr + 1) % Ring
      BY <1>1, <2>1, <3>4, Sizes
    <3>6. Unread > 0
      BY <1>2, <3>1, <3>3
    <3> HIDE DEF P
    <3>7. read_ptr' \in 0..(Ring - 1) /\ Unread' = Unread - 1
      BY <1>2, <3>1, <3>2, <3>5, <3>6, Sizes, RingMove
    <3>8. (write_ptr - read_ptr') % Ring = ((write_ptr - read_ptr) % Ring) - 1
      BY <3>1, <3>3, <3>5, Sizes, RingMove
    <3>9. (write_ptr' - read_ptr') % Ring <= Unread'
      BY <1>1, <1>2, <3>1, <3>3, <3>7, <3>8
    <3>10. ChannelInv'
      BY <1>1, <2>1, <3>1, <3>7, <3>9 DEF ChannelInv
    <3>11. ASSUME NEW i \in 0..(Unread - 2)
           PROVE  (read_ptr' + i) % Ring = (read_ptr + (1 + i)) % Ring
      <4>1. i \in 0..(Ring - 1) /\ 1 + i < Ring
        BY <1>2, Sizes
      <4> QED
        BY <3>1, <3>5, <4>1, Sizes, RingSum
    <3> QED
      BY <3>1, <3>6, <3>7, <3>10, <3>11
  <2>2. CASE ~circ
    <3>1. /\ read_ptr \in 0..Ring /\ write_ptr \in 0..Ring /\ cndtr \in 0..Ring
          /\ read_ptr <= write_ptr /\ write_ptr <= Ring - cndtr
      BY <1>1, <2>2 DEF StreamInv, StreamTypes, ChannelInv
    <3>2. /\ Unread = Ring - cndtr - read_ptr /\ Unread' = Ring - cndtr - read_ptr'
          /\ read_ptr' = read_ptr + 1
      BY <1>1, <2>2 DEF Unread
    <3>3. /\ read_ptr < write_ptr /\ read_ptr \in 0..(Ring - 1) /\ read_ptr' \in 0..Ring
          /\ Unread > 0 /\ Unread' = Unread - 1
      BY <1>1, <3>1, <3>2, Sizes
    <3>4. ChannelInv'
      BY <1>1, <2>2, <3>1, <3>2, <3>3, Sizes DEF StreamInv, ChannelInv
    <3>5. \A i \in 0..(Unread - 2) : read_ptr' + i = read_ptr + (1 + i)
      BY <1>2, <3>2, <3>3
    <3> QED
      BY <3>3, <3>4, <3>5
  <2> QED
    BY <2>1, <2>2
<1>5. \A i \in 0..(Unread - 1) : mem[(read_ptr + i) % Ring] = next + i
  BY DEF StreamInv, StreamIntact
<1>6. next' = next + 1
  <2>1. (read_ptr + 0) % Ring = read_ptr
    BY <1>4, Sizes
  <2>2. 0 \in 0..(Unread - 1)
    BY <1>2, <1>4
  <2>3. mem[read_ptr] = next + 0
    BY <1>5, <2>1, <2>2
  <2> QED
    BY <1>1, <1>2, <2>3
<1>7. ASSUME NEW i \in 0..(Unread' - 1)
      PROVE  mem'[(read_ptr' + i) % Ring] = next' + i
  <2>1. i \in 0..(Unread - 2) /\ 1 + i \in 0..(Unread - 1)
    BY <1>2, <1>4
  <2>2. mem[(read_ptr + (1 + i)) % Ring] = next + (1 + i)
    BY <1>5, <2>1
  <2>3. mem' = mem /\ (read_ptr' + i) % Ring = (read_ptr + (1 + i)) % Ring
    BY <1>1, <1>4, <2>1
  <2> QED
    BY <1>2, <1>6, <2>1, <2>2, <2>3
<1>8. next' + Unread' = next + Unread /\ next' >= next /\ next' \in Nat
  BY <1>2, <1>4, <1>6
<1>9. \A i \in 0..(Used' - 1) : rx_fifo'[(rx_tail' + i) % Fifo] = next' + Unread' + i
  BY <1>1, <1>3, <1>8 DEF StreamInv, StreamIntact
<1>10. received' = next' + Unread' + Used' - 1
  BY <1>1, <1>2, <1>3, <1>8
<1>11. StreamTypes'
  <2>1. sent' - next' + 1 <= Window
    BY <1>1, <1>2, <1>8, Sizes DEF StreamInv, StreamTypes
  <2> QED
    BY <1>1, <1>8, <2>1 DEF StreamInv, StreamTypes
<1> QED
  BY <1>4, <1>7, <1>9, <1>10, <1>11 DEF StreamInv, StreamIntact

\* The channel's write position after n bytes, in circular mode.
LEMMA CountIs ==
    ASSUME cndtr \in 1..Ring, circ, NEW n \in 0..(Ring - 1)
    PROVE  /\ CountAfter(n) \in 1..Ring
           /\ Ring - CountAfter(n) = ((Ring - cndtr) + n) % Ring
<1> DEFINE P == Ring - cndtr
           m == cndtr - n - 1
<1>1. P \in 0..(Ring - 1) /\ Ring \in Nat \ {0} /\ m \in Int /\ m = Ring - P - n - 1
  BY Sizes
<1>2. CountAfter(n) = (m % Ring) + 1
  BY DEF CountAfter
<1> HIDE DEF P, m
<1>3. /\ P + n < Ring => (P + n) % Ring = P + n
      /\ P + n >= Ring => (P + n) % Ring = P + n - Ring
  BY <1>1, Wrap
<1>4. m >= 0 /\ m < Ring => m % Ring = m
  BY <1>1
<1>5. m < 0 /\ m >= -Ring => m % Ring = m + Ring
  BY <1>1
<1>6. Ring - ((m % Ring) + 1) = (P + n) % Ring /\ (m % Ring) + 1 \in 1..Ring
  BY <1>1, <1>3, <1>4, <1>5
<1> QED
  BY <1>2, <1>6 DEF P

\* What a read of a count moves: the first n bytes of the queue, to the cells
\* behind the unread ones.
LEMMA ServiceMoves ==
    ASSUME StreamInv, guest = "run", py32_dma_service_usart_rx,
           UNCHANGED <<guest, read_ptr>>
    PROVE  \E n \in 0..Used :
             /\ circ' = circ /\ rx_fifo' = rx_fifo /\ rx_head' = rx_head
             /\ rx_tail' = (rx_tail + n) % Fifo
             /\ Unread' = Unread + n
             /\ cndtr' \in 0..Ring /\ en' \in BOOLEAN
             /\ IF circ THEN en' /\ cndtr' # 0
                        ELSE (en' <=> cndtr' # 0) /\ cndtr' <= cndtr
             /\ \A i \in 0..(Unread - 1) :
                   mem'[(read_ptr + i) % Ring] = mem[(read_ptr + i) % Ring]
             /\ \A k \in 0..(n - 1) :
                   mem'[(read_ptr + (Unread + k)) % Ring] = rx_fifo[(rx_tail + k) % Fifo]
<1> DEFINE n == IF ~en THEN 0 ELSE IF circ \/ Used < cndtr THEN Used ELSE cndtr
           P == Ring - cndtr
<1>1. /\ mem' = [i \in 0..(Ring - 1) |->
                    LET k == (i - P) % Ring
                    IN IF k < n THEN rx_fifo[(rx_tail + k) % Fifo] ELSE mem[i]]
      /\ rx_tail' = (rx_tail + n) % Fifo
      /\ cndtr' = CountAfter(n) /\ en' = (en /\ cndtr' # 0)
      /\ UNCHANGED <<circ, rx_fifo, rx_head>>
  BY DEF py32_dma_service_usart_rx
<1>2. /\ Used \in Nat /\ Unread \in Nat /\ Unread + Used < Ring
      /\ cndtr \in 0..Ring /\ en \in BOOLEAN /\ circ \in BOOLEAN /\ Ring \in Nat \ {0}
  BY Sizes, StreamBounds DEF StreamInv, StreamTypes
<1>3. n \in 0..Used /\ n \in 0..(Ring - 1) /\ Unread + n < Ring
  BY <1>2
<1>4. /\ Unread' = Unread + n
      /\ cndtr' \in 0..Ring /\ en' \in BOOLEAN
      /\ IF circ THEN en' /\ cndtr' # 0
                 ELSE (en' <=> cndtr' # 0) /\ cndtr' <= cndtr
      /\ \A i \in 0..(Unread + n - 1) :
            /\ (read_ptr + i) % Ring \in 0..(Ring - 1)
            /\ i < Unread => ~((((read_ptr + i) % Ring) - P) % Ring < n)
            /\ i >= Unread => (((read_ptr + i) % Ring) - P) % Ring = i - Unread
  <2>1. CASE circ
    <3>1. /\ P \in 0..(Ring - 1) /\ read_ptr \in 0..(Ring - 1) /\ en
          /\ cndtr \in 1..Ring
      BY <1>2, <2>1 DEF StreamInv, ChannelInv
    <3>2. Unread = (P - read_ptr) % Ring
      BY <2>1 DEF Unread
    <3> HIDE DEF n
    <3>3. cndtr' \in 1..Ring /\ Ring - cndtr' = (P + n) % Ring
      BY <1>1, <1>3, <2>1, <3>1, CountIs
    <3>4. Unread' = (((P + n) % Ring) - read_ptr) % Ring
      BY <1>1, <2>1, <3>3 DEF Unread
    <3> HIDE DEF P
    <3>5. Unread' = Unread + n
      BY <1>2, <1>3, <3>1, <3>2, <3>4, RingMove
    <3>6. en' /\ cndtr' # 0 /\ cndtr' \in 0..Ring
      <4>1. cndtr' # 0 /\ cndtr' \in 0..Ring
        BY <1>2, <3>3
      <4>2. en' <=> (en /\ cndtr' # 0)
        BY <1>1
      <4> QED
        BY <3>1, <4>1, <4>2
    <3>7. ASSUME NEW i \in 0..(Unread + n - 1)
          PROVE  /\ (read_ptr + i) % Ring \in 0..(Ring - 1)
                 /\ i < Unread => (((read_ptr + i) % Ring) - P) % Ring = i - Unread + Ring
                 /\ i >= Unread => (((read_ptr + i) % Ring) - P) % Ring = i - Unread
      <4>1. i \in 0..(Ring - 1)
        BY <1>2, <1>3
      <4>p. P \in 0..(Ring - 1) /\ read_ptr \in 0..(Ring - 1) /\ Ring \in Nat \ {0}
        BY <1>2, <3>1
      <4>2. LET u == (P - read_ptr) % Ring
            IN /\ (read_ptr + i) % Ring \in 0..(Ring - 1)
               /\ i < u => (((read_ptr + i) % Ring) - P) % Ring = i - u + Ring
               /\ i >= u => (((read_ptr + i) % Ring) - P) % Ring = i - u
        <5>1. PICK p \in 0..(Ring - 1) : p = P
          BY <4>p
        <5>2. PICK r \in 0..(Ring - 1) : r = read_ptr
          BY <4>p
        <5> DEFINE u == (p - r) % Ring
                   c == (r + i) % Ring
        <5>3. /\ c \in 0..(Ring - 1)
              /\ i < u => (c - p) % Ring = i - u + Ring
              /\ i >= u => (c - p) % Ring = i - u
          <6>1. /\ i \in 0..(Ring - 1) /\ p \in 0..(Ring - 1) /\ r \in 0..(Ring - 1)
                /\ Ring \in Nat \ {0}
            BY <4>1, <4>p, <5>1, <5>2
          <6>2. c \in 0..(Ring - 1)
            BY <6>1, RingCell
          <6>3. (c - p) % Ring = IF i < u THEN i - u + Ring ELSE i - u
            BY <6>1, RingCell
          <6>4. u \in 0..(Ring - 1)
            BY <6>1, RingCell
          <6> HIDE DEF u, c
          <6> QED
            BY <6>1, <6>2, <6>3, <6>4
        <5> QED
          BY <5>1, <5>2, <5>3
      <4> QED
        BY <3>2, <4>2
    <3>8. ASSUME NEW i \in 0..(Unread + n - 1), i < Unread
          PROVE  ~((((read_ptr + i) % Ring) - P) % Ring < n)
      <4>1. (((read_ptr + i) % Ring) - P) % Ring = i - Unread + Ring
        BY <3>7, <3>8
      <4> QED
        BY <1>2, <1>3, <4>1
    <3> QED
      BY <2>1, <3>5, <3>6, <3>7, <3>8
  <2>2. CASE ~circ
    <3>1. /\ P \in 0..Ring /\ read_ptr \in 0..Ring /\ read_ptr <= P
          /\ (en <=> cndtr # 0)
      BY <1>2, <2>2 DEF StreamInv, StreamTypes, ChannelInv
    <3>2. Unread = P - read_ptr
      BY <2>2 DEF Unread
    <3>3. n <= cndtr
      BY <1>2, <2>2
    <3>4. cndtr' = cndtr - n
      BY <1>1, <2>2 DEF CountAfter
    <3>5. Unread' = Ring - cndtr' - read_ptr
      BY <1>1, <2>2 DEF Unread
    <3>6. cndtr' \in 0..Ring /\ cndtr' <= cndtr /\ Unread' = Unread + n
      BY <1>2, <1>3, <3>1, <3>2, <3>3, <3>4, <3>5
    <3>7. en' \in BOOLEAN /\ (en' <=> cndtr' # 0)
      <4>1. en' <=> (en /\ cndtr' # 0)
        BY <1>1
      <4>2. cndtr' # 0 => cndtr # 0
        BY <1>2, <3>6
      <4>3. en' \in BOOLEAN
        BY <1>1
      <4> QED
        BY <3>1, <4>1, <4>2, <4>3
    <3>8. ASSUME NEW i \in 0..(Unread + n - 1)
          PROVE  /\ (read_ptr + i) % Ring \in 0..(Ring - 1)
                 /\ i < Unread => ~((((read_ptr + i) % Ring) - P) % Ring < n)
                 /\ i >= Unread => (((read_ptr + i) % Ring) - P) % Ring = i - Unread
      <4> HIDE DEF n
      <4>1. read_ptr + i < Ring /\ read_ptr + i >= 0 /\ i \in Nat
        BY <1>2, <1>3, <3>1, <3>2, <3>3
      <4>2. (read_ptr + i) % Ring = read_ptr + i
        BY <1>2, <3>1, <4>1
      <4>3. read_ptr + i - P = i - Unread
        BY <1>2, <3>1, <3>2, <4>1
      <4>4. ASSUME i >= Unread PROVE (i - Unread) % Ring = i - Unread
        BY <1>2, <1>3, <4>1, <4>4
      <4>5. ASSUME i < Unread PROVE ~((i - Unread) % Ring < n)
        <5>1. (i - Unread) % Ring = i - Unread + Ring
          BY <1>2, <1>3, <4>1, <4>5
        <5> QED
          BY <1>2, <1>3, <4>1, <4>5, <5>1
      <4> DEFINE c == (read_ptr + i) % Ring
      <4>6. c \in 0..(Ring - 1) /\ c - P = i - Unread
        <5>1. c = read_ptr + i
          BY <4>2
        <5> HIDE DEF c, P
        <5>2. read_ptr + i \in 0..(Ring - 1)
          BY <1>2, <3>1, <4>1
        <5> QED
          BY <1>2, <3>1, <4>3, <5>1, <5>2
      <4> HIDE DEF c
      <4>7. /\ i < Unread => ~((c - P) % Ring < n)
            /\ i >= Unread => (c - P) % Ring = i - Unread
        BY <4>4, <4>5, <4>6
      <4> QED
        BY <4>6, <4>7 DEF c
    <3> HIDE DEF n, P
    <3> QED
      BY <2>2, <3>6, <3>7, <3>8
  <2> QED
    BY <2>1, <2>2
<1> HIDE DEF n, P
<1>5. ASSUME NEW i \in 0..(Unread - 1)
      PROVE  mem'[(read_ptr + i) % Ring] = mem[(read_ptr + i) % Ring]
  <2>1. i \in 0..(Unread + n - 1) /\ i < Unread
    BY <1>2, <1>3
  <2>2. /\ (read_ptr + i) % Ring \in 0..(Ring - 1)
        /\ ~((((read_ptr + i) % Ring) - P) % Ring < n)
    BY <1>4, <2>1
  <2> QED
    BY <1>1, <2>2
<1>6. ASSUME NEW k \in 0..(n - 1)
      PROVE  mem'[(read_ptr + (Unread + k)) % Ring] = rx_fifo[(rx_tail + k) % Fifo]
  <2> DEFINE i == Unread + k
  <2>1. i \in 0..(Unread + n - 1) /\ i >= Unread /\ i - Unread = k /\ k < n
    BY <1>2, <1>3
  <2> HIDE DEF i
  <2>2. /\ (read_ptr + i) % Ring \in 0..(Ring - 1)
        /\ (((read_ptr + i) % Ring) - P) % Ring = k
    BY <1>4, <2>1
  <2>3. mem'[(read_ptr + i) % Ring] = rx_fifo[(rx_tail + k) % Fifo]
    BY <1>1, <2>1, <2>2
  <2> QED
    BY <2>3 DEF i
<1> QED
  BY <1>1, <1>3, <1>4, <1>5, <1>6

LEMMA ServiceStream ==
    ASSUME StreamInv, guest = "run", py32_dma_service_usart_rx,
           UNCHANGED <<sent, received, guest, read_ptr, next>>,
           write_ptr' = write_ptr \/ write_ptr' = Ring - cndtr'
    PROVE  StreamInv'
<1>1. PICK n \in 0..Used :
         /\ circ' = circ /\ rx_fifo' = rx_fifo /\ rx_head' = rx_head
         /\ rx_tail' = (rx_tail + n) % Fifo
         /\ Unread' = Unread + n
         /\ cndtr' \in 0..Ring /\ en' \in BOOLEAN
         /\ IF circ THEN en' /\ cndtr' # 0
                    ELSE (en' <=> cndtr' # 0) /\ cndtr' <= cndtr
         /\ \A i \in 0..(Unread - 1) :
               mem'[(read_ptr + i) % Ring] = mem[(read_ptr + i) % Ring]
         /\ \A k \in 0..(n - 1) :
               mem'[(read_ptr + (Unread + k)) % Ring] = rx_fifo[(rx_tail + k) % Fifo]
  BY ServiceMoves
<1>2. /\ Used \in 0..(Fifo - 1) /\ n \in 0..(Fifo - 1) /\ n <= Used
      /\ Unread \in Nat /\ Unread + n < Ring
      /\ Fifo \in Nat \ {0} /\ Ring \in Nat \ {0}
  BY Sizes, StreamBounds
<1>3. /\ rx_head \in 0..(Fifo - 1) /\ rx_tail \in 0..(Fifo - 1)
      /\ received \in Nat /\ next \in Nat
      /\ received = next + Unread + Used - 1
      /\ \A i \in 0..(Unread - 1) : mem[(read_ptr + i) % Ring] = next + i
      /\ \A i \in 0..(Used - 1) : rx_fifo[(rx_tail + i) % Fifo] = next + Unread + i
  BY DEF StreamInv, StreamTypes, StreamIntact
<1>4. rx_tail' \in 0..(Fifo - 1) /\ Used' = Used - n
  <2>1. n <= (rx_head - rx_tail) % Fifo
    BY <1>2 DEF Used
  <2>2. /\ (rx_tail + n) % Fifo \in 0..(Fifo - 1)
        /\ (rx_head - ((rx_tail + n) % Fifo)) % Fifo = ((rx_head - rx_tail) % Fifo) - n
    BY <1>2, <1>3, <2>1, RingMove
  <2>3. rx_head' = rx_head /\ rx_tail' = (rx_tail + n) % Fifo
    BY <1>1
  <2>4. /\ Used = (rx_head - rx_tail) % Fifo
        /\ Used' = (rx_head' - rx_tail') % Fifo
    BY DEF Used
  <2>5. Used' = (rx_head - ((rx_tail + n) % Fifo)) % Fifo
    BY <2>3, <2>4
  <2>6. Used' = Used - n
    BY <2>2, <2>4, <2>5
  <2> QED
    BY <2>2, <2>3, <2>6
<1>5. StreamTypes'
  BY <1>1, <1>4 DEF StreamInv, StreamTypes
<1>6. ASSUME NEW i \in 0..(Used' - 1)
      PROVE  rx_fifo'[(rx_tail' + i) % Fifo] = next' + Unread' + i
  <2>1. i \in 0..(Fifo - 1) /\ n + i \in 0..(Used - 1) /\ n + i < Fifo
    BY <1>2, <1>4
  <2>2. (rx_tail' + i) % Fifo = (rx_tail + (n + i)) % Fifo
    BY <1>1, <1>2, <1>3, <2>1, RingSum
  <2>3. rx_fifo[(rx_tail + (n + i)) % Fifo] = next + Unread + (n + i)
    BY <1>3, <2>1
  <2>4. rx_fifo' = rx_fifo /\ Unread' = Unread + n
    BY <1>1
  <2> QED
    BY <1>2, <1>3, <2>1, <2>2, <2>3, <2>4
<1>7. ASSUME NEW i \in 0..(Unread' - 1)
      PROVE  mem'[(read_ptr' + i) % Ring] = next' + i
  <2>1. CASE i < Unread
    <3>1. i \in 0..(Unread - 1)
      BY <1>1, <1>2, <2>1
    <3> QED
      BY <1>1, <1>3, <3>1
  <2>2. CASE i >= Unread
    <3> DEFINE k == i - Unread
    <3>1. /\ k \in 0..(n - 1) /\ k \in 0..(Used - 1) /\ i = Unread + k
      BY <1>1, <1>2, <2>2
    <3> HIDE DEF k
    <3>2. mem'[(read_ptr + (Unread + k)) % Ring] = rx_fifo[(rx_tail + k) % Fifo]
      BY <1>1, <3>1
    <3>3. rx_fifo[(rx_tail + k) % Fifo] = next + Unread + k
      BY <1>3, <3>1
    <3> QED
      BY <1>2, <1>3, <3>1, <3>2, <3>3
  <2> QED
    BY <1>1, <1>2, <2>1, <2>2
<1>8. received' = next' + Unread' + Used' - 1
  <2>1. Unread' = Unread + n /\ received' = received /\ next' = next
    BY <1>1
  <2> QED
    BY <1>2, <1>3, <1>4, <2>1
<1>9. ChannelInv'
  <2>1. CASE circ
    <3>1. /\ read_ptr \in 0..(Ring - 1) /\ write_ptr \in 0..(Ring - 1)
          /\ (write_ptr - read_ptr) % Ring <= Unread
      BY <2>1 DEF StreamInv, ChannelInv
    <3>2. cndtr' \in 1..Ring /\ Ring - cndtr' \in 0..(Ring - 1) /\ Unread' = Unread + n
      <4>1. cndtr' \in 0..Ring /\ cndtr' # 0 /\ Unread' = Unread + n
        BY <1>1, <2>1
      <4>2. PICK d \in 1..Ring : d = cndtr'
        BY <4>1, Sizes
      <4>3. Ring - d \in 0..(Ring - 1)
        BY Sizes
      <4> QED
        BY <4>1, <4>2, <4>3
    <3>3. (write_ptr' - read_ptr') % Ring <= Unread' /\ write_ptr' \in 0..(Ring - 1)
      <4>1. CASE write_ptr' = write_ptr
        <5>1. (write_ptr - read_ptr) % Ring \in Nat
          BY <1>2, <3>1, Wrap
        <5> QED
          BY <1>2, <3>1, <3>2, <4>1, <5>1
      <4>2. CASE write_ptr' = Ring - cndtr'
        <5>1. Unread' = (Ring - cndtr' - read_ptr') % Ring
          BY <1>1, <2>1 DEF Unread
        <5>2. Unread' \in Nat
          BY <1>2, <3>2
        <5> QED
          BY <3>2, <4>2, <5>1, <5>2
      <4> QED
        BY <4>1, <4>2
    <3> QED
      BY <1>1, <2>1, <3>1, <3>2, <3>3 DEF ChannelInv
  <2>2. CASE ~circ
    <3>1. /\ read_ptr \in 0..Ring /\ write_ptr \in 0..Ring /\ cndtr \in 0..Ring
          /\ read_ptr <= write_ptr /\ write_ptr <= Ring - cndtr
      BY <2>2 DEF StreamInv, StreamTypes, ChannelInv
    <3>2. cndtr' \in 0..Ring /\ cndtr' <= cndtr /\ (en' <=> cndtr' # 0)
      BY <1>1, <2>2
    <3>3. /\ write_ptr' \in 0..Ring /\ read_ptr <= write_ptr' /\ write_ptr' <= Ring - cndtr'
      BY <1>2, <3>1, <3>2
    <3> QED
      BY <1>1, <2>2, <3>1, <3>2, <3>3 DEF ChannelInv
  <2> QED
    BY <2>1, <2>2
<1> QED
  BY <1>5, <1>6, <1>7, <1>8, <1>9 DEF StreamInv, StreamIntact

LEMMA NextStream ==
    ASSUME StreamInv, Next
    PROVE  StreamInv'
<1>1. CASE ReadCount
  BY <1>1, ServiceStream DEF ReadCount, hostVars
<1>2. CASE ReadOtherCount
  BY <1>2, ServiceStream DEF ReadOtherCount, hostVars, guestVars
<1>3. CASE Deliver
  BY <1>3, DeliverStream DEF Deliver
<1> QED
  BY <1>1, <1>2, <1>3, HostSendStream, ReadDrStream, ConfigureStream, ConsumeStream,
     ResetStream DEF Next

LEMMA InitStream == Init => StreamInv
<1> SUFFICES ASSUME Init PROVE StreamInv
  OBVIOUS
<1>1. (0 - 0) % Fifo = 0
  BY Sizes
<1>2. Used = 0 /\ Unread = 0
  BY <1>1 DEF Init, Used, Unread
<1>3. StreamTypes
  <2>1. 0 \in 0..(Fifo - 1) /\ 0 \in 0..Ring /\ 0 \in 0..0 /\ 0 - 1 + 1 <= Window
    BY Sizes
  <2> QED
    BY <2>1 DEF Init, StreamTypes
<1>4. ChannelInv
  BY DEF Init, ChannelInv
<1>5. StreamIntact
  BY <1>2 DEF Init, StreamIntact
<1> QED
  BY <1>3, <1>4, <1>5 DEF StreamInv

LEMMA SameStream ==
    ASSUME StreamInv, UNCHANGED vars
    PROVE  StreamInv'
<1>1. /\ UNCHANGED <<sent, received, rx_fifo, rx_head, rx_tail, en, circ, cndtr, mem>>
      /\ UNCHANGED <<guest, write_ptr, read_ptr, next>>
  BY DEF vars, hostVars, fifoVars, dmaVars, guestVars
<1>2. Unread' = Unread /\ ChannelInv' /\ Used' = Used
  BY <1>1, UnreadKept DEF StreamInv, Used
<1> QED
  BY <1>1, <1>2 DEF StreamInv, StreamTypes, StreamIntact

(***************************************************************************)
(* For any queue no longer than the guest's buffer and any frame shorter   *)
(* than it, whatever the host sends and however often the machine is       *)
(* reset: no byte is lost, repeated or overtaken between the host and the  *)
(* driver, whenever the counts are read.                                   *)
(***************************************************************************)
THEOREM LinkStreamIntact == LinkSpec => []StreamIntact
<1>1. LinkInit => StreamInv
  BY InitStream DEF LinkInit
<1>2. StreamInv /\ [LinkNext]_allVars => StreamInv'
  BY NextStream, SameStream DEF LinkNext, allVars
<1>3. StreamInv => StreamIntact
  BY DEF StreamInv
<1> QED
  BY <1>1, <1>2, <1>3, PTL DEF LinkSpec

=============================================================================
