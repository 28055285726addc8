----------------------------- MODULE SerialFrames -----------------------------
(***************************************************************************)
(* The framing of the programming protocol, as the host side sees it: the  *)
(* Frames class of tools/uvk5_serial_flash.py, which the flasher and the   *)
(* slot tool share, over a byte stream that recv may cut anywhere.         *)
(*                                                                         *)
(* A frame is three tokens: the first byte of MAGIC, its second byte, and  *)
(* everything after it, which stands for the message.  "noise" is a MAGIC  *)
(* that occurs in the screen the firmware streams down the same link: the  *)
(* length read after it reaches over Reach tokens, and no END is there.    *)
(***************************************************************************)
EXTENDS Integers, Sequences, SequencesExt

CONSTANT Reach
ASSUME ReachAssumption == Reach \in Nat

VARIABLES
    tool,   \* which program has opened the link
    toDev,  \* commands on their way to the device, oldest first
    wire,   \* what the device has sent and the host has not read
    buf     \* Frames._buf

linkVars == <<toDev, wire, buf>>

AB == [id |-> "AB"]
CD == [id |-> "CD"]
NoMessage == [id |-> "none"]

\* One frame on the wire.
build(m) == <<AB, CD, m>>

-----------------------------------------------------------------------------
\* Where find(MAGIC) can stop: not at a first byte whose second is not there.
Magics(b) ==
    {i \in DOMAIN b : \/ b[i].id = "noise"
                      \/ b[i].id = "AB" /\ i < Len(b) /\ b[i + 1].id = "CD"}

\* A MAGIC whose END turns out to be missing is skipped and the search goes on.
Kept(b) == {i \in Magics(b) : b[i].id = "noise" => i + Reach > Len(b)}

\* Frames.take: the next message and what stays in the buffer.
take(b) ==
    IF Kept(b) = {} THEN [msg |-> NoMessage, rest |-> <<>>]
    ELSE LET start == Min(Kept(b))
         IN IF b[start].id = "noise" \/ start + 2 > Len(b)
            THEN [msg |-> NoMessage, rest |-> SubSeq(b, start, Len(b))]
            ELSE [msg |-> b[start + 2], rest |-> SubSeq(b, start + 3, Len(b))]

\* "while True: msg = take(); if msg is None: break" ends at the first MAGIC
\* whose frame is not complete yet.
Stops(b) == {i \in Kept(b) : b[i].id = "noise" \/ i + 2 > Len(b)}

\* The messages it takes on its way there ...
Taken(b) == {i + 2 : i \in {k \in Kept(b) : \A s \in Stops(b) : k < s}}

\* ... and what stays in the buffer.
Left(b) == IF Stops(b) = {} THEN <<>> ELSE SubSeq(b, Min(Stops(b)), Len(b))

\* The last one with this id, of a dictionary or a variable that keeps one.
Latest(b, id) ==
    LET at == {i \in Taken(b) : b[i].id = id}
    IN IF at = {} THEN NoMessage ELSE b[Max(at)]

\* Frames.feed: recv returns some of what has arrived.
feed ==
    /\ wire # <<>>
    /\ buf' = Append(buf, Head(wire))
    /\ wire' = Tail(wire)
    /\ UNCHANGED toDev

-----------------------------------------------------------------------------
\* The device answers the oldest command, or drops it.
Answer(m) ==
    /\ toDev' = Tail(toDev)
    /\ wire' = wire \o build(m)
    /\ UNCHANGED buf

Drop ==
    /\ toDev' = Tail(toDev)
    /\ UNCHANGED <<wire, buf>>

\* The firmware streams its screen.
Stream ==
    /\ wire' = Append(wire, [id |-> "noise"])
    /\ UNCHANGED <<toDev, buf>>

Send(m) == toDev' = Append(toDev, m)

\* Nothing is on its way to the host any more.
Quiet == toDev = <<>> /\ wire = <<>>

=============================================================================
