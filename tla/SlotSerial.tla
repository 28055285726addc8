------------------------------ MODULE SlotSerial ------------------------------
(***************************************************************************)
(* The slot commands over the serial link: the Radio class, install and    *)
(* main of tools/uvk5_slots_serial.py, and the /api/apps/radio handler of  *)
(* tools/webui.py that asks the firmware about each app slot.              *)
(*                                                                         *)
(* The firmware at the other end is external.  It takes the commands in    *)
(* order, drops the odd one when it is busy, leaves its serial mode when   *)
(* no handshake comes for a while, and answers with the id of the command  *)
(* and nothing that says which one: "of" is there for the properties, but  *)
(* for an app, whose answer names the slot.                                *)
(***************************************************************************)
EXTENDS SerialFrames

CONSTANTS
    Chunks,         \* chunks of the image
    Renew,          \* chunks after which write renews the session: 25
    AppSlots,       \* uvk5_apps.SLOT_COUNT
    Tries,          \* tries of _command: 4
    Handshakes,     \* attempts of session: 6
    MaxPremature,   \* bound on the waits that end before an answer in flight
    MaxFaults       \* bound on commands dropped or refused and screens streamed

ASSUME SlotSerialAssumption ==
    /\ Chunks \in Nat \ {0} /\ Renew \in Nat \ {0} /\ AppSlots \in Nat \ {0}
    /\ Tries \in Nat \ {0} /\ Handshakes \in Nat \ {0}
    /\ MaxPremature \in Nat /\ MaxFaults \in Nat

VARIABLES
    rstate,     \* "send", "wait", or how it ended: "ok" or "failed"
    rstep,      \* the step of the script it is at
    talking,    \* "command", or "session" while a handshake is made
    attempt, handshakes,
    cells,      \* the slot: its header, cell 0, and the chunks of the image
    listening,  \* the firmware is in its serial mode
    faults,
    premature,  \* waits that ended with an answer still in flight (history)
    misread     \* an answer was taken for that of another command (history)

radioVars == <<rstate, rstep, talking, attempt, handshakes, premature, misread>>
slotVars  == <<cells, listening>>

-----------------------------------------------------------------------------
Cmd(id, of) == [id |-> id, of |-> of]
Hello == Cmd("hello", 0)

\* Radio.write of the image: after every Renew chunks a session.
ImageWrites ==
    [p \in 1..(Chunks + (Chunks - 1) \div Renew) |->
        IF p % (Renew + 1) = 0 THEN Hello ELSE Cmd("write", p - p \div (Renew + 1))]

\* install: erase, the header, the image, validate.
Install == <<Cmd("erase", 0), Cmd("write", 0)>> \o ImageWrites \o <<Cmd("validate", 0)>>

\* api_apps_radio asks about one app slot after the other.
AskApps == [s \in 1..AppSlots |-> Cmd("app", s)]

\* main and api_apps_radio both begin with a session.
Script ==
    <<Hello>> \o CASE tool = "install" -> Install
                   [] tool = "info"    -> <<Cmd("info", 0)>>
                   [] tool = "apps"    -> AskApps

Command == Script[rstep]
Wanted == IF talking = "session" THEN Hello ELSE Command

\* Mutant: the answer to validate is not looked at.
AcceptsUnvalidated(ack) == Command.id \in {"erase", "write"} => ack.status = 0

\* Radio.validate: the device's verdict, and the CRC the host computed too.
Validated(ack) == ack.status = 0 /\ ack.crc

\* What the caller of _command does with the answer.
Accepts(ack) ==
    CASE Command.id \in {"erase", "write"} -> ack.status = 0
      [] Command.id = "validate"           -> Validated(ack)
      [] OTHER                             -> TRUE

-----------------------------------------------------------------------------
\* _read_loop, on a thread of its own: frames grow whatever _pump waits for.
ReadLoop == feed /\ UNCHANGED <<radioVars, slotVars, faults>>

RadioSend ==
    /\ rstate = "send"
    /\ Send(Wanted)
    /\ rstate' = "wait"
    /\ UNCHANGED <<wire, buf, rstep, talking, attempt, handshakes, premature, misread>>
    /\ UNCHANGED <<slotVars, faults>>

\* One look of _pump at what the reader has fed, the answer it waits for not
\* being there: other messages are forgotten when it returns.
PumpLooks ==
    /\ rstate = "wait" /\ Latest(buf, Wanted.id) = NoMessage
    /\ buf # Left(buf)
    /\ buf' = Left(buf)
    /\ UNCHANGED <<toDev, wire, radioVars, slotVars, faults>>

\* The next step of the script, or its end.
Advance ==
    /\ rstep' = rstep + 1
    /\ rstate' = IF rstep = Len(Script) THEN "ok" ELSE "send"
    /\ talking' = IF rstep < Len(Script) /\ Script[rstep + 1] = Hello
                  THEN "session" ELSE "command"
    /\ attempt' = 1 /\ handshakes' = 1

\* Radio.session got its 0x0515, for itself or between two tries of a command.
SessionUp ==
    /\ rstate = "wait" /\ talking = "session"
    /\ Latest(buf, "hello") # NoMessage
    /\ buf' = Left(buf)
    /\ IF Command = Hello THEN Advance
       ELSE /\ talking' = "command" /\ rstate' = "send" /\ handshakes' = 1
            /\ UNCHANGED <<rstep, attempt>>
    /\ UNCHANGED <<toDev, wire, premature, misread, slotVars, faults>>

\* _command returns an answer with the id it waits for, the last of them.
CommandAnswered ==
    LET ack == Latest(buf, Command.id)
    IN /\ rstate = "wait" /\ talking = "command" /\ ack # NoMessage
       /\ buf' = Left(buf)
       /\ misread' = (misread \/ ack.of # Command.of)
       /\ IF Accepts(ack) THEN Advance
          ELSE rstate' = "failed" /\ UNCHANGED <<rstep, talking, attempt, handshakes>>
       /\ UNCHANGED <<toDev, wire, premature, slotVars, faults>>

-----------------------------------------------------------------------------
\* A wait may end at any time; the reader may hold an answer already.
AnswerComing == ~Quiet \/ \E i \in DOMAIN buf : buf[i].id \notin {"AB", "CD", "noise"}
WaitEnds ==
    /\ rstate = "wait"
    /\ Quiet \/ premature < MaxPremature
    /\ premature' = premature + IF AnswerComing THEN 1 ELSE 0
    /\ UNCHANGED <<linkVars, misread, slotVars, faults, rstep>>

\* Mutant: the command is sent again without a handshake before it.
RetryAtOnce ==
    /\ talking = "command" /\ attempt < Tries
    /\ WaitEnds
    /\ attempt' = attempt + 1
    /\ rstate' = "send"
    /\ UNCHANGED <<talking, handshakes>>

\* No answer to a command: handshake, then try again ...
Retry ==
    /\ talking = "command" /\ attempt < Tries
    /\ WaitEnds
    /\ attempt' = attempt + 1
    /\ talking' = "session"
    /\ rstate' = "send"
    /\ UNCHANGED handshakes

\* ... and after the last try nothing was answered: SlotError, or the 503 of
\* api_apps_radio, whose parse_radio_reply cannot read None.
GiveUp ==
    /\ talking = "command" /\ attempt = Tries
    /\ WaitEnds
    /\ rstate' = "failed"
    /\ UNCHANGED <<talking, attempt, handshakes>>

HandshakeAgain ==
    /\ talking = "session" /\ handshakes < Handshakes
    /\ WaitEnds
    /\ handshakes' = handshakes + 1
    /\ rstate' = "send"
    /\ UNCHANGED <<talking, attempt>>

\* Six handshakes in vain: between two tries the SlotError is ignored.
NoSession ==
    /\ talking = "session" /\ handshakes = Handshakes
    /\ WaitEnds
    /\ handshakes' = 1
    /\ talking' = "command"
    /\ rstate' = IF Command = Hello THEN "failed" ELSE "send"
    /\ UNCHANGED attempt

-----------------------------------------------------------------------------
(* The firmware: external *)

Replied(c, status, crc) == [id |-> c.id, of |-> c.of, status |-> status, crc |-> crc]
Image == {cells[k] : k \in 1..Chunks}

SlotExecutes ==
    LET c == Head(toDev)
    IN /\ toDev # <<>> /\ (listening \/ c.id = "hello")
       /\ listening' = TRUE
       /\ cells' = CASE c.id = "erase" -> [k \in 0..Chunks |-> "blank"]
                     [] c.id = "write" -> [cells EXCEPT ![c.of] =
                                              IF @ \in {"blank", "new"} THEN "new" ELSE "mixed"]
                     [] OTHER          -> cells
       /\ Answer(Replied(c, IF /\ c.id = "validate"
                               /\ Image \cup {cells[0]} \notin {{"new"}, {"old"}}
                            THEN 5 ELSE 0,
                            Image = {"new"}))
       /\ UNCHANGED <<radioVars, faults>>

\* Out of its serial mode it hears handshakes only.
SlotDeaf ==
    /\ toDev # <<>> /\ ~listening /\ Head(toDev).id # "hello"
    /\ Drop
    /\ UNCHANGED <<radioVars, slotVars, faults>>

SlotFaults ==
    /\ faults < MaxFaults /\ toDev # <<>>
    /\ faults' = faults + 1
    /\ \/ Drop /\ UNCHANGED listening
       \/ listening /\ listening' = FALSE /\ UNCHANGED linkVars
       \/ /\ listening /\ Head(toDev).id # "hello"
          /\ Answer(Replied(Head(toDev), 6, FALSE))
          /\ UNCHANGED listening
    /\ UNCHANGED <<radioVars, cells>>

ScreenStreams ==
    /\ faults < MaxFaults
    /\ faults' = faults + 1
    /\ Stream
    /\ UNCHANGED <<radioVars, slotVars>>

-----------------------------------------------------------------------------
RadioInit ==
    /\ rstate = "send" /\ rstep = 1 /\ talking = "session"
    /\ attempt = 1 /\ handshakes = 1
    /\ cells = [k \in 0..Chunks |-> "old"]
    /\ listening = FALSE
    /\ faults = 0
    /\ premature = 0 /\ misread = FALSE

RadioNext ==
    \/ RadioSend
    \/ ReadLoop
    \/ PumpLooks
    \/ SessionUp
    \/ CommandAnswered
    \/ Retry
    \/ GiveUp
    \/ HandshakeAgain
    \/ NoSession
    \/ SlotExecutes
    \/ SlotDeaf
    \/ SlotFaults
    \/ ScreenStreams

-----------------------------------------------------------------------------
(***************************************************************************)
(* An install that reports success left the whole image and its header in  *)
(* the slot, whatever was dropped, delayed or answered twice on the way:   *)
(* a write that was lost but acknowledged by the answer to an earlier one  *)
(* is found by the validation, which no stale answer can stand in for.     *)
(***************************************************************************)
InstalledIsWhole ==
    tool = "install" /\ rstate = "ok" => \A k \in 0..Chunks : cells[k] = "new"

(***************************************************************************)
(* Answers carry no sequence number, and a wait may end before its answer  *)
(* comes.  The handshake between two tries is what keeps them apart: it    *)
(* flushes the late answer, and it takes two premature waits, one of them  *)
(* in a handshake, for a command to get the answer to another.  With fewer *)
(* no chunk is taken for written, and no app reported, because of another. *)
(***************************************************************************)
AnswersOwnCommand == premature < 2 => ~misread

=============================================================================
