------------------------------ MODULE SerialFlash ------------------------------
(***************************************************************************)
(* Programming through the serial bootloader: the Flasher class and main   *)
(* of tools/uvk5_serial_flash.py.  One thread reads and writes, so frames  *)
(* are taken only between two reads.                                       *)
(*                                                                         *)
(* The bootloader is external: it announces itself until it has heard the  *)
(* version it expects, then programs the pages it is sent, and answers     *)
(* each with its index and an error code.                                  *)
(***************************************************************************)
EXTENDS SerialFrames

CONSTANTS
    Pages,          \* pages of the image
    Replies,        \* announcements the handshake answers: 3
    Retries,        \* retries of program: 3
    MaxBootFaults   \* bound on the pages dropped or failed

ASSUME SerialFlashAssumption ==
    /\ Pages \in Nat \ {0} /\ Replies \in Nat \ {0} /\ Retries \in Nat \ {0}
    /\ MaxBootFaults \in Nat

VARIABLES
    fstate,     \* "announce", "handshake", "send", "read", "ok" or "failed"
    answered,   \* "sent" of handshake
    index,      \* the page that is being programmed
    fattempt,   \* the attempt at it
    boot,       \* the bootloader: "announcing" or "programming"
    pages,      \* the pages it has programmed
    bootFaults

flasherVars == <<fstate, answered, index, fattempt>>
bootVars    == <<boot, pages, bootFaults>>

-----------------------------------------------------------------------------
\* Flasher._pump reads for a while before each look at the frames.
Pump == feed /\ UNCHANGED <<flasherVars, bootVars>>

\* wait_for_device: take frames up to the first announcement.
DeviceSeen ==
    LET t == take(buf)
    IN /\ fstate = "announce" /\ buf # t.rest
       /\ buf' = t.rest
       /\ fstate' = IF t.msg.id = "dev_info" THEN "handshake" ELSE "announce"
       /\ UNCHANGED <<toDev, wire, answered, index, fattempt, bootVars>>

\* handshake: answer once for all the announcements that were read.
Handshake ==
    LET announced == Latest(buf, "dev_info") # NoMessage
    IN /\ fstate = "handshake" /\ buf # Left(buf)
       /\ buf' = Left(buf)
       /\ IF announced THEN Send([id |-> "bl_ver"]) ELSE UNCHANGED toDev
       /\ answered' = IF announced THEN answered + 1 ELSE answered
       /\ fstate' = IF answered' = Replies THEN "send" ELSE "handshake"
       /\ UNCHANGED <<wire, index, fattempt, bootVars>>

\* Twenty seconds without an announcement end it; ten of handshaking do not.
Deadline ==
    /\ fstate \in {"announce", "handshake"}
    /\ fstate' = IF fstate = "announce" THEN "failed" ELSE "send"
    /\ UNCHANGED <<linkVars, answered, index, fattempt, bootVars>>

SendPage ==
    /\ fstate = "send"
    /\ Send([id |-> "page", index |-> index])
    /\ fstate' = "read"
    /\ UNCHANGED <<wire, buf, answered, index, fattempt, bootVars>>

\* Mutant: any page's success will do.
PageAckedAny(reply) == reply # NoMessage /\ reply.err = 0

\* Of the answers read in a second the last counts, if it is this page's.
PageAcked(reply) == reply # NoMessage /\ reply.err = 0 /\ reply.index = index

ReadReply ==
    LET acked == PageAcked(Latest(buf, "page_resp"))
    IN /\ fstate = "read"
       /\ buf' = Left(buf)
       /\ index' = IF acked THEN index + 1 ELSE index
       /\ fattempt' = IF acked THEN 1 ELSE fattempt + 1
       /\ fstate' = CASE acked /\ index = Pages           -> "ok"
                      [] ~acked /\ fattempt = Retries -> "failed"
                      [] OTHER                        -> "send"
       /\ UNCHANGED <<toDev, wire, answered, bootVars>>

-----------------------------------------------------------------------------
(* The bootloader: external *)

\* Announcements repeat; one at a time is on its way.
Announce ==
    /\ boot = "announcing" /\ wire = <<>> /\ Len(buf) < 3
    /\ wire' = build([id |-> "dev_info"])
    /\ UNCHANGED <<toDev, buf, flasherVars, bootVars>>

\* What it does not expect is ignored.
BootHears ==
    LET c == Head(toDev)
    IN /\ toDev # <<>>
       /\ \/ c.id = "bl_ver" /\ Drop /\ boot' = "programming" /\ UNCHANGED pages
          \/ c.id = "page" /\ boot = "announcing" /\ Drop /\ UNCHANGED <<boot, pages>>
          \/ /\ c.id = "page" /\ boot = "programming"
             /\ Answer([id |-> "page_resp", index |-> c.index, err |-> 0])
             /\ pages' = pages \cup {c.index}
             /\ UNCHANGED boot
       /\ UNCHANGED <<flasherVars, bootFaults>>

BootFaults ==
    /\ toDev # <<>> /\ bootFaults < MaxBootFaults
    /\ bootFaults' = bootFaults + 1
    /\ \/ Drop
       \/ /\ Head(toDev).id = "page" /\ boot = "programming"
          /\ Answer([id |-> "page_resp", index |-> Head(toDev).index, err |-> 1])
    /\ UNCHANGED <<flasherVars, boot, pages>>

-----------------------------------------------------------------------------
FlasherInit ==
    /\ fstate = "announce" /\ answered = 0
    /\ index = 1 /\ fattempt = 1
    /\ boot = "announcing" /\ pages = {} /\ bootFaults = 0

FlasherNext ==
    \/ DeviceSeen
    \/ Handshake
    \/ Deadline
    \/ SendPage
    \/ ReadReply
    \/ Pump
    \/ Announce
    \/ BootHears
    \/ BootFaults

-----------------------------------------------------------------------------
(***************************************************************************)
(* A programming run that reports success has programmed every page: the   *)
(* late answer to an earlier page, or to an earlier attempt at this one,   *)
(* is never the reason to go on without the page.                          *)
(***************************************************************************)
ProgrammedIsImage == fstate = "ok" => 1..Pages \subseteq pages

=============================================================================
