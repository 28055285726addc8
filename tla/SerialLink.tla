------------------------------ MODULE SerialLink ------------------------------
(***************************************************************************)
(* The serial link and the programs that use it.  One program has it open  *)
(* at a time.  A bare client shows what the link does to the bytes         *)
(* (SerialReceive); the slot tool and the page's question about the apps   *)
(* (SlotSerial) and the flasher (SerialFlash) talk over links that keep    *)
(* their commands in order, as StreamIntact says of this one.              *)
(***************************************************************************)
EXTENDS SerialReceive, SlotSerial, SerialFlash

radioAll   == <<radioVars, slotVars, faults>>
flasherAll == <<flasherVars, bootVars>>
allVars == <<tool, vars, linkVars, radioAll, flasherAll>>

RadioTools == {"install", "info", "apps"}

\* A tool that has exited.
Exited ==
    \/ tool \in RadioTools /\ rstate \in {"ok", "failed"}
    \/ tool = "flasher" /\ fstate \in {"ok", "failed"}

LinkInit ==
    /\ tool \in RadioTools \cup {"bare", "flasher"}
    /\ toDev = <<>> /\ wire = <<>> /\ buf = <<>>
    /\ Init /\ RadioInit /\ FlasherInit

LinkNext ==
    \/ tool = "bare" /\ Next /\ UNCHANGED <<tool, linkVars, radioAll, flasherAll>>
    \/ tool \in RadioTools /\ RadioNext /\ UNCHANGED <<tool, vars, flasherAll>>
    \/ tool = "flasher" /\ FlasherNext /\ UNCHANGED <<tool, vars, radioAll>>
    \/ Exited /\ UNCHANGED allVars

\* The bare link is served as SerialReceive assumes.
LinkSpec == LinkInit /\ [][LinkNext]_allVars /\ (tool = "bare" => Fairness)

=============================================================================
