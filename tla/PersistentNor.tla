---------------------------- MODULE PersistentNor ----------------------------
(***************************************************************************)
(* What a NOR part with a backing file promises its firmware: a program    *)
(* clears bits of one byte, an erase sets one aligned sector, the disk     *)
(* copies some of the bytes the chip holds at that moment (all of them     *)
(* when the host cooperates), and power-up restores exactly the disk.      *)
(***************************************************************************)
EXTENDS Integers

CONSTANTS Size, Sector, Bits

VARIABLES
    nor,      \* contents of the part while it has power
    disk,     \* contents that a power cycle brings back
    running   \* the part has power

norVars == <<nor, disk, running>>

Cells == 0..(Size - 1)

\* Aligned sectors of the part.
SectorStarts == {s \in Cells : s % Sector = 0}

NorInit ==
    /\ running = TRUE
    /\ disk \in [Cells -> SUBSET Bits]
    /\ nor = disk

NorProgram(a) ==
    /\ running
    /\ nor'[a] \subseteq nor[a]
    /\ nor' = [nor EXCEPT ![a] = nor'[a]]
    /\ UNCHANGED <<disk, running>>

NorErase(s) ==
    /\ running
    /\ nor' = [c \in Cells |-> IF s <= c /\ c < s + Sector THEN Bits ELSE nor[c]]
    /\ UNCHANGED <<disk, running>>

\* A write-back, complete or not, possibly on the way down.
NorSync ==
    /\ running
    /\ disk' \in [Cells -> SUBSET Bits]
    /\ \A c \in Cells : disk'[c] \in {disk[c], nor[c]}
    /\ running' \in BOOLEAN
    /\ UNCHANGED nor

NorPowerUp ==
    /\ ~running
    /\ running' = TRUE
    /\ nor' = disk
    /\ UNCHANGED disk

NorNext ==
    \/ \E a \in Cells : NorProgram(a)
    \/ \E s \in SectorStarts : NorErase(s)
    \/ NorSync
    \/ NorPowerUp

Spec == NorInit /\ [][NorNext]_norVars

=============================================================================
