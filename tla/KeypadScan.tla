------------------------------ MODULE KeypadScan ------------------------------
(***************************************************************************)
(* The keypad matrix and its GPIO port in qemu/py32f071.c, scanned by the  *)
(* firmware while the host presses keys, the boot key's timer runs out and *)
(* the machine is reset.                                                   *)
(*                                                                         *)
(* The port reports an output pin only when it changes, the matrix drives  *)
(* its rows only when a column or a key changes, and a reset of the port   *)
(* puts its own inputs back without asking the matrix: what the firmware   *)
(* reads is a copy that every one of these steps has to keep up to date.   *)
(*                                                                         *)
(* A key is <<column, row>>; column 0 holds the side keys.  Pins other     *)
(* than the matrix's and PTT's, and the mode registers, are left out: the  *)
(* driver reads rows and PTT as inputs only.                               *)
(***************************************************************************)
EXTENDS Integers, FiniteSets

CONSTANTS
    KEYPAD_COLS, KEYPAD_ROWS,   \* 5 and 4, the pseudo column included
    Keys,                       \* keypad_key_names: the keys there are
    MaxResets                   \* bound on the machine resets

Columns == 1..(KEYPAD_COLS - 1)
Rows == 0..(KEYPAD_ROWS - 1)

ASSUME KeypadAssumption ==
    /\ KEYPAD_COLS \in Nat \ {0, 1} /\ KEYPAD_ROWS \in Nat \ {0}
    /\ Keys \subseteq (0..(KEYPAD_COLS - 1)) \X Rows
    /\ MaxResets \in Nat \ {0}

\* Output pins are numbered from the last column's; the driver's PIN_COL(n).
TopPin == KEYPAD_COLS - 2
PIN_COL(n) == TopPin - n
ColPins == 0..TopPin

VARIABLES
    odr,                    \* the port: output pins that are high
    idr_rows, idr_ptt,      \* and the input pins as the guest reads them
    pressed, col_high, ptt, \* the matrix
    boot_key_timer,         \* armed
    phase, column,          \* the firmware's scan
    seen,                   \* what the last scan found
    steady,                 \* nothing changed since this scan began (history)
    staleRows, stalePtt,    \* the port was reset since it was told (history)
    hostPressed,            \* the host used a key or PTT (history)
    resets

portVars == <<odr, idr_rows, idr_ptt>>
padVars  == <<pressed, col_high, ptt>>
scanVars == <<phase, column, seen>>
vars == <<portVars, padVars, boot_key_timer, scanVars, steady, staleRows, stalePtt,
          hostPressed, resets>>

None == <<>>

-----------------------------------------------------------------------------
(* The matrix *)

\* A held key pulls its row on a low column, a side key while all are high.
LineLow(r) ==
    \/ \E c \in Columns \ col_high' : <<c, r>> \in pressed'
    \/ Columns \subseteq col_high' /\ <<0, r>> \in pressed'

keypad_update_rows ==
    /\ idr_rows' = [r \in Rows |-> ~LineLow(r)]
    /\ staleRows' = FALSE

\* Mutant: a column is wired to the pin of the next one.
ColPinShifted(c) == TopPin - (c % (KEYPAD_COLS - 1))

KEYPAD_COL_PIN(c) == TopPin - (c - 1)

\* The columns of the pins that changed, and then the rows.
keypad_col_changed(changed) ==
    /\ col_high' = {c \in Columns : IF KEYPAD_COL_PIN(c) \in changed
                                    THEN KEYPAD_COL_PIN(c) \in odr' ELSE c \in col_high}
    /\ UNCHANGED pressed
    /\ IF changed # {} THEN keypad_update_rows ELSE UNCHANGED <<idr_rows, staleRows>>

\* py32_gpio_write: BSRR and BRR, reset wins; unchanged pins tell nobody.
py32_gpio_write(set, reset) ==
    /\ odr' = (odr \cup set) \ reset
    /\ keypad_col_changed((odr \ odr') \cup (odr' \ odr))

\* Mutant: releasing a key forgets to drive its row.
SetPressSilent(ks) ==
    /\ pressed' = ks
    /\ UNCHANGED col_high
    /\ IF ks = {} THEN UNCHANGED <<idr_rows, staleRows>> ELSE keypad_update_rows

\* A key replaces the one that is held; none releases it.
keypad_set_press(ks) ==
    /\ pressed' = ks
    /\ UNCHANGED col_high
    /\ keypad_update_rows

keypad_set_ptt(held) ==
    /\ ptt' = held
    /\ idr_ptt' = ~held
    /\ stalePtt' = FALSE

-----------------------------------------------------------------------------
(* The host, the boot key and resets *)

HostPress(ks) ==
    /\ phase # "off"
    /\ keypad_set_press(ks)
    /\ hostPressed' = TRUE /\ steady' = FALSE
    /\ UNCHANGED <<odr, idr_ptt, ptt, boot_key_timer, scanVars, stalePtt, resets>>

HostPtt(held) ==
    /\ phase # "off"
    /\ keypad_set_ptt(held)
    /\ hostPressed' = TRUE
    /\ UNCHANGED <<odr, idr_rows, pressed, col_high, boot_key_timer, scanVars, steady,
                   staleRows, resets>>

\* Mutant: the timer lets go of the key and not of PTT.
BootKeyReleaseKeyOnly ==
    /\ boot_key_timer /\ phase # "off"
    /\ boot_key_timer' = FALSE
    /\ keypad_set_press({})
    /\ steady' = FALSE
    /\ UNCHANGED <<odr, idr_ptt, ptt, scanVars, stalePtt, hostPressed, resets>>

uvk5_boot_key_release ==
    /\ boot_key_timer /\ phase # "off"
    /\ boot_key_timer' = FALSE
    /\ keypad_set_press({}) /\ keypad_set_ptt(FALSE)
    /\ steady' = FALSE
    /\ UNCHANGED <<odr, scanVars, hostPressed, resets>>

keypad_reset ==
    /\ pressed' = {} /\ ptt' = FALSE /\ col_high' = Columns
    /\ staleRows' = FALSE /\ stalePtt' = FALSE

\* The port's inputs go back to idle.  The matrix sits on no bus that a machine
\* reset would walk, so it may or may not be reset with it.
MachineReset ==
    /\ resets < MaxResets
    /\ resets' = resets + 1
    /\ odr' = {}
    /\ idr_rows' = [r \in Rows |-> TRUE] /\ idr_ptt' = TRUE
    /\ \/ keypad_reset
       \/ UNCHANGED padVars /\ staleRows' = TRUE /\ stalePtt' = TRUE
    /\ phase' = "raise" /\ column' = 0 /\ seen' = None /\ steady' = FALSE
    /\ UNCHANGED <<boot_key_timer, hostPressed>>

-----------------------------------------------------------------------------
(* The firmware's scan: column 0 with all pins high, then one low at a time *)

RaiseColumns ==
    /\ phase = "raise"
    /\ phase' = IF column = 0 THEN "read" ELSE "pull"
    /\ py32_gpio_write(ColPins, {})
    /\ steady' = (column = 0 \/ steady)
    /\ UNCHANGED <<idr_ptt, ptt, boot_key_timer, column, seen, stalePtt, hostPressed, resets>>

PullColumn ==
    /\ phase = "pull"
    /\ phase' = "read"
    /\ py32_gpio_write({}, {PIN_COL(column - 1)})
    /\ UNCHANGED <<idr_ptt, ptt, boot_key_timer, column, seen, steady, stalePtt, hostPressed, resets>>

\* A low row is a key and ends the scan.
ReadRows ==
    /\ phase = "read"
    /\ phase' = "raise"
    /\ LET low == {r \in Rows : ~idr_rows[r]}
       IN IF low # {}
          THEN /\ \E r \in low : seen' = <<column, r>>
               /\ column' = 0
          ELSE /\ seen' = IF column = KEYPAD_COLS - 1 THEN None ELSE seen
               /\ column' = (column + 1) % KEYPAD_COLS
    /\ UNCHANGED <<portVars, padVars, boot_key_timer, steady, staleRows, stalePtt, hostPressed, resets>>

-----------------------------------------------------------------------------
\* uvk5_machine_init: the rows are driven once the lines exist, and the boot key
\* is held before the first reset.
Init ==
    /\ odr = {}
    /\ \E k \in {{}} \cup {{x} : x \in Keys} : pressed = k
    /\ ptt \in BOOLEAN
    /\ boot_key_timer = (pressed # {} \/ ptt)
    /\ col_high \in {{}, Columns}
    /\ idr_rows = [r \in Rows |->
                      ~ \/ \E c \in Columns \ col_high : <<c, r>> \in pressed
                        \/ Columns \subseteq col_high /\ <<0, r>> \in pressed]
    /\ idr_ptt = ~ptt
    /\ phase = "off" /\ column = 0 /\ seen = None
    /\ steady = FALSE /\ staleRows = FALSE /\ stalePtt = FALSE /\ hostPressed = FALSE
    /\ resets = 0

Scan == RaiseColumns \/ PullColumn \/ ReadRows

Next ==
    \/ \E k \in {{}} \cup {{x} : x \in Keys} : HostPress(k)
    \/ \E held \in BOOLEAN : HostPtt(held)
    \/ uvk5_boot_key_release
    \/ MachineReset
    \/ Scan

\* The first reset comes, the firmware scans and guest time passes.
Fairness == WF_vars(Scan) /\ WF_vars(uvk5_boot_key_release) /\ WF_vars(MachineReset /\ phase = "off")

Spec == Init /\ [][Next]_vars /\ Fairness

-----------------------------------------------------------------------------
\* The port and the matrix keep their types, and one key at most is held.
TypeOK ==
    /\ odr \subseteq ColPins
    /\ idr_rows \in [Rows -> BOOLEAN] /\ idr_ptt \in BOOLEAN
    /\ pressed \subseteq Keys /\ Cardinality(pressed) <= 1
    /\ col_high \subseteq Columns
    /\ ptt \in BOOLEAN /\ boot_key_timer \in BOOLEAN
    /\ phase \in {"off", "raise", "pull", "read"}
    /\ column \in 0..(KEYPAD_COLS - 1)
    /\ seen \in Keys \cup {None}
    /\ resets \in 0..MaxResets

(***************************************************************************)
(* A scan during which nothing changed finds the key that is held and no   *)
(* other, or none when none is held: not a neighbour's column, not a side  *)
(* key on a scanned column, not a level left over from before a reset.     *)
(***************************************************************************)
ScanFindsKey ==
    [][ReadRows /\ steady /\ column' = 0
          => seen' = IF pressed = {} THEN None ELSE CHOOSE k \in pressed : TRUE]_vars

(***************************************************************************)
(* Unless the port was reset since, its input pins are what the matrix and *)
(* PTT would drive, and the matrix sees the columns as the port drives     *)
(* them: no change of a key or a column was kept from the other side.      *)
(***************************************************************************)
LinesFollow ==
    /\ ~staleRows => \A r \in Rows :
           idr_rows[r] = ~ \/ \E c \in Columns \ col_high : <<c, r>> \in pressed
                           \/ Columns \subseteq col_high /\ <<0, r>> \in pressed
    /\ ~stalePtt => idr_ptt = ~ptt
    /\ phase \in {"pull", "read"} => col_high = {c \in Columns : KEYPAD_COL_PIN(c) \in odr}

(***************************************************************************)
(* What the boot key holds is let go, PTT included, unless the host took   *)
(* over meanwhile: no boot leaves the radio keyed.                         *)
(***************************************************************************)
BootKeyLetsGo == boot_key_timer ~> (pressed = {} /\ ~ptt /\ idr_ptt) \/ hostPressed

=============================================================================
