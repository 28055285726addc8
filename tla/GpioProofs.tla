------------------------------ MODULE GpioProofs ------------------------------
(***************************************************************************)
(* Proofs about the three devices the firmware drives with its GPIO pins.  *)
(* KeypadScan, for every size of the matrix, every set of keys and every   *)
(* number of resets: what the firmware reads on the port is what the       *)
(* matrix drives, and an undisturbed scan finds the held key.  Bk4819, for *)
(* every width of a command and of a word: no transfer is off by a bit and *)
(* the chip asks for attention only with a reason.  St7565, for every size *)
(* of the panel: its settings are those the firmware sent last.            *)
(***************************************************************************)
EXTENDS KeypadScan, Bk4819, St7565, FiniteSetTheorems, FunctionTheorems, SequenceTheorems,
        TLAPS

-----------------------------------------------------------------------------
(* The keypad: the inductive invariant *)

OneKey == \A k, m \in pressed : k = m

PadTypes ==
    /\ odr \subseteq ColPins
    /\ idr_rows \in [Rows -> BOOLEAN]
    /\ pressed \subseteq Keys /\ OneKey
    /\ col_high \subseteq Columns
    /\ column \in 0..(KEYPAD_COLS - 1)
    /\ seen \in Keys \cup {None}

FlagTypes ==
    /\ idr_ptt \in BOOLEAN /\ ptt \in BOOLEAN /\ boot_key_timer \in BOOLEAN
    /\ steady \in BOOLEAN /\ staleRows \in BOOLEAN /\ stalePtt \in BOOLEAN
    /\ phase \in {"off", "raise", "pull", "read"}
    /\ resets \in 0..MaxResets

\* What the matrix drives on a row.
Low(r) ==
    \/ \E c \in Columns \ col_high : <<c, r>> \in pressed
    \/ Columns \subseteq col_high /\ <<0, r>> \in pressed

RowsFollow == ~staleRows => \A r \in Rows : idr_rows[r] = ~Low(r)

PttFollows == ~stalePtt => idr_ptt = ~ptt

\* The matrix knows of every column that is high, in every phase: a raise
\* reports only the ones that were low.
ColumnsTold == \A c \in Columns : KEYPAD_COL_PIN(c) \in odr => c \in col_high

ColumnsFollow ==
    phase \in {"pull", "read"} => col_high = {c \in Columns : KEYPAD_COL_PIN(c) \in odr}

\* The pins of each phase; the port is out of date only until the first raise.
PinsOfPhase ==
    /\ phase = "pull" => odr = ColPins /\ column # 0
    /\ phase = "read" => odr = IF column = 0 THEN ColPins ELSE ColPins \ {PIN_COL(column - 1)}
    /\ staleRows => phase = "raise" /\ odr = {}

\* A steady scan has passed no column with a held key.
NotPassed == steady => \A k \in pressed : k[1] >= column

PadInv ==
    /\ PadTypes /\ FlagTypes
    /\ RowsFollow /\ PttFollows /\ ColumnsTold /\ ColumnsFollow
    /\ PinsOfPhase /\ NotPassed

-----------------------------------------------------------------------------
(* The port and the matrix *)

\* Driving the rows makes them what the matrix says.
LEMMA UpdateRows ==
    ASSUME keypad_update_rows
    PROVE  idr_rows' \in [Rows -> BOOLEAN] /\ RowsFollow' /\ staleRows' = FALSE
  <1>1. idr_rows' = [r \in Rows |-> ~LineLow(r)]
    BY DEF keypad_update_rows
  <1>2. ASSUME NEW r \in Rows
        PROVE  LineLow(r) \in BOOLEAN /\ (LineLow(r) <=> Low(r)')
    BY DEF LineLow, Low
  <1>3. idr_rows' \in [Rows -> BOOLEAN]
    BY <1>1, <1>2
  <1>4. \A r \in Rows : idr_rows'[r] = ~Low(r)'
    BY <1>1, <1>2
  <1> QED
    BY <1>3, <1>4 DEF RowsFollow, keypad_update_rows

\* The column of a pin, and the pin that the driver pulls for a column.
LEMMA PinsOfColumns ==
    /\ \A c \in Columns : KEYPAD_COL_PIN(c) \in ColPins
    /\ \A c \in Columns : PIN_COL(c - 1) = KEYPAD_COL_PIN(c)
    /\ \A c, d \in Columns : KEYPAD_COL_PIN(c) = KEYPAD_COL_PIN(d) => c = d
    /\ ColPins # {}
  <1> USE KeypadAssumption DEF Columns, KEYPAD_COL_PIN, PIN_COL, ColPins, TopPin
  <1>1. \A c \in Columns : KEYPAD_COL_PIN(c) \in ColPins
    OBVIOUS
  <1>2. \A c \in Columns : PIN_COL(c - 1) = KEYPAD_COL_PIN(c)
    OBVIOUS
  <1>3. \A c, d \in Columns : KEYPAD_COL_PIN(c) = KEYPAD_COL_PIN(d) => c = d
    OBVIOUS
  <1>4. 0 \in ColPins
    OBVIOUS
  <1> QED
    BY <1>1, <1>2, <1>3, <1>4

\* A write to the port tells the matrix enough: the columns it believes high
\* are those that are, and the rows are driven again if any pin changed.
LEMMA WriteTells ==
    ASSUME PadTypes, RowsFollow, staleRows \in BOOLEAN,
           NEW S \in SUBSET ColPins, NEW R, py32_gpio_write(S, R)
    PROVE  /\ odr' = (odr \cup S) \ R
           /\ odr' \subseteq ColPins
           /\ col_high' = {c \in Columns : IF (KEYPAD_COL_PIN(c) \in odr) = (KEYPAD_COL_PIN(c) \in odr')
                                           THEN c \in col_high ELSE KEYPAD_COL_PIN(c) \in odr'}
           /\ pressed' = pressed
           /\ idr_rows' \in [Rows -> BOOLEAN] /\ RowsFollow'
           /\ staleRows' \in BOOLEAN
           /\ odr' # odr => staleRows' = FALSE
           /\ staleRows' => staleRows
  <1> DEFINE changed == (odr \ odr') \cup (odr' \ odr)
  <1>1. /\ odr' = (odr \cup S) \ R
        /\ odr' \subseteq ColPins /\ odr \subseteq ColPins
    BY DEF py32_gpio_write, PadTypes
  <1>2. /\ col_high' = {c \in Columns : IF KEYPAD_COL_PIN(c) \in changed
                                    THEN KEYPAD_COL_PIN(c) \in odr' ELSE c \in col_high}
        /\ pressed' = pressed
        /\ IF changed # {} THEN keypad_update_rows ELSE UNCHANGED <<idr_rows, staleRows>>
    BY DEF py32_gpio_write, keypad_col_changed
  <1>3. \A p : p \in changed <=> (p \in odr) # (p \in odr')
    OBVIOUS
  <1>4. col_high' = {c \in Columns : IF (KEYPAD_COL_PIN(c) \in odr) = (KEYPAD_COL_PIN(c) \in odr')
                                     THEN c \in col_high ELSE KEYPAD_COL_PIN(c) \in odr'}
    BY <1>2, <1>3
  <1>5. CASE changed # {}
    <2>1. idr_rows' \in [Rows -> BOOLEAN] /\ RowsFollow' /\ staleRows' = FALSE
      BY <1>2, <1>5, UpdateRows
    <2> QED
      BY <1>1, <1>2, <1>4, <2>1
  <1>6. CASE changed = {}
    <2>1. odr' = odr
      BY <1>6
    <2>2. col_high' = col_high
      BY <1>2, <1>6 DEF PadTypes
    <2>3. UNCHANGED <<idr_rows, staleRows, pressed, col_high>>
      BY <1>2, <1>6, <2>2
    <2>4. RowsFollow'
      BY <2>3 DEF RowsFollow, Low
    <2> QED
      BY <1>1, <1>2, <1>4, <2>1, <2>3, <2>4 DEF PadTypes
  <1> QED
    BY <1>5, <1>6

\* A key that replaces the held one is driven too.
LEMMA PressTells ==
    ASSUME NEW k \in {{}} \cup {{x} : x \in Keys}, keypad_set_press(k)
    PROVE  /\ pressed' \subseteq Keys /\ OneKey'
           /\ col_high' = col_high
           /\ idr_rows' \in [Rows -> BOOLEAN] /\ RowsFollow' /\ staleRows' = FALSE
  <1>1. pressed' = k /\ col_high' = col_high /\ keypad_update_rows
    BY DEF keypad_set_press
  <1>2. pressed' \subseteq Keys /\ OneKey'
    BY <1>1 DEF OneKey
  <1> QED
    BY <1>1, <1>2, UpdateRows

\* What a read sees: the keys of the column that is being scanned.
LEMMA ReadSees ==
    ASSUME PadInv, phase = "read"
    PROVE  \A r \in Rows : ~idr_rows[r] <=> <<column, r>> \in pressed
  <1>1. \A r \in Rows : idr_rows[r] = ~Low(r)
    BY DEF PadInv, RowsFollow, PinsOfPhase, FlagTypes
  <1>2. col_high = {c \in Columns : KEYPAD_COL_PIN(c) \in odr}
    BY DEF PadInv, ColumnsFollow
  <1>3. CASE column = 0
    <2>1. odr = ColPins
      BY <1>3 DEF PadInv, PinsOfPhase
    <2>2. col_high = Columns
      BY <1>2, <2>1, PinsOfColumns
    <2> QED
      BY <1>1, <1>3, <2>2 DEF Low
  <1>4. CASE column # 0
    <2>1. column \in Columns
      BY <1>4, KeypadAssumption DEF PadInv, PadTypes, Columns
    <2>2. odr = ColPins \ {KEYPAD_COL_PIN(column)}
      BY <1>4, <2>1, PinsOfColumns DEF PadInv, PinsOfPhase
    <2>3. col_high = Columns \ {column}
      BY <1>2, <2>1, <2>2, PinsOfColumns
    <2> QED
      BY <1>1, <2>1, <2>3 DEF Low
  <1> QED
    BY <1>3, <1>4

\* The scan goes from the last column back to the first.
LEMMA WrapColumn ==
    ASSUME NEW c \in 0..(KEYPAD_COLS - 1)
    PROVE  /\ c = KEYPAD_COLS - 1 => (c + 1) % KEYPAD_COLS = 0
           /\ c # KEYPAD_COLS - 1 => (c + 1) % KEYPAD_COLS = c + 1
  <1>1. KEYPAD_COLS \in Nat \ {0, 1}
    BY KeypadAssumption
  <1> QED
    BY <1>1, SMTT(20)

-----------------------------------------------------------------------------
(* The invariant is inductive *)

LEMMA PadInit == Init => PadInv
  <1> SUFFICES ASSUME Init PROVE PadInv
    OBVIOUS
  <1>1. PICK k \in {{}} \cup {{x} : x \in Keys} : pressed = k
    BY DEF Init
  <1>2. pressed \subseteq Keys /\ OneKey
    BY <1>1 DEF OneKey
  <1>3. col_high \subseteq Columns
    BY DEF Init
  <1>4. idr_rows = [r \in Rows |-> ~Low(r)]
    BY DEF Init, Low
  <1>5. \A r \in Rows : Low(r) \in BOOLEAN
    BY DEF Low
  <1>6. idr_rows \in [Rows -> BOOLEAN] /\ RowsFollow
    BY <1>4, <1>5 DEF RowsFollow
  <1>7. PadTypes
    BY <1>2, <1>3, <1>6, KeypadAssumption DEF Init, PadTypes
  <1>8. FlagTypes
    <2>1. resets \in 0..MaxResets
      BY KeypadAssumption DEF Init
    <2>2. boot_key_timer \in BOOLEAN /\ idr_ptt \in BOOLEAN
      BY Zenon DEF Init
    <2> QED
      BY <2>1, <2>2 DEF Init, FlagTypes
  <1>9. PttFollows
    BY DEF Init, PttFollows
  <1>10. ColumnsTold /\ ColumnsFollow /\ PinsOfPhase /\ NotPassed
    BY DEF Init, ColumnsTold, ColumnsFollow, PinsOfPhase, NotPassed
  <1> QED
    BY <1>6, <1>7, <1>8, <1>9, <1>10 DEF PadInv

\* A press or release from the host updates the rows under the columns driven.
LEMMA PressKeepsInv ==
    ASSUME PadInv, NEW k \in {{}} \cup {{x} : x \in Keys}, keypad_set_press(k),
           steady' = FALSE, UNCHANGED <<odr, scanVars>>, FlagTypes', PttFollows'
    PROVE  PadInv'
  <1>1. /\ pressed' \subseteq Keys /\ OneKey'
        /\ col_high' = col_high
        /\ idr_rows' \in [Rows -> BOOLEAN] /\ RowsFollow' /\ staleRows' = FALSE
    BY PressTells
  <1>2. UNCHANGED <<odr, phase, column, seen>>
    BY DEF scanVars
  <1>3. PadTypes'
    BY <1>1, <1>2 DEF PadInv, PadTypes
  <1>4. ColumnsTold' /\ ColumnsFollow'
    BY <1>1, <1>2 DEF PadInv, ColumnsTold, ColumnsFollow
  <1>5. PinsOfPhase' /\ NotPassed'
    BY <1>1, <1>2 DEF PadInv, PinsOfPhase, NotPassed
  <1> QED
    BY <1>1, <1>3, <1>4, <1>5 DEF PadInv

\* The scan raises every column before it pulls one.
LEMMA RaiseKeepsInv ==
    ASSUME PadInv, RaiseColumns
    PROVE  PadInv'
  <1>1. /\ phase = "raise" /\ phase' = IF column = 0 THEN "read" ELSE "pull"
        /\ py32_gpio_write(ColPins, {})
        /\ steady' = (column = 0 \/ steady)
        /\ UNCHANGED <<idr_ptt, ptt, boot_key_timer, column, seen, stalePtt, hostPressed, resets>>
    BY DEF RaiseColumns
  <1>2. /\ odr' = (odr \cup ColPins) \ {}
        /\ col_high' = {c \in Columns : IF (KEYPAD_COL_PIN(c) \in odr) = (KEYPAD_COL_PIN(c) \in odr')
                                        THEN c \in col_high ELSE KEYPAD_COL_PIN(c) \in odr'}
        /\ pressed' = pressed
        /\ idr_rows' \in [Rows -> BOOLEAN] /\ RowsFollow'
        /\ staleRows' \in BOOLEAN
        /\ odr' # odr => staleRows' = FALSE
        /\ staleRows' => staleRows
    BY <1>1, WriteTells DEF PadInv, FlagTypes
  <1>3. odr' = ColPins
    BY <1>2 DEF PadInv, PadTypes
  <1>4. col_high' = Columns
    BY <1>2, <1>3, PinsOfColumns DEF PadInv, ColumnsTold
  <1>5. staleRows' = FALSE
    BY <1>2, <1>3, PinsOfColumns DEF PadInv, PinsOfPhase
  <1>6. PadTypes'
    BY <1>1, <1>2, <1>3, <1>4 DEF PadInv, PadTypes, OneKey
  <1>7. FlagTypes'
    <2>1. steady' \in BOOLEAN
      BY <1>1, Zenon
    <2> QED
      BY <1>1, <1>5, <2>1 DEF PadInv, FlagTypes
  <1>8. PttFollows'
    BY <1>1 DEF PadInv, PttFollows
  <1>9. ColumnsTold' /\ ColumnsFollow'
    BY <1>3, <1>4, PinsOfColumns DEF ColumnsTold, ColumnsFollow
  <1>10. PinsOfPhase'
    BY <1>1, <1>3, <1>5 DEF PinsOfPhase
  <1>11. NotPassed'
    <2>1. CASE column = 0
      <3>1. \A k \in Keys : k[1] \in Nat
        BY KeypadAssumption
      <3> QED
        BY <1>1, <1>2, <2>1, <3>1 DEF PadInv, PadTypes, NotPassed
    <2>2. CASE column # 0
      BY <1>1, <1>2, <2>2 DEF PadInv, NotPassed
    <2> QED
      BY <2>1, <2>2
  <1> QED
    BY <1>2, <1>6, <1>7, <1>8, <1>9, <1>10, <1>11 DEF PadInv

\* Pulling one column shows the keys of that column alone.
LEMMA PullKeepsInv ==
    ASSUME PadInv, PullColumn
    PROVE  PadInv'
  <1>1. /\ phase = "pull" /\ phase' = "read"
        /\ py32_gpio_write({}, {PIN_COL(column - 1)})
        /\ UNCHANGED <<idr_ptt, ptt, boot_key_timer, column, seen, steady, stalePtt, hostPressed,
                       resets>>
    BY DEF PullColumn
  <1>2. /\ odr' = (odr \cup {}) \ {PIN_COL(column - 1)}
        /\ odr' \subseteq ColPins
        /\ col_high' = {c \in Columns : IF (KEYPAD_COL_PIN(c) \in odr) = (KEYPAD_COL_PIN(c) \in odr')
                                        THEN c \in col_high ELSE KEYPAD_COL_PIN(c) \in odr'}
        /\ pressed' = pressed
        /\ idr_rows' \in [Rows -> BOOLEAN] /\ RowsFollow'
        /\ staleRows' \in BOOLEAN
        /\ staleRows' => staleRows
    BY <1>1, WriteTells DEF PadInv, FlagTypes
  <1>3. odr = ColPins /\ column # 0 /\ ~staleRows
    BY <1>1 DEF PadInv, PinsOfPhase
  <1>4. odr' = ColPins \ {PIN_COL(column - 1)}
    BY <1>2, <1>3
  <1>5. col_high = {c \in Columns : KEYPAD_COL_PIN(c) \in odr}
    BY <1>1 DEF PadInv, ColumnsFollow
  <1>6. col_high' = {c \in Columns : KEYPAD_COL_PIN(c) \in odr'}
    BY <1>2, <1>5
  <1>7. PadTypes'
    BY <1>1, <1>2, <1>6 DEF PadInv, PadTypes, OneKey
  <1>8. FlagTypes'
    BY <1>1, <1>2 DEF PadInv, FlagTypes
  <1>9. PttFollows'
    BY <1>1 DEF PadInv, PttFollows
  <1>10. ColumnsTold' /\ ColumnsFollow'
    BY <1>6 DEF ColumnsTold, ColumnsFollow
  <1>11. PinsOfPhase'
    BY <1>1, <1>2, <1>3, <1>4 DEF PinsOfPhase
  <1>12. NotPassed'
    BY <1>1, <1>2 DEF PadInv, NotPassed
  <1> QED
    BY <1>2, <1>7, <1>8, <1>9, <1>10, <1>11, <1>12 DEF PadInv

\* The outcome of a read: the held key if it is in this column, and otherwise
\* the next column.
LEMMA ReadOutcome ==
    ASSUME PadInv, ReadRows
    PROVE  \/ /\ seen' \in pressed /\ column' = 0
           \/ /\ \A k \in pressed : k[1] # column
              /\ column' = (column + 1) % KEYPAD_COLS
              /\ seen' = IF column = KEYPAD_COLS - 1 THEN None ELSE seen
  <1> DEFINE low == {r \in Rows : ~idr_rows[r]}
  <1>1. \A r \in Rows : ~idr_rows[r] <=> <<column, r>> \in pressed
    BY ReadSees DEF ReadRows
  <1>2. CASE low # {}
    <2>1. PICK r \in low : seen' = <<column, r>>
      BY <1>2 DEF ReadRows
    <2>2. <<column, r>> \in pressed
      BY <1>1, <2>1
    <2>3. column' = 0
      BY <1>2 DEF ReadRows
    <2> QED
      BY <2>1, <2>2, <2>3
  <1>3. CASE low = {}
    <2>1. /\ column' = (column + 1) % KEYPAD_COLS
          /\ seen' = IF column = KEYPAD_COLS - 1 THEN None ELSE seen
      BY <1>3 DEF ReadRows
    <2>2. ASSUME NEW k \in pressed, k[1] = column
          PROVE  FALSE
      <3>1. k \in (0..(KEYPAD_COLS - 1)) \X Rows
        BY KeypadAssumption DEF PadInv, PadTypes
      <3>2. k = <<column, k[2]>> /\ k[2] \in Rows
        BY <2>2, <3>1
      <3> QED
        BY <1>1, <1>3, <3>2
    <2> QED
      BY <2>1, <2>2
  <1> QED
    BY <1>2, <1>3

\* The scan reads the rows, and keeps a key or goes on to the next column.
LEMMA ReadKeepsInv ==
    ASSUME PadInv, ReadRows
    PROVE  PadInv'
  <1>1. /\ phase = "read" /\ phase' = "raise"
        /\ UNCHANGED <<odr, idr_rows, idr_ptt, pressed, col_high, ptt, boot_key_timer, steady,
                       staleRows, stalePtt, resets>>
    BY DEF ReadRows, portVars, padVars
  <1>2. \/ /\ seen' \in pressed /\ column' = 0
        \/ /\ \A k \in pressed : k[1] # column
           /\ column' = (column + 1) % KEYPAD_COLS
           /\ seen' = IF column = KEYPAD_COLS - 1 THEN None ELSE seen
    BY ReadOutcome
  <1>3. KEYPAD_COLS \in Nat \ {0, 1} /\ column \in 0..(KEYPAD_COLS - 1)
    BY KeypadAssumption DEF PadInv, PadTypes
  <1>4. /\ column = KEYPAD_COLS - 1 => (column + 1) % KEYPAD_COLS = 0
        /\ column # KEYPAD_COLS - 1 => (column + 1) % KEYPAD_COLS = column + 1
    BY <1>3, WrapColumn
  <1>5. column' \in 0..(KEYPAD_COLS - 1)
    BY <1>2, <1>3, <1>4
  <1>6. seen' \in Keys \cup {None}
    BY <1>2 DEF PadInv, PadTypes
  <1>7. PadTypes'
    BY <1>1, <1>5, <1>6 DEF PadInv, PadTypes, OneKey
  <1>8. FlagTypes'
    BY <1>1 DEF PadInv, FlagTypes
  <1>9. RowsFollow' /\ PttFollows' /\ ColumnsTold'
    BY <1>1 DEF PadInv, RowsFollow, Low, PttFollows, ColumnsTold
  <1>10. ColumnsFollow' /\ PinsOfPhase'
    BY <1>1 DEF PadInv, ColumnsFollow, PinsOfPhase
  <1>11. NotPassed'
    <2> SUFFICES ASSUME steady', NEW k \in pressed'
                 PROVE  k[1] >= column'
      BY DEF NotPassed
    <2>1. k[1] \in Nat
      BY <1>1, KeypadAssumption DEF PadInv, PadTypes
    <2>2. k[1] >= column
      BY <1>1 DEF PadInv, NotPassed
    <2> QED
      BY <1>1, <1>2, <1>3, <1>4, <2>1, <2>2
  <1> QED
    BY <1>7, <1>8, <1>9, <1>10, <1>11 DEF PadInv

\* A reset puts port and scan at their start, and may or may not reach the matrix.
LEMMA ResetKeepsInv ==
    ASSUME PadInv, MachineReset
    PROVE  PadInv'
  <1>1. /\ resets < MaxResets /\ resets' = resets + 1
        /\ odr' = {} /\ idr_rows' = [r \in Rows |-> TRUE] /\ idr_ptt' = TRUE
        /\ phase' = "raise" /\ column' = 0 /\ seen' = None /\ steady' = FALSE
        /\ boot_key_timer' = boot_key_timer
    BY DEF MachineReset
  <1>2. resets' \in 0..MaxResets
    BY <1>1, KeypadAssumption DEF PadInv, FlagTypes
  <1>3. 0 \in 0..(KEYPAD_COLS - 1)
    BY KeypadAssumption
  <1>4. CASE keypad_reset
    <2>1. /\ pressed' = {} /\ ptt' = FALSE /\ col_high' = Columns
          /\ staleRows' = FALSE /\ stalePtt' = FALSE
      BY <1>4 DEF keypad_reset
    <2>2. PadTypes' /\ FlagTypes'
      BY <1>1, <1>2, <1>3, <2>1 DEF PadInv, PadTypes, FlagTypes, OneKey
    <2>3. RowsFollow' /\ PttFollows'
      BY <1>1, <2>1 DEF RowsFollow, Low, PttFollows
    <2>4. ColumnsTold' /\ ColumnsFollow' /\ PinsOfPhase' /\ NotPassed'
      BY <1>1, <2>1 DEF ColumnsTold, ColumnsFollow, PinsOfPhase, NotPassed
    <2> QED
      BY <2>2, <2>3, <2>4 DEF PadInv
  <1>5. CASE UNCHANGED padVars /\ staleRows' = TRUE /\ stalePtt' = TRUE
    <2>1. UNCHANGED <<pressed, col_high, ptt>> /\ staleRows' = TRUE /\ stalePtt' = TRUE
      BY <1>5 DEF padVars
    <2>2. PadTypes' /\ FlagTypes'
      BY <1>1, <1>2, <1>3, <2>1 DEF PadInv, PadTypes, FlagTypes, OneKey
    <2>3. RowsFollow' /\ PttFollows'
      BY <2>1 DEF RowsFollow, PttFollows
    <2>4. ColumnsTold' /\ ColumnsFollow' /\ PinsOfPhase' /\ NotPassed'
      BY <1>1, <2>1 DEF ColumnsTold, ColumnsFollow, PinsOfPhase, NotPassed
    <2> QED
      BY <2>2, <2>3, <2>4 DEF PadInv
  <1> QED
    BY <1>4, <1>5 DEF MachineReset

\* Every step of host, firmware and timer keeps PadInv.
LEMMA PadNext == PadInv /\ [Next]_vars => PadInv'
  <1> SUFFICES ASSUME PadInv, [Next]_vars PROVE PadInv'
    OBVIOUS
  <1>1. ASSUME NEW k \in {{}} \cup {{x} : x \in Keys}, HostPress(k)
        PROVE  PadInv'
    <2>1. keypad_set_press(k) /\ steady' = FALSE /\ UNCHANGED <<odr, scanVars>>
      BY <1>1 DEF HostPress
    <2>2. staleRows' = FALSE
      BY <2>1 DEF keypad_set_press, keypad_update_rows
    <2>3. UNCHANGED <<idr_ptt, ptt, boot_key_timer, stalePtt, resets, phase>>
      BY <1>1 DEF HostPress, scanVars
    <2>4. FlagTypes' /\ PttFollows'
      BY <2>1, <2>2, <2>3 DEF PadInv, FlagTypes, PttFollows
    <2> QED
      BY <2>1, <2>4, PressKeepsInv
  <1>2. ASSUME NEW held \in BOOLEAN, HostPtt(held)
        PROVE  PadInv'
    <2>1. /\ ptt' = held /\ idr_ptt' = ~held /\ stalePtt' = FALSE
          /\ UNCHANGED <<odr, idr_rows, pressed, col_high, boot_key_timer, phase, column, seen,
                         steady, staleRows, resets>>
      BY <1>2 DEF HostPtt, keypad_set_ptt, scanVars
    <2>2. idr_ptt' \in BOOLEAN /\ PttFollows'
      BY <2>1, Zenon DEF PttFollows
    <2>3. PadTypes' /\ FlagTypes'
      BY <2>1, <2>2 DEF PadInv, PadTypes, FlagTypes, OneKey
    <2>4. RowsFollow' /\ ColumnsTold' /\ ColumnsFollow' /\ PinsOfPhase' /\ NotPassed'
      BY <2>1 DEF PadInv, RowsFollow, Low, ColumnsTold, ColumnsFollow, PinsOfPhase, NotPassed
    <2> QED
      BY <2>2, <2>3, <2>4 DEF PadInv
  <1>3. CASE uvk5_boot_key_release
    <2>1. keypad_set_press({}) /\ steady' = FALSE /\ UNCHANGED <<odr, scanVars>>
      BY <1>3 DEF uvk5_boot_key_release
    <2>2. staleRows' = FALSE
      BY <2>1 DEF keypad_set_press, keypad_update_rows
    <2>3. /\ ptt' = FALSE /\ idr_ptt' = TRUE /\ stalePtt' = FALSE /\ boot_key_timer' = FALSE
          /\ UNCHANGED <<resets, phase>>
      BY <1>3 DEF uvk5_boot_key_release, keypad_set_ptt, scanVars
    <2>4. FlagTypes' /\ PttFollows'
      BY <2>1, <2>2, <2>3 DEF PadInv, FlagTypes, PttFollows
    <2> QED
      BY <2>1, <2>4, PressKeepsInv
  <1>4. CASE UNCHANGED vars
    <2>1. UNCHANGED <<odr, idr_rows, idr_ptt, pressed, col_high, ptt, boot_key_timer, phase, column,
                      seen, steady, staleRows, stalePtt, resets>>
      BY <1>4 DEF vars, portVars, padVars, scanVars
    <2>2. PadTypes' /\ FlagTypes'
      BY <2>1 DEF PadInv, PadTypes, FlagTypes, OneKey
    <2>3. /\ RowsFollow' /\ PttFollows' /\ ColumnsTold' /\ ColumnsFollow'
          /\ PinsOfPhase' /\ NotPassed'
      BY <2>1 DEF PadInv, RowsFollow, Low, PttFollows, ColumnsTold, ColumnsFollow, PinsOfPhase,
                  NotPassed
    <2> QED
      BY <2>2, <2>3 DEF PadInv
  <1> QED
    BY <1>1, <1>2, <1>3, <1>4, ResetKeepsInv, RaiseKeepsInv, PullKeepsInv, ReadKeepsInv
    DEF Next, Scan

\* PadInv holds in every state.
LEMMA PadInvariant == Spec => []PadInv
  BY PadInit, PadNext, PTL DEF Spec

-----------------------------------------------------------------------------
(* The theorems *)

(***************************************************************************)
(* Port, matrix and scan keep their types, no more than one key is ever    *)
(* held, and a scan reports only keys the matrix has.                      *)
(***************************************************************************)
THEOREM PadTypeCorrect == Spec => []TypeOK
  <1>1. PadInv => TypeOK
    <2> SUFFICES ASSUME PadInv PROVE TypeOK
      OBVIOUS
    <2>1. Cardinality(pressed) <= 1
      <3>1. CASE pressed = {}
        BY <3>1, FS_EmptySet
      <3>2. CASE pressed # {}
        <4>1. PICK k : pressed = {k}
          BY <3>2 DEF PadInv, PadTypes, OneKey
        <4> QED
          BY <4>1, FS_Singleton
      <3> QED
        BY <3>1, <3>2
    <2> QED
      BY <2>1 DEF PadInv, PadTypes, FlagTypes, TypeOK
  <1> QED
    BY <1>1, PadInvariant, PTL

(***************************************************************************)
(* The input pins the guest reads are what the matrix and PTT drive, and   *)
(* the matrix sees the columns as the port drives them, unless the port    *)
(* was reset since: every path of keypad_col_changed, keypad_set_press and *)
(* keypad_set_ptt tells the other side.                                    *)
(***************************************************************************)
THEOREM PadLinesFollow == Spec => []LinesFollow
  <1>1. PadInv => LinesFollow
    BY DEF PadInv, RowsFollow, Low, PttFollows, ColumnsFollow, LinesFollow
  <1> QED
    BY <1>1, PadInvariant, PTL

(***************************************************************************)
(* A scan during which nothing changed reports the key that is held, and   *)
(* none when none is: for a matrix of any size, also right after a reset   *)
(* that left the port's inputs stale.                                      *)
(***************************************************************************)
THEOREM PadScanFindsKey == Spec => ScanFindsKey
  <1> DEFINE Found == seen' = IF pressed = {} THEN None ELSE CHOOSE k \in pressed : TRUE
  <1>1. ASSUME PadInv, ReadRows, steady, column' = 0
        PROVE  Found
    <2>1. OneKey /\ pressed \subseteq Keys /\ column \in 0..(KEYPAD_COLS - 1)
      BY <1>1 DEF PadInv, PadTypes
    <2>2. CASE seen' \in pressed
      <3>1. pressed = {seen'}
        BY <2>1, <2>2 DEF OneKey
      <3> QED
        BY <3>1
    <2>3. CASE /\ \A k \in pressed : k[1] # column
               /\ column' = (column + 1) % KEYPAD_COLS
               /\ seen' = IF column = KEYPAD_COLS - 1 THEN None ELSE seen
      <3>1. column = KEYPAD_COLS - 1
        BY <1>1, <2>1, <2>3, WrapColumn, KeypadAssumption
      <3>2. pressed = {}
        <4> SUFFICES ASSUME NEW k \in pressed PROVE FALSE
          OBVIOUS
        <4>1. k[1] \in 0..(KEYPAD_COLS - 1)
          BY <2>1, KeypadAssumption
        <4>2. k[1] >= column
          BY <1>1 DEF PadInv, NotPassed
        <4> QED
          BY <2>3, <3>1, <4>1, <4>2, KeypadAssumption
      <3> QED
        BY <2>3, <3>1, <3>2
    <2> QED
      BY <1>1, <2>2, <2>3, ReadOutcome
  <1>2. PadInv => [ReadRows /\ steady /\ column' = 0 => Found]_vars
    BY <1>1
  <1> QED
    BY <1>2, PadInvariant, PTL DEF ScanFindsKey

-----------------------------------------------------------------------------
(* Transfers to and from the transceiver *)

XferBits == CmdBits + DataBits
Clocking == step \in {"drive", "raise", "lower", "end"}

Xfers == [kind: {"none", "read", "write"}, reg: Registers, word: Words]

BkTypes ==
    /\ regs \in [Registers -> Words]
    /\ xfer \in Xfers
    /\ step \in {"init", "off", "drive", "raise", "lower", "end"}
    /\ step \in {"drive", "raise", "lower"} => sent \in 0..(XferBits - 1)
    /\ Clocking => xfer.kind # "none"
    /\ cs \in BOOLEAN /\ scl \in BOOLEAN
    /\ have_cmd \in BOOLEAN /\ reading \in BOOLEAN /\ skip_falling \in BOOLEAN

\* A chip that is not selected is at the start of a transfer.
AtStart == bit_count = 0 /\ shift_in = 0 /\ ~have_cmd /\ ~reading /\ ~skip_falling

\* The chip has taken p bits of the command.
CommandAt(p) ==
    /\ ~have_cmd /\ ~reading /\ ~skip_falling
    /\ bit_count = p /\ shift_in = CommandWord \div Place(CmdBits - p)

\* It has the command, and k bits of the word.
WriteAt(k) ==
    /\ have_cmd /\ ~reading /\ ~skip_falling /\ cmd = xfer.reg
    /\ bit_count = k /\ shift_in = xfer.word \div Place(DataBits - k)

Stored == xfer.reg # REG_INT_FLAGS => regs[xfer.reg] = xfer.word

\* It has the command, and has shifted k bits of the register out of the word; its
\* line shows the next.
ReadAt(k) ==
    /\ have_cmd /\ reading /\ bit_count = k
    /\ \E q \in Nat \ {0} :
          /\ Place(DataBits - k) * q = Place(DataBits)
          /\ shift_out = (regs[xfer.reg] % Place(DataBits - k)) * q
    /\ sda_in = Bit(shift_out, DataBits - 1)

\* The firmware has the first k bits of the register.
Gathered(k) == got = regs[xfer.reg] \div Place(DataBits - k)

\* Where a transfer is before and after the driver puts out a bit or samples one,
\* and between the two edges of the clock.
BeforeEdge ==
    /\ cs /\ ~scl
    /\ sent < CmdBits =>
          /\ CommandAt(sent) /\ got = 0
          /\ step = "raise" => sda_out = Bit(CommandWord, CmdBits - 1 - sent)
    /\ sent >= CmdBits /\ xfer.kind = "write" =>
          /\ WriteAt(sent - CmdBits)
          /\ step = "raise" => sda_out = Bit(xfer.word, XferBits - 1 - sent)
    /\ sent >= CmdBits /\ xfer.kind = "read" =>
          /\ ReadAt(sent - CmdBits) /\ ~skip_falling
          /\ Gathered(IF step = "raise" THEN sent - CmdBits + 1 ELSE sent - CmdBits)

BetweenEdges ==
    /\ cs /\ scl
    /\ sent < CmdBits - 1 => CommandAt(sent + 1) /\ got = 0
    /\ sent >= CmdBits - 1 /\ xfer.kind = "write" =>
          IF sent = XferBits - 1 THEN Stored /\ ~skip_falling /\ ~have_cmd ELSE WriteAt(sent + 1 - CmdBits)
    /\ sent = CmdBits - 1 /\ xfer.kind = "read" => ReadAt(0) /\ skip_falling /\ Gathered(0)
    /\ sent >= CmdBits /\ xfer.kind = "read" =>
          ReadAt(sent - CmdBits) /\ ~skip_falling /\ Gathered(sent - CmdBits + 1)

\* The inductive invariant.
BkInv ==
    /\ BkTypes
    /\ ~cs => AtStart
    /\ step = "off" => ~cs
    /\ step \in {"drive", "raise"} => BeforeEdge
    /\ step = "lower" => BetweenEdges
    /\ step = "end" => cs /\ TransferExact

\* The firmware leaves the request bit to the chip.
RequestIsTheChips == \A w \in Writes : w[1] # REG_INTERRUPT

NewsInv == RequestHasNews /\ (xfer.kind = "write" => xfer.reg # REG_INTERRUPT)

-----------------------------------------------------------------------------
(* Words and their bits *)

\* A set of n has 2^n subsets, and one element more doubles them: all that the
\* provers have to be told of powers of two.
LEMMA PowerSize ==
    ASSUME NEW n \in Nat
    PROVE  IsFiniteSet(SUBSET (1..n)) /\ Cardinality(SUBSET (1..n)) = 2^n
<1>1. IsFiniteSet(1..n) /\ Cardinality(1..n) = n
  <2>1. 1 \in Int /\ n \in Int
    OBVIOUS
  <2>2. IsFiniteSet(1..n) /\ Cardinality(1..n) = IF 1 > n THEN 0 ELSE n - 1 + 1
    BY <2>1, FS_Interval, Zenon
  <2> QED
    BY <2>2
<1> QED
  BY <1>1, FS_SUBSET, Zenon

LEMMA PowerDoubles ==
    ASSUME NEW n \in Nat
    PROVE  2^n \in Nat /\ 2^(n + 1) = 2 * 2^n
<1> DEFINE A == SUBSET (1..n)
           x == n + 1
           Ax == {B \cup {x} : B \in A}
           f == [B \in A |-> B \cup {x}]
<1>1. n + 1 \in Nat /\ x \notin 1..n /\ 1..(n + 1) = (1..n) \cup {x}
  OBVIOUS
<1>2. IsFiniteSet(A) /\ Cardinality(A) = 2^n
  BY PowerSize
<1>3. Cardinality(SUBSET (1..(n + 1))) = 2^(n + 1)
  BY <1>1, PowerSize
<1>4. SUBSET (1..(n + 1)) = A \cup Ax
  <2>1. ASSUME NEW B \in SUBSET (1..(n + 1))
        PROVE  B \in A \cup Ax
    <3>1. CASE x \in B
      <4>1. B \ {x} \in A
        BY <1>1
      <4>2. B = (B \ {x}) \cup {x}
        BY <3>1
      <4> QED
        BY <4>1, <4>2, Zenon
    <3>2. CASE x \notin B
      BY <1>1, <3>2
    <3> QED
      BY <3>1, <3>2
  <2>2. A \cup Ax \subseteq SUBSET (1..(n + 1))
    BY <1>1
  <2> QED
    BY <2>1, <2>2
<1>5. A \cap Ax = {}
  BY <1>1
<1>6. f \in Bijection(A, Ax)
  <2>1. f \in [A -> Ax]
    BY Zenon
  <2>2. ASSUME NEW B \in A, NEW C \in A, f[B] = f[C]
        PROVE  B = C
    <3>1. B \cup {x} = C \cup {x}
      BY <2>2
    <3>2. x \notin B /\ x \notin C
      BY <1>1
    <3> QED
      BY <3>1, <3>2
  <2>3. f \in Injection(A, Ax)
    BY <2>1, <2>2, Fun_IsInj, Zenon
  <2>4. f \in Surjection(A, Ax)
    BY Zenon DEF Surjection
  <2> QED
    BY <2>3, <2>4 DEF Bijection
<1>7. IsFiniteSet(Ax) /\ Cardinality(Ax) = Cardinality(A)
  <2>1. ExistsBijection(A, Ax)
    BY <1>6, Zenon DEF ExistsBijection
  <2> QED
    BY <1>2, <2>1, FS_Bijection
<1> HIDE DEF A, Ax, f, x
<1>8. Cardinality(A \cup Ax) = Cardinality(A) + Cardinality(Ax) - Cardinality(A \cap Ax)
  BY <1>2, <1>7, FS_Union, Zenon
<1>9. Cardinality(A \cap Ax) = 0
  BY <1>5, FS_EmptySet
<1>10. Cardinality(A) \in Nat
  BY <1>2, FS_CardinalityType
<1> DEFINE p == 2^n
           q == 2^(n + 1)
<1>11. /\ p = Cardinality(A) /\ q = Cardinality(A \cup Ax)
  BY <1>2, <1>3, <1>4, Zenon
<1>12. p \in Nat /\ q = 2 * p
  <2> HIDE DEF p, q
  <2> QED
    BY <1>7, <1>8, <1>9, <1>10, <1>11
<1> QED
  BY <1>12, Zenon

LEMMA PowerZero == 2^0 = 1
<1>1. Cardinality(SUBSET (1..0)) = 2^0
  BY PowerSize
<1>2. SUBSET (1..0) = {{}}
  OBVIOUS
<1> QED
  BY <1>1, <1>2, FS_Singleton

LEMMA Places ==
    /\ Place(0) = 1
    /\ \A n \in Nat : Place(n) \in Nat /\ Place(n + 1) = 2 * Place(n)
<1>1. \A n \in Nat : Place(n) \in Nat /\ Place(n + 1) = 2 * Place(n)
  BY PowerDoubles, Zenon DEF Place
<1>2. Place(0) = 1
  BY PowerZero, Zenon DEF Place
<1> QED
  BY <1>1, <1>2

\* No place is worth nothing: halving one that was would go on for ever.
LEMMA PlacePositive == \A n \in Nat : Place(n) \in Nat \ {0}
<1>1. ASSUME NEW n \in Nat PROVE Place(n) # 0
  <2>1. IsFiniteSet(SUBSET (1..n)) /\ Cardinality(SUBSET (1..n)) = Place(n)
    BY PowerSize, Zenon DEF Place
  <2>2. {} \in SUBSET (1..n)
    OBVIOUS
  <2>3. SUBSET (1..n) # {}
    BY <2>2
  <2> QED
    BY <2>1, <2>3, FS_EmptySet, Zenon
<1> QED
  BY <1>1, Places

\* Halving the divisor: the next bit of w joins those before it.
LEMMA NextBit ==
    ASSUME NEW w \in Nat, NEW a \in Nat \ {0}
    PROVE  2 * (w \div (2 * a)) + ((w \div a) % 2) = w \div a
<1> DEFINE d == w \div a
           r == w % a
           e == d \div 2
           b == d % 2
<1>1. d \in Nat /\ r \in 0..(a - 1) /\ w = a * d + r
  OBVIOUS
<1>2. e \in Nat /\ b \in 0..1 /\ d = 2 * e + b
  BY <1>1
<1> HIDE DEF d, r, e, b
<1>3. w = (2 * a) * e + (a * b + r)
  <2>1. a * d = a * (2 * e + b)
    BY <1>2
  <2>2. a * (2 * e + b) = (2 * a) * e + a * b
    BY <1>1, <1>2
  <2> QED
    BY <1>1, <1>2, <2>1, <2>2
<1>4. a * b + r \in 0..(2 * a - 1)
  <2>1. b = 0 \/ b = 1
    BY <1>2
  <2> QED
    BY <1>1, <2>1
<1>5. w \div (2 * a) = e
  BY <1>1, <1>2, <1>3, <1>4
<1> QED
  BY <1>2, <1>5 DEF d, b

\* The word in the shift register is what is left of w, moved to the top: its
\* first bit is the next of w, and shifting it leaves the rest.
LeftOf(w, a, q, P, s) == P = a * q /\ s = (w % (2 * a)) * q
Presents(w, a, q, P, s) ==
    (s \div P) % 2 = (w \div a) % 2 /\ (2 * s) % (2 * P) = (w % a) * (2 * q)

LEMMA PresentedBit ==
    ASSUME NEW w \in Nat, NEW a \in Nat \ {0}, NEW q \in Nat \ {0},
           NEW P \in Nat \ {0}, NEW s \in Nat, LeftOf(w, a, q, P, s)
    PROVE  Presents(w, a, q, P, s)
<1>l. P = a * q /\ s = (w % (2 * a)) * q
  BY DEF LeftOf
<1> DEFINE d == w \div a
           r == w % a
           e == d \div 2
           b == d % 2
<1>1. d \in Nat /\ r \in 0..(a - 1) /\ w = a * d + r
  OBVIOUS
<1>2. e \in Nat /\ b \in 0..1 /\ d = 2 * e + b
  BY <1>1
<1> HIDE DEF d, r, e, b
<1>3. w = (2 * a) * e + (a * b + r)
  <2>1. a * d = a * (2 * e + b)
    BY <1>2
  <2>2. a * (2 * e + b) = (2 * a) * e + a * b
    BY <1>1, <1>2
  <2> QED
    BY <1>1, <1>2, <2>1, <2>2
<1>4. a * b + r \in 0..(2 * a - 1)
  <2>1. b = 0 \/ b = 1
    BY <1>2
  <2> QED
    BY <1>1, <2>1
<1>5. w % (2 * a) = a * b + r
  BY <1>1, <1>2, <1>3, <1>4
<1> DEFINE x == r * q
<1>6. x \in 0..(P - 1)
  <2>1. x \in Nat
    BY <1>1
  <2>2. r <= a - 1 /\ r \in Nat /\ a - 1 \in Nat
    BY <1>1
  <2>3. r * q <= (a - 1) * q
    BY <2>2
  <2>4. (a - 1) * q = a * q - q
    OBVIOUS
  <2> QED
    BY <1>l, <2>1, <2>3, <2>4
<1>7. s = b * P + x
  <2>1. s = (a * b + r) * q
    BY <1>l, <1>5
  <2>2. CASE b = 0
    BY <1>1, <1>l, <2>1, <2>2
  <2>3. CASE b = 1
    <3>1. (a + r) * q = a * q + r * q
      BY <1>1
    <3> QED
      BY <1>1, <1>l, <2>1, <2>3, <3>1
  <2> QED
    BY <1>2, <2>2, <2>3
<1> HIDE DEF x
<1>8. (s \div P) % 2 = b
  <2>1. CASE b = 0
    <3>1. s \div P = 0
      BY <1>6, <1>7, <2>1
    <3> QED
      BY <2>1, <3>1
  <2>2. CASE b = 1
    <3>1. s \div P = 1
      BY <1>6, <1>7, <2>2
    <3> QED
      BY <2>2, <3>1
  <2> QED
    BY <1>2, <2>1, <2>2
<1>9. (2 * s) % (2 * P) = 2 * x
  <2>1. CASE b = 0
    BY <1>6, <1>7, <2>1
  <2>2. CASE b = 1
    BY <1>6, <1>7, <2>2
  <2> QED
    BY <1>2, <2>1, <2>2
<1>10. r * (2 * q) = 2 * x /\ r * (2 * q) \in Nat
  <2>1. r * (2 * q) = 2 * (r * q)
    BY <1>1
  <2> QED
    BY <1>6, <2>1 DEF x
<1> QED
  BY <1>8, <1>9, <1>10 DEF b, d, r, Presents

\* A command has one bit more than a register's number, the read bit.
LEMMA CommandBits ==
    ASSUME NEW n \in Nat \ {0}, NEW r \in 0..(n - 1)
    PROVE  /\ r \div n = 0 /\ r % n = r /\ r \div (2 * n) = 0
           /\ (n + r) \div n = 1 /\ (n + r) % n = r /\ (n + r) \div (2 * n) = 0
  OBVIOUS

\* Setting and clearing bit 0.
LEMMA LowBit ==
    ASSUME NEW w \in Words
    PROVE  /\ Bit(w, 0) = w % 2
           /\ WithBit0(w, 0) \in Words /\ WithBit0(w, 1) \in Words
           /\ Bit(WithBit0(w, 0), 0) = 0
<1>1. /\ DataBits - 1 \in Nat /\ DataBits - 1 + 1 = DataBits
  BY BkAssumption
<1>2. /\ Place(0) = 1 /\ Place(DataBits - 1) \in Nat
      /\ Place(DataBits) = 2 * Place(DataBits - 1)
  BY <1>1, Places
<1> DEFINE h == Place(DataBits - 1)
<1> HIDE DEF h
<1>3. w \in 0..(2 * h - 1) /\ h \in Nat /\ Words = 0..(2 * h - 1)
  BY <1>2 DEF Words, h
<1>4. Bit(w, 0) = w % 2
  BY <1>2, <1>3 DEF Bit
<1>5. WithBit0(w, 0) = w - (w % 2) /\ WithBit0(w, 1) = w - (w % 2) + 1
  BY <1>3, <1>4 DEF WithBit0
<1>6. w - (w % 2) \in 0..(2 * h - 1) /\ w - (w % 2) + 1 \in 0..(2 * h - 1)
  BY <1>3
<1>7. Bit(WithBit0(w, 0), 0) = (w - (w % 2)) % 2
  <2>1. (w - (w % 2)) \div 1 = w - (w % 2)
    BY <1>3
  <2> QED
    BY <1>2, <1>5, <2>1 DEF Bit
<1>8. (w - (w % 2)) % 2 = 0
  BY <1>3
<1> QED
  BY <1>3, <1>4, <1>5, <1>6, <1>7, <1>8

LEMMA BkSizes ==
    /\ RegBits \in Nat \ {0} /\ DataBits \in Nat \ {0, 1}
    /\ CmdBits = RegBits + 1 /\ CmdBits \in Nat \ {0, 1}
    /\ XferBits = CmdBits + DataBits /\ XferBits \in Nat
    /\ \A n \in Nat : Place(n) \in Nat \ {0}
    /\ \A n \in Nat \ {0} : Place(n) = 2 * Place(n - 1)
    /\ Place(0) = 1
<1>1. RegBits \in Nat \ {0} /\ DataBits \in Nat \ {0, 1}
  BY BkAssumption
<1>2. \A n \in Nat \ {0} : Place(n) = 2 * Place(n - 1)
  <2> TAKE n \in Nat \ {0}
  <2>1. n - 1 \in Nat /\ n - 1 + 1 = n
    OBVIOUS
  <2> QED
    BY <2>1, Places
<1> QED
  BY <1>1, <1>2, Places, PlacePositive DEF CmdBits, XferBits

LEMMA BkNumbers ==
    /\ REG_INTERRUPT \in Registers /\ REG_INT_FLAGS \in Registers
    /\ REG_INTERRUPT # REG_INT_FLAGS
    /\ Registers = 0..(Place(RegBits) - 1) /\ Words = 0..(Place(DataBits) - 1)
    /\ 0 \in Registers /\ 0 \in Words
    /\ \A flags : FlagWord(flags) \in Words
<1>1. REG_INTERRUPT \in Registers /\ REG_INT_FLAGS \in Registers /\ REG_INTERRUPT # REG_INT_FLAGS
  BY RegistersAssumption
<1>2. Place(RegBits) \in Nat \ {0}
  BY BkSizes
<1>3. Place(DataBits) \in Nat /\ Place(DataBits) >= 4
  <2>1. DataBits - 2 \in Nat /\ DataBits - 1 \in Nat \ {0} /\ DataBits \in Nat \ {0} /\ DataBits - 1 - 1 = DataBits - 2
    BY BkSizes
  <2>2. /\ Place(DataBits) = 2 * Place(DataBits - 1)
        /\ Place(DataBits - 1) = 2 * Place(DataBits - 2)
        /\ Place(DataBits - 2) \in Nat \ {0}
    BY <2>1, BkSizes
  <2> QED
    BY <2>2
<1>4. Registers = 0..(Place(RegBits) - 1) /\ Words = 0..(Place(DataBits) - 1)
  BY DEF Registers, Words
<1>5. \A flags : FlagWord(flags) \in 0..3
  BY DEF FlagWord
<1> QED
  BY <1>1, <1>2, <1>3, <1>4, <1>5

-----------------------------------------------------------------------------
(* What a bit adds *)

\* The bit on the line is the next one of the register.
LEMMA ReadStep ==
    ASSUME BkTypes, NEW k \in 0..(DataBits - 1), ReadAt(k), Gathered(k)
    PROVE  2 * got + sda_in = regs[xfer.reg] \div Place(DataBits - (k + 1))
<1> DEFINE w == regs[xfer.reg]
           a == Place(DataBits - (k + 1))
           P == Place(DataBits - 1)
<1>1. /\ DataBits - (k + 1) \in Nat /\ DataBits - k \in Nat \ {0} /\ DataBits - 1 \in Nat
      /\ DataBits \in Nat \ {0} /\ DataBits - k - 1 = DataBits - (k + 1)
  BY BkSizes
<1>2. /\ a \in Nat \ {0} /\ P \in Nat \ {0}
      /\ Place(DataBits - k) = 2 * a /\ Place(DataBits) = 2 * P
  BY <1>1, BkSizes
<1>3. w \in Nat
  <2>1. w \in Words
    BY DEF BkTypes, Xfers
  <2> QED
    BY <1>2, <2>1, BkNumbers
<1>4. PICK q \in Nat \ {0} : /\ Place(DataBits - k) * q = Place(DataBits)
                             /\ shift_out = (w % Place(DataBits - k)) * q
  BY DEF ReadAt
<1>5. sda_in = (shift_out \div P) % 2 /\ got = w \div Place(DataBits - k)
  BY DEF ReadAt, Gathered, Bit
<1> HIDE DEF w, a, P
<1>6. P = a * q
  <2>1. (2 * a) * q = 2 * P
    BY <1>2, <1>4
  <2>2. (2 * a) * q = 2 * (a * q)
    BY <1>2
  <2> QED
    BY <1>2, <2>1, <2>2
<1>7. shift_out = (w % (2 * a)) * q /\ shift_out \in Nat
  <2>1. shift_out = (w % (2 * a)) * q
    BY <1>2, <1>4
  <2>2. w % (2 * a) \in Nat
    BY <1>2, <1>3
  <2> QED
    BY <2>1, <2>2
<1>8. (shift_out \div P) % 2 = (w \div a) % 2
  <2>1. w \in Nat /\ a \in Nat \ {0} /\ q \in Nat \ {0} /\ P \in Nat \ {0} /\ shift_out \in Nat
    BY <1>2, <1>3, <1>7
  <2>2. LeftOf(w, a, q, P, shift_out)
    BY <1>6, <1>7 DEF LeftOf
  <2>3. Presents(w, a, q, P, shift_out)
    BY <2>1, <2>2, PresentedBit, Zenon
  <2> QED
    BY <2>3 DEF Presents
<1>9. 2 * (w \div (2 * a)) + ((w \div a) % 2) = w \div a
  BY <1>2, <1>3, NextBit
<1> QED
  BY <1>2, <1>5, <1>8, <1>9 DEF w, a

\* Shifting the word leaves the rest of it at the top.
LEMMA ShiftStep ==
    ASSUME BkTypes, NEW k \in 0..(DataBits - 1), k + 1 < DataBits, ReadAt(k)
    PROVE  \E q \in Nat \ {0} :
              /\ Place(DataBits - (k + 1)) * q = Place(DataBits)
              /\ (2 * shift_out) % Place(DataBits) = (regs[xfer.reg] % Place(DataBits - (k + 1))) * q
<1> DEFINE w == regs[xfer.reg]
           a == Place(DataBits - (k + 1))
           P == Place(DataBits - 1)
<1>1. /\ DataBits - (k + 1) \in Nat /\ DataBits - k \in Nat \ {0} /\ DataBits - 1 \in Nat
      /\ DataBits \in Nat \ {0} /\ DataBits - k - 1 = DataBits - (k + 1)
  BY BkSizes
<1>2. /\ a \in Nat \ {0} /\ P \in Nat \ {0}
      /\ Place(DataBits - k) = 2 * a /\ Place(DataBits) = 2 * P
  BY <1>1, BkSizes
<1>3. w \in Nat
  <2>1. w \in Words
    BY DEF BkTypes, Xfers
  <2> QED
    BY <1>2, <2>1, BkNumbers
<1>4. PICK q \in Nat \ {0} : /\ Place(DataBits - k) * q = Place(DataBits)
                             /\ shift_out = (w % Place(DataBits - k)) * q
  BY DEF ReadAt
<1> HIDE DEF w, a, P
<1>6. P = a * q
  <2>1. (2 * a) * q = 2 * P
    BY <1>2, <1>4
  <2>2. (2 * a) * q = 2 * (a * q)
    BY <1>2
  <2> QED
    BY <1>2, <2>1, <2>2
<1>7. shift_out = (w % (2 * a)) * q /\ shift_out \in Nat
  <2>1. shift_out = (w % (2 * a)) * q
    BY <1>2, <1>4
  <2>2. w % (2 * a) \in Nat
    BY <1>2, <1>3
  <2> QED
    BY <2>1, <2>2
<1>8. (2 * shift_out) % (2 * P) = (w % a) * (2 * q)
  <2>1. w \in Nat /\ a \in Nat \ {0} /\ q \in Nat \ {0} /\ P \in Nat \ {0} /\ shift_out \in Nat
    BY <1>2, <1>3, <1>7
  <2>2. LeftOf(w, a, q, P, shift_out)
    BY <1>6, <1>7 DEF LeftOf
  <2>3. Presents(w, a, q, P, shift_out)
    BY <2>1, <2>2, PresentedBit, Zenon
  <2> QED
    BY <2>3 DEF Presents
<1>9. a * (2 * q) = 2 * P /\ 2 * q \in Nat \ {0}
  <2>1. a * (2 * q) = 2 * (a * q)
    BY <1>2
  <2> QED
    BY <1>6, <2>1
<1>10. /\ a * (2 * q) = Place(DataBits)
       /\ (2 * shift_out) % Place(DataBits) = (w % a) * (2 * q)
  BY <1>2, <1>8, <1>9
<1> QED
  BY <1>9, <1>10 DEF w, a

\* A bit that is shifted in, of a command or of a word of n bits.
LEMMA TakenBit ==
    ASSUME NEW w \in Nat, NEW n \in Nat, NEW p \in Nat, p < n
    PROVE  2 * (w \div Place(n - p)) + Bit(w, n - 1 - p) = w \div Place(n - (p + 1))
<1>1. n - p \in Nat \ {0} /\ n - (p + 1) \in Nat /\ n - p - 1 = n - (p + 1) /\ n - 1 - p = n - (p + 1)
  OBVIOUS
<1>2. Place(n - (p + 1)) \in Nat \ {0} /\ Place(n - p) = 2 * Place(n - (p + 1))
  BY <1>1, BkSizes
<1> QED
  BY <1>1, <1>2, NextBit DEF Bit

CommandOf(x) == (IF x.kind = "read" THEN Place(RegBits) ELSE 0) + x.reg

\* The command is the register and the read bit, and no wider than the chip counts.
LEMMA CommandWords ==
    ASSUME NEW x \in Xfers, x.kind # "none"
    PROVE  /\ CommandOf(x) \in Nat /\ x.word \in Nat /\ x.reg \in Registers /\ x.word \in Words
           /\ CommandOf(x) \div Place(CmdBits) = 0 /\ CommandOf(x) \div Place(0) = CommandOf(x)
           /\ CommandOf(x) % Place(RegBits) = x.reg
           /\ (Bit(CommandOf(x), RegBits) = 1) <=> (x.kind = "read")
           /\ x.word \div Place(DataBits) = 0 /\ x.word \div Place(0) = x.word
<1> DEFINE n == Place(RegBits)
           d == Place(DataBits)
<1>1. x.kind \in {"read", "write"} /\ x.reg \in Registers /\ x.word \in Words
  BY DEF Xfers
<1>2. n \in Nat \ {0} /\ d \in Nat \ {0} /\ Place(0) = 1
  BY BkSizes
<1>3. Place(CmdBits) = 2 * n
  <2>1. CmdBits \in Nat \ {0} /\ CmdBits - 1 = RegBits
    BY BkSizes
  <2> QED
    BY <2>1, BkSizes
<1>4. x.reg \in 0..(n - 1) /\ x.word \in 0..(d - 1)
  BY <1>1, BkNumbers
<1>c. CommandOf(x) = (IF x.kind = "read" THEN n ELSE 0) + x.reg
  BY DEF CommandOf
<1>b. Bit(CommandOf(x), RegBits) = (CommandOf(x) \div n) % 2
  BY DEF Bit
<1> HIDE DEF n, d
<1>5. x.word \div d = 0 /\ x.word \div 1 = x.word /\ x.word \in Nat
  BY <1>2, <1>4
<1>6. /\ x.reg \div n = 0 /\ x.reg % n = x.reg /\ x.reg \div (2 * n) = 0
      /\ (n + x.reg) \div n = 1 /\ (n + x.reg) % n = x.reg /\ (n + x.reg) \div (2 * n) = 0
  BY <1>2, <1>4, CommandBits
<1>7. CASE x.kind = "read"
  <2>1. CommandOf(x) = n + x.reg /\ CommandOf(x) \in Nat
    BY <1>2, <1>4, <1>7, <1>c
  <2>2. CommandOf(x) \div 1 = CommandOf(x)
    BY <2>1
  <2>3. Bit(CommandOf(x), RegBits) = 1
    BY <1>6, <1>b, <2>1
  <2> QED
    BY <1>1, <1>2, <1>3, <1>5, <1>6, <1>7, <2>1, <2>2, <2>3 DEF n, d
<1>8. CASE x.kind = "write"
  <2>1. CommandOf(x) = x.reg /\ CommandOf(x) \in Nat
    BY <1>2, <1>4, <1>8, <1>c
  <2>2. CommandOf(x) \div 1 = CommandOf(x)
    BY <2>1
  <2>3. Bit(CommandOf(x), RegBits) = 0
    BY <1>6, <1>b, <2>1
  <2> QED
    BY <1>1, <1>2, <1>3, <1>5, <1>6, <1>8, <2>1, <2>2, <2>3 DEF n, d
<1> QED
  BY <1>1, <1>7, <1>8

-----------------------------------------------------------------------------
(* Every step keeps the invariant *)

LEMMA BkStarts == BkInit => BkInv
<1> SUFFICES ASSUME BkInit PROVE BkInv
  OBVIOUS
<1>1. NoXfer \in Xfers
  BY BkNumbers DEF NoXfer, Xfers
<1>2. BkTypes
  BY <1>1, BkNumbers DEF BkInit, BkTypes, Clocking
<1> QED
  BY <1>2 DEF BkInit, BkInv, AtStart

\* A transfer begins on a chip that is at the start of one.
LEMMA BkBegins ==
    ASSUME BkInv, NEW k \in {"read", "write"}, NEW r \in Registers, NEW w \in Words, Begin(k, r, w)
    PROVE  BkInv'
<1>1. /\ step' = "drive" /\ cs' /\ ~scl' /\ sent' = 0 /\ got' = 0
      /\ xfer' = [kind |-> k, reg |-> r, word |-> w]
      /\ UNCHANGED <<bit_count, shift_in, have_cmd, reading, skip_falling, regs>>
  BY DEF Begin, bk4819_set_cs, decodeVars
<1>2. AtStart
  BY DEF BkInv, Begin
<1>3. xfer' \in Xfers /\ xfer'.kind # "none" /\ xfer'.kind \in {"read", "write"}
  BY <1>1 DEF Xfers
<1>4. CommandWord' \div Place(CmdBits) = 0
  <2>1. CommandWord' = CommandOf(xfer')
    BY DEF CommandWord, CommandOf
  <2> QED
    BY <1>3, <2>1, CommandWords
<1>5. CmdBits \in Nat \ {0, 1} /\ XferBits \in Nat /\ 0 \in 0..(XferBits - 1) /\ CmdBits - 0 = CmdBits
  BY BkSizes
<1>6. BkTypes'
  <2>1. /\ regs' \in [Registers -> Words] /\ cs' \in BOOLEAN /\ scl' \in BOOLEAN
        /\ have_cmd' \in BOOLEAN /\ reading' \in BOOLEAN /\ skip_falling' \in BOOLEAN
    BY <1>1 DEF BkInv, BkTypes, Begin, bk4819_set_cs
  <2> QED
    BY <1>1, <1>3, <1>5, <2>1 DEF BkTypes, Clocking
<1>7. BeforeEdge'
  <2>1. CommandAt(sent)'
    BY <1>1, <1>2, <1>4, <1>5 DEF CommandAt, AtStart
  <2> QED
    BY <1>1, <1>5, <2>1 DEF BeforeEdge
<1> QED
  BY <1>1, <1>6, <1>7 DEF BkInv

\* The driver puts the next bit on the line, or takes the one the chip presents.
LEMMA BkDrives ==
    ASSUME BkInv, Drive
    PROVE  BkInv'
<1>1. /\ step = "drive" /\ step' = "raise"
      /\ UNCHANGED <<cs, scl, bit_count, shift_in, cmd, have_cmd, reading, skip_falling, shift_out, sda_in,
                     regs, xfer, sent>>
  BY DEF Drive, decodeVars, outVars
<1>2. BkTypes /\ BeforeEdge /\ sent \in 0..(XferBits - 1) /\ xfer.kind \in {"read", "write"}
  BY <1>1 DEF BkInv, BkTypes, Clocking, Xfers
<1>3. BkTypes'
  BY <1>1, <1>2 DEF BkTypes, Clocking
<1>4. CmdBits \in Nat \ {0, 1} /\ DataBits \in Nat \ {0, 1} /\ XferBits = CmdBits + DataBits
  BY BkSizes
<1>5. BeforeEdge'
  <2>1. CASE sent < CmdBits
    <3>1. CommandAt(sent) /\ got = 0 /\ sda_out' = Bit(CommandWord, CmdBits - 1 - sent) /\ got' = got
      BY <1>1, <1>2, <2>1 DEF Drive, InCommand, BeforeEdge
    <3>2. CommandAt(sent)' /\ CommandWord' = CommandWord
      BY <1>1, <3>1 DEF CommandAt, CommandWord
    <3> QED
      BY <1>1, <1>2, <1>4, <2>1, <3>1, <3>2 DEF BeforeEdge
  <2>2. CASE sent >= CmdBits /\ xfer.kind = "write"
    <3>1. /\ WriteAt(sent - CmdBits) /\ sda_out' = Bit(xfer.word, XferBits - 1 - sent)
      BY <1>1, <1>2, <1>4, <2>2 DEF Drive, InCommand, BeforeEdge
    <3>2. WriteAt(sent - CmdBits)'
      BY <1>1, <3>1 DEF WriteAt
    <3> QED
      BY <1>1, <1>2, <1>4, <2>2, <3>1, <3>2 DEF BeforeEdge
  <2>3. CASE sent >= CmdBits /\ xfer.kind = "read"
    <3> DEFINE k == sent - CmdBits
    <3>0. k \in 0..(DataBits - 1)
      BY <1>2, <1>4, <2>3
    <3>1. /\ ReadAt(k) /\ ~skip_falling /\ Gathered(k) /\ got' = 2 * got + sda_in
      BY <1>1, <1>2, <1>4, <2>3 DEF Drive, InCommand, BeforeEdge
    <3>2. got' = regs[xfer.reg] \div Place(DataBits - (k + 1))
      BY <1>2, <3>0, <3>1, ReadStep
    <3>3. ReadAt(k)'
      BY <1>1, <3>1 DEF ReadAt
    <3>4. Gathered(k + 1)'
      BY <1>1, <3>2 DEF Gathered
    <3> QED
      BY <1>1, <1>2, <1>4, <2>3, <3>1, <3>3, <3>4 DEF BeforeEdge
  <2> QED
    BY <1>2, <1>4, <2>1, <2>2, <2>3
<1>6. cs'
  BY <1>1, <1>2 DEF BeforeEdge
<1> QED
  BY <1>1, <1>3, <1>5, <1>6 DEF BkInv

\* Chip select high, and a reset of either side, leave nothing of a transfer.
LEMMA BkRests ==
    ASSUME BkInv, End \/ DriverInit \/ BkMachineReset
    PROVE  BkInv'
<1>0. NoXfer \in Xfers /\ 0 \in Words
  BY BkNumbers DEF NoXfer, Xfers
<1>1. /\ step' \in {"init", "off"} /\ regs' \in [Registers -> Words] /\ xfer' \in Xfers
      /\ cs' \in BOOLEAN /\ scl' \in BOOLEAN
  BY <1>0 DEF BkInv, BkTypes, End, DriverInit, BkMachineReset, bk4819_set_cs, bk4819_reset, lineVars, xferVars
<1>2. /\ have_cmd' \in BOOLEAN /\ reading' \in BOOLEAN /\ skip_falling' \in BOOLEAN
      /\ ~cs' => AtStart'
      /\ step' = "off" => ~cs'
  <2>1. CASE End
    BY <2>1 DEF BkInv, BkTypes, End, bk4819_set_cs, AtStart, decodeVars
  <2>2. CASE DriverInit
    BY <2>2 DEF BkInv, BkTypes, DriverInit, bk4819_set_cs, AtStart, decodeVars
  <2>3. CASE BkMachineReset
    <3>0. step' = "init"
      BY <2>3 DEF BkMachineReset
    <3>1. CASE bk4819_reset
      BY <3>0, <3>1 DEF bk4819_reset, AtStart
    <3>2. CASE UNCHANGED <<lineVars, decodeVars, shift_out, regs, rxVars>>
      BY <3>0, <3>2 DEF BkInv, BkTypes, AtStart, decodeVars, lineVars
    <3> QED
      BY <2>3, <3>1, <3>2 DEF BkMachineReset
  <2> QED
    BY <2>1, <2>2, <2>3
<1> QED
  BY <1>1, <1>2 DEF BkInv, BkTypes, Clocking

\* What a rising edge does to the registers keeps them words.
LEMMA RegistersKept ==
    ASSUME regs \in [Registers -> Words], NEW word \in Words
    PROVE  /\ bk4819_eval_receiver => regs' \in [Registers -> Words]
           /\ Store(word) \in [Registers -> Words]
<1>1. \A r \in Registers : WithBit0(regs[r], 1) \in Words /\ WithBit0(regs[r], 0) \in Words
  BY LowBit
<1>2. REG_INTERRUPT \in Registers /\ 0 \in Words /\ FlagWord(pending_int) \in Words
  BY BkNumbers
<1>3. bk4819_eval_receiver => regs' \in [Registers -> Words]
  BY <1>1, <1>2 DEF bk4819_eval_receiver
<1>4. Store(word) \in [Registers -> Words]
  <2>1. CASE cmd = REG_INT_FLAGS
    BY <1>1, <1>2, <2>1 DEF Store
  <2>2. CASE cmd # REG_INT_FLAGS
    <3>1. \A r \in Registers :
             (CASE r = cmd -> word
                [] r = REG_INTERRUPT /\ cmd = REG_REVISION /\ Bit(word, DataBits - 1) = 1 -> 0
                [] OTHER -> regs[r]) \in Words
      BY <1>2
    <3> QED
      BY <2>2, <3>1 DEF Store
  <2> QED
    BY <2>1, <2>2
<1> QED
  BY <1>3, <1>4

\* A written word is in its register: only the flags have a word of their own.
LEMMA StoredWord ==
    ASSUME NEW word, cmd \in Registers, cmd # REG_INT_FLAGS
    PROVE  Store(word)[cmd] = word
<1>1. REG_INTERRUPT # REG_REVISION
  BY RegistersAssumption
<1>2. ~(cmd = REG_INTERRUPT /\ cmd = REG_REVISION /\ Bit(word, DataBits - 1) = 1)
  BY <1>1
<1> QED
  BY <1>2 DEF Store

\* The bits a rising edge completes: the command, and the word of a write.
LEMMA TakenWhole ==
    ASSUME BkTypes, BeforeEdge, step = "raise", xfer.kind \in {"read", "write"}
    PROVE  /\ sent \in 0..(XferBits - 1)
           /\ sent < CmdBits =>
                 2 * shift_in + sda_out = CommandWord \div Place(CmdBits - (sent + 1))
           /\ sent = CmdBits - 1 => 2 * shift_in + sda_out = CommandWord
           /\ sent >= CmdBits /\ xfer.kind = "write" =>
                 2 * shift_in + sda_out = xfer.word \div Place(DataBits - (sent - CmdBits + 1))
           /\ sent = XferBits - 1 /\ xfer.kind = "write" => 2 * shift_in + sda_out = xfer.word
<1>1. sent \in 0..(XferBits - 1) /\ xfer \in Xfers
  BY DEF BkTypes
<1>2. CmdBits \in Nat \ {0, 1} /\ DataBits \in Nat \ {0, 1} /\ XferBits = CmdBits + DataBits
  BY BkSizes
<1>3. CommandWord = CommandOf(xfer)
  BY DEF CommandWord, CommandOf
<1>4. /\ CommandWord \in Nat /\ xfer.word \in Nat
      /\ CommandWord \div Place(0) = CommandWord /\ xfer.word \div Place(0) = xfer.word
  BY <1>1, <1>3, CommandWords
<1>5. ASSUME sent < CmdBits
      PROVE  2 * shift_in + sda_out = CommandWord \div Place(CmdBits - (sent + 1))
  <2>1. shift_in = CommandWord \div Place(CmdBits - sent) /\ sda_out = Bit(CommandWord, CmdBits - 1 - sent)
    BY <1>5 DEF BeforeEdge, CommandAt
  <2>2. CmdBits \in Nat /\ sent \in Nat
    BY <1>1, <1>2
  <2>3. 2 * (CommandWord \div Place(CmdBits - sent)) + Bit(CommandWord, CmdBits - 1 - sent)
           = CommandWord \div Place(CmdBits - (sent + 1))
    BY <1>4, <1>5, <2>2, TakenBit
  <2> QED
    BY <2>1, <2>3
<1>6. ASSUME sent >= CmdBits, xfer.kind = "write"
      PROVE  2 * shift_in + sda_out = xfer.word \div Place(DataBits - (sent - CmdBits + 1))
  <2> DEFINE k == sent - CmdBits
  <2>1. k \in Nat /\ k < DataBits /\ DataBits - 1 - k = XferBits - 1 - sent /\ DataBits \in Nat
    BY <1>1, <1>2, <1>6
  <2>2. shift_in = xfer.word \div Place(DataBits - k) /\ sda_out = Bit(xfer.word, XferBits - 1 - sent)
    BY <1>6 DEF BeforeEdge, WriteAt
  <2> HIDE DEF k
  <2>3. 2 * (xfer.word \div Place(DataBits - k)) + Bit(xfer.word, DataBits - 1 - k)
           = xfer.word \div Place(DataBits - (k + 1))
    BY <1>4, <2>1, TakenBit
  <2>4. 2 * shift_in + sda_out = xfer.word \div Place(DataBits - (k + 1))
    BY <2>1, <2>2, <2>3
  <2> QED
    BY <2>4 DEF k
<1>7. sent = CmdBits - 1 => sent < CmdBits /\ CmdBits - (sent + 1) = 0
  BY <1>1, <1>2
<1>8. sent = XferBits - 1 => sent >= CmdBits /\ DataBits - (sent - CmdBits + 1) = 0
  BY <1>1, <1>2
<1> QED
  BY <1>1, <1>4, <1>5, <1>6, <1>7, <1>8

\* A rising edge takes one bit more of the command or of the word.
LEMMA BkRaises ==
    ASSUME BkInv, Raise
    PROVE  BkInv'
<1> USE DEF decodeVars, outVars, xferVars, rxVars
<1>1. /\ step = "raise" /\ step' = "lower" /\ scl'
      /\ UNCHANGED <<cs, sda_out, xfer, sent, got>>
  BY DEF Raise, bk4819_set_scl_high
<1>2. /\ BkTypes /\ BeforeEdge /\ sent \in 0..(XferBits - 1) /\ xfer \in Xfers
      /\ xfer.kind \in {"read", "write"} /\ cs /\ ~scl
  BY <1>1 DEF BkInv, BkTypes, Clocking, Xfers, BeforeEdge
<1>3. CommandBit \/ CommandDone \/ WriteBit \/ WriteDone \/ RisingWhileReading
  BY <1>2 DEF Raise, bk4819_set_scl_high
<1>4. CmdBits \in Nat \ {0, 1} /\ DataBits \in Nat \ {0, 1} /\ XferBits = CmdBits + DataBits
  BY BkSizes
<1>5. /\ CommandWord' = CommandWord /\ CommandWord = CommandOf(xfer)
      /\ xfer.reg \in Registers /\ xfer.word \in Words
      /\ CommandWord % Place(RegBits) = xfer.reg
      /\ (Bit(CommandWord, RegBits) = 1) <=> (xfer.kind = "read")
      /\ xfer.word \div Place(DataBits) = 0
  <2>1. CommandWord' = CommandWord /\ CommandWord = CommandOf(xfer)
    BY <1>1 DEF CommandWord, CommandOf
  <2> QED
    BY <1>2, <2>1, CommandWords
<1>6. SUFFICES /\ regs' \in [Registers -> Words]
               /\ have_cmd' \in BOOLEAN /\ reading' \in BOOLEAN /\ skip_falling' \in BOOLEAN
               /\ BetweenEdges'
  BY <1>1, <1>2 DEF BkInv, BkTypes, Clocking
<1>7. CASE sent < CmdBits - 1
  <2>1. CommandAt(sent) /\ got = 0
    BY <1>2, <1>4, <1>7 DEF BeforeEdge
  <2>2. ~have_cmd /\ bit_count = sent /\ ~reading /\ ~skip_falling
    BY <2>1 DEF CommandAt
  <2>3. CommandBit
    BY <1>2, <1>3, <1>4, <1>7, <2>2 DEF CommandDone, WriteBit, WriteDone, RisingWhileReading
  <2>4. 2 * shift_in + sda_out = CommandWord \div Place(CmdBits - (sent + 1))
    BY <1>1, <1>2, <1>4, <1>7, TakenWhole
  <2>5. CommandAt(sent + 1)'
    BY <1>1, <1>5, <2>2, <2>3, <2>4 DEF CommandAt, CommandBit
  <2>6. BetweenEdges'
    BY <1>1, <1>2, <1>4, <1>7, <2>1, <2>5 DEF BetweenEdges
  <2> QED
    BY <1>2, <2>3, <2>6 DEF CommandBit, BkTypes
<1>8. CASE sent = CmdBits - 1
  <2>0. sent < CmdBits
    BY <1>2, <1>4, <1>8
  <2>1. CommandAt(sent) /\ got = 0
    BY <1>2, <2>0 DEF BeforeEdge
  <2>2. ~have_cmd /\ bit_count = sent /\ ~reading /\ ~skip_falling
    BY <2>1 DEF CommandAt
  <2>3. CommandDone
    BY <1>2, <1>3, <1>4, <1>8, <2>2 DEF CommandBit, WriteBit, WriteDone, RisingWhileReading
  <2>4. 2 * shift_in + sda_out = CommandWord
    BY <1>1, <1>2, <1>8, TakenWhole
  <2>5. /\ reading' = (xfer.kind = "read") /\ cmd' = xfer.reg
        /\ have_cmd' /\ bit_count' = 0 /\ shift_in' = 0
        /\ skip_falling' = (xfer.kind = "read")
    BY <1>5, <2>2, <2>3, <2>4 DEF CommandDone, SkipNext
  <2>6. regs' \in [Registers -> Words]
    BY <1>2, <1>5, <2>3, RegistersKept DEF CommandDone, BkTypes
  <2>7. CASE xfer.kind = "write"
    <3>1. WriteAt(0)'
      <4>1. DataBits - 0 = DataBits
        BY <1>4
      <4> QED
        BY <1>1, <1>5, <2>5, <2>7, <4>1 DEF WriteAt
    <3>2. BetweenEdges'
      <4>1. sent + 1 - CmdBits = 0 /\ sent # XferBits - 1 /\ ~(sent < CmdBits - 1)
        BY <1>2, <1>4, <1>8
      <4> QED
        BY <1>1, <1>2, <2>7, <3>1, <4>1 DEF BetweenEdges
    <3> QED
      BY <2>5, <2>6, <3>2
  <2>8. CASE xfer.kind = "read"
    <3> DEFINE v == regs'[xfer.reg]
               d == Place(DataBits)
    <3>1. v \in 0..(d - 1) /\ d \in Nat \ {0}
      BY <1>5, <2>6, BkNumbers, BkSizes
    <3>2. /\ shift_out' = v /\ sda_in' = Bit(shift_out', DataBits - 1)
      BY <2>3, <2>5, <2>8 DEF CommandDone
    <3>3. d * 1 = d /\ v = (v % d) * 1 /\ v \div d = 0
      <4> HIDE DEF v, d
      <4> QED
        BY <3>1
    <3>4. DataBits - 0 = DataBits
      BY <1>4
    <3>5. ReadAt(0)'
      <4>1. \E q \in Nat \ {0} : d * q = d /\ shift_out' = (v % d) * q
        BY <3>2, <3>3
      <4> QED
        BY <1>1, <2>5, <2>8, <3>2, <3>4, <4>1 DEF ReadAt
    <3>6. Gathered(0)'
      BY <1>1, <2>1, <3>3, <3>4 DEF Gathered
    <3>7. BetweenEdges'
      <4>1. ~(sent < CmdBits - 1) /\ ~(sent >= CmdBits)
        BY <1>2, <1>4, <1>8
      <4> QED
        BY <1>1, <1>2, <1>8, <2>5, <2>8, <3>5, <3>6, <4>1 DEF BetweenEdges
    <3> QED
      BY <2>5, <2>6, <3>7
  <2> QED
    BY <1>2, <2>7, <2>8
<1>9. CASE sent >= CmdBits /\ xfer.kind = "write"
  <2> DEFINE k == sent - CmdBits
  <2>0. k \in 0..(DataBits - 1) /\ k + 1 = sent + 1 - CmdBits /\ (sent = XferBits - 1 <=> k + 1 = DataBits)
    BY <1>2, <1>4, <1>9
  <2>1. WriteAt(k)
    BY <1>2, <1>9 DEF BeforeEdge
  <2>2. have_cmd /\ bit_count = k /\ ~reading /\ ~skip_falling /\ cmd = xfer.reg
    BY <2>1 DEF WriteAt
  <2>3. ~(sent < CmdBits - 1) /\ ~(sent = CmdBits - 1)
    BY <1>2, <1>4, <1>9
  <2>4. CASE k + 1 < DataBits
    <3>1. WriteBit
      <4>1. ~CommandBit /\ ~CommandDone
        BY <2>2 DEF CommandBit, CommandDone
      <4>2. ~WriteDone
        BY <1>4, <2>0, <2>2, <2>4 DEF WriteDone
      <4>3. ~RisingWhileReading
        BY <2>2 DEF RisingWhileReading
      <4> QED
        BY <1>3, <4>1, <4>2, <4>3
    <3>2. 2 * shift_in + sda_out = xfer.word \div Place(DataBits - (k + 1))
      BY <1>1, <1>2, <1>9, TakenWhole
    <3>3. WriteAt(k + 1)'
      BY <1>1, <2>2, <3>1, <3>2 DEF WriteAt, WriteBit
    <3>4. BetweenEdges'
      <4>1. sent # XferBits - 1
        BY <1>4, <2>0, <2>4
      <4>2. WriteAt(sent + 1 - CmdBits)'
        BY <1>1, <2>0, <3>3
      <4> QED
        BY <1>1, <1>2, <1>9, <2>3, <4>1, <4>2 DEF BetweenEdges
    <3> QED
      BY <1>2, <3>1, <3>4 DEF WriteBit, BkTypes
  <2>5. CASE k + 1 = DataBits
    <3>1. WriteDone
      <4>1. ~CommandBit /\ ~CommandDone
        BY <2>2 DEF CommandBit, CommandDone
      <4>2. ~(bit_count + 1 < DataBits)
        BY <1>4, <2>2, <2>5
      <4>4. ~WriteBit
        BY <4>2 DEF WriteBit
      <4>3. ~RisingWhileReading
        BY <2>2 DEF RisingWhileReading
      <4> QED
        BY <1>3, <4>1, <4>3, <4>4
    <3>2. 2 * shift_in + sda_out = xfer.word
      BY <1>1, <1>2, <1>9, <2>0, <2>5, TakenWhole
    <3>3. regs' = Store(xfer.word)
      BY <3>1, <3>2 DEF WriteDone
    <3>4. Stored'
      <4>1. ASSUME xfer.reg # REG_INT_FLAGS
            PROVE  Store(xfer.word)[xfer.reg] = xfer.word
        BY <1>5, <2>2, <4>1, StoredWord
      <4> QED
        BY <1>1, <3>3, <4>1 DEF Stored
    <3>5. regs' \in [Registers -> Words]
      BY <1>2, <1>5, <3>3, RegistersKept DEF BkTypes
    <3>6. ~have_cmd' /\ reading' = reading /\ skip_falling' = skip_falling
      BY <3>1 DEF WriteDone
    <3>7. BetweenEdges'
      BY <1>1, <1>2, <1>9, <2>0, <2>2, <2>3, <2>5, <3>4, <3>6 DEF BetweenEdges
    <3>8. have_cmd' \in BOOLEAN /\ reading' \in BOOLEAN /\ skip_falling' \in BOOLEAN
      BY <1>2, <3>1 DEF WriteDone, BkTypes
    <3> QED
      BY <3>5, <3>7, <3>8
  <2> QED
    BY <1>4, <2>0, <2>4, <2>5
<1>10. CASE sent >= CmdBits /\ xfer.kind = "read"
  <2> DEFINE k == sent - CmdBits
  <2>1. ReadAt(k) /\ ~skip_falling /\ Gathered(k + 1)
    BY <1>1, <1>2, <1>10 DEF BeforeEdge
  <2>2. have_cmd /\ reading
    BY <2>1 DEF ReadAt
  <2>3. RisingWhileReading
    BY <1>3, <2>2 DEF CommandBit, CommandDone, WriteBit, WriteDone
  <2>4. ~(sent < CmdBits - 1) /\ ~(sent = CmdBits - 1)
    BY <1>2, <1>4, <1>10
  <2>5. ReadAt(k)' /\ Gathered(k + 1)'
    BY <1>1, <2>1, <2>3 DEF ReadAt, Gathered, RisingWhileReading
  <2>6. BetweenEdges'
    BY <1>1, <1>2, <1>10, <2>1, <2>3, <2>4, <2>5 DEF BetweenEdges, RisingWhileReading
  <2> QED
    BY <1>2, <2>3, <2>6 DEF RisingWhileReading, BkTypes
<1> QED
  BY <1>2, <1>4, <1>7, <1>8, <1>9, <1>10

\* A falling edge moves a read to its next bit, but not the command's own.
LEMMA BkLowers ==
    ASSUME BkInv, Lower
    PROVE  BkInv'
<1>1. /\ step = "lower" /\ ~scl' /\ sent' = sent + 1
      /\ step' = IF sent' < CmdBits + DataBits THEN "drive" ELSE "end"
      /\ UNCHANGED <<cs, sda_out, regs, xfer, got>>
  BY DEF Lower, bk4819_set_scl_low
<1>2. /\ BkTypes /\ BetweenEdges /\ sent \in 0..(XferBits - 1) /\ xfer \in Xfers
      /\ xfer.kind \in {"read", "write"} /\ cs /\ scl
  BY <1>1 DEF BkInv, BkTypes, Clocking, Xfers, BetweenEdges
<1>3. CmdBits \in Nat \ {0, 1} /\ DataBits \in Nat \ {0, 1} /\ XferBits = CmdBits + DataBits
  BY BkSizes
<1>4. step' = IF sent + 1 < XferBits THEN "drive" ELSE "end"
  BY <1>1, <1>3
<1>5. CommandWord' = CommandWord
  BY <1>1 DEF CommandWord
<1>6. /\ have_cmd' \in BOOLEAN /\ reading' \in BOOLEAN /\ skip_falling' \in BOOLEAN
  <2>1. have_cmd \in BOOLEAN /\ reading \in BOOLEAN /\ skip_falling \in BOOLEAN
    BY <1>2 DEF BkTypes
  <2>2. /\ skip_falling' = FALSE \/ skip_falling' = skip_falling
        /\ have_cmd' = have_cmd \/ have_cmd' = (bit_count + 1 < DataBits)
        /\ reading' = reading \/ reading' = (bit_count + 1 < DataBits)
    BY Zenon DEF Lower, bk4819_set_scl_low, decodeVars
  <2>3. (bit_count + 1 < DataBits) \in BOOLEAN
    OBVIOUS
  <2> QED
    BY <2>1, <2>2, <2>3, Zenon
<1>7. BkTypes'
  <2>1. step' \in {"drive", "raise", "lower"} => sent' \in 0..(XferBits - 1)
    BY <1>1, <1>2, <1>3, <1>4
  <2>2. regs' \in [Registers -> Words] /\ xfer' \in Xfers /\ xfer'.kind # "none" /\ cs' \in BOOLEAN
    BY <1>1, <1>2 DEF BkTypes
  <2>3. step' \in {"init", "off", "drive", "raise", "lower", "end"} /\ scl' \in BOOLEAN
    BY <1>4 DEF Lower, bk4819_set_scl_low
  <2> QED
    BY <1>6, <2>1, <2>2, <2>3 DEF BkTypes
<1>8. SUFFICES /\ step' = "drive" => BeforeEdge'
               /\ step' = "end" => TransferExact'
  BY <1>1, <1>2, <1>4, <1>7 DEF BkInv
<1>9. CASE sent < CmdBits - 1
  <2>1. CommandAt(sent + 1) /\ got = 0
    BY <1>2, <1>9 DEF BetweenEdges
  <2>2. UNCHANGED <<bit_count, shift_in, have_cmd, reading, skip_falling>>
    BY <2>1 DEF Lower, bk4819_set_scl_low, CommandAt, decodeVars
  <2>3. CommandAt(sent)'
    BY <1>1, <1>5, <2>1, <2>2 DEF CommandAt
  <2>4. sent' < CmdBits /\ sent + 1 < XferBits
    BY <1>1, <1>2, <1>3, <1>9
  <2>5. ~(sent' >= CmdBits)
    BY <1>1, <1>2, <1>3, <1>9
  <2> QED
    BY <1>1, <1>2, <1>4, <2>1, <2>3, <2>4, <2>5 DEF BeforeEdge
<1>10. CASE sent >= CmdBits - 1 /\ xfer.kind = "write"
  <2>1. IF sent = XferBits - 1 THEN Stored /\ ~skip_falling /\ ~have_cmd ELSE WriteAt(sent + 1 - CmdBits)
    BY <1>2, <1>10 DEF BetweenEdges
  <2>2. CASE sent = XferBits - 1
    <3>1. ~(sent + 1 < XferBits)
      BY <1>2, <1>3, <2>2
    <3>2. step' = "end"
      BY <1>4, <3>1
    <3>3. TransferExact'
      BY <1>1, <1>10, <2>1, <2>2 DEF TransferExact, Stored
    <3> QED
      BY <3>2, <3>3
  <2>3. CASE sent # XferBits - 1
    <3>1. ~skip_falling /\ ~reading
      BY <2>1, <2>3 DEF WriteAt
    <3>2. UNCHANGED <<bit_count, shift_in, cmd, have_cmd, reading, skip_falling>>
      BY <3>1 DEF Lower, bk4819_set_scl_low, decodeVars
    <3>5. sent' - CmdBits = sent + 1 - CmdBits
      BY <1>1, <1>2, <1>3
    <3>3. WriteAt(sent - CmdBits)'
      BY <1>1, <2>1, <2>3, <3>2, <3>5 DEF WriteAt
    <3>4. ~(sent' < CmdBits) /\ sent + 1 < XferBits
      BY <1>1, <1>2, <1>3, <1>10, <2>3
    <3> QED
      BY <1>1, <1>2, <1>4, <1>10, <3>3, <3>4 DEF BeforeEdge
  <2> QED
    BY <2>2, <2>3
<1>11. CASE sent = CmdBits - 1 /\ xfer.kind = "read"
  <2>1. ReadAt(0) /\ skip_falling /\ Gathered(0)
    BY <1>2, <1>11 DEF BetweenEdges
  <2>2. ~skip_falling' /\ UNCHANGED <<bit_count, have_cmd, reading, shift_out, sda_in>>
    BY <1>2, <2>1 DEF Lower, bk4819_set_scl_low, outVars
  <2>3. sent' - CmdBits = 0 /\ ~(sent' < CmdBits) /\ sent + 1 < XferBits
    BY <1>1, <1>2, <1>3, <1>11
  <2>4. ReadAt(sent - CmdBits)' /\ Gathered(sent - CmdBits)'
    BY <1>1, <2>1, <2>2, <2>3 DEF ReadAt, Gathered
  <2> QED
    BY <1>1, <1>2, <1>4, <1>11, <2>2, <2>3, <2>4 DEF BeforeEdge
<1>12. CASE sent >= CmdBits /\ xfer.kind = "read"
  <2> DEFINE k == sent - CmdBits
  <2>1. k \in 0..(DataBits - 1) /\ (sent + 1 < XferBits <=> k + 1 < DataBits) /\ k + 1 = sent' - CmdBits
    BY <1>1, <1>2, <1>3, <1>12
  <2>2. ReadAt(k) /\ ~skip_falling /\ Gathered(k + 1)
    BY <1>2, <1>12 DEF BetweenEdges
  <2>3. have_cmd /\ reading /\ bit_count = k
    BY <2>2 DEF ReadAt
  <2>4. /\ shift_out' = (2 * shift_out) % Place(DataBits)
        /\ sda_in' = Bit(shift_out', DataBits - 1)
        /\ bit_count' = (bit_count + 1) % DataBits
        /\ have_cmd' = (bit_count + 1 < DataBits)
        /\ reading' = (bit_count + 1 < DataBits)
        /\ skip_falling' = skip_falling
    BY <1>2, <2>2, <2>3 DEF Lower, bk4819_set_scl_low
  <2>5. CASE k + 1 < DataBits
    <3>1. (k + 1) % DataBits = k + 1
      BY <1>3, <2>1, <2>5
    <3>2. \E q \in Nat \ {0} :
              /\ Place(DataBits - (k + 1)) * q = Place(DataBits)
              /\ shift_out' = (regs[xfer.reg] % Place(DataBits - (k + 1))) * q
      BY <1>2, <2>1, <2>2, <2>4, <2>5, ShiftStep
    <3>3. have_cmd' /\ reading' /\ bit_count' = sent' - CmdBits
      BY <2>1, <2>3, <2>4, <2>5, <3>1
    <3>4. Gathered(sent - CmdBits)'
      BY <1>1, <2>1, <2>2 DEF Gathered
    <3>5. ReadAt(sent - CmdBits)'
      <4> HIDE DEF k
      <4> QED
        BY <1>1, <2>1, <2>4, <3>2, <3>3 DEF ReadAt
    <3>6. ~(sent' < CmdBits) /\ step' = "drive" /\ ~skip_falling'
      BY <1>1, <1>2, <1>3, <1>4, <1>12, <2>1, <2>2, <2>4, <2>5
    <3> QED
      BY <1>1, <1>2, <1>12, <3>4, <3>5, <3>6 DEF BeforeEdge
  <2>6. CASE k + 1 = DataBits
    <3>1. step' = "end"
      BY <1>3, <1>4, <2>1, <2>6
    <3>2. DataBits - (k + 1) = 0
      BY <1>3, <2>6
    <3>3. got = regs[xfer.reg] \div Place(0)
      BY <2>2, <3>2 DEF Gathered
    <3>4. regs[xfer.reg] \in Nat /\ Place(0) = 1
      <4>1. regs[xfer.reg] \in Words /\ Place(DataBits) \in Nat \ {0}
        BY <1>2, <1>3, BkSizes DEF BkTypes, Xfers
      <4> QED
        BY <4>1, BkNumbers, BkSizes
    <3>5. got = regs[xfer.reg]
      BY <3>3, <3>4
    <3>6. TransferExact'
      BY <1>1, <1>12, <3>5 DEF TransferExact
    <3> QED
      BY <3>1, <3>6
  <2> QED
    BY <1>3, <2>1, <2>5, <2>6
<1> QED
  BY <1>2, <1>3, <1>9, <1>10, <1>11, <1>12

LEMMA BkStays ==
    ASSUME BkInv, UNCHANGED bkVars
    PROVE  BkInv'
<1> USE DEF bkVars, lineVars, decodeVars, outVars, xferVars
<1>1. BkTypes'
  BY DEF BkInv, BkTypes, Clocking
<1>2. BeforeEdge => BeforeEdge'
  BY DEF BeforeEdge, CommandAt, CommandWord, WriteAt, ReadAt, Gathered
<1>3. BetweenEdges => BetweenEdges'
  BY DEF BetweenEdges, CommandAt, CommandWord, WriteAt, ReadAt, Gathered, Stored
<1>4. (step = "end" => cs /\ TransferExact) => (step = "end" => cs /\ TransferExact)'
  BY DEF TransferExact
<1>5. (~cs => AtStart) => (~cs => AtStart)'
  BY DEF AtStart
<1> QED
  BY <1>1, <1>2, <1>3, <1>4, <1>5 DEF BkInv

LEMMA BkKeeps == BkInv /\ [BkNext]_bkVars => BkInv'
<1> SUFFICES ASSUME BkInv, [BkNext]_bkVars PROVE BkInv'
  OBVIOUS
<1>0. REG_INTERRUPT \in Registers /\ REG_INT_FLAGS \in Registers /\ 0 \in Words
  BY BkNumbers
<1>1. CASE Loop
  <2>1. CASE Poll
    BY <1>0, <2>1, BkBegins DEF Poll
  <2>2. CASE Acknowledge
    BY <1>0, <2>2, BkBegins DEF Acknowledge
  <2>3. CASE Collect
    BY <1>0, <2>3, BkBegins DEF Collect
  <2> QED
    BY <1>1, <2>1, <2>2, <2>3 DEF Loop
<1>2. ASSUME NEW w \in Writes, WriteRegister(w[1], w[2])
      PROVE  BkInv'
  <2>1. w[1] \in Registers /\ w[2] \in Words
    BY RegistersAssumption
  <2> QED
    BY <1>2, <2>1, BkBegins DEF WriteRegister
<1>3. CASE Clock
  BY <1>3, BkDrives, BkRaises, BkLowers, BkRests DEF Clock
<1>4. CASE BkMachineReset
  BY <1>4, BkRests
<1>5. CASE UNCHANGED bkVars
  BY <1>5, BkStays
<1> QED
  BY <1>1, <1>2, <1>3, <1>4, <1>5 DEF BkNext

(***************************************************************************)
(* No transfer on the three-wire bus is off by a bit: what the firmware    *)
(* has clocked out of bk4819_set_scl when it raises chip select is the     *)
(* register's word, what it clocked in is in the register, for every width *)
(* of the command and the word and after every reset in between.           *)
(***************************************************************************)
THEOREM BkTransferExact == BkSpec => []TransferExact
<1>1. BkInv => TransferExact
  BY DEF BkInv, TransferExact
<1> QED
  BY <1>1, BkStarts, BkKeeps, PTL DEF BkSpec

\* Only a rising edge and a reset touch the registers and the flags.
LEMMA NewsKept ==
    ASSUME RequestIsTheChips, BkInv, NewsInv, [BkNext]_bkVars
    PROVE  NewsInv'
<1>0. regs \in [Registers -> Words] /\ REG_INTERRUPT \in Registers
  BY BkNumbers DEF BkInv, BkTypes
<1>1. ASSUME NEW k, NEW r, NEW w, Begin(k, r, w), k = "write" => r # REG_INTERRUPT
      PROVE  NewsInv'
  BY <1>1 DEF Begin, NewsInv, RequestHasNews, rxVars
<1>2. CASE Loop
  <2>1. REG_INT_FLAGS # REG_INTERRUPT
    BY BkNumbers
  <2> QED
    BY <1>1, <1>2, <2>1 DEF Loop, Poll, Acknowledge, Collect
<1>3. ASSUME NEW w \in Writes, WriteRegister(w[1], w[2])
      PROVE  NewsInv'
  BY <1>1, <1>3 DEF WriteRegister, RequestIsTheChips
<1>4. CASE Drive \/ Lower
  BY <1>4 DEF Drive, Lower, bk4819_set_scl_low, NewsInv, RequestHasNews, rxVars
<1>5. CASE End \/ DriverInit
  <2>1. UNCHANGED <<regs, pending_int>> /\ (xfer' = NoXfer \/ xfer' = xfer)
    BY <1>5 DEF End, DriverInit, rxVars, xferVars
  <2> QED
    BY <2>1 DEF NewsInv, RequestHasNews, NoXfer
<1>6. CASE BkMachineReset
  <2>1. xfer' = NoXfer
    BY <1>6 DEF BkMachineReset
  <2>2. CASE bk4819_reset
    <3>1. Bit(0, 0) = 0
      <4>1. 0 \in Words
        BY BkNumbers
      <4> QED
        BY <4>1, LowBit
    <3>2. regs'[REG_INTERRUPT] = 0
      BY <1>0, <2>2 DEF bk4819_reset
    <3> QED
      BY <2>1, <3>1, <3>2 DEF NewsInv, RequestHasNews, NoXfer
  <2>3. CASE UNCHANGED <<lineVars, decodeVars, shift_out, regs, rxVars>>
    BY <2>1, <2>3 DEF NewsInv, RequestHasNews, NoXfer, rxVars
  <2> QED
    BY <1>6, <2>2, <2>3 DEF BkMachineReset
<1>7. CASE Raise
  <2>1. xfer' = xfer /\ step = "raise"
    BY <1>7 DEF Raise, xferVars
  <2>2. SUFFICES RequestHasNews'
    BY <2>1 DEF NewsInv
  <2>3. CASE UNCHANGED <<regs, pending_int>>
    BY <2>3 DEF NewsInv, RequestHasNews
  <2>4. CASE bk4819_eval_receiver
    <3>1. pending_int \subseteq pending_int'
      BY <2>4 DEF bk4819_eval_receiver, FlagsAfter
    <3>2. CASE Listening /\ pending_int' # {}
      BY <3>2 DEF RequestHasNews
    <3>3. CASE ~(Listening /\ pending_int' # {})
      BY <2>4, <3>1, <3>3 DEF bk4819_eval_receiver, NewsInv, RequestHasNews
    <3> QED
      BY <3>2, <3>3
  <2>5. CASE WriteDone
    <3>1. cs /\ ~scl /\ BeforeEdge /\ xfer.kind \in {"read", "write"} /\ sent \in 0..(XferBits - 1)
      BY <2>1 DEF BkInv, BkTypes, BeforeEdge, Clocking, Xfers
    <3>2. have_cmd /\ ~reading
      BY <2>5 DEF WriteDone
    <3>3. sent >= CmdBits
      <4>1. ~(sent < CmdBits)
        BY <3>1, <3>2 DEF BeforeEdge, CommandAt
      <4> QED
        BY <3>1, <4>1, BkSizes
    <3>4. xfer.kind = "write"
      BY <3>1, <3>2, <3>3 DEF BeforeEdge, ReadAt
    <3>5. cmd = xfer.reg /\ cmd # REG_INTERRUPT
      BY <3>1, <3>3, <3>4 DEF BeforeEdge, WriteAt, NewsInv
    <3>6. CASE cmd = REG_INT_FLAGS
      <4>1. regs'[REG_INTERRUPT] = WithBit0(regs[REG_INTERRUPT], 0)
        BY <1>0, <2>5, <3>6, BkNumbers DEF WriteDone, Store
      <4>2. Bit(regs'[REG_INTERRUPT], 0) = 0
        BY <1>0, <4>1, LowBit
      <4> QED
        BY <4>2 DEF RequestHasNews
    <3>7. CASE cmd # REG_INT_FLAGS
      <4>1. regs'[REG_INTERRUPT] = 0 \/ regs'[REG_INTERRUPT] = regs[REG_INTERRUPT]
        BY <1>0, <2>5, <3>5, <3>7 DEF WriteDone, Store
      <4>2. Bit(0, 0) = 0
        <5>1. 0 \in Words
          BY BkNumbers
        <5> QED
          BY <5>1, LowBit
      <4>3. pending_int' = pending_int
        BY <2>5, <3>7 DEF WriteDone
      <4> QED
        BY <4>1, <4>2, <4>3 DEF RequestHasNews, NewsInv
    <3> QED
      BY <3>6, <3>7
  <2> QED
    BY <1>7, <2>3, <2>4, <2>5 DEF Raise, bk4819_set_scl_high, CommandBit, CommandDone, WriteBit,
                                  RisingWhileReading, rxVars
<1>8. CASE UNCHANGED bkVars
  BY <1>8 DEF bkVars, rxVars, xferVars, NewsInv, RequestHasNews
<1> QED
  BY <1>2, <1>3, <1>4, <1>5, <1>6, <1>7, <1>8 DEF BkNext, Clock

(***************************************************************************)
(* The firmware's collection loop has always a reason for its next round:  *)
(* the request bit that bk4819_eval_receiver raises is never up without a  *)
(* flag that waits, as long as the firmware leaves REG_0C to the chip.     *)
(***************************************************************************)
THEOREM BkRequestHasNews == RequestIsTheChips => (BkSpec => []RequestHasNews)
<1> SUFFICES ASSUME RequestIsTheChips PROVE BkSpec => []RequestHasNews
  OBVIOUS
<1>1. BkInit => NewsInv
  <2> SUFFICES ASSUME BkInit PROVE NewsInv
    OBVIOUS
  <2>1. 0 \in Words /\ REG_INTERRUPT \in Registers
    BY BkNumbers
  <2>2. Bit(0, 0) = 0
    BY <2>1, LowBit
  <2> QED
    BY <2>1, <2>2 DEF BkInit, NewsInv, RequestHasNews, NoXfer
<1>2. BkInv /\ NewsInv /\ [BkNext]_bkVars => NewsInv'
  BY NewsKept
<1>3. NewsInv => RequestHasNews
  BY DEF NewsInv
<1> QED
  BY <1>1, <1>2, <1>3, BkStarts, BkKeeps, PTL DEF BkSpec

-----------------------------------------------------------------------------
(* The panel's settings *)

PixelValues == UNION {UNION {{f[p][c] : c \in Nat} : p \in Nat} : f \in Frames}
PanelValues == Contrasts \cup Int \cup PixelValues
SettingOps == {"reset", "other", "com", "seg", "invert", "volume", "operand"}
DrawingOps == {"page", "high", "low", "pixels", "on"}

PinSteps == {Select, Deselect, Command, Pixels}
DrawingSteps == PinSteps \cup UNION {{Byte(op, n) : n \in PanelValues} : op \in DrawingOps}
DriverSteps == DrawingSteps \cup UNION {{Byte(op, n) : n \in PanelValues} : op \in SettingOps}

PanelTypes ==
    /\ port \in [a0: BOOLEAN, cs: BOOLEAN]
    /\ a0 \in BOOLEAN /\ selected \in BOOLEAN
    /\ invert \in BOOLEAN /\ expect_contrast \in BOOLEAN
    /\ seg_reverse \in BOOLEAN /\ com_reverse \in BOOLEAN /\ missed \in BOOLEAN
    /\ wanted \in [contrast: Contrasts, invert: BOOLEAN, seg: BOOLEAN, com: BOOLEAN]
    /\ todo \in Seq(DriverSteps)

\* The panel has the settings the firmware sent last.
Settled ==
    /\ contrast = wanted.contrast /\ invert = wanted.invert
    /\ seg_reverse = wanted.seg /\ com_reverse = wanted.com
    /\ ~expect_contrast

\* What is left to do changes no setting.
Drawing(t) == \A j \in 1..Len(t) : t[j] \in DrawingSteps

\* The steps of a boot and of a change of settings, counted from the last.
BootStep(m, v) ==
    CASE m = 12 -> Deselect
      [] m = 11 -> Select
      [] m = 10 -> Command
      [] m = 9  -> Byte("reset", 0)
      [] m = 8  -> Byte("other", 0)
      [] m = 7  -> Byte("com", 0)
      [] m = 6  -> Byte("seg", 1)
      [] m = 5  -> Byte("invert", 0)
      [] m = 4  -> Byte("volume", 0)
      [] m = 3  -> Byte("operand", v)
      [] m = 2  -> Byte("on", 1)
      [] m = 1  -> Deselect

SettingStep(m, v, i) ==
    CASE m = 7 -> Select
      [] m = 6 -> Command
      [] m = 5 -> Byte("reset", 0)
      [] m = 4 -> Byte("volume", 0)
      [] m = 3 -> Byte("operand", v)
      [] m = 2 -> Byte("invert", OneIf(i))
      [] m = 1 -> Deselect

BootLeft(t, v) ==
    Len(t) <= 12 /\ \A j \in 1..Len(t) : t[j] = BootStep(Len(t) + 1 - j, v)

SettingLeft(t, v, i) ==
    Len(t) <= 7 /\ \A j \in 1..Len(t) : t[j] = SettingStep(Len(t) + 1 - j, v, i)

BootWanted(v) == [contrast |-> v, invert |-> FALSE, seg |-> TRUE, com |-> FALSE]

\* A boot up to its contrast: the pins are low once they have been driven, and
\* each setting is in effect once it was sent, whatever was in effect before.
Booting(m, v) ==
    /\ m >= 3
    /\ wanted = BootWanted(v)
    /\ m <= 10 => ~port.cs
    /\ m <= 9 => ~port.a0
    /\ m <= 8 => (expect_contrast <=> m = 3)
    /\ m <= 6 => ~com_reverse
    /\ m <= 5 => seg_reverse
    /\ m <= 4 => ~invert

\* A change of contrast and inversion up to the inversion.
Setting(m, v, i) ==
    /\ m >= 2
    /\ wanted.contrast = v /\ wanted.invert = i
    /\ seg_reverse = wanted.seg /\ com_reverse = wanted.com
    /\ m <= 6 => ~port.cs
    /\ m <= 5 => ~port.a0
    /\ expect_contrast <=> m = 3
    /\ m = 2 => contrast = v

\* The inductive invariant: the driver draws on a panel that has its settings, or
\* is on its way to give it some.
PanelInv ==
    /\ PanelTypes
    /\ ~missed =>
          \/ Drawing(todo) /\ Settled
          \/ \E v \in Contrasts : BootLeft(todo, v) /\ Booting(Len(todo), v)
          \/ \E v \in Contrasts, i \in BOOLEAN :
                SettingLeft(todo, v, i) /\ Setting(Len(todo), v, i)

-----------------------------------------------------------------------------
LEMMA PanelConstants ==
    Pages \in Nat /\ Width \in Nat /\ Margin \in Nat /\ Nibble \in Nat \ {0} /\ MaxPanelResets \in Nat
  BY PanelAssumption

LEMMA PinFields ==
    ASSUME NEW pin, NEW high
    PROVE  /\ Pin(pin, high).do = "pin" /\ Pin(pin, high).pin = pin /\ Pin(pin, high).high = high
  BY DEF Pin

LEMMA ByteFields ==
    ASSUME NEW op, NEW n
    PROVE  /\ Byte(op, n).do = "byte" /\ Byte(op, n).byte.op = op /\ Byte(op, n).byte.n = n
  BY DEF Byte

\* The driver's pins and the bytes of its programs.
LEMMA DriverStepTypes ==
    /\ Select \in PinSteps /\ Deselect \in PinSteps /\ Command \in PinSteps /\ Pixels \in PinSteps
    /\ \A op \in DrawingOps, n \in PanelValues : Byte(op, n) \in DrawingSteps
    /\ \A op \in SettingOps, n \in PanelValues : Byte(op, n) \in DriverSteps
    /\ PinSteps \subseteq DrawingSteps /\ DrawingSteps \subseteq DriverSteps
    /\ Int \subseteq PanelValues /\ Contrasts \subseteq PanelValues
<1>1. Select \in PinSteps /\ Deselect \in PinSteps /\ Command \in PinSteps /\ Pixels \in PinSteps
  BY DEF PinSteps
<1>2. \A op \in DrawingOps, n \in PanelValues : Byte(op, n) \in DrawingSteps
  <2> TAKE op \in DrawingOps, n \in PanelValues
  <2>1. Byte(op, n) \in {Byte(op, k) : k \in PanelValues}
    BY Zenon
  <2>2. {Byte(op, k) : k \in PanelValues} \in {{Byte(o, k) : k \in PanelValues} : o \in DrawingOps}
    BY Zenon
  <2>3. Byte(op, n) \in UNION {{Byte(o, k) : k \in PanelValues} : o \in DrawingOps}
    BY <2>1, <2>2, Zenon
  <2> QED
    BY <2>3, Zenon DEF DrawingSteps
<1>3. \A op \in SettingOps, n \in PanelValues : Byte(op, n) \in DriverSteps
  <2> TAKE op \in SettingOps, n \in PanelValues
  <2>1. Byte(op, n) \in {Byte(op, k) : k \in PanelValues}
    BY Zenon
  <2>2. {Byte(op, k) : k \in PanelValues} \in {{Byte(o, k) : k \in PanelValues} : o \in SettingOps}
    BY Zenon
  <2>3. Byte(op, n) \in UNION {{Byte(o, k) : k \in PanelValues} : o \in SettingOps}
    BY <2>1, <2>2, Zenon
  <2> QED
    BY <2>3, Zenon DEF DriverSteps
<1>4. PinSteps \subseteq DrawingSteps /\ DrawingSteps \subseteq DriverSteps
  BY Zenon DEF DrawingSteps, DriverSteps
<1>5. Int \subseteq PanelValues /\ Contrasts \subseteq PanelValues
  BY Zenon DEF PanelValues
<1> QED
  BY <1>1, <1>2, <1>3, <1>4, <1>5, Zenon

\* A step of the driver is a pin or a byte.
LEMMA PinKinds ==
    ASSUME NEW x \in PinSteps
    PROVE  \E pin \in {"a0", "cs"}, high \in BOOLEAN : x = Pin(pin, high)
<1>1. x \in {Pin("cs", FALSE), Pin("cs", TRUE), Pin("a0", FALSE), Pin("a0", TRUE)}
  BY DEF PinSteps, Select, Deselect, Command, Pixels
<1> QED
  BY <1>1, Zenon

LEMMA DrawingKinds ==
    ASSUME NEW x \in DrawingSteps
    PROVE  \/ \E pin \in {"a0", "cs"}, high \in BOOLEAN : x = Pin(pin, high)
           \/ \E op \in DrawingOps, n \in PanelValues : x = Byte(op, n)
<1>1. CASE x \in PinSteps
  BY <1>1, PinKinds
<1>2. CASE x \in UNION {{Byte(op, n) : n \in PanelValues} : op \in DrawingOps}
  BY <1>2, Zenon
<1> QED
  BY <1>1, <1>2, Zenon DEF DrawingSteps

LEMMA StepKinds ==
    ASSUME NEW x \in DriverSteps
    PROVE  \/ \E pin \in {"a0", "cs"}, high \in BOOLEAN : x = Pin(pin, high)
           \/ \E op \in DrawingOps \cup SettingOps, n \in PanelValues : x = Byte(op, n)
<1>1. CASE x \in DrawingSteps
  BY <1>1, DrawingKinds, Zenon
<1>2. CASE x \in UNION {{Byte(op, n) : n \in PanelValues} : op \in SettingOps}
  BY <1>2, Zenon
<1> QED
  BY <1>1, <1>2, Zenon DEF DriverSteps

-----------------------------------------------------------------------------
(* The programs *)

LEMMA LineSteps ==
    ASSUME NEW f \in Frames, NEW p \in Nat \ {0}, NEW j \in 1..LineLen
    PROVE  DrawLine(f, p)[j] \in DrawingSteps
<1> DEFINE head == <<Command, Byte("page", p - 1), Byte("high", Margin \div Nibble),
                     Byte("low", Margin % Nibble), Pixels>>
           line == [c \in 1..Width |-> Byte("pixels", f[p][c])]
<1>1. head \in Seq(DrawingSteps) /\ Len(head) = 5
  <2>1. p - 1 \in Int /\ Margin \div Nibble \in Int /\ Margin % Nibble \in Int
    BY PanelConstants
  <2>2. /\ Byte("page", p - 1) \in DrawingSteps
        /\ Byte("high", Margin \div Nibble) \in DrawingSteps
        /\ Byte("low", Margin % Nibble) \in DrawingSteps
    BY <2>1, DriverStepTypes DEF DrawingOps
  <2>3. Command \in DrawingSteps /\ Pixels \in DrawingSteps
    BY DriverStepTypes
  <2> HIDE DEF DrawingSteps
  <2> QED
    BY <2>2, <2>3
<1>2. \A c \in 1..Width : Byte("pixels", f[p][c]) \in DrawingSteps
  <2> TAKE c \in 1..Width
  <2>1. p \in Nat /\ c \in Nat
    BY PanelConstants
  <2>2. f[p][c] \in PanelValues
    <3> DEFINE row(g, k) == {g[k][x] : x \in Nat}
               rows(g) == {row(g, k) : k \in Nat}
               cells(g) == UNION rows(g)
    <3>1. f[p][c] \in row(f, p)
      BY <2>1, Zenon
    <3>2. row(f, p) \in rows(f)
      BY <2>1, Zenon
    <3>3. f[p][c] \in cells(f)
      BY <3>1, <3>2, Zenon
    <3>4. cells(f) \in {cells(g) : g \in Frames}
      <4> HIDE DEF cells
      <4> QED
        BY Zenon
    <3>5. f[p][c] \in UNION {cells(g) : g \in Frames}
      BY <3>3, <3>4, Zenon
    <3> QED
      BY <3>5, Zenon DEF PanelValues, PixelValues
  <2> QED
    BY <2>2, DriverStepTypes DEF DrawingOps
<1>3. line \in Seq(DrawingSteps) /\ Len(line) = Width
  BY <1>2, PanelConstants
<1>4. DrawLine(f, p) = head \o line
  BY DEF DrawLine
<1> HIDE DEF head, line
<1>5. head \o line \in Seq(DrawingSteps) /\ Len(head \o line) = 5 + Width
  <2>1. head \o line \in Seq(DrawingSteps) /\ Len(head \o line) = Len(head) + Len(line)
    BY <1>1, <1>3, ConcatProperties, Zenon
  <2> QED
    BY <1>1, <1>3, <2>1
<1> QED
  BY <1>4, <1>5, PanelConstants DEF LineLen

LEMMA BlitSteps ==
    ASSUME NEW f \in Frames
    PROVE  BlitFullScreen(f) \in Seq(DrawingSteps)
<1> DEFINE lines == [k \in 1..(Pages * LineLen) |->
                        DrawLine(f, ((k - 1) \div LineLen) + 1)[((k - 1) % LineLen) + 1]]
<1>1. LineLen \in Nat \ {0} /\ Pages * LineLen \in Nat
  BY PanelConstants DEF LineLen
<1>2. ASSUME NEW k \in 1..(Pages * LineLen)
      PROVE  lines[k] \in DrawingSteps
  <2>1. k - 1 \in Nat
    BY <1>1
  <2>2. (k - 1) \div LineLen \in Nat /\ (k - 1) % LineLen \in 0..(LineLen - 1)
    BY <1>1, <2>1
  <2>3. ((k - 1) \div LineLen) + 1 \in Nat \ {0} /\ ((k - 1) % LineLen) + 1 \in 1..LineLen
    BY <1>1, <2>2
  <2>4. DrawLine(f, ((k - 1) \div LineLen) + 1)[((k - 1) % LineLen) + 1] \in DrawingSteps
    BY <2>3, LineSteps
  <2> QED
    BY <2>4
<1>3. lines \in Seq(DrawingSteps)
  BY <1>1, <1>2
<1>4. <<Select>> \in Seq(DrawingSteps) /\ <<Deselect>> \in Seq(DrawingSteps)
  BY DriverStepTypes
<1>5. BlitFullScreen(f) = <<Select>> \o lines \o <<Deselect>>
  BY DEF BlitFullScreen
<1> HIDE DEF lines
<1> QED
  BY <1>3, <1>4, <1>5

LEMMA BootSteps ==
    ASSUME NEW raised \in BOOLEAN, NEW v \in Contrasts
    PROVE  /\ Boot(raised, v) \in Seq(DriverSteps)
           /\ BootLeft(Boot(raised, v), v)
           /\ Len(Boot(raised, v)) \in {11, 12}
<1> DEFINE program == <<Select, Command,
                        Byte("reset", 0), Byte("other", 0), Byte("com", 0), Byte("seg", 1),
                        Byte("invert", 0), Byte("volume", 0), Byte("operand", v), Byte("on", 1),
                        Deselect>>
<1>1. /\ Select \in DriverSteps /\ Deselect \in DriverSteps /\ Command \in DriverSteps
      /\ \A op \in SettingOps \cup DrawingOps, n \in PanelValues : Byte(op, n) \in DriverSteps
      /\ 0 \in PanelValues /\ 1 \in PanelValues /\ v \in PanelValues
  BY DriverStepTypes
<1>2. program \in Seq(DriverSteps) /\ Len(program) = 11
  BY <1>1 DEF SettingOps, DrawingOps
<1>3. \A j \in 1..11 : program[j] = BootStep(12 - j, v)
  BY DEF BootStep
<1>4. Boot(raised, v) = IF raised THEN <<Deselect>> \o program ELSE program
  BY DEF Boot
<1> HIDE DEF program
<1>5. CASE raised
  <2> DEFINE first == <<Deselect>>
  <2>0. first \in Seq(DriverSteps) /\ Len(first) = 1 /\ first[1] = Deselect
    BY <1>1
  <2> HIDE DEF first
  <2>4. /\ first \o program \in Seq(DriverSteps) /\ Len(first \o program) = 12
        /\ (first \o program)[1] = Deselect
        /\ \A j \in 2..12 : (first \o program)[j] = program[j - 1]
    <3>1. /\ first \o program \in Seq(DriverSteps) /\ Len(first \o program) = Len(first) + Len(program)
          /\ \A j \in 1..(Len(first) + Len(program)) :
                (first \o program)[j] = IF j <= Len(first) THEN first[j] ELSE program[j - Len(first)]
      BY <1>2, <2>0, ConcatProperties, Zenon
    <3>2. \A j \in 1..12 : (first \o program)[j] = IF j <= 1 THEN first[j] ELSE program[j - 1]
      <4>1. Len(first) = 1 /\ Len(first) + Len(program) = 12
        BY <1>2, <2>0
      <4> QED
        BY <3>1, <4>1, Zenon
    <3>3. Len(first \o program) = 12
      BY <1>2, <2>0, <3>1
    <3> HIDE DEF program
    <3> QED
      BY <2>0, <3>1, <3>2, <3>3
  <2>1. /\ Boot(raised, v) \in Seq(DriverSteps) /\ Len(Boot(raised, v)) = 12
        /\ Boot(raised, v)[1] = Deselect
        /\ \A j \in 2..12 : Boot(raised, v)[j] = program[j - 1]
    BY <1>4, <1>5, <2>4 DEF first
  <2>2. BootStep(12, v) = Deselect
    BY DEF BootStep
  <2>3. \A j \in 1..12 : Boot(raised, v)[j] = BootStep(12 + 1 - j, v)
    <3> TAKE j \in 1..12
    <3>1. CASE j = 1
      <4>1. 12 + 1 - j = 12
        BY <3>1
      <4> QED
        BY <2>1, <2>2, <3>1, <4>1
    <3>2. CASE j \in 2..12
      <4>1. j - 1 \in 1..11 /\ 12 - (j - 1) = 12 + 1 - j
        BY <3>2
      <4>2. program[j - 1] = BootStep(12 - (j - 1), v)
        BY <1>3, <4>1
      <4> QED
        BY <2>1, <3>2, <4>1, <4>2
    <3> QED
      BY <3>1, <3>2
  <2> QED
    BY <2>1, <2>3 DEF BootLeft
<1>6. CASE ~raised
  <2>1. Boot(raised, v) = program
    BY <1>4, <1>6
  <2>2. \A j \in 1..11 : program[j] = BootStep(11 + 1 - j, v)
    <3> TAKE j \in 1..11
    <3>1. 11 + 1 - j = 12 - j
      OBVIOUS
    <3> QED
      BY <1>3, <3>1
  <2>3. BootLeft(program, v)
    BY <1>2, <2>2 DEF BootLeft
  <2> QED
    BY <1>2, <2>1, <2>3
<1> QED
  BY <1>5, <1>6

LEMMA SettingSteps ==
    ASSUME NEW v \in Contrasts, NEW i \in BOOLEAN
    PROVE  /\ ContrastAndInv(v, i) \in Seq(DriverSteps)
           /\ SettingLeft(ContrastAndInv(v, i), v, i)
           /\ Len(ContrastAndInv(v, i)) = 7
<1>1. /\ Select \in DriverSteps /\ Deselect \in DriverSteps /\ Command \in DriverSteps
      /\ \A op \in SettingOps, n \in PanelValues : Byte(op, n) \in DriverSteps
      /\ 0 \in PanelValues /\ 1 \in PanelValues /\ v \in PanelValues /\ OneIf(i) \in PanelValues
  BY DriverStepTypes DEF OneIf
<1>2. ContrastAndInv(v, i) \in Seq(DriverSteps) /\ Len(ContrastAndInv(v, i)) = 7
  BY <1>1 DEF SettingOps, ContrastAndInv
<1>3. \A j \in 1..7 : ContrastAndInv(v, i)[j] = SettingStep(8 - j, v, i)
  BY DEF SettingStep, ContrastAndInv
<1> QED
  BY <1>2, <1>3 DEF SettingLeft

LEMMA DisplaySteps ==
    ASSUME NEW on \in BOOLEAN
    PROVE  <<Select, Command, Byte("on", OneIf(on)), Deselect>> \in Seq(DrawingSteps)
<1>1. Select \in DrawingSteps /\ Command \in DrawingSteps /\ Deselect \in DrawingSteps
  BY DriverStepTypes
<1>2. Byte("on", OneIf(on)) \in DrawingSteps
  BY DriverStepTypes DEF DrawingOps, OneIf
<1> QED
  BY <1>1, <1>2

-----------------------------------------------------------------------------
(* Steps of the driver *)

\* What is left after the next step of a program.
LEMMA TailSteps ==
    ASSUME todo \in Seq(DriverSteps), todo # <<>>
    PROVE  /\ Len(todo) \in Nat \ {0} /\ Head(todo) \in DriverSteps
           /\ Tail(todo) \in Seq(DriverSteps) /\ Len(Tail(todo)) = Len(todo) - 1
           /\ Drawing(todo) => Head(todo) \in DrawingSteps /\ Drawing(Tail(todo))
           /\ \A v : BootLeft(todo, v) =>
                 /\ Len(todo) <= 12 /\ Head(todo) = BootStep(Len(todo), v)
                 /\ BootLeft(Tail(todo), v)
           /\ \A v, i : SettingLeft(todo, v, i) =>
                 /\ Len(todo) <= 7 /\ Head(todo) = SettingStep(Len(todo), v, i)
                 /\ SettingLeft(Tail(todo), v, i)
<1> DEFINE m == Len(todo)
           t == Tail(todo)
<1>1. /\ m \in Nat \ {0} /\ Head(todo) = todo[1] /\ Head(todo) \in DriverSteps
      /\ t \in Seq(DriverSteps) /\ Len(t) = m - 1
      /\ \A j \in 1..Len(t) : t[j] = todo[j + 1]
  OBVIOUS
<1> HIDE DEF m, t
<1>2. \A j \in 1..Len(t) : j + 1 \in 1..m /\ m + 1 - (j + 1) = Len(t) + 1 - j
  BY <1>1
<1>3. 1 \in 1..m /\ m + 1 - 1 = m
  BY <1>1
<1>4. Drawing(todo) => Head(todo) \in DrawingSteps /\ Drawing(t)
  BY <1>1, <1>2, <1>3 DEF Drawing, m
<1>5. ASSUME NEW v, BootLeft(todo, v)
      PROVE  m <= 12 /\ Head(todo) = BootStep(m, v) /\ BootLeft(t, v)
  <2>1. m <= 12 /\ \A j \in 1..m : todo[j] = BootStep(m + 1 - j, v)
    BY <1>5 DEF BootLeft, m
  <2>2. \A j \in 1..Len(t) : t[j] = BootStep(Len(t) + 1 - j, v)
    <3> TAKE j \in 1..Len(t)
    <3>1. t[j] = BootStep(m + 1 - (j + 1), v)
      BY <1>1, <1>2, <2>1
    <3> QED
      BY <1>2, <3>1
  <2>3. Head(todo) = BootStep(m + 1 - 1, v)
    BY <1>1, <1>3, <2>1
  <2> QED
    BY <1>1, <1>3, <2>1, <2>2, <2>3 DEF BootLeft
<1>6. ASSUME NEW v, NEW i, SettingLeft(todo, v, i)
      PROVE  m <= 7 /\ Head(todo) = SettingStep(m, v, i) /\ SettingLeft(t, v, i)
  <2>1. m <= 7 /\ \A j \in 1..m : todo[j] = SettingStep(m + 1 - j, v, i)
    BY <1>6 DEF SettingLeft, m
  <2>2. \A j \in 1..Len(t) : t[j] = SettingStep(Len(t) + 1 - j, v, i)
    <3> TAKE j \in 1..Len(t)
    <3>1. t[j] = SettingStep(m + 1 - (j + 1), v, i)
      BY <1>1, <1>2, <2>1
    <3> QED
      BY <1>2, <3>1
  <2>3. Head(todo) = SettingStep(m + 1 - 1, v, i)
    BY <1>1, <1>3, <2>1
  <2> QED
    BY <1>1, <1>3, <2>1, <2>2, <2>3 DEF SettingLeft
<1> QED
  BY <1>1, <1>4, <1>5, <1>6 DEF m, t

\* The panel's settings, but for the contrast, stay Booleans whatever it is sent.
LEMMA XferTypes ==
    ASSUME PanelTypes, NEW b, st7565_xfer(b)
    PROVE  /\ invert' \in BOOLEAN /\ expect_contrast' \in BOOLEAN
           /\ seg_reverse' \in BOOLEAN /\ com_reverse' \in BOOLEAN
<1>0. /\ a0 \in BOOLEAN /\ selected \in BOOLEAN /\ expect_contrast \in BOOLEAN
      /\ invert \in BOOLEAN /\ seg_reverse \in BOOLEAN /\ com_reverse \in BOOLEAN
  BY DEF PanelTypes
<1>1. CASE ~selected
  BY <1>0, <1>1 DEF st7565_xfer, settingVars
<1>2. CASE selected /\ a0
  BY <1>0, <1>2 DEF st7565_xfer, XferPixels, settingVars
<1>3. CASE selected /\ ~a0 /\ expect_contrast
  BY <1>0, <1>3 DEF st7565_xfer, XferOperand
<1>4. CASE selected /\ ~a0 /\ ~expect_contrast
  BY <1>0, <1>4 DEF st7565_xfer, XferCommand
<1> QED
  BY <1>0, <1>1, <1>2, <1>3, <1>4

\* No byte of a picture changes a setting, unless it is taken for an operand.
LEMMA DrawingByte ==
    ASSUME PanelTypes, ~expect_contrast, NEW op \in DrawingOps, NEW n,
           st7565_xfer(Byte(op, n).byte)
    PROVE  /\ contrast' = contrast /\ invert' = invert /\ expect_contrast' = FALSE
           /\ seg_reverse' = seg_reverse /\ com_reverse' = com_reverse
<1> DEFINE b == Byte(op, n).byte
<1>0. /\ a0 \in BOOLEAN /\ selected \in BOOLEAN /\ expect_contrast \in BOOLEAN
      /\ invert \in BOOLEAN /\ seg_reverse \in BOOLEAN /\ com_reverse \in BOOLEAN
  BY DEF PanelTypes
<1>b. b.op = op /\ b.n = n
  BY ByteFields
<1> HIDE DEF b
<1>x. st7565_xfer(b)
  BY DEF b
<1>1. CASE ~selected
  BY <1>0, <1>1, <1>x DEF st7565_xfer, settingVars
<1>2. CASE selected /\ a0
  BY <1>0, <1>2, <1>x DEF st7565_xfer, XferPixels, settingVars
<1>3. CASE selected /\ ~a0
  <2>1. XferCommand(b)
    BY <1>0, <1>3, <1>x DEF st7565_xfer
  <2>2. b.op \notin {"invert", "reset", "volume", "seg", "com"}
    BY <1>b DEF DrawingOps
  <2> QED
    BY <1>0, <2>1, <2>2 DEF XferCommand
<1> QED
  BY <1>0, <1>1, <1>2, <1>3

\* What a command does that reaches the panel as one.
LEMMA SettingByte ==
    ASSUME PanelTypes, selected, ~a0, NEW op, NEW n, st7565_xfer(Byte(op, n).byte)
    PROVE  /\ expect_contrast =>
                 /\ contrast' = n /\ invert' = invert /\ expect_contrast' = FALSE
                 /\ seg_reverse' = seg_reverse /\ com_reverse' = com_reverse
           /\ ~expect_contrast =>
                 /\ invert' = IF op = "invert" THEN n = 1 ELSE invert /\ op # "reset"
                 /\ contrast' = IF op = "reset" THEN 0 ELSE contrast
                 /\ expect_contrast' = (op = "volume")
                 /\ seg_reverse' = IF op = "seg" THEN n = 1 ELSE seg_reverse
                 /\ com_reverse' = IF op = "com" THEN n = 1 ELSE com_reverse
<1> DEFINE b == Byte(op, n).byte
<1>b. b.op = op /\ b.n = n
  BY ByteFields
<1> HIDE DEF b
<1>x. st7565_xfer(b)
  BY DEF b
<1>0. expect_contrast \in BOOLEAN
  BY DEF PanelTypes
<1>1. CASE expect_contrast
  BY <1>1, <1>b, <1>x DEF st7565_xfer, XferOperand
<1>2. CASE ~expect_contrast
  BY <1>2, <1>b, <1>x DEF st7565_xfer, XferCommand
<1> QED
  BY <1>0, <1>1, <1>2

\* A step that drives a pin.
LEMMA PinStep ==
    ASSUME PanelTypes, Step, NEW pin \in {"a0", "cs"}, NEW high \in BOOLEAN,
           Head(todo) = Pin(pin, high)
    PROVE  /\ port' \in [a0: BOOLEAN, cs: BOOLEAN]
           /\ port'.a0 = IF pin = "a0" THEN high ELSE port.a0
           /\ port'.cs = IF pin = "cs" THEN high ELSE port.cs
           /\ a0' \in BOOLEAN /\ selected' \in BOOLEAN
           /\ contrast' = contrast /\ invert' = invert /\ expect_contrast' = expect_contrast
           /\ seg_reverse' = seg_reverse /\ com_reverse' = com_reverse
           /\ wanted' = wanted /\ missed' = missed /\ todo' = Tail(todo)
<1>1. Head(todo).do = "pin" /\ Head(todo).pin = pin /\ Head(todo).high = high
  BY PinFields
<1>2. /\ py32_gpio_update(pin, high)
      /\ UNCHANGED <<settingVars, missed, wanted>> /\ todo' = Tail(todo)
  BY <1>1 DEF Step
<1>3. port' = [port EXCEPT ![pin] = high]
  BY <1>2 DEF py32_gpio_update
<1>4. port \in [a0: BOOLEAN, cs: BOOLEAN] /\ a0 \in BOOLEAN /\ selected \in BOOLEAN
  BY DEF PanelTypes
<1>5. a0' \in BOOLEAN /\ selected' \in BOOLEAN
  BY <1>2, <1>4 DEF py32_gpio_update, st7565_set_a0, st7565_set_cs
<1>6. CASE pin = "a0"
  <2>1. port' = [port EXCEPT !.a0 = high]
    BY <1>3, <1>6
  <2>2. port' \in [a0: BOOLEAN, cs: BOOLEAN] /\ port'.a0 = high /\ port'.cs = port.cs
    BY <1>4, <2>1
  <2> QED
    BY <1>2, <1>5, <1>6, <2>2 DEF settingVars
<1>7. CASE pin = "cs"
  <2>1. port' = [port EXCEPT !.cs = high]
    BY <1>3, <1>7
  <2>2. port' \in [a0: BOOLEAN, cs: BOOLEAN] /\ port'.cs = high /\ port'.a0 = port.a0
    BY <1>4, <2>1
  <2> QED
    BY <1>2, <1>5, <1>7, <2>2 DEF settingVars
<1> QED
  BY <1>6, <1>7

\* A step that sends a byte: unless the panel's pins are the port's, it counts
\* as missed.
LEMMA ByteStep ==
    ASSUME PanelTypes, Step, NEW op, NEW n, Head(todo) = Byte(op, n)
    PROVE  /\ st7565_xfer(Byte(op, n).byte)
           /\ missed' \in BOOLEAN
           /\ ~missed' => ~missed /\ (port.a0 = a0) /\ (port.cs = ~selected)
           /\ port' = port /\ a0' = a0 /\ selected' = selected
           /\ wanted' = wanted /\ todo' = Tail(todo)
<1>1. Head(todo).do = "byte"
  BY ByteFields
<1>2. /\ st7565_xfer(Head(todo).byte) /\ missed' = (missed \/ Outdated)
      /\ UNCHANGED <<pinVars, wanted>> /\ todo' = Tail(todo)
  BY <1>1 DEF Step
<1>3. port \in [a0: BOOLEAN, cs: BOOLEAN] /\ a0 \in BOOLEAN /\ selected \in BOOLEAN /\ missed \in BOOLEAN
  BY DEF PanelTypes
<1>4. port.a0 \in BOOLEAN /\ port.cs \in BOOLEAN
  BY <1>3
<1>5. ~missed' => ~missed /\ (port.a0 = a0) /\ (port.cs = ~selected)
  BY <1>2, <1>3, <1>4 DEF Outdated
<1>6. missed' \in BOOLEAN
  BY <1>2
<1> QED
  BY <1>2, <1>5, <1>6 DEF pinVars

LEMMA StepTypes ==
    ASSUME PanelTypes, Step
    PROVE  PanelTypes' /\ (~missed' => ~missed)
<1>1. todo \in Seq(DriverSteps) /\ todo # <<>>
  BY DEF PanelTypes, Step
<1>2. Head(todo) \in DriverSteps /\ Tail(todo) \in Seq(DriverSteps)
  BY <1>1, TailSteps
<1>3. CASE \E pin \in {"a0", "cs"}, high \in BOOLEAN : Head(todo) = Pin(pin, high)
  <2>1. PICK pin \in {"a0", "cs"}, high \in BOOLEAN : Head(todo) = Pin(pin, high)
    BY <1>3
  <2>2. /\ port' \in [a0: BOOLEAN, cs: BOOLEAN] /\ a0' \in BOOLEAN /\ selected' \in BOOLEAN
        /\ invert' = invert /\ expect_contrast' = expect_contrast
        /\ seg_reverse' = seg_reverse /\ com_reverse' = com_reverse
        /\ wanted' = wanted /\ missed' = missed /\ todo' = Tail(todo)
    BY <2>1, PinStep
  <2> QED
    BY <1>2, <2>2 DEF PanelTypes
<1>4. CASE \E op \in DrawingOps \cup SettingOps, n \in PanelValues : Head(todo) = Byte(op, n)
  <2>1. PICK op \in DrawingOps \cup SettingOps, n \in PanelValues : Head(todo) = Byte(op, n)
    BY <1>4
  <2>2. /\ st7565_xfer(Byte(op, n).byte) /\ missed' \in BOOLEAN
        /\ ~missed' => ~missed
        /\ port' = port /\ a0' = a0 /\ selected' = selected
        /\ wanted' = wanted /\ todo' = Tail(todo)
    BY <2>1, ByteStep
  <2>3. /\ invert' \in BOOLEAN /\ expect_contrast' \in BOOLEAN
        /\ seg_reverse' \in BOOLEAN /\ com_reverse' \in BOOLEAN
    BY <2>2, XferTypes
  <2> QED
    BY <1>2, <2>2, <2>3 DEF PanelTypes
<1> QED
  BY <1>2, <1>3, <1>4, StepKinds

\* Drawing goes on with the settings as they are.
LEMMA DrawingStep ==
    ASSUME PanelTypes, Step, ~missed', Drawing(todo), Settled
    PROVE  Drawing(todo)' /\ Settled'
<1>1. todo \in Seq(DriverSteps) /\ todo # <<>>
  BY DEF PanelTypes, Step
<1>2. Head(todo) \in DrawingSteps /\ Drawing(Tail(todo))
  BY <1>1, TailSteps
<1>3. CASE \E pin \in {"a0", "cs"}, high \in BOOLEAN : Head(todo) = Pin(pin, high)
  <2>1. PICK pin \in {"a0", "cs"}, high \in BOOLEAN : Head(todo) = Pin(pin, high)
    BY <1>3
  <2>2. /\ contrast' = contrast /\ invert' = invert /\ expect_contrast' = expect_contrast
        /\ seg_reverse' = seg_reverse /\ com_reverse' = com_reverse
        /\ wanted' = wanted /\ todo' = Tail(todo)
    BY <2>1, PinStep
  <2> QED
    BY <1>2, <2>2 DEF Settled, Drawing
<1>4. CASE \E op \in DrawingOps, n \in PanelValues : Head(todo) = Byte(op, n)
  <2>1. PICK op \in DrawingOps, n \in PanelValues : Head(todo) = Byte(op, n)
    BY <1>4
  <2>2. /\ st7565_xfer(Byte(op, n).byte) /\ wanted' = wanted /\ todo' = Tail(todo)
    BY <2>1, ByteStep
  <2>3. /\ contrast' = contrast /\ invert' = invert /\ expect_contrast' = FALSE
        /\ seg_reverse' = seg_reverse /\ com_reverse' = com_reverse
    BY <2>2, DrawingByte DEF Settled
  <2> QED
    BY <1>2, <2>2, <2>3 DEF Settled, Drawing
<1> QED
  BY <1>2, <1>3, <1>4, DrawingKinds

\* A byte that is sent with both pins low is a command, or the operand of the one before.
LEMMA CommandStep ==
    ASSUME PanelTypes, Step, ~missed', ~port.a0, ~port.cs, NEW op, NEW n, Head(todo) = Byte(op, n)
    PROVE  /\ ~port'.a0 /\ ~port'.cs /\ wanted' = wanted
           /\ expect_contrast =>
                 /\ contrast' = n /\ ~expect_contrast' /\ invert' = invert
                 /\ seg_reverse' = seg_reverse /\ com_reverse' = com_reverse
           /\ ~expect_contrast =>
                 /\ op # "reset" => contrast' = contrast
                 /\ expect_contrast' <=> op = "volume"
                 /\ op = "invert" => (invert' <=> n = 1) /\ invert' \in BOOLEAN
                 /\ op \notin {"invert", "reset"} => invert' = invert
                 /\ op = "seg" => (seg_reverse' <=> n = 1)
                 /\ op # "seg" => seg_reverse' = seg_reverse
                 /\ op = "com" => (com_reverse' <=> n = 1)
                 /\ op # "com" => com_reverse' = com_reverse
<1>1. /\ st7565_xfer(Byte(op, n).byte)
      /\ (port.a0 = a0) /\ (port.cs = ~selected)
      /\ port' = port /\ wanted' = wanted
  BY ByteStep
<1>2. /\ a0 \in BOOLEAN /\ selected \in BOOLEAN /\ port.a0 \in BOOLEAN /\ port.cs \in BOOLEAN
      /\ invert \in BOOLEAN
  BY DEF PanelTypes
<1>3. selected /\ ~a0
  BY <1>1, <1>2
<1>4. /\ expect_contrast =>
            /\ contrast' = n /\ invert' = invert /\ expect_contrast' = FALSE
            /\ seg_reverse' = seg_reverse /\ com_reverse' = com_reverse
      /\ ~expect_contrast =>
            /\ invert' = IF op = "invert" THEN n = 1 ELSE invert /\ op # "reset"
            /\ contrast' = IF op = "reset" THEN 0 ELSE contrast
            /\ expect_contrast' = (op = "volume")
            /\ seg_reverse' = IF op = "seg" THEN n = 1 ELSE seg_reverse
            /\ com_reverse' = IF op = "com" THEN n = 1 ELSE com_reverse
  BY <1>1, <1>3, SettingByte
<1> QED
  BY <1>1, <1>2, <1>4

\* A boot goes on, and its last setting leaves the panel with those it wanted.
LEMMA BootGoesOn ==
    ASSUME PanelTypes, Step, ~missed',
           NEW v \in Contrasts, BootLeft(todo, v), Booting(Len(todo), v)
    PROVE  \/ Drawing(todo)' /\ Settled'
           \/ BootLeft(todo', v) /\ Booting(Len(todo), v)'
<1>1. todo \in Seq(DriverSteps) /\ todo # <<>>
  BY DEF PanelTypes, Step
<1>m. PICK m \in Nat : m = Len(todo)
  BY <1>1
<1>b. Booting(m, v)
  BY <1>m
<1>2. /\ m \in 3..12 /\ Head(todo) = BootStep(m, v)
      /\ BootLeft(Tail(todo), v) /\ Len(Tail(todo)) = m - 1
  <2>1. /\ Len(todo) <= 12 /\ Head(todo) = BootStep(Len(todo), v)
        /\ BootLeft(Tail(todo), v) /\ Len(Tail(todo)) = Len(todo) - 1
    BY <1>1, TailSteps
  <2>2. m >= 3
    BY <1>b DEF Booting
  <2>3. m \in 3..12
    <3>1. m <= 12
      BY <1>m, <2>1, Zenon
    <3> QED
      BY ONLY m \in Nat, <2>2, <3>1
  <2> QED
    BY <1>m, <2>1, <2>3, Zenon
<1>3. m <= 9 => /\ port.a0 = FALSE /\ port.cs = FALSE
                /\ m <= 8 => (expect_contrast <=> m = 3)
  <2>1. port \in [a0: BOOLEAN, cs: BOOLEAN]
    BY DEF PanelTypes
  <2> QED
    BY <1>2, <1>b, <2>1 DEF Booting
<1>4. todo' = Tail(todo) /\ Len(todo') = m - 1
  BY <1>2 DEF Step
<1>5. CASE m \in 4..12
  <2> SUFFICES Booting(m - 1, v)'
    BY <1>2, <1>4
  <2>12. CASE m = 12
    <3>0. BootStep(12, v) = Deselect
      BY DEF BootStep
    <3>1. Head(todo) = Pin("cs", TRUE)
      BY <1>2, <2>12, <3>0, Zenon DEF Deselect
    <3>2. /\ port'.a0 = port.a0 /\ port'.cs = TRUE /\ wanted' = wanted
      BY <3>1, PinStep
    <3> QED
      BY <1>b, <2>12, <3>2 DEF Booting
  <2>11. CASE m = 11
    <3>0. BootStep(11, v) = Select
      BY DEF BootStep
    <3>1. Head(todo) = Pin("cs", FALSE)
      BY <1>2, <2>11, <3>0, Zenon DEF Select
    <3>2. /\ port'.a0 = port.a0 /\ port'.cs = FALSE /\ wanted' = wanted
      BY <3>1, PinStep
    <3> QED
      BY <1>b, <2>11, <3>2 DEF Booting
  <2>10. CASE m = 10
    <3>0. BootStep(10, v) = Command
      BY DEF BootStep
    <3>1. Head(todo) = Pin("a0", FALSE)
      BY <1>2, <2>10, <3>0, Zenon DEF Command
    <3>2. /\ port'.a0 = FALSE /\ port'.cs = port.cs /\ wanted' = wanted
      BY <3>1, PinStep
    <3> QED
      BY <1>b, <2>10, <3>2 DEF Booting
  <2>9. CASE m = 9
    <3>1. Head(todo) = Byte("reset", 0)
      BY <1>2, <2>9 DEF BootStep
    <3>2. /\ ~port'.a0 /\ ~port'.cs /\ wanted' = wanted
          /\ ~expect_contrast'
      BY <1>3, <2>9, <3>1, CommandStep
    <3> QED
      BY <1>b, <2>9, <3>2 DEF Booting
  <2>8. CASE m = 8
    <3>1. Head(todo) = Byte("other", 0)
      BY <1>2, <2>8 DEF BootStep
    <3>2. /\ ~port'.a0 /\ ~port'.cs /\ wanted' = wanted
          /\ ~expect_contrast'
      BY <1>3, <2>8, <3>1, CommandStep
    <3> QED
      BY <1>b, <2>8, <3>2 DEF Booting
  <2>7. CASE m = 7
    <3>1. Head(todo) = Byte("com", 0)
      BY <1>2, <2>7 DEF BootStep
    <3>2. /\ ~port'.a0 /\ ~port'.cs /\ wanted' = wanted
          /\ ~expect_contrast' /\ ~com_reverse'
      BY <1>3, <2>7, <3>1, CommandStep
    <3> QED
      BY <1>b, <2>7, <3>2 DEF Booting
  <2>6. CASE m = 6
    <3>1. Head(todo) = Byte("seg", 1)
      BY <1>2, <2>6 DEF BootStep
    <3>2. /\ ~port'.a0 /\ ~port'.cs /\ wanted' = wanted
          /\ ~expect_contrast' /\ com_reverse' = com_reverse /\ seg_reverse'
      BY <1>3, <2>6, <3>1, CommandStep
    <3> QED
      BY <1>b, <2>6, <3>2 DEF Booting
  <2>5. CASE m = 5
    <3>1. Head(todo) = Byte("invert", 0)
      BY <1>2, <2>5 DEF BootStep
    <3>2. /\ ~port'.a0 /\ ~port'.cs /\ wanted' = wanted
          /\ ~expect_contrast' /\ com_reverse' = com_reverse /\ seg_reverse' = seg_reverse /\ ~invert'
      BY <1>3, <2>5, <3>1, CommandStep
    <3> QED
      BY <1>b, <2>5, <3>2 DEF Booting
  <2>4. CASE m = 4
    <3>1. Head(todo) = Byte("volume", 0)
      BY <1>2, <2>4 DEF BootStep
    <3>2. /\ ~port'.a0 /\ ~port'.cs /\ wanted' = wanted
          /\ expect_contrast' /\ com_reverse' = com_reverse /\ seg_reverse' = seg_reverse /\ invert' = invert
      BY <1>3, <2>4, <3>1, CommandStep
    <3> QED
      BY <1>b, <2>4, <3>2 DEF Booting
  <2> QED
    BY <1>2, <1>5, <2>12, <2>11, <2>10, <2>9, <2>8, <2>7, <2>6, <2>5, <2>4
<1>6. CASE m = 3
  <2>1. Head(todo) = Byte("operand", v)
    BY <1>2, <1>6 DEF BootStep
  <2>3. /\ contrast' = v /\ invert' = invert /\ ~expect_contrast' /\ wanted' = wanted
        /\ seg_reverse' = seg_reverse /\ com_reverse' = com_reverse
    BY <1>3, <1>6, <2>1, CommandStep
  <2>4. Settled'
    <3>1. /\ wanted = BootWanted(v) /\ ~com_reverse /\ seg_reverse /\ ~invert
      BY <1>b, <1>6 DEF Booting
    <3>2. /\ wanted.contrast = v /\ wanted.invert = FALSE /\ wanted.seg = TRUE /\ wanted.com = FALSE
      BY <3>1 DEF BootWanted
    <3>3. invert \in BOOLEAN /\ seg_reverse \in BOOLEAN /\ com_reverse \in BOOLEAN
      BY DEF PanelTypes
    <3> QED
      BY <2>3, <3>1, <3>2, <3>3 DEF Settled
  <2>5. Drawing(Tail(todo))
    <3>1. Len(Tail(todo)) = 2
      BY <1>2, <1>6
    <3>2. /\ Tail(todo)[1] = BootStep(2 + 1 - 1, v) /\ Tail(todo)[2] = BootStep(2 + 1 - 2, v)
      BY <1>2, <3>1 DEF BootLeft
    <3>3. BootStep(2, v) = Byte("on", 1) /\ BootStep(1, v) = Deselect
      BY DEF BootStep
    <3>4. Byte("on", 1) \in DrawingSteps /\ Deselect \in DrawingSteps
      BY DriverStepTypes DEF DrawingOps
    <3>5. \A j \in 1..2 : Tail(todo)[j] \in DrawingSteps
      <4>1. 2 + 1 - 1 = 2 /\ 2 + 1 - 2 = 1 /\ \A j \in 1..2 : j = 1 \/ j = 2
        OBVIOUS
      <4>2. Tail(todo)[1] = BootStep(2, v) /\ Tail(todo)[2] = BootStep(1, v)
        BY <3>2, <4>1
      <4>3. Tail(todo)[1] \in DrawingSteps /\ Tail(todo)[2] \in DrawingSteps
        BY <3>3, <3>4, <4>2, Zenon
      <4> QED
        BY <4>1, <4>3, Zenon
    <3> QED
      BY <3>1, <3>5 DEF Drawing
  <2> QED
    BY <1>4, <2>4, <2>5
<1> QED
  BY <1>2, <1>5, <1>6

\* A change of contrast and inversion goes on in the same way.
LEMMA SettingGoesOn ==
    ASSUME PanelTypes, Step, ~missed', NEW v \in Contrasts, NEW i \in BOOLEAN,
           SettingLeft(todo, v, i), Setting(Len(todo), v, i)
    PROVE  \/ Drawing(todo)' /\ Settled'
           \/ SettingLeft(todo', v, i) /\ Setting(Len(todo), v, i)'
<1>1. todo \in Seq(DriverSteps) /\ todo # <<>>
  BY DEF PanelTypes, Step
<1>m. PICK m \in Nat : m = Len(todo)
  BY <1>1
<1>b. Setting(m, v, i)
  BY <1>m
<1>2. /\ m \in 2..7 /\ Head(todo) = SettingStep(m, v, i)
      /\ SettingLeft(Tail(todo), v, i) /\ Len(Tail(todo)) = m - 1
  <2>1. /\ Len(todo) <= 7 /\ Head(todo) = SettingStep(Len(todo), v, i)
        /\ SettingLeft(Tail(todo), v, i) /\ Len(Tail(todo)) = Len(todo) - 1
    BY <1>1, TailSteps
  <2>2. m >= 2
    BY <1>b DEF Setting
  <2>3. m \in 2..7
    BY <1>m, <2>1, <2>2
  <2> QED
    BY <1>m, <2>1, <2>3, Zenon
<1>3. /\ m <= 5 => port.a0 = FALSE /\ port.cs = FALSE
      /\ expect_contrast <=> m = 3
  <2>1. port \in [a0: BOOLEAN, cs: BOOLEAN]
    BY DEF PanelTypes
  <2> QED
    BY <1>2, <1>b, <2>1 DEF Setting
<1>4. todo' = Tail(todo) /\ Len(todo') = m - 1
  BY <1>2 DEF Step
<1>5. CASE m \in 3..7
  <2> SUFFICES Setting(m - 1, v, i)'
    BY <1>2, <1>4
  <2>7. CASE m = 7
    <3>0. SettingStep(7, v, i) = Select
      BY DEF SettingStep
    <3>1. Head(todo) = Pin("cs", FALSE)
      BY <1>2, <2>7, <3>0, Zenon DEF Select
    <3>2. /\ port'.a0 = port.a0 /\ port'.cs = FALSE /\ wanted' = wanted
          /\ contrast' = contrast /\ expect_contrast' = expect_contrast
          /\ seg_reverse' = seg_reverse /\ com_reverse' = com_reverse
      BY <3>1, PinStep
    <3> QED
      BY <1>b, <2>7, <3>2 DEF Setting
  <2>6. CASE m = 6
    <3>0. SettingStep(6, v, i) = Command
      BY DEF SettingStep
    <3>1. Head(todo) = Pin("a0", FALSE)
      BY <1>2, <2>6, <3>0, Zenon DEF Command
    <3>2. /\ port'.a0 = FALSE /\ port'.cs = port.cs /\ wanted' = wanted
          /\ contrast' = contrast /\ expect_contrast' = expect_contrast
          /\ seg_reverse' = seg_reverse /\ com_reverse' = com_reverse
      BY <3>1, PinStep
    <3> QED
      BY <1>b, <2>6, <3>2 DEF Setting
  <2>5. CASE m = 5
    <3>1. Head(todo) = Byte("reset", 0)
      BY <1>2, <2>5 DEF SettingStep
    <3>2. /\ ~port'.a0 /\ ~port'.cs /\ wanted' = wanted
          /\ ~expect_contrast' /\ seg_reverse' = seg_reverse /\ com_reverse' = com_reverse
      BY <1>3, <2>5, <3>1, CommandStep
    <3> QED
      BY <1>b, <2>5, <3>2 DEF Setting
  <2>4. CASE m = 4
    <3>1. Head(todo) = Byte("volume", 0)
      BY <1>2, <2>4 DEF SettingStep
    <3>2. /\ ~port'.a0 /\ ~port'.cs /\ wanted' = wanted
          /\ expect_contrast' /\ seg_reverse' = seg_reverse /\ com_reverse' = com_reverse
      BY <1>3, <2>4, <3>1, CommandStep
    <3> QED
      BY <1>b, <2>4, <3>2 DEF Setting
  <2>3. CASE m = 3
    <3>1. Head(todo) = Byte("operand", v)
      BY <1>2, <2>3 DEF SettingStep
    <3>2. /\ ~port'.a0 /\ ~port'.cs /\ wanted' = wanted
          /\ ~expect_contrast' /\ contrast' = v /\ seg_reverse' = seg_reverse /\ com_reverse' = com_reverse
      BY <1>3, <2>3, <3>1, CommandStep
    <3> QED
      BY <1>b, <2>3, <3>2 DEF Setting
  <2> QED
    BY <1>2, <1>5, <2>7, <2>6, <2>5, <2>4, <2>3
<1>6. CASE m = 2
  <2>1. Head(todo) = Byte("invert", OneIf(i))
    BY <1>2, <1>6 DEF SettingStep
  <2>3. /\ contrast' = contrast /\ invert' = (OneIf(i) = 1) /\ ~expect_contrast' /\ wanted' = wanted
        /\ seg_reverse' = seg_reverse /\ com_reverse' = com_reverse
    BY <1>3, <1>6, <2>1, CommandStep
  <2>4. Settled'
    <3>1. /\ wanted.contrast = v /\ wanted.invert = i /\ contrast = v
          /\ seg_reverse = wanted.seg /\ com_reverse = wanted.com
      BY <1>b, <1>6 DEF Setting
    <3>2. (OneIf(i) = 1) = i
      BY DEF OneIf
    <3> QED
      BY <2>3, <3>1, <3>2 DEF Settled
  <2>5. Drawing(Tail(todo))
    <3>1. Len(Tail(todo)) = 1
      BY <1>2, <1>6
    <3>2. Tail(todo)[1] = SettingStep(1 + 1 - 1, v, i)
      BY <1>2, <3>1 DEF SettingLeft
    <3>3. SettingStep(1, v, i) = Deselect
      BY DEF SettingStep
    <3>4. Deselect \in DrawingSteps
      BY DriverStepTypes
    <3>5. \A j \in 1..1 : Tail(todo)[j] \in DrawingSteps
      <4>1. 1 + 1 - 1 = 1 /\ \A j \in 1..1 : j = 1
        OBVIOUS
      <4>2. Tail(todo)[1] = SettingStep(1, v, i)
        BY <3>2, <4>1
      <4>3. Tail(todo)[1] \in DrawingSteps
        BY <3>3, <3>4, <4>2, Zenon
      <4> QED
        BY <4>1, <4>3, Zenon
    <3> QED
      BY <3>1, <3>5 DEF Drawing
  <2> QED
    BY <1>4, <2>4, <2>5
<1> QED
  BY <1>2, <1>5, <1>6

-----------------------------------------------------------------------------
(* The invariant is preserved *)

LEMMA BootStarts ==
    ASSUME NEW raised \in BOOLEAN, NEW v \in Contrasts, todo = Boot(raised, v),
           wanted = BootWanted(v)
    PROVE  BootLeft(todo, v) /\ Booting(Len(todo), v)
<1>1. BootLeft(todo, v) /\ Len(todo) \in {11, 12}
  BY BootSteps
<1>2. ASSUME NEW m \in {11, 12} PROVE Booting(m, v)
  BY DEF Booting
<1> QED
  BY <1>1, <1>2

LEMMA BootWants ==
    ASSUME NEW v \in Contrasts
    PROVE  BootWanted(v)
              \in [contrast: Contrasts, invert: BOOLEAN, seg: BOOLEAN, com: BOOLEAN]
  BY DEF BootWanted

LEMMA PanelInitInv == PanelInit => PanelInv
<1> SUFFICES ASSUME PanelInit PROVE PanelInv
  OBVIOUS
<1>1. PICK raised \in BOOLEAN, v \in Contrasts :
          /\ todo = Boot(raised, v)
          /\ wanted = BootWanted(v)
  BY DEF PanelInit, BootWanted
<1>2. BootLeft(todo, v) /\ Booting(Len(todo), v)
  BY <1>1, BootStarts
<1>3. PanelTypes
  <2>1. todo \in Seq(DriverSteps)
    BY <1>1, BootSteps
  <2>2. wanted \in [contrast: Contrasts, invert: BOOLEAN, seg: BOOLEAN, com: BOOLEAN]
    BY <1>1, BootWants
  <2> QED
    BY <2>1, <2>2 DEF PanelInit, PanelTypes
<1> QED
  BY <1>2, <1>3 DEF PanelInv

LEMMA PanelNextInv == PanelInv /\ [PanelNext]_panelVars => PanelInv'
<1> SUFFICES ASSUME PanelInv, [PanelNext]_panelVars PROVE PanelInv'
  OBVIOUS
<1>0. PanelTypes
  BY DEF PanelInv
\* Between two programs the panel has its settings.
<1>q. ASSUME todo = <<>>, ~missed PROVE Settled
  <2>1. Len(todo) = 0
    BY <1>q
  <2> QED
    BY <1>q, <2>1 DEF PanelInv, Booting, Setting
<1>d. Seq(DrawingSteps) \subseteq Seq(DriverSteps) /\ \A t \in Seq(DrawingSteps) : Drawing(t)
  BY DriverStepTypes DEF Drawing
<1>1. ASSUME NEW f \in Frames, Draw(f) PROVE PanelInv'
  <2>1. todo' \in Seq(DrawingSteps)
    BY <1>1, BlitSteps DEF Draw
  <2>2. UNCHANGED <<pinVars, settingVars, wanted, missed>> /\ todo = <<>>
    BY <1>1 DEF Draw
  <2>3. PanelTypes'
    BY <1>0, <1>d, <2>1, <2>2 DEF PanelTypes, pinVars, settingVars
  <2>4. ~missed' => Settled'
    BY <1>q, <2>2 DEF Settled, settingVars
  <2> QED
    BY <1>d, <2>1, <2>3, <2>4 DEF PanelInv
<1>2. ASSUME NEW on \in BOOLEAN, SetDisplay(on) PROVE PanelInv'
  <2>1. todo' \in Seq(DrawingSteps)
    BY <1>2, DisplaySteps DEF SetDisplay
  <2>2. UNCHANGED <<pinVars, settingVars, wanted, missed>> /\ todo = <<>>
    BY <1>2 DEF SetDisplay
  <2>3. PanelTypes'
    BY <1>0, <1>d, <2>1, <2>2 DEF PanelTypes, pinVars, settingVars
  <2>4. ~missed' => Settled'
    BY <1>q, <2>2 DEF Settled, settingVars
  <2> QED
    BY <1>d, <2>1, <2>3, <2>4 DEF PanelInv
<1>3. ASSUME NEW v \in Contrasts, NEW i \in BOOLEAN, ChangeSettings(v, i) PROVE PanelInv'
  <2>1. /\ todo = <<>> /\ todo' = ContrastAndInv(v, i)
        /\ wanted' = [wanted EXCEPT !.contrast = v, !.invert = i]
        /\ UNCHANGED <<pinVars, settingVars, missed>>
    BY <1>3 DEF ChangeSettings
  <2>2. todo' \in Seq(DriverSteps) /\ SettingLeft(todo', v, i) /\ Len(todo') = 7
    BY <2>1, SettingSteps
  <2>3. wanted \in [contrast: Contrasts, invert: BOOLEAN, seg: BOOLEAN, com: BOOLEAN]
    BY <1>0 DEF PanelTypes
  <2>4. /\ wanted' \in [contrast: Contrasts, invert: BOOLEAN, seg: BOOLEAN, com: BOOLEAN]
        /\ wanted'.contrast = v /\ wanted'.invert = i
        /\ wanted'.seg = wanted.seg /\ wanted'.com = wanted.com
    BY <2>1, <2>3
  <2>5. PanelTypes'
    BY <1>0, <2>1, <2>2, <2>4 DEF PanelTypes, pinVars, settingVars
  <2>6. ~missed' => Setting(Len(todo), v, i)'
    BY <1>q, <2>1, <2>2, <2>4 DEF Settled, Setting, settingVars
  <2> QED
    BY <2>2, <2>5, <2>6 DEF PanelInv
<1>4. ASSUME Step PROVE PanelInv'
  <2>1. PanelTypes' /\ (~missed' => ~missed)
    BY <1>0, <1>4, StepTypes
  <2>2. ASSUME ~missed'
        PROVE  \/ Drawing(todo)' /\ Settled'
               \/ \E v \in Contrasts : BootLeft(todo', v) /\ Booting(Len(todo), v)'
               \/ \E v \in Contrasts, i \in BOOLEAN :
                     SettingLeft(todo', v, i) /\ Setting(Len(todo), v, i)'
    <3>1. \/ Drawing(todo) /\ Settled
          \/ \E v \in Contrasts : BootLeft(todo, v) /\ Booting(Len(todo), v)
          \/ \E v \in Contrasts, i \in BOOLEAN :
                SettingLeft(todo, v, i) /\ Setting(Len(todo), v, i)
      BY <2>1, <2>2 DEF PanelInv
    <3>2. CASE Drawing(todo) /\ Settled
      BY <1>0, <1>4, <2>2, <3>2, DrawingStep
    <3>3. ASSUME NEW v \in Contrasts, BootLeft(todo, v), Booting(Len(todo), v)
          PROVE  \/ Drawing(todo)' /\ Settled'
                 \/ BootLeft(todo', v) /\ Booting(Len(todo), v)'
      BY <1>0, <1>4, <2>2, <3>3, BootGoesOn
    <3>4. ASSUME NEW v \in Contrasts, NEW i \in BOOLEAN,
                 SettingLeft(todo, v, i), Setting(Len(todo), v, i)
          PROVE  \/ Drawing(todo)' /\ Settled'
                 \/ SettingLeft(todo', v, i) /\ Setting(Len(todo), v, i)'
      BY <1>0, <1>4, <2>2, <3>4, SettingGoesOn
    <3> QED
      BY <3>1, <3>2, <3>3, <3>4, Zenon
  <2> QED
    BY <2>1, <2>2 DEF PanelInv, BootLeft, SettingLeft, Booting, Setting
<1>5. ASSUME NEW raised \in BOOLEAN, NEW v \in Contrasts, PanelReset(raised, v) PROVE PanelInv'
  <2>1. /\ port' = [a0 |-> FALSE, cs |-> FALSE] /\ todo' = Boot(raised, v)
        /\ wanted' = BootWanted(v)
        /\ missed' = FALSE
        /\ st7565_reset \/ UNCHANGED <<a0, selected, settingVars, addressVars, gram>>
    BY <1>5 DEF PanelReset, BootWanted
  <2>2. BootLeft(todo', v) /\ Booting(Len(todo), v)'
    <3>1. BootLeft(todo', v) /\ Len(todo') \in {11, 12}
      BY <2>1, BootSteps
    <3>2. ASSUME NEW m \in {11, 12} PROVE Booting(m, v)'
      BY <2>1 DEF Booting
    <3>3. Booting(Len(todo), v)'
      BY <3>1, <3>2 DEF Booting
    <3> QED
      BY <3>1, <3>3
  <2>3. PanelTypes'
    <3>1. todo' \in Seq(DriverSteps)
      BY <2>1, BootSteps
    <3>2. wanted' \in [contrast: Contrasts, invert: BOOLEAN, seg: BOOLEAN, com: BOOLEAN]
      BY <2>1, BootWants
    <3>3. port' \in [a0: BOOLEAN, cs: BOOLEAN]
      BY <2>1
    <3>4. /\ a0' \in BOOLEAN /\ selected' \in BOOLEAN
          /\ invert' \in BOOLEAN /\ expect_contrast' \in BOOLEAN
          /\ seg_reverse' \in BOOLEAN /\ com_reverse' \in BOOLEAN
      BY <1>0, <2>1 DEF PanelTypes, st7565_reset, settingVars
    <3> QED
      BY <2>1, <3>1, <3>2, <3>3, <3>4 DEF PanelTypes
  <2> QED
    BY <2>2, <2>3 DEF PanelInv, BootLeft, Booting
<1>6. CASE UNCHANGED panelVars
  BY <1>6 DEF panelVars, pinVars, settingVars, driverVars, PanelInv, PanelTypes, Drawing, Settled,
              BootLeft, Booting, SettingLeft, Setting
<1> QED
  BY <1>1, <1>2, <1>3, <1>4, <1>5, <1>6 DEF PanelNext, Redraw

\* The panel's settings are those the firmware sent last, for panels of any size,
\* any pictures, contrasts and resets, except after a boot whose bytes met pins
\* that the reset had left out of date (st7565_xfer, py32_gpio_update).
THEOREM PanelSettingsFollow == PanelSpec => []SettingsFollow
<1>1. PanelInv => SettingsFollow
  <2> SUFFICES ASSUME PanelInv, todo = <<>>, ~missed PROVE Settled /\ PanelTypes
    <3>1. ASSUME Settled, PanelTypes
          PROVE  /\ [contrast |-> contrast, invert |-> invert, seg |-> seg_reverse, com |-> com_reverse]
                       = wanted
                 /\ ~expect_contrast
      BY <3>1 DEF Settled, PanelTypes
    <3> QED
      BY <3>1 DEF SettingsFollow
  <2>1. Len(todo) = 0
    OBVIOUS
  <2> QED
    BY <2>1 DEF PanelInv, Booting, Setting
<1> QED
  BY PanelInitInv, PanelNextInv, <1>1, PTL DEF PanelSpec

=============================================================================
