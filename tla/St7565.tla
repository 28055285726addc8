-------------------------------- MODULE St7565 --------------------------------
(***************************************************************************)
(* The display controller of qemu/py32f071.c behind SPI1, and the firmware *)
(* that draws on it.  Two pins say whom and what a byte is for: CS, and A0 *)
(* (command or pixels).  The GPIO port reports a pin only when it changes, *)
(* a machine reset puts its outputs to low without a report, and the panel *)
(* sits on no bus that a machine reset would walk: the panel's copy of the *)
(* two pins may be out of date.                                            *)
(*                                                                         *)
(* A byte is its meaning as a command, or pixels; a command that is taken  *)
(* for pixels is noise.  The probe that logs transfers is left out.        *)
(***************************************************************************)
EXTENDS Integers, Sequences

CONSTANTS
    Pages, Width, Margin,   \* 8 pages, 128 columns, of which the first is 4
    Nibble,                 \* column values of one address byte: 16
    Frames,                 \* pictures: a sequence of columns for each page
    Contrasts,              \* operands of 0x81
    MaxPanelResets          \* bound on the machine resets

ASSUME PanelAssumption ==
    /\ {Pages, Width, Margin, Nibble, MaxPanelResets} \subseteq Nat /\ Nibble # 0
    /\ Margin + Width <= Nibble * Nibble
    /\ \A f \in Frames : Len(f) = Pages /\ \A p \in DOMAIN f : Len(f[p]) = Width

VARIABLES
    port,                               \* odr: the levels of its two pins
    a0, selected,                       \* the panel's copies
    invert, display_on, contrast, expect_contrast,
    page, col, seg_reverse, com_reverse,
    gram,                               \* as a frame: gram[page + 1][column + 1]
    todo,                               \* what the driver has still to do
    frame,                              \* the picture it drew last
    wanted,                             \* the settings it sent last (history)
    missed,                             \* a byte met outdated pins (history)
    panelResets

pinVars     == <<port, a0, selected>>
settingVars == <<invert, display_on, contrast, expect_contrast, seg_reverse, com_reverse>>
addressVars == <<page, col>>
driverVars  == <<todo, frame, wanted, missed, panelResets>>
panelVars == <<pinVars, settingVars, addressVars, gram, driverVars>>

-----------------------------------------------------------------------------
(* The panel *)

st7565_set_a0(level) == a0' = level /\ UNCHANGED selected

st7565_set_cs(level) == selected' = ~level /\ UNCHANGED a0

\* The panel hears of a pin only when it changes.
py32_gpio_update(pin, level) ==
    /\ port' = [port EXCEPT ![pin] = level]
    /\ \/ port[pin] = level /\ UNCHANGED <<a0, selected>>
       \/ port[pin] # level /\ pin = "a0" /\ st7565_set_a0(level)
       \/ port[pin] # level /\ pin = "cs" /\ st7565_set_cs(level)

\* Mutant: the counter wraps where the picture is as wide as the counter.
NextColumnMasked(c) == (c + 1) % Width

NextColumn(c) == (c + 1) % (Margin + Width)

\* A command taken for pixels leaves some column that is in no picture.  The
\* panel's A0 is never low when the port's is high: no pixels are commands.
PixelsOf(b) == IF b.op = "pixels" THEN b.n ELSE -1

XferPixels(b) ==
    /\ gram' = IF col >= Margin /\ col < Margin + Width
               THEN [gram EXCEPT ![page + 1][col - Margin + 1] = PixelsOf(b)]
               ELSE gram
    /\ col' = NextColumn(col)
    /\ UNCHANGED <<page, settingVars>>

\* Mutant: the operand is taken and the next byte is one as well.
XferOperandAgain(b) ==
    /\ contrast' = b.n
    /\ UNCHANGED <<expect_contrast, invert, display_on, seg_reverse, com_reverse, addressVars, gram>>

XferOperand(b) ==
    /\ contrast' = b.n /\ expect_contrast' = FALSE
    /\ UNCHANGED <<invert, display_on, seg_reverse, com_reverse, addressVars, gram>>

XferCommand(b) ==
    /\ page' = IF b.op = "page" THEN b.n ELSE page
    /\ col' = CASE b.op = "low"  -> (col \div Nibble) * Nibble + b.n
                [] b.op = "high" -> (col % Nibble) + b.n * Nibble
                [] OTHER         -> col
    /\ invert' = IF b.op = "invert" THEN b.n = 1 ELSE invert /\ b.op # "reset"
    /\ display_on' = IF b.op = "on" THEN b.n = 1 ELSE display_on /\ b.op # "reset"
    /\ contrast' = IF b.op = "reset" THEN 0 ELSE contrast
    /\ expect_contrast' = (b.op = "volume")
    /\ seg_reverse' = IF b.op = "seg" THEN b.n = 1 ELSE seg_reverse
    /\ com_reverse' = IF b.op = "com" THEN b.n = 1 ELSE com_reverse
    /\ UNCHANGED gram

st7565_xfer(b) ==
    CASE ~selected                         -> UNCHANGED <<settingVars, addressVars, gram>>
      [] selected /\ a0                    -> XferPixels(b)
      [] selected /\ ~a0 /\ expect_contrast  -> XferOperand(b)
      [] selected /\ ~a0 /\ ~expect_contrast -> XferCommand(b)

Blank == [p \in 1..Pages |-> [c \in 1..Width |-> 0]]

st7565_reset ==
    /\ a0' = FALSE /\ selected' = FALSE
    /\ invert' = FALSE /\ display_on' = FALSE
    /\ contrast' = 0 /\ expect_contrast' = FALSE
    /\ page' = 0 /\ col' = 0
    /\ seg_reverse' = FALSE /\ com_reverse' = FALSE
    /\ gram' = Blank

-----------------------------------------------------------------------------
(* The firmware's driver: programs of pin and byte steps *)

Pin(pin, high) == [do |-> "pin", pin |-> pin, high |-> high]
Byte(op, n) == [do |-> "byte", byte |-> [op |-> op, n |-> n]]
OneIf(on) == IF on THEN 1 ELSE 0

Select == Pin("cs", FALSE)
Deselect == Pin("cs", TRUE)
Command == Pin("a0", FALSE)
Pixels == Pin("a0", TRUE)

\* The first bytes are those of a real boot: e2 a2 c0 a1 a6 ... 81 1f ... af.
Boot(raised, v) ==
    LET program == <<Select, Command,
                     Byte("reset", 0), Byte("other", 0), Byte("com", 0), Byte("seg", 1),
                     Byte("invert", 0), Byte("volume", 0), Byte("operand", v), Byte("on", 1),
                     Deselect>>
    IN IF raised THEN <<Deselect>> \o program ELSE program

ContrastAndInv(v, i) ==
    <<Select, Command,
      Byte("reset", 0), Byte("volume", 0), Byte("operand", v), Byte("invert", OneIf(i)),
      Deselect>>

LineLen == 5 + Width

DrawLine(f, p) ==
    <<Command, Byte("page", p - 1), Byte("high", Margin \div Nibble), Byte("low", Margin % Nibble),
      Pixels>> \o [c \in 1..Width |-> Byte("pixels", f[p][c])]

\* The lines of all pages, one after the other.
BlitFullScreen(f) ==
    <<Select>>
        \o [k \in 1..(Pages * LineLen) |->
              DrawLine(f, ((k - 1) \div LineLen) + 1)[((k - 1) % LineLen) + 1]]
        \o <<Deselect>>

Draw(f) ==
    /\ todo = <<>>
    /\ todo' = BlitFullScreen(f) /\ frame' = f
    /\ UNCHANGED <<pinVars, settingVars, addressVars, gram, wanted, missed, panelResets>>

ChangeSettings(v, i) ==
    /\ todo = <<>>
    /\ todo' = ContrastAndInv(v, i)
    /\ wanted' = [wanted EXCEPT !.contrast = v, !.invert = i]
    /\ UNCHANGED <<pinVars, settingVars, addressVars, gram, frame, missed, panelResets>>

SetDisplay(on) ==
    /\ todo = <<>>
    /\ todo' = <<Select, Command, Byte("on", OneIf(on)), Deselect>>
    /\ UNCHANGED <<pinVars, settingVars, addressVars, gram, frame, wanted, missed, panelResets>>

Outdated == a0 # port.a0 \/ selected = port.cs

Step ==
    /\ todo # <<>>
    /\ todo' = Tail(todo)
    /\ \/ /\ Head(todo).do = "pin"
          /\ py32_gpio_update(Head(todo).pin, Head(todo).high)
          /\ UNCHANGED <<settingVars, addressVars, gram, missed>>
       \/ /\ Head(todo).do = "byte"
          /\ st7565_xfer(Head(todo).byte)
          /\ missed' = (missed \/ Outdated)
          /\ UNCHANGED pinVars
    /\ UNCHANGED <<frame, wanted, panelResets>>

\* The outputs of the port go low, and the panel is reset with it or not.
PanelReset(raised, v) ==
    /\ panelResets < MaxPanelResets
    /\ panelResets' = panelResets + 1
    /\ port' = [a0 |-> FALSE, cs |-> FALSE]
    /\ \/ st7565_reset
       \/ UNCHANGED <<a0, selected, settingVars, addressVars, gram>>
    /\ todo' = Boot(raised, v)
    /\ wanted' = [contrast |-> v, invert |-> FALSE, seg |-> TRUE, com |-> FALSE]
    /\ missed' = FALSE
    /\ UNCHANGED frame

-----------------------------------------------------------------------------
PanelInit ==
    /\ port = [a0 |-> FALSE, cs |-> FALSE]
    /\ a0 = FALSE /\ selected = FALSE
    /\ invert = FALSE /\ display_on = FALSE /\ contrast = 0 /\ expect_contrast = FALSE
    /\ page = 0 /\ col = 0 /\ seg_reverse = FALSE /\ com_reverse = FALSE
    /\ gram = Blank
    /\ \E raised \in BOOLEAN, v \in Contrasts :
          /\ todo = Boot(raised, v)
          /\ wanted = [contrast |-> v, invert |-> FALSE, seg |-> TRUE, com |-> FALSE]
    /\ frame = Blank
    /\ missed = FALSE /\ panelResets = 0

Redraw == \E f \in Frames : Draw(f)

PanelNext ==
    \/ Redraw
    \/ \E v \in Contrasts, i \in BOOLEAN : ChangeSettings(v, i)
    \/ \E on \in BOOLEAN : SetDisplay(on)
    \/ Step
    \/ \E raised \in BOOLEAN, v \in Contrasts : PanelReset(raised, v)

\* The firmware runs, and draws again and again between other things.
PanelFairness == WF_panelVars(Step) /\ SF_panelVars(Redraw)

PanelSpec == PanelInit /\ [][PanelNext]_panelVars /\ PanelFairness

-----------------------------------------------------------------------------
\* Panel, port and driver keep their types.
PanelTypeOK ==
    /\ port \in [a0: BOOLEAN, cs: BOOLEAN]
    /\ {a0, selected, invert, display_on, expect_contrast, seg_reverse, com_reverse, missed}
          \subseteq BOOLEAN
    /\ page \in 0..(Pages - 1) /\ col \in 0..(Nibble * Nibble - 1)
    /\ panelResets \in 0..MaxPanelResets

(***************************************************************************)
(* Between two operations of the driver the panel's settings are the ones  *)
(* the firmware sent last, whatever was cut short by a reset: no operand   *)
(* is taken for a command, no pixels for a setting.  The exception is a    *)
(* boot whose bytes met pins that the reset had left out of date.          *)
(***************************************************************************)
SettingsFollow ==
    todo = <<>> /\ ~missed =>
        /\ [contrast |-> contrast, invert |-> invert, seg |-> seg_reverse, com |-> com_reverse]
              = wanted
        /\ ~expect_contrast

(***************************************************************************)
(* The glass catches up: when the firmware keeps drawing one picture, the  *)
(* panel's memory comes to hold it, to the last column, and stays so       *)
(* whatever settings change meanwhile, also after a reset in the middle of *)
(* a line that left page, column and pins behind.                          *)
(***************************************************************************)
GlassCatchesUp == \A f \in Frames : <>[](frame = f) => <>[](gram = f)

=============================================================================
