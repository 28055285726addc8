-------------------------------- MODULE Bk4819 --------------------------------
(***************************************************************************)
(* The BK4819 transceiver of qemu/py32f071.c and the firmware at the other *)
(* end of its three-wire bus.  Every clock edge is a step: a transfer is a *)
(* command (read bit and register number), then a data word in either      *)
(* direction, most significant bit first.  Reading REG_0C evaluates the    *)
(* receiver, which may raise a squelch flag; the firmware collects flags   *)
(* in a loop that has no timeout.                                          *)
(*                                                                         *)
(* The tuned frequency is one register here (REG_38 and REG_39 in the      *)
(* code), the squelch level a whole register, the two squelch flags bits 0 *)
(* and 1 (2 and 3); the meters in REG_64, REG_65, REG_67 and REG_63 are    *)
(* not stored.  tick is kept modulo its period, which the jitter divides.  *)
(***************************************************************************)
EXTENDS Integers, FiniteSetsExt

CONSTANTS
    RegBits, DataBits,      \* 7 and 16
    Period,                 \* polls between two announcements: 64
    Jitter,                 \* 8
    REG_INTERRUPT, REG_INT_FLAGS, REG_INT_ENABLE, REG_RX_ENABLE,
    REG_FREQ, REG_RSSI_THRESH,
    Stations,               \* bk4819_stations: centre and peak level
    NoiseFloor, FadeStep, FadePerStep,
    Writes,                 \* <<register, word>> the firmware may write
    MaxBkResets               \* bound on the machine resets

ASSUME BkAssumption ==
    /\ RegBits \in Nat \ {0} /\ DataBits \in Nat \ {0, 1}
    /\ Jitter \in Nat \ {0} /\ Period % Jitter = 0
    /\ MaxBkResets \in Nat

\* What bit n counts for in a word.
Place(n) == 2^n

REG_REVISION == 0
Registers == 0..(Place(RegBits) - 1)
Words == 0..(Place(DataBits) - 1)
CmdBits == RegBits + 1

ASSUME RegistersAssumption ==
    /\ {REG_INTERRUPT, REG_INT_FLAGS, REG_INT_ENABLE, REG_RX_ENABLE, REG_FREQ, REG_RSSI_THRESH}
          \subseteq Registers \ {REG_REVISION}
    /\ REG_INTERRUPT # REG_INT_FLAGS
    /\ Writes \subseteq Registers \X Words

\* Bit n of a word, and the word with bit 0 set or cleared.
Bit(w, n) == (w \div Place(n)) % 2
WithBit0(w, b) == w - Bit(w, 0) + b

VARIABLES
    cs, scl, sda_out,                       \* the lines as the chip sees them
    bit_count, shift_in, cmd, have_cmd, reading, skip_falling, shift_out,
    sda_in,                                 \* the line the chip drives
    regs, pending_int, squelch_open, tick,
    task,                                   \* the firmware's loop
    xfer, step, sent, got,                  \* the transfer it is clocking
    told,                                   \* flags it collected last
    bkResets

lineVars   == <<cs, scl, sda_out>>
decodeVars == <<bit_count, shift_in, cmd, have_cmd, reading, skip_falling>>
outVars    == <<shift_out, sda_in>>
rxVars     == <<pending_int, squelch_open, tick>>
xferVars   == <<xfer, sent, got>>
bkVars == <<lineVars, decodeVars, outVars, regs, rxVars, task, xferVars, step, told, bkResets>>

-----------------------------------------------------------------------------
(* The receiver *)

Distance(a, b) == IF a > b THEN a - b ELSE b - a

\* The strongest station at the tuned frequency, or the noise.
bk4819_rssi_for ==
    LET Level(st) == st.peak - (Distance(regs[REG_FREQ], st.centre) \div FadeStep) * FadePerStep
    IN IF regs[REG_FREQ] = 0 THEN NoiseFloor
       ELSE Max({NoiseFloor} \cup {Level(st) : st \in Stations})

OpenThreshold == regs[REG_RSSI_THRESH] * 2

\* A signal that opens the squelch, before the jitter.
Audible == OpenThreshold # 0 /\ bk4819_rssi_for >= OpenThreshold

\* ENABLE_RX_DSP, and the firmware wants to know.
Listening == Bit(regs[REG_RX_ENABLE], 0) = 1 /\ Bit(regs[REG_INT_ENABLE], 0) = 1

\* Mutant: announced at every poll.
AnnouncesAlways ==
    /\ OpenThreshold # 0
    /\ bk4819_rssi_for + ((tick' * 7) % Jitter) >= OpenThreshold

Announces ==
    /\ tick' = 0
    /\ OpenThreshold # 0
    /\ bk4819_rssi_for + ((tick' * 7) % Jitter) >= OpenThreshold

FlagWord(flags) ==
    (IF "lost" \in flags THEN 1 ELSE 0) + (IF "found" \in flags THEN 2 ELSE 0)

\* Mutant: a poll that has nothing to announce withdraws what waits.
FlagsNow ==
    CASE Listening /\ Announces                    -> {"lost"}
      [] Listening /\ ~Announces /\ squelch_open   -> {"found"}
      [] OTHER                                     -> {}

\* The flags that wait after a poll: an announced one is never withdrawn.
FlagsAfter ==
    pending_int \cup
        (CASE Listening /\ Announces                    -> {"lost"}
           [] Listening /\ ~Announces /\ squelch_open   -> {"found"}
           [] OTHER                                     -> {})

bk4819_eval_receiver ==
    /\ tick' = (tick + 1) % Period
    /\ squelch_open' = (Listening /\ Announces)
    /\ pending_int' = FlagsAfter
    /\ regs' = IF Listening /\ pending_int' # {}
               THEN [regs EXCEPT ![REG_INTERRUPT] = WithBit0(@, 1)] ELSE regs

-----------------------------------------------------------------------------
(* bk4819_set_scl, rising *)

CommandBit ==
    /\ ~have_cmd /\ bit_count + 1 < CmdBits
    /\ shift_in' = 2 * shift_in + sda_out
    /\ bit_count' = bit_count + 1
    /\ UNCHANGED <<cmd, have_cmd, reading, skip_falling, outVars, regs, rxVars>>

\* Mutant: the command's own falling edge consumes the first data bit.
SkipNone(isRead) == skip_falling

\* The command's trailing edge is not a data bit.
SkipNext(isRead) == isRead \/ skip_falling

\* A read presents its first bit at once; polling REG_0C looks around first.
CommandDone ==
    /\ ~have_cmd /\ bit_count + 1 = CmdBits
    /\ LET word == 2 * shift_in + sda_out
       IN /\ reading' = (Bit(word, RegBits) = 1)
          /\ cmd' = word % Place(RegBits)
    /\ have_cmd' = TRUE /\ bit_count' = 0 /\ shift_in' = 0
    /\ IF reading' /\ cmd' = REG_INTERRUPT
       THEN bk4819_eval_receiver
       ELSE UNCHANGED <<regs, rxVars>>
    /\ skip_falling' = SkipNext(reading')
    /\ shift_out' = IF reading' THEN regs'[cmd'] ELSE shift_out
    /\ sda_in' = IF reading' THEN Bit(shift_out', DataBits - 1) ELSE sda_in

WriteBit ==
    /\ have_cmd /\ ~reading /\ bit_count + 1 < DataBits
    /\ shift_in' = 2 * shift_in + sda_out
    /\ bit_count' = bit_count + 1
    /\ UNCHANGED <<cmd, have_cmd, reading, skip_falling, outVars, regs, rxVars>>

\* Mutant: the acknowledging word overwrites the flags it collects.
StoreOverFlags(word) ==
    [regs EXCEPT ![REG_INTERRUPT] = IF cmd = REG_INT_FLAGS THEN WithBit0(@, 0) ELSE @,
                 ![cmd] = word]

\* What a written word does: a soft reset seeds the measurements again, and
\* REG_02 takes the flags that wait and drops the request.
Store(word) ==
    IF cmd = REG_INT_FLAGS
    THEN [regs EXCEPT ![REG_INT_FLAGS] = FlagWord(pending_int),
                      ![REG_INTERRUPT] = WithBit0(@, 0)]
    ELSE [r \in Registers |->
            CASE r = cmd -> word
              [] r = REG_INTERRUPT /\ cmd = REG_REVISION /\ Bit(word, DataBits - 1) = 1 -> 0
              [] OTHER -> regs[r]]

WriteDone ==
    /\ have_cmd /\ ~reading /\ bit_count + 1 = DataBits
    /\ regs' = Store(2 * shift_in + sda_out)
    /\ pending_int' = IF cmd = REG_INT_FLAGS THEN {} ELSE pending_int
    /\ bit_count' = 0 /\ shift_in' = 0 /\ have_cmd' = FALSE
    /\ UNCHANGED <<cmd, reading, skip_falling, outVars, squelch_open, tick>>

RisingWhileReading ==
    /\ have_cmd /\ reading
    /\ UNCHANGED <<decodeVars, outVars, regs, rxVars>>

bk4819_set_scl_high ==
    /\ scl' = TRUE
    /\ IF cs /\ ~scl
       THEN CommandBit \/ CommandDone \/ WriteBit \/ WriteDone \/ RisingWhileReading
       ELSE UNCHANGED <<decodeVars, outVars, regs, rxVars>>
    /\ UNCHANGED <<cs, sda_out>>

\* bk4819_set_scl, falling: advance to the next bit of a read.
bk4819_set_scl_low ==
    /\ scl' = FALSE
    /\ \/ /\ cs /\ scl /\ skip_falling
          /\ skip_falling' = FALSE
          /\ UNCHANGED <<bit_count, shift_in, cmd, have_cmd, reading, outVars>>
       \/ /\ cs /\ scl /\ ~skip_falling /\ have_cmd /\ reading
          /\ shift_out' = (2 * shift_out) % Place(DataBits)
          /\ sda_in' = Bit(shift_out', DataBits - 1)
          /\ bit_count' = (bit_count + 1) % DataBits
          /\ have_cmd' = (bit_count + 1 < DataBits)
          /\ reading' = (bit_count + 1 < DataBits)
          /\ UNCHANGED <<shift_in, cmd, skip_falling>>
       \/ /\ ~(cs /\ scl /\ (skip_falling \/ (have_cmd /\ reading)))
          /\ UNCHANGED <<decodeVars, outVars>>
    /\ UNCHANGED <<cs, sda_out, regs, rxVars>>

\* Deselecting ends a transfer, whatever state it reached.
bk4819_set_cs(selected) ==
    /\ cs' = selected
    /\ IF cs /\ ~selected
       THEN /\ bit_count' = 0 /\ shift_in' = 0
            /\ have_cmd' = FALSE /\ reading' = FALSE /\ skip_falling' = FALSE
            /\ UNCHANGED cmd
       ELSE UNCHANGED decodeVars

bk4819_reset ==
    /\ regs' = [r \in Registers |-> 0]
    /\ cs' = FALSE /\ scl' = FALSE /\ UNCHANGED <<sda_out, cmd>>
    /\ bit_count' = 0 /\ shift_in' = 0
    /\ have_cmd' = FALSE /\ reading' = FALSE /\ skip_falling' = FALSE
    /\ shift_out' = 0
    /\ pending_int' = {} /\ squelch_open' = FALSE /\ tick' = 0

-----------------------------------------------------------------------------
(* The firmware's driver: one transfer, bit by bit *)

NoXfer == [kind |-> "none", reg |-> 0, word |-> 0]
CommandWord == (IF xfer.kind = "read" THEN Place(RegBits) ELSE 0) + xfer.reg
InCommand == sent < CmdBits

Begin(k, r, w) ==
    /\ step = "off"
    /\ xfer' = [kind |-> k, reg |-> r, word |-> w]
    /\ sent' = 0 /\ got' = 0
    /\ step' = "drive"
    /\ bk4819_set_cs(TRUE) /\ scl' = FALSE
    /\ UNCHANGED <<sda_out, outVars, regs, rxVars, bkResets>>

\* Put the next bit on the line, or sample what the chip presents.
Drive ==
    /\ step = "drive"
    /\ step' = "raise"
    /\ IF InCommand \/ xfer.kind = "write"
       THEN /\ sda_out' = IF InCommand
                          THEN Bit(CommandWord, CmdBits - 1 - sent)
                          ELSE Bit(xfer.word, CmdBits + DataBits - 1 - sent)
            /\ got' = got
       ELSE /\ got' = 2 * got + sda_in
            /\ sda_out' = sda_out
    /\ UNCHANGED <<cs, scl, decodeVars, outVars, regs, rxVars, task, xfer, sent, told, bkResets>>

Raise ==
    /\ step = "raise"
    /\ step' = "lower"
    /\ bk4819_set_scl_high
    /\ UNCHANGED <<task, xferVars, told, bkResets>>

Lower ==
    /\ step = "lower"
    /\ sent' = sent + 1
    /\ step' = IF sent' < CmdBits + DataBits THEN "drive" ELSE "end"
    /\ bk4819_set_scl_low
    /\ UNCHANGED <<task, xfer, got, told, bkResets>>

\* Chip select goes high; the loop looks at what it read.
End ==
    /\ step = "end"
    /\ step' = "off"
    /\ bk4819_set_cs(FALSE)
    /\ task' = CASE task = "poll"    -> IF Bit(got, 0) = 1 THEN "ack" ELSE "idle"
                 [] task = "ack"     -> "collect"
                 [] task = "collect" -> "again"
                 [] OTHER            -> "idle"
    /\ told' = IF task = "collect"
               THEN {f \in {"lost", "found"} : Bit(got, IF f = "lost" THEN 0 ELSE 1) = 1}
               ELSE told
    /\ xfer' = NoXfer /\ sent' = 0 /\ got' = 0
    /\ UNCHANGED <<scl, sda_out, outVars, regs, rxVars, bkResets>>

\* while (REG_0C & 1) { REG_02 = 0; flags = REG_02; }
Poll ==
    /\ task \in {"idle", "again"}
    /\ task' = "poll"
    /\ told' = {}
    /\ Begin("read", REG_INTERRUPT, 0)

Acknowledge ==
    /\ task = "ack" /\ UNCHANGED <<task, told>>
    /\ Begin("write", REG_INT_FLAGS, 0)

Collect ==
    /\ task = "collect" /\ UNCHANGED <<task, told>>
    /\ Begin("read", REG_INT_FLAGS, 0)

\* Outside the loop it tunes, sleeps, wakes and resets the chip.
WriteRegister(r, w) ==
    /\ task = "idle"
    /\ task' = "write" /\ UNCHANGED told
    /\ Begin("write", r, w)

\* A machine reset restarts the firmware anywhere, and the chip with it or not
\* (it sits on no bus that a machine reset would walk).  py32_gpio_reset idles
\* the data line low; the firmware's first step is to drive all three lines high.
BkMachineReset ==
    /\ bkResets < MaxBkResets
    /\ bkResets' = bkResets + 1
    /\ task' = "idle" /\ told' = {}
    /\ xfer' = NoXfer /\ sent' = 0 /\ got' = 0
    /\ step' = "init"
    /\ \/ bk4819_reset
       \/ UNCHANGED <<lineVars, decodeVars, shift_out, regs, rxVars>>
    /\ sda_in' = 0

DriverInit ==
    /\ step = "init"
    /\ step' = "off"
    /\ bk4819_set_cs(FALSE)
    /\ scl' = TRUE /\ sda_out' = 1
    /\ UNCHANGED <<outVars, regs, rxVars, task, xferVars, told, bkResets>>

-----------------------------------------------------------------------------
BkInit ==
    /\ cs = FALSE /\ scl = FALSE /\ sda_out = 0
    /\ bit_count = 0 /\ shift_in = 0 /\ cmd = 0
    /\ have_cmd = FALSE /\ reading = FALSE /\ skip_falling = FALSE
    /\ shift_out = 0 /\ sda_in = 0
    /\ regs = [r \in Registers |-> 0]
    /\ pending_int = {} /\ squelch_open = FALSE /\ tick = 0
    /\ task = "idle" /\ step = "init"
    /\ xfer = NoXfer /\ sent = 0 /\ got = 0
    /\ told = {}
    /\ bkResets = 0

Clock == Drive \/ Raise \/ Lower \/ End \/ DriverInit
Loop == Poll \/ Acknowledge \/ Collect

BkNext ==
    \/ Clock
    \/ Loop
    \/ \E w \in Writes : WriteRegister(w[1], w[2])
    \/ BkMachineReset

\* The firmware runs, and its main loop polls again and again.
BkFairness == WF_bkVars(Clock) /\ WF_bkVars(Loop) /\ SF_bkVars(Poll)

BkSpec == BkInit /\ [][BkNext]_bkVars /\ BkFairness

-----------------------------------------------------------------------------
\* The decoder, the register file and the driver keep their types; the shift
\* register of bk4819_set_scl holds no more bits than were counted.
BkTypeOK ==
    /\ cs \in BOOLEAN /\ scl \in BOOLEAN /\ sda_out \in {0, 1} /\ sda_in \in {0, 1}
    /\ bit_count \in 0..(IF have_cmd THEN DataBits - 1 ELSE CmdBits - 1)
    /\ shift_in \in 0..(Place(bit_count) - 1)
    /\ cmd \in Registers
    /\ have_cmd \in BOOLEAN /\ reading \in BOOLEAN /\ skip_falling \in BOOLEAN
    /\ shift_out \in Words
    /\ regs \in [Registers -> Words]
    /\ pending_int \subseteq {"lost", "found"}
    /\ squelch_open \in BOOLEAN
    /\ tick \in 0..(Period - 1)
    /\ task \in {"idle", "poll", "ack", "collect", "again", "write"}
    /\ step \in {"init", "off", "drive", "raise", "lower", "end"}
    /\ sent \in 0..(CmdBits + DataBits) /\ got \in Words
    /\ told \subseteq {"lost", "found"}
    /\ bkResets \in 0..MaxBkResets

(***************************************************************************)
(* A transfer is exact: the word the firmware has assembled at the end of  *)
(* a read is the register's, and the word it wrote is in the register, not *)
(* one bit off, after aborted transfers and resets too.                    *)
(***************************************************************************)
TransferExact ==
    step = "end" =>
        /\ xfer.kind = "read" => got = regs[xfer.reg]
        /\ xfer.kind = "write" /\ xfer.reg # REG_INT_FLAGS => regs[xfer.reg] = xfer.word

(***************************************************************************)
(* The request bit stands only while a flag waits: the firmware never goes *)
(* round its collection loop for nothing.                                  *)
(***************************************************************************)
RequestHasNews == Bit(regs[REG_INTERRUPT], 0) = 1 => pending_int # {}

(***************************************************************************)
(* The collection loop, which has no timeout, always ends.                 *)
(***************************************************************************)
LoopDrains == (task # "idle") ~> (task = "idle")

(***************************************************************************)
(* While the receiver listens to a signal the firmware hears of an open    *)
(* squelch again and again.                                                *)
(***************************************************************************)
NewsHeard == <>[](Listening /\ Audible) => []<>("lost" \in told)

=============================================================================
