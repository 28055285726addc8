------------------------------ MODULE FlashChip ------------------------------
(***************************************************************************)
(* The PY25Q16 SPI NOR of qemu/py32f071.c: the byte-level command decoder, *)
(* the dirty range, the write-back to the host's image file, and the life  *)
(* of the QEMU process around it (realize, QMP quit, kill).                *)
(*                                                                         *)
(* A byte of flash is the set of its bits that are one: 0xff is Bits, 0x00 *)
(* is {}, and the "&=" of a page program is an intersection.  A byte on    *)
(* the bus is abstracted to what the decoder reads in it at that point: an *)
(* opcode, one base-Base digit of the 24-bit address, or a data byte.      *)
(***************************************************************************)
EXTENDS Integers

CONSTANTS
    Size,       \* PY25Q16_SIZE: bytes in the chip
    Page,       \* PY25Q16_PAGE_SIZE: a page program wraps inside it
    Sector,     \* bytes a sector erase sets
    Base,       \* values of one address byte (256 in the code)
    Bits,       \* bits of one byte
    ImageLens   \* lengths the image file may have when QEMU first starts

ASSUME SizeAssumption   == Size \in Nat \ {0}
ASSUME PageAssumption   == Page \in Nat \ {0}
ASSUME SectorAssumption == Sector \in Nat \ {0} /\ Sector <= Size
ASSUME AlignedAssumption == Size % Sector = 0
ASSUME BaseAssumption   == Base \in Nat \ {0}
ASSUME LensAssumption   == ImageLens \subseteq 0..Size

Addr == 0..(Size - 1)
Byte == SUBSET Bits
Erased == Bits
Zero == {}

\* The address register keeps 32 bits; only its value modulo Size is used.
AddrSpace == Base * Base * Base

Opcodes == {"READ", "PP", "WREN", "WRDI", "RDSR", "SE", "JEDEC", "OTHER"}
Addressed == {"READ", "PP", "SE"}     \* commands that take three address bytes

\* phase is only compared with 1, 2 and 3: it saturates here.
PhaseCap == 4

VARIABLES
    up,             \* the QEMU process runs
    data,           \* s->data, the chip's contents
    selected,       \* s->selected
    cmd,            \* s->cmd ("NONE" between commands)
    addr,           \* s->addr
    phase,          \* s->phase, bytes since the command byte
    write_enabled,  \* s->write_enabled
    dirty,          \* s->dirty
    dirty_lo,       \* s->dirty_lo
    dirty_hi,       \* s->dirty_hi
    present,        \* the image file exists
    file,           \* its bytes (those below flen mean something)
    flen            \* its length

busVars   == <<selected, cmd, addr, phase, write_enabled>>
dirtyVars == <<dirty, dirty_lo, dirty_hi>>
fileVars  == <<present, file, flen>>
vars == <<up, data, busVars, dirtyVars, fileVars>>

(***************************************************************************)
(* What py25q16_realize reads back: the file's bytes over an erased array. *)
(***************************************************************************)
Loaded ==
    [a \in Addr |-> IF present /\ a < flen THEN file[a] ELSE Erased]

-----------------------------------------------------------------------------
(* The dirty range.                                                        *)

DirtyLen(a, n) ==
    LET len == IF n > Size THEN Size ELSE n
    IN  IF a + len > Size THEN Size - a ELSE len

\* Mutant: the end of the range follows the last write instead of the furthest.
MarkDirtyLastWrite(at, n) ==
    LET a == IF at >= Size THEN at % Size ELSE at
    IN  /\ dirty_lo' = IF ~dirty \/ a < dirty_lo THEN a ELSE dirty_lo
        /\ dirty_hi' = a + DirtyLen(a, n)
        /\ dirty' = TRUE

py25q16_mark_dirty(at, n) ==
    LET a == IF at >= Size THEN at % Size ELSE at
    IN  /\ dirty_lo' = IF ~dirty \/ a < dirty_lo THEN a ELSE dirty_lo
        /\ dirty_hi' = IF ~dirty \/ a + DirtyLen(a, n) > dirty_hi
                       THEN a + DirtyLen(a, n)
                       ELSE dirty_hi
        /\ dirty' = TRUE

-----------------------------------------------------------------------------
(* The write-back.  WriteFile(lo, hi) is fseek and fwrite on a file opened *)
(* "r+b": writing past the end leaves a hole, which reads as zero.         *)

\* Mutant: the file is opened "wb", so it ends where the write ends.
WriteFileTruncating(lo, hi) ==
    /\ file' = [a \in Addr |-> IF lo <= a /\ a < hi THEN data[a] ELSE Zero]
    /\ flen' = hi
    /\ UNCHANGED present

WriteFile(lo, hi) ==
    /\ file' = [a \in Addr |->
                  IF lo <= a /\ a < hi THEN data[a]
                  ELSE IF a >= flen THEN Zero
                  ELSE file[a]]
    /\ flen' = IF hi > flen THEN hi ELSE flen
    /\ UNCHANGED present

FlushInPlace(lo, hi) ==
    /\ present
    /\ WriteFile(lo, hi)
    /\ dirty' = FALSE
    /\ dirty_lo' = 0
    /\ dirty_hi' = 0

\* Mutant: the count fwrite returns is not looked at.
FlushShortUnnoticed(lo, hi) ==
    /\ present
    /\ \E k \in lo..hi :
          IF k = lo THEN UNCHANGED fileVars ELSE WriteFile(lo, k)
    /\ dirty' = FALSE
    /\ dirty_lo' = 0
    /\ dirty_hi' = 0

\* The disk takes only a prefix of the range: the range stays dirty.
FlushShort(lo, hi) ==
    /\ present
    /\ \E k \in lo..hi :
          IF k = lo THEN UNCHANGED fileVars ELSE WriteFile(lo, k)
    /\ dirty' = dirty
    /\ dirty_lo' = lo
    /\ dirty_hi' = hi

\* "r+b" fails: the whole image goes to a temporary file that replaces it.
FlushReplace(lo, hi) ==
    /\ present' = TRUE
    /\ file' = data
    /\ flen' = Size
    /\ dirty' = FALSE
    /\ dirty_lo' = lo
    /\ dirty_hi' = hi

\* Neither file can be written, or the rename fails (also: no image path).
FlushFails(lo, hi) ==
    /\ UNCHANGED <<fileVars, dirty>>
    /\ dirty_lo' = lo
    /\ dirty_hi' = hi

FlushNothing(lo, hi) ==
    /\ UNCHANGED <<fileVars, dirty>>
    /\ dirty_lo' = lo
    /\ dirty_hi' = hi

py25q16_flush(lo, hi) ==
    \/ ~dirty /\ FlushNothing(lo, hi)
    \/ dirty /\ \/ FlushInPlace(lo, hi)
                \/ FlushShort(lo, hi)
                \/ FlushReplace(lo, hi)
                \/ FlushFails(lo, hi)

-----------------------------------------------------------------------------
(* py25q16_xfer: one byte clocked through the chip.                        *)

Counted == phase' = IF phase < PhaseCap THEN phase + 1 ELSE phase

\* Display traffic on the shared bus while the chip is deselected.
XferDeselected ==
    /\ up /\ ~selected
    /\ UNCHANGED vars

XferCommand(op) ==
    /\ up /\ selected /\ cmd = "NONE"
    /\ cmd' = IF op \in {"WREN", "WRDI"} THEN "NONE" ELSE op
    /\ phase' = 0
    /\ addr' = 0
    /\ write_enabled' = CASE op = "WREN" -> TRUE
                          [] op = "WRDI" -> FALSE
                          [] OTHER -> write_enabled
    /\ UNCHANGED <<up, data, selected, dirtyVars, fileVars>>

ShiftAddr(d) == addr' = addr * Base + d

\* Address bytes of READ and PP, and the first two of SE.
XferAddress(d) ==
    /\ up /\ selected /\ cmd \in Addressed /\ phase < 3
    /\ cmd = "SE" => phase < 2
    /\ ShiftAddr(d)
    /\ Counted
    /\ UNCHANGED <<up, data, selected, cmd, write_enabled, dirtyVars, fileVars>>

\* The third address byte of SE erases the sector if writes are enabled.
SectorStart(a) == ((a \div Sector) * Sector) % Size

EraseSector(at) ==
    /\ data' = [a \in Addr |-> IF at <= a /\ a < at + Sector THEN Erased ELSE data[a]]
    /\ py25q16_mark_dirty(at, Sector)

XferErase(d) ==
    /\ up /\ selected /\ cmd = "SE" /\ phase = 2
    /\ ShiftAddr(d)
    /\ Counted
    /\ IF write_enabled
       THEN EraseSector(SectorStart(addr * Base + d))
       ELSE UNCHANGED <<data, dirtyVars>>
    /\ UNCHANGED <<up, selected, cmd, write_enabled, fileVars>>

\* Bytes after the erase's address are ignored.
XferAfterErase ==
    /\ up /\ selected /\ cmd = "SE" /\ phase >= 3
    /\ Counted
    /\ UNCHANGED <<up, data, selected, cmd, addr, write_enabled, dirtyVars, fileVars>>

XferRead ==
    /\ up /\ selected /\ cmd = "READ" /\ phase >= 3
    /\ addr' = (addr + 1) % AddrSpace
    /\ Counted
    /\ UNCHANGED <<up, data, selected, cmd, write_enabled, dirtyVars, fileVars>>

\* Mutant: "=" for "&=", as in a RAM.
ProgramByteOverwrites(at, v) ==
    /\ data' = [data EXCEPT ![at] = v]
    /\ py25q16_mark_dirty(at, 1)

\* NOR can only clear bits without an erase.
ProgramByte(at, v) ==
    /\ data' = [data EXCEPT ![at] = @ \cap v]
    /\ py25q16_mark_dirty(at, 1)

\* The low address bits wrap: a burst stays inside its page.
NextInPage(a) == ((a \div Page) * Page) + ((a + 1) % Page)

XferProgram(v) ==
    /\ up /\ selected /\ cmd = "PP" /\ phase >= 3
    /\ IF write_enabled
       THEN ProgramByte(addr % Size, v)
       ELSE UNCHANGED <<data, dirtyVars>>
    /\ addr' = NextInPage(addr)
    /\ Counted
    /\ UNCHANGED <<up, selected, cmd, write_enabled, fileVars>>

\* RDSR, JEDEC and unknown commands only count bytes.
XferOther ==
    /\ up /\ selected /\ cmd \in {"RDSR", "JEDEC", "OTHER"}
    /\ Counted
    /\ UNCHANGED <<up, data, selected, cmd, addr, write_enabled, dirtyVars, fileVars>>

py25q16_xfer ==
    \/ XferDeselected
    \/ \E op \in Opcodes \cup {"NONE"} : XferCommand(op)
    \/ \E d \in 0..(Base - 1) : XferAddress(d)
    \/ \E d \in 0..(Base - 1) : XferErase(d)
    \/ XferAfterErase
    \/ XferRead
    \/ \E v \in Byte : XferProgram(v)
    \/ XferOther

-----------------------------------------------------------------------------
(* py25q16_set_cs: both edges end the command, the rising one writes back. *)

Select ==
    /\ up /\ ~selected
    /\ selected' = TRUE
    /\ cmd' = "NONE"
    /\ phase' = 0
    /\ UNCHANGED <<up, data, addr, write_enabled, dirtyVars, fileVars>>

Deselect ==
    /\ up /\ selected
    /\ selected' = FALSE
    /\ cmd' = "NONE"
    /\ phase' = 0
    /\ py25q16_flush(dirty_lo, dirty_hi)
    /\ UNCHANGED <<up, data, addr, write_enabled>>

-----------------------------------------------------------------------------
(* The process: realize, QMP quit (py25q16_exit_notify), and a kill.       *)

py25q16_realize ==
    /\ ~up
    /\ up' = TRUE
    /\ data' = Loaded
    /\ selected' = FALSE
    /\ cmd' = "NONE"
    /\ addr' = 0
    /\ phase' = 0
    /\ write_enabled' = FALSE
    /\ dirty' = FALSE
    /\ dirty_lo' = 0
    /\ dirty_hi' = 0
    /\ UNCHANGED fileVars

\* Mutant: the notifier's range is one byte too long.
ExitNotifyPastEnd ==
    /\ up
    /\ up' = FALSE
    /\ py25q16_flush(IF dirty THEN 0 ELSE dirty_lo, IF dirty THEN Size + 1 ELSE dirty_hi)
    /\ UNCHANGED <<data, busVars>>

py25q16_exit_notify ==
    /\ up
    /\ up' = FALSE
    /\ py25q16_flush(IF dirty THEN 0 ELSE dirty_lo, IF dirty THEN Size ELSE dirty_hi)
    /\ UNCHANGED <<data, busVars>>

\* SIGKILL, or the host going down: the exit notifier does not run.
Kill ==
    /\ up
    /\ up' = FALSE
    /\ UNCHANGED <<data, busVars, dirtyVars, fileVars>>

\* The first realize: the image file is absent, or holds what an earlier run
\* or tools/make_flash.py left in it.
Init ==
    /\ \/ present = FALSE /\ flen = 0
       \/ present = TRUE /\ flen \in ImageLens
    /\ file \in [Addr -> {Erased, Zero}]
    /\ up = TRUE
    /\ data = Loaded
    /\ selected = FALSE
    /\ cmd = "NONE"
    /\ addr = 0
    /\ phase = 0
    /\ write_enabled = FALSE
    /\ dirty = FALSE
    /\ dirty_lo = 0
    /\ dirty_hi = 0

Next ==
    \/ py25q16_xfer
    \/ Select
    \/ Deselect
    \/ py25q16_realize
    \/ py25q16_exit_notify
    \/ Kill

Spec == Init /\ [][Next]_vars

-----------------------------------------------------------------------------
\* The decoder, the dirty range and the image file keep their types; the range
\* and the file never reach past the end of the chip.
TypeOK ==
    /\ up \in BOOLEAN
    /\ data \in [Addr -> Byte]
    /\ selected \in BOOLEAN
    /\ cmd \in Opcodes \cup {"NONE"}
    /\ addr \in Nat
    /\ phase \in 0..PhaseCap
    /\ write_enabled \in BOOLEAN
    /\ dirty \in BOOLEAN
    /\ dirty_lo \in 0..Size
    /\ dirty_hi \in 0..Size
    /\ present \in BOOLEAN
    /\ file \in [Addr -> Byte]
    /\ flen \in 0..Size

\* The image holds all of the chip: an in-place write never has to extend it,
\* so it never leaves a hole.
WholeFile == present => flen = Size

(***************************************************************************)
(* Every byte a power cycle would bring back differently lies in the dirty *)
(* range, whatever mix of programs, erases, short writes, failed renames   *)
(* and kills came before.  py25q16_flush writes only that range.           *)
(***************************************************************************)
DirtyCovers ==
    \A a \in Addr :
        data[a] # Loaded[a] => dirty /\ dirty_lo <= a /\ a < dirty_hi

(***************************************************************************)
(* A chip that is not dirty would come back from a power cycle unchanged:  *)
(* nothing that a successful write-back acknowledged can still be lost.    *)
(***************************************************************************)
CleanIsPersisted == ~dirty => Loaded = data

\* The inductive invariant of FlashChipProofs.
Inv == TypeOK /\ WholeFile /\ DirtyCovers

(***************************************************************************)
(* The image is never truncated, not even by a write-back that fails or is *)
(* interrupted half way ("an in-place range write cannot truncate").       *)
(***************************************************************************)
NeverTruncated == [][present => present' /\ flen' >= flen]_vars

\* What is on disk and in the chip, as the abstract part sees it.
Nor == INSTANCE PersistentNor WITH nor <- data, disk <- Loaded, running <- up

(***************************************************************************)
(* The chip with its image file implements a persistent NOR: contents      *)
(* change only by clearing bits or erasing a whole sector while running,   *)
(* the disk only ever takes bytes the chip holds, and a power-up brings    *)
(* back exactly the disk.                                                  *)
(***************************************************************************)
RefinesNor == Nor!Spec

=============================================================================
