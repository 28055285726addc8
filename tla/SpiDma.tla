-------------------------------- MODULE SpiDma --------------------------------
(***************************************************************************)
(* SPI2 and the two DMA channels through which the firmware's flash driver *)
(* reads a sector, patches one byte and programs the sector back, in       *)
(* qemu/py32f071.c.  Enabling a channel only arms it: the transfer runs,   *)
(* both directions together and in no guest time, when the SPI has both    *)
(* SPE and TXDMAEN, and its end is an interrupt.                           *)
(*                                                                         *)
(* A byte is the set of its one bits.  The guest's memory is the sector    *)
(* cache, cells 0 to Sector - 1, and one cell for dummy bytes.  The NOR is *)
(* reduced to what a transfer needs (FlashChip models it), and a command   *)
(* with its address to one byte.                                           *)
(***************************************************************************)
EXTENDS Integers

CONSTANTS
    Sector, Page,       \* bytes of a sector and of a page
    Bits,               \* the bits of a byte
    MaxResets           \* bound on the machine resets

ASSUME SpiAssumption ==
    /\ Sector \in Nat \ {0} /\ Page \in Nat \ {0} /\ Sector % Page = 0
    /\ MaxResets \in Nat

Cells == 0..(Sector - 1)
BlackHole == Sector
Byte == SUBSET Bits
Erased == Bits
Dirs == {"rx", "tx"}

VARIABLES
    spe, rxdmaen, txdmaen, rxne,    \* CR1, CR2 and SR of the SPI
    ch,                             \* the two channels
    isr, irq,                       \* TCIF flags, and the interrupt line
    mem,                            \* the guest's memory
    nor, cmd, addr,                 \* the chip and the command it serves
    op, page, pc, todo, flag,       \* the firmware's driver
    before, patch,                  \* the sector when it began (history)
    resets

spiVars  == <<spe, rxdmaen, txdmaen>>
dmaVars  == <<ch, isr, irq>>
chipVars == <<nor, cmd, addr>>
histVars == <<before, patch, resets>>
vars == <<spiVars, rxne, dmaVars, mem, chipVars, op, page, pc, todo, flag, histVars>>

Off == [en |-> FALSE, tcie |-> FALSE, minc |-> FALSE, cmar |-> BlackHole, cndtr |-> 0]

-----------------------------------------------------------------------------
(* The DMA controller *)

\* Raised while a channel that asks for it has completed.
py32_dma_update_irq == irq' = \E d \in isr' : ch'[d].tcie

Armed(d) == ch[d].en /\ ch[d].cndtr # 0

\* The cell a channel touches at byte i.
CellAt(d, i) == ch[d].cmar + (IF ch[d].minc THEN i ELSE 0)

\* Mutant: only the sending channel reports its end.
CompletedTxOnly == {d \in {"tx"} : Armed(d)}

Completed == {d \in Dirs : Armed(d)}

CountLeft(d, n) == ch[d].cndtr - n

\* n bytes, each sent and received at once; unsent bytes are 0xff, and so is
\* what the chip answers unless it is reading.
Clock(n) ==
    LET Out(i) == IF Armed("tx") THEN mem[CellAt("tx", i)] ELSE Erased
        In(i)  == IF cmd = "read" THEN nor[(addr + i) % Sector] ELSE Erased
        Step(a) == (a - addr) % Sector
    IN /\ mem' = [c \in DOMAIN mem |->
                    IF Armed("rx") /\ \E i \in 0..(n - 1) : CellAt("rx", i) = c
                    THEN In(IF ch["rx"].minc THEN c - ch["rx"].cmar ELSE n - 1)
                    ELSE mem[c]]
       /\ nor' = [a \in Cells |->
                    IF cmd = "program" /\ Step(a) < n THEN nor[a] \cap Out(Step(a)) ELSE nor[a]]
       /\ addr' = (addr + n) % Sector
       /\ UNCHANGED cmd

py32_dma_run_for_spi ==
    IF ~\E d \in Dirs : Armed(d)
    THEN UNCHANGED <<dmaVars, mem, chipVars>>
    ELSE LET n == IF Armed("tx") THEN ch["tx"].cndtr ELSE ch["rx"].cndtr
         IN /\ Clock(n)
            /\ ch' = [d \in Dirs |-> IF Armed(d) THEN [ch[d] EXCEPT !.cndtr = CountLeft(d, n)]
                                     ELSE ch[d]]
            /\ isr' = isr \cup Completed
            /\ py32_dma_update_irq

\* py32_dma_write: IFCR, and a channel's registers, which only arm it.
py32_dma_write_ifcr(flags) ==
    /\ isr' = isr \ flags
    /\ UNCHANGED ch
    /\ py32_dma_update_irq

py32_dma_write_ch(d, c) == ch' = [ch EXCEPT ![d] = c] /\ UNCHANGED <<isr, irq>>

-----------------------------------------------------------------------------
(* The SPI controller *)

Kick == IF spe' /\ txdmaen' THEN py32_dma_run_for_spi ELSE UNCHANGED <<dmaVars, mem, chipVars>>

\* Mutant: either direction's request starts the transfer.
WriteCr1Either(on) ==
    /\ spe' = on /\ UNCHANGED <<rxdmaen, txdmaen>>
    /\ IF spe' /\ (rxdmaen \/ txdmaen) THEN py32_dma_run_for_spi
       ELSE UNCHANGED <<dmaVars, mem, chipVars>>

py32_spi_write_cr1(on) ==
    /\ spe' = on /\ UNCHANGED <<rxdmaen, txdmaen>>
    /\ Kick

py32_spi_write_cr2(rxd, txd) ==
    /\ rxdmaen' = rxd /\ txdmaen' = txd /\ UNCHANGED spe
    /\ Kick

\* A byte written to DR is transferred at once: here the command.
py32_spi_write_dr(c, a) ==
    /\ rxne' = TRUE
    /\ cmd' = c /\ addr' = a
    /\ nor' = IF c = "erase" THEN [x \in Cells |-> Erased] ELSE nor

-----------------------------------------------------------------------------
(* The flash driver of the firmware *)

\* PY25Q16_WriteBuffer, for one byte.
WriteBuffer(i, v) ==
    /\ pc = "idle"
    /\ before' = nor /\ patch' = [at |-> i, byte |-> v]
    /\ op' = "read" /\ page' = 0 /\ pc' = "command"
    /\ UNCHANGED <<spiVars, rxne, dmaVars, mem, chipVars, todo, flag, resets>>

SendCommand ==
    /\ pc = "command"
    /\ py32_spi_write_dr(op, page * Page)
    /\ pc' = "reply"
    /\ UNCHANGED <<spiVars, dmaVars, mem, op, page, todo, flag, histVars>>

\* SPI_WriteByte waits for RXNE and reads DR.
ReadReply ==
    /\ pc = "reply" /\ rxne
    /\ rxne' = FALSE
    /\ pc' = IF op = "erase" THEN "over" ELSE "arm"
    /\ todo' = {"rx", "tx", "rxdmaen", "spe"}
    /\ flag' = FALSE
    /\ UNCHANGED <<spiVars, dmaVars, mem, chipVars, op, page, histVars>>

Length == IF op = "read" THEN Sector ELSE Page

\* The cache is one end of the transfer, the dummy cell the other.
ArmChannel(d) ==
    /\ pc = "arm" /\ d \in todo
    /\ todo' = todo \ {d}
    /\ LET cached == (d = "rx") = (op = "read")
       IN py32_dma_write_ch(d, [en |-> TRUE, tcie |-> d = "rx", minc |-> cached,
                                cmar |-> IF cached THEN page * Page ELSE BlackHole,
                                cndtr |-> Length])
    /\ UNCHANGED <<spiVars, rxne, mem, chipVars, op, page, pc, flag, histVars>>

EnableRxDma ==
    /\ pc = "arm" /\ "rxdmaen" \in todo
    /\ todo' = todo \ {"rxdmaen"}
    /\ py32_spi_write_cr2(TRUE, txdmaen)
    /\ UNCHANGED <<rxne, op, page, pc, flag, histVars>>

EnableSpi ==
    /\ pc = "arm" /\ "spe" \in todo
    /\ todo' = todo \ {"spe"}
    /\ py32_spi_write_cr1(TRUE)
    /\ UNCHANGED <<rxne, op, page, pc, flag, histVars>>

\* TXDMAEN last.
EnableTxDma ==
    /\ pc = "arm" /\ todo = {}
    /\ py32_spi_write_cr2(rxdmaen, TRUE)
    /\ pc' = "wait"
    /\ UNCHANGED <<rxne, op, page, todo, flag, histVars>>

\* The handler sets the flag the driver spins on.
Interrupt ==
    /\ irq
    /\ \E flags \in {{"rx"}, Dirs} : py32_dma_write_ifcr(flags)
    /\ flag' = TRUE
    /\ UNCHANGED <<spiVars, rxne, mem, chipVars, op, page, pc, todo, histVars>>

\* The wait is a loop on that flag, with no limit.
Spin == pc = "wait" /\ ~flag /\ UNCHANGED vars

\* Requests are switched off one by one, while SPE is still on.
WaitOver ==
    /\ pc = "wait" /\ flag
    /\ pc' = "rxoff"
    /\ UNCHANGED <<spiVars, rxne, dmaVars, mem, chipVars, op, page, todo, flag, histVars>>

DisableRxDma ==
    /\ pc = "rxoff" /\ pc' = "txoff"
    /\ py32_spi_write_cr2(FALSE, txdmaen)
    /\ UNCHANGED <<rxne, op, page, todo, flag, histVars>>

DisableTxDma ==
    /\ pc = "txoff" /\ pc' = "speoff"
    /\ py32_spi_write_cr2(rxdmaen, FALSE)
    /\ UNCHANGED <<rxne, op, page, todo, flag, histVars>>

DisableSpi ==
    /\ pc = "speoff" /\ pc' = "over"
    /\ py32_spi_write_cr1(FALSE)
    /\ UNCHANGED <<rxne, op, page, todo, flag, histVars>>

\* Chip select goes up; the cache is patched after the read.
NextCommand ==
    /\ pc = "over"
    /\ mem' = IF op = "read" THEN [mem EXCEPT ![patch.at] = patch.byte] ELSE mem
    /\ cmd' = "none"
    /\ LET last == op = "program" /\ (page + 1) * Page = Sector
       IN /\ op' = IF op = "read" THEN "erase" ELSE "program"
          /\ page' = IF op = "program" /\ ~last THEN page + 1 ELSE 0
          /\ pc' = IF last THEN "idle" ELSE "command"
    /\ UNCHANGED <<spiVars, rxne, dmaVars, nor, addr, todo, flag, histVars>>

\* A machine reset, outside the instant in which an interrupt is raised.  The
\* firmware starts again and deselects the chip.
MachineReset ==
    /\ resets < MaxResets /\ ~irq
    /\ resets' = resets + 1
    /\ spe' = FALSE /\ rxdmaen' = FALSE /\ txdmaen' = FALSE /\ rxne' = FALSE
    /\ ch' = [d \in Dirs |-> Off] /\ isr' = {}
    /\ cmd' = "none"
    /\ before' = nor /\ patch' = [at |-> 0, byte |-> nor[0]]
    /\ op' = "program" /\ page' = 0 /\ pc' = "idle" /\ todo' = {} /\ flag' = FALSE
    /\ UNCHANGED <<irq, mem, nor, addr>>

-----------------------------------------------------------------------------
Init ==
    /\ spe = FALSE /\ rxdmaen = FALSE /\ txdmaen = FALSE /\ rxne = FALSE
    /\ ch = [d \in Dirs |-> Off] /\ isr = {} /\ irq = FALSE
    /\ mem = [c \in 0..BlackHole |-> {}]
    /\ nor \in [Cells -> Byte]
    /\ cmd = "none" /\ addr = 0
    /\ op = "program" /\ page = 0 /\ pc = "idle" /\ todo = {} /\ flag = FALSE
    /\ before = nor /\ patch = [at |-> 0, byte |-> nor[0]]
    /\ resets = 0

Drive ==
    \/ SendCommand \/ ReadReply
    \/ \E d \in Dirs : ArmChannel(d)
    \/ EnableRxDma \/ EnableSpi \/ EnableTxDma
    \/ WaitOver \/ DisableRxDma \/ DisableTxDma \/ DisableSpi
    \/ NextCommand

Next ==
    \/ \E i \in Cells, v \in Byte : WriteBuffer(i, v)
    \/ Drive
    \/ Spin
    \/ Interrupt
    \/ MachineReset

\* The firmware runs and takes its interrupts.
Fairness == WF_vars(Drive) /\ WF_vars(Interrupt)

Spec == Init /\ [][Next]_vars /\ Fairness

-----------------------------------------------------------------------------
\* Registers, channels and driver keep their types; no count runs below zero.
TypeOK ==
    /\ {spe, rxdmaen, txdmaen, rxne, irq, flag} \subseteq BOOLEAN
    /\ ch \in [Dirs -> [en: BOOLEAN, tcie: BOOLEAN, minc: BOOLEAN,
                        cmar: 0..BlackHole, cndtr: 0..Sector]]
    /\ isr \subseteq Dirs
    /\ mem \in [0..BlackHole -> Byte] /\ nor \in [Cells -> Byte]
    /\ cmd \in {"none", "read", "erase", "program"} /\ addr \in Cells
    /\ op \in {"read", "erase", "program"} /\ page \in 0..(Sector \div Page)
    /\ pc \in {"idle", "command", "reply", "arm", "wait", "rxoff", "txoff", "speoff", "over"}
    /\ todo \subseteq Dirs \cup {"rxdmaen", "spe"}

(***************************************************************************)
(* A patched sector keeps every other byte: when the buffer is written the *)
(* chip holds what it held before with the one byte changed, whatever      *)
(* order the driver armed the two channels and the SPI in.                 *)
(***************************************************************************)
SectorKept == pc = "idle" => nor = [before EXCEPT ![patch.at] = patch.byte]

(***************************************************************************)
(* The driver's wait for the end of a transfer has no timeout, and ends:   *)
(* every transfer that was asked for runs and raises its interrupt.        *)
(***************************************************************************)
WaitEnds == (pc # "idle") ~> (pc = "idle")

=============================================================================
