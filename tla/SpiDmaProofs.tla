----------------------------- MODULE SpiDmaProofs -----------------------------
(***************************************************************************)
(* Proofs about SpiDma, for sectors and pages of every size, bytes of any  *)
(* number of bits and any number of resets: a patched sector keeps every   *)
(* other byte, in whatever order the driver arms the two channels.         *)
(***************************************************************************)
EXTENDS SpiDma, TLAPS

-----------------------------------------------------------------------------
(* The inductive invariant *)

\* Where the transfer of a command has run.
Done == {"wait", "rxoff", "txoff", "speoff", "over"}

\* The registers the driver gives a channel.
Cached(d) == (d = "rx") = (op = "read")
Setting(d) ==
    [en |-> TRUE, tcie |-> d = "rx", minc |-> Cached(d),
     cmar |-> IF Cached(d) THEN page * Page ELSE BlackHole, cndtr |-> Length]

\* A page that is sent lies in the sector.
PageFits == (page + 1) * Page <= Sector /\ (op # "program" => page = 0)

\* Only the last write of the driver starts a transfer, and finds all armed.
ArmedInTime ==
    /\ pc \notin {"wait", "rxoff", "txoff"} => ~txdmaen
    /\ pc = "arm" => \A d \in Dirs \ todo : ch[d] = Setting(d)
    /\ pc = "arm" /\ "spe" \notin todo => spe

\* A transfer that has run leaves no count, so the register writes that switch
\* the requests off start nothing.
NothingLeft == pc \in {"wait", "rxoff"} => \A d \in Dirs : ch[d].cndtr = 0

\* The chip serves the command the driver sent.
CommandServed ==
    /\ pc \in {"reply", "arm"} => cmd = op /\ addr = page * Page
    /\ op = "erase" => pc \in {"command", "reply", "over"}

\* The sector as it should be in the end.
Wanted(a) == IF a = patch.at THEN patch.byte ELSE before[a]

CacheHolds ==
    /\ op = "read" /\ pc \in Done => \A a \in Cells : mem[a] = before[a]
    /\ op # "read" /\ pc # "idle" => \A a \in Cells : mem[a] = Wanted(a)

\* How far the sector is programmed.
Reached == page * Page + (IF pc \in Done THEN Page ELSE 0)

ChipHolds ==
    /\ pc = "idle" => \A a \in Cells : nor[a] = Wanted(a)
    /\ op = "read" /\ pc # "idle" => nor = before
    /\ op = "erase" /\ pc # "command" => \A a \in Cells : nor[a] = Erased
    /\ op = "program" /\ pc # "idle" =>
          \A a \in Cells : nor[a] = IF a < Reached THEN Wanted(a) ELSE Erased

HistoryTypes ==
    /\ before \in [Cells -> Byte]
    /\ patch \in [at: Cells, byte: Byte]

SpiInv ==
    /\ TypeOK /\ HistoryTypes
    /\ PageFits /\ ArmedInTime /\ NothingLeft /\ CommandServed
    /\ CacheHolds /\ ChipHolds

-----------------------------------------------------------------------------
(* Pages and sectors *)

\* Multiples of the page size are ordered as their factors are.
LEMMA TimesPage ==
    ASSUME NEW i \in Nat, NEW j \in Nat, i * Page < j * Page
    PROVE  (i + 1) * Page <= j * Page
  <1>1. Page \in Nat \ {0}
    BY SpiAssumption
  <1>2. ASSUME j <= i PROVE FALSE
    <2>1. PICK k \in Nat : i = j + k
      BY <1>2
    <2>2. i * Page = j * Page + k * Page
      BY <1>1, <2>1
    <2>3. k * Page >= 0
      BY <1>1
    <2> QED
      BY <1>1, <2>2, <2>3
  <1>3. PICK k \in Nat : j = i + 1 + k
    <2>1. i + 1 <= j
      BY <1>2
    <2>2. j - (i + 1) \in Nat /\ j = i + 1 + (j - (i + 1))
      BY <2>1
    <2> QED
      BY <2>2
  <1>4. j * Page = (i + 1) * Page + k * Page
    BY <1>1, <1>3
  <1>5. k * Page >= 0
    BY <1>1
  <1> QED
    BY <1>1, <1>4, <1>5

\* A sector is a whole number of pages, so a page that fits and is not the last
\* has another behind it.
LEMMA WholePages ==
    ASSUME NEW p \in Nat
    PROVE  /\ Page <= Sector
           /\ p * Page \in Nat /\ (p + 1) * Page = p * Page + Page
           /\ (p + 1) * Page < Sector => (p + 2) * Page <= Sector
           /\ (p + 1) * Page <= Sector => p \in 0..(Sector \div Page)
  <1> DEFINE q == Sector \div Page
  <1>1. Page \in Nat \ {0} /\ Sector \in Nat \ {0} /\ Sector % Page = 0
    BY SpiAssumption
  <1>2. q \in Nat /\ Sector = q * Page + (Sector % Page)
    BY <1>1
  <1>3. q \in Nat /\ Sector = q * Page
    BY <1>1, <1>2
  <1> HIDE DEF q
  <1>4. p * Page \in Nat /\ (p + 1) * Page = p * Page + Page
    BY <1>1
  <1>5. (p + 1) * Page < Sector => (p + 2) * Page <= Sector
    <2>1. p + 1 \in Nat /\ (p + 1) + 1 = p + 2
      OBVIOUS
    <2> QED
      BY <1>3, <2>1, TimesPage
  <1>6. Page <= Sector
    <2>1. 0 * Page = 0 /\ (0 + 1) * Page = Page
      BY <1>1
    <2>2. 0 * Page < q * Page
      BY <1>1, <1>3, <2>1
    <2>3. (0 + 1) * Page <= q * Page
      BY <1>3, <2>2, TimesPage
    <2> QED
      BY <1>3, <2>1, <2>3
  <1>7. (p + 1) * Page <= Sector => p \in 0..q
    <2> SUFFICES ASSUME (p + 1) * Page <= Sector, q < p
                 PROVE  FALSE
      BY <1>3
    <2>1. PICK k \in Nat : p = q + k
      <3>1. p - q \in Nat /\ p = q + (p - q)
        BY <1>3
      <3> QED
        BY <3>1
    <2>2. p * Page = q * Page + k * Page
      BY <1>1, <1>3, <2>1
    <2>3. k * Page >= 0
      BY <1>1
    <2> QED
      BY <1>1, <1>3, <1>4, <2>2, <2>3
  <1> QED
    BY <1>4, <1>5, <1>6, <1>7 DEF q

\* Seen from the start of a page, modulo the sector, the cells of the page and
\* no others are less than a page away.
LEMMA InPage ==
    ASSUME NEW a \in Cells, NEW A \in Cells, A + Page <= Sector
    PROVE  /\ (a - A) % Sector < Page <=> A <= a /\ a < A + Page
           /\ A <= a => (a - A) % Sector = a - A
  <1>1. /\ Sector \in Nat \ {0} /\ Page \in Nat \ {0}
        /\ a \in 0..(Sector - 1) /\ A \in 0..(Sector - 1)
    BY SpiAssumption DEF Cells
  <1>2. CASE A <= a
    <2>1. (a - A) % Sector = a - A
      BY <1>1, <1>2
    <2> QED
      BY <1>1, <1>2, <2>1
  <1>3. CASE a < A
    <2>1. (a - A) % Sector = a - A + Sector
      BY <1>1, <1>3
    <2> QED
      BY <1>1, <1>3, <2>1
  <1> QED
    BY <1>1, <1>2, <1>3

\* Cells and addresses are numbers below the size of the sector.
LEMMA CellsAre ==
    /\ Sector \in Nat \ {0} /\ Page \in Nat \ {0}
    /\ Cells = 0..(Sector - 1) /\ BlackHole = Sector
    /\ Cells \subseteq 0..BlackHole /\ BlackHole \in 0..BlackHole /\ BlackHole \notin Cells
  <1>1. Sector \in Nat \ {0} /\ Page \in Nat \ {0}
    BY SpiAssumption
  <1> QED
    BY <1>1 DEF Cells, BlackHole

\* Addresses wrap at the end of the sector, and those within it stay.
LEMMA CellMod ==
    /\ \A x \in Int : x % Sector \in Cells
    /\ \A x \in Cells : x % Sector = x
  <1>1. Sector \in Nat \ {0}
    BY SpiAssumption
  <1>2. \A x \in Int : x % Sector \in Cells
    BY <1>1 DEF Cells
  <1>3. \A x \in Cells : x % Sector = x
    BY <1>1 DEF Cells
  <1> QED
    BY <1>2, <1>3

-----------------------------------------------------------------------------
(* The transfer *)

ChannelTypes ==
    [en: BOOLEAN, tcie: BOOLEAN, minc: BOOLEAN, cmar: 0..BlackHole, cndtr: 0..Sector]

\* A sector that is read lands in the cache cell by cell.
LEMMA ReadTransfer ==
    ASSUME SpiInv, op = "read", pc = "arm", todo = {}, Clock(Sector)
    PROVE  /\ nor' = nor
           /\ mem' \in [0..BlackHole -> Byte] /\ \A a \in Cells : mem'[a] = nor[a]
           /\ addr' \in Cells /\ cmd' = cmd
  <1>1. /\ mem \in [0..BlackHole -> Byte] /\ nor \in [Cells -> Byte] /\ addr \in Cells
    BY DEF SpiInv, TypeOK
  <1>2. page = 0 /\ cmd = "read" /\ addr = 0 * Page
    BY DEF SpiInv, PageFits, CommandServed
  <1>3. addr = 0 /\ 0 * Page = 0
    BY <1>2, CellsAre
  <1>4. ch["rx"] = Setting("rx")
    BY DEF SpiInv, ArmedInTime, Dirs
  <1>5. /\ ch["rx"].en = TRUE /\ ch["rx"].minc = TRUE
        /\ ch["rx"].cmar = 0 /\ ch["rx"].cndtr = Sector
    <2>1. Cached("rx") = TRUE
      BY DEF Cached
    <2> QED
      BY <1>2, <1>3, <1>4, <2>1 DEF Setting, Length
  <1>6. Armed("rx")
    BY <1>5, CellsAre DEF Armed
  <1>7. \A i : CellAt("rx", i) = 0 + i
    BY <1>5 DEF CellAt
  <1>8. mem' = [c \in 0..BlackHole |-> IF c \in Cells THEN nor[c] ELSE mem[c]]
    <2> DEFINE In(i) == IF cmd = "read" THEN nor[(addr + i) % Sector] ELSE Erased
    <2>1. mem' = [c \in DOMAIN mem |->
                    IF Armed("rx") /\ \E i \in 0..(Sector - 1) : CellAt("rx", i) = c
                    THEN In(IF ch["rx"].minc THEN c - ch["rx"].cmar ELSE Sector - 1)
                    ELSE mem[c]]
      BY DEF Clock
    <2>2. DOMAIN mem = 0..BlackHole
      BY <1>1
    <2>3. ASSUME NEW c \in 0..BlackHole
          PROVE  (\E i \in 0..(Sector - 1) : CellAt("rx", i) = c) <=> c \in Cells
      BY <1>7, CellsAre
    <2>4. ASSUME NEW c \in Cells
          PROVE  In(IF ch["rx"].minc THEN c - ch["rx"].cmar ELSE Sector - 1) = nor[c]
      <3>1. c - 0 = c /\ 0 + c = c
        BY CellsAre
      <3>2. c % Sector = c
        BY CellMod
      <3> QED
        BY <1>2, <1>3, <1>5, <3>1, <3>2
    <2> HIDE DEF In
    <2> QED
      BY <1>6, <2>1, <2>2, <2>3, <2>4
  <1>9. nor' = nor
    <2>1. nor' = [a \in Cells |-> nor[a]]
      BY <1>2 DEF Clock
    <2> QED
      BY <1>1, <2>1
  <1>10. addr' \in Cells /\ cmd' = cmd
    <2>1. addr' = (addr + Sector) % Sector /\ cmd' = cmd
      BY DEF Clock
    <2>2. addr + Sector \in Int
      BY <1>3, CellsAre
    <2> QED
      BY <2>1, <2>2, CellMod
  <1>11. Cells \subseteq 0..BlackHole
    BY CellsAre
  <1>12. mem' \in [0..BlackHole -> Byte] /\ \A a \in Cells : mem'[a] = nor[a]
    BY <1>1, <1>8, <1>11
  <1> QED
    BY <1>9, <1>10, <1>12

\* A page that is sent clears, in the cells of the page, the bits the cache has
\* clear there, and what comes back lands outside the cache.
LEMMA ProgramTransfer ==
    ASSUME SpiInv, op = "program", pc = "arm", todo = {}, Clock(Page)
    PROVE  /\ nor' = [a \in Cells |->
                        IF page * Page <= a /\ a < page * Page + Page THEN nor[a] \cap mem[a]
                        ELSE nor[a]]
           /\ mem' \in [0..BlackHole -> Byte] /\ \A a \in Cells : mem'[a] = mem[a]
           /\ addr' \in Cells /\ cmd' = cmd
  <1> DEFINE P == page * Page
  <1>1. /\ mem \in [0..BlackHole -> Byte] /\ nor \in [Cells -> Byte] /\ addr \in Cells
        /\ page \in Nat
    <2>1. page \in 0..(Sector \div Page)
      BY DEF SpiInv, TypeOK
    <2> QED
      BY <2>1 DEF SpiInv, TypeOK
  <1>2. cmd = "program" /\ addr = P
    BY DEF SpiInv, CommandServed
  <1>3. P \in Nat /\ P + Page <= Sector
    BY <1>1, WholePages DEF SpiInv, PageFits
  <1> HIDE DEF P
  <1>4. ch["rx"] = Setting("rx") /\ ch["tx"] = Setting("tx")
    BY DEF SpiInv, ArmedInTime, Dirs
  <1>5. /\ ch["rx"].minc = FALSE /\ ch["rx"].cmar = BlackHole
    <2>1. Cached("rx") = FALSE
      BY DEF Cached
    <2> QED
      BY <1>4, <2>1 DEF Setting
  <1>6. ch["tx"].en = TRUE /\ ch["tx"].minc = TRUE /\ ch["tx"].cmar = P /\ ch["tx"].cndtr = Page
    <2>1. Cached("tx") = TRUE
      BY DEF Cached
    <2> QED
      BY <1>4, <2>1 DEF Setting, Length, P
  <1>7. Armed("tx")
    BY <1>6, CellsAre DEF Armed
  <1>8. \A i : CellAt("tx", i) = P + i
    BY <1>6 DEF CellAt
  <1>9. \A i \in 0..(Page - 1) : CellAt("rx", i) = BlackHole
    BY <1>5, CellsAre DEF CellAt, BlackHole
  <1>10. nor' = [a \in Cells |-> IF P <= a /\ a < P + Page THEN nor[a] \cap mem[a] ELSE nor[a]]
    <2> DEFINE Out(i) == IF Armed("tx") THEN mem[CellAt("tx", i)] ELSE Erased
               Step(a) == (a - addr) % Sector
    <2>1. nor' = [a \in Cells |->
                    IF cmd = "program" /\ Step(a) < Page THEN nor[a] \cap Out(Step(a)) ELSE nor[a]]
      BY DEF Clock
    <2>2. ASSUME NEW a \in Cells
          PROVE  /\ Step(a) < Page <=> P <= a /\ a < P + Page
                 /\ P <= a => Step(a) = a - P
      BY <1>1, <1>2, <1>3, InPage
    <2> HIDE DEF Step
    <2>3. ASSUME NEW a \in Cells, P <= a
          PROVE  Out(Step(a)) = mem[a]
      <3>1. P + (a - P) = a
        BY <1>3, CellsAre
      <3> QED
        BY <1>7, <1>8, <2>2, <2>3, <3>1
    <2> HIDE DEF Out
    <2> QED
      BY <1>2, <2>1, <2>2, <2>3
  <1>11. mem' \in [0..BlackHole -> Byte] /\ \A a \in Cells : mem'[a] = mem[a]
    <2> DEFINE In(i) == IF cmd = "read" THEN nor[(addr + i) % Sector] ELSE Erased
    <2>1. mem' = [c \in DOMAIN mem |->
                    IF Armed("rx") /\ \E i \in 0..(Page - 1) : CellAt("rx", i) = c
                    THEN In(IF ch["rx"].minc THEN c - ch["rx"].cmar ELSE Page - 1)
                    ELSE mem[c]]
      BY DEF Clock
    <2>2. \A i : In(i) = Bits
      BY <1>2 DEF Erased
    <2> HIDE DEF In
    <2>3. Cells \subseteq 0..BlackHole /\ BlackHole \notin Cells
      BY CellsAre
    <2> QED
      BY <1>1, <1>9, <2>1, <2>2, <2>3 DEF Byte
  <1>12. addr' \in Cells /\ cmd' = cmd
    <2>1. addr' = (addr + Page) % Sector /\ cmd' = cmd
      BY DEF Clock
    <2>2. addr + Page \in Int
      BY <1>2, <1>3, CellsAre
    <2> QED
      BY <2>1, <2>2, CellMod
  <1> QED
    BY <1>10, <1>11, <1>12 DEF P

\* The write that sets TXDMAEN runs the whole transfer and leaves no count.
LEMMA TransferRuns ==
    ASSUME SpiInv, EnableTxDma
    PROVE  /\ op \in {"read", "program"} /\ Clock(Length)
           /\ ch' \in [Dirs -> ChannelTypes] /\ \A d \in Dirs : ch'[d].cndtr = 0
           /\ isr' \subseteq Dirs /\ irq' \in BOOLEAN
           /\ spe' = spe /\ rxdmaen' = rxdmaen /\ txdmaen' = TRUE
  <1>1. pc = "arm" /\ todo = {} /\ py32_spi_write_cr2(rxdmaen, TRUE)
    BY DEF EnableTxDma
  <1>2. spe' = TRUE /\ txdmaen' = TRUE /\ spe' = spe /\ rxdmaen' = rxdmaen
    <2>1. spe /\ spe \in BOOLEAN
      BY <1>1 DEF SpiInv, ArmedInTime, TypeOK
    <2> QED
      BY <1>1, <2>1 DEF py32_spi_write_cr2
  <1>3. py32_dma_run_for_spi
    BY <1>1, <1>2 DEF py32_spi_write_cr2, Kick
  <1>4. op \in {"read", "program"}
    BY <1>1 DEF SpiInv, TypeOK, CommandServed
  <1>5. Length \in 0..Sector /\ Length # 0
    BY <1>4, CellsAre, WholePages DEF Length
  <1>6. \A d \in Dirs : ch[d] = Setting(d)
    BY <1>1 DEF SpiInv, ArmedInTime
  <1>7. \A d \in Dirs : ch[d].en = TRUE /\ ch[d].cndtr = Length
    <2>1. ch["rx"] = Setting("rx") /\ ch["tx"] = Setting("tx")
      BY <1>6 DEF Dirs
    <2>2. ch["rx"].en = TRUE /\ ch["rx"].cndtr = Length
      BY <2>1 DEF Setting
    <2>3. ch["tx"].en = TRUE /\ ch["tx"].cndtr = Length
      BY <2>1 DEF Setting
    <2> QED
      BY <2>2, <2>3 DEF Dirs
  <1>8. \A d \in Dirs : Armed(d)
    BY <1>5, <1>7 DEF Armed
  <1>9. "tx" \in Dirs /\ "rx" \in Dirs
    BY DEF Dirs
  <1>10. /\ Clock(Length)
         /\ ch' = [d \in Dirs |-> [ch[d] EXCEPT !.cndtr = CountLeft(d, Length)]]
         /\ isr' = isr \cup Completed
         /\ py32_dma_update_irq
    BY <1>3, <1>7, <1>8, <1>9 DEF py32_dma_run_for_spi
  <1>11. \A d \in Dirs : CountLeft(d, Length) = 0
    BY <1>5, <1>7 DEF CountLeft
  <1>12. ch \in [Dirs -> ChannelTypes] /\ 0 \in 0..Sector
    BY CellsAre DEF SpiInv, TypeOK, ChannelTypes
  <1>13. ch' \in [Dirs -> ChannelTypes] /\ \A d \in Dirs : ch'[d].cndtr = 0
    BY <1>10, <1>11, <1>12 DEF ChannelTypes
  <1>14. isr' \subseteq Dirs
    BY <1>10 DEF Completed, SpiInv, TypeOK
  <1>15. irq' \in BOOLEAN
    BY <1>10, Zenon DEF py32_dma_update_irq
  <1> QED
    BY <1>2, <1>4, <1>10, <1>13, <1>14, <1>15

\* No other write to CR1 or CR2 starts anything.
LEMMA NothingStarts ==
    ASSUME SpiInv, EnableRxDma \/ EnableSpi \/ DisableRxDma \/ DisableTxDma \/ DisableSpi
    PROVE  UNCHANGED <<dmaVars, mem, chipVars>>
  <1>1. CASE EnableRxDma
    <2>1. py32_spi_write_cr2(TRUE, txdmaen) /\ pc = "arm"
      BY <1>1 DEF EnableRxDma
    <2>2. ~txdmaen
      BY <2>1 DEF SpiInv, ArmedInTime
    <2> QED
      BY <2>1, <2>2 DEF py32_spi_write_cr2, Kick
  <1>2. CASE EnableSpi
    <2>1. py32_spi_write_cr1(TRUE) /\ pc = "arm"
      BY <1>2 DEF EnableSpi
    <2>2. ~txdmaen
      BY <2>1 DEF SpiInv, ArmedInTime
    <2> QED
      BY <2>1, <2>2 DEF py32_spi_write_cr1, Kick
  <1>3. CASE DisableRxDma
    <2>1. pc = "rxoff" /\ Kick
      BY <1>3 DEF DisableRxDma, py32_spi_write_cr2
    <2>2. \A d \in Dirs : ~Armed(d)
      BY <2>1 DEF SpiInv, NothingLeft, Armed
    <2> QED
      BY <2>1, <2>2 DEF Kick, py32_dma_run_for_spi
  <1>4. CASE DisableTxDma
    BY <1>4 DEF DisableTxDma, py32_spi_write_cr2, Kick
  <1>5. CASE DisableSpi
    BY <1>5 DEF DisableSpi, py32_spi_write_cr1, Kick
  <1> QED
    BY <1>1, <1>2, <1>3, <1>4, <1>5

-----------------------------------------------------------------------------
(* The invariant is inductive *)

\* TypeOK in parts that change together.
LineTypes ==
    /\ {spe, rxdmaen, txdmaen, rxne, irq, flag} \subseteq BOOLEAN
    /\ isr \subseteq Dirs
    /\ todo \subseteq Dirs \cup {"rxdmaen", "spe"}
    /\ pc \in {"idle", "command", "reply", "arm", "wait", "rxoff", "txoff", "speoff", "over"}
    /\ op \in {"read", "erase", "program"}
    /\ cmd \in {"none", "read", "erase", "program"}

StoreTypes ==
    /\ ch \in [Dirs -> ChannelTypes]
    /\ mem \in [0..BlackHole -> Byte] /\ nor \in [Cells -> Byte]
    /\ addr \in Cells /\ page \in 0..(Sector \div Page)

\* The parts of the type invariant that the steps below cite.
LEMMA TypeParts ==
    /\ TypeOK <=> LineTypes /\ StoreTypes
    /\ TypeOK' <=> LineTypes' /\ StoreTypes'
  BY DEF TypeOK, LineTypes, StoreTypes, ChannelTypes

\* The flash driver is idle and both channels are off.
LEMMA SpiInit == Init => SpiInv
  <1> SUFFICES ASSUME Init PROVE SpiInv
    OBVIOUS
  <1>1. /\ Sector \in Nat \ {0} /\ 0 \in Cells /\ BlackHole \in 0..BlackHole /\ 0 \in 0..Sector
    BY CellsAre
  <1>2. 0 \in Nat /\ (0 + 1) * Page = Page /\ Page <= Sector /\ 0 * Page = 0
    BY WholePages, CellsAre
  <1>3. 0 \in 0..(Sector \div Page)
    BY <1>2, WholePages
  <1>4. LineTypes
    BY DEF Init, LineTypes
  <1>5. StoreTypes
    BY <1>1, <1>3 DEF Init, StoreTypes, Off, ChannelTypes, Byte
  <1>6. HistoryTypes /\ \A a \in Cells : nor[a] = Wanted(a)
    BY <1>1 DEF Init, HistoryTypes, Wanted
  <1>7. PageFits /\ ArmedInTime /\ NothingLeft /\ CommandServed
    BY <1>2 DEF Init, PageFits, ArmedInTime, NothingLeft, CommandServed
  <1>8. CacheHolds /\ ChipHolds
    BY <1>6 DEF Init, CacheHolds, ChipHolds, Done
  <1> QED
    BY <1>4, <1>5, <1>6, <1>7, <1>8, TypeParts DEF SpiInv

\* Steps that touch neither the channels, the memory nor the chip.
LEMMA WriteBufferKeepsInv ==
    ASSUME SpiInv, NEW i \in Cells, NEW v \in Byte, WriteBuffer(i, v)
    PROVE  SpiInv'
  <1>1. /\ pc = "idle" /\ pc' = "command" /\ op' = "read" /\ page' = 0
        /\ before' = nor /\ patch' = [at |-> i, byte |-> v]
        /\ UNCHANGED <<spe, rxdmaen, txdmaen, rxne, ch, isr, irq, mem, nor, cmd, addr, todo, flag>>
    BY DEF WriteBuffer, spiVars, dmaVars, chipVars
  <1>2. 0 \in Nat /\ (0 + 1) * Page = Page /\ Page <= Sector /\ 0 \in 0..(Sector \div Page)
    BY WholePages, CellsAre
  <1>3. LineTypes /\ StoreTypes
    BY TypeParts DEF SpiInv
  <1>4. LineTypes'
    BY <1>1, <1>3 DEF LineTypes
  <1>5. StoreTypes'
    BY <1>1, <1>2, <1>3 DEF StoreTypes
  <1>6. HistoryTypes'
    BY <1>1, <1>3 DEF HistoryTypes, StoreTypes
  <1>7. PageFits' /\ ArmedInTime' /\ NothingLeft' /\ CommandServed'
    BY <1>1, <1>2 DEF SpiInv, PageFits, ArmedInTime, NothingLeft, CommandServed
  <1>8. CacheHolds' /\ ChipHolds'
    BY <1>1 DEF CacheHolds, ChipHolds, Done
  <1> QED
    BY <1>4, <1>5, <1>6, <1>7, <1>8, TypeParts DEF SpiInv

\* The command and its address go out; an erase has its effect there.
LEMMA SendKeepsInv ==
    ASSUME SpiInv, SendCommand
    PROVE  SpiInv'
  <1>1. /\ pc = "command" /\ pc' = "reply" /\ rxne' = TRUE
        /\ cmd' = op /\ addr' = page * Page
        /\ nor' = IF op = "erase" THEN [x \in Cells |-> Erased] ELSE nor
        /\ UNCHANGED <<spe, rxdmaen, txdmaen, ch, isr, irq, mem, op, page, todo, flag, before, patch>>
    BY DEF SendCommand, py32_spi_write_dr, spiVars, dmaVars, histVars
  <1>2. LineTypes /\ StoreTypes
    BY TypeParts DEF SpiInv
  <1>3. page * Page \in Cells
    <2>1. page \in Nat
      BY <1>2 DEF StoreTypes
    <2>2. page * Page \in Nat /\ (page + 1) * Page = page * Page + Page
      BY <2>1, WholePages
    <2>3. page * Page + Page <= Sector
      BY <2>2 DEF SpiInv, PageFits
    <2> HIDE DEF SpiInv
    <2> QED
      BY <2>2, <2>3, CellsAre
  <1>4. LineTypes'
    BY <1>1, <1>2 DEF LineTypes
  <1>5. StoreTypes'
    BY <1>1, <1>2, <1>3 DEF StoreTypes, Byte, Erased
  <1>6. HistoryTypes'
    BY <1>1 DEF SpiInv, HistoryTypes
  <1>7. PageFits' /\ ArmedInTime' /\ NothingLeft' /\ CommandServed'
    BY <1>1 DEF SpiInv, PageFits, ArmedInTime, NothingLeft, CommandServed
  <1>8. CacheHolds'
    BY <1>1 DEF SpiInv, CacheHolds, Done, Wanted
  <1>9. ChipHolds'
    <2>1. \A a : Wanted(a)' = Wanted(a)
      BY <1>1 DEF Wanted
    <2>2. Reached' = Reached
      BY <1>1 DEF Reached, Done
    <2> QED
      BY <1>1, <2>1, <2>2 DEF SpiInv, ChipHolds
  <1> QED
    BY <1>4, <1>5, <1>6, <1>7, <1>8, <1>9, TypeParts DEF SpiInv

\* The reply is read, and an erase is over with it.
LEMMA ReplyKeepsInv ==
    ASSUME SpiInv, ReadReply
    PROVE  SpiInv'
  <1>1. /\ pc = "reply" /\ rxne' = FALSE
        /\ pc' = IF op = "erase" THEN "over" ELSE "arm"
        /\ todo' = {"rx", "tx", "rxdmaen", "spe"} /\ flag' = FALSE
        /\ UNCHANGED <<spe, rxdmaen, txdmaen, ch, isr, irq, mem, nor, cmd, addr, op, page, before,
                       patch>>
    BY DEF ReadReply, spiVars, dmaVars, chipVars, histVars
  <1>2. LineTypes /\ StoreTypes
    BY TypeParts DEF SpiInv
  <1>3. LineTypes'
    BY <1>1, <1>2 DEF LineTypes, Dirs
  <1>4. StoreTypes'
    BY <1>1, <1>2 DEF StoreTypes
  <1>5. HistoryTypes' /\ PageFits' /\ ArmedInTime' /\ NothingLeft' /\ CommandServed'
    BY <1>1 DEF SpiInv, HistoryTypes, PageFits, ArmedInTime, NothingLeft, CommandServed, Dirs
  <1>6. CacheHolds'
    BY <1>1 DEF SpiInv, CacheHolds, Done, Wanted
  <1>7. ChipHolds'
    <2>1. \A a : Wanted(a)' = Wanted(a)
      BY <1>1 DEF Wanted
    <2>2. op = "program" => Reached' = Reached
      BY <1>1 DEF Reached, Done
    <2> QED
      BY <1>1, <2>1, <2>2 DEF SpiInv, ChipHolds
  <1> QED
    BY <1>3, <1>4, <1>5, <1>6, <1>7, TypeParts DEF SpiInv

\* The driver arms one of the two channels.
LEMMA ArmKeepsInv ==
    ASSUME SpiInv, NEW d \in Dirs, ArmChannel(d)
    PROVE  SpiInv'
  <1>1. /\ pc = "arm" /\ todo' = todo \ {d} /\ ch' = [ch EXCEPT ![d] = Setting(d)]
        /\ UNCHANGED <<spe, rxdmaen, txdmaen, rxne, isr, irq, mem, nor, cmd, addr, op, page, pc, flag,
                       before, patch>>
    BY DEF ArmChannel, py32_dma_write_ch, Setting, Cached, spiVars, chipVars, histVars
  <1>2. LineTypes /\ StoreTypes
    BY TypeParts DEF SpiInv
  <1>3. op \in {"read", "program"}
    BY <1>1, <1>2 DEF SpiInv, CommandServed, LineTypes
  <1>4. Setting(d) \in ChannelTypes
    <2>1. page * Page \in 0..BlackHole
      <3>1. page \in Nat
        BY <1>2 DEF StoreTypes
      <3>2. page * Page \in Nat /\ (page + 1) * Page = page * Page + Page
        BY <3>1, WholePages
      <3>3. page * Page + Page <= Sector
        BY <3>2 DEF SpiInv, PageFits
      <3> QED
        BY <3>2, <3>3, CellsAre
    <2>2. Length \in 0..Sector
      BY CellsAre, WholePages DEF Length
    <2>3. Cached(d) \in BOOLEAN /\ (d = "rx") \in BOOLEAN
      BY Zenon DEF Cached
    <2>4. BlackHole \in 0..BlackHole
      BY CellsAre
    <2> QED
      BY <2>1, <2>2, <2>3, <2>4 DEF Setting, ChannelTypes
  <1>5. LineTypes'
    BY <1>1, <1>2 DEF LineTypes
  <1>6. StoreTypes'
    BY <1>1, <1>2, <1>4 DEF StoreTypes
  <1>7. ArmedInTime'
    <2>1. \A e \in Dirs : Setting(e)' = Setting(e)
      BY <1>1 DEF Setting, Cached, Length
    <2>2. \A e \in Dirs \ todo' : ch'[e] = Setting(e)
      BY <1>1, <1>2 DEF SpiInv, ArmedInTime, StoreTypes
    <2>3. "spe" \notin todo' => "spe" \notin todo
      BY <1>1 DEF Dirs
    <2> QED
      BY <1>1, <2>1, <2>2, <2>3 DEF SpiInv, ArmedInTime
  <1>8. HistoryTypes' /\ PageFits' /\ NothingLeft' /\ CommandServed'
    BY <1>1 DEF SpiInv, HistoryTypes, PageFits, NothingLeft, CommandServed
  <1>9. CacheHolds' /\ ChipHolds'
    BY <1>1 DEF SpiInv, CacheHolds, ChipHolds, Wanted, Reached
  <1> QED
    BY <1>5, <1>6, <1>7, <1>8, <1>9, TypeParts DEF SpiInv

\* A step that leaves the stores alone, and passes no transfer, leaves what they
\* hold alone.
LEMMA StoresKept ==
    ASSUME SpiInv, UNCHANGED <<ch, mem, nor, cmd, addr, op, page, before, patch>>,
           pc' = pc \/ (pc \in Done /\ pc' \in Done)
    PROVE  StoreTypes' /\ HistoryTypes' /\ PageFits' /\ CacheHolds' /\ ChipHolds'
  <1>1. StoreTypes'
    BY TypeParts DEF SpiInv, StoreTypes
  <1>2. HistoryTypes' /\ PageFits'
    BY DEF SpiInv, HistoryTypes, PageFits
  <1>3. pc' = pc \/ (pc \notin {"idle", "command"} /\ pc' \notin {"idle", "command"})
    BY DEF Done
  <1>4. CacheHolds'
    BY <1>3 DEF SpiInv, CacheHolds, Wanted
  <1>5. ChipHolds'
    <2>1. (\A a : Wanted(a)' = Wanted(a)) /\ Reached' = Reached
      BY DEF Wanted, Reached
    <2> QED
      BY <1>3, <2>1 DEF SpiInv, ChipHolds
  <1> QED
    BY <1>1, <1>2, <1>4, <1>5

\* RXDMAEN and SPE start nothing, since TXDMAEN is still off.
LEMMA SwitchOnKeepsInv ==
    ASSUME SpiInv, EnableRxDma \/ EnableSpi
    PROVE  SpiInv'
  <1>1. UNCHANGED <<ch, isr, irq, mem, nor, cmd, addr>>
    BY NothingStarts DEF dmaVars, chipVars
  <1>2. /\ pc = "arm" /\ UNCHANGED <<txdmaen, rxne, op, page, pc, flag, before, patch>>
        /\ \/ todo' = todo \ {"rxdmaen"} /\ rxdmaen' = TRUE /\ spe' = spe
           \/ todo' = todo \ {"spe"} /\ rxdmaen' = rxdmaen /\ spe' = TRUE
    BY DEF EnableRxDma, EnableSpi, py32_spi_write_cr1, py32_spi_write_cr2, histVars
  <1>3. StoreTypes' /\ HistoryTypes' /\ PageFits' /\ CacheHolds' /\ ChipHolds'
    BY <1>1, <1>2, StoresKept
  <1>4. LineTypes'
    BY <1>1, <1>2, TypeParts DEF SpiInv, LineTypes
  <1>5. NothingLeft' /\ CommandServed'
    BY <1>1, <1>2 DEF SpiInv, NothingLeft, CommandServed
  <1>6. ArmedInTime'
    <2>1. \A e \in Dirs : Setting(e)' = Setting(e)
      BY <1>2 DEF Setting, Cached, Length
    <2>2. Dirs \ todo' = Dirs \ todo
      BY <1>2 DEF Dirs
    <2>3. "spe" \notin todo' => spe'
      BY <1>2 DEF SpiInv, ArmedInTime
    <2>4. \A d \in Dirs \ todo' : ch'[d] = Setting(d)'
      BY <1>1, <1>2, <2>1, <2>2 DEF SpiInv, ArmedInTime
    <2>5. ~txdmaen'
      BY <1>2 DEF SpiInv, ArmedInTime
    <2> QED
      BY <2>3, <2>4, <2>5 DEF ArmedInTime
  <1> QED
    BY <1>3, <1>4, <1>5, <1>6, TypeParts DEF SpiInv

\* After its wait the driver switches off what it switched on.
LEMMA WindDownKeepsInv ==
    ASSUME SpiInv, WaitOver \/ DisableRxDma \/ DisableTxDma \/ DisableSpi
    PROVE  SpiInv'
  <1>1. UNCHANGED <<ch, isr, irq, mem, nor, cmd, addr>>
    BY NothingStarts DEF WaitOver, dmaVars, chipVars
  <1>2. /\ UNCHANGED <<rxne, op, page, todo, flag, before, patch>>
        /\ \/ pc = "wait" /\ pc' = "rxoff" /\ UNCHANGED <<spe, rxdmaen, txdmaen>>
           \/ pc = "rxoff" /\ pc' = "txoff" /\ rxdmaen' = FALSE /\ UNCHANGED <<spe, txdmaen>>
           \/ pc = "txoff" /\ pc' = "speoff" /\ txdmaen' = FALSE /\ UNCHANGED <<spe, rxdmaen>>
           \/ pc = "speoff" /\ pc' = "over" /\ spe' = FALSE /\ UNCHANGED <<rxdmaen, txdmaen>>
    BY DEF WaitOver, DisableRxDma, DisableTxDma, DisableSpi, py32_spi_write_cr1,
           py32_spi_write_cr2, spiVars, histVars
  <1>3. StoreTypes' /\ HistoryTypes' /\ PageFits' /\ CacheHolds' /\ ChipHolds'
    BY <1>1, <1>2, StoresKept DEF Done
  <1>4. LineTypes'
    BY <1>1, <1>2, TypeParts DEF SpiInv, LineTypes
  <1>5. NothingLeft' /\ CommandServed' /\ ArmedInTime'
    BY <1>1, <1>2 DEF SpiInv, NothingLeft, CommandServed, ArmedInTime
  <1> QED
    BY <1>3, <1>4, <1>5, TypeParts DEF SpiInv

\* TXDMAEN, the last to be set, runs the whole transfer between cache and chip.
LEMMA TransferKeepsInv ==
    ASSUME SpiInv, EnableTxDma
    PROVE  SpiInv'
  <1>1. /\ pc = "arm" /\ todo = {} /\ pc' = "wait"
        /\ UNCHANGED <<rxne, op, page, todo, flag, before, patch>>
    BY DEF EnableTxDma, histVars
  <1>2. /\ op \in {"read", "program"} /\ Clock(Length)
        /\ ch' \in [Dirs -> ChannelTypes] /\ \A d \in Dirs : ch'[d].cndtr = 0
        /\ isr' \subseteq Dirs /\ irq' \in BOOLEAN
        /\ spe' = spe /\ rxdmaen' = rxdmaen /\ txdmaen' = TRUE
    BY TransferRuns
  <1>3. op = "read" =>
          /\ nor' = nor
          /\ mem' \in [0..BlackHole -> Byte] /\ \A a \in Cells : mem'[a] = nor[a]
          /\ addr' \in Cells /\ cmd' = cmd
    BY <1>1, <1>2, ReadTransfer DEF Length
  <1>4. op = "program" =>
          /\ nor' = [a \in Cells |->
                       IF page * Page <= a /\ a < page * Page + Page THEN nor[a] \cap mem[a]
                       ELSE nor[a]]
          /\ mem' \in [0..BlackHole -> Byte] /\ \A a \in Cells : mem'[a] = mem[a]
          /\ addr' \in Cells /\ cmd' = cmd
    BY <1>1, <1>2, ProgramTransfer DEF Length
  <1>5. LineTypes /\ StoreTypes
    BY TypeParts DEF SpiInv
  <1>6. LineTypes'
    BY <1>1, <1>2, <1>3, <1>4, <1>5 DEF LineTypes
  <1>7. nor' \in [Cells -> Byte]
    BY <1>2, <1>3, <1>4, <1>5 DEF StoreTypes, Byte
  <1>8. StoreTypes'
    BY <1>1, <1>2, <1>3, <1>4, <1>5, <1>7 DEF StoreTypes
  <1>9. HistoryTypes' /\ PageFits' /\ ArmedInTime' /\ NothingLeft' /\ CommandServed'
    BY <1>1, <1>2 DEF SpiInv, HistoryTypes, PageFits, ArmedInTime, NothingLeft, CommandServed
  <1>10. \A a : Wanted(a)' = Wanted(a)
    BY <1>1 DEF Wanted
  <1>11. CASE op = "read"
    <2>1. nor = before
      BY <1>1, <1>11 DEF SpiInv, ChipHolds
    <2>2. CacheHolds' /\ ChipHolds'
      BY <1>1, <1>3, <1>11, <2>1 DEF CacheHolds, ChipHolds
    <2> QED
      BY <1>6, <1>8, <1>9, <2>2, TypeParts DEF SpiInv
  <1>12. CASE op = "program"
    <2> DEFINE P == page * Page
    <2>1. /\ \A a \in Cells : mem[a] = Wanted(a)
          /\ \A a \in Cells : nor[a] = IF a < P + 0 THEN Wanted(a) ELSE Erased
      BY <1>1, <1>12 DEF SpiInv, CacheHolds, ChipHolds, Reached, Done
    <2>2. P \in Nat
      BY <1>5, WholePages DEF StoreTypes
    <2>3. \A a \in Cells : nor'[a] = IF P <= a /\ a < P + Page THEN nor[a] \cap mem[a] ELSE nor[a]
      BY <1>4, <1>12
    <2>4. Reached' = P + Page
      BY <1>1 DEF Reached, Done
    <2> HIDE DEF P
    <2>5. \A a \in Cells : Wanted(a) \subseteq Bits
      BY DEF SpiInv, HistoryTypes, Wanted, Byte
    <2>6. ASSUME NEW a \in Cells
          PROVE  nor'[a] = IF a < P + Page THEN Wanted(a) ELSE Erased
      <3>1. a \in Nat /\ Page \in Nat \ {0} /\ P + 0 = P
        BY <2>2, CellsAre
      <3>2. CASE a < P
        BY <2>1, <2>2, <2>3, <3>1, <3>2
      <3>3. CASE P <= a /\ a < P + Page
        <4>1. ~(a < P)
          BY <2>2, <3>1, <3>3
        <4>2. mem[a] = Wanted(a) /\ nor[a] = Bits
          BY <2>1, <3>1, <4>1 DEF Erased
        <4>3. nor'[a] = nor[a] \cap mem[a]
          BY <2>3, <3>3
        <4> QED
          BY <2>5, <3>3, <4>2, <4>3
      <3>4. CASE P + Page <= a
        <4>1. ~(a < P) /\ ~(a < P + Page)
          BY <2>2, <3>1, <3>4
        <4>2. nor[a] = Erased
          BY <2>1, <3>1, <4>1
        <4>3. nor'[a] = nor[a]
          BY <2>3, <4>1
        <4> QED
          BY <4>1, <4>2, <4>3
      <3> QED
        BY <2>2, <3>1, <3>2, <3>3, <3>4
    <2>7. CacheHolds' /\ ChipHolds'
      BY <1>1, <1>4, <1>10, <1>12, <2>1, <2>4, <2>6 DEF CacheHolds, ChipHolds
    <2> QED
      BY <1>6, <1>8, <1>9, <2>7, TypeParts DEF SpiInv
  <1> QED
    BY <1>2, <1>11, <1>12

\* The cache is patched after the read, and the programs follow page by page.
LEMMA NextCommandKeepsInv ==
    ASSUME SpiInv, NextCommand
    PROVE  SpiInv'
  <1> DEFINE last == op = "program" /\ (page + 1) * Page = Sector
             P == page * Page
  <1>1. /\ pc = "over" /\ cmd' = "none"
        /\ mem' = IF op = "read" THEN [mem EXCEPT ![patch.at] = patch.byte] ELSE mem
        /\ op' = IF op = "read" THEN "erase" ELSE "program"
        /\ page' = IF op = "program" /\ ~last THEN page + 1 ELSE 0
        /\ pc' = IF last THEN "idle" ELSE "command"
        /\ UNCHANGED <<spe, rxdmaen, txdmaen, rxne, ch, isr, irq, nor, addr, todo, flag, before,
                       patch>>
    BY DEF NextCommand, spiVars, dmaVars, histVars
  <1>2. LineTypes /\ StoreTypes
    BY TypeParts DEF SpiInv
  <1>3. page \in Nat /\ (page + 1) * Page <= Sector /\ (op # "program" => page = 0)
    BY <1>2 DEF StoreTypes, SpiInv, PageFits
  <1>4. P \in Nat /\ (page + 1) * Page = P + Page
    BY <1>3, WholePages
  <1>5. /\ page' \in Nat /\ (page' + 1) * Page <= Sector
        /\ op' # "program" => page' = 0
    <2>1. CASE op = "program" /\ ~last
      <3>1. (page + 1) * Page < Sector
        <4>1. (page + 1) * Page # Sector
          BY <2>1
        <4> QED
          BY <1>3, <1>4, <4>1, CellsAre
      <3>2. (page + 2) * Page <= Sector
        BY <1>3, <3>1, WholePages
      <3>3. (page + 1) + 1 = page + 2 /\ page + 1 \in Nat
        BY <1>3
      <3> QED
        BY <1>1, <2>1, <3>2, <3>3
    <2>2. CASE ~(op = "program" /\ ~last)
      <3>1. page' = 0 /\ (0 + 1) * Page = Page /\ Page <= Sector
        BY <1>1, <2>2, WholePages, CellsAre
      <3> QED
        BY <3>1
    <2> QED
      BY <2>1, <2>2
  <1>6. page' \in 0..(Sector \div Page)
    BY <1>5, WholePages
  <1>7. LineTypes'
    BY <1>1, <1>2 DEF LineTypes
  <1>8. patch.at \in Cells /\ patch.byte \in Byte /\ patch.at \in 0..BlackHole
    BY CellsAre DEF SpiInv, HistoryTypes
  <1>9. StoreTypes'
    BY <1>1, <1>2, <1>6, <1>8 DEF StoreTypes
  <1>10. HistoryTypes' /\ PageFits' /\ ArmedInTime' /\ NothingLeft' /\ CommandServed'
    BY <1>1, <1>5 DEF SpiInv, HistoryTypes, PageFits, ArmedInTime, NothingLeft, CommandServed
  <1>11. \A a : Wanted(a)' = Wanted(a)
    BY <1>1 DEF Wanted
  <1>12. op' # "read" /\ \A a \in Cells : mem'[a] = Wanted(a)
    <2>1. CASE op = "read"
      <3>1. \A a \in Cells : mem[a] = before[a]
        BY <1>1, <2>1 DEF SpiInv, CacheHolds, Done
      <3>2. mem \in [0..BlackHole -> Byte] /\ Cells \subseteq 0..BlackHole
        BY <1>2, CellsAre DEF StoreTypes
      <3> QED
        BY <1>1, <1>8, <2>1, <3>1, <3>2 DEF Wanted
    <2>2. CASE op # "read"
      BY <1>1, <2>2 DEF SpiInv, CacheHolds
    <2> QED
      BY <2>1, <2>2
  <1>13. CacheHolds'
    BY <1>11, <1>12 DEF CacheHolds
  <1>14. ChipHolds'
    <2>1. CASE op = "read"
      BY <1>1, <1>12, <2>1 DEF ChipHolds
    <2>2. CASE op = "erase"
      <3>1. \A a \in Cells : nor[a] = Erased
        BY <1>1, <2>2 DEF SpiInv, ChipHolds
      <3>2. op' = "program" /\ page' = 0 /\ pc' = "command"
        BY <1>1, <2>2
      <3>3. Reached' = 0
        BY <3>2, CellsAre DEF Reached, Done
      <3>4. \A a \in Cells : ~(a < 0)
        BY CellsAre
      <3> QED
        BY <1>1, <3>1, <3>2, <3>3, <3>4 DEF ChipHolds
    <2>3. CASE op = "program"
      <3>1. \A a \in Cells : nor[a] = IF a < P + Page THEN Wanted(a) ELSE Erased
        BY <1>1, <2>3 DEF SpiInv, ChipHolds, Reached, Done
      <3>2. CASE last
        <4>1. \A a \in Cells : a < P + Page
          BY <1>4, <3>2, CellsAre
        <4> QED
          BY <1>1, <1>11, <3>1, <3>2, <4>1 DEF ChipHolds
      <3>3. CASE ~last
        <4>1. op' = "program" /\ page' = page + 1 /\ pc' = "command"
          BY <1>1, <2>3, <3>3
        <4>2. Reached' = (page + 1) * Page + 0
          BY <4>1 DEF Reached, Done
        <4>3. Reached' = P + Page
          BY <1>4, <4>2, CellsAre
        <4> QED
          BY <1>1, <1>11, <3>1, <4>1, <4>3 DEF ChipHolds
      <3> QED
        BY <3>2, <3>3
    <2> QED
      BY <1>2, <2>1, <2>2, <2>3 DEF LineTypes
  <1> QED
    BY <1>7, <1>9, <1>10, <1>13, <1>14, TypeParts DEF SpiInv

\* A machine reset forgets the transfer and the driver's place, not the chip.
LEMMA ResetKeepsInv ==
    ASSUME SpiInv, MachineReset
    PROVE  SpiInv'
  <1>1. /\ spe' = FALSE /\ rxdmaen' = FALSE /\ txdmaen' = FALSE /\ rxne' = FALSE
        /\ ch' = [d \in Dirs |-> Off] /\ isr' = {} /\ cmd' = "none"
        /\ before' = nor /\ patch' = [at |-> 0, byte |-> nor[0]]
        /\ op' = "program" /\ page' = 0 /\ pc' = "idle" /\ todo' = {} /\ flag' = FALSE
        /\ UNCHANGED <<irq, mem, nor, addr>>
    BY DEF MachineReset
  <1>2. /\ 0 \in Cells /\ BlackHole \in 0..BlackHole /\ 0 \in 0..Sector
    BY CellsAre
  <1>3. 0 \in Nat /\ (0 + 1) * Page = Page /\ Page <= Sector /\ 0 \in 0..(Sector \div Page)
    BY WholePages, CellsAre
  <1>4. LineTypes /\ StoreTypes
    BY TypeParts DEF SpiInv
  <1>5. LineTypes'
    BY <1>1, <1>4 DEF LineTypes
  <1>6. StoreTypes'
    BY <1>1, <1>2, <1>3, <1>4 DEF StoreTypes, Off, ChannelTypes
  <1>7. HistoryTypes' /\ \A a \in Cells : nor'[a] = Wanted(a)'
    BY <1>1, <1>2, <1>4 DEF HistoryTypes, StoreTypes, Wanted
  <1>8. PageFits' /\ ArmedInTime' /\ NothingLeft' /\ CommandServed'
    BY <1>1, <1>3 DEF PageFits, ArmedInTime, NothingLeft, CommandServed
  <1>9. CacheHolds' /\ ChipHolds'
    BY <1>1, <1>7 DEF CacheHolds, ChipHolds, Done
  <1> QED
    BY <1>5, <1>6, <1>7, <1>8, <1>9, TypeParts DEF SpiInv

\* The handler clears its flags and tells the driver.
LEMMA InterruptKeepsInv ==
    ASSUME SpiInv, Interrupt
    PROVE  SpiInv'
  <1>1. PICK flags \in {{"rx"}, Dirs} : py32_dma_write_ifcr(flags)
    BY DEF Interrupt
  <1>2. isr' = isr \ flags /\ ch' = ch /\ py32_dma_update_irq
    BY <1>1 DEF py32_dma_write_ifcr
  <1>3. irq' \in BOOLEAN
    BY <1>2, Zenon DEF py32_dma_update_irq
  <1>4. /\ flag' = TRUE
        /\ UNCHANGED <<spe, rxdmaen, txdmaen, rxne, mem, nor, cmd, addr, op, page, pc, todo, before,
                       patch>>
    BY DEF Interrupt, spiVars, chipVars, histVars
  <1>5. StoreTypes' /\ HistoryTypes' /\ PageFits' /\ CacheHolds' /\ ChipHolds'
    BY <1>2, <1>4, StoresKept
  <1>6. LineTypes'
    BY <1>2, <1>3, <1>4, TypeParts DEF SpiInv, LineTypes
  <1>7. NothingLeft' /\ CommandServed'
    BY <1>2, <1>4 DEF SpiInv, NothingLeft, CommandServed
  <1>8. ArmedInTime'
    <2>1. \A e \in Dirs : Setting(e)' = Setting(e)
      BY <1>4 DEF Setting, Cached, Length
    <2> QED
      BY <1>2, <1>4, <2>1 DEF SpiInv, ArmedInTime
  <1> QED
    BY <1>5, <1>6, <1>7, <1>8, TypeParts DEF SpiInv

\* A step that changes nothing keeps the invariant.
LEMMA StutterKeepsInv ==
    ASSUME SpiInv, UNCHANGED vars
    PROVE  SpiInv'
  <1>1. UNCHANGED <<spe, rxdmaen, txdmaen, rxne, ch, isr, irq, mem, nor, cmd, addr, op, page, pc, todo,
                    flag, before, patch>>
    BY DEF vars, spiVars, dmaVars, chipVars, histVars
  <1>2. StoreTypes' /\ HistoryTypes' /\ PageFits' /\ CacheHolds' /\ ChipHolds'
    BY <1>1, StoresKept
  <1>3. LineTypes'
    BY <1>1, TypeParts DEF SpiInv, LineTypes
  <1>4. \A e \in Dirs : Setting(e)' = Setting(e)
    BY <1>1 DEF Setting, Cached, Length
  <1>5. NothingLeft' /\ CommandServed' /\ ArmedInTime'
    BY <1>1, <1>4 DEF SpiInv, NothingLeft, CommandServed, ArmedInTime
  <1> QED
    BY <1>2, <1>3, <1>5, TypeParts DEF SpiInv

\* Every step of driver, channels and chip keeps SpiInv.
LEMMA SpiNext == SpiInv /\ [Next]_vars => SpiInv'
  <1> SUFFICES ASSUME SpiInv, [Next]_vars PROVE SpiInv'
    OBVIOUS
  <1>1. CASE \E i \in Cells, v \in Byte : WriteBuffer(i, v)
    BY <1>1, WriteBufferKeepsInv
  <1>2. CASE Drive
    BY <1>2, SendKeepsInv, ReplyKeepsInv, ArmKeepsInv, SwitchOnKeepsInv, TransferKeepsInv,
       WindDownKeepsInv, NextCommandKeepsInv DEF Drive
  <1>3. CASE Spin \/ UNCHANGED vars
    BY <1>3, StutterKeepsInv DEF Spin
  <1> QED
    BY <1>1, <1>2, <1>3, InterruptKeepsInv, ResetKeepsInv DEF Next

\* SpiInv holds in every state.
LEMMA SpiInvariant == Spec => []SpiInv
  BY SpiInit, SpiNext, PTL DEF Spec

-----------------------------------------------------------------------------
(* The theorems *)

(***************************************************************************)
(* Registers, channels, memory and driver keep their types: no transfer    *)
(* takes a channel's count below zero or an address out of the sector, and *)
(* every page the driver sends lies in it.                                 *)
(***************************************************************************)
THEOREM SpiTypeCorrect == Spec => []TypeOK
  <1>1. SpiInv => TypeOK
    BY DEF SpiInv
  <1> QED
    BY <1>1, SpiInvariant, PTL

(***************************************************************************)
(* PY25Q16_WriteBuffer through py32_spi_write and py32_dma_run_for_spi: in *)
(* whatever order the channels and the SPI are armed, a finished write     *)
(* leaves the sector as it was with the one byte patched; a write that     *)
(* follows a reset starts from what the chip holds then.                   *)
(***************************************************************************)
THEOREM SpiSectorKept == Spec => []SectorKept
  <1>1. SpiInv => SectorKept
    <2> SUFFICES ASSUME SpiInv, pc = "idle"
                 PROVE  nor = [before EXCEPT ![patch.at] = patch.byte]
      BY DEF SectorKept
    <2>1. \A a \in Cells : nor[a] = Wanted(a)
      BY DEF SpiInv, ChipHolds
    <2>2. nor \in [Cells -> Byte] /\ before \in [Cells -> Byte] /\ patch.at \in Cells
      BY DEF SpiInv, TypeOK, HistoryTypes
    <2> QED
      BY <2>1, <2>2 DEF Wanted
  <1> QED
    BY <1>1, SpiInvariant, PTL

=============================================================================
