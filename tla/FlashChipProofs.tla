--------------------------- MODULE FlashChipProofs ---------------------------
(***************************************************************************)
(* The write-back of the PY25Q16 loses nothing it acknowledged, for every  *)
(* size of chip, page, sector and byte, provided the image file is either  *)
(* absent or as long as the chip when the emulator first starts.           *)
(***************************************************************************)
EXTENDS FlashChip, TLAPS

\* The remainder of an address is a cell of the chip.
LEMMA ModIsAddr ==
    ASSUME NEW x \in Nat
    PROVE  x % Size \in Addr
  BY SizeAssumption DEF Addr

\* The start of the sector an erase names is a cell of the chip.
LEMMA SectorStartIsAddr ==
    ASSUME NEW x \in Nat
    PROVE  SectorStart(x) \in Addr
  <1>1. x \div Sector \in Nat
    BY SectorAssumption
  <1>2. (x \div Sector) * Sector \in Nat
    BY <1>1, SectorAssumption
  <1> QED
    BY <1>2, ModIsAddr DEF SectorStart

\* A burst's next address is an address.
LEMMA NextInPageIsNat ==
    ASSUME NEW x \in Nat
    PROVE  NextInPage(x) \in Nat
  <1>1. x \div Page \in Nat
    BY PageAssumption
  <1>2. (x \div Page) * Page \in Nat
    BY <1>1, PageAssumption
  <1>3. (x + 1) % Page \in Nat
    BY PageAssumption
  <1> QED
    BY <1>2, <1>3 DEF NextInPage

\* The address space is a positive number.
LEMMA AddrSpacePositive == AddrSpace \in Nat \ {0}
  <1>1. Base * Base \in Nat \ {0}
    BY BaseAssumption
  <1> QED
    BY <1>1, BaseAssumption DEF AddrSpace

\* py25q16_mark_dirty keeps the range inside the chip, keeps what it covered
\* and covers the bytes it was told about that are in the chip.
LEMMA MarkDirtyCovers ==
    ASSUME TypeOK, NEW at \in Addr, NEW n \in Nat, py25q16_mark_dirty(at, n)
    PROVE  /\ dirty' = TRUE
           /\ dirty_lo' \in 0..Size
           /\ dirty_hi' \in 0..Size
           /\ \A a \in Addr : dirty /\ dirty_lo <= a /\ a < dirty_hi
                                => dirty_lo' <= a /\ a < dirty_hi'
           /\ \A a \in Addr : at <= a /\ a < at + n
                                => dirty_lo' <= a /\ a < dirty_hi'
  <1>1. at \in Nat /\ at < Size /\ ~(at >= Size)
    BY SizeAssumption DEF Addr
  <1>2. /\ dirty_lo' = IF ~dirty \/ at < dirty_lo THEN at ELSE dirty_lo
        /\ dirty_hi' = IF ~dirty \/ at + DirtyLen(at, n) > dirty_hi
                       THEN at + DirtyLen(at, n)
                       ELSE dirty_hi
        /\ dirty' = TRUE
    BY <1>1 DEF py25q16_mark_dirty
  <1>3. /\ DirtyLen(at, n) \in Nat
        /\ at + DirtyLen(at, n) <= Size
        /\ \A a \in Addr : a < at + n => a < at + DirtyLen(at, n)
    BY <1>1, SizeAssumption DEF DirtyLen, Addr
  <1>4. dirty_lo \in 0..Size /\ dirty_hi \in 0..Size /\ dirty \in BOOLEAN
    BY DEF TypeOK
  <1> QED
    BY <1>1, <1>2, <1>3, <1>4, SizeAssumption DEF Addr

\* The shape of a whole image after an in-place write: the range is the
\* chip's, everything else is what the file held.
LEMMA WriteFileEffect ==
    ASSUME TypeOK, WholeFile, present,
           NEW lo \in 0..Size, NEW hi \in 0..Size, WriteFile(lo, hi)
    PROVE  /\ file' \in [Addr -> Byte]
           /\ flen' = Size
           /\ present' = TRUE
           /\ \A a \in Addr : file'[a] = IF lo <= a /\ a < hi THEN data[a] ELSE file[a]
  <1>1. flen = Size
    BY DEF WholeFile
  <1>2. \A a \in Addr : a \in Nat /\ a < Size
    BY SizeAssumption DEF Addr
  <1>3. \A a \in Addr : data[a] \in Byte /\ file[a] \in Byte
    BY DEF TypeOK
  <1>4. file' = [a \in Addr |-> IF lo <= a /\ a < hi THEN data[a] ELSE file[a]]
    BY <1>1, <1>2, SizeAssumption DEF WriteFile
  <1>5. flen' = Size /\ present' = TRUE
    BY <1>1, SizeAssumption DEF WriteFile
  <1> QED
    BY <1>3, <1>4, <1>5

\* What a write-back of a range that covers the differences does to the file
\* and to the range: either the chip is clean and the file equals it, or the
\* range stays dirty and the file only took bytes of the chip inside it.
LEMMA FlushEffect ==
    ASSUME TypeOK, WholeFile, NEW lo \in 0..Size, NEW hi \in 0..Size,
           \A a \in Addr : data[a] # Loaded[a] => dirty /\ lo <= a /\ a < hi,
           py25q16_flush(lo, hi), data' = data
    PROVE  /\ present' \in BOOLEAN /\ file' \in [Addr -> Byte] /\ flen' \in 0..Size
           /\ dirty' \in BOOLEAN /\ dirty_lo' \in 0..Size /\ dirty_hi' \in 0..Size
           /\ WholeFile'
           /\ DirtyCovers'
           /\ present => present' /\ flen' >= flen
  <1> USE DEF TypeOK
  <1>0. \A a \in Addr : a \in Nat /\ a < Size
    BY SizeAssumption DEF Addr
  <1>a. 0 \in 0..Size /\ Size \in 0..Size /\ Size >= flen
    BY SizeAssumption
  <1>1. CASE ~dirty /\ FlushNothing(lo, hi)
    <2>1. Loaded' = Loaded
      BY <1>1 DEF FlushNothing, fileVars, Loaded
    <2> QED
      BY <1>1, <2>1 DEF FlushNothing, fileVars, WholeFile, DirtyCovers
  <1>2. CASE dirty /\ FlushInPlace(lo, hi)
    <2>1. /\ file' \in [Addr -> Byte] /\ flen' = Size /\ present' = TRUE
          /\ \A a \in Addr : file'[a] = IF lo <= a /\ a < hi THEN data[a] ELSE file[a]
      BY <1>2, WriteFileEffect DEF FlushInPlace
    <2>2. \A a \in Addr : Loaded[a] = file[a]
      BY <1>0, <1>2 DEF FlushInPlace, Loaded, WholeFile
    <2>3. \A a \in Addr : Loaded'[a] = file'[a]
      BY <1>0, <2>1 DEF Loaded
    <2>4. DirtyCovers'
      BY <2>1, <2>2, <2>3 DEF DirtyCovers
    <2> QED
      BY <1>a, <1>2, <2>1, <2>4 DEF FlushInPlace, WholeFile
  <1>3. CASE dirty /\ FlushShort(lo, hi)
    <2>1. PICK k \in lo..hi :
              IF k = lo THEN UNCHANGED fileVars ELSE WriteFile(lo, k)
      BY <1>3 DEF FlushShort
    <2>2. present /\ flen = Size /\ k \in 0..Size
      BY <1>3, <2>1 DEF FlushShort, WholeFile
    <2>3. CASE k = lo
      <3>1. Loaded' = Loaded
        BY <2>1, <2>3 DEF fileVars, Loaded
      <3> QED
        BY <1>3, <2>1, <2>2, <2>3, <3>1 DEF FlushShort, fileVars, WholeFile, DirtyCovers
    <2>4. CASE k # lo
      <3>1. /\ file' \in [Addr -> Byte] /\ flen' = Size /\ present' = TRUE
            /\ \A a \in Addr : file'[a] = IF lo <= a /\ a < k THEN data[a] ELSE file[a]
        BY <2>1, <2>2, <2>4, WriteFileEffect
      <3>2. \A a \in Addr : Loaded[a] = file[a] /\ Loaded'[a] = file'[a]
        BY <1>0, <2>2, <3>1 DEF Loaded
      <3>3. DirtyCovers'
        BY <1>3, <3>1, <3>2 DEF FlushShort, DirtyCovers
      <3> QED
        BY <1>3, <2>2, <3>1, <3>3, SizeAssumption DEF FlushShort, WholeFile
    <2> QED
      BY <2>3, <2>4
  <1>4. CASE dirty /\ FlushReplace(lo, hi)
    <2>1. \A a \in Addr : Loaded'[a] = data[a]
      BY <1>0, <1>4 DEF FlushReplace, Loaded
    <2>2. DirtyCovers'
      BY <2>1 DEF DirtyCovers
    <2> QED
      BY <1>a, <1>4, <2>2 DEF FlushReplace, WholeFile
  <1>5. CASE dirty /\ FlushFails(lo, hi)
    <2>1. Loaded' = Loaded
      BY <1>5 DEF FlushFails, fileVars, Loaded
    <2> QED
      BY <1>5, <2>1 DEF FlushFails, fileVars, WholeFile, DirtyCovers
  <1> QED
    BY <1>1, <1>2, <1>3, <1>4, <1>5 DEF py25q16_flush

-----------------------------------------------------------------------------
\* The first realize leaves chip and file equal.
LEMMA InitInv == ImageLens \subseteq {Size} /\ Init => Inv
  <1> SUFFICES ASSUME ImageLens \subseteq {Size}, Init
               PROVE  Inv
    OBVIOUS
  <1>1. file \in [Addr -> Byte] /\ data \in [Addr -> Byte]
    BY DEF Init, Loaded, Byte, Erased, Zero
  <1>a. flen = 0 \/ flen = Size
    BY DEF Init
  <1>2. flen \in 0..Size /\ 0 \in 0..Size /\ 0 \in 0..PhaseCap
    BY <1>a, SizeAssumption DEF PhaseCap
  <1>3. present \in BOOLEAN /\ WholeFile
    BY DEF Init, WholeFile
  <1>4. TypeOK
    BY <1>1, <1>2, <1>3 DEF Init, TypeOK
  <1>5. DirtyCovers
    BY DEF Init, DirtyCovers
  <1> QED
    BY <1>3, <1>4, <1>5 DEF Inv

\* A step that leaves chip, file and range alone keeps the range's coverage.
LEMMA QuietStep ==
    ASSUME Inv, UNCHANGED <<data, dirtyVars, fileVars>>
    PROVE  WholeFile' /\ DirtyCovers'
  <1>1. Loaded' = Loaded
    BY DEF fileVars, Loaded
  <1> QED
    BY <1>1 DEF Inv, WholeFile, DirtyCovers, dirtyVars, fileVars

\* One transferred byte preserves the invariant: only a program and an erase
\* touch the chip, and both mark what they touch.
LEMMA XferInv == Inv /\ py25q16_xfer => Inv'
  <1> SUFFICES ASSUME Inv, py25q16_xfer
               PROVE  Inv'
    OBVIOUS
  <1> USE DEF Inv
  <1>p. ASSUME Counted PROVE phase' \in 0..PhaseCap
    BY <1>p DEF Counted, TypeOK, PhaseCap
  <1>a. ASSUME NEW d \in 0..(Base - 1) PROVE addr * Base + d \in Nat
    BY BaseAssumption DEF TypeOK
  <1>1. CASE XferDeselected
    BY <1>1 DEF XferDeselected, vars, busVars, dirtyVars, fileVars, TypeOK,
                WholeFile, DirtyCovers, Loaded
  <1>2. ASSUME NEW op \in Opcodes \cup {"NONE"}, XferCommand(op)
        PROVE  Inv'
    <2>1. cmd' \in Opcodes \cup {"NONE"} /\ write_enabled' \in BOOLEAN
      BY <1>2 DEF XferCommand, TypeOK
    <2>2. addr' \in Nat /\ phase' \in 0..PhaseCap
      BY <1>2 DEF XferCommand, PhaseCap
    <2>3. WholeFile' /\ DirtyCovers'
      BY <1>2, QuietStep DEF XferCommand
    <2> QED
      BY <1>2, <2>1, <2>2, <2>3 DEF XferCommand, TypeOK, dirtyVars, fileVars
  <1>3. ASSUME NEW d \in 0..(Base - 1), XferAddress(d)
        PROVE  Inv'
    <2>1. addr' \in Nat /\ phase' \in 0..PhaseCap
      BY <1>3, <1>a, <1>p DEF XferAddress, ShiftAddr
    <2>2. WholeFile' /\ DirtyCovers'
      BY <1>3, QuietStep DEF XferAddress
    <2> QED
      BY <1>3, <2>1, <2>2 DEF XferAddress, TypeOK, dirtyVars, fileVars
  <1>4. ASSUME NEW d \in 0..(Base - 1), XferErase(d)
        PROVE  Inv'
    <2>1. addr' \in Nat /\ phase' \in 0..PhaseCap
      BY <1>4, <1>a, <1>p DEF XferErase, ShiftAddr
    <2>2. CASE ~write_enabled
      <3>1. WholeFile' /\ DirtyCovers'
        BY <1>4, <2>2, QuietStep DEF XferErase
      <3> QED
        BY <1>4, <2>1, <2>2, <3>1 DEF XferErase, TypeOK, dirtyVars, fileVars
    <2>3. CASE write_enabled
      <3> DEFINE at == SectorStart(addr * Base + d)
      <3>1. at \in Addr
        BY <1>a, SectorStartIsAddr
      <3>2. EraseSector(at)
        BY <1>4, <2>3 DEF XferErase
      <3> HIDE DEF at
      <3>3. /\ dirty' = TRUE
            /\ dirty_lo' \in 0..Size
            /\ dirty_hi' \in 0..Size
            /\ \A a \in Addr : dirty /\ dirty_lo <= a /\ a < dirty_hi
                                 => dirty_lo' <= a /\ a < dirty_hi'
            /\ \A a \in Addr : at <= a /\ a < at + Sector
                                 => dirty_lo' <= a /\ a < dirty_hi'
        BY <3>1, <3>2, MarkDirtyCovers, SectorAssumption DEF EraseSector
      <3>4. data' = [a \in Addr |-> IF at <= a /\ a < at + Sector
                                   THEN Erased ELSE data[a]]
        BY <3>2 DEF EraseSector
      <3>5. data' \in [Addr -> Byte]
        BY <3>4 DEF TypeOK, Erased, Byte
      <3>6. Loaded' = Loaded /\ WholeFile'
        BY <1>4 DEF XferErase, fileVars, Loaded, WholeFile
      <3>7. DirtyCovers'
        BY <3>3, <3>4, <3>6 DEF DirtyCovers
      <3> QED
        BY <1>4, <2>1, <3>3, <3>5, <3>6, <3>7 DEF XferErase, TypeOK, fileVars
    <2> QED
      BY <2>2, <2>3
  <1>5. CASE XferAfterErase
    <2>1. WholeFile' /\ DirtyCovers' /\ phase' \in 0..PhaseCap
      BY <1>5, <1>p, QuietStep DEF XferAfterErase
    <2> QED
      BY <1>5, <2>1 DEF XferAfterErase, TypeOK, dirtyVars, fileVars
  <1>6. CASE XferRead
    <2>1. WholeFile' /\ DirtyCovers' /\ phase' \in 0..PhaseCap
      BY <1>6, <1>p, QuietStep DEF XferRead
    <2>2. addr' \in Nat
      BY <1>6, AddrSpacePositive DEF XferRead, TypeOK
    <2> QED
      BY <1>6, <2>1, <2>2 DEF XferRead, TypeOK, dirtyVars, fileVars
  <1>7. ASSUME NEW v \in Byte, XferProgram(v)
        PROVE  Inv'
    <2>1. addr' \in Nat /\ phase' \in 0..PhaseCap
      BY <1>7, <1>p, NextInPageIsNat DEF XferProgram, TypeOK
    <2>2. CASE ~write_enabled
      <3>1. WholeFile' /\ DirtyCovers'
        BY <1>7, <2>2, QuietStep DEF XferProgram
      <3> QED
        BY <1>7, <2>1, <2>2, <3>1 DEF XferProgram, TypeOK, dirtyVars, fileVars
    <2>3. CASE write_enabled
      <3> DEFINE at == addr % Size
      <3>1. at \in Addr
        BY ModIsAddr DEF TypeOK
      <3>2. ProgramByte(at, v)
        BY <1>7, <2>3 DEF XferProgram
      <3> HIDE DEF at
      <3>3. /\ dirty' = TRUE
            /\ dirty_lo' \in 0..Size
            /\ dirty_hi' \in 0..Size
            /\ \A a \in Addr : dirty /\ dirty_lo <= a /\ a < dirty_hi
                                 => dirty_lo' <= a /\ a < dirty_hi'
            /\ \A a \in Addr : at <= a /\ a < at + 1
                                 => dirty_lo' <= a /\ a < dirty_hi'
        BY <3>1, <3>2, MarkDirtyCovers DEF ProgramByte
      <3>4. data' = [data EXCEPT ![at] = data[at] \cap v]
        BY <3>2 DEF ProgramByte
      <3>5. data' \in [Addr -> Byte]
        BY <3>1, <3>4 DEF TypeOK, Byte
      <3>6. Loaded' = Loaded /\ WholeFile'
        BY <1>7 DEF XferProgram, fileVars, Loaded, WholeFile
      <3>7. at \in Nat /\ at <= at /\ at < at + 1
        BY <3>1, SizeAssumption DEF Addr
      <3>8. \A a \in Addr : a # at => data'[a] = data[a]
        BY <3>4 DEF TypeOK
      <3>9. DirtyCovers'
        <4> SUFFICES ASSUME NEW a \in Addr, data'[a] # Loaded[a]
                     PROVE  dirty' /\ dirty_lo' <= a /\ a < dirty_hi'
          BY <3>6 DEF DirtyCovers
        <4>1. CASE a = at
          BY <3>1, <3>3, <3>7, <4>1
        <4>2. CASE a # at
          BY <3>3, <3>8, <4>2 DEF DirtyCovers
        <4> QED
          BY <4>1, <4>2
      <3> QED
        BY <1>7, <2>1, <3>3, <3>5, <3>6, <3>9 DEF XferProgram, TypeOK, fileVars
    <2> QED
      BY <2>2, <2>3
  <1>8. CASE XferOther
    <2>1. WholeFile' /\ DirtyCovers' /\ phase' \in 0..PhaseCap
      BY <1>8, <1>p, QuietStep DEF XferOther
    <2> QED
      BY <1>8, <2>1 DEF XferOther, TypeOK, dirtyVars, fileVars
  <1> QED
    BY <1>1, <1>2, <1>3, <1>4, <1>5, <1>6, <1>7, <1>8 DEF py25q16_xfer

\* Every step preserves the invariant.
LEMMA NextInv == Inv /\ [Next]_vars => Inv'
  <1> SUFFICES ASSUME Inv, [Next]_vars
               PROVE  Inv'
    OBVIOUS
  <1> USE DEF Inv
  <1>1. CASE py25q16_xfer
    BY <1>1, XferInv
  <1>2. CASE Select
    <2>1. WholeFile' /\ DirtyCovers' /\ phase' \in 0..PhaseCap
      BY <1>2, QuietStep DEF Select, PhaseCap
    <2> QED
      BY <1>2, <2>1 DEF Select, TypeOK, dirtyVars, fileVars
  <1>3. CASE Deselect
    <2>1. dirty_lo \in 0..Size /\ dirty_hi \in 0..Size
      BY DEF TypeOK
    <2>2. /\ present' \in BOOLEAN /\ file' \in [Addr -> Byte] /\ flen' \in 0..Size
          /\ dirty' \in BOOLEAN /\ dirty_lo' \in 0..Size /\ dirty_hi' \in 0..Size
          /\ WholeFile'
          /\ DirtyCovers'
      BY <1>3, <2>1, FlushEffect DEF Deselect, DirtyCovers
    <2>3. phase' \in 0..PhaseCap
      BY <1>3 DEF Deselect, PhaseCap
    <2> QED
      BY <1>3, <2>2, <2>3 DEF Deselect, TypeOK
  <1>4. CASE py25q16_realize
    <2>1. data' \in [Addr -> Byte]
      BY <1>4 DEF py25q16_realize, Loaded, TypeOK, Erased, Byte
    <2>2. 0 \in 0..Size /\ 0 \in 0..PhaseCap /\ 0 \in Nat
      BY SizeAssumption DEF PhaseCap
    <2>3. Loaded' = Loaded /\ WholeFile'
      BY <1>4 DEF py25q16_realize, fileVars, Loaded, WholeFile
    <2>4. DirtyCovers'
      BY <1>4, <2>3 DEF py25q16_realize, DirtyCovers
    <2> QED
      BY <1>4, <2>1, <2>2, <2>3, <2>4 DEF py25q16_realize, TypeOK, fileVars
  <1>5. CASE py25q16_exit_notify
    <2> DEFINE lo == IF dirty THEN 0 ELSE dirty_lo
               hi == IF dirty THEN Size ELSE dirty_hi
    <2>1. lo \in 0..Size /\ hi \in 0..Size
      BY SizeAssumption DEF TypeOK
    <2>2. \A a \in Addr : data[a] # Loaded[a] => dirty /\ lo <= a /\ a < hi
      BY SizeAssumption DEF DirtyCovers, Addr, TypeOK
    <2>3. py25q16_flush(lo, hi)
      BY <1>5 DEF py25q16_exit_notify
    <2> HIDE DEF lo, hi
    <2>4. /\ present' \in BOOLEAN /\ file' \in [Addr -> Byte] /\ flen' \in 0..Size
          /\ dirty' \in BOOLEAN /\ dirty_lo' \in 0..Size /\ dirty_hi' \in 0..Size
          /\ WholeFile'
          /\ DirtyCovers'
      BY <1>5, <2>1, <2>2, <2>3, FlushEffect DEF py25q16_exit_notify
    <2> QED
      BY <1>5, <2>4 DEF py25q16_exit_notify, TypeOK, busVars
  <1>6. CASE Kill
    <2>1. WholeFile' /\ DirtyCovers'
      BY <1>6, QuietStep DEF Kill
    <2> QED
      BY <1>6, <2>1 DEF Kill, TypeOK, busVars, dirtyVars, fileVars
  <1>7. CASE UNCHANGED vars
    <2>1. WholeFile' /\ DirtyCovers'
      BY <1>7, QuietStep DEF vars
    <2> QED
      BY <1>7, <2>1 DEF vars, TypeOK, busVars, dirtyVars, fileVars
  <1> QED
    BY <1>1, <1>2, <1>3, <1>4, <1>5, <1>6, <1>7 DEF Next

(***************************************************************************)
(* Type correctness, whole images and coverage of every difference by the  *)
(* dirty range hold in every reachable state of py25q16_xfer,              *)
(* py25q16_set_cs, py25q16_realize and py25q16_exit_notify.                *)
(***************************************************************************)
THEOREM FlashInvariant == ImageLens \subseteq {Size} /\ Spec => []Inv
  <1>1. ImageLens \subseteq {Size} /\ Init => Inv
    BY InitInv
  <1>2. Inv /\ [Next]_vars => Inv'
    BY NextInv
  <1> QED
    BY <1>1, <1>2, PTL DEF Spec

\* The declared types of the chip's fields and of the file.
THEOREM FlashTypeCorrect == ImageLens \subseteq {Size} /\ Spec => []TypeOK
  <1>1. Inv => TypeOK
    BY DEF Inv
  <1> QED
    BY <1>1, FlashInvariant, PTL

(***************************************************************************)
(* py25q16_flush writes only [dirty_lo, dirty_hi): nothing outside it can  *)
(* differ from what a power cycle brings back.                             *)
(***************************************************************************)
THEOREM FlashDirtyCovers == ImageLens \subseteq {Size} /\ Spec => []DirtyCovers
  <1>1. Inv => DirtyCovers
    BY DEF Inv
  <1> QED
    BY <1>1, FlashInvariant, PTL

(***************************************************************************)
(* Whenever py25q16_flush has cleared the dirty flag, py25q16_realize of   *)
(* the next process brings back exactly the contents of this one.          *)
(***************************************************************************)
THEOREM FlashCleanIsPersisted ==
    ImageLens \subseteq {Size} /\ Spec => []CleanIsPersisted
  <1>1. Inv => CleanIsPersisted
    <2> SUFFICES ASSUME Inv, ~dirty
                 PROVE  Loaded = data
      BY DEF CleanIsPersisted
    <2>1. \A a \in Addr : data[a] = Loaded[a]
      BY DEF Inv, DirtyCovers
    <2>2. data \in [Addr -> Byte]
      BY DEF Inv, TypeOK
    <2>3. Loaded \in [Addr -> Byte]
      BY DEF Inv, TypeOK, Loaded, Erased, Byte
    <2> QED
      BY <2>1, <2>2, <2>3
  <1> QED
    BY <1>1, FlashInvariant, PTL

(***************************************************************************)
(* No step removes the image or makes it shorter: neither the in-place     *)
(* write (short or not) nor the temporary file and rename of               *)
(* py25q16_flush can truncate it.                                          *)
(***************************************************************************)
THEOREM FlashNeverTruncated ==
    ImageLens \subseteq {Size} /\ Spec => NeverTruncated
  <1>1. Inv /\ [Next]_vars => [present => present' /\ flen' >= flen]_vars
    <2> SUFFICES ASSUME Inv, Next, present
                 PROVE  present' /\ flen' >= flen
      OBVIOUS
    <2> USE DEF Inv
    <2>1. flen \in 0..Size
      BY DEF TypeOK
    <2>2. CASE UNCHANGED fileVars
      BY <2>1, <2>2 DEF fileVars
    <2>3. CASE Deselect
      <3>1. dirty_lo \in 0..Size /\ dirty_hi \in 0..Size
        BY DEF TypeOK
      <3> QED
        BY <2>3, <3>1, FlushEffect DEF Deselect, DirtyCovers
    <2>4. CASE py25q16_exit_notify
      <3> DEFINE lo == IF dirty THEN 0 ELSE dirty_lo
                 hi == IF dirty THEN Size ELSE dirty_hi
      <3>1. lo \in 0..Size /\ hi \in 0..Size
        BY SizeAssumption DEF TypeOK
      <3>2. \A a \in Addr : data[a] # Loaded[a] => dirty /\ lo <= a /\ a < hi
        BY SizeAssumption DEF DirtyCovers, Addr, TypeOK
      <3>3. py25q16_flush(lo, hi)
        BY <2>4 DEF py25q16_exit_notify
      <3> HIDE DEF lo, hi
      <3> QED
        BY <2>4, <3>1, <3>2, <3>3, FlushEffect DEF py25q16_exit_notify
    <2>5. CASE py25q16_xfer
      BY <2>2, <2>5 DEF py25q16_xfer, XferDeselected, XferCommand, XferAddress,
                        XferErase, XferAfterErase, XferRead, XferProgram, XferOther, vars
    <2> QED
      BY <2>2, <2>3, <2>4, <2>5 DEF Next, Select, py25q16_realize, Kill
  <1> QED
    BY <1>1, FlashInvariant, PTL DEF Spec, NeverTruncated

-----------------------------------------------------------------------------
(* The refinement: FlashChip implements PersistentNor.                     *)

\* A multiple of a number leaves no remainder.
LEMMA MultipleMod ==
    ASSUME NEW n \in Nat \ {0}, NEW j \in Nat
    PROVE  (j * n) % n = 0
  OBVIOUS

\* The chip being whole sectors, what an erase starts at is a sector start,
\* also after the wrap around the end of the chip.
LEMMA SectorStartAligned ==
    ASSUME NEW a \in Nat
    PROVE  SectorStart(a) \in Nor!SectorStarts
  <1> DEFINE q == a \div Sector
             x == q * Sector
             m == x \div Size
             r == x % Size
  <1>1. q \in Nat
    BY SectorAssumption
  <1> HIDE DEF q
  <1>2. PICK k \in Nat : Size = k * Sector
    <2>1. Size \in Nat /\ Sector \in Nat \ {0}
      BY SizeAssumption, SectorAssumption
    <2>2. Size \div Sector \in Nat /\ Size = (Size \div Sector) * Sector + (Size % Sector)
      BY <2>1
    <2>3. Size = (Size \div Sector) * Sector
      BY <2>1, <2>2, AlignedAssumption
    <2> QED
      BY <2>2, <2>3
  <1>3. x \in Nat /\ m \in Nat /\ r \in 0..(Size - 1) /\ x = Size * m + r
    <2>1. x \in Nat
      BY <1>1, SectorAssumption
    <2> HIDE DEF x
    <2> QED
      BY <2>1, SizeAssumption
  <1> HIDE DEF m, r
  <1>4. r = (q - k * m) * Sector /\ r \in Nat
    BY <1>1, <1>2, <1>3, SizeAssumption, SectorAssumption
  <1>5. q - k * m \in Nat
    BY <1>1, <1>2, <1>3, <1>4, SectorAssumption
  <1>6. r % Sector = 0
    BY <1>4, <1>5, MultipleMod, SectorAssumption
  <1>7. SectorStart(a) = r
    BY DEF SectorStart, r, q
  <1> QED
    BY <1>3, <1>6, <1>7 DEF Nor!SectorStarts, Nor!Cells

\* A write-back puts into each byte of the disk what the chip holds there, or
\* leaves it: the disk never takes anything else, not even after a short write.
LEMMA FlushSyncs ==
    ASSUME TypeOK, WholeFile, NEW lo \in 0..Size, NEW hi \in 0..Size, py25q16_flush(lo, hi)
    PROVE  \A a \in Addr : Loaded'[a] = Loaded[a] \/ Loaded'[a] = data[a]
  <1>0. \A a \in Addr : a \in Nat /\ a < Size
    BY SizeAssumption DEF Addr
  <1>1. CASE UNCHANGED fileVars
    BY <1>1 DEF fileVars, Loaded
  <1>2. ASSUME NEW k \in 0..Size, present, WriteFile(lo, k)
        PROVE  \A a \in Addr : Loaded'[a] = Loaded[a] \/ Loaded'[a] = data[a]
    <2>1. /\ flen' = Size /\ present' = TRUE
          /\ \A a \in Addr : file'[a] = IF lo <= a /\ a < k THEN data[a] ELSE file[a]
      BY <1>2, WriteFileEffect
    <2>2. flen = Size
      BY <1>2 DEF WholeFile
    <2>3. \A a \in Addr : Loaded[a] = file[a] /\ Loaded'[a] = file'[a]
      BY <1>0, <1>2, <2>1, <2>2 DEF Loaded
    <2> QED
      BY <2>1, <2>3
  <1>3. CASE FlushReplace(lo, hi)
    BY <1>0, <1>3 DEF FlushReplace, Loaded
  <1>4. CASE FlushShort(lo, hi)
    <2>1. PICK k \in lo..hi : IF k = lo THEN UNCHANGED fileVars ELSE WriteFile(lo, k)
      BY <1>4 DEF FlushShort
    <2>2. k \in 0..Size
      BY <2>1, SizeAssumption
    <2>3. present
      BY <1>4 DEF FlushShort
    <2> QED
      BY <1>1, <1>2, <2>1, <2>2, <2>3
  <1> QED
    BY <1>1, <1>2, <1>3, <1>4 DEF py25q16_flush, FlushInPlace, FlushNothing, FlushFails

\* What the disk would bring back is always a chip's worth of bytes.
LEMMA LoadedType == TypeOK => Loaded \in [Addr -> Byte]
  BY DEF TypeOK, Loaded, Erased, Byte

\* A write-back with the process left running or on its way down is a NorSync.
LEMMA FlushIsSync ==
    ASSUME Inv, Inv', NEW lo \in 0..Size, NEW hi \in 0..Size, py25q16_flush(lo, hi),
           up, up' \in BOOLEAN, data' = data
    PROVE  Nor!NorSync
  <1>1. \A a \in Addr : Loaded'[a] \in {Loaded[a], data[a]}
    BY FlushSyncs DEF Inv
  <1>2. Loaded' \in [Addr -> Byte]
    BY LoadedType DEF Inv, TypeOK, Loaded, Erased, Byte
  <1> QED
    BY <1>1, <1>2 DEF Nor!NorSync, Nor!Cells, Addr, Byte

\* Every step of the chip is a step of the NOR part, or invisible to it.
LEMMA StepRefines == Inv /\ Inv' /\ [Next]_vars => [Nor!NorNext]_(Nor!norVars)
  <1> SUFFICES ASSUME Inv, Inv', [Next]_vars
               PROVE  Nor!NorNext \/ UNCHANGED <<data, Loaded, up>>
    BY DEF Nor!norVars
  <1>0. TypeOK /\ TypeOK'
    BY DEF Inv
  <1>1. ASSUME UNCHANGED fileVars PROVE Loaded' = Loaded
    BY <1>1 DEF fileVars, Loaded
  <1>2. ASSUME NEW d \in 0..(Base - 1), XferErase(d), write_enabled PROVE Nor!NorNext
    <2> DEFINE at == SectorStart(addr * Base + d)
    <2>1. addr * Base + d \in Nat
      BY <1>0, BaseAssumption DEF TypeOK
    <2>2. at \in Nor!SectorStarts
      BY <2>1, SectorStartAligned
    <2>3. /\ up /\ up' = up /\ Loaded' = Loaded
          /\ data' = [a \in Addr |-> IF at <= a /\ a < at + Sector THEN Erased ELSE data[a]]
      BY <1>1, <1>2 DEF XferErase, EraseSector
    <2> HIDE DEF at
    <2>4. Nor!NorErase(at)
      BY <2>3 DEF Nor!NorErase, Nor!Cells, Addr, Erased
    <2> QED
      BY <2>2, <2>4 DEF Nor!NorNext
  <1>3. ASSUME NEW v \in Byte, XferProgram(v), write_enabled PROVE Nor!NorNext
    <2> DEFINE at == addr % Size
    <2>1. at \in Addr
      BY <1>0, ModIsAddr DEF TypeOK
    <2>2. /\ up /\ up' = up /\ Loaded' = Loaded
          /\ data' = [data EXCEPT ![at] = data[at] \cap v]
      BY <1>1, <1>3 DEF XferProgram, ProgramByte
    <2> HIDE DEF at
    <2>3. data'[at] = data[at] \cap v
      BY <1>0, <2>1, <2>2 DEF TypeOK
    <2>4. Nor!NorProgram(at)
      BY <2>2, <2>3 DEF Nor!NorProgram
    <2> QED
      BY <2>1, <2>4 DEF Nor!NorNext, Nor!Cells, Addr
  <1>4. CASE py25q16_xfer
    <2>1. CASE UNCHANGED <<up, data, fileVars>>
      BY <1>1, <2>1
    <2> QED
      BY <1>2, <1>3, <1>4, <2>1
      DEF py25q16_xfer, XferDeselected, XferCommand, XferAddress, XferErase, XferAfterErase,
          XferRead, XferProgram, XferOther, vars
  <1>5. CASE Select
    BY <1>1, <1>5 DEF Select
  <1>6. CASE Deselect
    <2>1. Nor!NorSync
      BY <1>0, <1>6, FlushIsSync DEF Deselect, TypeOK
    <2> QED
      BY <2>1 DEF Nor!NorNext
  <1>7. CASE py25q16_realize
    BY <1>1, <1>7 DEF py25q16_realize, Nor!NorNext, Nor!NorPowerUp
  <1>8. CASE py25q16_exit_notify
    <2> DEFINE lo == IF dirty THEN 0 ELSE dirty_lo
               hi == IF dirty THEN Size ELSE dirty_hi
    <2>1. lo \in 0..Size /\ hi \in 0..Size
      BY <1>0, SizeAssumption DEF TypeOK
    <2>2. py25q16_flush(lo, hi) /\ up /\ up' = FALSE /\ data' = data
      BY <1>8 DEF py25q16_exit_notify
    <2> HIDE DEF lo, hi
    <2>3. Nor!NorSync
      BY <2>1, <2>2, FlushIsSync
    <2> QED
      BY <2>3 DEF Nor!NorNext
  <1>9. CASE Kill
    <2>1. up /\ up' = FALSE /\ data' = data /\ Loaded' = Loaded
      BY <1>1, <1>9 DEF Kill
    <2>2. Loaded \in [Nor!Cells -> SUBSET Bits]
      BY <1>0, LoadedType DEF Nor!Cells, Addr, Byte
    <2>3. Nor!NorSync
      BY <2>1, <2>2 DEF Nor!NorSync
    <2> QED
      BY <2>3 DEF Nor!NorNext
  <1>10. CASE UNCHANGED vars
    BY <1>1, <1>10 DEF vars
  <1> QED
    BY <1>4, <1>5, <1>6, <1>7, <1>8, <1>9, <1>10 DEF Next

(***************************************************************************)
(* The chip and its image file implement a persistent NOR part: contents   *)
(* change only by clearing bits or erasing a whole sector under power, the *)
(* disk only takes bytes the chip holds, power-up brings back the disk.    *)
(***************************************************************************)
THEOREM FlashRefinesNor == ImageLens \subseteq {Size} /\ Spec => RefinesNor
  <1>1. ImageLens \subseteq {Size} /\ Init => Nor!NorInit
    <2> SUFFICES ASSUME ImageLens \subseteq {Size}, Init PROVE Nor!NorInit
      OBVIOUS
    <2>1. Loaded \in [Addr -> Byte]
      BY InitInv, LoadedType DEF Inv
    <2> QED
      BY <2>1 DEF Init, Nor!NorInit, Nor!Cells, Addr, Byte
  <1> QED
    BY <1>1, FlashInvariant, StepRefines, PTL DEF Spec, RefinesNor, Nor!Spec

=============================================================================
