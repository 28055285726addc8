-------------------------- MODULE FlashLayoutProofs --------------------------
(***************************************************************************)
(* Theorems about FlashLayout for any layout, images, number of requests,  *)
(* edits and crashes.                                                      *)
(***************************************************************************)
EXTENDS FlashLayout, FiniteSetTheorems, SequenceTheorems, TLAPS

Values == Bytes \cup {"cal", "m"}
Cell == [kind : {"ff", "data", "FMB1", "FAP1"}, v : Seq(Values)]

-----------------------------------------------------------------------------
(* The layout: slots, markers and apps follow each other and do not meet. *)

\* The layout's constants, as far as arithmetic goes.
LEMMA Sizes ==
    /\ SLOT_BACKUP_BASE \in Nat /\ STATE_A_BASE \in Nat /\ STATE_B_BASE \in Nat
    /\ REGION_BASE \in Nat /\ FLASH_SIZE \in Nat
    /\ SLOT_COUNT \in Nat /\ SLOT_STRIDE \in Nat /\ SLOT_IMAGE_OFFSET \in Nat
    /\ 1 <= SLOT_IMAGE_OFFSET /\ SLOT_IMAGE_OFFSET <= SLOT_STRIDE
    /\ APP_COUNT \in Nat /\ 1 <= APP_COUNT /\ APP_STRIDE \in Nat /\ CODE_OFFSET \in Nat
    /\ 1 <= CODE_OFFSET /\ CODE_OFFSET <= APP_STRIDE
    /\ APP_OVERLAY_MAX \in Nat /\ CODE_OFFSET + APP_OVERLAY_MAX <= APP_STRIDE
    /\ STATE_A_BASE < STATE_B_BASE /\ STATE_B_BASE < REGION_BASE
    /\ REGION_BASE < FLASH_SIZE
<1>1. APP_COUNT * APP_STRIDE \in Nat /\ APP_COUNT * APP_STRIDE >= 1
  BY LayoutAssumption
<1> QED
  BY <1>1, LayoutAssumption

\* Multiples of a stride are a stride apart.
LEMMA Multiples ==
    ASSUME NEW k \in Nat, NEW s \in Nat, NEW t \in Nat, s < t
    PROVE  s * k \in Nat /\ t * k \in Nat /\ s * k + k <= t * k
<1>1. s * k + k = (s + 1) * k
  OBVIOUS
<1>2. (s + 1) * k <= t * k
  OBVIOUS
<1> QED
  BY <1>1, <1>2

LEMMA SlotRange ==
    ASSUME NEW s \in Slots
    PROVE  /\ slot_base(s) \in Nat
           /\ SLOT_BACKUP_BASE <= slot_base(s)
           /\ slot_base(s) + SLOT_STRIDE <= STATE_A_BASE
           /\ \A t \in Slots : s < t => slot_base(s) + SLOT_STRIDE <= slot_base(t)
<1>1. s \in Nat /\ s < SLOT_COUNT
  BY Sizes DEF Slots
<1>2. \A t \in Slots : t \in Nat /\ slot_base(t) = SLOT_BACKUP_BASE + t * SLOT_STRIDE
  <2> TAKE t \in Slots
  <2>1. t \in Nat
    BY Sizes DEF Slots
  <2>2. CASE t = 0
    BY <2>2, Sizes DEF slot_base
  <2>3. CASE t # 0
    BY <2>1, <2>3 DEF slot_base
  <2> QED
    BY <2>1, <2>2, <2>3
<1>3. /\ s * SLOT_STRIDE \in Nat /\ SLOT_COUNT * SLOT_STRIDE \in Nat
      /\ s * SLOT_STRIDE + SLOT_STRIDE <= SLOT_COUNT * SLOT_STRIDE
  BY <1>1, Sizes, Multiples
<1>4. ASSUME NEW t \in Slots, s < t PROVE slot_base(s) + SLOT_STRIDE <= slot_base(t)
  <2>1. t * SLOT_STRIDE \in Nat /\ s * SLOT_STRIDE + SLOT_STRIDE <= t * SLOT_STRIDE
    BY <1>1, <1>2, <1>4, Sizes, Multiples
  <2> QED
    BY <1>2, <1>3, <2>1, Sizes
<1>5. SLOT_BACKUP_BASE + SLOT_COUNT * SLOT_STRIDE <= STATE_A_BASE
  BY LayoutAssumption
<1> QED
  BY <1>2, <1>3, <1>4, <1>5, Sizes

LEMMA AppRange ==
    ASSUME NEW s \in Apps
    PROVE  /\ app_base(s) \in Nat
           /\ REGION_BASE <= app_base(s)
           /\ app_base(s) + APP_STRIDE <= FLASH_SIZE
           /\ \A t \in Apps : s < t => app_base(s) + APP_STRIDE <= app_base(t)
<1>1. s \in Nat /\ s < APP_COUNT
  BY Sizes DEF Apps
<1>3. /\ s * APP_STRIDE \in Nat /\ APP_COUNT * APP_STRIDE \in Nat
      /\ s * APP_STRIDE + APP_STRIDE <= APP_COUNT * APP_STRIDE
  BY <1>1, Sizes, Multiples
<1>4. ASSUME NEW t \in Apps, s < t PROVE app_base(s) + APP_STRIDE <= app_base(t)
  <2>1. t \in Nat
    BY Sizes DEF Apps
  <2>2. t * APP_STRIDE \in Nat /\ s * APP_STRIDE + APP_STRIDE <= t * APP_STRIDE
    BY <1>1, <1>4, <2>1, Sizes, Multiples
  <2> QED
    BY <1>3, <2>2, Sizes DEF app_base
<1>5. REGION_BASE + APP_COUNT * APP_STRIDE <= FLASH_SIZE
  BY LayoutAssumption
<1> QED
  BY <1>3, <1>4, <1>5, Sizes DEF app_base

-----------------------------------------------------------------------------
(* Cells and edits *)

LEMMA CellTypes ==
    /\ FF \in Cell
    /\ \A x \in Values : Data(x) \in Cell
    /\ Seq(Bytes) \subseteq Seq(Values)
    /\ \A image \in Seq(Values) : /\ Header("FMB1", image) \in Cell
                                  /\ Header("FAP1", image) \in Cell
                                  /\ Cells(image) \in Seq(Cell)
                                  /\ Len(Cells(image)) = Len(image)
                                  /\ \A i \in 1..Len(image) : Cells(image)[i] = Data(image[i])
<1>1. FF \in Cell
  BY EmptySeq DEF FF, Cell
<1>2. ASSUME NEW x \in Values PROVE Data(x) \in Cell
  <2>1. <<x>> \in Seq(Values)
    OBVIOUS
  <2> QED
    BY <2>1 DEF Data, Cell
<1>3. ASSUME NEW image \in Seq(Values)
      PROVE  /\ Header("FMB1", image) \in Cell
             /\ Header("FAP1", image) \in Cell
             /\ Cells(image) \in Seq(Cell)
             /\ Len(Cells(image)) = Len(image)
             /\ \A i \in 1..Len(image) : Cells(image)[i] = Data(image[i])
  <2>1. Len(image) \in Nat /\ DOMAIN image = 1..Len(image)
        /\ \A i \in 1..Len(image) : image[i] \in Values
    BY LenProperties, ElementOfSeq
  <2>3. Cells(image) = [i \in 1..Len(image) |-> Data(image[i])]
    BY <2>1 DEF Cells
  <2>4. \A i \in 1..Len(image) : Data(image[i]) \in Cell
    BY <1>2, <2>1
  <2>5. Cells(image) \in [1..Len(image) -> Cell]
    BY <2>3, <2>4
  <2>6. Cells(image) \in Seq(Cell) /\ Len(Cells(image)) = Len(image)
    BY <2>1, <2>5
  <2>7. \A i \in 1..Len(image) : Cells(image)[i] = Data(image[i])
    BY <2>3
  <2> QED
    BY <2>6, <2>7 DEF Header, Cell
<1>4. ASSUME NEW image \in Seq(Bytes) PROVE image \in Seq(Values)
  <2>1. Len(image) \in Nat /\ \A i \in 1..Len(image) : image[i] \in Bytes
    BY LenProperties, ElementOfSeq
  <2> QED
    BY <2>1 DEF Values
<1> QED
  BY <1>1, <1>2, <1>3, <1>4

\* A slice that lies in the buffer is replaced cell by cell, and nothing moves.
LEMMA SpliceCells ==
    ASSUME NEW b \in Seq(Cell), NEW cells \in Seq(Cell), NEW at \in Nat, NEW n \in Nat,
           Len(cells) = n, at + n <= Len(b)
    PROVE  /\ Splice(b, at, n, cells) \in Seq(Cell)
           /\ Len(Splice(b, at, n, cells)) = Len(b)
           /\ \A i \in 1..Len(b) : Splice(b, at, n, cells)[i] =
                  IF at < i /\ i <= at + n THEN cells[i - at] ELSE b[i]
<1> DEFINE before == SubSeq(b, 1, at)
           after == SubSeq(b, at + n + 1, Len(b))
<1>1. Len(b) \in Nat /\ \A i \in 1..Len(b) : b[i] \in Cell
  BY LenProperties, ElementOfSeq
<1>2. Splice(b, at, n, cells) = (before \o cells) \o after
  <2>1. Least(at, Len(b)) = at /\ Least(at + n, Len(b)) = at + n
    BY <1>1 DEF Least
  <2> QED
    BY <2>1 DEF Splice
<1>3. /\ before \in Seq(Cell) /\ Len(before) = at
      /\ \A i \in 1..at : before[i] = b[i]
  <2>1. \A i \in 1..at : b[i] \in Cell
    BY <1>1
  <2>2. /\ before \in Seq(Cell) /\ Len(before) = (IF 1 <= at THEN at - 1 + 1 ELSE 0)
        /\ \A i \in 1..(at - 1 + 1) : before[i] = b[1 + i - 1]
    BY <2>1, SubSeqProperties
  <2> QED
    BY <2>2
<1>4. /\ after \in Seq(Cell) /\ Len(after) = Len(b) - (at + n)
      /\ \A i \in 1..(Len(b) - (at + n)) : after[i] = b[at + n + i]
  <2>1. \A i \in (at + n + 1)..Len(b) : b[i] \in Cell
    BY <1>1
  <2>2. /\ after \in Seq(Cell)
        /\ Len(after) = (IF at + n + 1 <= Len(b) THEN Len(b) - (at + n + 1) + 1 ELSE 0)
        /\ \A i \in 1..(Len(b) - (at + n + 1) + 1) : after[i] = b[at + n + 1 + i - 1]
    BY <1>1, <2>1, SubSeqProperties
  <2>3. Len(after) = Len(b) - (at + n)
    BY <1>1, <2>2
  <2>4. ASSUME NEW i \in 1..(Len(b) - (at + n)) PROVE after[i] = b[at + n + i]
    BY <1>1, <2>2
  <2> QED
    BY <2>2, <2>3, <2>4
<1> HIDE DEF before, after
<1>5. PICK front \in Seq(Cell) : /\ front = before \o cells /\ Len(front) = at + n
                              /\ \A i \in 1..(at + n) : front[i] =
                                     IF i <= at THEN before[i] ELSE cells[i - at]
  <2>1. before \o cells \in Seq(Cell)
    BY <1>3, ConcatProperties
  <2> QED
    BY <1>3, <2>1, ConcatProperties
<1>6. /\ front \o after \in Seq(Cell) /\ Len(front \o after) = Len(b)
      /\ \A i \in 1..Len(b) : (front \o after)[i] = IF i <= at + n THEN front[i] ELSE after[i - (at + n)]
  <2>1. /\ front \o after \in Seq(Cell) /\ Len(front \o after) = Len(front) + Len(after)
        /\ \A i \in 1..(Len(front) + Len(after)) : (front \o after)[i] =
               IF i <= Len(front) THEN front[i] ELSE after[i - Len(front)]
    BY <1>4, ConcatProperties
  <2>2. Len(front) + Len(after) = Len(b)
    BY <1>1, <1>4, <1>5
  <2> QED
    BY <1>5, <2>1, <2>2
<1>7. ASSUME NEW i \in 1..Len(b)
      PROVE  (front \o after)[i] = IF at < i /\ i <= at + n THEN cells[i - at] ELSE b[i]
  <2>1. CASE i <= at
    <3>1. i \in 1..at /\ i \in 1..(at + n) /\ ~ (at < i)
      BY <1>1, <2>1
    <3>2. (front \o after)[i] = front[i] /\ front[i] = before[i] /\ before[i] = b[i]
      BY <1>3, <1>5, <1>6, <2>1, <3>1
    <3> QED
      BY <3>1, <3>2
  <2>2. CASE at < i /\ i <= at + n
    <3>1. i \in 1..(at + n) /\ ~ (i <= at)
      BY <1>1, <2>2
    <3>2. (front \o after)[i] = front[i] /\ front[i] = cells[i - at]
      BY <1>5, <1>6, <2>2, <3>1
    <3> QED
      BY <2>2, <3>2
  <2>3. CASE at + n < i
    <3>1. i - (at + n) \in 1..(Len(b) - (at + n))
      BY <1>1, <2>3
    <3>2. (front \o after)[i] = after[i - (at + n)]
      BY <1>6, <2>3
    <3>3. after[i - (at + n)] = b[i]
      BY <1>4, <3>1
    <3> QED
      BY <2>3, <3>2, <3>3
  <2>4. i <= at \/ (at < i /\ i <= at + n) \/ at + n < i
    BY <1>1
  <2> QED
    BY <2>1, <2>2, <2>3, <2>4, Zenon
<1> QED
  BY <1>2, <1>5, <1>6, <1>7

LEMMA FillCells ==
    ASSUME NEW b \in Seq(Cell), NEW at \in Nat, NEW n \in Nat, at + n <= Len(b)
    PROVE  /\ Fill(b, at, n) \in Seq(Cell)
           /\ Len(Fill(b, at, n)) = Len(b)
           /\ \A i \in 1..Len(b) : Fill(b, at, n)[i] = IF at < i /\ i <= at + n THEN FF ELSE b[i]
<1> DEFINE erased == [i \in 1..n |-> FF]
<1>1. erased \in Seq(Cell) /\ Len(erased) = n /\ \A i \in 1..n : erased[i] = FF
  <2>1. erased \in [1..n -> Cell]
    BY CellTypes
  <2> QED
    BY <2>1
<1>2. Fill(b, at, n) = Splice(b, at, n, erased)
  BY DEF Fill
<1> HIDE DEF erased
<1>3. /\ Splice(b, at, n, erased) \in Seq(Cell)
      /\ Len(Splice(b, at, n, erased)) = Len(b)
      /\ \A i \in 1..Len(b) : Splice(b, at, n, erased)[i] =
             IF at < i /\ i <= at + n THEN erased[i - at] ELSE b[i]
  BY <1>1, SpliceCells
<1>4. Len(b) \in Nat
  BY LenProperties
<1>5. ASSUME NEW i \in 1..Len(b), at < i, i <= at + n PROVE erased[i - at] = FF
  BY <1>1, <1>4, <1>5
<1> QED
  BY <1>2, <1>3, <1>5

LEMMA TakenCells ==
    ASSUME NEW T, NEW b \in Seq(T), NEW at \in Nat, NEW n \in Nat, at + n <= Len(b)
    PROVE  /\ Taken(b, at, n) \in Seq(T)
           /\ Len(Taken(b, at, n)) = n
           /\ \A i \in 1..n : Taken(b, at, n)[i] = b[at + i]
<1>1. Len(b) \in Nat /\ \A i \in 1..Len(b) : b[i] \in T
  BY LenProperties, ElementOfSeq
<1>2. Taken(b, at, n) = SubSeq(b, at + 1, at + n)
  <2>1. Least(at, Len(b)) = at /\ Least(at + n, Len(b)) = at + n
    BY <1>1 DEF Least
  <2> QED
    BY <2>1 DEF Taken
<1>3. \A i \in (at + 1)..(at + n) : b[i] \in T
  BY <1>1
<1>4. /\ SubSeq(b, at + 1, at + n) \in Seq(T)
      /\ Len(SubSeq(b, at + 1, at + n)) = (IF at + 1 <= at + n THEN at + n - (at + 1) + 1 ELSE 0)
      /\ \A i \in 1..(at + n - (at + 1) + 1) : SubSeq(b, at + 1, at + n)[i] = b[at + 1 + i - 1]
  BY <1>3, SubSeqProperties
<1>5. ASSUME NEW i \in 1..n PROVE SubSeq(b, at + 1, at + n)[i] = b[at + i]
  BY <1>4
<1> QED
  BY <1>2, <1>4, <1>5

\* The cells that carry an image, at the place a header points to.
Carries(b, at, image) == \A i \in 1..Len(image) : b[at + i] = Data(image[i])

\* A CRC is right when the cells are the image's.
LEMMA TakenIsImage ==
    ASSUME NEW b \in Seq(Cell), NEW at \in Nat, NEW image \in Seq(Values),
           at + Len(image) <= Len(b)
    PROVE  Taken(b, at, Len(image)) = Cells(image) <=> Carries(b, at, image)
<1>1. Len(image) \in Nat
  BY LenProperties
<1>2. /\ Taken(b, at, Len(image)) \in Seq(Cell) /\ Len(Taken(b, at, Len(image))) = Len(image)
      /\ \A i \in 1..Len(image) : Taken(b, at, Len(image))[i] = b[at + i]
  BY <1>1, TakenCells
<1>3. /\ Cells(image) \in Seq(Cell) /\ Len(Cells(image)) = Len(image)
      /\ \A i \in 1..Len(image) : Cells(image)[i] = Data(image[i])
  BY CellTypes
<1>4. ASSUME Taken(b, at, Len(image)) = Cells(image) PROVE Carries(b, at, image)
  BY <1>2, <1>3, <1>4 DEF Carries
<1>5. ASSUME Carries(b, at, image) PROVE Taken(b, at, Len(image)) = Cells(image)
  <2>1. \A i \in 1..Len(image) : Taken(b, at, Len(image))[i] = Cells(image)[i]
    BY <1>2, <1>3, <1>5 DEF Carries
  <2> QED
    BY <1>2, <1>3, <2>1, SeqEqual
<1> QED
  BY <1>4, <1>5

-----------------------------------------------------------------------------
(* Reading an image *)

Flash == {b \in Seq(Cell) : Len(b) = FLASH_SIZE}

LEMMA FlashCells ==
    ASSUME NEW b \in Flash
    PROVE  /\ b \in Seq(Cell) /\ Len(b) = FLASH_SIZE
           /\ \A c \in 1..FLASH_SIZE : b[c] \in Cell
           /\ \A c \in 0..(FLASH_SIZE - 1) : CellAt(b, c) = b[c + 1]
<1>1. b \in Seq(Cell) /\ Len(b) = FLASH_SIZE
  BY DEF Flash
<1>2. \A c \in 1..FLASH_SIZE : b[c] \in Cell
  BY <1>1, ElementOfSeq
<1>3. ASSUME NEW c \in 0..(FLASH_SIZE - 1) PROVE CellAt(b, c) = b[c + 1]
  BY <1>1, Sizes DEF CellAt
<1> QED
  BY <1>1, <1>2, <1>3

\* What a slot reads as, by its header and its cells.
LEMMA SlotReading ==
    ASSUME NEW b \in Flash, NEW s \in Slots, NEW h, h = b[slot_base(s) + 1]
    PROVE  /\ h.kind # "FMB1" => read_slot(b, s) = Empty
           /\ h.kind = "FMB1" => read_slot(b, s).image = h.v
           /\ h.kind = "FMB1" /\ Fits(h.v) =>
                  read_slot(b, s) =
                      IF Carries(b, slot_base(s) + SLOT_IMAGE_OFFSET, h.v) THEN Holds(h.v)
                      ELSE [state |-> "mismatch", image |-> h.v]
<1>1. /\ slot_base(s) \in 0..(FLASH_SIZE - 1) /\ slot_base(s) + 1 \in 1..FLASH_SIZE
      /\ slot_base(s) + SLOT_STRIDE <= FLASH_SIZE /\ slot_base(s) + SLOT_IMAGE_OFFSET \in Nat
  BY SlotRange, Sizes
<1>2. CellAt(b, slot_base(s)) = h /\ h \in Cell /\ b \in Seq(Cell) /\ Len(b) = FLASH_SIZE
  BY <1>1, FlashCells
<1>3. h.v \in Seq(Values)
  BY <1>2 DEF Cell
<1> DEFINE got == Taken(b, slot_base(s) + SLOT_IMAGE_OFFSET, Len(h.v))
<1>4. read_slot(b, s) = IF h.kind # "FMB1" THEN Empty
                        ELSE [state |-> IF got = Cells(h.v) THEN "ok" ELSE "mismatch", image |-> h.v]
  BY <1>2 DEF read_slot
<1>5. ASSUME Fits(h.v)
      PROVE  got = Cells(h.v) <=> Carries(b, slot_base(s) + SLOT_IMAGE_OFFSET, h.v)
  <2>1. Len(h.v) \in Nat
    BY <1>3, LenProperties
  <2>2. slot_base(s) + SLOT_IMAGE_OFFSET + Len(h.v) <= Len(b)
    BY <1>1, <1>2, <1>5, <2>1, Sizes, SlotRange DEF Fits
  <2> QED
    BY <1>1, <1>2, <1>3, <2>2, TakenIsImage
<1> HIDE DEF got
<1> QED
  BY <1>4, <1>5 DEF Holds

LEMMA AppReading ==
    ASSUME NEW b \in Flash, NEW s \in Apps, NEW h, h = b[app_base(s) + 1]
    PROVE  /\ h.kind = "ff" => read_app(b, s) = Empty
           /\ h.kind \notin {"ff", "FAP1"} => read_app(b, s) = Other
           /\ h.kind = "FAP1" => read_app(b, s).image = h.v
           /\ h.kind = "FAP1" /\ Len(h.v) <= APP_OVERLAY_MAX =>
                  read_app(b, s) =
                      IF Carries(b, app_base(s) + CODE_OFFSET, h.v) THEN Holds(h.v)
                      ELSE [state |-> "mismatch", image |-> h.v]
<1>1. /\ app_base(s) \in 0..(FLASH_SIZE - 1) /\ app_base(s) + 1 \in 1..FLASH_SIZE
      /\ app_base(s) + APP_STRIDE <= FLASH_SIZE /\ app_base(s) + CODE_OFFSET \in Nat
  BY AppRange, Sizes
<1>2. CellAt(b, app_base(s)) = h /\ h \in Cell /\ b \in Seq(Cell) /\ Len(b) = FLASH_SIZE
  BY <1>1, FlashCells
<1>3. h.v \in Seq(Values)
  BY <1>2 DEF Cell
<1> DEFINE got == Taken(b, app_base(s) + CODE_OFFSET, Len(h.v))
<1>4. read_app(b, s) =
        CASE h.kind = "ff"   -> Empty
          [] h.kind = "FAP1" -> [state |-> IF got = Cells(h.v) THEN "ok" ELSE "mismatch", image |-> h.v]
          [] OTHER           -> Other
  <2>1. ~ (app_base(s) + APP_STRIDE > Len(b))
    BY <1>1, <1>2, AppRange, Sizes
  <2> QED
    BY <1>2, <2>1 DEF read_app
<1>5. ASSUME Len(h.v) <= APP_OVERLAY_MAX
      PROVE  got = Cells(h.v) <=> Carries(b, app_base(s) + CODE_OFFSET, h.v)
  <2>1. Len(h.v) \in Nat
    BY <1>3, LenProperties
  <2>2. app_base(s) + CODE_OFFSET + Len(h.v) <= Len(b)
    BY <1>1, <1>2, <1>5, <2>1, Sizes, AppRange
  <2> QED
    BY <1>1, <1>2, <1>3, <2>2, TakenIsImage
<1> HIDE DEF got
<1> QED
  BY <1>4, <1>5 DEF Holds

\* A reader of a slot whose image fits looks at nothing but the slot.
LEMMA SlotLocal ==
    ASSUME NEW b \in Flash, NEW e \in Flash, NEW s \in Slots, Fits(read_slot(b, s).image),
           \A c \in 1..FLASH_SIZE : slot_base(s) < c /\ c <= slot_base(s) + SLOT_STRIDE => e[c] = b[c]
    PROVE  read_slot(e, s) = read_slot(b, s)
<1> DEFINE h == b[slot_base(s) + 1]
           at == slot_base(s) + SLOT_IMAGE_OFFSET
<1>1. /\ slot_base(s) \in Nat /\ slot_base(s) + 1 \in 1..FLASH_SIZE
      /\ slot_base(s) + SLOT_STRIDE <= FLASH_SIZE
  BY SlotRange, Sizes
<1>2. e[slot_base(s) + 1] = h /\ h \in Cell
  BY <1>1, FlashCells, Sizes
<1>3. CASE h.kind # "FMB1"
  BY <1>2, <1>3, SlotReading
<1>4. CASE h.kind = "FMB1"
  <2>1. Fits(h.v)
    BY <1>4, SlotReading
  <2>2. h.v \in Seq(Values) /\ Len(h.v) \in Nat
    BY <1>2, LenProperties DEF Cell
  <2> HIDE DEF h
  <2>3. ASSUME NEW i \in 1..Len(h.v) PROVE e[at + i] = b[at + i]
    <3>1. at + i \in 1..FLASH_SIZE /\ slot_base(s) < at + i /\ at + i <= slot_base(s) + SLOT_STRIDE
      BY <1>1, <2>1, <2>2, Sizes DEF Fits
    <3> QED
      BY <3>1
  <2>4. Carries(e, at, h.v) <=> Carries(b, at, h.v)
    BY <2>3 DEF Carries
  <2>5. read_slot(b, s) = IF Carries(b, at, h.v) THEN Holds(h.v) ELSE [state |-> "mismatch", image |-> h.v]
    BY <1>4, <2>1, SlotReading DEF h
  <2>6. read_slot(e, s) = IF Carries(e, at, h.v) THEN Holds(h.v) ELSE [state |-> "mismatch", image |-> h.v]
    BY <1>2, <1>4, <2>1, SlotReading
  <2> QED
    BY <2>4, <2>5, <2>6
<1> QED
  BY <1>3, <1>4

LEMMA AppLocal ==
    ASSUME NEW b \in Flash, NEW e \in Flash, NEW s \in Apps,
           Len(read_app(b, s).image) <= APP_OVERLAY_MAX,
           \A c \in 1..FLASH_SIZE : app_base(s) < c /\ c <= app_base(s) + APP_STRIDE => e[c] = b[c]
    PROVE  read_app(e, s) = read_app(b, s)
<1> DEFINE h == b[app_base(s) + 1]
           at == app_base(s) + CODE_OFFSET
<1>1. /\ app_base(s) \in Nat /\ app_base(s) + 1 \in 1..FLASH_SIZE
      /\ app_base(s) + APP_STRIDE <= FLASH_SIZE
  BY AppRange, Sizes
<1>2. e[app_base(s) + 1] = h /\ h \in Cell
  BY <1>1, FlashCells, Sizes
<1>3. CASE h.kind # "FAP1"
  <2>1. CASE h.kind = "ff"
    BY <1>2, <2>1, AppReading
  <2>2. CASE h.kind # "ff"
    BY <1>2, <1>3, <2>2, AppReading
  <2> QED
    BY <2>1, <2>2
<1>4. CASE h.kind = "FAP1"
  <2>1. Len(h.v) <= APP_OVERLAY_MAX
    BY <1>4, AppReading
  <2>2. h.v \in Seq(Values) /\ Len(h.v) \in Nat
    BY <1>2, LenProperties DEF Cell
  <2> HIDE DEF h
  <2>3. ASSUME NEW i \in 1..Len(h.v) PROVE e[at + i] = b[at + i]
    <3>1. at + i \in 1..FLASH_SIZE /\ app_base(s) < at + i /\ at + i <= app_base(s) + APP_STRIDE
      BY <1>1, <2>1, <2>2, Sizes
    <3> QED
      BY <3>1
  <2>4. Carries(e, at, h.v) <=> Carries(b, at, h.v)
    BY <2>3 DEF Carries
  <2>5. read_app(b, s) = IF Carries(b, at, h.v) THEN Holds(h.v) ELSE [state |-> "mismatch", image |-> h.v]
    BY <1>4, <2>1, AppReading DEF h
  <2>6. read_app(e, s) = IF Carries(e, at, h.v) THEN Holds(h.v) ELSE [state |-> "mismatch", image |-> h.v]
    BY <1>2, <1>4, <2>1, AppReading
  <2> QED
    BY <2>4, <2>5, <2>6
<1> QED
  BY <1>3, <1>4

-----------------------------------------------------------------------------
(* The edits: what they leave in their slot or app, and nothing beside it. *)

LEMMA EraseStateCells ==
    ASSUME NEW b \in Flash
    PROVE  /\ erase_state(b) \in Flash
           /\ erase_state(b)[STATE_A_BASE + 1] = FF /\ erase_state(b)[STATE_B_BASE + 1] = FF
           /\ \A c \in 1..FLASH_SIZE :
                 c # STATE_A_BASE + 1 /\ c # STATE_B_BASE + 1 => erase_state(b)[c] = b[c]
<1> DEFINE a == Fill(b, STATE_A_BASE, 1)
           z == Fill(a, STATE_B_BASE, 1)
<1>1. /\ STATE_A_BASE \in Nat /\ STATE_A_BASE + 1 <= FLASH_SIZE
      /\ STATE_B_BASE \in Nat /\ STATE_B_BASE + 1 <= FLASH_SIZE
      /\ STATE_A_BASE # STATE_B_BASE /\ FLASH_SIZE \in Nat
  BY Sizes
<1>2. b \in Seq(Cell) /\ Len(b) = FLASH_SIZE
  BY FlashCells
<1>3. /\ a \in Seq(Cell) /\ Len(a) = FLASH_SIZE
      /\ \A c \in 1..FLASH_SIZE : a[c] = IF STATE_A_BASE < c /\ c <= STATE_A_BASE + 1 THEN FF ELSE b[c]
  BY <1>1, <1>2, FillCells
<1> HIDE DEF a
<1>4. /\ z \in Seq(Cell) /\ Len(z) = FLASH_SIZE
      /\ \A c \in 1..FLASH_SIZE : z[c] = IF STATE_B_BASE < c /\ c <= STATE_B_BASE + 1 THEN FF ELSE a[c]
  BY <1>1, <1>3, FillCells
<1>5. erase_state(b) = z
  BY DEF erase_state, a
<1> HIDE DEF z
<1>6. ASSUME NEW c \in 1..FLASH_SIZE
      PROVE  z[c] = IF c = STATE_A_BASE + 1 \/ c = STATE_B_BASE + 1 THEN FF ELSE b[c]
  BY <1>1, <1>3, <1>4
<1>7. STATE_A_BASE + 1 \in 1..FLASH_SIZE /\ STATE_B_BASE + 1 \in 1..FLASH_SIZE
  BY <1>1
<1> QED
  BY <1>4, <1>5, <1>6, <1>7 DEF Flash

\* A cell of the image outside a slot, or outside an app.
BesideSlot(c, s) == c <= slot_base(s) \/ slot_base(s) + SLOT_STRIDE < c
BesideApp(c, s) == c <= app_base(s) \/ app_base(s) + APP_STRIDE < c

LEMMA PlaceHeader ==
    ASSUME NEW b \in Flash, NEW at \in Nat, at + 1 <= FLASH_SIZE, NEW x \in Cell
    PROVE  /\ Splice(b, at, 1, <<x>>) \in Flash
           /\ \A c \in 1..FLASH_SIZE : Splice(b, at, 1, <<x>>)[c] = IF c = at + 1 THEN x ELSE b[c]
<1>1. PICK one \in Seq(Cell) : one = <<x>> /\ Len(one) = 1 /\ one[1] = x
  <2>1. <<x>> \in Seq(Cell) /\ Len(<<x>>) = 1 /\ <<x>>[1] = x
    OBVIOUS
  <2> QED
    BY <2>1, Zenon
<1>2. b \in Seq(Cell) /\ Len(b) = FLASH_SIZE
  BY FlashCells
<1>3. /\ Splice(b, at, 1, one) \in Seq(Cell) /\ Len(Splice(b, at, 1, one)) = FLASH_SIZE
      /\ \A c \in 1..FLASH_SIZE : Splice(b, at, 1, one)[c] =
             IF at < c /\ c <= at + 1 THEN one[c - at] ELSE b[c]
  <2>1. PICK n \in Nat : n = 1 /\ at + n <= Len(b)
    BY <1>2
  <2>a. Len(one) = n
    BY <1>1, <2>1
  <2>2. /\ Splice(b, at, n, one) \in Seq(Cell) /\ Len(Splice(b, at, n, one)) = Len(b)
        /\ \A c \in 1..Len(b) : Splice(b, at, n, one)[c] =
               IF at < c /\ c <= at + n THEN one[c - at] ELSE b[c]
    BY <1>2, <2>1, <2>a, SpliceCells
  <2> QED
    BY <1>2, <2>1, <2>2
<1>4. ASSUME NEW c \in 1..FLASH_SIZE
      PROVE  Splice(b, at, 1, one)[c] = IF c = at + 1 THEN x ELSE b[c]
  <2>1. CASE c = at + 1
    <3>1. at < c /\ c <= at + 1 /\ c - at = 1
      BY <2>1
    <3> QED
      BY <1>1, <1>3, <2>1, <3>1
  <2>2. CASE c # at + 1
    <3>1. ~ (at < c /\ c <= at + 1)
      BY <2>2, Sizes
    <3> QED
      BY <1>3, <2>2, <3>1
  <2> QED
    BY <2>1, <2>2
<1> QED
  BY <1>1, <1>3, <1>4 DEF Flash

LEMMA PlaceImage ==
    ASSUME NEW b \in Flash, NEW at \in Nat, NEW image \in Seq(Values), at + Len(image) <= FLASH_SIZE
    PROVE  /\ Splice(b, at, Len(image), Cells(image)) \in Flash
           /\ Carries(Splice(b, at, Len(image), Cells(image)), at, image)
           /\ \A c \in 1..FLASH_SIZE : c <= at \/ at + Len(image) < c =>
                  Splice(b, at, Len(image), Cells(image))[c] = b[c]
<1>1. b \in Seq(Cell) /\ Len(b) = FLASH_SIZE /\ Len(image) \in Nat /\ FLASH_SIZE \in Nat
  BY FlashCells, LenProperties, Sizes
<1>2. /\ Cells(image) \in Seq(Cell) /\ Len(Cells(image)) = Len(image)
      /\ \A i \in 1..Len(image) : Cells(image)[i] = Data(image[i])
  BY CellTypes
<1>3. PICK e \in Seq(Cell) :
          /\ e = Splice(b, at, Len(image), Cells(image)) /\ Len(e) = FLASH_SIZE
          /\ \A c \in 1..FLASH_SIZE : e[c] =
                IF at < c /\ c <= at + Len(image) THEN Cells(image)[c - at] ELSE b[c]
  <2>1. PICK n \in Nat : n = Len(image)
    BY <1>1
  <2>2. PICK cells \in Seq(Cell) : cells = Cells(image) /\ Len(cells) = n
    BY <1>2, <2>1
  <2>3. at + n <= Len(b)
    BY <1>1, <2>1
  <2>4. /\ Splice(b, at, n, cells) \in Seq(Cell) /\ Len(Splice(b, at, n, cells)) = Len(b)
        /\ \A c \in 1..Len(b) : Splice(b, at, n, cells)[c] =
               IF at < c /\ c <= at + n THEN cells[c - at] ELSE b[c]
    BY <1>1, <2>2, <2>3, SpliceCells
  <2> QED
    BY <1>1, <2>1, <2>2, <2>4
<1>4. Carries(e, at, image)
  <2> SUFFICES ASSUME NEW i \in 1..Len(image) PROVE e[at + i] = Data(image[i])
    BY DEF Carries
  <2>1. PICK c \in 1..FLASH_SIZE : c = at + i /\ at < c /\ c <= at + Len(image) /\ c - at = i
    BY <1>1
  <2>2. e[c] = Cells(image)[i]
    BY <1>3, <2>1
  <2> QED
    BY <1>2, <2>1, <2>2
<1>5. ASSUME NEW c \in 1..FLASH_SIZE, c <= at \/ at + Len(image) < c PROVE e[c] = b[c]
  <2>1. ~ (at < c /\ c <= at + Len(image))
    BY <1>1, <1>5
  <2> QED
    BY <1>3, <2>1
<1> QED
  BY <1>3, <1>4, <1>5 DEF Flash

LEMMA WriteSlotCells ==
    ASSUME NEW b \in Flash, NEW s \in Slots, NEW image \in Seq(Bytes), Fits(image)
    PROVE  /\ write_slot(b, s, image) \in Flash
           /\ read_slot(write_slot(b, s, image), s) = Holds(image)
           /\ \A c \in 1..FLASH_SIZE : BesideSlot(c, s) => write_slot(b, s, image)[c] = b[c]
<1> DEFINE header == Header("FMB1", image)
<1>1. PICK base \in Nat : base = slot_base(s) /\ base + SLOT_STRIDE <= FLASH_SIZE
  BY SlotRange, Sizes
<1>2. PICK at \in Nat : at = base + SLOT_IMAGE_OFFSET
  BY Sizes
<1>3. image \in Seq(Values) /\ header \in Cell /\ header.kind = "FMB1" /\ header.v = image
  BY CellTypes DEF Header
<1> HIDE DEF header
<1>4. /\ Len(image) \in Nat /\ base + 1 <= at /\ at + Len(image) <= base + SLOT_STRIDE
      /\ base + 1 <= FLASH_SIZE /\ at + Len(image) <= FLASH_SIZE
  BY <1>1, <1>2, LenProperties, Sizes DEF Fits
<1>5. PICK a \in Flash : /\ a = Splice(b, base, 1, <<header>>)
                         /\ \A c \in 1..FLASH_SIZE : a[c] = IF c = base + 1 THEN header ELSE b[c]
  BY <1>3, <1>4, PlaceHeader
<1>6. PICK e \in Flash : /\ e = Splice(a, at, Len(image), Cells(image))
                         /\ Carries(e, at, image)
                         /\ \A c \in 1..FLASH_SIZE : c <= at \/ at + Len(image) < c => e[c] = a[c]
  BY <1>3, <1>4, PlaceImage
<1>7. write_slot(b, s, image) = e
  BY <1>1, <1>2, <1>5, <1>6 DEF write_slot, header
<1>8. e[base + 1] = header
  <2>1. base + 1 \in 1..FLASH_SIZE /\ base + 1 <= at
    BY <1>4, Sizes
  <2> QED
    BY <1>5, <1>6, <2>1
<1>9. read_slot(e, s) = Holds(image)
  BY <1>1, <1>2, <1>3, <1>6, <1>8, SlotReading
<1>10. ASSUME NEW c \in 1..FLASH_SIZE, BesideSlot(c, s) PROVE e[c] = b[c]
  <2>1. (c <= at \/ at + Len(image) < c) /\ c # base + 1
    BY <1>1, <1>2, <1>4, <1>10, Sizes DEF BesideSlot
  <2> QED
    BY <1>5, <1>6, <2>1
<1> QED
  BY <1>7, <1>9, <1>10

LEMMA EraseSlotCells ==
    ASSUME NEW b \in Flash, NEW s \in Slots
    PROVE  /\ erase_slot(b, s) \in Flash
           /\ read_slot(erase_slot(b, s), s) = Empty
           /\ \A c \in 1..FLASH_SIZE : BesideSlot(c, s) => erase_slot(b, s)[c] = b[c]
<1> DEFINE base == slot_base(s)
           e == Fill(b, base, SLOT_STRIDE)
<1>1. /\ base \in Nat /\ base + SLOT_STRIDE <= FLASH_SIZE
      /\ SLOT_STRIDE \in Nat /\ 1 <= SLOT_STRIDE /\ FLASH_SIZE \in Nat
  BY SlotRange, Sizes
<1>2. b \in Seq(Cell) /\ Len(b) = FLASH_SIZE
  BY FlashCells
<1>3. erase_slot(b, s) = e
  BY DEF erase_slot
<1> HIDE DEF base
<1>4. /\ e \in Seq(Cell) /\ Len(e) = FLASH_SIZE
      /\ \A c \in 1..FLASH_SIZE : e[c] = IF base < c /\ c <= base + SLOT_STRIDE THEN FF ELSE b[c]
  BY <1>1, <1>2, FillCells
<1> HIDE DEF e
<1>5. e \in Flash
  BY <1>4 DEF Flash
<1>6. e[base + 1] = FF
  BY <1>1, <1>4
<1>7. read_slot(e, s) = Empty
  <2>1. FF.kind # "FMB1"
    BY DEF FF
  <2> QED
    BY <1>5, <1>6, <2>1, SlotReading DEF base
<1>8. ASSUME NEW c \in 1..FLASH_SIZE, BesideSlot(c, s) PROVE e[c] = b[c]
  <2>1. ~ (base < c /\ c <= base + SLOT_STRIDE)
    BY <1>1, <1>8 DEF BesideSlot, base
  <2> QED
    BY <1>4, <2>1
<1> QED
  BY <1>3, <1>5, <1>7, <1>8

LEMMA EraseCells ==
    ASSUME NEW b \in Flash, NEW s \in Apps
    PROVE  /\ erase(b, s) \in Flash
           /\ read_app(erase(b, s), s) = Empty
           /\ \A c \in 1..FLASH_SIZE : BesideApp(c, s) => erase(b, s)[c] = b[c]
<1> DEFINE base == app_base(s)
           e == Fill(b, base, APP_STRIDE)
<1>1. /\ base \in Nat /\ base + APP_STRIDE <= FLASH_SIZE
      /\ APP_STRIDE \in Nat /\ 1 <= APP_STRIDE /\ FLASH_SIZE \in Nat
  BY AppRange, Sizes
<1>2. b \in Seq(Cell) /\ Len(b) = FLASH_SIZE
  BY FlashCells
<1>3. erase(b, s) = e
  BY DEF erase
<1> HIDE DEF base
<1>4. /\ e \in Seq(Cell) /\ Len(e) = FLASH_SIZE
      /\ \A c \in 1..FLASH_SIZE : e[c] = IF base < c /\ c <= base + APP_STRIDE THEN FF ELSE b[c]
  BY <1>1, <1>2, FillCells
<1> HIDE DEF e
<1>5. e \in Flash
  BY <1>4 DEF Flash
<1>6. e[base + 1] = FF
  BY <1>1, <1>4
<1>7. read_app(e, s) = Empty
  <2>1. FF.kind = "ff"
    BY DEF FF
  <2> QED
    BY <1>5, <1>6, <2>1, AppReading DEF base
<1>8. ASSUME NEW c \in 1..FLASH_SIZE, BesideApp(c, s) PROVE e[c] = b[c]
  <2>1. ~ (base < c /\ c <= base + APP_STRIDE)
    BY <1>1, <1>8 DEF BesideApp, base
  <2> QED
    BY <1>4, <2>1
<1> QED
  BY <1>3, <1>5, <1>7, <1>8

LEMMA InstallCells ==
    ASSUME NEW b \in Flash, NEW s \in Apps, NEW code \in Seq(Bytes), Len(code) <= APP_OVERLAY_MAX
    PROVE  /\ install(b, s, code) \in Flash
           /\ read_app(install(b, s, code), s) = Holds(code)
           /\ \A c \in 1..FLASH_SIZE : BesideApp(c, s) => install(b, s, code)[c] = b[c]
<1> DEFINE header == Header("FAP1", code)
<1>1. PICK base \in Nat : base = app_base(s) /\ base + APP_STRIDE <= FLASH_SIZE
  BY AppRange, Sizes
<1>2. PICK at \in Nat : at = base + CODE_OFFSET
  BY Sizes
<1>3. code \in Seq(Values) /\ header \in Cell /\ header.kind = "FAP1" /\ header.v = code
  BY CellTypes DEF Header
<1> HIDE DEF header
<1>4. /\ Len(code) \in Nat /\ base + 1 <= at /\ at + Len(code) <= base + APP_STRIDE
      /\ base + 1 <= FLASH_SIZE /\ at + Len(code) <= FLASH_SIZE
  BY <1>1, <1>2, LenProperties, Sizes
<1>a. PICK f \in Flash : /\ f = erase(b, s)
                         /\ \A c \in 1..FLASH_SIZE : BesideApp(c, s) => f[c] = b[c]
  BY EraseCells
<1>5. PICK a \in Flash : /\ a = Splice(f, base, 1, <<header>>)
                         /\ \A c \in 1..FLASH_SIZE : a[c] = IF c = base + 1 THEN header ELSE f[c]
  BY <1>3, <1>4, PlaceHeader
<1>6. PICK e \in Flash : /\ e = Splice(a, at, Len(code), Cells(code))
                         /\ Carries(e, at, code)
                         /\ \A c \in 1..FLASH_SIZE : c <= at \/ at + Len(code) < c => e[c] = a[c]
  BY <1>3, <1>4, PlaceImage
<1>7. install(b, s, code) = e
  BY <1>1, <1>2, <1>5, <1>6, <1>a DEF install, erase, header
<1>8. e[base + 1] = header
  <2>1. base + 1 \in 1..FLASH_SIZE /\ base + 1 <= at
    BY <1>4, Sizes
  <2> QED
    BY <1>5, <1>6, <2>1
<1>9. read_app(e, s) = Holds(code)
  BY <1>1, <1>2, <1>3, <1>6, <1>8, AppReading
<1>10. ASSUME NEW c \in 1..FLASH_SIZE, BesideApp(c, s) PROVE e[c] = b[c]
  <2>1. (c <= at \/ at + Len(code) < c) /\ c # base + 1
    BY <1>1, <1>2, <1>4, <1>10, Sizes DEF BesideApp
  <2> QED
    BY <1>5, <1>6, <1>10, <1>a, <2>1
<1> QED
  BY <1>7, <1>9, <1>10

-----------------------------------------------------------------------------
(* Good images *)

\* An image that is read back without a CRC error and in which no slot or app
\* claims more than its room, which is what keeps a reader inside it.
Good(b) ==
    /\ Len(b) = FLASH_SIZE
    /\ \A s \in Slots : read_slot(b, s).state # "mismatch" /\ Fits(read_slot(b, s).image)
    /\ \A s \in Apps : /\ read_app(b, s).state # "mismatch"
                       /\ Len(read_app(b, s).image) <= APP_OVERLAY_MAX

\* The image b holds the entries of tb, the calibration, and no markers unless m.
Shows(b, tb, m) ==
    /\ Good(b)
    /\ \A s \in Slots : read_slot(b, s) = tb.slots[s]
    /\ \A s \in Apps : read_app(b, s) = tb.apps[s]
    /\ \A c \in 0..(SLOT_BACKUP_BASE - 1) : CellAt(b, c) = Data("cal")
    /\ m \/ (CellAt(b, STATE_A_BASE) = FF /\ CellAt(b, STATE_B_BASE) = FF)


LEMMA BesideOthers ==
    /\ \A s, t \in Slots : \A c \in 1..FLASH_SIZE :
          s # t /\ slot_base(t) < c /\ c <= slot_base(t) + SLOT_STRIDE => BesideSlot(c, s)
    /\ \A s, t \in Apps : \A c \in 1..FLASH_SIZE :
          s # t /\ app_base(t) < c /\ c <= app_base(t) + APP_STRIDE => BesideApp(c, s)
    /\ \A s \in Slots, t \in Apps : \A c \in 1..FLASH_SIZE :
          /\ c <= slot_base(s) + SLOT_STRIDE => BesideApp(c, t)
          /\ app_base(t) < c => BesideSlot(c, s)
    /\ \A s \in Slots : \A c \in 1..SLOT_BACKUP_BASE : BesideSlot(c, s)
    /\ \A s \in Apps : \A c \in 1..(STATE_B_BASE + 1) : BesideApp(c, s)
<1>1. ASSUME NEW s \in Slots, NEW t \in Slots, NEW c \in 1..FLASH_SIZE, s # t,
             slot_base(t) < c, c <= slot_base(t) + SLOT_STRIDE
      PROVE  BesideSlot(c, s)
  <2>1. slot_base(s) \in Nat /\ slot_base(t) \in Nat /\ SLOT_STRIDE \in Nat /\ FLASH_SIZE \in Nat
    BY SlotRange, Sizes
  <2>2. CASE s < t
    <3>1. slot_base(s) + SLOT_STRIDE <= slot_base(t)
      BY <2>2, SlotRange
    <3> QED
      BY <1>1, <2>1, <3>1 DEF BesideSlot
  <2>3. CASE t < s
    <3>1. slot_base(t) + SLOT_STRIDE <= slot_base(s)
      BY <2>3, SlotRange
    <3> QED
      BY <1>1, <2>1, <3>1 DEF BesideSlot
  <2> QED
    BY <1>1, <2>2, <2>3, Sizes DEF Slots
<1>2. ASSUME NEW s \in Apps, NEW t \in Apps, NEW c \in 1..FLASH_SIZE, s # t,
             app_base(t) < c, c <= app_base(t) + APP_STRIDE
      PROVE  BesideApp(c, s)
  <2>1. app_base(s) \in Nat /\ app_base(t) \in Nat /\ APP_STRIDE \in Nat /\ FLASH_SIZE \in Nat
    BY AppRange, Sizes
  <2>2. CASE s < t
    <3>1. app_base(s) + APP_STRIDE <= app_base(t)
      BY <2>2, AppRange
    <3> QED
      BY <1>2, <2>1, <3>1 DEF BesideApp
  <2>3. CASE t < s
    <3>1. app_base(t) + APP_STRIDE <= app_base(s)
      BY <2>3, AppRange
    <3> QED
      BY <1>2, <2>1, <3>1 DEF BesideApp
  <2> QED
    BY <1>2, <2>2, <2>3, Sizes DEF Apps
<1>3. ASSUME NEW s \in Slots, NEW t \in Apps, NEW c \in 1..FLASH_SIZE
      PROVE  /\ c <= slot_base(s) + SLOT_STRIDE => BesideApp(c, t)
             /\ app_base(t) < c => BesideSlot(c, s)
  <2>1. /\ slot_base(s) \in Nat /\ app_base(t) \in Nat /\ SLOT_STRIDE \in Nat /\ FLASH_SIZE \in Nat
        /\ slot_base(s) + SLOT_STRIDE <= app_base(t)
    BY SlotRange, AppRange, Sizes
  <2> QED
    BY <2>1 DEF BesideApp, BesideSlot
<1>4. ASSUME NEW s \in Slots, NEW c \in 1..SLOT_BACKUP_BASE PROVE BesideSlot(c, s)
  BY SlotRange, Sizes DEF BesideSlot
<1>5. ASSUME NEW s \in Apps, NEW c \in 1..(STATE_B_BASE + 1) PROVE BesideApp(c, s)
  BY AppRange, Sizes DEF BesideApp
<1> QED
  BY <1>1, <1>2, <1>3, <1>4, <1>5

\* An edit of one slot and of the markers leaves the other slots, the apps and
\* the calibration as they were.
LEMMA SlotEdit ==
    ASSUME NEW b \in Flash, Good(b), NEW e \in Flash, NEW s \in Slots,
           read_slot(e, s).state # "mismatch", Fits(read_slot(e, s).image),
           \A c \in 1..FLASH_SIZE :
              BesideSlot(c, s) /\ c # STATE_A_BASE + 1 /\ c # STATE_B_BASE + 1 => e[c] = b[c]
    PROVE  /\ Good(e)
           /\ \A t \in Slots : t # s => read_slot(e, t) = read_slot(b, t)
           /\ \A t \in Apps : read_app(e, t) = read_app(b, t)
           /\ \A c \in 0..(SLOT_BACKUP_BASE - 1) : CellAt(e, c) = CellAt(b, c)
<1>1. ASSUME NEW t \in Slots, t # s PROVE read_slot(e, t) = read_slot(b, t)
  <2>1. ASSUME NEW c \in 1..FLASH_SIZE, slot_base(t) < c, c <= slot_base(t) + SLOT_STRIDE
        PROVE  e[c] = b[c]
    <3>1. BesideSlot(c, s)
      BY <1>1, <2>1, BesideOthers
    <3>2. c # STATE_A_BASE + 1 /\ c # STATE_B_BASE + 1
      BY <2>1, SlotRange, Sizes
    <3> QED
      BY <3>1, <3>2
  <2>2. Fits(read_slot(b, t).image)
    BY DEF Good
  <2> QED
    BY <2>1, <2>2, SlotLocal
<1>2. ASSUME NEW t \in Apps PROVE read_app(e, t) = read_app(b, t)
  <2>1. ASSUME NEW c \in 1..FLASH_SIZE, app_base(t) < c, c <= app_base(t) + APP_STRIDE
        PROVE  e[c] = b[c]
    <3>1. BesideSlot(c, s)
      BY <2>1, BesideOthers
    <3>2. c # STATE_A_BASE + 1 /\ c # STATE_B_BASE + 1
      BY <2>1, AppRange, Sizes
    <3> QED
      BY <3>1, <3>2
  <2>2. Len(read_app(b, t).image) <= APP_OVERLAY_MAX
    BY DEF Good
  <2> QED
    BY <2>1, <2>2, AppLocal
<1>3. ASSUME NEW c \in 0..(SLOT_BACKUP_BASE - 1) PROVE CellAt(e, c) = CellAt(b, c)
  <2>1. /\ c \in 0..(FLASH_SIZE - 1) /\ c + 1 \in 1..FLASH_SIZE /\ c + 1 \in 1..SLOT_BACKUP_BASE
        /\ c + 1 # STATE_A_BASE + 1 /\ c + 1 # STATE_B_BASE + 1
    BY SlotRange, Sizes
  <2>2. e[c + 1] = b[c + 1]
    BY <2>1, BesideOthers
  <2> QED
    BY <2>1, <2>2, FlashCells
<1>4. Good(e)
  <2>1. \A t \in Slots : read_slot(e, t).state # "mismatch" /\ Fits(read_slot(e, t).image)
    BY <1>1 DEF Good
  <2>2. \A t \in Apps : read_app(e, t).state # "mismatch" /\ Len(read_app(e, t).image) <= APP_OVERLAY_MAX
    BY <1>2 DEF Good
  <2> QED
    BY <2>1, <2>2, FlashCells DEF Good
<1> QED
  BY <1>1, <1>2, <1>3, <1>4

\* An edit of one app leaves all else as it was, the markers included.
LEMMA AppEdit ==
    ASSUME NEW b \in Flash, Good(b), NEW e \in Flash, NEW s \in Apps,
           read_app(e, s).state # "mismatch", Len(read_app(e, s).image) <= APP_OVERLAY_MAX,
           \A c \in 1..FLASH_SIZE : BesideApp(c, s) => e[c] = b[c]
    PROVE  /\ Good(e)
           /\ \A t \in Slots : read_slot(e, t) = read_slot(b, t)
           /\ \A t \in Apps : t # s => read_app(e, t) = read_app(b, t)
           /\ \A c \in 0..STATE_B_BASE : CellAt(e, c) = CellAt(b, c)
<1>1. ASSUME NEW t \in Slots PROVE read_slot(e, t) = read_slot(b, t)
  <2>1. ASSUME NEW c \in 1..FLASH_SIZE, slot_base(t) < c, c <= slot_base(t) + SLOT_STRIDE
        PROVE  e[c] = b[c]
    BY <2>1, BesideOthers
  <2>2. Fits(read_slot(b, t).image)
    BY DEF Good
  <2> QED
    BY <2>1, <2>2, SlotLocal
<1>2. ASSUME NEW t \in Apps, t # s PROVE read_app(e, t) = read_app(b, t)
  <2>1. ASSUME NEW c \in 1..FLASH_SIZE, app_base(t) < c, c <= app_base(t) + APP_STRIDE
        PROVE  e[c] = b[c]
    BY <1>2, <2>1, BesideOthers
  <2>2. Len(read_app(b, t).image) <= APP_OVERLAY_MAX
    BY DEF Good
  <2> QED
    BY <2>1, <2>2, AppLocal
<1>3. ASSUME NEW c \in 0..STATE_B_BASE PROVE CellAt(e, c) = CellAt(b, c)
  <2>1. c \in 0..(FLASH_SIZE - 1) /\ c + 1 \in 1..FLASH_SIZE /\ c + 1 \in 1..(STATE_B_BASE + 1)
    BY Sizes
  <2>2. e[c + 1] = b[c + 1]
    BY <2>1, BesideOthers
  <2> QED
    BY <2>1, <2>2, FlashCells
<1>4. Good(e)
  <2>1. \A t \in Slots : read_slot(e, t).state # "mismatch" /\ Fits(read_slot(e, t).image)
    BY <1>1 DEF Good
  <2>2. \A t \in Apps : read_app(e, t).state # "mismatch" /\ Len(read_app(e, t).image) <= APP_OVERLAY_MAX
    BY <1>2 DEF Good
  <2> QED
    BY <2>1, <2>2, FlashCells DEF Good
<1> QED
  BY <1>1, <1>2, <1>3, <1>4

\* A slot is read the same once the markers are erased.
LEMMA SlotThenState ==
    ASSUME NEW w \in Flash, NEW s \in Slots, Fits(read_slot(w, s).image)
    PROVE  read_slot(erase_state(w), s) = read_slot(w, s)
<1>1. erase_state(w) \in Flash
  BY EraseStateCells
<1>2. ASSUME NEW c \in 1..FLASH_SIZE, slot_base(s) < c, c <= slot_base(s) + SLOT_STRIDE
      PROVE  erase_state(w)[c] = w[c]
  <2>1. c # STATE_A_BASE + 1 /\ c # STATE_B_BASE + 1
    BY <1>2, SlotRange, Sizes
  <2> QED
    BY <2>1, EraseStateCells
<1> QED
  BY <1>1, <1>2, SlotLocal

-----------------------------------------------------------------------------
(* The four edits *)

Reading == [state : {"empty", "ok", "other"}, image : Seq(Bytes)]
Tables == [slots : [Slots -> Reading], apps : [Apps -> Reading]]

LEMMA OpShapes ==
    ASSUME NEW op \in Ops
    PROVE  /\ op.kind \in {"write", "erase", "install", "remove"}
           /\ op.kind = "write" => op.slot \in Slots /\ op.image \in Seq(Bytes)
           /\ op.kind = "erase" => op.slot \in Slots
           /\ op.kind = "install" => op.slot \in Apps /\ op.image \in Seq(Bytes)
           /\ op.kind = "remove" => op.slot \in Apps
<1>1. ASSUME op \in WriteOps
      PROVE  op.kind = "write" /\ op.slot \in Slots /\ op.image \in Seq(Bytes)
  BY <1>1, LayoutAssumption DEF WriteOps
<1>2. ASSUME op \in EraseOps PROVE op.kind = "erase" /\ op.slot \in Slots
  BY <1>2 DEF EraseOps
<1>3. ASSUME op \in InstallOps
      PROVE  op.kind = "install" /\ op.slot \in Apps /\ op.image \in Seq(Bytes)
  <2>1. PICK s \in Apps, x \in Blobs, f \in BOOLEAN :
            op = [kind |-> "install", slot |-> s, image |-> x.code, ok |-> x.ok, force |-> f]
    BY <1>3 DEF InstallOps
  <2>2. op.kind = "install" /\ op.slot \in Apps /\ op.image = x.code
    BY <2>1
  <2>3. x.code \in Seq(Bytes)
    BY LayoutAssumption
  <2> QED
    BY <2>2, <2>3
<1>4. ASSUME op \in RemoveOps PROVE op.kind = "remove" /\ op.slot \in Apps
  BY <1>4 DEF RemoveOps
<1>5. op \in WriteOps \/ op \in EraseOps \/ op \in InstallOps \/ op \in RemoveOps
  BY DEF Ops
<1> QED
  BY <1>1, <1>2, <1>3, <1>4, <1>5

\* The entry that an edit leaves in the table, beside all the others.
LEMMA EnteredIs ==
    ASSUME NEW op \in Ops, table \in Tables
    PROVE  /\ Entered(op) \in Tables
           /\ op.kind = "write" =>
                 /\ Entered(op).apps = table.apps
                 /\ \A t \in Slots : Entered(op).slots[t] =
                       IF t = op.slot THEN Holds(op.image) ELSE table.slots[t]
           /\ op.kind = "erase" =>
                 /\ Entered(op).apps = table.apps
                 /\ \A t \in Slots : Entered(op).slots[t] = IF t = op.slot THEN Empty ELSE table.slots[t]
           /\ op.kind = "install" =>
                 /\ Entered(op).slots = table.slots
                 /\ \A t \in Apps : Entered(op).apps[t] =
                       IF t = op.slot THEN Holds(op.image) ELSE table.apps[t]
           /\ op.kind = "remove" =>
                 /\ Entered(op).slots = table.slots
                 /\ \A t \in Apps : Entered(op).apps[t] = IF t = op.slot THEN Empty ELSE table.apps[t]
<1>1. /\ Empty \in Reading
      /\ \A image \in Seq(Bytes) : Holds(image) \in Reading
  BY EmptySeq DEF Empty, Holds, Reading
<1>2. CASE op.kind = "write"
  <2>1. op.slot \in Slots /\ Holds(op.image) \in Reading
    BY <1>1, <1>2, OpShapes
  <2>2. Entered(op) = [table EXCEPT !.slots[op.slot] = Holds(op.image)]
    BY <1>2 DEF Entered
  <2> QED
    BY <1>2, <2>1, <2>2 DEF Tables
<1>3. CASE op.kind = "erase"
  <2>1. op.slot \in Slots
    BY <1>3, OpShapes
  <2>2. Entered(op) = [table EXCEPT !.slots[op.slot] = Empty]
    BY <1>3 DEF Entered
  <2> QED
    BY <1>1, <1>3, <2>1, <2>2 DEF Tables
<1>4. CASE op.kind = "install"
  <2>1. op.slot \in Apps /\ Holds(op.image) \in Reading
    BY <1>1, <1>4, OpShapes
  <2>2. Entered(op) = [table EXCEPT !.apps[op.slot] = Holds(op.image)]
    BY <1>4 DEF Entered
  <2> QED
    BY <1>4, <2>1, <2>2 DEF Tables
<1>5. CASE op.kind = "remove"
  <2>1. op.slot \in Apps
    BY <1>5, OpShapes
  <2>2. Entered(op) = [table EXCEPT !.apps[op.slot] = Empty]
    BY <1>5 DEF Entered
  <2> QED
    BY <1>1, <1>5, <2>1, <2>2 DEF Tables
<1> QED
  BY <1>2, <1>3, <1>4, <1>5, OpShapes

\* An edit that is not refused turns a good image into a good one, and one that
\* shows the table into one that shows it with the edit entered.
LEMMA EditedShows ==
    ASSUME NEW op \in Ops, file \in Flash, Good(file), ~Refused(op), table \in Tables
    PROVE  /\ Edited(op) \in Flash /\ Good(Edited(op))
           /\ Shows(file, table, marked) => Shows(Edited(op), Entered(op), marked /\ InPlace(op))
<1> DEFINE e == Edited(op)
<1>0. /\ Empty.state = "empty" /\ Empty.image = <<>> /\ Len(<<>>) = 0
      /\ \A x : Holds(x).state = "ok" /\ Holds(x).image = x
  BY DEF Empty, Holds
<1>1. CASE op.kind = "write" \/ op.kind = "erase"
  <2>1. PICK w, rd : /\ w \in Flash /\ e = erase_state(w) /\ read_slot(w, op.slot) = rd
                     /\ rd.state # "mismatch" /\ Fits(rd.image)
                     /\ \A c \in 1..FLASH_SIZE : BesideSlot(c, op.slot) => w[c] = file[c]
                     /\ rd = IF op.kind = "write" THEN Holds(op.image) ELSE Empty
    <3>1. CASE op.kind = "write"
      <4>1. e = erase_state(write_slot(file, op.slot, op.image))
        BY <3>1 DEF Edited
      <4>2. op.slot \in Slots /\ op.image \in Seq(Bytes) /\ Fits(op.image)
        BY <3>1, OpShapes DEF Refused
      <4>3. /\ write_slot(file, op.slot, op.image) \in Flash
            /\ read_slot(write_slot(file, op.slot, op.image), op.slot) = Holds(op.image)
            /\ \A c \in 1..FLASH_SIZE :
                  BesideSlot(c, op.slot) => write_slot(file, op.slot, op.image)[c] = file[c]
        BY <4>2, WriteSlotCells
      <4>4. Holds(op.image).state # "mismatch" /\ Fits(Holds(op.image).image)
        BY <1>0, <4>2
      <4> QED
        BY <3>1, <4>1, <4>3, <4>4
    <3>2. CASE op.kind = "erase"
      <4>1. e = erase_state(erase_slot(file, op.slot))
        BY <3>2 DEF Edited
      <4>2. op.slot \in Slots
        BY <3>2, OpShapes
      <4>3. /\ erase_slot(file, op.slot) \in Flash
            /\ read_slot(erase_slot(file, op.slot), op.slot) = Empty
            /\ \A c \in 1..FLASH_SIZE : BesideSlot(c, op.slot) => erase_slot(file, op.slot)[c] = file[c]
        BY <4>2, EraseSlotCells
      <4>4. Empty.state # "mismatch" /\ Fits(Empty.image)
        BY <1>0, Sizes DEF Fits
      <4> QED
        BY <3>2, <4>1, <4>3, <4>4
    <3> QED
      BY <1>1, <3>1, <3>2
  <2> HIDE DEF e
  <2>2. op.slot \in Slots
    BY <1>1, OpShapes
  <2>3. /\ e \in Flash /\ e[STATE_A_BASE + 1] = FF /\ e[STATE_B_BASE + 1] = FF
        /\ \A c \in 1..FLASH_SIZE : c # STATE_A_BASE + 1 /\ c # STATE_B_BASE + 1 => e[c] = w[c]
    BY <2>1, EraseStateCells
  <2>4. read_slot(e, op.slot) = rd
    BY <2>1, <2>2, SlotThenState
  <2>5. /\ Good(e)
        /\ \A t \in Slots : t # op.slot => read_slot(e, t) = read_slot(file, t)
        /\ \A t \in Apps : read_app(e, t) = read_app(file, t)
        /\ \A c \in 0..(SLOT_BACKUP_BASE - 1) : CellAt(e, c) = CellAt(file, c)
    <3>1. \A c \in 1..FLASH_SIZE :
             BesideSlot(c, op.slot) /\ c # STATE_A_BASE + 1 /\ c # STATE_B_BASE + 1 => e[c] = file[c]
      BY <2>1, <2>3
    <3> QED
      BY <2>1, <2>2, <2>3, <2>4, <3>1, SlotEdit
  <2>6. CellAt(e, STATE_A_BASE) = FF /\ CellAt(e, STATE_B_BASE) = FF
    BY <2>3, FlashCells, Sizes
  <2>7. /\ Entered(op).apps = table.apps
        /\ \A t \in Slots : Entered(op).slots[t] = IF t = op.slot THEN rd ELSE table.slots[t]
    BY <1>1, <2>1, EnteredIs
  <2>8. ASSUME Shows(file, table, marked) PROVE Shows(e, Entered(op), marked /\ InPlace(op))
    <3>1. \A t \in Slots : read_slot(e, t) = Entered(op).slots[t]
      BY <2>4, <2>5, <2>7, <2>8 DEF Shows
    <3>2. \A t \in Apps : read_app(e, t) = Entered(op).apps[t]
      BY <2>5, <2>7, <2>8 DEF Shows
    <3>3. \A c \in 0..(SLOT_BACKUP_BASE - 1) : CellAt(e, c) = Data("cal")
      BY <2>5, <2>8 DEF Shows
    <3> QED
      BY <2>5, <2>6, <3>1, <3>2, <3>3 DEF Shows
  <2> QED
    BY <2>3, <2>5, <2>8 DEF e
<1>2. CASE op.kind = "install" \/ op.kind = "remove"
  <2>1. PICK rd : /\ e \in Flash /\ read_app(e, op.slot) = rd
                  /\ rd.state # "mismatch" /\ Len(rd.image) <= APP_OVERLAY_MAX
                  /\ \A c \in 1..FLASH_SIZE : BesideApp(c, op.slot) => e[c] = file[c]
                  /\ rd = IF op.kind = "install" THEN Holds(op.image) ELSE Empty
    <3>1. CASE op.kind = "install"
      <4>1. e = install(file, op.slot, op.image)
        BY <3>1 DEF Edited
      <4>2. op.slot \in Apps /\ op.image \in Seq(Bytes) /\ Len(op.image) <= APP_OVERLAY_MAX
        <5>1. op.slot \in Apps /\ op.image \in Seq(Bytes) /\ Len(op.image) \in 1..APP_OVERLAY_MAX
          BY <3>1, OpShapes DEF Refused
        <5> QED
          BY <5>1, Sizes
      <4>3. /\ install(file, op.slot, op.image) \in Flash
            /\ read_app(install(file, op.slot, op.image), op.slot) = Holds(op.image)
            /\ \A c \in 1..FLASH_SIZE :
                  BesideApp(c, op.slot) => install(file, op.slot, op.image)[c] = file[c]
        BY <4>2, InstallCells
      <4>4. Holds(op.image).state # "mismatch" /\ Len(Holds(op.image).image) <= APP_OVERLAY_MAX
        BY <1>0, <4>2
      <4> QED
        BY <3>1, <4>1, <4>3, <4>4
    <3>2. CASE op.kind = "remove"
      <4>1. e = erase(file, op.slot)
        BY <3>2 DEF Edited
      <4>2. op.slot \in Apps
        BY <3>2, OpShapes
      <4>3. /\ erase(file, op.slot) \in Flash
            /\ read_app(erase(file, op.slot), op.slot) = Empty
            /\ \A c \in 1..FLASH_SIZE : BesideApp(c, op.slot) => erase(file, op.slot)[c] = file[c]
        BY <4>2, EraseCells
      <4>4. Empty.state # "mismatch" /\ Len(Empty.image) <= APP_OVERLAY_MAX
        BY <1>0, Sizes
      <4> QED
        BY <3>2, <4>1, <4>3, <4>4
    <3> QED
      BY <1>2, <3>1, <3>2
  <2> HIDE DEF e
  <2>2. op.slot \in Apps
    BY <1>2, OpShapes
  <2>3. /\ Good(e)
        /\ \A t \in Slots : read_slot(e, t) = read_slot(file, t)
        /\ \A t \in Apps : t # op.slot => read_app(e, t) = read_app(file, t)
        /\ \A c \in 0..STATE_B_BASE : CellAt(e, c) = CellAt(file, c)
    BY <2>1, <2>2, AppEdit
  <2>4. /\ Entered(op).slots = table.slots
        /\ \A t \in Apps : Entered(op).apps[t] = IF t = op.slot THEN rd ELSE table.apps[t]
    BY <1>2, <2>1, EnteredIs
  <2>5. InPlace(op)
    BY <1>2 DEF InPlace
  <2>6. ASSUME Shows(file, table, marked) PROVE Shows(e, Entered(op), marked /\ InPlace(op))
    <3>1. \A t \in Slots : read_slot(e, t) = Entered(op).slots[t]
      BY <2>3, <2>4, <2>6 DEF Shows
    <3>2. \A t \in Apps : read_app(e, t) = Entered(op).apps[t]
      BY <2>1, <2>3, <2>4, <2>6 DEF Shows
    <3>3. ASSUME NEW c \in 0..(SLOT_BACKUP_BASE - 1) PROVE CellAt(e, c) = Data("cal")
      <4>1. c \in 0..STATE_B_BASE
        BY LayoutAssumption, Sizes
      <4> QED
        BY <2>3, <2>6, <4>1 DEF Shows
    <3>4. CellAt(e, STATE_A_BASE) = CellAt(file, STATE_A_BASE)
          /\ CellAt(e, STATE_B_BASE) = CellAt(file, STATE_B_BASE)
      BY <2>3, Sizes
    <3> QED
      BY <2>3, <2>5, <2>6, <3>1, <3>2, <3>3, <3>4 DEF Shows
  <2> QED
    BY <2>1, <2>3, <2>6 DEF e
<1> QED
  BY <1>1, <1>2, OpShapes DEF e

-----------------------------------------------------------------------------
(* The invariant *)

LayoutTypes ==
    /\ content \in [Inodes -> Seq(Cell)]
    /\ path \in Inodes /\ tmp \in Inodes \cup {0} /\ tmp # path
    /\ req \in [Requests -> [op : Ops \cup {NoOp}, pc : {"idle", "load", "open", "write", "replace"}]]
    /\ \A r \in Requests : Busy(r) => req[r].op \in Ops
    /\ buf \in [Requests -> Seq(Cell)]
    /\ handle \in [Requests -> Inodes \cup {0}]
    /\ table \in Tables
    /\ marked \in BOOLEAN /\ overlapped \in BOOLEAN /\ torn \in BOOLEAN
    /\ edits \in 0..MaxEdits /\ crashes \in 0..MaxCrashes

\* However edits overlap, every file is empty or good, and every copy is good.
FilesGood ==
    ~torn =>
        /\ \A i \in Inodes : content[i] = <<>> \/ Good(content[i])
        /\ \A r \in Requests : req[r].pc \in {"open", "write"} => Good(buf[r])

\* With edits in turn there is one request at most.
OneBusy == \A q, r \in Requests : Busy(q) /\ Busy(r) => q = r

\* Its copy shows the table as it will be.
CopyShows ==
    \A r \in Requests : req[r].pc \in {"open", "write"} =>
        Shows(buf[r], Entered(req[r].op), marked /\ InPlace(req[r].op))

\* It writes the file that its steps name.
WritesOwn ==
    \A r \in Requests : req[r].pc = "write" =>
        IF InPlace(req[r].op) THEN handle[r] = path ELSE tmp # 0 /\ handle[r] = tmp

\* The temporary file that is about to be renamed shows the table as it will be.
TmpShows ==
    \A r \in Requests : req[r].pc = "replace" =>
        ~InPlace(req[r].op) /\ tmp # 0 /\ Shows(content[tmp], Entered(req[r].op), FALSE)

\* The image shows the table, but between the two halves of a write in place.
FileShows ==
    \/ \E r \in Requests : req[r].pc = "write" /\ InPlace(req[r].op)
    \/ Shows(file, table, marked)

InTurn == ~torn /\ ~overlapped => OneBusy /\ CopyShows /\ WritesOwn /\ TmpShows /\ FileShows

LayoutInv == LayoutTypes /\ FilesGood /\ InTurn

-----------------------------------------------------------------------------
LEMMA InodeFacts ==
    /\ Cardinality(Requests) \in Nat
    /\ 0 \notin Inodes /\ 1 \in Inodes
    /\ IsFiniteSet(Inodes) /\ Cardinality(Inodes) = Cardinality(Requests) + 2
<1>1. Cardinality(Requests) \in Nat
  BY LayoutAssumption, FS_CardinalityType
<1>2. PICK n \in Int : n = Cardinality(Requests) + 2 /\ n >= 2
  BY <1>1
<1>3. Inodes = 1..n
  BY <1>2 DEF Inodes
<1>4. 1 \in Int
  OBVIOUS
<1>5. IsFiniteSet(1..n) /\ Cardinality(1..n) = IF 1 > n THEN 0 ELSE n - 1 + 1
  BY <1>4, FS_Interval
<1> QED
  BY <1>1, <1>2, <1>3, <1>5

\* There are more inodes than files in use.
LEMMA FreeInode ==
    ASSUME LayoutTypes, tmp = 0
    PROVE  \E i \in Inodes : i \notin {path, tmp} \cup {handle[q] : q \in Requests}
<1> DEFINE H == {handle[q] : q \in Requests}
<1>1. handle \in Surjection(Requests, H)
  BY DEF LayoutTypes, Surjection
<1>2. IsFiniteSet(H) /\ Cardinality(H) <= Cardinality(Requests)
  BY <1>1, LayoutAssumption, FS_Surjection
<1> HIDE DEF H
<1>3. Cardinality(H) \in Nat
  BY <1>2, FS_CardinalityType
<1>4. IsFiniteSet(H \cup {path}) /\ Cardinality(H \cup {path}) <= Cardinality(Requests) + 1
  <2>1. IsFiniteSet(H \cup {path})
        /\ Cardinality(H \cup {path}) = IF path \in H THEN Cardinality(H) ELSE Cardinality(H) + 1
    BY <1>2, FS_AddElement
  <2> QED
    BY <1>2, <1>3, <2>1, InodeFacts
<1>5. ASSUME Inodes \subseteq H \cup {path} PROVE FALSE
  <2>1. Cardinality(Inodes) <= Cardinality(H \cup {path})
    BY <1>4, <1>5, FS_Subset
  <2>2. Cardinality(H \cup {path}) \in Nat
    BY <1>4, FS_CardinalityType
  <2> QED
    BY <1>4, <2>1, <2>2, InodeFacts
<1>6. PICK i \in Inodes : i \notin H \cup {path}
  BY <1>5
<1> QED
  BY <1>6, InodeFacts DEF H

\* An edit of an image of any length is a sequence of cells.
LEMMA SpliceType ==
    ASSUME NEW b \in Seq(Cell), NEW cells \in Seq(Cell), NEW at \in Nat, NEW n \in Nat
    PROVE  Splice(b, at, n, cells) \in Seq(Cell)
<1>1. Len(b) \in Nat /\ \A i \in 1..Len(b) : b[i] \in Cell
  BY LenProperties, ElementOfSeq
<1>2. PICK x \in Nat, y \in Nat : /\ x = Least(at, Len(b)) /\ x <= Len(b)
                                  /\ y = Least(at + n, Len(b)) + 1 /\ 1 <= y
  <2>1. /\ Least(at, Len(b)) \in Nat /\ Least(at, Len(b)) <= Len(b)
        /\ Least(at + n, Len(b)) + 1 \in Nat /\ 1 <= Least(at + n, Len(b)) + 1
    BY <1>1 DEF Least
  <2> QED
    BY <2>1, Zenon
<1>3. SubSeq(b, 1, x) \in Seq(Cell)
  <2>1. \A i \in 1..x : b[i] \in Cell
    BY <1>1, <1>2
  <2> QED
    BY <2>1, SubSeqProperties
<1>4. SubSeq(b, y, Len(b)) \in Seq(Cell)
  <2>1. \A i \in y..Len(b) : b[i] \in Cell
    BY <1>1, <1>2
  <2> QED
    BY <1>1, <2>1, SubSeqProperties
<1>5. PICK front \in Seq(Cell) : front = SubSeq(b, 1, x) \o cells
  BY <1>3, ConcatProperties
<1>6. front \o SubSeq(b, y, Len(b)) \in Seq(Cell)
  BY <1>4, ConcatProperties
<1> QED
  BY <1>2, <1>5, <1>6 DEF Splice

LEMMA FillType ==
    ASSUME NEW b \in Seq(Cell), NEW at \in Nat, NEW n \in Nat
    PROVE  Fill(b, at, n) \in Seq(Cell)
<1>1. PICK erased \in Seq(Cell) : erased = [i \in 1..n |-> FF]
  <2>1. [i \in 1..n |-> FF] \in [1..n -> Cell]
    BY CellTypes
  <2>2. [i \in 1..n |-> FF] \in Seq(Cell)
    BY <2>1
  <2> QED
    BY <2>2, Zenon
<1> QED
  BY <1>1, SpliceType DEF Fill

LEMMA EditedType ==
    ASSUME NEW op \in Ops, file \in Seq(Cell)
    PROVE  Edited(op) \in Seq(Cell)
<1>1. ASSUME NEW b \in Seq(Cell) PROVE erase_state(b) \in Seq(Cell)
  <2>1. Fill(b, STATE_A_BASE, 1) \in Seq(Cell)
    BY FillType, Sizes
  <2> QED
    BY <2>1, FillType, Sizes DEF erase_state
<1>2. ASSUME NEW b \in Seq(Cell), NEW at \in Nat, NEW x \in Cell
      PROVE  Splice(b, at, 1, <<x>>) \in Seq(Cell)
  <2>a. <<x>> \in Seq(Cell)
    OBVIOUS
  <2>1. PICK one \in Seq(Cell) : one = <<x>>
    BY <2>a, Zenon
  <2> QED
    BY <2>1, SpliceType
<1>3. ASSUME NEW b \in Seq(Cell), NEW at \in Nat, NEW image \in Seq(Bytes)
      PROVE  Splice(b, at, Len(image), Cells(image)) \in Seq(Cell)
  <2>1. PICK cells \in Seq(Cell), n \in Nat : cells = Cells(image) /\ n = Len(image)
    BY CellTypes, LenProperties
  <2> QED
    BY <2>1, SpliceType
<1>4. CASE op.kind = "write"
  <2>1. op.slot \in Slots /\ op.image \in Seq(Bytes)
    BY <1>4, OpShapes
  <2>2. slot_base(op.slot) \in Nat /\ slot_base(op.slot) + SLOT_IMAGE_OFFSET \in Nat
    BY <2>1, SlotRange, Sizes
  <2>3. Header("FMB1", op.image) \in Cell
    BY <2>1, CellTypes
  <2>4. Splice(file, slot_base(op.slot), 1, <<Header("FMB1", op.image)>>) \in Seq(Cell)
    BY <1>2, <2>2, <2>3
  <2>5. write_slot(file, op.slot, op.image) \in Seq(Cell)
    BY <1>3, <2>1, <2>2, <2>4 DEF write_slot
  <2> QED
    BY <1>1, <1>4, <2>5 DEF Edited
<1>5. CASE op.kind = "erase"
  <2>1. slot_base(op.slot) \in Nat
    BY <1>5, OpShapes, SlotRange
  <2>2. erase_slot(file, op.slot) \in Seq(Cell)
    BY <2>1, FillType, Sizes DEF erase_slot
  <2> QED
    BY <1>1, <1>5, <2>2 DEF Edited
<1>6. ASSUME op.slot \in Apps PROVE erase(file, op.slot) \in Seq(Cell)
  <2>1. app_base(op.slot) \in Nat
    BY <1>6, AppRange
  <2> QED
    BY <2>1, FillType, Sizes DEF erase
<1>7. CASE op.kind = "install"
  <2>1. op.slot \in Apps /\ op.image \in Seq(Bytes)
    BY <1>7, OpShapes
  <2>2. app_base(op.slot) \in Nat /\ app_base(op.slot) + CODE_OFFSET \in Nat
    BY <2>1, AppRange, Sizes
  <2>3. Header("FAP1", op.image) \in Cell
    BY <2>1, CellTypes
  <2>4. Splice(erase(file, op.slot), app_base(op.slot), 1, <<Header("FAP1", op.image)>>) \in Seq(Cell)
    BY <1>2, <1>6, <2>1, <2>2, <2>3
  <2>5. install(file, op.slot, op.image) \in Seq(Cell)
    BY <1>3, <2>1, <2>2, <2>4 DEF install, erase
  <2> QED
    BY <1>7, <2>5 DEF Edited
<1>8. CASE op.kind = "remove"
  BY <1>6, <1>8, OpShapes DEF Edited
<1> QED
  BY <1>4, <1>5, <1>7, <1>8, OpShapes

\* The image of the start: every entry is empty but for the last app, which is
\* neither empty nor an app.
LEMMA InitialImage ==
    ASSUME NEW b, b = [c \in 1..FLASH_SIZE |->
                          IF c <= SLOT_BACKUP_BASE \/ c = app_base(APP_COUNT - 1) + 1
                          THEN Data("cal") ELSE FF]
    PROVE  /\ b \in Flash /\ Good(b)
           /\ \A s \in Slots : read_slot(b, s) = Empty
           /\ \A s \in Apps : read_app(b, s) = IF s = APP_COUNT - 1 THEN Other ELSE Empty
           /\ \A c \in 0..(SLOT_BACKUP_BASE - 1) : CellAt(b, c) = Data("cal")
           /\ CellAt(b, STATE_A_BASE) = FF /\ CellAt(b, STATE_B_BASE) = FF
<1>0. APP_COUNT - 1 \in Apps
  BY Sizes DEF Apps
<1>1. PICK last \in Nat : /\ last = app_base(APP_COUNT - 1) /\ REGION_BASE <= last
                          /\ last + APP_STRIDE <= FLASH_SIZE
  BY <1>0, AppRange
<1>2. b \in Flash
  <2>1. Data("cal") \in Cell /\ FF \in Cell
    BY CellTypes DEF Values
  <2>2. b \in [1..FLASH_SIZE -> Cell]
    BY <2>1
  <2>3. b \in Seq(Cell) /\ Len(b) = FLASH_SIZE
    BY <2>2, Sizes
  <2> QED
    BY <2>3 DEF Flash
<1>3. \A c \in 1..FLASH_SIZE : b[c] = IF c <= SLOT_BACKUP_BASE \/ c = last + 1 THEN Data("cal") ELSE FF
  BY <1>1
<1>4. FF.kind = "ff" /\ Data("cal").kind = "data"
  BY DEF FF, Data
<1>5. ASSUME NEW s \in Slots PROVE read_slot(b, s) = Empty
  <2>1. /\ slot_base(s) + 1 \in 1..FLASH_SIZE /\ ~ (slot_base(s) + 1 <= SLOT_BACKUP_BASE)
        /\ slot_base(s) + 1 # last + 1
    BY <1>1, SlotRange, Sizes
  <2>2. b[slot_base(s) + 1] = FF
    BY <1>3, <2>1
  <2>3. FF.kind # "FMB1"
    BY <1>4
  <2> QED
    BY <1>2, <2>2, <2>3, SlotReading
<1>6. ASSUME NEW s \in Apps PROVE read_app(b, s) = IF s = APP_COUNT - 1 THEN Other ELSE Empty
  <2>1. /\ app_base(s) + 1 \in 1..FLASH_SIZE /\ app_base(s) \in Nat
        /\ ~ (app_base(s) + 1 <= SLOT_BACKUP_BASE)
    BY AppRange, Sizes, LayoutAssumption
  <2>2. CASE s = APP_COUNT - 1
    <3>1. b[app_base(s) + 1] = Data("cal")
      BY <1>1, <1>3, <2>1, <2>2
    <3>2. Data("cal").kind \notin {"ff", "FAP1"}
      BY <1>4
    <3> QED
      BY <1>2, <2>2, <3>1, <3>2, AppReading
  <2>3. CASE s # APP_COUNT - 1
    <3>1. s < APP_COUNT - 1
      BY <2>3, Sizes DEF Apps
    <3>2. app_base(s) + APP_STRIDE <= last
      BY <1>0, <1>1, <3>1, AppRange
    <3>3. b[app_base(s) + 1] = FF
      BY <1>3, <2>1, <3>2, Sizes
    <3> QED
      BY <1>2, <1>4, <2>3, <3>3, AppReading
  <2> QED
    BY <2>2, <2>3
<1>7. ASSUME NEW c \in 0..(SLOT_BACKUP_BASE - 1) PROVE CellAt(b, c) = Data("cal")
  <2>1. c \in 0..(FLASH_SIZE - 1) /\ c + 1 \in 1..FLASH_SIZE /\ c + 1 <= SLOT_BACKUP_BASE
    BY Sizes, LayoutAssumption
  <2> QED
    BY <1>2, <1>3, <2>1, FlashCells
<1>8. CellAt(b, STATE_A_BASE) = FF /\ CellAt(b, STATE_B_BASE) = FF
  <2>1. /\ STATE_A_BASE \in 0..(FLASH_SIZE - 1) /\ STATE_A_BASE + 1 \in 1..FLASH_SIZE
        /\ STATE_B_BASE \in 0..(FLASH_SIZE - 1) /\ STATE_B_BASE + 1 \in 1..FLASH_SIZE
        /\ STATE_A_BASE + 1 # last + 1 /\ STATE_B_BASE + 1 # last + 1
    BY <1>1, Sizes
  <2>2. SLOT_BACKUP_BASE <= STATE_A_BASE
    <3>1. SLOT_COUNT * SLOT_STRIDE \in Nat
      BY Sizes
    <3> QED
      BY <3>1, Sizes, LayoutAssumption
  <2>3. ~ (STATE_A_BASE + 1 <= SLOT_BACKUP_BASE) /\ ~ (STATE_B_BASE + 1 <= SLOT_BACKUP_BASE)
    BY <2>2, Sizes
  <2> QED
    BY <1>2, <1>3, <2>1, <2>3, FlashCells
<1>9. Good(b)
  <2>1. /\ Empty.state = "empty" /\ Empty.image = <<>> /\ Other.state = "other" /\ Other.image = <<>>
        /\ Len(<<>>) = 0
    BY DEF Empty, Other
  <2>2. Fits(<<>>) /\ Len(<<>>) <= APP_OVERLAY_MAX
    BY <2>1, Sizes DEF Fits
  <2>3. \A s \in Slots : read_slot(b, s).state # "mismatch" /\ Fits(read_slot(b, s).image)
    BY <1>5, <2>1, <2>2
  <2>4. \A s \in Apps : read_app(b, s).state # "mismatch" /\ Len(read_app(b, s).image) <= APP_OVERLAY_MAX
    BY <1>6, <2>1, <2>2
  <2> QED
    BY <1>2, <2>3, <2>4, FlashCells DEF Good
<1> QED
  BY <1>2, <1>5, <1>6, <1>7, <1>8, <1>9

LEMMA InitLayout == Init => LayoutInv
<1> SUFFICES ASSUME Init PROVE LayoutInv
  OBVIOUS
<1> DEFINE b == [c \in 1..FLASH_SIZE |->
                    IF c <= SLOT_BACKUP_BASE \/ c = app_base(APP_COUNT - 1) + 1
                    THEN Data("cal") ELSE FF]
<1>1. content = [i \in Inodes |-> IF i = 1 THEN b ELSE <<>>]
  BY DEF Init
<1>2. /\ b \in Flash /\ Good(b)
      /\ \A s \in Slots : read_slot(b, s) = Empty
      /\ \A s \in Apps : read_app(b, s) = IF s = APP_COUNT - 1 THEN Other ELSE Empty
      /\ \A c \in 0..(SLOT_BACKUP_BASE - 1) : CellAt(b, c) = Data("cal")
      /\ CellAt(b, STATE_A_BASE) = FF /\ CellAt(b, STATE_B_BASE) = FF
  BY InitialImage
<1> HIDE DEF b
<1>3. b \in Seq(Cell) /\ <<>> \in Seq(Cell)
  BY <1>2, FlashCells, EmptySeq
<1>4. /\ path = 1 /\ tmp = 0 /\ path \in Inodes /\ 0 \notin Inodes
      /\ \A r \in Requests : req[r].pc = "idle"
  BY InodeFacts DEF Init
<1>5. table \in Tables
  <2>1. Empty \in Reading /\ Other \in Reading
    BY EmptySeq DEF Empty, Other, Reading
  <2> QED
    BY <2>1 DEF Init, Tables
<1>6. LayoutTypes
  <2>1. content \in [Inodes -> Seq(Cell)]
    BY <1>1, <1>3
  <2>2. req \in [Requests -> [op : Ops \cup {NoOp}, pc : {"idle", "load", "open", "write", "replace"}]]
    BY DEF Init
  <2>3. buf \in [Requests -> Seq(Cell)] /\ handle \in [Requests -> Inodes \cup {0}]
    BY <1>3 DEF Init
  <2>4. edits \in 0..MaxEdits /\ crashes \in 0..MaxCrashes
    BY LayoutAssumption DEF Init
  <2> QED
    BY <1>4, <1>5, <2>1, <2>2, <2>3, <2>4 DEF LayoutTypes, Init, Busy
<1>7. FilesGood
  BY <1>1, <1>2, <1>4 DEF FilesGood
<1>8. Shows(file, table, marked)
  <2>1. file = b
    BY <1>1, <1>4 DEF file
  <2>2. /\ \A s \in Slots : table.slots[s] = Empty
        /\ \A s \in Apps : table.apps[s] = IF s = APP_COUNT - 1 THEN Other ELSE Empty
    BY DEF Init
  <2> QED
    BY <1>2, <2>1, <2>2 DEF Shows
<1>9. InTurn
  BY <1>4, <1>8 DEF InTurn, OneBusy, CopyShows, WritesOwn, TmpShows, FileShows, Busy
<1> QED
  BY <1>6, <1>7, <1>9 DEF LayoutInv

-----------------------------------------------------------------------------
(* The steps *)

LEMMA OthersIdle ==
    ASSUME LayoutTypes, OneBusy, NEW r \in Requests, Busy(r)
    PROVE  \A q \in Requests : q # r => req[q].pc = "idle"
BY DEF OneBusy, Busy

\* A file that is not empty, and a copy, is a flash image.
LEMMA GoodIsFlash ==
    ASSUME NEW b \in Seq(Cell), Good(b)
    PROVE  b \in Flash
BY DEF Good, Flash

LEMMA SubmitStep ==
    ASSUME LayoutInv, NEW r \in Requests, NEW op \in Ops, Submit(r, op)
    PROVE  LayoutInv'
<1>0. LayoutTypes /\ FilesGood /\ InTurn
  BY DEF LayoutInv
<1>1. /\ req' = [req EXCEPT ![r] = [op |-> op, pc |-> "load"]]
      /\ overlapped' = (overlapped \/ \E q \in Requests : Busy(q))
      /\ UNCHANGED <<content, path, tmp, buf, handle, table, marked, torn, crashes>>
  BY DEF Submit, fileVars
<1>2. LayoutTypes'
  <2>1. req' \in [Requests -> [op : Ops \cup {NoOp}, pc : {"idle", "load", "open", "write", "replace"}]]
    BY <1>0, <1>1 DEF LayoutTypes
  <2>2. \A q \in Requests : Busy(q)' => req'[q].op \in Ops
    BY <1>0, <1>1 DEF LayoutTypes, Busy
  <2>3. edits' \in 0..MaxEdits
    BY <1>0, LayoutAssumption DEF LayoutTypes, Submit
  <2>4. overlapped' \in BOOLEAN
    BY <1>1
  <2> QED
    BY <1>0, <1>1, <2>1, <2>2, <2>3, <2>4 DEF LayoutTypes
<1>3. \A q \in Requests : req'[q] = IF q = r THEN [op |-> op, pc |-> "load"] ELSE req[q]
  BY <1>0, <1>1 DEF LayoutTypes
<1>4. FilesGood'
  BY <1>0, <1>1, <1>3 DEF FilesGood
<1>5. InTurn'
  <2> SUFFICES ASSUME ~torn', ~overlapped'
               PROVE  (OneBusy /\ CopyShows /\ WritesOwn /\ TmpShows /\ FileShows)'
    BY DEF InTurn
  <2>1. ~torn /\ ~overlapped /\ \A q \in Requests : req[q].pc = "idle"
    BY <1>1 DEF Busy
  <2>2. \A q \in Requests : req'[q].pc = IF q = r THEN "load" ELSE "idle"
    BY <1>3, <2>1
  <2>3. Shows(file, table, marked)
    BY <1>0, <2>1 DEF InTurn, FileShows
  <2>4. Shows(file, table, marked)'
    BY <1>1, <2>3 DEF Shows, file
  <2> QED
    BY <2>2, <2>4 DEF OneBusy, CopyShows, WritesOwn, TmpShows, FileShows, Busy
<1> QED
  BY <1>2, <1>4, <1>5 DEF LayoutInv

\* What Finish leaves of a request.
LEMMA FinishStep ==
    ASSUME LayoutTypes, NEW r \in Requests, Finish(r)
    PROVE  /\ req' \in [Requests -> [op : Ops \cup {NoOp}, pc : {"idle", "load", "open", "write", "replace"}]]
           /\ \A q \in Requests : Busy(q)' => req'[q].op \in Ops
           /\ \A q \in Requests : req'[q].pc = IF q = r THEN "idle" ELSE req[q].pc
           /\ \A q \in Requests : q # r => req'[q] = req[q]
<1>1. req' = [req EXCEPT ![r] = [op |-> NoOp, pc |-> "idle"]]
  BY DEF Finish
<1>2. \A q \in Requests : req'[q] = IF q = r THEN [op |-> NoOp, pc |-> "idle"] ELSE req[q]
  BY <1>1 DEF LayoutTypes
<1>3. req' \in [Requests -> [op : Ops \cup {NoOp}, pc : {"idle", "load", "open", "write", "replace"}]]
  BY <1>1 DEF LayoutTypes
<1> QED
  BY <1>2, <1>3 DEF LayoutTypes, Busy

\* What a step of a request leaves of it.
LEMMA MoveStep ==
    ASSUME LayoutTypes, NEW r \in Requests, Busy(r),
           NEW pc \in {"open", "write", "replace"}, req' = [req EXCEPT ![r].pc = pc]
    PROVE  /\ req' \in [Requests -> [op : Ops \cup {NoOp}, pc : {"idle", "load", "open", "write", "replace"}]]
           /\ \A q \in Requests : Busy(q)' => req'[q].op \in Ops
           /\ \A q \in Requests : req'[q].pc = IF q = r THEN pc ELSE req[q].pc
           /\ \A q \in Requests : req'[q].op = req[q].op
<1>1. req[r] \in [op : Ops \cup {NoOp}, pc : {"idle", "load", "open", "write", "replace"}]
  BY DEF LayoutTypes
<1>2. \A q \in Requests : req'[q] = IF q = r THEN [req[r] EXCEPT !.pc = pc] ELSE req[q]
  BY DEF LayoutTypes
<1>3. /\ [req[r] EXCEPT !.pc = pc].op = req[r].op /\ [req[r] EXCEPT !.pc = pc].pc = pc
      /\ [req[r] EXCEPT !.pc = pc] \in [op : Ops \cup {NoOp}, pc : {"idle", "load", "open", "write", "replace"}]
  BY <1>1
<1>4. req' \in [Requests -> [op : Ops \cup {NoOp}, pc : {"idle", "load", "open", "write", "replace"}]]
  BY <1>3 DEF LayoutTypes
<1> QED
  BY <1>2, <1>3, <1>4 DEF LayoutTypes, Busy

LEMMA LoadEditStep ==
    ASSUME LayoutInv, NEW r \in Requests, LoadEdit(r)
    PROVE  LayoutInv'
<1>0. LayoutTypes /\ FilesGood /\ InTurn
  BY DEF LayoutInv
<1>1. /\ req[r].pc = "load" /\ Busy(r) /\ req[r].op \in Ops
      /\ UNCHANGED <<content, path, tmp, handle, table, marked, overlapped, edits, crashes>>
  BY <1>0 DEF LoadEdit, fileVars, LayoutTypes, Busy
<1>2. file' = file
  BY <1>1 DEF file
<1>3. CASE Refused(req[r].op)
  <2>1. Finish(r) /\ UNCHANGED <<buf, torn>>
    BY <1>3 DEF LoadEdit
  <2>2. /\ req' \in [Requests -> [op : Ops \cup {NoOp}, pc : {"idle", "load", "open", "write", "replace"}]]
        /\ \A q \in Requests : Busy(q)' => req'[q].op \in Ops
        /\ \A q \in Requests : req'[q].pc = IF q = r THEN "idle" ELSE req[q].pc
        /\ \A q \in Requests : q # r => req'[q] = req[q]
    BY <1>0, <2>1, FinishStep
  <2>3. LayoutTypes'
    BY <1>0, <1>1, <2>1, <2>2 DEF LayoutTypes
  <2>4. FilesGood'
    BY <1>0, <1>1, <2>1, <2>2 DEF FilesGood
  <2>5. InTurn'
    <3> SUFFICES ASSUME ~torn', ~overlapped'
                 PROVE  (OneBusy /\ CopyShows /\ WritesOwn /\ TmpShows /\ FileShows)'
      BY DEF InTurn
    <3>1. ~torn /\ ~overlapped
      BY <1>1, <2>1
    <3>2. \A q \in Requests : q # r => req[q].pc = "idle"
      BY <1>0, <1>1, <3>1, OthersIdle DEF InTurn
    <3>3. Shows(file, table, marked)
      BY <1>0, <1>1, <3>1, <3>2 DEF InTurn, FileShows
    <3>4. Shows(file, table, marked)'
      BY <1>1, <1>2, <3>3 DEF Shows
    <3>5. \A q \in Requests : req'[q].pc = "idle"
      BY <2>2, <3>2
    <3> QED
      BY <3>4, <3>5 DEF OneBusy, CopyShows, WritesOwn, TmpShows, FileShows, Busy
  <2> QED
    BY <2>3, <2>4, <2>5 DEF LayoutInv
<1>4. CASE ~Refused(req[r].op)
  <2>1. /\ buf' = [buf EXCEPT ![r] = Edited(req[r].op)]
        /\ req' = [req EXCEPT ![r].pc = "open"]
        /\ torn' = (torn \/ Len(file) < FLASH_SIZE)
    BY <1>4 DEF LoadEdit
  <2>2. /\ req' \in [Requests -> [op : Ops \cup {NoOp}, pc : {"idle", "load", "open", "write", "replace"}]]
        /\ \A q \in Requests : Busy(q)' => req'[q].op \in Ops
        /\ \A q \in Requests : req'[q].pc = IF q = r THEN "open" ELSE req[q].pc
        /\ \A q \in Requests : req'[q].op = req[q].op
    BY <1>0, <1>1, <2>1, MoveStep
  <2>3. file \in Seq(Cell)
    BY <1>0 DEF LayoutTypes, file
  <2>4. Edited(req[r].op) \in Seq(Cell)
    BY <1>1, <2>3, EditedType
  <2>5. LayoutTypes'
    <3>1. buf' \in [Requests -> Seq(Cell)]
      BY <1>0, <2>1, <2>4 DEF LayoutTypes
    <3>2. torn' \in BOOLEAN
      BY <2>1
    <3> QED
      BY <1>0, <1>1, <2>2, <3>1, <3>2 DEF LayoutTypes
  <2>6. \A q \in Requests : buf'[q] = IF q = r THEN Edited(req[r].op) ELSE buf[q]
    BY <1>0, <2>1 DEF LayoutTypes
  <2>7. ASSUME ~torn'
        PROVE  ~torn /\ file \in Flash /\ Good(file)
    <3>1. ~torn /\ ~ (Len(file) < FLASH_SIZE)
      BY <2>1, <2>7
    <3>2. file = <<>> \/ Good(file)
      BY <1>0, <3>1 DEF FilesGood, LayoutTypes, file
    <3>3. file # <<>>
      <4>1. Len(<<>>) = 0 /\ 0 < FLASH_SIZE
        BY Sizes
      <4> QED
        BY <3>1, <4>1
    <3> QED
      BY <2>3, <3>1, <3>2, <3>3, GoodIsFlash
  <2>8. FilesGood'
    <3> SUFFICES ASSUME ~torn'
                 PROVE  /\ \A i \in Inodes : content'[i] = <<>> \/ Good(content'[i])
                        /\ \A q \in Requests : req'[q].pc \in {"open", "write"} => Good(buf'[q])
      BY DEF FilesGood
    <3>1. Good(Edited(req[r].op))
      BY <1>0, <1>1, <1>4, <2>7, EditedShows DEF LayoutTypes
    <3> QED
      BY <1>0, <1>1, <2>2, <2>6, <2>7, <3>1 DEF FilesGood
  <2>9. InTurn'
    <3> SUFFICES ASSUME ~torn', ~overlapped'
                 PROVE  (OneBusy /\ CopyShows /\ WritesOwn /\ TmpShows /\ FileShows)'
      BY DEF InTurn
    <3>1. ~torn /\ ~overlapped
      BY <1>1, <2>7
    <3>2. \A q \in Requests : q # r => req[q].pc = "idle"
      BY <1>0, <1>1, <3>1, OthersIdle DEF InTurn
    <3>3. Shows(file, table, marked)
      BY <1>0, <1>1, <3>1, <3>2 DEF InTurn, FileShows
    <3>4. Shows(file, table, marked)'
      BY <1>1, <1>2, <3>3 DEF Shows
    <3>5. \A q \in Requests : req'[q].pc = IF q = r THEN "open" ELSE "idle"
      BY <2>2, <3>2
    <3>6. Shows(Edited(req[r].op), Entered(req[r].op), marked /\ InPlace(req[r].op))
      BY <1>0, <1>1, <1>4, <2>7, <3>3, EditedShows DEF LayoutTypes
    <3>7. Entered(req[r].op)' = Entered(req[r].op)
      BY <1>1, <2>2 DEF Entered
    <3>8. (marked /\ InPlace(req[r].op))' = (marked /\ InPlace(req[r].op))
      BY <1>1, <2>2 DEF InPlace
    <3>9. CopyShows'
      <4> SUFFICES ASSUME NEW q \in Requests, req'[q].pc \in {"open", "write"}
                   PROVE  Shows(buf'[q], Entered(req[q].op)', (marked /\ InPlace(req[q].op))')
        BY DEF CopyShows
      <4>1. q = r
        BY <3>5
      <4> QED
        BY <2>6, <3>6, <3>7, <3>8, <4>1
    <3> QED
      BY <3>4, <3>5, <3>9 DEF OneBusy, WritesOwn, TmpShows, FileShows, Busy
  <2> QED
    BY <2>5, <2>8, <2>9 DEF LayoutInv
<1> QED
  BY <1>3, <1>4

LEMMA OpenTmpStep ==
    ASSUME LayoutInv, NEW r \in Requests, OpenTmp(r)
    PROVE  LayoutInv'
<1>0. LayoutTypes /\ FilesGood /\ InTurn
  BY DEF LayoutInv
<1>1. /\ req[r].pc = "open" /\ ~InPlace(req[r].op) /\ Busy(r)
      /\ req' = [req EXCEPT ![r].pc = "write"]
      /\ UNCHANGED <<path, buf, table, marked, overlapped, torn, edits, crashes>>
  BY DEF OpenTmp, histVars, Busy
<1>2. PICK f \in Inodes : /\ f # path /\ tmp' = f
                          /\ handle' = [handle EXCEPT ![r] = f]
                          /\ content' = [content EXCEPT ![f] = <<>>]
  <2> DEFINE used == {path, tmp} \cup {handle[q] : q \in Requests}
             f == IF tmp # 0 THEN tmp ELSE CHOOSE i \in Inodes : i \notin used
  <2>1. tmp' = f /\ handle' = [handle EXCEPT ![r] = f] /\ content' = [content EXCEPT ![f] = <<>>]
    BY DEF OpenTmp
  <2>2. f \in Inodes /\ f # path
    <3>1. CASE tmp # 0
      BY <1>0, <3>1 DEF LayoutTypes
    <3>2. CASE tmp = 0
      <4>1. \E i \in Inodes : i \notin used
        BY <1>0, <3>2, FreeInode
      <4>2. (CHOOSE i \in Inodes : i \notin used) \in Inodes
            /\ (CHOOSE i \in Inodes : i \notin used) \notin used
        BY <4>1, Zenon
      <4>3. path \in used
        OBVIOUS
      <4> QED
        BY <3>2, <4>2, <4>3
    <3> QED
      BY <3>1, <3>2
  <2> QED
    BY <2>1, <2>2, Zenon
<1>3. /\ req' \in [Requests -> [op : Ops \cup {NoOp}, pc : {"idle", "load", "open", "write", "replace"}]]
      /\ \A q \in Requests : Busy(q)' => req'[q].op \in Ops
      /\ \A q \in Requests : req'[q].pc = IF q = r THEN "write" ELSE req[q].pc
      /\ \A q \in Requests : req'[q].op = req[q].op
  BY <1>0, <1>1, MoveStep
<1>4. LayoutTypes'
  <2>1. content' \in [Inodes -> Seq(Cell)]
    BY <1>0, <1>2, EmptySeq DEF LayoutTypes
  <2>2. handle' \in [Requests -> Inodes \cup {0}]
    BY <1>0, <1>2 DEF LayoutTypes
  <2> QED
    BY <1>0, <1>1, <1>2, <1>3, <2>1, <2>2 DEF LayoutTypes
<1>5. \A i \in Inodes : content'[i] = IF i = f THEN <<>> ELSE content[i]
  BY <1>0, <1>2 DEF LayoutTypes
<1>6. FilesGood'
  BY <1>0, <1>1, <1>3, <1>5 DEF FilesGood
<1>7. InTurn'
  <2> SUFFICES ASSUME ~torn', ~overlapped'
               PROVE  (OneBusy /\ CopyShows /\ WritesOwn /\ TmpShows /\ FileShows)'
    BY DEF InTurn
  <2>1. ~torn /\ ~overlapped
    BY <1>1
  <2>2. \A q \in Requests : q # r => req[q].pc = "idle"
    BY <1>0, <1>1, <2>1, OthersIdle DEF InTurn
  <2>3. \A q \in Requests : req'[q].pc = IF q = r THEN "write" ELSE "idle"
    BY <1>3, <2>2
  <2>4. Shows(file, table, marked)
    BY <1>0, <1>1, <2>1, <2>2 DEF InTurn, FileShows
  <2>5. file' = file
    BY <1>0, <1>1, <1>2, <1>5 DEF file, LayoutTypes
  <2>6. Shows(file, table, marked)'
    BY <1>1, <2>4, <2>5 DEF Shows
  <2>7. Shows(buf[r], Entered(req[r].op), marked /\ InPlace(req[r].op))
    BY <1>0, <1>1, <2>1 DEF InTurn, CopyShows
  <2>8. Entered(req[r].op)' = Entered(req[r].op)
    BY <1>1, <1>3 DEF Entered
  <2>9. (marked /\ InPlace(req[r].op))' = (marked /\ InPlace(req[r].op))
    BY <1>1, <1>3 DEF InPlace
  <2>10. CopyShows'
    <3> SUFFICES ASSUME NEW q \in Requests, req'[q].pc \in {"open", "write"}
                 PROVE  Shows(buf'[q], Entered(req[q].op)', (marked /\ InPlace(req[q].op))')
      BY DEF CopyShows
    <3>1. q = r
      BY <2>3
    <3> QED
      BY <1>1, <2>7, <2>8, <2>9, <3>1
  <2>11. WritesOwn'
    <3>1. handle'[r] = f /\ tmp' = f /\ f # 0
      BY <1>0, <1>2, InodeFacts DEF LayoutTypes
    <3>2. ~InPlace(req'[r].op)
      BY <1>1, <1>3 DEF InPlace
    <3> QED
      BY <2>3, <3>1, <3>2 DEF WritesOwn
  <2> QED
    BY <2>3, <2>6, <2>10, <2>11 DEF OneBusy, TmpShows, FileShows, Busy
<1> QED
  BY <1>4, <1>6, <1>7 DEF LayoutInv

LEMMA OpenPathStep ==
    ASSUME LayoutInv, NEW r \in Requests, OpenPath(r)
    PROVE  LayoutInv'
<1>0. LayoutTypes /\ FilesGood /\ InTurn
  BY DEF LayoutInv
<1>1. /\ req[r].pc = "open" /\ InPlace(req[r].op) /\ Busy(r)
      /\ req' = [req EXCEPT ![r].pc = "write"]
      /\ content' = [content EXCEPT ![path] = <<>>]
      /\ handle' = [handle EXCEPT ![r] = path]
      /\ UNCHANGED <<path, tmp, buf, table, marked, overlapped, torn, edits, crashes>>
  BY DEF OpenPath, histVars, Busy
<1>3. /\ req' \in [Requests -> [op : Ops \cup {NoOp}, pc : {"idle", "load", "open", "write", "replace"}]]
      /\ \A q \in Requests : Busy(q)' => req'[q].op \in Ops
      /\ \A q \in Requests : req'[q].pc = IF q = r THEN "write" ELSE req[q].pc
      /\ \A q \in Requests : req'[q].op = req[q].op
  BY <1>0, <1>1, MoveStep
<1>4. LayoutTypes'
  <2>1. content' \in [Inodes -> Seq(Cell)]
    BY <1>0, <1>1, EmptySeq DEF LayoutTypes
  <2>2. handle' \in [Requests -> Inodes \cup {0}]
    BY <1>0, <1>1 DEF LayoutTypes
  <2> QED
    BY <1>0, <1>1, <1>3, <2>1, <2>2 DEF LayoutTypes
<1>5. \A i \in Inodes : content'[i] = IF i = path THEN <<>> ELSE content[i]
  BY <1>0, <1>1 DEF LayoutTypes
<1>6. FilesGood'
  BY <1>0, <1>1, <1>3, <1>5 DEF FilesGood
<1>7. InTurn'
  <2> SUFFICES ASSUME ~torn', ~overlapped'
               PROVE  (OneBusy /\ CopyShows /\ WritesOwn /\ TmpShows /\ FileShows)'
    BY DEF InTurn
  <2>1. ~torn /\ ~overlapped
    BY <1>1
  <2>2. \A q \in Requests : q # r => req[q].pc = "idle"
    BY <1>0, <1>1, <2>1, OthersIdle DEF InTurn
  <2>3. \A q \in Requests : req'[q].pc = IF q = r THEN "write" ELSE "idle"
    BY <1>3, <2>2
  <2>7. Shows(buf[r], Entered(req[r].op), marked /\ InPlace(req[r].op))
    BY <1>0, <1>1, <2>1 DEF InTurn, CopyShows
  <2>8. Entered(req[r].op)' = Entered(req[r].op)
    BY <1>1, <1>3 DEF Entered
  <2>9. (marked /\ InPlace(req[r].op))' = (marked /\ InPlace(req[r].op))
    BY <1>1, <1>3 DEF InPlace
  <2>10. CopyShows'
    <3> SUFFICES ASSUME NEW q \in Requests, req'[q].pc \in {"open", "write"}
                 PROVE  Shows(buf'[q], Entered(req[q].op)', (marked /\ InPlace(req[q].op))')
      BY DEF CopyShows
    <3>1. q = r
      BY <2>3
    <3> QED
      BY <1>1, <2>7, <2>8, <2>9, <3>1
  <2>11. InPlace(req'[r].op)
    BY <1>1, <1>3 DEF InPlace
  <2>12. WritesOwn'
    <3>1. handle'[r] = path /\ path' = path
      BY <1>0, <1>1 DEF LayoutTypes
    <3> QED
      BY <2>3, <2>11, <3>1 DEF WritesOwn
  <2>13. FileShows'
    <3>1. req'[r].pc = "write"
      BY <2>3
    <3>2. \E q \in Requests : req'[q].pc = "write" /\ InPlace(req'[q].op)
      BY <2>11, <3>1
    <3> QED
      BY <3>2 DEF FileShows, InPlace
  <2> QED
    BY <2>3, <2>10, <2>12, <2>13 DEF OneBusy, TmpShows, Busy
<1> QED
  BY <1>4, <1>6, <1>7 DEF LayoutInv

\* An edit that is entered into the table leaves a table.
LEMMA CommitType ==
    ASSUME LayoutTypes, NEW op \in Ops, Commit(op)
    PROVE  table' \in Tables /\ marked' \in BOOLEAN
<1>1. Entered(op) \in Tables
  BY EnteredIs DEF LayoutTypes
<1> QED
  BY <1>1 DEF Commit, LayoutTypes

LEMMA WriteStep ==
    ASSUME LayoutInv, NEW r \in Requests, Write(r)
    PROVE  LayoutInv'
<1>0. LayoutTypes /\ FilesGood /\ InTurn
  BY DEF LayoutInv
<1>1. /\ req[r].pc = "write" /\ Busy(r) /\ req[r].op \in Ops
      /\ content' = [content EXCEPT ![handle[r]] = buf[r]]
      /\ buf' = [buf EXCEPT ![r] = <<>>]
      /\ handle' = [handle EXCEPT ![r] = 0]
      /\ UNCHANGED <<path, tmp, overlapped, torn, edits, crashes>>
  BY <1>0 DEF Write, Busy, LayoutTypes
<1>2. /\ content' \in [Inodes -> Seq(Cell)] /\ buf' \in [Requests -> Seq(Cell)]
      /\ handle' \in [Requests -> Inodes \cup {0}]
  BY <1>0, <1>1, EmptySeq DEF LayoutTypes
<1>3. /\ \A i \in Inodes : content'[i] = IF i = handle[r] THEN buf[r] ELSE content[i]
      /\ \A q \in Requests : q # r => buf'[q] = buf[q]
  BY <1>0, <1>1 DEF LayoutTypes
<1>4. CASE InPlace(req[r].op)
  <2>1. Commit(req[r].op) /\ Finish(r)
    BY <1>4 DEF Write
  <2>2. /\ req' \in [Requests -> [op : Ops \cup {NoOp}, pc : {"idle", "load", "open", "write", "replace"}]]
        /\ \A q \in Requests : Busy(q)' => req'[q].op \in Ops
        /\ \A q \in Requests : req'[q].pc = IF q = r THEN "idle" ELSE req[q].pc
        /\ \A q \in Requests : q # r => req'[q] = req[q]
    BY <1>0, <2>1, FinishStep
  <2>3. LayoutTypes'
    <3>1. table' \in Tables /\ marked' \in BOOLEAN
      BY <1>0, <1>1, <2>1, CommitType
    <3> QED
      BY <1>0, <1>1, <1>2, <2>2, <3>1 DEF LayoutTypes
  <2>4. FilesGood'
    BY <1>0, <1>1, <1>3, <2>2 DEF FilesGood
  <2>5. InTurn'
    <3> SUFFICES ASSUME ~torn', ~overlapped'
                 PROVE  (OneBusy /\ CopyShows /\ WritesOwn /\ TmpShows /\ FileShows)'
      BY DEF InTurn
    <3>1. ~torn /\ ~overlapped
      BY <1>1
    <3>2. \A q \in Requests : q # r => req[q].pc = "idle"
      BY <1>0, <1>1, <3>1, OthersIdle DEF InTurn
    <3>3. \A q \in Requests : req'[q].pc = "idle"
      BY <2>2, <3>2
    <3>4. Shows(buf[r], Entered(req[r].op), marked /\ InPlace(req[r].op))
      BY <1>0, <1>1, <3>1 DEF InTurn, CopyShows
    <3>5. table' = Entered(req[r].op) /\ marked' = (marked /\ InPlace(req[r].op))
      BY <2>1, <3>1 DEF Commit
    <3>6. file' = buf[r]
      <4>1. handle[r] = path
        BY <1>0, <1>1, <1>4, <3>1 DEF InTurn, WritesOwn
      <4> QED
        BY <1>0, <1>1, <1>3, <4>1 DEF file, LayoutTypes
    <3>7. Shows(file', table', marked')
      BY <3>4, <3>5, <3>6
    <3>8. Shows(file, table, marked)'
      BY <3>7 DEF Shows
    <3> QED
      BY <3>3, <3>8 DEF OneBusy, CopyShows, WritesOwn, TmpShows, FileShows, Busy
  <2> QED
    BY <2>3, <2>4, <2>5 DEF LayoutInv
<1>5. CASE ~InPlace(req[r].op)
  <2>1. req' = [req EXCEPT ![r].pc = "replace"] /\ UNCHANGED <<table, marked>>
    BY <1>5 DEF Write
  <2>2. /\ req' \in [Requests -> [op : Ops \cup {NoOp}, pc : {"idle", "load", "open", "write", "replace"}]]
        /\ \A q \in Requests : Busy(q)' => req'[q].op \in Ops
        /\ \A q \in Requests : req'[q].pc = IF q = r THEN "replace" ELSE req[q].pc
        /\ \A q \in Requests : req'[q].op = req[q].op
    BY <1>0, <1>1, <2>1, MoveStep
  <2>3. LayoutTypes'
    BY <1>0, <1>1, <1>2, <2>1, <2>2 DEF LayoutTypes
  <2>4. FilesGood'
    BY <1>0, <1>1, <1>3, <2>2 DEF FilesGood
  <2>5. InTurn'
    <3> SUFFICES ASSUME ~torn', ~overlapped'
                 PROVE  (OneBusy /\ CopyShows /\ WritesOwn /\ TmpShows /\ FileShows)'
      BY DEF InTurn
    <3>1. ~torn /\ ~overlapped
      BY <1>1
    <3>2. \A q \in Requests : q # r => req[q].pc = "idle"
      BY <1>0, <1>1, <3>1, OthersIdle DEF InTurn
    <3>3. \A q \in Requests : req'[q].pc = IF q = r THEN "replace" ELSE "idle"
      BY <2>2, <3>2
    <3>4. Shows(buf[r], Entered(req[r].op), marked /\ InPlace(req[r].op))
      BY <1>0, <1>1, <3>1 DEF InTurn, CopyShows
    <3>5. Entered(req[r].op)' = Entered(req[r].op)
      BY <2>1, <2>2 DEF Entered
    <3>6. tmp # 0 /\ handle[r] = tmp
      BY <1>0, <1>1, <1>5, <3>1 DEF InTurn, WritesOwn
    <3>7. content'[tmp'] = buf[r]
      BY <1>0, <1>1, <1>3, <3>6 DEF LayoutTypes
    <3>8. Shows(buf[r], Entered(req[r].op), FALSE)
      BY <1>5, <3>4 DEF Shows
    <3>9. TmpShows'
      <4> SUFFICES ASSUME NEW q \in Requests, req'[q].pc = "replace"
                   PROVE  /\ ~InPlace(req[q].op)' /\ tmp' # 0
                          /\ Shows(content'[tmp'], Entered(req[q].op)', FALSE)
        BY DEF TmpShows
      <4>1. q = r
        BY <3>3
      <4>2. ~InPlace(req[q].op)'
        BY <1>5, <2>2, <4>1 DEF InPlace
      <4> QED
        BY <1>1, <3>5, <3>6, <3>7, <3>8, <4>1, <4>2
    <3>10. Shows(file, table, marked)
      BY <1>0, <1>1, <1>5, <3>1, <3>2 DEF InTurn, FileShows
    <3>11. file' = file
      BY <1>0, <1>1, <1>3, <3>6 DEF file, LayoutTypes
    <3>12. Shows(file, table, marked)'
      BY <2>1, <3>10, <3>11 DEF Shows
    <3> QED
      BY <3>3, <3>9, <3>12 DEF OneBusy, CopyShows, WritesOwn, FileShows, Busy
  <2> QED
    BY <2>3, <2>4, <2>5 DEF LayoutInv
<1> QED
  BY <1>4, <1>5

LEMMA ReplaceStep ==
    ASSUME LayoutInv, NEW r \in Requests, Replace(r)
    PROVE  LayoutInv'
<1>0. LayoutTypes /\ FilesGood /\ InTurn
  BY DEF LayoutInv
<1>1. /\ req[r].pc = "replace" /\ Busy(r) /\ req[r].op \in Ops /\ Finish(r)
      /\ UNCHANGED <<content, buf, handle, overlapped, torn, edits, crashes>>
  BY <1>0 DEF Replace, Busy, LayoutTypes
<1>2. /\ req' \in [Requests -> [op : Ops \cup {NoOp}, pc : {"idle", "load", "open", "write", "replace"}]]
      /\ \A q \in Requests : Busy(q)' => req'[q].op \in Ops
      /\ \A q \in Requests : req'[q].pc = IF q = r THEN "idle" ELSE req[q].pc
      /\ \A q \in Requests : q # r => req'[q] = req[q]
  BY <1>0, <1>1, FinishStep
<1>3. LayoutTypes'
  <2>1. CASE tmp = 0
    <3>1. UNCHANGED <<path, tmp, table, marked>>
      BY <2>1 DEF Replace
    <3> QED
      BY <1>0, <1>1, <1>2, <3>1 DEF LayoutTypes
  <2>2. CASE tmp # 0
    <3>1. path' = tmp /\ tmp' = 0 /\ Commit(req[r].op)
      BY <2>2 DEF Replace
    <3>2. table' \in Tables /\ marked' \in BOOLEAN
      BY <1>0, <1>1, <3>1, CommitType
    <3>3. path' \in Inodes /\ tmp' # path'
      BY <1>0, <2>2, <3>1 DEF LayoutTypes
    <3> QED
      BY <1>0, <1>1, <1>2, <3>1, <3>2, <3>3 DEF LayoutTypes
  <2> QED
    BY <2>1, <2>2
<1>4. FilesGood'
  BY <1>0, <1>1, <1>2 DEF FilesGood
<1>5. InTurn'
  <2> SUFFICES ASSUME ~torn', ~overlapped'
               PROVE  (OneBusy /\ CopyShows /\ WritesOwn /\ TmpShows /\ FileShows)'
    BY DEF InTurn
  <2>1. ~torn /\ ~overlapped
    BY <1>1
  <2>2. \A q \in Requests : q # r => req[q].pc = "idle"
    BY <1>0, <1>1, <2>1, OthersIdle DEF InTurn
  <2>3. \A q \in Requests : req'[q].pc = "idle"
    BY <1>2, <2>2
  <2>4. ~InPlace(req[r].op) /\ tmp # 0 /\ Shows(content[tmp], Entered(req[r].op), FALSE)
    BY <1>0, <1>1, <2>1 DEF InTurn, TmpShows
  <2>5. path' = tmp /\ table' = Entered(req[r].op) /\ marked' = FALSE
    BY <2>1, <2>4 DEF Replace, Commit
  <2>6. file' = content[tmp]
    BY <1>1, <2>5 DEF file
  <2>7. Shows(file', table', marked')
    BY <2>4, <2>5, <2>6
  <2>8. Shows(file, table, marked)'
    BY <2>7 DEF Shows
  <2> QED
    BY <2>3, <2>8 DEF OneBusy, CopyShows, WritesOwn, TmpShows, FileShows, Busy
<1> QED
  BY <1>3, <1>4, <1>5 DEF LayoutInv

LEMMA FunctionIsFlash ==
    ASSUME NEW b \in [1..FLASH_SIZE -> Cell]
    PROVE  b \in Flash
<1>1. b \in Seq(Cell) /\ Len(b) = FLASH_SIZE
  BY Sizes
<1> QED
  BY <1>1 DEF Flash

\* The markers lie in no slot and no app.
LEMMA MarksShow ==
    ASSUME NEW b \in Flash, Good(b), NEW e,
           e = [b EXCEPT ![STATE_A_BASE + 1] = Data("m"), ![STATE_B_BASE + 1] = Data("m")]
    PROVE  /\ e \in Flash /\ Good(e)
           /\ \A tb, m : Shows(b, tb, m) => Shows(e, tb, TRUE)
<1>1. b \in Seq(Cell) /\ Len(b) = FLASH_SIZE /\ Data("m") \in Cell
  BY FlashCells, CellTypes DEF Values
<1>2. STATE_A_BASE + 1 \in 1..FLASH_SIZE /\ STATE_B_BASE + 1 \in 1..FLASH_SIZE
  BY Sizes
<1>3. b \in [1..FLASH_SIZE -> Cell]
  BY <1>1, LenProperties
<1>4. e \in [1..FLASH_SIZE -> Cell]
  BY <1>1, <1>3
<1>5. e \in Flash
  BY <1>4, FunctionIsFlash
<1>6. \A c \in 1..FLASH_SIZE : c # STATE_A_BASE + 1 /\ c # STATE_B_BASE + 1 => e[c] = b[c]
  BY <1>3
<1>7. ASSUME NEW t \in Slots PROVE read_slot(e, t) = read_slot(b, t)
  <2>1. ASSUME NEW c \in 1..FLASH_SIZE, slot_base(t) < c, c <= slot_base(t) + SLOT_STRIDE
        PROVE  e[c] = b[c]
    <3>1. c # STATE_A_BASE + 1 /\ c # STATE_B_BASE + 1
      BY <2>1, SlotRange, Sizes
    <3> QED
      BY <1>6, <3>1
  <2>2. Fits(read_slot(b, t).image)
    BY DEF Good
  <2> QED
    BY <1>5, <2>1, <2>2, SlotLocal
<1>8. ASSUME NEW t \in Apps PROVE read_app(e, t) = read_app(b, t)
  <2>1. ASSUME NEW c \in 1..FLASH_SIZE, app_base(t) < c, c <= app_base(t) + APP_STRIDE
        PROVE  e[c] = b[c]
    <3>1. c # STATE_A_BASE + 1 /\ c # STATE_B_BASE + 1
      BY <2>1, AppRange, Sizes
    <3> QED
      BY <1>6, <3>1
  <2>2. Len(read_app(b, t).image) <= APP_OVERLAY_MAX
    BY DEF Good
  <2> QED
    BY <1>5, <2>1, <2>2, AppLocal
<1>9. ASSUME NEW c \in 0..(SLOT_BACKUP_BASE - 1) PROVE CellAt(e, c) = CellAt(b, c)
  <2>1. SLOT_COUNT * SLOT_STRIDE \in Nat
    BY Sizes
  <2>2. SLOT_BACKUP_BASE <= STATE_A_BASE
    BY <2>1, LayoutAssumption, Sizes
  <2>3. /\ c \in 0..(FLASH_SIZE - 1) /\ c + 1 \in 1..FLASH_SIZE
        /\ c + 1 # STATE_A_BASE + 1 /\ c + 1 # STATE_B_BASE + 1
    BY <2>2, Sizes
  <2> QED
    BY <1>5, <1>6, <2>3, FlashCells
<1>10. Good(e)
  <2>1. \A t \in Slots : read_slot(e, t).state # "mismatch" /\ Fits(read_slot(e, t).image)
    BY <1>7 DEF Good
  <2>2. \A t \in Apps : read_app(e, t).state # "mismatch" /\ Len(read_app(e, t).image) <= APP_OVERLAY_MAX
    BY <1>8 DEF Good
  <2> QED
    BY <1>5, <2>1, <2>2, FlashCells DEF Good
<1>11. ASSUME NEW tb, NEW m, Shows(b, tb, m) PROVE Shows(e, tb, TRUE)
  BY <1>7, <1>8, <1>9, <1>10, <1>11 DEF Shows
<1> QED
  BY <1>5, <1>10, <1>11

LEMMA FirmwareMarksStep ==
    ASSUME LayoutInv, FirmwareMarks
    PROVE  LayoutInv'
<1>0. LayoutTypes /\ FilesGood /\ InTurn
  BY DEF LayoutInv
<1> DEFINE e == [file EXCEPT ![STATE_A_BASE + 1] = Data("m"), ![STATE_B_BASE + 1] = Data("m")]
<1>1. /\ \A r \in Requests : req[r].pc = "idle"
      /\ Len(file) = FLASH_SIZE /\ marked' = TRUE
      /\ UNCHANGED <<path, tmp, req, buf, handle, table, overlapped, torn, edits, crashes>>
  BY DEF FirmwareMarks, Busy
<1>2. content' = [content EXCEPT ![path] = e]
  BY DEF FirmwareMarks, file
<1>3. file \in Flash
  BY <1>0, <1>1 DEF LayoutTypes, file, Flash
<1>4. e \in Seq(Cell)
  <2>1. Data("m") \in Cell
    BY CellTypes DEF Values
  <2>2. file \in [1..FLASH_SIZE -> Cell]
    BY <1>3, FlashCells, LenProperties
  <2>3. e \in [1..FLASH_SIZE -> Cell]
    BY <2>1, <2>2
  <2>4. e \in Flash
    BY <2>3, FunctionIsFlash
  <2> QED
    BY <2>4, FlashCells
<1>5. ASSUME Good(file) PROVE Good(e) /\ \A tb, m : Shows(file, tb, m) => Shows(e, tb, TRUE)
  BY <1>3, <1>5, MarksShow
<1> HIDE DEF e
<1>6. \A i \in Inodes : content'[i] = IF i = path THEN e ELSE content[i]
  BY <1>0, <1>2 DEF LayoutTypes
<1>7. LayoutTypes'
  <2>1. content' \in [Inodes -> Seq(Cell)]
    BY <1>0, <1>2, <1>4 DEF LayoutTypes
  <2>2. \A r \in Requests : Busy(r)' => req'[r].op \in Ops
    BY <1>1 DEF Busy
  <2> QED
    BY <1>0, <1>1, <2>1, <2>2 DEF LayoutTypes
<1>8. ASSUME ~torn PROVE Good(file)
  <2>1. file = <<>> \/ Good(file)
    BY <1>0, <1>8 DEF FilesGood, LayoutTypes, file
  <2>2. Len(<<>>) = 0 /\ FLASH_SIZE # 0
    BY Sizes
  <2> QED
    BY <1>1, <2>1, <2>2
<1>9. FilesGood'
  BY <1>0, <1>1, <1>5, <1>6, <1>8 DEF FilesGood
<1>10. InTurn'
  <2> SUFFICES ASSUME ~torn', ~overlapped'
               PROVE  (OneBusy /\ CopyShows /\ WritesOwn /\ TmpShows /\ FileShows)'
    BY DEF InTurn
  <2>1. ~torn /\ ~overlapped /\ \A r \in Requests : req'[r].pc = "idle"
    BY <1>1
  <2>2. Shows(file, table, marked)
    BY <1>0, <1>1, <2>1 DEF InTurn, FileShows
  <2>3. file' = e
    BY <1>0, <1>1, <1>6 DEF file, LayoutTypes
  <2>4. Shows(file', table', marked')
    BY <1>1, <1>5, <1>8, <2>1, <2>2, <2>3
  <2>5. Shows(file, table, marked)'
    BY <2>4 DEF Shows
  <2> QED
    BY <2>1, <2>5 DEF OneBusy, CopyShows, WritesOwn, TmpShows, FileShows, Busy
<1> QED
  BY <1>7, <1>9, <1>10 DEF LayoutInv

LEMMA CrashStep ==
    ASSUME LayoutInv, Crash
    PROVE  LayoutInv'
<1>0. LayoutTypes /\ FilesGood /\ InTurn
  BY DEF LayoutInv
<1>1. /\ req' = [r \in Requests |-> [op |-> NoOp, pc |-> "idle"]]
      /\ buf' = [r \in Requests |-> <<>>] /\ handle' = [r \in Requests |-> 0]
      /\ torn' = (torn \/ \E r \in Requests : InPlace(req[r].op) /\ req[r].pc = "write")
      /\ UNCHANGED <<content, path, tmp, table, marked, overlapped, edits>>
  BY DEF Crash, fileVars
<1>2. \A r \in Requests : req'[r].pc = "idle"
  BY <1>1
<1>3. LayoutTypes'
  <2>1. req' \in [Requests -> [op : Ops \cup {NoOp}, pc : {"idle", "load", "open", "write", "replace"}]]
    BY <1>1
  <2>2. buf' \in [Requests -> Seq(Cell)] /\ handle' \in [Requests -> Inodes \cup {0}]
    BY <1>1, EmptySeq
  <2>3. crashes' \in 0..MaxCrashes
    BY <1>0, LayoutAssumption DEF LayoutTypes, Crash
  <2>4. torn' \in BOOLEAN
    BY <1>1
  <2>5. \A r \in Requests : Busy(r)' => req'[r].op \in Ops
    BY <1>2 DEF Busy
  <2> QED
    BY <1>0, <1>1, <2>1, <2>2, <2>3, <2>4, <2>5 DEF LayoutTypes
<1>4. FilesGood'
  BY <1>0, <1>1, <1>2 DEF FilesGood
<1>5. InTurn'
  <2> SUFFICES ASSUME ~torn', ~overlapped'
               PROVE  (OneBusy /\ CopyShows /\ WritesOwn /\ TmpShows /\ FileShows)'
    BY DEF InTurn
  <2>1. ~torn /\ ~overlapped /\ ~ \E r \in Requests : InPlace(req[r].op) /\ req[r].pc = "write"
    BY <1>1
  <2>2. Shows(file, table, marked)
    BY <1>0, <2>1 DEF InTurn, FileShows
  <2>3. Shows(file, table, marked)'
    BY <1>1, <2>2 DEF Shows, file
  <2> QED
    BY <1>2, <2>3 DEF OneBusy, CopyShows, WritesOwn, TmpShows, FileShows, Busy
<1> QED
  BY <1>3, <1>4, <1>5 DEF LayoutInv

LEMMA NextLayout == LayoutInv /\ [Next]_vars => LayoutInv'
<1> SUFFICES ASSUME LayoutInv, [Next]_vars PROVE LayoutInv'
  OBVIOUS
<1>1. ASSUME NEW r \in Requests, Step(r) PROVE LayoutInv'
  BY <1>1, LoadEditStep, OpenTmpStep, OpenPathStep, WriteStep, ReplaceStep DEF Step
<1>2. ASSUME NEW r \in Requests, NEW op \in Ops, Submit(r, op) PROVE LayoutInv'
  BY <1>2, SubmitStep
<1>3. CASE UNCHANGED vars
  <2>1. /\ UNCHANGED <<content, path, tmp, req, buf, handle>>
        /\ UNCHANGED <<table, marked, overlapped, torn, edits, crashes>>
    BY <1>3 DEF vars, fileVars, histVars
  <2>2. LayoutTypes'
    BY <2>1 DEF LayoutInv, LayoutTypes, Busy
  <2>3. FilesGood'
    BY <2>1 DEF LayoutInv, FilesGood
  <2>4. InTurn'
    <3> SUFFICES ASSUME ~torn', ~overlapped'
                 PROVE  (OneBusy /\ CopyShows /\ WritesOwn /\ TmpShows /\ FileShows)'
      BY DEF InTurn
    <3>1. OneBusy /\ CopyShows /\ WritesOwn /\ TmpShows /\ FileShows
      BY <2>1 DEF LayoutInv, InTurn
    <3>2. OneBusy' /\ WritesOwn'
      BY <2>1, <3>1 DEF OneBusy, WritesOwn, Busy, InPlace
    <3>3. \A r \in Requests : Entered(req[r].op)' = Entered(req[r].op)
      BY <2>1 DEF Entered
    <3>4. \A r \in Requests : (marked /\ InPlace(req[r].op))' = (marked /\ InPlace(req[r].op))
      BY <2>1 DEF InPlace
    <3>5. CopyShows'
      BY <2>1, <3>1, <3>3, <3>4 DEF CopyShows
    <3>6. TmpShows'
      BY <2>1, <3>1, <3>3 DEF TmpShows, InPlace
    <3>7. Shows(file, table, marked)' <=> Shows(file, table, marked)
      BY <2>1 DEF Shows, file
    <3>8. FileShows'
      BY <2>1, <3>1, <3>7 DEF FileShows, InPlace
    <3> QED
      BY <3>2, <3>5, <3>6, <3>8
  <2> QED
    BY <2>2, <2>3, <2>4 DEF LayoutInv
<1> QED
  BY <1>1, <1>2, <1>3, FirmwareMarksStep, CrashStep DEF Next

-----------------------------------------------------------------------------
\* Files, requests and tables keep their types, and an image that was read whole
\* is written whole, for any layout, images, requests, edits and crashes.
THEOREM LayoutTypeCorrect == Spec => []TypeOK
<1>1. LayoutInv => TypeOK
  <2> SUFFICES ASSUME LayoutInv PROVE TypeOK
    OBVIOUS
  <2>1. \A i \in Inodes : ~torn => Len(content[i]) \in {0, FLASH_SIZE}
    <3> SUFFICES ASSUME NEW i \in Inodes, ~torn PROVE Len(content[i]) \in {0, FLASH_SIZE}
      OBVIOUS
    <3>1. content[i] = <<>> \/ Good(content[i])
      BY DEF LayoutInv, FilesGood
    <3> QED
      BY <3>1 DEF Good
  <2> QED
    BY <2>1 DEF LayoutInv, LayoutTypes, TypeOK
<1> QED
  BY InitLayout, NextLayout, <1>1, PTL DEF Spec

\* Edits in turn act on a table, for any layout in which slots, markers and apps
\* follow each other, any images, any number of requests, edits and crashes:
\* each slot and app reads back what write_slot, erase_slot, install or erase
\* last left there, and the calibration and the markers are as they should be.
THEOREM LayoutTableKept == Spec => []TableKept
<1>1. LayoutInv => TableKept
  <2> SUFFICES ASSUME LayoutInv, Quiet, ~overlapped, ~torn
               PROVE  /\ \A s \in Slots : read_slot(file, s) = table.slots[s]
                      /\ \A s \in Apps : read_app(file, s) = table.apps[s]
                      /\ \A c \in 0..(SLOT_BACKUP_BASE - 1) : CellAt(file, c) = Data("cal")
                      /\ marked \/ (CellAt(file, STATE_A_BASE) = FF /\ CellAt(file, STATE_B_BASE) = FF)
    BY DEF TableKept
  <2>1. \A r \in Requests : req[r].pc = "idle"
    BY DEF Quiet, Busy
  <2>2. Shows(file, table, marked)
    BY <2>1 DEF LayoutInv, InTurn, FileShows
  <2> QED
    BY <2>2 DEF Shows
<1> QED
  BY InitLayout, NextLayout, <1>1, PTL DEF Spec

\* Slot edits never leave a truncated image, crash or not (save_image), and
\* however edits overlap, a complete image has no slot or app with a wrong CRC.
THEOREM LayoutNeverTorn == Spec => []NeverTorn
<1>1. LayoutInv => NeverTorn
  <2> SUFFICES ASSUME LayoutInv PROVE NeverTorn
    OBVIOUS
  <2>1. \/ Len(file) = FLASH_SIZE
        \/ overlapped \/ torn
        \/ \E r \in Requests : InPlace(req[r].op) /\ req[r].pc = "write"
    BY DEF LayoutInv, InTurn, FileShows, Shows, Good
  <2>2. ASSUME Len(file) = FLASH_SIZE, ~torn
        PROVE  /\ \A s \in Slots : read_slot(file, s).state # "mismatch"
               /\ \A s \in Apps : read_app(file, s).state # "mismatch"
    <3>1. file = <<>> \/ Good(file)
      BY <2>2 DEF LayoutInv, LayoutTypes, FilesGood, file
    <3>2. Len(<<>>) = 0 /\ FLASH_SIZE # 0
      BY Sizes
    <3>3. Good(file)
      BY <2>2, <3>1, <3>2
    <3> QED
      BY <3>3 DEF Good
  <2> QED
    BY <2>1, <2>2 DEF NeverTorn
<1> QED
  BY InitLayout, NextLayout, <1>1, PTL DEF Spec

=============================================================================
