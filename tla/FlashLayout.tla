------------------------------ MODULE FlashLayout ------------------------------
(***************************************************************************)
(* Firmware slots and overlay apps in the flash image: uvk5_slots.py,      *)
(* uvk5_apps.py and the handlers of webui.py that call them.  Every edit   *)
(* reads the whole image, changes it in memory and writes it back; slots   *)
(* go through a temporary file that is renamed, apps are written in place. *)
(* Requests run on threads of their own and share one temporary name.      *)
(*                                                                         *)
(* The image is a sequence of cells: erased, data, or a header, which      *)
(* stands for magic, size and CRC and so is as good as a copy of what it   *)
(* describes.  Names and versions are left out.  Files are inodes, since   *)
(* a file that was renamed is still written through an open handle.  A read *)
(* or a write of a whole file is one step, as it is one system call.       *)
(***************************************************************************)
EXTENDS Integers, Sequences, FiniteSets

CONSTANTS
    Requests,
    SLOT_BACKUP_BASE, SLOT_STRIDE, SLOT_IMAGE_OFFSET, SLOT_COUNT,
    STATE_A_BASE, STATE_B_BASE,
    REGION_BASE, APP_STRIDE, CODE_OFFSET, APP_COUNT, APP_OVERLAY_MAX,
    FLASH_SIZE,
    Bytes,          \* values of a byte of an image
    Images,         \* firmware images that are uploaded
    Blobs,          \* app blobs: code, and whether the rest of the header is right
    MaxEdits,       \* bound on the edits that are asked for
    MaxCrashes      \* bound on the crashes of the server

ASSUME LayoutAssumption ==
    /\ IsFiniteSet(Requests)
    /\ SLOT_BACKUP_BASE \in Nat /\ STATE_A_BASE \in Nat /\ STATE_B_BASE \in Nat
    /\ REGION_BASE \in Nat /\ FLASH_SIZE \in Nat
    /\ SLOT_COUNT \in Nat /\ SLOT_STRIDE \in Nat /\ SLOT_IMAGE_OFFSET \in 1..SLOT_STRIDE
    /\ APP_COUNT \in Nat \ {0} /\ APP_STRIDE \in Nat /\ CODE_OFFSET \in 1..APP_STRIDE
    /\ APP_OVERLAY_MAX \in 0..(APP_STRIDE - CODE_OFFSET)
    /\ SLOT_BACKUP_BASE + SLOT_COUNT * SLOT_STRIDE <= STATE_A_BASE
    /\ STATE_A_BASE < STATE_B_BASE /\ STATE_B_BASE < REGION_BASE
    /\ REGION_BASE + APP_COUNT * APP_STRIDE <= FLASH_SIZE
    /\ Images \subseteq Seq(Bytes)
    /\ Blobs \subseteq [code : Seq(Bytes), ok : BOOLEAN]
    /\ MaxEdits \in Nat /\ MaxCrashes \in Nat

FF == [kind |-> "ff", v |-> <<>>]
Data(x) == [kind |-> "data", v |-> <<x>>]
Header(magic, image) == [kind |-> magic, v |-> image]
Cells(image) == [i \in DOMAIN image |-> Data(image[i])]

Slots == 0..(SLOT_COUNT - 1)
Apps == 0..(APP_COUNT - 1)
Inodes == 1..(Cardinality(Requests) + 2)

VARIABLES
    content,        \* what each inode holds
    path, tmp,      \* inodes of the image and of the temporary file (0: none)
    req,            \* what each request does, and how far it is
    buf, handle,    \* its copy of the image and the file it writes
    table,          \* what the slots and apps should hold (history)
    marked,         \* the firmware wrote its state markers (history)
    overlapped,     \* two requests were in progress together (history)
    torn,           \* an edit was built on an incomplete image (history)
    edits, crashes

fileVars == <<content, path, tmp>>
histVars == <<table, marked, overlapped, torn>>
vars == <<fileVars, req, buf, handle, histVars, edits, crashes>>

file == content[path]

-----------------------------------------------------------------------------
(* Edits in memory *)

Least(a, b) == IF a < b THEN a ELSE b

\* buf[at:at + n] = cells, as Python does it on a bytearray of any length.
Splice(b, at, n, cells) ==
    SubSeq(b, 1, Least(at, Len(b))) \o cells \o SubSeq(b, Least(at + n, Len(b)) + 1, Len(b))

Fill(b, at, n) == Splice(b, at, n, [i \in 1..n |-> FF])

\* Mutant: slot 1 starts where the backup does.
SlotBaseOffByOne(s) == IF s = 0 THEN SLOT_BACKUP_BASE ELSE SLOT_BACKUP_BASE + (s - 1) * SLOT_STRIDE

slot_base(s) == IF s = 0 THEN SLOT_BACKUP_BASE ELSE SLOT_BACKUP_BASE + s * SLOT_STRIDE
app_base(s) == REGION_BASE + s * APP_STRIDE

\* build_header refuses an image that is longer than a slot.
Fits(image) == Len(image) <= SLOT_STRIDE - SLOT_IMAGE_OFFSET

write_slot(b, s, image) ==
    Splice(Splice(b, slot_base(s), 1, <<Header("FMB1", image)>>),
           slot_base(s) + SLOT_IMAGE_OFFSET, Len(image), Cells(image))

erase_slot(b, s) == Fill(b, slot_base(s), SLOT_STRIDE)

erase_state(b) == Fill(Fill(b, STATE_A_BASE, 1), STATE_B_BASE, 1)

CellAt(b, i) == IF i < Len(b) THEN b[i + 1] ELSE FF
Taken(b, at, n) == SubSeq(b, Least(at, Len(b)) + 1, Least(at + n, Len(b)))

\* What a reader makes of a slot or an app.
Empty == [state |-> "empty", image |-> <<>>]
Other == [state |-> "other", image |-> <<>>]
Holds(image) == [state |-> "ok", image |-> image]

\* read_slot: the image of a committed slot, its CRC checked, or nothing.
read_slot(b, s) ==
    LET h == CellAt(b, slot_base(s))
        got == Taken(b, slot_base(s) + SLOT_IMAGE_OFFSET, Len(h.v))
    IN IF h.kind # "FMB1" THEN Empty
       ELSE [state |-> IF got = Cells(h.v) THEN "ok" ELSE "mismatch", image |-> h.v]

\* uvk5_apps.read_slot: an app, nothing, or something that is neither.  The CRC
\* is the one the firmware checks before it runs an app.
read_app(b, s) ==
    LET h == IF app_base(s) + APP_STRIDE > Len(b) THEN FF ELSE CellAt(b, app_base(s))
        got == Taken(b, app_base(s) + CODE_OFFSET, Len(h.v))
    IN CASE h.kind = "ff"   -> Empty
         [] h.kind = "FAP1" -> [state |-> IF got = Cells(h.v) THEN "ok" ELSE "mismatch",
                                image |-> h.v]
         [] OTHER           -> Other

install(b, s, code) ==
    Splice(Splice(Fill(b, app_base(s), APP_STRIDE), app_base(s), 1, <<Header("FAP1", code)>>),
           app_base(s) + CODE_OFFSET, Len(code), Cells(code))

erase(b, s) == Fill(b, app_base(s), APP_STRIDE)

-----------------------------------------------------------------------------
(* Requests *)

NoOp == [kind |-> "none", slot |-> 0, image |-> <<>>, ok |-> TRUE, force |-> FALSE]

WriteOps == [kind: {"write"}, slot: Slots, image: Images, ok: {TRUE}, force: {FALSE}]
EraseOps == [kind: {"erase"}, slot: Slots, image: {<<>>}, ok: {TRUE}, force: {FALSE}]
InstallOps == {[kind |-> "install", slot |-> s, image |-> x.code, ok |-> x.ok, force |-> f] :
                  s \in Apps, x \in Blobs, f \in BOOLEAN}
RemoveOps == [kind: {"remove"}, slot: Apps, image: {<<>>}, ok: {TRUE}, force: {FALSE}]
Ops == WriteOps \cup EraseOps \cup InstallOps \cup RemoveOps

Busy(r) == req[r].pc # "idle"
InPlace(op) == op.kind \in {"install", "remove"}

Refused(op) ==
    CASE op.kind = "write"   -> ~Fits(op.image)
      [] op.kind = "install" -> \/ ~op.ok \/ Len(op.image) \notin 1..APP_OVERLAY_MAX
                                \/ app_base(op.slot) + APP_STRIDE > Len(file)
                                \/ ~op.force /\ read_app(file, op.slot).state = "other"
      [] op.kind = "remove"  -> app_base(op.slot) + APP_STRIDE > Len(file)
      [] OTHER               -> FALSE

Edited(op) ==
    CASE op.kind = "write"   -> erase_state(write_slot(file, op.slot, op.image))
      [] op.kind = "erase"   -> erase_state(erase_slot(file, op.slot))
      [] op.kind = "install" -> install(file, op.slot, op.image)
      [] op.kind = "remove"  -> erase(file, op.slot)

Submit(r, op) ==
    /\ ~Busy(r)
    /\ edits < MaxEdits
    /\ edits' = edits + 1
    /\ req' = [req EXCEPT ![r] = [op |-> op, pc |-> "load"]]
    /\ overlapped' = (overlapped \/ \E q \in Requests : Busy(q))
    /\ UNCHANGED <<fileVars, buf, handle, table, marked, torn, crashes>>

Finish(r) == req' = [req EXCEPT ![r] = [op |-> NoOp, pc |-> "idle"]]

\* The image is read and edited, or the edit is refused.
LoadEdit(r) ==
    /\ req[r].pc = "load"
    /\ IF Refused(req[r].op)
       THEN /\ Finish(r)
            /\ UNCHANGED <<buf, torn>>
       ELSE /\ buf' = [buf EXCEPT ![r] = Edited(req[r].op)]
            /\ req' = [req EXCEPT ![r].pc = "open"]
            /\ torn' = (torn \/ Len(file) < FLASH_SIZE)
    /\ UNCHANGED <<fileVars, handle, table, marked, overlapped, edits, crashes>>

\* Mutant: save_image writes the image itself.
OpenTmpInPlace(r) ==
    /\ req[r].pc = "open" /\ ~InPlace(req[r].op)
    /\ content' = [content EXCEPT ![path] = <<>>]
    /\ handle' = [handle EXCEPT ![r] = path]
    /\ tmp' = path
    /\ req' = [req EXCEPT ![r].pc = "write"]
    /\ UNCHANGED <<path, buf, histVars, edits, crashes>>

\* save_image: an existing temporary file is truncated, whoever it belongs to.
OpenTmp(r) ==
    /\ req[r].pc = "open" /\ ~InPlace(req[r].op)
    /\ LET used == {path, tmp} \cup {handle[q] : q \in Requests}
           f == IF tmp # 0 THEN tmp ELSE CHOOSE i \in Inodes : i \notin used
       IN /\ tmp' = f
          /\ handle' = [handle EXCEPT ![r] = f]
          /\ content' = [content EXCEPT ![f] = <<>>]
    /\ req' = [req EXCEPT ![r].pc = "write"]
    /\ UNCHANGED <<path, buf, histVars, edits, crashes>>

\* install_file and erase_file truncate the image and write it in place.
OpenPath(r) ==
    /\ req[r].pc = "open" /\ InPlace(req[r].op)
    /\ content' = [content EXCEPT ![path] = <<>>]
    /\ handle' = [handle EXCEPT ![r] = path]
    /\ req' = [req EXCEPT ![r].pc = "write"]
    /\ UNCHANGED <<path, tmp, buf, histVars, edits, crashes>>

\* What the table holds once an edit is in the image.
Entered(op) ==
    CASE op.kind = "write"   -> [table EXCEPT !.slots[op.slot] = Holds(op.image)]
      [] op.kind = "erase"   -> [table EXCEPT !.slots[op.slot] = Empty]
      [] op.kind = "install" -> [table EXCEPT !.apps[op.slot] = Holds(op.image)]
      [] op.kind = "remove"  -> [table EXCEPT !.apps[op.slot] = Empty]

\* The table is not kept for edits that overlap.
Commit(op) ==
    /\ table' = IF overlapped THEN table ELSE Entered(op)
    /\ marked' = (marked /\ InPlace(op))

Write(r) ==
    /\ req[r].pc = "write"
    /\ content' = [content EXCEPT ![handle[r]] = buf[r]]
    /\ buf' = [buf EXCEPT ![r] = <<>>]
    /\ handle' = [handle EXCEPT ![r] = 0]
    /\ IF InPlace(req[r].op)
       THEN Commit(req[r].op) /\ Finish(r)
       ELSE /\ req' = [req EXCEPT ![r].pc = "replace"]
            /\ UNCHANGED <<table, marked>>
    /\ UNCHANGED <<path, tmp, overlapped, torn, edits, crashes>>

\* The rename, which fails when another request has already renamed the file.
Replace(r) ==
    /\ req[r].pc = "replace"
    /\ Finish(r)
    /\ IF tmp = 0
       THEN UNCHANGED <<path, tmp, table, marked>>
       ELSE path' = tmp /\ tmp' = 0 /\ Commit(req[r].op)
    /\ UNCHANGED <<content, buf, handle, overlapped, torn, edits, crashes>>

\* The radio runs between edits and records its state in both sectors.
FirmwareMarks ==
    /\ \A r \in Requests : ~Busy(r)
    /\ Len(file) = FLASH_SIZE
    /\ content' = [content EXCEPT ![path] =
                      [@ EXCEPT ![STATE_A_BASE + 1] = Data("m"), ![STATE_B_BASE + 1] = Data("m")]]
    /\ marked' = TRUE
    /\ UNCHANGED <<path, tmp, req, buf, handle, table, overlapped, torn, edits, crashes>>

\* The server dies with all its requests; the files stay as they are.
Crash ==
    /\ crashes < MaxCrashes
    /\ crashes' = crashes + 1
    /\ req' = [r \in Requests |-> [op |-> NoOp, pc |-> "idle"]]
    /\ buf' = [r \in Requests |-> <<>>]
    /\ handle' = [r \in Requests |-> 0]
    /\ torn' = (torn \/ \E r \in Requests : InPlace(req[r].op) /\ req[r].pc = "write")
    /\ UNCHANGED <<fileVars, table, marked, overlapped, edits>>

-----------------------------------------------------------------------------
\* An image with calibration in front, no slot, and resources of the factory
\* where the last app would be.
Init ==
    /\ content = [i \in Inodes |->
                    IF i = 1
                    THEN [c \in 1..FLASH_SIZE |->
                            IF c <= SLOT_BACKUP_BASE \/ c = app_base(APP_COUNT - 1) + 1
                            THEN Data("cal") ELSE FF]
                    ELSE <<>>]
    /\ path = 1 /\ tmp = 0
    /\ req = [r \in Requests |-> [op |-> NoOp, pc |-> "idle"]]
    /\ buf = [r \in Requests |-> <<>>]
    /\ handle = [r \in Requests |-> 0]
    /\ table = [slots |-> [s \in Slots |-> Empty],
                apps |-> [s \in Apps |-> IF s = APP_COUNT - 1 THEN Other ELSE Empty]]
    /\ marked = FALSE /\ overlapped = FALSE /\ torn = FALSE
    /\ edits = 0 /\ crashes = 0

Step(r) == LoadEdit(r) \/ OpenTmp(r) \/ OpenPath(r) \/ Write(r) \/ Replace(r)

Next ==
    \/ \E r \in Requests : Step(r) \/ \E op \in Ops : Submit(r, op)
    \/ FirmwareMarks
    \/ Crash

Spec == Init /\ [][Next]_vars

-----------------------------------------------------------------------------
\* Files, handles and requests keep their types; an image that was read whole
\* is written whole.
TypeOK ==
    /\ path \in Inodes /\ tmp \in Inodes \cup {0}
    /\ \A i \in Inodes : ~torn => Len(content[i]) \in {0, FLASH_SIZE}
    /\ \A r \in Requests :
          /\ req[r].op \in Ops \cup {NoOp}
          /\ req[r].pc \in {"idle", "load", "open", "write", "replace"}
          /\ handle[r] \in Inodes \cup {0}
    /\ marked \in BOOLEAN /\ overlapped \in BOOLEAN /\ torn \in BOOLEAN
    /\ edits \in 0..MaxEdits /\ crashes \in 0..MaxCrashes

Quiet == \A r \in Requests : ~Busy(r)

(***************************************************************************)
(* Edits that come in turn act on a table: each slot and app reads back    *)
(* what was last put there, CRC included, whatever was written to its      *)
(* neighbours, over a longer image, or lost in a crash, the calibration in *)
(* front is untouched, and a slot edit leaves no state marker behind.      *)
(***************************************************************************)
TableKept ==
    Quiet /\ ~overlapped /\ ~torn =>
        /\ \A s \in Slots : read_slot(file, s) = table.slots[s]
        /\ \A s \in Apps : read_app(file, s) = table.apps[s]
        /\ \A c \in 0..(SLOT_BACKUP_BASE - 1) : CellAt(file, c) = Data("cal")
        /\ marked \/ (CellAt(file, STATE_A_BASE) = FF /\ CellAt(file, STATE_B_BASE) = FF)

(***************************************************************************)
(* Slot edits never leave the image truncated, not even when the server    *)
(* dies in the middle ("a crash cannot truncate the image"): an incomplete *)
(* image has an app edit behind it, or two edits that overlapped.  And     *)
(* however edits overlap, a complete image has no slot or app that would   *)
(* fail its CRC: an edit may be lost, and never half of it.                *)
(***************************************************************************)
NeverTorn ==
    /\ \/ Len(file) = FLASH_SIZE
       \/ overlapped \/ torn
       \/ \E r \in Requests : InPlace(req[r].op) /\ req[r].pc = "write"
    /\ Len(file) = FLASH_SIZE /\ ~torn =>
           /\ \A s \in Slots : read_slot(file, s).state # "mismatch"
           /\ \A s \in Apps : read_app(file, s).state # "mismatch"

=============================================================================
