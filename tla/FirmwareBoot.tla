----------------------------- MODULE FirmwareBoot -----------------------------
(***************************************************************************)
(* Which firmware is booted, and what the server says of it: the upload    *)
(* handler of tools/webui.py with uvk5_image.py (the shape of an image),   *)
(* the machine's own reading of that shape (uvk5_sniff_app_offset), the    *)
(* banner the firmware prints, which reaches the log through the drain of  *)
(* its process (uvk5_supervisor.py, uvk5_logs.py, uvk5_banner.py), and the *)
(* search for its screen buffers (ensure_buffers, uvk5_buffers.py).        *)
(*                                                                         *)
(* A file is what decides these: its first words, its length, its version  *)
(* string, where it keeps its screen and whether it says so.  How requests *)
(* overlap inside the supervisor is PowerControl's subject; here one       *)
(* upload is in flight at a time, with the power button beside it.  The    *)
(* log pane, the banner and the buffers have nothing in common but lines   *)
(* in the log, so each is explored apart from the others.                  *)
(***************************************************************************)
EXTENDS LogBuffer

CONSTANTS
    Names,      \* names a file can be uploaded under
    Files,      \* contents it can have
    FLASH_BASE, APP_OFFSET, SRAM_BASE, SRAM_TOP,
    MaxUploads, \* bound on the uploads
    MaxBoots    \* bound on the emulators started

ASSUME FirmwareAssumption ==
    /\ {FLASH_BASE, APP_OFFSET, SRAM_BASE, SRAM_TOP} \subseteq Nat
    /\ MaxUploads \in Nat /\ MaxBoots \in Nat

None == ""          \* no name
Anywhere == -1      \* a search that matched a blank screen
Failed == -2
NoFile == [size |-> 0]

Slot == [version |-> "slot", layout |-> 9]  \* the firmware of an external slot

ASSUME FilesAssumption ==
    /\ Names \subseteq STRING \ {None}
    /\ Files \subseteq [elf: BOOLEAN, sp: Nat, reset: Nat, size: Nat, version: STRING,
                       layout: Nat \ {0}, symbols: BOOLEAN]

VARIABLES
    view,       \* what is looked at: the log "pane", the "banner" or "buffers"
    disk,       \* the file of each name
    current,    \* ImageSlot.current: name and app_offset
    step,       \* the upload handler: "idle", "detect", "off", "set" or "on"
    upload,     \* its name, its ImageInfo and "restart"
    boots,      \* the emulators started: see Boot
    power,      \* the supervisor's last one: "off", "on" or "crashed"
    text,       \* what the lines in the log say: whose banner, 0 for others
    search,     \* ensure_buffers: the emulator and the name it is asking about
    buffers,    \* buffers["info"]: 0, Failed, or the layout it found
    asked,      \* the emulator it was found in (history)
    uploads,
    reused,     \* a name was uploaded over another file (history)
    lateBanner  \* a banner was logged after its emulator was replaced (history)

fileVars  == <<disk, current, step, upload, uploads, reused>>
guestVars == <<boots, power, lateBanner>>
bufVars   == <<search, buffers, asked>>
fwVars    == <<view, fileVars, guestVars, text, bufVars>>

NoImage == [name |-> None, app_offset |-> 0]
NoUpload == [image |-> NoImage, restart |-> FALSE]
NoSearch == [boot |-> 0, name |-> None]

-----------------------------------------------------------------------------
(* The shape of an image *)

\* _vector_at(data, 0): two plausible words, the handler inside the file.
vector_at(f) ==
    /\ f.size >= 2
    /\ SRAM_BASE < f.sp /\ f.sp <= SRAM_TOP
    /\ FLASH_BASE <= f.reset /\ f.reset < FLASH_BASE + f.size

Bootable(f) == f.elf \/ vector_at(f)

\* detect: a bootloader's entry lies ahead of where applications start.
detect(f) ==
    IF ~f.elf /\ f.reset < FLASH_BASE + APP_OFFSET THEN 0 ELSE APP_OFFSET

\* Mutant: "<=" for "<".
SniffOffByOne(f) ==
    IF /\ ~f.elf /\ f.size >= 2
       /\ SRAM_BASE < f.sp /\ f.sp <= SRAM_TOP
       /\ FLASH_BASE <= f.reset /\ f.reset <= FLASH_BASE + APP_OFFSET
    THEN 0 ELSE APP_OFFSET

\* The machine decides again, from the file it is given.
uvk5_sniff_app_offset(f) ==
    IF /\ ~f.elf /\ f.size >= 2
       /\ SRAM_BASE < f.sp /\ f.sp <= SRAM_TOP
       /\ FLASH_BASE <= f.reset /\ f.reset < FLASH_BASE + APP_OFFSET
    THEN 0 ELSE APP_OFFSET

-----------------------------------------------------------------------------
(* The supervisor and its log *)

\* LogBuffer.add; the notes of one power event count as one line.
Log(line) ==
    /\ add
    /\ text' = Newest(Append(text, line), Capacity)

NoLog == UNCHANGED <<vars, text>>

\* Supervisor.power_on: the image is read when the emulator is started.  A
\* bootloader may put the firmware of an external slot in its place.
Launch ==
    /\ current # NoImage /\ Len(boots) < MaxBoots
    /\ \E restored \in BOOLEAN :
          LET f == disk[current.name]
          IN boots' = Append(boots,
                [file |-> f, offset |-> uvk5_sniff_app_offset(f),
                 version |-> IF restored THEN Slot.version ELSE f.version,
                 layout |-> IF restored THEN Slot.layout ELSE f.layout,
                 banner |-> "no", drawn |-> FALSE])
    /\ power' = "on"
    /\ Log(0)

\* No firmware is loaded, or QMP never answers: nothing is left running.
LaunchFails ==
    /\ power' = "off"
    /\ Log(0)
    /\ UNCHANGED boots

\* The page's power button; off is refused to an emulator that is not there.
PowerOn ==
    /\ power # "on"
    /\ Launch \/ LaunchFails
    /\ UNCHANGED <<fileVars, bufVars, lateBanner>>

PowerOff ==
    /\ power # "off"
    /\ power' = "off"
    /\ Log(0)
    /\ UNCHANGED <<fileVars, bufVars, boots, lateBanner>>

Crash ==
    /\ power = "on"
    /\ power' = "crashed"
    /\ NoLog
    /\ UNCHANGED <<fileVars, bufVars, boots, lateBanner>>

-----------------------------------------------------------------------------
(* api_firmware_upload *)

\* The body is written under its name before anyone has looked at it.
UploadWrite(n, f) ==
    /\ step = "idle" /\ uploads < MaxUploads
    /\ disk' = [disk EXCEPT ![n] = f]
    /\ upload' = [NoUpload EXCEPT !.image.name = n]
    /\ step' = "detect"
    /\ uploads' = uploads + 1
    /\ reused' = (reused \/ disk[n] # NoFile)
    /\ NoLog
    /\ UNCHANGED <<current, guestVars, bufVars>>

UploadRefused ==
    /\ step = "detect" /\ ~Bootable(disk[upload.image.name])
    /\ step' = "idle"
    /\ upload' = NoUpload
    /\ NoLog
    /\ UNCHANGED <<disk, current, uploads, reused, guestVars, bufVars>>

UploadDetected ==
    LET f == disk[upload.image.name]
    IN /\ step = "detect" /\ Bootable(f)
       /\ upload' = [image |-> [upload.image EXCEPT !.app_offset = detect(f)],
                     restart |-> power = "on"]
       /\ step' = IF power = "on" THEN "off" ELSE "set"
       /\ NoLog
       /\ UNCHANGED <<disk, current, uploads, reused, guestVars, bufVars>>

\* power_off, which finds nothing when the button was pressed meanwhile.
UploadOff ==
    /\ step = "off"
    /\ step' = "set"
    /\ power' = "off"
    /\ IF power = "off" THEN NoLog ELSE Log(0)
    /\ UNCHANGED <<disk, current, upload, uploads, reused, boots, lateBanner, bufVars>>

UploadSet ==
    /\ step = "set"
    /\ current' = upload.image
    /\ step' = IF upload.restart THEN "on" ELSE "idle"
    /\ upload' = NoUpload
    /\ Log(0)
    /\ UNCHANGED <<disk, uploads, reused, guestVars, bufVars>>

\* power_on, which returns at once when the button was pressed meanwhile.
UploadOn ==
    /\ step = "on"
    /\ step' = "idle"
    /\ IF power = "on" THEN NoLog /\ UNCHANGED <<boots, power>>
                       ELSE Launch \/ LaunchFails
    /\ UNCHANGED <<disk, current, upload, uploads, reused, lateBanner, bufVars>>

-----------------------------------------------------------------------------
(* The banner *)

\* The firmware prints it, at times on a line with binary in front.
PrintBanner(line) ==
    LET b == Len(boots)
    IN /\ power = "on" /\ boots[b].banner = "no"
       /\ boots' = [boots EXCEPT ![b].banner = line]
       /\ NoLog
       /\ UNCHANGED <<fileVars, bufVars, power, lateBanner>>

\* A line that is mostly binary is summarised, and its text with it.
describe_line(b) == IF boots[b].banner = "clean" THEN b ELSE 0

\* A line of an emulator's stderr, read before or after its end.
pump_stream(b) ==
    /\ boots[b].banner \in {"clean", "glued"}
    /\ boots' = [boots EXCEPT ![b].banner = "logged"]
    /\ Log(describe_line(b))
    /\ lateBanner' = (lateBanner \/ b < Len(boots))
    /\ UNCHANGED <<fileVars, bufVars, power>>

\* Every emulator started has a drain, which nothing stops but its end of file.
drain == \E b \in DOMAIN boots : pump_stream(b)

\* Mutant: the search stops at the first banner in the log.
LatestFirst ==
    LET at == SelectInSeq(text, LAMBDA b : b # 0)
    IN IF at = 0 THEN 0 ELSE text[at]

\* uvk5_banner.latest: whose banner is the last in the log.
latest ==
    LET at == SelectLastInSeq(text, LAMBDA b : b # 0)
    IN IF at = 0 THEN 0 ELSE text[at]

\* Is the version an emulator reported in the file?  No file accuses nobody.
image_mentions(name, b) == name = None \/ disk[name].version = boots[b].version

\* running_firmware.
matches_uploaded == latest = 0 \/ image_mentions(current.name, latest)

\* api_firmware only reads.
api_firmware == NoLog /\ UNCHANGED <<fileVars, guestVars, bufVars>>

-----------------------------------------------------------------------------
(* The screen buffers *)

Draw ==
    LET b == Len(boots)
    IN /\ power = "on" /\ ~boots[b].drawn
       /\ boots' = [boots EXCEPT ![b].drawn = TRUE]
       /\ NoLog
       /\ UNCHANGED <<fileVars, bufVars, power, lateBanner>>

\* ensure_buffers takes the client and the path ...
SearchStart ==
    /\ buffers = 0 /\ search = NoSearch
    /\ power # "off"
    /\ search' = [boot |-> Len(boots), name |-> current.name]
    /\ NoLog
    /\ UNCHANGED <<fileVars, guestVars, buffers, asked>>

\* A linked file names its buffers, ...
from_symbols(name) == name # None /\ disk[name].symbols

\* ... a search through the guest's memory for what the controller holds finds
\* them, or on a blank screen the first place that is as blank, ...
locate(b) == IF boots[b].drawn THEN boots[b].layout ELSE Anywhere

\* ... and discover tries the one, then the other.
discover(s) ==
    IF from_symbols(s.name) THEN disk[s.name].layout
    ELSE IF s.boot < Len(boots) \/ power # "on" THEN Failed
    ELSE locate(s.boot)

SearchEnd ==
    /\ search # NoSearch
    /\ buffers' = discover(search)
    /\ asked' = IF search.boot = Len(boots) THEN search.boot ELSE 0
    /\ search' = NoSearch
    /\ Log(0)
    /\ UNCHANGED <<fileVars, guestVars>>

\* With the emulator off, or the buffers known, api_status and api_panel only read.
api_status ==
    /\ power = "off" \/ buffers # 0
    /\ NoLog
    /\ UNCHANGED <<fileVars, guestVars, bufVars>>

-----------------------------------------------------------------------------
\* The server starts with the emulator off; a firmware named on its command
\* line is there as if it had been uploaded before the first power-on.
FirmwareInit ==
    /\ Init
    /\ view \in {"pane", "banner", "buffers"}
    /\ disk \in [Names -> {NoFile}]
    /\ current = NoImage
    /\ step = "idle" /\ upload = NoUpload /\ uploads = 0
    /\ boots = <<>> /\ power = "off"
    /\ text = <<>>
    /\ search = NoSearch /\ buffers = 0 /\ asked = 0
    /\ reused = FALSE /\ lateBanner = FALSE

PowerStep == PowerOn \/ PowerOff \/ Crash

UploadStep ==
    \/ \E n \in Names, f \in Files : UploadWrite(n, f)
    \/ UploadRefused
    \/ UploadDetected
    \/ UploadOff
    \/ UploadSet
    \/ UploadOn

BannerStep ==
    \/ \E line \in {"clean", "glued"} : PrintBanner(line)
    \/ drain

BuffersStep == Draw \/ SearchStart \/ SearchEnd \/ api_status

FirmwareNext ==
    \/ view = "pane" /\ Next /\ UNCHANGED fwVars
    \/ view # "pane" /\ (PowerStep \/ UploadStep \/ api_firmware) /\ UNCHANGED view
    \/ view = "banner" /\ BannerStep /\ UNCHANGED view
    \/ view = "buffers" /\ BuffersStep /\ UNCHANGED view

FirmwareSpec ==
    /\ FirmwareInit /\ [][FirmwareNext]_<<vars, fwVars>>
    /\ view = "pane" => Fairness

-----------------------------------------------------------------------------
(***************************************************************************)
(* Whoever adds them, no line stays ahead of the cursor of a page that     *)
(* polls its log pane: see CursorCatchesUp.                                *)
(***************************************************************************)
PaneCatchesUp == view = "pane" => CursorCatchesUp

Running == boots[Len(boots)]

(***************************************************************************)
(* The server and the machine read the shape of an image independently,    *)
(* and agree: as long as no upload overwrote a file, every emulator that   *)
(* was started runs an image detect accepts, at the offset it found.  An   *)
(* image that lands 0x2800 bytes off fails without a word.                 *)
(***************************************************************************)
BootsWhatWasChecked ==
    ~reused => \A b \in DOMAIN boots :
        /\ Bootable(boots[b].file)
        /\ boots[b].offset = detect(boots[b].file)

(***************************************************************************)
(* What the server says of the running firmware is about the emulator that *)
(* runs.  The last banner in the log is its own once it is there, although *)
(* older ones stay in the log, unless an older emulator's line came in     *)
(* after it, so a warning that something else runs is true; and buffers    *)
(* that were searched for while it ran the current file are its own, if    *)
(* the screen was not blank.                                               *)
(***************************************************************************)
SaysWhatRuns ==
    power = "on" =>
        /\ ~lateBanner /\ Len(boots) \in ToSet(text) =>
               /\ boots[latest].version = Running.version
               /\ ~matches_uploaded => Running.version # disk[current.name].version
        /\ /\ asked = Len(boots) /\ ~reused
           /\ Running.version = disk[current.name].version
           => buffers \in {Running.layout, Anywhere, Failed}

=============================================================================
