-------------------------- MODULE FirmwareBootProofs --------------------------
(***************************************************************************)
(* Proofs about FirmwareBoot, for every set of files and names and any     *)
(* number of uploads, boots and log lines: what is booted is what was      *)
(* checked, and what the server says of it is about what runs.             *)
(***************************************************************************)
EXTENDS FirmwareBoot, WellFoundedInduction, TLAPS

-----------------------------------------------------------------------------
(* The inductive invariant *)

ImageNames == Names \cup {None}
Images == [name: ImageNames, app_offset: Int]
Versions == {Slot.version} \cup {f.version : f \in Files}
BootRecords ==
    [file: Files, offset: Int, version: Versions, layout: Int,
     banner: {"no", "clean", "glued", "logged"}, drawn: BOOLEAN]

FileTypes ==
    /\ disk \in [Names -> Files \cup {NoFile}]
    /\ current \in Images
    /\ step \in {"idle", "detect", "off", "set", "on"}
    /\ upload \in [image: Images, restart: BOOLEAN]
    /\ reused \in BOOLEAN

GuestTypes ==
    /\ boots \in Seq(BootRecords)
    /\ power \in {"off", "on", "crashed"}
    /\ lateBanner \in BOOLEAN

\* A name that is used has a file, which nothing removes.
NamesHaveFiles ==
    /\ current # NoImage => current.name \in Names /\ disk[current.name] \in Files
    /\ step \in {"detect", "off", "set"} =>
          upload.image.name \in Names /\ disk[upload.image.name] \in Files
    /\ boots # <<>> => current # NoImage
    /\ power # "off" => boots # <<>>

\* What is current, or is about to be, was looked at.
OnlyChecked ==
    ~reused =>
        /\ current # NoImage => Bootable(disk[current.name])
        /\ step \in {"off", "set"} => Bootable(disk[upload.image.name])
        /\ \A b \in DOMAIN boots : /\ Bootable(boots[b].file)
                                   /\ boots[b].offset = detect(boots[b].file)

FileInv == FileTypes /\ GuestTypes /\ NamesHaveFiles /\ OnlyChecked

\* Lines of emulators that were started, in the order of the emulators as long
\* as none came late.
BannersInOrder ==
    /\ text \in Seq(Nat)
    /\ \A i \in DOMAIN text : text[i] <= Len(boots)
    /\ ~lateBanner =>
          \A i, j \in DOMAIN text : i < j /\ text[i] # 0 /\ text[j] # 0 => text[i] <= text[j]

\* Emulators run what a file holds, or a slot.
RunsSomeFile ==
    \A b \in DOMAIN boots :
        \/ boots[b].version = Slot.version /\ boots[b].layout = Slot.layout
        \/ boots[b].version = boots[b].file.version /\ boots[b].layout = boots[b].file.layout

\* While the new image of an upload waits to be set, what runs was started from
\* the old one.
StartedFromCurrent ==
    power = "on" /\ step = "set" /\ ~reused => Running.file = disk[current.name]

SearchTypes ==
    /\ search = NoSearch \/ /\ search.boot \in 1..Len(boots)
                            /\ search.name \in Names /\ disk[search.name] \in Files
    /\ asked \in 0..Len(boots)

\* A layout taken from a file is that of the running emulator, or of the current
\* file, which is not about to change under it.
Tells(layout) ==
    \/ layout \in {Running.layout, Anywhere, Failed}
    \/ Running.version = Slot.version
    \/ layout = disk[current.name].layout /\ step # "set"

SearchTells ==
    power = "on" /\ ~reused =>
        /\ search # NoSearch /\ search.boot = Len(boots) => Tells(disk[search.name].layout)
        /\ asked = Len(boots) => Tells(buffers)

SearchInv == RunsSomeFile /\ StartedFromCurrent /\ SearchTypes /\ SearchTells

-----------------------------------------------------------------------------
(* Images and files *)

\* The server and the machine read the same offset out of an image that the
\* server accepts.
LEMMA ReadAlike ==
    ASSUME NEW f \in Files, Bootable(f)
    PROVE  uvk5_sniff_app_offset(f) = detect(f)
  BY FilesAssumption, FirmwareAssumption DEF Bootable, vector_at, uvk5_sniff_app_offset, detect

\* The mark of an empty name is no file that could be uploaded.
LEMMA NoFileIsNone == NoFile \notin Files
  <1>1. ASSUME NoFile \in Files PROVE FALSE
    <2>1. NoFile \in [elf: BOOLEAN, sp: Nat, reset: Nat, size: Nat, version: STRING,
                      layout: Nat \ {0}, symbols: BOOLEAN]
      BY <1>1, FilesAssumption
    <2>2. "elf" \in DOMAIN NoFile
      BY <2>1
    <2> QED
      BY <2>2 DEF NoFile
  <1> QED
    BY <1>1

\* What a launch adds: an emulator of the current file, or of a slot.
LEMMA LaunchAdds ==
    ASSUME FileInv, Launch
    PROVE  /\ current # NoImage /\ power' = "on"
           /\ \E r \in BootRecords :
                 /\ boots' = Append(boots, r)
                 /\ r.file = disk[current.name] /\ r.offset = uvk5_sniff_app_offset(r.file)
                 /\ \/ r.version = Slot.version /\ r.layout = Slot.layout
                    \/ r.version = r.file.version /\ r.layout = r.file.layout
  <1> DEFINE f == disk[current.name]
             Rec(restored) ==
                [file |-> f, offset |-> uvk5_sniff_app_offset(f),
                 version |-> IF restored THEN Slot.version ELSE f.version,
                 layout |-> IF restored THEN Slot.layout ELSE f.layout,
                 banner |-> "no", drawn |-> FALSE]
  <1>1. current # NoImage /\ power' = "on"
    BY DEF Launch
  <1>2. f \in Files
    BY <1>1 DEF FileInv, NamesHaveFiles
  <1>3. PICK restored \in BOOLEAN : boots' = Append(boots, Rec(restored))
    BY DEF Launch
  <1> HIDE DEF f
  <1>4. uvk5_sniff_app_offset(f) \in Int
    BY FirmwareAssumption DEF uvk5_sniff_app_offset
  <1>5. f.version \in Versions /\ f.layout \in Int
    BY <1>2, FilesAssumption DEF Versions
  <1>6. Slot.version \in Versions /\ Slot.layout \in Int
    BY DEF Slot, Versions
  <1>7. Rec(restored) \in BootRecords
    BY <1>2, <1>4, <1>5, <1>6 DEF BootRecords
  <1>8. /\ Rec(restored).file = f /\ Rec(restored).offset = uvk5_sniff_app_offset(f)
        /\ \/ Rec(restored).version = Slot.version /\ Rec(restored).layout = Slot.layout
           \/ Rec(restored).version = f.version /\ Rec(restored).layout = f.layout
    OBVIOUS
  <1> HIDE DEF Rec
  <1> QED
    BY <1>1, <1>3, <1>7, <1>8 DEF f

\* What a sequence has after an element is added to it.
LEMMA AppendHas ==
    ASSUME NEW S, NEW s \in Seq(S), NEW x \in S, NEW t, t = Append(s, x)
    PROVE  /\ t \in Seq(S) /\ Len(t) = Len(s) + 1 /\ t # <<>>
           /\ Len(t) \in DOMAIN t /\ t[Len(t)] = x
           /\ \A i \in DOMAIN t : i = Len(t) \/ i \in DOMAIN s
           /\ \A i \in DOMAIN s : i # Len(t) /\ t[i] = s[i] /\ i \in DOMAIN t
  OBVIOUS

\* Printing a banner, logging it and drawing leave alone what an emulator runs.
SameGuests ==
    /\ boots' \in Seq(BootRecords) /\ Len(boots') = Len(boots)
    /\ \A b \in DOMAIN boots :
          /\ boots'[b].file = boots[b].file /\ boots'[b].offset = boots[b].offset
          /\ boots'[b].version = boots[b].version /\ boots'[b].layout = boots[b].layout

\* A change of what was printed or drawn leaves the same guests.
LEMMA FieldsAlone ==
    ASSUME boots \in Seq(BootRecords), NEW b \in DOMAIN boots,
           \/ \E line \in {"no", "clean", "glued", "logged"} :
                 boots' = [boots EXCEPT ![b].banner = line]
           \/ boots' = [boots EXCEPT ![b].drawn = TRUE]
    PROVE  SameGuests
  <1>1. boots[b] \in BootRecords
    OBVIOUS
  <1>2. \E r \in BootRecords :
          /\ boots' = [boots EXCEPT ![b] = r]
          /\ r.file = boots[b].file /\ r.offset = boots[b].offset
          /\ r.version = boots[b].version /\ r.layout = boots[b].layout
    <2>1. CASE boots' = [boots EXCEPT ![b].drawn = TRUE]
      <3> DEFINE r == [boots[b] EXCEPT !.drawn = TRUE]
      <3>1. r \in BootRecords
        BY <1>1 DEF BootRecords
      <3> QED
        BY <1>1, <2>1, <3>1 DEF BootRecords
    <2>2. ASSUME NEW line \in {"no", "clean", "glued", "logged"},
                 boots' = [boots EXCEPT ![b].banner = line]
          PROVE  \E r \in BootRecords :
                    /\ boots' = [boots EXCEPT ![b] = r]
                    /\ r.file = boots[b].file /\ r.offset = boots[b].offset
                    /\ r.version = boots[b].version /\ r.layout = boots[b].layout
      <3> DEFINE r == [boots[b] EXCEPT !.banner = line]
      <3>1. r \in BootRecords
        BY <1>1 DEF BootRecords
      <3> QED
        BY <1>1, <2>2, <3>1 DEF BootRecords
    <2> QED
      BY <2>1, <2>2
  <1>3. PICK r \in BootRecords :
          /\ boots' = [boots EXCEPT ![b] = r]
          /\ r.file = boots[b].file /\ r.offset = boots[b].offset
          /\ r.version = boots[b].version /\ r.layout = boots[b].layout
    BY <1>2
  <1>4. boots' \in Seq(BootRecords) /\ Len(boots') = Len(boots)
    BY <1>3
  <1>5. \A c \in DOMAIN boots : boots'[c] = IF c = b THEN r ELSE boots[c]
    BY <1>3
  <1> QED
    BY <1>3, <1>4, <1>5 DEF SameGuests

\* A step that leaves the boots alone leaves the same guests.
LEMMA UnchangedIsSame ==
    ASSUME boots \in Seq(BootRecords), UNCHANGED boots
    PROVE  SameGuests
  BY DEF SameGuests

-----------------------------------------------------------------------------
(* Files and what is booted from them *)

\* Steps of the power button, the emulator and the log, which start nothing.
LEMMA GuestStepKeepsFiles ==
    ASSUME FileInv, SameGuests, UNCHANGED <<disk, current, reused>>,
           lateBanner' \in BOOLEAN,
           power' \in {"off", "on", "crashed"}, power' # "off" => power # "off",
           \/ UNCHANGED <<step, upload>>
           \/ step' \in {"idle", "on"} /\ upload' \in {upload, NoUpload}
           \/ step = "off" /\ step' = "set" /\ upload' = upload
    PROVE  FileInv'
  <1>1. NoUpload \in [image: Images, restart: BOOLEAN]
    BY DEF NoUpload, NoImage, Images, ImageNames
  <1>2. FileTypes'
    BY <1>1 DEF FileInv, FileTypes
  <1>3. GuestTypes'
    BY DEF FileInv, GuestTypes, SameGuests
  <1>4. boots' # <<>> => boots # <<>>
    BY DEF FileInv, GuestTypes, SameGuests
  <1>5. boots # <<>> => boots' # <<>>
    BY DEF FileInv, GuestTypes, SameGuests
  <1>6. step' \in {"detect", "off", "set"} => upload' = upload /\ step \in {"detect", "off", "set"}
    OBVIOUS
  <1>7. NamesHaveFiles'
    BY <1>4, <1>5, <1>6 DEF FileInv, NamesHaveFiles
  <1>8. OnlyChecked'
    <2> SUFFICES ASSUME ~reused'
                 PROVE  /\ current' # NoImage => Bootable(disk'[current'.name])
                        /\ step' \in {"off", "set"} => Bootable(disk'[upload'.image.name])
                        /\ \A b \in DOMAIN boots' : /\ Bootable(boots'[b].file)
                                                    /\ boots'[b].offset = detect(boots'[b].file)
      BY DEF OnlyChecked, Bootable, vector_at, detect
    <2>1. ~reused /\ disk' = disk /\ current' = current
      OBVIOUS
    <2>2. step' \in {"off", "set"} => upload' = upload /\ step \in {"off", "set"}
      OBVIOUS
    <2>3. \A b \in DOMAIN boots' : b \in DOMAIN boots
      BY DEF FileInv, GuestTypes, SameGuests
    <2>4. \A b \in DOMAIN boots' : boots'[b].file = boots[b].file /\ boots'[b].offset = boots[b].offset
      BY <2>3 DEF SameGuests
    <2>5. \A b \in DOMAIN boots' : /\ Bootable(boots'[b].file)
                                   /\ boots'[b].offset = detect(boots'[b].file)
      BY <2>1, <2>3, <2>4 DEF FileInv, OnlyChecked
    <2> QED
      BY <2>1, <2>2, <2>5 DEF FileInv, OnlyChecked
  <1> QED
    BY <1>2, <1>3, <1>7, <1>8 DEF FileInv

\* The launcher reads the current name and boots the file under it.
LEMMA LaunchKeepsFiles ==
    ASSUME FileInv, Launch, UNCHANGED <<disk, current, reused, upload, lateBanner>>,
           step' = step \/ step' = "idle"
    PROVE  FileInv'
  <1>1. current # NoImage /\ power' = "on"
    BY LaunchAdds
  <1>2. PICK r \in BootRecords :
          /\ boots' = Append(boots, r)
          /\ r.file = disk[current.name] /\ r.offset = uvk5_sniff_app_offset(r.file)
    BY LaunchAdds
  <1>3. boots \in Seq(BootRecords)
    BY DEF FileInv, GuestTypes
  <1>4. /\ boots' \in Seq(BootRecords) /\ boots' # <<>> /\ boots'[Len(boots')] = r
        /\ \A i \in DOMAIN boots' : i = Len(boots') \/ i \in DOMAIN boots
        /\ \A i \in DOMAIN boots : boots'[i] = boots[i]
    BY <1>2, <1>3, AppendHas
  <1>5. FileTypes' /\ GuestTypes'
    BY <1>1, <1>4 DEF FileInv, FileTypes, GuestTypes
  <1>6. NamesHaveFiles'
    BY <1>1, <1>4 DEF FileInv, NamesHaveFiles
  <1>7. OnlyChecked'
    <2> SUFFICES ASSUME ~reused'
                 PROVE  /\ current' # NoImage => Bootable(disk'[current'.name])
                        /\ step' \in {"off", "set"} => Bootable(disk'[upload'.image.name])
                        /\ \A b \in DOMAIN boots' : /\ Bootable(boots'[b].file)
                                                    /\ boots'[b].offset = detect(boots'[b].file)
      BY DEF OnlyChecked, Bootable, vector_at, detect
    <2>1. Bootable(r.file) /\ r.file \in Files
      BY <1>1, <1>2 DEF FileInv, OnlyChecked, NamesHaveFiles
    <2>2. r.offset = detect(r.file)
      BY <1>2, <2>1, ReadAlike
    <2>3. \A b \in DOMAIN boots' : /\ Bootable(boots'[b].file)
                                   /\ boots'[b].offset = detect(boots'[b].file)
      BY <1>4, <2>1, <2>2 DEF FileInv, OnlyChecked
    <2> QED
      BY <2>3 DEF FileInv, OnlyChecked
  <1> QED
    BY <1>5, <1>6, <1>7 DEF FileInv

\* The upload overwrites the file under its name before it is looked at.
LEMMA UploadWriteKeepsFiles ==
    ASSUME FileInv, NEW n \in Names, NEW f \in Files, UploadWrite(n, f)
    PROVE  FileInv'
  <1>1. /\ step = "idle" /\ step' = "detect"
        /\ disk' = [disk EXCEPT ![n] = f]
        /\ upload' = [NoUpload EXCEPT !.image.name = n]
        /\ reused' = (reused \/ disk[n] # NoFile)
        /\ UNCHANGED <<current, boots, power, lateBanner>>
    BY DEF UploadWrite, guestVars
  <1>2. upload' \in [image: Images, restart: BOOLEAN] /\ upload'.image.name = n
    <2>1. [name |-> n, app_offset |-> 0] \in Images
      BY DEF Images, ImageNames
    <2>2. upload' = [image |-> [name |-> n, app_offset |-> 0], restart |-> FALSE]
      BY <1>1 DEF NoUpload, NoImage
    <2> QED
      BY <2>1, <2>2
  <1>3. reused' \in BOOLEAN
    BY <1>1, Zenon
  <1>4. disk' \in [Names -> Files \cup {NoFile}] /\ disk'[n] = f
        /\ \A m \in Names : m # n => disk'[m] = disk[m]
    BY <1>1 DEF FileInv, FileTypes
  <1>5. FileTypes' /\ GuestTypes'
    BY <1>1, <1>2, <1>3, <1>4 DEF FileInv, FileTypes, GuestTypes
  <1>6. NamesHaveFiles'
    BY <1>1, <1>2, <1>4 DEF FileInv, NamesHaveFiles
  <1>7. OnlyChecked'
    <2> SUFFICES ASSUME ~reused'
                 PROVE  /\ current' # NoImage => Bootable(disk'[current'.name])
                        /\ step' \in {"off", "set"} => Bootable(disk'[upload'.image.name])
                        /\ \A b \in DOMAIN boots' : /\ Bootable(boots'[b].file)
                                                    /\ boots'[b].offset = detect(boots'[b].file)
      BY DEF OnlyChecked, Bootable, vector_at, detect
    <2>1. ~reused /\ disk[n] = NoFile
      BY <1>1
    <2>2. current # NoImage => current.name # n /\ current.name \in Names
      BY <2>1, NoFileIsNone DEF FileInv, NamesHaveFiles
    <2>3. current # NoImage => disk'[current.name] = disk[current.name]
      BY <1>4, <2>2
    <2> QED
      BY <1>1, <2>1, <2>3 DEF FileInv, OnlyChecked
  <1> QED
    BY <1>5, <1>6, <1>7 DEF FileInv

\* detect reads back the file that was written.
LEMMA UploadDetectedKeepsFiles ==
    ASSUME FileInv, UploadDetected
    PROVE  FileInv'
  <1> DEFINE f == disk[upload.image.name]
  <1>1. /\ step = "detect" /\ Bootable(f)
        /\ upload' = [image |-> [upload.image EXCEPT !.app_offset = detect(f)],
                      restart |-> power = "on"]
        /\ step' = IF power = "on" THEN "off" ELSE "set"
        /\ UNCHANGED <<disk, current, reused, boots, power, lateBanner>>
    BY DEF UploadDetected, guestVars
  <1>2. detect(f) \in Int
    BY FirmwareAssumption DEF detect
  <1>3. upload.image \in Images
    BY DEF FileInv, FileTypes
  <1> HIDE DEF f
  <1>4. [upload.image EXCEPT !.app_offset = detect(f)] \in Images
    BY <1>2, <1>3 DEF Images
  <1>5. (power = "on") \in BOOLEAN
    OBVIOUS
  <1>6. /\ upload' \in [image: Images, restart: BOOLEAN]
        /\ upload'.image.name = upload.image.name
    BY <1>1, <1>3, <1>4, <1>5 DEF Images
  <1>7. FileTypes' /\ GuestTypes'
    BY <1>1, <1>6 DEF FileInv, FileTypes, GuestTypes
  <1>8. NamesHaveFiles'
    BY <1>1, <1>6 DEF FileInv, NamesHaveFiles
  <1>9. OnlyChecked'
    <2> SUFFICES ASSUME ~reused'
                 PROVE  /\ current' # NoImage => Bootable(disk'[current'.name])
                        /\ step' \in {"off", "set"} => Bootable(disk'[upload'.image.name])
                        /\ \A b \in DOMAIN boots' : /\ Bootable(boots'[b].file)
                                                    /\ boots'[b].offset = detect(boots'[b].file)
      BY DEF OnlyChecked, Bootable, vector_at, detect
    <2>1. Bootable(disk'[upload'.image.name])
      BY <1>1, <1>6 DEF f
    <2> QED
      BY <1>1, <2>1 DEF FileInv, OnlyChecked
  <1> QED
    BY <1>7, <1>8, <1>9 DEF FileInv

\* An accepted upload becomes the current image.
LEMMA UploadSetKeepsFiles ==
    ASSUME FileInv, UploadSet
    PROVE  FileInv'
  <1>1. /\ step = "set" /\ current' = upload.image
        /\ step' = IF upload.restart THEN "on" ELSE "idle"
        /\ upload' = NoUpload
        /\ UNCHANGED <<disk, reused, boots, power, lateBanner>>
    BY DEF UploadSet, guestVars
  <1>2. NoUpload \in [image: Images, restart: BOOLEAN]
    BY DEF NoUpload, NoImage, Images, ImageNames
  <1>3. upload.image \in Images
    BY DEF FileInv, FileTypes
  <1>4. FileTypes' /\ GuestTypes'
    BY <1>1, <1>2, <1>3 DEF FileInv, FileTypes, GuestTypes
  <1>5. upload.image.name \in Names /\ disk[upload.image.name] \in Files
    BY <1>1 DEF FileInv, NamesHaveFiles
  <1>6. current' # NoImage
    <2>1. NoImage.name = None
      BY DEF NoImage
    <2> QED
      BY <1>1, <1>5, <2>1, FilesAssumption
  <1>7. NamesHaveFiles'
    BY <1>1, <1>5, <1>6 DEF FileInv, NamesHaveFiles
  <1>8. OnlyChecked'
    <2> SUFFICES ASSUME ~reused'
                 PROVE  /\ current' # NoImage => Bootable(disk'[current'.name])
                        /\ step' \in {"off", "set"} => Bootable(disk'[upload'.image.name])
                        /\ \A b \in DOMAIN boots' : /\ Bootable(boots'[b].file)
                                                    /\ boots'[b].offset = detect(boots'[b].file)
      BY DEF OnlyChecked, Bootable, vector_at, detect
    <2> QED
      BY <1>1 DEF FileInv, OnlyChecked
  <1> QED
    BY <1>4, <1>7, <1>8 DEF FileInv

\* Nothing was uploaded yet and nothing booted.
LEMMA FilesInit == FirmwareInit => FileInv
  <1> SUFFICES ASSUME FirmwareInit PROVE FileInv
    OBVIOUS
  <1>1. NoImage \in Images /\ NoUpload \in [image: Images, restart: BOOLEAN]
    BY DEF NoUpload, NoImage, Images, ImageNames
  <1>2. FileTypes
    BY <1>1 DEF FirmwareInit, FileTypes
  <1>3. boots = <<>> /\ boots \in Seq(BootRecords) /\ DOMAIN boots = {}
    BY DEF FirmwareInit
  <1>4. GuestTypes /\ NamesHaveFiles
    BY <1>3 DEF FirmwareInit, GuestTypes, NamesHaveFiles
  <1>5. OnlyChecked
    BY <1>3 DEF FirmwareInit, OnlyChecked
  <1> QED
    BY <1>2, <1>4, <1>5 DEF FileInv

\* The emulator that prints or draws is the last one that was started.
LEMMA LastIsOne ==
    ASSUME FileInv, power # "off"
    PROVE  Len(boots) \in DOMAIN boots /\ boots[Len(boots)] \in BootRecords
  <1>1. boots \in Seq(BootRecords) /\ boots # <<>>
    BY DEF FileInv, GuestTypes, NamesHaveFiles
  <1> QED
    BY <1>1

\* The steps of the emulators themselves.
GuestStep ==
    \/ \E line \in {"clean", "glued"} : PrintBanner(line)
    \/ drain
    \/ Draw

\* A step of the guest or of its drain starts nothing and touches no file.
LEMMA GuestStepIsSame ==
    ASSUME FileInv, GuestStep
    PROVE  /\ SameGuests /\ UNCHANGED <<fileVars, bufVars, power>>
           /\ lateBanner' \in BOOLEAN
  <1>1. boots \in Seq(BootRecords) /\ lateBanner \in BOOLEAN
    BY DEF FileInv, GuestTypes
  <1>2. ASSUME NEW line \in {"clean", "glued"}, PrintBanner(line)
        PROVE  /\ SameGuests /\ UNCHANGED <<fileVars, bufVars, power>>
               /\ lateBanner' \in BOOLEAN
    <2>1. /\ power = "on" /\ boots' = [boots EXCEPT ![Len(boots)].banner = line]
          /\ UNCHANGED <<fileVars, bufVars, power, lateBanner>>
      BY <1>2 DEF PrintBanner
    <2>2. Len(boots) \in DOMAIN boots
      BY <2>1, LastIsOne
    <2>3. SameGuests
      BY <1>1, <2>1, <2>2, FieldsAlone
    <2> QED
      BY <1>1, <2>1, <2>3
  <1>3. ASSUME NEW b \in DOMAIN boots, pump_stream(b)
        PROVE  /\ SameGuests /\ UNCHANGED <<fileVars, bufVars, power>>
               /\ lateBanner' \in BOOLEAN
    <2>1. /\ boots' = [boots EXCEPT ![b].banner = "logged"]
          /\ lateBanner' = (lateBanner \/ b < Len(boots))
          /\ UNCHANGED <<fileVars, bufVars, power>>
      BY <1>3 DEF pump_stream
    <2>2. SameGuests
      BY <1>1, <2>1, FieldsAlone
    <2>3. lateBanner' \in BOOLEAN
      BY <2>1, Zenon
    <2> QED
      BY <2>1, <2>2, <2>3
  <1>4. CASE Draw
    <2>1. /\ power = "on" /\ boots' = [boots EXCEPT ![Len(boots)].drawn = TRUE]
          /\ UNCHANGED <<fileVars, bufVars, power, lateBanner>>
      BY <1>4 DEF Draw
    <2>2. Len(boots) \in DOMAIN boots
      BY <2>1, LastIsOne
    <2>3. SameGuests
      BY <1>1, <2>1, <2>2, FieldsAlone
    <2> QED
      BY <1>1, <2>1, <2>3
  <1> QED
    BY <1>2, <1>3, <1>4 DEF GuestStep, drain

\* The steps that change nothing but the log and the search.
ReadStep == api_firmware \/ SearchStart \/ SearchEnd \/ api_status

\* Every step of the server and of the machine keeps FileInv.
LEMMA FilesNext == FileInv /\ [FirmwareNext]_<<vars, fwVars>> => FileInv'
  <1> SUFFICES ASSUME FileInv, [FirmwareNext]_<<vars, fwVars>>
               PROVE  FileInv'
    OBVIOUS
  <1>1. /\ boots \in Seq(BootRecords) /\ lateBanner \in BOOLEAN
        /\ power \in {"off", "on", "crashed"}
    BY DEF FileInv, GuestTypes
  <1>2. UNCHANGED boots => SameGuests
    BY <1>1, UnchangedIsSame
  <1>3. CASE UNCHANGED fwVars
    <2>1. UNCHANGED <<disk, current, reused, step, upload, boots, power, lateBanner>>
      BY <1>3 DEF fwVars, fileVars, guestVars
    <2> QED
      BY <1>1, <1>2, <2>1, GuestStepKeepsFiles
  <1>4. CASE PowerOn
    <2>1. UNCHANGED <<disk, current, reused, step, upload, lateBanner>>
      BY <1>4 DEF PowerOn, fileVars
    <2>2. CASE Launch
      BY <2>1, <2>2, LaunchKeepsFiles
    <2>3. CASE LaunchFails
      <3>1. power' = "off" /\ UNCHANGED boots
        BY <2>3 DEF LaunchFails
      <3> QED
        BY <1>1, <1>2, <2>1, <3>1, GuestStepKeepsFiles
    <2> QED
      BY <1>4, <2>2, <2>3 DEF PowerOn
  <1>5. CASE PowerOff
    <2>1. power' = "off" /\ UNCHANGED <<disk, current, reused, step, upload, boots, lateBanner>>
      BY <1>5 DEF PowerOff, fileVars
    <2> QED
      BY <1>1, <1>2, <2>1, GuestStepKeepsFiles
  <1>6. CASE Crash
    <2>1. /\ power = "on" /\ power' = "crashed"
          /\ UNCHANGED <<disk, current, reused, step, upload, boots, lateBanner>>
      BY <1>6 DEF Crash, fileVars
    <2> QED
      BY <1>1, <1>2, <2>1, GuestStepKeepsFiles
  <1>7. CASE UploadRefused
    <2>1. /\ step' = "idle" /\ upload' = NoUpload
          /\ UNCHANGED <<disk, current, reused, boots, power, lateBanner>>
      BY <1>7 DEF UploadRefused, guestVars
    <2> QED
      BY <1>1, <1>2, <2>1, GuestStepKeepsFiles
  <1>8. CASE UploadOff
    <2>1. /\ step = "off" /\ step' = "set" /\ power' = "off"
          /\ UNCHANGED <<disk, current, upload, reused, boots, lateBanner>>
      BY <1>8 DEF UploadOff
    <2> QED
      BY <1>1, <1>2, <2>1, GuestStepKeepsFiles
  <1>9. CASE UploadOn
    <2>1. step' = "idle" /\ UNCHANGED <<disk, current, upload, reused, lateBanner>>
      BY <1>9 DEF UploadOn
    <2>2. CASE power = "on"
      <3>1. UNCHANGED <<boots, power>>
        BY <1>9, <2>2 DEF UploadOn
      <3> QED
        BY <1>1, <1>2, <2>1, <3>1, GuestStepKeepsFiles
    <2>3. CASE power # "on" /\ Launch
      BY <2>1, <2>3, LaunchKeepsFiles
    <2>4. CASE power # "on" /\ LaunchFails
      <3>1. power' = "off" /\ UNCHANGED boots
        BY <2>4 DEF LaunchFails
      <3> QED
        BY <1>1, <1>2, <2>1, <3>1, GuestStepKeepsFiles
    <2> QED
      BY <1>9, <2>2, <2>3, <2>4 DEF UploadOn
  <1>10. CASE GuestStep
    <2>1. UNCHANGED <<disk, current, reused, step, upload, power>>
      BY <1>10, GuestStepIsSame DEF fileVars
    <2> QED
      BY <1>1, <1>10, <2>1, GuestStepIsSame, GuestStepKeepsFiles
  <1>11. CASE ReadStep
    <2>1. UNCHANGED <<disk, current, reused, step, upload, boots, power, lateBanner>>
      BY <1>11 DEF ReadStep, api_firmware, SearchStart, SearchEnd, api_status, fileVars, guestVars
    <2> QED
      BY <1>1, <1>2, <2>1, GuestStepKeepsFiles
  <1>12. CASE UNCHANGED <<vars, fwVars>>
    BY <1>3, <1>12
  <1> QED
    BY <1>3, <1>4, <1>5, <1>6, <1>7, <1>8, <1>9, <1>10, <1>11, <1>12, UploadWriteKeepsFiles,
       UploadDetectedKeepsFiles, UploadSetKeepsFiles
    DEF FirmwareNext, PowerStep, UploadStep, BannerStep, BuffersStep, GuestStep, ReadStep

\* FileInv holds in every state.
LEMMA FilesInvariant == FirmwareSpec => []FileInv
  BY FilesInit, FilesNext, PTL DEF FirmwareSpec

(***************************************************************************)
(* detect in uvk5_image.py and uvk5_sniff_app_offset in the machine read   *)
(* every image alike, and only images that were looked at are ever booted: *)
(* for any files, names and order of uploads and presses of the power      *)
(* button, unless a file was overwritten after it was looked at.           *)
(***************************************************************************)
THEOREM FirmwareBootsChecked == FirmwareSpec => []BootsWhatWasChecked
  <1>1. FileInv => BootsWhatWasChecked
    BY DEF FileInv, OnlyChecked, BootsWhatWasChecked
  <1> QED
    BY <1>1, FilesInvariant, PTL

-----------------------------------------------------------------------------
(* The banners in the log *)

\* What a bounded log keeps are elements of it, in their order.
LEMMA NewestKeeps ==
    ASSUME NEW S, NEW s \in Seq(S), NEW n \in Nat \ {0}
    PROVE  /\ Newest(s, n) \in Seq(S)
           /\ \E k \in Nat : \A i \in DOMAIN Newest(s, n) :
                 i + k \in DOMAIN s /\ Newest(s, n)[i] = s[i + k]
  <1>1. CASE Len(s) > n
    <2> DEFINE t == SubSeq(s, Len(s) - n + 1, Len(s))
               k == Len(s) - n
    <2>1. Newest(s, n) = t
      BY <1>1 DEF Newest
    <2>2. Len(s) \in Nat /\ k \in Nat
      BY <1>1
    <2>3. t \in Seq(S) /\ Len(t) = n /\ \A i \in 1..n : t[i] = s[i + k]
      BY <1>1, <2>2
    <2>4. \A i \in DOMAIN t : i + k \in DOMAIN s /\ t[i] = s[i + k]
      BY <2>2, <2>3
    <2> QED
      BY <2>1, <2>2, <2>3, <2>4
  <1>2. CASE ~(Len(s) > n)
    <2>1. Newest(s, n) = s
      BY <1>2 DEF Newest
    <2>2. \A i \in DOMAIN s : i + 0 \in DOMAIN s /\ s[i] = s[i + 0]
      OBVIOUS
    <2> QED
      BY <2>1, <2>2
  <1> QED
    BY <1>1, <1>2

\* A line that is added keeps the order if it is none, or of the last emulator.
LEMMA LogInOrder ==
    ASSUME BannersInOrder, NEW line \in Nat, Log(line), boots' \in Seq(BootRecords),
           boots \in Seq(BootRecords), Len(boots) <= Len(boots'), line <= Len(boots'),
           lateBanner' \/ (~lateBanner /\ (line = 0 \/ line = Len(boots)))
    PROVE  BannersInOrder'
  <1> DEFINE t == Append(text, line)
  <1>1. text' = Newest(t, Capacity) /\ text \in Seq(Nat) /\ Capacity \in Nat \ {0}
    BY LogAssumption DEF Log, BannersInOrder
  <1>2. /\ t \in Seq(Nat) /\ Len(t) = Len(text) + 1 /\ t[Len(t)] = line
        /\ \A i \in DOMAIN t : i = Len(t) \/ i \in DOMAIN text
        /\ \A i \in DOMAIN text : i # Len(t) /\ t[i] = text[i]
    BY <1>1, AppendHas
  <1>3. DOMAIN t = 1..Len(t) /\ Len(t) \in Nat
    BY <1>2
  <1> HIDE DEF t
  <1>4. PICK k \in Nat : \A i \in DOMAIN text' : i + k \in DOMAIN t /\ text'[i] = t[i + k]
    <2>1. \E k \in Nat : \A i \in DOMAIN Newest(t, Capacity) :
             i + k \in DOMAIN t /\ Newest(t, Capacity)[i] = t[i + k]
      BY <1>1, <1>2, NewestKeeps
    <2> QED
      BY <1>1, <2>1, Zenon
  <1>5. text' \in Seq(Nat)
    BY <1>1, <1>2, NewestKeeps
  <1>6. Len(boots) \in Nat /\ Len(boots') \in Nat
    OBVIOUS
  <1>7. \A i \in DOMAIN t : t[i] \in Nat
    BY <1>2
  <1>8. \A i \in DOMAIN t : t[i] <= Len(boots')
    <2> SUFFICES ASSUME NEW i \in DOMAIN t PROVE t[i] <= Len(boots')
      OBVIOUS
    <2>1. CASE i = Len(t)
      BY <1>2, <2>1
    <2>2. CASE i \in DOMAIN text
      <3>1. t[i] = text[i] /\ text[i] <= Len(boots)
        BY <1>2, <2>2 DEF BannersInOrder
      <3> QED
        BY <1>6, <1>7, <3>1
    <2> QED
      BY <1>2, <2>1, <2>2
  <1>9. ASSUME ~lateBanner', NEW i \in DOMAIN t, NEW j \in DOMAIN t, i < j, t[i] # 0, t[j] # 0
        PROVE  t[i] <= t[j]
    <2>1. i \in DOMAIN text
      BY <1>2, <1>3, <1>9
    <2>2. CASE j = Len(t)
      <3>1. line = Len(boots) /\ t[j] = line
        BY <1>2, <1>9, <2>2
      <3>2. t[i] = text[i] /\ text[i] <= Len(boots)
        BY <1>2, <2>1 DEF BannersInOrder
      <3> QED
        BY <3>1, <3>2
    <2>3. CASE j \in DOMAIN text
      <3>1. t[i] = text[i] /\ t[j] = text[j]
        BY <1>2, <2>1, <2>3
      <3> QED
        BY <1>9, <2>1, <2>3, <3>1 DEF BannersInOrder
    <2> QED
      BY <1>2, <2>2, <2>3
  <1>10. \A i \in DOMAIN text' : text'[i] <= Len(boots')
    BY <1>4, <1>8
  <1>11. ASSUME ~lateBanner', NEW i \in DOMAIN text', NEW j \in DOMAIN text', i < j,
                text'[i] # 0, text'[j] # 0
         PROVE  text'[i] <= text'[j]
    <2>1. i \in Nat /\ j \in Nat
      BY <1>5
    <2>2. i + k < j + k
      BY <1>11, <2>1
    <2>3. /\ i + k \in DOMAIN t /\ text'[i] = t[i + k]
          /\ j + k \in DOMAIN t /\ text'[j] = t[j + k]
      BY <1>4
    <2> QED
      BY <1>9, <1>11, <2>2, <2>3
  <1> QED
    BY <1>5, <1>10, <1>11 DEF BannersInOrder

\* A step that logs nothing leaves the banners as they are.
LEMMA QuietInOrder ==
    ASSUME BannersInOrder, UNCHANGED <<text, lateBanner>>, Len(boots') = Len(boots)
    PROVE  BannersInOrder'
  BY DEF BannersInOrder

\* A line that is no banner leaves the latest banner the latest.
LEMMA ZeroInOrder ==
    ASSUME FileInv, BannersInOrder, Log(0), boots' \in Seq(BootRecords), Len(boots) <= Len(boots'),
           UNCHANGED lateBanner
    PROVE  BannersInOrder'
  <1>1. boots \in Seq(BootRecords) /\ lateBanner \in BOOLEAN /\ 0 <= Len(boots')
    BY DEF FileInv, GuestTypes
  <1> QED
    BY <1>1, LogInOrder

\* Every step keeps the banners in the order of their boots.
LEMMA BannersNext ==
    ASSUME FileInv, BannersInOrder, [FirmwareNext]_<<vars, fwVars>>
    PROVE  BannersInOrder'
  <1>1. boots \in Seq(BootRecords) /\ lateBanner \in BOOLEAN /\ Len(boots) \in Nat
    BY DEF FileInv, GuestTypes
  <1>2. CASE UNCHANGED fwVars
    BY <1>2, QuietInOrder DEF fwVars, guestVars
  <1>3. ASSUME Launch, UNCHANGED lateBanner PROVE BannersInOrder'
    <2>1. PICK r \in BootRecords : boots' = Append(boots, r)
      BY <1>3, LaunchAdds
    <2>2. boots' \in Seq(BootRecords) /\ Len(boots') = Len(boots) + 1
      BY <1>1, <2>1, AppendHas
    <2>3. Len(boots) <= Len(boots')
      BY <1>1, <2>2
    <2> QED
      BY <1>3, <2>2, <2>3, ZeroInOrder DEF Launch
  <1>4. ASSUME Log(0), UNCHANGED <<boots, lateBanner>> PROVE BannersInOrder'
    BY <1>1, <1>4, ZeroInOrder
  <1>5. ASSUME NoLog, UNCHANGED <<boots, lateBanner>> PROVE BannersInOrder'
    BY <1>5, QuietInOrder DEF NoLog
  <1>6. CASE PowerOn
    BY <1>3, <1>4, <1>6 DEF PowerOn, LaunchFails
  <1>7. CASE PowerOff
    BY <1>4, <1>7 DEF PowerOff
  <1>8. CASE Crash
    BY <1>5, <1>8 DEF Crash
  <1>9. CASE \E n \in Names, f \in Files : UploadWrite(n, f)
    BY <1>5, <1>9 DEF UploadWrite, guestVars
  <1>10. CASE UploadRefused \/ UploadDetected
    BY <1>5, <1>10 DEF UploadRefused, UploadDetected, guestVars
  <1>11. CASE UploadOff
    BY <1>4, <1>5, <1>11 DEF UploadOff
  <1>12. CASE UploadSet
    BY <1>4, <1>12 DEF UploadSet, guestVars
  <1>13. CASE UploadOn
    BY <1>3, <1>4, <1>5, <1>13 DEF UploadOn, LaunchFails
  <1>14. CASE (\E line \in {"clean", "glued"} : PrintBanner(line)) \/ Draw
    <2>1. GuestStep /\ UNCHANGED <<text, lateBanner>>
      BY <1>14 DEF GuestStep, PrintBanner, Draw, NoLog
    <2>2. Len(boots') = Len(boots)
      BY <2>1, GuestStepIsSame DEF SameGuests
    <2> QED
      BY <2>1, <2>2, QuietInOrder
  <1>15. CASE drain
    <2>1. PICK b \in DOMAIN boots : pump_stream(b)
      BY <1>15 DEF drain
    <2>2. Log(describe_line(b)) /\ lateBanner' = (lateBanner \/ b < Len(boots))
      BY <2>1 DEF pump_stream
    <2>3. boots' \in Seq(BootRecords) /\ Len(boots') = Len(boots)
      BY <1>15, GuestStepIsSame DEF GuestStep, SameGuests
    <2>4. b \in 1..Len(boots)
      BY <1>1
    <2>5. describe_line(b) = b \/ describe_line(b) = 0
      BY DEF describe_line
    <2>6. /\ describe_line(b) \in Nat /\ describe_line(b) <= Len(boots')
          /\ Len(boots) <= Len(boots')
      BY <1>1, <2>3, <2>4, <2>5
    <2>7. lateBanner' \/ (~lateBanner /\ (describe_line(b) = 0 \/ describe_line(b) = Len(boots)))
      <3>1. b < Len(boots) \/ b = Len(boots)
        BY <1>1, <2>4
      <3>2. lateBanner \/ b < Len(boots) => lateBanner'
        BY <2>2, Zenon
      <3> QED
        BY <2>5, <3>1, <3>2, Zenon
    <2> QED
      BY <1>1, <2>2, <2>3, <2>6, <2>7, LogInOrder
  <1>16. CASE api_firmware \/ SearchStart \/ api_status
    BY <1>5, <1>16 DEF api_firmware, SearchStart, api_status, guestVars
  <1>17. CASE SearchEnd
    BY <1>4, <1>17 DEF SearchEnd, guestVars
  <1>18. CASE UNCHANGED <<vars, fwVars>>
    BY <1>2, <1>18
  <1> QED
    BY <1>2, <1>6, <1>7, <1>8, <1>9, <1>10, <1>11, <1>12, <1>13, <1>14, <1>15, <1>16, <1>17, <1>18
    DEF FirmwareNext, PowerStep, UploadStep, BannerStep, BuffersStep

\* A set of indices that is not empty has a last one.
LEMMA LastIndex ==
    ASSUME NEW n \in Nat, NEW I \in SUBSET (1..n), I # {}
    PROVE  Max(I) \in I /\ \A i \in I : Max(I) >= i
  <1> DEFINE T == {n - i : i \in I}
  <1>1. T \subseteq Nat /\ T # {}
    <2>1. \A i \in I : n - i \in Nat
      OBVIOUS
    <2>2. PICK i \in I : TRUE
      OBVIOUS
    <2>3. n - i \in T
      BY <2>2
    <2> QED
      BY <2>1, <2>3
  <1>2. PICK x \in T : \A y \in T : ~ (<<y, x>> \in OpToRel(<, Nat))
    BY <1>1, WFMin, NatLessThanWellFounded
  <1>3. \A y \in T : ~(y < x)
    BY <1>1, <1>2 DEF OpToRel
  <1>4. PICK m \in I : x = n - m
    OBVIOUS
  <1>5. \A i \in I : m >= i
    <2> SUFFICES ASSUME NEW i \in I PROVE m >= i
      OBVIOUS
    <2>1. n - i \in T
      OBVIOUS
    <2>2. ~(n - i < n - m)
      BY <1>3, <1>4, <2>1
    <2> QED
      BY <2>2
  <1> HIDE DEF T
  <1>6. \E y \in I : \A i \in I : y >= i
    BY <1>5
  <1> QED
    BY <1>6 DEF Max

\* Once the banner of the emulator that runs is in the log, it is the latest.
LEMMA LatestRuns ==
    ASSUME FileInv, BannersInOrder, power = "on", ~lateBanner, Len(boots) \in ToSet(text)
    PROVE  latest = Len(boots)
  <1> DEFINE I == {i \in 1..Len(text) : text[i] # 0}
  <1>1. text \in Seq(Nat) /\ DOMAIN text = 1..Len(text) /\ Len(text) \in Nat
    BY DEF BannersInOrder
  <1>2. Len(boots) \in Nat \ {0}
    <2>1. boots \in Seq(BootRecords) /\ boots # <<>>
      BY DEF FileInv, GuestTypes, NamesHaveFiles
    <2> QED
      BY <2>1
  <1>3. PICK i \in DOMAIN text : text[i] = Len(boots)
    BY DEF ToSet
  <1>4. i \in I
    BY <1>1, <1>2, <1>3
  <1>5. latest = text[Max(I)]
    <2>1. SelectLastInSeq(text, LAMBDA b : b # 0) = IF I # {} THEN Max(I) ELSE 0
      BY DEF SelectLastInSeq
    <2>2. Max(I) \in I
      BY <1>1, <1>4, LastIndex
    <2>3. Max(I) # 0
      BY <1>1, <2>2
    <2> QED
      BY <1>4, <2>1, <2>3 DEF latest
  <1>6. Max(I) \in I /\ Max(I) >= i
    BY <1>1, <1>4, LastIndex
  <1>7. Max(I) \in DOMAIN text /\ text[Max(I)] # 0
    BY <1>1, <1>6
  <1>8. text[Max(I)] <= Len(boots) /\ text[Max(I)] \in Nat
    BY <1>1, <1>7 DEF BannersInOrder
  <1>9. text[i] <= text[Max(I)]
    <2>1. CASE Max(I) = i
      BY <1>2, <1>3, <2>1
    <2>2. CASE i < Max(I)
      BY <1>2, <1>3, <1>7, <2>2 DEF BannersInOrder
    <2> QED
      BY <1>1, <1>6, <1>7, <2>1, <2>2
  <1> QED
    BY <1>2, <1>3, <1>5, <1>8, <1>9

-----------------------------------------------------------------------------
(* The screen buffers *)

\* Steps that start no emulator and leave the image and the search alone.
LEMMA FrameKeepsSearch ==
    ASSUME FileInv, SearchInv, SameGuests, power' = "on" => power = "on",
           UNCHANGED <<disk, current, reused, bufVars>>,
           power' = "on" /\ step' = "set" => step = "set"
    PROVE  SearchInv'
  <1>1. /\ boots \in Seq(BootRecords) /\ boots' \in Seq(BootRecords) /\ Len(boots') = Len(boots)
        /\ DOMAIN boots' = DOMAIN boots /\ UNCHANGED <<search, buffers, asked>>
    BY DEF FileInv, GuestTypes, SameGuests, bufVars
  <1>2. RunsSomeFile'
    BY <1>1 DEF SearchInv, RunsSomeFile, SameGuests, Slot
  <1>3. power' = "on" => /\ Running'.file = Running.file
                         /\ Running'.version = Running.version /\ Running'.layout = Running.layout
    BY <1>1, LastIsOne DEF Running, SameGuests
  <1>4. StartedFromCurrent'
    BY <1>3 DEF SearchInv, StartedFromCurrent
  <1>5. SearchTypes'
    BY <1>1 DEF SearchInv, SearchTypes
  <1>6. SearchTells'
    <2> SUFFICES ASSUME power' = "on", ~reused'
                 PROVE  /\ (search # NoSearch /\ search.boot = Len(boots) =>
                                Tells(disk[search.name].layout))'
                        /\ (asked = Len(boots) => Tells(buffers))'
      BY DEF SearchTells
    <2>1. /\ search # NoSearch /\ search.boot = Len(boots) => Tells(disk[search.name].layout)
          /\ asked = Len(boots) => Tells(buffers)
      BY DEF SearchInv, SearchTells
    <2>2. (search # NoSearch /\ search.boot = Len(boots) => Tells(disk[search.name].layout))'
      BY <1>1, <1>3, <2>1 DEF Tells
    <2>3. (asked = Len(boots) => Tells(buffers))'
      BY <1>1, <1>3, <2>1 DEF Tells
    <2> QED
      BY <1>1, <2>2, <2>3
  <1> QED
    BY <1>2, <1>4, <1>5, <1>6 DEF SearchInv

\* A launch makes a new guest, for which no search was asked.
LEMMA LaunchKeepsSearch ==
    ASSUME FileInv, SearchInv, Launch, UNCHANGED <<disk, current, reused, bufVars>>
    PROVE  SearchInv'
  <1>1. PICK r \in BootRecords :
          /\ boots' = Append(boots, r) /\ r.file = disk[current.name]
          /\ \/ r.version = Slot.version /\ r.layout = Slot.layout
             \/ r.version = r.file.version /\ r.layout = r.file.layout
    BY LaunchAdds
  <1>2. boots \in Seq(BootRecords) /\ Len(boots) \in Nat
    BY DEF FileInv, GuestTypes
  <1>3. /\ boots' \in Seq(BootRecords) /\ Len(boots') = Len(boots) + 1 /\ boots'[Len(boots')] = r
        /\ \A i \in DOMAIN boots' : i = Len(boots') \/ i \in DOMAIN boots
        /\ \A i \in DOMAIN boots : boots'[i] = boots[i]
    BY <1>1, <1>2, AppendHas
  <1>4. RunsSomeFile'
    BY <1>1, <1>3 DEF SearchInv, RunsSomeFile, Slot
  <1>5. StartedFromCurrent'
    BY <1>1, <1>3 DEF StartedFromCurrent, Running
  <1>6. UNCHANGED <<search, buffers, asked>>
    BY DEF bufVars
  <1>7. SearchTypes'
    BY <1>2, <1>3, <1>6 DEF SearchInv, SearchTypes
  <1>8. (search' # NoSearch => search'.boot # Len(boots')) /\ asked' # Len(boots')
    BY <1>2, <1>3, <1>6 DEF SearchInv, SearchTypes
  <1>9. SearchTells'
    BY <1>8 DEF SearchTells
  <1> QED
    BY <1>4, <1>5, <1>7, <1>9 DEF SearchInv

\* An upload under the name in use sets reused; any other leaves that file.
LEMMA UploadWriteKeepsSearch ==
    ASSUME FileInv, SearchInv, NEW n \in Names, NEW f \in Files, UploadWrite(n, f)
    PROVE  SearchInv'
  <1>1. /\ step = "idle" /\ step' = "detect"
        /\ disk' = [disk EXCEPT ![n] = f]
        /\ reused' = (reused \/ disk[n] # NoFile)
        /\ UNCHANGED <<current, boots, power, search, buffers, asked>>
    BY DEF UploadWrite, guestVars, bufVars
  <1>2. \A m \in Names : disk'[m] = IF m = n THEN f ELSE disk[m]
    BY <1>1 DEF FileInv, FileTypes
  <1>3. RunsSomeFile' /\ StartedFromCurrent'
    BY <1>1 DEF SearchInv, RunsSomeFile, StartedFromCurrent, Slot
  <1>4. SearchTypes'
    BY <1>1, <1>2 DEF SearchInv, SearchTypes
  <1>5. SearchTells'
    <2> SUFFICES ASSUME power' = "on", ~reused'
                 PROVE  /\ (search # NoSearch /\ search.boot = Len(boots) =>
                                Tells(disk[search.name].layout))'
                        /\ (asked = Len(boots) => Tells(buffers))'
      BY DEF SearchTells
    <2>1. ~reused /\ disk[n] = NoFile /\ power = "on"
      BY <1>1
    <2>2. current.name \in Names /\ disk'[current.name] = disk[current.name]
      BY <1>2, <2>1, NoFileIsNone DEF FileInv, NamesHaveFiles
    <2>3. search # NoSearch => disk'[search.name] = disk[search.name]
      BY <1>2, <2>1, NoFileIsNone DEF SearchInv, SearchTypes
    <2>4. /\ search # NoSearch /\ search.boot = Len(boots) => Tells(disk[search.name].layout)
          /\ asked = Len(boots) => Tells(buffers)
      BY <2>1 DEF SearchInv, SearchTells
    <2>5. (search # NoSearch /\ search.boot = Len(boots) => Tells(disk[search.name].layout))'
      BY <1>1, <2>2, <2>3, <2>4 DEF Tells, Running, Slot
    <2>6. (asked = Len(boots) => Tells(buffers))'
      BY <1>1, <2>2, <2>4 DEF Tells, Running, Slot
    <2> QED
      BY <1>1, <2>5, <2>6
  <1> QED
    BY <1>3, <1>4, <1>5 DEF SearchInv

\* Switching the current image changes neither the guest nor a search.
LEMMA UploadSetKeepsSearch ==
    ASSUME FileInv, SearchInv, UploadSet
    PROVE  SearchInv'
  <1>1. /\ step = "set" /\ step' \in {"on", "idle"}
        /\ UNCHANGED <<disk, reused, boots, power, search, buffers, asked>>
    BY DEF UploadSet, guestVars, bufVars
  <1>2. RunsSomeFile' /\ StartedFromCurrent'
    BY <1>1 DEF SearchInv, RunsSomeFile, StartedFromCurrent, Slot
  <1>3. SearchTypes'
    BY <1>1 DEF SearchInv, SearchTypes
  <1>4. SearchTells'
    <2> SUFFICES ASSUME power' = "on", ~reused'
                 PROVE  /\ (search # NoSearch /\ search.boot = Len(boots) =>
                                Tells(disk[search.name].layout))'
                        /\ (asked = Len(boots) => Tells(buffers))'
      BY DEF SearchTells
    <2>1. /\ search # NoSearch /\ search.boot = Len(boots) => Tells(disk[search.name].layout)
          /\ asked = Len(boots) => Tells(buffers)
      BY <1>1 DEF SearchInv, SearchTells
    <2>2. (search # NoSearch /\ search.boot = Len(boots) => Tells(disk[search.name].layout))'
      BY <1>1, <2>1 DEF Tells, Running, Slot
    <2>3. (asked = Len(boots) => Tells(buffers))'
      BY <1>1, <2>1 DEF Tells, Running, Slot
    <2> QED
      BY <1>1, <2>2, <2>3
  <1> QED
    BY <1>2, <1>3, <1>4 DEF SearchInv

\* A search starts with the current image, from which the guest was started.
LEMMA SearchStartKeepsSearch ==
    ASSUME FileInv, SearchInv, SearchStart
    PROVE  SearchInv'
  <1>1. /\ power # "off" /\ search' = [boot |-> Len(boots), name |-> current.name]
        /\ UNCHANGED <<disk, current, step, reused, boots, power, buffers, asked>>
    BY DEF SearchStart, fileVars, guestVars
  <1>2. RunsSomeFile' /\ StartedFromCurrent'
    BY <1>1 DEF SearchInv, RunsSomeFile, StartedFromCurrent, Running, Slot
  <1>3. boots \in Seq(BootRecords) /\ Len(boots) \in DOMAIN boots /\ Len(boots) \in 1..Len(boots)
    BY <1>1, LastIsOne DEF FileInv, GuestTypes
  <1>4. current.name \in Names /\ disk[current.name] \in Files
    BY <1>1 DEF FileInv, NamesHaveFiles
  <1>5. SearchTypes'
    BY <1>1, <1>3, <1>4 DEF SearchInv, SearchTypes
  <1>6. SearchTells'
    <2> SUFFICES ASSUME power' = "on", ~reused'
                 PROVE  /\ (search # NoSearch /\ search.boot = Len(boots) =>
                                Tells(disk[search.name].layout))'
                        /\ (asked = Len(boots) => Tells(buffers))'
      BY DEF SearchTells
    <2>1. asked = Len(boots) => Tells(buffers)
      BY <1>1 DEF SearchInv, SearchTells
    <2>2. Tells(disk[current.name].layout)
      <3>1. CASE step = "set"
        <4>1. Running.file = disk[current.name]
          BY <1>1, <3>1 DEF SearchInv, StartedFromCurrent
        <4>2. \/ Running.version = Slot.version
              \/ Running.layout = Running.file.layout
          BY <1>3 DEF SearchInv, RunsSomeFile, Running
        <4> QED
          BY <4>1, <4>2 DEF Tells
      <3>2. CASE step # "set"
        BY <3>2 DEF Tells
      <3> QED
        BY <3>1, <3>2
    <2>3. (search # NoSearch /\ search.boot = Len(boots) => Tells(disk[search.name].layout))'
      BY <1>1, <2>2 DEF Tells, Running, Slot
    <2>4. (asked = Len(boots) => Tells(buffers))'
      BY <1>1, <2>1 DEF Tells, Running, Slot
    <2> QED
      BY <2>3, <2>4
  <1> QED
    BY <1>2, <1>5, <1>6 DEF SearchInv

\* A search that ends under the guest it began with tells of that guest.
LEMMA SearchEndKeepsSearch ==
    ASSUME FileInv, SearchInv, SearchEnd
    PROVE  SearchInv'
  <1>1. /\ search # NoSearch /\ search' = NoSearch
        /\ buffers' = discover(search)
        /\ asked' = IF search.boot = Len(boots) THEN search.boot ELSE 0
        /\ UNCHANGED <<disk, current, step, reused, boots, power>>
    BY DEF SearchEnd, fileVars, guestVars
  <1>2. RunsSomeFile' /\ StartedFromCurrent'
    BY <1>1 DEF SearchInv, RunsSomeFile, StartedFromCurrent, Running, Slot
  <1>3. boots \in Seq(BootRecords) /\ Len(boots) \in Nat /\ search.boot \in 1..Len(boots)
    BY <1>1 DEF FileInv, GuestTypes, SearchInv, SearchTypes
  <1>4. SearchTypes'
    BY <1>1, <1>3 DEF SearchTypes
  <1>5. SearchTells'
    <2> SUFFICES ASSUME power' = "on", ~reused', asked' = Len(boots')
                 PROVE  Tells(buffers)'
      BY <1>1 DEF SearchTells
    <2>1. search.boot = Len(boots) /\ power = "on" /\ ~reused
      <3>1. boots' = boots /\ asked' = Len(boots) /\ power = "on" /\ ~reused
        BY <1>1
      <3>2. ASSUME search.boot # Len(boots) PROVE FALSE
        BY <1>1, <1>3, <3>1, <3>2
      <3> QED
        BY <3>1, <3>2
    <2>2. Tells(disk[search.name].layout)
      BY <1>1, <2>1 DEF SearchInv, SearchTells
    <2>3. Tells(discover(search))
      <3>1. CASE from_symbols(search.name)
        <4>1. discover(search) = disk[search.name].layout
          BY <3>1 DEF discover
        <4> QED
          BY <2>2, <4>1
      <3>2. CASE ~from_symbols(search.name)
        <4>1. ~(search.boot < Len(boots) \/ power # "on")
          BY <1>3, <2>1
        <4>2. discover(search) = locate(search.boot)
          BY <3>2, <4>1 DEF discover
        <4>3. locate(search.boot) \in {Running.layout, Anywhere}
          BY <2>1 DEF locate, Running
        <4> QED
          BY <4>2, <4>3 DEF Tells
      <3> QED
        BY <3>1, <3>2
    <2> QED
      BY <1>1, <2>3 DEF Tells, Running, Slot
  <1> QED
    BY <1>2, <1>4, <1>5 DEF SearchInv

\* No search is under way at the start.
LEMMA SearchInit == FirmwareInit => SearchInv
  <1> SUFFICES ASSUME FirmwareInit PROVE SearchInv
    OBVIOUS
  <1>1. boots = <<>> /\ DOMAIN boots = {} /\ Len(boots) = 0
    BY DEF FirmwareInit
  <1>2. RunsSomeFile /\ SearchTypes
    BY <1>1 DEF FirmwareInit, RunsSomeFile, SearchTypes
  <1>3. StartedFromCurrent /\ SearchTells
    BY DEF FirmwareInit, StartedFromCurrent, SearchTells
  <1> QED
    BY <1>2, <1>3 DEF SearchInv

\* Every step of the server and of the machine keeps SearchInv.
LEMMA SearchNext ==
    ASSUME FileInv, SearchInv, [FirmwareNext]_<<vars, fwVars>>
    PROVE  SearchInv'
  <1>1. UNCHANGED boots => SameGuests
    BY UnchangedIsSame DEF FileInv, GuestTypes
  <1>2. ASSUME UNCHANGED <<disk, current, reused, bufVars, boots>>,
               power' = "on" => power = "on", power' = "on" /\ step' = "set" => step = "set"
        PROVE  SearchInv'
    BY <1>1, <1>2, FrameKeepsSearch
  <1>3. CASE UNCHANGED fwVars
    BY <1>2, <1>3 DEF fwVars, fileVars, guestVars
  <1>4. CASE PowerOn
    <2>1. UNCHANGED <<disk, current, reused, bufVars, step>>
      BY <1>4 DEF PowerOn, fileVars
    <2>2. CASE Launch
      BY <2>1, <2>2, LaunchKeepsSearch
    <2>3. CASE LaunchFails
      BY <1>2, <2>1, <2>3 DEF LaunchFails
    <2> QED
      BY <1>4, <2>2, <2>3 DEF PowerOn
  <1>5. CASE PowerOff \/ Crash
    BY <1>2, <1>5 DEF PowerOff, Crash, fileVars
  <1>6. CASE UploadRefused
    BY <1>2, <1>6 DEF UploadRefused, guestVars
  <1>7. CASE UploadDetected
    BY <1>2, <1>7 DEF UploadDetected, guestVars
  <1>8. CASE UploadOff
    BY <1>2, <1>8 DEF UploadOff
  <1>9. CASE UploadOn
    <2>1. step' = "idle" /\ UNCHANGED <<disk, current, reused, bufVars>>
      BY <1>9 DEF UploadOn
    <2>2. CASE power = "on"
      BY <1>2, <1>9, <2>1, <2>2 DEF UploadOn
    <2>3. CASE power # "on" /\ Launch
      BY <2>1, <2>3, LaunchKeepsSearch
    <2>4. CASE power # "on" /\ LaunchFails
      BY <1>2, <2>1, <2>4 DEF LaunchFails
    <2> QED
      BY <1>9, <2>2, <2>3, <2>4 DEF UploadOn
  <1>10. CASE GuestStep
    <2>1. SameGuests /\ UNCHANGED <<disk, current, reused, step, bufVars, power>>
      BY <1>10, GuestStepIsSame DEF fileVars
    <2> QED
      BY <2>1, FrameKeepsSearch
  <1>11. CASE api_firmware \/ api_status
    BY <1>2, <1>11 DEF api_firmware, api_status, fileVars, guestVars
  <1>12. CASE UNCHANGED <<vars, fwVars>>
    BY <1>3, <1>12
  <1> QED
    BY <1>3, <1>4, <1>5, <1>6, <1>7, <1>8, <1>9, <1>10, <1>11, <1>12, UploadWriteKeepsSearch,
       UploadSetKeepsSearch, SearchStartKeepsSearch, SearchEndKeepsSearch
    DEF FirmwareNext, PowerStep, UploadStep, BannerStep, BuffersStep, GuestStep

\* The three invariants hold together in every state.
LEMMA SayingInvariant == FirmwareSpec => [](FileInv /\ BannersInOrder /\ SearchInv)
  <1>1. FirmwareInit => BannersInOrder
    BY DEF FirmwareInit, BannersInOrder
  <1>2. FileInv /\ BannersInOrder /\ SearchInv /\ [FirmwareNext]_<<vars, fwVars>>
           => (FileInv /\ BannersInOrder /\ SearchInv)'
    BY FilesNext, BannersNext, SearchNext
  <1> QED
    BY <1>1, <1>2, FilesInit, SearchInit, PTL DEF FirmwareSpec

\* A version names one build: files of one version have one layout, and none is
\* also in a slot.
VersionsTell ==
    \A f \in Files :
        /\ f.version # Slot.version
        /\ \A g \in Files : f.version = g.version => f.layout = g.layout

(***************************************************************************)
(* What running_firmware and ensure_buffers say is about the emulator that *)
(* runs: the latest banner is its own unless an older emulator's came in   *)
(* after it, and buffers that were searched for in it are its own.  For    *)
(* any files in which a version names one build; the rest of the cases the *)
(* code does not tell apart are the ones SaysWhatRuns excludes.            *)
(***************************************************************************)
THEOREM FirmwareSaysWhatRuns == VersionsTell => (FirmwareSpec => []SaysWhatRuns)
  <1> SUFFICES ASSUME VersionsTell PROVE FirmwareSpec => []SaysWhatRuns
    OBVIOUS
  <1>1. FileInv /\ BannersInOrder /\ SearchInv => SaysWhatRuns
    <2> SUFFICES ASSUME FileInv, BannersInOrder, SearchInv, power = "on"
                 PROVE  /\ ~lateBanner /\ Len(boots) \in ToSet(text) =>
                               /\ boots[latest].version = Running.version
                               /\ ~matches_uploaded => Running.version # disk[current.name].version
                        /\ /\ asked = Len(boots) /\ ~reused
                           /\ Running.version = disk[current.name].version
                           => buffers \in {Running.layout, Anywhere, Failed}
      BY DEF SaysWhatRuns
    <2>1. ASSUME ~lateBanner, Len(boots) \in ToSet(text)
          PROVE  /\ boots[latest].version = Running.version
                 /\ ~matches_uploaded => Running.version # disk[current.name].version
      <3>1. latest = Len(boots)
        BY <2>1, LatestRuns
      <3> QED
        BY <3>1 DEF Running, matches_uploaded, image_mentions
    <2>2. ASSUME asked = Len(boots), ~reused, Running.version = disk[current.name].version
          PROVE  buffers \in {Running.layout, Anywhere, Failed}
      <3>1. Tells(buffers)
        BY <2>2 DEF SearchInv, SearchTells
      <3>2. disk[current.name] \in Files
        BY DEF FileInv, NamesHaveFiles
      <3>3. Running.version # Slot.version
        BY <2>2, <3>2 DEF VersionsTell
      <3>4. Len(boots) \in DOMAIN boots /\ Running \in BootRecords
        BY LastIsOne DEF Running
      <3>5. Running.version = Running.file.version /\ Running.layout = Running.file.layout
        BY <3>3, <3>4 DEF SearchInv, RunsSomeFile, Running
      <3>6. Running.file \in Files
        BY <3>4 DEF BootRecords
      <3>7. Running.layout = disk[current.name].layout
        BY <2>2, <3>2, <3>5, <3>6 DEF VersionsTell
      <3> QED
        BY <3>1, <3>3, <3>7 DEF Tells
    <2> QED
      BY <2>1, <2>2
  <1> QED
    BY <1>1, SayingInvariant, PTL

-----------------------------------------------------------------------------
(* The log pane *)

Ascending(s) == \A i, j \in DOMAIN s : i < j => s[i] < s[j]
UpTo(s, n) == \A i \in DOMAIN s : s[i] <= n
After(s, n) == \A i \in DOMAIN s : n < s[i]

PollRecords ==
    [pc: {"idle", "entries", "cursor", "reply"}, since: Nat, batch: Seq(Nat), cursor: Nat]

\* While a poll is in flight no other moves the cursor it started from; what it
\* brings lies between that cursor and the one that is read after it.
PollInv(q) ==
    /\ q.pc # "idle" => q.since = logCursor
    /\ q.pc \in {"cursor", "reply"} => Ascending(q.batch) /\ After(q.batch, q.since)
    /\ q.pc = "cursor" => UpTo(q.batch, seq)
    /\ q.pc = "reply" => UpTo(q.batch, q.cursor) /\ q.since <= q.cursor /\ q.cursor <= seq

LogTypes ==
    /\ seq \in Nat /\ logCursor \in Nat /\ logCursor <= seq
    /\ entries \in Seq(Nat) /\ Ascending(entries) /\ UpTo(entries, seq)
    /\ pane \in Seq(Nat) /\ Ascending(pane) /\ UpTo(pane, logCursor)
    /\ poll \in [Polls -> PollRecords]

LogInv == LogTypes /\ \A p \in Polls : PollInv(poll[p])

\* A part of an ascending sequence ascends.
LEMMA PartAscends ==
    ASSUME NEW s \in Seq(Nat), NEW t \in Seq(Nat), NEW n \in Nat, NEW k \in Nat,
           \A i \in DOMAIN t : i + k \in DOMAIN s /\ t[i] = s[i + k]
    PROVE  /\ Ascending(s) => Ascending(t)
           /\ UpTo(s, n) => UpTo(t, n)
<1>1. \A i \in DOMAIN t : i \in Nat
  OBVIOUS
<1>2. ASSUME Ascending(s), NEW i \in DOMAIN t, NEW j \in DOMAIN t, i < j
      PROVE  t[i] < t[j]
  <2>1. i + k \in DOMAIN s /\ j + k \in DOMAIN s /\ i + k < j + k
    BY <1>1, <1>2
  <2> QED
    BY <1>2, <2>1 DEF Ascending
<1> QED
  BY <1>2 DEF Ascending, UpTo

LEMMA NewestAscends ==
    ASSUME NEW s \in Seq(Nat), NEW n \in Nat, NEW m \in Nat \ {0}, Ascending(s), UpTo(s, n)
    PROVE  Newest(s, m) \in Seq(Nat) /\ Ascending(Newest(s, m)) /\ UpTo(Newest(s, m), n)
<1>1. Newest(s, m) \in Seq(Nat)
  BY NewestKeeps
<1>2. PICK t \in Seq(Nat) : t = Newest(s, m)
  BY <1>1
<1>3. PICK k \in Nat : \A i \in DOMAIN t : i + k \in DOMAIN s /\ t[i] = s[i + k]
  <2>1. \E k \in Nat : \A i \in DOMAIN Newest(s, m) :
           i + k \in DOMAIN s /\ Newest(s, m)[i] = s[i + k]
    BY NewestKeeps
  <2> QED
    BY <1>2, <2>1, Zenon
<1>4. Ascending(t) /\ UpTo(t, n)
  BY <1>3, PartAscends
<1> QED
  BY <1>2, <1>4

\* entries(since) returns lines of the log, in their order, that come after since.
LEMMA EntriesAfter ==
    ASSUME LogTypes, NEW since \in Nat
    PROVE  /\ EntriesSince(since) \in Seq(Nat)
           /\ Ascending(EntriesSince(since))
           /\ After(EntriesSince(since), since) /\ UpTo(EntriesSince(since), seq)
<1> DEFINE after == {i \in DOMAIN entries : entries[i] > since}
           S == after \cup {Len(entries) + 1}
           m == Min(S)
           b == SubSeq(entries, m, Len(entries))
<1>1. /\ entries \in Seq(Nat) /\ Len(entries) \in Nat /\ DOMAIN entries = 1..Len(entries)
      /\ seq \in Nat /\ Ascending(entries) /\ UpTo(entries, seq)
  BY DEF LogTypes
<1>2. S # {} /\ S \subseteq Nat
  BY <1>1
<1>3. m \in S /\ \A j \in S : m <= j
  <2>1. \E x \in S : \A j \in S : x <= j
    <3> HIDE DEF S
    <3>1. PICK x \in S : \A j \in S : ~ (<<j, x>> \in OpToRel(<, Nat))
      BY <1>2, WFMin, NatLessThanWellFounded
    <3>2. \A j \in S : ~(j < x)
      BY <1>2, <3>1 DEF OpToRel
    <3> QED
      BY <1>2, <3>2
  <2> QED
    BY <2>1 DEF Min
<1>4. m \in 1..(Len(entries) + 1)
  BY <1>1, <1>3
<1>5. EntriesSince(since) = b
  BY DEF EntriesSince
<1>6. \A i \in DOMAIN entries : m <= i => entries[i] > since
  <2> SUFFICES ASSUME NEW i \in DOMAIN entries, m <= i PROVE entries[i] > since
    OBVIOUS
  <2>1. m \in DOMAIN entries /\ entries[m] > since
    BY <1>1, <1>3, <1>4
  <2> HIDE DEF m
  <2>2. entries[m] <= entries[i]
    BY <1>1, <1>4, <2>1 DEF Ascending
  <2> QED
    BY <1>1, <2>1, <2>2
<1> HIDE DEF m
<1>7. /\ b \in Seq(Nat) /\ Len(b) = Len(entries) - m + 1
      /\ \A i \in 1..(Len(entries) - m + 1) : b[i] = entries[m + i - 1]
  BY <1>1, <1>4
<1>8. PICK k \in Nat : k = m - 1
  BY <1>4
<1>9. \A i \in DOMAIN b : i + k \in DOMAIN entries /\ b[i] = entries[i + k] /\ m <= i + k
  BY <1>1, <1>4, <1>7, <1>8
<1> HIDE DEF b
<1>10. Ascending(b) /\ UpTo(b, seq)
  BY <1>1, <1>7, <1>8, <1>9, PartAscends
<1>11. After(b, since)
  BY <1>6, <1>9 DEF After
<1> QED
  BY <1>5, <1>7, <1>10, <1>11

LEMMA AddPane ==
    ASSUME LogInv, add
    PROVE  LogInv'
<1>1. /\ UNCHANGED <<poll, logCursor, pane>> /\ seq' = seq + 1
      /\ entries' = Newest(Append(entries, seq + 1), Capacity)
  BY DEF add
<1>2. /\ seq \in Nat /\ entries \in Seq(Nat) /\ Ascending(entries) /\ UpTo(entries, seq)
      /\ logCursor \in Nat /\ logCursor <= seq
  BY DEF LogInv, LogTypes
<1>3. PICK t \in Seq(Nat) : t = Append(entries, seq + 1)
  <2>1. seq + 1 \in Nat
    BY <1>2
  <2>2. Append(entries, seq + 1) \in Seq(Nat)
    BY <1>2, <2>1
  <2> QED
    BY <2>2
<1>4. /\ Len(t) = Len(entries) + 1 /\ t[Len(t)] = seq + 1 /\ Len(entries) \in Nat
      /\ \A i \in 1..Len(entries) : t[i] = entries[i] /\ entries[i] \in Nat
  BY <1>2, <1>3
<1>5. UpTo(t, seq + 1) /\ Ascending(t)
  <2>1. \A i \in DOMAIN t : \/ i = Len(t)
                            \/ i \in 1..Len(entries) /\ i \in DOMAIN entries
    BY <1>2, <1>4
  <2>2. \A i \in DOMAIN entries : i < Len(t) /\ t[i] = entries[i] /\ entries[i] <= seq
    <3>1. DOMAIN entries = 1..Len(entries)
      BY <1>2
    <3>2. \A i \in DOMAIN entries : entries[i] <= seq
      BY <1>2 DEF UpTo
    <3> QED
      BY <1>4, <3>1, <3>2
  <2>3. UpTo(t, seq + 1)
    BY <1>2, <1>4, <2>1, <2>2 DEF UpTo
  <2>4. ASSUME NEW i \in DOMAIN t, NEW j \in DOMAIN t, i < j
        PROVE  t[i] < t[j]
    <3>1. i \in DOMAIN entries /\ i \in 1..Len(entries)
      BY <1>4, <2>1, <2>2, <2>4
    <3>2. CASE j = Len(t)
      BY <1>2, <1>4, <2>2, <3>1, <3>2
    <3>3. CASE j \in DOMAIN entries
      BY <1>2, <2>2, <2>4, <3>1, <3>3 DEF Ascending
    <3> QED
      BY <2>1, <3>2, <3>3
  <2> QED
    BY <2>3, <2>4 DEF Ascending
<1>6. entries' \in Seq(Nat) /\ Ascending(entries') /\ UpTo(entries', seq')
  <2>1. entries' = Newest(t, Capacity) /\ seq' = seq + 1
    BY <1>1, <1>3
  <2>2. Capacity \in Nat \ {0} /\ seq + 1 \in Nat
    BY <1>2, LogAssumption
  <2>3. PICK m \in Nat : m = seq + 1
    BY <2>2
  <2>4. Newest(t, Capacity) \in Seq(Nat) /\ Ascending(Newest(t, Capacity)) /\ UpTo(Newest(t, Capacity), m)
    BY <1>5, <2>2, <2>3, NewestAscends
  <2> QED
    BY <2>1, <2>3, <2>4
<1>7. LogTypes'
  BY <1>1, <1>2, <1>6 DEF LogInv, LogTypes
<1>8. ASSUME NEW p \in Polls PROVE PollInv(poll[p])'
  <2>1. poll[p] \in PollRecords /\ PollInv(poll[p])
    BY DEF LogInv, LogTypes
  <2>2. /\ poll[p].batch \in Seq(Nat) /\ poll[p].since \in Nat /\ poll[p].cursor \in Nat
    BY <2>1 DEF PollRecords
  <2>3. UpTo(poll[p].batch, seq) => UpTo(poll[p].batch, seq + 1)
    BY <1>2, <2>2 DEF UpTo
  <2>4. poll[p].cursor <= seq => poll[p].cursor <= seq + 1
    BY <1>2, <2>2
  <2> QED
    BY <1>1, <2>1, <2>3, <2>4 DEF PollInv
<1> QED
  BY <1>7, <1>8 DEF LogInv

\* A step of the one poll leaves the log as it is.
LEMMA PollPane ==
    ASSUME LogInv, NEW p \in Polls, \A q \in Polls : q = p,
           PollSend(p) \/ ApiEntries(p) \/ ApiCursor(p) \/ PollFails(p) \/ PollReply(p)
    PROVE  LogInv'
<1>1. /\ poll \in [Polls -> PollRecords] /\ poll[p] \in PollRecords /\ PollInv(poll[p])
      /\ seq \in Nat /\ logCursor \in Nat /\ logCursor <= seq
  BY DEF LogInv, LogTypes
<1>2. seq' = seq /\ entries' = entries
  BY DEF PollSend, ApiEntries, ApiCursor, PollFails, PollReply
<1>3. Idle \in PollRecords /\ Idle.pc = "idle"
  BY DEF Idle, PollRecords
<1>4. SUFFICES /\ poll' \in [Polls -> PollRecords] /\ PollInv(poll[p])'
               /\ logCursor' \in Nat /\ logCursor' <= seq
               /\ pane' \in Seq(Nat) /\ Ascending(pane') /\ UpTo(pane', logCursor')
  BY <1>2 DEF LogInv, LogTypes
<1>5. ASSUME logCursor' = logCursor, pane' = pane, NEW r \in PollRecords,
             poll' = [poll EXCEPT ![p] = r], PollInv(r)
      PROVE  /\ poll' \in [Polls -> PollRecords] /\ PollInv(poll[p])'
             /\ logCursor' \in Nat /\ logCursor' <= seq
             /\ pane' \in Seq(Nat) /\ Ascending(pane') /\ UpTo(pane', logCursor')
  <2>1. poll' \in [Polls -> PollRecords] /\ poll'[p] = r
    BY <1>1, <1>5
  <2>2. PollInv(poll[p])'
    BY <1>2, <1>5, <2>1 DEF PollInv
  <2> QED
    BY <1>1, <1>5, <2>1, <2>2 DEF LogInv, LogTypes
<1>6. CASE PollSend(p)
  <2> DEFINE r == [Idle EXCEPT !.pc = "entries", !.since = logCursor]
  <2>1. r \in PollRecords /\ r.pc = "entries" /\ r.since = logCursor
    BY <1>1, <1>3 DEF PollRecords
  <2>2. logCursor' = logCursor /\ pane' = pane /\ poll' = [poll EXCEPT ![p] = r]
    BY <1>6 DEF PollSend
  <2> HIDE DEF r
  <2>3. PollInv(r)
    BY <2>1 DEF PollInv
  <2> QED
    BY <1>5, <2>1, <2>2, <2>3
<1>7. CASE ApiEntries(p)
  <2> DEFINE r == [poll[p] EXCEPT !.pc = "cursor", !.batch = EntriesSince(poll[p].since)]
  <2>1. poll[p].since \in Nat /\ poll[p].since = logCursor
    BY <1>1, <1>7 DEF ApiEntries, PollInv, PollRecords
  <2>2. /\ EntriesSince(poll[p].since) \in Seq(Nat)
        /\ Ascending(EntriesSince(poll[p].since))
        /\ After(EntriesSince(poll[p].since), poll[p].since)
        /\ UpTo(EntriesSince(poll[p].since), seq)
    BY <2>1, EntriesAfter DEF LogInv
  <2>3. /\ r \in PollRecords /\ r.pc = "cursor" /\ r.since = poll[p].since
        /\ r.batch = EntriesSince(poll[p].since)
    BY <1>1, <2>2 DEF PollRecords
  <2>4. logCursor' = logCursor /\ pane' = pane /\ poll' = [poll EXCEPT ![p] = r]
    BY <1>7 DEF ApiEntries
  <2> HIDE DEF r
  <2>5. PollInv(r)
    BY <2>1, <2>2, <2>3 DEF PollInv
  <2> QED
    BY <1>5, <2>3, <2>4, <2>5
<1>8. CASE ApiCursor(p)
  <2> DEFINE r == [poll[p] EXCEPT !.pc = "reply", !.cursor = seq]
  <2>1. /\ r \in PollRecords /\ r.pc = "reply" /\ r.since = poll[p].since
        /\ r.batch = poll[p].batch /\ r.cursor = seq
    BY <1>1 DEF PollRecords
  <2>2. logCursor' = logCursor /\ pane' = pane /\ poll' = [poll EXCEPT ![p] = r]
    BY <1>8 DEF ApiCursor
  <2>3. /\ poll[p].since = logCursor /\ Ascending(poll[p].batch)
        /\ After(poll[p].batch, poll[p].since) /\ UpTo(poll[p].batch, seq)
    BY <1>1, <1>8 DEF ApiCursor, PollInv
  <2> HIDE DEF r
  <2>4. PollInv(r)
    BY <1>1, <2>1, <2>3 DEF PollInv
  <2> QED
    BY <1>5, <2>1, <2>2, <2>4
<1>9. CASE PollFails(p)
  <2>1. logCursor' = logCursor /\ pane' = pane /\ poll' = [poll EXCEPT ![p] = Idle]
    BY <1>9 DEF PollFails
  <2>2. PollInv(Idle)
    BY <1>3 DEF PollInv
  <2> QED
    BY <1>3, <1>5, <2>1, <2>2
<1>10. CASE PollReply(p)
  <2>1. /\ poll' = [poll EXCEPT ![p] = Idle] /\ logCursor' = poll[p].cursor
        /\ pane' = Newest(pane \o poll[p].batch, PaneLines - 1)
    BY <1>10 DEF PollReply
  <2>2. /\ poll[p].since = logCursor /\ Ascending(poll[p].batch)
        /\ After(poll[p].batch, logCursor) /\ UpTo(poll[p].batch, poll[p].cursor)
        /\ logCursor <= poll[p].cursor /\ poll[p].cursor <= seq
    BY <1>1, <1>10 DEF PollReply, PollInv
  <2>3. /\ poll[p].batch \in Seq(Nat) /\ poll[p].cursor \in Nat
        /\ pane \in Seq(Nat) /\ Ascending(pane) /\ UpTo(pane, logCursor)
    BY <1>1 DEF PollRecords, LogInv, LogTypes
  <2>4. PICK b \in Seq(Nat) : b = poll[p].batch
    BY <2>3
  <2>5. PICK z \in Seq(Nat) : z = pane \o b
    <3>1. pane \o b \in Seq(Nat)
      BY <2>3
    <3> QED
      BY <3>1
  <2>6. /\ Len(pane) \in Nat /\ Len(b) \in Nat /\ Len(z) = Len(pane) + Len(b)
        /\ \A i \in 1..Len(pane) : z[i] = pane[i]
        /\ \A i \in 1..Len(b) : z[Len(pane) + i] = b[i]
    BY <2>3, <2>5
  <2>7. /\ \A i \in 1..Len(pane) : pane[i] \in Nat /\ pane[i] <= logCursor
        /\ \A i \in 1..Len(b) : b[i] \in Nat /\ logCursor < b[i] /\ b[i] <= poll[p].cursor
        /\ \A i, j \in 1..Len(pane) : i < j => pane[i] < pane[j]
        /\ \A i, j \in 1..Len(b) : i < j => b[i] < b[j]
    <3>1. /\ DOMAIN pane = 1..Len(pane) /\ DOMAIN b = 1..Len(b)
          /\ \A i \in 1..Len(pane) : pane[i] \in Nat
          /\ \A i \in 1..Len(b) : b[i] \in Nat
      BY <2>3
    <3>2. /\ \A i \in DOMAIN pane : pane[i] <= logCursor
          /\ \A i, j \in DOMAIN pane : i < j => pane[i] < pane[j]
      BY <2>3 DEF Ascending, UpTo
    <3>3. /\ \A i \in DOMAIN b : logCursor < b[i] /\ b[i] <= poll[p].cursor
          /\ \A i, j \in DOMAIN b : i < j => b[i] < b[j]
      BY <2>2, <2>4 DEF Ascending, UpTo, After
    <3> QED
      BY <3>1, <3>2, <3>3
  <2>8. \A i \in DOMAIN z : \/ i \in 1..Len(pane)
                            \/ i - Len(pane) \in 1..Len(b) /\ z[i] = b[i - Len(pane)] /\ i > Len(pane)
    BY <2>6
  <2>9. UpTo(z, poll[p].cursor)
    <3> SUFFICES ASSUME NEW i \in DOMAIN z PROVE z[i] <= poll[p].cursor
      BY DEF UpTo
    <3>1. CASE i \in 1..Len(pane)
      <4>1. z[i] = pane[i] /\ pane[i] \in Nat /\ pane[i] <= logCursor
        BY <2>6, <2>7, <3>1
      <4> QED
        BY <1>1, <2>2, <2>3, <4>1
    <3>2. CASE i - Len(pane) \in 1..Len(b) /\ z[i] = b[i - Len(pane)]
      BY <2>7, <3>2
    <3> QED
      BY <2>8, <3>1, <3>2
  <2>10. Ascending(z)
    <3> SUFFICES ASSUME NEW i \in DOMAIN z, NEW j \in DOMAIN z, i < j PROVE z[i] < z[j]
      BY DEF Ascending
    <3>1. CASE j \in 1..Len(pane)
      <4>1. i \in 1..Len(pane)
        BY <2>6, <2>8, <3>1
      <4> QED
        BY <2>6, <2>7, <3>1, <4>1
    <3>2. CASE i \in 1..Len(pane) /\ j - Len(pane) \in 1..Len(b) /\ z[j] = b[j - Len(pane)]
      <4>1. z[i] = pane[i] /\ pane[i] \in Nat /\ pane[i] <= logCursor
        BY <2>6, <2>7, <3>2
      <4>2. b[j - Len(pane)] \in Nat /\ logCursor < b[j - Len(pane)]
        BY <2>7, <3>2
      <4> QED
        BY <1>1, <3>2, <4>1, <4>2
    <3>3. CASE /\ i - Len(pane) \in 1..Len(b) /\ z[i] = b[i - Len(pane)]
               /\ j - Len(pane) \in 1..Len(b) /\ z[j] = b[j - Len(pane)]
      <4>1. i - Len(pane) < j - Len(pane)
        BY <2>6
      <4> QED
        BY <2>7, <3>3, <4>1
    <3> QED
      BY <2>8, <3>1, <3>2, <3>3
  <2>11. PaneLines - 1 \in Nat \ {0}
    BY LogAssumption
  <2>12. /\ pane' \in Seq(Nat) /\ Ascending(pane') /\ UpTo(pane', logCursor')
    BY <2>1, <2>3, <2>4, <2>5, <2>9, <2>10, <2>11, NewestAscends
  <2>13. poll' \in [Polls -> PollRecords] /\ poll'[p] = Idle
    BY <1>1, <1>3, <2>1
  <2>14. PollInv(poll[p])'
    BY <1>3, <2>13 DEF PollInv
  <2> QED
    BY <2>1, <2>2, <2>3, <2>12, <2>13, <2>14
<1> QED
  BY <1>6, <1>7, <1>8, <1>9, <1>10

\* Whatever else happens, the log only grows by lines that are added.
LEMMA LogOnlyAdds ==
    ASSUME [FirmwareNext]_<<vars, fwVars>>
    PROVE  Next \/ UNCHANGED vars
  BY DEF FirmwareNext, PowerStep, UploadStep, BannerStep, BuffersStep, drain,
         PowerOn, PowerOff, Crash, Launch, LaunchFails, UploadWrite, UploadRefused,
         UploadDetected, UploadOff, UploadSet, UploadOn, PrintBanner, pump_stream,
         api_firmware, Draw, SearchStart, SearchEnd, api_status, Log, NoLog, Next

OnePoll == \A p, q \in Polls : p = q

(***************************************************************************)
(* With one poll in flight at a time, the pane shows no line twice and     *)
(* none out of order, for logs and panes of any capacity, any number of    *)
(* lines added while the poll runs and whichever polls fail: the cursor,   *)
(* read after the entries, is never behind them.                           *)
(***************************************************************************)
THEOREM LogPaneInOrder == OnePoll => (FirmwareSpec => []PaneInOrder)
<1> SUFFICES ASSUME OnePoll PROVE FirmwareSpec => []PaneInOrder
  OBVIOUS
<1>1. FirmwareInit => LogInv
  <2> SUFFICES ASSUME FirmwareInit PROVE LogInv
    OBVIOUS
  <2>1. /\ seq = 0 /\ entries = <<>> /\ poll = [p \in Polls |-> Idle]
        /\ logCursor = 0 /\ pane = <<>>
    BY DEF FirmwareInit, Init
  <2>2. Idle \in PollRecords /\ Idle.pc = "idle"
    BY DEF Idle, PollRecords
  <2>3. PollInv(Idle)
    BY <2>2 DEF PollInv
  <2> QED
    BY <2>1, <2>2, <2>3 DEF LogInv, LogTypes, Ascending, UpTo
<1>2. LogInv /\ [FirmwareNext]_<<vars, fwVars>> => LogInv'
  <2> SUFFICES ASSUME LogInv, Next \/ UNCHANGED vars PROVE LogInv'
    BY LogOnlyAdds
  <2>1. CASE add
    BY <2>1, AddPane
  <2>2. CASE \E p \in Polls : PollStep(p) \/ PollFails(p)
    BY <2>2, PollPane DEF PollStep, OnePoll
  <2>3. CASE UNCHANGED vars
    BY <2>3 DEF vars, LogInv, LogTypes, PollInv
  <2> QED
    BY <2>1, <2>2, <2>3 DEF Next
<1>3. LogInv => PaneInOrder
  BY DEF LogInv, LogTypes, Ascending, PaneInOrder
<1> QED
  BY <1>1, <1>2, <1>3, PTL DEF FirmwareSpec

=============================================================================
