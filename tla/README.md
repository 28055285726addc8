# TLA+ models of the UV-K5 emulator

This directory holds TLA+ models of the UV-K5 (PY32F071) emulator: the QEMU
machine in `qemu/py32f071.c` and the web UI and supervisor in `tools/`. TLC
checks them on small instances, and TLAPS proves the most important results for
every value of the constants. `PROJECT.json` lists components, runs, mutants,
the source lines behind every definition, hazards and theorems.

## The system

A browser talks to a Flask server (`tools/webui.py`), which serves every request
on a thread of its own. The server owns

* a **supervisor** (`uvk5_supervisor.py`) that starts, stops and resets one QEMU
  process, and knows it by a process handle and a QMP client;
* one **QMP client** (`uvk5_qmp.py`) per process: a socket shared by all threads
  through a lock;
* a **frame pump** (`uvk5_stream.py`, `uvk5_lcd.py`): a thread that reads the
  panel's memory over QMP and publishes a PNG, which `/stream` sends on;
* a **log buffer** (`uvk5_logs.py`) that the page polls;
* an **image slot**, a **flash slot** and a **boot key**, which the launcher reads
  when it spawns a process;
* editors of the flash image (`uvk5_slots.py`, `uvk5_apps.py`) and of firmware
  images (`uvk5_image.py`), and two serial protocols (`uvk5_serial_flash.py`,
  `uvk5_slots_serial.py`).

The QEMU process runs the firmware on a model of the radio: the **SPI NOR** with
its image file, the keypad and GPIO, the BK4819 transceiver, SPI and DMA, the
USART, the ST7565 panel, ADC, timer and clock registers.

| Component | State | Operations | Interacts with | What is hard |
| --- | --- | --- | --- | --- |
| SPI NOR | contents, decoder, dirty range, image file | byte transfer, chip select, realize, exit | SPI bus, host file, process life | failed and short writes, kills, wrap-around |
| Supervisor | client, process, lock | power_on/off, reset, pause, resume, adopt | request threads, QEMU process | waits outside the lock, crashes, failed connects |
| Power handlers | image, boot key, was-on locals | api_power, firmware upload, flash edit, flash upload | supervisor, pump | read, act, act again without a lock |
| Frame pump, stream | grabber, raw, png, generation | rebind, set_buffers, grab loop, frames() | QMP client, guest drawing, browser | several reads per frame, rebind in flight |
| QMP client | socket buffer, lock | command | monitor, all threads | replies without identity, events, timeouts |
| Log buffer, pane | entries, seq, page cursor | add, entries, cursor, poll | all threads, browser | two calls per poll, eviction, overlap |
| Keys and PTT | key matrix, ptt, page state | tap, down, up, ptt, release-all, blur | browser, QMP client, power | requests out of order, overlap, loss |
| Keypad matrix, GPIO | columns, rows, pressed, boot-key timer | column change, press, ptt, reset, scan | firmware, host, timer | pseudo column, lines that are copies of the matrix |
| BK4819 | bit decoder, registers, receiver, interrupt status | clock edges, chip select, evaluate | GPIO, firmware | bit alignment, a loop with no timeout |
| SPI, DMA | channels, flags, interrupt line | arm, kick, transfer, clear | firmware, SPI NOR | start before all is armed, untimed wait |
| USART receive | queue, DMA ring, count | receive, count read, configure | host chardev, firmware | full queue, circular wrap |
| ST7565 | display memory, address, flags | command, data | SPI, pump | modal decoding |
| Serial protocols | reassembly buffer, attempt, session | session, command with retries, install, app query; wait, handshake, program | USART, firmware, bootloader | stream cut anywhere, screen data between frames, answers without a number that come late or twice |
| Slots, apps | layout of the flash image, temporary file | write, erase, install | flash image, request threads | overlapping edits, crashes, boundary sizes |
| Firmware images | uploaded files, current image, its kind and offset | detect, upload, launch | launcher, machine, power | two implementations of one detection, files overwritten before they are checked |
| Banner, buffers | lines in the log, cached addresses | running_firmware, ensure_buffers | log, drain of each process, guest memory | answers about an emulator that has been replaced |

## Modules

* `FlashChip` models `py25q16_*`. A byte is the set of its one bits, so a page
  program is an intersection and an erased byte is `Bits`. A byte on the bus is
  an opcode, an address digit (base `Base`, 256 in the code) or data. The write-back
  has all its outcomes: in place, short, replace by rename, failure. `Kill` stops
  the process without its exit notifier. The address register is reduced modulo
  `AddrSpace`; only its value modulo `Size` is used.
* `PersistentNor` is the abstract specification: a part whose bits are cleared by
  programs and set by sector erases, with a disk that takes only bytes the part
  holds and gives back exactly itself at power-up. `FlashChip!RefinesNor` maps
  `nor` to the contents and `disk` to what a power-up would load.
* `FlashChipProofs`, `PowerControlProofs`, `QmpClientProofs`, `GpioProofs`,
  `SpiDmaProofs`, `FirmwareBootProofs`, `SerialLinkProofs` and `FlashLayoutProofs` hold
  the theorems about the modules they are named after. `GpioProofs` is about the three
  devices on the port, `KeypadScan`, `Bk4819` and `St7565`; `QmpClientProofs` is also about
  two users of that client, `FramePump` and `KeyControl`, `FirmwareBootProofs`
  about the `LogBuffer` it extends, and `SerialLinkProofs` about all that is on the link.
* `PowerControl` models the supervisor and the four handlers that restart the
  emulator. Every step between two critical sections is an action; `power_on`
  keeps the lock from launch to connect. `multiboot` is `on` with a boot key.
  A process is up, quitting or dead, and dead as soon as it is killed. With `--attach`
  the server starts with a client and no process; of the emulator behind it nothing
  can be seen but that client, and the properties about processes are about those the
  server started.
* `FramePump` models the grab loop, one action per QMP command, the guest's
  drawing, rebinds and the `/stream` generator. The generation counter is kept as
  the only thing it is used for, the comparison `fresh`. The two `memsave`
  commands of the fallback are one step.
* `LogBuffer` models the buffer, the handler's two locked calls and the page.
* `FirmwareBoot` extends it with what is written to and read back from the log: the
  upload handler, one action per step another request can fall between, `detect` and
  the machine's `uvk5_sniff_app_offset` side by side, launches that may be replaced by
  the firmware of an external slot, the banner with its drain, and the search for the
  screen buffers. A file is a record of what decides these: stack pointer, reset
  handler, length, ELF or not, version, layout. The supervisor's steps are those of one
  request at a time; their overlap is `PowerControl`'s. `view` chooses, at the start,
  whether the pane, the banner or the buffers are watched: they share only the
  numbering of lines, so each is explored in full without the product of the three.
* `QmpClient` models `command()` from several threads and the monitor. Replies
  carry a tag that only the properties read. Construction (greeting and
  capabilities) is over in `Init`.
* `KeyControl` models the page's key and PTT handlers, the three request
  handlers, one action per QMP command, and the keypad's properties.
* `SerialReceive` models the USART's receive queue, the DMA channel that drains
  it when a count register is read, the bootloader that polls the data register
  and the driver that derives a write pointer from the count.
* `SerialFrames` models the framing that both serial programs share: `build`, and
  `Frames.feed` and `take` over a stream that may be cut between any two tokens. A frame
  is the two bytes of MAGIC and one token for the rest; a MAGIC in the screen the
  firmware streams is a token of its own, whose false length reaches over `Reach` tokens.
* `SlotSerial` models the `Radio` class with its reader thread, `session`, `_command`
  and the three programs made of them: `install`, `--info` and `/api/apps/radio`. The
  firmware is external: it may drop a command, refuse it, leave its serial mode, stream
  its screen. A wait may end before its answer; `premature` counts how often that
  happened and `misread` records an answer taken for another command's. Only the
  properties read them, but for the bound on `premature`.
* `SerialFlash` models the `Flasher`: `wait_for_device`, `handshake`, `program`. The
  bootloader is external.
* `SerialLink` puts them on one link, which one program has open at a time. The
  bytes of the bare link are `SerialReceive`'s, and that link keeps them whole and in
  order (`StreamIntact`), which is what the others assume of theirs.
* `Bk4819` models the transceiver and the firmware's driver edge by edge: the
  decoder of `bk4819_set_scl`, the evaluation of the receiver on every read of
  REG_0C, and the firmware's collection loop. The width of words and registers,
  the announcement period and the stations are constants.
* `KeypadScan` models the matrix, the GPIO port that copies its lines and the
  firmware's scan, with the keys, rows and columns of the radio, and the boot
  key with its timer.
* `SpiDma` models SPI2 and its two DMA channels under the flash driver's
  read-patch-program of a sector. The driver is external; it may arm its
  channels and enable bits in any order except that TXDMAEN comes last, which
  is the contract the comments of `py32_spi_write` describe. A reset in the
  instant in which the interrupt line is up is left out: `py32_dma_reset`
  forgets the flags and leaves the line as it is.
* `St7565` models the panel on SPI1, the port that tells it of its two pins, and
  the firmware's display driver as programs of pin changes and bytes (their order is
  the one `work/README.md` measured at boot and quotes for the contrast menu). The
  driver is external. Whether a machine reset reaches the panel depends on QEMU's
  reset tree, in which the panel has no bus: both are allowed, and so are a firmware
  that raises CS before its first byte and one that does not.
* `FlashLayout` models the slots and apps in the flash image, the handlers that
  edit them, and the files: an edit reads the image, changes its copy and saves
  it, through a temporary file (slots) or in place (apps). A header stands for
  magic, size and CRC. The history variable `table` says, as a reader would, what each
  slot and app should hold. An app whose code is not of 1 to `APP_OVERLAY_MAX` cells is
  refused, as `parse` does. Power is `PowerControl`'s: an edit here is what
  `_edit_flash` calls once the emulator is off.

`MC*` modules and the `.cfg` files give the constants. Operators marked
*Mutant* are not part of any specification: each changes one definition as a
plausible bug would, and shows that the property next to it in `PROJECT.json`
notices.

## Runs

| Run | Bounds | Shows |
| --- | --- | --- |
| `flash` | 4 bytes, pages and sectors of 2, one bit per byte, two values per address byte | `DirtyCovers`, `CleanIsPersisted`, `NeverTruncated`, refinement of `PersistentNor` |
| `power` | two requests of six kinds, 3 processes and an adopted one, 2 images | `NoOrphan`, `ClientMatchesProcess`, `CriticalStepsEnd`, `SafeInTurn` |
| `pump` | 1 emulator, 2 contents, one failed command | `BlankStaysBlank`, `PublishedIsBound`, `StreamCatchesUp`, `PumpSettles` |
| `logs` | buffer and pane of 3, 7 lines, one poll; 5 files under 2 names, 2 uploads, 2 boots | `PaneInOrder`, `PaneCatchesUp`, `BootsWhatWasChecked`, `SaysWhatRuns` |
| `qmp` | 3 threads, 2 commands each, one event, one timeout | `AnswersOwnUntilTimeout`, `OneOutstanding`, `CallsEnd` |
| `keys` | 2 keys, 3 requests, one lost | `NoStuckKey`, `NotLeftKeyedInTurn` |
| `serial` | queue of 3, ring of 4, 9 bytes, 2 resets; 3 chunks with a session before the second and the third, 2 tries, 2 handshakes, 2 premature waits, one fault; 3 pages, 3 retries, one fault | `StreamIntact`, `AllArrive`, `InstalledIsWhole`, `AnswersOwnCommand`, `ProgrammedIsImage` |
| `bk4819` | 3-bit registers, 2-bit words, one announcement in 4 polls, one station, one reset | `TransferExact`, `RequestHasNews`, `LoopDrains`, `NewsHeard` |
| `keypad` | the radio's 5 by 4 matrix, 2 resets | `LinesFollow`, `ScanFindsKey`, `BootKeyLetsGo` |
| `spidma` | sector of 4, pages of 2, one bit per byte, one reset | `SectorKept`, `WaitEnds` |
| `panel` | 2 pages of 3 columns behind a margin of 1, 2 pictures, 2 resets | `SettingsFollow`, `GlassCatchesUp` |
| `layout` | 2 slots, 2 apps, 3 images, 2 requests at a time, 4 edits, one crash | `TableKept`, `NeverTorn` |

The flash bounds give two pages and two sectors, addresses that wrap and ranges
that touch both ends. Two requests suffice for the power races because each one
is a pair of steps with a third in between; `multiboot`, `pause` and `resume`
take the steps of `on` and `reset` and are left out of the run. Rebinding the
pump to one emulator again and again already separates the snapshot from the
grabber; the proofs cover several emulators. `ClientMatchesProcess` is also why
the early return of `power_off`, which has already cleared the process handle
when it finds no client, loses nothing.

Nine bytes wrap the serial ring of four twice and fill the queue of three. Three
chunks are what it takes for the answer to a repeated chunk to stand for the next
one while a third follows, and two premature waits are the least that let it happen,
so the run reaches past the bound `AnswersOwnCommand` names. The link is lossless, and
what a device drops it drops as a whole command. The five files of `logs` sit on the
edges the shape is read from: the last reset handler of a bootloader and the first of
an application, one past the end of the file, stack pointers on and past both ends of
the SRAM, and an ELF with symbols; two boots are an old emulator and a new one, and
the third line evicts the first banner. The
words of `bk4819` are shorter than the radio's, and still a command and a word
of different length, so a bit too many or too few does not realign by chance; a
period of four polls leaves polls that announce nothing, which the collection
loop needs to end. In `panel` a page is wider than the margin and the counter's range is cut into two
values per address byte, so that a column needs both; the second reset meets a boot
that the first one started. In `spidma` a sector is two pages, so that the second program
continues where the first ended. `layout` needs two requests to overlap and two
more edits to build on the result; images fill a slot, leave a cell, or are one
cell too long, an app is one cell too long for the overlay, and one app lies on data of
the factory. Its requests are
interchangeable, which the symmetry in `MCFlashLayout` uses.

`TypeOK` is part of the `flash` run and of its proof. The other modules state
their types in the same form, for the reader and for the proofs, which establish them
of `PowerControl`, `KeyControl`, `KeypadScan`, `SpiDma` and `FlashLayout`; no run is spent on them.

Properties named `...InTurn` or `...UntilTimeout` hold as long as requests are
answered before the next arrives, or no receive has timed out. The variables
`overlapped`, `latched`, `torn`, `table`, `marked`, `wanted`, `missed`, `misread`,
`reused`, `lateBanner` and `asked` are history variables: no action's guard reads them. What happens beyond that is described
below.

Further behaviours the models have, or the code shows on reading, that no run is
spent on:

* an uploaded image shorter than the chip is extended with a hole by the first
  write past its end, and reads 0x00 after a power cycle where the chip read 0xff
  (`FlashChip` with other lengths in `ImageLens`);
* a screen drawn between the two reads of one grab records the new memory with the
  old picture, which then stays (`FramePump`);
* a log line added between `entries()` and `cursor()` is never sent (`LogBuffer`);
* after a receive has timed out, the late reply is taken for the answer to the next
  command (`QmpClient`: `AnswersOwnCommand` fails once `timeouts` is not 0);
* a PTT release that overtakes its press leaves the radio keyed (`KeyControl`:
  `NotLeftKeyed` fails without "in turn");
* `bk4819_eval_receiver` reports the squelch closed in the first evaluation that
  may not announce, although the signal is still there, and open again in the next
  that may;
* the boot key drives PTT while the machine is built, and the first reset of the
  GPIO port puts the line back to idle, so the firmware does not see it held;
* overlapping edits of slots or apps lose one of them, a slot edit fails when
  another has already renamed the shared temporary file, and an app edit that dies
  between truncating and writing leaves an empty image (`FlashLayout`; the
  variables `overlapped` and `torn` name these cases);
* a slice assignment past the end of a short image appends instead of writing at
  its offset (`Splice` does the same; images of full size are checked);
* with overlapping requests `OneProcess` fails: `power_off` gives up the process
  under the lock and waits for it outside, so a power-on meanwhile starts a second
  emulator on the same image (`PowerControl`: check `OneProcess` in the place of
  `SafeInTurn`). So do `EditAlone` and `ImageInEffect`: an edit
  that found the emulator off rewrites the image under one that another request
  starts, and a power-on between an upload's power-off and its image switch boots
  the previous image;
* an edit that raises after its power-off leaves the emulator off
  (`EditRefused`);
* uploads and edits call `power_off` without looking at `owns_process`, and so
  would quit an emulator the server only attached to, without waiting for its end;
  the docstring of `adopt` says that `power_off` will refuse to kill it
  (`PowerControl`: `PowerOffQuit` with `my_proc` None). And an adopted emulator that
  has died keeps `is_running` true, so On does nothing;
* an upload is written before it is looked at: one that is refused, under the name of
  the current image, has already replaced it, and the next power-on boots what
  `detect` turned down (`FirmwareBoot`: drop `~reused` from `BootsWhatWasChecked`).
  The comment there promises that such a file leaves the radio as it was;
* `detect` wants the reset handler below `FLASH_BASE` plus the length of the file, also
  for an application, which lies 0x2800 higher: one whose handler is in its last
  0x2800 bytes is refused;
* the last line of an emulator that was replaced can be logged after the banner of the
  new one, and is then reported as what runs; until the new banner is logged the old
  one is compared with the new file, which reads as a foreign firmware
  (`FirmwareBoot`: `lateBanner`, and the banner that is not in `text` yet);
* the buffers of the first emulator that was asked are kept for ever, a search of a
  blank screen that matches anywhere and a failed search included (`FirmwareBoot`:
  `asked`, `Anywhere`, `Failed`);
* `/api/firmware` returns `running` beside `firmware`, and the page's `fwLabel` looks for
  it inside, so the hint about a foreign firmware is not shown;
* a look at the serial buffer that falls between the two bytes of MAGIC finds none and
  clears the buffer, and with it the first byte of a frame, which is lost; the command
  is sent again (`SerialFrames!take`);
* with two premature waits, one of them in a handshake, a slot command takes the answer
  to another (`SlotSerial`: drop `premature < 2`); an install is still whole, because of
  the validation at its end, and an app is then reported in the place of another;
* uploads and edits restart the emulator without rebinding the frame pump, and
  with the boot key of the last power-on;
* the pump compares the panel's memory alone, so a toggled inversion of a resting
  screen is not encoded;
* two polls in flight ask from the same cursor and show lines twice;
* a machine reset in the middle of a line leaves the panel in pixel mode, and the
  port, which reports changes only, does not tell it of A0 going low: the boot's
  commands land in the display memory, until the next picture covers them, and its
  scan directions are lost. A reset of the panel itself is as bad when the firmware
  does not raise CS first: the boot's bytes are ignored (`St7565`: `missed` names
  both cases);
* `ST7565_ContrastAndInv` starts with 0xE2, which clears `display_on`; nothing sets
  it again, and nothing but the reported property reads it;
* overlapping taps cut each other short, since every press and release clears the
  whole matrix.

## Fairness

* `PowerControl`: request threads run (weak fairness) and the timeouts of
  `connect`, `wait` and `terminate` expire; an emulator is never assumed to exit
  by itself.
* `FramePump`: the pump and the streaming thread run; the keepalive clock
  advances, so the keepalive is strongly fair.
* `LogBuffer`: the page's timer keeps firing and not every poll fails. In
  `FirmwareBoot` this is assumed, and needed, of the behaviours that watch the pane;
  its other properties are about safety.
* `QmpClient`: threads run, the lock is granted to a waiting thread in the end
  (strong fairness) and the monitor answers what it received while it lives.
* `SerialReceive`: the chardev delivers what fits, and the firmware polls, sets up
  its channel and reads the count. `SerialLink` assumes the same of the bare link; the
  programs' properties are about safety.
* `Bk4819`: the firmware clocks its transfers and polls REG_0C; the poll is strongly
  fair, since the firmware's other register writes come between two polls and do
  not replace them.
* `KeypadScan`: the firmware scans, the boot-key timer runs out, and the machine's
  first reset happens.
* `SpiDma`: the firmware runs and takes its interrupts.
* `St7565`: the firmware runs, and comes back to drawing however often it changes
  settings in between (strong fairness).
* `KeyControl` and `FlashLayout`: none, their properties are about safety.

`qmp` and `layout` say `CHECK_DEADLOCK FALSE`: they end when every thread has
issued its bounded number of commands or edits.

## Proofs

Every theorem holds for all values of the constants that satisfy the assumptions of
its module, and every inductive invariant below was an invariant of a run before it
was proved. The bounds (`MaxProcs`, `MaxCommands`, `MaxResets`...) are constants like
the others, so the theorems hold however large they are.

| Module | Theorem | Property | Beyond the run |
| --- | --- | --- | --- |
| `FlashChipProofs` | `FlashTypeCorrect`, `FlashDirtyCovers`, `FlashCleanIsPersisted`, `FlashNeverTruncated` | as named | every size, page, sector, base and byte width |
| | `FlashRefinesNor` | `RefinesNor` | the same |
| `PowerControlProofs` | `PowerTypeCorrect` | `TypeOK` | any number of requests, processes and images, all kinds of request |
| | `PowerNoOrphan`, `PowerClientMatchesProcess`, `PowerSafeInTurn` | `NoOrphan`, `ClientMatchesProcess`, `SafeInTurn` | the same |
| `QmpClientProofs` | `PumpBlankStaysBlank`, `PumpPublishedIsBound` | as named | any emulators, contents and failures |
| | `QmpAnswersOwn`, `QmpOneOutstanding` | `AnswersOwnUntilTimeout`, `OneOutstanding` | any threads, commands, events and timeouts |
| | `KeyTypeCorrect`, `KeyNeverStuck`, `KeyNotLeftKeyed` | `TypeOK`, `NoStuckKey`, `NotLeftKeyedInTurn` | any keys, requests and losses |
| `GpioProofs` | `PadTypeCorrect`, `PadLinesFollow`, `PadScanFindsKey` | `TypeOK`, `LinesFollow`, `ScanFindsKey` | every size of the matrix, any resets |
| | `BkTransferExact`, `BkRequestHasNews` | `TransferExact`, `RequestHasNews` | every width of a command and a word, any registers, stations and resets |
| | `PanelSettingsFollow` | `SettingsFollow` | every size of the panel, any pictures, contrasts and resets |
| `SpiDmaProofs` | `SpiTypeCorrect`, `SpiSectorKept` | `TypeOK`, `SectorKept` | every sector, page and byte width, any resets |
| `FirmwareBootProofs` | `FirmwareBootsChecked`, `FirmwareSaysWhatRuns` | `BootsWhatWasChecked`, `SaysWhatRuns` | any files, names, uploads, boots and log sizes |
| | `LogPaneInOrder` | `PaneInOrder` | buffer and pane of any capacity, any number of lines |
| `SerialLinkProofs` | `LinkProgrammedIsImage` | `ProgrammedIsImage` | any number of pages, retries and faults |
| | `LinkAnswersOwnCommand`, `LinkInstalledIsWhole` | `AnswersOwnCommand`, `InstalledIsWhole` | any number of chunks, sessions, tries, faults and premature waits |
| | `LinkStreamIntact` | `StreamIntact` | any queue no longer than the ring, any number of bytes and resets |
| `FlashLayoutProofs` | `LayoutTypeCorrect`, `LayoutTableKept`, `LayoutNeverTorn` | `TypeOK`, `TableKept`, `NeverTorn` | every layout, any images, apps, requests, edits and crashes |

### Arguments

**`FlashChip`.** `Inv` is `TypeOK`, `WholeFile` (an image that exists has the chip's
length) and `DirtyCovers`. `DirtyCovers` alone is not inductive: an in-place write to
a shorter file would extend it with zeros outside the range, which `WholeFile`
excludes; the theorems are therefore about images that are absent or as long as the
chip (`ImageLens` at most `{Size}`), and the other case is described above. The
write-back is reduced to three lemmas (`MarkDirtyCovers`, `WriteFileEffect`,
`FlushEffect`), and each action of the decoder to a change of one byte or one sector
that `py25q16_mark_dirty` covers. The refinement goes step by step (`StepRefines`):
a program is the abstract clearing of bits, a sector erase the abstract erase
(`SectorStartAligned` and `MultipleMod` show that the sector the decoder computes is
one of the abstract part's, which needs sectors to divide the chip), and a flush in
any of its outcomes moves to the disk only bytes the part holds (`FlushIsSync`).
`DirtyCovers` is what makes a complete flush leave the disk equal to the part.

**`PowerControl`.** `PowerInv` adds to the types and the two properties `LockOwner` (who
connects holds the lock, and while it is held there is a process and no client yet),
`HeldWasLaunched` and `ShutdownLocals` (the local of `power_off` is set exactly as long
as it has to wait). Without `ShutdownLocals` a thread that forgot its process could
drop the last reference to a live one; without `LockOwner` a failed connect could clear
the handle of another's emulator. `InTurn` is the strengthening of `SafeInTurn`:
one thread is active, the supervisor holds nothing while that thread shuts down, nothing
is alive between the end of its wait and its next power-on, and what is alive was
booted from the current image.

**`FramePump`.** `PumpInv` is `BlankStaysBlank` and `SnapshotIsBound` (a snapshot that is
still current is the pump's grabber, and the grabber is not None). Without the second
part a frame in flight could be published after `rebind(None)`: it is what the look at
the grabber after the grab establishes.

**`QmpClient`.** `QmpInv` says that the lock is held by exactly the one thread inside the
exchange and that a monitor that has gone reads nothing. `WireIsReaders` says that, until a timeout,
the wire holds one thing at most, the reader's command or the reply to it. That is what
makes matching by order sound. `OneOutstanding` counts with `Cardinality`: the lemmas
`UnreadAppend` and `UnreadAfterHead` say how the number of unread replies changes.

**`KeyControl`.** `KeyInv` is the types, `OffReleased` (a keypad without power holds
nothing) and `NoStuckKey`. `PttFollows` strengthens `NotLeftKeyedInTurn`: a PTT request in flight
carries the state of the button, and a radio keyed with the button up has a request on
its way.

**`KeypadScan`.** `PadInv` has the three parts of `LinesFollow` and, to make them
inductive, `ColumnsTold` (the matrix knows of every high column, in every phase),
`PinsOfPhase` (which pins are high in each phase of the scan) and, for `ScanFindsKey`,
`NotPassed` (a steady scan has passed no column with a held key).

**`Bk4819`.** `BkInv` says where chip and driver are at every edge: before it
(`BeforeEdge`) and between the rising and the falling one (`BetweenEdges`), a command or
a written word of which `p` bits went over the bus is in the chip as the quotient by what is left, and
in a read the shift register holds what is left of the word, moved to its top (`ReadAt`;
`PresentedBit`: its first bit is the word's next, and shifting keeps the form). The chip is at
the start of a transfer whenever it is not selected, which is what an aborted transfer and a
reset rely on. The provers know nothing of powers of two; `PowerDoubles` gets `2^(n+1) = 2 * 2^n`
by counting the subsets of `1..n+1`, and everything else is arithmetic on `Place`. In
`RequestHasNews` a write to REG_0C would put the bit up without a flag; that the firmware
makes none is the theorem's hypothesis, `RequestIsTheChips`. `BkInv` is needed there too: the
register a word is stored in is the one the driver meant.

**`St7565`.** `PanelInv` says of the steps the driver has left that they draw only, and then the
settings are already the firmware's (`Drawing`, `Settled`), or that they are the end of a boot
or of a change of settings, of which each step that is gone has left its setting behind
(`Booting`, `Setting`). Programs are counted from their end, since a boot may or may not raise
chip select first. `LineSteps` and `BlitSteps` show that drawing a picture, whatever its
size, sends no byte that changes a setting. A boot whose bytes found the pins out of date is `missed`, and
nothing is claimed until the next.

**`SpiDma`.** `SpiInv` follows the driver: `ArmedInTime` (TXDMAEN, the last write, finds
both channels set up), `NothingLeft` (no count is left, so the writes that switch the requests off
start nothing), `CommandServed`, `CacheHolds` (the cache is the old sector, patched
after the read) and `ChipHolds` (the sector is programmed up to `Reached` and erased
beyond). `TimesPage` and `WholePages` carry the arithmetic of pages.

**`FirmwareBoot`.** `FileInv` says that names in use have files and that what is current, or
about to be, was accepted by `detect`; `ReadAlike` says that the server and the machine
read the same offset out of such an image. `BannersInOrder` says that banners lie in the log in the
order of their emulators unless one came late, so the latest is the newest that is there.
`SearchInv` follows a search from its start to the buffers that are kept: a layout it can
tell is the running emulator's, or that of the current file, which is not about to
change under it. `FirmwareSaysWhatRuns` is about files in which a version names one
build, and none of which is also in a slot (`VersionsTell`): the code compares versions
and cannot tell such builds apart.

**`LogBuffer`.** `LogInv` says that the numbers in the buffer and in the pane ascend and
that the pane's end at the page's cursor. `PollInv` says what a poll in flight brings:
lines after the cursor it started from, and none beyond the cursor read after them. The
second part has to survive lines that are added, and evicted, between the two locked
calls. `OnePoll` is a hypothesis of the theorem, and is what the run has: a second poll would
start from the same cursor, which is the case described above.

**`SerialLink`.** The proofs look at the link as one sequence, `Pipe`: the reader's buffer,
the wire and what the device has not read. Every step of the link thins it out or turns
a command into its answer in place (`Thins`), so what is said of answers in flight is
said of the commands before them. `Framed` says that MAGIC is followed by its message, which
is what lets `take` skip the screen. Then:

* `FlasherInv`: a success in flight is that of a page that has been programmed, and all
  pages before the one in hand are;
* `AnswersInv`: with fewer than two premature waits, the only answer in flight other than
  a handshake's is that of the current command, once (`Own` has the cases). `misread`
  alone is not inductive: a first premature wait leaves an answer behind, and it has to be
  known that the next command is the same one, or a handshake, which skips it;
* `WholeInv`: nothing that changes the slot is behind a validation, so a validation that
  passed, in flight or read, is one of the slot as it is, however many answers were mistaken
  on the way;
* `StreamInv`: the buffer, the DMA ring and the queue hold together the bytes that are on
  their way, in order. `ChannelInv` relates the driver's pointers to the channel's count; `RingCell`
  and `Wrap` carry the arithmetic modulo the size of a ring.

**`FlashLayout`.** `LayoutInv` has two parts beside the types. `FilesGood`: however edits
overlap, every file is empty or `Good`, and every copy in memory is `Good`; an image is good when no
slot or app fails its CRC *and none claims more than its room*. The second half is what
makes it inductive: a header with too large a size would make a reader look into the next slot,
which an edit there changes. `SlotLocal` and `AppLocal` say that a good slot reads
the same when its own cells are the same, and `SlotEdit` and `AppEdit` that an edit changes one
slot or app alone. `InTurn`: with edits in turn, one request is busy, its copy shows the
table as it will be, it writes the file its steps name, and the image shows the table
except between the two halves of a write in place. `FreeInode` is a counting
argument: there is always a file for `open` to create.

### Assumptions

They are those of the modules' `ASSUME`s: sizes are positive, sectors divide the chip
(2 MiB and 4 KiB) and pages the sectors, a matrix has a column beside the pseudo
column, requests are not called None, the page can tap, names are not empty and a file has
the fields the model reads. The registers the receiver uses differ from the revision's, REG_0C
from REG_02, and a panel's nibble is not empty. The serial queue is no longer than the guest's buffer, and the
host sends less than a buffer ahead (`Fifo <= Ring`, `Window < Ring`). Of the flash layout: slots, state markers and apps follow each
other and end within the image, an image starts behind its header, and the longest app
fits behind its own (`APP_OVERLAY_MAX` is at most `APP_STRIDE - CODE_OFFSET`); the addresses in
`uvk5_slots.py` and `uvk5_apps.py` satisfy all of them.

### Only model-checked

Liveness under fairness, which the proof system does not reach: `CriticalStepsEnd`,
`StreamCatchesUp`, `PumpSettles`, `PaneCatchesUp`, `CallsEnd`, `AllArrive`, `LoopDrains`,
`NewsHeard`, `BootKeyLetsGo`, `WaitEnds`, `GlassCatchesUp`. Every other property of the
runs is a theorem; the type invariants without one of their own are contained in the
inductive invariants as far as the proofs need them.

## Not modelled

Pixel unpacking and PNG encoding, log formatting, endpoint parsing, page layout,
diagnostic probes, the command-line tools and the keyer harness: formatting or
plain input and output. Delivery of a request sent while the page closes is left
to the browser. ADC, TIM2, RCC and SysTick are registers that the
firmware writes and reads back, with no state two actors share. The CRC and the
obfuscation of serial frames, the opening of the port, and headers of slots and apps
beyond what decides their state are data the properties do not tell apart.

## Plan

1. Done: `FlashChip`, `PowerControl`, `FramePump`, `LogBuffer`, `QmpClient`,
   `KeyControl`, the device models and editors `SerialReceive`, `Bk4819`,
   `KeypadScan`, `SpiDma`, `St7565`, `FlashLayout`, the serial protocols
   (`SerialFrames`, `SlotSerial`, `SerialFlash`, `SerialLink`) and `FirmwareBoot`.
2. Done: a theorem for every safety property of every module; liveness stays under *Only
   model-checked*.
3. Composition: `PowerControl` with `FlashChip`'s process life and `FlashLayout`'s
   edits, so that an edit and a write-back meet in one image.
4. The remaining devices: the internal flash controller, ADC and TIM2.
