----------------------------- MODULE PowerControl -----------------------------
(***************************************************************************)
(* Power control of the web UI: tools/uvk5_supervisor.py, which owns the   *)
(* QEMU process, and the request handlers of tools/webui.py that switch    *)
(* the emulator off and on (api_power, api_firmware_upload, _edit_flash    *)
(* and api_flash_upload).  Flask serves every request on its own thread,   *)
(* so the requests are processes here and interleave between the           *)
(* supervisor's critical sections.                                         *)
(***************************************************************************)
EXTENDS Integers, FiniteSets

CONSTANTS
    Reqs,       \* request threads that may be in flight at once
    Ops,        \* kinds of request they make
    MaxProcs,   \* process identities; a dead and forgotten one is reused
    Images      \* firmware images that can be uploaded

PowerOps == {"on", "multiboot", "off", "reset", "pause", "resume"}
RestartOps == {"firmware", "edit", "flash"}

ASSUME OpsAssumption == Ops \subseteq PowerOps \cup RestartOps
ASSUME ProcsAssumption == MaxProcs \in Nat \ {0}
ASSUME ImagesAssumption == Images # {}

Procs == 1..MaxProcs        \* those the server starts
None == 0
ASSUME ReqsAssumption == None \notin Reqs
Foreign == MaxProcs + 1     \* the one it was told to attach to, if any
Clients == Procs \cup {None, Foreign}
NoUpload == CHOOSE i \in Images : TRUE

Steps == {"idle", "on", "connect", "off", "quit", "wait", "term",
          "command", "read", "rebind", "set", "gone", "editing"}

VARIABLES
    lock,      \* Supervisor._lock when a thread keeps it over several steps
    client,    \* Supervisor._client: the process its QMP client talks to
    proc,      \* Supervisor._proc
    pstate,    \* the processes: "none", "up", "quitting" or "dead"
    booted,    \* the firmware the last process was launched with
    image,     \* ImageSlot.current
    boot_key,  \* BootKey.name is set
    pump,      \* the client the FramePump reads from
    pc, op,    \* each thread's step and the kind of its request
    was_on,    \* local "running"/"restart" of a handler
    upload,    \* the image a firmware request carries
    my_client, my_proc,  \* locals of power_off
    seen,      \* the client that api_power read for pump.rebind
    overlapped \* two requests have been in flight at once (history)

supVars    == <<lock, client, proc>>
procVars   == <<pstate, booted>>
serverVars == <<image, boot_key, pump>>
localVars  == <<op, was_on, upload, my_client, my_proc, seen>>
vars == <<supVars, procVars, serverVars, pc, localVars, overlapped>>

-----------------------------------------------------------------------------
Dead(p) == pstate[p] = "dead"

\* Supervisor.is_running and owns_process, read under the lock.
is_running == client # None /\ ~(proc # None /\ Dead(proc))
owns_process == proc # None

\* A process identity nobody refers to any more.
Unreferenced(p) ==
    /\ pstate[p] \in {"none", "dead"}
    /\ p \notin {client, proc, pump}
    /\ \A r \in Reqs : p \notin {my_client[r], my_proc[r], seen[r]}

Goto(r, step) == pc' = [pc EXCEPT ![r] = step]

\* As Goto, and a request that has answered forgets its locals.
Return(r, step) ==
    /\ Goto(r, step)
    /\ op' = IF step = "idle" THEN [op EXCEPT ![r] = "none"] ELSE op
    /\ was_on' = IF step = "idle" THEN [was_on EXCEPT ![r] = FALSE] ELSE was_on
    /\ upload' = IF step = "idle" THEN [upload EXCEPT ![r] = NoUpload] ELSE upload
    /\ UNCHANGED <<my_client, my_proc>>

\* Where a handler continues once power_on or power_off returned.
AfterOn(r) == IF op[r] \in PowerOps THEN "read" ELSE "idle"
AfterOff(r) ==
    CASE op[r] = "firmware" -> "set"
      [] op[r] = "edit"     -> "gone"
      [] op[r] = "flash"    -> "editing"
      [] OTHER              -> "read"

-----------------------------------------------------------------------------
(* Supervisor.power_on *)

\* Mutant: the process is not polled.
StaleIgnored == FALSE

Stale == client # None /\ proc # None /\ Dead(proc)

PowerOnAlready(r) ==
    /\ pc[r] = "on" /\ lock = None
    /\ client # None /\ ~Stale
    /\ Return(r, AfterOn(r))
    /\ UNCHANGED <<supVars, procVars, serverVars, seen>>

\* The launcher reads the image, the flash path and the boot key now.
PowerOnLaunch(r) ==
    /\ pc[r] = "on" /\ lock = None
    /\ client = None \/ Stale
    /\ \E p \in Procs :
          /\ Unreferenced(p) /\ \A q \in 1..(p - 1) : ~Unreferenced(q)
          /\ proc' = p
          /\ pstate' = [pstate EXCEPT ![p] = "up"]
    /\ booted' = image
    /\ client' = None
    /\ lock' = r
    /\ Goto(r, "connect")
    /\ UNCHANGED <<serverVars, localVars>>

\* No firmware loaded, or no such binary: Popen raises inside the lock.
PowerOnLaunchFails(r) ==
    /\ pc[r] = "on" /\ lock = None
    /\ client = None \/ Stale
    /\ client' = None
    /\ proc' = IF Stale THEN None ELSE proc
    /\ Return(r, AfterOn(r))
    /\ UNCHANGED <<lock, procVars, serverVars, seen>>

PowerOnConnected(r) ==
    /\ pc[r] = "connect" /\ pstate[proc] = "up"
    /\ client' = proc
    /\ lock' = None
    /\ Return(r, AfterOn(r))
    /\ UNCHANGED <<proc, procVars, serverVars, seen>>

\* Mutant: the process is forgotten without being terminated.
ConnectFailsLeavesProcess(r) ==
    /\ pc[r] = "connect"
    /\ proc' = None
    /\ client' = None
    /\ lock' = None
    /\ Return(r, AfterOn(r))
    /\ UNCHANGED <<procVars, serverVars, seen>>

\* QMP never answered: terminate, wait five seconds, kill, and raise.
PowerOnConnectFails(r) ==
    /\ pc[r] = "connect"
    /\ pstate' = [pstate EXCEPT ![proc] = "dead"]
    /\ proc' = None
    /\ client' = None
    /\ lock' = None
    /\ Return(r, AfterOn(r))
    /\ UNCHANGED <<booted, serverVars, seen>>

-----------------------------------------------------------------------------
(* Supervisor.power_off: only the swap is under the lock. *)

\* Mutant: _client is cleared under the lock and _proc is not.
PowerOffTakeClientOnly(r) ==
    /\ pc[r] = "off" /\ lock = None
    /\ my_client' = [my_client EXCEPT ![r] = client]
    /\ my_proc' = [my_proc EXCEPT ![r] = IF client = None THEN None ELSE proc]
    /\ client' = None
    /\ Goto(r, IF client = None THEN AfterOff(r) ELSE "quit")
    /\ UNCHANGED <<lock, proc, procVars, serverVars, op, was_on, upload, seen>>

PowerOffTake(r) ==
    /\ pc[r] = "off" /\ lock = None
    /\ my_client' = [my_client EXCEPT ![r] = client]
    /\ my_proc' = [my_proc EXCEPT ![r] = IF client = None THEN None ELSE proc]
    /\ client' = None
    /\ proc' = None
    /\ Goto(r, IF client = None THEN AfterOff(r) ELSE "quit")
    /\ UNCHANGED <<lock, procVars, serverVars, op, was_on, upload, seen>>

\* Mutant: quit is sent and nobody waits for the process to exit.
PowerOffQuitNoWait(r) ==
    /\ pc[r] = "quit"
    /\ \/ pstate' = pstate
       \/ /\ my_client[r] \in Procs /\ pstate[my_client[r]] = "up"
          /\ pstate' = [pstate EXCEPT ![my_client[r]] = "quitting"]
    /\ my_client' = [my_client EXCEPT ![r] = None]
    /\ my_proc' = [my_proc EXCEPT ![r] = None]
    /\ Goto(r, AfterOff(r))
    /\ UNCHANGED <<supVars, booted, serverVars, op, was_on, upload, seen>>

\* QMP quit; it may be lost (a wedged emulator), the exception is swallowed.
PowerOffQuit(r) ==
    /\ pc[r] = "quit"
    /\ \/ pstate' = pstate
       \/ /\ my_client[r] \in Procs /\ pstate[my_client[r]] = "up"
          /\ pstate' = [pstate EXCEPT ![my_client[r]] = "quitting"]
    /\ my_client' = [my_client EXCEPT ![r] = None]
    /\ Goto(r, IF my_proc[r] = None THEN AfterOff(r) ELSE "wait")
    /\ UNCHANGED <<supVars, booted, serverVars, op, was_on, upload, my_proc, seen>>

PowerOffExited(r) ==
    /\ pc[r] \in {"wait", "term"} /\ Dead(my_proc[r])
    /\ my_proc' = [my_proc EXCEPT ![r] = None]
    /\ Goto(r, AfterOff(r))
    /\ UNCHANGED <<supVars, procVars, serverVars, op, was_on, upload, my_client, seen>>

\* Ten seconds passed: SIGTERM.
PowerOffTerminate(r) ==
    /\ pc[r] = "wait" /\ ~Dead(my_proc[r])
    /\ pstate' = [pstate EXCEPT ![my_proc[r]] = "quitting"]
    /\ Goto(r, "term")
    /\ UNCHANGED <<supVars, booted, serverVars, localVars>>

\* Mutant: no SIGKILL, only another wait.
PowerOffWaitAgain(r) ==
    /\ pc[r] = "term" /\ ~Dead(my_proc[r])
    /\ UNCHANGED <<supVars, procVars, serverVars, pc, localVars>>

\* Five more: SIGKILL.
PowerOffKill(r) ==
    /\ pc[r] = "term" /\ ~Dead(my_proc[r])
    /\ pstate' = [pstate EXCEPT ![my_proc[r]] = "dead"]
    /\ my_proc' = [my_proc EXCEPT ![r] = None]
    /\ Goto(r, AfterOff(r))
    /\ UNCHANGED <<supVars, booted, serverVars, op, was_on, upload, my_client, seen>>

-----------------------------------------------------------------------------
(* api_power *)

ApiPower(r, a) ==
    /\ pc[r] = "idle"
    /\ a = "off" => lock = None /\ owns_process   \* else 409, nothing happens
    /\ boot_key' = (a = "multiboot")
    /\ op' = [op EXCEPT ![r] = a]
    /\ Goto(r, CASE a \in {"on", "multiboot"} -> "on"
                 [] a = "off" -> "off"
                 [] OTHER -> "command")
    /\ UNCHANGED <<supVars, procVars, image, pump, was_on, upload, my_client, my_proc, seen>>

\* reset, pause and resume; reset without a client is a cold boot.
ApiCommand(r) ==
    /\ pc[r] = "command" /\ lock = None
    /\ Goto(r, IF op[r] = "reset" /\ client = None THEN "on" ELSE "read")
    /\ UNCHANGED <<supVars, procVars, serverVars, localVars>>

\* pump.rebind(supervisor.client()): two locks, taken one after the other.
ApiReadClient(r) ==
    /\ pc[r] = "read" /\ lock = None
    /\ seen' = [seen EXCEPT ![r] = client]
    /\ Goto(r, "rebind")
    /\ UNCHANGED <<supVars, procVars, serverVars, op, was_on, upload, my_client, my_proc>>

ApiRebind(r) ==
    /\ pc[r] = "rebind"
    /\ pump' = seen[r]
    /\ seen' = [seen EXCEPT ![r] = None]
    /\ Return(r, "idle")
    /\ UNCHANGED <<supVars, procVars, image, boot_key>>

-----------------------------------------------------------------------------
(* api_firmware_upload, after the upload was accepted as an image *)

ApiFirmware(r, i) ==
    /\ pc[r] = "idle" /\ lock = None
    /\ op' = [op EXCEPT ![r] = "firmware"]
    /\ was_on' = [was_on EXCEPT ![r] = is_running]
    /\ upload' = [upload EXCEPT ![r] = i]
    /\ Goto(r, IF is_running THEN "off" ELSE "set")
    /\ UNCHANGED <<supVars, procVars, serverVars, my_client, my_proc, seen>>

ApiFirmwareSet(r) ==
    /\ pc[r] = "set"
    /\ image' = upload[r]
    /\ Return(r, IF was_on[r] THEN "on" ELSE "idle")
    /\ UNCHANGED <<supVars, procVars, boot_key, pump, seen>>

-----------------------------------------------------------------------------
(* _edit_flash (slot and app writes and erases) and api_flash_upload *)

ApiEdit(r, a) ==
    /\ pc[r] = "idle" /\ lock = None
    /\ op' = [op EXCEPT ![r] = a]
    /\ was_on' = [was_on EXCEPT ![r] = is_running]
    /\ Goto(r, IF is_running THEN "off" ELSE "editing")
    /\ UNCHANGED <<supVars, procVars, serverVars, upload, my_client, my_proc, seen>>

\* Up to forty looks at is_running; the loop gives up after ten seconds.
EditGone(r) ==
    /\ pc[r] = "gone" /\ lock = None
    /\ Goto(r, "editing")
    /\ UNCHANGED <<supVars, procVars, serverVars, localVars>>

EditDone(r) ==
    /\ pc[r] = "editing"
    /\ Return(r, IF was_on[r] THEN "on" ELSE "idle")
    /\ UNCHANGED <<supVars, procVars, serverVars, seen>>

\* The edit raises: not an app, no room, a foreign slot.  400 to the page.
EditRefused(r) ==
    /\ pc[r] = "editing" /\ op[r] = "edit"
    /\ Return(r, "idle")
    /\ UNCHANGED <<supVars, procVars, serverVars, seen>>

-----------------------------------------------------------------------------
(* The emulator processes *)

ProcExits(p) ==
    /\ pstate[p] = "quitting"
    /\ pstate' = [pstate EXCEPT ![p] = "dead"]
    /\ UNCHANGED <<supVars, booted, serverVars, pc, localVars>>

ProcCrashes(p) ==
    /\ pstate[p] = "up"
    /\ pstate' = [pstate EXCEPT ![p] = "dead"]
    /\ UNCHANGED <<supVars, booted, serverVars, pc, localVars>>

\* Supervisor.adopt: a client and no process, whose life nobody here can see.
adopt == client = Foreign /\ proc = None

Init ==
    /\ lock = None
    /\ adopt \/ (client = None /\ proc = None)   \* with --attach, or without
    /\ pstate = [p \in Procs |-> "none"]
    /\ image \in Images
    /\ booted = image
    /\ boot_key = FALSE
    /\ pump = client
    /\ pc = [r \in Reqs |-> "idle"]
    /\ op = [r \in Reqs |-> "none"]
    /\ was_on = [r \in Reqs |-> FALSE]
    /\ upload = [r \in Reqs |-> NoUpload]
    /\ my_client = [r \in Reqs |-> None]
    /\ my_proc = [r \in Reqs |-> None]
    /\ seen = [r \in Reqs |-> None]
    /\ overlapped = FALSE

Arrive(r) ==
    \/ \E a \in Ops \cap PowerOps : ApiPower(r, a)
    \/ "firmware" \in Ops /\ \E i \in Images : ApiFirmware(r, i)
    \/ \E a \in Ops \cap {"edit", "flash"} : ApiEdit(r, a)

\* What a request does on its own, and where it needs the supervisor's lock.
Proceed(r) ==
    \/ PowerOnConnected(r)
    \/ PowerOnConnectFails(r)
    \/ PowerOffQuit(r)
    \/ PowerOffExited(r)
    \/ PowerOffTerminate(r)
    \/ PowerOffKill(r)
    \/ ApiRebind(r)
    \/ ApiFirmwareSet(r)
    \/ EditDone(r)
    \/ EditRefused(r)

ProceedLocked(r) ==
    \/ PowerOnAlready(r)
    \/ PowerOnLaunch(r)
    \/ PowerOnLaunchFails(r)
    \/ PowerOffTake(r)
    \/ ApiCommand(r)
    \/ ApiReadClient(r)
    \/ EditGone(r)

\* The history variable is set when a request arrives before another's end.
Overlaps(r) == overlapped' = (overlapped \/ \E q \in Reqs \ {r} : pc[q] # "idle")

Next ==
    \/ \E r \in Reqs : Arrive(r) /\ Overlaps(r)
    \/ \E r \in Reqs : (Proceed(r) \/ ProceedLocked(r)) /\ UNCHANGED overlapped
    \/ \E p \in Procs : (ProcExits(p) \/ ProcCrashes(p)) /\ UNCHANGED overlapped

\* Threads run, and the timeouts of connect and wait expire.
Fairness ==
    \A r \in Reqs : WF_vars(Proceed(r) /\ UNCHANGED overlapped)
                      /\ WF_vars(ProceedLocked(r) /\ UNCHANGED overlapped)

Spec == Init /\ [][Next]_vars /\ Fairness

-----------------------------------------------------------------------------
\* The server's state keeps its types, and the supervisor's lock outlives a
\* step only in a thread that is connecting to a new process.
TypeOK ==
    /\ lock \in {r \in Reqs : pc[r] = "connect"} \cup {None}
    /\ client \in Clients
    /\ proc \in Procs \cup {None}
    /\ pstate \in [Procs -> {"none", "up", "quitting", "dead"}]
    /\ booted \in Images
    /\ image \in Images
    /\ boot_key \in BOOLEAN
    /\ pump \in Clients
    /\ pc \in [Reqs -> Steps]
    /\ op \in [Reqs -> PowerOps \cup RestartOps \cup {"none"}]
    /\ was_on \in [Reqs -> BOOLEAN]
    /\ upload \in [Reqs -> Images]
    /\ my_client \in [Reqs -> Clients]
    /\ my_proc \in [Reqs -> Procs \cup {None}]
    /\ seen \in [Reqs -> Clients]
    /\ overlapped \in BOOLEAN

AllIdle == \A r \in Reqs : pc[r] = "idle"
Alive(p) == pstate[p] \in {"up", "quitting"}
ShuttingDown(p) == \E r \in Reqs : my_proc[r] = p /\ pc[r] \in {"quit", "wait", "term"}

(***************************************************************************)
(* power_on and power_off never lose a process: one they started and that  *)
(* is alive is the supervisor's, or a power_off still waits for its end.   *)
(* Nothing is left holding the QMP socket with no client tracking it.      *)
(***************************************************************************)
NoOrphan == \A p \in Procs : Alive(p) => proc = p \/ ShuttingDown(p)

(***************************************************************************)
(* The client and the process the supervisor holds are the same emulator,  *)
(* outside power_on's critical section: no request can command one process *)
(* and wait for another.  A client without a process is the adopted one's. *)
(***************************************************************************)
ClientMatchesProcess ==
    lock = None => client = proc \/ (client = Foreign /\ proc = None)

(***************************************************************************)
(* A request that holds the lock or is inside power_off gets out of it:    *)
(* neither a wedged emulator nor a crash leaves it waiting for ever.  And  *)
(* a power-on that meets the client of an emulator that died behind the    *)
(* supervisor's back gets rid of it: the On button does not stay dead.     *)
(***************************************************************************)
CriticalStepsEnd ==
    LET deadClient == client # None /\ ~is_running
    IN /\ \A r \in Reqs :
              pc[r] \in {"connect", "quit", "wait", "term"}
                  ~> pc[r] \notin {"connect", "quit", "wait", "term"}
       /\ deadClient /\ (\E r \in Reqs : pc[r] = "on") ~> ~deadClient

(***************************************************************************)
(* A new emulator is never started against an image that another process,  *)
(* still exiting and writing back, has open.                               *)
(***************************************************************************)
OneProcess == \A p, q \in Procs : Alive(p) /\ Alive(q) => p = q

\* While _edit_flash or api_flash_upload rewrites the image no emulator has it
\* open: the edit builds on what the firmware saved, and the next one loads it.
EditAlone ==
    \A r \in Reqs, p \in Procs : pc[r] = "editing" => ~Alive(p)

\* When no request is in flight, a running emulator runs the image that was
\* uploaded last: an upload took effect, now or at the next power-on.
ImageInEffect == AllIdle /\ is_running /\ owns_process => booted = image

(***************************************************************************)
(* As long as requests come one after the other, whatever they are and     *)
(* whenever an emulator crashes, no two emulators share the image, it is   *)
(* edited only while none has it open, and an uploaded firmware is the one *)
(* that runs.  This is about emulators the server started: it never waits  *)
(* for the end of one it adopted.                                          *)
(***************************************************************************)
SafeInTurn == ~overlapped => OneProcess /\ EditAlone /\ ImageInEffect

=============================================================================
