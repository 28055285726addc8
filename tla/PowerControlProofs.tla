-------------------------- MODULE PowerControlProofs --------------------------
(***************************************************************************)
(* Theorems about PowerControl for any number of request threads, any kinds *)
(* of request, any images and any number of process identities.            *)
(***************************************************************************)
EXTENDS PowerControl, TLAPS

\* Only one thread is ever inside power_on's critical section, and it has
\* launched a process and not yet installed a client.
LockOwner ==
    /\ \A r \in Reqs : pc[r] = "connect" => lock = r
    /\ lock # None => client = None /\ proc # None

\* A process that is held is one that was launched.
HeldWasLaunched ==
    /\ proc # None => pstate[proc] # "none"
    /\ \A r \in Reqs : my_proc[r] # None => pstate[my_proc[r]] # "none"

\* power_off's local process: set as long as the thread has to wait for it.
ShutdownLocals ==
    \A r \in Reqs :
        /\ my_proc[r] # None => pc[r] \in {"quit", "wait", "term"}
        /\ pc[r] \in {"wait", "term"} => my_proc[r] # None

PowerInv ==
    /\ TypeOK
    /\ LockOwner
    /\ HeldWasLaunched
    /\ ShutdownLocals
    /\ NoOrphan
    /\ ClientMatchesProcess

\* With requests one after the other: one thread at most is active; the
\* supervisor holds nothing while that thread shuts an emulator down; nothing
\* is alive once it has; and what is alive was launched from this image.
OneActive == \A q, r \in Reqs : pc[q] # "idle" /\ pc[r] # "idle" => q = r
OffHoldsNothing == \A r \in Reqs : pc[r] \in {"quit", "wait", "term"} => proc = None
NothingAlive ==
    \A r \in Reqs, p \in Procs : pc[r] \in {"gone", "editing", "set"} => ~Alive(p)
RunsThisImage == proc # None /\ Alive(proc) => booted = image

InTurn ==
    ~overlapped => OneActive /\ OffHoldsNothing /\ NothingAlive /\ RunsThisImage /\ OneProcess

-----------------------------------------------------------------------------
\* NoUpload is an image, there being one.
LEMMA NoUploadIsImage == NoUpload \in Images
  BY ImagesAssumption DEF NoUpload

\* Where power_on and power_off return to is a step outside both.
LEMMA Continuations ==
    ASSUME NEW r \in Reqs
    PROVE  /\ AfterOn(r) \in {"read", "idle"}
           /\ AfterOff(r) \in {"read", "set", "gone", "editing"}
  BY DEF AfterOn, AfterOff

\* A request that returns keeps the types of the locals.
LEMMA ReturnKeepsTypes ==
    ASSUME TypeOK, NEW r \in Reqs, NEW step \in Steps, Return(r, step)
    PROVE  /\ pc' = [pc EXCEPT ![r] = step]
           /\ op' \in [Reqs -> PowerOps \cup RestartOps \cup {"none"}]
           /\ was_on' \in [Reqs -> BOOLEAN]
           /\ upload' \in [Reqs -> Images]
           /\ UNCHANGED <<my_client, my_proc>>
<1>1. [op EXCEPT ![r] = "none"] \in [Reqs -> PowerOps \cup RestartOps \cup {"none"}]
  BY DEF TypeOK
<1>2. [was_on EXCEPT ![r] = FALSE] \in [Reqs -> BOOLEAN]
  BY DEF TypeOK
<1>3. [upload EXCEPT ![r] = NoUpload] \in [Reqs -> Images]
  BY NoUploadIsImage DEF TypeOK
<1> QED
  BY <1>1, <1>2, <1>3 DEF Return, Goto, TypeOK

\* A thread that moves outside power_on's critical section and power_off, and
\* touches nothing of the supervisor or the processes, keeps the invariant.
LEMMA ThreadMoves ==
    ASSUME PowerInv, NEW r \in Reqs, NEW s \in Steps,
           pc[r] \notin {"connect", "quit", "wait", "term"},
           s \notin {"connect", "wait", "term"},
           pc' = [pc EXCEPT ![r] = s],
           UNCHANGED <<supVars, pstate, my_proc>>,
           booted' \in Images, image' \in Images, boot_key' \in BOOLEAN,
           pump' \in Clients, overlapped' \in BOOLEAN,
           op' \in [Reqs -> PowerOps \cup RestartOps \cup {"none"}],
           was_on' \in [Reqs -> BOOLEAN], upload' \in [Reqs -> Images],
           my_client' \in [Reqs -> Clients], seen' \in [Reqs -> Clients]
    PROVE  PowerInv'
<1> USE DEF PowerInv
<1>1. TypeOK'
  <2>1. pc' \in [Reqs -> Steps]
    BY DEF TypeOK
  <2>2. lock' \in {q \in Reqs : pc'[q] = "connect"} \cup {None}
    BY DEF TypeOK, supVars
  <2> QED
    BY <2>1, <2>2 DEF TypeOK, supVars
<1>2. LockOwner'
  BY DEF LockOwner, TypeOK, supVars
<1>3. HeldWasLaunched'
  BY DEF HeldWasLaunched, supVars
<1>4. ShutdownLocals'
  BY DEF ShutdownLocals, TypeOK
<1>5. NoOrphan'
  <2> SUFFICES ASSUME NEW p \in Procs, Alive(p)' PROVE (proc = p \/ ShuttingDown(p))'
    BY DEF NoOrphan
  <2> QED
    BY DEF NoOrphan, Alive, ShuttingDown, supVars, TypeOK
<1>6. ClientMatchesProcess'
  BY DEF ClientMatchesProcess, supVars
<1> QED
  BY <1>1, <1>2, <1>3, <1>4, <1>5, <1>6

\* The server starts without an emulator or attached to one.
LEMMA InitPowerInv == Init => PowerInv
<1> SUFFICES ASSUME Init PROVE PowerInv
  OBVIOUS
<1>1. TypeOK
  BY NoUploadIsImage, ProcsAssumption DEF Init, TypeOK, adopt, Clients, Steps
<1> QED
  BY <1>1, ReqsAssumption DEF Init, PowerInv, LockOwner, HeldWasLaunched, ShutdownLocals, NoOrphan,
              Alive, ClientMatchesProcess, adopt

-----------------------------------------------------------------------------
\* The steps of a thread: one that is inside neither power_on nor power_off.
LEMMA HandlerKeepsInv ==
    ASSUME PowerInv, NEW r \in Reqs, overlapped' \in BOOLEAN,
           \/ Arrive(r) \/ PowerOnAlready(r) \/ ApiCommand(r) \/ ApiReadClient(r)
           \/ ApiRebind(r) \/ ApiFirmwareSet(r) \/ EditGone(r) \/ EditDone(r) \/ EditRefused(r)
    PROVE  PowerInv'
<1> USE DEF supVars, procVars, serverVars, localVars, Goto
<1>0. TypeOK
  BY DEF PowerInv
<1>1. ASSUME NEW a \in Ops \cap PowerOps, ApiPower(r, a) PROVE PowerInv'
  <2> DEFINE s == CASE a \in {"on", "multiboot"} -> "on"
                    [] a = "off" -> "off"
                    [] OTHER -> "command"
  <2>1. s \in {"on", "off", "command"} /\ pc' = [pc EXCEPT ![r] = s] /\ pc[r] = "idle"
    BY <1>1 DEF ApiPower
  <2>2. op' \in [Reqs -> PowerOps \cup RestartOps \cup {"none"}] /\ boot_key' \in BOOLEAN
    BY <1>0, <1>1 DEF ApiPower, TypeOK
  <2> HIDE DEF s
  <2>3. s \in Steps
    BY <2>1 DEF Steps
  <2>4. /\ UNCHANGED <<supVars, pstate, my_proc>>
        /\ booted' \in Images /\ image' \in Images /\ pump' \in Clients
        /\ was_on' \in [Reqs -> BOOLEAN] /\ upload' \in [Reqs -> Images]
        /\ my_client' \in [Reqs -> Clients] /\ seen' \in [Reqs -> Clients]
    BY <1>0, <1>1 DEF ApiPower, TypeOK
  <2> QED
    BY <2>1, <2>2, <2>3, <2>4, ThreadMoves
<1>2. ASSUME NEW i \in Images, ApiFirmware(r, i) PROVE PowerInv'
  <2> DEFINE s == IF is_running THEN "off" ELSE "set"
  <2>1. s \in {"off", "set"} /\ pc' = [pc EXCEPT ![r] = s] /\ pc[r] = "idle"
    BY <1>2 DEF ApiFirmware
  <2>2. op' \in [Reqs -> PowerOps \cup RestartOps \cup {"none"}] /\ upload' \in [Reqs -> Images]
    BY <1>0, <1>2 DEF ApiFirmware, TypeOK, RestartOps
  <2>3. was_on' \in [Reqs -> BOOLEAN]
    BY <1>0, <1>2 DEF ApiFirmware, TypeOK, is_running
  <2> HIDE DEF s
  <2>4. s \in Steps
    BY <2>1 DEF Steps
  <2>5. /\ UNCHANGED <<supVars, pstate, my_proc>>
        /\ booted' \in Images /\ image' \in Images /\ boot_key' \in BOOLEAN /\ pump' \in Clients
        /\ my_client' \in [Reqs -> Clients] /\ seen' \in [Reqs -> Clients]
    BY <1>0, <1>2 DEF ApiFirmware, TypeOK
  <2> QED
    BY <2>1, <2>2, <2>3, <2>4, <2>5, ThreadMoves
<1>3. ASSUME NEW a \in Ops \cap {"edit", "flash"}, ApiEdit(r, a) PROVE PowerInv'
  <2> DEFINE s == IF is_running THEN "off" ELSE "editing"
  <2>1. s \in {"off", "editing"} /\ pc' = [pc EXCEPT ![r] = s] /\ pc[r] = "idle"
    BY <1>3 DEF ApiEdit
  <2>2. op' \in [Reqs -> PowerOps \cup RestartOps \cup {"none"}]
    BY <1>0, <1>3 DEF ApiEdit, TypeOK, RestartOps
  <2>3. was_on' \in [Reqs -> BOOLEAN]
    BY <1>0, <1>3 DEF ApiEdit, TypeOK, is_running
  <2> HIDE DEF s
  <2>4. s \in Steps
    BY <2>1 DEF Steps
  <2>5. /\ UNCHANGED <<supVars, pstate, my_proc>> /\ upload' \in [Reqs -> Images]
        /\ booted' \in Images /\ image' \in Images /\ boot_key' \in BOOLEAN /\ pump' \in Clients
        /\ my_client' \in [Reqs -> Clients] /\ seen' \in [Reqs -> Clients]
    BY <1>0, <1>3 DEF ApiEdit, TypeOK
  <2> QED
    BY <2>1, <2>2, <2>3, <2>4, <2>5, ThreadMoves
<1>4. CASE ApiCommand(r) \/ EditGone(r)
  <2>1. PICK s \in {"on", "read", "editing"} : pc' = [pc EXCEPT ![r] = s]
    BY <1>4 DEF ApiCommand, EditGone
  <2>2. s \in Steps /\ pc[r] \in {"command", "gone"}
    BY <2>1, <1>4 DEF Steps, ApiCommand, EditGone
  <2>3. UNCHANGED <<supVars, procVars, serverVars, localVars>>
    BY <1>4 DEF ApiCommand, EditGone
  <2> QED
    BY <2>1, <2>2, <2>3, <1>0, ThreadMoves DEF TypeOK
<1>5. CASE ApiReadClient(r)
  <2>1. seen' \in [Reqs -> Clients]
    BY <1>0, <1>5 DEF ApiReadClient, TypeOK
  <2>2. "rebind" \in Steps /\ pc[r] = "read" /\ pc' = [pc EXCEPT ![r] = "rebind"]
    BY <1>5 DEF ApiReadClient, Steps
  <2>3. UNCHANGED <<supVars, procVars, serverVars, op, was_on, upload, my_client, my_proc>>
    BY <1>5 DEF ApiReadClient
  <2> QED
    BY <2>1, <2>2, <2>3, <1>0, ThreadMoves DEF TypeOK
<1>6. CASE PowerOnAlready(r) \/ ApiRebind(r) \/ ApiFirmwareSet(r) \/ EditDone(r) \/ EditRefused(r)
  <2>1. PICK s \in {"on", "read", "idle"} : Return(r, s)
    BY <1>6, Continuations DEF PowerOnAlready, ApiRebind, ApiFirmwareSet, EditDone, EditRefused
  <2>2. s \in Steps /\ pc[r] \in {"on", "rebind", "set", "editing"}
    BY <2>1, <1>6 DEF Steps, PowerOnAlready, ApiRebind, ApiFirmwareSet, EditDone, EditRefused
  <2>3. UNCHANGED <<supVars, procVars>>
    BY <1>6 DEF PowerOnAlready, ApiRebind, ApiFirmwareSet, EditDone, EditRefused
  <2>4. seen' \in [Reqs -> Clients] /\ pump' \in Clients
    BY <1>0, <1>6 DEF PowerOnAlready, ApiRebind, ApiFirmwareSet, EditDone, EditRefused, TypeOK, Clients
  <2>5. image' \in Images /\ boot_key' \in BOOLEAN
    BY <1>0, <1>6 DEF PowerOnAlready, ApiRebind, ApiFirmwareSet, EditDone, EditRefused, TypeOK
  <2>6. /\ op' \in [Reqs -> PowerOps \cup RestartOps \cup {"none"}]
        /\ was_on' \in [Reqs -> BOOLEAN] /\ upload' \in [Reqs -> Images]
        /\ UNCHANGED <<my_client, my_proc>> /\ pc' = [pc EXCEPT ![r] = s]
    BY <1>0, <2>1, <2>2, ReturnKeepsTypes
  <2> QED
    BY <2>2, <2>3, <2>4, <2>5, <2>6, <1>0, ThreadMoves DEF TypeOK
<1> QED
  BY <1>1, <1>2, <1>3, <1>4, <1>5, <1>6 DEF Arrive

\* power_on's own steps.
LEMMA PowerOnKeepsInv ==
    ASSUME PowerInv, NEW r \in Reqs, overlapped' \in BOOLEAN,
           \/ PowerOnLaunch(r) \/ PowerOnLaunchFails(r)
           \/ PowerOnConnected(r) \/ PowerOnConnectFails(r)
    PROVE  PowerInv'
<1> USE DEF supVars, procVars, serverVars, localVars, Goto
<1>0. TypeOK /\ LockOwner /\ HeldWasLaunched /\ ShutdownLocals /\ NoOrphan /\ ClientMatchesProcess
  BY DEF PowerInv
<1>1. CASE PowerOnLaunch(r)
  <2>1. PICK p \in Procs : Unreferenced(p) /\ proc' = p /\ pstate' = [pstate EXCEPT ![p] = "up"]
    BY <1>1 DEF PowerOnLaunch
  <2>2. /\ lock = None /\ lock' = r /\ client' = None /\ booted' = image
        /\ pc[r] = "on" /\ pc' = [pc EXCEPT ![r] = "connect"]
        /\ client = None \/ Stale
        /\ UNCHANGED <<serverVars, localVars>>
    BY <1>1 DEF PowerOnLaunch
  <2>3. TypeOK'
    <3>1. pc' \in [Reqs -> Steps] /\ pstate' \in [Procs -> {"none", "up", "quitting", "dead"}]
      BY <1>0, <2>1, <2>2 DEF TypeOK, Steps
    <3>2. lock' \in {q \in Reqs : pc'[q] = "connect"} \cup {None}
      BY <1>0, <2>2 DEF TypeOK
    <3> QED
      BY <1>0, <2>1, <2>2, <3>1, <3>2 DEF TypeOK, Clients
  <2>4. LockOwner'
    BY <1>0, <2>1, <2>2, ReqsAssumption, ProcsAssumption DEF LockOwner, TypeOK, None, Procs
  <2>5. HeldWasLaunched'
    BY <1>0, <2>1, <2>2 DEF HeldWasLaunched, Unreferenced, TypeOK
  <2>6. ShutdownLocals'
    BY <1>0, <2>2 DEF ShutdownLocals, TypeOK
  <2>7. NoOrphan'
    <3> SUFFICES ASSUME NEW q \in Procs, Alive(q)', q # p PROVE ShuttingDown(q)'
      BY <2>1 DEF NoOrphan
    <3>1. Alive(q)
      BY <2>1, <1>0 DEF Alive, TypeOK
    <3>2. proc # q
      BY <1>0, <2>2, <3>1 DEF ClientMatchesProcess, Stale, Alive, Dead, Foreign, None, Procs
    <3>3. PICK t \in Reqs : my_proc[t] = q /\ pc[t] \in {"quit", "wait", "term"}
      BY <1>0, <3>1, <3>2 DEF NoOrphan, ShuttingDown
    <3> QED
      BY <3>3, <2>2, <1>0 DEF ShuttingDown, TypeOK
  <2>8. ClientMatchesProcess'
    BY <2>2, ReqsAssumption DEF ClientMatchesProcess
  <2> QED
    BY <2>3, <2>4, <2>5, <2>6, <2>7, <2>8 DEF PowerInv
<1>2. CASE PowerOnLaunchFails(r) \/ PowerOnConnected(r) \/ PowerOnConnectFails(r)
  <2>1. PICK s \in {"read", "idle"} : Return(r, s)
    BY <1>2, Continuations DEF PowerOnLaunchFails, PowerOnConnected, PowerOnConnectFails
  <2>2. /\ op' \in [Reqs -> PowerOps \cup RestartOps \cup {"none"}]
        /\ was_on' \in [Reqs -> BOOLEAN] /\ upload' \in [Reqs -> Images]
        /\ UNCHANGED <<my_client, my_proc>> /\ pc' = [pc EXCEPT ![r] = s]
    BY <1>0, <2>1, ReturnKeepsTypes DEF Steps
  <2>3. /\ UNCHANGED <<booted, serverVars, seen>> /\ lock' = None
        /\ pc[r] \in {"on", "connect"} /\ lock \in {None, r}
    BY <1>0, <1>2 DEF PowerOnLaunchFails, PowerOnConnected, PowerOnConnectFails, LockOwner
  <2>4. /\ client' \in Clients /\ proc' \in Procs \cup {None}
        /\ pstate' \in [Procs -> {"none", "up", "quitting", "dead"}]
        /\ client' = proc' /\ proc' \in {proc, None}
        /\ proc' = None /\ proc # None => pstate'[proc] = "dead"
        /\ \A p \in Procs : p # proc => pstate'[p] = pstate[p]
        /\ proc' # None => pstate' = pstate
    <3>1. CASE PowerOnLaunchFails(r)
      BY <1>0, <3>1 DEF PowerOnLaunchFails, TypeOK, Clients, Stale, Dead, ClientMatchesProcess,
                        Foreign, None
    <3>2. CASE PowerOnConnected(r)
      BY <1>0, <3>2, ReqsAssumption DEF PowerOnConnected, TypeOK, Clients, LockOwner
    <3>3. CASE PowerOnConnectFails(r)
      BY <1>0, <3>3, ReqsAssumption DEF PowerOnConnectFails, TypeOK, Clients, LockOwner
    <3> QED
      BY <1>2, <3>1, <3>2, <3>3
  <2>5. TypeOK'
    <3>1. pc' \in [Reqs -> Steps]
      BY <1>0, <2>2 DEF TypeOK, Steps
    <3> QED
      BY <1>0, <2>2, <2>3, <2>4, <3>1 DEF TypeOK
  <2>6. LockOwner'
    BY <1>0, <2>2, <2>3, ReqsAssumption DEF LockOwner, TypeOK
  <2>7. HeldWasLaunched'
    <3>1. ASSUME NEW q \in Reqs, my_proc[q] # None PROVE pstate'[my_proc[q]] # "none"
      BY <1>0, <2>4, <3>1 DEF HeldWasLaunched, TypeOK
    <3> QED
      BY <1>0, <2>2, <2>4, <3>1 DEF HeldWasLaunched
  <2>8. ShutdownLocals'
    BY <1>0, <2>2, <2>3 DEF ShutdownLocals, TypeOK
  <2>9. NoOrphan'
    <3> SUFFICES ASSUME NEW q \in Procs, Alive(q)', proc' # q PROVE ShuttingDown(q)'
      BY DEF NoOrphan
    <3>1. proc # q
      BY <2>4 DEF Alive, None, Procs
    <3>2. PICK t \in Reqs : my_proc[t] = q /\ pc[t] \in {"quit", "wait", "term"}
      BY <1>0, <2>4, <3>1 DEF NoOrphan, ShuttingDown, Alive
    <3> QED
      BY <3>2, <2>2, <2>3, <1>0 DEF ShuttingDown, TypeOK
  <2>10. ClientMatchesProcess'
    BY <2>4 DEF ClientMatchesProcess
  <2> QED
    BY <2>5, <2>6, <2>7, <2>8, <2>9, <2>10 DEF PowerInv
<1> QED
  BY <1>1, <1>2

\* power_off's steps, and the exit or crash of a process.
LEMMA PowerOffKeepsInv ==
    ASSUME PowerInv, NEW r \in Reqs, overlapped' \in BOOLEAN,
           \/ PowerOffTake(r) \/ PowerOffQuit(r) \/ PowerOffExited(r)
           \/ PowerOffTerminate(r) \/ PowerOffKill(r)
    PROVE  PowerInv'
<1> USE DEF supVars, procVars, serverVars, localVars, Goto
<1>0. TypeOK /\ LockOwner /\ HeldWasLaunched /\ ShutdownLocals /\ NoOrphan /\ ClientMatchesProcess
  BY DEF PowerInv
<1>1. CASE PowerOffTake(r)
  <2>1. PICK s \in {"quit", "read", "set", "gone", "editing"} :
            pc' = [pc EXCEPT ![r] = s] /\ (client # None => s = "quit")
    BY <1>1, Continuations DEF PowerOffTake
  <2>2. /\ pc[r] = "off" /\ lock = None /\ client' = None /\ proc' = None
        /\ my_client' = [my_client EXCEPT ![r] = client]
        /\ my_proc' = [my_proc EXCEPT ![r] = IF client = None THEN None ELSE proc]
        /\ UNCHANGED <<lock, procVars, serverVars, op, was_on, upload, seen>>
    BY <1>1 DEF PowerOffTake
  <2>3. TypeOK'
    BY <1>0, <2>1, <2>2 DEF TypeOK, Clients, Steps
  <2>4. LockOwner'
    BY <1>0, <2>1, <2>2 DEF LockOwner, TypeOK
  <2>5. HeldWasLaunched'
    BY <1>0, <2>2 DEF HeldWasLaunched, TypeOK
  <2>6. ShutdownLocals'
    BY <1>0, <2>1, <2>2 DEF ShutdownLocals, TypeOK
  <2>7. NoOrphan'
    <3> SUFFICES ASSUME NEW p \in Procs, Alive(p)' PROVE ShuttingDown(p)'
      BY DEF NoOrphan
    <3>1. Alive(p)
      BY <2>2 DEF Alive
    <3>2. CASE proc = p
      BY <1>0, <2>1, <2>2, <3>2 DEF ShuttingDown, ClientMatchesProcess, TypeOK, None, Procs, Foreign
    <3>3. CASE ShuttingDown(p)
      BY <1>0, <2>1, <2>2, <3>3 DEF ShuttingDown, TypeOK
    <3> QED
      BY <1>0, <3>1, <3>2, <3>3 DEF NoOrphan
  <2>8. ClientMatchesProcess'
    BY <2>2 DEF ClientMatchesProcess
  <2> QED
    BY <2>3, <2>4, <2>5, <2>6, <2>7, <2>8 DEF PowerInv
<1>2. CASE PowerOffQuit(r) \/ PowerOffExited(r) \/ PowerOffTerminate(r) \/ PowerOffKill(r)
  <2>1. PICK s \in {"wait", "term", "read", "set", "gone", "editing"} :
            pc' = [pc EXCEPT ![r] = s] /\ (s \in {"wait", "term"} <=> my_proc'[r] # None)
    BY <1>0, <1>2, Continuations
    DEF PowerOffQuit, PowerOffExited, PowerOffTerminate, PowerOffKill, TypeOK, ShutdownLocals
  <2>2. /\ pc[r] \in {"quit", "wait", "term"}
        /\ my_client' \in [Reqs -> Clients]
        /\ UNCHANGED <<supVars, booted, serverVars, op, was_on, upload, seen>>
    BY <1>0, <1>2
    DEF PowerOffQuit, PowerOffExited, PowerOffTerminate, PowerOffKill, TypeOK, Clients
  <2>3. /\ \/ my_proc' = my_proc
           \/ my_proc' = [my_proc EXCEPT ![r] = None] /\ pstate'[my_proc[r]] = "dead"
        /\ pstate' \in [Procs -> {"none", "up", "quitting", "dead"}]
        /\ \A p \in Procs : (pstate'[p] = "none" => pstate[p] = "none")
                            /\ (Alive(p)' => Alive(p))
    BY <1>0, <1>2 DEF PowerOffQuit, PowerOffExited, PowerOffTerminate, PowerOffKill, TypeOK, Dead,
                      Alive, ShutdownLocals, HeldWasLaunched
  <2>4. TypeOK'
    <3>1. pc' \in [Reqs -> Steps] /\ my_proc' \in [Reqs -> Procs \cup {None}]
      BY <1>0, <2>1, <2>3 DEF TypeOK, Steps
    <3>2. lock' \in {q \in Reqs : pc'[q] = "connect"} \cup {None}
      BY <1>0, <2>1, <2>2 DEF TypeOK
    <3> QED
      BY <1>0, <2>2, <2>3, <3>1, <3>2 DEF TypeOK
  <2>5. LockOwner'
    BY <1>0, <2>1, <2>2 DEF LockOwner, TypeOK
  <2>6. HeldWasLaunched'
    <3>1. ASSUME NEW q \in Reqs, my_proc'[q] # None PROVE my_proc'[q] = my_proc[q]
      BY <1>0, <2>3, <3>1 DEF TypeOK
    <3>2. ASSUME NEW q \in Reqs, my_proc'[q] # None PROVE pstate'[my_proc'[q]] # "none"
      BY <1>0, <2>3, <3>1, <3>2 DEF TypeOK, HeldWasLaunched
    <3> QED
      BY <1>0, <2>2, <2>3, <3>2 DEF HeldWasLaunched, TypeOK
  <2>7. ShutdownLocals'
    BY <1>0, <2>1, <2>2, <2>3 DEF ShutdownLocals, TypeOK
  <2>8. NoOrphan'
    <3> SUFFICES ASSUME NEW p \in Procs, Alive(p)', proc # p PROVE ShuttingDown(p)'
      BY <2>2 DEF NoOrphan
    <3>1. PICK t \in Reqs : my_proc[t] = p /\ pc[t] \in {"quit", "wait", "term"}
      BY <1>0, <2>3 DEF NoOrphan, ShuttingDown
    <3>2. my_proc'[t] = p
      BY <1>0, <2>3, <3>1 DEF TypeOK, Alive
    <3> QED
      BY <3>1, <3>2, <2>1, <1>0 DEF ShuttingDown, TypeOK, None, Procs
  <2>9. ClientMatchesProcess'
    BY <1>0, <2>2 DEF ClientMatchesProcess
  <2> QED
    BY <2>4, <2>5, <2>6, <2>7, <2>8, <2>9 DEF PowerInv
<1> QED
  BY <1>1, <1>2

\* An emulator that exits or dies by itself keeps the invariant.
LEMMA ProcessKeepsInv ==
    ASSUME PowerInv, NEW p \in Procs, overlapped' \in BOOLEAN, ProcExits(p) \/ ProcCrashes(p)
    PROVE  PowerInv'
<1> USE DEF supVars, procVars, serverVars, localVars, PowerInv
<1>1. UNCHANGED <<supVars, booted, serverVars, pc, localVars>> /\ pstate' = [pstate EXCEPT ![p] = "dead"]
  BY DEF ProcExits, ProcCrashes
<1>2. TypeOK'
  BY <1>1 DEF TypeOK
<1>3. LockOwner' /\ ShutdownLocals' /\ ClientMatchesProcess'
  BY <1>1 DEF LockOwner, ShutdownLocals, ClientMatchesProcess
<1>4. HeldWasLaunched'
  BY <1>1 DEF HeldWasLaunched, TypeOK
<1>5. NoOrphan'
  BY <1>1 DEF NoOrphan, Alive, ShuttingDown, TypeOK
<1> QED
  BY <1>2, <1>3, <1>4, <1>5

\* Every step of the handlers, the supervisor and the processes keeps PowerInv.
LEMMA NextPowerInv == PowerInv /\ [Next]_vars => PowerInv'
<1> SUFFICES ASSUME PowerInv, [Next]_vars PROVE PowerInv'
  OBVIOUS
<1>0. overlapped \in BOOLEAN
  BY DEF PowerInv, TypeOK
<1>1. ASSUME NEW r \in Reqs, Arrive(r), Overlaps(r) PROVE PowerInv'
  <2>1. overlapped' \in BOOLEAN
    BY <1>0, <1>1 DEF Overlaps
  <2> QED
    BY <1>1, <2>1, HandlerKeepsInv
<1>2. ASSUME NEW r \in Reqs, Proceed(r) \/ ProceedLocked(r), UNCHANGED overlapped PROVE PowerInv'
  BY <1>0, <1>2, HandlerKeepsInv, PowerOnKeepsInv, PowerOffKeepsInv DEF Proceed, ProceedLocked
<1>3. ASSUME NEW p \in Procs, ProcExits(p) \/ ProcCrashes(p), UNCHANGED overlapped PROVE PowerInv'
  BY <1>0, <1>3, ProcessKeepsInv
<1>4. CASE UNCHANGED vars
  BY <1>4 DEF vars, supVars, procVars, serverVars, localVars, PowerInv, TypeOK, LockOwner,
              HeldWasLaunched, ShutdownLocals, NoOrphan, Alive, ShuttingDown, ClientMatchesProcess
<1> QED
  BY <1>1, <1>2, <1>3, <1>4 DEF Next

-----------------------------------------------------------------------------
\* While one thread is active and is not shutting an emulator down, only the
\* supervisor's process can be alive.
LEMMA AliveIsHeld ==
    ASSUME PowerInv, NEW r \in Reqs, \A q \in Reqs \ {r} : pc[q] = "idle",
           pc[r] \notin {"quit", "wait", "term"}, NEW p \in Procs, Alive(p)
    PROVE  proc = p
  BY DEF PowerInv, NoOrphan, ShuttingDown

\* A request that arrives with no other under way keeps the turns.
LEMMA ArriveInTurn ==
    ASSUME PowerInv, InTurn, NEW r \in Reqs, Arrive(r), Overlaps(r)
    PROVE  InTurn'
<1> USE DEF supVars, procVars, serverVars, Goto
<1> SUFFICES ASSUME ~overlapped' PROVE (OneActive /\ OffHoldsNothing /\ NothingAlive
                                          /\ RunsThisImage /\ OneProcess)'
  BY DEF InTurn
<1>1. /\ ~overlapped /\ \A q \in Reqs \ {r} : pc[q] = "idle"
      /\ OneActive /\ OffHoldsNothing /\ NothingAlive /\ RunsThisImage /\ OneProcess
  BY DEF Overlaps, InTurn
<1>2. TypeOK /\ ClientMatchesProcess
  BY DEF PowerInv
<1>3. UNCHANGED <<proc, pstate, booted, image>>
  BY DEF Arrive, ApiPower, ApiFirmware, ApiEdit
<1>4. PICK s \in {"on", "off", "command", "set", "editing"} :
          /\ pc[r] = "idle" /\ pc' = [pc EXCEPT ![r] = s]
          /\ s \in {"set", "editing"} => ~is_running /\ lock = None
  BY DEF Arrive, ApiPower, ApiFirmware, ApiEdit
<1>5. OneActive' /\ OffHoldsNothing'
  BY <1>1, <1>2, <1>4 DEF OneActive, OffHoldsNothing, TypeOK
<1>6. NothingAlive'
  <2> SUFFICES ASSUME NEW p \in Procs, s \in {"set", "editing"}, Alive(p) PROVE FALSE
    BY <1>1, <1>2, <1>3, <1>4 DEF NothingAlive, Alive, TypeOK
  <2>1. proc = p
    BY <1>1, <1>4, AliveIsHeld
  <2>2. client = p /\ p # None
    BY <1>2, <1>4, <2>1 DEF ClientMatchesProcess, None, Procs
  <2> QED
    BY <1>4, <2>1, <2>2 DEF is_running, Alive, Dead
<1>7. RunsThisImage' /\ OneProcess'
  BY <1>1, <1>3 DEF RunsThisImage, OneProcess, Alive
<1> QED
  BY <1>5, <1>6, <1>7

\* A step of the one request under way keeps what its turn has established.
LEMMA ProceedInTurn ==
    ASSUME PowerInv, InTurn, NEW r \in Reqs, Proceed(r) \/ ProceedLocked(r), UNCHANGED overlapped
    PROVE  InTurn'
<1> USE DEF supVars, procVars, serverVars, localVars, Goto
<1> SUFFICES ASSUME ~overlapped PROVE (OneActive /\ OffHoldsNothing /\ NothingAlive
                                         /\ RunsThisImage /\ OneProcess)'
  BY DEF InTurn
<1>0. TypeOK /\ LockOwner /\ ShutdownLocals /\ HeldWasLaunched /\ NoOrphan /\ ClientMatchesProcess
  BY DEF PowerInv
<1>1. OneActive /\ OffHoldsNothing /\ NothingAlive /\ RunsThisImage /\ OneProcess
  BY DEF InTurn
<1>2. pc[r] # "idle" /\ \E s \in Steps : pc' = [pc EXCEPT ![r] = s]
  BY Continuations
  DEF Proceed, ProceedLocked, Steps, Return, PowerOnConnected, PowerOnConnectFails, PowerOffQuit,
      PowerOffExited, PowerOffTerminate, PowerOffKill, ApiRebind, ApiFirmwareSet, EditDone,
      EditRefused, PowerOnAlready, PowerOnLaunch, PowerOnLaunchFails, PowerOffTake, ApiCommand,
      ApiReadClient, EditGone
<1>3. \A q \in Reqs \ {r} : pc[q] = "idle" /\ pc'[q] = "idle"
  BY <1>0, <1>1, <1>2 DEF OneActive, TypeOK
<1>4. OneActive'
  BY <1>3 DEF OneActive
<1>5. CASE \/ PowerOnAlready(r) \/ ApiCommand(r) \/ ApiReadClient(r) \/ ApiRebind(r)
           \/ EditDone(r) \/ EditRefused(r) \/ EditGone(r) \/ ApiFirmwareSet(r)
  <2>1. /\ UNCHANGED <<proc, pstate, booted>>
        /\ image' = image \/ pc[r] = "set"
        /\ \/ pc'[r] \in {"on", "read", "idle", "rebind"}
           \/ pc'[r] = "editing" /\ pc[r] = "gone"
    BY <1>0, <1>5, Continuations
    DEF Return, PowerOnAlready, ApiCommand, ApiReadClient, ApiRebind, EditDone, EditRefused,
        EditGone, ApiFirmwareSet, TypeOK
  <2>2. OffHoldsNothing'
    BY <1>3, <2>1 DEF OffHoldsNothing
  <2>3. NothingAlive'
    BY <1>1, <1>3, <2>1 DEF NothingAlive, Alive
  <2>4. RunsThisImage'
    BY <1>0, <1>1, <2>1 DEF RunsThisImage, NothingAlive, Alive, TypeOK
  <2>5. OneProcess'
    BY <1>1, <2>1 DEF OneProcess, Alive
  <2> QED
    BY <1>4, <2>2, <2>3, <2>4, <2>5
<1>6. CASE PowerOnLaunch(r)
  <2>1. PICK p \in Procs : proc' = p /\ pstate' = [pstate EXCEPT ![p] = "up"]
    BY <1>6 DEF PowerOnLaunch
  <2>2. /\ pc[r] = "on" /\ pc'[r] = "connect" /\ lock = None /\ (client = None \/ Stale)
        /\ booted' = image /\ image' = image
    BY <1>0, <1>6 DEF PowerOnLaunch, TypeOK
  <2>3. \A q \in Procs : ~Alive(q)
    <3> SUFFICES ASSUME NEW q \in Procs, Alive(q) PROVE FALSE
      OBVIOUS
    <3>1. proc = q
      BY <1>3, <2>2, AliveIsHeld
    <3> QED
      BY <1>0, <2>2, <3>1 DEF ClientMatchesProcess, Stale, Alive, Dead, None, Procs, Foreign
  <2>4. OneProcess'
    BY <1>0, <2>1, <2>3 DEF OneProcess, Alive, TypeOK
  <2> QED
    BY <1>3, <1>4, <2>2, <2>4 DEF OffHoldsNothing, NothingAlive, RunsThisImage
<1>7. CASE PowerOnLaunchFails(r) \/ PowerOnConnected(r) \/ PowerOnConnectFails(r)
  <2>1. /\ pc'[r] \in {"read", "idle"} /\ UNCHANGED <<booted, image>>
        /\ proc' \in {proc, None}
        /\ \A p \in Procs : Alive(p)' => Alive(p)
    BY <1>0, <1>7, Continuations
    DEF Return, PowerOnLaunchFails, PowerOnConnected, PowerOnConnectFails, TypeOK, Alive
  <2>2. RunsThisImage'
    BY <1>0, <1>1, <2>1 DEF RunsThisImage, TypeOK, Alive
  <2>3. OneProcess'
    BY <1>1, <2>1 DEF OneProcess
  <2> QED
    BY <1>3, <1>4, <2>1, <2>2, <2>3 DEF OffHoldsNothing, NothingAlive
<1>8. CASE PowerOffTake(r)
  <2>1. /\ pc[r] = "off" /\ lock = None /\ proc' = None /\ UNCHANGED <<pstate, booted, image>>
        /\ pc'[r] \in {"quit", "read"} \/ client = None
    BY <1>0, <1>8 DEF PowerOffTake, TypeOK
  <2>2. ASSUME client = None, NEW p \in Procs PROVE ~Alive(p)
    BY <1>0, <1>3, <2>1, <2>2, AliveIsHeld DEF ClientMatchesProcess, None, Procs, Foreign
  <2>3. NothingAlive'
    BY <1>3, <2>1, <2>2 DEF NothingAlive, Alive
  <2>4. OneProcess'
    BY <1>1, <2>1 DEF OneProcess, Alive
  <2> QED
    BY <1>4, <2>1, <2>3, <2>4 DEF OffHoldsNothing, RunsThisImage
<1>9. CASE PowerOffQuit(r) \/ PowerOffExited(r) \/ PowerOffTerminate(r) \/ PowerOffKill(r)
  <2>1. proc = None /\ proc' = None
    BY <1>1, <1>9 DEF OffHoldsNothing, PowerOffQuit, PowerOffExited, PowerOffTerminate, PowerOffKill
  <2>2. \A p \in Procs : Alive(p)' => Alive(p)
    BY <1>0, <1>9 DEF PowerOffQuit, PowerOffExited, PowerOffTerminate, PowerOffKill, TypeOK, Dead,
                      Alive, ShutdownLocals, HeldWasLaunched
  <2>3. ASSUME pc'[r] \in {"gone", "editing", "set"}, NEW p \in Procs PROVE ~Alive(p)'
    <3> SUFFICES ASSUME Alive(p)' PROVE FALSE
      OBVIOUS
    <3>1. my_proc[r] = p
      BY <1>0, <1>3, <2>1, <2>2 DEF NoOrphan, ShuttingDown, None, Procs
    <3>2. CASE PowerOffQuit(r)
      <4>1. pc'[r] = "wait"
        BY <1>0, <3>1, <3>2 DEF PowerOffQuit, TypeOK, None, Procs
      <4> QED
        BY <2>3, <4>1
    <3>3. CASE PowerOffTerminate(r)
      BY <1>0, <2>3, <3>3 DEF PowerOffTerminate, TypeOK
    <3>4. CASE PowerOffExited(r) \/ PowerOffKill(r)
      BY <1>0, <3>1, <3>4 DEF PowerOffExited, PowerOffKill, TypeOK, Dead, Alive
    <3> QED
      BY <1>9, <3>2, <3>3, <3>4
  <2>4. NothingAlive'
    BY <1>3, <2>3 DEF NothingAlive
  <2>5. OneProcess'
    BY <1>1, <2>2 DEF OneProcess
  <2> QED
    BY <1>4, <2>1, <2>4, <2>5 DEF OffHoldsNothing, RunsThisImage
<1> QED
  BY <1>5, <1>6, <1>7, <1>8, <1>9 DEF Proceed, ProceedLocked

\* Every step keeps InTurn.
LEMMA NextInTurn == PowerInv /\ InTurn /\ [Next]_vars => InTurn'
<1> SUFFICES ASSUME PowerInv, InTurn, [Next]_vars PROVE InTurn'
  OBVIOUS
<1> USE DEF supVars, procVars, serverVars, localVars
<1>1. ASSUME NEW p \in Procs, ProcExits(p) \/ ProcCrashes(p), UNCHANGED overlapped PROVE InTurn'
  <2>1. /\ UNCHANGED <<proc, booted, image, pc>>
        /\ \A q \in Procs : Alive(q)' => Alive(q)
    BY <1>1 DEF ProcExits, ProcCrashes, Alive, PowerInv, TypeOK
  <2>2. proc \in Procs \cup {None}
    BY DEF PowerInv, TypeOK
  <2> QED
    BY <1>1, <2>1, <2>2 DEF InTurn, OneActive, OffHoldsNothing, NothingAlive, RunsThisImage, OneProcess
<1>2. CASE UNCHANGED vars
  BY <1>2 DEF vars, InTurn, OneActive, OffHoldsNothing, NothingAlive, RunsThisImage, OneProcess, Alive
<1> QED
  BY <1>1, <1>2, ArriveInTurn, ProceedInTurn DEF Next

\* No request is under way at the start.
LEMMA InitInTurn == Init => InTurn
  BY DEF Init, adopt, InTurn, OneActive, OffHoldsNothing, NothingAlive, RunsThisImage, OneProcess, Alive

-----------------------------------------------------------------------------
(***************************************************************************)
(* The server's state keeps its types, and the supervisor's lock outlives  *)
(* a step only in a thread that is connecting to the process it launched.  *)
(***************************************************************************)
THEOREM PowerTypeCorrect == Spec => []TypeOK
<1>1. PowerInv => TypeOK
  BY DEF PowerInv
<1> QED
  BY InitPowerInv, NextPowerInv, <1>1, PTL DEF Spec

(***************************************************************************)
(* No process that power_on started is ever lost: alive, it is the         *)
(* supervisor's, or a power_off is still waiting for its end.              *)
(***************************************************************************)
THEOREM PowerNoOrphan == Spec => []NoOrphan
<1>1. PowerInv => NoOrphan
  BY DEF PowerInv
<1> QED
  BY InitPowerInv, NextPowerInv, <1>1, PTL DEF Spec

(***************************************************************************)
(* Outside power_on's critical section the supervisor's client and process *)
(* are the same emulator, or the client is the adopted one's.              *)
(***************************************************************************)
THEOREM PowerClientMatchesProcess == Spec => []ClientMatchesProcess
<1>1. PowerInv => ClientMatchesProcess
  BY DEF PowerInv
<1> QED
  BY InitPowerInv, NextPowerInv, <1>1, PTL DEF Spec

(***************************************************************************)
(* Requests that come one after the other never put two emulators on one   *)
(* image, never edit it under a running one, and an uploaded firmware is   *)
(* the one that runs, whenever emulators crash.                            *)
(***************************************************************************)
THEOREM PowerSafeInTurn == Spec => []SafeInTurn
<1>1. PowerInv /\ InTurn => SafeInTurn
  <2> SUFFICES ASSUME PowerInv, InTurn, ~overlapped PROVE OneProcess /\ EditAlone /\ ImageInEffect
    BY DEF SafeInTurn
  <2>1. OneProcess /\ NothingAlive /\ RunsThisImage
    BY DEF InTurn
  <2>2. EditAlone
    BY <2>1 DEF EditAlone, NothingAlive
  <2>3. ImageInEffect
    <3> SUFFICES ASSUME is_running, owns_process PROVE booted = image
      BY DEF ImageInEffect
    <3>1. Alive(proc)
      BY DEF is_running, owns_process, Dead, Alive, PowerInv, TypeOK, HeldWasLaunched
    <3> QED
      BY <2>1, <3>1 DEF RunsThisImage, owns_process
  <2> QED
    BY <2>1, <2>2, <2>3
<1> QED
  BY InitPowerInv, NextPowerInv, InitInTurn, NextInTurn, <1>1, PTL DEF Spec

=============================================================================
