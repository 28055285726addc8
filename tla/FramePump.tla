------------------------------ MODULE FramePump ------------------------------
(***************************************************************************)
(* The frame pump of tools/uvk5_stream.py and the /stream handler of       *)
(* tools/webui.py.  One background thread reads the panel over QMP, one    *)
(* command at a time, while the guest draws, request threads rebind the    *)
(* pump to another emulator or to none, and a browser streams what the     *)
(* pump published.                                                         *)
(*                                                                         *)
(* The picture is one value for the panel's memory and one bit for its     *)
(* inversion.  The pump's `generation` is compared only for equality with  *)
(* what the streaming client recorded last, so the model keeps that        *)
(* comparison (fresh) in place of the counter.  The identity of a grabber  *)
(* object matters only to the thread that took a snapshot of it, so        *)
(* current says whether the snapshot is still the pump's grabber.          *)
(***************************************************************************)
EXTENDS Integers

CONSTANTS
    Clients,    \* QMP clients, one per emulator process
    Values,     \* contents of the panel's memory
    None,       \* no client, no picture
    MaxFaults   \* QMP commands that may fail while the emulator is alive

ASSUME FaultsAssumption == MaxFaults \in Nat

Pictures == Values \X BOOLEAN

ASSUME NoneAssumption ==
    None \notin Clients /\ None \notin Values /\ None \notin Pictures

\* What the glass shows: the memory, inverted or not.
Render(v, inv) == <<v, inv>>

VARIABLES
    alive,      \* emulators that answer
    ram,        \* each guest's own framebuffer
    gram,       \* each panel's memory
    invert,     \* each panel's inversion flag (0xA6/0xA7)
    grabber,    \* _grabber: the client it reads from, or None
    raw, png,   \* _raw and _png
    ppc,        \* the pump thread's step
    held,       \* its snapshot of the grabber: the client it reads from
    current,    \* the snapshot is still the pump's grabber
    first,      \* memory read by panel_pixels
    inv,        \* inversion read by panel_state
    second,     \* memory read by panel_gram
    pixels,     \* what encode_png would draw
    spc,        \* the streaming thread's step
    got,        \* the png it took from latest()
    fresh,      \* generation() differs from the one it recorded
    shown,      \* the last picture it sent to the browser
    faults      \* failed commands so far

guestVars  == <<alive, ram, gram, invert>>
sharedVars == <<grabber, raw, png>>
pumpVars   == <<ppc, held, first, inv, second, pixels>>
streamVars == <<spc, got, shown>>
allPumpVars == <<guestVars, sharedVars, pumpVars, current, streamVars, fresh, faults>>

-----------------------------------------------------------------------------
(* The guest and the emulator's life *)

Draw(c, v) ==
    /\ c \in alive /\ ram[c] # v
    /\ ram' = [ram EXCEPT ![c] = v]
    /\ UNCHANGED <<alive, gram, invert, sharedVars, pumpVars, current, streamVars, fresh, faults>>

Blit(c) ==
    /\ c \in alive /\ gram[c] # ram[c]
    /\ gram' = [gram EXCEPT ![c] = ram[c]]
    /\ UNCHANGED <<alive, ram, invert, sharedVars, pumpVars, current, streamVars, fresh, faults>>

SetInvert(c) ==
    /\ c \in alive
    /\ invert' = [invert EXCEPT ![c] = ~@]
    /\ UNCHANGED <<alive, ram, gram, sharedVars, pumpVars, current, streamVars, fresh, faults>>

Dies(c) ==
    /\ c \in alive
    /\ alive' = alive \ {c}
    /\ UNCHANGED <<ram, gram, invert, sharedVars, pumpVars, current, streamVars, fresh, faults>>

-----------------------------------------------------------------------------
(* rebind and set_buffers, called from request threads *)

Rebind(c) ==
    /\ grabber' = c
    /\ current' = FALSE
    /\ raw' = IF c = None THEN None ELSE raw
    /\ png' = IF c = None THEN None ELSE png
    /\ fresh' = TRUE
    /\ UNCHANGED <<guestVars, pumpVars, streamVars, faults>>

SetBuffers ==
    /\ grabber # None
    /\ current' = FALSE
    /\ UNCHANGED <<guestVars, sharedVars, pumpVars, streamVars, fresh, faults>>

-----------------------------------------------------------------------------
(* _run and _grab *)

Snapshot ==
    /\ ppc = "idle" /\ grabber # None
    /\ held' = grabber
    /\ current' = TRUE
    /\ ppc' = "first"
    /\ UNCHANGED <<guestVars, sharedVars, first, inv, second, pixels, streamVars, fresh, faults>>

\* A QMP command of the pump fails: the emulator is gone, or one is lost.
CommandFails ==
    \/ held \notin alive /\ UNCHANGED faults
    \/ held \in alive /\ faults < MaxFaults /\ faults' = faults + 1

\* The locals of _grab go out of scope.
EndRound ==
    /\ ppc' = "idle"
    /\ held' = None
    /\ current' = FALSE
    /\ first' = None /\ inv' = FALSE /\ second' = None /\ pixels' = None

\* panel_pixels: the memory ...
ReadFirst ==
    /\ ppc = "first" /\ held \in alive
    /\ first' = gram[held]
    /\ ppc' = "invert"
    /\ UNCHANGED <<guestVars, sharedVars, held, inv, second, pixels, current, streamVars, fresh, faults>>

\* ... then the settings; panel_state answers "not inverted" on any failure.
ReadInvert ==
    /\ ppc = "invert"
    /\ \/ held \in alive /\ inv' = invert[held] /\ UNCHANGED faults
       \/ CommandFails /\ inv' = FALSE
    /\ ppc' = "second"
    /\ UNCHANGED <<guestVars, sharedVars, held, first, second, pixels, current, streamVars, fresh>>

\* panel_gram once more, for the comparison with _raw.
ReadSecond ==
    /\ ppc = "second" /\ held \in alive
    /\ second' = gram[held]
    /\ pixels' = Render(first, inv)
    /\ first' = None /\ inv' = FALSE
    /\ ppc' = "publish"
    /\ UNCHANGED <<guestVars, sharedVars, held, current, streamVars, fresh, faults>>

\* Either memory read fails: fall back to the guest's own framebuffer.
FallBack ==
    /\ ppc \in {"first", "second"} /\ CommandFails
    /\ ppc' = "memsave"
    /\ first' = None /\ inv' = FALSE
    /\ UNCHANGED <<guestVars, sharedVars, held, second, pixels, current, streamVars, fresh>>

ReadGuestRam ==
    /\ ppc = "memsave" /\ held \in alive
    /\ second' = ram[held]
    /\ pixels' = Render(ram[held], FALSE)
    /\ ppc' = "publish"
    /\ UNCHANGED <<guestVars, sharedVars, held, first, inv, current, streamVars, fresh, faults>>

\* The fallback fails too: the exception ends this round of the loop.
GrabFails ==
    /\ ppc = "memsave" /\ CommandFails
    /\ EndRound
    /\ UNCHANGED <<guestVars, sharedVars, streamVars, fresh>>

\* Mutant: no look at the grabber after the read.
PublishUnchecked ==
    /\ ppc = "publish"
    /\ EndRound
    /\ IF second # raw
       THEN raw' = second /\ png' = pixels /\ fresh' = TRUE
       ELSE UNCHANGED <<raw, png, fresh>>
    /\ UNCHANGED <<guestVars, grabber, streamVars, faults>>

\* Mutant: what was encoded is not remembered.
PublishForgets ==
    /\ ppc = "publish"
    /\ EndRound
    /\ IF current /\ second # raw
       THEN png' = pixels /\ fresh' = TRUE
       ELSE UNCHANGED <<png, fresh>>
    /\ UNCHANGED <<guestVars, grabber, raw, streamVars, faults>>

\* Encode only a frame that is still this grabber's and differs from the last.
Publish ==
    /\ ppc = "publish"
    /\ EndRound
    /\ IF current /\ second # raw
       THEN raw' = second /\ png' = pixels /\ fresh' = TRUE
       ELSE UNCHANGED <<raw, png, fresh>>
    /\ UNCHANGED <<guestVars, grabber, streamVars, faults>>

PumpStep ==
    \/ Snapshot
    \/ ReadFirst
    \/ ReadInvert
    \/ ReadSecond
    \/ FallBack
    \/ ReadGuestRam
    \/ GrabFails
    \/ Publish

-----------------------------------------------------------------------------
(* frames(), the generator behind /stream *)

StreamLatest ==
    /\ spc = "latest"
    /\ got' = png
    /\ spc' = "generation"
    /\ UNCHANGED <<guestVars, sharedVars, pumpVars, current, fresh, shown, faults>>

\* A changed generation is sent at once and recorded ...
StreamChanged ==
    /\ spc = "generation" /\ got # None /\ fresh
    /\ shown' = got
    /\ got' = None
    /\ fresh' = FALSE
    /\ spc' = "latest"
    /\ UNCHANGED <<guestVars, sharedVars, pumpVars, current, faults>>

\* Mutant: an unchanged generation is never sent again.
StreamKeepaliveNever ==
    /\ spc = "generation" /\ got # None /\ ~fresh
    /\ got' = None
    /\ spc' = "latest"
    /\ UNCHANGED <<guestVars, sharedVars, pumpVars, current, fresh, shown, faults>>

\* ... and an unchanged one once IDLE_FRAME_INTERVAL_S has passed.
StreamKeepalive ==
    /\ spc = "generation" /\ got # None /\ ~fresh
    /\ shown' = got
    /\ got' = None
    /\ spc' = "latest"
    /\ UNCHANGED <<guestVars, sharedVars, pumpVars, current, fresh, faults>>

StreamNothing ==
    /\ spc = "generation" /\ (got = None \/ ~fresh)
    /\ got' = None
    /\ spc' = "latest"
    /\ UNCHANGED <<guestVars, sharedVars, pumpVars, current, fresh, shown, faults>>

StreamStep == StreamLatest \/ StreamChanged \/ StreamKeepalive \/ StreamNothing

-----------------------------------------------------------------------------
PumpInit ==
    /\ alive = Clients
    /\ gram \in [Clients -> Values]
    /\ ram = gram
    /\ invert = [c \in Clients |-> FALSE]
    /\ grabber = None
    /\ raw = None
    /\ png = None
    /\ ppc = "idle"
    /\ held = None
    /\ current = FALSE
    /\ first = None /\ second = None /\ inv = FALSE /\ pixels = None
    /\ spc = "latest"
    /\ got = None
    /\ fresh = TRUE
    /\ shown = None
    /\ faults = 0

PumpNext ==
    \/ \E c \in Clients :
          \/ \E v \in Values : Draw(c, v)
          \/ Blit(c)
          \/ SetInvert(c)
          \/ Dies(c)
    \/ \E c \in Clients \cup {None} : Rebind(c)
    \/ SetBuffers
    \/ PumpStep
    \/ StreamStep

\* Both threads run; the keepalive's clock advances.
PumpFairness ==
    /\ WF_allPumpVars(PumpStep)
    /\ WF_allPumpVars(StreamStep)
    /\ SF_allPumpVars(StreamKeepalive)

PumpSpec == PumpInit /\ [][PumpNext]_allPumpVars /\ PumpFairness

-----------------------------------------------------------------------------
\* The guests, the pump and the stream keep their types, and the pump comes to
\* each of its steps with what the step needs in hand.
TypeOK ==
    /\ alive \subseteq Clients
    /\ ram \in [Clients -> Values]
    /\ gram \in [Clients -> Values]
    /\ invert \in [Clients -> BOOLEAN]
    /\ grabber \in Clients \cup {None}
    /\ raw \in Values \cup {None}
    /\ png \in Pictures \cup {None}
    /\ ppc \in {"idle", "first", "invert", "second", "memsave", "publish"}
    /\ held \in Clients \cup {None}
    /\ current \in BOOLEAN
    /\ first \in Values \cup {None}
    /\ inv \in BOOLEAN
    /\ second \in Values \cup {None}
    /\ pixels \in Pictures \cup {None}
    /\ spc \in {"latest", "generation"}
    /\ got \in Pictures \cup {None}
    /\ fresh \in BOOLEAN
    /\ shown \in Pictures \cup {None}
    /\ faults \in 0..MaxFaults
    /\ ppc \in {"invert", "second"} => first # None
    /\ ppc # "idle" => held # None
    /\ ppc = "publish" => second # None /\ pixels # None

(***************************************************************************)
(* Once rebind(None) has blanked the screen it stays blank until the next  *)
(* rebind: a grab that was in flight cannot bring back a frame.            *)
(***************************************************************************)
BlankStaysBlank == grabber = None => png = None /\ raw = None

(***************************************************************************)
(* A frame is published only while the pump is still bound to the emulator *)
(* it was read from.                                                       *)
(***************************************************************************)
PublishedIsBound == [][png' # png /\ png' # None => grabber = held]_allPumpVars

(***************************************************************************)
(* A picture that stays published reaches every streaming client, although *)
(* it reads the picture and its generation in two steps: what it shows in  *)
(* the end is what the pump holds.                                         *)
(***************************************************************************)
StreamCatchesUp == \A p \in Pictures : <>[](png = p) => <>[](shown = p)

\* The screen of the bound emulator shows v and the guest draws nothing else.
Resting(c, v, i) ==
    grabber = c /\ c \in alive /\ gram[c] = v /\ ram[c] = v /\ invert[c] = i

\* From some time on it rests, and no request replaces the pump's grabber.
AtRest(c, v, i) ==
    /\ <>[]Resting(c, v, i)
    /\ <>[][~SetBuffers /\ \A d \in Clients : ~Rebind(d)]_allPumpVars

(***************************************************************************)
(* When the screen is at rest the pump settles: it has compared the        *)
(* panel's final memory, and encodes nothing more.                         *)
(***************************************************************************)
PumpSettles ==
    \A c \in Clients, v \in Values, i \in BOOLEAN :
        AtRest(c, v, i) => <>[](raw = v)

=============================================================================
