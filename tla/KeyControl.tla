------------------------------ MODULE KeyControl ------------------------------
(***************************************************************************)
(* Keys and push-to-talk, from the page to the keypad model: the page's    *)
(* pointer handlers and the /api/key, /api/ptt and /api/release-all        *)
(* handlers of tools/webui.py, and the press and ptt properties of the     *)
(* keypad in qemu/py32f071.c.                                              *)
(*                                                                         *)
(* Every event of the page is one fetch, served by a thread of its own:    *)
(* requests in flight may be served in any order, and a request of several *)
(* QMP commands interleaves with the others between two of them.           *)
(***************************************************************************)
EXTENDS Integers, FiniteSets

CONSTANTS
    Keys,       \* keys of the matrix
    Actions,    \* actions of /api/key in use: the page only taps
    Requests,   \* requests that may be in flight at once
    MaxLost     \* bound on the fetches that never reach the server

ASSUME KeyAssumption ==
    /\ MaxLost \in Nat
    /\ "tap" \in Actions /\ Actions \subseteq {"tap", "down", "up"}

VARIABLES
    on,         \* supervisor.client() is not None
    pressed,    \* pressed[][]: the keys held in the matrix
    ptt,        \* the keypad's ptt property
    pressedAt,  \* the page: keys held down
    pttHeld,    \* the page: pttHeld
    req,        \* each request: what it does and how far it has come
    latched,    \* the key that is down was pressed by action down (history)
    overlapped, \* two requests have been in flight at once (history)
    lost

pageVars == <<pressedAt, pttHeld>>
histVars == <<latched, overlapped>>
keyVars == <<on, pressed, ptt, pageVars, req, histVars, lost>>

Free == [op |-> "free"]
Key(k, action) == [op |-> "key", key |-> k, pc |-> action]
Ptt(held) == [op |-> "ptt", held |-> held]
ReleaseAll == [op |-> "release", pc |-> "keys"]

IsFree(r) == req[r].op = "free"
Finish(r) == req' = [req EXCEPT ![r] = Free]

-----------------------------------------------------------------------------
(* The keypad's properties *)

\* Mutant: "" is no key, so nothing happens.
SetPressIgnoresEmpty(keys) == pressed' = IF keys = {} THEN pressed ELSE keys

\* keypad_set_press: every other key is released first; "" releases all.
keypad_set_press(keys) == pressed' = keys

\* Mutant: PTT latches.
SetPttLatches(held) == ptt' = (ptt \/ held)

keypad_set_ptt(held) == ptt' = held

-----------------------------------------------------------------------------
(* The page *)

Quiet == \A r \in Requests : IsFree(r)

Send(request) ==
    /\ \E r \in Requests : IsFree(r) /\ req' = [req EXCEPT ![r] = request]
    /\ overlapped' = (overlapped \/ ~Quiet)

Down(k) ==
    /\ k \notin pressedAt
    /\ pressedAt' = pressedAt \cup {k}
    /\ UNCHANGED <<on, pressed, ptt, pttHeld, req, histVars, lost>>

\* up(): the measured press is sent once, on release.
Up(k) ==
    /\ k \in pressedAt
    /\ pressedAt' = pressedAt \ {k}
    /\ Send(Key(k, "tap"))
    /\ UNCHANGED <<on, pressed, ptt, pttHeld, latched, lost>>

\* setPtt(): nothing when the state is the one already sent.
SetPtt(held) ==
    /\ held # pttHeld
    /\ pttHeld' = held
    /\ Send(Ptt(held))
    /\ UNCHANGED <<on, pressed, ptt, pressedAt, latched, lost>>

\* blur: send the keys still held as presses, then /api/release-all.
Blur ==
    /\ \E f \in [pressedAt \cup {"all"} -> {r \in Requests : IsFree(r)}] :
          /\ \A x, y \in DOMAIN f : f[x] = f[y] => x = y
          /\ req' = [r \in Requests |->
                        IF r = f["all"] THEN ReleaseAll
                        ELSE IF \E k \in pressedAt : f[k] = r
                             THEN Key(CHOOSE k \in pressedAt : f[k] = r, "tap")
                             ELSE req[r]]
    /\ pressedAt' = {}
    /\ overlapped' = (overlapped \/ ~Quiet \/ pressedAt # {})
    /\ UNCHANGED <<on, pressed, ptt, pttHeld, latched, lost>>

\* A script other than the page may press and release in two requests.
Script(k, action) ==
    /\ action \in Actions \ {"tap"}
    /\ Send(Key(k, action))
    /\ UNCHANGED <<on, pressed, ptt, pageVars, latched, lost>>

\* A fetch fails before the server sees it: .catch(() => {}).
Lose(r) ==
    /\ lost < MaxLost
    /\ req[r] \in {Key(k, a) : k \in Keys, a \in Actions}
                 \cup {Ptt(held) : held \in BOOLEAN} \cup {ReleaseAll}
    /\ lost' = lost + 1
    /\ Finish(r)
    /\ UNCHANGED <<on, pressed, ptt, pageVars, histVars>>

-----------------------------------------------------------------------------
(* The handlers *)

\* set_press and set_ptt raise LookupError while the emulator is off: 409.
IgnoredWhileOff(r) ==
    /\ ~IsFree(r) /\ ~on
    /\ Finish(r)
    /\ UNCHANGED <<on, pressed, ptt, pageVars, histVars, lost>>

\* api_key, action down or up: one command.
KeyOnce(r) ==
    /\ req[r].op = "key" /\ req[r].pc \in {"down", "up"} /\ on
    /\ keypad_set_press(IF req[r].pc = "down" THEN {req[r].key} ELSE {})
    /\ latched' = (req[r].pc = "down")
    /\ Finish(r)
    /\ UNCHANGED <<on, ptt, pageVars, overlapped, lost>>

\* api_key, action tap: press, hold here, release.
KeyDown(r) ==
    /\ req[r].op = "key" /\ req[r].pc = "tap" /\ on
    /\ keypad_set_press({req[r].key})
    /\ req' = [req EXCEPT ![r].pc = "held"]
    /\ latched' = FALSE
    /\ UNCHANGED <<on, ptt, pageVars, overlapped, lost>>

KeyUp(r) ==
    /\ req[r].op = "key" /\ req[r].pc = "held" /\ on
    /\ keypad_set_press({})
    /\ Finish(r)
    /\ latched' = FALSE
    /\ UNCHANGED <<on, ptt, pageVars, overlapped, lost>>

ApiPtt(r) ==
    /\ req[r].op = "ptt" /\ on
    /\ keypad_set_ptt(req[r].held)
    /\ Finish(r)
    /\ UNCHANGED <<on, pressed, pageVars, histVars, lost>>

\* api_release_all: the keys, then PTT.
ReleaseKeys(r) ==
    /\ req[r].op = "release" /\ req[r].pc = "keys" /\ on
    /\ keypad_set_press({})
    /\ req' = [req EXCEPT ![r].pc = "ptt"]
    /\ latched' = FALSE
    /\ UNCHANGED <<on, ptt, pageVars, overlapped, lost>>

ReleasePtt(r) ==
    /\ req[r].op = "release" /\ req[r].pc = "ptt" /\ on
    /\ keypad_set_ptt(FALSE)
    /\ Finish(r)
    /\ UNCHANGED <<on, pressed, pageVars, histVars, lost>>

Handle(r) ==
    \/ IgnoredWhileOff(r)
    \/ KeyOnce(r)
    \/ KeyDown(r) \/ KeyUp(r)
    \/ ApiPtt(r)
    \/ ReleaseKeys(r) \/ ReleasePtt(r)

-----------------------------------------------------------------------------
(* Power: a new process or a machine reset starts with the keypad released *)

keypad_reset == pressed' = {} /\ ptt' = FALSE /\ latched' = FALSE

PowerOff ==
    /\ on
    /\ on' = FALSE
    /\ keypad_reset
    /\ UNCHANGED <<pageVars, req, overlapped, lost>>

PowerOn ==
    /\ ~on
    /\ on' = TRUE
    /\ UNCHANGED <<pressed, ptt, pageVars, req, histVars, lost>>

\* The keypad sits on no bus that a machine reset would walk, so its reset may
\* be left out.
SystemReset ==
    /\ on
    /\ keypad_reset \/ UNCHANGED <<pressed, ptt, latched>>
    /\ UNCHANGED <<on, pageVars, req, overlapped, lost>>

-----------------------------------------------------------------------------
KeyInit ==
    /\ on \in BOOLEAN
    /\ pressed = {}
    /\ ptt = FALSE
    /\ pressedAt = {}
    /\ pttHeld = FALSE
    /\ req = [r \in Requests |-> Free]
    /\ latched = FALSE
    /\ overlapped = FALSE
    /\ lost = 0

KeyNext ==
    \/ \E k \in Keys : Down(k) \/ Up(k) \/ \E action \in Actions : Script(k, action)
    \/ \E held \in BOOLEAN : SetPtt(held)
    \/ Blur
    \/ \E r \in Requests : Lose(r) \/ Handle(r)
    \/ PowerOff \/ PowerOn \/ SystemReset

KeySpec == KeyInit /\ [][KeyNext]_keyVars

-----------------------------------------------------------------------------
KeyStates == {Key(k, a) : k \in Keys, a \in Actions \cup {"held"}}
PttStates == {Ptt(held) : held \in BOOLEAN}
ReleaseStates == {ReleaseAll, [op |-> "release", pc |-> "ptt"]}
ReqStates == {Free} \cup KeyStates \cup PttStates \cup ReleaseStates

\* The matrix, the page and the requests keep their types, and no two keys of
\* the matrix are ever held together.
KeyTypeOK ==
    /\ on \in BOOLEAN
    /\ pressed \in SUBSET Keys /\ Cardinality(pressed) <= 1
    /\ ptt \in BOOLEAN
    /\ pressedAt \in SUBSET Keys
    /\ pttHeld \in BOOLEAN
    /\ req \in [Requests -> ReqStates]
    /\ latched \in BOOLEAN
    /\ overlapped \in BOOLEAN
    /\ lost \in 0..MaxLost

Holding(r) == req[r].op = "key" /\ req[r].pc = "held"

(***************************************************************************)
(* No key stays stuck: a key is down in the matrix only while some tap is  *)
(* still holding one, or because a script asked for it by action down,     *)
(* whatever presses overlap, and whatever is lost or reset meanwhile.      *)
(***************************************************************************)
NoStuckKey == pressed # {} => latched \/ \E r \in Requests : Holding(r)

\* When nothing is in flight and the operator does not hold PTT, the radio is
\* not keyed ("cannot leave the radio keyed").
NotLeftKeyed == Quiet /\ ~pttHeld => ~ptt

(***************************************************************************)
(* When every request is answered before the next is sent, and none is     *)
(* lost, PTT follows the button: the radio is never left keyed, not even   *)
(* by power cycles and resets in between.                                  *)
(***************************************************************************)
NotLeftKeyedInTurn == ~overlapped /\ lost = 0 => NotLeftKeyed

=============================================================================
