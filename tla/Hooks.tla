-------------------------------- MODULE Hooks --------------------------------
(***************************************************************************)
(* The server's capture on Windows (platform/src/windows/capture.rs and    *)
(* engine.rs): two low-level hooks that run on the capture thread, see     *)
(* every event before the desktop does, and swallow it while the cursor is *)
(* on a client.  The threads are the capture thread (hooks, timer), the    *)
(* server's main loop, which applies what the session decides, and the     *)
(* engine thread, which warps the cursor.  The flag ISOLATE is a plain     *)
(* store; the warp that goes with it is queued.                            *)
(*                                                                         *)
(* One modifier stands for the four, and for the screen two positions,     *)
(* at the wall and away from it.  Which switch the session decides on is   *)
(* left open (module Session); a switch in progress is applied before      *)
(* another is decided (module Server has their races).                     *)
(* Buttons and the wheel, sent as they come, are left out, as is the       *)
(* hiding of the cursor.                                                   *)
(***************************************************************************)
EXTENDS Integers, Sequences

CONSTANTS
  Others,        \* keys besides Scroll Lock and one modifier
  MaxStrokes,    \* presses of a key
  MaxMoves,      \* motions of the mouse
  MaxSwitches,   \* times control leaves this machine
  Cap            \* messages in the channel (unbounded in the code)

ASSUME HooksAssumption == {MaxStrokes, MaxMoves, MaxSwitches, Cap} \subseteq Nat

SCROLL == "scroll"
META == "meta"
Keys == {SCROLL, META} \cup Others
WALL == 1
Positions == 0 .. WALL
Chord(meta, key) == [meta |-> meta, key |-> key]
\* What the app layer may publish: nothing yet, or a shortcut with a modifier
\* and the bare Scroll Lock.
ChordLists == {{}} \cup {{Chord(TRUE, k), Chord(FALSE, SCROLL)} : k \in Others}

VARIABLES
  \* the user, and what the session and Windows believe
  fingers,          \* keys under the user's fingers
  missed,           \* keys released where the hook does not run
  asked,            \* the user pressed Scroll Lock while away
  called,           \* ... and the switch had been applied, its last release seen
  told,             \* keys the session heard pressed and not released
  os,               \* keys Windows saw pressed and not released
  strokes, moves,   \* bounds
  \* the hooks' statics
  keys_down, chord_swallowed, escape_consumed, hook_meta, bound_chords,
  pending,          \* PENDING_MOTION
  last_beacon,      \* LAST_BEACON
  isolate,          \* ISOLATE
  \* the main loop and the engine thread
  chan,             \* TX
  mode,             \* whether the session has the cursor home or away
  todo,             \* a decided switch, not applied yet
  switches,         \* bound
  heard,            \* the last beacon the main loop took
  warps,            \* cmd_tx
  real              \* where the real cursor is

user == <<fingers, missed, asked, called, told, os, strokes>>
keyboard == <<keys_down, chord_swallowed, escape_consumed, hook_meta, bound_chords>>
mouse == <<moves, pending, last_beacon, real>>
control == <<mode, todo, switches, heard, warps>>
vars == <<user, keyboard, mouse, control, isolate, chan>>

NONE == -1
Message(kind) == [kind |-> kind, at |-> NONE]
Beacon(p) == [kind |-> "beacon", at |-> p]

Sends(messages) ==
  /\ Len(chan) + Len(messages) <= Cap
  /\ chan' = chan \o messages

-----------------------------------------------------------------------------
(* keyboard_proc, called by Windows for every transition *)

IsBoundChord(k) == k # META /\ Chord(hook_meta, k) \in bound_chords

\* The hook's own record of the modifiers.
update_hook_mods(k, down) == hook_meta' = IF k = META THEN down ELSE hook_meta

\* What Windows sees of an event the hook does not return 1 for.
Shows(believed) == os' = IF isolate THEN os ELSE believed

\* Scroll Lock pressed while away: consumed, never forwarded.
EscapeDown ==
  /\ isolate
  /\ escape_consumed' = TRUE
  /\ Sends(<<Message("escape")>>)
  /\ UNCHANGED <<told, os>>

\* Variant: a bound chord is the engine's, whatever the key.
KeyDownChordFirst(k) ==
  /\ told' = told \cup {k}
  /\ IF IsBoundChord(k) THEN Sends(<<Message("chord")>>) /\ UNCHANGED os
                        ELSE UNCHANGED chan /\ Shows(os \cup {k})
  /\ UNCHANGED escape_consumed

KeyDown(k) ==
  \/ k = SCROLL /\ EscapeDown
  \/ ~(isolate /\ k = SCROLL) /\ KeyDownChordFirst(k)

Press(k) ==
  /\ k \notin fingers /\ strokes < MaxStrokes
  /\ fingers' = fingers \cup {k} /\ strokes' = strokes + 1
  /\ asked' = (asked \/ (k = SCROLL /\ mode = "away"))
  /\ called' = (called \/ (k = SCROLL /\ isolate /\ k \notin missed))
  /\ IF k \in keys_down
     THEN UNCHANGED <<told, chord_swallowed, escape_consumed, hook_meta, keys_down, chan>>
          /\ Shows(os \cup {k})
     ELSE /\ keys_down' = keys_down \cup {k}
          /\ update_hook_mods(k, TRUE)
          /\ chord_swallowed' = IF IsBoundChord(k) THEN chord_swallowed \cup {k} ELSE chord_swallowed
          /\ KeyDown(k)
  /\ UNCHANGED <<missed, bound_chords, mouse, control, isolate>>

\* The keyboard repeats a held key: no transition, nothing is forwarded.
Repeat(k) ==
  /\ k \in fingers \cap keys_down
  /\ Shows(os \cup {k})
  /\ UNCHANGED <<fingers, missed, asked, called, told, strokes, keyboard, mouse, control, isolate, chan>>

\* Variant: while away, the release of Scroll Lock belongs to the escape.
KeyUpSwallowingEscape(k) ==
  IF k = SCROLL /\ (escape_consumed \/ isolate)
  THEN escape_consumed' = FALSE /\ UNCHANGED <<told, os, chord_swallowed, hook_meta>>
  ELSE /\ told' = told \ {k}
       /\ update_hook_mods(k, FALSE)
       /\ chord_swallowed' = chord_swallowed \ {k}
       /\ IF k \in chord_swallowed THEN UNCHANGED os ELSE Shows(os \ {k})
       /\ UNCHANGED escape_consumed

KeyUp(k) ==
  IF k = SCROLL /\ escape_consumed
  THEN escape_consumed' = FALSE /\ UNCHANGED <<told, os, chord_swallowed, hook_meta>>
  ELSE /\ told' = told \ {k}
       /\ update_hook_mods(k, FALSE)
       /\ chord_swallowed' = chord_swallowed \ {k}
       /\ IF k \in chord_swallowed THEN UNCHANGED os ELSE Shows(os \ {k})
       /\ UNCHANGED escape_consumed

Release(k) ==
  /\ k \in fingers
  /\ fingers' = fingers \ {k} /\ missed' = missed \ {k}
  /\ IF k \in keys_down
     THEN keys_down' = keys_down \ {k} /\ KeyUp(k)
     ELSE Shows(os \ {k}) /\ UNCHANGED <<told, keys_down, escape_consumed, hook_meta, chord_swallowed>>
  /\ UNCHANGED <<asked, called, strokes, bound_chords, mouse, control, isolate, chan>>

\* A key let go on the secure desktop, where no hook runs.
ReleaseUnseen(k) ==
  /\ k \in fingers
  /\ fingers' = fingers \ {k} /\ missed' = missed \cup {k}
  /\ os' = os \ {k}
  /\ UNCHANGED <<asked, called, told, strokes, keyboard, mouse, control, isolate, chan>>

\* set_bound_chords, from the main loop, at the start and on every reload.
SetBoundChords ==
  /\ bound_chords' \in ChordLists \ {bound_chords}
  /\ UNCHANGED <<user, mouse, control, isolate, chan, keys_down, chord_swallowed, escape_consumed,
                 hook_meta>>

-----------------------------------------------------------------------------
(* mouse_proc and the capture thread's message loop *)

Within(p) == IF p < 0 THEN 0 ELSE IF p > WALL THEN WALL ELSE p

\* The delta of the event is kept, whether or not the cursor can follow it.
MouseMove(d) ==
  /\ moves < MaxMoves /\ moves' = moves + 1
  /\ pending' = pending + d
  /\ real' = IF isolate THEN real ELSE Within(real + d)
  /\ UNCHANGED <<user, keyboard, last_beacon, control, isolate, chan>>

\* The beacon poll, and what it has to say.
BeaconDue == ~isolate /\ real # last_beacon

\* Variant: the position is noted before the poll is skipped.
OnTimerNoting ==
  /\ last_beacon' = real
  /\ Sends((IF BeaconDue THEN <<Beacon(real)>> ELSE <<>>)
           \o (IF pending # 0 THEN <<Message("motion")>> ELSE <<>>))

OnTimer ==
  /\ last_beacon' = IF BeaconDue THEN real ELSE last_beacon
  /\ Sends((IF BeaconDue THEN <<Beacon(real)>> ELSE <<>>)
           \o (IF pending # 0 THEN <<Message("motion")>> ELSE <<>>))

\* WM_TIMER: the poll, then the flush of the pending motion.
Timer ==
  /\ BeaconDue \/ pending # 0 \/ last_beacon # real
  /\ OnTimer
  /\ pending' = 0
  /\ UNCHANGED <<user, keyboard, moves, real, control, isolate>>

-----------------------------------------------------------------------------
(* The main loop (server/mod.rs) and the engine thread *)

Decide(where) ==
  /\ mode' = where /\ todo' = where
  /\ asked' = (asked /\ where # "home") /\ called' = (called /\ where # "home")
  /\ switches' = IF where = "away" THEN switches + 1 ELSE switches
  /\ UNCHANGED <<fingers, missed, told, os, strokes>>
Stays == UNCHANGED <<user, mode, todo, switches>>

\* The session hears one message: Scroll Lock forces control home, a motion, a
\* beacon or a shortcut may take it away, a shortcut may bring it back.
Hears ==
  /\ chan # <<>> /\ todo = "done"
  /\ chan' = Tail(chan)
  /\ LET m == Head(chan) IN
     /\ heard' = IF m.kind = "beacon" THEN m.at ELSE heard
     /\ \/ m.kind = "escape" /\ Decide("home")
        \/ m.kind # "escape" /\ Stays
        \/ m.kind # "escape" /\ mode = "home" /\ switches < MaxSwitches /\ Decide("away")
        \/ m.kind = "chord" /\ mode = "away" /\ Decide("home")
  /\ UNCHANGED <<keyboard, mouse, isolate, warps>>

\* A client's beacon crosses back, or the client is lost.
Returns ==
  /\ mode = "away" /\ todo = "done"
  /\ Decide("home")
  /\ UNCHANGED <<keyboard, mouse, isolate, chan, heard, warps>>

\* SwitchTo: grab_input(true), isolate_input(true).
IsolateInput ==
  /\ todo = "away"
  /\ isolate' = TRUE
  /\ warps' = warps

\* SwitchToLocal: isolate_input(false), then the warp is queued.
ReleaseInput ==
  /\ todo = "home"
  /\ isolate' = FALSE
  /\ \E p \in Positions : warps' = Append(warps, p)

Apply ==
  /\ IsolateInput \/ ReleaseInput
  /\ todo' = "done"
  /\ UNCHANGED <<user, keyboard, mouse, mode, switches, heard, chan>>

EngineLoop ==
  /\ warps # <<>>
  /\ real' = Head(warps) /\ warps' = Tail(warps)
  /\ UNCHANGED <<user, keyboard, moves, pending, last_beacon, mode, todo, switches, heard,
                 isolate, chan>>

-----------------------------------------------------------------------------
Init ==
  /\ fingers = {} /\ missed = {} /\ asked = FALSE /\ called = FALSE /\ told = {} /\ os = {}
  /\ strokes = 0 /\ moves = 0
  /\ keys_down = {} /\ chord_swallowed = {} /\ escape_consumed = FALSE /\ hook_meta = FALSE
  /\ bound_chords = {}
  /\ pending = 0 /\ last_beacon = NONE
  /\ isolate = FALSE /\ chan = <<>>
  /\ mode = "home" /\ todo = "done" /\ switches = 0 /\ heard = NONE
  /\ warps = <<>> /\ real \in Positions

Next ==
  \/ \E k \in Keys : Press(k) \/ Repeat(k) \/ Release(k) \/ ReleaseUnseen(k)
  \/ SetBoundChords
  \/ \E d \in {-1, 1} : MouseMove(d)
  \/ Timer \/ Hears \/ Returns \/ Apply \/ EngineLoop

Spec ==
  /\ Init /\ [][Next]_vars
  /\ WF_vars(Timer) /\ WF_vars(Hears) /\ WF_vars(Apply) /\ WF_vars(EngineLoop)

-----------------------------------------------------------------------------
(* Properties *)

\* "only true down/up transitions are forwarded, so a stuck key can never be
\* left on the receiving machine" (capture.rs:134): whatever crossings,
\* escapes, shortcuts and reloads come between, the session believes held only
\* what the user holds or let go where no hook runs - and that only until its
\* next release.
ToldIsHeld == told \subseteq fingers \cup missed

\* Scroll Lock is "the universal come home key" (capture.rs:61), bound to a
\* shortcut or not, once the switch that took control away has been applied and
\* unless its last release went where no hook runs.  A press before the first the
\* hook takes for any key's, one after the second for a repeat (EveryPressComesHome).
EscapeComesHome == called ~> ~called

\* The same of every press "while the cursor is away" (capture.rs:61-62).
EveryPressComesHome == asked ~> ~asked

\* "The session's boundary model needs the real cursor position too"
\* (capture.rs:45): once the mouse rests at home, the last beacon heard is where
\* the cursor is, although the warp that ends a switch runs after the switch.
BeaconsSettle == <>[](mode = "away") \/ <>[](heard = real)

\* "auto-repeats of a suppressed key are suppressed too (they [...] must also
\* never reach the OS" (capture.rs:317-319).  They are not: only the first press
\* is suppressed.
ChordsAreHidden == os \cap chord_swallowed = {}

\* What was let go Windows does not believe held ("so the OS never sees a half
\* chord", capture.rs:160).  It does: the release of a key that Windows saw pressed
\* is swallowed once control is away, or when it is that of a repeated chord.
LocalKeysAreReleased == os \subseteq fingers
=============================================================================
