------------------------------ MODULE Capture ------------------------------
(***************************************************************************)
(* How a Linux server captures its keyboards (crates/platform/src/x11/     *)
(* capture and crates/platform/src/evdev).  Two threads read the same      *)
(* devices: the capture thread through X, the reader through the kernel.   *)
(* While the cursor is on a client the reader grabs the devices, X falls   *)
(* silent and the reader forwards; at home it discards what X reports.     *)
(* The threads share a flag, a queue of commands and two wake pipes.       *)
(*                                                                         *)
(* A keyboard has one key and is named by it.  The mouse, which is handled *)
(* alike, is left out, as are the warp and the cursor's visibility: what   *)
(* remains of motion is that it makes the session cross.  The wait for     *)
(* another device's release (RELEASE_WAIT) is bounded by time, so here it  *)
(* may end at once.  Devices are plugged in but never removed.             *)
(***************************************************************************)
EXTENDS Integers, Sequences, FiniteSets

CONSTANTS
  Keys,         \* the keyboards
  Late,         \* ... of which these are plugged in while the server runs
  Escape,       \* Scroll Lock, on a keyboard that is there from the start
  GrabOutcomes, \* whether the X grab is acquired in the end
  MaxEvents,    \* bound on presses and releases
  MaxCrossings  \* bound on the times control leaves home

ASSUME CaptureAssumption ==
  /\ Late \subseteq Keys /\ Escape \in Keys \ Late
  /\ GrabOutcomes \subseteq BOOLEAN /\ GrabOutcomes # {}
  /\ MaxEvents \in Nat /\ MaxCrossings \in Nat

VARIABLES
  mode,      \* where the session has the cursor: the server's `active`
  crossings, \* times it left home
  heard,     \* an Escape message waits for the main loop
  cmds,      \* CaptureCommands on their way to the capture thread ...
  cwake,     \* ... and a byte in its wake pipe
  pc,        \* the capture thread
  grabbed,   \* it holds the X grab
  held,      \* the keys it synthesises repeats for
  remote,    \* EvdevReader::remote ...
  rwake,     \* ... and a byte in the reader's wake pipe
  rpc,       \* the reader
  reading,   \* was_remote: the reader forwards
  press,     \* PressState::pressed
  isolated,  \* keyboards grabbed at the kernel
  phase,     \* how far a keyboard is on its way to the reader
  xq,        \* what X has for the capture thread
  ring,      \* what the kernel buffers for the reader, per keyboard
  fingers,   \* keys physically down
  made,      \* presses and releases so far
  reports    \* how often the main loop was told of each

session == <<mode, crossings, heard>>
channel == <<cmds, cwake>>
capture == <<pc, grabbed, held>>
flag == <<remote, rwake>>
reader == <<rpc, reading, press, isolated>>
queues == <<xq, ring>>
user == <<fingers, made>>
vars == <<session, channel, capture, flag, reader, phase, queues, user, reports>>

Event == [key : Keys, down : BOOLEAN, n : 0 .. MaxEvents]
Command == [op : {"grab", "isolate"}, on : BOOLEAN]

-----------------------------------------------------------------------------
(* The devices *)

Opened == {k \in Keys : phase[k] = "opened"}
Watched == {k \in Keys : phase[k] = "watched"}

\* A key goes down or up.  X hears it unless the device is grabbed, and so
\* does everyone who has it open.  Only what happens on a keyboard the reader
\* watches is numbered.
Type(k) ==
  /\ made < MaxEvents /\ phase[k] # "absent"
  /\ LET n == IF k \in Late THEN 0 ELSE made + 1
         e == [key |-> k, down |-> k \notin fingers, n |-> n]
     IN /\ xq' = IF k \in isolated THEN xq ELSE Append(xq, e)
        /\ ring' = IF phase[k] = "plugged" THEN ring
                   ELSE [ring EXCEPT ![k] = Append(@, e)]
  /\ fingers' = IF k \in fingers THEN fingers \ {k} ELSE fingers \cup {k}
  /\ made' = made + 1
  /\ UNCHANGED <<session, channel, capture, flag, reader, phase, reports>>

Plug(k) ==
  /\ phase[k] = "absent"
  /\ phase' = [phase EXCEPT ![k] = "plugged"]
  /\ UNCHANGED <<session, channel, capture, flag, reader, queues, user, reports>>

\* The enumerator opens what is new, hands the list over and wakes the reader.
Scan ==
  /\ \E k \in Keys : phase[k] = "plugged"
  /\ phase' = [k \in Keys |-> IF phase[k] = "plugged" THEN "opened" ELSE phase[k]]
  /\ rwake' = TRUE
  /\ UNCHANGED <<session, channel, capture, remote, reader, queues, user, reports>>

-----------------------------------------------------------------------------
(* The main loop *)

Sends(commands) == cmds' = cmds \o commands /\ cwake' = TRUE

GoAway ==
  /\ mode' = "away"
  /\ Sends(<<[op |-> "grab", on |-> TRUE], [op |-> "isolate", on |-> TRUE]>>)

GoHome ==
  /\ mode' = "home"
  /\ Sends(<<[op |-> "isolate", on |-> FALSE], [op |-> "grab", on |-> FALSE]>>)

Cross ==
  /\ mode = "home" /\ crossings < MaxCrossings
  /\ GoAway
  /\ crossings' = crossings + 1
  /\ UNCHANGED <<heard, capture, flag, reader, phase, queues, user, reports>>

Return ==
  /\ mode = "away"
  /\ GoHome
  /\ UNCHANGED <<crossings, heard, capture, flag, reader, phase, queues, user, reports>>

HearEscape ==
  /\ heard /\ heard' = FALSE
  /\ IF mode = "away" THEN GoHome ELSE UNCHANGED <<mode, channel>>
  /\ UNCHANGED <<crossings, capture, flag, reader, phase, queues, user, reports>>

\* The supervisor takes a capture thread that has not ticked for 3 s while
\* control is away to be wedged, and ends the process.
Stalled ==
  /\ mode = "away"
  /\ pc = "sleeping" /\ ~cwake /\ xq = <<>>

-----------------------------------------------------------------------------
(* The capture thread *)

Reported(ns) ==
  reports' = [n \in DOMAIN reports |-> IF n \in ns /\ reports[n] < 2 THEN reports[n] + 1 ELSE reports[n]]

\* While the grab is held Scroll Lock is the escape, and is not forwarded.
OnEvent ==
  /\ pc = "events" /\ xq # <<>>
  /\ LET e == Head(xq)
         escapes == e.key = Escape /\ grabbed
     IN /\ heard' = (heard \/ (escapes /\ e.down))
        /\ held' = IF escapes THEN held
                   ELSE IF e.down THEN held \cup {e.key} ELSE held \ {e.key}
        /\ Reported({e.n})
  /\ xq' = Tail(xq)
  /\ UNCHANGED <<mode, crossings, channel, pc, grabbed, flag, reader, phase, ring, user>>

NoEvents ==
  /\ pc = "events" /\ xq = <<>>
  /\ pc' = "commands"
  /\ UNCHANGED <<session, channel, grabbed, held, flag, reader, phase, queues, user, reports>>

Command_(op) == pc = "commands" /\ cmds # <<>> /\ Head(cmds).op = op

SetGrabbed ==
  /\ Command_("grab")
  /\ cmds' = Tail(cmds)
  /\ LET grab == Head(cmds).on
     IN \E ok \in GrabOutcomes :
          grabbed' = IF grab = grabbed THEN grabbed ELSE grab /\ ok
  /\ UNCHANGED <<session, cwake, pc, held, flag, reader, phase, queues, user, reports>>

\* Variant: the reader is told and left asleep.
IsolateSilently ==
  /\ Command_("isolate")
  /\ cmds' = Tail(cmds)
  /\ held' = {}
  /\ remote' = Head(cmds).on
  /\ UNCHANGED <<session, cwake, pc, grabbed, rwake, reader, phase, queues, user, reports>>

\* set_remote and release_and_wait: the flag first, then the nudge.
Isolate ==
  /\ Command_("isolate")
  /\ cmds' = Tail(cmds)
  /\ held' = {}
  /\ remote' = Head(cmds).on
  /\ pc' = "nudge"
  /\ UNCHANGED <<session, cwake, grabbed, rwake, reader, phase, queues, user, reports>>

Nudge ==
  /\ pc = "nudge"
  /\ rwake' = TRUE
  /\ pc' = "commands"
  /\ UNCHANGED <<session, channel, grabbed, held, remote, reader, phase, queues, user, reports>>

\* Variant: no heartbeat.
WaitForDuties == IF held # {} THEN "dozing" ELSE "sleeping"

\* A repeat that is due, or the heartbeat of a held grab, bounds the sleep.
WaitTimeout == IF held # {} \/ grabbed THEN "dozing" ELSE "sleeping"

Poll ==
  /\ pc = "commands" /\ cmds = <<>>
  /\ pc' = WaitTimeout
  /\ UNCHANGED <<session, channel, grabbed, held, flag, reader, phase, queues, user, reports>>

Wake ==
  /\ \/ pc = "dozing"
     \/ pc = "sleeping" /\ (cwake \/ xq # <<>>)
  /\ cwake' = FALSE
  /\ pc' = "events"
  /\ UNCHANGED <<session, cmds, grabbed, held, flag, reader, phase, queues, user, reports>>

CaptureThread ==
  OnEvent \/ NoEvents \/ SetGrabbed \/ Isolate \/ Nudge \/ Poll \/ Wake

-----------------------------------------------------------------------------
(* The evdev reader *)

Absorb ==
  /\ rpc = "check"
  /\ \E k \in Opened :
       /\ phase' = [phase EXCEPT ![k] = "watched"]
       /\ isolated' = IF remote THEN isolated \cup {k} ELSE isolated
  /\ UNCHANGED <<session, channel, capture, flag, rpc, reading, press, queues, user, reports>>

\* Every device is grabbed or released, and only on a transition.
Check ==
  /\ rpc = "check" /\ Opened = {}
  /\ reading' = remote
  /\ isolated' = IF remote = reading THEN isolated ELSE IF remote THEN Watched ELSE {}
  /\ press' = IF reading /\ ~remote THEN {} ELSE press
  /\ rpc' = IF remote /\ ~reading THEN "purge" ELSE "poll"
  /\ UNCHANGED <<session, channel, capture, flag, phase, queues, user, reports>>

\* Variant: nothing is purged.
NotPurged == ring

Purged == [k \in Keys |-> IF k \in Watched THEN <<>> ELSE ring[k]]

Purge ==
  /\ rpc = "purge"
  /\ ring' = Purged
  /\ rpc' = "poll"
  /\ UNCHANGED <<session, channel, capture, flag, reading, press, isolated, phase, xq, user, reports>>

\* The wake pipe goes first: the flag and the list are looked at again.
ReaderWakes ==
  /\ rpc = "poll" /\ rwake
  /\ rwake' = FALSE
  /\ rpc' = "check"
  /\ UNCHANGED <<session, channel, capture, remote, reading, press, isolated, phase, queues, user, reports>>

ReaderReads ==
  /\ rpc = "poll" /\ ~rwake
  /\ \E k \in Watched : ring[k] # <<>>
  /\ rpc' = "drain"
  /\ UNCHANGED <<session, channel, capture, flag, reading, press, isolated, phase, queues, user, reports>>

\* The indices of a keyboard's events that are forwarded: a release only when
\* its press was.
Forwarded(k) ==
  {i \in DOMAIN ring[k] : ring[k][i].down \/ i > 1 \/ k \in press}

EscapePressed == \E i \in DOMAIN ring[Escape] : ring[Escape][i].down

\* Variant: the reader swallows the escape and leaves it to X.
DrainSwallowing ==
  /\ rpc = "drain"
  /\ \E k \in {j \in Watched : ring[j] # <<>>} :
       /\ ring' = [ring EXCEPT ![k] = <<>>]
       /\ press' = IF ~reading \/ k = Escape THEN press
                   ELSE IF ring[k][Len(ring[k])].down THEN press \cup {k}
                   ELSE press \ {k}
       /\ Reported(IF reading THEN {ring[k][i].n : i \in Forwarded(k)} ELSE {})
  /\ rpc' = "check"
  /\ UNCHANGED <<session, channel, capture, flag, reading, isolated, phase, xq, user>>

\* One keyboard's buffer: forwarded while remote, discarded at home.
Drain ==
  /\ rpc = "drain"
  /\ \E k \in {j \in Watched : ring[j] # <<>>} :
       /\ ring' = [ring EXCEPT ![k] = <<>>]
       /\ heard' = (heard \/ (reading /\ k = Escape /\ EscapePressed))
       /\ press' = IF ~reading \/ k = Escape THEN press
                   ELSE IF ring[k][Len(ring[k])].down THEN press \cup {k}
                   ELSE press \ {k}
       /\ Reported(IF reading THEN {ring[k][i].n : i \in Forwarded(k)} ELSE {})
  /\ rpc' = "check"
  /\ UNCHANGED <<mode, crossings, channel, capture, flag, reading, isolated, phase, xq, user>>

Reader == Absorb \/ Check \/ Purge \/ ReaderWakes \/ ReaderReads \/ Drain

-----------------------------------------------------------------------------
Init ==
  /\ mode = "home" /\ crossings = 0 /\ heard = FALSE
  /\ cmds = <<>> /\ cwake = FALSE
  /\ pc = "events" /\ grabbed = FALSE /\ held = {}
  /\ remote = FALSE /\ rwake = FALSE
  /\ rpc = "check" /\ reading = FALSE /\ press = {} /\ isolated = {}
  /\ phase = [k \in Keys |-> IF k \in Late THEN "absent" ELSE "watched"]
  /\ xq = <<>> /\ ring = [k \in Keys |-> <<>>]
  /\ fingers = {} /\ made = 0
  /\ reports = [n \in 1 .. MaxEvents |-> 0]

Next ==
  \/ \E k \in Keys : Type(k) \/ Plug(k)
  \/ Scan
  \/ Cross \/ Return \/ HearEscape
  \/ CaptureThread
  \/ Reader

\* The user is free; the three threads run.
Spec ==
  /\ Init /\ [][Next]_vars
  /\ WF_vars(HearEscape) /\ WF_vars(CaptureThread) /\ WF_vars(Reader)

-----------------------------------------------------------------------------
(* What the capture promises *)

\* Two threads read every keyboard, and yet the main loop hears of a press or
\* a release at most once, whatever crossing it falls into ("so a boundary
\* crossing never carries stale events across it", evdev/reader.rs).  Of the
\* keyboards there from the start: what a keyboard plugged in while control is
\* away has typed is reported by X, and again once the reader watches it.
ReportedOnce == \A n \in DOMAIN reports : reports[n] <= 1

\* A healthy server is never ended: while control is away the capture thread
\* keeps ticking ("never a false positive from load", server/liveness.rs; "a
\* remote cursor keeps the heartbeat alive", x11/capture/thread.rs).
NeverMistakenForDead == ~Stalled

\* Control that settles takes the keyboards with it: at home neither X nor the
\* kernel keeps them from the desktop, away both do ("never leave the desktop
\* input-dead", evdev/reader.rs).  Of the keyboards there from the start.
GrabsFollowControl ==
  /\ <>[](mode = "home") => <>[](~grabbed /\ isolated \subseteq Late)
  /\ <>[](mode = "away") => <>[](grabbed /\ Keys \ Late \subseteq isolated)

\* Once the crossing has settled a press of Scroll Lock brings control home,
\* whatever else is typed, plugged in or crossed meanwhile (evdev/device.rs).
Isolation ==
  /\ mode = "away" /\ cmds = <<>> /\ pc \in {"events", "dozing"}
  /\ remote /\ reading /\ rpc # "purge"

EscapeComesHome == Isolation /\ EscapePressed ~> mode = "home"
=============================================================================
