------------------------------- MODULE Client -------------------------------
(***************************************************************************)
(* A client's session (crates/core/src/client): the control thread that    *)
(* dispatches what the server says over TCP, and the threads it shares the *)
(* injector with - motion, cursor stream, sync and supervisor.             *)
(*                                                                         *)
(* The command and the cursor are one of two positions, and the Enter the  *)
(* command was anchored by; an event is a key or a button going down or    *)
(* up.  The server speaks in order: Enter and Leave alternate and events   *)
(* come in between.  The injector is the one of Windows, with the thread   *)
(* that watches over the hardware it silences (platform/src/windows).      *)
(* Clipboard, wheel and probe telemetry are left out.                      *)
(***************************************************************************)
EXTENDS Integers, Sequences

CONSTANTS
  Keys, Buttons,  \* what the server may press and release here
  Blocking,       \* ... and those whose injection the OS may block forever
  QueueCap,       \* EVENT_QUEUE_CAP
  MaxEnters,      \* bound on the Enters of a session
  MaxEvents       \* bound on the events of a session

ASSUME EventAssumption ==
  /\ Keys \cap Buttons = {} /\ Blocking \subseteq Keys \cup Buttons
  /\ QueueCap \in Nat /\ MaxEnters \in Nat /\ MaxEvents \in Nat

Threads == {"tcp", "motion", "stream", "sync", "supervisor"}
Inputs == Keys \cup Buttons
Events == [input : Inputs, down : BOOLEAN]
Positions == {0, 1}

VARIABLES
  at,        \* the step each thread takes next
  lock,      \* who holds Shared::motion and Shared::injector
  active,    \* control is on this machine
  stop,      \* the session is to end
  stale,     \* the motion thread's tick is more than 3 s old
  entered,   \* the server's last word on control was Enter ...
  enters,    \* ... its number
  sent,      \* events dispatched so far
  command,   \* the follower's command, and the Enter that anchored it
  cursor,    \* where the real cursor is
  events,    \* Shared::events
  hand,      \* the events the motion thread has drained
  held,      \* inputs the OS believes to be down
  down,      \* the injector's keys_down and buttons_down
  silenced,  \* ISOLATE: this machine's own hardware is swallowed
  unsteered, \* LAST_STEER is more than 2 s old
  resumed    \* RESUMED: the machine woke from sleep, or shows the secure desktop

flags == <<active, stop, stale>>
wire == <<entered, enters, sent>>
steering == <<command, cursor>>
queues == <<events, hand>>
machine == <<held, down, silenced>>
os == <<unsteered, resumed>>
vars == <<at, lock, flags, wire, steering, queues, machine, os>>

-----------------------------------------------------------------------------
Free(l) == lock[l] = {}
Takes(t, l) == lock' = [lock EXCEPT ![l] = {t}]
Drops(t) == lock' = [l \in DOMAIN lock |-> lock[l] \ {t}]

Goes(t, step) == at' = [at EXCEPT ![t] = step]

\* notify_all: whoever waits tests the flags again.
Wakes(t, step) ==
  at' = [at EXCEPT ![t] = step, !["motion"] = IF @ = "waiting" THEN "idle" ELSE @]

(* The injector and its isolation (platform/windows) *)

InjectsKey(e) ==
  IF e.down
  THEN held' = held \cup {e.input} /\ down' = down \cup {e.input}
  ELSE held' = held \ {e.input} /\ down' = down \ {e.input}

\* A release of a button that is not tracked as down is dropped.
InjectsButton(e) ==
  IF e.down
  THEN held' = held \cup {e.input} /\ down' = down \cup {e.input}
  ELSE held' = held \ (down \cap {e.input}) /\ down' = down \ {e.input}

Injects(e) == IF e.input \in Keys THEN InjectsKey(e) ELSE InjectsButton(e)

\* set_isolating arms the heartbeat of the hardware's watchdog.
Silences == silenced' = TRUE /\ unsteered' = FALSE

\* Variant: there is nothing to do unless something is held.
LeavesIfHolding ==
  /\ held' = held \ (down \cap Keys)
  /\ down' = {} /\ silenced' = (silenced /\ down = {})

\* leave() drains what it tracked and then injects the releases: that of a button
\* finds it no longer tracked.
Leaves == down' = {} /\ held' = held \ (down \cap Keys) /\ silenced' = FALSE

-----------------------------------------------------------------------------
(* The control thread: Client::run and dispatch *)

\* Variant: the flag is only looked at when the link is quiet for good.
TurnBlind ==
  /\ at["tcp"] = "turn"
  /\ Free("injector") /\ Goes("tcp", "recv")
  /\ UNCHANGED <<lock, flags, wire, steering, queues, machine, os>>

\* Each turn looks at the stop flag and asks the injector whether the system
\* resumed (read and cleared) or shows the secure desktop (polled: that one shown and
\* answered between two turns counts as seen).
Turn ==
  /\ at["tcp"] = "turn"
  /\ \/ stop /\ Goes("tcp", "stop") /\ UNCHANGED resumed
     \/ /\ ~stop /\ Free("injector")
        /\ resumed' = FALSE
        /\ Goes("tcp", IF resumed THEN "stop" ELSE "recv")
  /\ UNCHANGED <<lock, flags, wire, steering, queues, machine, unsteered>>

\* Nothing arrives within the read timeout; or the link ends, or the server asks
\* for the end; or the transport fails, and run returns at once.
Hears ==
  /\ at["tcp"] = "recv"
  /\ \E next \in {"turn", "stop", "failed"} : Goes("tcp", next)
  /\ UNCHANGED <<lock, flags, wire, steering, queues, machine, os>>

\* The newest event is dropped when the queue is full.
Enqueued(e) == IF Len(events) < QueueCap THEN Append(events, e) ELSE events

HearsEvent(e) ==
  /\ at["tcp"] = "recv" /\ entered /\ sent < MaxEvents
  /\ sent' = sent + 1
  /\ events' = Enqueued(e)
  /\ Goes("tcp", "turn")
  /\ UNCHANGED <<lock, flags, entered, enters, steering, hand, machine, os>>

\* Variant: the follower's lock is let go of before the injector's is taken.
HearsEnterUnlocked ==
  /\ at["tcp"] = "recv" /\ ~entered /\ enters < MaxEnters
  /\ Free("motion")
  /\ entered' = TRUE /\ enters' = enters + 1
  /\ Goes("tcp", "anchor")
  /\ UNCHANGED <<lock, flags, sent, steering, queues, machine, os>>

HearsEnter ==
  /\ at["tcp"] = "recv" /\ ~entered /\ enters < MaxEnters
  /\ Free("motion") /\ Takes("tcp", "motion")
  /\ entered' = TRUE /\ enters' = enters + 1
  /\ Goes("tcp", "anchor")
  /\ UNCHANGED <<flags, sent, steering, queues, machine, os>>

Anchor ==
  /\ at["tcp"] = "anchor" /\ Free("injector")
  /\ \E p \in Positions : command' = [enter |-> enters, pos |-> p] /\ cursor' = p
  /\ Silences
  /\ Drops("tcp")
  /\ Goes("tcp", "activate")
  /\ UNCHANGED <<flags, wire, queues, held, down, resumed>>

Activate ==
  /\ at["tcp"] = "activate"
  /\ active' = TRUE
  /\ Wakes("tcp", "report")
  /\ UNCHANGED <<lock, stop, stale, wire, steering, queues, machine, os>>

\* The first beacon of the new position.
Report ==
  /\ at["tcp"] = "report" /\ Free("injector")
  /\ Goes("tcp", "turn")
  /\ UNCHANGED <<lock, flags, wire, steering, queues, machine, os>>

HearsLeave ==
  /\ at["tcp"] = "recv" /\ entered
  /\ entered' = FALSE /\ active' = FALSE
  /\ Wakes("tcp", "unfollow")
  /\ UNCHANGED <<lock, stop, stale, enters, sent, steering, queues, machine, os>>

Unfollow ==
  /\ at["tcp"] = "unfollow" /\ Free("motion") /\ Takes("tcp", "motion")
  /\ Goes("tcp", "restore")
  /\ UNCHANGED <<flags, wire, steering, queues, machine, os>>

Restore ==
  /\ at["tcp"] = "restore" /\ Free("injector")
  /\ Leaves
  /\ Drops("tcp")
  /\ Goes("tcp", "turn")
  /\ UNCHANGED <<flags, wire, steering, queues, os>>

Stop ==
  /\ at["tcp"] = "stop"
  /\ stop' = TRUE
  /\ Wakes("tcp", "join")
  /\ UNCHANGED <<lock, active, stale, wire, steering, queues, machine, os>>

\* A thread that cannot go on is not waited for, except the supervisor.
Joinable(t) == at[t] \in {"done", "waiting", "wedged"} \/ at["motion"] = "wedged"

Join ==
  /\ at["tcp"] = "join"
  /\ \A t \in {"motion", "stream", "sync"} : Joinable(t)
  /\ at["supervisor"] = "done"
  /\ Goes("tcp", "place")
  /\ UNCHANGED <<lock, flags, wire, steering, queues, machine, os>>

\* The last placement.  The injector goes with the last thread that shares it,
\* and lets go of the hardware (impl Drop for Win32Injector).
PlaceAtCommand ==
  /\ at["tcp"] = "place" /\ Free("motion") /\ Free("injector")
  /\ cursor' = command.pos
  /\ silenced' = (silenced /\ \E t \in Threads \ {"tcp"} : at[t] # "done")
  /\ Goes("tcp", "returned")
  /\ UNCHANGED <<lock, flags, wire, command, queues, held, down, os>>

-----------------------------------------------------------------------------
(* The motion thread: motion_loop *)

Head_ ==
  /\ at["motion"] = "head"
  /\ Goes("motion", IF stop THEN "done" ELSE IF active THEN "tick" ELSE "idle")
  /\ UNCHANGED <<lock, flags, wire, steering, queues, machine, os>>

\* With wake_lock held, but the flags are not written under it.
IdleTest ==
  /\ at["motion"] = "idle"
  /\ Goes("motion", IF active \/ stop THEN "head" ELSE "parking")
  /\ UNCHANGED <<lock, flags, wire, steering, queues, machine, os>>

Wait ==
  /\ at["motion"] = "parking"
  /\ Goes("motion", "waiting")
  /\ UNCHANGED <<lock, flags, wire, steering, queues, machine, os>>

Tick ==
  /\ at["motion"] = "tick"
  /\ stale' = FALSE
  /\ Goes("motion", "steer")
  /\ UNCHANGED <<lock, active, stop, wire, steering, queues, machine, os>>

Steer ==
  /\ at["motion"] = "steer" /\ Free("motion") /\ Takes("motion", "motion")
  /\ Goes("motion", "place")
  /\ UNCHANGED <<flags, wire, steering, queues, machine, os>>

\* Variant: the command is let go of once the cursor is placed.
PlaceAndRelease ==
  /\ at["motion"] = "place" /\ Free("injector")
  /\ lock' = [motion |-> {}, injector |-> {"motion"}]
  /\ cursor' = command.pos
  /\ unsteered' = FALSE
  /\ Goes("motion", "drain")
  /\ UNCHANGED <<flags, wire, command, queues, machine, resumed>>

Place ==
  /\ at["motion"] = "place" /\ Free("injector") /\ Takes("motion", "injector")
  /\ cursor' = command.pos
  /\ unsteered' = FALSE
  /\ Goes("motion", "drain")
  /\ UNCHANGED <<flags, wire, command, queues, machine, resumed>>

DrainEvents ==
  /\ at["motion"] = "drain"
  /\ hand' = events /\ events' = <<>>
  /\ Goes("motion", "inject")
  /\ UNCHANGED <<lock, flags, wire, steering, machine, os>>

Inject ==
  /\ at["motion"] = "inject" /\ hand # <<>>
  /\ hand' = Tail(hand)
  /\ \/ Injects(Head(hand)) /\ UNCHANGED at
     \/ /\ Head(hand).input \in Blocking
        /\ Goes("motion", "wedged")
        /\ UNCHANGED <<held, down>>
  /\ UNCHANGED <<lock, flags, wire, steering, events, silenced, os>>

\* probe_window: when the OS eats what is injected, local input is released and
\* the session ends.
Sample ==
  /\ at["motion"] = "inject" /\ hand = <<>>
  /\ \/ Goes("motion", "head") /\ UNCHANGED <<stop, silenced>>
     \/ Goes("motion", "done") /\ stop' = TRUE /\ silenced' = FALSE
  /\ Drops("motion")
  /\ UNCHANGED <<active, stale, wire, steering, queues, held, down, os>>

-----------------------------------------------------------------------------
(* The cursor stream (udp_loop) and the sync thread (sync_loop) *)

\* A timeout takes the loop to its head, where it sees the stop flag; a frame, which may
\* come after the flag was last read, is dropped unless control is here.
Frame ==
  /\ at["stream"] = "recv"
  /\ \/ stop /\ Goes("stream", "done")
     \/ active /\ Goes("stream", "apply")
  /\ UNCHANGED <<lock, flags, wire, steering, queues, machine, os>>

\* By now control may be elsewhere, or here again.
Follow ==
  /\ at["stream"] = "apply" /\ Free("motion") /\ Takes("stream", "motion")
  /\ Goes("stream", "advance")
  /\ UNCHANGED <<flags, wire, steering, queues, machine, os>>

ApplyMotionFrame ==
  /\ at["stream"] = "advance" /\ Free("injector")
  /\ \E p \in Positions : command' = [command EXCEPT !.pos = p]
  /\ Drops("stream")
  /\ Goes("stream", IF stop THEN "done" ELSE "recv")
  /\ UNCHANGED <<flags, wire, cursor, queues, machine, os>>

\* The display is asked for under the injector's lock, which changes nothing; the
\* command is clamped to it later, under the other lock.
Sync ==
  /\ at["sync"] = "poll"
  /\ \/ stop /\ Goes("sync", "done") /\ UNCHANGED command
     \/ /\ ~stop /\ Free("motion") /\ command.pos # 0
        /\ command' = [command EXCEPT !.pos = 0]
        /\ UNCHANGED at
  /\ UNCHANGED <<lock, flags, wire, cursor, queues, machine, os>>

-----------------------------------------------------------------------------
(* The supervisor; time is external *)

\* A motion thread that waits, is blocked or has ended does not tick; the heartbeat
\* of the hardware's watchdog grows stale a second before the supervisor's.
Ages ==
  /\ at["motion"] \in {"waiting", "wedged", "done"}
  /\ \/ ~unsteered /\ unsteered' = TRUE /\ UNCHANGED stale
     \/ unsteered /\ ~stale /\ stale' = TRUE /\ UNCHANGED unsteered
  /\ UNCHANGED <<at, lock, active, stop, wire, steering, queues, machine, resumed>>

\* Variant: it only releases local input.
SuperviseOnly ==
  /\ at["supervisor"] = "watch"
  /\ \/ stop /\ Goes("supervisor", "done") /\ UNCHANGED silenced
     \/ ~stop /\ active /\ stale /\ silenced' = FALSE /\ UNCHANGED at
  /\ UNCHANGED <<lock, flags, wire, steering, queues, held, down, os>>

Supervise ==
  /\ at["supervisor"] = "watch"
  /\ \/ stop /\ Goes("supervisor", "done") /\ UNCHANGED <<stop, silenced>>
     \/ /\ ~stop /\ active /\ stale
        /\ silenced' = (silenced /\ ~Free("injector"))
        /\ stop' = TRUE
        /\ Wakes("supervisor", "done")
  /\ UNCHANGED <<lock, active, stale, wire, steering, queues, held, down, os>>

-----------------------------------------------------------------------------
(* The isolation pump (windows/isolation), a thread of the process, and the OS *)

\* Variant: only the OS's own events release the hardware.
WatchNothing ==
  /\ silenced /\ resumed
  /\ silenced' = FALSE
  /\ UNCHANGED <<at, lock, flags, wire, steering, queues, held, down, os>>

\* The watchdog's timer.
Watchdog ==
  /\ silenced /\ unsteered
  /\ silenced' = FALSE
  /\ UNCHANGED <<at, lock, flags, wire, steering, queues, held, down, os>>

\* on_power_event, and on_secure_desktop on the timer.
PowerEvent ==
  /\ enters < MaxEnters /\ ~resumed
  /\ resumed' = TRUE /\ silenced' = FALSE
  /\ UNCHANGED <<at, lock, flags, wire, steering, queues, held, down, unsteered>>

-----------------------------------------------------------------------------
Init ==
  /\ at = [tcp |-> "turn", motion |-> "head", stream |-> "recv", sync |-> "poll",
           supervisor |-> "watch"]
  /\ lock = [motion |-> {}, injector |-> {}]
  /\ active = FALSE /\ stop = FALSE /\ stale = TRUE
  /\ entered = FALSE /\ enters = 0 /\ sent = 0
  /\ command = [enter |-> 0, pos |-> 0] /\ cursor = 0
  /\ events = <<>> /\ hand = <<>>
  /\ held = {} /\ down = {} /\ silenced = FALSE
  /\ unsteered = TRUE /\ resumed = FALSE

Enter == HearsEnter \/ Anchor \/ Activate \/ Report
Leave == HearsLeave \/ Unfollow \/ Restore
Control ==
  \/ Turn \/ Hears \/ Enter \/ Leave \/ (\E e \in Events : HearsEvent(e))
  \/ Stop \/ Join \/ PlaceAtCommand
Motion ==
  \/ Head_ \/ IdleTest \/ Wait \/ Tick \/ Steer \/ Place \/ DrainEvents \/ Inject \/ Sample
Stream == Frame \/ Follow \/ ApplyMotionFrame

\* run has returned and left the other threads, or one is blocked in the OS for good.
Over ==
  /\ at["tcp"] \in {"returned", "failed"} \/ at["motion"] = "wedged"
  /\ UNCHANGED vars

Next ==
  \/ Control \/ Motion \/ Stream \/ Sync \/ Supervise
  \/ Ages \/ Watchdog \/ PowerEvent \/ Over

Fairness ==
  /\ SF_vars(Control) /\ SF_vars(Motion) /\ WF_vars(Stream) /\ WF_vars(Sync)
  /\ WF_vars(Supervise) /\ WF_vars(Ages) /\ WF_vars(Watchdog)

Spec == Init /\ [][Next]_vars /\ Fairness

-----------------------------------------------------------------------------
(* Properties *)

TcpSteps ==
  {"turn", "recv", "anchor", "activate", "report", "unfollow", "restore", "stop", "join", "place",
   "returned", "failed"}
MotionSteps ==
  {"head", "idle", "parking", "waiting", "tick", "steer", "place", "drain", "inject", "wedged",
   "done"}
StreamSteps == {"recv", "apply", "advance", "done"}

\* Every thread is at a step of its own, a lock has one holder, and leave() releases
\* nothing that the OS does not believe held (proved for any bounds in ClientProofs).
TypeOK ==
  /\ at \in [Threads -> TcpSteps \cup MotionSteps \cup StreamSteps \cup {"poll", "watch"}]
  /\ at["tcp"] \in TcpSteps /\ at["motion"] \in MotionSteps
  /\ at["stream"] \in StreamSteps
  /\ lock \in [{"motion", "injector"} -> {{}} \cup {{t} : t \in Threads}]
  /\ entered \in BOOLEAN /\ enters \in 0..MaxEnters
  /\ command \in [enter : 0..MaxEnters, pos : Positions] /\ cursor \in Positions
  /\ down \subseteq held

\* While the motion thread injects what it drained, the real cursor stands on the
\* follower's command, whatever the stream, the sync thread and the control thread do
\* meanwhile ("the cursor must sit on the command point before the event fires",
\* dispatch.rs:81).
ClicksLandOnCommand == at["motion"] \in {"drain", "inject"} => cursor = command.pos

\* A thread that uses the command, or injects where it placed the cursor.
Steering == at["motion"] \in {"place", "drain", "inject"} \/ at["stream"] = "advance"

\* From the moment an Enter is taken up, the threads that find active set - in this visit
\* or, being slow, in one before it - steer from the point of that Enter and not from
\* where the cursor was left ("the motion and UDP threads must never steer toward a stale
\* command", dispatch.rs:36).
SteersCurrentEntry == Steering /\ entered => command.enter = enters

\* A motion moves the command only while control is here ("Motion outside Enter/Leave is
\* dropped", threads.rs:145).
\* It does not, see README 5: active is read before the follower's lock is asked for.
MotionOutsideIsDropped == at["stream"] = "advance" => active

\* A Leave leaves no key pressed on the machine ("`leave` releases everything still held:
\* the server may never deliver the matching ups", platform/src/windows/injector.rs:50).
\* It does, see README 5: what is queued may be injected after it.
LeaveReleases == ~entered /\ at["tcp"] \in {"turn", "recv"} => held \cap Keys = {}

\* What leave will release is what the OS believes to be held, for keys: no order of
\* visits, queued events and late ticks makes it lose track of one (injector keys_down,
\* "`leave` releases everything still held"; proved in ClientProofs).
KeysTracked == held \cap Keys = down \cap Keys

\* The OS never blocks an injection.
NeverBlocked == [](at["motion"] # "wedged")

\* While control is away this machine's hardware is its user's: nothing done late by
\* another thread silences it again ("local input is already restored", dispatch.rs:76).
HomeIsNotSilenced == ~entered /\ at["tcp"] \in {"turn", "recv"} => ~silenced

\* Control that stays here is steered, or the session ends: a notification that comes
\* between the test of the flags and the wait is made up for by the supervisor
\* (dispatch.rs:53, threads.rs:59, supervisor.rs:39).
Steered == NeverBlocked => (active ~> at["motion"] = "place" \/ ~active \/ stop)

\* A request to end the session, whoever makes it, ends it, and so does waking from
\* sleep ("end the session so this machine returns to its user", client/mod.rs:314).
SessionEnds ==
  NeverBlocked => (stop \/ (resumed /\ at["tcp"] = "turn") ~> at["tcp"] \in {"returned", "failed"})

\* Even a wedged motion thread, whose injector nobody can lock any more, does not keep
\* the machine's hardware silenced (isolation/mod.rs:99, "a wedged client must never
\* leave this machine's hardware silenced").
NeverTrapped == at["motion"] = "wedged" ~> ~silenced

\* A block in the OS is confined to the motion thread: the supervisor's stop still ends
\* the session (shared.rs:82-91, "a block ... which the supervisor ... recover").
\* It does not, see README 5: the control thread locks the injector in every turn.
WedgeEndsSession == stop ~> at["tcp"] \in {"returned", "failed"}
=============================================================================
