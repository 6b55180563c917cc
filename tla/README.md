# kvmshare: a formal model

kvmshare lets one keyboard and mouse drive several machines. A **server** owns
the physical devices; every **client** is one screen
of a common virtual desktop. When the cursor is pushed through a screen edge, control moves
to the machine whose screen lies beyond it, and comes back the same way.

This directory holds TLA+ modules translated from the Rust sources in
`src/crates`, the TLC configurations that check them on small instances, and
TLAPS proofs of what holds for every instance. `PROJECT.json` ties every
definition to the lines it models, every property to a run, and every hazard of
the code to the properties that watch it.

Contents: 1 the system; 2 what is modelled, module by module; 3 the runs;
4 fairness; 5 disagreements between code and documentation; 6 the proofs;
7 what is only model-checked; 8 what is not modelled; 9 the plan.

## 1. The system

### Components

| component | source | state | operations | what makes it correct |
|---|---|---|---|---|
| Layout | `core/src/layout.rs`, `protocol/src/message/geometry.rs` | none: a list of screens | ray cast to the neighbour of an edge, exit direction, entry point, snapping on load | the ray finds the first screen it meets; a crossing leads back; snapping settles and never pushes screens over each other |
| Session | `core/src/session/` | mode, virtual cursor, wall and push latches of both sides, pointer gain, admitted and connected ids, running layout | local motion and beacons, remote motion and beacons, user actions, admission, connection, loss, removal, reload | the cursor is only where someone can answer; no latch outlives its screen; crossings follow the user's intent |
| Server core | `core/src/server/{mod,client,actions,engine}.rs` | registered connections, active latch, engine lock, policy, outbound queues | handshake, register, teardown, administrative disconnect, apply a switch, forward input | decisions applied late or out of order do not leave local input trapped or a live client unreachable |
| Server UDP and liveness | `core/src/server/{udp,liveness}.rs`, `core/src/udp.rs` | addresses, sequence numbers, last-heard clocks | receive beacon, learn address, watchdog, supervisor | a silent active client is dropped, a live one never; stale datagrams are ignored, fresh ones never |
| Client core | `core/src/client/` | `active`, event queue, injector and follower locks, condition variable | Enter, Leave, queue input, steer, beacon, supervise, reconnect | nothing is injected after Leave or from an earlier visit; no lost wake-up; no held input after a wedge |
| Client motion | `core/src/motion/` | pending deltas, gain estimate, probe | follow, correct, estimate | the follower converges and never runs away |
| Shortcut and wheel engine | `core/src/actions.rs` | held modifiers, consumed keys, wheel carry | key down, key up, wheel, rebind | every forwarded press is released, on the screen it went to |
| Clipboard sync | `core/src/clipboard.rs`, `app/src/clipboard.rs` | last injected content | poll, inject | no echo, newest content wins |
| Transport | `core/src/transport.rs`, `protocol/` | outbound queue, partial frame | frame, send, receive with timeouts | reliable frames in order or the session ends |
| Configuration and trust | `app/src/config/` | `config.toml`, trust list, written by two programs | load, validate, save, watch | the last text written is adopted; who is revoked leaves |
| Role guard | `app/src/guard.rs` | two lock files, pid file | acquire, probe the other role, release | never both roles at once |
| Daemons | `app/src/bin/` | watchers, state files, `server.cmd` | start-up, watch, reconnect, carry out commands | a command is carried out once; an ended session stays ended |
| Platform, Linux | `platform/src/{x11,evdev}` | X grab, kernel grabs, two readers of each keyboard | capture, hot-plug, grab, forward | what is grabbed is released; each event is reported once |
| Platform, Windows | `platform/src/windows` | hook statics, isolation flag, engine queue | hook, beacon timer, warp, isolate | what the session believes held is held; the way home stays open |
| GUI (Go, web) | `gui/` | settings, supervised processes, discovered peers | start, stop, switch role, edit, discover, update | see section 8 |

`PROJECT.json` lists these and the remaining parts (logging, time helpers,
packaging, installer, web pages) with their status.

### How they interact

The server process has one thread per purpose and shared maps with one mutex
each:

- the **main loop** takes captured input and commands of the app layer. It locks
  the session to decide, unlocks it, and locks the engine to act;
- a **reader** per connection does the handshake, registers the client, serves
  it and tears it down; a **writer** per connection drains its bounded queue;
- the **UDP receiver** takes cursor beacons, lets the session decide on them,
  applies what it decides, and runs the watchdog when the stream is idle;
- the **supervisor** kills the process if one of them wedges.

Switching to a client and switching home are thus decided and carried out by
three kinds of threads, with no lock held from decision to execution.
Clients answer a relative motion stream with beacons of their *real* cursor;
datagrams are lost and reordered, connections die unnoticed and come back before
they are missed, and a reload may renumber the screens under a running crossing.

### The hard behaviours

1. *Two views of one cursor.* The session keeps a virtual cursor fed by raw
   deltas; beacons report the real one, later. Crossing needs both to agree (a
   wall confirmed by a beacon, a push through it) or a fallback in time. At
   corners two walls are pushed at once and the order of loops decides.
2. *Latches.* Wall, push and fallback latches exist for the home screen and for
   the client the cursor is on; one left over from the screen just left makes
   the cursor oscillate across the seam.
3. *Ids that move.* Ids of configured screens are positions in the file, those of
   screens admitted at run time are the first free ones; both survive reloads.
4. *Decide, then act.* See above: teardown, dismissal, beacon crossing and local
   crossing interleave between their critical sections.
5. *Reconnection.* A machine may have two connections; everything keyed by id
   instead of by connection is a hazard.
6. *Pixels.* Half-open rectangles, tolerances, insets, truncating division.
7. *Press and release.* The two halves of a key are judged by different states:
   control, bindings, the capture path and the connection may change in between.
8. *A blocked injection.* On Windows an injected event can block for ever; what
   still ends the session then depends on who needs which lock.
9. *Two programs, one file.* The daemons and the GUI share files and lock files;
   either may crash between two steps.
10. *The wire.* Datagrams are late, twice or lost, their numbers wrap and start
   again; the TCP stream cuts frames anywhere.

## 2. What is modelled

| module | models | proofs |
|---|---|---|
| `Layout` | operators of `layout.rs` | `SessionProofs` |
| `LayoutPage` (`LayoutPageMC`) | every arrangement a user can drag together, normalised | `SessionProofs` |
| `Switching` | abstract: what the session promises about control | `SessionProofs` |
| `Session` (`SessionMC`) | `session/`: one action per public method | `SessionProofs` |
| `SessionIntent` (`SessionIntentMC`) | `Session` with a history of what the user did | `SessionProofs` |
| `SessionPush` (`SessionPushMC`) | `Session` with a history of one steady press | `SessionProofs` |
| `Server` (`ServerMC`) | the server's threads around `Switching` | `ServerProofs` |
| `Admission` | handshakes, policy and configuration, from the file to the main loop | `HooksProofs` |
| `Link` | the two streams between the server and one client | `LinkProofs` |
| `Shortcuts` (`ShortcutsMC`) | `actions.rs` and the keys it lets through | `ShortcutsProofs` |
| `Client` | the threads of a client's session | `ClientProofs` |
| `Capture` | Linux capture: the X thread and the evdev reader | `CaptureProofs` |
| `Hooks` | Windows capture: hooks, timer, engine thread | `HooksProofs` |
| `Roles` | daemons, lock and state files, `server.cmd`, the GUI's auto-connect | `RolesProofs` |

**Layout.** Rectangles are records `[x, y, w, h]`, a screen adds its id and name;
a layout is a sequence, as the `Vec` is. `Neighbor` is the ray cast with its
tie-breaks: nearest along the ray, then largest overlap, then first in the list.
`Normalized` is the bounded iteration of pairwise snapping, written as a
recursive function. `LayoutPage` (`PageSpec`) drags the screens of a start desktop
about and normalises what results, as the server does when it adopts it.

**Session.** Every public method runs under the session mutex, so a method is an
action with its early returns as disjuncts. `LocalMotion`, `LocalBeacon`,
`RemoteMotion` and `RemoteBeacon` are the boundary logic; `ForceLocal`, `JumpTo`,
`SwitchNext`, `ToggleLock` the user actions; `AdmitKnown`/`AdmitNew`,
`UpdateScreenInfo`, `ClientConnected`, `ClientDisconnected`, `ClientRemoved` and
`SwapLayout` what the server calls. `out` is the list of actions the call
returned. Abstractions:

- an `Instant` kept in a latch is its age in ticks, which stops at the threshold
  it is compared with; `Tick` ages all latches. The thresholds are constants and
  the instances keep their order (40 ms < 120 ms < 150 ms) where it matters;
- the pointer gain (an `f64`) is a multiple of `1 / GAIN_DEN`; the carry of the
  scaled motion is exact, and truncation is toward zero as in the code;
- `MAX_REACH` bounds the virtual coordinates explored. At home the cursor is
  clamped anyway; on a client a refused crossing lets it wander
  (`intent_outward` shows that), which is why the bound is needed;
- the positions beacons report are constants: `HomeSpots` those of the server's own
  capture, which lie on its display, and `FarSpots` those of clients, which the
  code clamps to the screen;
- chords and wheel settings belong to `actions.rs`: here a chord is the user
  action it triggers, and forwarded input is a message that does not change the
  session;
- the early return of `handle_remote_motion` for a screen that has vanished is
  left out: `RemoteIsReachable` shows that it is never taken.

**Switching** is `Session` with the geometry taken away: mode, connected ids and
screen ids, with four kinds of step (switch to a connected screen, connect, lose
a client, rearrange). It is what the rest of the server relies on, and `Server`
uses its `Switch` step as the decision of the session.

**Server.** A thread is a member of `Conns` (one reader per connection), `Main`
or `Udp`. `job[t]` is the critical section a thread enters next, so each step of
the model is one lock acquisition of the code: `teardown` is `Farewell`,
`Unregister`, `Clear`, `Inform`; `disconnect_client_inner` is `Dismiss`, `Erase`,
`Forget`, `Disown`, `Resign`, `Unlatch`; `apply_action` is `SwitchToLocal`, or
`SwitchTo` followed by `EnterClient` under the engine lock, because the active
latch is set a few lines before the clock is reset and the Enter is queued, and
other threads can look in between. `LocalInput` includes the escape key, which
brings control home even when the session is home already. `away` stands for
grab, isolation and the hidden cursor, which the code always changes together.
`told[c]` is the last word about control in the queue of a connection; an entered
client sends beacons and no other does. An `Option` is a set of at most one.
Abstractions: handshakes that are refused leave no trace; a `Conn` stands for any
number of connections of its machine, one after the other. Policy and reloads are
in `Admission`, the outbound queue is in `Link`.

**Admission** follows one decision of the operator. `GuiLoads` and `GuiSaves` are
the other writer of the file; `SeesChange`, `Loads`, `Publishes` the watcher;
`ApplyReload` and `ApplyPolicy` with the stepwise disconnect the main loop;
`Hello` to `Teardown` a connection, one step per lock (`AdmissionSpec` is the whole); the sink records trust and
screen size in the file, and so feeds the watcher again. What the file says is
four bits about one machine.

**Link** has the client's outbound queue (bounded; reliable frames and
coalesced motion share it), the socket that delivers halves of frames, the
transport that joins them, and the bag of datagrams in flight, which is never
emptied by a reconnection. A datagram carries its true number; receivers see only
the remainder modulo `Space`, as the code sees 32 bits.

**Shortcuts.** One key event is one step from the finger to the injected event,
because the session handles it under its lock. `Sanitized` is
`Bindings::sanitized`, `Press` is `key_down` with its cases (inert, repeat,
modifier, match, start of a chord, other), `LetGo` is a release that is reported,
with `key_up`, `Expire` the timeout of a pending chord, `Reload`, `Cross`, `Connect`,
`Disconnect` what the rest of the server does in between. `down[c]` is what the
client's injector holds. `Captures` says which servers are meant: with one capture path
(Windows, or X without evdev) or with two that hand over at a crossing (`handsOver`).
With two, `seen` holds the presses the path in use has reported, and `Drop` is the
release of another one, which the reader does not report and X need not. `lost` and
`stuck` are a history of what was dropped.

**Client.** `at[t]` is the place of a thread: one action per critical section of
the control thread (`Turn`, `Hears`, `Anchor`, `Activate`, `Report`, `Unfollow`,
`Restore`, `Stop`, `Join`), of the motion thread (`IdleTest`, `Wait`, `Tick`,
`Steer`, `Place`, `DrainEvents`, `Inject`, `Sample`), of the stream (`Frame` tests
`active`, `Follow` takes the follower's lock later, `ApplyMotionFrame` moves the
command), sync and supervisor threads; `lock` says who holds the motion and the injector lock,
and `IdleTest` and `Wait` are apart because notifications are sent without the
lock. A button of `Blocking` wedges whoever injects it. `Watchdog` is the
isolation pump's timer.

**Capture.** The capture thread goes through events, commands, nudge and sleep
(`CaptureThread`), the reader through check, purge, poll and drain (`Reader`).
Keys that X has seen and keys in the kernel's buffers are queues of numbered
events, so that a report can be counted. `Stalled` is what the supervisor sees.

**Hooks.** `Press`, `Repeat`, `Release` are `keyboard_proc`, `MouseMove` is
`mouse_proc`, `Timer` a `WM_TIMER` with the flush after it, `Hears` and `Apply` the
main loop, `EngineLoop` the queued warp. `os` is what Windows believes to be held,
`told` what the session does.

**Roles.** A process goes through its start (`TakesOwn`, `Probes`, `EndsProbe`,
`Announces`), the client's loop (`Connects` ... `LinkClosed`, `Reconnects`) and its
end (`Leaves`, `Reaped`, `Crashes`); the server reads, clears and carries out
`server.cmd` (`Reads`, `Clears`, `Sends`); the GUI starts, stops, cleans and
commands; a tick of auto-connect looks, reads, chooses and starts, each at a
different moment.

`Switching` is the interface between `Session` and `Server`. The other modules
keep of the session only where control is, and let it switch at any moment; they
are composed with it by that assumption, not by a common state space.

Some definitions have a comment that starts with "Variant": these are plausible
mistakes, and each property of a passing run is violated when the definition it
belongs to is replaced by one of them (`mutants` in `PROJECT.json`).

## 3. The runs

Every run finds no violation.

| run | question | instance |
|---|---|---|
| `session_control` | is the cursor always where it can be answered, through every order of calls? does `Session` implement `Switching`? | two clients, two configurations that shift ids, three-screen row |
| `intent_corner` | do crossings follow intent, and intent lead to crossings, with two walls at once? | neighbours right and below, diagonal motion |
| `push_gain_up` | does the fallback rescue a steady press? | gains 1 and 3/2 |
| `layout_page` | does the ray cast agree with a pixel walk, does snapping settle? | three screens, about two thousand arrangements |
| `server_reconnect` | teardown, dismissal, watchdog and crossings in any order | one machine, two connections |
| `client_control` | do the threads of a client disturb each other, the next visit, or the machine's user? | two visits, one key, one button that may block, one event queued at a time |
| `shortcuts_keys` | is every consumed press paired with its release, with one capture path and with two? | two clients, three configurations, a modifier, a chord key, a prefix; three keys held at once, one release of a key dropped |
| `capture_crossing` | do two readers of one keyboard share it without loss of control? | two keyboards, one plugged in late, two crossings, two events |
| `admission_policy` | does the server end up with the file, and without the revoked? | one connection at a time, one save, one event behind |
| `roles_guard` | is there one role, and are commands and stops respected? | two processes, one command |
| `link_wire` | are the streams read as they were sent? | two connections, four messages, numbers modulo 8 |
| `hooks_keys` | do the hooks keep keys, escape and beacons right across switches? | a modifier, Scroll Lock, a chord key; two strokes, one motion, one switch away |

Further configurations reproduce the disagreements of section 5; TLC finds their
properties violated: `Session_entry`, `Session_rides_along`, `Intent_outward`,
`Intent_disarm`, `Push_gain_down`, `Server_isolated`, `Server_zombie`, `Client_wedge`,
`Client_late`, `Shortcuts_stuck`, `Shortcuts_handover`, `Capture_contended`,
`Admission_revoked`, `Roles_ended`, `Link_late`, `Link_deaf`, `Hooks_local` and
`LayoutPage_near`. For example `tlc -config Roles_ended.cfg Roles`. `Client_late`,
`Shortcuts_handover`, `Hooks_local` and `LayoutPage_near` have several properties and
show them all with `tlc -continue` (`LayoutPageMC`, `SessionMC`, `SessionIntentMC`,
`SessionPushMC`, `ServerMC` and `ShortcutsMC` are the modules of the others that
have one).

What the properties say:

- `RemoteIsReachable`, `LatchesStartAfresh`, `WorldIsTold`, `HomeCursorOnScreen`,
  `ImplementsSwitching`: the cursor is home or on a connected client's screen of
  the running layout; no push, armed wall or beacon survives a switch, from one client
  to the next included; a call that moves the cursor to another screen returns the
  switch for the server to carry out, and none returns another; the virtual cursor at
  home is on the server's screen.
- `MotionCrossesOnIntent`, `BeaconCrossesOnIntent`, `ParkCompletes`: judged by a
  history kept from the *inputs*, not from the session's own latches. A motion
  crosses an edge only if it pushes through it and a beacon confirmed the wall,
  or the press has lasted as long as the fallback; a beacon crosses only with a
  recent push; and a beacon that parks on a wall being pushed does cross.
- `SustainedPushCrosses`: pressing one edge for twice the fallback delay, moving
  in every tick, crosses.
- `RayFindsFirstScreen`, `CrossingsReturn`: the ray cast against a reference that
  walks the ray pixel by pixel, and the way back.
- `SnappingKeepsApart`, `NormalizedIsFixedPoint`: normalisation makes no two screens
  overlap and settles, on a `Regular` desktop. The hypothesis is needed (5.23, 5.24):
  when two sizes differ by no more than twice the tolerance, screens aligned at one
  end are apart at the other by as much, and pull a third two ways.
- `TeardownSparesOthers`: a teardown never unregisters or deafens another
  connection. `ActiveHasClock`: once all decisions are carried out, the active
  client has a last-heard clock, so the watchdog can judge it.
  `LatchIsReleased`: a latch on a client that does not have control does not
  stay.
- `ClicksLandOnCommand`, `SteersCurrentEntry`, `HomeIsNotSilenced`: no thread of
  an earlier visit moves the cursor between placement and click, steers, in a visit,
  from the entry point of another one, or silences the hardware once control is back.
  What a late thread still does after control left is 5.25 and 5.26. `Steered`,
  `SessionEnds`, `NeverTrapped`: a lost wake-up is made up for, a stop ends the
  session, and a wedged injection never leaves the hardware silenced.
- `NothingOwed`, `FreeKeysAreReleased`, `ChordIsTyped`: the engine waits for no
  release but that of a key that is down, keys no binding names come up everywhere, and
  a chord matches only with its modifiers under the user's fingers. Where two paths
  hand over, the first and the last allow for the releases that were dropped, each
  counted (5.27); the second needs no allowance.
- `ReportedOnce`, `NeverMistakenForDead`, `GrabsFollowControl`, `EscapeComesHome`:
  for keyboards present from the start, through every crossing and hot-plug.
- `AdoptsConfig`, `RevokedLeaves`: the policy ends up as the file's, whoever
  writes it; a revoked machine ends up disconnected, except by a handshake that
  was between its check and its registration (5.11).
- `OneRole`, `CommandsRunOnce`, `EndedStaysEnded`: mutual exclusion of the roles,
  no replay of a command, no restart of a session the GUI saw ended.
- `CursorFollowsNewest`, `FramesInOrder`, `FreshBeaconsPass`: an accepted motion is
  newer than all before it; frames come out whole, in order, none twice; what the
  live connection sends is not judged stale for ever.
- `ToldIsHeld`, `EscapeComesHome` (of `Hooks`), `BeaconsSettle`: across switches,
  shortcuts and reloads the session holds no key the user does not (or let go where
  no hook runs); Scroll Lock comes home, if it is pressed once isolation is set and no
  release of an earlier press went unseen (the others are 5.28); and the last beacon
  the main loop took is where the cursor is, be the session home or, where it ignores
  beacons, away.

Bounds and why they are enough. Screens are 4 to 7 pixels wide with a wall band
of 1, an inset of 2 and a tolerance of 1: each band leaves an interior, the inset
lands beyond the band, and both sides of every comparison occur. Motions of 3 or
5 pixels reach past an edge from the interior or stay inside; beacons report both
walls and the middle. Three screens suffice for "the neighbour of a neighbour",
for a third screen that could intercept a ray, and for two walls at a corner. Two
clients and two configurations give admission of a known and of an unknown
client, an id that shifts, and a screen that disappears under the cursor. In
`Server`, two connections of one machine are the smallest case in which an old
and a new connection coexist; the two safety properties are proved for any number
of machines (section 6). The watchdog property was not exhausted for two machines:
with a second machine the instance has more than eight million states.

`HomeCursorOnScreen` is checked with the server's screen at the origin; with the
server elsewhere `force_local` breaks it, by the same mix-up as 5.1.
`ParkCompletes` is promised for a push through one edge only: the single push
latch keeps the last edge of a diagonal push, so a park on the other wall a moment
later does not cross (`motion.rs:256`).

The newer runs are bounded by counts of events. Each hazard they watch needs at
most two visits, two crossings, one reconnection or one reload between two halves
of something, and each mutant shows that the bound reaches it. In `Link`, a space
of 8 with 2 messages of delay keeps the assumption of the code, less than half the
space in flight, while numbers do wrap. In `Client`, one queued event is enough to
have an event of one visit meet the next. In `Admission`, `MaxConns = 1` lets a
machine connect again and again, one connection at a time; the overlap of two is
`Server`'s subject.

## 4. Fairness

The session runs need none: they check safety and step properties. `Server`'s
`LatchIsReleased` is a liveness property and assumes, in `Fairness`,

- weak fairness of `Proceed(t)` for every thread: once begun, a handshake, a
  teardown, a dismissal or a switch goes on. The code takes each lock for a few
  statements and never waits for another event while holding one;
- weak fairness of `Watchdog`: the receiver's read times out after 8 ms, and the
  check runs on every idle wake;
- weak fairness of `Silence(id)` while no registered client of `id` has control:
  time passes, and a client that is not in control sends no beacons.

`Client` assumes weak fairness of the stream, sync and supervisor threads, of the
clock and of the watchdog's timer, which all loop with a bounded wait, and strong
fairness of the control and the motion thread: their steps are lock acquisitions,
enabled again and again while others take the same lock for a few statements, and
`std::sync::Mutex` lets a waiter in eventually. `NeverBlocked` is a condition of
`Steered` and `SessionEnds`: the operating system answers every injection; what
holds without it is `NeverTrapped`. `Capture` assumes weak fairness of both
threads, which poll, and of the main loop for an Escape. `Admission` assumes it of
the watcher's poll, the main loop, the sink and each handshake; an operator's
saves and a machine's connections are not assumed. `Hooks` assumes it of the timer,
the main loop and the engine thread. `Roles` and `Link` need none.

Connecting, hanging up, user input and dismissals are never assumed to happen.
`ReconnectsEnd` is a condition of the property: a machine that reconnects forever
can always supersede the connection the watchdog is about to tear down.

## 5. Where code and documentation disagree

1. `jump_to` uses the centre of a screen in virtual coordinates as a local point
   (`motion.rs:131`); away from the origin the cursor lands off the screen.
2. `swap_layout` re-appends a dynamic screen under its old id, which the new
   configuration may have given to another screen (`session/mod.rs:328`).
3. A crossing refused after a beacon armed the wall returns before the cursor is
   clamped (`motion.rs:364`); motions back inward then count as pushes outward.
4. With a gain below one, frames that scale to zero pixels restart the fallback
   (`motion.rs:386`), so slow pressing never crosses.
5. A crossing decided before, and applied after, the teardown of its client
   leaves local input isolated; the watchdog clears the latch, but the session is
   home already and nothing releases the input (`server/udp.rs:83`). The trace has
   eighteen states: the main loop decides, the reader hangs up, unregisters,
   informs the session and applies the switch home, then the main loop applies its
   own. The escape key recovers.
6. The part of a teardown that follows the atomic removal still acts by id
   (`server/client.rs:246`), and so do the removals of an administrative
   disconnect (`server/mod.rs:620-624`); a replacement that registers in between
   is unknown to the session or refused by the receiver.

7. Every turn of the client's control loop locks the injector (`client/mod.rs:320`),
   so a blocked injection stops that loop as well and the session never ends
   (`Client_wedge`).
8. `leave` drains `buttons_down` before it releases buttons, and the release of a
   button that is not in the set is ignored: held buttons stay down on the client
   (`x11/injector.rs:476`, `windows/injector.rs:346`). `KeysTracked` of `Client` is about
   keys for this reason.
9. An I/O error leaves `Client::run` by `?`, past the stop and the joins
   (`client/mod.rs:334`): the threads of the dead session stay.
10. A key pressed before, and released after, a reload or a crossing can stay down
   on a client (`Shortcuts_stuck`).
11. A machine revoked between the check and the registration of its handshake keeps
   the session it opens (`Admission_revoked`, `server/mod.rs:547`).
12. A client that starts and is dismissed between two ticks of auto-connect is
   started again (`Roles_ended`, `autoconnect.go:102`).
13. One late datagram of a previous port takes the address back and resets the
   numbers: beacons are applied out of order (`Link_late`); an unregistration
   between two locks of the receiver can leave a high number behind
   (`Link_deaf`, where `TornBetween` is true).
14. A reliable frame is dropped when the client's queue is full
   (`server/client.rs:92`).
15. While an X grab is refused, an idle capture thread looks dead to the supervisor
   (`Capture_contended`).
16. On Windows the repeats of a swallowed chord reach the desktop, and its
   swallowed release then leaves the key down there (`ChordsAreHidden` in `Hooks_local`);
   so does a key held while control leaves (`LocalKeysAreReleased`).
17. The Windows timer sends the beacon before the motion it follows from
   (`capture.rs:548`), the X11 capture after it.
18. Commands of the app layer are read only when input pauses
   (`server/mod.rs:410`).
19. A line written to `server.cmd` between the watcher's read and its rename is
   lost (`kvmshare-server.rs:344`).
20. The lock of the configuration file covers the write and not the load before it
   (`kvmshare-server.rs:326`): a save can undo another program's, a revocation
   included.
21. The client's supervisor may wake before the first tick of a visit and take the
   idle stretch before it for a wedge (`supervisor.rs:36`).
22. "A delta moving away from a wall disarms it" (`motion.rs:249-252`). On a client
   the edges are tried one by one, and a push that leads to a screen that may not be
   entered returns at once (`motion.rs:364-376`): a diagonal motion refused at one
   wall leaves the other armed, though it moves away from it (`Intent_disarm`). The
   client is not sent that motion, so its cursor is still where the beacon had it,
   and the history of `SessionIntent` counts it neither way.

23. "Snapping is cosmetic, not functional" (`layout.rs:52-53`). It can push two
   screens into each other: 1680x1050 at (0, 0), 1920x1080 at (1680, -15) and 1920x1080
   at (0, 1065) do not overlap. The second is aligned with the server's top, the third
   with its left edge and its bottom, and the two then share 240x30 pixels, where
   `issues()` warns and the ray cast has two answers (`SnappingIsCosmetic` in
   `LayoutPage_near`).
24. "Iterate to a fixed point" (`layout.rs:56-57`). There may be none: with 1366x768 at
   the origin, 1920x1080 at its right and 1360x768 below, each normalisation moves the
   server's own screen 48 pixels to the right, eight passes of a six-pixel
   disagreement; an admission and a removal normalise the running layout again
   (`session/mod.rs:289`, `:387`), so it drifts on, away from the origin that
   `force_local` assumes (`SnappingSettles` in `LayoutPage_near`).
25. "Motion outside Enter/Leave is dropped" (`client/threads.rs:145`). `active` is
   read before the follower's lock is asked for (`:149`, `:218`); a Leave, and the next
   Enter, fit in between (`MotionOutsideIsDropped` in `Client_late`).
26. "`leave` releases everything still held" (`windows/injector.rs:49-52`). An event
   queued before the Leave is injected after it, by the tick under way or by the first
   of the next visit (`shared.rs:127`); a key of it stays down meanwhile
   (`LeaveReleases` in `Client_late`).
27. "A consumed press must always own its release" (`actions.rs:271-272`). With evdev,
   a press made at home was reported by X; after the crossing the reader, which has not
   seen it, drops its release (`evdev/device.rs:161`). The engine goes on waiting and
   takes a later one from the client (`NothingOwedAtRest` in `Shortcuts_handover`), and
   keeps a modifier for held that is not, so that plain keys fire chords
   (`ChordIsHeld`), although its record is "authoritative" (`actions.rs:237-239`).
28. "While the cursor is away, Scroll Lock is the universal come home key"
   (`windows/capture.rs:61-64`). Pressed between the session's decision and the
   isolation it is forwarded as a plain key, and after a release that no hook saw it
   counts as a repeat (`EveryPressComesHome` in `Hooks_local`).

With two machines one more interleaving appears in `Server`: a dismissal tells the
session first and clears the latch last (`server/mod.rs:627-637`), so a crossing
to a machine that announced itself in between loses its latch and leaves the
session remote with input isolated. It is listed as a hazard without a run.

## 6. The proofs

Assumptions. In `Session`: tolerance, ticks and inset are natural numbers,
`MAX_ID` is one; motions, beacons and sizes are whole numbers; a configuration has at
least one screen and no empty one (`Config::validate`). In `Server`, home is no
machine, every connection has a machine, and thread names are distinct. In `Link`,
the number space is even. In `Capture`, Scroll Lock is on a keyboard that is there
from the start. In `LayoutPage`, screens have different ids and whole rectangles.
TLC evaluates them in every run.

**SessionProofs.** One module for `Layout`, `LayoutPage`, `Switching`, `Session`,
`SessionIntent` and `SessionPush`.

*Operators.* Facts about the lists a layout is made of (appending, joining, filtering
keep and lose the ids they should); `NeighborIsAnotherScreen` (the ray cast returns a
screen of the layout, never the one left); `ClampLandsInside`. `NormalizedMovesOnly`:
a normalisation, however many passes it takes, keeps every screen's place, id, name
and size. `Normalized` is a recursive function, so this needs induction; the
library's theorems would take the induction predicate as a parameter, and
`SetInduction` says the same of a set of numbers, from the least element of its
complement. `SettlingKeepsSizes` applies it to the passes (`IteratesExist`,
`StaysIn`).

*The ray cast.* `RayTheorem` and `ReturnTheorem`, for every arrangement under
`BroadScreens`: each side is more than half the tolerance. Of thinner screens, one
that lies wholly behind the edge would still be taken for one that touches it; no
display is eight pixels wide. The walk and the ray cast are compared through gaps:
a screen that the walk meets crosses the ray, starts beyond the edge and has no
screen between (`HitIs`), and a candidate of `neighbor` with the smallest gap that is
alone is the answer (`NearestIsBest`). On a desktop without overlaps two screens that
cross the same ray lie one beyond the other, so that the first on the walk has the
smallest gap, slack of the tolerance included. `ReturnTheorem` turns the ray around.
`TheoremsApply` in `LayoutPageMC` has TLC evaluate the hypothesis.

*Normalisation.* `PairStaysApart` and `PairSettlesAtOnce`, for two screens thicker
than the tolerance, wherever the second is dropped: they are never pushed into each
other, and what is normalised once stays. `SnapKeepsPairApart` is about one
snap, of any two screens with a pixel. `Snap` tests the axes one after the other and
moves in between; for thick screens that is two tests side by side (`SnapIs`). `Stable`
says that neither screen would move the other along an axis, and `PairSettles` that a
snap each way leaves them so: the first may bring their corners together, the second
closes what is left. `TwoSettle` then follows the eight passes. For three screens the
statement needs the sizes (5.23, 5.24) and is model-checked; for four it is false
whatever the sizes.

*Switching.* `AnsweredTheorem`: the abstract promise keeps the cursor answered.

*Where the cursor is.* `ReachableTheorem`, `LatchesTheorem`, `RefinementTheorem`,
`CrossingEntersInside`, `ToldTheorem`. The inductive invariant is

    Inv == StructureOK /\ RemoteIsReachable /\ LatchesMatchMode

`RemoteIsReachable` alone is not inductive: a reload keeps the cursor where it is
only if a screen with its id remains, which needs home to be in every layout and
dynamic screens to be well formed lists, and a disconnection must not concern the
server's own id (`StructureOK`). The proof splits the actions in two: input events
satisfy one lemma each that they are `Moves` (they leave desktop and connections
alone, and move the cursor only to a reachable screen), and `MovesKeepsInv` and
`MovesIsSwitch` do the rest once; the calls of the server have one lemma each.
The same step lemma yields the refinement of `Switching`. That
every switch clears the latches (`LatchesTheorem`) and is returned (`ToldTheorem`,
with `LastSwitch`, that the last switch returned names the cursor's screen) is read
off the same lemmas. `LatchesMatchMode`, that the latches of one side are empty while
the cursor is on the other, is there for the intent proofs below.

*Types.* `TypeTheorem`. A configuration's screens take their position for an id
(`id as u8`, `config/geometry.rs:17`), which `Config::validate` does not bound, so the
theorem assumes that no configuration has more screens than there are ids. What
the types need beyond themselves (`TypeInv`) is that the layout is a list of screens
with whole rectangles, through normalisation, reloads and removals, and that the
carry of the scaled motion is a whole number.

*At home.* `HomeTheorem`: the virtual cursor at home is on the server's screen as long
as that screen is `HomeUnmoved`: what the session keeps as `local`, at the origin,
where the capture reports positions. In general it is false, for the
two reasons the hypothesis excludes: `force_local` takes the virtual centre for a local point (5.1), which is
the same only at the origin, and an admission or a removal may move the server's own
screen by normalising the layout (5.24) while `local` stays. Through `session_control`
the hypothesis holds, as TLC shows when it is given as an invariant.
`HomeOnFixedDesktop` discharges it for a desktop that is not rearranged, under
`HomeIsDisplay`: the server's screen is at the origin and its capture reports
positions on it.

*Intent.* `MotionTheorem`, `BeaconTheorem` and `ParkTheorem` say, for any desktop, any
motions, gains and thresholds, that control crosses an edge exactly on the user's
intent, as the history of the inputs has it. They hold for `IntentSpec`, a desktop
that is not rearranged, under two hypotheses: the ids of `TypeTheorem`, and
`HomeIsDisplay`, that the server's screen is at the origin and that its capture
reports positions on it. `TheoremsApply` in `SessionIntentMC` has TLC evaluate both in
the run. The invariant that ties the session's latches to the history is

    IntentInv == Distinct /\ HomeIsLocal /\ SeenTyped /\ WallsSeen /\ BeaconSeen
                 /\ PushSeen /\ TriedSeen /\ PastTried

An armed wall is one the last beacon reported and no motion left (`WallsSeen`); a
beacon in a latch is at least as old as the last one (`BeaconSeen`); the push latch
holds a push that happened, and a recent push is never older than it (`PushSeen`: one
half is for `BeaconTheorem`, the other for `ParkTheorem`); a press in progress is no
longer than the time its edge was tried (`TriedSeen`). `PastTried` is the part that
is easy to overlook: the cursor can stay outside its screen after a refused crossing,
and then every edge it lies past was pushed. `HomeIsLocal` and `Distinct` make "the
screen of the cursor" one screen, and at home the rectangle the beacons are read in.
The proof has one lemma per handler; what a motion does to the latches is shared by
both sides (`MotionHistory`, `MotionPushes`, `MotionPasses`, `MotionStays`).

*A sustained press.* `PushTheorem`: a press that moved in every tick of twice the
fallback delay, with no beacon, crosses on the next motion if a screen can be entered
there. Its hypotheses are `HomeIsDisplay`, the ids, a fallback that is not zero, a
beacon that is stale after two of them (120 ms against 300), and gains of at least
one: below one it is false (5.4). `HoldInv` says what the session remembers of a
press: the cursor rests on the edge, inside its screen; no beacon is more recent than
the press; and from the second motion on a fallback is in progress that started at
most a tick after the press. The first motion may be lost to the carry of an earlier
one, or bring the cursor back from outside (5.3); at a gain of one every later motion
moves at least a pixel, so none drops the latch. `Motion`, `Beacon` and
`HomeIsDisplay` are in `Session`, for both histories.

**ServerProofs.** `TypeTheorem` (with the engine lock held exactly while a thread
enters a client), `TeardownTheorem` and `ClockTheorem`, for any number of
machines and connections. `TypeOK` needs two more conjuncts to be inductive: one
holder of the engine lock (`LockExclusive`; `EnterClient` frees it whoever holds
it) and `EntersClient`. `TeardownTheorem` needs `OnePerMachine`, that a
registration replaces the older one. `ClockTheorem` rests on `ClockOrCleanup`: an
active client without a clock always has a thread that is about to reset the
clock or to clear the latch. `IsolationTheorem`: while a client is active, local
input is isolated, unless the engine lock is held to enter it. The latch, the grab and
the isolation change together under that lock; teardowns clear the latch without it,
which cannot hurt. `Server` takes the cursor's moves from
`Switching`, so that it keeps the promise says little and is not stated.

**ShortcutsProofs.** `NothingOwedTheorem`, `FreeKeysTheorem`, `ChordTheorem`, for any
keys, bindings, clients and reloads, and for servers with one capture path and with
two. `AtRestTheorem`: with one, an engine with no key held waits for nothing; with two,
TLC refutes it (5.27). The invariant is `Consumed /\ Believed /\ Placed`: what is
awaited is held or was dropped; the engine's record of the modifiers is within what
the user holds or a hand-over dropped, and the free keys a client holds down are among
those the path in use saw go down; the bindings in use come from a configuration. The
second needs that a crossing leaves nothing down on the client it leaves (`Gone`),
which is why a hand-over forgets no key that a client holds. The proof has a lemma for
presses, one for reported releases, one for dropped ones and one for the rest.

**RolesProofs.** `OneRoleTheorem`: no two roles run together, for any number of
processes, starts, kills and crashes. `LockInv` relates phases and locks: a process
past its lock holds it, it holds the other one while it probes, and while a process
of one role is up, none of the other role is past its probe. The last part is the
reason a probe after the own lock suffices, whichever daemon starts first.
`GuiTyped` says what the GUI may start. `CommandsTheorem`: no command runs twice, for
any number of commands and servers that come and go between two steps of the
watcher. `CommandInv` says that what the file holds, and what the watcher has read,
was given and not carried out, and that the two share nothing once the watcher sends
(`NeverBoth`): the file is emptied before the first command is carried out.
`EndedTheorem`: a session that the operator ended, and that a tick of auto-connect has
seen running, is not started again. Between the end and the next tick nobody has
written the pause yet, so `EndedInv` settles beforehand what that tick will find: a
client that was seen waits for the next tick (`SeenRunning`), and once ended it says
"stopped" and does nothing but leave (`StopPending`, `OnlyLeaving`), whoever else the
GUI stops (`ClientStops`).

**ClientProofs.** `TypeTheorem`, `ClicksTheorem`, `EntryTheorem`, `HomeTheorem` and
`KeysTheorem` (of a session's keys, `leave` releases every one that is down), for any
keys, buttons, queue and number of visits. `MotionLock` ties the steps of the three
threads that use the command to the follower's lock; `Anchored` says what the control
thread has written at each of its steps when it sets `active`; `Restored` bounds the
silence of the hardware by an Enter and the end of the Leave after it.

**HooksProofs.** `ToldTheorem`, for any keys, bound chords, strokes and switches. The
session's keys are among those the hook has down, and those among the keys held or let
go unseen (`ToldIsDown`, `DownIsReal`); a consumed Scroll Lock is down and was never
told.

The module also holds the proof about `Admission`. `RevocationTheorem`, for any number
of connections, saves and events: while the policy in force revokes the machine and
the main loop is not in the middle of a disconnect, whoever is registered slipped
through, which means that its handshake stood between the check and the registration
when a policy was applied. So that gap (5.11) is the only one; `RevokedLeaves` says
that the main loop gets there. `RevocationInv` has three parts: who is registered has
not ended (`RegisteredIsOpen`), nobody checked against a policy that is gone is on the
way in without being known to have slipped, and a registered machine that did not slip
is being disconnected (both `CheckedOrSlipped`).

**LinkProofs.** `NewestTheorem`, `FreshTheorem` and `FramesTheorem`, for any even
number space, queue length, number of connections and of messages. `Following`: the
client compares with the remainder of the newest number it applied, and the sender is
less than half the space ahead of it, so that "newer" on remainders is newer on
numbers (`NewerIsGreater`, from the uniqueness of quotient and remainder). Less than
half the space on its way is a guard of the model, as it is a premise of the code's
comparison; so is that one connection sends fewer beacons than half the space, 2^31.
`Tracking`: the server's tracker has the newest number of the port it learned, and a
datagram past the first lock has its port learned. This needs `~TornBetween`: an
unregistration between the receiver's two locks leaves a number behind, and TLC shows
the consequence (`Link_deaf`). `Framing`: the buffer and the stream together are the
pieces of the next frames in order, and the queue holds those accepted after them,
with motions between. It is stated by positions, so no recursion over the queues is
needed.

**CaptureProofs.** `AliveTheorem`, where X grants every grab it is asked for; without,
it is false (5.15). `GrabComes` follows the last grab command on its way: if the
thread is to hold the grab, it does or a command that takes it waits with its byte in
the pipe. `OnceTheorem`: no event of a keyboard that is there from the start is
reported twice. `Once` says that an event has a number of its own, that X's queue has
only what was not reported, and that while the reader forwards, every keyboard is
isolated and nobody but the kernel's buffer knows of its events; `purge` is the one
step at which this does not hold yet.

## 7. What is only model-checked

Every invariant of the runs is stated by a theorem, and every action property.
What stays with TLC:

- liveness, which the provers do not do under fairness, and everything about
  enabledness: `LatchIsReleased`, `Steered`, `SessionEnds`, `NeverTrapped`,
  `GrabsFollowControl`, `EscapeComesHome` (of `Capture` and of `Hooks`),
  `AdoptsConfig`, `RevokedLeaves`, `BeaconsSettle`;
- `SnappingKeepsApart` and `NormalizedIsFixedPoint` of three screens whose sizes are
  equal or clearly different: what eight passes over six ordered pairs do is a
  case distinction over iterated data, and neither half of it is preserved by a
  single snap;
- `HomeCursorOnScreen` while the server's own screen moves: it is false then;
- the intent properties and `SustainedPushCrosses` on a desktop that is rearranged
  meanwhile: `SessionIntent` and `SessionPush` leave reloads and new screens out, for
  a history per screen has no meaning when ids change hands (5.2).

## 8. What is not modelled

Message encodings, logging, time helpers, packaging and scripts have no state worth
a model; the unit tests cover the encodings. The GUI's windows, tray, pages,
discovery, installer and self-update are presentation and file handling; what they
do to the daemons, any arrangement of screens, any save, start, stop and command,
is an input of `LayoutPage`, `Admission` and `Roles`.

- *Client motion* (`core/src/motion/`): the follower, the gain estimate and the
  probe are a control loop over floating point numbers; its correctness is
  convergence, which bounded integers do not show. `Client` keeps its command
  point.
- *Wheel*: scaling with a remainder (`input.rs`), and the wheel daemon of the
  Linux client (`wheel_server.rs`, `wheel_daemon.rs`), a process of its own with a
  socket whose liveness check and replacement two daemons may race through.
- *Clipboard*: a poller and one remembered content; listed as a hazard.
- *Client::connect* and the first handshake of a client: sequential, with one
  timeout.
- Key tables, cursor hiding, geometry calls of the platform layer: calls into the
  operating system.

## 9. The plan

In order of importance; hazards with a note in `PROJECT.json` have no property yet.

1. `Client` composed with `Server`: one hand-over seen from both ends, with the
   queue of `Link` in between, so that a dropped Leave is followed to the client.
2. `Server` with two machines in a smaller composition, and beacons over TCP.
3. Normalisation of three screens with regular sizes: a proof for every desktop of
   that kind, from what one snap does to a chain of contacts.
4. `Admission`: a registered machine was admitted by some policy.
5. Clipboard for any number of peers: no echo, newest wins.
6. The wheel daemon's socket, and the swap of the self-update, with crashes.
