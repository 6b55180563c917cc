----------------------------- MODULE Admission -----------------------------
(***************************************************************************)
(* Who may be connected, and how the answer travels: the operator edits    *)
(* the config file in the GUI, the server's watcher sees it change and     *)
(* sends the main loop a Reload and a SetPolicy, the main loop adopts them *)
(* and drops whoever they exclude - while a handshake checks the policy    *)
(* step by step, and the event sink writes the file too, to record that    *)
(* who connects is trusted (crates/core/src/server, crates/app).           *)
(*                                                                         *)
(* One machine, that may connect again before the server notices that its  *)
(* last connection is dead.  Of the config there is what it says of that   *)
(* machine: whether it is trusted, revoked, pinned to a screen and that    *)
(* screen has the size the machine reports; the allowlist is on and the    *)
(* peer is local.  Shortcuts and preferences ride along with the layout    *)
(* and are left out, as is the wire.  The lock of the config file is held  *)
(* around a write only, which makes the write one step.                    *)
(***************************************************************************)
EXTENDS Integers, Sequences, FiniteSets

CONSTANTS
  MaxConns,  \* bound on connections at a time
  MaxSaves,  \* bound on the operator's saves
  MaxEvents  \* bound on the events the sink is behind by when a machine connects

ASSUME AdmissionAssumption == {MaxConns, MaxSaves, MaxEvents} \subseteq Nat

Conns == 1 .. MaxConns
None == 0

Policy == [trusted : BOOLEAN, revoked : BOOLEAN]
Config == [trusted : BOOLEAN, revoked : BOOLEAN, pinned : BOOLEAN, sized : BOOLEAN]
PolicyOf(cfg) == [trusted |-> cfg.trusted, revoked |-> cfg.revoked]

VARIABLES
  file,       \* the config file ...
  changed,    \* ... and whether its time and length are not what the watcher knows
  gui,        \* what the GUI has loaded, if anything
  saves,      \* the operator's saves
  watch,      \* the watcher, and the config it has loaded
  edited,     \* something was written since it started
  controls,   \* Reload and SetPolicy on their way to the main loop
  policy,     \* the server's policy
  layout,     \* the session's layout has the machine pinned / dynamic
  reachable,  \* the session may cross into its screen
  registered, \* the connection in `clients`
  hs,         \* how far each connection is
  dropping,   \* the main loop, disconnecting the machine
  events,     \* ServerEvents on their way to the sink
  sink,       \* the sink, and the config it has loaded
  listed,     \* clients.json
  slipped     \* connections checked against a policy replaced before they registered

disk == <<file, changed, edited>>
operator == <<gui, saves>>
session == <<layout, reachable>>
admission_vars == <<disk, operator, watch, controls, policy, session, registered, hs,
                    dropping, events, sink, listed, slipped>>

Idle == [state |-> "idle"]
Holding(cfg) == [state |-> "holding", config |-> cfg]
Unprimed == [state |-> "unprimed"]
Polling == [state |-> "polling"]
Loading == [state |-> "loading"]
Loaded(cfg) == [state |-> "loaded", config |-> cfg]
Trusting(cfg) == [state |-> "trusting", config |-> cfg]
Trusted == [state |-> "trusted"]
Sizing(cfg) == [state |-> "sizing", config |-> cfg]

Writes(cfg) == file' = cfg /\ changed' = TRUE /\ edited' = (watch # Unprimed)

-----------------------------------------------------------------------------
(* The config file: the GUI, the watcher *)

GuiLoads ==
  /\ gui = Idle /\ saves < MaxSaves
  /\ gui' = Holding(file)
  /\ UNCHANGED <<disk, saves, watch, controls, policy, session, registered, hs,
                 dropping, events, sink, listed, slipped>>

\* Three lists that are edited apart: an id may be trusted and revoked.
Edits(cfg) ==
  {[cfg EXCEPT !.revoked = ~@], [cfg EXCEPT !.trusted = ~@], [cfg EXCEPT !.pinned = ~@]}

GuiSaves ==
  /\ gui # Idle
  /\ \E cfg \in Edits(gui.config) : Writes(cfg)
  /\ gui' = Idle
  /\ saves' = saves + 1
  /\ UNCHANGED <<watch, controls, policy, session, registered, hs, dropping,
                 events, sink, listed, slipped>>

\* The watcher starts after the server has loaded the file.
Prime ==
  /\ watch = Unprimed
  /\ watch' = Polling
  /\ changed' = FALSE
  /\ UNCHANGED <<file, edited, operator, controls, policy, session, registered, hs,
                 dropping, events, sink, listed, slipped>>

SeesChange ==
  /\ watch = Polling /\ changed
  /\ watch' = Loading
  /\ changed' = FALSE
  /\ UNCHANGED <<file, edited, operator, controls, policy, session, registered, hs,
                 dropping, events, sink, listed, slipped>>

Loads ==
  /\ watch = Loading
  /\ watch' = Loaded(file)
  /\ UNCHANGED <<disk, operator, controls, policy, session, registered, hs,
                 dropping, events, sink, listed, slipped>>

Adopted(cfg) ==
  <<[kind |-> "reload", pinned |-> cfg.pinned], [kind |-> "policy", policy |-> PolicyOf(cfg)]>>

\* Variant: the signature is read again once the change has been published.
PublishesThenSigns ==
  /\ watch.state = "loaded"
  /\ watch' = Polling
  /\ changed' = FALSE
  /\ controls' = controls \o Adopted(watch.config)
  /\ UNCHANGED <<file, edited, operator, policy, session, registered, hs,
                 dropping, events, sink, listed, slipped>>

Publishes ==
  /\ watch.state = "loaded"
  /\ watch' = Polling
  /\ controls' = controls \o Adopted(watch.config)
  /\ UNCHANGED <<disk, operator, policy, session, registered, hs,
                 dropping, events, sink, listed, slipped>>

-----------------------------------------------------------------------------
(* A connection: exchange_hello, spawn, service_client, teardown *)

Named == layout.pinned \/ layout.dynamic

Advances(c, from, to) == hs[c] = from /\ hs' = [hs EXCEPT ![c] = to]

\* The machine connects again when its last connection is over, or dead without
\* the server knowing.
Hello(c) ==
  /\ hs[c] = "gone" /\ Len(events) < MaxEvents
  /\ \A d \in Conns : hs[d] \in {"serving", "gone"}
  /\ hs' = [hs EXCEPT ![c] = "hello"]
  /\ slipped' = slipped \ {c}
  /\ UNCHANGED <<disk, operator, watch, controls, policy, session, registered,
                 dropping, events, sink, listed>>

CheckRevoked(c) ==
  /\ Advances(c, "hello", IF policy.revoked THEN "gone" ELSE "cleared")
  /\ UNCHANGED <<disk, operator, watch, controls, policy, session, registered,
                 dropping, events, sink, listed, slipped>>

CheckAllowed(c) ==
  /\ Advances(c, "cleared", IF Named \/ policy.trusted THEN "allowed" ELSE "gone")
  /\ UNCHANGED <<disk, operator, watch, controls, policy, session, registered,
                 dropping, events, sink, listed, slipped>>

Admit(c) ==
  /\ Advances(c, "allowed", "admitted")
  /\ layout' = IF Named THEN layout ELSE [layout EXCEPT !.dynamic = TRUE]
  /\ UNCHANGED <<disk, operator, watch, controls, policy, reachable, registered,
                 dropping, events, sink, listed, slipped>>

Register(c) ==
  /\ Advances(c, "admitted", "registered")
  /\ registered' = c
  /\ UNCHANGED <<disk, operator, watch, controls, policy, session,
                 dropping, events, sink, listed, slipped>>

MarkConnected(c) ==
  /\ Advances(c, "registered", "connected")
  /\ reachable' = TRUE
  /\ UNCHANGED <<disk, operator, watch, controls, policy, layout, registered,
                 dropping, events, sink, listed, slipped>>

Announce(c) ==
  /\ Advances(c, "connected", "serving")
  /\ events' = Append(events, "connected")
  /\ UNCHANGED <<disk, operator, watch, controls, policy, session, registered,
                 dropping, sink, listed, slipped>>

\* The reader's end: only the connection that is registered is torn down.
Teardown(c) ==
  /\ Advances(c, "serving", IF registered = c THEN "leaving" ELSE "gone")
  /\ registered' = IF registered = c THEN None ELSE registered
  /\ UNCHANGED <<disk, operator, watch, controls, policy, session,
                 dropping, events, sink, listed, slipped>>

TellSink(c) ==
  /\ Advances(c, "leaving", "left")
  /\ events' = Append(events, "disconnected")
  /\ UNCHANGED <<disk, operator, watch, controls, policy, session, registered,
                 dropping, sink, listed, slipped>>

TellSession(c) ==
  /\ Advances(c, "left", "gone")
  /\ reachable' = FALSE
  /\ UNCHANGED <<disk, operator, watch, controls, policy, layout, registered,
                 dropping, events, sink, listed, slipped>>

Connection(c) ==
  \/ CheckRevoked(c) \/ CheckAllowed(c) \/ Admit(c) \/ Register(c)
  \/ MarkConnected(c) \/ Announce(c) \/ TellSink(c) \/ TellSession(c)

-----------------------------------------------------------------------------
(* The main loop: drain_controls, apply_control, disconnect_client *)

Drop(remove) == [step |-> "find", remove |-> remove]
NoDrop == [step |-> "none", remove |-> FALSE]

\* swap_layout keeps a dynamic screen the file does not pin.
Swapped(l, pinned) == [pinned |-> pinned, dynamic |-> l.dynamic /\ ~pinned]

\* drop_stale_clients: a client whose screen is gone is dropped, and so is one
\* whose screen the file now pins under another id.
Stale(renumbered) ==
  \/ ~layout'.pinned /\ ~layout'.dynamic
  \/ renumbered /\ layout.dynamic /\ layout'.pinned

Reload ==
  /\ dropping = NoDrop /\ controls # <<>> /\ Head(controls).kind = "reload"
  /\ controls' = Tail(controls)
  /\ layout' = Swapped(layout, Head(controls).pinned)
  /\ \E renumbered \in BOOLEAN :
       dropping' = IF registered # None /\ Stale(renumbered) THEN Drop(FALSE) ELSE NoDrop
  /\ UNCHANGED <<disk, operator, watch, policy, reachable, registered, hs,
                 events, sink, listed, slipped>>

\* Variant: the policy is replaced, and whoever it excludes stays.
ApplyPolicyOnly ==
  /\ dropping = NoDrop /\ controls # <<>> /\ Head(controls).kind = "policy"
  /\ controls' = Tail(controls)
  /\ policy' = Head(controls).policy
  /\ UNCHANGED <<disk, operator, watch, session, registered, hs, dropping,
                 events, sink, listed, slipped>>

Unregistered == {c \in Conns : hs[c] \in {"cleared", "allowed", "admitted"}}

ApplyPolicy ==
  /\ dropping = NoDrop /\ controls # <<>> /\ Head(controls).kind = "policy"
  /\ controls' = Tail(controls)
  /\ policy' = Head(controls).policy
  /\ dropping' = IF registered # None /\ policy'.revoked THEN Drop(TRUE) ELSE NoDrop
  /\ slipped' = slipped \cup Unregistered
  /\ UNCHANGED <<disk, operator, watch, session, registered, hs, events, sink, listed>>

\* disconnect_client: the name, unless the client is gone meanwhile; the maps,
\* by id; the session; the app layer last.
DropFinds ==
  /\ dropping.step = "find"
  /\ dropping' = IF registered = None THEN NoDrop ELSE [dropping EXCEPT !.step = "maps"]
  /\ UNCHANGED <<disk, operator, watch, controls, policy, session, registered, hs,
                 events, sink, listed, slipped>>

DropMaps ==
  /\ dropping.step = "maps"
  /\ dropping' = [dropping EXCEPT !.step = "session"]
  /\ registered' = None
  /\ UNCHANGED <<disk, operator, watch, controls, policy, session, hs,
                 events, sink, listed, slipped>>

DropSession ==
  /\ dropping.step = "session"
  /\ dropping' = [dropping EXCEPT !.step = "event"]
  /\ reachable' = FALSE
  /\ layout' = IF dropping.remove THEN [pinned |-> FALSE, dynamic |-> FALSE] ELSE layout
  /\ UNCHANGED <<disk, operator, watch, controls, policy, registered, hs,
                 events, sink, listed, slipped>>

DropEvent ==
  /\ dropping.step = "event"
  /\ dropping' = NoDrop
  /\ events' = Append(events, "disconnected")
  /\ UNCHANGED <<disk, operator, watch, controls, policy, session, registered, hs,
                 sink, listed, slipped>>

MainLoop == Reload \/ ApplyPolicy \/ DropFinds \/ DropMaps \/ DropSession \/ DropEvent

-----------------------------------------------------------------------------
(* The event sink *)

\* auto_trust: load, and unless it says so already, save.
SinkConnected ==
  /\ sink = Idle /\ events # <<>> /\ Head(events) = "connected"
  /\ events' = Tail(events)
  /\ sink' = Trusting(file)
  /\ UNCHANGED <<disk, operator, watch, controls, policy, session, registered, hs,
                 dropping, listed, slipped>>

SinkTrusts ==
  /\ sink.state = "trusting"
  /\ IF sink.config.trusted THEN UNCHANGED disk
     ELSE Writes([sink.config EXCEPT !.trusted = TRUE])
  /\ sink' = Trusted
  /\ UNCHANGED <<operator, watch, controls, policy, session, registered, hs,
                 dropping, events, listed, slipped>>

\* auto_config_screen_size: load, and save when the pinned size differs; then
\* persist_clients.
SinkLoads ==
  /\ sink = Trusted
  /\ IF file.pinned /\ ~file.sized THEN sink' = Sizing(file) /\ listed' = listed
     ELSE sink' = Idle /\ listed' = TRUE
  /\ UNCHANGED <<disk, operator, watch, controls, policy, session, registered, hs,
                 dropping, events, slipped>>

SinkSizes ==
  /\ sink.state = "sizing"
  /\ Writes([sink.config EXCEPT !.sized = TRUE])
  /\ sink' = Idle /\ listed' = TRUE
  /\ UNCHANGED <<operator, watch, controls, policy, session, registered, hs,
                 dropping, events, slipped>>

SinkDisconnected ==
  /\ sink = Idle /\ events # <<>> /\ Head(events) = "disconnected"
  /\ events' = Tail(events)
  /\ listed' = FALSE
  /\ UNCHANGED <<disk, operator, watch, controls, policy, session, registered, hs,
                 dropping, sink, slipped>>

Sink == SinkConnected \/ SinkTrusts \/ SinkLoads \/ SinkSizes \/ SinkDisconnected

-----------------------------------------------------------------------------
\* The server has loaded a file and listens.
AdmissionInit ==
  /\ \E trusted, pinned, sized \in BOOLEAN :
       file = [trusted |-> trusted, revoked |-> FALSE, pinned |-> pinned, sized |-> sized]
  /\ changed = FALSE /\ edited = FALSE /\ gui = Idle /\ saves = 0
  /\ watch = Unprimed
  /\ controls = <<>> /\ policy = PolicyOf(file)
  /\ layout = [pinned |-> file.pinned, dynamic |-> FALSE] /\ reachable = FALSE
  /\ registered = None /\ hs = [c \in Conns |-> "gone"]
  /\ dropping = NoDrop
  /\ events = <<>> /\ sink = Idle /\ listed = FALSE /\ slipped = {}

AdmissionNext ==
  \/ GuiLoads \/ GuiSaves
  \/ Prime \/ SeesChange \/ Loads \/ Publishes
  \/ \E c \in Conns : Hello(c) \/ Connection(c) \/ Teardown(c)
  \/ MainLoop
  \/ Sink

\* The threads run; the main loop gets to its controls when no input comes for
\* a moment (CONTROL_POLL), which the fairness of MainLoop takes to happen.
\* The operator and the network are free.
AdmissionSpec ==
  /\ AdmissionInit /\ [][AdmissionNext]_admission_vars
  /\ WF_admission_vars(Prime) /\ WF_admission_vars(SeesChange \/ Loads \/ Publishes)
  /\ WF_admission_vars(MainLoop) /\ WF_admission_vars(Sink)
  /\ \A c \in Conns : WF_admission_vars(Connection(c))

-----------------------------------------------------------------------------
\* "Poll the config file and push a Reload whenever its content changes, so
\* layout edits apply live" (kvmshare-server.rs:375): whoever writes the file,
\* and whenever, the main loop ends up with what it says last - as long as
\* something was written after the watcher started.
AdoptsConfig ==
  <>edited => <>[](policy = PolicyOf(file))

\* "A revoked machine must not keep a session it may no longer open" (mod.rs:549):
\* as long as it is revoked it is not registered, unless by a connection that
\* was between the check and the registration when the policy changed.
RevokedLeaves ==
  <>[]policy.revoked => <>[](registered = None \/ registered \in slipped)

\* The same, of every connection.
RevokedStaysOut == <>[]policy.revoked => <>[](registered = None)

=============================================================================
