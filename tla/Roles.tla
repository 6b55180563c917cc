------------------------------- MODULE Roles -------------------------------
(***************************************************************************)
(* The processes of one machine: servers and clients that take their role  *)
(* lock (crates/app/src/guard.rs), the client's connection loop with the   *)
(* state file it leaves behind (bin/kvmshare-client.rs, client_state.rs),  *)
(* the server's command file (bin/kvmshare-server.rs), and the GUI that    *)
(* starts and stops them, by the operator or by auto-connect (src/gui).    *)
(*                                                                         *)
(* A process can be started by hand, and can crash, at any moment: its     *)
(* locks go with it and its files stay.  What a session does meanwhile is  *)
(* in the other modules; here it ends.  The GUI's checks that probe a lock *)
(* without meaning to stop or start anything are left out, and so are a    *)
(* full disk, and processes the GUI may not signal.                        *)
(***************************************************************************)
EXTENDS Integers, Sequences, FiniteSets

CONSTANTS
  Procs,       \* slots for processes
  NoProc,
  MaxCommands  \* bound on the commands of the operator

ASSUME RolesAssumption == NoProc \notin Procs /\ MaxCommands \in Nat

Roles == {"server", "client"}
Other(role) == IF role = "server" THEN "client" ELSE "server"

VARIABLES
  role, phase, \* of each process
  lock,        \* who holds each role's lock
  shown,       \* client.state
  file,        \* server.cmd: the commands in it
  handle,      \* the GUI's open handle on it: "none", "current", "replaced"
  given,       \* commands the operator gave
  watch,       \* the server's command watcher
  sent,        \* how often each command was carried out
  gui,         \* what the GUI is doing under its mutex
  mode,        \* the GUI's role
  paused,      \* AutoConnectPaused
  tick,        \* how far the auto-connect watcher is with its tick ...
  wasRunning,  \* ... and what the last one found
  ended,       \* the session was ended by request, and no role picked or started since
  seen         \* a tick has found the client running since it took its lock

procs == <<role, phase, lock>>
commands == <<file, handle, given, watch, sent>>
watcher == <<tick, wasRunning>>
operator == <<mode, paused, ended>>
vars == <<procs, shown, commands, gui, operator, watcher, seen>>

Commands == 1 .. MaxCommands
Resting == [step |-> "resting", lines |-> <<>>]
GuiAt(step, r, want, p, tries) ==
  [step |-> step, role |-> r, want |-> want, proc |-> p, tries |-> tries]
Idle == GuiAt("idle", "client", "none", NoProc, 1)
Stopping(r, want, tries) == GuiAt("stopping", r, want, NoProc, tries)
Checking(p, tries) == GuiAt("checking", "client", "none", p, tries)

Up == {"up", "retrying", "connecting", "welcomed", "session", "leaving"}
Runs(p) == phase[p] \in Up
Active(r) == lock[r] # NoProc

-----------------------------------------------------------------------------
(* A process: starting, and ending *)

Free(p) == phase[p] = "none"

\* A process of role r begins.
Begins(p, r) ==
  /\ Free(p)
  /\ role' = [role EXCEPT ![p] = r]
  /\ phase' = [phase EXCEPT ![p] = "starting"]

HandStarts(p, r) ==
  /\ Begins(p, r)
  /\ UNCHANGED <<lock, shown, commands, gui, operator, watcher, seen>>

Advances(p, from, to) == phase[p] = from /\ phase' = [phase EXCEPT ![p] = to]

\* A server's watcher dies with it, whatever it has read.
Dies(set) ==
  /\ phase' = [p \in Procs |-> IF p \in set THEN "none" ELSE phase[p]]
  /\ lock' = [r \in Roles |-> IF lock[r] \in set THEN NoProc ELSE lock[r]]
  /\ watch' = IF lock["server"] \in set THEN Resting ELSE watch

TakesOwn(p) ==
  /\ IF Active(role[p])
       THEN Advances(p, "starting", "refused") /\ UNCHANGED <<lock, ended, seen>>
       ELSE /\ Advances(p, "starting", "locked") /\ lock' = [lock EXCEPT ![role[p]] = p]
            /\ ended' = (ended /\ role[p] = "server")
            /\ seen' = (seen /\ role[p] = "server")
  /\ UNCHANGED <<role, shown, commands, gui, mode, paused, watcher>>

\* The probe holds the other role's lock for a moment.
Probes(p) ==
  /\ LET other == Other(role[p]) IN
       IF Active(other)
         THEN Advances(p, "locked", "refused") /\ lock' = [lock EXCEPT ![role[p]] = NoProc]
         ELSE Advances(p, "locked", "probing") /\ lock' = [lock EXCEPT ![other] = p]
  /\ UNCHANGED <<role, shown, commands, gui, operator, watcher, seen>>

\* Variant: the guard is dropped where it is made.
EndsProbeAndGuard(p) ==
  /\ Advances(p, "probing", "up")
  /\ lock' = [r \in Roles |-> NoProc]
  /\ UNCHANGED <<role, shown, commands, gui, operator, watcher, seen>>

EndsProbe(p) ==
  /\ Advances(p, "probing", "up")
  /\ lock' = [lock EXCEPT ![Other(role[p])] = NoProc]
  /\ UNCHANGED <<role, shown, commands, gui, operator, watcher, seen>>

Crashes(p) ==
  /\ ~Free(p)
  /\ Dies({p})
  /\ UNCHANGED <<role, shown, file, handle, given, sent, gui, operator, watcher, seen>>

-----------------------------------------------------------------------------
(* The client's loop *)

Client(p) == role[p] = "client"

\* A step of the client's loop, and what it writes before it goes on.
Loop(p, from, to, state) ==
  /\ Client(p) /\ Advances(p, from, to) /\ shown' = state
  /\ UNCHANGED <<role, lock, commands, gui, operator, watcher, seen>>

Announces(p) == Loop(p, "up", "retrying", "disconnected")
Connects(p) == Loop(p, "retrying", "connecting", "connecting")
Fails(p) == Loop(p, "connecting", "retrying", "disconnected")
Refused(p) == Loop(p, "connecting", "leaving", "refused")
Welcomed(p) == Loop(p, "connecting", "session", "connected")
Revoked(p) == Loop(p, "connecting", "leaving", "stopped")
LinkClosed(p) == Loop(p, "session", "retrying", "disconnected")
\* Reconnect and restart go round the loop and write nothing.
Reconnects(p) == Loop(p, "session", "retrying", shown)

\* Variant: a disconnect that was asked for is written like any other.
DismissedPlainly(p) ==
  /\ Client(p) /\ Advances(p, "session", "leaving") /\ shown' = "disconnected"
  /\ ended' = TRUE
  /\ UNCHANGED <<role, lock, commands, gui, mode, paused, watcher, seen>>

\* The server's operator ends the session.
Dismissed(p) ==
  /\ Client(p) /\ Advances(p, "session", "leaving") /\ shown' = "stopped"
  /\ ended' = TRUE
  /\ UNCHANGED <<role, lock, commands, gui, mode, paused, watcher, seen>>

Leaves(p) ==
  /\ phase[p] = "leaving"
  /\ Dies({p})
  /\ UNCHANGED <<role, shown, file, handle, given, sent, gui, operator, watcher, seen>>

\* Its parent has seen a refused process end.
Reaped(p) ==
  /\ phase[p] = "refused" /\ gui.proc # p
  /\ Dies({p})
  /\ UNCHANGED <<role, shown, file, handle, given, sent, gui, operator, watcher, seen>>

Process(p) ==
  \/ TakesOwn(p) \/ Probes(p) \/ EndsProbe(p) \/ Announces(p) \/ Connects(p)
  \/ Fails(p) \/ Refused(p) \/ Welcomed(p) \/ Revoked(p) \/ LinkClosed(p)
  \/ Reconnects(p) \/ Dismissed(p) \/ Leaves(p) \/ Reaped(p) \/ Crashes(p)

-----------------------------------------------------------------------------
(* server.cmd: the GUI appends, the server reads, clears and executes *)

GuiOpens ==
  /\ handle = "none" /\ given < MaxCommands
  /\ handle' = "current"
  /\ UNCHANGED <<procs, shown, file, given, watch, sent, gui, operator, watcher, seen>>

\* A line written to a file that has been replaced meanwhile is lost.
GuiWrites ==
  /\ handle # "none"
  /\ given' = given + 1
  /\ file' = IF handle = "current" THEN Append(file, given') ELSE file
  /\ handle' = "none"
  /\ UNCHANGED <<procs, shown, watch, sent, gui, operator, watcher, seen>>

Serving == \E p \in Procs : role[p] = "server" /\ phase[p] = "up"

Reads ==
  /\ Serving /\ watch = Resting /\ file # <<>>
  /\ watch' = [step |-> "read", lines |-> file]
  /\ UNCHANGED <<procs, shown, file, handle, given, sent, gui, operator, watcher, seen>>

\* Variant: the empty file is written beside it, and never takes its place.
ClearsNothing ==
  /\ watch.step = "read"
  /\ watch' = [watch EXCEPT !.step = "sending"]
  /\ UNCHANGED <<file, handle, procs, shown, given, sent, gui, operator, watcher, seen>>

\* An empty file takes its place.
Clears ==
  /\ watch.step = "read"
  /\ watch' = [watch EXCEPT !.step = "sending"]
  /\ file' = <<>>
  /\ handle' = IF handle = "current" THEN "replaced" ELSE handle
  /\ UNCHANGED <<procs, shown, given, sent, gui, operator, watcher, seen>>

Sends ==
  /\ watch.step = "sending"
  /\ sent' = [sent EXCEPT ![Head(watch.lines)] = @ + 1]
  /\ watch' = IF Len(watch.lines) = 1 THEN Resting ELSE [watch EXCEPT !.lines = Tail(@)]
  /\ UNCHANGED <<procs, shown, file, handle, given, gui, operator, watcher, seen>>

CommandFile == GuiOpens \/ GuiWrites \/ Reads \/ Clears \/ Sends

-----------------------------------------------------------------------------
(* The GUI: stopping and starting, under its mutex *)

SetMode ==
  /\ gui = Idle
  /\ mode' = Other(mode)
  /\ ended' = FALSE
  /\ UNCHANGED <<procs, shown, commands, gui, paused, watcher, seen>>

\* ServerStart and ClientStart: nothing to do when the role runs; else the
\* other role is stopped first.
OperatorStarts ==
  /\ gui = Idle
  /\ gui' = IF Active(mode) THEN Idle ELSE Stopping(Other(mode), mode, 1)
  /\ paused' = (paused /\ mode = "server")
  /\ ended' = FALSE
  /\ UNCHANGED <<procs, shown, commands, mode, watcher, seen>>

OperatorStops ==
  /\ gui = Idle
  /\ gui' = Stopping(mode, "none", 1)
  /\ paused' = (paused \/ mode = "client")
  /\ ended' = (ended \/ mode = "client")
  /\ UNCHANGED <<procs, shown, commands, mode, watcher, seen>>

\* By pid and by name, as long as the lock is held; the processes that are
\* still before their lock go too.
GuiKills ==
  /\ gui.step = "stopping" /\ Active(gui.role)
  /\ Dies({p \in Procs : role[p] = gui.role})
  /\ UNCHANGED <<role, shown, file, handle, given, sent, gui, operator, watcher, seen>>

GuiFindsItStopped ==
  /\ gui.step = "stopping" /\ ~Active(gui.role)
  /\ gui' = [gui EXCEPT !.step = "cleaning"]
  /\ UNCHANGED <<procs, shown, commands, operator, watcher, seen>>

\* The live-state files of the role must not outlive it.
GuiCleans ==
  /\ gui.step = "cleaning"
  /\ IF gui.role = "client" THEN shown' = "none" /\ UNCHANGED <<file, handle>>
     ELSE /\ shown' = shown /\ file' = <<>>
          /\ handle' = IF handle = "current" THEN "replaced" ELSE handle
  /\ gui' = IF gui.want = "none" THEN Idle ELSE [gui EXCEPT !.step = "spawning"]
  /\ ended' = (ended /\ gui.want # "server")
  /\ UNCHANGED <<procs, given, watch, sent, mode, paused, watcher, seen>>

GuiSpawns(p) ==
  /\ gui.step = "spawning"
  /\ Begins(p, gui.want)
  /\ gui' = Checking(p, gui.tries)
  /\ UNCHANGED <<lock, shown, commands, operator, watcher, seen>>

\* checkStarted: the child is alive a moment later, or died; on a role conflict
\* it cleans up harder and tries once more.
GuiChecks ==
  /\ gui.step = "checking"
  /\ gui' = IF phase[gui.proc] = "refused" /\ gui.tries = 1
              THEN Stopping(Other(role[gui.proc]), role[gui.proc], 2) ELSE Idle
  /\ UNCHANGED <<procs, shown, commands, operator, watcher, seen>>

Gui ==
  \/ SetMode \/ OperatorStarts \/ OperatorStops
  \/ GuiKills \/ GuiFindsItStopped \/ GuiCleans
  \/ (\E p \in Procs : GuiSpawns(p))
  \/ GuiChecks

-----------------------------------------------------------------------------
(* Auto-connect: autoConnectStep, once a second *)

Blocked == mode # "client" \/ paused \/ Active("client") \/ Active("server")

TickLooks ==
  /\ tick = "waiting" /\ gui = Idle
  /\ IF Active("client")
       THEN wasRunning' = TRUE /\ seen' = (role[lock["client"]] = "client") /\ tick' = tick
       ELSE tick' = "reading" /\ UNCHANGED <<wasRunning, seen>>
  /\ UNCHANGED <<procs, shown, commands, gui, operator>>

\* Only a transition counts for a stop; a refusal always.
TickReads ==
  /\ tick = "reading" /\ gui = Idle
  /\ paused' = (paused \/ (wasRunning /\ shown = "stopped") \/ shown = "refused")
  /\ tick' = "choosing"
  /\ UNCHANGED <<procs, shown, commands, gui, mode, ended, wasRunning, seen>>

TickChooses ==
  /\ tick = "choosing" /\ gui = Idle
  /\ wasRunning' = FALSE
  /\ tick' = IF Blocked THEN "waiting" ELSE "starting"
  /\ UNCHANGED <<procs, shown, commands, gui, operator, seen>>

\* Under the mutex everything is checked again.
TickStarts ==
  /\ tick = "starting" /\ gui = Idle
  /\ tick' = "waiting"
  /\ gui' = IF Blocked THEN Idle ELSE Stopping("server", "client", 1)
  /\ wasRunning' = ~Blocked
  /\ UNCHANGED <<procs, shown, commands, operator, seen>>

AutoConnect == TickLooks \/ TickReads \/ TickChooses \/ TickStarts

-----------------------------------------------------------------------------
Init ==
  /\ role = [p \in Procs |-> "client"] /\ phase = [p \in Procs |-> "none"]
  /\ lock = [r \in Roles |-> NoProc]
  /\ shown = "none"
  /\ file = <<>> /\ handle = "none" /\ given = 0 /\ watch = Resting
  /\ sent = [c \in Commands |-> 0]
  /\ gui = Idle /\ mode = "client" /\ paused = FALSE /\ ended = FALSE
  /\ tick = "waiting" /\ wasRunning = FALSE /\ seen = FALSE

Next ==
  \/ \E p \in Procs : (\E r \in Roles : HandStarts(p, r)) \/ Process(p)
  \/ CommandFile \/ Gui \/ AutoConnect

Spec == Init /\ [][Next]_vars

-----------------------------------------------------------------------------
\* "A machine runs one kvmshare role at a time" (guard.rs:1), and one instance of
\* it: whatever the order in which processes take and probe the locks, and
\* whoever kills them or dies meanwhile.
OneRole ==
  \A p, q \in Procs : p # q => ~(Runs(p) /\ Runs(q))

\* "The commands have been consumed (a partial write must not replay)"
\* (kvmshare-server.rs:335): none is carried out twice, by however many servers
\* that find the file.
CommandsRunOnce == \A c \in Commands : sent[c] <= 1

\* "A session the operator ended - Stop, or the server's disconnect command -
\* stays ended until they start again" (autoconnect.go:19): auto-connect starts
\* no client then, if a tick has seen it running.
EndedStaysEnded ==
  [][tick = "starting" /\ tick' = "waiting" /\ gui' # Idle => ~(ended /\ seen)]_vars

\* The same, of every session.
EndedAlwaysStaysEnded ==
  [][tick = "starting" /\ tick' = "waiting" /\ gui' # Idle => ~ended]_vars

=============================================================================
