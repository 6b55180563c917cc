------------------------------- MODULE Server -------------------------------
(***************************************************************************)
(* The threads of the server (crates/core/src/server) around the session:  *)
(* the main loop, the UDP receiver and one reader per connection.  Each    *)
(* takes the session lock to decide, lets go of it, and takes other locks  *)
(* to carry the decision out; one step here is one such critical section.  *)
(*                                                                         *)
(* The session is what Switching promises of it (and Session implements):  *)
(* its cursor moves only to a connected screen, and comes home when that   *)
(* screen is lost.  Screens keep their ids; admission and reloads of the   *)
(* layout are Session's.  A connection stands for any connection of its    *)
(* machine, one after the other, and policy has let it in.                 *)
(* An Option is a set with at most one element.                            *)
(***************************************************************************)
EXTENDS Integers, FiniteSets

CONSTANTS
  Machines,   \* client machines, named by their screen's id
  Conns,      \* connections, each with a reader thread
  MachineOf,  \* the machine a connection comes from
  Main,       \* the main loop: local input and app-layer commands
  Udp         \* the UDP receiver: beacons and their watchdog

HOME == 0
Threads == Conns \cup {Main, Udp}

ASSUME MachineAssumption == HOME \notin Machines /\ MachineOf \in [Conns -> Machines]
ASSUME ThreadAssumption == Main # Udp /\ {Main, Udp} \cap Conns = {}

VARIABLES
  mode, connected,   \* the session: where the cursor is, who may be entered
  clients,           \* registered connections
  tcp_ips,           \* machines whose datagrams are accepted
  last_heard,        \* machines whose cursor stream has a clock
  silent,            \* ... that has run past ACTIVE_BEACON_TIMEOUT
  active,            \* the machine that input is sent to
  away,              \* local input is grabbed and isolated, the cursor hidden
  engine,            \* the thread that holds the engine lock
  told,              \* per connection: "waiting" until its stream begins, then the last
                     \* word it was sent about control
  job                \* per thread, the step it takes next and for whom

session == <<mode, connected>>
registry == <<clients, tcp_ips>>
clocks == <<last_heard, silent>>
world == <<active, away, engine, told>>
vars == <<session, registry, clocks, world, job>>

Promise == INSTANCE Switching WITH ids <- Machines \cup {HOME}

-----------------------------------------------------------------------------
Registered(id) == {c \in clients : MachineOf[c] = id}

\* enqueue: a word for whoever is registered under id; an ended session
\* listens to nothing any more.
Tell(ids, word) ==
  [c \in Conns |-> IF c \in clients /\ MachineOf[c] \in ids /\ told[c] # "ended"
                   THEN word ELSE told[c]]

Job(at, id, conn) == [at |-> at, id |-> id, conn |-> conn]
Idle == Job("idle", HOME, {})
Gone == Job("gone", HOME, {})

Goes(t, at, id) == job' = [job EXCEPT ![t] = Job(at, id, {})]
\* A reader ends with its teardown, the other two threads go on.
Done(t) == job' = [job EXCEPT ![t] = IF t \in Conns THEN Gone ELSE Idle]

\* A decision of the session, still to be carried out by thread t.
Decide(t, id) == Goes(t, "apply", id)

-----------------------------------------------------------------------------
(* Connections (client.rs) *)

\* The handshake is through: policy, admission, Welcome.
Accept(c) ==
  /\ job[c] = Gone
  /\ \A t \in Threads : c \notin job[t].conn
  /\ Goes(c, "register", HOME)
  /\ told' = [told EXCEPT ![c] = "waiting"]
  /\ UNCHANGED <<session, registry, clocks, active, away, engine>>

\* Registration and identity land together; an older connection of the same
\* machine is replaced and told to stop.
Register(c) ==
  LET id == MachineOf[c]
  IN /\ job[c].at = "register"
     /\ clients' = (clients \ Registered(id)) \cup {c}
     /\ tcp_ips' = tcp_ips \cup {id}
     /\ told' = Tell({id}, "ended")
     /\ Goes(c, "announce", HOME)
     /\ UNCHANGED <<session, clocks, active, away, engine>>

Announce(c) ==
  /\ job[c].at = "announce"
  /\ connected' = connected \cup {MachineOf[c]}
  /\ job' = [job EXCEPT ![c] = Idle]
  /\ UNCHANGED <<mode, registry, clocks, world>>

\* The reader stops: end of stream, error, or ten silent seconds.
HangUp(c) ==
  /\ job[c] = Idle
  /\ job' = [job EXCEPT ![c] = Job("farewell", HOME, {c})]
  /\ UNCHANGED <<session, registry, clocks, world>>

-----------------------------------------------------------------------------
(* ClientCtx::teardown, run by the reader or by the watchdog *)

Farewell(t) ==
  /\ job[t].at = "farewell"
  /\ \E c \in job[t].conn :
       \/ /\ c \in clients
          /\ told' = [told EXCEPT ![c] = "ended"]
          /\ job' = [job EXCEPT ![t].at = "unregister"]
       \/ c \notin clients /\ Done(t) /\ UNCHANGED told
  /\ UNCHANGED <<session, registry, clocks, active, away, engine>>

\* Variant: the check above was enough, entries go by id.
UnregisterById(t) ==
  /\ job[t].at = "unregister"
  /\ \E c \in job[t].conn :
       /\ clients' = clients \ Registered(MachineOf[c])
       /\ tcp_ips' = tcp_ips \ {MachineOf[c]}
       /\ last_heard' = last_heard \ {MachineOf[c]}
       /\ silent' = silent \ {MachineOf[c]}
       /\ Goes(t, "clear", MachineOf[c])
  /\ UNCHANGED <<session, world>>

Unregister(t) ==
  /\ job[t].at = "unregister"
  /\ \E c \in job[t].conn :
       \/ /\ c \in clients
          /\ clients' = clients \ {c}
          /\ tcp_ips' = tcp_ips \ {MachineOf[c]}
          /\ last_heard' = last_heard \ {MachineOf[c]}
          /\ silent' = silent \ {MachineOf[c]}
          /\ Goes(t, "clear", MachineOf[c])
       \/ c \notin clients /\ Done(t) /\ UNCHANGED <<registry, clocks>>
  /\ UNCHANGED <<session, world>>

Clear(t) ==
  /\ job[t].at = "clear"
  /\ active' = active \ {job[t].id}
  /\ job' = [job EXCEPT ![t].at = "inform"]
  /\ UNCHANGED <<session, registry, clocks, away, engine, told>>

\* on_client_disconnected, and the switch home it may ask for.
Inform(t) ==
  LET id == job[t].id
  IN /\ job[t].at = "inform"
     /\ connected' = connected \ {id}
     /\ \/ mode = id /\ mode' = HOME /\ Decide(t, HOME)
        \/ mode # id /\ mode' = mode /\ Done(t)
     /\ UNCHANGED <<registry, clocks, world>>

-----------------------------------------------------------------------------
(* apply_action, under the engine lock *)

SwitchToLocal(t) ==
  /\ job[t].at = "apply" /\ job[t].id = HOME
  /\ engine = {}
  /\ told' = Tell(active, "left")
  /\ active' = {}
  /\ away' = FALSE
  /\ Done(t)
  /\ UNCHANGED <<session, registry, clocks, engine>>

\* SwitchTo: the screen left is told, the latch moves ...
SwitchTo(t) ==
  /\ job[t].at = "apply" /\ job[t].id # HOME
  /\ engine = {}
  /\ engine' = {t}
  /\ told' = Tell(active, "left")
  /\ active' = {job[t].id}
  /\ job' = [job EXCEPT ![t].at = "enter"]
  /\ UNCHANGED <<session, registry, clocks, away>>

\* Variant: the clock is not reset.
EnterUnclocked(t) ==
  /\ job[t].at = "enter"
  /\ told' = Tell({job[t].id}, "control")
  /\ away' = TRUE
  /\ engine' = {}
  /\ Done(t)
  /\ UNCHANGED <<session, registry, clocks, active>>

\* Variant: the engine stays locked.
EnterHolding(t) ==
  LET id == job[t].id
  IN /\ job[t].at = "enter"
     /\ last_heard' = last_heard \cup {id}
     /\ silent' = silent \ {id}
     /\ told' = Tell({id}, "control")
     /\ away' = TRUE
     /\ Done(t)
     /\ UNCHANGED <<session, registry, active, engine>>

\* ... and the client is entered, if it is still there, with its clock reset.
EnterClient(t) ==
  LET id == job[t].id
  IN /\ job[t].at = "enter"
     /\ last_heard' = last_heard \cup {id}
     /\ silent' = silent \ {id}
     /\ told' = Tell({id}, "control")
     /\ away' = TRUE
     /\ engine' = {}
     /\ Done(t)
     /\ UNCHANGED <<session, registry, active>>

-----------------------------------------------------------------------------
(* The main loop: local input, and commands of the app layer (mod.rs) *)

\* Motion, beacons of the local cursor or a shortcut move the cursor; the escape
\* key brings control home even when the session has it there.
LocalInput ==
  /\ job[Main] = Idle
  /\ \/ Promise!Switch /\ mode' # mode
     \/ mode = HOME /\ UNCHANGED session
  /\ Decide(Main, mode')
  /\ UNCHANGED <<registry, clocks, world>>

\* disconnect_client_inner: revoked, dropped by a reload or by the operator.
Dismiss(id) ==
  /\ job[Main] = Idle
  /\ Registered(id) # {}
  /\ told' = Tell({id}, "ended")
  /\ Goes(Main, "erase", id)
  /\ UNCHANGED <<session, registry, clocks, active, away, engine>>

Erase ==
  /\ job[Main].at = "erase"
  /\ clients' = clients \ Registered(job[Main].id)
  /\ job' = [job EXCEPT ![Main].at = "forget"]
  /\ UNCHANGED <<session, tcp_ips, clocks, world>>

Forget ==
  /\ job[Main].at = "forget"
  /\ last_heard' = last_heard \ {job[Main].id}
  /\ silent' = silent \ {job[Main].id}
  /\ job' = [job EXCEPT ![Main].at = "disown"]
  /\ UNCHANGED <<session, registry, world>>

Disown ==
  /\ job[Main].at = "disown"
  /\ tcp_ips' = tcp_ips \ {job[Main].id}
  /\ job' = [job EXCEPT ![Main].at = "resign"]
  /\ UNCHANGED <<session, clients, clocks, world>>

\* Here the session comes before the latch.
Resign ==
  LET id == job[Main].id
  IN /\ job[Main].at = "resign"
     /\ connected' = connected \ {id}
     /\ mode' = IF mode = id THEN HOME ELSE mode
     /\ Goes(Main, IF mode = id THEN "bring_home" ELSE "unlatch", id)
     /\ UNCHANGED <<registry, clocks, world>>

Unlatch ==
  LET id == job[Main].id
  IN /\ \/ job[Main].at = "bring_home" /\ Decide(Main, HOME)
        \/ job[Main].at = "unlatch" /\ Done(Main)
     /\ active' = active \ {id}
     /\ UNCHANGED <<session, registry, clocks, away, engine, told>>

-----------------------------------------------------------------------------
(* The UDP receiver (udp.rs); clients, the network and time are external *)

Hear(id) == last_heard' = last_heard \cup {id} /\ silent' = silent \ {id}

\* The one datagram a client sends to register its stream.
FirstDatagram(c) ==
  LET id == MachineOf[c]
  IN /\ job[Udp] = Idle
     /\ told[c] = "waiting"
     /\ id \in tcp_ips
     /\ Hear(id)
     /\ told' = [told EXCEPT ![c] = "left"]
     /\ UNCHANGED <<session, registry, active, away, engine, job>>

\* A client in control reports its real cursor; the report may move the
\* session's cursor to another screen if it is on this one.
Beacon(c) ==
  LET id == MachineOf[c]
  IN /\ job[Udp] = Idle
     /\ told[c] = "control"
     /\ id \in tcp_ips
     /\ Hear(id)
     /\ \/ UNCHANGED <<session, job>>
        \/ mode = id /\ Promise!Switch /\ mode' # mode /\ Decide(Udp, mode')
     /\ UNCHANGED <<registry, world>>

\* ACTIVE_BEACON_TIMEOUT passes without a datagram.
Silence(id) ==
  /\ id \in last_heard \ silent
  /\ silent' = silent \cup {id}
  /\ UNCHANGED <<session, registry, last_heard, world, job>>

\* check_active_beacon_staleness: the active client has gone silent ...
Watchdog ==
  /\ job[Udp] = Idle
  /\ \E id \in active \cap silent : Goes(Udp, "suspect", id)
  /\ UNCHANGED <<session, registry, clocks, world>>

\* Variant: without a client there is nothing to tear down.
SuspectClient ==
  LET id == job[Udp].id
  IN /\ job[Udp].at = "suspect"
     /\ \/ \E c \in Registered(id) : job' = [job EXCEPT ![Udp] = Job("farewell", HOME, {c})]
        \/ Registered(id) = {} /\ Done(Udp)
     /\ UNCHANGED <<session, registry, clocks, world>>

\* ... and is torn down; without a client the latch and the session are.
Suspect ==
  LET id == job[Udp].id
  IN /\ job[Udp].at = "suspect"
     /\ \/ \E c \in Registered(id) : job' = [job EXCEPT ![Udp] = Job("farewell", HOME, {c})]
        \/ Registered(id) = {} /\ Goes(Udp, "clear", id)
     /\ UNCHANGED <<session, registry, clocks, world>>

-----------------------------------------------------------------------------
Init ==
  /\ Promise!Init
  /\ clients = {} /\ tcp_ips = {} /\ last_heard = {} /\ silent = {}
  /\ active = {} /\ away = FALSE /\ engine = {}
  /\ told = [c \in Conns |-> "ended"]
  /\ job = [t \in Threads |-> IF t \in Conns THEN Gone ELSE Idle]

Teardown(t) == Farewell(t) \/ Unregister(t) \/ Clear(t) \/ Inform(t)
Apply(t) == SwitchToLocal(t) \/ SwitchTo(t) \/ EnterClient(t)
Dismissal == Erase \/ Forget \/ Disown \/ Resign \/ Unlatch

\* The steps a thread takes on its own once it has begun something.
Proceed(t) ==
  \/ Teardown(t)
  \/ Apply(t)
  \/ t = Main /\ Dismissal
  \/ t = Udp /\ Suspect
  \/ t \in Conns /\ (Register(t) \/ Announce(t))

Next ==
  \/ \E t \in Threads : Proceed(t)
  \/ \E c \in Conns : Accept(c) \/ HangUp(c) \/ FirstDatagram(c) \/ Beacon(c)
  \/ \E id \in Machines : Dismiss(id) \/ Silence(id)
  \/ LocalInput
  \/ Watchdog

Served(id) == \E c \in Registered(id) : told[c] = "control"

\* Threads that have begun something go on with it, the receiver wakes when
\* its stream is idle, and a client that is not in control sends no beacons.
Fairness ==
  /\ \A t \in Threads : WF_vars(Proceed(t))
  /\ WF_vars(Watchdog)
  /\ \A id \in Machines : WF_vars(Silence(id) /\ ~Served(id))

Spec == Init /\ [][Next]_vars /\ Fairness

-----------------------------------------------------------------------------
Steps == {"idle", "gone", "register", "announce", "farewell", "unregister", "clear",
          "inform", "apply", "enter", "erase", "forget", "disown", "resign",
          "bring_home", "unlatch", "suspect"}

\* No thread is between a decision and the end of what follows from it.
Settled == \A t \in Threads : job[t].at \in {"idle", "gone", "register", "announce"}

\* Types; a thread holds the engine lock exactly while it enters a client.
TypeOK ==
  /\ mode \in Machines \cup {HOME} /\ connected \subseteq Machines
  /\ clients \subseteq Conns /\ tcp_ips \subseteq Machines
  /\ silent \subseteq last_heard /\ last_heard \subseteq Machines
  /\ active \subseteq Machines /\ away \in BOOLEAN
  /\ told \in [Conns -> {"waiting", "control", "left", "ended"}]
  /\ job \in [Threads -> [at : Steps, id : Machines \cup {HOME}, conn : SUBSET Conns]]
  /\ engine = {t \in Threads : job[t].at = "enter"}

\* "Reset to now at the moment the session activates a client" (mod.rs,
\* Server::last_heard): whatever teardowns and dismissals interleave, an active
\* client always has a clock, so the watchdog is never blind.
ActiveHasClock == Settled => active \subseteq last_heard

\* "A replacement connection that registered in that window was wiped out by the
\* stale connection's teardown" must not happen again (client.rs, teardown): the
\* teardown of one connection leaves every other one registered, and reachable
\* by its cursor stream if it was.
TeardownSparesOthers ==
  [][\A t \in Threads : job[t].at = "unregister" /\ job'[t] # job[t] =>
       \A d \in clients \ job[t].conn :
         /\ d \in clients'
         /\ MachineOf[d] \in tcp_ips => MachineOf[d] \in tcp_ips']_vars

\* "The stale active latch must still be released - otherwise every idle wake of
\* the receiver re-fires this branch forever" (udp.rs,
\* check_active_beacon_staleness): a latch on a client that does not have control
\* - lost between the decision and its Enter, replaced, dismissed - is let go of,
\* or the client gets control, unless new connections supersede forever the one
\* the watchdog is about to drop.
ReconnectsEnd == <>[][\A c \in Conns : ~Accept(c)]_vars
LatchIsReleased ==
  ReconnectsEnd => \A id \in Machines :
    (active = {id} /\ ~Served(id)) ~> (active # {id} \/ Served(id))

\* "A replacement connection that registered in that window was wiped out by the
\* stale connection's teardown [...] leaving a 'connected' client the cursor stream
\* could never reach" (client.rs, teardown): when nothing is under way, a client
\* that is registered and announced can be entered and its stream is accepted.
RegisteredIsReachable ==
  Settled => \A c \in clients : job[c] = Idle => MachineOf[c] \in connected \cap tcp_ips

\* "Clear the latch and hand control home once" (udp.rs,
\* check_active_beacon_staleness; also "the machine is never left input-dead",
\* liveness.rs): when nothing is under way, the cursor is home and no client is
\* active, local input is released.
NotIsolatedAtHome == Settled /\ mode = HOME /\ active = {} => ~away
=============================================================================
