---------------------------- MODULE ServerProofs ----------------------------
(***************************************************************************)
(* Proofs about Server, for any number of machines and connections: types, *)
(* teardown, the silence clock, and isolation.                             *)
(***************************************************************************)
EXTENDS Server, TLAPS

Jobs == [at : Steps, id : Machines \cup {HOME}, conn : SUBSET Conns]

Words == {"waiting", "control", "left", "ended"}

\* A thread's next step is replaced; the engine lock goes with it.
LEMMA JobStep ==
  ASSUME job \in [Threads -> Jobs],
         engine = {u \in Threads : job[u].at = "enter"},
         NEW t \in Threads, NEW j \in Jobs,
         job' = [job EXCEPT ![t] = j],
         engine' = IF j.at = "enter" THEN engine \cup {t} ELSE engine \ {t}
  PROVE  /\ job' \in [Threads -> Jobs]
         /\ engine' = {u \in Threads : job'[u].at = "enter"}
<1>1. job' \in [Threads -> Jobs]
  OBVIOUS
<1>2. job'[t] = j /\ \A u \in Threads \ {t} : job'[u] = job[u]
  OBVIOUS
<1>3. ASSUME NEW u \in Threads
      PROVE  u \in engine' <=> job'[u].at = "enter"
  BY <1>2, <1>3
<1>4. engine' \subseteq Threads
  OBVIOUS
<1> QED
  BY <1>1, <1>3, <1>4

\* The step of a thread changes, what it is for does not.
LEMMA OnlyAt ==
  ASSUME job \in [Threads -> Jobs], NEW t \in Threads, NEW at \in Steps
  PROVE  /\ [job EXCEPT ![t].at = at] = [job EXCEPT ![t] = Job(at, job[t].id, job[t].conn)]
         /\ Job(at, job[t].id, job[t].conn) \in Jobs
<1>1. job[t] \in Jobs
  OBVIOUS
<1>2. [job[t] EXCEPT !.at = at] = Job(at, job[t].id, job[t].conn)
  BY <1>1 DEF Jobs, Job
<1> QED
  BY <1>1, <1>2 DEF Jobs, Job

\* The steps by which threads go on, seen from the types: t goes from a step
\* that holds no lock to another one.
LEMMA NextJob ==
  ASSUME TypeOK, NEW t \in Threads, NEW j \in Jobs,
         job' = [job EXCEPT ![t] = j], j.at # "enter",
         engine' = engine \ {t}
  PROVE  /\ job' \in [Threads -> Jobs]
         /\ engine' = {u \in Threads : job'[u].at = "enter"}
<1> job \in [Threads -> Jobs] /\ engine = {u \in Threads : job[u].at = "enter"}
  BY DEF TypeOK, Jobs
<1> QED
  BY JobStep

\* The two resting steps and every step named in Steps are jobs.
LEMMA JobTypes ==
  /\ Idle \in Jobs /\ Idle.at = "idle"
  /\ Gone \in Jobs /\ Gone.at = "gone"
  /\ \A at \in Steps, id \in Machines \cup {HOME}, conn \in SUBSET Conns :
       Job(at, id, conn) \in Jobs /\ Job(at, id, conn).at = at
BY DEF Jobs, Steps, Idle, Gone, Job

\* Types outlive a step that types the world and moves one thread on.
LEMMA TypesKept ==
  ASSUME TypeOK,
         mode' \in Machines \cup {HOME}, connected' \subseteq Machines,
         clients' \subseteq Conns, tcp_ips' \subseteq Machines,
         silent' \subseteq last_heard', last_heard' \subseteq Machines,
         active' \subseteq Machines, away' \in BOOLEAN,
         told' \in [Conns -> Words],
         job' \in [Threads -> Jobs],
         engine' = {u \in Threads : job'[u].at = "enter"}
  PROVE  TypeOK'
BY DEF TypeOK, Jobs, Words

\* What enqueue leaves in a client's queue is a word.
LEMMA TellTypes ==
  ASSUME told \in [Conns -> Words], NEW ids, NEW word \in Words
  PROVE  Tell(ids, word) \in [Conns -> Words]
BY DEF Tell

\* One thread at a time holds the engine lock (Mutex<Box<dyn Engine>>).
LockExclusive == \A t, u \in engine : t = u

\* A thread past SwitchTo enters a client, never the server's own screen.
EntersClient == \A t \in Threads : job[t].at = "enter" => job[t].id \in Machines

TypeInv == TypeOK /\ LockExclusive /\ EntersClient

\* The initial state is well typed: every lock is free, every thread idle or gone.
LEMMA InitTypes == Init => TypeInv
<1> SUFFICES ASSUME Init PROVE TypeInv
  OBVIOUS
<1>1. job \in [Threads -> Jobs] /\ \A t \in Threads : job[t].at \in {"idle", "gone"}
  BY JobTypes DEF Init
<1>2. told \in [Conns -> Words]
  BY DEF Init, Words
<1> QED
  BY <1>1, <1>2 DEF Init, Promise!Init, Promise!HOME, HOME, TypeInv, TypeOK, Jobs, Words,
                    LockExclusive, EntersClient

\* Every action keeps the types.
LEMMA TypeStep ==
  ASSUME TypeInv, [Next]_vars
  PROVE  TypeOK'
<1> USE MachineAssumption, ThreadAssumption
<1> TypeOK /\ LockExclusive /\ EntersClient
  BY DEF TypeInv
<1>1. ASSUME NEW c \in Conns, Accept(c) PROVE TypeOK'
  BY <1>1 DEF Accept, Goes, Job, Idle, Gone, HOME, TypeOK, Steps, Threads, session,
     registry, clocks, world
<1>2. ASSUME NEW c \in Conns, Register(c) PROVE TypeOK'
  BY <1>2 DEF Register, Goes, Job, Registered, Tell, HOME, TypeOK, Steps, Threads,
     session, registry, clocks, world
<1>3. ASSUME NEW c \in Conns, Announce(c) PROVE TypeOK'
  BY <1>3 DEF Announce, Idle, Job, HOME, TypeOK, Steps, Threads, session, registry,
     clocks, world
<1>4. ASSUME NEW c \in Conns, HangUp(c) PROVE TypeOK'
  <2>1. /\ c \in Threads /\ {c} \in SUBSET Conns
        /\ "farewell" \in Steps /\ HOME \in Machines \cup {HOME}
    BY DEF Threads, Steps
  <2>2. PICK j \in Jobs : j.at # "enter" /\ job' = [job EXCEPT ![c] = j]
    BY <1>4, <2>1, JobTypes DEF HangUp
  <2>3. engine' = engine \ {c}
    BY <1>4, <2>1, JobTypes DEF HangUp, TypeOK, world
  <2>4. job' \in [Threads -> Jobs] /\ engine' = {u \in Threads : job'[u].at = "enter"}
    BY <2>1, <2>2, <2>3, NextJob
  <2> QED
    BY <1>4, <2>4, TypesKept DEF HangUp, TypeOK, Words, session, registry, clocks, world,
       HOME
<1>5. ASSUME NEW t \in Threads, Farewell(t) PROVE TypeOK'
  <2>1. told' \in [Conns -> Words]
    BY <1>5 DEF Farewell, TypeOK, Words
  <2>2. PICK j \in Jobs : j.at # "enter" /\ job' = [job EXCEPT ![t] = j]
    <3>1. CASE job' = [job EXCEPT ![t].at = "unregister"]
      <4> DEFINE j == Job("unregister", job[t].id, job[t].conn)
      <4>1. job \in [Threads -> Jobs] /\ "unregister" \in Steps
        BY DEF TypeOK, Jobs, Steps
      <4>2. job' = [job EXCEPT ![t] = j] /\ j \in Jobs
        BY <3>1, <4>1, OnlyAt
      <4>3. j.at # "enter"
        BY DEF Job
      <4> QED
        BY <4>2, <4>3
    <3>2. CASE Done(t)
      BY <3>2, JobTypes DEF Done
    <3> QED
      BY <1>5, <3>1, <3>2 DEF Farewell
  <2>3. engine' = engine \ {t}
    BY <1>5 DEF Farewell, TypeOK
  <2>4. job' \in [Threads -> Jobs] /\ engine' = {u \in Threads : job'[u].at = "enter"}
    BY <2>2, <2>3, NextJob
  <2> QED
    BY <1>5, <2>1, <2>4, TypesKept DEF Farewell, TypeOK, session, registry, clocks, HOME
<1>6. ASSUME NEW t \in Threads, Unregister(t) PROVE TypeOK'
  BY <1>6 DEF Unregister, Done, Goes, Idle, Gone, Job, HOME, TypeOK, Steps, Threads,
     session, registry, clocks, world
<1>7. ASSUME NEW t \in Threads, Clear(t) PROVE TypeOK'
  BY <1>7 DEF Clear, HOME, TypeOK, Steps, Threads, session, registry, clocks, world
<1>8. ASSUME NEW t \in Threads, Inform(t) PROVE TypeOK'
  BY <1>8 DEF Inform, Done, Decide, Goes, Idle, Gone, Job, HOME, TypeOK, Steps, Threads,
     session, registry, clocks, world
<1>9. ASSUME NEW t \in Threads, SwitchToLocal(t) PROVE TypeOK'
  <2>1. told' \in [Conns -> Words]
    BY <1>9, TellTypes DEF SwitchToLocal, TypeOK, Words
  <2>2. job' \in [Threads -> Jobs] /\ engine' = {u \in Threads : job'[u].at = "enter"}
    <3>1. engine' = engine \ {t} /\ job' = [job EXCEPT ![t] = IF t \in Conns THEN Gone ELSE Idle]
      BY <1>9 DEF SwitchToLocal, Done
    <3> QED
      BY <3>1, NextJob, JobTypes
  <2> QED
    BY <1>9, <2>1, <2>2, TypesKept DEF SwitchToLocal, TypeOK, session, registry, clocks,
       HOME
<1>10. ASSUME NEW t \in Threads, SwitchTo(t) PROVE TypeOK'
  BY <1>10 DEF SwitchTo, Tell, HOME, TypeOK, Steps, Threads, session, registry, clocks,
     world
<1>11. ASSUME NEW t \in Threads, EnterClient(t) PROVE TypeOK'
  <2>1. told' \in [Conns -> Words]
    BY <1>11, TellTypes DEF EnterClient, TypeOK, Words
  <2>2. job' \in [Threads -> Jobs] /\ engine' = {u \in Threads : job'[u].at = "enter"}
    <3>1. engine' = engine \ {t} /\ job' = [job EXCEPT ![t] = IF t \in Conns THEN Gone ELSE Idle]
      BY <1>11 DEF EnterClient, Done, TypeOK, LockExclusive
    <3> QED
      BY <3>1, NextJob, JobTypes
  <2>3. job[t].id \in Machines
    BY <1>11 DEF EnterClient, EntersClient
  <2> QED
    BY <1>11, <2>1, <2>2, <2>3, TypesKept DEF EnterClient, TypeOK, session, registry, HOME
<1>12. ASSUME LocalInput PROVE TypeOK'
  <2>1. mode' \in Machines \cup {HOME} /\ connected' = connected
    BY <1>12 DEF LocalInput, Promise!Switch, TypeOK, session, HOME
  <2>2. job' \in [Threads -> Jobs] /\ engine' = {u \in Threads : job'[u].at = "enter"}
    <3>1. Main \in Threads /\ {} \in SUBSET Conns /\ "apply" \in Steps
      BY DEF Threads, Steps
    <3>2. engine' = engine \ {Main}
      BY <1>12, <3>1, JobTypes DEF LocalInput, TypeOK, world
    <3>3. job' = [job EXCEPT ![Main] = Job("apply", mode', {})]
      BY <1>12 DEF LocalInput, Decide, Goes
    <3> QED
      BY <2>1, <3>1, <3>2, <3>3, NextJob, JobTypes
  <2> QED
    BY <1>12, <2>1, <2>2, TypesKept DEF LocalInput, TypeOK, Words, registry, clocks,
       world, HOME
<1>13. ASSUME NEW id \in Machines, Dismiss(id) PROVE TypeOK'
  <2>1. told' \in [Conns -> Words]
    BY <1>13, TellTypes DEF Dismiss, TypeOK, Words
  <2>2. job' \in [Threads -> Jobs] /\ engine' = {u \in Threads : job'[u].at = "enter"}
    <3>1. Main \in Threads /\ {} \in SUBSET Conns /\ "erase" \in Steps
      BY DEF Threads, Steps
    <3>2. engine' = engine \ {Main}
      BY <1>13, <3>1, JobTypes DEF Dismiss, TypeOK
    <3>3. job' = [job EXCEPT ![Main] = Job("erase", id, {})]
      BY <1>13 DEF Dismiss, Goes
    <3> QED
      BY <3>1, <3>2, <3>3, NextJob, JobTypes
  <2> QED
    BY <1>13, <2>1, <2>2, TypesKept DEF Dismiss, TypeOK, session, registry, clocks, HOME
<1>14. ASSUME Erase PROVE TypeOK'
  BY <1>14 DEF Erase, HOME, TypeOK, Steps, Threads, session, registry, clocks, world
<1>15. ASSUME Forget PROVE TypeOK'
  BY <1>15 DEF Forget, HOME, TypeOK, Steps, Threads, session, registry, clocks, world
<1>16. ASSUME Disown PROVE TypeOK'
  BY <1>16 DEF Disown, HOME, TypeOK, Steps, Threads, session, registry, clocks, world
<1>17. ASSUME Resign PROVE TypeOK'
  BY <1>17 DEF Resign, Goes, Job, HOME, TypeOK, Steps, Threads, session, registry, clocks,
     world
<1>18. ASSUME Unlatch PROVE TypeOK'
  BY <1>18 DEF Unlatch, Decide, Goes, Done, Idle, Gone, Job, HOME, TypeOK, Steps, Threads,
     session, registry, clocks, world
<1>19. ASSUME NEW c \in Conns, FirstDatagram(c) PROVE TypeOK'
  BY <1>19 DEF FirstDatagram, Hear, TypeOK, Steps, Threads, session, registry, clocks, world
<1>20. ASSUME NEW c \in Conns, Beacon(c) PROVE TypeOK'
  <2> DEFINE id == MachineOf[c]
  <2>1. mode' \in Machines \cup {HOME} /\ connected' = connected
    BY <1>20 DEF Beacon, Promise!Switch, TypeOK, session, HOME
  <2>2. job' \in [Threads -> Jobs] /\ engine' = {u \in Threads : job'[u].at = "enter"}
    <3>1. Udp \in Threads /\ {} \in SUBSET Conns /\ "apply" \in Steps
      BY DEF Threads, Steps
    <3>2. engine' = engine /\ engine' = engine \ {Udp}
      BY <1>20, <3>1, JobTypes DEF Beacon, TypeOK, world
    <3>3. CASE UNCHANGED job
      BY <3>2, <3>3 DEF TypeOK, Jobs
    <3>4. CASE job' = [job EXCEPT ![Udp] = Job("apply", mode', {})]
      BY <2>1, <3>1, <3>2, <3>4, NextJob, JobTypes
    <3> QED
      BY <1>20, <3>3, <3>4 DEF Beacon, Decide, Goes
  <2>3. last_heard' \subseteq Machines /\ silent' \subseteq last_heard'
    BY <1>20, MachineAssumption DEF Beacon, Hear, TypeOK
  <2> QED
    BY <1>20, <2>1, <2>2, <2>3, TypesKept DEF Beacon, TypeOK, Words, registry, world, HOME
<1>21. ASSUME NEW id \in Machines, Silence(id) PROVE TypeOK'
  BY <1>21 DEF Silence, HOME, TypeOK, Steps, Threads, session, registry, clocks, world
<1>22. ASSUME Watchdog PROVE TypeOK'
  <2>1. PICK id \in Machines : job' = [job EXCEPT ![Udp] = Job("suspect", id, {})]
    BY <1>22 DEF Watchdog, Goes, TypeOK
  <2>2. /\ Udp \in Threads
        /\ Job("suspect", id, {}) \in Jobs /\ Job("suspect", id, {}).at # "enter"
    BY JobTypes DEF Threads, Steps
  <2>3. engine' = engine \ {Udp}
    BY <1>22, <2>2, JobTypes DEF Watchdog, TypeOK, world
  <2>4. job' \in [Threads -> Jobs] /\ engine' = {u \in Threads : job'[u].at = "enter"}
    BY <2>1, <2>2, <2>3, NextJob
  <2> QED
    BY <1>22, <2>4, TypesKept DEF Watchdog, TypeOK, Words, session, registry, clocks,
       world, HOME
<1>23. ASSUME Suspect PROVE TypeOK'
  <2>1. PICK at \in {"farewell", "clear"} : \E id \in Machines \cup {HOME} :
          \E conn \in SUBSET Conns : job' = [job EXCEPT ![Udp] = Job(at, id, conn)]
    <3>1. CASE \E c \in Registered(job[Udp].id) :
                job' = [job EXCEPT ![Udp] = Job("farewell", HOME, {c})]
      BY <3>1 DEF Registered, TypeOK
    <3>2. CASE Goes(Udp, "clear", job[Udp].id)
      BY <3>2 DEF Goes, TypeOK, Threads
    <3> QED
      BY <1>23, <3>1, <3>2 DEF Suspect
  <2>2. PICK j \in Jobs : j.at # "enter" /\ job' = [job EXCEPT ![Udp] = j]
    <3> at \in Steps
      BY DEF Steps
    <3> QED
      BY <2>1, JobTypes
  <2> Udp \in Threads
    BY DEF Threads
  <2>3. engine' = engine \ {Udp}
    BY <1>23, JobTypes DEF Suspect, TypeOK, world
  <2>4. job' \in [Threads -> Jobs] /\ engine' = {u \in Threads : job'[u].at = "enter"}
    BY <2>2, <2>3, NextJob
  <2> QED
    BY <1>23, <2>4, TypesKept DEF Suspect, TypeOK, Words, session, registry, clocks,
       world, HOME
<1>24. CASE UNCHANGED vars
  BY <1>24 DEF vars, TypeOK, session, registry, clocks, world
<1> QED
  BY <1>1, <1>2, <1>3, <1>4, <1>5, <1>6, <1>7, <1>8, <1>9, <1>10, <1>11, <1>12, <1>13,
     <1>14, <1>15, <1>16, <1>17, <1>18, <1>19, <1>20, <1>21, <1>22, <1>23, <1>24
  DEF Next, Proceed, Teardown, Apply, Dismissal, Threads

\* The engine lock is taken only when it is free, and let go of before the next
\* decision is applied.
LEMMA LockStep ==
  ASSUME TypeInv, [Next]_vars
  PROVE  LockExclusive'
<1>1. engine' = engine \/ engine' = {} \/ \E t \in Threads : engine' = {t}
  BY DEF Next, Proceed, Teardown, Apply, Dismissal, vars, world, Accept, Register,
     Announce, HangUp,
         Farewell, Unregister, Clear, Inform, SwitchToLocal, SwitchTo, EnterClient, LocalInput,
         Dismiss, Erase, Forget, Disown, Resign, Unlatch, FirstDatagram, Beacon, Silence,
         Watchdog, Suspect
<1> QED
  BY <1>1 DEF TypeInv, LockExclusive

\* The steps, by the thread they belong to.
ConnectionStep == \E c \in Conns : Accept(c) \/ Register(c) \/ Announce(c) \/ HangUp(c)
MainStep == LocalInput \/ (\E id \in Machines : Dismiss(id)) \/ Dismissal
ReceiverStep ==
  \/ \E c \in Conns : FirstDatagram(c) \/ Beacon(c)
  \/ \E id \in Machines : Silence(id)
  \/ Watchdog \/ Suspect

\* Every step belongs to a connection, to a teardown or a switch under way, to
\* the main loop or to the receiver.
LEMMA StepsByThread ==
  ASSUME Next
  PROVE  \/ ConnectionStep
         \/ \E t \in Threads : Teardown(t) \/ Apply(t)
         \/ MainStep
         \/ ReceiverStep
BY DEF Next, Proceed, ConnectionStep, MainStep, ReceiverStep

\* Only SwitchTo leads to the step that enters a client.
LEMMA EntersStep ==
  ASSUME TypeInv, [Next]_vars
  PROVE  EntersClient'
<1> USE DEF Threads, Goes, Done, Decide, Idle, Gone, Job
<1>0. /\ job \in [Threads -> Jobs] /\ EntersClient /\ HOME \notin Machines
      /\ Main \in Threads /\ Udp \in Threads
  BY MachineAssumption DEF TypeInv, TypeOK, Jobs
<1>1. CASE UNCHANGED vars
  BY <1>0, <1>1 DEF vars, EntersClient
<1>2. CASE ConnectionStep
  BY <1>0, <1>2 DEF ConnectionStep, Accept, Register, Announce, HangUp, EntersClient, Jobs
<1>3. ASSUME NEW t \in Threads, Teardown(t) PROVE EntersClient'
  BY <1>0, <1>3 DEF Teardown, Farewell, Unregister, Clear, Inform, EntersClient, Jobs
<1>4. ASSUME NEW t \in Threads, Apply(t) PROVE EntersClient'
  BY <1>0, <1>4 DEF Apply, SwitchToLocal, SwitchTo, EnterClient, EntersClient, Jobs
<1>5. CASE MainStep
  <2>1. CASE LocalInput
    BY <1>0, <2>1 DEF LocalInput, EntersClient, Jobs
  <2>2. ASSUME NEW id \in Machines, Dismiss(id) PROVE EntersClient'
    BY <1>0, <2>2 DEF Dismiss, EntersClient, Jobs
  <2>3. CASE Dismissal
    BY <1>0, <2>3 DEF Dismissal, Erase, Forget, Disown, Resign, Unlatch, EntersClient, Jobs
  <2> QED
    BY <1>5, <2>1, <2>2, <2>3 DEF MainStep
<1>6. CASE ReceiverStep
  BY <1>0, <1>6 DEF ReceiverStep, FirstDatagram, Beacon, Silence, Watchdog, Suspect,
                    EntersClient, Jobs
<1> QED
  BY <1>1, <1>2, <1>3, <1>4, <1>5, <1>6, StepsByThread

\* The inductive type invariant holds in every behaviour.
LEMMA TypeInvHolds == Spec => []TypeInv
<1>1. TypeInv /\ [Next]_vars => TypeInv'
  BY TypeStep, LockStep, EntersStep DEF TypeInv
<1> QED
  BY InitTypes, <1>1, PTL DEF Spec

\* Types, and the engine lock is held exactly while a thread enters a client
\* (apply_action), for any number of threads.
THEOREM TypeTheorem == Spec => []TypeOK
<1>1. TypeInv => TypeOK
  BY DEF TypeInv
<1> QED
  BY TypeInvHolds, <1>1, PTL

-----------------------------------------------------------------------------
\* A replacement takes the place of the connection it replaces (HashMap::insert).
OnePerMachine == \A c, d \in clients : MachineOf[c] = MachineOf[d] => c = d

\* Only a registration adds a connection, and it takes the machine's other one out.
LEMMA OneStep ==
  ASSUME TypeInv, OnePerMachine, [Next]_vars
  PROVE  OnePerMachine'
<1>1. clients' \subseteq clients \/ \E c \in Conns : Register(c)
  <2>1. CASE UNCHANGED vars
    BY <2>1 DEF vars, registry
  <2>2. CASE ConnectionStep
    BY <2>2 DEF ConnectionStep, Accept, Announce, HangUp, registry
  <2>3. ASSUME NEW t \in Threads, Teardown(t) \/ Apply(t) PROVE clients' \subseteq clients
    BY <2>3 DEF Teardown, Farewell, Unregister, Clear, Inform, Apply, SwitchToLocal,
       SwitchTo,
                EnterClient, registry
  <2>4. CASE MainStep
    BY <2>4 DEF MainStep, LocalInput, Dismiss, Dismissal, Erase, Forget, Disown, Resign,
       Unlatch,
                registry
  <2>5. CASE ReceiverStep
    BY <2>5 DEF ReceiverStep, FirstDatagram, Beacon, Silence, Watchdog, Suspect, registry
  <2> QED
    BY <2>1, <2>2, <2>3, <2>4, <2>5, StepsByThread
<1>2. ASSUME NEW c \in Conns, Register(c) PROVE OnePerMachine'
  BY <1>2 DEF Register, Registered, OnePerMachine, TypeInv, TypeOK
<1> QED
  BY <1>1, <1>2 DEF OnePerMachine

\* A thread that unregisters a connection is in ClientCtx::teardown.
LEMMA UnregistersAlone ==
  ASSUME TypeInv, [Next]_vars, NEW t \in Threads, job[t].at = "unregister", job'[t] # job[t]
  PROVE  Unregister(t)
<1> USE DEF Threads, Goes, Done, Decide, Idle, Gone, Job
<1>0. job \in [Threads -> Jobs]
  BY DEF TypeInv, TypeOK, Jobs
<1>1. CASE UNCHANGED vars
  BY <1>1 DEF vars
<1>2. CASE ConnectionStep
  BY <1>0, <1>2 DEF ConnectionStep, Accept, Register, Announce, HangUp
<1>3. ASSUME NEW u \in Threads, Teardown(u) PROVE Unregister(t)
  BY <1>0, <1>3 DEF Teardown, Farewell, Unregister, Clear, Inform
<1>4. ASSUME NEW u \in Threads, Apply(u) PROVE FALSE
  BY <1>0, <1>4 DEF Apply, SwitchToLocal, SwitchTo, EnterClient
<1>5. CASE MainStep
  <2>1. CASE LocalInput
    BY <1>0, <2>1 DEF LocalInput
  <2>2. ASSUME NEW id \in Machines, Dismiss(id) PROVE FALSE
    BY <1>0, <2>2 DEF Dismiss
  <2>3. CASE Dismissal
    BY <1>0, <2>3 DEF Dismissal, Erase, Forget, Disown, Resign, Unlatch
  <2> QED
    BY <1>5, <2>1, <2>2, <2>3 DEF MainStep
<1>6. CASE ReceiverStep
  BY <1>0, <1>6 DEF ReceiverStep, FirstDatagram, Beacon, Silence, Watchdog, Suspect
<1> QED
  BY <1>1, <1>2, <1>3, <1>4, <1>5, <1>6, StepsByThread

\* Whatever registered between the two checks of a teardown, only the connection
\* that is torn down is forgotten (ClientCtx::teardown, Arc::ptr_eq).
THEOREM TeardownTheorem == Spec => TeardownSparesOthers
<1> DEFINE Spares ==
      \A t \in Threads : job[t].at = "unregister" /\ job'[t] # job[t] =>
        \A d \in clients \ job[t].conn :
          /\ d \in clients'
          /\ MachineOf[d] \in tcp_ips => MachineOf[d] \in tcp_ips'
<1>1. Init => OnePerMachine
  BY DEF Init, OnePerMachine
<1>2. TypeInv /\ OnePerMachine /\ [Next]_vars => OnePerMachine'
  BY OneStep
<1>3. TypeInv /\ OnePerMachine /\ [Next]_vars => [Spares]_vars
  <2> SUFFICES ASSUME TypeInv, OnePerMachine, [Next]_vars,
                      NEW t \in Threads, job[t].at = "unregister", job'[t] # job[t],
                      NEW d \in clients \ job[t].conn
               PROVE  d \in clients' /\ (MachineOf[d] \in tcp_ips => MachineOf[d] \in tcp_ips')
    OBVIOUS
  <2>1. PICK c \in job[t].conn :
          \/ c \in clients /\ clients' = clients \ {c} /\ tcp_ips' = tcp_ips \ {MachineOf[c]}
          \/ UNCHANGED registry
    BY UnregistersAlone DEF Unregister
  <2> QED
    BY <2>1 DEF OnePerMachine, registry
<1> QED
  BY TypeInvHolds, <1>1, <1>2, <1>3, PTL DEF Spec, TeardownSparesOthers

-----------------------------------------------------------------------------
\* An active client without a clock is one a thread is about to deal with: its
\* Enter is on the way, or its latch is about to be cleared.
ClockOrCleanup ==
  \A id \in active \ last_heard : \E t \in Threads :
    /\ job[t].id = id
    /\ \/ job[t].at \in {"clear", "enter"}
       \/ t = Main /\ job[t].at \in {"disown", "resign", "bring_home", "unlatch"}

\* Every action keeps a clock, or a thread that sees to its absence, for the
\* active client.
LEMMA ClockStep ==
  ASSUME TypeInv, ClockOrCleanup, [Next]_vars
  PROVE  ClockOrCleanup'
<1> USE ThreadAssumption DEF Threads, Goes, Done, Decide, Idle, Gone, Job
<1>0. job \in [Threads -> Jobs] /\ ClockOrCleanup
  BY DEF TypeInv, TypeOK, Jobs
<1>1. CASE UNCHANGED vars
  BY <1>0, <1>1 DEF vars, clocks, world, ClockOrCleanup
<1>2. CASE ConnectionStep
  BY <1>0, <1>2 DEF ConnectionStep, Accept, Register, Announce, HangUp, ClockOrCleanup,
     clocks,
                    world
<1>3. ASSUME NEW t \in Threads, Teardown(t) PROVE ClockOrCleanup'
  <2>1. CASE Farewell(t)
    BY <1>0, <2>1 DEF Farewell, ClockOrCleanup, clocks
  <2>2. CASE Unregister(t)
    BY <1>0, <2>2 DEF Unregister, ClockOrCleanup, clocks, world
  <2>3. CASE Clear(t)
    BY <1>0, <2>3 DEF Clear, ClockOrCleanup, clocks
  <2>4. CASE Inform(t)
    BY <1>0, <2>4 DEF Inform, ClockOrCleanup, clocks, world
  <2> QED
    BY <1>3, <2>1, <2>2, <2>3, <2>4 DEF Teardown
<1>4. ASSUME NEW t \in Threads, Apply(t) PROVE ClockOrCleanup'
  <2>1. CASE SwitchToLocal(t)
    BY <2>1 DEF SwitchToLocal, ClockOrCleanup
  <2>2. CASE SwitchTo(t)
    BY <1>0, <2>2 DEF SwitchTo, ClockOrCleanup
  <2>3. CASE EnterClient(t)
    BY <1>0, <2>3 DEF EnterClient, ClockOrCleanup
  <2> QED
    BY <1>4, <2>1, <2>2, <2>3 DEF Apply
<1>5. CASE MainStep
  <2>1. CASE LocalInput
    BY <1>0, <2>1 DEF LocalInput, ClockOrCleanup, clocks, world
  <2>2. ASSUME NEW id \in Machines, Dismiss(id) PROVE ClockOrCleanup'
    BY <1>0, <2>2 DEF Dismiss, ClockOrCleanup, clocks
  <2>3. CASE Erase
    BY <1>0, <2>3 DEF Erase, ClockOrCleanup, clocks, world
  <2>4. CASE Forget
    BY <1>0, <2>4 DEF Forget, ClockOrCleanup, world
  <2>5. CASE Disown
    BY <1>0, <2>5 DEF Disown, ClockOrCleanup, clocks, world
  <2>6. CASE Resign
    BY <1>0, <2>6 DEF Resign, ClockOrCleanup, clocks, world
  <2>7. CASE Unlatch
    BY <1>0, <2>7 DEF Unlatch, ClockOrCleanup, clocks
  <2> QED
    BY <1>5, <2>1, <2>2, <2>3, <2>4, <2>5, <2>6, <2>7 DEF MainStep, Dismissal
<1>6. CASE ReceiverStep
  BY <1>0, <1>6 DEF ReceiverStep, FirstDatagram, Beacon, Silence, Watchdog, Suspect, Hear,
                    ClockOrCleanup, clocks, world
<1> QED
  BY <1>1, <1>2, <1>3, <1>4, <1>5, <1>6, StepsByThread

\* The watchdog is never blind: once every decision is carried out, the active
\* client has a clock (Server::last_heard, apply_action).
THEOREM ClockTheorem == Spec => []ActiveHasClock
<1>1. Init => ClockOrCleanup
  BY DEF Init, ClockOrCleanup
<1>2. TypeInv /\ ClockOrCleanup /\ [Next]_vars => ClockOrCleanup'
  BY ClockStep
<1>3. ClockOrCleanup => ActiveHasClock
  BY DEF ClockOrCleanup, ActiveHasClock, Settled
<1> QED
  BY TypeInvHolds, <1>1, <1>2, <1>3, PTL DEF Spec

-----------------------------------------------------------------------------
\* Local input is isolated while a client is active, but for the time the engine lock
\* is held to enter that client: nothing the user does reaches two machines.
IsolatedWhileActive == active # {} => away \/ engine # {}

\* The latch, the grab and the isolation change under the engine lock (apply_action);
\* what runs without it only clears the latch (teardown, disconnect_client_inner).
THEOREM IsolationTheorem == Spec => []IsolatedWhileActive
<1>1. Init => IsolatedWhileActive
  BY DEF Init, IsolatedWhileActive
<1>2. IsolatedWhileActive /\ [Next]_vars => IsolatedWhileActive'
  <2>1. SUFFICES ASSUME IsolatedWhileActive, [Next]_vars PROVE IsolatedWhileActive'
    OBVIOUS
  <2>2. CASE UNCHANGED vars
    BY <2>1, <2>2 DEF vars, world, IsolatedWhileActive
  <2>3. CASE ConnectionStep
    BY <2>1, <2>3 DEF ConnectionStep, Accept, Register, Announce, HangUp, world,
                      IsolatedWhileActive
  <2>4. ASSUME NEW t \in Threads, Teardown(t) PROVE IsolatedWhileActive'
    BY <2>1, <2>4 DEF Teardown, Farewell, Unregister, Clear, Inform, world, IsolatedWhileActive
  <2>5. ASSUME NEW t \in Threads, Apply(t) PROVE IsolatedWhileActive'
    BY <2>1, <2>5 DEF Apply, SwitchToLocal, SwitchTo, EnterClient, IsolatedWhileActive
  <2>6. CASE MainStep
    BY <2>1, <2>6 DEF MainStep, LocalInput, Dismiss, Dismissal, Erase, Forget, Disown, Resign,
                      Unlatch, world, IsolatedWhileActive
  <2>7. CASE ReceiverStep
    BY <2>1, <2>7 DEF ReceiverStep, FirstDatagram, Beacon, Silence, Watchdog, Suspect, world,
                      IsolatedWhileActive
  <2> QED BY <2>1, <2>2, <2>3, <2>4, <2>5, <2>6, <2>7, StepsByThread
<1> QED BY <1>1, <1>2, PTL DEF Spec
=============================================================================
