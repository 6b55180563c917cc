---------------------------- MODULE RolesProofs ----------------------------
(***************************************************************************)
(* One kvmshare role per machine, for any number of processes: what the    *)
(* locks say of the phases is inductive.  Of all that happens only five    *)
(* things touch the locks - taking the own one, probing, ending the probe, *)
(* and a process dying alone or with its whole role - so the proof is one  *)
(* lemma for each, and one for a step that moves a process whose locks     *)
(* stay as they are.  The second half is the command file: a command is in *)
(* the file, with the server's watcher, or done with.                      *)
(***************************************************************************)
EXTENDS Roles, TLAPS

Phases == {"none", "starting", "locked", "probing", "refused"} \cup Up

LocksTyped ==
  /\ role \in [Procs -> Roles]
  /\ phase \in [Procs -> Phases]
  /\ lock \in [Roles -> Procs \cup {NoProc}]

Holding(p) == phase[p] \in {"locked", "probing"} \cup Up
Past(p) == phase[p] \in {"probing"} \cup Up

\* A process that is past its lock holds it, and the other one while it probes.
HoldsOwn == \A p \in Procs : Holding(p) => lock[role[p]] = p
HoldsProbe == \A p \in Procs : phase[p] = "probing" => lock[Other(role[p])] = p

\* Of two processes of different roles, one that is up has seen no other there.
Apart ==
  \A p, q \in Procs : role[p] # role[q] /\ Runs(p) => ~Past(q)

LockInv == LocksTyped /\ HoldsOwn /\ HoldsProbe /\ Apart

\* What the GUI starts is a role.
GuiTyped ==
  /\ mode \in Roles
  /\ gui \in [step : {"idle", "stopping", "cleaning", "spawning", "checking"},
              role : Roles, want : Roles \cup {"none"}, proc : Procs \cup {NoProc}, tries : {1, 2}]
  /\ gui.step = "spawning" => gui.want \in Roles
  /\ gui.step = "checking" => gui.proc \in Procs

-----------------------------------------------------------------------------
\* A process in a phase of its own: no locks change hands.
LEMMA MovesOn ==
  ASSUME LockInv, NEW p \in Procs, NEW to \in Phases, role' = role, lock' = lock,
         phase' = [phase EXCEPT ![p] = to],
         to \in {"none", "starting", "refused"} \/ (Runs(p) /\ to \in Up)
  PROVE  LockInv'
<1>1. LocksTyped'
  BY DEF LockInv, LocksTyped
<1>2. HoldsOwn'
  BY DEF LockInv, LocksTyped, HoldsOwn, Holding, Runs, Up
<1>3. HoldsProbe'
  BY DEF LockInv, LocksTyped, HoldsProbe, Runs, Up
<1>4. Apart'
  BY DEF LockInv, LocksTyped, Apart, Past, Runs, Up
<1>5. QED BY <1>1, <1>2, <1>3, <1>4 DEF LockInv

\* A process of a role begins: it holds nothing.
LEMMA Beginning ==
  ASSUME LockInv, NEW p \in Procs, NEW r \in Roles, Begins(p, r), lock' = lock
  PROVE  LockInv'
<1>1. LocksTyped'
  BY DEF LockInv, LocksTyped, Begins, Phases
<1>2. HoldsOwn'
  BY DEF LockInv, LocksTyped, HoldsOwn, Holding, Begins, Up
<1>3. HoldsProbe'
  BY DEF LockInv, LocksTyped, HoldsProbe, Begins, Up
<1>4. Apart'
  BY DEF LockInv, LocksTyped, Apart, Past, Runs, Begins, Up
<1>5. QED BY <1>1, <1>2, <1>3, <1>4 DEF LockInv

\* Processes die, and their locks with them.
LEMMA Dying ==
  ASSUME LockInv, NEW set \in SUBSET Procs, Dies(set), role' = role
  PROVE  LockInv'
<1>1. LocksTyped'
  BY DEF LockInv, LocksTyped, Dies, Phases
<1>2. \A p \in Procs : Holding(p)' \/ (phase[p] = "probing")' =>
                         p \notin set /\ phase'[p] = phase[p]
  BY DEF LockInv, LocksTyped, Dies, Holding, Up
<1>3. NoProc \notin Procs
  BY RolesAssumption DEF RolesAssumption
<1>4. HoldsOwn'
  BY <1>2 DEF LockInv, LocksTyped, HoldsOwn, Holding, Dies, Up
<1>5. HoldsProbe'
  BY <1>2 DEF LockInv, LocksTyped, HoldsProbe, Dies, Other, Roles
<1>6. Apart'
  BY DEF LockInv, LocksTyped, Apart, Past, Runs, Dies, Up
<1>7. QED BY <1>1, <1>4, <1>5, <1>6 DEF LockInv

\* The own lock is taken when it is free.
LEMMA Taking ==
  ASSUME LockInv, NEW p \in Procs, TakesOwn(p)
  PROVE  LockInv'
<1>1. CASE Active(role[p])
  <2>1. role' = role /\ lock' = lock /\ phase' = [phase EXCEPT ![p] = "refused"]
    BY <1>1 DEF TakesOwn, Advances
  <2>2. QED BY <2>1, MovesOn DEF Phases
<1>2. CASE ~Active(role[p])
  <2>1. /\ role' = role /\ lock' = [lock EXCEPT ![role[p]] = p]
        /\ phase[p] = "starting" /\ phase' = [phase EXCEPT ![p] = "locked"]
        /\ lock[role[p]] = NoProc
    BY <1>2 DEF TakesOwn, Advances, Active
  <2>2. NoProc \notin Procs
    BY RolesAssumption DEF RolesAssumption
  <2>3. LocksTyped'
    BY <2>1 DEF LockInv, LocksTyped, Phases
  <2>4. HoldsOwn'
    BY <2>1, <2>2 DEF LockInv, LocksTyped, HoldsOwn, Holding, Up
  <2>5. HoldsProbe'
    BY <2>1, <2>2 DEF LockInv, LocksTyped, HoldsProbe, Other, Roles, Up
  <2>6. Apart'
    BY <2>1 DEF LockInv, LocksTyped, Apart, Past, Runs, Up
  <2>7. QED BY <2>3, <2>4, <2>5, <2>6 DEF LockInv
<1>3. QED BY <1>1, <1>2

\* The probe takes the other lock when that is free, and gives the own one up
\* otherwise.
LEMMA Probing ==
  ASSUME LockInv, NEW p \in Procs, Probes(p)
  PROVE  LockInv'
<1>0. /\ role[p] \in Roles /\ Other(role[p]) \in Roles /\ Other(role[p]) # role[p]
      /\ lock[role[p]] = p /\ phase[p] = "locked" /\ role' = role
      /\ NoProc \notin Procs
  BY RolesAssumption
     DEF RolesAssumption, LockInv, LocksTyped, HoldsOwn, Holding, Other, Roles, Probes, Advances
<1>1. CASE Active(Other(role[p]))
  <2>1. lock' = [lock EXCEPT ![role[p]] = NoProc] /\ phase' = [phase EXCEPT ![p] = "refused"]
    BY <1>1 DEF Probes, Advances
  <2>2. LocksTyped'
    BY <1>0, <2>1 DEF LockInv, LocksTyped, Phases
  <2>3. HoldsOwn'
    BY <1>0, <2>1 DEF LockInv, LocksTyped, HoldsOwn, Holding, Up
  <2>4. HoldsProbe'
    BY <1>0, <2>1 DEF LockInv, LocksTyped, HoldsProbe, Other, Roles
  <2>5. Apart'
    BY <1>0, <2>1 DEF LockInv, LocksTyped, Apart, Past, Runs, Up
  <2>6. QED BY <2>2, <2>3, <2>4, <2>5 DEF LockInv
<1>2. CASE ~Active(Other(role[p]))
  <2>1. /\ lock' = [lock EXCEPT ![Other(role[p])] = p]
        /\ phase' = [phase EXCEPT ![p] = "probing"]
        /\ lock[Other(role[p])] = NoProc
    BY <1>2 DEF Probes, Advances, Active
  <2>2. LocksTyped'
    BY <1>0, <2>1 DEF LockInv, LocksTyped, Phases
  <2>3. HoldsOwn'
    BY <1>0, <2>1 DEF LockInv, LocksTyped, HoldsOwn, Holding, Up
  <2>4. HoldsProbe'
    BY <1>0, <2>1 DEF LockInv, LocksTyped, HoldsProbe, Other, Roles
  <2>5. \A q \in Procs : role[q] # role[p] => ~Runs(q)
    BY <1>0, <2>1 DEF LockInv, LocksTyped, HoldsOwn, Holding, Runs, Other, Roles
  <2>6. Apart'
    BY <1>0, <2>1, <2>5 DEF LockInv, LocksTyped, Apart, Past, Runs, Up
  <2>7. QED BY <2>2, <2>3, <2>4, <2>6 DEF LockInv
<1>3. QED BY <1>1, <1>2

\* The probe ends: whoever has the other role came no further than its lock.
LEMMA EndingProbe ==
  ASSUME LockInv, NEW p \in Procs, EndsProbe(p)
  PROVE  LockInv'
<1>0. /\ role[p] \in Roles /\ Other(role[p]) \in Roles /\ Other(role[p]) # role[p]
      /\ lock[role[p]] = p /\ lock[Other(role[p])] = p /\ phase[p] = "probing"
      /\ role' = role /\ lock' = [lock EXCEPT ![Other(role[p])] = NoProc]
      /\ phase' = [phase EXCEPT ![p] = "up"] /\ NoProc \notin Procs
  BY RolesAssumption
     DEF RolesAssumption, LockInv, LocksTyped, HoldsOwn, HoldsProbe, Holding, Other, Roles,
         EndsProbe, Advances
<1>1. LocksTyped'
  BY <1>0 DEF LockInv, LocksTyped, Phases, Up
<1>2. \A q \in Procs : role[q] # role[p] => ~Holding(q)
  BY <1>0 DEF LockInv, LocksTyped, HoldsOwn, Other, Roles
<1>3. HoldsOwn'
  BY <1>0, <1>2 DEF LockInv, LocksTyped, HoldsOwn, Holding, Other, Roles, Up
<1>4. HoldsProbe'
  BY <1>0 DEF LockInv, LocksTyped, HoldsProbe, HoldsOwn, Holding, Other, Roles, Up
<1>5. Apart'
  BY <1>0, <1>2 DEF LockInv, LocksTyped, Apart, Past, Holding, Runs, Up
<1>6. QED BY <1>1, <1>3, <1>4, <1>5 DEF LockInv

-----------------------------------------------------------------------------
LEMMA LockInit == Init => LockInv
<1>1. SUFFICES ASSUME Init PROVE LockInv
  OBVIOUS
<1>2. LocksTyped
  BY <1>1 DEF Init, LocksTyped, Roles, Phases
<1>3. \A p \in Procs : phase[p] = "none"
  BY <1>1 DEF Init
<1>4. HoldsOwn /\ HoldsProbe /\ Apart
  BY <1>3 DEF HoldsOwn, HoldsProbe, Apart, Holding, Runs, Up
<1>5. QED BY <1>2, <1>4 DEF LockInv

\* A step of the client's loop goes from one running phase to another.
LEMMA Looping ==
  ASSUME LockInv, NEW p \in Procs, NEW from \in Up, NEW to \in Up, NEW state, Loop(p, from, to, state)
  PROVE  LockInv'
<1>1. /\ role' = role /\ lock' = lock /\ phase' = [phase EXCEPT ![p] = to] /\ Runs(p)
  BY DEF Loop, Advances, Runs
<1>2. to \in Phases
  BY DEF Phases
<1>3. QED BY <1>1, <1>2, MovesOn

\* Nothing else touches a process or a lock.
LEMMA Standing ==
  ASSUME LockInv, UNCHANGED procs
  PROVE  LockInv'
BY DEF LockInv, LocksTyped, HoldsOwn, HoldsProbe, Apart, Holding, Past, Runs, procs

LEMMA GuiStep == LockInv /\ GuiTyped /\ [Next]_vars => GuiTyped'
<1>1. SUFFICES ASSUME LockInv, GuiTyped, [Next]_vars PROVE GuiTyped'
  OBVIOUS
<1>2. CASE UNCHANGED <<gui, mode>>
  BY <1>1, <1>2 DEF GuiTyped
<1>3. \A r \in Roles : Other(r) \in Roles
  BY DEF Other, Roles
<1>4. CASE Gui
  <2>1. CASE SetMode
    BY <1>1, <1>3, <2>1 DEF SetMode, GuiTyped
  <2>2. CASE OperatorStarts
    BY <1>1, <1>3, <2>2 DEF OperatorStarts, GuiTyped, Stopping, Idle, GuiAt, Roles
  <2>3. CASE OperatorStops
    BY <1>1, <1>3, <2>3 DEF OperatorStops, GuiTyped, Stopping, GuiAt, Roles
  <2>4. CASE GuiKills
    BY <1>2, <2>4 DEF GuiKills, operator
  <2>5. CASE GuiFindsItStopped
    BY <1>1, <2>5 DEF GuiFindsItStopped, GuiTyped, operator
  <2>6. CASE GuiCleans
    BY <1>1, <2>6 DEF GuiCleans, GuiTyped, Idle, GuiAt, Roles
  <2>7. ASSUME NEW p \in Procs, GuiSpawns(p) PROVE GuiTyped'
    BY <1>1, <2>7 DEF GuiSpawns, GuiTyped, Checking, GuiAt, Roles, operator
  <2>8. CASE GuiChecks
    <3>1. role[gui.proc] \in Roles
      BY <1>1, <2>8 DEF GuiChecks, GuiTyped, LockInv, LocksTyped
    <3>2. QED
      BY <1>1, <1>3, <2>8, <3>1 DEF GuiChecks, GuiTyped, Stopping, Idle, GuiAt, Roles, operator
  <2>9. QED BY <1>4, <2>1, <2>2, <2>3, <2>4, <2>5, <2>6, <2>7, <2>8 DEF Gui
<1>5. CASE TickStarts
  BY <1>1, <1>5 DEF TickStarts, GuiTyped, Stopping, Idle, GuiAt, Roles, operator
<1>6. CASE AutoConnect /\ ~TickStarts
  BY <1>2, <1>6 DEF AutoConnect, TickLooks, TickReads, TickChooses, operator
<1>7. CASE CommandFile
  BY <1>2, <1>7 DEF CommandFile, GuiOpens, GuiWrites, Reads, Clears, Sends, operator
<1>8. ASSUME NEW p \in Procs, Process(p) \/ \E r \in Roles : HandStarts(p, r)
      PROVE  UNCHANGED <<gui, mode>>
  BY <1>8
     DEF Process, TakesOwn, Probes, EndsProbe, Announces, Connects, Fails, Refused, Welcomed,
         Revoked, LinkClosed, Reconnects, Loop, Dismissed, Leaves, Reaped, Crashes, HandStarts,
         operator
<1>9. QED BY <1>1, <1>2, <1>4, <1>5, <1>6, <1>7, <1>8 DEF Next, vars, operator

LEMMA LockStep == LockInv /\ GuiTyped /\ [Next]_vars => LockInv'
<1>1. SUFFICES ASSUME LockInv, GuiTyped, [Next]_vars PROVE LockInv'
  OBVIOUS
<1>2. ASSUME NEW p \in Procs, NEW r \in Roles, HandStarts(p, r) PROVE LockInv'
  BY <1>1, <1>2, Beginning DEF HandStarts
<1>3. ASSUME NEW p \in Procs, Process(p) PROVE LockInv'
  <2>1. CASE TakesOwn(p) BY <1>1, <2>1, Taking
  <2>2. CASE Probes(p) BY <1>1, <2>2, Probing
  <2>3. CASE EndsProbe(p) BY <1>1, <2>3, EndingProbe
  <2>4. CASE Announces(p) BY <1>1, <2>4, Looping DEF Announces, Up
  <2>5. CASE Connects(p) BY <1>1, <2>5, Looping DEF Connects, Up
  <2>6. CASE Fails(p) BY <1>1, <2>6, Looping DEF Fails, Up
  <2>7. CASE Refused(p) BY <1>1, <2>7, Looping DEF Refused, Up
  <2>8. CASE Welcomed(p) BY <1>1, <2>8, Looping DEF Welcomed, Up
  <2>9. CASE Revoked(p) BY <1>1, <2>9, Looping DEF Revoked, Up
  <2>10. CASE LinkClosed(p) BY <1>1, <2>10, Looping DEF LinkClosed, Up
  <2>11. CASE Reconnects(p) BY <1>1, <2>11, Looping DEF Reconnects, Up
  <2>12. CASE Dismissed(p)
    <3>1. /\ role' = role /\ lock' = lock /\ phase' = [phase EXCEPT ![p] = "leaving"]
          /\ Runs(p) /\ "leaving" \in Up /\ "leaving" \in Phases
      BY <2>12 DEF Dismissed, Advances, Runs, Up, Phases
    <3>2. QED BY <1>1, <3>1, MovesOn
  <2>13. CASE Leaves(p) BY <1>1, <2>13, Dying, {p} \in SUBSET Procs DEF Leaves
  <2>14. CASE Reaped(p) BY <1>1, <2>14, Dying, {p} \in SUBSET Procs DEF Reaped
  <2>15. CASE Crashes(p) BY <1>1, <2>15, Dying, {p} \in SUBSET Procs DEF Crashes
  <2>16. QED
    BY <1>3, <2>1, <2>2, <2>3, <2>4, <2>5, <2>6, <2>7, <2>8, <2>9, <2>10, <2>11, <2>12,
       <2>13, <2>14, <2>15 DEF Process
<1>4. CASE CommandFile
  BY <1>1, <1>4, Standing DEF CommandFile, GuiOpens, GuiWrites, Reads, Clears, Sends
<1>5. CASE Gui
  <2>1. CASE GuiKills
    BY <1>1, <2>1, Dying, {p \in Procs : role[p] = gui.role} \in SUBSET Procs DEF GuiKills
  <2>2. ASSUME NEW p \in Procs, GuiSpawns(p) PROVE LockInv'
    <3>1. Begins(p, gui.want) /\ lock' = lock /\ gui.want \in Roles
      BY <1>1, <2>2 DEF GuiSpawns, GuiTyped
    <3>2. QED BY <1>1, <3>1, Beginning
  <2>3. CASE SetMode \/ OperatorStarts \/ OperatorStops \/ GuiFindsItStopped \/ GuiCleans \/ GuiChecks
    BY <1>1, <2>3, Standing
       DEF SetMode, OperatorStarts, OperatorStops, GuiFindsItStopped, GuiCleans, GuiChecks
  <2>4. QED BY <1>5, <2>1, <2>2, <2>3 DEF Gui
<1>6. CASE AutoConnect
  BY <1>1, <1>6, Standing DEF AutoConnect, TickLooks, TickReads, TickChooses, TickStarts
<1>7. CASE UNCHANGED vars
  BY <1>1, <1>7, Standing DEF vars
<1>8. QED BY <1>1, <1>2, <1>3, <1>4, <1>5, <1>6, <1>7 DEF Next

\* One role per machine, whatever the number of processes.
THEOREM OneRoleTheorem == Spec => []OneRole
<1>1. LockInv => OneRole
  BY DEF LockInv, LocksTyped, HoldsOwn, Apart, OneRole, Holding, Past, Runs, Up
<1>2. Init => GuiTyped
  BY DEF Init, GuiTyped, Idle, GuiAt, Roles
<1>3. QED BY <1>1, <1>2, LockInit, LockStep, GuiStep, PTL DEF Spec

-----------------------------------------------------------------------------
(* The command file.  While the watcher sends what it has read, the file     *)
(* holds none of it: it was cleared first, and a command is written once.    *)

\* A list of different commands that were given and not carried out.
ToDo(s) ==
  /\ s \in Seq(Commands)
  /\ \A i \in 1 .. Len(s) : s[i] <= given /\ sent[s[i]] = 0
  /\ \A i, j \in 1 .. Len(s) : i # j => s[i] # s[j]

CommandsTyped ==
  /\ given \in 0 .. MaxCommands
  /\ handle \in {"none", "current", "replaced"}
  /\ handle # "none" => given < MaxCommands
  /\ sent \in [Commands -> {0, 1}]
  /\ \A c \in Commands : c > given => sent[c] = 0

Watched ==
  /\ watch \in [step : {"resting", "read", "sending"}, lines : Seq(Commands)]
  /\ watch.step # "resting" => watch.lines # <<>> /\ ToDo(watch.lines)

NeverBoth ==
  watch.step = "sending" =>
    \A i \in 1 .. Len(watch.lines), j \in 1 .. Len(file) : watch.lines[i] # file[j]

CommandInv == CommandsTyped /\ ToDo(file) /\ Watched /\ NeverBoth

\* The file, the handle, what was given, read and sent stay, or the watcher
\* goes with its server.
Forgets == UNCHANGED <<file, handle, given, sent>> /\ watch' \in {watch, Resting}

LEMMA Forgetting ==
  ASSUME CommandInv, Forgets
  PROVE  CommandInv'
<1>1. Resting \in [step : {"resting", "read", "sending"}, lines : Seq(Commands)]
      /\ Resting.step = "resting"
  BY DEF Resting
<1>2. CommandsTyped' /\ ToDo(file)'
  BY DEF CommandInv, Forgets, CommandsTyped, ToDo
<1>3. CASE watch' = watch
  BY <1>2, <1>3 DEF CommandInv, Forgets, Watched, NeverBoth, ToDo
<1>4. CASE watch' = Resting
  <2>1. Watched' /\ NeverBoth'
    BY <1>1, <1>4 DEF Watched, NeverBoth
  <2>2. QED BY <1>2, <2>1 DEF CommandInv
<1>5. QED BY <1>3, <1>4 DEF Forgets

\* An empty file has nothing to do, and shares nothing with the watcher.
LEMMA EmptyFile ==
  /\ <<>> \in Seq(Commands) /\ Len(<<>>) = 0 /\ 1 .. 0 = {}
OBVIOUS

\* The file is replaced by an empty one; the watcher may go on to send.
LEMMA Emptying ==
  ASSUME CommandInv, file' = <<>>, UNCHANGED <<given, sent>>,
         handle' = IF handle = "current" THEN "replaced" ELSE handle,
         watch' \in [step : {"resting", "read", "sending"}, lines : Seq(Commands)],
         watch'.lines = watch.lines, watch.step = "resting" => watch'.step = "resting"
  PROVE  CommandInv'
<1>1. CommandsTyped'
  BY DEF CommandInv, CommandsTyped
<1>2. ToDo(file)' /\ NeverBoth'
  BY EmptyFile DEF ToDo, NeverBoth
<1>3. Watched'
  BY DEF CommandInv, Watched, ToDo
<1>4. QED BY <1>1, <1>2, <1>3 DEF CommandInv

\* A new command goes to the end of the file.
LEMMA Writing ==
  ASSUME CommandInv, GuiWrites
  PROVE  CommandInv'
<1>1. /\ given \in Nat /\ given' = given + 1 /\ given' \in Commands /\ MaxCommands \in Nat
      /\ UNCHANGED <<watch, sent>> /\ handle' = "none" /\ given' \in 0 .. MaxCommands
      /\ sent[given'] = 0
  BY RolesAssumption DEF CommandInv, CommandsTyped, GuiWrites, Commands
<1>2. CommandsTyped'
  BY <1>1 DEF CommandInv, CommandsTyped, Commands
<1>3. /\ file \in Seq(Commands) /\ watch.lines \in Seq(Commands)
      /\ \A c \in Commands : c \in Int
      /\ \A i \in 1 .. Len(file) : file[i] \in Commands
      /\ \A i \in 1 .. Len(watch.lines) : watch.lines[i] \in Commands
  <2>1. file \in Seq(Commands) /\ watch.lines \in Seq(Commands)
    BY DEF CommandInv, ToDo, Watched
  <2>2. \A s \in Seq(Commands) : \A i \in 1 .. Len(s) : s[i] \in Commands
    OBVIOUS
  <2>3. \A c \in Commands : c \in Int
    BY DEF Commands
  <2>4. QED BY <2>1, <2>2, <2>3
<1>4. Watched'
  <2>1. \A c \in Commands : c <= given => c <= given'
    BY <1>1, <1>3
  <2>2. watch.step # "resting" =>
          \A i \in 1 .. Len(watch.lines) : watch.lines[i] <= given'
    BY <1>3, <2>1 DEF CommandInv, Watched, ToDo
  <2>3. QED BY <1>1, <2>2 DEF CommandInv, Watched, ToDo
<1>5. CASE file' = file
  BY <1>1, <1>2, <1>3, <1>4, <1>5 DEF CommandInv, ToDo, NeverBoth, Commands
<1>6. CASE file' = Append(file, given')
  <2>1. /\ file' \in Seq(Commands) /\ Len(file) \in Nat /\ Len(file') = Len(file) + 1
        /\ \A i \in 1 .. Len(file) : file'[i] = file[i]
        /\ file'[Len(file) + 1] = given'
    BY <1>1, <1>3, <1>6
  <2>2. \A i \in 1 .. Len(file') : i \in 1 .. Len(file) \/ i = Len(file) + 1
    BY <2>1
  <2>3. \A i \in 1 .. Len(file) : file[i] <= given /\ sent[file[i]] = 0 /\ file[i] # given'
    BY <1>1, <1>3 DEF CommandInv, ToDo
  <2>4. ToDo(file)'
    <3>1. \A i \in 1 .. Len(file') : file'[i] <= given' /\ sent'[file'[i]] = 0
      <4>1. \A c \in Commands : c <= given => c <= given'
        BY <1>1, <1>3
      <4>2. given' <= given'
        BY <1>1
      <4>3. QED BY <1>1, <1>3, <2>1, <2>2, <2>3, <4>1, <4>2
    <3>2. \A i, j \in 1 .. Len(file') : i # j => file'[i] # file'[j]
      BY <2>1, <2>2, <2>3 DEF CommandInv, ToDo
    <3>3. QED BY <2>1, <3>1, <3>2 DEF ToDo
  <2>5. NeverBoth'
    <3>1. SUFFICES ASSUME watch.step = "sending", NEW i \in 1 .. Len(watch.lines),
                          NEW j \in 1 .. Len(file')
                   PROVE  watch.lines[i] # file'[j]
      BY <1>1 DEF NeverBoth
    <3>2. watch.lines[i] <= given /\ watch.lines[i] \in Int /\ j \in 1 .. Len(file')
      BY <1>1, <1>3, <3>1 DEF CommandInv, Watched, ToDo
    <3>3. CASE j \in 1 .. Len(file)
      BY <2>1, <3>1, <3>3 DEF CommandInv, NeverBoth
    <3>4. CASE j = Len(file) + 1
      BY <1>1, <2>1, <3>2, <3>4
    <3>5. QED BY <2>2, <3>3, <3>4
  <2>6. QED BY <1>2, <1>4, <2>4, <2>5 DEF CommandInv
<1>7. QED BY <1>5, <1>6 DEF GuiWrites

\* The first of the lines is carried out, and is nowhere else.
LEMMA Sending ==
  ASSUME CommandInv, Sends
  PROVE  CommandInv'
<1> DEFINE s == watch.lines
           h == s[1]
<1>1. /\ watch.step = "sending" /\ s \in Seq(Commands) /\ s # <<>> /\ ToDo(s)
      /\ UNCHANGED <<file, handle, given>>
      /\ sent' = [sent EXCEPT ![h] = @ + 1]
  BY DEF CommandInv, Watched, Sends
<1>2. Len(s) \in Nat \ {0} /\ h \in Commands /\ 1 \in 1 .. Len(s)
  BY <1>1
<1>3. sent[h] = 0 /\ h <= given
  BY <1>1, <1>2 DEF ToDo
<1>4. sent' = [sent EXCEPT ![h] = 1]
  BY <1>1, <1>3
<1>5. \A c \in Commands : c # h => sent'[c] = sent[c]
  BY <1>2, <1>4 DEF CommandInv, CommandsTyped
<1>6. CommandsTyped'
  BY <1>1, <1>2, <1>3, <1>4 DEF CommandInv, CommandsTyped, Commands
<1>7. ToDo(file)'
  <2>1. \A j \in 1 .. Len(file) : file[j] # h /\ file[j] \in Commands
    BY <1>1, <1>2 DEF CommandInv, NeverBoth, ToDo
  <2>2. QED BY <1>1, <1>5, <2>1 DEF CommandInv, ToDo
<1>8. CASE Len(s) = 1
  <2>1. watch' = Resting
    BY <1>8 DEF Sends
  <2>2. Watched' /\ NeverBoth'
    BY <2>1 DEF Watched, NeverBoth, Resting
  <2>3. QED BY <1>6, <1>7, <2>2 DEF CommandInv
<1>9. CASE Len(s) # 1
  <2>1. watch' = [watch EXCEPT !.lines = Tail(@)]
    BY <1>9 DEF Sends
  <2>2. PICK t : t = Tail(s)
    OBVIOUS
  <2>3. /\ t \in Seq(Commands) /\ t # <<>> /\ Len(t) = Len(s) - 1
        /\ \A i \in 1 .. Len(t) : i + 1 \in 1 .. Len(s) /\ t[i] = s[i + 1] /\ i + 1 # 1
    <3>1. t \in Seq(Commands) /\ Len(t) = Len(s) - 1
          /\ \A i \in 1 .. Len(t) : t[i] = s[i + 1]
      BY <1>1, <2>2
    <3>2. Len(t) # 0
      BY <1>2, <1>9, <3>1
    <3>3. \A i \in 1 .. Len(t) : i + 1 \in 1 .. Len(s) /\ i + 1 # 1
      BY <1>2, <3>1
    <3>4. QED BY <3>1, <3>2, <3>3, EmptyFile
  <2>4. watch'.step = "sending" /\ watch'.lines = t
        /\ watch' \in [step : {"resting", "read", "sending"}, lines : Seq(Commands)]
    BY <2>1, <2>2, <2>3, <1>1 DEF CommandInv, Watched
  <2>5. \A i \in 1 .. Len(t) : t[i] # h /\ t[i] \in Commands /\ t[i] <= given /\ sent[t[i]] = 0
    BY <1>1, <1>2, <2>3 DEF ToDo
  <2>6. ToDo(t)'
    <3>1. \A i, j \in 1 .. Len(t) : i # j => i + 1 # j + 1
      BY <2>3
    <3>2. \A i, j \in 1 .. Len(t) : i # j => t[i] # t[j]
      BY <1>1, <2>3, <3>1 DEF ToDo
    <3>3. QED BY <1>1, <1>5, <2>3, <2>5, <3>2 DEF ToDo
  <2>7. Watched'
    BY <2>3, <2>4, <2>6 DEF Watched, ToDo
  <2>8. NeverBoth'
    BY <1>1, <2>3, <2>4 DEF CommandInv, NeverBoth
  <2>9. QED BY <1>6, <1>7, <2>7, <2>8 DEF CommandInv
<1>10. QED BY <1>8, <1>9

LEMMA CommandInit == Init => CommandInv
<1>1. SUFFICES ASSUME Init PROVE CommandInv
  OBVIOUS
<1>2. CommandsTyped
  BY <1>1, RolesAssumption DEF Init, CommandsTyped, Commands
<1>3. ToDo(file) /\ Watched /\ NeverBoth
  BY <1>1, EmptyFile DEF Init, ToDo, Watched, NeverBoth, Resting
<1>4. QED BY <1>2, <1>3 DEF CommandInv

LEMMA CommandStep == CommandInv /\ [Next]_vars => CommandInv'
<1>1. SUFFICES ASSUME CommandInv, [Next]_vars PROVE CommandInv'
  OBVIOUS
<1>2. CASE GuiWrites BY <1>1, <1>2, Writing
<1>3. CASE Sends BY <1>1, <1>3, Sending
<1>4. CASE GuiOpens
  BY <1>1, <1>4 DEF GuiOpens, CommandInv, CommandsTyped, ToDo, Watched, NeverBoth
<1>5. CASE Reads
  BY <1>1, <1>5 DEF Reads, CommandInv, CommandsTyped, ToDo, Watched, NeverBoth
<1>6. CASE Clears
  BY <1>1, <1>6, Emptying DEF Clears, CommandInv, Watched
<1>7. CASE GuiCleans
  <2>1. CASE gui.role = "client"
    BY <1>1, <1>7, <2>1, Forgetting DEF GuiCleans, Forgets
  <2>2. CASE gui.role # "client"
    BY <1>1, <1>7, <2>2, Emptying DEF GuiCleans, CommandInv, Watched
  <2>3. QED BY <2>1, <2>2
<1>8. ASSUME NEW p \in Procs, Process(p) \/ \E r \in Roles : HandStarts(p, r)
      PROVE  Forgets
  BY <1>8
     DEF Process, TakesOwn, Probes, EndsProbe, Announces, Connects, Fails, Refused, Welcomed,
         Revoked, LinkClosed, Reconnects, Loop, Dismissed, Leaves, Reaped, Crashes, HandStarts,
         Dies, commands, Forgets
<1>9. CASE Gui /\ ~GuiCleans
  BY <1>1, <1>9, Forgetting
     DEF Gui, SetMode, OperatorStarts, OperatorStops, GuiKills, GuiFindsItStopped,
         GuiSpawns, GuiChecks, Dies, commands, Forgets
<1>10. CASE AutoConnect
  BY <1>1, <1>10, Forgetting
     DEF AutoConnect, TickLooks, TickReads, TickChooses, TickStarts, commands, Forgets
<1>11. CASE UNCHANGED vars
  BY <1>1, <1>11, Forgetting DEF vars, commands, Forgets
<1>12. QED
  BY <1>1, <1>2, <1>3, <1>4, <1>5, <1>6, <1>7, <1>8, <1>9, <1>10, <1>11, Forgetting
     DEF Next, CommandFile

\* No command is carried out twice, by however many servers that find the file
\* (command_watcher clears it before it executes).
THEOREM CommandsTheorem == Spec => []CommandsRunOnce
<1>1. CommandInv => CommandsRunOnce
  BY DEF CommandInv, CommandsTyped, CommandsRunOnce
<1>2. QED BY <1>1, CommandInit, CommandStep, PTL DEF Spec

-----------------------------------------------------------------------------
(* A session that was ended stays ended.  What the watcher will find is      *)
(* settled before it looks: a client that a tick has seen is still waiting   *)
(* for the next one, and once its session is ended it says "stopped" and     *)
(* does nothing but leave, so the next tick pauses.                          *)

AtClient(p) == role[p] = "client" /\ Holding(p)

Flags ==
  /\ ended \in BOOLEAN /\ seen \in BOOLEAN /\ paused \in BOOLEAN /\ wasRunning \in BOOLEAN
  /\ tick \in {"waiting", "reading", "choosing", "starting"}

\* A client that a tick has seen: the watcher waits, and remembers it.
SeenRunning ==
  seen /\ (\E p \in Procs : AtClient(p)) => wasRunning /\ tick = "waiting"

\* An end that was seen, and no pause yet: the next reading will find it.
StopPending ==
  ended /\ seen /\ ~paused =>
    shown = "stopped" /\ wasRunning /\ tick \in {"waiting", "reading"}

\* Ended and no pause: nobody overwrites what the client left behind.
OnlyLeaving ==
  ended /\ ~paused =>
    shown = "stopped" /\ \A p \in Procs : AtClient(p) => phase[p] = "leaving"

\* The GUI stops a client for a server, or because auto-connect is to pause.
ClientStops ==
  gui.step \in {"stopping", "cleaning"} /\ gui.role = "client" =>
    gui.want # "client" /\ (gui.want = "none" => paused)

EndedInv == Flags /\ SeenRunning /\ StopPending /\ OnlyLeaving /\ ClientStops

LEMMA EndedInit == Init => EndedInv
<1>1. SUFFICES ASSUME Init PROVE EndedInv
  OBVIOUS
<1>2. ended = FALSE /\ seen = FALSE /\ paused = FALSE /\ wasRunning = FALSE /\ tick = "waiting"
      /\ gui.step = "idle"
  BY <1>1 DEF Init, Idle, GuiAt
<1>3. QED
  BY <1>2 DEF EndedInv, Flags, SeenRunning, StopPending, OnlyLeaving, ClientStops

\* No process becomes a client that holds its lock, or moves on as one, and
\* what the watcher goes by stays.
LEMMA NobodyComes ==
  ASSUME EndedInv, UNCHANGED <<shown, operator, watcher, seen>>, ClientStops',
         \A p \in Procs : AtClient(p)' => AtClient(p) /\ phase'[p] = phase[p]
  PROVE  EndedInv'
BY DEF EndedInv, Flags, SeenRunning, StopPending, OnlyLeaving, operator, watcher

\* Processes die.
LEMMA DyingEnds ==
  ASSUME LockInv, EndedInv, NEW set \in SUBSET Procs, Dies(set), role' = role,
         UNCHANGED <<shown, gui, operator, watcher, seen>>
  PROVE  EndedInv'
<1>1. ClientStops'
  BY DEF EndedInv, ClientStops, operator
<1>2. \A p \in Procs : AtClient(p)' => AtClient(p) /\ phase'[p] = phase[p]
  BY DEF LockInv, LocksTyped, Dies, AtClient, Holding, Up
<1>3. QED BY <1>1, <1>2, NobodyComes

\* A process begins: it holds nothing yet.
LEMMA BeginningEnds ==
  ASSUME LockInv, EndedInv, NEW p \in Procs, NEW r \in Roles, Begins(p, r), ClientStops',
         UNCHANGED <<shown, operator, watcher, seen>>
  PROVE  EndedInv'
<1>1. \A q \in Procs : AtClient(q)' => AtClient(q) /\ phase'[q] = phase[q]
  BY DEF LockInv, LocksTyped, Begins, AtClient, Holding, Up
<1>2. QED BY <1>1, NobodyComes

\* A client that took its lock anew was not seen, and its session not ended.
LEMMA TakingEnds ==
  ASSUME LockInv, EndedInv, NEW p \in Procs, TakesOwn(p)
  PROVE  EndedInv'
<1>1. UNCHANGED <<shown, gui, mode, paused, watcher, role>>
  BY DEF TakesOwn
<1>2. ClientStops'
  BY <1>1 DEF EndedInv, ClientStops
<1>3. CASE Active(role[p])
  <2>1. /\ UNCHANGED <<ended, seen>>
        /\ \A q \in Procs : AtClient(q)' => AtClient(q) /\ phase'[q] = phase[q]
    BY <1>1, <1>3 DEF LockInv, LocksTyped, TakesOwn, Advances, AtClient, Holding, Up
  <2>2. QED BY <1>1, <1>2, <2>1, NobodyComes DEF operator
<1>4. CASE ~Active(role[p]) /\ role[p] = "server"
  <2>1. ended' = ended /\ seen' = seen
    <3>1. ended' = (ended /\ TRUE) /\ seen' = (seen /\ TRUE)
      BY <1>4, Zenon DEF TakesOwn
    <3>2. ended \in BOOLEAN /\ seen \in BOOLEAN
      BY DEF EndedInv, Flags
    <3>3. QED BY <3>1, <3>2
  <2>2. \A q \in Procs : AtClient(q)' => AtClient(q) /\ phase'[q] = phase[q]
    BY <1>1, <1>4 DEF LockInv, LocksTyped, TakesOwn, Advances, AtClient, Holding
  <2>3. QED BY <1>1, <1>2, <2>1, <2>2, NobodyComes DEF operator
<1>5. CASE ~Active(role[p]) /\ role[p] # "server"
  <2>1. ended' = FALSE /\ seen' = FALSE
    BY <1>5 DEF TakesOwn
  <2>2. QED
    BY <1>1, <1>2, <2>1
       DEF EndedInv, Flags, SeenRunning, StopPending, OnlyLeaving, watcher
<1>6. QED BY <1>3, <1>4, <1>5

\* A step of the client's loop: it is not leaving, so nothing was ended.
LEMMA LoopingEnds ==
  ASSUME LockInv, EndedInv, NEW p \in Procs, NEW from \in Up \ {"leaving"}, NEW to \in Up,
         NEW state, Loop(p, from, to, state)
  PROVE  EndedInv'
<1>1. /\ AtClient(p) /\ phase[p] # "leaving" /\ role' = role
      /\ phase' = [phase EXCEPT ![p] = to]
      /\ UNCHANGED <<gui, operator, watcher, seen>>
  BY DEF Loop, Client, Advances, AtClient, Holding
<1>2. ~(ended /\ ~paused)
  BY <1>1 DEF EndedInv, OnlyLeaving
<1>3. \A q \in Procs : AtClient(q)' => \E t \in Procs : AtClient(t)
  BY <1>1
<1>4. QED
  BY <1>1, <1>2, <1>3
     DEF EndedInv, Flags, SeenRunning, StopPending, OnlyLeaving, ClientStops, operator, watcher

\* The client whose session is ended is the only one that holds the lock.
LEMMA DismissedEnds ==
  ASSUME LockInv, EndedInv, NEW p \in Procs, Dismissed(p)
  PROVE  EndedInv'
<1>1. /\ AtClient(p) /\ role' = role /\ phase' = [phase EXCEPT ![p] = "leaving"]
      /\ shown' = "stopped" /\ ended' = TRUE
      /\ UNCHANGED <<gui, mode, paused, watcher, seen>>
  BY DEF Dismissed, Client, Advances, AtClient, Holding, Up
<1>2. \A q \in Procs : AtClient(q) => q = p
  BY <1>1 DEF LockInv, HoldsOwn, AtClient
<1>3. \A q \in Procs : AtClient(q)' => phase'[q] = "leaving"
  BY <1>1, <1>2 DEF LockInv, LocksTyped, AtClient, Holding
<1>4. seen => wasRunning /\ tick = "waiting"
  BY <1>1 DEF EndedInv, SeenRunning
<1>5. QED
  BY <1>1, <1>3, <1>4
     DEF EndedInv, Flags, SeenRunning, StopPending, OnlyLeaving, ClientStops, watcher

\* The probe changes the phase of a process that already holds its lock.
LEMMA ProbingEnds ==
  ASSUME LockInv, EndedInv, NEW p \in Procs, Probes(p) \/ EndsProbe(p)
  PROVE  EndedInv'
<1>1. /\ Holding(p) /\ phase[p] # "leaving" /\ role' = role
      /\ UNCHANGED <<shown, gui, operator, watcher, seen>>
      /\ \A q \in Procs : q # p => phase'[q] = phase[q]
  BY DEF LockInv, LocksTyped, Probes, EndsProbe, Advances, Holding, Up
<1>2. CASE role[p] = "client"
  <2>1. AtClient(p) /\ ~(ended /\ ~paused)
    BY <1>1, <1>2 DEF EndedInv, OnlyLeaving, AtClient
  <2>2. QED
    BY <1>1, <2>1
       DEF EndedInv, Flags, SeenRunning, StopPending, OnlyLeaving, ClientStops, operator, watcher
<1>3. CASE role[p] # "client"
  <2>1. \A q \in Procs : AtClient(q)' => AtClient(q) /\ phase'[q] = phase[q]
    BY <1>1, <1>3 DEF AtClient, Holding
  <2>2. ClientStops'
    BY <1>1 DEF EndedInv, ClientStops, operator
  <2>3. QED BY <1>1, <2>1, <2>2, NobodyComes
<1>4. QED BY <1>2, <1>3

\* What stays as it is when only flags, the GUI or the watcher change.
LEMMA SameClients ==
  ASSUME UNCHANGED procs
  PROVE  \A p \in Procs : AtClient(p)' <=> AtClient(p)
BY DEF procs, AtClient, Holding

LEMMA GuiEnds ==
  ASSUME LockInv, GuiTyped, EndedInv, Gui
  PROVE  EndedInv'
<1>1. CASE SetMode
  BY <1>1, SameClients
     DEF SetMode, EndedInv, Flags, SeenRunning, StopPending, OnlyLeaving, ClientStops, watcher, procs
<1>2. CASE OperatorStarts
  <2>1. /\ ended' = FALSE /\ paused' \in BOOLEAN /\ UNCHANGED <<procs, shown, watcher, seen>>
    BY <1>2 DEF OperatorStarts
  <2>2. ClientStops'
    BY <1>2 DEF OperatorStarts, GuiTyped, ClientStops, Stopping, Idle, GuiAt, Other, Roles
  <2>3. QED
    BY <2>1, <2>2, SameClients
       DEF EndedInv, Flags, SeenRunning, StopPending, OnlyLeaving, watcher
<1>3. CASE OperatorStops
  <2>1. UNCHANGED <<procs, shown, mode, watcher, seen>> /\ mode \in Roles
    BY <1>3 DEF OperatorStops, GuiTyped
  <2>2. CASE mode = "client"
    <3>1. paused' = TRUE /\ ended' = TRUE
      <4>1. paused' = (paused \/ TRUE) /\ ended' = (ended \/ TRUE)
        BY <1>3, <2>2, Zenon DEF OperatorStops
      <4>2. QED BY <4>1
    <3>2. gui'.want = "none"
      BY <1>3 DEF OperatorStops, Stopping, GuiAt
    <3>3. QED
      BY <2>1, <3>1, <3>2, SameClients
         DEF EndedInv, Flags, SeenRunning, StopPending, OnlyLeaving, ClientStops, watcher
  <2>3. CASE mode # "client"
    <3>1. paused' = paused /\ ended' = ended /\ gui'.role = "server"
      <4>1. paused' = (paused \/ FALSE) /\ ended' = (ended \/ FALSE)
        BY <1>3, <2>3, Zenon DEF OperatorStops
      <4>2. paused \in BOOLEAN /\ ended \in BOOLEAN
        BY DEF EndedInv, Flags
      <4>3. gui'.role = "server"
        BY <1>3, <2>1, <2>3 DEF OperatorStops, Stopping, GuiAt, Roles
      <4>4. QED BY <4>1, <4>2, <4>3
    <3>2. QED
      BY <2>1, <3>1, SameClients
         DEF EndedInv, Flags, SeenRunning, StopPending, OnlyLeaving, ClientStops, watcher, procs
  <2>4. QED BY <2>2, <2>3
<1>4. CASE GuiKills
  BY <1>4, DyingEnds, {p \in Procs : role[p] = gui.role} \in SUBSET Procs DEF GuiKills
<1>5. CASE GuiFindsItStopped
  <2>1. gui'.role = gui.role /\ gui'.want = gui.want /\ gui.step = "stopping"
        /\ UNCHANGED <<procs, shown, operator, watcher, seen>>
    BY <1>5 DEF GuiFindsItStopped, GuiTyped
  <2>2. ClientStops'
    BY <2>1 DEF EndedInv, ClientStops, operator
  <2>3. QED BY <2>1, <2>2, SameClients, NobodyComes DEF procs
<1>6. CASE GuiCleans
  <2>1. /\ gui.step = "cleaning" /\ UNCHANGED <<procs, mode, paused, watcher, seen>>
        /\ gui'.step \notin {"stopping", "cleaning"}
    BY <1>6 DEF GuiCleans, GuiTyped, Idle, GuiAt
  <2>2. ClientStops'
    BY <2>1 DEF ClientStops
  <2>3. CASE gui.role = "client"
    <3>1. ended' => paused'
      <4>1. gui.want = "server" \/ paused
        BY <2>1, <2>3 DEF EndedInv, ClientStops, GuiTyped, Roles
      <4>2. ended' = (ended /\ gui.want # "server") /\ paused' = paused
        BY <1>6, <2>1 DEF GuiCleans
      <4>3. QED BY <4>1, <4>2, Zenon
    <3>2. ended' \in BOOLEAN
      BY <1>6 DEF GuiCleans
    <3>3. QED
      BY <2>1, <2>2, <3>1, <3>2, SameClients
         DEF EndedInv, Flags, SeenRunning, StopPending, OnlyLeaving, watcher
  <2>4. CASE gui.role # "client"
    <3>1. shown' = shown /\ ended' \in BOOLEAN /\ (ended' => ended)
      BY <1>6, <2>4 DEF GuiCleans, EndedInv, Flags
    <3>2. QED
      BY <2>1, <2>2, <3>1, SameClients
         DEF EndedInv, Flags, SeenRunning, StopPending, OnlyLeaving, watcher, procs
  <2>5. QED BY <2>3, <2>4
<1>7. ASSUME NEW p \in Procs, GuiSpawns(p) PROVE EndedInv'
  <2>1. Begins(p, gui.want) /\ gui.want \in Roles /\ gui'.step = "checking"
        /\ UNCHANGED <<shown, operator, watcher, seen>>
    BY <1>7 DEF GuiSpawns, GuiTyped, Checking, GuiAt
  <2>2. ClientStops'
    BY <2>1 DEF ClientStops
  <2>3. QED BY <2>1, <2>2, BeginningEnds
<1>8. CASE GuiChecks
  <2>1. UNCHANGED <<procs, shown, operator, watcher, seen>> /\ gui.proc \in Procs
        /\ role[gui.proc] \in Roles
    BY <1>8 DEF GuiChecks, GuiTyped, LockInv, LocksTyped
  <2>2. ClientStops'
    BY <1>8, <2>1 DEF GuiChecks, ClientStops, Stopping, Idle, GuiAt, Other, Roles
  <2>3. QED BY <2>1, <2>2, SameClients, NobodyComes DEF procs
<1>9. QED BY <1>1, <1>2, <1>3, <1>4, <1>5, <1>6, <1>7, <1>8 DEF Gui

\* The watcher looks past a client only when none holds the lock.
LEMMA TickEnds ==
  ASSUME LockInv, GuiTyped, EndedInv, AutoConnect
  PROVE  EndedInv'
<1>0. (\E p \in Procs : AtClient(p)) => Active("client")
  BY RolesAssumption DEF RolesAssumption, LockInv, HoldsOwn, AtClient, Active
<1>1. CASE TickLooks
  <2>1. ClientStops' /\ UNCHANGED <<procs, shown, gui, operator>> /\ tick = "waiting"
    BY <1>1 DEF TickLooks, EndedInv, ClientStops, operator
  <2>2. CASE Active("client")
    <3>1. wasRunning' = TRUE /\ seen' \in BOOLEAN /\ tick' = "waiting"
      BY <1>1, <2>2 DEF TickLooks
    <3>2. QED
      BY <2>1, <3>1, SameClients
         DEF EndedInv, Flags, SeenRunning, StopPending, OnlyLeaving, operator, procs
  <2>3. CASE ~Active("client")
    <3>1. tick' = "reading" /\ UNCHANGED <<wasRunning, seen>>
      BY <1>1, <2>3 DEF TickLooks
    <3>2. QED
      BY <1>0, <2>1, <2>3, <3>1, SameClients
         DEF EndedInv, Flags, SeenRunning, StopPending, OnlyLeaving, operator, procs
  <2>4. QED BY <2>2, <2>3
<1>2. CASE TickReads
  <2>1. /\ tick = "reading" /\ tick' = "choosing"
        /\ UNCHANGED <<procs, shown, gui, mode, ended, wasRunning, seen>>
        /\ paused' \in BOOLEAN /\ (paused => paused')
        /\ wasRunning /\ shown = "stopped" => paused'
    BY <1>2 DEF TickReads, EndedInv, Flags
  <2>2. SeenRunning' /\ OnlyLeaving' /\ ClientStops'
    BY <2>1, SameClients DEF EndedInv, Flags, SeenRunning, OnlyLeaving, ClientStops, procs
  <2>3. StopPending'
    BY <2>1 DEF EndedInv, Flags, StopPending
  <2>4. QED BY <2>1, <2>2, <2>3 DEF EndedInv, Flags
<1>3. CASE TickChooses
  <2>1. /\ tick = "choosing" /\ wasRunning' = FALSE /\ tick' \in {"waiting", "starting"}
        /\ UNCHANGED <<procs, shown, gui, operator, seen>>
    BY <1>3 DEF TickChooses
  <2>2. QED
    BY <2>1, SameClients
       DEF EndedInv, Flags, SeenRunning, StopPending, OnlyLeaving, ClientStops, operator, procs
<1>4. CASE TickStarts
  <2>1. /\ tick = "starting" /\ tick' = "waiting" /\ wasRunning' \in BOOLEAN
        /\ UNCHANGED <<procs, shown, operator, seen>>
        /\ gui'.role = "server" \/ gui'.step = "idle"
    BY <1>4 DEF TickStarts, Stopping, Idle, GuiAt
  <2>2. QED
    BY <2>1, SameClients
       DEF EndedInv, Flags, SeenRunning, StopPending, OnlyLeaving, ClientStops, operator, procs
<1>5. QED BY <1>1, <1>2, <1>3, <1>4 DEF AutoConnect

LEMMA EndedStep == LockInv /\ GuiTyped /\ EndedInv /\ [Next]_vars => EndedInv'
<1>1. SUFFICES ASSUME LockInv, GuiTyped, EndedInv, [Next]_vars PROVE EndedInv'
  OBVIOUS
<1>2. ASSUME UNCHANGED <<procs, shown, gui, operator, watcher, seen>> PROVE EndedInv'
  <2>1. ClientStops'
    BY <1>1, <1>2 DEF EndedInv, ClientStops, operator
  <2>2. QED BY <1>1, <1>2, <2>1, SameClients, NobodyComes DEF procs
<1>3. ASSUME NEW p \in Procs, NEW r \in Roles, HandStarts(p, r) PROVE EndedInv'
  <2>1. Begins(p, r) /\ UNCHANGED <<shown, gui, operator, watcher, seen>>
    BY <1>3 DEF HandStarts
  <2>2. ClientStops'
    BY <1>1, <2>1 DEF EndedInv, ClientStops, operator
  <2>3. QED BY <1>1, <2>1, <2>2, BeginningEnds
<1>4. ASSUME NEW p \in Procs, Process(p) PROVE EndedInv'
  <2>1. CASE TakesOwn(p) BY <1>1, <2>1, TakingEnds
  <2>2. CASE Probes(p) \/ EndsProbe(p) BY <1>1, <2>2, ProbingEnds
  <2>3. CASE Announces(p) BY <1>1, <2>3, LoopingEnds DEF Announces, Up
  <2>4. CASE Connects(p) BY <1>1, <2>4, LoopingEnds DEF Connects, Up
  <2>5. CASE Fails(p) BY <1>1, <2>5, LoopingEnds DEF Fails, Up
  <2>6. CASE Refused(p) BY <1>1, <2>6, LoopingEnds DEF Refused, Up
  <2>7. CASE Welcomed(p) BY <1>1, <2>7, LoopingEnds DEF Welcomed, Up
  <2>8. CASE Revoked(p) BY <1>1, <2>8, LoopingEnds DEF Revoked, Up
  <2>9. CASE LinkClosed(p) BY <1>1, <2>9, LoopingEnds DEF LinkClosed, Up
  <2>10. CASE Reconnects(p) BY <1>1, <2>10, LoopingEnds DEF Reconnects, Up
  <2>11. CASE Dismissed(p) BY <1>1, <2>11, DismissedEnds
  <2>12. CASE Leaves(p) BY <1>1, <2>12, DyingEnds, {p} \in SUBSET Procs DEF Leaves
  <2>13. CASE Reaped(p) BY <1>1, <2>13, DyingEnds, {p} \in SUBSET Procs DEF Reaped
  <2>14. CASE Crashes(p) BY <1>1, <2>14, DyingEnds, {p} \in SUBSET Procs DEF Crashes
  <2>15. QED
    BY <1>4, <2>1, <2>2, <2>3, <2>4, <2>5, <2>6, <2>7, <2>8, <2>9, <2>10, <2>11, <2>12,
       <2>13, <2>14 DEF Process
<1>5. CASE CommandFile
  BY <1>2, <1>5 DEF CommandFile, GuiOpens, GuiWrites, Reads, Clears, Sends
<1>6. CASE Gui BY <1>1, <1>6, GuiEnds
<1>7. CASE AutoConnect BY <1>1, <1>7, TickEnds
<1>8. CASE UNCHANGED vars BY <1>2, <1>8 DEF vars
<1>9. QED BY <1>1, <1>3, <1>4, <1>5, <1>6, <1>7, <1>8 DEF Next

\* "A session the operator ended [...] stays ended until they start again":
\* auto-connect starts no client after an end, if a tick has seen it running.
THEOREM EndedTheorem == Spec => EndedStaysEnded
<1> DEFINE Stays == tick = "starting" /\ tick' = "waiting" /\ gui' # Idle => ~(ended /\ seen)
<1>1. EndedInv /\ [Next]_vars => [Stays]_vars
  <2>1. SUFFICES ASSUME EndedInv, Next, tick = "starting", tick' = "waiting", gui' # Idle
                 PROVE  ~(ended /\ seen)
    BY DEF vars
  <2>2. CASE TickStarts
    <3>1. ~paused
      BY <2>1, <2>2 DEF TickStarts, Blocked
    <3>2. QED BY <2>1, <3>1 DEF EndedInv, StopPending
  <2>3. CASE CommandFile \/ Gui \/ (AutoConnect /\ ~TickStarts)
    BY <2>1, <2>3
       DEF CommandFile, GuiOpens, GuiWrites, Reads, Clears, Sends, Gui, SetMode, OperatorStarts,
           OperatorStops, GuiKills, GuiFindsItStopped, GuiCleans, GuiSpawns, GuiChecks,
           AutoConnect, TickLooks, TickReads, TickChooses, watcher
  <2>4. ASSUME NEW p \in Procs, Process(p) \/ \E r \in Roles : HandStarts(p, r)
        PROVE  tick' = tick
    BY <2>4
       DEF Process, TakesOwn, Probes, EndsProbe, Announces, Connects, Fails, Refused, Welcomed,
           Revoked, LinkClosed, Reconnects, Loop, Dismissed, Leaves, Reaped, Crashes, HandStarts,
           watcher
  <2>5. QED BY <2>1, <2>2, <2>3, <2>4 DEF Next
<1>2. Init => GuiTyped
  BY DEF Init, GuiTyped, Idle, GuiAt, Roles
<1>3. QED
  BY <1>1, <1>2, LockInit, LockStep, GuiStep, EndedInit, EndedStep, PTL DEF Spec, EndedStaysEnded

=============================================================================
