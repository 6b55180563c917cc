---------------------------- MODULE ClientProofs ----------------------------
(***************************************************************************)
(* For any keys, buttons and queue and any number of visits: a click lands *)
(* on the command, whoever steers aims at the newest Enter, and hardware   *)
(* that is at home is its user's.  The first two rest on the follower's    *)
(* lock, which the motion thread keeps from the placement to the last      *)
(* event and the control thread until the command is the new one; the last *)
(* on the order of the control thread's own steps.                         *)
(***************************************************************************)
EXTENDS Client, TLAPS

\* Whoever is about to use the command holds its lock, to the end of the use.
MotionLock ==
  /\ at["motion"] \in {"place", "drain", "inject", "wedged"} => lock["motion"] = {"motion"}
  /\ at["stream"] = "advance" => lock["motion"] = {"stream"}
  /\ at["tcp"] \in {"anchor", "restore"} => lock["motion"] = {"tcp"}

\* Only while the follower's lock is held is the command not yet that of the newest Enter.
Anchored ==
  /\ entered /\ at["tcp"] # "anchor" => command.enter = enters
  /\ at["tcp"] = "anchor" => entered

\* Hardware is silenced from an Enter to the end of the Leave after it.
Restored == silenced => entered \/ at["tcp"] \in {"unfollow", "restore"}

Inv == TypeOK /\ MotionLock /\ ClicksLandOnCommand /\ Anchored /\ Restored /\ KeysTracked

-----------------------------------------------------------------------------
LEMMA InitInv == Init => Inv
<1> SUFFICES ASSUME Init PROVE Inv
  OBVIOUS
<1>1. TypeOK
  <2>1. at \in [Threads -> TcpSteps \cup MotionSteps \cup StreamSteps \cup {"poll", "watch"}]
    BY DEF Init, Threads, TcpSteps, MotionSteps
  <2>2. lock \in [{"motion", "injector"} -> {{}} \cup {{t} : t \in Threads}]
    BY DEF Init
  <2>3. command \in [enter : 0..MaxEnters, pos : Positions]
    BY EventAssumption DEF Init, Positions
  <2>4. QED
    BY <2>1, <2>2, <2>3, EventAssumption DEF Init, TypeOK, TcpSteps, MotionSteps, StreamSteps, Positions
<1>2. QED
  BY <1>1 DEF Init, Inv, MotionLock, ClicksLandOnCommand, Anchored, Restored, KeysTracked

-----------------------------------------------------------------------------
(* The control thread *)

LEMMA ControlInv ==
  ASSUME Inv, Control
  PROVE  Inv'
<1> USE EventAssumption DEF Inv, MotionLock, ClicksLandOnCommand, Anchored, Restored, KeysTracked, TypeOK,
        Threads, TcpSteps, MotionSteps, StreamSteps, Positions, Free, Takes, Drops, Goes, Wakes,
        flags, wire, steering, queues, machine, os
<1>1. CASE Turn BY <1>1 DEF Turn
<1>2. CASE Hears BY <1>2 DEF Hears
<1>3. CASE HearsEnter BY <1>3 DEF HearsEnter
<1>4. CASE Anchor BY <1>4 DEF Anchor, Silences
<1>5. CASE Activate BY <1>5 DEF Activate
<1>6. CASE Report BY <1>6 DEF Report
<1>7. CASE HearsLeave
  <2>1. /\ at["tcp"] = "recv" /\ at'["tcp"] = "unfollow" /\ at'["stream"] = at["stream"]
        /\ at'["motion"] = IF at["motion"] = "waiting" THEN "idle" ELSE at["motion"]
        /\ at' \in [Threads -> TcpSteps \cup MotionSteps \cup StreamSteps \cup {"poll", "watch"}]
    BY <1>7 DEF HearsLeave
  <2>2. ~active' /\ entered' = FALSE
    BY <1>7 DEF HearsLeave
  <2>3. UNCHANGED <<lock, enters, command, cursor, held, down, silenced>>
    BY <1>7 DEF HearsLeave
  <2>4. TypeOK' BY <2>1, <2>2, <2>3
  <2>5. MotionLock' /\ ClicksLandOnCommand' BY <2>1, <2>3
  <2>6. Anchored' /\ Restored' BY <2>1, <2>2
  <2>7. KeysTracked' BY <2>3
  <2> QED BY <2>4, <2>5, <2>6, <2>7
<1>8. CASE Unfollow BY <1>8 DEF Unfollow
<1>9. CASE Restore BY <1>9 DEF Restore, Leaves
<1>10. CASE \E e \in Events : HearsEvent(e) BY <1>10 DEF HearsEvent
<1>11. CASE Stop BY <1>11 DEF Stop
<1>12. CASE Join BY <1>12 DEF Join
<1>13. CASE PlaceAtCommand BY <1>13 DEF PlaceAtCommand
<1>14. QED
  BY <1>1, <1>2, <1>3, <1>4, <1>5, <1>6, <1>7, <1>8, <1>9, <1>10, <1>11, <1>12, <1>13
  DEF Control, Enter, Leave

-----------------------------------------------------------------------------
(* The motion thread *)

LEMMA MotionInv ==
  ASSUME Inv, Motion
  PROVE  Inv'
<1> USE EventAssumption DEF Inv, MotionLock, ClicksLandOnCommand, Anchored, Restored, KeysTracked, TypeOK,
        Threads, TcpSteps, MotionSteps, StreamSteps, Positions, Free, Takes, Drops, Goes,
        flags, wire, steering, queues, machine, os
<1>1. CASE Head_ BY <1>1 DEF Head_
<1>2. CASE IdleTest BY <1>2 DEF IdleTest
<1>3. CASE Wait BY <1>3 DEF Wait
<1>4. CASE Tick BY <1>4 DEF Tick
<1>5. CASE Steer BY <1>5 DEF Steer
<1>6. CASE Place BY <1>6 DEF Place
<1>7. CASE DrainEvents BY <1>7 DEF DrainEvents
<1>8. CASE Inject
  <2>1. down' \subseteq held'
    BY <1>8 DEF Inject, Injects, InjectsKey, InjectsButton
  <2>2. KeysTracked'
    BY <1>8 DEF Inject, Injects, InjectsKey, InjectsButton
  <2>3. QED BY <1>8, <2>1, <2>2 DEF Inject
<1>9. CASE Sample BY <1>9 DEF Sample
<1>10. QED
  BY <1>1, <1>2, <1>3, <1>4, <1>5, <1>6, <1>7, <1>8, <1>9 DEF Motion

-----------------------------------------------------------------------------
(* The other threads, the operating system and time *)

LEMMA OthersInv ==
  ASSUME Inv,
         Stream \/ Sync \/ Supervise \/ Ages \/ Watchdog \/ PowerEvent \/ Over \/ UNCHANGED vars
  PROVE  Inv'
<1> USE EventAssumption DEF Inv, MotionLock, ClicksLandOnCommand, Anchored, Restored, KeysTracked, TypeOK,
        Threads, TcpSteps, MotionSteps, StreamSteps, Positions, Free, Takes, Drops, Goes, Wakes,
        flags, wire, steering, queues, machine, os
<1>1. CASE Frame \/ Follow BY <1>1 DEF Frame, Follow
<1>2. CASE ApplyMotionFrame BY <1>2 DEF ApplyMotionFrame
<1>3. CASE Sync BY <1>3 DEF Sync
<1>4. CASE Supervise BY <1>4 DEF Supervise
<1>5. CASE Ages BY <1>5 DEF Ages
<1>6. CASE Watchdog BY <1>6 DEF Watchdog
<1>7. CASE PowerEvent BY <1>7 DEF PowerEvent
<1>8. CASE Over \/ UNCHANGED vars BY <1>8 DEF Over, vars
<1>9. QED BY <1>1, <1>2, <1>3, <1>4, <1>5, <1>6, <1>7, <1>8 DEF Stream

LEMMA NextInv == Inv /\ [Next]_vars => Inv'
BY ControlInv, MotionInv, OthersInv DEF Next

LEMMA Always == Spec => []Inv
BY InitInv, NextInv, PTL DEF Spec

-----------------------------------------------------------------------------
\* Threads, locks and what the injector tracks stay within their types.
THEOREM TypeTheorem == Spec => []TypeOK
<1>1. Inv => TypeOK BY DEF Inv
<1>2. QED BY <1>1, Always, PTL

\* "The cursor must sit on the command point before the event fires" (dispatch.rs:81):
\* the motion thread holds the follower's lock while it injects, and the stream, the sync
\* thread and the control thread move the command only with that lock.
THEOREM ClicksTheorem == Spec => []ClicksLandOnCommand
<1>1. Inv => ClicksLandOnCommand BY DEF Inv
<1>2. QED BY <1>1, Always, PTL

\* "The motion and UDP threads must never steer toward a stale command" (dispatch.rs:36):
\* an Enter is taken up with the follower's lock, which is kept until the command is its
\* own, and a thread that let itself in during an earlier visit still waits for that lock.
THEOREM EntryTheorem == Spec => []SteersCurrentEntry
<1>1. Inv => SteersCurrentEntry
  BY DEF Inv, MotionLock, Anchored, SteersCurrentEntry, Steering
<1>2. QED BY <1>1, Always, PTL

\* "Local input is already restored" (dispatch.rs:76): only an Enter silences the
\* hardware, and the Leave that follows it gives it back before the next message.
THEOREM HomeTheorem == Spec => []HomeIsNotSilenced
<1>1. Inv => HomeIsNotSilenced BY DEF Inv, Restored, HomeIsNotSilenced
<1>2. QED BY <1>1, Always, PTL

\* "`leave` releases everything still held" (platform/src/windows/injector.rs), for keys:
\* whatever is queued, blocked or released twice, the injector tracks each one that is down.
THEOREM KeysTheorem == Spec => []KeysTracked
<1>1. Inv => KeysTracked BY DEF Inv
<1>2. QED BY <1>1, Always, PTL
=============================================================================
