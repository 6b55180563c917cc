----------------------------- MODULE HooksProofs -----------------------------
(***************************************************************************)
(* Whatever other keys there are and whatever is bound: the session never  *)
(* holds a key that the user does not, or let go where no hook runs.  The  *)
(* set of keys down is what ties the two: the hook forwards a transition   *)
(* of it or keeps it to itself, and what it keeps to itself, an escape,    *)
(* was not forwarded when it began.                                        *)
(*                                                                         *)
(* Then, about another boundary of the system, Admission: a machine that   *)
(* is revoked holds no session beyond the one a handshake was opening when *)
(* the policy changed, whatever the operator, the watcher, the event sink, *)
(* the handshakes and the main loop do in between.                         *)
(***************************************************************************)
EXTENDS Hooks, Admission, TLAPS

\* The hook takes for down what is down, or came up where it does not run.
DownIsReal == keys_down \subseteq fingers \cup missed

\* The session is told of keys that are down, and never of an escape.
ToldIsDown ==
  /\ told \subseteq keys_down
  /\ escape_consumed => SCROLL \in keys_down \ told

Inv == DownIsReal /\ ToldIsDown

-----------------------------------------------------------------------------
LEMMA InitInv == Init => Inv
BY DEF Init, Inv, DownIsReal, ToldIsDown

\* A new key is told of unless it is an escape; then it was not down before.
LEMMA PressInv ==
  ASSUME Inv, NEW k \in Keys, Press(k)
  PROVE  Inv'
<1>1. fingers' = fingers \cup {k} /\ missed' = missed
  BY DEF Press
<1>2. CASE k \in keys_down
  <2>1. UNCHANGED <<told, keys_down, escape_consumed>>
    BY <1>2 DEF Press
  <2>2. QED BY <1>1, <2>1 DEF Inv, DownIsReal, ToldIsDown
<1>3. CASE k \notin keys_down
  <2>1. keys_down' = keys_down \cup {k} /\ KeyDown(k)
    BY <1>3 DEF Press
  <2>2. CASE k = SCROLL /\ EscapeDown
    <3>1. told' = told /\ escape_consumed' = TRUE
      BY <2>2 DEF EscapeDown
    <3>2. QED BY <1>1, <1>3, <2>1, <2>2, <3>1 DEF Inv, DownIsReal, ToldIsDown
  <2>3. CASE KeyDownChordFirst(k)
    <3>1. told' = told \cup {k} /\ escape_consumed' = escape_consumed
      BY <2>3 DEF KeyDownChordFirst
    <3>2. QED BY <1>1, <1>3, <2>1, <3>1 DEF Inv, DownIsReal, ToldIsDown
  <2>4. QED BY <2>1, <2>2, <2>3 DEF KeyDown
<1>4. QED BY <1>2, <1>3

\* The release of an escape is told to nobody, any other ends what was told.
LEMMA ReleaseInv ==
  ASSUME Inv, NEW k \in Keys, Release(k)
  PROVE  Inv'
<1>1. fingers' = fingers \ {k} /\ missed' = missed \ {k}
  BY DEF Release
<1>2. CASE k \in keys_down
  <2>1. keys_down' = keys_down \ {k} /\ KeyUp(k)
    BY <1>2 DEF Release
  <2>2. CASE k = SCROLL /\ escape_consumed
    <3>1. told' = told /\ escape_consumed' = FALSE
      BY <2>1, <2>2 DEF KeyUp
    <3>2. QED BY <1>1, <2>1, <2>2, <3>1 DEF Inv, DownIsReal, ToldIsDown
  <2>3. CASE ~(k = SCROLL /\ escape_consumed)
    <3>1. told' = told \ {k} /\ escape_consumed' = escape_consumed
      BY <2>1, <2>3 DEF KeyUp
    <3>2. QED BY <1>1, <2>1, <2>3, <3>1 DEF Inv, DownIsReal, ToldIsDown
  <2>4. QED BY <2>2, <2>3
<1>3. CASE k \notin keys_down
  <2>1. UNCHANGED <<told, keys_down, escape_consumed>>
    BY <1>3 DEF Release
  <2>2. QED BY <1>1, <1>3, <2>1 DEF Inv, DownIsReal, ToldIsDown
<1>4. QED BY <1>2, <1>3

\* A key let go unseen is still down for the hook.
LEMMA UnseenInv ==
  ASSUME Inv, NEW k \in Keys, ReleaseUnseen(k)
  PROVE  Inv'
<1>1. /\ fingers' = fingers \ {k} /\ missed' = missed \cup {k}
      /\ UNCHANGED <<told, keys_down, escape_consumed>>
  BY DEF ReleaseUnseen, keyboard
<1>2. QED BY <1>1 DEF Inv, DownIsReal, ToldIsDown

\* Nothing else touches the keyboard: no switch, warp, reload or beacon.
LEMMA OthersInv ==
  ASSUME Inv,
         \/ \E k \in Keys : Repeat(k)
         \/ SetBoundChords
         \/ \E d \in {-1, 1} : MouseMove(d)
         \/ Timer \/ Hears \/ Returns \/ Apply \/ EngineLoop
         \/ UNCHANGED vars
  PROVE  Inv'
<1>1. UNCHANGED <<fingers, missed, told, keys_down, escape_consumed>>
  <2>1. CASE \E k \in Keys : Repeat(k) BY <2>1 DEF Repeat, keyboard
  <2>2. CASE SetBoundChords BY <2>2 DEF SetBoundChords, user
  <2>3. CASE \E d \in {-1, 1} : MouseMove(d) BY <2>3 DEF MouseMove, user, keyboard
  <2>4. CASE Timer BY <2>4 DEF Timer, user, keyboard
  <2>5. CASE Hears BY <2>5 DEF Hears, Decide, Stays, user, keyboard
  <2>6. CASE Returns BY <2>6 DEF Returns, Decide, keyboard
  <2>7. CASE Apply BY <2>7 DEF Apply, user, keyboard
  <2>8. CASE EngineLoop BY <2>8 DEF EngineLoop, user, keyboard
  <2>9. CASE UNCHANGED vars BY <2>9 DEF vars, user, keyboard
  <2>10. QED BY <2>1, <2>2, <2>3, <2>4, <2>5, <2>6, <2>7, <2>8, <2>9
<1>2. QED BY <1>1 DEF Inv, DownIsReal, ToldIsDown

LEMMA NextInv == Inv /\ [Next]_vars => Inv'
BY PressInv, ReleaseInv, UnseenInv, OthersInv DEF Next

-----------------------------------------------------------------------------
\* "Only true down/up transitions are forwarded, so a stuck key can never be
\* left on the receiving machine" (capture.rs:134): for any keys, any chords
\* bound at any moment and any number of strokes and switches.
THEOREM ToldTheorem == Spec => []ToldIsHeld
<1>1. Inv => ToldIsHeld
  BY DEF Inv, DownIsReal, ToldIsDown, ToldIsHeld
<1>2. QED BY <1>1, InitInv, NextInv, PTL DEF Spec
-----------------------------------------------------------------------------
(***************************************************************************)
(* Admission.  A revocation reaches a machine in one of two ways: the      *)
(* check of a handshake reads the policy, and the main loop, when it       *)
(* replaces the policy, looks at who is registered.  Between the check and *)
(* the registration a handshake is seen by neither, so the invariant says  *)
(* of the connections there that they slipped; of the registered one, that *)
(* it did too or the main loop is about to take it out of the maps.        *)
(***************************************************************************)

\* How far a connection can be.
Stages ==
  {"gone", "hello", "cleared", "allowed", "admitted", "registered", "connected",
   "serving", "leaving", "left"}

\* How far a disconnect can be.
Drops == [step : {"none", "find", "maps", "session", "event"}, remove : BOOLEAN]

\* What the revocation of a machine comes to while the main loop is not in the
\* middle of a disconnect.
RevokedIsDropped ==
  policy.revoked /\ dropping = NoDrop => registered = None \/ registered \in slipped

\* A registered connection is one that registered and is not over.
RegisteredIsOpen ==
  registered \in Conns => hs[registered] \in {"registered", "connected", "serving"}

\* Under a policy that revokes the machine nobody is on the way in who was
\* checked against that policy.
CheckedOrSlipped ==
  policy.revoked =>
    /\ Unregistered \subseteq slipped
    /\ registered \in slipped \cup {None} \/ dropping.step \in {"find", "maps"}

RevocationInv ==
  /\ registered \in Conns \cup {None}
  /\ hs \in [Conns -> Stages]
  /\ dropping \in Drops
  /\ RegisteredIsOpen
  /\ CheckedOrSlipped

LEMMA InitRevocation == AdmissionInit => RevocationInv
<1> SUFFICES ASSUME AdmissionInit PROVE RevocationInv
  OBVIOUS
<1>1. registered = None /\ hs = [c \in Conns |-> "gone"] /\ ~policy.revoked
  BY DEF AdmissionInit, PolicyOf
<1>2. None \notin Conns
  BY DEF None, Conns
<1>3. dropping \in Drops
  BY DEF AdmissionInit, NoDrop, Drops
<1>4. QED BY <1>1, <1>2, <1>3 DEF RevocationInv, RegisteredIsOpen, CheckedOrSlipped, Stages

\* What does not touch the policy, the handshakes, the registration, the
\* disconnect in progress or who slipped: the operator, the watcher, the sink.
LEMMA ApartRevocation ==
  ASSUME RevocationInv, UNCHANGED <<policy, registered, hs, dropping, slipped>>
  PROVE  RevocationInv'
BY DEF RevocationInv, RegisteredIsOpen, CheckedOrSlipped, Unregistered

\* A connection that begins is unchecked, and was not registered: it was over.
LEMMA HelloRevocation ==
  ASSUME RevocationInv, NEW c \in Conns, Hello(c)
  PROVE  RevocationInv'
<1>1. /\ hs[c] = "gone" /\ hs' = [hs EXCEPT ![c] = "hello"]
      /\ slipped' = slipped \ {c}
      /\ UNCHANGED <<policy, registered, dropping>>
  BY DEF Hello
<1>2. registered # c
  BY <1>1 DEF RevocationInv, RegisteredIsOpen
<1>3. Unregistered' = Unregistered /\ c \notin Unregistered
  BY <1>1 DEF RevocationInv, Unregistered
<1>4. RegisteredIsOpen'
  BY <1>1, <1>2 DEF RevocationInv, RegisteredIsOpen
<1>5. CheckedOrSlipped'
  BY <1>1, <1>2, <1>3 DEF RevocationInv, CheckedOrSlipped
<1>6. QED BY <1>1, <1>4, <1>5 DEF RevocationInv, Stages

\* Every other step of a connection: into the gap only past the check of the
\* revocation, out of it into the registration, and out of the registration
\* before its teardown ends.
LEMMA ConnectionRevocation ==
  ASSUME RevocationInv, NEW c \in Conns, Connection(c) \/ Teardown(c)
  PROVE  RevocationInv'
<1>1. UNCHANGED <<policy, dropping, slipped>>
  BY DEF Connection, CheckRevoked, CheckAllowed, Admit, Register, MarkConnected,
         Announce, TellSink, TellSession, Teardown, session
<1>2. None \notin Conns
  BY DEF None, Conns
<1>3. CASE CheckRevoked(c)
  <2>1. /\ hs[c] = "hello" /\ registered' = registered
        /\ hs' = [hs EXCEPT ![c] = IF policy.revoked THEN "gone" ELSE "cleared"]
    BY <1>3 DEF CheckRevoked, Advances
  <2>2. registered # c
    BY <2>1 DEF RevocationInv, RegisteredIsOpen
  <2>3. policy.revoked => Unregistered' = Unregistered
    BY <2>1 DEF RevocationInv, Unregistered
  <2>4. RegisteredIsOpen'
    BY <2>1, <2>2 DEF RevocationInv, RegisteredIsOpen
  <2>5. CheckedOrSlipped'
    BY <1>1, <2>1, <2>3 DEF RevocationInv, CheckedOrSlipped
  <2>6. hs' \in [Conns -> Stages]
    BY <2>1 DEF RevocationInv, Stages
  <2>7. QED BY <1>1, <2>1, <2>4, <2>5, <2>6 DEF RevocationInv
<1>4. CASE CheckAllowed(c) \/ Admit(c)
  <2>1. PICK to \in {"allowed", "admitted", "gone"} :
          hs[c] \in {"cleared", "allowed"} /\ registered' = registered /\ hs' = [hs EXCEPT ![c] = to]
    BY <1>4 DEF CheckAllowed, Admit, Advances
  <2>2. registered # c
    BY <2>1 DEF RevocationInv, RegisteredIsOpen
  <2>3. Unregistered' \subseteq Unregistered
    BY <2>1 DEF RevocationInv, Unregistered
  <2>4. RegisteredIsOpen'
    BY <2>1, <2>2 DEF RevocationInv, RegisteredIsOpen
  <2>5. CheckedOrSlipped'
    BY <1>1, <2>1, <2>3 DEF RevocationInv, CheckedOrSlipped
  <2>6. hs' \in [Conns -> Stages]
    BY <2>1 DEF RevocationInv, Stages
  <2>7. QED BY <1>1, <2>1, <2>4, <2>5, <2>6 DEF RevocationInv
<1>5. CASE Register(c)
  <2>1. hs[c] = "admitted" /\ registered' = c /\ hs' = [hs EXCEPT ![c] = "registered"]
    BY <1>5 DEF Register, Advances
  <2>2. c \in Unregistered /\ Unregistered' \subseteq Unregistered
    BY <2>1 DEF RevocationInv, Unregistered
  <2>3. RegisteredIsOpen'
    BY <2>1 DEF RevocationInv, RegisteredIsOpen
  <2>4. CheckedOrSlipped'
    BY <1>1, <2>1, <2>2 DEF RevocationInv, CheckedOrSlipped
  <2>5. hs' \in [Conns -> Stages]
    BY <2>1 DEF RevocationInv, Stages
  <2>6. QED BY <1>1, <2>1, <2>3, <2>4, <2>5 DEF RevocationInv
<1>6. CASE MarkConnected(c) \/ Announce(c)
  <2>1. PICK to \in {"connected", "serving"} :
          hs[c] \in {"registered", "connected"} /\ registered' = registered
          /\ hs' = [hs EXCEPT ![c] = to]
    BY <1>6 DEF MarkConnected, Announce, Advances
  <2>2. Unregistered' = Unregistered
    BY <2>1 DEF RevocationInv, Unregistered
  <2>3. RegisteredIsOpen'
    BY <2>1 DEF RevocationInv, RegisteredIsOpen
  <2>4. CheckedOrSlipped'
    BY <1>1, <2>1, <2>2 DEF RevocationInv, CheckedOrSlipped
  <2>5. hs' \in [Conns -> Stages]
    BY <2>1 DEF RevocationInv, Stages
  <2>6. QED BY <1>1, <2>1, <2>3, <2>4, <2>5 DEF RevocationInv
<1>7. CASE Teardown(c) \/ TellSink(c) \/ TellSession(c)
  <2>1. PICK to \in {"leaving", "left", "gone"} :
          hs[c] \in {"serving", "leaving", "left"} /\ hs' = [hs EXCEPT ![c] = to]
    BY <1>7 DEF Teardown, TellSink, TellSession, Advances
  <2>2. registered' # c /\ registered' \in {registered, None}
    <3>1. CASE Teardown(c)
      BY <1>2, <3>1 DEF Teardown
    <3>2. CASE TellSink(c) \/ TellSession(c)
      BY <3>2 DEF TellSink, TellSession, Advances, RevocationInv, RegisteredIsOpen
    <3>3. QED BY <1>7, <3>1, <3>2
  <2>3. Unregistered' = Unregistered
    BY <2>1 DEF RevocationInv, Unregistered
  <2>4. RegisteredIsOpen'
    BY <1>2, <2>1, <2>2 DEF RevocationInv, RegisteredIsOpen
  <2>5. CheckedOrSlipped'
    BY <1>1, <2>1, <2>2, <2>3 DEF RevocationInv, CheckedOrSlipped
  <2>6. hs' \in [Conns -> Stages]
    BY <2>1 DEF RevocationInv, Stages
  <2>7. QED BY <1>1, <2>2, <2>4, <2>5, <2>6 DEF RevocationInv
<1>8. QED BY <1>3, <1>4, <1>5, <1>6, <1>7 DEF Connection

\* The main loop: a policy that revokes finds the registered machine, a
\* disconnect takes whoever is registered by then.
LEMMA MainLoopRevocation ==
  ASSUME RevocationInv, MainLoop
  PROVE  RevocationInv'
<1>1. hs' = hs /\ Unregistered' = Unregistered
  BY DEF MainLoop, Reload, ApplyPolicy, DropFinds, DropMaps, DropSession, DropEvent, Unregistered
<1>2. None \notin Conns
  BY DEF None, Conns
<1>3. dropping' \in Drops
  <2>1. dropping \in Drops
    BY DEF RevocationInv
  <2>2. NoDrop \in Drops /\ \A remove \in BOOLEAN : Drop(remove) \in Drops
    BY DEF Drops, Drop, NoDrop
  <2>3. \A at \in {"maps", "session", "event"} : [dropping EXCEPT !.step = at] \in Drops
    BY <2>1 DEF Drops
  <2>4. CASE Reload BY <2>2, <2>4 DEF Reload
  <2>5. CASE ApplyPolicy BY <2>2, <2>5 DEF ApplyPolicy
  <2>6. CASE DropFinds \/ DropMaps \/ DropSession \/ DropEvent
    BY <2>2, <2>3, <2>6 DEF DropFinds, DropMaps, DropSession, DropEvent
  <2>7. QED BY <2>4, <2>5, <2>6 DEF MainLoop
<1>4. CASE Reload
  <2>1. UNCHANGED <<policy, registered, slipped>> /\ dropping = NoDrop
    BY <1>4 DEF Reload
  <2>2. dropping.step \notin {"find", "maps"}
    BY <2>1 DEF NoDrop
  <2>3. QED BY <1>1, <1>3, <2>1, <2>2 DEF RevocationInv, RegisteredIsOpen, CheckedOrSlipped
<1>5. CASE ApplyPolicy
  <2>1. /\ registered' = registered /\ slipped' = slipped \cup Unregistered
        /\ dropping' = IF registered # None /\ policy'.revoked THEN Drop(TRUE) ELSE NoDrop
    BY <1>5 DEF ApplyPolicy
  <2>2. policy'.revoked => registered' = None \/ dropping'.step = "find"
    BY <2>1 DEF Drop
  <2>3. QED BY <1>1, <1>3, <2>1, <2>2 DEF RevocationInv, RegisteredIsOpen, CheckedOrSlipped
<1>6. CASE DropFinds
  <2>1. /\ UNCHANGED <<policy, registered, slipped>>
        /\ registered = None \/ dropping'.step = "maps"
        /\ dropping.step = "find"
    BY <1>6 DEF DropFinds, RevocationInv, Drops
  <2>2. QED BY <1>1, <1>3, <2>1 DEF RevocationInv, RegisteredIsOpen, CheckedOrSlipped
<1>7. CASE DropMaps
  <2>1. UNCHANGED <<policy, slipped>> /\ registered' = None
    BY <1>7 DEF DropMaps
  <2>2. QED BY <1>1, <1>2, <1>3, <2>1 DEF RevocationInv, RegisteredIsOpen, CheckedOrSlipped
<1>8. CASE DropSession \/ DropEvent
  <2>1. UNCHANGED <<policy, registered, slipped>> /\ dropping.step \in {"session", "event"}
    BY <1>8 DEF DropSession, DropEvent
  <2>2. dropping.step \notin {"find", "maps"}
    BY <2>1
  <2>3. policy.revoked => registered \in slipped \cup {None}
    BY <2>2 DEF RevocationInv, CheckedOrSlipped
  <2>4. CheckedOrSlipped'
    BY <1>1, <2>1, <2>3 DEF RevocationInv, CheckedOrSlipped
  <2>5. QED BY <1>1, <1>3, <2>1, <2>4 DEF RevocationInv, RegisteredIsOpen
<1>9. QED BY <1>4, <1>5, <1>6, <1>7, <1>8 DEF MainLoop

LEMMA NextRevocation == RevocationInv /\ [AdmissionNext]_admission_vars => RevocationInv'
<1> SUFFICES ASSUME RevocationInv, [AdmissionNext]_admission_vars PROVE RevocationInv'
  OBVIOUS
<1>1. CASE GuiLoads \/ GuiSaves \/ Prime \/ SeesChange \/ Loads \/ Publishes
  BY <1>1, ApartRevocation DEF GuiLoads, GuiSaves, Prime, SeesChange, Loads, Publishes
<1>2. CASE Sink
  BY <1>2, ApartRevocation
  DEF Sink, SinkConnected, SinkTrusts, SinkLoads, SinkSizes, SinkDisconnected
<1>3. CASE UNCHANGED admission_vars
  BY <1>3, ApartRevocation DEF admission_vars
<1>4. QED
  BY <1>1, <1>2, <1>3, HelloRevocation, ConnectionRevocation, MainLoopRevocation DEF AdmissionNext

\* "A revoked machine must not keep a session it may no longer open"
\* (server/mod.rs:549): for any number of connections, saves and events behind,
\* once the policy revokes the machine and the main loop is done with it, only a
\* connection whose handshake stood between the check and the registration when
\* a policy was applied can be registered - the gap is the only one.
THEOREM RevocationTheorem == AdmissionSpec => []RevokedIsDropped
<1>1. RevocationInv => RevokedIsDropped
  BY DEF RevocationInv, CheckedOrSlipped, RevokedIsDropped, NoDrop
<1>2. QED BY <1>1, InitRevocation, NextRevocation, PTL DEF AdmissionSpec
=============================================================================
