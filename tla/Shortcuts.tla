------------------------------ MODULE Shortcuts ------------------------------
(***************************************************************************)
(* The action engine (core/src/actions.rs) between the keyboard and the    *)
(* machines that keys are forwarded to.                                    *)
(*                                                                         *)
(* A key event passes the capture, then ActionEngine::key_down or key_up,  *)
(* which keep what belongs to a chord, then forward_while_remote, then the *)
(* injector of the client the cursor is on.  One key event is one step,    *)
(* from the physical key to the injected one: the session handles it under *)
(* its lock, and the Enters, Leaves and keys a client sees travel through  *)
(* one queue in order.  Which client the cursor is on is all that is kept  *)
(* of the session (module Switching); the geometry is not.                 *)
(*                                                                         *)
(* A server may have two capture paths, X at home and evdev while the      *)
(* cursor is away (Linux with readable devices).  Where it hands over like *)
(* this (handsOver), a key held across the switch was pressed on the other *)
(* path, and the evdev reader says nothing of its release (PressState).    *)
(***************************************************************************)
EXTENDS Naturals, FiniteSets, Sequences, SequencesExt

CONSTANTS
  Plain,       \* keys every application uses: a bare chord must not eat them
  BareSafe,    \* keys no application acts on (Scroll Lock, Pause, F13-F24)
  ModKeys,     \* the physical modifier keys
  Mods,        \* the modifiers: Ctrl, Alt, Shift, Meta
  ModOf,       \* the modifier each modifier key stands for
  Clients,     \* the machines the cursor can go to
  Ring,        \* the screens in layout order, the server's own first
  Configs,     \* the [shortcuts] sections the configuration file may hold
  Captures,    \* whether the servers considered hand over, a subset of BOOLEAN
  MaxHeld,     \* bound: keys held at once
  MaxLost      \* bound: dropped releases that are considered

Home == "home"
Typed == Plain \cup BareSafe
Keys == Typed \cup ModKeys
Switches == [action : {"switch"}, to : Clients \cup {Home, ""}]
Actions == Switches \cup [action : {"cycle", "lock", "home", "other"}, to : {""}]

ASSUME KeysAssumption ==
  /\ Plain \cap BareSafe = {} /\ ModKeys \cap (Plain \cup BareSafe) = {}
  /\ ModOf \in [ModKeys -> Mods]
ASSUME ScreensAssumption ==
  /\ Home \notin Clients /\ "" \notin Clients
  /\ Ring[1] = Home /\ ToSet(Ring) = Clients \cup {Home}
  /\ \A i, j \in DOMAIN Ring : Ring[i] = Ring[j] => i = j
ASSUME ConfigsAssumption ==
  \A c \in Configs : /\ c.enabled \in BOOLEAN
                     /\ \A i \in DOMAIN c.bindings :
                          /\ c.bindings[i].mods \subseteq Mods
                          /\ c.bindings[i].key \in Keys
                          /\ c.bindings[i].does \in Actions
ASSUME CapturesAssumption == Captures \subseteq BOOLEAN /\ {MaxHeld, MaxLost} \subseteq Nat

VARIABLES
  handsOver, \* two capture paths
  held,      \* keys physically down
  seen,      \* those the capture path now in use has seen go down
  cfg,       \* the section in use, sanitized
  mods,      \* modifiers the engine believes held
  pending,   \* the key of a half-typed chord and its modifiers, if any
  fired,     \* the key whose press fired a chord, if any
  owned,     \* how often each key is owned: as the start of a chord not completed
  mode,      \* the screen the cursor is on
  reachable, \* clients that can be switched to
  locked,    \* walls_locked
  down,      \* keys each client's injector holds (keys_down)
  lost,      \* history: how many releases of each key were dropped
  stuck      \* history: modifiers whose last release was dropped

engine == <<cfg, mods, pending, fired, owned>>
history == <<handsOver, lost, stuck>>
vars == <<held, seen, engine, mode, reachable, locked, down, history>>

Modifier(k) == k \in ModKeys

-----------------------------------------------------------------------------
(* Which bindings are in use.                                              *)

\* Variant: a binding is only checked to name a key that is no modifier.
AnyKey(b) == ~ Modifier(b.key)

\* Binding::is_bindable: a binding must not eat a key an application needs.
Bindable(b) == ~ Modifier(b.key) /\ (b.mods # {} \/ b.key \in BareSafe)

\* BindSection::sanitized: the section without the others, in the same order.
Sanitized(c) ==
  [enabled  |-> c.enabled,
   bindings |-> [i \in {j \in DOMAIN c.bindings : Bindable(c.bindings[j])} |-> c.bindings[i]]]

\* The positions of the bindings of this chord, the first of which fires.
Matching(chord, k) ==
  {i \in DOMAIN cfg.bindings : cfg.bindings[i].key = k /\ cfg.bindings[i].mods = chord}
First(M) == cfg.bindings[CHOOSE i \in M : \A j \in M : i <= j]
Starts(k) == \E i \in DOMAIN cfg.bindings : cfg.bindings[i].key = k

\* ActionEngine::fire: the action a binding stands for, if it means anything here.
Fire(b) ==
  IF \/ b.does.action \in {"cycle", "lock"}
     \/ b.does.action = "switch" /\ b.does.to # ""
     \/ b.does.action = "home" /\ mode # Home
  THEN {b.does} ELSE {}

-----------------------------------------------------------------------------
(* The client the cursor is on.                                            *)

\* enter_screen; the client left lets go of every key it holds (leave).
MoveTo(s) ==
  /\ mode' = s
  /\ down' = IF mode = Home THEN down ELSE [down EXCEPT ![mode] = {}]

Stay == UNCHANGED <<mode, down>>

\* Variant: releases of modifiers are taken for part of the chord.
ForwardPlain(kind, k) ==
  down' = CASE mode = Home \/ (Modifier(k) /\ kind = "up") -> down
            [] OTHER -> [down EXCEPT ![mode] = IF kind = "down" THEN @ \cup {k} ELSE @ \ {k}]

\* forward_while_remote, and the key of the client's injector.
Forward(kind, k) ==
  down' = CASE mode = Home -> down
            [] OTHER -> [down EXCEPT ![mode] = IF kind = "down" THEN @ \cup {k} ELSE @ \ {k}]

\* The other path has seen nothing of what is held.
Sees(s) == seen' = IF handsOver /\ (mode' = Home) # (mode = Home) THEN {} ELSE s

\* SwitchNext: the first reachable screen after this one, around the ring.
NextScreens ==
  LET at == CHOOSE i \in DOMAIN Ring : Ring[i] = mode
      around == [k \in 1 .. Len(Ring) - 1 |-> Ring[((at + k - 1) % Len(Ring)) + 1]]
  IN SelectSeq(around, LAMBDA s : s \in reachable \cup {Home})

\* execute_user_action: what cannot be done here is a no-op.
Execute(does) ==
  CASE does.action = "switch" /\ does.to \in reachable \cup {Home} -> MoveTo(does.to) /\ UNCHANGED locked
    [] does.action = "cycle" /\ NextScreens # <<>> -> MoveTo(Head(NextScreens)) /\ UNCHANGED locked
    [] does.action = "home" -> MoveTo(Home) /\ UNCHANGED locked
    [] does.action = "lock" -> locked' = ~ locked /\ Stay
    [] OTHER -> Stay /\ UNCHANGED locked

-----------------------------------------------------------------------------
(* A key goes down: key_down, by what the key is to the engine.            *)

PassesOn(k) == Forward("down", k) /\ UNCHANGED <<mode, locked>>

\* The engine is off: it tracks nothing.
PressInert(k) ==
  /\ ~ cfg.enabled
  /\ PassesOn(k)
  /\ UNCHANGED <<mods, pending, fired, owned>>

\* A modifier extends the chord and always passes through.
PressModifier(k) ==
  /\ cfg.enabled /\ Modifier(k)
  /\ mods' = mods \cup {ModOf[k]}
  /\ pending' = {[key |-> p.key, mods |-> mods'] : p \in pending}
  /\ PassesOn(k)
  /\ UNCHANGED <<fired, owned>>

\* A chord fires on the press.  A binding that means nothing here (home at
\* home, switch to no screen) fires no action: the press passes on.
PressChord(k) ==
  /\ cfg.enabled /\ ~ Modifier(k) /\ Matching(mods, k) # {}
  /\ pending' = {} /\ fired' = {k}
  /\ LET action == Fire(First(Matching(mods, k)))
     IN \/ \E does \in action : Execute(does)
        \/ action = {} /\ PassesOn(k)
  /\ UNCHANGED <<mods, owned>>

\* Any other key passes on, one that some chord starts with included: the
\* engine only remembers that it owns the release.
PressOther(k) ==
  /\ cfg.enabled /\ ~ Modifier(k) /\ Matching(mods, k) = {}
  /\ pending' = IF Starts(k) THEN {[key |-> k, mods |-> mods]} ELSE {}
  /\ owned' = IF Starts(k) THEN [owned EXCEPT ![k] = @ + 1] ELSE owned
  /\ PassesOn(k)
  /\ UNCHANGED <<mods, fired>>

Press(k) ==
  /\ k \notin held /\ Cardinality(held) < MaxHeld
  /\ held' = held \cup {k}
  /\ PressInert(k) \/ PressModifier(k) \/ PressChord(k) \/ PressOther(k)
  /\ Sees(seen \cup {k})
  /\ UNCHANGED <<cfg, reachable, history>>

-----------------------------------------------------------------------------
(* A key goes up: key_up, whether or not the engine is on.                 *)

\* Variant: the engine that is off does not look at releases either.
KeyUpIfOn(k) ==
  IF cfg.enabled /\ Modifier(k)
  THEN mods' = mods \ {ModOf[k]} /\ Forward("up", k) /\ UNCHANGED <<fired, owned>>
  ELSE Forward("up", k) /\ UNCHANGED <<mods, fired, owned>>

KeyUp(k) ==
  CASE Modifier(k) ->
         mods' = mods \ {ModOf[k]} /\ Forward("up", k) /\ UNCHANGED <<fired, owned>>
    [] ~ Modifier(k) /\ k \in fired ->
         fired' = {} /\ UNCHANGED <<mods, owned, down>>
    [] ~ Modifier(k) /\ k \notin fired /\ owned[k] > 0 ->
         owned' = [owned EXCEPT ![k] = @ - 1] /\ UNCHANGED <<mods, fired, down>>
    [] OTHER ->
         /\ IF \E p \in pending : p.key = k THEN UNCHANGED down ELSE Forward("up", k)
         /\ UNCHANGED <<mods, fired, owned>>

Released(k) == k \in held /\ held' = held \ {k} /\ seen' = seen \ {k}

\* A release the path in use reports: of a press it saw, or any at home (X).
LetGo(k) ==
  /\ Released(k) /\ (k \in seen \/ mode = Home)
  /\ KeyUp(k)
  /\ stuck' = IF Modifier(k) THEN stuck \ {ModOf[k]} ELSE stuck
  /\ UNCHANGED <<cfg, pending, mode, reachable, locked, handsOver, lost>>

\* One it saw no press of: the reader drops it (PressState::key_action), and X
\* need not report it.
Drop(k) ==
  /\ Released(k) /\ k \notin seen
  /\ IF Modifier(k) THEN stuck' = stuck \cup {ModOf[k]} /\ UNCHANGED lost
     ELSE (\A j \in Typed : lost[j] < MaxLost) /\ lost' = [lost EXCEPT ![k] = @ + 1] /\ UNCHANGED stuck
  /\ UNCHANGED <<engine, mode, reachable, locked, down, handsOver>>

\* tick: a half-typed chord outlives its window.
Expire ==
  /\ pending # {} /\ pending' = {}
  /\ UNCHANGED <<held, seen, cfg, mods, fired, owned, mode, reachable, locked, down, history>>

\* set_config: what was consumed stays consumed.
Adopt(c) == cfg' = Sanitized(c) /\ pending' = {} /\ UNCHANGED <<mods, fired, owned>>

Reload(c) ==
  /\ Adopt(c)
  /\ UNCHANGED <<held, seen, mode, reachable, locked, down, history>>

-----------------------------------------------------------------------------
(* The rest of the session, as far as keys are concerned.                  *)

\* The cursor crosses a wall; escape and a blocked client bring it home.
Cross(s) ==
  /\ s # mode /\ s \in reachable \cup {Home}
  /\ ~ locked \/ s = Home
  /\ MoveTo(s) /\ Sees(seen)
  /\ UNCHANGED <<held, engine, reachable, locked, history>>

Connect(c) ==
  /\ reachable' = reachable \cup {c}
  /\ UNCHANGED <<held, seen, engine, mode, locked, down, history>>

\* A lost client ends its session, and lets go of every key.
Disconnect(c) ==
  /\ c \in reachable /\ reachable' = reachable \ {c}
  /\ mode' = IF mode = c THEN Home ELSE mode
  /\ down' = [down EXCEPT ![c] = {}]
  /\ Sees(seen)
  /\ UNCHANGED <<held, engine, locked, history>>

Init ==
  /\ held = {} /\ seen = {}
  /\ cfg \in {Sanitized(c) : c \in Configs}
  /\ mods = {} /\ pending = {} /\ fired = {} /\ owned = [k \in Typed |-> 0]
  /\ mode = Home /\ reachable = {} /\ locked = FALSE
  /\ down = [c \in Clients |-> {}]
  /\ handsOver \in Captures /\ lost = [k \in Typed |-> 0] /\ stuck = {}

Next ==
  \/ \E k \in Keys : Press(k) \/ LetGo(k) \/ Drop(k)
  \/ \E c \in Configs : Reload(c)
  \/ \E s \in Clients \cup {Home} : Cross(s)
  \/ \E c \in Clients : Connect(c) \/ Disconnect(c)
  \/ Expire

Spec == Init /\ [][Next]_vars

-----------------------------------------------------------------------------
HeldMods == {ModOf[k] : k \in held \cap ModKeys}
One(b) == IF b THEN 1 ELSE 0

\* What a hand-over drops is beyond the engine; with one path there is nothing.
Missed == IF handsOver THEN stuck ELSE {}
Dropped(k) == IF handsOver THEN lost[k] ELSE 0

\* k, pressed now, acts as a chord only under these modifiers.
TypedWith(ms, k) ==
  \A i \in Matching(mods, k) : /\ cfg.bindings[i].mods \subseteq ms
                               /\ k \in Plain => ms # {}

\* A key acts as a chord only if the user holds the modifiers of the chord, those
\* apart whose last release a hand-over dropped: the engine's own record,
\* "authoritative even when apps change focus mid-chord" (actions.rs:237-239),
\* claims no other modifier, and no binding without modifiers eats a key that
\* applications use (sanitized).
ChordIsTyped ==
  [][\A k \in Typed : Press(k) /\ cfg.enabled => TypedWith(HeldMods \cup Missed, k)]_vars

\* "A consumed press must always own its release" (actions.rs:271-272), and no
\* other: the engine waits for at most one release of a key that is down and for
\* those the hand-over dropped.  With one capture path nothing is awaited once no
\* key is held, so no release of a later press is taken from a client, whatever
\* was reloaded, switched off or crossed in between.
NothingOwed ==
  \A k \in Typed : owned[k] + One(k \in fired) <= One(k \in held) + Dropped(k)

\* The same without the allowance, as the comments have it.
ChordIsHeld ==
  [][\A k \in Typed : Press(k) /\ cfg.enabled => TypedWith(HeldMods, k)]_vars
NothingOwedAtRest == held = {} => fired = {} /\ \A k \in Typed : owned[k] = 0

\* Modifiers pass through both ways and a key no section binds is none of the
\* engine's business: with no key held no client has one of them down.
FreeKeys ==
  {k \in Keys : \A c \in Configs : \A i \in DOMAIN c.bindings : c.bindings[i].key # k}
FreeKeysAreReleased == held = {} => \A c \in Clients : down[c] \cap FreeKeys = {}

\* What "a key that starts one of its chords is swallowed (never forwarded to the
\* client) until the chord resolves" (actions.rs:26-28) is for: with no key held
\* no client has a key down.
NoStuckKey == held = {} => \A c \in Clients : down[c] = {}
=============================================================================
