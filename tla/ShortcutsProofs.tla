--------------------------- MODULE ShortcutsProofs ---------------------------
(***************************************************************************)
(* For every set of keys, clients and sections, and for servers with one   *)
(* capture path and with two: what the engine awaits and believes is what  *)
(* the keyboard holds and what a hand-over dropped, chords are typed, and  *)
(* the keys that are none of its business come up wherever they went down. *)
(***************************************************************************)
EXTENDS Shortcuts, TLAPS

\* Only keys that some section binds are consumed, and no release is awaited twice.
Consumed ==
  /\ fired \subseteq Typed \ FreeKeys
  /\ owned \in [Typed -> Nat] /\ lost \in [Typed -> Nat]
  /\ \A k \in Typed : owned[k] > 0 => k \notin FreeKeys
  /\ \A p \in pending : p.key \notin FreeKeys
  /\ NothingOwed

\* A client the cursor is not on holds nothing.
Gone == \A c \in Clients : c # mode => down[c] = {}

\* The engine believes nothing held that is not, unless its release was dropped, and
\* what a client holds down the path in use has seen go down.
Believed ==
  /\ seen \subseteq held /\ held \subseteq Keys
  /\ ~ handsOver => seen = held
  /\ mods \subseteq HeldMods \cup Missed
  /\ down \in [Clients -> SUBSET Keys]
  /\ \A c \in Clients : down[c] \cap FreeKeys \subseteq seen
  /\ Gone

\* The section in use is one of those the file may hold, sanitized.
Placed == cfg \in {Sanitized(c) : c \in Configs} /\ handsOver \in BOOLEAN

Inv == Consumed /\ Believed /\ Placed

-----------------------------------------------------------------------------
\* A key some binding in use starts with is bound by a section (sanitized only drops).
LEMMA StartsIsBound ==
  ASSUME Placed, NEW k, Starts(k)
  PROVE  k \notin FreeKeys
<1>1. PICK c \in Configs : cfg = Sanitized(c)
  BY DEF Placed
<1>2. PICK i \in DOMAIN cfg.bindings : cfg.bindings[i].key = k
  BY DEF Starts
<1>3. i \in DOMAIN c.bindings /\ c.bindings[i].key = k
  BY <1>1, <1>2 DEF Sanitized
<1> QED
  BY <1>3 DEF FreeKeys

LEMMA MatchingStarts ==
  ASSUME NEW chord, NEW k, Matching(chord, k) # {}
  PROVE  Starts(k)
BY DEF Matching, Starts

\* Whatever a user action does with the cursor, clients only let go of keys (leave).
LEMMA ExecuteReleases ==
  ASSUME NEW does, Execute(does), down \in [Clients -> SUBSET Keys], Gone
  PROVE  /\ down' \in [Clients -> SUBSET Keys] /\ Gone'
         /\ \A c \in Clients : down'[c] \subseteq down[c]
<1>1. CASE UNCHANGED <<mode, down>>
  BY <1>1 DEF Gone
<1>2. CASE \E s : MoveTo(s)
  BY <1>2, ScreensAssumption DEF MoveTo, Gone
<1> QED
  BY <1>1, <1>2 DEF Execute, Stay

LEMMA ForwardTracks ==
  ASSUME NEW k \in Keys, NEW kind, Forward(kind, k), UNCHANGED mode,
         down \in [Clients -> SUBSET Keys], Gone
  PROVE  /\ down' \in [Clients -> SUBSET Keys] /\ Gone'
         /\ \A c \in Clients : down'[c] \subseteq down[c] \cup {k}
BY ScreensAssumption DEF Forward, Gone

LEMMA ReleaseTracks ==
  ASSUME NEW k \in Keys, Forward("up", k), UNCHANGED mode,
         down \in [Clients -> SUBSET Keys], Gone
  PROVE  /\ down' \in [Clients -> SUBSET Keys] /\ Gone'
         /\ \A c \in Clients : down'[c] \subseteq down[c] \ {k}
BY ScreensAssumption DEF Forward, Gone

\* The path in use has seen what the one before had, except at a hand-over: it has
\* seen nothing then, and the clients hold nothing (leave).
LEMMA HandOver ==
  ASSUME Gone, Gone', NEW s, Sees(s), \A c \in Clients : down'[c] \subseteq down[c]
  PROVE  seen' = s \/ (handsOver /\ seen' = {} /\ \A c \in Clients : down'[c] = {})
BY ScreensAssumption DEF Sees, Gone

LEMMA SamePath ==
  ASSUME NEW s, Sees(s), UNCHANGED mode
  PROVE  seen' = s
BY DEF Sees

LEMMA InitInv == Init => Inv
<1> SUFFICES ASSUME Init PROVE Inv
  OBVIOUS
<1> QED
  BY CapturesAssumption DEF Init, Inv, Consumed, NothingOwed, One, Dropped, Believed, Missed,
     Gone, Placed, Keys
-----------------------------------------------------------------------------
\* A press: modifiers are believed held because they are, and what is consumed
\* is a key of a chord.
LEMMA PressInv ==
  ASSUME Inv, NEW k \in Keys, Press(k)
  PROVE  Inv'
<1> USE DEF Inv
<1>1. /\ Sees(seen \cup {k}) /\ held' = held \cup {k} /\ k \notin held
      /\ held' \subseteq Keys /\ UNCHANGED history
  BY DEF Press, Believed
<1>2. Placed'
  BY <1>1 DEF Press, Placed, history
<1>3. /\ HeldMods \subseteq HeldMods' /\ Missed' = Missed
      /\ Modifier(k) => ModOf[k] \in HeldMods'
  BY <1>1 DEF HeldMods, Modifier, Missed, history
<1>4. FreeKeys' = FreeKeys
  BY DEF FreeKeys
<1>5. ASSUME UNCHANGED mode, Forward("down", k)
      PROVE  /\ down' \in [Clients -> SUBSET Keys] /\ Gone'
             /\ seen' = seen \cup {k}
             /\ \A c \in Clients : down'[c] \cap FreeKeys \subseteq seen'
  <2>1. seen' = seen \cup {k}
    BY <1>1, <1>5, SamePath
  <2>2. /\ down' \in [Clients -> SUBSET Keys] /\ Gone'
        /\ \A c \in Clients : down'[c] \subseteq down[c] \cup {k}
    BY <1>5, ForwardTracks DEF Believed
  <2> QED
    BY <2>1, <2>2 DEF Believed
<1>6. CASE PressInert(k) \/ PressModifier(k)
  <2>1. UNCHANGED mode /\ Forward("down", k) /\ UNCHANGED <<fired, owned>>
    BY <1>6 DEF PressInert, PressModifier, PassesOn
  <2>2. mods' \subseteq HeldMods' \cup Missed'
    BY <1>3, <1>6 DEF PressInert, PressModifier, Believed
  <2>3. \A p \in pending' : p.key \notin FreeKeys
    <3>1. CASE pending' = pending
      BY <3>1 DEF Consumed
    <3>2. CASE pending' = {[key |-> p.key, mods |-> mods'] : p \in pending}
      BY <3>2 DEF Consumed
    <3> QED
      BY <1>6, <3>1, <3>2 DEF PressInert, PressModifier
  <2>4. NothingOwed'
    BY <1>1, <2>1 DEF Consumed, NothingOwed, One, Dropped, history
  <2>5. Consumed'
    BY <1>1, <1>4, <2>1, <2>3, <2>4 DEF Consumed, history
  <2> QED
    BY <1>1, <1>2, <1>4, <1>5, <2>1, <2>2, <2>5 DEF Believed, history
<1>7. CASE PressChord(k)
  <2>1. k \in Typed /\ k \notin FreeKeys
    BY <1>7, MatchingStarts, StartsIsBound DEF PressChord, Modifier, Keys
  <2>2. fired' = {k} /\ pending' = {} /\ UNCHANGED <<mods, owned>>
    BY <1>7 DEF PressChord
  <2>3. NothingOwed'
    <3>1. owned[k] <= Dropped(k)
      BY <1>1, <2>1 DEF Consumed, NothingOwed, One, Dropped
    <3> QED
      BY <1>1, <2>1, <2>2, <3>1 DEF Consumed, NothingOwed, One, Dropped, history
  <2>4. Consumed'
    BY <1>1, <1>4, <2>1, <2>2, <2>3 DEF Consumed, history
  <2>5. /\ down' \in [Clients -> SUBSET Keys] /\ Gone'
        /\ seen' \subseteq seen \cup {k} /\ (~ handsOver => seen' = seen \cup {k})
        /\ \A c \in Clients : down'[c] \cap FreeKeys \subseteq seen'
    <3>1. CASE PassesOn(k)
      BY <1>5, <3>1 DEF PassesOn
    <3>2. CASE \E does \in Fire(First(Matching(mods, k))) : Execute(does)
      <4>1. /\ down' \in [Clients -> SUBSET Keys] /\ Gone'
            /\ \A c \in Clients : down'[c] \subseteq down[c]
        BY <3>2, ExecuteReleases DEF Believed
      <4>2. \/ seen' = seen \cup {k}
            \/ handsOver /\ seen' = {} /\ \A c \in Clients : down'[c] = {}
        BY <1>1, <4>1, HandOver DEF Believed
      <4> QED
        BY <4>1, <4>2 DEF Believed
    <3> QED
      BY <1>7, <3>1, <3>2 DEF PressChord
  <2> QED
    BY <1>1, <1>2, <1>3, <1>4, <2>2, <2>4, <2>5 DEF Believed, history
<1>8. CASE PressOther(k)
  <2>1. k \in Typed /\ (Starts(k) => k \notin FreeKeys)
    BY <1>8, StartsIsBound DEF PressOther, Modifier, Keys
  <2>2. UNCHANGED mode /\ Forward("down", k) /\ UNCHANGED <<mods, fired>>
    BY <1>8 DEF PressOther, PassesOn
  <2>3. owned' \in [Typed -> Nat] /\ \A j \in Typed : owned'[j] > 0 => j \notin FreeKeys
    BY <1>8, <2>1 DEF PressOther, Consumed
  <2>4. NothingOwed'
    <3>1. \A j \in Typed : owned'[j] <= owned[j] + One(j = k)
      BY <1>8, <2>1 DEF PressOther, Consumed, One
    <3>2. \A j \in Typed : One(j \in held') = One(j \in held) + One(j = k)
      BY <1>1 DEF One
    <3>3. \A j \in Typed : /\ One(j \in held) \in Nat /\ One(j = k) \in Nat
                           /\ One(j \in fired) \in Nat /\ Dropped(j) \in Nat
                           /\ owned[j] \in Nat /\ owned'[j] \in Nat
                           /\ One(j \in fired)' = One(j \in fired)
                           /\ Dropped(j)' = Dropped(j)
      BY <1>1, <2>2, <2>3 DEF One, Dropped, Consumed, history
    <3>4. \A j \in Typed : owned'[j] + One(j \in fired) <= One(j \in held') + Dropped(j)
      BY <3>1, <3>2, <3>3 DEF Consumed, NothingOwed
    <3> QED
      BY <2>2, <3>3, <3>4 DEF NothingOwed, One
  <2>5. Consumed'
    BY <1>1, <1>4, <1>8, <2>1, <2>2, <2>3, <2>4 DEF PressOther, Consumed, history
  <2> QED
    BY <1>1, <1>2, <1>3, <1>4, <1>5, <2>2, <2>5 DEF Believed, history
<1> QED
  BY <1>6, <1>7, <1>8 DEF Press

\* A release that is reported: key_up looks at it whether the engine is on or not,
\* takes it from the clients only if it awaits one, and forgets it.
LEMMA ReleaseInv ==
  ASSUME Inv, NEW k \in Keys, LetGo(k)
  PROVE  Inv'
<1> USE DEF Inv
<1>1. /\ held' = held \ {k} /\ k \in held /\ seen' = seen \ {k}
      /\ KeyUp(k) /\ UNCHANGED <<cfg, pending, mode, handsOver, lost>>
      /\ stuck' = IF Modifier(k) THEN stuck \ {ModOf[k]} ELSE stuck
  BY DEF LetGo, Released
<1>2. Placed' /\ FreeKeys' = FreeKeys
  BY <1>1 DEF Placed, FreeKeys
<1>3. CASE Modifier(k)
  <2>1. mods' = mods \ {ModOf[k]} /\ Forward("up", k) /\ UNCHANGED <<fired, owned>>
    BY <1>1, <1>3 DEF KeyUp
  <2>2. mods' \subseteq HeldMods' \cup Missed'
    BY <1>1, <1>3, <2>1 DEF Believed, HeldMods, Missed
  <2>3. k \notin Typed
    BY <1>3, KeysAssumption DEF Modifier, Typed
  <2>4. NothingOwed'
    BY <1>1, <2>1, <2>3 DEF Consumed, NothingOwed, One, Dropped
  <2> QED
    BY <1>1, <1>2, <2>1, <2>2, <2>4, ReleaseTracks DEF Believed, Consumed
<1>4. CASE ~ Modifier(k)
  <2>1. k \in Typed /\ UNCHANGED mods /\ HeldMods' = HeldMods /\ Missed' = Missed
    BY <1>1, <1>4 DEF KeyUp, Keys, Modifier, HeldMods, Missed
  <2>2. CASE k \in fired
    <3>1. fired' = {} /\ UNCHANGED <<owned, down>>
      BY <1>1, <1>4, <2>2 DEF KeyUp
    <3>2. NothingOwed'
      BY <1>1, <2>1, <2>2, <3>1 DEF Consumed, NothingOwed, One, Dropped
    <3> QED
      BY <1>1, <1>2, <2>1, <2>2, <3>1, <3>2 DEF Believed, Consumed, Gone
  <2>3. CASE k \notin fired /\ owned[k] > 0
    <3>1. owned' = [owned EXCEPT ![k] = @ - 1] /\ UNCHANGED <<fired, down>>
      BY <1>1, <1>4, <2>3 DEF KeyUp
    <3>2. NothingOwed'
      BY <1>1, <2>1, <2>3, <3>1 DEF Consumed, NothingOwed, One, Dropped
    <3> QED
      BY <1>1, <1>2, <2>1, <2>3, <3>1, <3>2 DEF Believed, Consumed, Gone
  <2>4. CASE k \notin fired /\ ~ owned[k] > 0
    <3>1. UNCHANGED <<fired, owned>> /\ (UNCHANGED down \/ Forward("up", k))
      BY <1>1, <1>4, <2>4 DEF KeyUp
    <3>2. k \in FreeKeys => Forward("up", k)
      BY <1>1, <1>4, <2>4 DEF KeyUp, Consumed
    <3>3. NothingOwed'
      BY <1>1, <2>1, <2>4, <3>1 DEF Consumed, NothingOwed, One, Dropped
    <3> QED
      BY <1>1, <1>2, <2>1, <2>4, <3>1, <3>2, <3>3, ReleaseTracks DEF Believed, Consumed, Gone
  <2> QED
    BY <2>2, <2>3, <2>4
<1> QED
  BY <1>3, <1>4

\* A release that is dropped is one of a hand-over, and it is counted.
LEMMA DropInv ==
  ASSUME Inv, NEW k \in Keys, Drop(k)
  PROVE  Inv'
<1> USE DEF Inv
<1>1. /\ held' = held \ {k} /\ k \in held /\ seen' = seen /\ handsOver
      /\ UNCHANGED <<engine, mode, down, handsOver>>
  BY DEF Drop, Released, Believed
<1>2. Placed' /\ FreeKeys' = FreeKeys
  BY <1>1 DEF Placed, FreeKeys, engine
<1>3. mods' \subseteq HeldMods' \cup Missed'
  BY <1>1, KeysAssumption DEF Drop, Modifier, Believed, HeldMods, Missed, engine
<1>4. lost' \in [Typed -> Nat] /\ NothingOwed'
  <2>1. CASE Modifier(k)
    <3>1. k \notin Typed /\ UNCHANGED lost
      BY <2>1, KeysAssumption DEF Drop, Modifier, Typed
    <3> QED
      BY <1>1, <3>1 DEF Consumed, NothingOwed, One, Dropped, engine
  <2>2. CASE ~ Modifier(k)
    <3>1. k \in Typed /\ lost' = [lost EXCEPT ![k] = @ + 1]
      BY <2>2 DEF Drop, Modifier, Keys
    <3> QED
      BY <1>1, <3>1 DEF Consumed, NothingOwed, One, Dropped, engine
  <2> QED
    BY <2>1, <2>2
<1>5. Consumed'
  BY <1>1, <1>2, <1>4 DEF Consumed, engine
<1> QED
  BY <1>1, <1>2, <1>3, <1>5, ReleaseTracks DEF Believed, Gone, Drop, Released

\* Everything else leaves the keyboard alone, and clients only let go of keys.
LEMMA OthersInv ==
  ASSUME Inv,
         \/ \E c \in Configs : Reload(c)
         \/ \E s \in Clients \cup {Home} : Cross(s)
         \/ \E c \in Clients : Connect(c) \/ Disconnect(c)
         \/ Expire
         \/ UNCHANGED vars
  PROVE  Inv'
<1> USE DEF Inv
<1>1. /\ UNCHANGED <<held, mods, fired, owned, history>>
      /\ FreeKeys' = FreeKeys /\ HeldMods' = HeldMods /\ Missed' = Missed
  BY DEF Reload, Adopt, Cross, Connect, Disconnect, Expire, engine, history, vars, FreeKeys,
         HeldMods, Missed
<1>2. pending' \subseteq pending /\ Placed'
  BY DEF Reload, Adopt, Cross, Connect, Disconnect, Expire, engine, history, vars, Placed
<1>3. /\ down' \in [Clients -> SUBSET Keys] /\ Gone'
      /\ \A c \in Clients : down'[c] \subseteq down[c]
  <2>1. CASE \E s \in Clients \cup {Home} : Cross(s)
    <3>1. PICK s \in Clients \cup {Home} : MoveTo(s)
      BY <2>1 DEF Cross
    <3> QED
      BY <3>1, ScreensAssumption DEF MoveTo, Believed, Gone
  <2>2. CASE \E c \in Clients : Disconnect(c)
    <3>1. PICK c \in Clients : Disconnect(c)
      BY <2>2
    <3> QED
      BY <3>1, ScreensAssumption DEF Disconnect, Believed, Gone
  <2>3. CASE UNCHANGED <<mode, down>>
    BY <2>3 DEF Believed, Gone
  <2> QED
    BY <2>1, <2>2, <2>3 DEF Reload, Connect, Expire, vars
<1>4. Sees(seen) \/ seen' = seen
  BY DEF Reload, Cross, Connect, Disconnect, Expire, vars
<1>5. seen' = seen \/ (handsOver /\ seen' = {} /\ \A c \in Clients : down'[c] = {})
  BY <1>3, <1>4, HandOver DEF Believed
<1>6. NothingOwed'
  BY <1>1 DEF Consumed, NothingOwed, One, Dropped, history
<1>7. Consumed'
  BY <1>1, <1>2, <1>6 DEF Consumed, history
<1>8. Believed'
  BY <1>1, <1>3, <1>5 DEF Believed, history
<1> QED
  BY <1>2, <1>7, <1>8

LEMMA NextInv == Inv /\ [Next]_vars => Inv'
BY PressInv, ReleaseInv, DropInv, OthersInv DEF Next

LEMMA SpecInv == Spec => []Inv
<1>1. Inv /\ [Next]_vars => Inv'
  BY NextInv
<1> QED
  BY <1>1, InitInv, PTL DEF Spec

-----------------------------------------------------------------------------
\* The engine awaits one release of a key that is down, and those a hand-over
\* dropped (key_up, owned, fired, PressState).
THEOREM NothingOwedTheorem == Spec => []NothingOwed
<1>1. Inv => NothingOwed
  BY DEF Inv, Consumed
<1> QED
  BY <1>1, SpecInv, PTL

\* With one capture path it awaits none once no key is down ("must always own its
\* release", actions.rs:271-272).
THEOREM AtRestTheorem == ASSUME Captures = {FALSE} PROVE Spec => []NothingOwedAtRest
<1>1. Init => ~ handsOver
  BY DEF Init
<1>2. [Next]_vars => UNCHANGED handsOver
  BY DEF Next, Press, LetGo, Drop, Reload, Cross, Connect, Disconnect, Expire, vars, history
<1>3. ~ handsOver /\ UNCHANGED handsOver => ~ handsOver'
  OBVIOUS
<1>4. Inv /\ ~ handsOver => NothingOwedAtRest
  BY DEF Inv, Consumed, NothingOwed, NothingOwedAtRest, One, Dropped
<1> QED
  BY <1>1, <1>2, <1>3, <1>4, SpecInv, PTL DEF Spec

\* Keys that no section binds, the modifiers among them, come up at every client.
THEOREM FreeKeysTheorem == Spec => []FreeKeysAreReleased
<1>1. Inv => FreeKeysAreReleased
  BY DEF Inv, Believed, FreeKeysAreReleased
<1> QED
  BY <1>1, SpecInv, PTL

\* No chord without its modifiers, and none on a bare key that applications use.
THEOREM ChordTheorem == Spec => ChordIsTyped
<1> DEFINE Believes == HeldMods \cup Missed
<1>1. ASSUME Inv, NEW k \in Typed
      PROVE  TypedWith(Believes, k)
  <2>1. PICK c \in Configs : cfg = Sanitized(c)
    BY <1>1 DEF Inv, Placed
  <2>2. ASSUME NEW i \in Matching(mods, k)
        PROVE  /\ cfg.bindings[i].mods = mods /\ mods \subseteq Believes
               /\ k \in Plain => mods # {}
    <3>1. cfg.bindings[i].mods = mods /\ cfg.bindings[i].key = k /\ i \in DOMAIN cfg.bindings
      BY <2>2 DEF Matching
    <3>2. Bindable(cfg.bindings[i])
      BY <2>1, <3>1 DEF Sanitized
    <3> QED
      BY <1>1, <3>1, <3>2, KeysAssumption DEF Inv, Believed, Bindable
  <2> QED
    BY <2>2 DEF TypedWith
<1>2. Inv => [\A k \in Typed : Press(k) /\ cfg.enabled => TypedWith(Believes, k)]_vars
  BY <1>1
<1> QED
  BY <1>2, SpecInv, PTL DEF ChordIsTyped
=============================================================================
