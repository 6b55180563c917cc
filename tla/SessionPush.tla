----------------------------- MODULE SessionPush -----------------------------
(***************************************************************************)
(* Session on a fixed desktop, with a history of how long the user has     *)
(* been pressing one edge: the stalled-stream fallback must rescue a user  *)
(* whose beacons stopped, however slowly the hand moves.                   *)
(***************************************************************************)
EXTENDS Session

VARIABLE hold    \* {} or {[dir, age, moved]}: the edge pressed, for how long, and
                 \* whether the hand has moved since the last tick

pvars == <<vars, hold>>

HOLD_LIMIT == 2 * PUSH_FALLBACK

Presses(m, d) == PushedEdges(m.dx, m.dy) = {d}

\* The virtual cursor is on the last pixel before edge d, or past it.
AtEdge(d) ==
  \E s \in Find(screens, mode) :
    CASE d = "Left"   -> cursor.x <= s.rect.x
      [] d = "Right"  -> cursor.x >= s.rect.x + s.rect.w - 1
      [] d = "Top"    -> cursor.y <= s.rect.y
      [] d = "Bottom" -> cursor.y >= s.rect.y + s.rect.h - 1

\* The raw motion m starts or keeps up a press on an edge that leads somewhere.
Held(m) ==
  LET kept == {h \in hold : Presses(m, h.dir) /\ Crossing(mode, h.dir, cursor) # {}}
  IN IF kept # {} THEN {[h EXCEPT !.moved = TRUE] : h \in kept}
     ELSE {[dir |-> d, age |-> 0, moved |-> TRUE] :
           d \in {e \in Directions : /\ Presses(m, e) /\ AtEdge(e)
                                     /\ Crossing(mode, e, cursor) # {}}}

\* A tick without a motion means the hand stopped.
HeldTick ==
  {[h EXCEPT !.age = AtMost(HOLD_LIMIT, h.age + 1), !.moved = FALSE] :
   h \in {g \in hold : g.moved}}

PushInit == Init /\ hold = {}

PushNext ==
  \/ \E m \in Deltas : Motion(m) /\ hold' = IF mode' = mode THEN Held(m) ELSE {}
  \/ Tick /\ hold' = HeldTick
  \/ (\E g \in Gains : SetGain(g)) /\ UNCHANGED hold
  \/ /\ \/ \E p \in Spots : Beacon(p)
        \/ ToggleLock \/ SwitchNext
        \/ \E name \in Clients : AdmitKnown(name)
        \/ \E id \in admitted : ClientConnected(id) \/ ClientDisconnected(id)
     /\ hold' = {}

PushSpec == PushInit /\ [][PushNext]_pvars

\* "This is the rescue path for a stalled beacon stream (the OS pinned the
\* pointer at the edge, motion events - and with them beacons - stop, and only
\* raw deltas keep flowing)" (boundary.rs, EDGE_PUSH_FALLBACK): a user whose
\* motion has pressed an edge in every tick of twice the fallback delay, with no
\* beacon, crosses it on the next push, whatever pointer gain scales the motion.
SustainedPushCrosses ==
  [][mode' = mode => \A m \in Deltas :
       ~ /\ \E h \in hold : /\ Presses(m, h.dir)
                            /\ h.age = HOLD_LIMIT
                            /\ Crossing(mode, h.dir, cursor) # {}
         /\ Motion(m)]_pvars
=============================================================================
