---------------------------- MODULE SessionIntent ----------------------------
(***************************************************************************)
(* Session on a fixed desktop, with a history of what the user and the     *)
(* beacons did since the cursor arrived on its screen.  The history is     *)
(* kept from the inputs alone, so it can judge the session's own latches:  *)
(* does a crossing only ever follow the user's intent, and does the intent *)
(* always lead to a crossing.                                              *)
(***************************************************************************)
EXTENDS Session

VARIABLE seen    \* what happened on this screen since the cursor arrived

ivars == <<vars, seen>>

NEVER == -1

\* walls:  walls of the last beacon that no motion has since moved away from,
\*         but for motions to a client that were not forwarded
\* beacon: ticks since the last beacon
\* push:   ticks since the last push through each edge, if no motion has
\*         since moved away from it
\* tried:  ticks since the first push through each edge; a beacon from inside
\*         the screen starts it over
NothingSeen == [walls  |-> {},
                beacon |-> BEACON_FRESH,
                push   |-> [d \in Directions |-> PUSH_FRESH],
                tried  |-> [d \in Directions |-> NEVER]]

\* A push into a screen that may not be entered: the client never saw the motion,
\* so its cursor is where the last beacon had it.
Swallowed == mode # HOME /\ out' = <<>>

SeenMotion(pushed, pulled) ==
  [walls  |-> IF Swallowed THEN seen.walls ELSE seen.walls \ pulled,
   beacon |-> seen.beacon,
   push   |-> [d \in Directions |-> IF d \in pushed THEN 0
                                    ELSE IF d \in pulled THEN PUSH_FRESH ELSE seen.push[d]],
   tried  |-> [d \in Directions |-> IF d \in pushed THEN AtLeast(0, seen.tried[d])
                                    ELSE seen.tried[d]]]

SeenBeacon(bits) ==
  [seen EXCEPT !.walls = bits, !.beacon = 0,
               !.tried = IF bits = {} THEN NothingSeen.tried ELSE @]

SeenTick ==
  [walls  |-> seen.walls,
   beacon |-> AtMost(BEACON_FRESH, seen.beacon + 1),
   push   |-> [d \in Directions |-> AtMost(PUSH_FRESH, seen.push[d] + 1)],
   tried  |-> [d \in Directions |-> IF seen.tried[d] = NEVER THEN NEVER
                                    ELSE AtMost(PUSH_FALLBACK, seen.tried[d] + 1)]]

\* The history starts afresh on every screen.
Remember(history) == seen' = IF mode' = mode THEN history ELSE NothingSeen

ScaledMotion(d) == [dx |-> Whole(d.dx * gain + gain_rem.x),
                    dy |-> Whole(d.dy * gain + gain_rem.y)]
Travel(d) == IF mode = HOME THEN d ELSE ScaledMotion(d)

\* The walls a beacon reports, on the screen the cursor is on.
Reported(p) ==
  UNION {WallBits(s.rect, Clamp(p.x, 0, s.rect.w - 1), Clamp(p.y, 0, s.rect.h - 1)) :
         s \in Find(screens, mode)}

IntentInit == Init /\ seen = NothingSeen

IntentNext ==
  \/ \E d \in Deltas :
       LET t == Travel(d)
       IN Motion(d) /\ Remember(SeenMotion(PushedEdges(t.dx, t.dy), PulledEdges(t.dx, t.dy)))
  \/ \E p \in Spots : Beacon(p) /\ Remember(SeenBeacon(Reported(p)))
  \/ Tick /\ Remember(SeenTick)
  \/ Escape /\ seen' = NothingSeen
  \/ /\ \/ ToggleLock
        \/ \E name \in Clients : AdmitKnown(name)
        \/ \E id \in admitted : ClientConnected(id) \/ ClientDisconnected(id)
        \/ \E g \in Gains : SetGain(g)
     /\ Remember(seen)

IntentSpec == IntentInit /\ [][IntentNext]_ivars

-----------------------------------------------------------------------------
\* The screen now entered lies beyond edge d of the screen left.
EnteredThrough(d) ==
  \E s \in Find(screens, mode), t \in Find(screens, mode') : Gap(s, t, d) >= -EDGE_TOLERANCE

\* The last beacon had the real cursor on wall d, with no motion away from it
\* that the cursor followed, and on a client it is not older than
\* REMOTE_BEACON_FRESH.
Confirmed(d) == d \in seen.walls /\ (mode = HOME \/ seen.beacon < BEACON_FRESH)

CursorOnScreen == \E s \in Find(screens, mode) : Contains(s.rect, cursor.x, cursor.y)

\* From a cursor inside its screen, a motion crosses an edge only when it pushes
\* through that edge, and either a beacon confirmed the wall or the fallback
\* delay has passed since the edge was first tried (handle_local_motion,
\* handle_remote_motion).
MotionCrossesOnIntent ==
  [][\A m \in Deltas : mode' # mode /\ CursorOnScreen /\ Motion(m) =>
       \E d \in PushedEdges(Travel(m).dx, Travel(m).dy) :
         /\ EnteredThrough(d)
         /\ Confirmed(d) \/ seen.tried[d] = PUSH_FALLBACK]_ivars

\* "How long outward deltas must keep pushing against a screen edge [...] before
\* the switch fires anyway" (boundary.rs, EDGE_PUSH_FALLBACK): wherever the
\* virtual cursor is, only a motion towards an edge crosses that edge.
CrossesOnlyOutward ==
  [][\A m \in Deltas : mode' # mode /\ Motion(m) =>
       \E d \in PushedEdges(Travel(m).dx, Travel(m).dy) : EnteredThrough(d)]_ivars

\* "A delta moving away from a wall disarms it [...] and the next push must re-arm
\* from a beacon" (motion.rs:249-252, mirrored on a client): a motion that crosses
\* nothing leaves no wall armed that it moves away from.
MovingAwayDisarms ==
  [][\A m \in Deltas : mode' = mode /\ Motion(m) =>
       (at_wall' \cup remote_at_wall') \cap PulledEdges(Travel(m).dx, Travel(m).dy) = {}]_ivars

\* A beacon crosses an edge only when it reports that wall and the user pushed
\* through the edge within EDGE_PUSH_FRESH: resting at the edge never crosses.
BeaconCrossesOnIntent ==
  [][\A p \in Spots : mode' # mode /\ Beacon(p) =>
       \E d \in Reported(p) : EnteredThrough(d) /\ seen.push[d] < PUSH_FRESH]_ivars

\* The other way round: a beacon that parks the real cursor on a wall the user
\* is pushing against completes the crossing (on_local_beacon,
\* on_remote_beacon), when a reachable screen lies beyond.  One latch records
\* the last push, so this is promised for a push through one edge only.
ParkCompletes ==
  [][\A p \in Spots : Beacon(p) =>
       ~\E d \in Reported(p) \ seen.walls :
          /\ {e \in Directions : seen.push[e] < PUSH_FRESH} = {d}
          /\ mode' = mode
          /\ Crossing(mode, d, cursor') # {}]_ivars
=============================================================================
