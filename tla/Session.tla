------------------------------- MODULE Session -------------------------------
(***************************************************************************)
(* The switching brain of the server (crates/core/src/session): where the  *)
(* one virtual cursor is, which pushes and position beacons move it to     *)
(* another screen, and how connections and layout changes constrain it.    *)
(*                                                                         *)
(* One action per public method of Session; every method runs under the    *)
(* session mutex, so its whole body is one step.  `out` is the list of     *)
(* actions that call returned, for the server to carry out.                *)
(*                                                                         *)
(* Time: the code stores Instants and compares ages with thresholds.  Here *)
(* a latch carries its age in ticks, counted up to its threshold.          *)
(* A latch that is None is the empty set, Some(v) is {v}.                  *)
(* The key engine in front of forwarding and the wheel preferences are not *)
(* part of this module: a chord is the user action it triggers.            *)
(***************************************************************************)
EXTENDS Layout

CONSTANTS
  EDGE_BAND,       \* width of the wall band, in pixels
  ENTRY_INSET,     \* how far past the seam a crossing lands
  PUSH_FRESH,      \* ticks an outward push counts as recent (40 ms)
  BEACON_FRESH,    \* ticks a client's beacon counts as recent (120 ms)
  PUSH_FALLBACK,   \* ticks of pushing before a stalled stream crosses (150 ms)
  GAIN_DEN,        \* pointer gains are multiples of 1 / GAIN_DEN
  Gains,           \* the numerators the gain may take
  Configs,         \* the configured desktops a (re)load may bring
  Clients,         \* names clients introduce themselves with
  Sizes,           \* screen sizes [w, h] clients report
  Deltas,          \* motion events [dx, dy] of the physical mouse
  HomeSpots,       \* positions [x, y] the server's own capture may report
  FarSpots,        \* positions a client may report, in its local pixels
  MAX_ID,          \* the largest screen id (255)
  MAX_REACH        \* bound on the virtual coordinates explored

ASSUME TickAssumption ==
  PUSH_FRESH \in Nat /\ BEACON_FRESH \in Nat /\ PUSH_FALLBACK \in Nat
ASSUME InsetAssumption == ENTRY_INSET \in Nat
ASSUME InputAssumption ==
  /\ Deltas \subseteq [dx : Int, dy : Int] /\ HomeSpots \cup FarSpots \subseteq [x : Int, y : Int]
  /\ Sizes \subseteq [w : Int, h : Int]
  /\ Gains \subseteq Int /\ GAIN_DEN \in Nat \ {0}
ASSUME IdAssumption == MAX_ID \in Nat
\* Config::validate: a configuration names at least the server's own screen,
\* and no screen is empty.
ASSUME ConfigAssumption ==
  \A config \in Configs :
    /\ config \in Seq([name : STRING, rect : Rects]) /\ config # <<>>
    /\ \A k \in DOMAIN config : config[k].rect.w > 0 /\ config[k].rect.h > 0

VARIABLES
  screens,          \* the running layout
  local,            \* the server's own rectangle, as last adopted
  mode,             \* HOME, or the id of the client screen the cursor is on
  cursor,           \* the virtual cursor [x, y]
  at_wall,          \* walls the real cursor sits on at home
  last_out,         \* the last outward push at home
  pushing,          \* a stalled-stream fallback in progress at home
  remote_at_wall,   \* the same for the client screen the cursor is on
  remote_beacon_at, \* age of the last beacon of that client
  remote_last_out,
  remote_pushing,
  gain,             \* pointer gain times GAIN_DEN, applied to remote motion
  gain_rem,         \* the fractional carry of the scaled motion
  dynamic,          \* screens admitted at run time
  connected,        \* ids whose client is connected
  walls_locked,     \* the user's wall lock
  admitted,         \* environment: ids given to clients so far
  out               \* the actions the last call returned

near_latches == <<at_wall, last_out, pushing>>
far_latches == <<remote_at_wall, remote_beacon_at, remote_last_out, remote_pushing>>
motion_scale == <<gain, gain_rem>>
desktop == <<screens, local, dynamic>>
peers == <<connected, admitted>>
vars == <<desktop, mode, cursor, near_latches, far_latches, motion_scale, peers,
          walls_locked, out>>

-----------------------------------------------------------------------------
(* Boundary predicates (boundary.rs) *)

PushedEdges(dx, dy) ==
  {d \in Directions : CASE d = "Left" -> dx < 0 [] d = "Right"  -> dx > 0
                        [] d = "Top"  -> dy < 0 [] d = "Bottom" -> dy > 0}

PulledEdges(dx, dy) == PushedEdges(-dx, -dy)

WallBits(r, x, y) ==
  {d \in Directions :
     CASE d = "Left"   -> r.w > 2 * EDGE_BAND /\ x < EDGE_BAND
       [] d = "Right"  -> r.w > 2 * EDGE_BAND /\ x >= r.w - EDGE_BAND
       [] d = "Top"    -> r.h > 2 * EDGE_BAND /\ y < EDGE_BAND
       [] d = "Bottom" -> r.h > 2 * EDGE_BAND /\ y >= r.h - EDGE_BAND}

\* The handlers try the edges in the order of DIRS.
Rank(d) == CHOOSE k \in 1..4 : DIRS[k] = d
FirstEdge(d, S) == d \in S /\ \A e \in S : Rank(d) <= Rank(e)
EdgesBefore(d) == {e \in Directions : Rank(e) < Rank(d)}

\* Variant: the first push stays.
FirstPushLatch(pushed, old) ==
  IF pushed = {} \/ old # {} THEN old
  ELSE {[dir |-> d, age |-> 0] : d \in {e \in pushed : FirstEdge(e, pushed)}}

\* The loops overwrite the one push latch, so the last edge pushed stays.
PushLatch(pushed, old) ==
  IF pushed = {} THEN old
  ELSE {[dir |-> d, age |-> 0] : d \in {e \in pushed : pushed \subseteq EdgesBefore(e) \cup {e}}}

\* Variants: a push counts whatever its age; every push starts over.
EverPushed(latch, d) == \E p \in latch : p.dir = d
RestartPushing(latch, d) == {[dir |-> d, age |-> 0]}

Fresh(latch, d) == \E p \in latch : p.dir = d /\ p.age < PUSH_FRESH
Sustained(latch, d) == \E p \in latch : p.dir = d /\ p.age >= PUSH_FALLBACK
KeepPushing(latch, d) ==
  IF \E p \in latch : p.dir = d THEN latch ELSE {[dir |-> d, age |-> 0]}

-----------------------------------------------------------------------------
(* Messages and switches *)

SendMotion(dx, dy) == [kind |-> "Send", msg |-> "motion", dx |-> dx, dy |-> dy]
SendInput(msg) == [kind |-> "Send", msg |-> msg]
SwitchTo(id, x, y) ==
  [kind |-> IF id = HOME THEN "SwitchToLocal" ELSE "SwitchTo", to |-> id, x |-> x, y |-> y]

Reachable(id) == id = HOME \/ id \in connected

\* Variant: a client's latches are cleared on the way home, the server's on the way out.
ClearOtherSide ==
  \/ /\ mode' = HOME /\ UNCHANGED near_latches
     /\ remote_at_wall' = {} /\ remote_beacon_at' = {}
     /\ remote_last_out' = {} /\ remote_pushing' = {}
  \/ /\ mode' # HOME /\ UNCHANGED far_latches
     /\ at_wall' = {} /\ last_out' = {} /\ pushing' = {}

ClearBoundaryState ==
  /\ at_wall' = {} /\ last_out' = {} /\ pushing' = {}
  /\ remote_at_wall' = {} /\ remote_beacon_at' = {}
  /\ remote_last_out' = {} /\ remote_pushing' = {}

\* The cursor is placed on screen id, at its local point (x, y).
Enter(id, x, y) ==
  /\ \E s \in Find(screens, id) : cursor' = [x |-> s.rect.x + x, y |-> s.rect.y + y]
  /\ mode' = id
  /\ ClearBoundaryState

InsetEntry(s, d, x, y) ==
  [id |-> s.id,
   x  |-> CASE d = "Left"  -> AtLeast(0, x - ENTRY_INSET)
            [] d = "Right" -> AtMost(s.rect.w - 1, x + ENTRY_INSET)
            [] OTHER       -> x,
   y  |-> CASE d = "Top"    -> AtLeast(0, y - ENTRY_INSET)
            [] d = "Bottom" -> AtMost(s.rect.h - 1, y + ENTRY_INSET)
            [] OTHER        -> y]

\* Variant: a screen is entered whether or not its client is connected.
CrossingAnywhere(from, d, p) ==
  IF walls_locked THEN {}
  ELSE UNION {{InsetEntry(s, d, n.x, n.y) : s \in Find(screens, n.id)} :
              n \in Neighbor(screens, from, d, p.x, p.y)}

\* Where a push through edge d of screen `from` leads with the cursor at p:
\* nowhere while the walls are locked, at a dead edge, or towards a screen
\* whose client is not connected.
Crossing(from, d, p) ==
  IF walls_locked THEN {}
  ELSE UNION {{InsetEntry(s, d, n.x, n.y) : s \in Find(screens, n.id)} :
              n \in {m \in Neighbor(screens, from, d, p.x, p.y) : Reachable(m.id)}}

Cross(n) ==
  /\ Enter(n.id, n.x, n.y)
  /\ out' = <<SwitchTo(n.id, n.x, n.y)>>

Stay == mode' = mode /\ out' = <<>>

-----------------------------------------------------------------------------
(* The cursor is home: raw motion and the capture's own beacons *)

InReach(p) == p.x \in -MAX_REACH..MAX_REACH /\ p.y \in -MAX_REACH..MAX_REACH

\* A push through a wall the real cursor sits on crosses at once.
LocalPush(at, pushed) ==
  LET firing == {d \in pushed \cap at_wall : Crossing(HOME, d, at) # {}}
  IN \E d \in firing :
       FirstEdge(d, firing) /\ \E n \in Crossing(HOME, d, at) : Cross(n)

LocalNoPush(at, pushed) ==
  \A d \in pushed \cap at_wall : Crossing(HOME, d, at) = {}

\* Variant: moving away from a wall does not disarm it.
LocalInsideArmed(at, pushed, pulled) ==
  /\ LocalNoPush(at, pushed)
  /\ ExitDirection(screens, HOME, at.x, at.y) = {}
  /\ cursor' = at
  /\ last_out' = PushLatch(pushed, last_out)
  /\ pushing' = {}
  /\ Stay /\ UNCHANGED <<at_wall, far_latches>>

\* The virtual cursor is still inside: no fallback.
LocalInside(at, pushed, pulled) ==
  /\ LocalNoPush(at, pushed)
  /\ ExitDirection(screens, HOME, at.x, at.y) = {}
  /\ cursor' = at
  /\ at_wall' = at_wall \ (pushed \cup pulled)
  /\ last_out' = PushLatch(pushed, last_out)
  /\ pushing' = {}
  /\ Stay /\ UNCHANGED far_latches

\* It ran past an edge, but not for long enough, or towards a dead edge.
LocalPinned(at, pushed, pulled) ==
  /\ LocalNoPush(at, pushed)
  /\ \E d \in ExitDirection(screens, HOME, at.x, at.y) :
       /\ Sustained(pushing, d) => Crossing(HOME, d, ClampTo(local, at)) = {}
       /\ pushing' = IF Sustained(pushing, d) THEN {} ELSE KeepPushing(pushing, d)
  /\ cursor' = ClampTo(local, at)
  /\ at_wall' = at_wall \ (pushed \cup pulled)
  /\ last_out' = PushLatch(pushed, last_out)
  /\ Stay /\ UNCHANGED far_latches

\* The push outlived the fallback delay: cross without a beacon.
LocalFallback(at, pushed) ==
  /\ LocalNoPush(at, pushed)
  /\ \E d \in ExitDirection(screens, HOME, at.x, at.y) :
       /\ Sustained(pushing, d)
       /\ \E n \in Crossing(HOME, d, ClampTo(local, at)) : Cross(n)

LocalMotion(dx, dy) ==
  LET at == [x |-> cursor.x + dx, y |-> cursor.y + dy]
      pushed == PushedEdges(dx, dy)
      pulled == PulledEdges(dx, dy)
  IN /\ mode = HOME
     /\ InReach(at)
     /\ \/ LocalPush(at, pushed)
        \/ LocalInside(at, pushed, pulled)
        \/ LocalPinned(at, pushed, pulled)
        \/ LocalFallback(at, pushed)
     /\ UNCHANGED <<desktop, motion_scale, peers, walls_locked>>

\* Edges of `bits` a beacon crosses on the park itself: just reached, pushed
\* through a moment ago, and leading somewhere.
ParkEdges(bits, wall, push, from, at) ==
  {d \in bits \ wall : Fresh(push, d) /\ Crossing(from, d, at) # {}}

LocalBeacon(x, y) ==
  LET at == [x |-> local.x + x, y |-> local.y + y]
      bits == WallBits(local, x, y)
      parked == ParkEdges(bits, at_wall, last_out, HOME, at)
  IN /\ mode = HOME
     /\ \/ \E d \in parked :
             FirstEdge(d, parked) /\ \E n \in Crossing(HOME, d, at) : Cross(n)
        \/ /\ parked = {}
           /\ cursor' = at
           /\ at_wall' = bits
           /\ pushing' = IF bits = {} THEN {} ELSE pushing
           /\ Stay /\ UNCHANGED <<last_out, far_latches>>
     /\ UNCHANGED <<desktop, motion_scale, peers, walls_locked>>

-----------------------------------------------------------------------------
(* The cursor is on a client: scaled motion and that client's beacons *)

BeaconIsFresh == \E age \in remote_beacon_at : age < BEACON_FRESH

\* Whole pixels in v / GAIN_DEN, truncated towards zero.
Whole(v) == IF v >= 0 THEN v \div GAIN_DEN ELSE -((-v) \div GAIN_DEN)

\* The first edge pushed whose wall a fresh beacon armed and beyond which
\* there is a screen, reachable or not.
ArmedEdges(at, pushed) ==
  IF BeaconIsFresh
  THEN {d \in pushed \cap remote_at_wall : Neighbor(screens, mode, d, at.x, at.y) # {}}
  ELSE {}

RemotePush(at, armed) ==
  \E d \in armed : /\ FirstEdge(d, armed)
                   /\ \E n \in Crossing(mode, d, at) : Cross(n)

\* The screen beyond the armed wall may not be entered: the handler returns
\* the empty list of cross_from_remote, so the motion is not forwarded, the
\* virtual cursor is not clamped and the wall stays armed.
RemoteRefused(at, armed, pushed, pulled) ==
  /\ \E d \in armed :
       /\ FirstEdge(d, armed)
       /\ Crossing(mode, d, at) = {}
       /\ remote_at_wall' = remote_at_wall \ ((pushed \cup pulled) \cap EdgesBefore(d))
       /\ remote_last_out' = {[dir |-> d, age |-> 0]}
  /\ cursor' = at
  /\ Stay /\ UNCHANGED <<near_latches, remote_beacon_at, remote_pushing>>

\* The latches and the message of a motion that crosses nothing.
RemoteForward(pushed, pulled, dx, dy) ==
  /\ remote_at_wall' = remote_at_wall \ (pulled \cup IF BeaconIsFresh THEN pushed ELSE {})
  /\ remote_last_out' = PushLatch(pushed, remote_last_out)
  /\ mode' = mode
  /\ out' = <<SendMotion(dx, dy)>>
  /\ UNCHANGED <<near_latches, remote_beacon_at>>

RemoteInside(at) ==
  /\ ExitDirection(screens, mode, at.x, at.y) = {}
  /\ cursor' = at
  /\ remote_pushing' = {}

FallbackDue(d) == ~BeaconIsFresh /\ Sustained(remote_pushing, d)

RemotePinned(at) ==
  \E s \in Find(screens, mode), d \in ExitDirection(screens, mode, at.x, at.y) :
    /\ FallbackDue(d) => Crossing(mode, d, ClampTo(s.rect, at)) = {}
    /\ remote_pushing' = IF FallbackDue(d) THEN {} ELSE KeepPushing(remote_pushing, d)
    /\ cursor' = ClampTo(s.rect, at)

RemoteFallback(at) ==
  \E s \in Find(screens, mode), d \in ExitDirection(screens, mode, at.x, at.y) :
    /\ FallbackDue(d)
    /\ \E n \in Crossing(mode, d, ClampTo(s.rect, at)) : Cross(n)

\* The code returns early when the layout no longer has the cursor's screen;
\* RemoteIsReachable says it always has, so that exit is left out.
RemoteMotion(dx, dy) ==
  LET rx == dx * gain + gain_rem.x
      ry == dy * gain + gain_rem.y
      sx == Whole(rx)
      sy == Whole(ry)
      at == [x |-> cursor.x + sx, y |-> cursor.y + sy]
      pushed == PushedEdges(sx, sy)
      pulled == PulledEdges(sx, sy)
      armed == ArmedEdges(at, pushed)
  IN /\ mode # HOME
     /\ InReach(at)
     /\ gain_rem' = [x |-> rx - sx * GAIN_DEN, y |-> ry - sy * GAIN_DEN]
     /\ \/ RemotePush(at, armed)
        \/ RemoteRefused(at, armed, pushed, pulled)
        \/ armed = {} /\ RemoteInside(at) /\ RemoteForward(pushed, pulled, sx, sy)
        \/ armed = {} /\ RemotePinned(at) /\ RemoteForward(pushed, pulled, sx, sy)
        \/ armed = {} /\ RemoteFallback(at)
     /\ UNCHANGED <<desktop, gain, peers, walls_locked>>

\* A beacon of the client the cursor is on; the server drops the others.
RemoteBeacon(x, y) ==
  /\ mode # HOME
  /\ \E s \in Find(screens, mode) :
       LET px == Clamp(x, 0, AtLeast(0, s.rect.w - 1))
           py == Clamp(y, 0, AtLeast(0, s.rect.h - 1))
           at == [x |-> s.rect.x + px, y |-> s.rect.y + py]
           bits == WallBits(s.rect, px, py)
           parked == ParkEdges(bits, remote_at_wall, remote_last_out, mode, at)
       IN \/ \E d \in parked :
               FirstEdge(d, parked) /\ \E n \in Crossing(mode, d, at) : Cross(n)
          \/ /\ parked = {}
             /\ cursor' = at
             /\ remote_beacon_at' = {0}
             /\ remote_at_wall' = bits
             /\ remote_pushing' = IF bits = {} THEN {} ELSE remote_pushing
             /\ Stay /\ UNCHANGED <<near_latches, remote_last_out>>
  /\ UNCHANGED <<desktop, motion_scale, peers, walls_locked>>

\* A motion of the hand and a position beacon, wherever the cursor is.
Motion(d) == LocalMotion(d.dx, d.dy) \/ RemoteMotion(d.dx, d.dy)
Beacon(p) == \/ p \in HomeSpots /\ LocalBeacon(p.x, p.y)
             \/ p \in FarSpots /\ RemoteBeacon(p.x, p.y)
Spots == HomeSpots \cup FarSpots

\* A key, button or wheel event, forwarded only while the cursor is away.
ForwardInput(msg) ==
  /\ out' = IF mode = HOME THEN <<>> ELSE <<SendInput(msg)>>
  /\ UNCHANGED <<desktop, mode, cursor, near_latches, far_latches, motion_scale,
                 peers, walls_locked>>

-----------------------------------------------------------------------------
(* The user's explicit requests *)

\* force_local: home at the centre of the local rectangle.
ForceLocal ==
  LET c == Center(local)
  IN /\ Enter(HOME, c.x, c.y)
     /\ out' = <<SwitchTo(HOME, c.x, c.y)>>

\* jump_to: straight to screen id, at its centre.
JumpTo(id) ==
  \E s \in Find(screens, id) :
    LET c == Center(s.rect)
    IN /\ Enter(id, c.x, c.y)
       /\ out' = <<SwitchTo(id, c.x, c.y)>>

Escape ==
  /\ ForceLocal
  /\ UNCHANGED <<desktop, motion_scale, peers, walls_locked>>

GoHome == mode # HOME /\ Escape

SwitchToScreen(name) ==
  /\ \E k \in DOMAIN screens :
       /\ IsFirst(k, {j \in DOMAIN screens : screens[j].name = name})
       /\ Reachable(screens[k].id)
       /\ JumpTo(screens[k].id)
  /\ UNCHANGED <<desktop, motion_scale, peers, walls_locked>>

\* The next reachable screen in layout order after the current one, wrapping.
SwitchNext ==
  LET n == Len(screens)
      others == {k \in DOMAIN screens : screens[k].id # mode /\ Reachable(screens[k].id)}
  IN /\ \E at \in DOMAIN screens, k \in others :
          /\ IsFirst(at, {j \in DOMAIN screens : screens[j].id = mode})
          /\ \A j \in others : (n + k - at) % n <= (n + j - at) % n
          /\ JumpTo(screens[k].id)
     /\ UNCHANGED <<desktop, motion_scale, peers, walls_locked>>

ToggleLock ==
  /\ walls_locked' = ~walls_locked
  /\ out' = <<>>
  /\ UNCHANGED <<desktop, mode, cursor, near_latches, far_latches, motion_scale, peers>>

-----------------------------------------------------------------------------
(* Layout and connection changes, called by the server's threads *)

SetGain(g) ==
  /\ gain' = g
  /\ out' = <<>>
  /\ UNCHANGED <<desktop, mode, cursor, near_latches, far_latches, gain_rem, peers,
                 walls_locked>>

\* The least id no screen of the layout uses.
FreeId(id) ==
  /\ id \in (1..MAX_ID) \ Ids(screens)
  /\ \A j \in (1..MAX_ID) \ Ids(screens) : id <= j

RightEdges == {screens[k].rect.x + screens[k].rect.w : k \in DOMAIN screens}

\* admit_client for a name some client screen of the layout already has.
AdmitKnown(name) ==
  /\ \E k \in DOMAIN screens :
       /\ IsFirst(k, {j \in DOMAIN screens : screens[j].id # HOME /\ screens[j].name = name})
       /\ admitted' = admitted \cup {screens[k].id}
  /\ out' = <<>>
  /\ UNCHANGED <<desktop, mode, cursor, near_latches, far_latches, motion_scale,
                 connected, walls_locked>>

\* admit_client for a new name: a screen of the reported size, right of the desktop.
AdmitNew(name, size) ==
  /\ \A k \in DOMAIN screens : screens[k].name # name
  /\ \E id \in 1..MAX_ID, x \in RightEdges :
       LET screen == [id |-> id, name |-> name,
                      rect |-> [x |-> x, y |-> local.y, w |-> AtLeast(1, size.w),
                                h |-> AtLeast(1, size.h)]]
       IN /\ FreeId(id)
          /\ \A e \in RightEdges : e <= x
          /\ x + size.w <= MAX_REACH
          /\ dynamic' = Append(dynamic, screen)
          /\ screens' = Normalized(Append(screens, screen))
          /\ admitted' = admitted \cup {id}
  /\ out' = <<>>
  /\ UNCHANGED <<local, mode, cursor, near_latches, far_latches, motion_scale,
                 connected, walls_locked>>

Resized(s, size) ==
  [id |-> s.id, name |-> s.name,
   rect |-> [s.rect EXCEPT !.w = AtLeast(1, size.w), !.h = AtLeast(1, size.h)]]

UpdateScreenInfo(id, size) ==
  /\ screens' = [k \in DOMAIN screens |->
                   IF IsFirst(k, {j \in DOMAIN screens : screens[j].id = id})
                   THEN Resized(screens[k], size) ELSE screens[k]]
  /\ out' = <<>>
  /\ UNCHANGED <<local, dynamic, mode, cursor, near_latches, far_latches, motion_scale,
                 peers, walls_locked>>

ClientConnected(id) ==
  /\ connected' = connected \cup {id}
  /\ out' = <<>>
  /\ UNCHANGED <<desktop, mode, cursor, near_latches, far_latches, motion_scale,
                 admitted, walls_locked>>

\* on_client_disconnected: home first if the cursor was there.
Disconnect(id) ==
  /\ connected' = connected \ {id}
  /\ \/ mode = id /\ ForceLocal
     \/ /\ mode # id
        /\ out' = <<>>
        /\ UNCHANGED <<mode, cursor>>

ClientDisconnected(id) ==
  /\ Disconnect(id)
  /\ mode # id => UNCHANGED <<near_latches, far_latches>>
  /\ UNCHANGED <<desktop, motion_scale, admitted, walls_locked>>

\* Variant: the cursor is not taken home first.
RemoveScreenOnly(id) ==
  /\ connected' = connected \ {id}
  /\ screens' = Normalized(WithoutId(screens, id))
  /\ dynamic' = WithoutId(dynamic, id)
  /\ out' = <<>>
  /\ UNCHANGED <<local, mode, cursor, near_latches, far_latches, motion_scale, admitted,
                 walls_locked>>

\* Variant: the actions of on_client_disconnected are not passed on.
RemoveSilently(id) ==
  /\ connected' = connected \ {id}
  /\ mode' = IF mode = id THEN HOME ELSE mode
  /\ cursor' = IF mode = id THEN Center(local) ELSE cursor
  /\ screens' = Normalized(WithoutId(screens, id))
  /\ dynamic' = WithoutId(dynamic, id)
  /\ out' = <<>>
  /\ ClearBoundaryState
  /\ UNCHANGED <<local, motion_scale, admitted, walls_locked>>

\* on_client_removed: a client dropped by policy loses its screen too.
ClientRemoved(id) ==
  /\ Disconnect(id)
  /\ \/ /\ id \in Ids(screens)
        /\ screens' = Normalized(WithoutId(screens, id))
        /\ dynamic' = WithoutId(dynamic, id)
        /\ ClearBoundaryState
     \/ /\ id \notin Ids(screens)
        /\ UNCHANGED <<screens, dynamic, near_latches, far_latches>>
  /\ UNCHANGED <<local, motion_scale, admitted, walls_locked>>

\* Config::to_layout: ids by position, then normalised.
ToLayout(config) ==
  Normalized([k \in DOMAIN config |->
                [id |-> k - 1, name |-> config[k].name, rect |-> config[k].rect]])

\* swap_layout: the cursor goes home; dynamic screens the config does not
\* name ride along with the id they have.  A layout without a local screen
\* is rejected.
SwapLayout(layout) ==
  LET unpinned == {k \in DOMAIN dynamic :
                     \A j \in DOMAIN layout : layout[j].name # dynamic[k].name}
      kept == Retain(dynamic, unpinned)
  IN /\ \E home \in Find(layout, HOME) :
          /\ local' = home.rect
          /\ cursor' = Center(home.rect)
          /\ out' = IF mode = HOME THEN <<>>
                    ELSE <<SwitchTo(HOME, Center(home.rect).x, Center(home.rect).y)>>
     /\ dynamic' = kept
     /\ screens' = Normalized(layout \o kept)
     /\ mode' = HOME
     /\ ClearBoundaryState
     /\ UNCHANGED <<motion_scale, peers, walls_locked>>

-----------------------------------------------------------------------------
(* Time *)

Older(latch, cap) == {[p EXCEPT !.age = AtMost(cap, p.age + 1)] : p \in latch}

Tick ==
  /\ last_out' = Older(last_out, PUSH_FRESH)
  /\ pushing' = Older(pushing, PUSH_FALLBACK)
  /\ remote_last_out' = Older(remote_last_out, PUSH_FRESH)
  /\ remote_pushing' = Older(remote_pushing, PUSH_FALLBACK)
  /\ remote_beacon_at' = {AtMost(BEACON_FRESH, age + 1) : age \in remote_beacon_at}
  /\ UNCHANGED <<desktop, mode, cursor, at_wall, remote_at_wall, motion_scale, peers,
                 walls_locked, out>>

-----------------------------------------------------------------------------
\* The server's screen is the display its capture reports positions of
\* (correct_local_screen), and it is at the origin of the desktop, which the code
\* assumes (force_local) and does not enforce.
AtOrigin(r) == r.x = 0 /\ r.y = 0
HomeIsDisplay ==
  \A config \in Configs : \A home \in Find(ToLayout(config), HOME) :
    AtOrigin(home.rect) /\ \A p \in HomeSpots : Contains(home.rect, p.x, p.y)

Init ==
  /\ \E config \in Configs :
       /\ screens = ToLayout(config)
       /\ \E home \in Find(screens, HOME) : local = home.rect /\ cursor = Center(home.rect)
  /\ mode = HOME
  /\ at_wall = {} /\ last_out = {} /\ pushing = {}
  /\ remote_at_wall = {} /\ remote_beacon_at = {}
  /\ remote_last_out = {} /\ remote_pushing = {}
  /\ gain = GAIN_DEN
  /\ gain_rem = [x |-> 0, y |-> 0]
  /\ dynamic = <<>>
  /\ connected = {}
  /\ walls_locked = FALSE
  /\ admitted = {}
  /\ out = <<>>

InputEvent ==
  \/ \E d \in Deltas : LocalMotion(d.dx, d.dy) \/ RemoteMotion(d.dx, d.dy)
  \/ \E p \in HomeSpots : LocalBeacon(p.x, p.y)
  \/ ForwardInput("key")
  \/ Escape
  \/ GoHome
  \/ SwitchNext
  \/ \E s \in {screens[k].name : k \in DOMAIN screens} : SwitchToScreen(s)
  \/ ToggleLock

ServerCall ==
  \/ \E p \in FarSpots : RemoteBeacon(p.x, p.y)
  \/ \E g \in Gains : SetGain(g)
  \/ \E name \in Clients : AdmitKnown(name) \/ \E size \in Sizes : AdmitNew(name, size)
  \/ \E id \in admitted :
       \/ \E size \in Sizes : UpdateScreenInfo(id, size)
       \/ ClientConnected(id)
       \/ ClientDisconnected(id)
       \/ ClientRemoved(id)
  \/ \E config \in Configs : SwapLayout(ToLayout(config))

Next == InputEvent \/ ServerCall \/ Tick

Spec == Init /\ [][Next]_vars

-----------------------------------------------------------------------------
(* Properties *)

Points == [x : Int, y : Int]
PushLatches(cap) == {{}} \cup {{p} : p \in [dir : Directions, age : 0..cap]}

\* Types: the latches hold at most one push, with an age up to its threshold
\* (Option<Push>, Option<Pushing> and Option<Instant> of the struct Session).
TypeOK ==
  /\ \A k \in DOMAIN screens : screens[k].id \in 0..MAX_ID /\ screens[k].rect \in Rects
  /\ local \in Rects /\ cursor \in Points
  /\ mode \in 0..MAX_ID
  /\ at_wall \subseteq Directions /\ remote_at_wall \subseteq Directions
  /\ last_out \in PushLatches(PUSH_FRESH) /\ remote_last_out \in PushLatches(PUSH_FRESH)
  /\ pushing \in PushLatches(PUSH_FALLBACK) /\ remote_pushing \in PushLatches(PUSH_FALLBACK)
  /\ remote_beacon_at \in {{}} \cup {{age} : age \in 0..BEACON_FRESH}
  /\ walls_locked \in BOOLEAN
  /\ connected \subseteq admitted /\ admitted \subseteq 1..MAX_ID

\* The cursor is home or on a screen of the running layout whose client is
\* connected: no order of connections, losses, removals, reloads and switches
\* leaves it on a screen that cannot return control (Session::connected).
RemoteIsReachable ==
  mode # HOME => mode \in connected /\ mode \in Ids(screens)

NoLatches ==
  /\ at_wall = {} /\ last_out = {} /\ pushing = {}
  /\ remote_at_wall = {} /\ remote_beacon_at = {}
  /\ remote_last_out = {} /\ remote_pushing = {}

\* Whatever takes the cursor to another screen - home, a client, from one client to the
\* next - or gives the server's own screen another shape, no push, armed wall or beacon
\* of before survives it to fire a crossing there (clear_boundary_state).
LatchesStartAfresh == [][mode' # mode \/ local' # local => NoLatches']_vars

\* What the server carries out is where the session is: a call that moves the cursor to
\* another screen, be it a crossing, a request, a loss, a removal or a reload, returns
\* the switch to it, and no call returns a switch to a screen it does not leave the
\* cursor on (Action, "something the caller must do", session/mod.rs:46-60).
IsSwitch(action) == action.kind # "Send"
WorldIsTold ==
  [][/\ mode' # mode => \E k \in DOMAIN out' : IsSwitch(out'[k])
     /\ \A k \in DOMAIN out' : IsSwitch(out'[k]) => out'[k].to = mode']_vars

\* At home the virtual cursor never leaves the local screen, whatever raw
\* motion ran past its edges (clamp_to, swap_layout, force_local).
HomeCursorOnScreen == mode = HOME => Contains(local, cursor.x, cursor.y)

\* "Jump the cursor to screen `id`, entering at its center" (motion.rs, jump_to),
\* "entering at its local coords" (mod.rs, Action::SwitchTo): every switch places
\* the cursor inside the screen it enters.
EntryOnScreen ==
  \A k \in DOMAIN out : out[k].kind # "Send" =>
    \E s \in Find(screens, out[k].to) : Contains(s.rect, cursor.x, cursor.y)

\* "A dynamically admitted client whose screen the config still does not provide
\* rides along (so an unrelated layout edit never kicks it off)" (mod.rs,
\* swap_layout): its screen is the one its id finds.
DynamicRidesAlong ==
  \A k \in DOMAIN dynamic :
    \E s \in Find(screens, dynamic[k].id) : s.name = dynamic[k].name

\* The session implements the promise made to the server.
Promise == INSTANCE Switching WITH ids <- Ids(screens)
ImplementsSwitching == Promise!Spec
=============================================================================
