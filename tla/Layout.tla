------------------------------- MODULE Layout -------------------------------
(***************************************************************************)
(* The shared virtual desktop (crates/core/src/layout.rs): screens placed  *)
(* in one coordinate space, which screen lies beyond an edge, and the      *)
(* normalisation every adopted layout goes through.                        *)
(*                                                                         *)
(* A layout is a sequence of screens [id, name, rect], in the order of the *)
(* code's Vec.  A result the code returns as Option is a set with at most  *)
(* one element, so a caller writes \E r \in Neighbor(...) for `Some(r)`    *)
(* and Neighbor(...) = {} for `None`.                                      *)
(***************************************************************************)
EXTENDS Integers, Sequences, FiniteSets

CONSTANT EDGE_TOLERANCE   \* slack between two facing edges, in pixels

ASSUME ToleranceAssumption == EDGE_TOLERANCE \in Nat

HOME == 0                 \* the id of the server's own screen
DIRS == <<"Left", "Right", "Top", "Bottom">>
Directions == {"Left", "Right", "Top", "Bottom"}
\* Variant: screens are compared once.
ONE_PASS == 1
NORMALIZE_PASSES == 8

AtLeast(lo, v) == IF v < lo THEN lo ELSE v
AtMost(hi, v) == IF v > hi THEN hi ELSE v
Clamp(v, lo, hi) == IF v < lo THEN lo ELSE AtMost(hi, v)
Distance(a, b) == IF a < b THEN b - a ELSE a - b

\* k is the first position of the set S of positions.
IsFirst(k, S) == k \in S /\ \A j \in S : k <= j

(***************************************************************************)
(* Rectangles.  The horizontal and the vertical axis obey the same rules,  *)
(* so the operators take the axis "x" or "y".                              *)
(***************************************************************************)
Start(r, axis) == IF axis = "x" THEN r.x ELSE r.y
Extent(r, axis) == IF axis = "x" THEN r.w ELSE r.h
End(r, axis) == Start(r, axis) + Extent(r, axis)
Other(axis) == IF axis = "x" THEN "y" ELSE "x"

Contains(r, x, y) == r.x <= x /\ x < r.x + r.w /\ r.y <= y /\ y < r.y + r.h
Center(r) == [x |-> r.x + r.w \div 2, y |-> r.y + r.h \div 2]
\* Variant: the clamp includes the first pixel past each far edge.
ClampToFarEdge(r, p) == [x |-> Clamp(p.x, r.x, r.x + r.w), y |-> Clamp(p.y, r.y, r.y + r.h)]
ClampTo(r, p) == [x |-> Clamp(p.x, r.x, r.x + r.w - 1),
                  y |-> Clamp(p.y, r.y, r.y + r.h - 1)]

Ids(screens) == {screens[k].id : k \in DOMAIN screens}

Find(screens, id) ==
  {screens[k] : k \in {k \in DOMAIN screens :
                         IsFirst(k, {j \in DOMAIN screens : screens[j].id = id})}}

\* Vec::retain: the elements at the positions in `kept`, in order.
RankIn(kept, k) == Cardinality({j \in kept : j <= k})
Retain(s, kept) ==
  [n \in 1..Cardinality(kept) |-> s[CHOOSE k \in kept : RankIn(kept, k) = n]]
WithoutId(s, id) == Retain(s, {k \in DOMAIN s : s[k].id # id})

(***************************************************************************)
(* The ray cast: the screen reached when leaving `from` through edge d at  *)
(* the virtual point (x, y).                                               *)
(***************************************************************************)
Along(d) == IF d \in {"Left", "Right"} THEN "x" ELSE "y"
Backward(d) == d \in {"Left", "Top"}

\* Pixels between the edge crossed and the facing edge of s.
Gap(from, s, d) ==
  IF Backward(d) THEN Start(from.rect, Along(d)) - End(s.rect, Along(d))
                 ELSE Start(s.rect, Along(d)) - End(from.rect, Along(d))

\* How far the exit coordinate p is from the span of s across the ray.
OffSpan(s, p, axis) ==
  LET lo == Start(s.rect, axis)
      hi == End(s.rect, axis)
  IN IF p < lo THEN lo - p
     ELSE IF p >= hi THEN p - AtLeast(lo, hi - 1) ELSE 0

\* Variant: screens in contact do not count as beyond the edge.
CandidatesApart(screens, from, d) ==
  {k \in DOMAIN screens : screens[k].id # from.id /\ Gap(from, screens[k], d) > 0}

Candidates(screens, from, d) ==
  {k \in DOMAIN screens : /\ screens[k].id # from.id
                          /\ Gap(from, screens[k], d) >= -EDGE_TOLERANCE}

\* Variant: the distance along the ray counts first.
CloserAlongFirst(from, s, t, d, p) ==
  LET axis == Other(Along(d))
      alongS == AtLeast(0, Gap(from, s, d))
      alongT == AtLeast(0, Gap(from, t, d))
  IN \/ alongS < alongT
     \/ alongS = alongT /\ OffSpan(s, p, axis) < OffSpan(t, p, axis)

\* Screen s beats t for the exit coordinate p: closer across, then closer along.
Closer(from, s, t, d, p) ==
  LET axis == Other(Along(d))
      perpS == OffSpan(s, p, axis)
      perpT == OffSpan(t, p, axis)
  IN \/ perpS < perpT
     \/ perpS = perpT /\ AtLeast(0, Gap(from, s, d)) < AtLeast(0, Gap(from, t, d))

BestCandidates(screens, from, d, p) ==
  LET C == Candidates(screens, from, d)
  IN {k \in C : \A j \in C : \/ Closer(from, screens[k], screens[j], d, p)
                             \/ k <= j /\ ~Closer(from, screens[j], screens[k], d, p)}

\* Where the cursor lands on s, in the local coordinates of s.
EntryPoint(s, d, x, y) ==
  LET lastX == AtLeast(0, s.rect.w - 1)
      lastY == AtLeast(0, s.rect.h - 1)
  IN [id |-> s.id,
      x  |-> CASE d = "Left"  -> lastX
               [] d = "Right" -> 0
               [] OTHER       -> Clamp(x - s.rect.x, 0, lastX),
      y  |-> CASE d = "Top"    -> lastY
               [] d = "Bottom" -> 0
               [] OTHER        -> Clamp(y - s.rect.y, 0, lastY)]

Neighbor(screens, id, d, x, y) ==
  UNION {{EntryPoint(screens[k], d, x, y) :
            k \in BestCandidates(screens, from, d, IF Along(d) = "x" THEN y ELSE x)} :
         from \in Find(screens, id)}

\* The edge of screen id that the virtual point (x, y) lies beyond, if any.
ExitDirection(screens, id, x, y) ==
  {CASE x < s.rect.x              -> "Left"
     [] x >= s.rect.x + s.rect.w  -> "Right"
     [] /\ s.rect.x <= x /\ x < s.rect.x + s.rect.w
        /\ y < s.rect.y           -> "Top"
     [] OTHER                     -> "Bottom" :
   s \in {t \in Find(screens, id) : ~Contains(t.rect, x, y)}}

(***************************************************************************)
(* Normalisation: nearly touching screens are snapped into contact and     *)
(* their spans aligned, pair after pair, for at most NORMALIZE_PASSES      *)
(* passes.  A pass that changes nothing leaves the later ones nothing to   *)
(* do, so the code's early exit needs no definition.  Only rectangles      *)
(* move: ids, names and order stay.                                        *)
(***************************************************************************)
Near(a, b) == Distance(a, b) <= EDGE_TOLERANCE

SpansOverlap(a, b, axis) == /\ Start(a, axis) - EDGE_TOLERANCE < End(b, axis)
                            /\ Start(b, axis) - EDGE_TOLERANCE < End(a, axis)

MoveTo(r, axis, v) == IF axis = "x" THEN [r EXCEPT !.x = v] ELSE [r EXCEPT !.y = v]

AlignSpan(a, r, axis) ==
  IF Near(Start(r, axis), Start(a, axis)) THEN MoveTo(r, axis, Start(a, axis)) ELSE r

\* Variant: the far side of b, not its near side, meets the start of a.
SnapAlongFarSide(a, b, nb, axis) ==
  IF ~SpansOverlap(a, b, Other(axis)) THEN nb
  ELSE IF Near(End(a, axis), Start(b, axis))
       THEN AlignSpan(a, MoveTo(nb, axis, End(a, axis)), Other(axis))
  ELSE IF Near(End(b, axis), Start(a, axis))
       THEN AlignSpan(a, MoveTo(nb, axis, Start(a, axis) - Extent(a, axis)), Other(axis))
  ELSE nb

\* nb is b as moved so far; the tests look at b itself, as the code's do.
SnapAlong(a, b, nb, axis) ==
  IF ~SpansOverlap(a, b, Other(axis)) THEN nb
  ELSE IF Near(End(a, axis), Start(b, axis))
       THEN AlignSpan(a, MoveTo(nb, axis, End(a, axis)), Other(axis))
  ELSE IF Near(End(b, axis), Start(a, axis))
       THEN AlignSpan(a, MoveTo(nb, axis, Start(a, axis) - Extent(b, axis)), Other(axis))
  ELSE nb

Snap(a, b) == SnapAlong(a, b, SnapAlong(a, b, b, "x"), "y")

\* Step m of a pass compares rectangle i with rectangle j, i-major.
SnapPair(rects, m) ==
  LET n == Len(rects)
      i == ((m - 1) \div n) + 1
      j == ((m - 1) % n) + 1
  IN IF i = j THEN rects ELSE [rects EXCEPT ![j] = Snap(rects[i], rects[j])]

Rects == [x : Int, y : Int, w : Int, h : Int]

SnapPass[rects \in Seq(Rects)] ==
  LET after[m \in 0..Len(rects) * Len(rects)] ==
        IF m = 0 THEN rects ELSE SnapPair(after[m - 1], m)
  IN after[Len(rects) * Len(rects)]

SettledRects(rects) ==
  LET pass[k \in 0..NORMALIZE_PASSES] == IF k = 0 THEN rects ELSE SnapPass[pass[k - 1]]
  IN pass[NORMALIZE_PASSES]

Normalized(screens) ==
  LET settled == SettledRects([k \in DOMAIN screens |-> screens[k].rect])
  IN [k \in DOMAIN screens |->
        [id |-> screens[k].id, name |-> screens[k].name, rect |-> settled[k]]]
=============================================================================
