----------------------------- MODULE LayoutPage -----------------------------
(***************************************************************************)
(* The life of a desktop: the user drags screens about on the Layout page  *)
(* (outside the Rust sources), and every arrangement is normalised before  *)
(* the server adopts it.  The properties compare the ray cast with a walk  *)
(* along the ray, pixel by pixel, and normalisation with what it promises. *)
(***************************************************************************)
EXTENDS Layout

CONSTANTS
  Start0,     \* the arrangement the user begins with; screen 1 is the server
  Xs, Ys,     \* where a screen may be dragged
  RAY_LENGTH  \* bound on the pixels the reference walk looks ahead

\* Config::to_layout: a screen's id is its place in the configuration.
ASSUME PageAssumption ==
  /\ Start0 \in Seq([id : Nat, name : STRING, rect : Rects])
  /\ \A j, k \in DOMAIN Start0 : j # k => Start0[j].id # Start0[k].id
  /\ Xs \subseteq Int /\ Ys \subseteq Int /\ RAY_LENGTH \in Nat

\* Screens thicker than half the tolerance: of two that are thinner, one wholly
\* behind the other's edge would still count as touching it.
Broad(r) == r \in Rects /\ 2 * r.w > EDGE_TOLERANCE /\ 2 * r.h > EDGE_TOLERANCE
BroadScreens == \A k \in DOMAIN Start0 : Broad(Start0[k].rect)

VARIABLES
  raw,        \* the arrangement on the page
  adopted     \* what the server runs with

page_vars == <<raw, adopted>>

PageInit == raw = Start0 /\ adopted = Normalized(Start0)

Drag(k, x, y) ==
  /\ raw' = [raw EXCEPT ![k].rect = [@ EXCEPT !.x = x, !.y = y]]
  /\ adopted' = Normalized(raw')

PageNext == \E k \in 2..Len(raw), x \in Xs, y \in Ys : Drag(k, x, y)

PageSpec == PageInit /\ [][PageNext]_page_vars

-----------------------------------------------------------------------------
Overlapping(a, b) ==
  /\ a.x < b.x + b.w /\ b.x < a.x + a.w
  /\ a.y < b.y + b.h /\ b.y < a.y + a.h

\* Layout::issues finds nothing to warn about.
NoIssues(screens) ==
  \A j, k \in DOMAIN screens :
    j < k => ~Overlapping(screens[j].rect, screens[k].rect)

Opposite(d) == CASE d = "Left" -> "Right" [] d = "Right"  -> "Left"
                 [] d = "Top"  -> "Bottom" [] d = "Bottom" -> "Top"

\* The pixel t steps beyond edge d of r, at the coordinate p across the ray.
RayPixel(r, d, p, t) ==
  CASE d = "Left"   -> [x |-> r.x - 1 - t, y |-> p]
    [] d = "Right"  -> [x |-> r.x + r.w + t, y |-> p]
    [] d = "Top"    -> [x |-> p, y |-> r.y - 1 - t]
    [] d = "Bottom" -> [x |-> p, y |-> r.y + r.h + t]

ScreensAt(screens, q) == {k \in DOMAIN screens : Contains(screens[k].rect, q.x, q.y)}

\* The first screen a walk along the ray meets.
FirstHit(screens, r, d, p) ==
  LET hits == {t \in 0..RAY_LENGTH : ScreensAt(screens, RayPixel(r, d, p, t)) # {}}
  IN UNION {ScreensAt(screens, RayPixel(r, d, p, t)) : t \in {t \in hits : IsFirst(t, hits)}}

ExitSpan(r, d) == LET axis == Other(Along(d)) IN Start(r, axis)..End(r, axis) - 1

\* Neighbor for an exit through edge d of r at the coordinate p.
Beyond(screens, s, d, p) ==
  LET q == RayPixel(s.rect, d, p, 0) IN Neighbor(screens, s.id, d, q.x, q.y)

\* "The cursor fires a ray from its exit point through that edge, and the first
\* screen the ray reaches is the destination" (layout.rs, neighbor): wherever the
\* walk meets a screen, neighbor names that screen, at the pixel the walk met on
\* the axis across the ray; so no gap, offset or third screen redirects a ray.
RayFindsFirstScreen ==
  NoIssues(adopted) =>
    \A j \in DOMAIN adopted, d \in Directions :
      \A p \in ExitSpan(adopted[j].rect, d) :
        \A k \in FirstHit(adopted, adopted[j].rect, d, p) :
          \A n \in Beyond(adopted, adopted[j], d, p) :
            /\ n.id = adopted[k].id
            /\ p = IF Along(d) = "x" THEN adopted[k].rect.y + n.y
                                     ELSE adopted[k].rect.x + n.x

\* A crossing that met a screen leads back through the same seam, to the screen
\* and the coordinate it came from.
CrossingsReturn ==
  NoIssues(adopted) =>
    \A j \in DOMAIN adopted, d \in Directions :
      \A p \in ExitSpan(adopted[j].rect, d) :
        \A k \in FirstHit(adopted, adopted[j].rect, d, p) :
          \E n \in Beyond(adopted, adopted[k], Opposite(d), p) : n.id = adopted[j].id

\* The desktops of which normalisation keeps what follows: two screens, or three of
\* which any two widths, and any two heights, are equal or clearly different.  When
\* sizes nearly agree, screens that are aligned at one end disagree at the other;
\* of four screens, two chains of contacts can disagree whatever the sizes.
Differ(a, b, axis) == Distance(Extent(a, axis), Extent(b, axis))
Regular(screens) ==
  \/ Len(screens) <= 2
  \/ /\ Len(screens) = 3
     /\ \A j, k \in 1..3, axis \in {"x", "y"} :
          Differ(screens[j].rect, screens[k].rect, axis) \notin 1..2 * EDGE_TOLERANCE

\* Snapping the screens of a regular desktop into contact never makes two of them
\* overlap that did not.
SnappingKeepsApart == Regular(raw) /\ NoIssues(raw) => NoIssues(adopted)

\* "Closing one gap can bring another pair into snapping range, so iterate to a
\* fixed point" (layout.rs:56): normalising a regular desktop again, as every
\* admission and removal of a client does, moves nothing.
NormalizedIsFixedPoint == Regular(raw) /\ NoIssues(raw) => Normalized(adopted) = adopted

\* "Snapping is cosmetic, not functional" (layout.rs:52): of any desktop.
SnappingIsCosmetic == NoIssues(raw) => NoIssues(adopted)

\* "... iterate to a fixed point": of any desktop.
SnappingSettles == NoIssues(raw) => Normalized(adopted) = adopted
=============================================================================
