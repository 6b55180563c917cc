---------------------------- MODULE LayoutPageMC ----------------------------
(***************************************************************************)
(* Three screens around a 4 x 4 server, with a tolerance of one pixel: one *)
(* of the same size and one clearly larger.                                *)
(***************************************************************************)
EXTENDS LayoutPage

Placed(id, name, x, y, w, h) ==
  [id |-> id, name |-> name, rect |-> [x |-> x, y |-> y, w |-> w, h |-> h]]

ThreeScreens == <<Placed(0, "server", 0, 0, 4, 4), Placed(1, "a", 4, 0, 4, 4),
                  Placed(2, "b", -7, 0, 7, 7)>>

\* Screens whose sizes nearly agree, and an arrangement of them that goes wrong.
NearSizes == <<Placed(0, "server", 0, 0, 5, 4), Placed(1, "a", 6, 1, 4, 5),
               Placed(2, "b", 1, 4, 4, 4)>>
NoMove == {}

\* In contact, a pixel off, a gap away and overlapping, on either side.
Columns == {-8, -7, -5, -4, 0, 1, 4, 6}
Rows == {-8, -5, -4, 0, 1, 5}

\* The hypothesis of the theorems about LayoutPage holds in this instance.
ASSUME TheoremsApply == BroadScreens
=============================================================================
