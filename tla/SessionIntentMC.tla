--------------------------- MODULE SessionIntentMC ---------------------------
(***************************************************************************)
(* Instances of SessionIntent: a row of three screens and a corner with a  *)
(* neighbour on two edges, scaled as in SessionMC.                         *)
(***************************************************************************)
EXTENDS SessionIntent

Box(name, x, y) == [name |-> name, rect |-> [x |-> x, y |-> y, w |-> 5, h |-> 5]]

RowOfThree == {<<Box("server", 0, 0), Box("a", 5, 0), Box("b", 10, 0)>>}
Corner == {<<Box("server", 0, 0), Box("a", 5, 0), Box("b", 0, 5)>>}

RowMoves == {[dx |-> v, dy |-> 0] : v \in {-3, 3}}
CornerMoves == {[dx |-> 5, dy |-> 0], [dx |-> 0, dy |-> 5],
                [dx |-> 5, dy |-> 5], [dx |-> -5, dy |-> -5]}

RowSpots == {[x |-> v, y |-> 2] : v \in {0, 2, 4}}
CornerSpots == {[x |-> v, y |-> v] : v \in {0, 2, 4}}
BottomLeft == {[x |-> 0, y |-> 4]}

\* The hypotheses of the theorems about SessionIntent hold in its instances.
ASSUME TheoremsApply ==
  HomeIsDisplay /\ \A config \in Configs : Len(config) <= MAX_ID + 1
=============================================================================
