---------------------------- MODULE SessionPushMC ----------------------------
(***************************************************************************)
(* Instances of SessionPush: the server and two clients in a row, moved    *)
(* one count at a time; gains are halves.                                  *)
(***************************************************************************)
EXTENDS SessionPush

Box(name, x, y) == [name |-> name, rect |-> [x |-> x, y |-> y, w |-> 5, h |-> 5]]

RowOfThree == {<<Box("server", 0, 0), Box("a", 5, 0), Box("b", 10, 0)>>}
SlowMoves == {[dx |-> v, dy |-> 0] : v \in {-1, 1}}
RowSpots == {[x |-> v, y |-> 2] : v \in {0, 2, 4}}

\* The hypotheses of PushTheorem, but for the gains, which Push_gain_down has below 1.
ASSUME TheoremsApply ==
  /\ HomeIsDisplay /\ \A config \in Configs : Len(config) <= MAX_ID + 1
  /\ PUSH_FALLBACK > 0 /\ BEACON_FRESH <= HOLD_LIMIT
=============================================================================
