---------------------------- MODULE SessionProofs ----------------------------
(***************************************************************************)
(* For every desktop, set of clients, motion and threshold: the cursor is  *)
(* only ever where input can be answered, no boundary latch outlives the   *)
(* screen it belongs to, the session implements Switching, control crosses *)
(* an edge exactly when the user pushed through it, and a sustained push   *)
(* does cross it.                                                          *)
(*                                                                         *)
(* And for every arrangement a user makes on the Layout page: the ray cast *)
(* names the first screen a walk along the ray meets, the way back leads   *)
(* back, and a desktop of two screens is normalised once and for all.      *)
(***************************************************************************)
EXTENDS SessionIntent, SessionPush, LayoutPage, WellFoundedInduction, FiniteSetTheorems, SequenceTheorems, TLAPS

-----------------------------------------------------------------------------
(* The operators of Layout: what a layout that is normalised, extended or    *)
(* filtered keeps, and what a ray cast may answer.                           *)

\* s is a sequence, whatever its elements.
IsList(s) == s \in Seq(Range(s))

\* A list is a function on the positions 1 to its length (Vec).
LEMMA ListShape ==
  ASSUME NEW s, IsList(s)
  PROVE  Len(s) \in Nat /\ DOMAIN s = 1..Len(s)
BY LenProperties DEF IsList

\* A function on 1..n is a list of length n.
LEMMA FunctionIsList ==
  ASSUME NEW n \in Nat, NEW T, NEW s \in [1..n -> T]
  PROVE  IsList(s) /\ Len(s) = n
<1>1. s \in Seq(T)
  BY SeqDef
<1>2. IsList(s)
  BY <1>1, SeqOfRange DEF IsList
<1>3. DOMAIN s = 1..n
  OBVIOUS
<1> QED
  BY <1>1, <1>2, <1>3, LenProperties

\* Normalisation moves rectangles only: the layout keeps its length and ids
\* (Layout::normalized).
LEMMA NormalizedKeepsIds ==
  ASSUME NEW s, IsList(s)
  PROVE  IsList(Normalized(s)) /\ Ids(Normalized(s)) = Ids(s)
<1> DEFINE settled == SettledRects([k \in DOMAIN s |-> s[k].rect])
           moved(k) == [id |-> s[k].id, name |-> s[k].name, rect |-> settled[k]]
           T == {moved(k) : k \in DOMAIN s}
<1>1. Normalized(s) = [k \in DOMAIN s |-> moved(k)]
  BY DEF Normalized
<1> HIDE DEF settled
<1>2. IsList(Normalized(s))
  <2>1. Normalized(s) \in [1..Len(s) -> T]
    BY <1>1, ListShape
  <2> QED
    BY <2>1, ListShape, FunctionIsList
<1>3. \A k \in DOMAIN s : Normalized(s)[k].id = s[k].id
  BY <1>1
<1>4. DOMAIN Normalized(s) = DOMAIN s
  BY <1>1
<1> QED
  BY <1>2, <1>3, <1>4 DEF Ids

\* A set of numbers that is not empty has a least one.
LEMMA LeastCounterexample ==
  ASSUME NEW T \in SUBSET Nat, T # {}
  PROVE  \E x \in T : \A y \in T : ~(y < x)
<1> DEFINE R == {ss \in Nat \X Nat : ss[1] < ss[2]}
<1>1. IsWellFoundedOn(R, Nat)
  BY NatLessThanWellFounded DEF OpToRel
<1> HIDE DEF R
<1>2. PICK x \in T : \A y \in T : ~(<<y, x>> \in R)
  BY <1>1, WFMin
<1> QED BY <1>2 DEF R

\* Induction on the numbers, for a set of them instead of a predicate.
LEMMA SetInduction ==
  ASSUME NEW T \in SUBSET Nat, 0 \in T, \A n \in T : n + 1 \in T
  PROVE  T = Nat
<1> SUFFICES ASSUME Nat \ T # {} PROVE FALSE
  OBVIOUS
<1>1. PICK x \in Nat \ T : \A y \in Nat \ T : ~(y < x)
  BY LeastCounterexample
<1>2. x - 1 \in Nat /\ x - 1 < x /\ (x - 1) + 1 = x
  BY <1>1
<1> QED BY <1>1, <1>2

\* The results of f[1], ..., f[N] applied one after the other, from a on.
Iterates(N, X, a, f) ==
  {g \in [0..N -> X] : g[0] = a /\ \A m \in 1..N : g[m] = f[m][g[m - 1]]}

\* A finite chain of functions on X can be applied from any point of X.
LEMMA IteratesExist ==
  ASSUME NEW N \in Nat, NEW X, NEW a \in X, NEW f \in [1..N -> [X -> X]]
  PROVE  Iterates(N, X, a, f) # {}
<1> DEFINE Upto(n, g) == g \in [0..n -> X] /\ g[0] = a /\ \A m \in 1..n : g[m] = f[m][g[m - 1]]
           T == {n \in Nat : n <= N => \E g : Upto(n, g)}
<1>1. 0 \in T
  <2>1. Upto(0, [m \in 0..0 |-> a])
    OBVIOUS
  <2> QED BY <2>1
<1>2. ASSUME NEW n \in T PROVE n + 1 \in T
  <2> SUFFICES ASSUME n + 1 <= N PROVE \E g : Upto(n + 1, g)
    OBVIOUS
  <2>1. n \in Nat /\ n <= N /\ n + 1 \in 1..N /\ n \in 0..n
    OBVIOUS
  <2>2. PICK g : Upto(n, g)
    BY <2>1
  <2> DEFINE h == [m \in 0..(n + 1) |-> IF m = n + 1 THEN f[n + 1][g[n]] ELSE g[m]]
  <2>3. g[n] \in X /\ f[n + 1][g[n]] \in X
    BY <2>1, <2>2
  <2>4. \A m \in 0..(n + 1) : m = n + 1 \/ m \in 0..n
    BY <2>1
  <2>5. h \in [0..(n + 1) -> X] /\ h[0] = a
    BY <2>1, <2>2, <2>3, <2>4
  <2>6. \A m \in 1..n : m - 1 \in 0..(n + 1) /\ m \in 0..(n + 1) /\ m # n + 1 /\ m - 1 # n + 1
    BY <2>1
  <2>7. \A m \in 1..n : h[m] = f[m][h[m - 1]]
    BY <2>2, <2>6
  <2>8. h[n + 1] = f[n + 1][h[(n + 1) - 1]]
    <3>1. (n + 1) - 1 = n /\ n \in 0..(n + 1) /\ n + 1 \in 0..(n + 1) /\ n # n + 1
      BY <2>1
    <3> HIDE DEF Upto
    <3>2. h[n] = g[n] /\ h[n + 1] = f[n + 1][g[n]]
      BY <3>1
    <3> QED BY <3>1, <3>2
  <2>9. \A m \in 1..(n + 1) : m \in 1..n \/ m = n + 1
    BY <2>1
  <2>10. Upto(n + 1, h)
    <3> HIDE DEF h
    <3> QED BY <2>5, <2>7, <2>8, <2>9
  <2> QED BY <2>10
<1> HIDE DEF T, Upto
<1>3. T = Nat
  <2>1. T \in SUBSET Nat
    BY DEF T
  <2> QED BY <1>1, <1>2, <2>1, SetInduction
<1>4. \E g : Upto(N, g)
  <2>1. N <= N /\ N \in T
    BY <1>3
  <2> QED BY <2>1 DEF T
<1> QED BY <1>4 DEF Upto, Iterates

\* A list of rectangles, and those with its length and sizes.
Sized(r) == {q \in [1..Len(r) -> Rects] : \A k \in 1..Len(r) : q[k].w = r[k].w /\ q[k].h = r[k].h}

\* What no step leaves is never left along a chain: an element of X stays in X.
LEMMA StaysIn ==
  ASSUME NEW N \in Nat, NEW X, NEW h, h[0] \in X, \A m \in 1..N : h[m - 1] \in X => h[m] \in X
  PROVE  h[N] \in X
<1> DEFINE T == {n \in Nat : n <= N => h[n] \in X}
<1>1. 0 \in T
  OBVIOUS
<1>2. ASSUME NEW n \in T PROVE n + 1 \in T
  <2> SUFFICES ASSUME n + 1 <= N PROVE h[n + 1] \in X
    OBVIOUS
  <2>1. n + 1 \in 1..N /\ (n + 1) - 1 = n /\ n <= N
    OBVIOUS
  <2>2. h[n] \in X
    BY <2>1
  <2> QED BY <2>1, <2>2
<1>3. T = Nat
  <2>1. T \in SUBSET Nat
    OBVIOUS
  <2> HIDE DEF T
  <2> QED BY <1>1, <1>2, <2>1, SetInduction
<1> QED BY <1>3

LEMMA PairPositions ==
  ASSUME NEW n \in Nat, NEW m \in 1..(n * n)
  PROVE  ((m - 1) \div n) + 1 \in 1..n /\ ((m - 1) % n) + 1 \in 1..n
<1>1. n # 0 /\ m - 1 \in Nat
  OBVIOUS
<1> DEFINE a == m - 1
           q == a \div n
           r == a % n
<1>2. n * n \in Nat /\ a < n * n
  BY <1>1
<1>3. q \in Int /\ r \in 0..(n - 1) /\ a = n * q + r
  BY <1>1
<1>4. q >= 0
  BY <1>1
<1>5. q < n
  BY <1>1, <1>2, <1>3, <1>4
<1> QED BY <1>1, <1>3, <1>4, <1>5

LEMMA MovedIsRect ==
  ASSUME NEW r \in Rects, NEW axis, NEW v \in Int
  PROVE  MoveTo(r, axis, v) \in Rects /\ MoveTo(r, axis, v).w = r.w /\ MoveTo(r, axis, v).h = r.h
BY DEF MoveTo, Rects

LEMMA AlignedIsRect ==
  ASSUME NEW a \in Rects, NEW r \in Rects, NEW axis
  PROVE  AlignSpan(a, r, axis) \in Rects /\ AlignSpan(a, r, axis).w = r.w /\ AlignSpan(a, r, axis).h = r.h
<1>1. Start(a, axis) \in Int
  BY DEF Start, Rects
<1> QED BY <1>1, MovedIsRect DEF AlignSpan

LEMMA SnappedAlong ==
  ASSUME NEW a \in Rects, NEW b \in Rects, NEW nb \in Rects, nb.w = b.w, nb.h = b.h, NEW axis
  PROVE  LET s == SnapAlong(a, b, nb, axis) IN s \in Rects /\ s.w = b.w /\ s.h = b.h
<1>1. Start(a, axis) \in Int /\ End(a, axis) \in Int /\ Extent(b, axis) \in Int
  BY DEF Start, End, Extent, Rects
<1>2. ASSUME NEW v \in Int
      PROVE  LET s == AlignSpan(a, MoveTo(nb, axis, v), Other(axis))
             IN s \in Rects /\ s.w = b.w /\ s.h = b.h
  BY MovedIsRect, AlignedIsRect
<1> QED BY <1>1, <1>2 DEF SnapAlong

LEMMA Snapped ==
  ASSUME NEW a \in Rects, NEW b \in Rects
  PROVE  Snap(a, b) \in Rects /\ Snap(a, b).w = b.w /\ Snap(a, b).h = b.h
BY SnappedAlong DEF Snap


\* Aligning one rectangle with another moves it and keeps every size
\* (snap_screens_together).
LEMMA PairKeepsSizes ==
  ASSUME NEW r \in Seq(Rects), NEW q \in Sized(r), NEW m \in 1..(Len(r) * Len(r))
  PROVE  SnapPair(q, m) \in Sized(r)
<1> DEFINE n == Len(r)
           i == ((m - 1) \div n) + 1
           j == ((m - 1) % n) + 1
<1>1. n \in Nat /\ q \in [1..n -> Rects]
  BY LenProperties DEF Sized
<1>2. Len(q) = n
  BY <1>1, FunctionIsList
<1>3. i \in 1..n /\ j \in 1..n
  BY <1>1, PairPositions
<1>4. SnapPair(q, m) = IF i = j THEN q ELSE [q EXCEPT ![j] = Snap(q[i], q[j])]
  BY <1>2 DEF SnapPair
<1> HIDE DEF i, j, n
<1>5. q[i] \in Rects /\ q[j] \in Rects
  BY <1>1, <1>3
<1>6. Snap(q[i], q[j]) \in Rects /\ Snap(q[i], q[j]).w = q[j].w /\ Snap(q[i], q[j]).h = q[j].h
  BY <1>5, Snapped
<1> QED
  BY <1>1, <1>3, <1>4, <1>6 DEF Sized, n

\* A pass is one step per pair.
LEMMA PassSteps ==
  ASSUME NEW r \in Seq(Rects), NEW q \in Sized(r)
  PROVE  \E g : /\ g[0] = q /\ g[Len(r) * Len(r)] = SnapPass[q]
                /\ \A m \in 1..(Len(r) * Len(r)) : g[m] = SnapPair(g[m - 1], m)
<1> DEFINE N == Len(r) * Len(r)
           X == Sized(r)
           f == [m \in 1..N |-> [p \in X |-> SnapPair(p, m)]]
           after == CHOOSE g : g = [m \in 0..N |-> IF m = 0 THEN q ELSE SnapPair(g[m - 1], m)]
<1>1. Len(r) \in Nat /\ N \in Nat
  BY LenProperties
<1>2. /\ q \in X /\ f \in [1..N -> [X -> X]]
      /\ \A p \in X, m \in 1..N : f[m][p] = SnapPair(p, m)
  BY PairKeepsSizes
<1>3. q \in Seq(Rects) /\ Len(q) = Len(r)
  <2>1. q \in [1..Len(r) -> Rects]
    BY DEF Sized
  <2> QED BY <1>1, <2>1, FunctionIsList, SeqDef
<1>4. SnapPass[q] = after[N]
  BY <1>3 DEF SnapPass
<1> HIDE DEF N, X, f
<1>5. PICK h \in [0..N -> X] : h[0] = q /\ \A m \in 1..N : h[m] = f[m][h[m - 1]]
  <2>1. Iterates(N, X, q, f) # {}
    BY <1>1, <1>2, IteratesExist
  <2> QED BY <2>1 DEF Iterates
<1>6. \A m \in 1..N : m - 1 \in 0..N
  BY <1>1
<1>7. h = [m \in 0..N |-> IF m = 0 THEN q ELSE SnapPair(h[m - 1], m)]
  <2>1. \A m \in 0..N : m = 0 \/ m \in 1..N
    BY <1>1
  <2>2. \A m \in 1..N : m # 0 /\ h[m] = SnapPair(h[m - 1], m)
    <3> TAKE m \in 1..N
    <3>1. m # 0 /\ m - 1 \in 0..N /\ h[m] = f[m][h[m - 1]]
      BY <1>1, <1>5, <1>6
    <3>2. h[m - 1] \in X
      BY <1>5, <3>1
    <3> QED BY <1>2, <3>1, <3>2
  <2> QED BY <1>5, <2>1, <2>2
<1>8. after = [m \in 0..N |-> IF m = 0 THEN q ELSE SnapPair(after[m - 1], m)]
  BY <1>7
<1> HIDE DEF after
<1>9. after[0] = q
  BY <1>1, <1>8
<1>10. \A m \in 1..N : after[m] = SnapPair(after[m - 1], m)
  <2> TAKE m \in 1..N
  <2>1. m \in 0..N /\ m # 0
    BY <1>1
  <2> QED BY <1>8, <2>1
<1> QED BY <1>4, <1>9, <1>10 DEF N

\* One pass over all pairs keeps every size.
LEMMA PassKeepsSizes ==
  ASSUME NEW r \in Seq(Rects), NEW q \in Sized(r)
  PROVE  SnapPass[q] \in Sized(r)
<1> DEFINE N == Len(r) * Len(r)
           X == Sized(r)
<1>1. N \in Nat
  BY LenProperties
<1>2. PICK g : g[0] = q /\ g[N] = SnapPass[q] /\ \A m \in 1..N : g[m] = SnapPair(g[m - 1], m)
  BY PassSteps
<1>3. \A m \in 1..N : g[m - 1] \in X => g[m] \in X
  BY <1>2, PairKeepsSizes
<1> HIDE DEF N
<1> QED
  BY <1>1, <1>2, <1>3, StaysIn

\* A normalisation is so many passes.
LEMMA SettlingSteps ==
  ASSUME NEW r \in Seq(Rects)
  PROVE  \E g : /\ g[0] = r /\ g[NORMALIZE_PASSES] = SettledRects(r)
                /\ \A m \in 1..NORMALIZE_PASSES : g[m] = SnapPass[g[m - 1]]
<1> DEFINE N == NORMALIZE_PASSES
           X == Sized(r)
           f == [m \in 1..N |-> [p \in X |-> SnapPass[p]]]
           pass == CHOOSE g : g = [k \in 0..N |-> IF k = 0 THEN r ELSE SnapPass[g[k - 1]]]
<1>1. N \in Nat
  BY DEF NORMALIZE_PASSES
<1>2. /\ f \in [1..N -> [X -> X]]
      /\ \A p \in X, m \in 1..N : f[m][p] = SnapPass[p]
  BY PassKeepsSizes
<1>3. r \in X
  BY LenProperties DEF Sized
<1>4. SettledRects(r) = pass[N]
  BY DEF SettledRects
<1> HIDE DEF N, X, f
<1>5. PICK h \in [0..N -> X] : h[0] = r /\ \A m \in 1..N : h[m] = f[m][h[m - 1]]
  <2>1. Iterates(N, X, r, f) # {}
    BY <1>1, <1>2, <1>3, IteratesExist
  <2> QED BY <2>1 DEF Iterates
<1>6. \A m \in 1..N : m - 1 \in 0..N
  BY <1>1
<1>7. h = [m \in 0..N |-> IF m = 0 THEN r ELSE SnapPass[h[m - 1]]]
  <2>1. \A m \in 0..N : m = 0 \/ m \in 1..N
    BY <1>1
  <2>2. \A m \in 1..N : m # 0 /\ h[m] = SnapPass[h[m - 1]]
    <3> TAKE m \in 1..N
    <3>1. m # 0 /\ m - 1 \in 0..N /\ h[m] = f[m][h[m - 1]]
      BY <1>1, <1>5, <1>6
    <3>2. h[m - 1] \in X
      BY <1>5, <3>1
    <3> QED BY <1>2, <3>1, <3>2
  <2> QED BY <1>5, <2>1, <2>2
<1>8. pass = [k \in 0..N |-> IF k = 0 THEN r ELSE SnapPass[pass[k - 1]]]
  BY <1>7
<1> HIDE DEF pass
<1>9. pass[0] = r
  BY <1>1, <1>8
<1>10. \A m \in 1..N : pass[m] = SnapPass[pass[m - 1]]
  <2> TAKE m \in 1..N
  <2>1. m \in 0..N /\ m # 0
    BY <1>1
  <2> QED BY <1>8, <2>1
<1> QED BY <1>4, <1>9, <1>10 DEF N

\* So do all the passes of a normalisation keep every size.
LEMMA SettlingKeepsSizes ==
  ASSUME NEW r \in Seq(Rects)
  PROVE  SettledRects(r) \in Sized(r)
<1> DEFINE N == NORMALIZE_PASSES
           X == Sized(r)
<1>1. N \in Nat
  BY DEF NORMALIZE_PASSES
<1>2. PICK g : g[0] = r /\ g[N] = SettledRects(r) /\ \A m \in 1..N : g[m] = SnapPass[g[m - 1]]
  BY SettlingSteps
<1>3. r \in X
  BY LenProperties DEF Sized
<1>4. \A m \in 1..N : g[m - 1] \in X => g[m] \in X
  BY <1>2, PassKeepsSizes
<1> HIDE DEF N
<1> QED
  BY <1>1, <1>2, <1>3, <1>4, StaysIn

\* Normalisation moves rectangles only: the layout keeps its length, ids, names
\* and sizes (Layout::normalized).
THEOREM NormalizedMovesOnly ==
  ASSUME NEW s, IsList(s), \A k \in DOMAIN s : s[k].rect \in Rects
  PROVE  /\ DOMAIN Normalized(s) = DOMAIN s
         /\ \A k \in DOMAIN s :
              /\ Normalized(s)[k].id = s[k].id
              /\ Normalized(s)[k].name = s[k].name
              /\ Normalized(s)[k].rect \in Rects
              /\ Normalized(s)[k].rect.w = s[k].rect.w
              /\ Normalized(s)[k].rect.h = s[k].rect.h
<1> DEFINE r == [k \in DOMAIN s |-> s[k].rect]
           settled == SettledRects(r)
<1>1. DOMAIN s = 1..Len(s) /\ Len(s) \in Nat
  BY ListShape
<1>2. r \in [1..Len(s) -> Rects]
  BY <1>1
<1>3. r \in Seq(Rects) /\ Len(r) = Len(s)
  BY <1>1, <1>2, FunctionIsList, SeqDef
<1>4. Normalized(s) = [k \in DOMAIN s |->
                         [id |-> s[k].id, name |-> s[k].name, rect |-> settled[k]]]
  BY DEF Normalized
<1>5. settled \in [1..Len(s) -> Rects] /\ \A k \in 1..Len(s) : settled[k].w = r[k].w /\ settled[k].h = r[k].h
  BY <1>3, SettlingKeepsSizes DEF Sized
<1> HIDE DEF settled
<1>6. \A k \in DOMAIN s : r[k] = s[k].rect
  OBVIOUS
<1> HIDE DEF r
<1>7. \A k \in DOMAIN s : settled[k] \in Rects /\ settled[k].w = s[k].rect.w /\ settled[k].h = s[k].rect.h
  BY <1>1, <1>5, <1>6
<1> QED BY <1>4, <1>7

\* Vec::push adds the new screen's id and no other.
LEMMA AppendAddsId ==
  ASSUME NEW s, IsList(s), NEW e
  PROVE  IsList(Append(s, e)) /\ Ids(Append(s, e)) = Ids(s) \cup {e.id}
<1> DEFINE T == Range(s) \cup {e}
           t == Append(s, e)
<1>1. s \in Seq(T) /\ e \in T
  <2>1. Range(s) \subseteq T
    OBVIOUS
  <2> QED
    BY <2>1, SeqMonotonic DEF IsList
<1>2. /\ t \in Seq(T) /\ Len(t) = Len(s) + 1
      /\ \A i \in 1..Len(s) : t[i] = s[i]
      /\ t[Len(s) + 1] = e
  BY <1>1, AppendProperties
<1>3. IsList(t)
  BY <1>2, SeqOfRange DEF IsList
<1> HIDE DEF t
<1>4. Len(s) \in Nat /\ DOMAIN s = 1..Len(s) /\ DOMAIN t = 1..(Len(s) + 1)
  BY <1>2, <1>3, ListShape
<1>5. \A k \in DOMAIN t : k \in DOMAIN s \/ k = Len(s) + 1
  BY <1>4
<1>6. DOMAIN s \subseteq DOMAIN t /\ Len(s) + 1 \in DOMAIN t
  BY <1>4
<1>7. Ids(t) = Ids(s) \cup {e.id}
  BY <1>2, <1>4, <1>5, <1>6 DEF Ids
<1> QED
  BY <1>3, <1>7 DEF t

\* Vec::extend: the ids of both.
LEMMA ConcatJoinsIds ==
  ASSUME NEW s, IsList(s), NEW t, IsList(t)
  PROVE  IsList(s \o t) /\ Ids(s \o t) = Ids(s) \cup Ids(t)
<1> DEFINE T == Range(s) \cup Range(t)
           c == s \o t
<1>1. s \in Seq(T) /\ t \in Seq(T)
  <2>1. Range(s) \subseteq T /\ Range(t) \subseteq T
    OBVIOUS
  <2> QED
    BY <2>1, SeqMonotonic DEF IsList
<1>2. /\ c \in Seq(T) /\ Len(c) = Len(s) + Len(t)
      /\ \A i \in 1..Len(s) + Len(t) : c[i] = IF i <= Len(s) THEN s[i] ELSE t[i - Len(s)]
  BY <1>1, ConcatProperties
<1>3. IsList(c)
  BY <1>2, SeqOfRange DEF IsList
<1>4. Ids(c) = {x.id : x \in Range(c)} /\ Ids(s) = {x.id : x \in Range(s)}
      /\ Ids(t) = {x.id : x \in Range(t)}
  BY DEF Ids, Range
<1>5. Range(c) = Range(s) \cup Range(t)
  BY <1>1, RangeConcatenation
<1> QED
  BY <1>3, <1>4, <1>5

\* The screen found has the id asked for, and the layout has it (Layout::find).
LEMMA FindMatches ==
  ASSUME NEW s, NEW id, NEW f \in Find(s, id)
  PROVE  f.id = id /\ id \in Ids(s)
BY DEF Find, IsFirst, Ids

\* The ranks of n positions are 1 to n, each once.
LEMMA RanksCount ==
  ASSUME NEW n \in Nat, NEW kept \in SUBSET (1..n)
  PROVE  /\ Cardinality(kept) \in Nat
         /\ \A k \in kept : RankIn(kept, k) \in 1..Cardinality(kept)
         /\ \A j, k \in kept : RankIn(kept, j) = RankIn(kept, k) => j = k
         /\ \A r \in 1..Cardinality(kept) : \E k \in kept : RankIn(kept, k) = r
<1> DEFINE upto(k) == {j \in kept : j <= k}
           rank == [k \in kept |-> RankIn(kept, k)]
<1>1. IsFiniteSet(kept) /\ Cardinality(kept) \in Nat
  <2>1. IsFiniteSet(1..n)
    BY FS_Interval
  <2>2. IsFiniteSet(kept)
    BY <2>1, FS_Subset
  <2> QED
    BY <2>2, FS_CardinalityType
<1>2. \A k \in kept : /\ upto(k) \in SUBSET kept /\ k \in upto(k)
                      /\ IsFiniteSet(upto(k))
                      /\ RankIn(kept, k) = Cardinality(upto(k))
                      /\ RankIn(kept, k) \in Nat
                      /\ RankIn(kept, k) <= Cardinality(kept)
  <2> TAKE k \in kept
  <2>1. upto(k) \in SUBSET kept /\ k \in upto(k)
    OBVIOUS
  <2>2. IsFiniteSet(upto(k)) /\ Cardinality(upto(k)) <= Cardinality(kept)
    BY <1>1, <2>1, FS_Subset
  <2>3. Cardinality(upto(k)) \in Nat
    BY <2>2, FS_CardinalityType
  <2> QED
    BY <2>1, <2>2, <2>3 DEF RankIn
<1>3. \A k \in kept : RankIn(kept, k) \in 1..Cardinality(kept)
  <2> TAKE k \in kept
  <2>1. Cardinality(upto(k)) # 0
    BY <1>2, FS_EmptySet
  <2> QED
    BY <1>1, <1>2, <2>1
<1>4. \A j, k \in kept : j < k => RankIn(kept, j) # RankIn(kept, k)
  <2> SUFFICES ASSUME NEW j \in kept, NEW k \in kept, j < k,
                      RankIn(kept, j) = RankIn(kept, k)
               PROVE  FALSE
    OBVIOUS
  <2>0. \A i \in kept : i \in Int
    OBVIOUS
  <2>1. j \in Int /\ k \in Int
    BY <2>0
  <2>2. \A i \in kept : i <= j => i <= k
    BY <2>0, <2>1
  <2>3. ~(k <= j) /\ k <= k
    BY <2>1
  <2>4. upto(j) \in SUBSET upto(k) /\ k \notin upto(j) /\ k \in upto(k)
    BY <2>2, <2>3
  <2>5. upto(k) = upto(j)
    BY <1>2, <2>4, FS_Subset
  <2> QED
    BY <2>4, <2>5
<1>5. \A j, k \in kept : RankIn(kept, j) = RankIn(kept, k) => j = k
  BY <1>4
<1>6. \A r \in 1..Cardinality(kept) : \E k \in kept : RankIn(kept, k) = r
  <2> DEFINE R == 1..Cardinality(kept)
  <2>1. IsFiniteSet(R) /\ Cardinality(R) = Cardinality(kept)
    BY <1>1, FS_Interval
  <2>2. rank \in Injection(kept, R)
    BY <1>3, <1>5 DEF Injection, IsInjective
  <2>3. rank \in Surjection(kept, R)
    BY <1>1, <2>1, <2>2, FS_Injection
  <2> QED
    BY <2>3 DEF Surjection
<1> QED
  BY <1>1, <1>3, <1>5, <1>6

\* Vec::retain keeps the elements at the positions kept, and no other.
LEMMA RetainKeeps ==
  ASSUME NEW s, IsList(s), NEW kept \in SUBSET DOMAIN s
  PROVE  IsList(Retain(s, kept)) /\ Ids(Retain(s, kept)) = {s[k].id : k \in kept}
<1> DEFINE C == Cardinality(kept)
           t == Retain(s, kept)
           at(r) == CHOOSE k \in kept : RankIn(kept, k) = r
<1>1. kept \in SUBSET (1..Len(s)) /\ Len(s) \in Nat
  BY ListShape
<1>2. /\ C \in Nat
      /\ \A k \in kept : RankIn(kept, k) \in 1..C
      /\ \A j, k \in kept : RankIn(kept, j) = RankIn(kept, k) => j = k
      /\ \A r \in 1..C : \E k \in kept : RankIn(kept, k) = r
  BY <1>1, RanksCount
<1>3. t = [r \in 1..C |-> s[at(r)]]
  BY DEF Retain
<1>4. \A r \in 1..C : at(r) \in kept /\ RankIn(kept, at(r)) = r
  BY <1>2
<1>5. \A k \in kept : at(RankIn(kept, k)) = k
  BY <1>2, <1>4
<1> HIDE DEF C, t, at
<1>6. t \in [1..C -> Range(s)]
  BY <1>3, <1>4 DEF Range
<1>7. IsList(t)
  BY <1>2, <1>6, FunctionIsList
<1>8. Ids(t) \subseteq {s[k].id : k \in kept}
  BY <1>3, <1>4 DEF Ids
<1>9. \A k \in kept : s[k].id \in Ids(t)
  <2> TAKE k \in kept
  <2>1. RankIn(kept, k) \in DOMAIN t /\ t[RankIn(kept, k)] = s[k]
    BY <1>2, <1>3, <1>5 DEF C
  <2> QED
    BY <2>1 DEF Ids
<1> QED
  BY <1>7, <1>8, <1>9 DEF t

\* Dropping the screens with an id takes that id away and no other.
LEMMA WithoutIdDropsId ==
  ASSUME NEW s, IsList(s), NEW id
  PROVE  IsList(WithoutId(s, id)) /\ Ids(WithoutId(s, id)) = Ids(s) \ {id}
<1> DEFINE kept == {k \in DOMAIN s : s[k].id # id}
<1>1. IsList(Retain(s, kept)) /\ Ids(Retain(s, kept)) = {s[k].id : k \in kept}
  BY RetainKeeps
<1>2. {s[k].id : k \in kept} = Ids(s) \ {id}
  BY DEF Ids
<1> QED
  BY <1>1, <1>2 DEF WithoutId

\* A ray never comes back to the screen it left, and lands on a screen of the
\* layout (Layout::neighbor).
THEOREM NeighborIsAnotherScreen ==
  ASSUME NEW s, NEW id, NEW d, NEW x, NEW y, NEW n \in Neighbor(s, id, d, x, y)
  PROVE  n.id \in Ids(s) /\ n.id # id
<1> DEFINE p == IF Along(d) = "x" THEN y ELSE x
<1>0. PICK from \in Find(s, id) :
        n \in {EntryPoint(s[k], d, x, y) : k \in BestCandidates(s, from, d, p)}
  BY DEF Neighbor
<1>1. PICK k \in BestCandidates(s, from, d, p) : n = EntryPoint(s[k], d, x, y)
  BY <1>0
<1>2. from.id = id
  BY <1>0, FindMatches
<1>3. k \in DOMAIN s /\ s[k].id # id
  BY <1>1, <1>2 DEF BestCandidates, Candidates
<1>4. n.id = s[k].id
  BY <1>1 DEF EntryPoint
<1> QED
  BY <1>3, <1>4 DEF Ids

\* The clamp puts any point inside a rectangle that has pixels (clamp_to).
THEOREM ClampLandsInside ==
  ASSUME NEW r \in Rects, r.w > 0, r.h > 0, NEW p \in [x : Int, y : Int]
  PROVE  LET q == ClampTo(r, p) IN Contains(r, q.x, q.y)
BY DEF Rects, ClampTo, Clamp, AtMost, Contains

-----------------------------------------------------------------------------
(* The invariant                                                             *)

\* The parts of the state the invariants rest on: lists of screens, a screen
\* for the server, and client ids that are never the server's.
StructureOK ==
  /\ IsList(screens) /\ IsList(dynamic)
  /\ HOME \in Ids(screens)
  /\ HOME \notin admitted /\ connected \subseteq admitted

\* The latches set belong to the screen the cursor is on: those of the server's own
\* capture at home, those of the client's away.
LatchesMatchMode ==
  /\ mode = HOME => /\ remote_at_wall = {} /\ remote_beacon_at = {}
                    /\ remote_last_out = {} /\ remote_pushing = {}
  /\ mode # HOME => at_wall = {} /\ last_out = {} /\ pushing = {}

\* RemoteIsReachable and LatchesMatchMode, made inductive.
Inv == StructureOK /\ RemoteIsReachable /\ LatchesMatchMode

\* What no input event changes.
fixed == <<desktop, connected, admitted>>

\* A call that is answered with a switch, to the screen the cursor is now on and on which
\* no latch is set.
SwitchStep == \E id, x, y : mode' = id /\ NoLatches' /\ out' = <<SwitchTo(id, x, y)>>

\* A call that leaves the cursor on its screen and is answered with a message at most, or
\* the clock, which answers nothing.
QuietStep ==
  /\ mode' = mode
  /\ \/ out' = <<>>
     \/ out' = out
     \/ \E m : m.kind = "Send" /\ out' = <<m>>

\* A step that leaves the desktop and the connections alone and has the cursor
\* where it was, at home, or on a connected client's screen.
Moves ==
  /\ UNCHANGED fixed
  /\ mode' = mode \/ (mode' \in Ids(screens) /\ Reachable(mode'))
  /\ LatchesMatchMode'
  /\ SwitchStep \/ QuietStep

-----------------------------------------------------------------------------
\* A crossing leads to a screen of the layout that can be entered
\* (Session::reachable, consulted before every switch).
LEMMA CrossingLands ==
  ASSUME NEW from, NEW d, NEW p, NEW n \in Crossing(from, d, p)
  PROVE  n.id \in Ids(screens) /\ Reachable(n.id)
<1>1. PICK m \in Neighbor(screens, from, d, p.x, p.y) :
        /\ Reachable(m.id)
        /\ n \in {InsetEntry(s, d, m.x, m.y) : s \in Find(screens, m.id)}
  BY DEF Crossing
<1>2. PICK s \in Find(screens, m.id) : n = InsetEntry(s, d, m.x, m.y)
  BY <1>1
<1>3. n.id = s.id
  BY <1>2 DEF InsetEntry
<1> QED
  BY <1>1, <1>3, FindMatches

\* Entering a screen clears every latch (enter_screen).
LEMMA EnterClears ==
  ASSUME NEW id, NEW x, NEW y, Enter(id, x, y)
  PROVE  mode' = id /\ NoLatches' /\ LatchesMatchMode'
BY DEF Enter, ClearBoundaryState, NoLatches, LatchesMatchMode

LEMMA CrossMoves ==
  ASSUME NEW from, NEW d, NEW p, NEW n \in Crossing(from, d, p), Cross(n), UNCHANGED fixed
  PROVE  Moves
<1>1. mode' = n.id /\ LatchesMatchMode' /\ NoLatches' /\ out' = <<SwitchTo(n.id, n.x, n.y)>>
  BY EnterClears DEF Cross
<1> QED
  BY <1>1, CrossingLands DEF Moves, SwitchStep

\* A step at home that stays there touches none of the client's latches, and
\* the other way round.
LEMMA StayMoves ==
  ASSUME Inv, UNCHANGED fixed, QuietStep,
         \/ mode = HOME /\ UNCHANGED far_latches
         \/ mode # HOME /\ UNCHANGED near_latches
  PROVE  Moves
BY DEF Inv, Moves, QuietStep, LatchesMatchMode, far_latches, near_latches

LEMMA LocalMotionMoves ==
  ASSUME Inv, NEW dx, NEW dy, LocalMotion(dx, dy)
  PROVE  Moves
<1> DEFINE at == [x |-> cursor.x + dx, y |-> cursor.y + dy]
           pushed == PushedEdges(dx, dy)
           pulled == PulledEdges(dx, dy)
<1>1. mode = HOME /\ UNCHANGED fixed
  BY DEF LocalMotion, desktop, peers, fixed
<1>2. \/ LocalPush(at, pushed)
      \/ LocalInside(at, pushed, pulled)
      \/ LocalPinned(at, pushed, pulled)
      \/ LocalFallback(at, pushed)
  BY DEF LocalMotion
<1> HIDE DEF at, pushed, pulled
<1>3. CASE LocalPush(at, pushed)
  <2>1. PICK d \in Directions : \E n \in Crossing(HOME, d, at) : Cross(n)
    BY <1>3 DEF LocalPush, PushedEdges, FirstEdge, pushed
  <2> QED
    BY <1>1, <2>1, CrossMoves
<1>4. CASE LocalInside(at, pushed, pulled)
  BY <1>1, <1>4, StayMoves DEF LocalInside, Stay, QuietStep
<1>5. CASE LocalPinned(at, pushed, pulled)
  BY <1>1, <1>5, StayMoves DEF LocalPinned, Stay, QuietStep
<1>6. CASE LocalFallback(at, pushed)
  <2>1. PICK d : \E n \in Crossing(HOME, d, ClampTo(local, at)) : Cross(n)
    BY <1>6 DEF LocalFallback
  <2> QED
    BY <1>1, <2>1, CrossMoves
<1> QED
  BY <1>2, <1>3, <1>4, <1>5, <1>6

LEMMA LocalBeaconMoves ==
  ASSUME Inv, NEW x, NEW y, LocalBeacon(x, y)
  PROVE  Moves
<1> DEFINE at == [x |-> local.x + x, y |-> local.y + y]
<1>1. mode = HOME /\ UNCHANGED fixed
  BY DEF LocalBeacon, desktop, peers, fixed
<1>2. \/ \E d : \E n \in Crossing(HOME, d, at) : Cross(n)
      \/ QuietStep /\ UNCHANGED far_latches
  BY DEF LocalBeacon, Stay, QuietStep
<1> HIDE DEF at
<1>3. CASE \E d : \E n \in Crossing(HOME, d, at) : Cross(n)
  BY <1>1, <1>3, CrossMoves
<1>4. CASE QuietStep /\ UNCHANGED far_latches
  BY <1>1, <1>4, StayMoves
<1> QED
  BY <1>2, <1>3, <1>4

LEMMA RemoteMotionMoves ==
  ASSUME Inv, NEW dx, NEW dy, RemoteMotion(dx, dy)
  PROVE  Moves
<1> DEFINE sx == Whole(dx * gain + gain_rem.x)
           sy == Whole(dy * gain + gain_rem.y)
           at == [x |-> cursor.x + sx, y |-> cursor.y + sy]
           pushed == PushedEdges(sx, sy)
           pulled == PulledEdges(sx, sy)
           armed == ArmedEdges(at, pushed)
<1>1. mode # HOME /\ UNCHANGED fixed
  BY DEF RemoteMotion, desktop, peers, fixed
<1>2. \/ RemotePush(at, armed)
      \/ RemoteRefused(at, armed, pushed, pulled)
      \/ RemoteForward(pushed, pulled, sx, sy)
      \/ RemoteFallback(at)
  BY DEF RemoteMotion
<1> HIDE DEF sx, sy, at, pushed, pulled, armed
<1>3. CASE RemotePush(at, armed)
  <2>1. PICK d : \E n \in Crossing(mode, d, at) : Cross(n)
    BY <1>3 DEF RemotePush
  <2> QED
    BY <1>1, <2>1, CrossMoves
<1>4. CASE RemoteRefused(at, armed, pushed, pulled)
  BY <1>1, <1>4, StayMoves DEF RemoteRefused, Stay, QuietStep
<1>5. CASE RemoteForward(pushed, pulled, sx, sy)
  BY <1>1, <1>5, StayMoves DEF RemoteForward, SendMotion, QuietStep
<1>6. CASE RemoteFallback(at)
  <2>1. PICK s \in Find(screens, mode), d \in ExitDirection(screens, mode, at.x, at.y) :
          \E n \in Crossing(mode, d, ClampTo(s.rect, at)) : Cross(n)
    BY <1>6 DEF RemoteFallback
  <2> QED
    BY <1>1, <2>1, CrossMoves
<1> QED
  BY <1>2, <1>3, <1>4, <1>5, <1>6

LEMMA RemoteBeaconMoves ==
  ASSUME Inv, NEW x, NEW y, RemoteBeacon(x, y)
  PROVE  Moves
<1>1. mode # HOME /\ UNCHANGED fixed
  BY DEF RemoteBeacon, desktop, peers, fixed
<1>2. \/ \E d, p : \E n \in Crossing(mode, d, p) : Cross(n)
      \/ QuietStep /\ UNCHANGED near_latches
  BY DEF RemoteBeacon, Stay, QuietStep
<1>3. CASE \E d, p : \E n \in Crossing(mode, d, p) : Cross(n)
  BY <1>1, <1>3, CrossMoves
<1>4. CASE QuietStep /\ UNCHANGED near_latches
  BY <1>1, <1>4, StayMoves
<1> QED
  BY <1>2, <1>3, <1>4

\* force_local and jump_to go where the cursor is answered.
LEMMA RequestMoves ==
  ASSUME Inv,
         \/ Escape
         \/ \E name : SwitchToScreen(name)
         \/ SwitchNext
  PROVE  Moves
<1>1. CASE Escape
  <2>1. mode' = HOME /\ LatchesMatchMode' /\ SwitchStep /\ UNCHANGED fixed
    BY <1>1, EnterClears DEF Escape, ForceLocal, SwitchStep, fixed, peers
  <2> QED
    BY <2>1 DEF Moves, Inv, StructureOK, Reachable
<1>2. CASE \/ \E name : SwitchToScreen(name)
           \/ SwitchNext
  <2>1. UNCHANGED fixed
    BY <1>2 DEF SwitchToScreen, SwitchNext, fixed, desktop, peers
  <2>2. PICK id : Reachable(id) /\ JumpTo(id)
    BY <1>2 DEF SwitchToScreen, SwitchNext
  <2>3. mode' = id /\ LatchesMatchMode' /\ SwitchStep /\ id \in Ids(screens)
    BY <2>2, EnterClears, FindMatches DEF JumpTo, SwitchStep
  <2> QED
    BY <2>1, <2>2, <2>3 DEF Moves
<1> QED
  BY <1>1, <1>2

LEMMA ForwardMoves ==
  ASSUME Inv, ForwardInput("key") \/ ToggleLock
  PROVE  Moves
BY DEF ForwardInput, ToggleLock, Moves, QuietStep, SendInput, fixed, peers, near_latches,
       far_latches, Inv, LatchesMatchMode

\* Every input event moves the cursor only where it is answered.
LEMMA InputMoves ==
  ASSUME Inv, InputEvent
  PROVE  Moves
<1>1. CASE \E d \in Deltas : LocalMotion(d.dx, d.dy) \/ RemoteMotion(d.dx, d.dy)
  BY <1>1, LocalMotionMoves, RemoteMotionMoves
<1>2. CASE \E p \in HomeSpots : LocalBeacon(p.x, p.y)
  BY <1>2, LocalBeaconMoves
<1>3. CASE ForwardInput("key") \/ ToggleLock
  BY <1>3, ForwardMoves
<1>4. CASE \/ Escape \/ GoHome \/ SwitchNext
           \/ \E s \in {screens[k].name : k \in DOMAIN screens} : SwitchToScreen(s)
  BY <1>4, RequestMoves DEF GoHome
<1> QED
  BY <1>1, <1>2, <1>3, <1>4 DEF InputEvent

\* A message from the client the cursor is on, a gain change and the clock.
LEMMA OtherMoves ==
  ASSUME Inv,
         \/ \E p \in FarSpots : RemoteBeacon(p.x, p.y)
         \/ \E g \in Gains : SetGain(g)
         \/ Tick
  PROVE  Moves
<1>1. CASE \E p \in FarSpots : RemoteBeacon(p.x, p.y)
  BY <1>1, RemoteBeaconMoves
<1>2. CASE \E g \in Gains : SetGain(g)
  BY <1>2 DEF SetGain, Moves, QuietStep, fixed, peers, near_latches, far_latches, Inv,
              LatchesMatchMode
<1>3. CASE Tick
  BY <1>3 DEF Tick, Older, Moves, QuietStep, fixed, peers, Inv, LatchesMatchMode
<1> QED
  BY <1>1, <1>2, <1>3

\* Whatever moves the cursor only where it can be answered keeps the invariant.
LEMMA MovesKeepsInv ==
  ASSUME Inv, Moves
  PROVE  Inv'
BY DEF Inv, Moves, fixed, desktop, StructureOK, RemoteIsReachable, Reachable
-----------------------------------------------------------------------------
\* A configuration makes a layout: a list, with the server's screen first.
LEMMA ToLayoutIsList ==
  ASSUME NEW config \in Configs
  PROVE  IsList(ToLayout(config)) /\ HOME \in Ids(ToLayout(config))
<1> DEFINE screen(k) == [id |-> k - 1, name |-> config[k].name, rect |-> config[k].rect]
           placed == [k \in DOMAIN config |-> screen(k)]
<1>1. /\ config \in Seq([name : STRING, rect : Rects]) /\ config # <<>>
      /\ Len(config) \in Nat /\ Len(config) # 0 /\ DOMAIN config = 1..Len(config)
  BY ConfigAssumption, LenProperties, EmptySeq
<1>2. placed \in [1..Len(config) -> {screen(k) : k \in DOMAIN config}]
  BY <1>1
<1>3. IsList(placed)
  BY <1>1, <1>2, FunctionIsList
<1>4. HOME \in Ids(placed)
  <2>1. 1 \in DOMAIN placed /\ placed[1].id = HOME
    BY <1>1 DEF HOME
  <2> QED
    BY <2>1 DEF Ids
<1>5. ToLayout(config) = Normalized(placed)
  BY DEF ToLayout
<1> QED
  BY <1>3, <1>4, <1>5, NormalizedKeepsIds

LEMMA InitInv == Init => Inv
<1> SUFFICES ASSUME Init PROVE Inv
  OBVIOUS
<1>1. IsList(screens) /\ HOME \in Ids(screens)
  BY ToLayoutIsList DEF Init
<1>2. IsList(dynamic)
  BY FunctionIsList, EmptySeq, SeqOfRange DEF Init, IsList
<1> QED
  BY <1>1, <1>2 DEF Init, Inv, StructureOK, RemoteIsReachable, LatchesMatchMode

-----------------------------------------------------------------------------
(* Connections and layouts.  Each lemma gives the invariant and the step of *)
(* Switching that the call takes, or says that it takes none.               *)

Stutters == UNCHANGED <<mode, connected, screens>>

\* A configured client is admitted under the id of its screen (admit).
LEMMA AdmitKnownStep ==
  ASSUME Inv, NEW name, AdmitKnown(name)
  PROVE  Inv' /\ Stutters
<1>1. PICK id : id # HOME /\ admitted' = admitted \cup {id}
  BY DEF AdmitKnown, IsFirst
<1>2. UNCHANGED <<screens, dynamic, mode, connected, near_latches, far_latches>>
  BY DEF AdmitKnown, desktop
<1> QED
  BY <1>1, <1>2 DEF Stutters, Inv, StructureOK, RemoteIsReachable, LatchesMatchMode,
                    near_latches, far_latches

\* Another client gets a screen of its own at the right of all (admit).
LEMMA AdmitNewStep ==
  ASSUME Inv, NEW name, NEW size, AdmitNew(name, size)
  PROVE  Inv' /\ Promise!Rearrange
<1>0. PICK id \in 1..MAX_ID : \E screen :
        /\ screen.id = id
        /\ dynamic' = Append(dynamic, screen)
        /\ screens' = Normalized(Append(screens, screen))
        /\ admitted' = admitted \cup {id}
  BY DEF AdmitNew
<1>1. PICK screen :
        /\ screen.id = id
        /\ dynamic' = Append(dynamic, screen)
        /\ screens' = Normalized(Append(screens, screen))
        /\ admitted' = admitted \cup {id}
  BY <1>0
<1>2. UNCHANGED <<mode, connected, near_latches, far_latches>>
  BY DEF AdmitNew
<1>3. IsList(screens') /\ Ids(screens') = Ids(screens) \cup {id}
  BY <1>1, AppendAddsId, NormalizedKeepsIds DEF Inv, StructureOK
<1>4. IsList(dynamic')
  BY <1>1, AppendAddsId DEF Inv, StructureOK
<1>5. HOME \notin admitted'
  BY <1>1, IdAssumption DEF Inv, StructureOK, HOME
<1>6. StructureOK'
  BY <1>1, <1>2, <1>3, <1>4, <1>5 DEF Inv, StructureOK
<1>7. RemoteIsReachable' /\ LatchesMatchMode'
  BY <1>2, <1>3 DEF Inv, RemoteIsReachable, LatchesMatchMode, near_latches, far_latches
<1>8. Promise!Rearrange
  BY <1>2, <1>3 DEF Inv, StructureOK, Promise!Rearrange, Promise!HOME, HOME
<1> QED
  BY <1>6, <1>7, <1>8 DEF Inv

\* A resize keeps every screen's id (update_screen_info).
LEMMA UpdateStep ==
  ASSUME Inv, NEW id, NEW size, UpdateScreenInfo(id, size)
  PROVE  Inv' /\ UNCHANGED <<mode, connected>> /\ Ids(screens') = Ids(screens)
<1> DEFINE new(k) == IF IsFirst(k, {j \in DOMAIN screens : screens[j].id = id})
                     THEN Resized(screens[k], size) ELSE screens[k]
<1>1. screens' = [k \in DOMAIN screens |-> new(k)]
  BY DEF UpdateScreenInfo
<1>2. \A k \in DOMAIN screens : new(k).id = screens[k].id
  BY DEF Resized
<1> HIDE DEF new
<1>3. Ids(screens') = Ids(screens)
  BY <1>1, <1>2 DEF Ids
<1>4. screens' \in [1..Len(screens) -> {new(k) : k \in DOMAIN screens}]
  BY <1>1, ListShape DEF Inv, StructureOK
<1>5. IsList(screens')
  BY <1>4, ListShape, FunctionIsList DEF Inv, StructureOK
<1>6. UNCHANGED <<mode, dynamic, near_latches, far_latches, connected, admitted>>
  BY DEF UpdateScreenInfo, peers
<1> QED
  BY <1>3, <1>5, <1>6 DEF Inv, StructureOK, RemoteIsReachable, LatchesMatchMode,
                          near_latches, far_latches

\* Registering a connection (client_connected).
LEMMA ConnectStep ==
  ASSUME Inv, NEW id \in admitted, ClientConnected(id)
  PROVE  Inv' /\ Promise!Connect
BY DEF ClientConnected, Promise!Connect, Inv, StructureOK, RemoteIsReachable,
       LatchesMatchMode, desktop, near_latches, far_latches

\* The connection goes, and the cursor with it if it was there.
LEMMA DisconnectGoesHome ==
  ASSUME Inv, NEW id \in admitted, Disconnect(id)
  PROVE  /\ connected' = connected \ {id} /\ id # HOME
         /\ \/ mode = id /\ mode' = HOME /\ LatchesMatchMode'
            \/ mode # id /\ mode' = mode
BY EnterClears DEF Disconnect, ForceLocal, Inv, StructureOK

\* A lost connection brings the cursor home (client_disconnected).
LEMMA DisconnectedStep ==
  ASSUME Inv, NEW id \in admitted, ClientDisconnected(id)
  PROVE  Inv' /\ (Promise!Lose(id) \/ Stutters)
<1>1. UNCHANGED <<screens, dynamic, admitted>>
  BY DEF ClientDisconnected, desktop
<1>2. /\ connected' = connected \ {id} /\ id # HOME
      /\ \/ mode = id /\ mode' = HOME /\ LatchesMatchMode'
         \/ mode # id /\ mode' = mode
  BY DisconnectGoesHome DEF ClientDisconnected
<1>3. LatchesMatchMode'
  BY <1>2 DEF ClientDisconnected, Inv, LatchesMatchMode, near_latches, far_latches
<1> QED
  BY <1>1, <1>2, <1>3 DEF Inv, StructureOK, RemoteIsReachable, Promise!Lose, Promise!HOME,
                          HOME

\* A removed client loses its dynamic screen too (client_removed).
LEMMA RemovedStep ==
  ASSUME Inv, NEW id \in admitted, ClientRemoved(id)
  PROVE  Inv' /\ Promise!Lose(id)
<1>1. /\ connected' = connected \ {id} /\ id # HOME
      /\ \/ mode = id /\ mode' = HOME /\ LatchesMatchMode'
         \/ mode # id /\ mode' = mode
  BY DisconnectGoesHome DEF ClientRemoved
<1>2. admitted' = admitted
  BY DEF ClientRemoved
<1>3. CASE id \in Ids(screens)
  <2>1. /\ screens' = Normalized(WithoutId(screens, id))
        /\ dynamic' = WithoutId(dynamic, id)
        /\ ClearBoundaryState
    BY <1>3 DEF ClientRemoved
  <2>2. IsList(screens') /\ Ids(screens') = Ids(screens) \ {id} /\ IsList(dynamic')
    BY <2>1, WithoutIdDropsId, NormalizedKeepsIds DEF Inv, StructureOK
  <2>3. LatchesMatchMode'
    BY <2>1 DEF ClearBoundaryState, LatchesMatchMode
  <2> QED
    BY <1>1, <1>2, <2>2, <2>3 DEF Inv, StructureOK, RemoteIsReachable, Promise!Lose,
                                   Promise!HOME, HOME
<1>4. CASE id \notin Ids(screens)
  <2>1. UNCHANGED <<screens, dynamic, near_latches, far_latches>>
    BY <1>4 DEF ClientRemoved
  <2>2. LatchesMatchMode'
    BY <1>1, <2>1 DEF Inv, LatchesMatchMode, near_latches, far_latches
  <2> QED
    BY <1>1, <1>2, <2>1, <2>2 DEF Inv, StructureOK, RemoteIsReachable, Promise!Lose,
                                   Promise!HOME, HOME
<1> QED
  BY <1>3, <1>4

\* A reload takes the cursor home, and keeps the server's screen.
LEMMA SwapStep ==
  ASSUME Inv, NEW config \in Configs, SwapLayout(ToLayout(config))
  PROVE  Inv' /\ Promise!Rearrange
<1> DEFINE layout == ToLayout(config)
           unpinned == {k \in DOMAIN dynamic :
                          \A j \in DOMAIN layout : layout[j].name # dynamic[k].name}
           kept == Retain(dynamic, unpinned)
<1>1. IsList(layout) /\ HOME \in Ids(layout)
  BY ToLayoutIsList
<1> HIDE DEF layout
<1>2. IsList(kept)
  BY RetainKeeps DEF Inv, StructureOK
<1>3. /\ dynamic' = kept
      /\ screens' = Normalized(layout \o kept)
      /\ mode' = HOME
      /\ ClearBoundaryState
      /\ UNCHANGED <<connected, admitted>>
  BY DEF SwapLayout, peers, layout
<1> HIDE DEF kept
<1>4. IsList(screens') /\ HOME \in Ids(screens')
  BY <1>1, <1>2, <1>3, ConcatJoinsIds, NormalizedKeepsIds
<1> QED
  BY <1>2, <1>3, <1>4 DEF Inv, StructureOK, RemoteIsReachable, ClearBoundaryState,
                          LatchesMatchMode, Promise!Rearrange, Promise!HOME, HOME

-----------------------------------------------------------------------------
(* The theorems *)

\* A step that moves the cursor is a switch of the abstract specification, or
\* none of its steps.
LEMMA MovesIsSwitch ==
  ASSUME Inv, Moves
  PROVE  Promise!Switch \/ Stutters
BY DEF Moves, fixed, desktop, Reachable, Stutters, Promise!Switch, Promise!HOME, HOME, Inv, StructureOK,
       RemoteIsReachable

\* Every step keeps the invariant and is a step of Switching, or none.
LEMMA StepLemma ==
  ASSUME Inv, [Next]_vars
  PROVE  Inv' /\ [Promise!Next]_(Promise!vars)
<1>1. CASE \/ InputEvent
           \/ \E p \in FarSpots : RemoteBeacon(p.x, p.y)
           \/ \E g \in Gains : SetGain(g)
           \/ Tick
  <2>1. Moves
    BY <1>1, InputMoves, OtherMoves
  <2>2. Inv'
    BY <2>1, MovesKeepsInv
  <2>3. Promise!Switch \/ Stutters
    BY <2>1, MovesIsSwitch
  <2> QED
    BY <2>2, <2>3 DEF Stutters, Promise!Next, Promise!vars, Ids
<1>2. CASE \E name \in Clients : AdmitKnown(name) \/ \E size \in Sizes : AdmitNew(name, size)
  <2>1. Inv' /\ (Promise!Rearrange \/ Stutters)
    BY <1>2, AdmitKnownStep, AdmitNewStep
  <2> QED
    BY <2>1 DEF Stutters, Promise!Next, Promise!vars, Ids
<1>3. CASE \E id \in admitted : \E size \in Sizes : UpdateScreenInfo(id, size)
  <2>1. Inv' /\ UNCHANGED <<mode, connected>> /\ Ids(screens') = Ids(screens)
    BY <1>3, UpdateStep
  <2>2. Ids(screens)' = Ids(screens)
    BY <2>1 DEF Ids
  <2> QED
    BY <2>1, <2>2 DEF Promise!vars
<1>4. CASE \E id \in admitted : ClientConnected(id)
  <2>1. Inv' /\ Promise!Connect
    BY <1>4, ConnectStep
  <2> QED
    BY <2>1 DEF Promise!Next
<1>5. CASE \E id \in admitted : ClientDisconnected(id) \/ ClientRemoved(id)
  <2>1. PICK id \in admitted : Inv' /\ (Promise!Lose(id) \/ Stutters)
    BY <1>5, DisconnectedStep, RemovedStep
  <2>2. CASE Stutters
    BY <2>1, <2>2 DEF Stutters, Promise!vars, Ids
  <2>3. CASE Promise!Lose(id)
    <3>1. CASE id \in Ids(screens) \cup connected \cup {mode}
      BY <2>1, <2>3, <3>1 DEF Promise!Next
    <3>2. CASE id \notin Ids(screens) \cup connected \cup {mode}
      BY <2>1, <2>3, <3>2 DEF Promise!Lose, Promise!vars
    <3> QED
      BY <3>1, <3>2
  <2> QED
    BY <2>1, <2>2, <2>3
<1>6. CASE \E config \in Configs : SwapLayout(ToLayout(config))
  <2>1. Inv' /\ Promise!Rearrange
    BY <1>6, SwapStep
  <2> QED
    BY <2>1 DEF Promise!Next
<1>7. CASE UNCHANGED vars
  <2>1. UNCHANGED <<screens, dynamic, mode, connected, admitted, near_latches, far_latches>>
    BY <1>7 DEF vars, desktop, peers
  <2> QED
    BY <2>1 DEF Inv, StructureOK, RemoteIsReachable, LatchesMatchMode, near_latches,
                far_latches, Promise!vars, Ids
<1> QED
  BY <1>1, <1>2, <1>3, <1>4, <1>5, <1>6, <1>7 DEF Next, ServerCall

\* The inductive invariant of the session holds throughout, whatever the order of
\* its public calls.
THEOREM InvHolds == Spec => []Inv
<1>1. Inv /\ [Next]_vars => Inv'
  BY StepLemma
<1> QED
  BY InitInv, <1>1, PTL DEF Spec

\* The cursor is home or on the screen of a connected client, for every
\* desktop and every order of calls (Session::connected).
THEOREM ReachableTheorem == Spec => []RemoteIsReachable
<1>1. Inv => RemoteIsReachable
  BY DEF Inv
<1> QED
  BY InvHolds, <1>1, PTL

\* What a call that loses or removes a client, or reloads the desktop, is answered with:
\* the switch home if the cursor moves, and nothing otherwise.
LEMMA ServerAnswers ==
  ASSUME NEW id, NEW layout,
         ClientDisconnected(id) \/ ClientRemoved(id) \/ SwapLayout(layout)
  PROVE  (SwitchStep \/ QuietStep) /\ (local' = local \/ NoLatches')
<1>1. CASE ClientDisconnected(id) \/ ClientRemoved(id)
  <2>1. local' = local
    BY <1>1 DEF ClientDisconnected, ClientRemoved, desktop
  <2>2. CASE mode = id /\ ForceLocal
    BY <2>1, <2>2, EnterClears DEF ForceLocal, SwitchStep
  <2>3. CASE mode' = mode /\ out' = <<>>
    BY <2>1, <2>3 DEF QuietStep
  <2> QED
    BY <1>1, <2>2, <2>3 DEF ClientDisconnected, ClientRemoved, Disconnect
<1>2. CASE SwapLayout(layout)
  <2>1. mode' = HOME /\ NoLatches'
    BY <1>2 DEF SwapLayout, ClearBoundaryState, NoLatches
  <2>2. PICK home : out' = IF mode = HOME THEN <<>>
                           ELSE <<SwitchTo(HOME, Center(home.rect).x, Center(home.rect).y)>>
    BY <1>2 DEF SwapLayout
  <2> QED
    BY <2>1, <2>2 DEF SwitchStep, QuietStep
<1> QED
  BY <1>1, <1>2

\* Every call is answered in one of the two ways, and only a call that clears the latches
\* gives the server's screen another shape.
LEMMA CallsAnswer ==
  ASSUME Inv, Next
  PROVE  (SwitchStep \/ QuietStep) /\ (local' = local \/ NoLatches')
<1>1. CASE \/ InputEvent \/ Tick
           \/ \E p \in FarSpots : RemoteBeacon(p.x, p.y)
           \/ \E g \in Gains : SetGain(g)
  BY <1>1, InputMoves, OtherMoves DEF Moves, fixed, desktop
<1>2. CASE \/ \E name \in Clients : AdmitKnown(name) \/ \E size \in Sizes : AdmitNew(name, size)
           \/ \E id \in admitted : (\E size \in Sizes : UpdateScreenInfo(id, size))
                                  \/ ClientConnected(id)
  BY <1>2 DEF AdmitKnown, AdmitNew, UpdateScreenInfo, ClientConnected, QuietStep, desktop
<1>3. CASE \/ \E id \in admitted : ClientDisconnected(id) \/ ClientRemoved(id)
           \/ \E config \in Configs : SwapLayout(ToLayout(config))
  BY <1>3, ServerAnswers
<1> QED
  BY <1>1, <1>2, <1>3 DEF Next, ServerCall

\* However the cursor comes to another screen - a crossing, a request, a loss, a removal,
\* a reload - no push, armed wall or beacon of before is left there (clear_boundary_state).
THEOREM LatchesTheorem == Spec => LatchesStartAfresh
<1>1. Inv /\ [Next]_vars => [mode' # mode \/ local' # local => NoLatches']_vars
  BY CallsAnswer DEF SwitchStep, QuietStep
<1> QED
  BY InvHolds, <1>1, PTL DEF Spec, LatchesStartAfresh

\* The switch last returned, if any, is to the screen the cursor is on.
LastSwitch == \A k \in DOMAIN out : IsSwitch(out[k]) => out[k].to = mode

LEMMA AnswersName ==
  ASSUME LastSwitch, SwitchStep \/ QuietStep
  PROVE  LastSwitch' /\ (mode' # mode => \E k \in DOMAIN out' : IsSwitch(out'[k]))
<1>1. CASE SwitchStep
  <2>1. PICK id, x, y : mode' = id /\ out' = <<SwitchTo(id, x, y)>>
    BY <1>1 DEF SwitchStep
  <2>2. SwitchTo(id, x, y).to = id /\ IsSwitch(SwitchTo(id, x, y))
    BY DEF SwitchTo, IsSwitch
  <2> QED
    BY <2>1, <2>2 DEF LastSwitch
<1>2. CASE QuietStep
  BY <1>2 DEF QuietStep, LastSwitch, IsSwitch
<1> QED
  BY <1>1, <1>2

\* Whoever carries out what the calls return has the cursor where the session has it: a
\* change of screen is always announced, and nothing else is.
THEOREM ToldTheorem == Spec => WorldIsTold
<1>1. Init => LastSwitch
  BY DEF Init, LastSwitch
<1>2. Inv /\ LastSwitch /\ [Next]_vars => LastSwitch'
  BY CallsAnswer, AnswersName DEF vars, LastSwitch
<1>3. Inv /\ LastSwitch /\ [Next]_vars =>
        [/\ mode' # mode => \E k \in DOMAIN out' : IsSwitch(out'[k])
         /\ \A k \in DOMAIN out' : IsSwitch(out'[k]) => out'[k].to = mode']_vars
  BY CallsAnswer, AnswersName DEF LastSwitch
<1> QED
  BY InvHolds, <1>1, <1>2, <1>3, PTL DEF Spec, WorldIsTold

\* The session implements the geometry-free promise.
THEOREM RefinementTheorem == Spec => ImplementsSwitching
<1>1. Init => Promise!Init
  BY InitInv DEF Init, Inv, StructureOK, Promise!Init, Promise!HOME, HOME
<1>2. Inv /\ [Next]_vars => [Promise!Next]_(Promise!vars)
  BY StepLemma
<1> QED
  BY InvHolds, <1>1, <1>2, PTL DEF Spec, ImplementsSwitching, Promise!Spec

\* What the abstract specification promises: the cursor is home or on a screen
\* of the desktop whose client is connected, and the server always has its
\* screen, whatever switches, losses and rearrangements follow one another.
LEMMA AnsweredStep ==
  ASSUME Promise!CursorIsAnswered, [Promise!Next]_(Promise!vars)
  PROVE  Promise!CursorIsAnswered'
<1>1. CASE Promise!Switch
  BY <1>1 DEF Promise!Switch, Promise!CursorIsAnswered, Promise!HOME
<1>2. CASE Promise!Connect
  BY <1>2 DEF Promise!Connect, Promise!CursorIsAnswered, Promise!HOME
<1>3. CASE \E id \in Ids(screens) \cup connected \cup {mode} : Promise!Lose(id)
  BY <1>3 DEF Promise!Lose, Promise!CursorIsAnswered, Promise!HOME
<1>4. CASE Promise!Rearrange
  BY <1>4 DEF Promise!Rearrange, Promise!CursorIsAnswered, Promise!HOME
<1>5. CASE UNCHANGED Promise!vars
  BY <1>5 DEF Promise!vars, Promise!CursorIsAnswered
<1> QED
  BY <1>1, <1>2, <1>3, <1>4, <1>5 DEF Promise!Next

\* The abstract promise of control switching keeps the cursor home or on a connected
\* client's screen of the desktop.
THEOREM AnsweredTheorem == Spec => []Promise!CursorIsAnswered
<1>1. Promise!Init => Promise!CursorIsAnswered
  BY DEF Promise!Init, Promise!CursorIsAnswered, Promise!HOME
<1> QED
  BY <1>1, AnsweredStep, RefinementTheorem, PTL DEF ImplementsSwitching, Promise!Spec

\* An edge crossing lands inside the screen it enters, whatever the cursor's
\* overshoot and however narrow the screen (inset_entry after neighbor).
THEOREM CrossingEntersInside ==
  ASSUME NEW s, s.rect \in Rects, s.rect.w > 0, s.rect.h > 0,
         NEW d \in Directions, NEW x \in Int, NEW y \in Int
  PROVE  LET p == EntryPoint(s, d, x, y)
             n == InsetEntry(s, d, p.x, p.y)
         IN n.x \in 0..s.rect.w - 1 /\ n.y \in 0..s.rect.h - 1
<1> DEFINE p == EntryPoint(s, d, x, y)
           n == InsetEntry(s, d, p.x, p.y)
           inX == 0..s.rect.w - 1
           inY == 0..s.rect.h - 1
<1>1. /\ s.rect.x \in Int /\ s.rect.y \in Int /\ s.rect.w \in Int /\ s.rect.h \in Int
      /\ ENTRY_INSET \in Nat
  BY InsetAssumption DEF Rects
<1>2. Clamp(x - s.rect.x, 0, AtLeast(0, s.rect.w - 1)) \in inX
  BY <1>1 DEF Clamp, AtMost, AtLeast
<1>3. Clamp(y - s.rect.y, 0, AtLeast(0, s.rect.h - 1)) \in inY
  BY <1>1 DEF Clamp, AtMost, AtLeast
<1>4. \A v \in inX : AtLeast(0, v - ENTRY_INSET) \in inX /\ AtMost(s.rect.w - 1, v + ENTRY_INSET) \in inX
  BY <1>1 DEF AtMost, AtLeast
<1>5. \A v \in inY : AtLeast(0, v - ENTRY_INSET) \in inY /\ AtMost(s.rect.h - 1, v + ENTRY_INSET) \in inY
  BY <1>1 DEF AtMost, AtLeast
<1>6. 0 \in inX /\ AtLeast(0, s.rect.w - 1) \in inX /\ 0 \in inY /\ AtLeast(0, s.rect.h - 1) \in inY
  BY <1>1 DEF AtLeast
<1> HIDE DEF inX, inY
<1>7. p.x \in inX /\ p.y \in inY
  <2>1. CASE d = "Left"
    BY <1>3, <1>6, <2>1, Zenon DEF EntryPoint
  <2>2. CASE d = "Right"
    BY <1>3, <1>6, <2>2, Zenon DEF EntryPoint
  <2>3. CASE d = "Top"
    BY <1>2, <1>6, <2>3, Zenon DEF EntryPoint
  <2>4. CASE d = "Bottom"
    BY <1>2, <1>6, <2>4, Zenon DEF EntryPoint
  <2> QED
    BY <2>1, <2>2, <2>3, <2>4 DEF Directions
<1> HIDE DEF p
<1>8. n.x \in inX /\ n.y \in inY
  <2>1. CASE d = "Left"
    BY <1>4, <1>7, <2>1, Zenon DEF InsetEntry
  <2>2. CASE d = "Right"
    BY <1>4, <1>7, <2>2, Zenon DEF InsetEntry
  <2>3. CASE d = "Top"
    BY <1>5, <1>7, <2>3, Zenon DEF InsetEntry
  <2>4. CASE d = "Bottom"
    BY <1>5, <1>7, <2>4, Zenon DEF InsetEntry
  <2> QED
    BY <2>1, <2>2, <2>3, <2>4 DEF Directions
<1> QED
  BY <1>8 DEF p, n, inX, inY

-----------------------------------------------------------------------------
(* Types *)

LayoutTyped(s) == \A k \in DOMAIN s : s[k].id \in 0..MAX_ID /\ s[k].rect \in Rects

DesktopTyped == LayoutTyped(screens) /\ LayoutTyped(dynamic) /\ local \in Rects

CursorTyped == cursor \in Points /\ mode \in 0..MAX_ID

LatchesTyped ==
  /\ at_wall \subseteq Directions /\ remote_at_wall \subseteq Directions
  /\ last_out \in PushLatches(PUSH_FRESH) /\ remote_last_out \in PushLatches(PUSH_FRESH)
  /\ pushing \in PushLatches(PUSH_FALLBACK) /\ remote_pushing \in PushLatches(PUSH_FALLBACK)
  /\ remote_beacon_at \in {{}} \cup {{age} : age \in 0..BEACON_FRESH}

ScaleTyped == gain \in Int /\ gain_rem \in Points

PeersTyped == connected \subseteq admitted /\ admitted \subseteq 1..MAX_ID

TypeInv ==
  DesktopTyped /\ CursorTyped /\ LatchesTyped /\ ScaleTyped /\ PeersTyped /\ walls_locked \in BOOLEAN

LEMMA FindIsTyped ==
  ASSUME NEW s, LayoutTyped(s), NEW id, NEW f \in Find(s, id)
  PROVE  f.id = id /\ f.id \in 0..MAX_ID /\ f.rect \in Rects
BY FindMatches DEF Find, IsFirst, LayoutTyped

LEMMA CenterIsPoint ==
  ASSUME NEW r \in Rects
  PROVE  Center(r) \in Points
BY DEF Center, Points, Rects

LEMMA ClampIsPoint ==
  ASSUME NEW r \in Rects, NEW p \in Points
  PROVE  ClampTo(r, p) \in Points
BY DEF ClampTo, Clamp, AtMost, Points, Rects

LEMMA EntryIsPoint ==
  ASSUME NEW s, s.rect \in Rects, NEW d, NEW x \in Int, NEW y \in Int
  PROVE  EntryPoint(s, d, x, y).x \in Int /\ EntryPoint(s, d, x, y).y \in Int
<1> DEFINE lastX == AtLeast(0, s.rect.w - 1)
           lastY == AtLeast(0, s.rect.h - 1)
<1>1. /\ lastX \in Int /\ lastY \in Int /\ 0 \in Int
      /\ Clamp(x - s.rect.x, 0, lastX) \in Int /\ Clamp(y - s.rect.y, 0, lastY) \in Int
  BY DEF Rects, AtLeast, AtMost, Clamp
<1> HIDE DEF lastX, lastY
<1>2. EntryPoint(s, d, x, y).x \in {lastX, 0, Clamp(x - s.rect.x, 0, lastX)}
  BY DEF EntryPoint, lastX, lastY
<1>3. EntryPoint(s, d, x, y).y \in {lastY, 0, Clamp(y - s.rect.y, 0, lastY)}
  BY DEF EntryPoint, lastX, lastY
<1> QED BY <1>1, <1>2, <1>3

LEMMA InsetIsPoint ==
  ASSUME NEW s, s.rect \in Rects, NEW d, NEW x \in Int, NEW y \in Int
  PROVE  InsetEntry(s, d, x, y).x \in Int /\ InsetEntry(s, d, x, y).y \in Int
<1> DEFINE n == InsetEntry(s, d, x, y)
<1>1. /\ AtLeast(0, x - ENTRY_INSET) \in Int /\ AtMost(s.rect.w - 1, x + ENTRY_INSET) \in Int
      /\ AtLeast(0, y - ENTRY_INSET) \in Int /\ AtMost(s.rect.h - 1, y + ENTRY_INSET) \in Int
  BY InsetAssumption DEF Rects, AtLeast, AtMost
<1>2. n.x \in {AtLeast(0, x - ENTRY_INSET), AtMost(s.rect.w - 1, x + ENTRY_INSET), x}
  BY DEF InsetEntry
<1>3. n.y \in {AtLeast(0, y - ENTRY_INSET), AtMost(s.rect.h - 1, y + ENTRY_INSET), y}
  BY DEF InsetEntry
<1> QED BY <1>1, <1>2, <1>3

\* A switch clears the latches and puts the cursor at the point given, relative
\* to a screen of the layout (enter_screen).
LEMMA EnterIsTyped ==
  ASSUME DesktopTyped, NEW id, NEW x \in Int, NEW y \in Int, Enter(id, x, y)
  PROVE  CursorTyped' /\ LatchesTyped'
<1>1. PICK s \in Find(screens, id) : cursor' = [x |-> s.rect.x + x, y |-> s.rect.y + y]
  BY DEF Enter
<1>2. s.id = id /\ s.id \in 0..MAX_ID /\ s.rect \in Rects
  BY FindIsTyped DEF DesktopTyped
<1>3. CursorTyped'
  BY <1>1, <1>2 DEF Enter, CursorTyped, Points, Rects
<1>4. LatchesTyped'
  BY DEF Enter, ClearBoundaryState, LatchesTyped, PushLatches
<1> QED BY <1>3, <1>4

LEMMA CrossIsTyped ==
  ASSUME DesktopTyped, NEW from, NEW d, NEW p \in Points, NEW n \in Crossing(from, d, p), Cross(n)
  PROVE  CursorTyped' /\ LatchesTyped'
<1>1. PICK m \in Neighbor(screens, from, d, p.x, p.y) :
        n \in {InsetEntry(s, d, m.x, m.y) : s \in Find(screens, m.id)}
  BY DEF Crossing
<1>2. PICK s \in Find(screens, m.id) : n = InsetEntry(s, d, m.x, m.y)
  BY <1>1
<1>3. PICK k \in DOMAIN screens : m = EntryPoint(screens[k], d, p.x, p.y)
  BY DEF Neighbor, BestCandidates, Candidates
<1>4. p.x \in Int /\ p.y \in Int /\ screens[k].rect \in Rects /\ s.rect \in Rects
  BY FindIsTyped DEF DesktopTyped, LayoutTyped, Points
<1>5. m.x \in Int /\ m.y \in Int
  BY <1>3, <1>4, EntryIsPoint
<1>6. n.x \in Int /\ n.y \in Int
  BY <1>2, <1>4, <1>5, InsetIsPoint
<1> QED BY <1>6, EnterIsTyped DEF Cross

\* The order in which the handlers try the edges.
LEMMA RankIs ==
  /\ Rank("Left") = 1 /\ Rank("Right") = 2 /\ Rank("Top") = 3 /\ Rank("Bottom") = 4
  /\ \A d \in Directions : Rank(d) \in 1..4
  /\ \A d, e \in Directions : Rank(d) = Rank(e) => d = e
<1>1. /\ DIRS[1] = "Left" /\ DIRS[2] = "Right" /\ DIRS[3] = "Top" /\ DIRS[4] = "Bottom"
  BY DEF DIRS
<1>2. \A k \in 1..4 : k = 1 \/ k = 2 \/ k = 3 \/ k = 4
  OBVIOUS
<1>3. Rank("Left") = 1 /\ Rank("Right") = 2 /\ Rank("Top") = 3 /\ Rank("Bottom") = 4
  BY <1>1, <1>2 DEF Rank
<1> QED BY <1>3 DEF Directions

\* Of several edges pushed at once the last one tried is remembered, one only.
LEMMA PushLatchIs ==
  ASSUME NEW pushed \in SUBSET Directions, pushed # {}, NEW old
  PROVE  \E d \in pushed : PushLatch(pushed, old) = {[dir |-> d, age |-> 0]}
<1> DEFINE Last(e) == pushed \subseteq EdgesBefore(e) \cup {e}
<1>1. \E d \in pushed : Last(d)
  <2>1. CASE "Bottom" \in pushed BY <2>1, RankIs DEF EdgesBefore, Directions
  <2>2. CASE "Bottom" \notin pushed /\ "Top" \in pushed
    BY <2>2, RankIs DEF EdgesBefore, Directions
  <2>3. CASE "Bottom" \notin pushed /\ "Top" \notin pushed /\ "Right" \in pushed
    BY <2>3, RankIs DEF EdgesBefore, Directions
  <2>4. CASE pushed = {"Left"} BY <2>4
  <2> QED BY <2>1, <2>2, <2>3, <2>4 DEF Directions
<1>2. PICK d \in pushed : Last(d)
  BY <1>1
<1>3. \A e \in pushed : Last(e) => e = d
  <2> SUFFICES ASSUME NEW e \in pushed, Last(e), e # d PROVE FALSE
    OBVIOUS
  <2>1. d \in EdgesBefore(e) /\ e \in EdgesBefore(d)
    BY <1>2
  <2>2. Rank(d) < Rank(e) /\ Rank(e) < Rank(d)
    BY <2>1 DEF EdgesBefore
  <2> QED BY <2>2, RankIs
<1>4. {e \in pushed : Last(e)} = {d}
  BY <1>2, <1>3
<1>5. PushLatch(pushed, old) = {[dir |-> e, age |-> 0] : e \in {f \in pushed : Last(f)}}
  BY DEF PushLatch
<1> HIDE DEF Last
<1> QED BY <1>4, <1>5

LEMMA PushLatchIsTyped ==
  ASSUME NEW pushed \in SUBSET Directions, NEW old \in PushLatches(PUSH_FRESH)
  PROVE  PushLatch(pushed, old) \in PushLatches(PUSH_FRESH)
<1>1. CASE pushed = {} BY <1>1 DEF PushLatch
<1>2. CASE pushed # {}
  <2>1. PICK d \in pushed : PushLatch(pushed, old) = {[dir |-> d, age |-> 0]}
    BY <1>2, PushLatchIs
  <2>2. [dir |-> d, age |-> 0] \in [dir : Directions, age : 0..PUSH_FRESH]
    BY TickAssumption
  <2> QED BY <2>1, <2>2 DEF PushLatches
<1> QED BY <1>1, <1>2

LEMMA KeepPushingIsTyped ==
  ASSUME NEW old \in PushLatches(PUSH_FALLBACK), NEW d \in Directions
  PROVE  KeepPushing(old, d) \in PushLatches(PUSH_FALLBACK) /\ {} \in PushLatches(PUSH_FALLBACK)
<1>1. [dir |-> d, age |-> 0] \in [dir : Directions, age : 0..PUSH_FALLBACK]
  BY TickAssumption
<1> QED BY <1>1 DEF KeepPushing, PushLatches

LEMMA OlderIsTyped ==
  ASSUME NEW cap \in Nat, NEW old \in PushLatches(cap)
  PROVE  Older(old, cap) \in PushLatches(cap)
<1>1. CASE old = {} BY <1>1 DEF Older, PushLatches
<1>2. CASE old # {}
  <2>1. PICK p \in [dir : Directions, age : 0..cap] : old = {p}
    BY <1>2 DEF PushLatches
  <2>2. [p EXCEPT !.age = AtMost(cap, p.age + 1)] \in [dir : Directions, age : 0..cap]
    BY DEF AtMost
  <2>3. Older(old, cap) = {[p EXCEPT !.age = AtMost(cap, p.age + 1)]}
    BY <2>1 DEF Older
  <2> QED BY <2>2, <2>3 DEF PushLatches
<1> QED BY <1>1, <1>2

LEMMA EdgesAreDirections ==
  /\ \A dx, dy : PushedEdges(dx, dy) \subseteq Directions /\ PulledEdges(dx, dy) \subseteq Directions
  /\ \A r, x, y : WallBits(r, x, y) \subseteq Directions
  /\ \A s, id, x, y : ExitDirection(s, id, x, y) \subseteq Directions
<1>1. \A dx, dy : PushedEdges(dx, dy) \subseteq Directions /\ PulledEdges(dx, dy) \subseteq Directions
  BY DEF PushedEdges, PulledEdges
<1>2. \A r, x, y : WallBits(r, x, y) \subseteq Directions
  BY DEF WallBits
<1>3. \A s, id, x, y : ExitDirection(s, id, x, y) \subseteq Directions
  BY DEF ExitDirection, Directions
<1> QED BY <1>1, <1>2, <1>3

LEMMA LocalMotionTyped ==
  ASSUME TypeInv, NEW dx \in Int, NEW dy \in Int, LocalMotion(dx, dy)
  PROVE  TypeInv'
<1> DEFINE at == [x |-> cursor.x + dx, y |-> cursor.y + dy]
           pushed == PushedEdges(dx, dy)
           pulled == PulledEdges(dx, dy)
<1>1. /\ UNCHANGED <<screens, local, dynamic, gain, gain_rem, connected, admitted, walls_locked>>
      /\ \/ LocalPush(at, pushed)
         \/ LocalInside(at, pushed, pulled)
         \/ LocalPinned(at, pushed, pulled)
         \/ LocalFallback(at, pushed)
  BY DEF LocalMotion, desktop, motion_scale, peers
<1>2. at \in Points /\ ClampTo(local, at) \in Points
  <2>1. at \in Points
    BY DEF TypeInv, CursorTyped, Points
  <2> QED BY <2>1, ClampIsPoint DEF TypeInv, DesktopTyped
<1>3. pushed \in SUBSET Directions /\ pulled \in SUBSET Directions
  BY EdgesAreDirections
<1>4. DesktopTyped /\ LatchesTyped
  BY DEF TypeInv
<1> HIDE DEF at, pushed, pulled
<1>5. /\ PushLatch(pushed, last_out) \in PushLatches(PUSH_FRESH)
      /\ {} \in PushLatches(PUSH_FALLBACK)
      /\ \A d \in Directions : KeepPushing(pushing, d) \in PushLatches(PUSH_FALLBACK)
  BY <1>3, <1>4, PushLatchIsTyped, KeepPushingIsTyped DEF LatchesTyped, PushLatches
<1>6. CursorTyped' /\ LatchesTyped'
  <2>1. CASE LocalPush(at, pushed)
    <3>1. PICK d : \E n \in Crossing(HOME, d, at) : Cross(n)
      BY <2>1 DEF LocalPush
    <3> QED BY <1>2, <1>4, <3>1, CrossIsTyped
  <2>2. CASE LocalInside(at, pushed, pulled)
    BY <1>2, <1>3, <1>4, <1>5, <2>2
       DEF LocalInside, Stay, TypeInv, CursorTyped, LatchesTyped, far_latches
  <2>3. CASE LocalPinned(at, pushed, pulled)
    <3>1. pushing' \in PushLatches(PUSH_FALLBACK)
      BY <1>5, <2>3, EdgesAreDirections DEF LocalPinned
    <3> QED
      BY <1>2, <1>3, <1>4, <1>5, <2>3, <3>1
         DEF LocalPinned, Stay, TypeInv, CursorTyped, LatchesTyped, far_latches
  <2>4. CASE LocalFallback(at, pushed)
    <3>1. PICK d : \E n \in Crossing(HOME, d, ClampTo(local, at)) : Cross(n)
      BY <2>4 DEF LocalFallback
    <3> QED BY <1>2, <1>4, <3>1, CrossIsTyped
  <2> QED BY <1>1, <2>1, <2>2, <2>3, <2>4
<1> QED BY <1>1, <1>6 DEF TypeInv, DesktopTyped, ScaleTyped, PeersTyped

LEMMA LocalBeaconTyped ==
  ASSUME TypeInv, NEW x \in Int, NEW y \in Int, LocalBeacon(x, y)
  PROVE  TypeInv'
<1> DEFINE at == [x |-> local.x + x, y |-> local.y + y]
           bits == WallBits(local, x, y)
<1>1. UNCHANGED <<screens, local, dynamic, gain, gain_rem, connected, admitted, walls_locked>>
  BY DEF LocalBeacon, desktop, motion_scale, peers
<1>2. at \in Points /\ bits \subseteq Directions
  BY EdgesAreDirections DEF TypeInv, DesktopTyped, Points, Rects
<1>3. \/ \E d : \E n \in Crossing(HOME, d, at) : Cross(n)
      \/ /\ cursor' = at /\ at_wall' = bits
         /\ pushing' = IF bits = {} THEN {} ELSE pushing
         /\ mode' = mode /\ UNCHANGED <<last_out, far_latches>>
  BY DEF LocalBeacon, Stay
<1> HIDE DEF at, bits
<1>4. DesktopTyped /\ LatchesTyped
  BY DEF TypeInv
<1>5. CursorTyped' /\ LatchesTyped'
  <2>1. CASE \E d : \E n \in Crossing(HOME, d, at) : Cross(n)
    BY <1>2, <1>4, <2>1, CrossIsTyped
  <2>2. CASE /\ cursor' = at /\ at_wall' = bits
             /\ pushing' = IF bits = {} THEN {} ELSE pushing
             /\ mode' = mode /\ UNCHANGED <<last_out, far_latches>>
    BY <1>2, <1>4, <2>2 DEF TypeInv, CursorTyped, LatchesTyped, PushLatches, far_latches
  <2> QED BY <1>3, <2>1, <2>2
<1> QED BY <1>1, <1>5 DEF TypeInv, DesktopTyped, ScaleTyped, PeersTyped

LEMMA WholeIsInt ==
  ASSUME NEW v \in Int
  PROVE  Whole(v) \in Int
<1>1. GAIN_DEN \in Nat \ {0}
  BY InputAssumption
<1>2. v \div GAIN_DEN \in Int /\ (-v) \div GAIN_DEN \in Int
  BY <1>1
<1> QED BY <1>2 DEF Whole

LEMMA ScaledIsInt ==
  ASSUME ScaleTyped, NEW dx \in Int, NEW dy \in Int
  PROVE  LET rx == dx * gain + gain_rem.x
             ry == dy * gain + gain_rem.y
         IN /\ Whole(rx) \in Int /\ Whole(ry) \in Int
            /\ [x |-> rx - Whole(rx) * GAIN_DEN, y |-> ry - Whole(ry) * GAIN_DEN] \in Points
<1> DEFINE rx == dx * gain + gain_rem.x
           ry == dy * gain + gain_rem.y
<1>1. rx \in Int /\ ry \in Int /\ GAIN_DEN \in Int
  BY InputAssumption DEF ScaleTyped, Points
<1> HIDE DEF rx, ry
<1>2. Whole(rx) \in Int /\ Whole(ry) \in Int
  BY <1>1, WholeIsInt
<1>3. rx - Whole(rx) * GAIN_DEN \in Int /\ ry - Whole(ry) * GAIN_DEN \in Int
  BY <1>1, <1>2
<1> QED BY <1>2, <1>3 DEF Points, rx, ry

LEMMA RemoteMotionTyped ==
  ASSUME TypeInv, NEW dx \in Int, NEW dy \in Int, RemoteMotion(dx, dy)
  PROVE  TypeInv'
<1> DEFINE rx == dx * gain + gain_rem.x
           ry == dy * gain + gain_rem.y
           sx == Whole(rx)
           sy == Whole(ry)
           at == [x |-> cursor.x + sx, y |-> cursor.y + sy]
           pushed == PushedEdges(sx, sy)
           pulled == PulledEdges(sx, sy)
           armed == ArmedEdges(at, pushed)
<1>1. /\ UNCHANGED <<screens, local, dynamic, gain, connected, admitted, walls_locked>>
      /\ gain_rem' = [x |-> rx - sx * GAIN_DEN, y |-> ry - sy * GAIN_DEN]
      /\ \/ RemotePush(at, armed)
         \/ RemoteRefused(at, armed, pushed, pulled)
         \/ RemoteInside(at) /\ RemoteForward(pushed, pulled, sx, sy)
         \/ RemotePinned(at) /\ RemoteForward(pushed, pulled, sx, sy)
         \/ RemoteFallback(at)
  BY DEF RemoteMotion, desktop, peers
<1>2. sx \in Int /\ sy \in Int /\ gain_rem' \in Points
  BY <1>1, ScaledIsInt DEF TypeInv
<1> HIDE DEF rx, ry, sx, sy
<1>3. at \in Points /\ pushed \in SUBSET Directions /\ pulled \in SUBSET Directions
      /\ armed \subseteq Directions
  <2>1. at \in Points
    BY <1>2 DEF TypeInv, CursorTyped, Points
  <2>2. pushed \in SUBSET Directions /\ pulled \in SUBSET Directions
    BY EdgesAreDirections
  <2> HIDE DEF at, pushed, pulled
  <2> QED BY <2>1, <2>2 DEF ArmedEdges
<1> HIDE DEF at, pushed, pulled, armed
<1>4. DesktopTyped /\ LatchesTyped
  BY DEF TypeInv
<1>5. /\ PushLatch(pushed, remote_last_out) \in PushLatches(PUSH_FRESH)
      /\ {} \in PushLatches(PUSH_FALLBACK)
      /\ \A d \in Directions : KeepPushing(remote_pushing, d) \in PushLatches(PUSH_FALLBACK)
      /\ \A d \in Directions : {[dir |-> d, age |-> 0]} \in PushLatches(PUSH_FRESH)
  <2>1. \A d \in Directions : [dir |-> d, age |-> 0] \in [dir : Directions, age : 0..PUSH_FRESH]
    BY TickAssumption
  <2> QED
    BY <1>3, <1>4, <2>1, PushLatchIsTyped, KeepPushingIsTyped DEF LatchesTyped, PushLatches
<1>6. \A s \in Find(screens, mode) : ClampTo(s.rect, at) \in Points
  BY <1>3, <1>4, FindIsTyped, ClampIsPoint DEF DesktopTyped
<1>7. ASSUME RemoteForward(pushed, pulled, sx, sy), cursor' \in Points,
             remote_pushing' \in PushLatches(PUSH_FALLBACK)
      PROVE  CursorTyped' /\ LatchesTyped'
  BY <1>4, <1>5, <1>7 DEF RemoteForward, near_latches, TypeInv, CursorTyped, LatchesTyped
<1>8. CursorTyped' /\ LatchesTyped'
  <2>1. CASE RemotePush(at, armed)
    <3>1. PICK d : \E n \in Crossing(mode, d, at) : Cross(n)
      BY <2>1 DEF RemotePush
    <3> QED BY <1>3, <1>4, <3>1, CrossIsTyped
  <2>2. CASE RemoteRefused(at, armed, pushed, pulled)
    <3>1. /\ remote_at_wall' \subseteq remote_at_wall
          /\ remote_last_out' \in PushLatches(PUSH_FRESH)
          /\ cursor' = at /\ mode' = mode
          /\ UNCHANGED <<near_latches, remote_beacon_at, remote_pushing>>
      BY <1>3, <1>5, <2>2 DEF RemoteRefused, Stay
    <3> QED
      BY <1>3, <1>4, <3>1 DEF near_latches, TypeInv, CursorTyped, LatchesTyped
  <2>3. CASE RemoteInside(at) /\ RemoteForward(pushed, pulled, sx, sy)
    BY <1>3, <1>5, <1>7, <2>3 DEF RemoteInside
  <2>4. CASE RemotePinned(at) /\ RemoteForward(pushed, pulled, sx, sy)
    <3>1. cursor' \in Points /\ remote_pushing' \in PushLatches(PUSH_FALLBACK)
      BY <1>5, <1>6, <2>4, EdgesAreDirections DEF RemotePinned
    <3> QED BY <1>7, <2>4, <3>1
  <2>5. CASE RemoteFallback(at)
    <3>1. PICK s \in Find(screens, mode) :
            \E d : \E n \in Crossing(mode, d, ClampTo(s.rect, at)) : Cross(n)
      BY <2>5 DEF RemoteFallback
    <3> QED BY <1>4, <1>6, <3>1, CrossIsTyped
  <2> QED BY <1>1, <2>1, <2>2, <2>3, <2>4, <2>5
<1> QED BY <1>1, <1>2, <1>8 DEF TypeInv, DesktopTyped, ScaleTyped, PeersTyped

LEMMA RemoteBeaconTyped ==
  ASSUME TypeInv, NEW x \in Int, NEW y \in Int, RemoteBeacon(x, y)
  PROVE  TypeInv'
<1>1. UNCHANGED <<screens, local, dynamic, gain, gain_rem, connected, admitted, walls_locked>>
  BY DEF RemoteBeacon, desktop, motion_scale, peers
<1>2. PICK s \in Find(screens, mode) :
        LET px == Clamp(x, 0, AtLeast(0, s.rect.w - 1))
            py == Clamp(y, 0, AtLeast(0, s.rect.h - 1))
            at == [x |-> s.rect.x + px, y |-> s.rect.y + py]
            bits == WallBits(s.rect, px, py)
        IN \/ \E d : \E n \in Crossing(mode, d, at) : Cross(n)
           \/ /\ cursor' = at
              /\ remote_beacon_at' = {0}
              /\ remote_at_wall' = bits
              /\ remote_pushing' = IF bits = {} THEN {} ELSE remote_pushing
              /\ mode' = mode /\ UNCHANGED <<near_latches, remote_last_out>>
  BY DEF RemoteBeacon, Stay
<1> DEFINE px == Clamp(x, 0, AtLeast(0, s.rect.w - 1))
           py == Clamp(y, 0, AtLeast(0, s.rect.h - 1))
           at == [x |-> s.rect.x + px, y |-> s.rect.y + py]
           bits == WallBits(s.rect, px, py)
<1>3. s.rect \in Rects
  BY FindIsTyped DEF TypeInv, DesktopTyped
<1>4. at \in Points /\ bits \subseteq Directions
  <2>1. px \in Int /\ py \in Int
    BY <1>3 DEF Rects, Clamp, AtLeast, AtMost
  <2> HIDE DEF px, py
  <2> QED BY <1>3, <2>1, EdgesAreDirections DEF Points, Rects
<1>5. \/ \E d : \E n \in Crossing(mode, d, at) : Cross(n)
      \/ /\ cursor' = at
         /\ remote_beacon_at' = {0}
         /\ remote_at_wall' = bits
         /\ remote_pushing' = IF bits = {} THEN {} ELSE remote_pushing
         /\ mode' = mode /\ UNCHANGED <<near_latches, remote_last_out>>
  BY <1>2
<1> HIDE DEF at, bits
<1>6. DesktopTyped /\ LatchesTyped
  BY DEF TypeInv
<1>7. CursorTyped' /\ LatchesTyped'
  <2>1. CASE \E d : \E n \in Crossing(mode, d, at) : Cross(n)
    BY <1>4, <1>6, <2>1, CrossIsTyped
  <2>2. CASE ~\E d : \E n \in Crossing(mode, d, at) : Cross(n)
    <3>1. {0} \in {{}} \cup {{age} : age \in 0..BEACON_FRESH}
      BY TickAssumption
    <3> QED
      BY <1>4, <1>5, <1>6, <2>2, <3>1
         DEF TypeInv, CursorTyped, LatchesTyped, PushLatches, near_latches
  <2> QED BY <2>1, <2>2
<1> QED BY <1>1, <1>7 DEF TypeInv, DesktopTyped, ScaleTyped, PeersTyped

\* The explicit switches land at the centre of a screen.
LEMMA RequestTyped ==
  ASSUME TypeInv,
         \/ Escape
         \/ \E name : SwitchToScreen(name)
         \/ SwitchNext
  PROVE  TypeInv'
<1>1. UNCHANGED <<screens, local, dynamic, gain, gain_rem, connected, admitted, walls_locked>>
  BY DEF Escape, SwitchToScreen, SwitchNext, desktop, motion_scale, peers
<1>2. \E id : \E x, y \in Int : Enter(id, x, y)
  <2>1. ASSUME NEW r \in Rects PROVE Center(r).x \in Int /\ Center(r).y \in Int
    BY CenterIsPoint DEF Points
  <2>2. CASE Escape
    <3>1. Enter(HOME, Center(local).x, Center(local).y)
      BY <2>2 DEF Escape, ForceLocal
    <3> QED BY <2>1, <3>1 DEF TypeInv, DesktopTyped
  <2>3. CASE (\E name : SwitchToScreen(name)) \/ SwitchNext
    <3>1. PICK id : \E s \in Find(screens, id) : Enter(id, Center(s.rect).x, Center(s.rect).y)
      BY <2>3 DEF SwitchToScreen, SwitchNext, JumpTo
    <3>2. PICK s \in Find(screens, id) : Enter(id, Center(s.rect).x, Center(s.rect).y)
      BY <3>1
    <3>3. s.rect \in Rects
      BY FindIsTyped DEF TypeInv, DesktopTyped
    <3> QED BY <2>1, <3>2, <3>3
  <2> QED BY <2>2, <2>3
<1>3. PICK id : \E x, y \in Int : Enter(id, x, y)
  BY <1>2
<1>4. CursorTyped' /\ LatchesTyped'
  BY <1>3, EnterIsTyped DEF TypeInv
<1> QED BY <1>1, <1>4 DEF TypeInv, DesktopTyped, ScaleTyped, PeersTyped

LEMMA QuietTyped ==
  ASSUME TypeInv, ForwardInput("key") \/ ToggleLock \/ \E g \in Gains : SetGain(g)
  PROVE  TypeInv'
<1>1. /\ UNCHANGED <<desktop, mode, cursor, near_latches, far_latches, gain_rem, peers>>
      /\ gain' \in Int /\ walls_locked' \in BOOLEAN
  BY InputAssumption
     DEF ForwardInput, ToggleLock, SetGain, motion_scale, TypeInv, ScaleTyped
<1> QED
  BY <1>1 DEF desktop, near_latches, far_latches, peers, TypeInv, DesktopTyped, CursorTyped,
              LatchesTyped, ScaleTyped, PeersTyped

\* Ages stop at the thresholds they are compared with.
LEMMA TickTyped ==
  ASSUME TypeInv, Tick
  PROVE  TypeInv'
<1>1. /\ last_out' \in PushLatches(PUSH_FRESH) /\ remote_last_out' \in PushLatches(PUSH_FRESH)
      /\ pushing' \in PushLatches(PUSH_FALLBACK) /\ remote_pushing' \in PushLatches(PUSH_FALLBACK)
  BY TickAssumption, OlderIsTyped DEF Tick, TypeInv, LatchesTyped
<1>2. remote_beacon_at' \in {{}} \cup {{age} : age \in 0..BEACON_FRESH}
  <2>1. CASE remote_beacon_at = {} BY <2>1 DEF Tick
  <2>2. CASE remote_beacon_at # {}
    <3>1. PICK age \in 0..BEACON_FRESH : remote_beacon_at = {age}
      BY <2>2 DEF TypeInv, LatchesTyped
    <3>2. AtMost(BEACON_FRESH, age + 1) \in 0..BEACON_FRESH
      BY TickAssumption DEF AtMost
    <3>3. remote_beacon_at' = {AtMost(BEACON_FRESH, age + 1)}
      BY <3>1 DEF Tick
    <3> QED BY <3>2, <3>3
  <2> QED BY <2>1, <2>2
<1>3. UNCHANGED <<screens, local, dynamic, mode, cursor, at_wall, remote_at_wall, gain, gain_rem,
                  connected, admitted, walls_locked>>
  BY DEF Tick, desktop, motion_scale, peers
<1>4. CursorTyped' /\ LatchesTyped'
  BY <1>1, <1>2, <1>3 DEF TypeInv, CursorTyped, LatchesTyped
<1> QED BY <1>3, <1>4 DEF TypeInv, DesktopTyped, ScaleTyped, PeersTyped

-----------------------------------------------------------------------------
(* Types of the layouts the server's threads bring *)

LEMMA NormalizedTyped ==
  ASSUME NEW s, IsList(s), LayoutTyped(s)
  PROVE  LayoutTyped(Normalized(s))
BY NormalizedMovesOnly DEF LayoutTyped

LEMMA AppendTyped ==
  ASSUME NEW s, IsList(s), LayoutTyped(s), NEW e, e.id \in 0..MAX_ID, e.rect \in Rects
  PROVE  LayoutTyped(Append(s, e))
<1>1. PICK t : t = Append(s, e)
  OBVIOUS
<1>2. s \in Seq(Range(s) \cup {e}) /\ e \in Range(s) \cup {e}
  <2>1. Range(s) \subseteq Range(s) \cup {e}
    OBVIOUS
  <2> QED BY <2>1, SeqMonotonic DEF IsList
<1>3. /\ t \in Seq(Range(s) \cup {e}) /\ Len(t) = Len(s) + 1
      /\ \A i \in 1..Len(s) : t[i] = s[i]
      /\ t[Len(s) + 1] = e
  BY <1>1, <1>2, AppendProperties
<1>4. Len(s) \in Nat /\ DOMAIN s = 1..Len(s) /\ DOMAIN t = 1..Len(t)
  BY <1>2, <1>3, LenProperties
<1>5. DOMAIN t = (1..Len(s)) \cup {Len(s) + 1}
  BY <1>3, <1>4
<1>6. LayoutTyped(t)
  BY <1>3, <1>4, <1>5 DEF LayoutTyped
<1> QED BY <1>1, <1>6

LEMMA ConcatTyped ==
  ASSUME NEW s, IsList(s), LayoutTyped(s), NEW t, IsList(t), LayoutTyped(t)
  PROVE  LayoutTyped(s \o t)
<1> DEFINE T == Range(s) \cup Range(t)
<1>1. s \in Seq(T) /\ t \in Seq(T)
  <2>1. Range(s) \subseteq T /\ Range(t) \subseteq T
    OBVIOUS
  <2> QED BY <2>1, SeqMonotonic DEF IsList
<1> HIDE DEF T
<1>2. \A k \in DOMAIN (s \o t) :
        \/ k \in DOMAIN s /\ (s \o t)[k] = s[k]
        \/ k - Len(s) \in DOMAIN t /\ (s \o t)[k] = t[k - Len(s)]
  BY <1>1, ConcatProperties
<1> QED BY <1>2 DEF LayoutTyped

LEMMA RetainTyped ==
  ASSUME NEW s, IsList(s), LayoutTyped(s), NEW kept \in SUBSET DOMAIN s
  PROVE  LayoutTyped(Retain(s, kept))
<1>1. kept \in SUBSET (1..Len(s)) /\ Len(s) \in Nat
  BY ListShape
<1>2. \A n \in 1..Cardinality(kept) : \E k \in kept : RankIn(kept, k) = n
  BY <1>1, RanksCount
<1>3. ASSUME NEW n \in 1..Cardinality(kept)
      PROVE  \E k \in kept : Retain(s, kept)[n] = s[k]
  <2>1. Retain(s, kept)[n] = s[CHOOSE k \in kept : RankIn(kept, k) = n]
    BY DEF Retain
  <2> QED BY <1>2, <2>1
<1>4. DOMAIN Retain(s, kept) = 1..Cardinality(kept)
  BY DEF Retain
<1> QED BY <1>3, <1>4 DEF LayoutTyped

LEMMA ToLayoutTyped ==
  ASSUME NEW config \in Configs, Len(config) <= MAX_ID + 1
  PROVE  LayoutTyped(ToLayout(config))
<1> DEFINE screen(k) == [id |-> k - 1, name |-> config[k].name, rect |-> config[k].rect]
           placed == [k \in DOMAIN config |-> screen(k)]
<1>1. /\ config \in Seq([name : STRING, rect : Rects])
      /\ Len(config) \in Nat /\ DOMAIN config = 1..Len(config)
      /\ \A k \in DOMAIN config : config[k] \in [name : STRING, rect : Rects]
  BY ConfigAssumption, LenProperties, ElementOfSeq
<1>2. IsList(placed)
  <2> DEFINE T == {screen(k) : k \in DOMAIN config}
  <2>1. placed \in [1..Len(config) -> T]
    BY <1>1
  <2> QED BY <1>1, <2>1, FunctionIsList
<1>3. LayoutTyped(placed)
  <2> SUFFICES ASSUME NEW k \in DOMAIN config
               PROVE  placed[k].id \in 0..MAX_ID /\ placed[k].rect \in Rects
    BY DEF LayoutTyped
  <2>1. placed[k].id = k - 1 /\ placed[k].rect = config[k].rect
    OBVIOUS
  <2> QED BY <1>1, <2>1, IdAssumption
<1> HIDE DEF placed
<1>4. ToLayout(config) = Normalized(placed)
  BY DEF ToLayout, placed
<1> QED BY <1>2, <1>3, <1>4, NormalizedTyped

LEMMA AdmitTyped ==
  ASSUME TypeInv, Inv, NEW name, AdmitKnown(name) \/ \E size \in Sizes : AdmitNew(name, size)
  PROVE  TypeInv'
<1>1. UNCHANGED <<local, mode, cursor, near_latches, far_latches, gain, gain_rem, connected,
                  walls_locked>>
  BY DEF AdmitKnown, AdmitNew, desktop, motion_scale
<1>2. CursorTyped' /\ LatchesTyped' /\ ScaleTyped'
  BY <1>1 DEF near_latches, far_latches, TypeInv, CursorTyped, LatchesTyped, ScaleTyped
<1>3. DesktopTyped' /\ PeersTyped'
  <2>1. CASE AdmitKnown(name)
    <3>1. PICK k \in DOMAIN screens : screens[k].id # HOME /\ admitted' = admitted \cup {screens[k].id}
      BY <2>1 DEF AdmitKnown, IsFirst
    <3>2. screens[k].id \in 1..MAX_ID
      BY <3>1, IdAssumption DEF HOME, TypeInv, DesktopTyped, LayoutTyped
    <3> QED
      BY <1>1, <2>1, <3>1, <3>2 DEF AdmitKnown, desktop, TypeInv, DesktopTyped, PeersTyped
  <2>2. CASE \E size \in Sizes : AdmitNew(name, size)
    <3>1. PICK size \in Sizes, id \in 1..MAX_ID, x \in RightEdges : \E screen :
            /\ screen.id = id
            /\ screen.rect = [x |-> x, y |-> local.y, w |-> AtLeast(1, size.w),
                              h |-> AtLeast(1, size.h)]
            /\ dynamic' = Append(dynamic, screen)
            /\ screens' = Normalized(Append(screens, screen))
            /\ admitted' = admitted \cup {id}
      BY <2>2 DEF AdmitNew
    <3>2. PICK screen :
            /\ screen.id = id
            /\ screen.rect = [x |-> x, y |-> local.y, w |-> AtLeast(1, size.w),
                              h |-> AtLeast(1, size.h)]
            /\ dynamic' = Append(dynamic, screen)
            /\ screens' = Normalized(Append(screens, screen))
            /\ admitted' = admitted \cup {id}
      BY <3>1
    <3>3. /\ x \in Int /\ local.y \in Int
          /\ AtLeast(1, size.w) \in Int /\ AtLeast(1, size.h) \in Int
      <4>1. x \in Int
        BY DEF RightEdges, TypeInv, DesktopTyped, LayoutTyped, Rects
      <4>2. size.w \in Int /\ size.h \in Int
        BY InputAssumption
      <4> QED BY <4>1, <4>2 DEF AtLeast, TypeInv, DesktopTyped, Rects
    <3>4. screen.rect \in Rects /\ screen.id \in 0..MAX_ID
      BY <3>2, <3>3 DEF Rects
    <3>5. IsList(screens) /\ IsList(dynamic) /\ LayoutTyped(screens) /\ LayoutTyped(dynamic)
      BY DEF Inv, StructureOK, TypeInv, DesktopTyped
    <3>6. LayoutTyped(Append(dynamic, screen)) /\ LayoutTyped(Append(screens, screen))
      BY <3>4, <3>5, AppendTyped
    <3>7. LayoutTyped(Normalized(Append(screens, screen)))
      BY <3>5, <3>6, AppendAddsId, NormalizedTyped
    <3> QED
      BY <1>1, <3>2, <3>6, <3>7 DEF TypeInv, DesktopTyped, LayoutTyped, PeersTyped
  <2> QED BY <2>1, <2>2
<1> QED BY <1>1, <1>2, <1>3 DEF TypeInv

LEMMA UpdateTyped ==
  ASSUME TypeInv, NEW id, NEW size \in Sizes, UpdateScreenInfo(id, size)
  PROVE  TypeInv'
<1>1. \A k \in DOMAIN screens : Resized(screens[k], size).id \in 0..MAX_ID
                               /\ Resized(screens[k], size).rect \in Rects
  <2>1. AtLeast(1, size.w) \in Int /\ AtLeast(1, size.h) \in Int
    BY InputAssumption DEF AtLeast
  <2> QED BY <2>1 DEF Resized, TypeInv, DesktopTyped, LayoutTyped, Rects
<1>2. LayoutTyped(screens')
  <2>1. screens' = [k \in DOMAIN screens |->
                      IF IsFirst(k, {j \in DOMAIN screens : screens[j].id = id})
                      THEN Resized(screens[k], size) ELSE screens[k]]
    BY DEF UpdateScreenInfo
  <2> QED BY <1>1, <2>1 DEF TypeInv, DesktopTyped, LayoutTyped
<1>3. UNCHANGED <<local, dynamic, mode, cursor, near_latches, far_latches, motion_scale, peers,
                  walls_locked>>
  BY DEF UpdateScreenInfo
<1> QED
  BY <1>2, <1>3 DEF near_latches, far_latches, motion_scale, peers, TypeInv, DesktopTyped,
     LayoutTyped, CursorTyped, LatchesTyped, ScaleTyped, PeersTyped

LEMMA DisconnectTyped ==
  ASSUME TypeInv, NEW id, Disconnect(id)
  PROVE  CursorTyped' /\ connected' \subseteq connected /\ (mode = id => LatchesTyped')
<1>1. CASE mode = id /\ ForceLocal
  <2>1. Center(local).x \in Int /\ Center(local).y \in Int
    BY CenterIsPoint DEF Points, TypeInv, DesktopTyped
  <2>2. CursorTyped' /\ LatchesTyped'
    BY <1>1, <2>1, EnterIsTyped DEF ForceLocal, TypeInv
  <2> QED BY <2>2 DEF Disconnect
<1>2. CASE mode # id /\ UNCHANGED <<mode, cursor>>
  BY <1>2 DEF Disconnect, TypeInv, CursorTyped
<1> QED BY <1>1, <1>2 DEF Disconnect

LEMMA ClearedIsTyped ==
  ASSUME ClearBoundaryState
  PROVE  LatchesTyped'
BY DEF ClearBoundaryState, LatchesTyped, PushLatches

LEMMA ConnectionTyped ==
  ASSUME TypeInv, Inv, NEW id \in admitted,
         ClientConnected(id) \/ ClientDisconnected(id) \/ ClientRemoved(id)
  PROVE  TypeInv'
<1>1. CASE ClientConnected(id)
  BY <1>1 DEF ClientConnected, desktop, near_latches, far_latches, motion_scale, TypeInv,
     DesktopTyped, LayoutTyped, CursorTyped, LatchesTyped, ScaleTyped, PeersTyped
<1>2. CASE ClientDisconnected(id)
  <2>1. CursorTyped' /\ connected' \subseteq connected /\ (mode = id => LatchesTyped')
    BY <1>2, DisconnectTyped DEF ClientDisconnected
  <2>2. LatchesTyped'
    BY <1>2, <2>1 DEF ClientDisconnected, near_latches, far_latches, TypeInv, LatchesTyped
  <2> QED
    BY <1>2, <2>1, <2>2 DEF ClientDisconnected, desktop, motion_scale, TypeInv, DesktopTyped,
       LayoutTyped, ScaleTyped, PeersTyped
<1>3. CASE ClientRemoved(id)
  <2>1. CursorTyped' /\ connected' \subseteq connected
    BY <1>3, DisconnectTyped DEF ClientRemoved
  <2>2. LatchesTyped' /\ LayoutTyped(screens') /\ LayoutTyped(dynamic')
    <3>1. CASE id \in Ids(screens)
      <4>1. /\ screens' = Normalized(WithoutId(screens, id)) /\ dynamic' = WithoutId(dynamic, id)
            /\ ClearBoundaryState
        BY <1>3, <3>1 DEF ClientRemoved
      <4>2. /\ IsList(WithoutId(screens, id)) /\ LayoutTyped(WithoutId(screens, id))
            /\ LayoutTyped(WithoutId(dynamic, id))
        BY WithoutIdDropsId, RetainTyped DEF WithoutId, Inv, StructureOK, TypeInv, DesktopTyped
      <4> QED BY <4>1, <4>2, ClearedIsTyped, NormalizedTyped
    <3>2. CASE id \notin Ids(screens)
      BY <1>3, <3>2 DEF ClientRemoved, near_latches, far_latches, TypeInv, DesktopTyped,
         LatchesTyped
    <3> QED BY <3>1, <3>2
  <2> QED
    BY <1>3, <2>1, <2>2 DEF ClientRemoved, motion_scale, TypeInv, DesktopTyped,
       LayoutTyped, ScaleTyped, PeersTyped
<1> QED BY <1>1, <1>2, <1>3

LEMMA SwapTyped ==
  ASSUME TypeInv, Inv, NEW config \in Configs, Len(config) <= MAX_ID + 1,
         SwapLayout(ToLayout(config))
  PROVE  TypeInv'
<1> DEFINE layout == ToLayout(config)
           kept == Retain(dynamic, {k \in DOMAIN dynamic :
                                      \A j \in DOMAIN layout : layout[j].name # dynamic[k].name})
<1>1. /\ \E home \in Find(layout, HOME) : local' = home.rect /\ cursor' = Center(home.rect)
      /\ dynamic' = kept /\ screens' = Normalized(layout \o kept) /\ mode' = HOME
      /\ ClearBoundaryState /\ UNCHANGED <<motion_scale, peers, walls_locked>>
  BY DEF SwapLayout
<1>2. IsList(layout) /\ LayoutTyped(layout)
  BY ToLayoutIsList, ToLayoutTyped
<1>3. IsList(kept) /\ LayoutTyped(kept)
  BY RetainKeeps, RetainTyped DEF Inv, StructureOK, TypeInv, DesktopTyped
<1> HIDE DEF layout, kept
<1>4. LayoutTyped(screens') /\ LayoutTyped(dynamic')
  BY <1>1, <1>2, <1>3, ConcatTyped, ConcatJoinsIds, NormalizedTyped
<1>5. local' \in Rects /\ CursorTyped'
  <2>1. PICK home \in Find(layout, HOME) : local' = home.rect /\ cursor' = Center(home.rect)
    BY <1>1
  <2>2. home.rect \in Rects
    BY <1>2, FindIsTyped
  <2>3. HOME \in 0..MAX_ID
    BY IdAssumption DEF HOME
  <2> QED BY <1>1, <2>1, <2>2, <2>3, CenterIsPoint DEF CursorTyped
<1> QED
  BY <1>1, <1>4, <1>5, ClearedIsTyped DEF motion_scale, peers, TypeInv, DesktopTyped, LayoutTyped,
     ScaleTyped, PeersTyped

LEMMA InitTyped ==
  ASSUME \A config \in Configs : Len(config) <= MAX_ID + 1, Init
  PROVE  TypeInv
<1>1. PICK config \in Configs :
        /\ screens = ToLayout(config)
        /\ \E home \in Find(screens, HOME) : local = home.rect /\ cursor = Center(home.rect)
  BY DEF Init
<1>2. LayoutTyped(screens)
  BY <1>1, ToLayoutTyped
<1>3. PICK home \in Find(screens, HOME) : local = home.rect /\ cursor = Center(home.rect)
  BY <1>1
<1>4. local \in Rects /\ cursor \in Points
  BY <1>2, <1>3, FindIsTyped, CenterIsPoint
<1>5. HOME \in 0..MAX_ID
  BY IdAssumption DEF HOME
<1>6. LatchesTyped
  BY DEF Init, LatchesTyped, PushLatches
<1>7. GAIN_DEN \in Int /\ [x |-> 0, y |-> 0] \in Points
  BY InputAssumption DEF Points
<1>8. LayoutTyped(dynamic)
  BY EmptySeq, LenProperties DEF Init, LayoutTyped
<1>9. mode = HOME /\ gain \in Int /\ gain_rem \in Points /\ connected = {} /\ admitted = {}
      /\ walls_locked \in BOOLEAN
  BY <1>7 DEF Init
<1> QED
  BY <1>2, <1>4, <1>5, <1>6, <1>8, <1>9 DEF TypeInv, DesktopTyped, CursorTyped, ScaleTyped,
     PeersTyped

LEMMA StepTyped ==
  ASSUME \A config \in Configs : Len(config) <= MAX_ID + 1, TypeInv, Inv, [Next]_vars
  PROVE  TypeInv'
<1>0. CASE UNCHANGED vars
  BY <1>0 DEF vars, desktop, near_latches, far_latches, motion_scale, peers, TypeInv,
     DesktopTyped, LayoutTyped, CursorTyped, LatchesTyped, ScaleTyped, PeersTyped
<1>1. CASE InputEvent
  <2>1. CASE \E d \in Deltas : LocalMotion(d.dx, d.dy) \/ RemoteMotion(d.dx, d.dy)
    BY <2>1, InputAssumption, LocalMotionTyped, RemoteMotionTyped
  <2>2. CASE \E p \in HomeSpots : LocalBeacon(p.x, p.y)
    BY <2>2, InputAssumption, LocalBeaconTyped
  <2>3. CASE ForwardInput("key") \/ ToggleLock
    BY <2>3, QuietTyped
  <2>4. CASE \/ Escape \/ GoHome \/ SwitchNext
             \/ \E s \in {screens[k].name : k \in DOMAIN screens} : SwitchToScreen(s)
    BY <2>4, RequestTyped DEF GoHome
  <2> QED BY <1>1, <2>1, <2>2, <2>3, <2>4 DEF InputEvent
<1>2. CASE ServerCall
  <2>1. CASE \E p \in FarSpots : RemoteBeacon(p.x, p.y)
    BY <2>1, InputAssumption, RemoteBeaconTyped
  <2>2. CASE \E g \in Gains : SetGain(g)
    BY <2>2, QuietTyped
  <2>3. CASE \E name \in Clients : AdmitKnown(name) \/ \E size \in Sizes : AdmitNew(name, size)
    BY <2>3, AdmitTyped
  <2>4. CASE \E id \in admitted :
               \/ \E size \in Sizes : UpdateScreenInfo(id, size)
               \/ ClientConnected(id)
               \/ ClientDisconnected(id)
               \/ ClientRemoved(id)
    BY <2>4, UpdateTyped, ConnectionTyped
  <2>5. CASE \E config \in Configs : SwapLayout(ToLayout(config))
    BY <2>5, SwapTyped
  <2> QED BY <1>2, <2>1, <2>2, <2>3, <2>4, <2>5 DEF ServerCall
<1>3. CASE Tick
  BY <1>3, TickTyped
<1> QED BY <1>0, <1>1, <1>2, <1>3 DEF Next

\* The types hold throughout, for configurations whose screens have ids to spare.
LEMMA TypesHold ==
  ASSUME \A config \in Configs : Len(config) <= MAX_ID + 1
  PROVE  Spec => []TypeInv
<1>1. Init => TypeInv
  BY InitTyped
<1>2. Inv /\ TypeInv /\ [Next]_vars => TypeInv'
  BY StepTyped
<1> QED
  BY InvHolds, <1>1, <1>2, PTL DEF Spec

\* The state keeps the types of struct Session (session/mod.rs): every latch holds at
\* most one push, no older than its threshold, and every id fits a u8.  Screens of a
\* configuration take their position for an id (`id as u8`, config/geometry.rs:17)
\* and no rule of Config::validate bounds their number: hence the hypothesis.
THEOREM TypeTheorem ==
  ASSUME \A config \in Configs : Len(config) <= MAX_ID + 1
  PROVE  Spec => []TypeOK
<1>1. TypeInv => TypeOK
  BY DEF TypeInv, TypeOK, DesktopTyped, LayoutTyped, CursorTyped, LatchesTyped, PeersTyped
<1> QED
  BY TypesHold, <1>1, PTL

-----------------------------------------------------------------------------
(* The user's intent *)

\* Screens have ids of their own, and an area.
Distinct ==
  /\ \A j, k \in DOMAIN screens : screens[j].id = screens[k].id => j = k
  /\ \A k \in DOMAIN screens : screens[k].rect.w > 0 /\ screens[k].rect.h > 0

\* The server's screen is the local one, at the origin of the desktop.
HomeIsLocal ==
  \A home \in Find(screens, HOME) :
    home.rect = local /\ AtOrigin(home.rect) /\ \A p \in HomeSpots : Contains(local, p.x, p.y)

\* The edges of r the point p lies past.
Past(r, p) == {d \in Directions : CASE d = "Left"   -> p.x < r.x
                                    [] d = "Right"  -> p.x >= r.x + r.w
                                    [] d = "Top"    -> p.y < r.y
                                    [] d = "Bottom" -> p.y >= r.y + r.h}

SeenTyped ==
  seen \in [walls  : SUBSET Directions,
            beacon : 0..BEACON_FRESH,
            push   : [Directions -> 0..PUSH_FRESH],
            tried  : [Directions -> -1..PUSH_FALLBACK]]

\* What the session remembers of walls and beacons did happen.
WallsSeen == at_wall \cup remote_at_wall \subseteq seen.walls
BeaconSeen == \A age \in remote_beacon_at : seen.beacon <= age

\* The last push remembered did happen, and none is more recent.
LastPush == last_out \cup remote_last_out
PushSeen ==
  /\ \A p \in LastPush : seen.push[p.dir] <= p.age
  /\ \A d \in Directions : seen.push[d] < PUSH_FRESH => \E p \in LastPush : p.age <= seen.push[d]

\* A push in progress has been tried for as long, and so has every edge the
\* virtual cursor is past.
TriedSeen == \A p \in pushing \cup remote_pushing : p.age <= seen.tried[p.dir]
PastTried == \A s \in Find(screens, mode) : \A d \in Past(s.rect, cursor) : 0 <= seen.tried[d]

IntentInv ==
  /\ Distinct /\ HomeIsLocal
  /\ SeenTyped /\ WallsSeen /\ BeaconSeen /\ PushSeen /\ TriedSeen /\ PastTried

-----------------------------------------------------------------------------
\* An id finds at most one screen.
LEMMA FindIsOne ==
  ASSUME NEW s, IsList(s), NEW id, NEW f \in Find(s, id), NEW g \in Find(s, id)
  PROVE  f = g
<1> DEFINE matching == {j \in DOMAIN s : s[j].id = id}
<1>1. PICK j \in DOMAIN s : f = s[j] /\ IsFirst(j, matching)
  BY DEF Find
<1>2. PICK k \in DOMAIN s : g = s[k] /\ IsFirst(k, matching)
  BY DEF Find
<1>3. j \in Int /\ k \in Int
  BY ListShape
<1>4. j <= k /\ k <= j
  BY <1>1, <1>2 DEF IsFirst
<1> QED BY <1>1, <1>2, <1>3, <1>4

LEMMA FindSome ==
  ASSUME NEW s, IsList(s), NEW id \in Ids(s)
  PROVE  Find(s, id) # {}
<1> DEFINE matching == {j \in DOMAIN s : s[j].id = id}
<1>1. matching # {}
  BY DEF Ids
<1>2. matching \in SUBSET Nat
  BY ListShape
<1>3. PICK k \in matching : \A j \in matching : ~(j < k)
  BY <1>1, <1>2, LeastCounterexample
<1>4. IsFirst(k, matching)
  BY <1>2, <1>3 DEF IsFirst
<1>5. s[k] \in Find(s, id)
  BY <1>4 DEF Find
<1> QED BY <1>5

\* A motion pushes through the edges it goes towards, and away from their opposites.
LEMMA PushedIs ==
  ASSUME NEW dx \in Int, NEW dy \in Int
  PROVE  /\ "Left" \in PushedEdges(dx, dy) <=> dx < 0
         /\ "Right" \in PushedEdges(dx, dy) <=> dx > 0
         /\ "Top" \in PushedEdges(dx, dy) <=> dy < 0
         /\ "Bottom" \in PushedEdges(dx, dy) <=> dy > 0
BY DEF PushedEdges, Directions

LEMMA PulledIsOpposite ==
  ASSUME NEW dx \in Int, NEW dy \in Int
  PROVE  /\ PushedEdges(dx, dy) \cap PulledEdges(dx, dy) = {}
         /\ PushedEdges(dx, dy) = {} => PulledEdges(dx, dy) = {}
<1>1. -dx \in Int /\ -dy \in Int
  OBVIOUS
<1>2. /\ "Left" \in PulledEdges(dx, dy) <=> dx > 0
      /\ "Right" \in PulledEdges(dx, dy) <=> dx < 0
      /\ "Top" \in PulledEdges(dx, dy) <=> dy > 0
      /\ "Bottom" \in PulledEdges(dx, dy) <=> dy < 0
  BY <1>1, PushedIs DEF PulledEdges
<1> QED BY <1>2, PushedIs, EdgesAreDirections DEF Directions

\* A motion past an edge the cursor was inside of pushes through that edge.
LEMMA PastIsPushed ==
  ASSUME NEW r \in Rects, NEW c \in Points, NEW dx \in Int, NEW dy \in Int,
         NEW d \in Past(r, [x |-> c.x + dx, y |-> c.y + dy])
  PROVE  d \in Past(r, c) \/ d \in PushedEdges(dx, dy)
<1>1. /\ r.x \in Int /\ r.y \in Int /\ r.w \in Int /\ r.h \in Int /\ c.x \in Int /\ c.y \in Int
  BY DEF Rects, Points
<1>2. d \in Directions
  BY DEF Past
<1>3. CASE d = "Left" BY <1>1, <1>3, PushedIs DEF Past, Directions
<1>4. CASE d = "Right" BY <1>1, <1>4, PushedIs DEF Past, Directions
<1>5. CASE d = "Top" BY <1>1, <1>5, PushedIs DEF Past, Directions
<1>6. CASE d = "Bottom" BY <1>1, <1>6, PushedIs DEF Past, Directions
<1> QED BY <1>2, <1>3, <1>4, <1>5, <1>6 DEF Directions

\* A point of a rectangle is past none of its edges.
LEMMA InsideIsNotPast ==
  ASSUME NEW r \in Rects, NEW p \in Points
  PROVE  Contains(r, p.x, p.y) <=> Past(r, p) = {}
<1>1. /\ r.x \in Int /\ r.y \in Int /\ r.w \in Int /\ r.h \in Int /\ p.x \in Int /\ p.y \in Int
  BY DEF Rects, Points
<1>2. /\ "Left" \in Past(r, p) <=> p.x < r.x
      /\ "Right" \in Past(r, p) <=> p.x >= r.x + r.w
      /\ "Top" \in Past(r, p) <=> p.y < r.y
      /\ "Bottom" \in Past(r, p) <=> p.y >= r.y + r.h
  BY DEF Past, Directions
<1>3. Past(r, p) \subseteq Directions
  BY DEF Past
<1>4. Past(r, p) = {} <=> /\ "Left" \notin Past(r, p) /\ "Right" \notin Past(r, p)
                          /\ "Top" \notin Past(r, p) /\ "Bottom" \notin Past(r, p)
  BY <1>3 DEF Directions
<1>5. Contains(r, p.x, p.y) <=> /\ ~(p.x < r.x) /\ ~(p.x >= r.x + r.w)
                                /\ ~(p.y < r.y) /\ ~(p.y >= r.y + r.h)
  BY <1>1 DEF Contains
<1> QED BY <1>2, <1>4, <1>5

LEMMA ClampedIsNotPast ==
  ASSUME NEW r \in Rects, r.w > 0, r.h > 0, NEW p \in Points
  PROVE  Past(r, ClampTo(r, p)) = {}
<1>1. Contains(r, ClampTo(r, p).x, ClampTo(r, p).y)
  BY ClampLandsInside DEF Points
<1> QED BY <1>1, ClampIsPoint, InsideIsNotPast

\* A motion that leaves a rectangle leaves it through an edge it ends up past.
LEMMA ExitIsPast ==
  ASSUME NEW s, NEW id, NEW p \in Points, NEW d \in ExitDirection(s, id, p.x, p.y),
         \A f \in Find(s, id) : f.rect \in Rects
  PROVE  \E f \in Find(s, id) : d \in Past(f.rect, p)
<1>1. PICK f \in Find(s, id) :
        /\ ~Contains(f.rect, p.x, p.y)
        /\ d = CASE p.x < f.rect.x                   -> "Left"
                 [] p.x >= f.rect.x + f.rect.w       -> "Right"
                 [] /\ f.rect.x <= p.x /\ p.x < f.rect.x + f.rect.w
                    /\ p.y < f.rect.y                -> "Top"
                 [] OTHER                            -> "Bottom"
  BY DEF ExitDirection
<1>2. f.rect \in Rects
  OBVIOUS
<1>3. d \in Past(f.rect, p)
  BY <1>1, <1>2 DEF Past, Contains, Directions, Rects, Points
<1> QED BY <1>3

-----------------------------------------------------------------------------
\* A crossing goes through its edge, to another screen, and lands inside it.
LEMMA CrossesThrough ==
  ASSUME DesktopTyped, Distinct, IsList(screens), NEW d \in Directions, NEW p \in Points,
         NEW n \in Crossing(mode, d, p), Cross(n)
  PROVE  /\ EnteredThrough(d) /\ mode' # mode
         /\ \E s \in Find(screens, mode') : Contains(s.rect, cursor'.x, cursor'.y)
<1>1. PICK m \in Neighbor(screens, mode, d, p.x, p.y) :
        n \in {InsetEntry(s, d, m.x, m.y) : s \in Find(screens, m.id)}
  BY DEF Crossing
<1>2. PICK s \in Find(screens, m.id) : n = InsetEntry(s, d, m.x, m.y)
  BY <1>1
<1> DEFINE q == IF Along(d) = "x" THEN p.y ELSE p.x
<1>3. PICK from \in Find(screens, mode) :
        m \in {EntryPoint(screens[k], d, p.x, p.y) : k \in BestCandidates(screens, from, d, q)}
  BY DEF Neighbor
<1>4. PICK k \in Candidates(screens, from, d) : m = EntryPoint(screens[k], d, p.x, p.y)
  BY <1>3 DEF BestCandidates
<1>5. /\ k \in DOMAIN screens /\ screens[k].id # from.id
      /\ Gap(from, screens[k], d) >= -EDGE_TOLERANCE
  BY <1>4 DEF Candidates
<1>6. m.id = screens[k].id /\ from.id = mode
  BY <1>4, FindMatches DEF EntryPoint
<1>7. s = screens[k]
  <2>1. PICK j \in DOMAIN screens : s = screens[j] /\ screens[j].id = m.id
    BY DEF Find, IsFirst
  <2> QED BY <1>5, <1>6, <2>1 DEF Distinct
<1>8. n.id = m.id /\ mode' = m.id
  BY <1>2, <1>6, <1>7 DEF InsetEntry, Cross, Enter
<1>9. EnteredThrough(d) /\ mode' # mode
  BY <1>5, <1>6, <1>7, <1>8 DEF EnteredThrough
<1>10. s.rect \in Rects /\ s.rect.w > 0 /\ s.rect.h > 0 /\ p.x \in Int /\ p.y \in Int
  BY <1>5, <1>7 DEF DesktopTyped, LayoutTyped, Distinct, Points
<1>11. n.x \in 0..s.rect.w - 1 /\ n.y \in 0..s.rect.h - 1
  BY <1>2, <1>4, <1>7, <1>10, CrossingEntersInside
<1>12. cursor' = [x |-> s.rect.x + n.x, y |-> s.rect.y + n.y]
  <2>1. PICK f \in Find(screens, n.id) : cursor' = [x |-> f.rect.x + n.x, y |-> f.rect.y + n.y]
    BY DEF Cross, Enter
  <2>2. f = s
    BY <1>8, <2>1, FindIsOne
  <2> QED BY <2>1, <2>2
<1>13. Contains(s.rect, cursor'.x, cursor'.y)
  BY <1>10, <1>11, <1>12 DEF Contains, Rects
<1> QED BY <1>8, <1>9, <1>13

\* A screen just entered has no history, and its latches are clear.
LEMMA EnteredAfresh ==
  ASSUME IntentInv, TypeInv, Inv, UNCHANGED desktop, ClearBoundaryState, seen' = NothingSeen,
         \E s \in Find(screens, mode') : Contains(s.rect, cursor'.x, cursor'.y), cursor' \in Points
  PROVE  IntentInv'
<1>1. Distinct' /\ HomeIsLocal'
  BY DEF IntentInv, Distinct, HomeIsLocal, desktop
<1>2. SeenTyped'
  BY TickAssumption DEF SeenTyped, NothingSeen, NEVER
<1>3. /\ at_wall' = {} /\ last_out' = {} /\ pushing' = {}
      /\ remote_at_wall' = {} /\ remote_beacon_at' = {}
      /\ remote_last_out' = {} /\ remote_pushing' = {}
  BY DEF ClearBoundaryState
<1>4. WallsSeen' /\ BeaconSeen' /\ TriedSeen'
  BY <1>3 DEF WallsSeen, BeaconSeen, TriedSeen
<1>5. PushSeen'
  <2>1. \A d \in Directions : seen'.push[d] = PUSH_FRESH
    BY DEF NothingSeen
  <2>2. LastPush' = {}
    BY <1>3 DEF LastPush
  <2> QED BY <2>1, <2>2, TickAssumption DEF PushSeen
<1>6. PastTried'
  <2>1. PICK s \in Find(screens, mode') : Contains(s.rect, cursor'.x, cursor'.y)
    OBVIOUS
  <2>2. s.rect \in Rects
    BY FindIsTyped DEF TypeInv, DesktopTyped
  <2>3. Past(s.rect, cursor') = {}
    BY <2>1, <2>2, InsideIsNotPast
  <2>4. \A f \in Find(screens, mode') : f = s
    BY <2>1, FindIsOne DEF Inv, StructureOK
  <2>5. screens' = screens
    BY DEF desktop
  <2> QED BY <2>3, <2>4, <2>5 DEF PastTried
<1> QED BY <1>1, <1>2, <1>4, <1>5, <1>6 DEF IntentInv

-----------------------------------------------------------------------------
(* Motions that cross nothing *)

\* What a motion adds to the history.
LEMMA MotionHistory ==
  ASSUME SeenTyped, NEW pushed \in SUBSET Directions, NEW pulled \in SUBSET Directions,
         seen' = SeenMotion(pushed, pulled)
  PROVE  /\ SeenTyped'
         /\ seen.walls \ pulled \subseteq seen'.walls
         /\ mode # HOME /\ out' = <<>> => seen.walls \subseteq seen'.walls
         /\ seen'.beacon = seen.beacon
         /\ \A d \in pushed : seen'.push[d] = 0 /\ 0 <= seen'.tried[d]
         /\ \A d \in Directions : seen.tried[d] <= seen'.tried[d]
         /\ \A d \in Directions \ pushed :
              seen'.push[d] = seen.push[d] \/ (d \in pulled /\ seen'.push[d] = PUSH_FRESH)
<1>1. /\ seen'.walls = IF Swallowed THEN seen.walls ELSE seen.walls \ pulled
      /\ seen'.beacon = seen.beacon
      /\ seen'.push = [d \in Directions |-> IF d \in pushed THEN 0
                                            ELSE IF d \in pulled THEN PUSH_FRESH ELSE seen.push[d]]
      /\ seen'.tried = [d \in Directions |-> IF d \in pushed THEN AtLeast(0, seen.tried[d])
                                             ELSE seen.tried[d]]
      /\ seen' = [walls |-> seen'.walls, beacon |-> seen'.beacon, push |-> seen'.push,
                  tried |-> seen'.tried]
  BY DEF SeenMotion
<1>2. /\ seen.walls \in SUBSET Directions /\ seen.beacon \in 0..BEACON_FRESH
      /\ seen.push \in [Directions -> 0..PUSH_FRESH]
      /\ seen.tried \in [Directions -> -1..PUSH_FALLBACK]
  BY DEF SeenTyped
<1>3. \A d \in Directions :
        /\ AtLeast(0, seen.tried[d]) \in 0..PUSH_FALLBACK
        /\ seen.tried[d] <= AtLeast(0, seen.tried[d])
  BY <1>2, TickAssumption DEF AtLeast
<1>4. \A d \in Directions : seen.tried[d] \in -1..PUSH_FALLBACK /\ seen.tried[d] <= seen.tried[d]
  BY <1>2, TickAssumption
<1>5. seen'.walls \in SUBSET Directions
  BY <1>1, <1>2
<1>6. seen'.push \in [Directions -> 0..PUSH_FRESH]
  BY <1>1, <1>2, TickAssumption
<1>7. /\ seen'.tried \in [Directions -> -1..PUSH_FALLBACK]
      /\ \A d \in Directions : seen.tried[d] <= seen'.tried[d]
      /\ \A d \in pushed : 0 <= seen'.tried[d]
  BY <1>1, <1>3, <1>4, TickAssumption
<1>8. SeenTyped'
  BY <1>1, <1>2, <1>5, <1>6, <1>7 DEF SeenTyped
<1> QED BY <1>1, <1>7, <1>8 DEF Swallowed

\* The push remembered stays true of the history.
LEMMA MotionPushes ==
  ASSUME SeenTyped, LatchesTyped, PushSeen, NEW dx \in Int, NEW dy \in Int,
         seen' = SeenMotion(PushedEdges(dx, dy), PulledEdges(dx, dy)),
         \/ PushedEdges(dx, dy) = {} /\ LastPush' = LastPush
         \/ \E e \in PushedEdges(dx, dy) : LastPush' = {[dir |-> e, age |-> 0]}
  PROVE  PushSeen'
<1> DEFINE pushed == PushedEdges(dx, dy)
           pulled == PulledEdges(dx, dy)
<1>1. /\ pushed \in SUBSET Directions /\ pulled \in SUBSET Directions
      /\ pushed \cap pulled = {} /\ (pushed = {} => pulled = {})
  BY EdgesAreDirections, PulledIsOpposite
<1>2. /\ SeenTyped'
      /\ \A d \in pushed : seen'.push[d] = 0
      /\ \A d \in Directions \ pushed :
           seen'.push[d] = seen.push[d] \/ (d \in pulled /\ seen'.push[d] = PUSH_FRESH)
  <2>1. seen' = SeenMotion(pushed, pulled)
    OBVIOUS
  <2> HIDE DEF pushed, pulled
  <2> QED BY <1>1, <2>1, MotionHistory
<1>3. \A d \in Directions : seen'.push[d] \in 0..PUSH_FRESH /\ seen.push[d] \in 0..PUSH_FRESH
  BY <1>2 DEF SeenTyped
<1> HIDE DEF pushed, pulled
<1>4. CASE pushed = {} /\ LastPush' = LastPush
  <2>1. \A d \in Directions : seen'.push[d] = seen.push[d]
    BY <1>1, <1>2, <1>4
  <2>2. \A p \in LastPush : p.dir \in Directions
    BY DEF LastPush, LatchesTyped, PushLatches
  <2> QED BY <1>4, <2>1, <2>2 DEF PushSeen
<1>5. CASE \E e \in pushed : LastPush' = {[dir |-> e, age |-> 0]}
  <2>1. PICK e \in pushed : LastPush' = {[dir |-> e, age |-> 0]}
    BY <1>5
  <2>2. \A p \in LastPush' : p.age = 0 /\ seen'.push[p.dir] = 0
    BY <1>2, <2>1
  <2>3. \A d \in Directions : \E p \in LastPush' : p.age <= seen'.push[d]
    BY <1>3, <2>1
  <2> QED BY <2>2, <2>3 DEF PushSeen
<1> QED BY <1>4, <1>5 DEF pushed

\* An edge the motion leaves the cursor past has been tried.
LEMMA MotionPasses ==
  ASSUME DesktopTyped, cursor \in Points, SeenTyped, PastTried,
         NEW dx \in Int, NEW dy \in Int,
         seen' = SeenMotion(PushedEdges(dx, dy), PulledEdges(dx, dy)),
         NEW s \in Find(screens, mode),
         NEW d \in Past(s.rect, [x |-> cursor.x + dx, y |-> cursor.y + dy])
  PROVE  0 <= seen'.tried[d]
<1>1. s.rect \in Rects
  BY FindIsTyped DEF DesktopTyped
<1>2. d \in Past(s.rect, cursor) \/ d \in PushedEdges(dx, dy)
  BY <1>1, PastIsPushed
<1>3. /\ \A e \in PushedEdges(dx, dy) : 0 <= seen'.tried[e]
      /\ \A e \in Directions : seen.tried[e] <= seen'.tried[e]
      /\ SeenTyped'
  <2> DEFINE pushed == PushedEdges(dx, dy)
             pulled == PulledEdges(dx, dy)
  <2>1. /\ pushed \in SUBSET Directions /\ pulled \in SUBSET Directions
        /\ seen' = SeenMotion(pushed, pulled)
    BY EdgesAreDirections
  <2> HIDE DEF pushed, pulled
  <2>2. /\ \A e \in pushed : 0 <= seen'.tried[e]
        /\ \A e \in Directions : seen.tried[e] <= seen'.tried[e]
        /\ SeenTyped'
    BY <2>1, MotionHistory
  <2> QED BY <2>2 DEF pushed
<1>4. CASE d \in Past(s.rect, cursor)
  <2>1. 0 <= seen.tried[d] /\ d \in Directions
    BY <1>4 DEF PastTried, Past
  <2>2. seen.tried[d] \in Int /\ seen'.tried[d] \in Int
    BY <1>3, <2>1 DEF SeenTyped
  <2> QED BY <1>3, <2>1, <2>2
<1> QED BY <1>2, <1>3, <1>4

\* A motion that crosses nothing keeps the invariant, if the latches it leaves
\* are true of the history it makes.
LEMMA MotionStays ==
  ASSUME IntentInv, TypeInv, Inv, NEW dx \in Int, NEW dy \in Int,
         UNCHANGED desktop, mode' = mode, remote_beacon_at' = remote_beacon_at,
         seen' = SeenMotion(PushedEdges(dx, dy), PulledEdges(dx, dy)),
         WallsSeen',
         \/ PushedEdges(dx, dy) = {} /\ LastPush' = LastPush
         \/ \E e \in PushedEdges(dx, dy) : LastPush' = {[dir |-> e, age |-> 0]},
         \A p \in (pushing \cup remote_pushing)' :
           p \in pushing \cup remote_pushing \/ (p.age = 0 /\ 0 <= seen'.tried[p.dir]),
         \/ cursor' = [x |-> cursor.x + dx, y |-> cursor.y + dy]
         \/ \E s \in Find(screens, mode) :
              cursor' = ClampTo(s.rect, [x |-> cursor.x + dx, y |-> cursor.y + dy])
  PROVE  IntentInv'
<1> DEFINE at == [x |-> cursor.x + dx, y |-> cursor.y + dy]
<1>1. Distinct' /\ HomeIsLocal' /\ screens' = screens
  BY DEF IntentInv, Distinct, HomeIsLocal, desktop
<1>2. /\ SeenTyped' /\ seen'.beacon = seen.beacon
      /\ \A d \in Directions : seen.tried[d] <= seen'.tried[d]
  BY EdgesAreDirections, MotionHistory DEF IntentInv
<1>3. BeaconSeen'
  BY <1>2 DEF BeaconSeen, IntentInv
<1>4. PushSeen'
  BY MotionPushes DEF IntentInv, TypeInv
<1>5. TriedSeen'
  <2> SUFFICES ASSUME NEW p \in (pushing \cup remote_pushing)' PROVE p.age <= seen'.tried[p.dir]
    BY DEF TriedSeen
  <2>1. CASE p.age = 0 /\ 0 <= seen'.tried[p.dir]
    BY <2>1
  <2>2. CASE p \in pushing \cup remote_pushing
    <3>1. p.dir \in Directions /\ p.age \in Int
      BY <2>2 DEF TypeInv, LatchesTyped, PushLatches
    <3>2. p.age <= seen.tried[p.dir]
      BY <2>2 DEF IntentInv, TriedSeen
    <3>3. seen.tried[p.dir] \in Int /\ seen'.tried[p.dir] \in Int
      BY <1>2, <3>1 DEF SeenTyped, IntentInv
    <3> QED BY <1>2, <3>1, <3>2, <3>3
  <2> QED BY <2>1, <2>2
<1>6. PastTried'
  <2> SUFFICES ASSUME NEW s \in Find(screens, mode), NEW d \in Past(s.rect, cursor')
               PROVE  0 <= seen'.tried[d]
    BY <1>1 DEF PastTried
  <2>1. at \in Points /\ cursor \in Points
    BY DEF TypeInv, CursorTyped, Points
  <2>2. CASE cursor' = at
    BY <2>1, <2>2, MotionPasses DEF TypeInv, IntentInv
  <2>3. CASE \E f \in Find(screens, mode) : cursor' = ClampTo(f.rect, at)
    <3>1. PICK f \in Find(screens, mode) : cursor' = ClampTo(f.rect, at)
      BY <2>3
    <3>2. f = s
      BY FindIsOne DEF Inv, StructureOK
    <3>3. s.rect \in Rects /\ s.rect.w > 0 /\ s.rect.h > 0
      <4>1. s.rect \in Rects
        BY FindIsTyped DEF TypeInv, DesktopTyped
      <4>2. PICK k \in DOMAIN screens : s = screens[k]
        BY DEF Find
      <4> QED BY <4>1, <4>2 DEF IntentInv, Distinct
    <3>4. Past(s.rect, cursor') = {}
      BY <2>1, <3>1, <3>2, <3>3, ClampedIsNotPast
    <3> QED BY <3>4
  <2> HIDE DEF at
  <2> QED BY <2>2, <2>3 DEF at
<1> QED BY <1>1, <1>2, <1>3, <1>4, <1>5, <1>6 DEF IntentInv

\* After a crossing the history starts afresh.
LEMMA CrossIntent ==
  ASSUME IntentInv, TypeInv, Inv, UNCHANGED desktop, NEW d \in Directions, NEW p \in Points,
         NEW n \in Crossing(mode, d, p), Cross(n), NEW history, Remember(history)
  PROVE  IntentInv'
<1>1. mode' # mode /\ \E s \in Find(screens, mode') : Contains(s.rect, cursor'.x, cursor'.y)
  BY CrossesThrough DEF IntentInv, TypeInv, Inv, StructureOK
<1>2. cursor' \in Points
  BY CrossIsTyped DEF TypeInv, CursorTyped
<1>3. ClearBoundaryState /\ seen' = NothingSeen
  BY <1>1 DEF Cross, Enter, Remember
<1> QED BY <1>1, <1>2, <1>3, EnteredAfresh

\* The latch of the last push, with the other side's empty.
LEMMA PushedLast ==
  ASSUME NEW pushed \in SUBSET Directions, NEW old, LastPush = old,
         LastPush' = PushLatch(pushed, old)
  PROVE  \/ pushed = {} /\ LastPush' = LastPush
         \/ \E e \in pushed : LastPush' = {[dir |-> e, age |-> 0]}
<1>1. CASE pushed = {}
  BY <1>1 DEF PushLatch
<1>2. CASE pushed # {}
  BY <1>2, PushLatchIs
<1> QED BY <1>1, <1>2

\* A motion at home keeps the history and the latches together (handle_local_motion).
LEMMA LocalMotionIntent ==
  ASSUME IntentInv, TypeInv, Inv, NEW dx \in Int, NEW dy \in Int, LocalMotion(dx, dy),
         Remember(SeenMotion(PushedEdges(dx, dy), PulledEdges(dx, dy)))
  PROVE  IntentInv'
<1> DEFINE at == [x |-> cursor.x + dx, y |-> cursor.y + dy]
           pushed == PushedEdges(dx, dy)
           pulled == PulledEdges(dx, dy)
<1>1. /\ UNCHANGED desktop /\ mode = HOME
      /\ \/ LocalPush(at, pushed)
         \/ LocalInside(at, pushed, pulled)
         \/ LocalPinned(at, pushed, pulled)
         \/ LocalFallback(at, pushed)
  BY DEF LocalMotion
<1>2. at \in Points /\ ClampTo(local, at) \in Points /\ cursor \in Points
  <2>1. at \in Points /\ cursor \in Points
    BY DEF TypeInv, CursorTyped, Points
  <2> QED BY <2>1, ClampIsPoint DEF TypeInv, DesktopTyped
<1>3. pushed \in SUBSET Directions /\ pulled \in SUBSET Directions
  BY EdgesAreDirections
<1>4. CASE LocalPush(at, pushed)
  <2>1. PICK d \in pushed : \E n \in Crossing(mode, d, at) : Cross(n)
    BY <1>1, <1>4 DEF LocalPush
  <2> HIDE DEF at, pushed, pulled
  <2> QED BY <1>1, <1>2, <1>3, <2>1, CrossIntent
<1>5. CASE LocalFallback(at, pushed)
  <2>1. PICK d \in ExitDirection(screens, HOME, at.x, at.y) :
          \E n \in Crossing(mode, d, ClampTo(local, at)) : Cross(n)
    BY <1>1, <1>5 DEF LocalFallback
  <2>2. d \in Directions
    BY EdgesAreDirections
  <2> HIDE DEF at, pushed, pulled
  <2> QED BY <1>1, <1>2, <2>1, <2>2, CrossIntent
<1>6. ASSUME LocalInside(at, pushed, pulled) \/ LocalPinned(at, pushed, pulled)
      PROVE  IntentInv'
  <2>1. /\ mode' = mode /\ UNCHANGED far_latches
        /\ at_wall' = at_wall \ (pushed \cup pulled)
        /\ last_out' = PushLatch(pushed, last_out)
    BY <1>6 DEF LocalInside, LocalPinned, Stay
  <2>2. seen' = SeenMotion(pushed, pulled)
    BY <2>1 DEF Remember
  <2>3. /\ remote_at_wall = {} /\ remote_last_out = {} /\ remote_pushing = {}
        /\ remote_at_wall' = {} /\ remote_last_out' = {} /\ remote_pushing' = {}
        /\ remote_beacon_at' = remote_beacon_at
    BY <1>1, <2>1 DEF Inv, LatchesMatchMode, far_latches
  <2>4. WallsSeen'
    <3>1. seen.walls \ pulled \subseteq seen'.walls
      <4> HIDE DEF pushed, pulled
      <4> QED BY <1>3, <2>2, MotionHistory DEF IntentInv
    <3> QED BY <2>1, <2>3, <3>1 DEF WallsSeen, IntentInv
  <2>5. \/ pushed = {} /\ LastPush' = LastPush
        \/ \E e \in pushed : LastPush' = {[dir |-> e, age |-> 0]}
    <3>1. LastPush = last_out /\ LastPush' = PushLatch(pushed, last_out)
      BY <2>1, <2>3 DEF LastPush
    <3> HIDE DEF pushed
    <3> QED BY <1>3, <3>1, PushedLast
  <2>6. PICK s \in Find(screens, mode) : s.rect = local
    BY <1>1, FindSome DEF Inv, StructureOK, IntentInv, HomeIsLocal
  <2>7. \A p \in (pushing \cup remote_pushing)' :
          p \in pushing \cup remote_pushing \/ (p.age = 0 /\ 0 <= seen'.tried[p.dir])
    <3>1. CASE LocalInside(at, pushed, pulled)
      BY <2>3, <3>1 DEF LocalInside
    <3>2. CASE LocalPinned(at, pushed, pulled)
      <4>1. PICK d \in ExitDirection(screens, HOME, at.x, at.y) :
              pushing' \in {{}, KeepPushing(pushing, d)}
        BY <3>2 DEF LocalPinned
      <4>2. d \in Past(s.rect, at)
        <5>1. \A f \in Find(screens, mode) : f = s /\ f.rect \in Rects
          BY FindIsOne, FindIsTyped DEF Inv, StructureOK, TypeInv, DesktopTyped
        <5> HIDE DEF at
        <5> QED BY <1>1, <1>2, <4>1, <5>1, ExitIsPast
      <4>3. 0 <= seen'.tried[d]
        BY <1>2, <2>2, <4>2, MotionPasses DEF IntentInv, TypeInv
      <4>4. \A p \in pushing' : p \in pushing \/ p = [dir |-> d, age |-> 0]
        BY <4>1 DEF KeepPushing
      <4> QED BY <2>3, <4>3, <4>4
    <3> QED BY <1>6, <3>1, <3>2
  <2>8. cursor' = at \/ cursor' = ClampTo(s.rect, at)
    BY <1>6, <2>6 DEF LocalInside, LocalPinned
  <2> QED BY <1>1, <2>1, <2>2, <2>3, <2>4, <2>5, <2>6, <2>7, <2>8, MotionStays
<1> QED BY <1>1, <1>4, <1>5, <1>6

\* So does a motion on a client (handle_remote_motion).
LEMMA RemoteMotionIntent ==
  ASSUME IntentInv, TypeInv, Inv, NEW m \in Deltas, RemoteMotion(m.dx, m.dy),
         Remember(SeenMotion(PushedEdges(Travel(m).dx, Travel(m).dy),
                             PulledEdges(Travel(m).dx, Travel(m).dy)))
  PROVE  IntentInv'
<1> DEFINE sx == Whole(m.dx * gain + gain_rem.x)
           sy == Whole(m.dy * gain + gain_rem.y)
           at == [x |-> cursor.x + sx, y |-> cursor.y + sy]
           pushed == PushedEdges(sx, sy)
           pulled == PulledEdges(sx, sy)
           armed == ArmedEdges(at, pushed)
<1>1. /\ UNCHANGED desktop /\ mode # HOME
      /\ \/ RemotePush(at, armed)
         \/ RemoteRefused(at, armed, pushed, pulled)
         \/ RemoteInside(at) /\ RemoteForward(pushed, pulled, sx, sy)
         \/ RemotePinned(at) /\ RemoteForward(pushed, pulled, sx, sy)
         \/ RemoteFallback(at)
  BY DEF RemoteMotion
<1>2. Travel(m).dx = sx /\ Travel(m).dy = sy
  BY <1>1 DEF Travel, ScaledMotion
<1>3. Remember(SeenMotion(pushed, pulled))
  BY <1>2
<1>4. sx \in Int /\ sy \in Int
  BY ScaledIsInt, InputAssumption DEF TypeInv
<1> HIDE DEF sx, sy
<1>5. at \in Points /\ cursor \in Points
  BY <1>4 DEF TypeInv, CursorTyped, Points
<1>6. pushed \in SUBSET Directions /\ pulled \in SUBSET Directions /\ armed \subseteq pushed
      /\ armed \subseteq remote_at_wall
  BY EdgesAreDirections DEF ArmedEdges
<1>7. CASE RemotePush(at, armed)
  <2>1. PICK d \in armed : \E n \in Crossing(mode, d, at) : Cross(n)
    BY <1>7 DEF RemotePush
  <2> HIDE DEF at, pushed, pulled, armed
  <2> QED BY <1>1, <1>3, <1>5, <1>6, <2>1, CrossIntent
<1>8. CASE RemoteFallback(at)
  <2>1. PICK s \in Find(screens, mode) : \E d \in ExitDirection(screens, mode, at.x, at.y) :
          \E n \in Crossing(mode, d, ClampTo(s.rect, at)) : Cross(n)
    BY <1>8 DEF RemoteFallback
  <2>2. PICK d \in ExitDirection(screens, mode, at.x, at.y) :
          \E n \in Crossing(mode, d, ClampTo(s.rect, at)) : Cross(n)
    BY <2>1
  <2>3. d \in Directions /\ ClampTo(s.rect, at) \in Points
    BY <1>5, EdgesAreDirections, FindIsTyped, ClampIsPoint DEF TypeInv, DesktopTyped
  <2> HIDE DEF at, pushed, pulled
  <2> QED BY <1>1, <1>3, <2>2, <2>3, CrossIntent
<1>9. at_wall = {} /\ last_out = {} /\ pushing = {}
  BY <1>1 DEF Inv, LatchesMatchMode
<1>10. CASE RemoteRefused(at, armed, pushed, pulled)
  <2>1. PICK d \in armed : /\ remote_at_wall' \subseteq remote_at_wall
                           /\ remote_last_out' = {[dir |-> d, age |-> 0]}
    BY <1>10 DEF RemoteRefused
  <2>2. /\ cursor' = at /\ mode' = mode /\ out' = <<>>
        /\ UNCHANGED <<at_wall, last_out, pushing, remote_beacon_at, remote_pushing>>
    BY <1>10 DEF RemoteRefused, Stay, near_latches
  <2>3. seen' = SeenMotion(pushed, pulled)
    BY <1>3, <2>2 DEF Remember
  <2>4. WallsSeen'
    <3>1. seen.walls \subseteq seen'.walls
      <4> HIDE DEF pushed, pulled
      <4> QED BY <1>1, <1>6, <2>2, <2>3, MotionHistory DEF IntentInv
    <3> QED BY <1>9, <2>1, <2>2, <3>1 DEF WallsSeen, IntentInv
  <2>5. \E e \in pushed : LastPush' = {[dir |-> e, age |-> 0]}
    BY <1>6, <1>9, <2>1, <2>2 DEF LastPush
  <2>6. \A p \in (pushing \cup remote_pushing)' : p \in pushing \cup remote_pushing
    BY <2>2
  <2> QED BY <1>1, <1>4, <2>2, <2>3, <2>4, <2>5, <2>6, MotionStays
<1>11. ASSUME RemoteInside(at) \/ RemotePinned(at), RemoteForward(pushed, pulled, sx, sy)
       PROVE  IntentInv'
  <2>1. /\ mode' = mode
        /\ UNCHANGED <<at_wall, last_out, pushing, remote_beacon_at>>
        /\ remote_at_wall' \subseteq remote_at_wall \ pulled
        /\ remote_last_out' = PushLatch(pushed, remote_last_out)
    BY <1>11 DEF RemoteForward, near_latches
  <2>2. seen' = SeenMotion(pushed, pulled)
    BY <1>3, <2>1 DEF Remember
  <2>3. WallsSeen'
    <3>1. seen.walls \ pulled \subseteq seen'.walls
      <4> HIDE DEF pushed, pulled
      <4> QED BY <1>6, <2>2, MotionHistory DEF IntentInv
    <3> QED BY <1>9, <2>1, <3>1 DEF WallsSeen, IntentInv
  <2>4. \/ pushed = {} /\ LastPush' = LastPush
        \/ \E e \in pushed : LastPush' = {[dir |-> e, age |-> 0]}
    <3>1. LastPush = remote_last_out /\ LastPush' = PushLatch(pushed, remote_last_out)
      BY <1>9, <2>1 DEF LastPush
    <3> HIDE DEF pushed
    <3> QED BY <1>6, <3>1, PushedLast
  <2>5. cursor' = at \/ \E s \in Find(screens, mode) : cursor' = ClampTo(s.rect, at)
    BY <1>11 DEF RemoteInside, RemotePinned
  <2>6. \A p \in (pushing \cup remote_pushing)' :
          p \in pushing \cup remote_pushing \/ (p.age = 0 /\ 0 <= seen'.tried[p.dir])
    <3>1. CASE RemoteInside(at)
      BY <1>9, <2>1, <3>1 DEF RemoteInside
    <3>2. CASE RemotePinned(at)
      <4>1. PICK d \in ExitDirection(screens, mode, at.x, at.y) :
              remote_pushing' \in {{}, KeepPushing(remote_pushing, d)}
        BY <3>2 DEF RemotePinned
      <4>2. PICK f \in Find(screens, mode) : d \in Past(f.rect, at)
        <5>1. \A f \in Find(screens, mode) : f.rect \in Rects
          BY FindIsTyped DEF TypeInv, DesktopTyped
        <5> HIDE DEF at
        <5> QED BY <1>5, <4>1, <5>1, ExitIsPast
      <4>3. 0 <= seen'.tried[d]
        BY <1>4, <1>5, <2>2, <4>2, MotionPasses DEF IntentInv, TypeInv
      <4>4. \A p \in remote_pushing' : p \in remote_pushing \/ p = [dir |-> d, age |-> 0]
        BY <4>1 DEF KeepPushing
      <4> QED BY <1>9, <2>1, <4>3, <4>4
    <3> QED BY <1>11, <3>1, <3>2
  <2> QED BY <1>1, <1>4, <2>1, <2>2, <2>3, <2>4, <2>5, <2>6, MotionStays
<1> QED BY <1>1, <1>7, <1>8, <1>10, <1>11

-----------------------------------------------------------------------------
(* Beacons *)

\* A beacon that crosses nothing keeps the invariant: it puts the cursor inside
\* its screen, and the walls armed are the ones it reports.
LEMMA BeaconStays ==
  ASSUME IntentInv, TypeInv, Inv, UNCHANGED desktop, mode' = mode, LastPush' = LastPush,
         NEW bits \in SUBSET Directions, seen' = SeenBeacon(bits),
         (at_wall \cup remote_at_wall)' \subseteq bits,
         \A age \in remote_beacon_at' : 0 <= age,
         (pushing \cup remote_pushing)' \subseteq IF bits = {} THEN {} ELSE pushing \cup remote_pushing,
         cursor' \in Points, \E s \in Find(screens, mode) : Contains(s.rect, cursor'.x, cursor'.y)
  PROVE  IntentInv'
<1>1. Distinct' /\ HomeIsLocal' /\ screens' = screens
  BY DEF IntentInv, Distinct, HomeIsLocal, desktop
<1>2. /\ seen'.walls = bits /\ seen'.beacon = 0 /\ seen'.push = seen.push
      /\ seen'.tried = IF bits = {} THEN NothingSeen.tried ELSE seen.tried
      /\ seen' = [walls |-> bits, beacon |-> 0, push |-> seen.push, tried |-> seen'.tried]
  BY DEF SeenBeacon, IntentInv, SeenTyped
<1>3. SeenTyped'
  <2>1. NothingSeen.tried \in [Directions -> -1..PUSH_FALLBACK]
    BY TickAssumption DEF NothingSeen, NEVER
  <2> QED BY <1>2, <2>1, TickAssumption DEF IntentInv, SeenTyped
<1>4. WallsSeen' /\ BeaconSeen' /\ PushSeen'
  BY <1>2 DEF WallsSeen, BeaconSeen, PushSeen, IntentInv
<1>5. TriedSeen'
  BY <1>2 DEF TriedSeen, IntentInv
<1>6. PastTried'
  <2>1. PICK s \in Find(screens, mode) : Contains(s.rect, cursor'.x, cursor'.y)
    OBVIOUS
  <2>2. Past(s.rect, cursor') = {}
    BY <2>1, FindIsTyped, InsideIsNotPast DEF TypeInv, DesktopTyped
  <2>3. \A f \in Find(screens, mode) : f = s
    BY FindIsOne DEF Inv, StructureOK
  <2> QED BY <1>1, <2>2, <2>3 DEF PastTried
<1> QED BY <1>1, <1>3, <1>4, <1>5, <1>6 DEF IntentInv

\* Inside a screen, clamping a reported position to it changes nothing.
LEMMA ReportedIs ==
  ASSUME TypeInv, Inv, IntentInv, NEW p \in [x : Int, y : Int], NEW s \in Find(screens, mode)
  PROVE  /\ Reported(p) = WallBits(s.rect, Clamp(p.x, 0, s.rect.w - 1), Clamp(p.y, 0, s.rect.h - 1))
         /\ Reported(p) \in SUBSET Directions
         /\ s.rect \in Rects /\ s.rect.w > 0 /\ s.rect.h > 0
<1>1. \A f \in Find(screens, mode) : f = s
  BY FindIsOne DEF Inv, StructureOK
<1>2. Find(screens, mode) = {s}
  BY <1>1
<1>3. Reported(p) = WallBits(s.rect, Clamp(p.x, 0, s.rect.w - 1), Clamp(p.y, 0, s.rect.h - 1))
  BY <1>2 DEF Reported
<1>4. s.rect \in Rects
  BY FindIsTyped DEF TypeInv, DesktopTyped
<1>5. PICK k \in DOMAIN screens : s = screens[k]
  BY DEF Find
<1>6. s.rect.w > 0 /\ s.rect.h > 0
  BY <1>5 DEF IntentInv, Distinct
<1>7. Reported(p) \in SUBSET Directions
  BY <1>3, EdgesAreDirections
<1> QED BY <1>3, <1>4, <1>6, <1>7

\* The walls reported of the local screen are those of the position itself.
LEMMA HomeReports ==
  ASSUME TypeInv, Inv, IntentInv, NEW p \in HomeSpots, mode = HOME
  PROVE  /\ Reported(p) = WallBits(local, p.x, p.y) /\ Reported(p) \in SUBSET Directions
         /\ \E s \in Find(screens, mode) :
              s.rect = local /\ AtOrigin(local) /\ Contains(local, p.x, p.y)
<1>1. PICK s \in Find(screens, mode) :
        s.rect = local /\ AtOrigin(local) /\ Contains(local, p.x, p.y)
  BY FindSome DEF Inv, StructureOK, IntentInv, HomeIsLocal
<1>2. p \in [x : Int, y : Int] /\ p.x \in Int /\ p.y \in Int
  BY InputAssumption
<1>3. /\ Reported(p) = WallBits(local, Clamp(p.x, 0, local.w - 1), Clamp(p.y, 0, local.h - 1))
      /\ Reported(p) \in SUBSET Directions /\ local \in Rects
  BY <1>1, <1>2, ReportedIs
<1>4. Clamp(p.x, 0, local.w - 1) = p.x /\ Clamp(p.y, 0, local.h - 1) = p.y
  BY <1>1, <1>2, <1>3 DEF Clamp, AtMost, Contains, AtOrigin, Rects
<1> QED BY <1>1, <1>3, <1>4

\* So does a beacon of the server's capture (on_local_beacon).
LEMMA LocalBeaconIntent ==
  ASSUME IntentInv, TypeInv, Inv, NEW p \in HomeSpots, LocalBeacon(p.x, p.y),
         Remember(SeenBeacon(Reported(p)))
  PROVE  IntentInv'
<1> DEFINE at == [x |-> local.x + p.x, y |-> local.y + p.y]
           bits == WallBits(local, p.x, p.y)
<1>1. /\ UNCHANGED desktop /\ mode = HOME
      /\ \/ \E d \in bits : \E n \in Crossing(mode, d, at) : Cross(n)
         \/ /\ cursor' = at /\ at_wall' = bits
            /\ pushing' = IF bits = {} THEN {} ELSE pushing
            /\ mode' = mode /\ UNCHANGED <<last_out, far_latches>>
  BY DEF LocalBeacon, Stay, ParkEdges
<1>2. PICK s \in Find(screens, mode) :
        s.rect = local /\ AtOrigin(local) /\ Contains(local, p.x, p.y)
  BY <1>1, HomeReports
<1>3. p \in [x : Int, y : Int] /\ p.x \in Int /\ p.y \in Int
  BY InputAssumption
<1>4. Reported(p) = bits /\ bits \in SUBSET Directions /\ local \in Rects
  BY <1>1, HomeReports DEF TypeInv, DesktopTyped
<1>5. at \in Points /\ Contains(local, at.x, at.y)
  BY <1>2, <1>3, <1>4 DEF Contains, AtOrigin, Rects, Points
<1> HIDE DEF at, bits
<1>6. CASE \E d \in bits : \E n \in Crossing(mode, d, at) : Cross(n)
  BY <1>1, <1>4, <1>5, <1>6, CrossIntent
<1>7. CASE /\ cursor' = at /\ at_wall' = bits
           /\ pushing' = IF bits = {} THEN {} ELSE pushing
           /\ mode' = mode /\ UNCHANGED <<last_out, far_latches>>
  <2>1. /\ remote_at_wall' = {} /\ remote_beacon_at' = {} /\ remote_pushing' = {}
        /\ remote_pushing = {} /\ LastPush' = LastPush
    BY <1>1, <1>7 DEF Inv, LatchesMatchMode, far_latches, LastPush
  <2>2. seen' = SeenBeacon(bits)
    BY <1>4, <1>7 DEF Remember
  <2>3. (pushing \cup remote_pushing)' \subseteq IF bits = {} THEN {} ELSE pushing \cup remote_pushing
    BY <1>7, <2>1
  <2>4. (at_wall \cup remote_at_wall)' \subseteq bits
    BY <1>7, <2>1
  <2> QED BY <1>1, <1>2, <1>4, <1>5, <1>7, <2>1, <2>2, <2>3, <2>4, BeaconStays
<1> QED BY <1>1, <1>6, <1>7

\* So does a beacon of a client (on_remote_beacon).
LEMMA RemoteBeaconIntent ==
  ASSUME IntentInv, TypeInv, Inv, NEW p \in FarSpots, RemoteBeacon(p.x, p.y),
         Remember(SeenBeacon(Reported(p)))
  PROVE  IntentInv'
<1>1. PICK s \in Find(screens, mode) :
        LET px == Clamp(p.x, 0, AtLeast(0, s.rect.w - 1))
            py == Clamp(p.y, 0, AtLeast(0, s.rect.h - 1))
            at == [x |-> s.rect.x + px, y |-> s.rect.y + py]
            bits == WallBits(s.rect, px, py)
        IN \/ \E d \in bits : \E n \in Crossing(mode, d, at) : Cross(n)
           \/ /\ cursor' = at
              /\ remote_beacon_at' = {0}
              /\ remote_at_wall' = bits
              /\ remote_pushing' = IF bits = {} THEN {} ELSE remote_pushing
              /\ mode' = mode /\ UNCHANGED <<near_latches, remote_last_out>>
  BY DEF RemoteBeacon, Stay, ParkEdges
<1>2. UNCHANGED desktop /\ mode # HOME
  BY DEF RemoteBeacon
<1> DEFINE px == Clamp(p.x, 0, s.rect.w - 1)
           py == Clamp(p.y, 0, s.rect.h - 1)
           at == [x |-> s.rect.x + px, y |-> s.rect.y + py]
           bits == WallBits(s.rect, px, py)
<1>3. p \in [x : Int, y : Int] /\ p.x \in Int /\ p.y \in Int
  BY InputAssumption
<1>4. /\ Reported(p) = bits /\ bits \in SUBSET Directions
      /\ s.rect \in Rects /\ s.rect.w > 0 /\ s.rect.h > 0
  BY <1>3, ReportedIs
<1>5. AtLeast(0, s.rect.w - 1) = s.rect.w - 1 /\ AtLeast(0, s.rect.h - 1) = s.rect.h - 1
  BY <1>4 DEF AtLeast, Rects
<1>6. \/ \E d \in bits : \E n \in Crossing(mode, d, at) : Cross(n)
      \/ /\ cursor' = at
         /\ remote_beacon_at' = {0}
         /\ remote_at_wall' = bits
         /\ remote_pushing' = IF bits = {} THEN {} ELSE remote_pushing
         /\ mode' = mode /\ UNCHANGED <<near_latches, remote_last_out>>
  BY <1>1, <1>5
<1>7. at \in Points /\ Contains(s.rect, at.x, at.y)
  <2>1. px \in 0..s.rect.w - 1 /\ py \in 0..s.rect.h - 1
    BY <1>3, <1>4 DEF Clamp, AtMost, Rects
  <2> HIDE DEF px, py
  <2> QED BY <1>4, <2>1 DEF Contains, Rects, Points
<1> HIDE DEF at, bits
<1>8. CASE \E d \in bits : \E n \in Crossing(mode, d, at) : Cross(n)
  BY <1>2, <1>4, <1>7, <1>8, CrossIntent
<1>9. CASE /\ cursor' = at
           /\ remote_beacon_at' = {0}
           /\ remote_at_wall' = bits
           /\ remote_pushing' = IF bits = {} THEN {} ELSE remote_pushing
           /\ mode' = mode /\ UNCHANGED <<near_latches, remote_last_out>>
  <2>1. /\ at_wall' = {} /\ pushing' = {} /\ pushing = {} /\ LastPush' = LastPush
    BY <1>2, <1>9 DEF Inv, LatchesMatchMode, near_latches, LastPush
  <2>2. seen' = SeenBeacon(bits)
    BY <1>4, <1>9 DEF Remember
  <2>3. (pushing \cup remote_pushing)' \subseteq IF bits = {} THEN {} ELSE pushing \cup remote_pushing
    BY <1>9, <2>1
  <2>4. (at_wall \cup remote_at_wall)' \subseteq bits /\ \A age \in remote_beacon_at' : 0 <= age
    BY <1>9, <2>1
  <2> QED BY <1>2, <1>4, <1>7, <1>9, <2>1, <2>2, <2>3, <2>4, BeaconStays
<1> QED BY <1>6, <1>8, <1>9

-----------------------------------------------------------------------------
(* Time, requests and connections *)

\* A tick ages a push in the latch and in the history alike.
LEMMA OlderIs ==
  ASSUME NEW cap \in Nat, NEW latch \in PushLatches(cap)
  PROVE  /\ \A q \in Older(latch, cap) :
              \E p \in latch : q.dir = p.dir /\ q.age = AtMost(cap, p.age + 1)
         /\ \A p \in latch :
              \E q \in Older(latch, cap) : q.dir = p.dir /\ q.age = AtMost(cap, p.age + 1)
<1>1. \A p \in latch : p \in [dir : Directions, age : 0..cap]
  BY DEF PushLatches
<1>2. \A p \in latch : LET q == [p EXCEPT !.age = AtMost(cap, p.age + 1)]
                       IN q.dir = p.dir /\ q.age = AtMost(cap, p.age + 1)
  BY <1>1
<1> QED BY <1>2 DEF Older

\* Time ages latches and history alike, each up to its threshold.
LEMMA TickIntent ==
  ASSUME IntentInv, TypeInv, Inv, Tick, seen' = SeenTick
  PROVE  IntentInv'
<1>1. Distinct' /\ HomeIsLocal' /\ screens' = screens /\ mode' = mode /\ cursor' = cursor
  BY DEF IntentInv, Distinct, HomeIsLocal, Tick, desktop
<1>2. /\ seen'.walls = seen.walls
      /\ seen'.beacon = AtMost(BEACON_FRESH, seen.beacon + 1)
      /\ seen'.push = [d \in Directions |-> AtMost(PUSH_FRESH, seen.push[d] + 1)]
      /\ seen'.tried = [d \in Directions |-> IF seen.tried[d] = NEVER THEN NEVER
                                             ELSE AtMost(PUSH_FALLBACK, seen.tried[d] + 1)]
      /\ seen' = [walls |-> seen'.walls, beacon |-> seen'.beacon, push |-> seen'.push,
                  tried |-> seen'.tried]
  BY DEF SeenTick
<1>3. /\ seen.walls \in SUBSET Directions /\ seen.beacon \in 0..BEACON_FRESH
      /\ seen.push \in [Directions -> 0..PUSH_FRESH]
      /\ seen.tried \in [Directions -> -1..PUSH_FALLBACK]
  BY DEF IntentInv, SeenTyped
<1>4. SeenTyped'
  <2>1. seen'.push \in [Directions -> 0..PUSH_FRESH] /\ seen'.beacon \in 0..BEACON_FRESH
    BY <1>2, <1>3, TickAssumption DEF AtMost
  <2>2. seen'.tried \in [Directions -> -1..PUSH_FALLBACK]
    BY <1>2, <1>3, TickAssumption DEF AtMost, NEVER
  <2> QED BY <1>2, <1>3, <2>1, <2>2 DEF SeenTyped
<1>5. WallsSeen'
  BY <1>2 DEF WallsSeen, IntentInv, Tick
<1>6. BeaconSeen'
  <2>1. \A age \in remote_beacon_at : age \in 0..BEACON_FRESH /\ seen.beacon <= age
    BY DEF TypeInv, LatchesTyped, IntentInv, BeaconSeen
  <2>2. remote_beacon_at' = {AtMost(BEACON_FRESH, age + 1) : age \in remote_beacon_at}
    BY DEF Tick
  <2> QED BY <1>2, <1>3, <2>1, <2>2, TickAssumption DEF BeaconSeen, AtMost
<1>7. PushSeen'
  <2>1. /\ last_out' = Older(last_out, PUSH_FRESH)
        /\ remote_last_out' = Older(remote_last_out, PUSH_FRESH)
        /\ last_out \in PushLatches(PUSH_FRESH) /\ remote_last_out \in PushLatches(PUSH_FRESH)
    BY DEF Tick, TypeInv, LatchesTyped
  <2>2. /\ \A q \in LastPush' :
             \E p \in LastPush : q.dir = p.dir /\ q.age = AtMost(PUSH_FRESH, p.age + 1)
        /\ \A p \in LastPush :
             \E q \in LastPush' : q.dir = p.dir /\ q.age = AtMost(PUSH_FRESH, p.age + 1)
    BY <2>1, OlderIs, TickAssumption DEF LastPush
  <2>3. \A p \in LastPush : p.dir \in Directions /\ p.age \in 0..PUSH_FRESH
    BY <2>1 DEF LastPush, PushLatches
  <2>4. ASSUME NEW q \in LastPush' PROVE seen'.push[q.dir] <= q.age
    <3>1. PICK p \in LastPush : q.dir = p.dir /\ q.age = AtMost(PUSH_FRESH, p.age + 1)
      BY <2>2
    <3>2. seen.push[p.dir] <= p.age /\ p.dir \in Directions /\ p.age \in 0..PUSH_FRESH
      BY <2>3 DEF IntentInv, PushSeen
    <3>3. seen.push[p.dir] \in 0..PUSH_FRESH
      BY <1>3, <3>2
    <3>4. seen'.push[q.dir] = AtMost(PUSH_FRESH, seen.push[p.dir] + 1)
      BY <1>2, <3>1, <3>2
    <3> QED BY <3>1, <3>2, <3>3, <3>4, TickAssumption DEF AtMost
  <2>5. ASSUME NEW d \in Directions, seen'.push[d] < PUSH_FRESH
        PROVE  \E q \in LastPush' : q.age <= seen'.push[d]
    <3>1. seen'.push[d] = AtMost(PUSH_FRESH, seen.push[d] + 1) /\ seen.push[d] \in 0..PUSH_FRESH
      BY <1>2, <1>3
    <3>2. seen.push[d] < PUSH_FRESH
      BY <2>5, <3>1, TickAssumption DEF AtMost
    <3>3. PICK p \in LastPush : p.age <= seen.push[d]
      BY <3>2 DEF IntentInv, PushSeen
    <3>4. PICK q \in LastPush' : q.age = AtMost(PUSH_FRESH, p.age + 1)
      BY <2>2
    <3>5. p.age \in 0..PUSH_FRESH
      BY <2>3
    <3>6. q.age <= seen'.push[d]
      BY <3>1, <3>3, <3>4, <3>5, TickAssumption DEF AtMost
    <3> QED BY <3>6
  <2> QED BY <2>4, <2>5 DEF PushSeen
<1>8. TriedSeen'
  <2>1. /\ pushing' = Older(pushing, PUSH_FALLBACK)
        /\ remote_pushing' = Older(remote_pushing, PUSH_FALLBACK)
        /\ pushing \in PushLatches(PUSH_FALLBACK) /\ remote_pushing \in PushLatches(PUSH_FALLBACK)
    BY DEF Tick, TypeInv, LatchesTyped
  <2>2. \A q \in (pushing \cup remote_pushing)' :
          \E p \in pushing \cup remote_pushing :
            q.dir = p.dir /\ q.age = AtMost(PUSH_FALLBACK, p.age + 1)
    BY <2>1, OlderIs, TickAssumption
  <2> SUFFICES ASSUME NEW q \in (pushing \cup remote_pushing)' PROVE q.age <= seen'.tried[q.dir]
    BY DEF TriedSeen
  <2>3. PICK p \in pushing \cup remote_pushing :
          q.dir = p.dir /\ q.age = AtMost(PUSH_FALLBACK, p.age + 1)
    BY <2>2
  <2>4. p.dir \in Directions /\ p.age \in 0..PUSH_FALLBACK /\ p.age <= seen.tried[p.dir]
    BY <2>1 DEF PushLatches, IntentInv, TriedSeen
  <2>5. seen.tried[p.dir] \in -1..PUSH_FALLBACK
    BY <1>3, <2>4
  <2>6. seen.tried[p.dir] # NEVER
    BY <2>4, <2>5 DEF NEVER
  <2>7. seen'.tried[q.dir] = AtMost(PUSH_FALLBACK, seen.tried[p.dir] + 1)
    BY <1>2, <2>3, <2>4, <2>6
  <2> QED BY <2>3, <2>4, <2>5, <2>7, TickAssumption DEF AtMost
<1>9. PastTried'
  <2> SUFFICES ASSUME NEW s \in Find(screens, mode), NEW d \in Past(s.rect, cursor)
               PROVE  0 <= seen'.tried[d]
    BY <1>1 DEF PastTried
  <2>1. 0 <= seen.tried[d] /\ d \in Directions
    BY DEF IntentInv, PastTried, Past
  <2>2. seen.tried[d] \in -1..PUSH_FALLBACK
    BY <1>3, <2>1
  <2>3. seen'.tried[d] = AtMost(PUSH_FALLBACK, seen.tried[d] + 1)
    BY <1>2, <2>1, <2>2 DEF NEVER
  <2> QED BY <2>1, <2>2, <2>3, TickAssumption DEF AtMost
<1> QED BY <1>1, <1>4, <1>5, <1>6, <1>7, <1>8, <1>9 DEF IntentInv

\* Coming home lands at the centre of the local screen.
LEMMA ForceLocalIntent ==
  ASSUME IntentInv, TypeInv, Inv, UNCHANGED desktop, ForceLocal, seen' = NothingSeen
  PROVE  IntentInv'
<1>1. PICK s \in Find(screens, HOME) :
        cursor' = [x |-> s.rect.x + Center(local).x, y |-> s.rect.y + Center(local).y]
  BY DEF ForceLocal, Enter
<1>2. s.rect = local /\ AtOrigin(local) /\ local \in Rects
  BY DEF IntentInv, HomeIsLocal, TypeInv, DesktopTyped
<1>3. PICK k \in DOMAIN screens : s = screens[k]
  BY DEF Find
<1>4. local.w > 0 /\ local.h > 0
  BY <1>2, <1>3 DEF IntentInv, Distinct
<1>5. cursor' \in Points /\ Contains(local, cursor'.x, cursor'.y)
  <2>1. /\ local.w \div 2 \in Int /\ 0 <= local.w \div 2 /\ local.w \div 2 < local.w
        /\ local.h \div 2 \in Int /\ 0 <= local.h \div 2 /\ local.h \div 2 < local.h
    BY <1>2, <1>4 DEF Rects
  <2>2. cursor' = [x |-> local.w \div 2, y |-> local.h \div 2]
    BY <1>1, <1>2, <2>1 DEF Center, AtOrigin, Rects
  <2> QED BY <1>2, <2>1, <2>2 DEF Points, Contains, AtOrigin, Rects
<1>6. mode' = HOME /\ ClearBoundaryState
  BY DEF ForceLocal, Enter
<1> QED BY <1>1, <1>2, <1>5, <1>6, EnteredAfresh

\* What touches neither the cursor nor a latch keeps the history true.
LEMMA QuietIntent ==
  ASSUME IntentInv, UNCHANGED <<desktop, mode, cursor, near_latches, far_latches, seen>>
  PROVE  IntentInv'
BY DEF desktop, near_latches, far_latches, IntentInv, Distinct, HomeIsLocal, SeenTyped, WallsSeen,
       BeaconSeen, PushSeen, LastPush, TriedSeen, PastTried

\* So do the calls of the server's threads.
LEMMA OtherIntent ==
  ASSUME IntentInv, TypeInv, Inv, Remember(seen),
         \/ ToggleLock
         \/ \E name : AdmitKnown(name)
         \/ \E id \in admitted : ClientConnected(id) \/ ClientDisconnected(id)
         \/ \E g : SetGain(g)
  PROVE  IntentInv'
<1>1. ASSUME NEW id \in admitted, ClientDisconnected(id) PROVE IntentInv'
  <2>1. UNCHANGED desktop /\ Disconnect(id) /\ id # HOME
    BY <1>1 DEF ClientDisconnected, Inv, StructureOK
  <2>2. CASE mode = id /\ ForceLocal
    <3>1. seen' = NothingSeen
      BY <2>1, <2>2 DEF Remember, ForceLocal, Enter
    <3> QED BY <2>1, <2>2, <3>1, ForceLocalIntent
  <2>3. CASE mode # id /\ UNCHANGED <<mode, cursor>>
    BY <1>1, <2>1, <2>3, QuietIntent DEF ClientDisconnected, Remember
  <2> QED BY <2>1, <2>2, <2>3 DEF Disconnect
<1>2. CASE ToggleLock \/ (\E name : AdmitKnown(name)) \/ (\E g : SetGain(g))
           \/ \E id \in admitted : ClientConnected(id)
  BY <1>2, QuietIntent DEF ToggleLock, AdmitKnown, SetGain, ClientConnected, Remember
<1> QED BY <1>1, <1>2

-----------------------------------------------------------------------------
(* The intent theorems *)

\* Every step of the history's specification is a step of the session.
LEMMA IntentIsSession ==
  ASSUME [IntentNext]_ivars
  PROVE  [Next]_vars
<1>1. CASE UNCHANGED ivars
  BY <1>1 DEF ivars
<1>2. CASE \E d \in Deltas : Motion(d)
  BY <1>2 DEF Motion, Next, InputEvent
<1>3. CASE \E p \in Spots : Beacon(p)
  BY <1>3 DEF Beacon, Next, InputEvent, ServerCall
<1>4. CASE Tick \/ Escape \/ ToggleLock
  BY <1>4 DEF Next, InputEvent
<1>5. CASE \/ \E name \in Clients : AdmitKnown(name)
           \/ \E id \in admitted : ClientConnected(id) \/ ClientDisconnected(id)
           \/ \E g \in Gains : SetGain(g)
  BY <1>5 DEF Next, ServerCall
<1> QED BY <1>1, <1>2, <1>3, <1>4, <1>5 DEF IntentNext

\* The screens of a configuration get ids of their own.
LEMMA ToLayoutIsDistinct ==
  ASSUME NEW config \in Configs
  PROVE  LET s == ToLayout(config)
         IN /\ \A j, k \in DOMAIN s : s[j].id = s[k].id => j = k
            /\ \A k \in DOMAIN s : s[k].rect.w > 0 /\ s[k].rect.h > 0
<1> DEFINE screen(k) == [id |-> k - 1, name |-> config[k].name, rect |-> config[k].rect]
           placed == [k \in DOMAIN config |-> screen(k)]
<1>1. /\ config \in Seq([name : STRING, rect : Rects])
      /\ Len(config) \in Nat /\ DOMAIN config = 1..Len(config)
      /\ \A k \in DOMAIN config : config[k] \in [name : STRING, rect : Rects]
      /\ \A k \in DOMAIN config : config[k].rect.w > 0 /\ config[k].rect.h > 0
  BY ConfigAssumption, LenProperties, ElementOfSeq
<1>2. IsList(placed)
  <2> DEFINE T == {screen(k) : k \in DOMAIN config}
  <2>1. placed \in [1..Len(config) -> T]
    BY <1>1
  <2> QED BY <1>1, <2>1, FunctionIsList
<1>3. /\ DOMAIN placed = 1..Len(config)
      /\ \A k \in DOMAIN placed : /\ placed[k].id = k - 1 /\ placed[k].rect \in Rects
                               /\ placed[k].rect.w > 0 /\ placed[k].rect.h > 0
  BY <1>1
<1> HIDE DEF placed
<1>4. /\ DOMAIN Normalized(placed) = DOMAIN placed
      /\ \A k \in DOMAIN placed : /\ Normalized(placed)[k].id = placed[k].id
                               /\ Normalized(placed)[k].rect.w = placed[k].rect.w
                               /\ Normalized(placed)[k].rect.h = placed[k].rect.h
  BY <1>2, <1>3, NormalizedMovesOnly
<1>5. PICK s : s = Normalized(placed)
  OBVIOUS
<1>6. \A k \in DOMAIN s : k \in Int /\ s[k].id = k - 1 /\ s[k].rect.w > 0 /\ s[k].rect.h > 0
  BY <1>1, <1>3, <1>4, <1>5
<1>7. \A j, k \in DOMAIN s : s[j].id = s[k].id => j = k
  BY <1>6
<1>8. s = ToLayout(config)
  BY <1>5 DEF ToLayout, placed
<1> QED BY <1>6, <1>7, <1>8

\* The centre of a rectangle is one of its points.
LEMMA CenterIsInside ==
  ASSUME NEW r \in Rects, r.w > 0, r.h > 0
  PROVE  LET c == Center(r) IN Contains(r, c.x, c.y) /\ c \in Points
<1>1. ASSUME NEW n \in Int, n > 0
      PROVE  n \div 2 \in Int /\ 0 <= n \div 2 /\ n \div 2 < n
  BY <1>1
<1>2. ASSUME NEW a \in Int, NEW n \in Int, NEW half \in Int, 0 <= half, half < n
      PROVE  a + half \in Int /\ a <= a + half /\ a + half < a + n
  BY <1>2
<1>3. r.x \in Int /\ r.y \in Int /\ r.w \in Int /\ r.h \in Int
  BY DEF Rects
<1>4. Center(r).x = r.x + r.w \div 2 /\ Center(r).y = r.y + r.h \div 2
  BY DEF Center
<1>5. Contains(r, Center(r).x, Center(r).y)
  <2>1. /\ r.w \div 2 \in Int /\ 0 <= r.w \div 2 /\ r.w \div 2 < r.w
        /\ r.h \div 2 \in Int /\ 0 <= r.h \div 2 /\ r.h \div 2 < r.h
    BY <1>1, <1>3
  <2>2. /\ r.x <= Center(r).x /\ Center(r).x < r.x + r.w
        /\ r.y <= Center(r).y /\ Center(r).y < r.y + r.h
    BY <1>2, <1>3, <1>4, <2>1
  <2> QED BY <2>2 DEF Contains
<1>6. Center(r) \in Points
  BY CenterIsPoint
<1> QED BY <1>5, <1>6

\* The desktop the program starts with.
LEMMA InitDesktop ==
  ASSUME HomeIsDisplay, Inv, Init
  PROVE  Distinct /\ HomeIsLocal
<1>1. PICK config \in Configs :
        /\ screens = ToLayout(config)
        /\ \E home \in Find(screens, HOME) : local = home.rect /\ cursor = Center(home.rect)
  BY DEF Init
<1>2. PICK home \in Find(screens, HOME) : local = home.rect /\ cursor = Center(home.rect)
  BY <1>1
<1>3. Distinct
  BY <1>1, ToLayoutIsDistinct DEF Distinct
<1>4. HomeIsLocal
  <2>1. \A f \in Find(screens, HOME) : f = home
    BY FindIsOne DEF Inv, StructureOK
  <2>2. AtOrigin(home.rect) /\ \A p \in HomeSpots : Contains(home.rect, p.x, p.y)
    BY <1>1 DEF HomeIsDisplay
  <2> QED BY <1>2, <2>1, <2>2 DEF HomeIsLocal
<1> QED BY <1>3, <1>4

LEMMA InitIntent ==
  ASSUME HomeIsDisplay, \A config \in Configs : Len(config) <= MAX_ID + 1, IntentInit
  PROVE  IntentInv
<1>1. Inv /\ TypeInv /\ seen = NothingSeen
  BY InitInv, InitTyped DEF IntentInit
<1>2. PICK config \in Configs :
        /\ screens = ToLayout(config)
        /\ \E home \in Find(screens, HOME) : local = home.rect /\ cursor = Center(home.rect)
  BY DEF IntentInit, Init
<1>3. PICK home \in Find(screens, HOME) : local = home.rect /\ cursor = Center(home.rect)
  BY <1>2
<1>4. Distinct
  BY <1>1, InitDesktop DEF IntentInit
<1>5. HomeIsLocal
  BY <1>1, InitDesktop DEF IntentInit
<1>6. /\ mode = HOME
      /\ at_wall = {} /\ last_out = {} /\ pushing = {}
      /\ remote_at_wall = {} /\ remote_beacon_at = {}
      /\ remote_last_out = {} /\ remote_pushing = {}
  BY DEF IntentInit, Init
<1>7. SeenTyped
  BY <1>1, TickAssumption DEF SeenTyped, NothingSeen, NEVER
<1>8. WallsSeen /\ BeaconSeen /\ TriedSeen
  BY <1>6 DEF WallsSeen, BeaconSeen, TriedSeen
<1>9. PushSeen
  <2>1. \A d \in Directions : seen.push[d] = PUSH_FRESH
    BY <1>1 DEF NothingSeen
  <2> QED BY <1>6, <2>1, TickAssumption DEF PushSeen, LastPush
<1>10. PastTried
  <2>1. home.rect \in Rects /\ home.rect.w > 0 /\ home.rect.h > 0
    <3>1. PICK k \in DOMAIN screens : home = screens[k]
      BY DEF Find
    <3> QED BY <1>1, <1>4, <3>1, FindIsTyped DEF Distinct, TypeInv, DesktopTyped
  <2>2. Contains(home.rect, cursor.x, cursor.y) /\ cursor \in Points
    BY <1>3, <2>1, CenterIsInside
  <2>3. Past(home.rect, cursor) = {}
    BY <2>1, <2>2, InsideIsNotPast
  <2>4. \A f \in Find(screens, mode) : f = home
    BY <1>1, <1>6, FindIsOne DEF Inv, StructureOK
  <2> QED BY <2>3, <2>4 DEF PastTried
<1> QED BY <1>4, <1>5, <1>7, <1>8, <1>9, <1>10 DEF IntentInv

\* The intent invariant is inductive, given the invariants of the session.
LEMMA StepIntent ==
  ASSUME IntentInv, TypeInv, Inv, [IntentNext]_ivars
  PROVE  IntentInv'
<1>1. CASE UNCHANGED ivars
  BY <1>1, QuietIntent DEF ivars, vars
<1>2. ASSUME NEW m \in Deltas, Motion(m),
             Remember(SeenMotion(PushedEdges(Travel(m).dx, Travel(m).dy),
                                 PulledEdges(Travel(m).dx, Travel(m).dy)))
      PROVE  IntentInv'
  <2>1. CASE LocalMotion(m.dx, m.dy)
    <3>1. mode = HOME
      BY <2>1 DEF LocalMotion
    <3>2. Travel(m) = m /\ m.dx \in Int /\ m.dy \in Int
      BY <3>1, InputAssumption DEF Travel
    <3>3. Remember(SeenMotion(PushedEdges(m.dx, m.dy), PulledEdges(m.dx, m.dy)))
      BY <1>2, <3>2
    <3> QED BY <2>1, <3>2, <3>3, LocalMotionIntent
  <2>2. CASE RemoteMotion(m.dx, m.dy)
    BY <1>2, <2>2, RemoteMotionIntent
  <2> QED BY <1>2, <2>1, <2>2 DEF Motion
<1>3. ASSUME NEW p \in Spots, Beacon(p), Remember(SeenBeacon(Reported(p)))
      PROVE  IntentInv'
  BY <1>3, LocalBeaconIntent, RemoteBeaconIntent DEF Beacon
<1>4. CASE Tick /\ Remember(SeenTick)
  <2>1. seen' = SeenTick
    BY <1>4 DEF Tick, Remember
  <2> QED BY <1>4, <2>1, TickIntent
<1>5. CASE Escape /\ seen' = NothingSeen
  BY <1>5, ForceLocalIntent DEF Escape
<1>6. CASE /\ \/ ToggleLock
              \/ \E name \in Clients : AdmitKnown(name)
              \/ \E id \in admitted : ClientConnected(id) \/ ClientDisconnected(id)
              \/ \E g \in Gains : SetGain(g)
           /\ Remember(seen)
  BY <1>6, OtherIntent
<1> QED BY <1>1, <1>2, <1>3, <1>4, <1>5, <1>6 DEF IntentNext

\* It holds throughout, for desktops with the server's display at the origin.
LEMMA IntentHolds ==
  ASSUME HomeIsDisplay, \A config \in Configs : Len(config) <= MAX_ID + 1
  PROVE  IntentSpec => [](IntentInv /\ TypeInv /\ Inv)
<1>1. IntentInit => Init
  BY DEF IntentInit
<1>2. [IntentNext]_ivars => [Next]_vars
  BY IntentIsSession
<1>3. IntentSpec => Spec
  BY <1>1, <1>2, PTL DEF IntentSpec, Spec
<1>4. IntentInit => IntentInv
  BY InitIntent
<1>5. IntentInv /\ TypeInv /\ Inv /\ [IntentNext]_ivars => IntentInv'
  BY StepIntent
<1> QED BY <1>3, <1>4, <1>5, InvHolds, TypesHold, PTL DEF IntentSpec

\* A motion from inside the screen crosses only an edge it pushes through, and on
\* a confirmed wall or after the fallback delay.
LEMMA MotionIsIntended ==
  ASSUME IntentInv, TypeInv, Inv, NEW m \in Deltas, mode' # mode, CursorOnScreen, Motion(m)
  PROVE  \E d \in PushedEdges(Travel(m).dx, Travel(m).dy) :
           /\ EnteredThrough(d)
           /\ Confirmed(d) \/ seen.tried[d] = PUSH_FALLBACK
<1>1. PICK s \in Find(screens, mode) : Contains(s.rect, cursor.x, cursor.y)
  BY DEF CursorOnScreen
<1>2. s.rect \in Rects /\ cursor \in Points /\ \A f \in Find(screens, mode) : f = s
  BY FindIsTyped, FindIsOne DEF TypeInv, DesktopTyped, CursorTyped, Inv, StructureOK
<1>3. Past(s.rect, cursor) = {}
  BY <1>1, <1>2, InsideIsNotPast
<1>4. ASSUME NEW d \in Directions, NEW p \in Points, NEW n \in Crossing(mode, d, p), Cross(n)
      PROVE  EnteredThrough(d)
  BY <1>4, CrossesThrough DEF IntentInv, TypeInv, Inv, StructureOK
<1>5. ASSUME NEW dx \in Int, NEW dy \in Int,
             NEW d \in ExitDirection(screens, mode, cursor.x + dx, cursor.y + dy),
             \E p \in pushing \cup remote_pushing : p.dir = d /\ p.age >= PUSH_FALLBACK
      PROVE  d \in PushedEdges(dx, dy) /\ seen.tried[d] = PUSH_FALLBACK
  <2> DEFINE at == [x |-> cursor.x + dx, y |-> cursor.y + dy]
  <2>1. at \in Points /\ d \in ExitDirection(screens, mode, at.x, at.y)
    BY <1>2 DEF Points
  <2>2. d \in Past(s.rect, at)
    <3> HIDE DEF at
    <3> QED BY <1>2, <2>1, ExitIsPast
  <2>3. d \in PushedEdges(dx, dy)
    BY <1>2, <1>3, <2>2, PastIsPushed
  <2>4. PICK p \in pushing \cup remote_pushing : p.dir = d /\ p.age >= PUSH_FALLBACK
    BY <1>5
  <2>5. p.age \in Int /\ d \in Directions
    BY <2>4 DEF TypeInv, LatchesTyped, PushLatches
  <2>6. p.age <= seen.tried[d] /\ seen.tried[d] \in -1..PUSH_FALLBACK
    BY <2>4, <2>5 DEF IntentInv, TriedSeen, SeenTyped
  <2> QED BY <2>3, <2>4, <2>5, <2>6, TickAssumption
<1>6. CASE LocalMotion(m.dx, m.dy)
  <2> DEFINE at == [x |-> cursor.x + m.dx, y |-> cursor.y + m.dy]
             pushed == PushedEdges(m.dx, m.dy)
  <2>1. /\ mode = HOME /\ Travel(m) = m /\ m.dx \in Int /\ m.dy \in Int
    BY <1>6, InputAssumption DEF LocalMotion, Travel
  <2>2. LocalPush(at, pushed) \/ LocalFallback(at, pushed)
    BY <1>6 DEF LocalMotion, LocalInside, LocalPinned, Stay
  <2>3. at \in Points /\ ClampTo(local, at) \in Points
    <3>1. at \in Points
      BY <1>2, <2>1 DEF Points
    <3> QED BY <3>1, ClampIsPoint DEF TypeInv, DesktopTyped
  <2>4. CASE LocalPush(at, pushed)
    <3>1. PICK d \in pushed \cap at_wall : \E n \in Crossing(mode, d, at) : Cross(n)
      BY <2>1, <2>4 DEF LocalPush
    <3>2. d \in Directions /\ d \in seen.walls
      BY <3>1 DEF TypeInv, LatchesTyped, IntentInv, WallsSeen
    <3>3. EnteredThrough(d)
      <4> HIDE DEF at
      <4> QED BY <1>4, <2>3, <3>1, <3>2
    <3> QED BY <2>1, <3>1, <3>2, <3>3 DEF Confirmed
  <2>5. CASE LocalFallback(at, pushed)
    <3>1. PICK d \in ExitDirection(screens, mode, at.x, at.y) :
            Sustained(pushing, d) /\ \E n \in Crossing(mode, d, ClampTo(local, at)) : Cross(n)
      BY <2>1, <2>5 DEF LocalFallback
    <3>2. d \in pushed /\ seen.tried[d] = PUSH_FALLBACK
      BY <1>5, <2>1, <3>1 DEF Sustained
    <3>3. EnteredThrough(d)
      <4>1. d \in Directions
        BY <3>2, EdgesAreDirections
      <4> HIDE DEF at
      <4> QED BY <1>4, <2>3, <3>1, <4>1
    <3> QED BY <2>1, <3>2, <3>3
  <2> QED BY <2>2, <2>4, <2>5
<1>7. CASE RemoteMotion(m.dx, m.dy)
  <2> DEFINE sx == Whole(m.dx * gain + gain_rem.x)
             sy == Whole(m.dy * gain + gain_rem.y)
             at == [x |-> cursor.x + sx, y |-> cursor.y + sy]
             pushed == PushedEdges(sx, sy)
             armed == ArmedEdges(at, pushed)
  <2>1. mode # HOME /\ Travel(m).dx = sx /\ Travel(m).dy = sy
    BY <1>7 DEF RemoteMotion, Travel, ScaledMotion
  <2>2. RemotePush(at, armed) \/ RemoteFallback(at)
    BY <1>7 DEF RemoteMotion, RemoteRefused, RemoteForward, Stay
  <2>3. sx \in Int /\ sy \in Int
    BY ScaledIsInt, InputAssumption DEF TypeInv
  <2> HIDE DEF sx, sy
  <2>4. at \in Points /\ ClampTo(s.rect, at) \in Points
    <3>1. at \in Points
      BY <1>2, <2>3 DEF Points
    <3> QED BY <1>2, <3>1, ClampIsPoint
  <2>5. CASE RemotePush(at, armed)
    <3>1. PICK d \in armed : \E n \in Crossing(mode, d, at) : Cross(n)
      BY <2>5 DEF RemotePush
    <3>2. d \in pushed /\ d \in remote_at_wall /\ BeaconIsFresh
      BY <3>1 DEF ArmedEdges
    <3>3. d \in Directions /\ d \in seen.walls
      BY <3>2 DEF TypeInv, LatchesTyped, IntentInv, WallsSeen
    <3>4. seen.beacon < BEACON_FRESH
      <4>1. PICK age \in remote_beacon_at : age < BEACON_FRESH
        BY <3>2 DEF BeaconIsFresh
      <4>2. seen.beacon <= age /\ age \in Int /\ seen.beacon \in Int
        BY <4>1 DEF IntentInv, BeaconSeen, SeenTyped, TypeInv, LatchesTyped
      <4> QED BY <4>1, <4>2, TickAssumption
    <3>5. EnteredThrough(d)
      <4> HIDE DEF at, armed
      <4> QED BY <1>4, <2>4, <3>1, <3>3
    <3> QED BY <2>1, <3>2, <3>3, <3>4, <3>5 DEF Confirmed
  <2>6. CASE RemoteFallback(at)
    <3>1. PICK d \in ExitDirection(screens, mode, at.x, at.y) :
            FallbackDue(d) /\ \E n \in Crossing(mode, d, ClampTo(s.rect, at)) : Cross(n)
      <4>1. \A f \in Find(screens, mode) : f = s
        BY <1>2
      <4> QED BY <2>6, <4>1 DEF RemoteFallback
    <3>2. d \in pushed /\ seen.tried[d] = PUSH_FALLBACK
      BY <1>5, <2>3, <3>1 DEF FallbackDue, Sustained
    <3>3. EnteredThrough(d)
      <4>1. d \in Directions
        BY <3>2, EdgesAreDirections
      <4> HIDE DEF at
      <4> QED BY <1>4, <2>4, <3>1, <4>1
    <3> QED BY <2>1, <3>2, <3>3
  <2> QED BY <2>2, <2>5, <2>6
<1> QED BY <1>6, <1>7 DEF Motion

\* A beacon crosses only a wall it reports, which the user pushed through within
\* the fresh window.
LEMMA BeaconIsIntended ==
  ASSUME IntentInv, TypeInv, Inv, NEW p \in Spots, mode' # mode, Beacon(p)
  PROVE  \E d \in Reported(p) : EnteredThrough(d) /\ seen.push[d] < PUSH_FRESH
<1>1. ASSUME NEW d \in Directions, NEW at \in Points, NEW n \in Crossing(mode, d, at), Cross(n)
      PROVE  EnteredThrough(d)
  BY <1>1, CrossesThrough DEF IntentInv, TypeInv, Inv, StructureOK
<1>2. ASSUME NEW d \in Directions, Fresh(LastPush, d)
      PROVE  seen.push[d] < PUSH_FRESH
  <2>1. PICK q \in LastPush : q.dir = d /\ q.age < PUSH_FRESH
    BY <1>2 DEF Fresh
  <2>2. q.age \in Int /\ seen.push[d] \in Int /\ seen.push[d] <= q.age
    BY <2>1 DEF LastPush, PushSeen, IntentInv, SeenTyped, TypeInv, LatchesTyped, PushLatches
  <2> QED BY <2>1, <2>2, TickAssumption
<1>3. p \in [x : Int, y : Int] /\ p.x \in Int /\ p.y \in Int
  BY InputAssumption DEF Spots
<1>4. CASE p \in HomeSpots /\ LocalBeacon(p.x, p.y)
  <2> DEFINE at == [x |-> local.x + p.x, y |-> local.y + p.y]
             bits == WallBits(local, p.x, p.y)
  <2>1. mode = HOME
    BY <1>4 DEF LocalBeacon
  <2>2. PICK d \in bits : Fresh(last_out, d) /\ \E n \in Crossing(mode, d, at) : Cross(n)
    BY <1>4, <2>1 DEF LocalBeacon, ParkEdges, Stay
  <2>3. LastPush = last_out
    BY <2>1 DEF LastPush, Inv, LatchesMatchMode
  <2>4. Reported(p) = bits /\ bits \in SUBSET Directions
    BY <1>3, <1>4, <2>1, HomeReports
  <2>5. at \in Points
    BY <1>3 DEF Points, TypeInv, DesktopTyped, Rects
  <2> HIDE DEF at, bits
  <2>6. d \in Directions /\ EnteredThrough(d)
    BY <1>1, <2>2, <2>4, <2>5
  <2> QED BY <1>2, <2>2, <2>3, <2>4, <2>6
<1>5. CASE p \in FarSpots /\ RemoteBeacon(p.x, p.y)
  <2>1. mode # HOME
    BY <1>5 DEF RemoteBeacon
  <2>2. LastPush = remote_last_out
    BY <2>1 DEF LastPush, Inv, LatchesMatchMode
  <2>3. PICK s \in Find(screens, mode) :
          LET px == Clamp(p.x, 0, AtLeast(0, s.rect.w - 1))
              py == Clamp(p.y, 0, AtLeast(0, s.rect.h - 1))
              at == [x |-> s.rect.x + px, y |-> s.rect.y + py]
          IN \E d \in WallBits(s.rect, px, py) :
               Fresh(remote_last_out, d) /\ \E n \in Crossing(mode, d, at) : Cross(n)
    BY <1>5 DEF RemoteBeacon, ParkEdges, Stay
  <2>4. /\ Reported(p) = WallBits(s.rect, Clamp(p.x, 0, s.rect.w - 1), Clamp(p.y, 0, s.rect.h - 1))
        /\ Reported(p) \in SUBSET Directions
        /\ s.rect \in Rects /\ s.rect.w > 0 /\ s.rect.h > 0
    BY <1>3, ReportedIs
  <2>5. AtLeast(0, s.rect.w - 1) = s.rect.w - 1 /\ AtLeast(0, s.rect.h - 1) = s.rect.h - 1
    BY <2>4 DEF AtLeast, Rects
  <2> DEFINE px == Clamp(p.x, 0, s.rect.w - 1)
             py == Clamp(p.y, 0, s.rect.h - 1)
             at == [x |-> s.rect.x + px, y |-> s.rect.y + py]
  <2>6. PICK d \in Reported(p) : Fresh(remote_last_out, d) /\ \E n \in Crossing(mode, d, at) : Cross(n)
    BY <2>3, <2>4, <2>5
  <2>7. at \in Points
    <3>1. px \in Int /\ py \in Int
      BY <1>3, <2>4 DEF Clamp, AtMost, Rects
    <3> HIDE DEF px, py
    <3> QED BY <2>4, <3>1 DEF Points, Rects
  <2> HIDE DEF at
  <2>8. d \in Directions /\ EnteredThrough(d)
    BY <1>1, <2>4, <2>6, <2>7
  <2> QED BY <1>2, <2>2, <2>6, <2>8
<1> QED BY <1>4, <1>5 DEF Beacon

\* A crossing always changes the screen.
LEMMA CrossGoesElsewhere ==
  ASSUME NEW p, NEW d, NEW n \in Crossing(mode, d, p), Cross(n)
  PROVE  mode' # mode
<1>1. PICK m \in Neighbor(screens, mode, d, p.x, p.y) :
        n \in {InsetEntry(s, d, m.x, m.y) : s \in Find(screens, m.id)}
  BY DEF Crossing
<1>2. m.id # mode
  BY <1>1, NeighborIsAnotherScreen
<1>3. n.id = m.id
  BY <1>1, FindMatches DEF InsetEntry
<1> QED BY <1>2, <1>3 DEF Cross, Enter

\* A beacon on a wall the user is pushing against crosses, if it can.
LEMMA ParkIsCompleted ==
  ASSUME IntentInv, TypeInv, Inv, NEW p \in Spots, Beacon(p),
         NEW d \in Reported(p) \ seen.walls,
         {e \in Directions : seen.push[e] < PUSH_FRESH} = {d}, mode' = mode
  PROVE  Crossing(mode, d, cursor') = {}
<1>1. Fresh(LastPush, d)
  <2>1. d \in Directions /\ seen.push[d] < PUSH_FRESH
    OBVIOUS
  <2>2. PICK q \in LastPush : q.age <= seen.push[d]
    BY <2>1 DEF IntentInv, PushSeen
  <2>3. q.dir \in Directions /\ q.age \in Int
    BY DEF LastPush, TypeInv, LatchesTyped, PushLatches
  <2>4. seen.push[q.dir] <= q.age /\ seen.push[q.dir] \in Int /\ seen.push[d] \in Int
    BY <2>1, <2>3 DEF IntentInv, PushSeen, SeenTyped
  <2>5. q.age < PUSH_FRESH /\ seen.push[q.dir] < PUSH_FRESH
    BY <2>1, <2>2, <2>3, <2>4, TickAssumption
  <2>6. q.dir = d
    BY <2>3, <2>5
  <2> QED BY <2>5, <2>6 DEF Fresh
<1>2. d \notin at_wall \cup remote_at_wall
  BY DEF IntentInv, WallsSeen
<1>3. ASSUME NEW q, NEW e, NEW n \in Crossing(mode, e, q), Cross(n)
      PROVE  FALSE
  BY <1>3, CrossGoesElsewhere
<1>4. p \in [x : Int, y : Int] /\ p.x \in Int /\ p.y \in Int
  BY InputAssumption DEF Spots
<1>5. CASE p \in HomeSpots /\ LocalBeacon(p.x, p.y)
  <2> DEFINE at == [x |-> local.x + p.x, y |-> local.y + p.y]
             bits == WallBits(local, p.x, p.y)
             parked == ParkEdges(bits, at_wall, last_out, HOME, at)
  <2>1. mode = HOME
    BY <1>5 DEF LocalBeacon
  <2>2. parked = {} /\ cursor' = at
    <3>1. \/ \E e \in parked : \E n \in Crossing(mode, e, at) : Cross(n)
          \/ parked = {} /\ cursor' = at
      BY <1>5, <2>1 DEF LocalBeacon
    <3> QED BY <1>3, <3>1
  <2>3. LastPush = last_out
    BY <2>1 DEF LastPush, Inv, LatchesMatchMode
  <2>4. Reported(p) = bits
    BY <1>4, <1>5, <2>1, HomeReports
  <2> QED BY <1>1, <1>2, <2>1, <2>2, <2>3, <2>4 DEF ParkEdges
<1>6. CASE p \in FarSpots /\ RemoteBeacon(p.x, p.y)
  <2>1. mode # HOME
    BY <1>6 DEF RemoteBeacon
  <2>2. LastPush = remote_last_out
    BY <2>1 DEF LastPush, Inv, LatchesMatchMode
  <2>3. PICK s \in Find(screens, mode) :
          LET px == Clamp(p.x, 0, AtLeast(0, s.rect.w - 1))
              py == Clamp(p.y, 0, AtLeast(0, s.rect.h - 1))
              at == [x |-> s.rect.x + px, y |-> s.rect.y + py]
              parked == ParkEdges(WallBits(s.rect, px, py), remote_at_wall, remote_last_out, mode, at)
          IN \/ \E e \in parked : \E n \in Crossing(mode, e, at) : Cross(n)
             \/ parked = {} /\ cursor' = at
    BY <1>6 DEF RemoteBeacon
  <2>4. /\ Reported(p) = WallBits(s.rect, Clamp(p.x, 0, s.rect.w - 1), Clamp(p.y, 0, s.rect.h - 1))
        /\ s.rect \in Rects /\ s.rect.w > 0 /\ s.rect.h > 0
    BY <1>4, ReportedIs
  <2>5. AtLeast(0, s.rect.w - 1) = s.rect.w - 1 /\ AtLeast(0, s.rect.h - 1) = s.rect.h - 1
    BY <2>4 DEF AtLeast, Rects
  <2>6. ParkEdges(Reported(p), remote_at_wall, remote_last_out, mode, cursor') = {}
    BY <1>3, <2>3, <2>4, <2>5
  <2> QED BY <1>1, <1>2, <2>2, <2>6 DEF ParkEdges
<1> QED BY <1>5, <1>6 DEF Beacon

\* From a cursor inside its screen a motion crosses an edge only on the user's
\* intent: it pushes through that edge, and a beacon confirmed the wall or the
\* push has lasted the fallback delay (handle_local_motion, handle_remote_motion),
\* for any desktop whose home screen is the display at the origin.
THEOREM MotionTheorem ==
  ASSUME HomeIsDisplay, \A config \in Configs : Len(config) <= MAX_ID + 1
  PROVE  IntentSpec => MotionCrossesOnIntent
<1>1. IntentInv /\ TypeInv /\ Inv =>
        [\A m \in Deltas : mode' # mode /\ CursorOnScreen /\ Motion(m) =>
           \E d \in PushedEdges(Travel(m).dx, Travel(m).dy) :
             /\ EnteredThrough(d)
             /\ Confirmed(d) \/ seen.tried[d] = PUSH_FALLBACK]_ivars
  BY MotionIsIntended
<1> QED BY <1>1, IntentHolds, PTL DEF MotionCrossesOnIntent

\* Resting at an edge never crosses it: a beacon crosses only a wall it reports,
\* through which the user pushed within EDGE_PUSH_FRESH (on_local_beacon,
\* on_remote_beacon).
THEOREM BeaconTheorem ==
  ASSUME HomeIsDisplay, \A config \in Configs : Len(config) <= MAX_ID + 1
  PROVE  IntentSpec => BeaconCrossesOnIntent
<1>1. IntentInv /\ TypeInv /\ Inv =>
        [\A p \in Spots : mode' # mode /\ Beacon(p) =>
           \E d \in Reported(p) : EnteredThrough(d) /\ seen.push[d] < PUSH_FRESH]_ivars
  BY BeaconIsIntended
<1> QED BY <1>1, IntentHolds, PTL DEF BeaconCrossesOnIntent

\* The intent is not lost either: a beacon that parks the real cursor on a wall the
\* user is pushing against completes the crossing when a screen there can be entered.
THEOREM ParkTheorem ==
  ASSUME HomeIsDisplay, \A config \in Configs : Len(config) <= MAX_ID + 1
  PROVE  IntentSpec => ParkCompletes
<1>1. IntentInv /\ TypeInv /\ Inv =>
        [\A p \in Spots : Beacon(p) =>
           ~\E d \in Reported(p) \ seen.walls :
              /\ {e \in Directions : seen.push[e] < PUSH_FRESH} = {d}
              /\ mode' = mode
              /\ Crossing(mode, d, cursor') # {}]_ivars
  BY ParkIsCompleted
<1> QED BY <1>1, IntentHolds, PTL DEF ParkCompletes
-----------------------------------------------------------------------------
(* The ray cast of a normalised desktop against a walk along the ray.  The   *)
(* four directions are one, seen from the edge crossed: Facing is where a    *)
(* rectangle begins in the direction d, Far where it ends.                   *)

Facing(r, d) == IF Backward(d) THEN -End(r, Along(d)) ELSE Start(r, Along(d))
Far(r, d) == IF Backward(d) THEN -Start(r, Along(d)) ELSE End(r, Along(d))

\* The rectangle has a pixel at the coordinate p across the ray.
Crosses(r, d, p) == LET axis == Other(Along(d)) IN Start(r, axis) <= p /\ p < End(r, axis)

LEMMA LineOfRect ==
  ASSUME NEW r, Broad(r), NEW d \in Directions, NEW p \in Int
  PROVE  /\ Facing(r, d) \in Int /\ Far(r, d) \in Int
         /\ 2 * (Far(r, d) - Facing(r, d)) > EDGE_TOLERANCE /\ Facing(r, d) < Far(r, d)
         /\ \A t \in Int : LET q == RayPixel(r, d, p, t) IN q.x \in Int /\ q.y \in Int
BY ToleranceAssumption
   DEF Broad, Rects, Directions, Facing, Far, Backward, Along, Start, End, Extent, RayPixel

\* The pixel t steps beyond r is in s if the ray crosses s and s is there.
LEMMA PixelOnLine ==
  ASSUME NEW r, Broad(r), NEW s, Broad(s), NEW d \in Directions, NEW p \in Int, NEW t \in Int
  PROVE  LET q == RayPixel(r, d, p, t)
         IN Contains(s, q.x, q.y) <=>
              Crosses(s, d, p) /\ Facing(s, d) <= Far(r, d) + t /\ Far(r, d) + t < Far(s, d)
<1>1. CASE d = "Left"
  BY <1>1 DEF Broad, Rects, Facing, Far, Backward, Along, Other, Start, End, Extent, RayPixel, Contains, Crosses
<1>2. CASE d = "Right"
  BY <1>2 DEF Broad, Rects, Facing, Far, Backward, Along, Other, Start, End, Extent, RayPixel, Contains, Crosses
<1>3. CASE d = "Top"
  BY <1>3 DEF Broad, Rects, Facing, Far, Backward, Along, Other, Start, End, Extent, RayPixel, Contains, Crosses
<1>4. CASE d = "Bottom"
  BY <1>4 DEF Broad, Rects, Facing, Far, Backward, Along, Other, Start, End, Extent, RayPixel, Contains, Crosses
<1>5. QED BY <1>1, <1>2, <1>3, <1>4 DEF Directions

\* Two rectangles on the ray that do not overlap are one behind the other.
LEMMA ApartOnLine ==
  ASSUME NEW r, Broad(r), NEW s, Broad(s), NEW d \in Directions, NEW p \in Int,
         Crosses(r, d, p), Crosses(s, d, p), ~Overlapping(r, s)
  PROVE  Far(r, d) <= Facing(s, d) \/ Far(s, d) <= Facing(r, d)
<1>1. CASE d \in {"Left", "Right"}
  BY <1>1 DEF Broad, Rects, Facing, Far, Backward, Along, Other, Start, End, Extent, Crosses, Overlapping
<1>2. CASE d \in {"Top", "Bottom"}
  BY <1>2 DEF Broad, Rects, Facing, Far, Backward, Along, Other, Start, End, Extent, Crosses, Overlapping
<1>3. QED BY <1>1, <1>2 DEF Directions

LEMMA GapIs ==
  ASSUME NEW from, Broad(from.rect), NEW s, Broad(s.rect), NEW d \in Directions
  PROVE  Gap(from, s, d) = Facing(s.rect, d) - Far(from.rect, d) /\ Gap(from, s, d) \in Int
BY DEF Broad, Rects, Directions, Facing, Far, Backward, Along, Start, End, Extent, Gap

LEMMA OffSpanIs ==
  ASSUME NEW s, Broad(s.rect), NEW d \in Directions, NEW p \in Int
  PROVE  LET off == OffSpan(s, p, Other(Along(d)))
         IN off \in Nat /\ (off = 0 <=> Crosses(s.rect, d, p))
<1>1. \A axis : Start(s.rect, axis) \in Int /\ End(s.rect, axis) \in Int
                /\ Start(s.rect, axis) < End(s.rect, axis)
  BY ToleranceAssumption DEF Broad, Rects, Start, End, Extent
<1>2. QED BY <1>1 DEF OffSpan, Crosses, AtLeast

LEMMA TurnedAround ==
  ASSUME NEW d \in Directions
  PROVE  /\ Opposite(d) \in Directions
         /\ \A p, r : Crosses(r, Opposite(d), p) <=> Crosses(r, d, p)
         /\ \A r : Broad(r) => /\ Facing(r, Opposite(d)) = -Far(r, d)
                               /\ Far(r, Opposite(d)) = -Facing(r, d)
BY DEF Directions, Opposite, Crosses, Facing, Far, Along, Other, Backward, Broad, Rects, Start, End, Extent

-----------------------------------------------------------------------------
\* What the arguments need of a desktop.
Spread(s) ==
  /\ DOMAIN s \subseteq Int
  /\ \A k \in DOMAIN s : Broad(s[k].rect)
  /\ \A j, k \in DOMAIN s : j # k => s[j].id # s[k].id

LEMMA NoOverlapIs ==
  ASSUME NEW s, Spread(s), NoIssues(s), NEW j \in DOMAIN s, NEW k \in DOMAIN s, j # k
  PROVE  ~Overlapping(s[j].rect, s[k].rect)
<1>1. j \in Int /\ k \in Int /\ Broad(s[j].rect) /\ Broad(s[k].rect)
  BY DEF Spread
<1>2. CASE j < k
  BY <1>2 DEF NoIssues
<1>3. CASE k < j
  <2>1. ~Overlapping(s[k].rect, s[j].rect)
    BY <1>3 DEF NoIssues
  <2>2. QED BY <1>1, <2>1 DEF Overlapping
<1>4. QED BY <1>1, <1>2, <1>3

LEMMA FindsItself ==
  ASSUME NEW s, Spread(s), NEW j \in DOMAIN s
  PROVE  Find(s, s[j].id) = {s[j]}
<1>1. {k \in DOMAIN s : s[k].id = s[j].id} = {j}
  BY DEF Spread
<1>2. j <= j
  BY DEF Spread
<1>3. {k \in DOMAIN s : IsFirst(k, {i \in DOMAIN s : s[i].id = s[j].id})} = {j}
  BY <1>1, <1>2 DEF IsFirst
<1>4. QED BY <1>3 DEF Find

\* A candidate the ray crosses, with every other one it crosses further away, is
\* the screen the ray cast names.
LEMMA NearestIsBest ==
  ASSUME NEW s, Spread(s), NEW j \in DOMAIN s, NEW d \in Directions, NEW p \in Int,
         NEW k \in DOMAIN s, k # j, Crosses(s[k].rect, d, p), Gap(s[j], s[k], d) >= 0,
         \A m \in DOMAIN s \ {j, k} :
            Crosses(s[m].rect, d, p) /\ Gap(s[j], s[m], d) >= -EDGE_TOLERANCE =>
              Gap(s[j], s[k], d) < Gap(s[j], s[m], d)
  PROVE  BestCandidates(s, s[j], d, p) = {k}
<1> DEFINE C == Candidates(s, s[j], d)
           off(m) == OffSpan(s[m], p, Other(Along(d)))
           far(m) == AtLeast(0, Gap(s[j], s[m], d))
<1>1. \A m \in DOMAIN s : /\ m \in Int /\ Gap(s[j], s[m], d) \in Int
                          /\ off(m) \in Nat /\ (off(m) = 0 <=> Crosses(s[m].rect, d, p))
  BY GapIs, OffSpanIs DEF Spread
<1>2. C \subseteq DOMAIN s \ {j} /\ k \in C
        /\ \A m \in C : Gap(s[j], s[m], d) >= -EDGE_TOLERANCE
  <2>1. Gap(s[j], s[k], d) >= -EDGE_TOLERANCE
    BY <1>1, ToleranceAssumption
  <2>2. QED BY <2>1 DEF Candidates, Spread
<1>3. \A m \in C \ {k} : off(k) < off(m) \/ (off(k) = off(m) /\ far(k) < far(m))
  <2>1. TAKE m \in C \ {k}
  <2>2. off(k) = 0
    BY <1>1
  <2>3. CASE off(m) = 0
    <3>1. Gap(s[j], s[k], d) < Gap(s[j], s[m], d)
      BY <1>1, <1>2, <2>3
    <3>2. QED BY <1>1, <1>2, <2>2, <2>3, <3>1 DEF AtLeast
  <2>4. CASE off(m) # 0
    BY <1>1, <1>2, <2>2, <2>4
  <2>5. QED BY <2>3, <2>4
<1>4. \A m, n \in C : Closer(s[j], s[m], s[n], d, p) <=>
                        (off(m) < off(n) \/ (off(m) = off(n) /\ far(m) < far(n)))
  BY DEF Closer
<1>5. \A m \in C : off(m) \in Nat /\ far(m) \in Int /\ m \in Int
  BY <1>1, <1>2 DEF AtLeast
<1> HIDE DEF C, off, far
<1>6. \A m \in C \ {k} : Closer(s[j], s[k], s[m], d, p) /\ ~Closer(s[j], s[m], s[k], d, p)
  BY <1>2, <1>3, <1>4, <1>5
<1>7. ~Closer(s[j], s[k], s[k], d, p) /\ k <= k
  BY <1>2, <1>4, <1>5
<1>8. BestCandidates(s, s[j], d, p) =
        {m \in C : \A n \in C : \/ Closer(s[j], s[m], s[n], d, p)
                                \/ m <= n /\ ~Closer(s[j], s[n], s[m], d, p)}
  BY DEF BestCandidates, C
<1>9. QED BY <1>2, <1>6, <1>7, <1>8

\* The ray cast then answers with a pixel of that screen, in line with the exit.
LEMMA BeyondIs ==
  ASSUME NEW s, Spread(s), NEW j \in DOMAIN s, NEW d \in Directions, NEW p \in Int,
         NEW k \in DOMAIN s, BestCandidates(s, s[j], d, p) = {k}, Crosses(s[k].rect, d, p)
  PROVE  \E n : /\ Beyond(s, s[j], d, p) = {n} /\ n.id = s[k].id
                /\ p = IF Along(d) = "x" THEN s[k].rect.y + n.y ELSE s[k].rect.x + n.x
<1> DEFINE q == RayPixel(s[j].rect, d, p, 0)
           n == EntryPoint(s[k], d, q.x, q.y)
<1>1. (IF Along(d) = "x" THEN q.y ELSE q.x) = p
  BY DEF Directions, Along, RayPixel
<1>2. Beyond(s, s[j], d, p) = {n}
  <2>1. Find(s, s[j].id) = {s[j]}
    BY FindsItself
  <2> HIDE DEF q
  <2>2. Neighbor(s, s[j].id, d, q.x, q.y) = {EntryPoint(s[k], d, q.x, q.y)}
    BY <1>1, <2>1 DEF Neighbor
  <2>3. QED BY <2>2 DEF Beyond, q
<1>3. n.id = s[k].id
  BY DEF EntryPoint
<1>4. s[k].rect \in Rects /\ s[k].rect.w > 0 /\ s[k].rect.h > 0
  BY ToleranceAssumption DEF Spread, Broad, Rects
<1>5. CASE d \in {"Left", "Right"}
  <2>1. q.y = p /\ Along(d) = "x"
    BY <1>5 DEF RayPixel, Along
  <2>2. s[k].rect.y <= p /\ p < s[k].rect.y + s[k].rect.h
    BY <1>5 DEF Crosses, Along, Other, Start, End, Extent
  <2>3. n.y = Clamp(q.y - s[k].rect.y, 0, AtLeast(0, s[k].rect.h - 1))
    BY <1>5 DEF EntryPoint
  <2>4. n.y = p - s[k].rect.y
    BY <1>4, <2>1, <2>2, <2>3 DEF Clamp, AtLeast, AtMost, Rects
  <2>5. p = s[k].rect.y + n.y
    BY <1>4, <2>4 DEF Rects
  <2>6. QED BY <1>2, <1>3, <2>1, <2>5
<1>6. CASE d \in {"Top", "Bottom"}
  <2>1. q.x = p /\ Along(d) = "y"
    BY <1>6 DEF RayPixel, Along
  <2>2. s[k].rect.x <= p /\ p < s[k].rect.x + s[k].rect.w
    BY <1>6 DEF Crosses, Along, Other, Start, End, Extent
  <2>3. n.x = Clamp(q.x - s[k].rect.x, 0, AtLeast(0, s[k].rect.w - 1))
    BY <1>6 DEF EntryPoint
  <2>4. n.x = p - s[k].rect.x
    BY <1>4, <2>1, <2>2, <2>3 DEF Clamp, AtLeast, AtMost, Rects
  <2>5. p = s[k].rect.x + n.x
    BY <1>4, <2>4 DEF Rects
  <2>6. QED BY <1>2, <1>3, <2>1, <2>5
<1>7. QED BY <1>5, <1>6 DEF Directions

\* What the walk has seen when it meets its first screen.
LEMMA HitIs ==
  ASSUME NEW s, Spread(s), NoIssues(s), NEW j \in DOMAIN s, NEW d \in Directions,
         NEW p \in ExitSpan(s[j].rect, d), NEW k \in FirstHit(s, s[j].rect, d, p)
  PROVE  /\ p \in Int /\ k \in DOMAIN s /\ k # j
         /\ Crosses(s[j].rect, d, p) /\ Crosses(s[k].rect, d, p)
         /\ Gap(s[j], s[k], d) \in 0..RAY_LENGTH
         /\ \A m \in DOMAIN s \ {j, k} : Crosses(s[m].rect, d, p) =>
              Far(s[k].rect, d) <= Facing(s[m].rect, d) \/ Far(s[m].rect, d) <= Facing(s[j].rect, d)
<1> DEFINE r == s[j].rect
           at(t) == ScreensAt(s, RayPixel(r, d, p, t))
           hits == {t \in 0..RAY_LENGTH : at(t) # {}}
<1>1. RAY_LENGTH \in Nat
  BY PageAssumption DEF PageAssumption
<1>2. \A m \in DOMAIN s : Broad(s[m].rect)
  BY DEF Spread
<1>3. p \in Int /\ Crosses(r, d, p)
  <2>1. \A axis : Start(r, axis) \in Int /\ End(r, axis) \in Int
    BY <1>2 DEF Broad, Rects, Start, End, Extent
  <2>2. QED BY <2>1 DEF ExitSpan, Crosses
<1>4. PICK t \in 0..RAY_LENGTH : k \in at(t) /\ \A u \in 0..RAY_LENGTH : u < t => at(u) = {}
  <2>1. k \in UNION {at(t) : t \in {t \in hits : IsFirst(t, hits)}}
    BY DEF FirstHit
  <2>2. PICK t \in hits : IsFirst(t, hits) /\ k \in at(t)
    BY <2>1
  <2>3. \A u \in 0..RAY_LENGTH : u < t => at(u) = {}
    BY <1>1, <2>2 DEF IsFirst
  <2>4. QED BY <2>2, <2>3
<1>5. k \in DOMAIN s /\ t \in Int
  BY <1>1, <1>4 DEF ScreensAt
<1>6. Crosses(s[k].rect, d, p) /\ Facing(s[k].rect, d) <= Far(r, d) + t /\ Far(r, d) + t < Far(s[k].rect, d)
  BY <1>2, <1>3, <1>4, <1>5, PixelOnLine DEF ScreensAt
<1>7. \A m \in DOMAIN s : /\ Facing(s[m].rect, d) \in Int /\ Far(s[m].rect, d) \in Int
                          /\ Facing(s[m].rect, d) < Far(s[m].rect, d)
  BY <1>2, <1>3, LineOfRect
<1>8. k # j
  BY <1>1, <1>5, <1>6, <1>7
<1>9. \A m \in DOMAIN s \ {j} : Crosses(s[m].rect, d, p) =>
        Far(r, d) <= Facing(s[m].rect, d) \/ Far(s[m].rect, d) <= Facing(r, d)
  BY <1>2, <1>3, NoOverlapIs, ApartOnLine
<1>10. \A m \in DOMAIN s \ {j}, u \in 0..RAY_LENGTH :
         u < t /\ Crosses(s[m].rect, d, p) =>
           ~(Facing(s[m].rect, d) <= Far(r, d) + u /\ Far(r, d) + u < Far(s[m].rect, d))
  <2>1. TAKE m \in DOMAIN s \ {j}, u \in 0..RAY_LENGTH
  <2>2. u \in Int /\ (u < t => m \notin at(u))
    BY <1>1, <1>4
  <2>3. QED BY <1>2, <1>3, <2>2, PixelOnLine DEF ScreensAt
<1>11. Facing(s[k].rect, d) = Far(r, d) + t
  <2>1. Far(r, d) <= Facing(s[k].rect, d)
    BY <1>1, <1>5, <1>6, <1>7, <1>8, <1>9
  <2>2. ASSUME Facing(s[k].rect, d) < Far(r, d) + t PROVE FALSE
    <3> DEFINE u == Facing(s[k].rect, d) - Far(r, d)
    <3>1. u \in 0..RAY_LENGTH /\ u < t /\ Facing(s[k].rect, d) <= Far(r, d) + u
          /\ Far(r, d) + u < Far(s[k].rect, d)
      BY <1>1, <1>5, <1>7, <2>1, <2>2
    <3>2. QED BY <1>5, <1>6, <1>8, <1>10, <3>1
  <2>3. QED BY <1>1, <1>5, <1>6, <1>7, <2>2
<1>12. Gap(s[j], s[k], d) = t
  BY <1>1, <1>2, <1>5, <1>7, <1>11, GapIs
<1>13. ASSUME NEW m \in DOMAIN s \ {j, k}, Crosses(s[m].rect, d, p),
              ~(Far(s[m].rect, d) <= Facing(r, d))
       PROVE  Far(s[k].rect, d) <= Facing(s[m].rect, d)
  <2>1. Far(r, d) <= Facing(s[m].rect, d)
    BY <1>9, <1>13
  <2>2. Far(s[k].rect, d) <= Facing(s[m].rect, d) \/ Far(s[m].rect, d) <= Facing(s[k].rect, d)
    BY <1>2, <1>3, <1>5, <1>6, <1>13, NoOverlapIs, ApartOnLine
  <2>3. ASSUME Far(s[m].rect, d) <= Facing(s[k].rect, d) PROVE FALSE
    <3> DEFINE u == Facing(s[m].rect, d) - Far(r, d)
    <3>1. u \in 0..RAY_LENGTH /\ u < t /\ Facing(s[m].rect, d) <= Far(r, d) + u
          /\ Far(r, d) + u < Far(s[m].rect, d)
      BY <1>1, <1>5, <1>7, <1>11, <2>1, <2>3
    <3>2. QED BY <1>10, <1>13, <3>1
  <2>4. QED BY <2>2, <2>3
<1>14. QED BY <1>3, <1>4, <1>5, <1>6, <1>8, <1>12, <1>13

LEMMA RayIsExact ==
  ASSUME NEW s, Spread(s), NoIssues(s), NEW j \in DOMAIN s, NEW d \in Directions,
         NEW p \in ExitSpan(s[j].rect, d), NEW k \in FirstHit(s, s[j].rect, d, p)
  PROVE  \A n \in Beyond(s, s[j], d, p) :
           /\ n.id = s[k].id
           /\ p = IF Along(d) = "x" THEN s[k].rect.y + n.y ELSE s[k].rect.x + n.x
<1>1. /\ p \in Int /\ k \in DOMAIN s /\ k # j /\ Crosses(s[k].rect, d, p)
      /\ Gap(s[j], s[k], d) >= 0
  <2>1. RAY_LENGTH \in Nat
    BY PageAssumption DEF PageAssumption
  <2>2. Gap(s[j], s[k], d) \in 0..RAY_LENGTH
    BY HitIs
  <2>3. Gap(s[j], s[k], d) >= 0
    BY <2>1, <2>2
  <2>4. QED BY <2>3, HitIs
<1>2. ASSUME NEW m \in DOMAIN s \ {j, k}, Crosses(s[m].rect, d, p),
             Gap(s[j], s[m], d) >= -EDGE_TOLERANCE
      PROVE  Gap(s[j], s[k], d) < Gap(s[j], s[m], d)
  <2>1. \A i \in DOMAIN s : /\ Facing(s[i].rect, d) \in Int /\ Far(s[i].rect, d) \in Int
                            /\ 2 * (Far(s[i].rect, d) - Facing(s[i].rect, d)) > EDGE_TOLERANCE
                            /\ Facing(s[i].rect, d) < Far(s[i].rect, d)
                            /\ Gap(s[j], s[i], d) = Facing(s[i].rect, d) - Far(s[j].rect, d)
    BY <1>1, LineOfRect, GapIs DEF Spread
  <2>2. Far(s[k].rect, d) <= Facing(s[m].rect, d) \/ Far(s[m].rect, d) <= Facing(s[j].rect, d)
    BY <1>2, HitIs
  <2>3. QED BY <1>1, <1>2, <2>1, <2>2, ToleranceAssumption
<1>3. BestCandidates(s, s[j], d, p) = {k}
  BY <1>1, <1>2, NearestIsBest
<1>4. QED BY <1>1, <1>3, BeyondIs

LEMMA RayReturns ==
  ASSUME NEW s, Spread(s), NoIssues(s), NEW j \in DOMAIN s, NEW d \in Directions,
         NEW p \in ExitSpan(s[j].rect, d), NEW k \in FirstHit(s, s[j].rect, d, p)
  PROVE  \E n \in Beyond(s, s[k], Opposite(d), p) : n.id = s[j].id
<1> DEFINE b == Opposite(d)
<1>1. /\ p \in Int /\ k \in DOMAIN s /\ k # j /\ Crosses(s[j].rect, d, p)
      /\ Gap(s[j], s[k], d) >= 0
  <2>1. RAY_LENGTH \in Nat
    BY PageAssumption DEF PageAssumption
  <2>2. Gap(s[j], s[k], d) \in 0..RAY_LENGTH
    BY HitIs
  <2>3. Gap(s[j], s[k], d) >= 0
    BY <2>1, <2>2
  <2>4. QED BY <2>3, HitIs
<1>2. b \in Directions /\ Crosses(s[j].rect, b, p)
  BY <1>1, TurnedAround
<1>3. \A i \in DOMAIN s : /\ Facing(s[i].rect, d) \in Int /\ Far(s[i].rect, d) \in Int
                          /\ 2 * (Far(s[i].rect, d) - Facing(s[i].rect, d)) > EDGE_TOLERANCE
                          /\ Facing(s[i].rect, d) < Far(s[i].rect, d)
                          /\ Gap(s[j], s[i], d) = Facing(s[i].rect, d) - Far(s[j].rect, d)
                          /\ Gap(s[k], s[i], b) = Facing(s[k].rect, d) - Far(s[i].rect, d)
  <2>1. TAKE i \in DOMAIN s
  <2>2. Broad(s[i].rect) /\ Broad(s[j].rect) /\ Broad(s[k].rect)
    BY <1>1 DEF Spread
  <2>3. /\ Gap(s[k], s[i], b) = Facing(s[i].rect, b) - Far(s[k].rect, b)
        /\ Facing(s[i].rect, b) = -Far(s[i].rect, d) /\ Far(s[k].rect, b) = -Facing(s[k].rect, d)
    BY <1>2, <2>2, GapIs, TurnedAround
  <2>4. /\ Facing(s[i].rect, d) \in Int /\ Far(s[i].rect, d) \in Int /\ Facing(s[k].rect, d) \in Int
        /\ 2 * (Far(s[i].rect, d) - Facing(s[i].rect, d)) > EDGE_TOLERANCE
        /\ Facing(s[i].rect, d) < Far(s[i].rect, d)
    BY <1>1, <2>2, LineOfRect
  <2>5. Gap(s[j], s[i], d) = Facing(s[i].rect, d) - Far(s[j].rect, d)
    BY <2>2, GapIs
  <2>6. QED BY <2>3, <2>4, <2>5
<1>4. ASSUME NEW m \in DOMAIN s \ {k, j}, Crosses(s[m].rect, b, p),
             Gap(s[k], s[m], b) >= -EDGE_TOLERANCE
      PROVE  Gap(s[k], s[j], b) < Gap(s[k], s[m], b)
  <2>1. Crosses(s[m].rect, d, p)
    BY <1>4, TurnedAround
  <2>2. Far(s[k].rect, d) <= Facing(s[m].rect, d) \/ Far(s[m].rect, d) <= Facing(s[j].rect, d)
    BY <2>1, <1>4, HitIs
  <2>3. QED BY <1>1, <1>3, <1>4, <2>2, ToleranceAssumption
<1>5. Gap(s[k], s[j], b) >= 0
  BY <1>1, <1>3
<1> HIDE DEF b
<1>6. BestCandidates(s, s[k], b, p) = {j}
  BY <1>1, <1>2, <1>4, <1>5, NearestIsBest
<1>7. \E n : Beyond(s, s[k], b, p) = {n} /\ n.id = s[j].id
  BY <1>1, <1>2, <1>6, BeyondIs
<1>8. QED BY <1>7 DEF b

-----------------------------------------------------------------------------
PageInv ==
  /\ raw \in Seq([id : Nat, name : STRING, rect : Rects])
  /\ Spread(raw) /\ Spread(adopted)

LEMMA AdoptedIsSpread ==
  ASSUME NEW s \in Seq([id : Nat, name : STRING, rect : Rects]), Spread(s)
  PROVE  Spread(Normalized(s))
<1>1. IsList(s) /\ \A k \in DOMAIN s : s[k].rect \in Rects
  BY SeqOfRange DEF IsList, Spread, Broad
<1>2. PICK n : n = Normalized(s)
  OBVIOUS
<1>3. DOMAIN n = DOMAIN s /\ \A k \in DOMAIN s : /\ n[k].id = s[k].id
                                                 /\ n[k].rect \in Rects
                                                 /\ n[k].rect.w = s[k].rect.w
                                                 /\ n[k].rect.h = s[k].rect.h
  BY <1>1, <1>2, NormalizedMovesOnly
<1>4. QED BY <1>2, <1>3 DEF Spread, Broad

LEMMA PageStarts == BroadScreens /\ PageInit => PageInv
<1>1. SUFFICES ASSUME BroadScreens, PageInit PROVE PageInv
  OBVIOUS
<1>2. Start0 \in Seq([id : Nat, name : STRING, rect : Rects])
      /\ \A j, k \in DOMAIN Start0 : j # k => Start0[j].id # Start0[k].id
  BY PageAssumption DEF PageAssumption
<1>3. DOMAIN Start0 \subseteq Int
  BY <1>2
<1>4. Spread(Start0)
  BY <1>1, <1>2, <1>3 DEF Spread, BroadScreens
<1>5. QED BY <1>1, <1>2, <1>4, AdoptedIsSpread DEF PageInit, PageInv

LEMMA PageSteps == PageInv /\ [PageNext]_page_vars => PageInv'
<1>1. SUFFICES ASSUME PageInv, PageNext PROVE PageInv'
  BY DEF PageInv, page_vars, Spread
<1>2. PICK k \in 2..Len(raw), x \in Xs, y \in Ys : Drag(k, x, y)
  BY <1>1 DEF PageNext
<1>3. x \in Int /\ y \in Int
  BY PageAssumption DEF PageAssumption
<1>4. DOMAIN raw = 1..Len(raw) /\ Len(raw) \in Nat /\ k \in DOMAIN raw
  BY <1>1 DEF PageInv
<1>5. PICK r : r = [raw[k].rect EXCEPT !.x = x, !.y = y]
  OBVIOUS
<1>6. raw' = [raw EXCEPT ![k] = [raw[k] EXCEPT !.rect = r]]
  BY <1>2, <1>5 DEF Drag
<1>7. raw[k] \in [id : Nat, name : STRING, rect : Rects]
  <2>1. raw \in Seq([id : Nat, name : STRING, rect : Rects])
    BY <1>1 DEF PageInv
  <2>2. QED BY <1>4, <2>1, ElementOfSeq
<1>8. Broad(r) /\ r \in Rects
  BY <1>1, <1>3, <1>4, <1>5, <1>7 DEF PageInv, Spread, Broad, Rects
<1>9. raw' \in Seq([id : Nat, name : STRING, rect : Rects])
  BY <1>1, <1>4, <1>6, <1>7, <1>8 DEF PageInv
<1>10. DOMAIN raw' = DOMAIN raw /\ \A i \in DOMAIN raw : /\ raw'[i].id = raw[i].id
                                                         /\ Broad(raw'[i].rect)
  BY <1>1, <1>4, <1>6, <1>7, <1>8 DEF PageInv, Spread
<1>11. Spread(raw)'
  BY <1>1, <1>10 DEF PageInv, Spread
<1>12. adopted' = Normalized(raw')
  BY <1>2 DEF Drag
<1>13. \A s \in Seq([id : Nat, name : STRING, rect : Rects]) : Spread(s) => Spread(Normalized(s))
  BY AdoptedIsSpread
<1>14. Spread(raw')
  BY <1>11 DEF Spread
<1>15. Spread(adopted')
  BY <1>9, <1>12, <1>13, <1>14
<1>16. QED BY <1>9, <1>11, <1>15 DEF PageInv, Spread

\* "The first screen the ray reaches is the destination" (layout.rs, neighbor):
\* on every desktop a user can arrange, of screens that are not thinner than half
\* the tolerance and do not overlap, at the very pixel the ray meets.
THEOREM RayTheorem ==
  ASSUME BroadScreens
  PROVE  PageSpec => []RayFindsFirstScreen
<1>1. PageInv => RayFindsFirstScreen
  BY RayIsExact DEF PageInv, RayFindsFirstScreen
<1>2. PageInit => PageInv
  BY PageStarts
<1>3. QED BY <1>1, <1>2, PageSteps, PTL DEF PageSpec

\* Whoever crosses an edge of such a desktop and turns around comes back.
THEOREM ReturnTheorem ==
  ASSUME BroadScreens
  PROVE  PageSpec => []CrossingsReturn
<1>1. PageInv => CrossingsReturn
  BY RayReturns DEF PageInv, CrossingsReturn
<1>2. PageInit => PageInv
  BY PageStarts
<1>3. QED BY <1>1, <1>2, PageSteps, PTL DEF PageSpec

\* A screen that is snapped to another, along either axis or both, does not
\* overlap it unless it did (snap_screens_together, one pair).
THEOREM SnapKeepsPairApart ==
  ASSUME NEW a \in Rects, NEW b \in Rects, a.w > 0, a.h > 0, b.w > 0, b.h > 0, ~Overlapping(a, b)
  PROVE  ~Overlapping(a, Snap(a, b))
<1> DEFINE nb == SnapAlong(a, b, b, "x")
<1>1. nb \in Rects /\ nb.w = b.w /\ nb.h = b.h
  BY SnappedAlong
<1>2. nb = b \/ nb.x = a.x + a.w \/ nb.x + b.w = a.x
  BY DEF SnapAlong, AlignSpan, MoveTo, Start, End, Extent, Other, Rects
<1>3. ~Overlapping(a, nb)
  BY <1>1, <1>2 DEF Overlapping, Rects
<1>4. Snap(a, b) = SnapAlong(a, b, nb, "y")
  BY DEF Snap
<1> HIDE DEF nb
<1>5. \/ Snap(a, b) = nb
      \/ Snap(a, b).h = b.h /\ Snap(a, b) \in Rects
         /\ (Snap(a, b).y = a.y + a.h \/ Snap(a, b).y + b.h = a.y)
  <2>1. Snap(a, b) \in Rects /\ Snap(a, b).h = b.h
    BY Snapped
  <2>2. Snap(a, b) = nb \/ Snap(a, b).y = a.y + a.h \/ Snap(a, b).y + b.h = a.y
    BY <1>1, <1>4 DEF SnapAlong, AlignSpan, MoveTo, Start, End, Extent, Other, Rects
  <2>3. QED BY <2>1, <2>2
<1>6. QED BY <1>3, <1>5 DEF Overlapping, Rects

\* Thicker than the tolerance: the near side of such a screen is not near its far side.
Thick(r) == r \in Rects /\ r.w > EDGE_TOLERANCE /\ r.h > EDGE_TOLERANCE

\* b stands right behind, or right before, a along the axis: what SnapAlong tests.
Touches(a, b, axis) == SpansOverlap(a, b, Other(axis)) /\ Near(End(a, axis), Start(b, axis))

\* Where b starts after it was snapped to a, one axis looked at on its own.
SnapsTo(a, b, axis) ==
  IF Touches(a, b, axis) THEN End(a, axis)
  ELSE IF Touches(b, a, axis) THEN Start(a, axis) - Extent(b, axis)
  ELSE IF /\ Touches(a, b, Other(axis)) \/ Touches(b, a, Other(axis))
          /\ Near(Start(b, axis), Start(a, axis))
       THEN Start(a, axis)
  ELSE Start(b, axis)

\* The code tests the axes one after the other and moves in between; for thick
\* screens that comes to the same, since an aligned start is not a contact.
LEMMA SnapIs ==
  ASSUME NEW a, NEW b, Thick(a), Thick(b)
  PROVE  /\ Snap(a, b) \in Rects /\ Snap(a, b).w = b.w /\ Snap(a, b).h = b.h
         /\ Snap(a, b).x = SnapsTo(a, b, "x")
         /\ Snap(a, b).y = SnapsTo(a, b, "y")
<1> DEFINE nb == SnapAlong(a, b, b, "x")
<1>1. a \in Rects /\ b \in Rects /\ EDGE_TOLERANCE \in Nat
  BY ToleranceAssumption DEF Thick
<1>2. nb \in Rects /\ nb.w = b.w /\ nb.h = b.h
  BY <1>1, SnappedAlong
<1>3. Snap(a, b) \in Rects /\ Snap(a, b).w = b.w /\ Snap(a, b).h = b.h
  BY <1>1, Snapped
<1>4. Snap(a, b) = SnapAlong(a, b, nb, "y")
  BY DEF Snap
<1>5. SpansOverlap(a, b, "x") = SpansOverlap(b, a, "x") /\ SpansOverlap(a, b, "y") = SpansOverlap(b, a, "y")
  BY DEF SpansOverlap
<1>6. nb.x = IF Touches(a, b, "x") THEN a.x + a.w ELSE IF Touches(b, a, "x") THEN a.x - b.w ELSE b.x
  BY <1>1, <1>5 DEF SnapAlong, AlignSpan, MoveTo, Touches, Start, End, Extent, Other, Rects
<1>7. nb.y = IF (Touches(a, b, "x") \/ Touches(b, a, "x")) /\ Near(b.y, a.y) THEN a.y ELSE b.y
  BY <1>1, <1>5 DEF SnapAlong, AlignSpan, MoveTo, Touches, Start, End, Extent, Other, Rects
<1> HIDE DEF nb
<1>8. Snap(a, b).y = IF Touches(a, b, "y") THEN a.y + a.h ELSE IF Touches(b, a, "y") THEN a.y - b.h ELSE nb.y
  BY <1>1, <1>2, <1>4, <1>5 DEF SnapAlong, AlignSpan, MoveTo, Touches, Start, End, Extent, Other, Rects
<1>9. Snap(a, b).x = IF (Touches(a, b, "y") \/ Touches(b, a, "y")) /\ Near(nb.x, a.x) THEN a.x ELSE nb.x
  BY <1>1, <1>2, <1>4, <1>5 DEF SnapAlong, AlignSpan, MoveTo, Touches, Start, End, Extent, Other, Rects
<1>10. ~Near(a.x + a.w, a.x) /\ ~Near(a.x - b.w, a.x)
  BY <1>1 DEF Near, Distance, Thick, Rects
<1>11. Snap(a, b).y = SnapsTo(a, b, "y")
  BY <1>7, <1>8 DEF SnapsTo, Start, End, Extent, Other
<1>12. Snap(a, b).x = SnapsTo(a, b, "x")
  BY <1>6, <1>9, <1>10 DEF SnapsTo, Start, End, Extent, Other
<1> QED BY <1>3, <1>11, <1>12

\* One of the two is to be snapped to the other along the axis; they are in contact
\* there; and neither is moved along the axis by a snap to the other.
Beside(r, q, axis) == Touches(r, q, axis) \/ Touches(q, r, axis)
Meets(r, q, axis) == Start(q, axis) = End(r, axis) \/ Start(r, axis) = End(q, axis)
Stable(r, q, axis) == SnapsTo(r, q, axis) = Start(q, axis) /\ SnapsTo(q, r, axis) = Start(r, axis)

LEMMA SpanIsInt ==
  ASSUME NEW r, Thick(r), NEW axis
  PROVE  /\ Start(r, axis) \in Int /\ Extent(r, axis) \in Int /\ End(r, axis) \in Int
         /\ End(r, axis) = Start(r, axis) + Extent(r, axis) /\ Extent(r, axis) > EDGE_TOLERANCE
BY DEF Thick, Rects, Start, Extent, End

LEMMA SpansCommute ==
  ASSUME NEW r, NEW q, NEW axis
  PROVE  /\ SpansOverlap(r, q, axis) = SpansOverlap(q, r, axis)
         /\ Beside(r, q, axis) = Beside(q, r, axis) /\ Meets(r, q, axis) = Meets(q, r, axis)
BY DEF SpansOverlap, Beside, Meets

\* Thick screens in contact are snapped to where they are.
LEMMA MeetingIsStable ==
  ASSUME NEW r, NEW q, Thick(r), Thick(q), NEW axis,
         Meets(r, q, axis), SpansOverlap(r, q, Other(axis))
  PROVE  Stable(r, q, axis) /\ Beside(r, q, axis)
<1>1. /\ Start(r, axis) \in Int /\ Extent(r, axis) \in Int /\ Extent(r, axis) > EDGE_TOLERANCE
      /\ Start(q, axis) \in Int /\ Extent(q, axis) \in Int /\ Extent(q, axis) > EDGE_TOLERANCE
      /\ End(r, axis) = Start(r, axis) + Extent(r, axis)
      /\ End(q, axis) = Start(q, axis) + Extent(q, axis)
      /\ EDGE_TOLERANCE \in Nat
  BY SpanIsInt, ToleranceAssumption
<1>2. SpansOverlap(q, r, Other(axis))
  BY SpansCommute
<1>3. CASE Start(q, axis) = End(r, axis)
  <2>1. Near(End(r, axis), Start(q, axis)) /\ ~Near(End(q, axis), Start(r, axis))
    BY <1>1, <1>3 DEF Near, Distance
  <2>2. Touches(r, q, axis) /\ ~Touches(q, r, axis)
    BY <2>1 DEF Touches
  <2>3. Start(q, axis) - Extent(r, axis) = Start(r, axis)
    BY <1>1, <1>3
  <2> QED BY <1>3, <2>2, <2>3 DEF SnapsTo, Stable, Beside
<1>4. CASE Start(r, axis) = End(q, axis)
  <2>1. Near(End(q, axis), Start(r, axis)) /\ ~Near(End(r, axis), Start(q, axis))
    BY <1>1, <1>4 DEF Near, Distance
  <2>2. Touches(q, r, axis) /\ ~Touches(r, q, axis)
    BY <1>2, <2>1 DEF Touches
  <2>3. Start(r, axis) - Extent(q, axis) = Start(q, axis)
    BY <1>1, <1>4
  <2> QED BY <1>4, <2>2, <2>3 DEF SnapsTo, Stable, Beside
<1> QED BY <1>3, <1>4 DEF Meets

\* Screens that are not beside each other along an axis stay along it, if they need no
\* alignment there.
LEMMA ApartIsStable ==
  ASSUME NEW r, NEW q, Thick(r), Thick(q), NEW axis, ~Beside(r, q, axis),
         \/ ~Beside(r, q, Other(axis))
         \/ ~Near(Start(r, axis), Start(q, axis))
         \/ Start(r, axis) = Start(q, axis)
  PROVE  Stable(r, q, axis)
<1>1. Start(r, axis) \in Int /\ Start(q, axis) \in Int
  BY SpanIsInt
<1>2. Near(Start(r, axis), Start(q, axis)) = Near(Start(q, axis), Start(r, axis))
  BY <1>1 DEF Near, Distance
<1> QED BY <1>2 DEF Stable, SnapsTo, Beside

\* Screens in contact are apart, and their spans along the contact overlap if there is
\* any tolerance.
LEMMA MeetingSpans ==
  ASSUME NEW r, NEW q, Thick(r), Thick(q), NEW axis \in {"x", "y"}, Meets(r, q, axis)
  PROVE  ~Overlapping(r, q) /\ (SpansOverlap(r, q, axis) <=> EDGE_TOLERANCE > 0)
<1>1. /\ Start(r, axis) \in Int /\ Extent(r, axis) \in Int /\ Extent(r, axis) > EDGE_TOLERANCE
      /\ Start(q, axis) \in Int /\ Extent(q, axis) \in Int /\ Extent(q, axis) > EDGE_TOLERANCE
      /\ End(r, axis) = Start(r, axis) + Extent(r, axis)
      /\ End(q, axis) = Start(q, axis) + Extent(q, axis)
      /\ EDGE_TOLERANCE \in Nat
  BY SpanIsInt, ToleranceAssumption
<1>2. SpansOverlap(r, q, axis) <=> EDGE_TOLERANCE > 0
  BY <1>1 DEF SpansOverlap, Meets
<1>3. ~(Start(r, axis) < End(q, axis) /\ Start(q, axis) < End(r, axis))
  BY <1>1 DEF Meets
<1>4. Overlapping(r, q) => Start(r, axis) < End(q, axis) /\ Start(q, axis) < End(r, axis)
  BY DEF Overlapping, Start, End, Extent
<1> QED BY <1>2, <1>3, <1>4

\* What is snapped along an axis is in contact there.
LEMMA SnappedMeets ==
  ASSUME NEW a, NEW b, NEW c, Thick(a), Thick(b), Thick(c), NEW axis, Beside(a, b, axis),
         Start(c, axis) = SnapsTo(a, b, axis), Extent(c, axis) = Extent(b, axis)
  PROVE  Meets(a, c, axis)
<1>1. /\ Start(a, axis) \in Int /\ Extent(b, axis) \in Int
      /\ End(c, axis) = Start(c, axis) + Extent(c, axis)
  BY SpanIsInt
<1>2. Start(c, axis) = End(a, axis) \/ Start(c, axis) = Start(a, axis) - Extent(b, axis)
  BY DEF Beside, SnapsTo
<1> QED BY <1>1, <1>2 DEF Meets

\* What is not is where it was or aligned, and its span there overlaps as before.
LEMMA AlignedSpans ==
  ASSUME NEW a, NEW b, NEW c, Thick(a), Thick(b), Thick(c), NEW axis, ~Beside(a, b, axis),
         Beside(a, b, Other(axis)), SpansOverlap(a, b, axis),
         Start(c, axis) = SnapsTo(a, b, axis), Extent(c, axis) = Extent(b, axis)
  PROVE  /\ SpansOverlap(a, c, axis)
         /\ ~Near(Start(a, axis), Start(c, axis)) \/ Start(a, axis) = Start(c, axis)
<1>1. /\ Start(a, axis) \in Int /\ Extent(a, axis) \in Int /\ Extent(a, axis) > EDGE_TOLERANCE
      /\ Start(b, axis) \in Int /\ Extent(b, axis) \in Int /\ Extent(b, axis) > EDGE_TOLERANCE
      /\ End(a, axis) = Start(a, axis) + Extent(a, axis)
      /\ End(b, axis) = Start(b, axis) + Extent(b, axis)
      /\ End(c, axis) = Start(c, axis) + Extent(c, axis)
      /\ EDGE_TOLERANCE \in Nat
  BY SpanIsInt, ToleranceAssumption
<1>2. Start(c, axis) = IF Near(Start(b, axis), Start(a, axis)) THEN Start(a, axis) ELSE Start(b, axis)
  BY DEF Beside, SnapsTo
<1>3. CASE Near(Start(b, axis), Start(a, axis))
  BY <1>1, <1>2, <1>3 DEF SpansOverlap
<1>4. CASE ~Near(Start(b, axis), Start(a, axis))
  BY <1>1, <1>2, <1>4 DEF SpansOverlap, Near, Distance
<1> QED BY <1>3, <1>4

\* Two screens after one was snapped to the other and that one to it: the first
\* snap may bring their corners together, the second closes what is left, and
\* either snap would now change nothing.
LEMMA PairSettles ==
  ASSUME NEW a, NEW b, Thick(a), Thick(b), ~Overlapping(a, b),
         NEW c, c = Snap(a, b), NEW d, d = Snap(c, a)
  PROVE  /\ Thick(c) /\ Thick(d) /\ ~Overlapping(d, c)
         /\ Snap(d, c) = c /\ Snap(c, d) = d
<1>1. /\ Thick(c) /\ c.w = b.w /\ c.h = b.h
      /\ \A axis \in {"x", "y"} : Start(c, axis) = SnapsTo(a, b, axis) /\ Extent(c, axis) = Extent(b, axis)
  BY SnapIs DEF Thick, Start, Extent
<1>2. /\ Thick(d) /\ d.w = a.w /\ d.h = a.h
      /\ \A axis \in {"x", "y"} : Start(d, axis) = SnapsTo(c, a, axis) /\ Extent(d, axis) = Extent(a, axis)
  BY <1>1, SnapIs DEF Thick, Start, Extent
<1>3. \A r, q \in Rects : r.x = q.x /\ r.y = q.y /\ r.w = q.w /\ r.h = q.h => r = q
  BY DEF Rects
<1>4. a \in Rects /\ b \in Rects /\ c \in Rects /\ d \in Rects
  BY <1>1, <1>2 DEF Thick
<1>5. ASSUME Stable(a, c, "x"), Stable(a, c, "y")
      PROVE  d = a
  <2>1. d.x = a.x /\ d.y = a.y
    BY <1>2, <1>5 DEF Stable, Start
  <2> QED BY <1>2, <1>3, <1>4, <2>1
<1>6. Stable(d, c, "x") /\ Stable(d, c, "y") /\ ~Overlapping(d, c)
  <2>1. CASE ~Beside(a, b, "x") /\ ~Beside(a, b, "y")
    <3>1. Stable(a, b, "x") /\ Stable(a, b, "y")
      BY <2>1, ApartIsStable DEF Other
    <3>2. c.x = b.x /\ c.y = b.y
      BY <1>1, <3>1 DEF Stable, Start
    <3>3. c = b
      BY <1>1, <1>3, <1>4, <3>2
    <3> QED BY <1>5, <3>1, <3>3
  <2>2. ASSUME NEW axis \in {"x", "y"}, NEW across \in {"x", "y"},
               across = Other(axis), axis = Other(across), Beside(a, b, axis)
        PROVE  Stable(d, c, axis) /\ Stable(d, c, across) /\ ~Overlapping(d, c)
    <3>1. Meets(a, c, axis)
      BY <1>1, <2>2, SnappedMeets
    <3>2. SpansOverlap(a, b, across)
      BY <2>2, SpansCommute DEF Beside, Touches
    <3>3. SpansOverlap(a, c, across)
      <4>1. CASE Beside(a, b, across)
        <5>1. Meets(a, c, across)
          BY <1>1, <2>2, <4>1, SnappedMeets
        <5>2. EDGE_TOLERANCE > 0
          <6>1. /\ Start(a, across) \in Int /\ End(a, across) \in Int
                /\ Start(b, across) \in Int /\ End(b, across) \in Int
                /\ EDGE_TOLERANCE \in Nat
            BY SpanIsInt, ToleranceAssumption
          <6>2. Near(End(a, across), Start(b, across)) \/ Near(End(b, across), Start(a, across))
            BY <4>1 DEF Beside, Touches
          <6> QED BY <3>2, <6>1, <6>2 DEF SpansOverlap, Near, Distance
        <5> QED BY <1>1, <5>1, <5>2, MeetingSpans
      <4>2. CASE ~Beside(a, b, across)
        BY <1>1, <2>2, <3>2, <4>2, AlignedSpans
      <4> QED BY <4>1, <4>2
    <3>4. Stable(a, c, axis) /\ Beside(a, c, axis)
      BY <1>1, <2>2, <3>1, <3>3, MeetingIsStable
    <3>5. CASE Beside(a, c, across)
      <4>1. SpansOverlap(a, c, axis)
        BY <2>2, <3>5, SpansCommute DEF Beside, Touches
      <4>2. EDGE_TOLERANCE > 0
        BY <1>1, <3>1, <4>1, MeetingSpans
      <4>3. Start(d, axis) = Start(a, axis)
        BY <1>2, <3>4 DEF Stable
      <4>4. Meets(d, c, axis)
        BY <1>2, <3>1, <4>3 DEF Meets, End
      <4>5. Meets(d, c, across)
        <5>1. Beside(c, a, across)
          BY <3>5, SpansCommute
        <5>2. Meets(c, d, across)
          BY <1>1, <1>2, <5>1, SnappedMeets
        <5> QED BY <5>2, SpansCommute
      <4>6. SpansOverlap(d, c, axis) /\ SpansOverlap(d, c, across) /\ ~Overlapping(d, c)
        BY <1>1, <1>2, <4>2, <4>4, <4>5, MeetingSpans
      <4> QED BY <1>1, <1>2, <2>2, <4>4, <4>5, <4>6, MeetingIsStable
    <3>6. CASE ~Beside(a, c, across)
      <4>1. ~Beside(a, b, across)
        <5>1. ASSUME Beside(a, b, across) PROVE FALSE
          <6>1. Meets(a, c, across)
            BY <1>1, <2>2, <5>1, SnappedMeets
          <6>2. EDGE_TOLERANCE > 0
            BY <1>1, <3>3, <6>1, MeetingSpans
          <6>3. SpansOverlap(a, c, axis)
            BY <1>1, <3>1, <6>2, MeetingSpans
          <6> QED BY <1>1, <2>2, <3>6, <6>1, <6>3, MeetingIsStable
        <5> QED BY <5>1
      <4>2. ~Near(Start(a, across), Start(c, across)) \/ Start(a, across) = Start(c, across)
        BY <1>1, <2>2, <3>2, <4>1, AlignedSpans
      <4>3. Stable(a, c, across)
        BY <1>1, <3>6, <4>2, ApartIsStable
      <4>4. d = a
        BY <1>5, <2>2, <3>4, <4>3 DEF Other
      <4> QED BY <1>1, <3>1, <3>4, <4>3, <4>4, MeetingSpans
    <3> QED BY <3>5, <3>6
  <2>3. Other("x") = "y" /\ Other("y") = "x"
    BY DEF Other
  <2>4. CASE Beside(a, b, "x")
    BY <2>2, <2>3, <2>4
  <2>5. CASE Beside(a, b, "y")
    BY <2>2, <2>3, <2>5
  <2> QED BY <2>1, <2>4, <2>5
<1>7. /\ Snap(d, c) \in Rects /\ Snap(d, c).w = c.w /\ Snap(d, c).h = c.h
      /\ Snap(d, c).x = SnapsTo(d, c, "x") /\ Snap(d, c).y = SnapsTo(d, c, "y")
  BY <1>1, <1>2, SnapIs
<1>8. /\ Snap(c, d) \in Rects /\ Snap(c, d).w = d.w /\ Snap(c, d).h = d.h
      /\ Snap(c, d).x = SnapsTo(c, d, "x") /\ Snap(c, d).y = SnapsTo(c, d, "y")
  BY <1>1, <1>2, SnapIs
<1>9. /\ SnapsTo(d, c, "x") = c.x /\ SnapsTo(d, c, "y") = c.y
      /\ SnapsTo(c, d, "x") = d.x /\ SnapsTo(c, d, "y") = d.y
  BY <1>6 DEF Stable, Start
<1> QED BY <1>1, <1>2, <1>3, <1>4, <1>6, <1>7, <1>8, <1>9

\* A pass over two screens is a snap of the second to the first and one of the first
\* to the second as moved.
LEMMA PassOfTwo ==
  ASSUME NEW r \in Seq(Rects), Len(r) = 2,
         NEW c, c = Snap(r[1], r[2]), NEW d, d = Snap(c, r[1])
  PROVE  DOMAIN SnapPass[r] = 1..2 /\ SnapPass[r][1] = d /\ SnapPass[r][2] = c
<1>1. r \in [1..2 -> Rects] /\ r \in Sized(r)
  BY LenProperties DEF Sized
<1>2. PICK g : g[0] = r /\ g[4] = SnapPass[r] /\ \A m \in 1..4 : g[m] = SnapPair(g[m - 1], m)
  <2>1. PICK g : /\ g[0] = r /\ g[Len(r) * Len(r)] = SnapPass[r]
                 /\ \A m \in 1..(Len(r) * Len(r)) : g[m] = SnapPair(g[m - 1], m)
    BY <1>1, PassSteps
  <2>2. Len(r) * Len(r) = 4
    OBVIOUS
  <2> QED BY <2>1, <2>2
<1>3. g[1] = SnapPair(r, 1) /\ g[2] = SnapPair(g[1], 2) /\ g[3] = SnapPair(g[2], 3) /\ g[4] = SnapPair(g[3], 4)
  <2>1. /\ 1 \in 1..4 /\ 2 \in 1..4 /\ 3 \in 1..4 /\ 4 \in 1..4
        /\ 1 - 1 = 0 /\ 2 - 1 = 1 /\ 3 - 1 = 2 /\ 4 - 1 = 3
    OBVIOUS
  <2> QED BY <1>2, <2>1
<1>4. ASSUME NEW q \in [1..2 -> Rects]
      PROVE  /\ SnapPair(q, 1) = q /\ SnapPair(q, 4) = q
             /\ SnapPair(q, 2) = [q EXCEPT ![2] = Snap(q[1], q[2])]
             /\ SnapPair(q, 3) = [q EXCEPT ![1] = Snap(q[2], q[1])]
  <2>1. Len(q) = 2
    BY FunctionIsList
  <2>2. /\ ((1 - 1) \div 2) + 1 = 1 /\ ((1 - 1) % 2) + 1 = 1
        /\ ((2 - 1) \div 2) + 1 = 1 /\ ((2 - 1) % 2) + 1 = 2
        /\ ((3 - 1) \div 2) + 1 = 2 /\ ((3 - 1) % 2) + 1 = 1
        /\ ((4 - 1) \div 2) + 1 = 2 /\ ((4 - 1) % 2) + 1 = 2
    OBVIOUS
  <2> QED BY <2>1, <2>2 DEF SnapPair
<1>5. g[1] = r
  BY <1>1, <1>3, <1>4
<1>6. g[2] = [r EXCEPT ![2] = c] /\ g[2] \in [1..2 -> Rects]
  <2>1. c \in Rects
    BY <1>1, Snapped
  <2> QED BY <1>1, <1>3, <1>4, <1>5, <2>1
<1>7. g[3] = [g[2] EXCEPT ![1] = d] /\ g[3] \in [1..2 -> Rects]
  <2>1. g[2][1] = r[1] /\ g[2][2] = c /\ c \in Rects
    BY <1>1, <1>6
  <2>2. d \in Rects
    BY <1>1, <2>1, Snapped
  <2> QED BY <1>3, <1>4, <1>6, <2>1, <2>2
<1>8. g[4] = g[3]
  BY <1>3, <1>4, <1>7
<1> QED BY <1>1, <1>2, <1>6, <1>7, <1>8

\* The passes of a normalisation of two thick screens: the first settles them, apart.
LEMMA TwoSettle ==
  ASSUME NEW r \in Seq(Rects), Len(r) = 2, Thick(r[1]), Thick(r[2]), ~Overlapping(r[1], r[2]),
         NEW q, q = SettledRects(r)
  PROVE  /\ q \in Seq(Rects) /\ Len(q) = 2 /\ ~Overlapping(q[1], q[2])
         /\ SettledRects(q) = q
<1> DEFINE c == Snap(r[1], r[2])
           d == Snap(c, r[1])
           p == SnapPass[r]
<1>1. p \in [1..2 -> Rects] /\ p[1] = d /\ p[2] = c
  <2>1. p \in Sized(r) /\ r \in Sized(r)
    BY PassKeepsSizes, LenProperties DEF Sized
  <2>2. p \in [1..2 -> Rects]
    BY <2>1 DEF Sized
  <2> QED BY <2>2, PassOfTwo
<1>2. /\ Thick(c) /\ Thick(d) /\ ~Overlapping(d, c)
      /\ Snap(d, c) = c /\ Snap(c, d) = d
  BY PairSettles
<1> HIDE DEF c, d, p
<1>3. p \in Seq(Rects) /\ Len(p) = 2
  <2>1. Len(p) = 2
    BY <1>1, FunctionIsList
  <2>2. 2 \in Nat /\ p \in UNION {[1..n -> Rects] : n \in Nat}
    BY <1>1
  <2> QED BY <2>1, <2>2, SeqDef
<1>4. SnapPass[p] = p
  <2>1. DOMAIN SnapPass[p] = 1..2 /\ SnapPass[p][1] = d /\ SnapPass[p][2] = c
    BY <1>1, <1>2, <1>3, PassOfTwo
  <2>2. SnapPass[p] \in [1..2 -> Rects]
    <3>1. p \in Sized(p)
      BY <1>3, LenProperties DEF Sized
    <3>2. SnapPass[p] \in Sized(p)
      BY <1>3, <3>1, PassKeepsSizes
    <3> QED BY <1>3, <3>2 DEF Sized
  <2> QED BY <1>1, <2>1, <2>2
<1>5. ASSUME NEW s \in Seq(Rects), SnapPass[s] = p
      PROVE  SettledRects(s) = p
  <2>1. PICK g : g[0] = s /\ g[8] = SettledRects(s) /\ \A m \in 1..8 : g[m] = SnapPass[g[m - 1]]
    BY SettlingSteps DEF NORMALIZE_PASSES
  <2>2. g[1] = p
    <3>1. 1 \in 1..8 /\ 1 - 1 = 0
      OBVIOUS
    <3> QED BY <1>5, <2>1, <3>1
  <2>3. ASSUME NEW m \in 1..7, g[m] = p PROVE g[m + 1] = p
    <3>1. m + 1 \in 1..8 /\ (m + 1) - 1 = m
      OBVIOUS
    <3> QED BY <1>4, <2>1, <2>3, <3>1
  <2>4. g[2] = p BY <2>2, <2>3
  <2>5. g[3] = p BY <2>4, <2>3
  <2>6. g[4] = p BY <2>5, <2>3
  <2>7. g[5] = p BY <2>6, <2>3
  <2>8. g[6] = p BY <2>7, <2>3
  <2>9. g[7] = p BY <2>8, <2>3
  <2>10. g[8] = p BY <2>9, <2>3
  <2> QED BY <2>1, <2>10
<1>6. q = p
  BY <1>5 DEF p
<1>7. SettledRects(p) = p
  BY <1>3, <1>4, <1>5
<1> QED BY <1>1, <1>2, <1>3, <1>6, <1>7

\* What Normalized promises of a desktop of two thick screens that do not overlap:
\* they still do not, and normalising them again changes nothing.
LEMMA NormalizedPair ==
  ASSUME NEW s \in Seq([id : Nat, name : STRING, rect : Rects]), Len(s) = 2,
         Thick(s[1].rect), Thick(s[2].rect), NoIssues(s)
  PROVE  NoIssues(Normalized(s)) /\ Normalized(Normalized(s)) = Normalized(s)
<1>1. PICK r : r = [k \in DOMAIN s |-> s[k].rect]
  OBVIOUS
<1>2. DOMAIN s = 1..2
  BY LenProperties
<1>3. r \in Seq(Rects) /\ Len(r) = 2 /\ r[1] = s[1].rect /\ r[2] = s[2].rect
  <2>1. r \in [1..2 -> Rects] /\ r[1] = s[1].rect /\ r[2] = s[2].rect
    <3>1. s[1].rect \in Rects /\ s[2].rect \in Rects
      BY DEF Thick
    <3>2. \A k \in 1..2 : k = 1 \/ k = 2
      OBVIOUS
    <3> QED BY <1>1, <1>2, <3>1, <3>2
  <2>2. Len(r) = 2
    BY <2>1, FunctionIsList
  <2>3. 2 \in Nat /\ r \in UNION {[1..n -> Rects] : n \in Nat}
    BY <2>1
  <2> QED BY <2>1, <2>2, <2>3, SeqDef
<1>4. ~Overlapping(r[1], r[2])
  BY <1>2, <1>3 DEF NoIssues
<1>5. PICK q : q = SettledRects(r)
  OBVIOUS
<1>6. q \in Seq(Rects) /\ Len(q) = 2 /\ ~Overlapping(q[1], q[2]) /\ SettledRects(q) = q
  BY <1>3, <1>4, <1>5, TwoSettle
<1>7. PICK n : n = [k \in 1..2 |-> [id |-> s[k].id, name |-> s[k].name, rect |-> q[k]]]
  OBVIOUS
<1>8. Normalized(s) = n
  BY <1>1, <1>2, <1>5, <1>7 DEF Normalized
<1>9. DOMAIN n = 1..2 /\ \A k \in 1..2 : n[k].id = s[k].id /\ n[k].name = s[k].name /\ n[k].rect = q[k]
  BY <1>7
<1>10. [k \in DOMAIN n |-> n[k].rect] = q
  <2>1. q = [k \in 1..2 |-> q[k]]
    BY <1>6, LenProperties
  <2> QED BY <1>9, <2>1
<1>11. Normalized(n) = [k \in 1..2 |-> [id |-> n[k].id, name |-> n[k].name, rect |-> q[k]]]
  BY <1>6, <1>9, <1>10 DEF Normalized
<1>12. Normalized(n) = n
  BY <1>7, <1>9, <1>11
<1>13. NoIssues(n)
  <2>1. \A j, k \in 1..2 : j < k => j = 1 /\ k = 2
    OBVIOUS
  <2> QED BY <1>6, <1>9, <2>1 DEF NoIssues
<1> QED BY <1>8, <1>12, <1>13

\* The server's screen and one client's, each thicker than the tolerance.
Pair == Len(Start0) = 2 /\ \A k \in DOMAIN Start0 : Thick(Start0[k].rect)

PairInv ==
  /\ raw \in Seq([id : Nat, name : STRING, rect : Rects])
  /\ Len(raw) = 2 /\ Thick(raw[1].rect) /\ Thick(raw[2].rect)
  /\ adopted = Normalized(raw)

LEMMA PairStarts == Pair /\ PageInit => PairInv
<1>1. SUFFICES ASSUME Pair, PageInit PROVE PairInv
  OBVIOUS
<1>2. Start0 \in Seq([id : Nat, name : STRING, rect : Rects]) /\ DOMAIN Start0 = 1..2
  BY <1>1, PageAssumption, LenProperties DEF PageAssumption, Pair
<1>3. QED BY <1>1, <1>2 DEF PageInit, PairInv, Pair

LEMMA PairSteps == PairInv /\ [PageNext]_page_vars => PairInv'
<1>1. SUFFICES ASSUME PairInv, PageNext PROVE PairInv'
  BY DEF PairInv, page_vars
<1>2. PICK k \in 2..Len(raw), x \in Xs, y \in Ys : Drag(k, x, y)
  BY <1>1 DEF PageNext
<1>3. x \in Int /\ y \in Int /\ k = 2
  BY <1>1, PageAssumption DEF PageAssumption, PairInv
<1>4. DOMAIN raw = 1..2 /\ raw[2] \in [id : Nat, name : STRING, rect : Rects]
  <2>1. raw \in Seq([id : Nat, name : STRING, rect : Rects]) /\ Len(raw) = 2 /\ 2 \in 1..2
    BY <1>1 DEF PairInv
  <2>2. DOMAIN raw = 1..2
    BY <2>1, LenProperties
  <2> QED BY <2>1, <2>2, ElementOfSeq
<1>5. PICK r : r = [raw[2].rect EXCEPT !.x = x, !.y = y]
  OBVIOUS
<1>6. raw' = [raw EXCEPT ![2] = [raw[2] EXCEPT !.rect = r]]
  BY <1>2, <1>3, <1>5 DEF Drag
<1>7. Thick(r)
  BY <1>1, <1>3, <1>4, <1>5 DEF PairInv, Thick, Rects
<1>8. raw' \in Seq([id : Nat, name : STRING, rect : Rects]) /\ Len(raw') = 2
  <2> DEFINE T == [id : Nat, name : STRING, rect : Rects]
  <2>1. [raw[2] EXCEPT !.rect = r] \in T
    BY <1>4, <1>7 DEF Thick
  <2>2. raw \in Seq(T) /\ Len(raw) = 2
    BY <1>1 DEF PairInv
  <2> HIDE DEF T
  <2>3. raw \in [1..2 -> T]
    BY <2>2, LenProperties
  <2>4. raw' \in [1..2 -> T]
    BY <1>6, <2>1, <2>3
  <2>5. Len(raw') = 2
    BY <2>4, FunctionIsList
  <2>6. raw' \in Seq(T)
    <3>1. 2 \in Nat /\ raw' \in UNION {[1..n -> T] : n \in Nat}
      BY <2>4
    <3> QED BY <3>1, SeqDef
  <2> QED BY <2>5, <2>6 DEF T
<1>9. raw'[1] = raw[1] /\ raw'[2].rect = r
  BY <1>4, <1>6
<1>10. adopted' = Normalized(raw')
  BY <1>2 DEF Drag
<1>11. QED BY <1>1, <1>7, <1>8, <1>9, <1>10 DEF PairInv

\* Snapping the two screens of a desktop into contact never makes them overlap
\* (Layout::normalized), wherever the user drops the client's screen.
THEOREM PairStaysApart ==
  ASSUME Pair
  PROVE  PageSpec => []SnappingKeepsApart
<1>1. PairInv => SnappingKeepsApart
  BY NormalizedPair DEF PairInv, SnappingKeepsApart
<1>2. PageInit => PairInv
  BY PairStarts
<1>3. QED BY <1>1, <1>2, PairSteps, PTL DEF PageSpec

\* Normalising the two screens of a desktop once is enough: what each admission and
\* removal of a client normalises again stays where it is.
THEOREM PairSettlesAtOnce ==
  ASSUME Pair
  PROVE  PageSpec => []NormalizedIsFixedPoint
<1>1. PairInv => NormalizedIsFixedPoint
  BY NormalizedPair DEF PairInv, NormalizedIsFixedPoint
<1>2. PageInit => PairInv
  BY PairStarts
<1>3. QED BY <1>1, <1>2, PairSteps, PTL DEF PageSpec

-----------------------------------------------------------------------------
(* The cursor at home                                                        *)

\* The server's screen is where its capture has it: every screen with its id is the
\* local rectangle, at the origin of the desktop, and shows the positions the
\* capture reports.  The code adopts such a layout (correct_local_screen) and
\* assumes it from there on (force_local, on_local_beacon).
HomeUnmoved ==
  /\ \A k \in DOMAIN screens : screens[k].id = HOME => screens[k].rect = local
  /\ AtOrigin(local)
  /\ \A p \in HomeSpots : Contains(local, p.x, p.y)

\* HomeCursorOnScreen, made inductive.
HomeInv == local.w > 0 /\ local.h > 0 /\ HomeCursorOnScreen

\* What finds the server's screen finds the local rectangle.
LEMMA HomeFound ==
  ASSUME HomeUnmoved, NEW s \in Find(screens, HOME)
  PROVE  s.rect = local
<1>1. PICK k \in DOMAIN screens : s = screens[k]
  BY DEF Find
<1>2. s.id = HOME
  BY FindMatches
<1> QED BY <1>1, <1>2 DEF HomeUnmoved

\* A switch home at a point of the local screen lands on it (enter_screen).
LEMMA EnteredHome ==
  ASSUME HomeUnmoved, TypeInv, NEW x \in 0..local.w - 1, NEW y \in 0..local.h - 1, Enter(HOME, x, y)
  PROVE  Contains(local, cursor'.x, cursor'.y)
<1>1. PICK s \in Find(screens, HOME) : cursor' = [x |-> s.rect.x + x, y |-> s.rect.y + y]
  BY DEF Enter
<1>2. s.rect = local /\ local \in Rects
  BY HomeFound DEF TypeInv, DesktopTyped
<1> QED BY <1>1, <1>2 DEF Contains, Rects

\* So does one at its centre, which is local to it only at the origin (force_local).
LEMMA CenteredHome ==
  ASSUME HomeUnmoved, TypeInv, local.w > 0, local.h > 0,
         Enter(HOME, Center(local).x, Center(local).y)
  PROVE  Contains(local, cursor'.x, cursor'.y)
<1>1. local \in Rects /\ local.x = 0 /\ local.y = 0
  BY DEF HomeUnmoved, AtOrigin, TypeInv, DesktopTyped
<1>2. local.w \div 2 \in 0..local.w - 1 /\ local.h \div 2 \in 0..local.h - 1
  <2>1. ASSUME NEW n \in Int, n > 0
        PROVE  n \div 2 \in 0..n - 1
    BY <2>1
  <2> QED BY <1>1, <2>1 DEF Rects
<1>3. Center(local).x = local.w \div 2 /\ Center(local).y = local.h \div 2
  BY <1>1, <1>2 DEF Center
<1> QED BY <1>2, <1>3, EnteredHome

\* A crossing that leads home lands on the local screen (inset_entry after neighbor).
LEMMA CrossedHome ==
  ASSUME HomeUnmoved, TypeInv, local.w > 0, local.h > 0,
         NEW from, NEW d \in Directions, NEW p \in Points, NEW n \in Crossing(from, d, p),
         Cross(n), mode' = HOME
  PROVE  Contains(local, cursor'.x, cursor'.y)
<1>1. PICK m \in Neighbor(screens, from, d, p.x, p.y) :
        n \in {InsetEntry(s, d, m.x, m.y) : s \in Find(screens, m.id)}
  BY DEF Crossing
<1>2. PICK s \in Find(screens, m.id) : n = InsetEntry(s, d, m.x, m.y)
  BY <1>1
<1>3. PICK k \in DOMAIN screens : m = EntryPoint(screens[k], d, p.x, p.y)
  BY DEF Neighbor, BestCandidates, Candidates
<1>4. n.id = HOME
  BY DEF Cross, Enter
<1>5. m.id = HOME /\ s.rect = local
  <2>1. m.id = HOME
    BY <1>2, <1>4, FindMatches DEF InsetEntry
  <2> QED BY <2>1, HomeFound
<1>6. screens[k].rect = local
  BY <1>3, <1>5 DEF EntryPoint, HomeUnmoved
<1>7. local \in Rects /\ p.x \in Int /\ p.y \in Int
  BY DEF TypeInv, DesktopTyped, Points
<1>8. m = EntryPoint(s, d, p.x, p.y)
  <2>1. screens[k].id = HOME /\ s.id = HOME
    BY <1>3, <1>5, FindMatches DEF EntryPoint
  <2> QED BY <1>3, <1>5, <1>6, <2>1 DEF EntryPoint
<1>9. n.x \in 0..local.w - 1 /\ n.y \in 0..local.h - 1
  BY <1>2, <1>5, <1>7, <1>8, CrossingEntersInside
<1> QED BY <1>4, <1>9, EnteredHome DEF Cross

\* Raw motion keeps the virtual cursor on the local screen: a motion that crosses
\* nothing either stayed inside or is clamped (handle_local_motion).
LEMMA LocalMotionHome ==
  ASSUME HomeUnmoved, TypeInv, Inv, HomeInv, NEW dx \in Int, NEW dy \in Int, LocalMotion(dx, dy)
  PROVE  HomeInv'
<1> DEFINE at == [x |-> cursor.x + dx, y |-> cursor.y + dy]
           pushed == PushedEdges(dx, dy)
           pulled == PulledEdges(dx, dy)
<1>1. /\ UNCHANGED <<screens, local>> /\ mode = HOME
      /\ \/ LocalPush(at, pushed)
         \/ LocalInside(at, pushed, pulled)
         \/ LocalPinned(at, pushed, pulled)
         \/ LocalFallback(at, pushed)
  BY DEF LocalMotion, desktop
<1>2. local \in Rects /\ local.w > 0 /\ local.h > 0
  BY DEF HomeInv, TypeInv, DesktopTyped
<1>3. at \in Points /\ ClampTo(local, at) \in Points
  <2>1. at \in Points
    BY DEF TypeInv, CursorTyped, Points
  <2> QED BY <1>2, <2>1, ClampIsPoint
<1>4. \E s \in Find(screens, HOME) : s.rect = local
  BY HomeFound, FindSome DEF Inv, StructureOK
<1> HIDE DEF at, pushed, pulled
<1>5. mode' = HOME => Contains(local, cursor'.x, cursor'.y)
  <2>1. CASE LocalPush(at, pushed)
    <3>1. PICK d \in Directions : \E n \in Crossing(HOME, d, at) : Cross(n)
      BY <2>1 DEF LocalPush, FirstEdge, TypeInv, LatchesTyped
    <3> QED BY <1>2, <1>3, <3>1, CrossedHome
  <2>2. CASE LocalInside(at, pushed, pulled)
    <3>1. cursor' = at /\ ExitDirection(screens, HOME, at.x, at.y) = {}
      BY <2>2 DEF LocalInside
    <3>2. \A s \in Find(screens, HOME) : Contains(s.rect, at.x, at.y)
      BY <3>1 DEF ExitDirection
    <3> QED BY <1>4, <3>1, <3>2
  <2>3. CASE LocalPinned(at, pushed, pulled)
    BY <1>2, <1>3, <2>3, ClampLandsInside DEF LocalPinned, Points
  <2>4. CASE LocalFallback(at, pushed)
    <3>1. PICK d \in Directions : \E n \in Crossing(HOME, d, ClampTo(local, at)) : Cross(n)
      BY <2>4, EdgesAreDirections DEF LocalFallback
    <3> QED BY <1>2, <1>3, <3>1, CrossedHome
  <2> QED BY <1>1, <2>1, <2>2, <2>3, <2>4
<1> QED BY <1>1, <1>2, <1>5 DEF HomeInv, HomeCursorOnScreen

\* The capture's beacons are points of the local screen (on_local_beacon).
LEMMA LocalBeaconHome ==
  ASSUME HomeUnmoved, TypeInv, HomeInv, NEW p \in HomeSpots, LocalBeacon(p.x, p.y)
  PROVE  HomeInv'
<1> DEFINE at == [x |-> local.x + p.x, y |-> local.y + p.y]
           parked == ParkEdges(WallBits(local, p.x, p.y), at_wall, last_out, HOME, at)
<1>1. /\ UNCHANGED <<screens, local>>
      /\ \/ \E d \in parked : \E n \in Crossing(HOME, d, at) : Cross(n)
         \/ cursor' = at
  BY DEF LocalBeacon, desktop
<1>2. p.x \in Int /\ p.y \in Int /\ local \in Rects /\ local.w > 0 /\ local.h > 0
  BY InputAssumption DEF HomeInv, TypeInv, DesktopTyped
<1>3. at \in Points /\ Contains(local, at.x, at.y)
  BY <1>2 DEF HomeUnmoved, AtOrigin, Contains, Points, Rects
<1>4. parked \subseteq Directions
  BY EdgesAreDirections DEF ParkEdges
<1> HIDE DEF at, parked
<1>5. mode' = HOME => Contains(local, cursor'.x, cursor'.y)
  <2>1. CASE \E d \in parked : \E n \in Crossing(HOME, d, at) : Cross(n)
    BY <1>2, <1>3, <1>4, <2>1, CrossedHome
  <2> QED BY <1>1, <1>3, <2>1
<1> QED BY <1>1, <1>2, <1>5 DEF HomeInv, HomeCursorOnScreen

\* Motion on a client comes home only by a crossing (handle_remote_motion).
LEMMA RemoteMotionHome ==
  ASSUME HomeUnmoved, TypeInv, HomeInv, NEW dx \in Int, NEW dy \in Int, RemoteMotion(dx, dy)
  PROVE  HomeInv'
<1> DEFINE sx == Whole(dx * gain + gain_rem.x)
           sy == Whole(dy * gain + gain_rem.y)
           at == [x |-> cursor.x + sx, y |-> cursor.y + sy]
           pushed == PushedEdges(sx, sy)
           pulled == PulledEdges(sx, sy)
           armed == ArmedEdges(at, pushed)
<1>1. /\ UNCHANGED <<screens, local>> /\ mode # HOME
      /\ \/ RemotePush(at, armed)
         \/ RemoteRefused(at, armed, pushed, pulled)
         \/ RemoteForward(pushed, pulled, sx, sy)
         \/ RemoteFallback(at)
  BY DEF RemoteMotion, desktop
<1>2. sx \in Int /\ sy \in Int
  BY ScaledIsInt DEF TypeInv
<1> HIDE DEF sx, sy
<1>3. at \in Points
  BY <1>2 DEF TypeInv, CursorTyped, Points
<1>4. pushed \subseteq Directions
  BY EdgesAreDirections
<1> HIDE DEF at, pushed, pulled
<1>5. armed \subseteq Directions
  BY <1>4 DEF ArmedEdges
<1> HIDE DEF armed
<1>6. local \in Rects /\ local.w > 0 /\ local.h > 0 /\ LayoutTyped(screens)
  BY DEF HomeInv, TypeInv, DesktopTyped
<1>7. mode' = HOME => Contains(local, cursor'.x, cursor'.y)
  <2>1. CASE RemotePush(at, armed)
    <3>1. PICK d \in Directions : \E n \in Crossing(mode, d, at) : Cross(n)
      BY <1>5, <2>1 DEF RemotePush
    <3> QED BY <1>3, <1>6, <3>1, CrossedHome
  <2>2. CASE RemoteFallback(at)
    <3>1. PICK s \in Find(screens, mode) :
            \E d \in Directions : \E n \in Crossing(mode, d, ClampTo(s.rect, at)) : Cross(n)
      BY <2>2, EdgesAreDirections DEF RemoteFallback
    <3>2. ClampTo(s.rect, at) \in Points
      BY <1>3, <1>6, FindIsTyped, ClampIsPoint
    <3> QED BY <1>6, <3>1, <3>2, CrossedHome
  <2>3. CASE RemoteRefused(at, armed, pushed, pulled) \/ RemoteForward(pushed, pulled, sx, sy)
    BY <1>1, <2>3 DEF RemoteRefused, RemoteForward, Stay
  <2> QED BY <1>1, <2>1, <2>2, <2>3
<1> QED BY <1>1, <1>6, <1>7 DEF HomeInv, HomeCursorOnScreen

\* So do a client's beacons (on_remote_beacon).
LEMMA RemoteBeaconHome ==
  ASSUME HomeUnmoved, TypeInv, HomeInv, NEW x \in Int, NEW y \in Int, RemoteBeacon(x, y)
  PROVE  HomeInv'
<1>1. UNCHANGED <<screens, local>> /\ mode # HOME
  BY DEF RemoteBeacon, desktop
<1>2. PICK s \in Find(screens, mode) :
        LET px == Clamp(x, 0, AtLeast(0, s.rect.w - 1))
            py == Clamp(y, 0, AtLeast(0, s.rect.h - 1))
            at == [x |-> s.rect.x + px, y |-> s.rect.y + py]
            parked == ParkEdges(WallBits(s.rect, px, py), remote_at_wall, remote_last_out, mode, at)
        IN \/ \E d \in parked : \E n \in Crossing(mode, d, at) : Cross(n)
           \/ mode' = mode
  BY DEF RemoteBeacon, Stay
<1> DEFINE px == Clamp(x, 0, AtLeast(0, s.rect.w - 1))
           py == Clamp(y, 0, AtLeast(0, s.rect.h - 1))
           at == [x |-> s.rect.x + px, y |-> s.rect.y + py]
           parked == ParkEdges(WallBits(s.rect, px, py), remote_at_wall, remote_last_out, mode, at)
<1>3. (\E d \in parked : \E n \in Crossing(mode, d, at) : Cross(n)) \/ mode' = mode
  BY <1>2
<1>4. local \in Rects /\ local.w > 0 /\ local.h > 0 /\ s.rect \in Rects
  BY FindIsTyped DEF HomeInv, TypeInv, DesktopTyped
<1>5. at \in Points
  <2>1. px \in Int /\ py \in Int
    BY <1>4 DEF Rects, Clamp, AtLeast, AtMost
  <2> HIDE DEF px, py
  <2> QED BY <1>4, <2>1 DEF Points, Rects
<1>6. parked \subseteq Directions
  BY EdgesAreDirections DEF ParkEdges
<1> HIDE DEF at, parked
<1>7. mode' = HOME => Contains(local, cursor'.x, cursor'.y)
  BY <1>1, <1>3, <1>4, <1>5, <1>6, CrossedHome
<1> QED BY <1>1, <1>4, <1>7 DEF HomeInv, HomeCursorOnScreen

\* The explicit switches home land at the centre of the local screen.
LEMMA RequestHome ==
  ASSUME HomeUnmoved, TypeInv, HomeInv,
         \/ Escape
         \/ \E name : SwitchToScreen(name)
         \/ SwitchNext
  PROVE  HomeInv'
<1>1. UNCHANGED <<screens, local>>
  BY DEF Escape, SwitchToScreen, SwitchNext, desktop
<1>2. mode' = HOME => Enter(HOME, Center(local).x, Center(local).y)
  <2>1. CASE Escape
    BY <2>1 DEF Escape, ForceLocal
  <2>2. CASE (\E name : SwitchToScreen(name)) \/ SwitchNext
    <3>1. PICK id : \E s \in Find(screens, id) : Enter(id, Center(s.rect).x, Center(s.rect).y)
      BY <2>2 DEF SwitchToScreen, SwitchNext, JumpTo
    <3>2. mode' = id
      BY <3>1 DEF Enter
    <3> QED BY <3>1, <3>2, HomeFound
  <2> QED BY <2>1, <2>2
<1>3. mode' = HOME => Contains(local, cursor'.x, cursor'.y)
  BY <1>2, CenteredHome DEF HomeInv
<1> QED BY <1>1, <1>3 DEF HomeInv, HomeCursorOnScreen

\* Admissions and reports of a size leave the cursor alone.
LEMMA AdmitHome ==
  ASSUME HomeInv, \/ \E name : AdmitKnown(name) \/ \E size : AdmitNew(name, size)
                  \/ \E id, size : UpdateScreenInfo(id, size)
  PROVE  HomeInv'
<1>1. UNCHANGED <<local, mode, cursor>>
  BY DEF AdmitKnown, AdmitNew, UpdateScreenInfo, desktop
<1> QED BY <1>1 DEF HomeInv, HomeCursorOnScreen

\* A lost client hands the cursor to the centre of the local screen, with the
\* layout as it was before its screen goes (on_client_disconnected).
LEMMA ConnectionHome ==
  ASSUME HomeUnmoved, TypeInv, HomeInv, NEW id,
         ClientConnected(id) \/ ClientDisconnected(id) \/ ClientRemoved(id)
  PROVE  HomeInv'
<1>1. UNCHANGED local
  BY DEF ClientConnected, ClientDisconnected, ClientRemoved, desktop
<1>2. \/ UNCHANGED <<mode, cursor>>
      \/ Enter(HOME, Center(local).x, Center(local).y)
  BY DEF ClientConnected, ClientDisconnected, ClientRemoved, Disconnect, ForceLocal
<1>3. mode' = HOME => Contains(local, cursor'.x, cursor'.y)
  BY <1>2, CenteredHome DEF HomeInv, HomeCursorOnScreen
<1> QED BY <1>1, <1>3 DEF HomeInv, HomeCursorOnScreen

\* A layout is adopted with the cursor at the centre of its own local screen.
LEMMA SwapHome ==
  ASSUME NEW config \in Configs, Len(config) <= MAX_ID + 1, SwapLayout(ToLayout(config))
  PROVE  HomeInv'
<1>1. PICK home \in Find(ToLayout(config), HOME) :
        local' = home.rect /\ cursor' = Center(home.rect)
  BY DEF SwapLayout
<1>2. PICK layout : layout = ToLayout(config)
  OBVIOUS
<1>3. LayoutTyped(layout) /\ \A k \in DOMAIN layout : layout[k].rect.w > 0 /\ layout[k].rect.h > 0
  BY <1>2, ToLayoutTyped, ToLayoutIsDistinct
<1>4. home.rect \in Rects /\ home.rect.w > 0 /\ home.rect.h > 0
  <2>1. PICK k \in DOMAIN layout : home = layout[k]
    BY <1>1, <1>2 DEF Find
  <2> QED BY <1>3, <2>1 DEF LayoutTyped
<1> QED BY <1>1, <1>4, CenterIsInside DEF HomeInv, HomeCursorOnScreen

LEMMA InitHome ==
  ASSUME \A config \in Configs : Len(config) <= MAX_ID + 1, Init
  PROVE  HomeInv
<1>1. PICK config \in Configs :
        /\ screens = ToLayout(config)
        /\ \E home \in Find(screens, HOME) : local = home.rect /\ cursor = Center(home.rect)
  BY DEF Init
<1>2. PICK home \in Find(screens, HOME) : local = home.rect /\ cursor = Center(home.rect)
  BY <1>1
<1>3. home.rect \in Rects /\ home.rect.w > 0 /\ home.rect.h > 0
  <2>1. PICK k \in DOMAIN screens : home = screens[k]
    BY DEF Find
  <2>2. screens[k].rect.w > 0 /\ screens[k].rect.h > 0
    BY <1>1, ToLayoutIsDistinct
  <2> QED BY <1>1, <2>1, <2>2, ToLayoutTyped DEF LayoutTyped
<1> QED BY <1>2, <1>3, CenterIsInside DEF HomeInv, HomeCursorOnScreen

\* Every step keeps the cursor on the local screen, while the server's screen is there.
LEMMA StepHome ==
  ASSUME \A config \in Configs : Len(config) <= MAX_ID + 1,
         HomeUnmoved, TypeInv, Inv, HomeInv, [Next]_vars
  PROVE  HomeInv'
<1>1. CASE InputEvent
  <2>1. CASE \E d \in Deltas : LocalMotion(d.dx, d.dy) \/ RemoteMotion(d.dx, d.dy)
    BY <2>1, InputAssumption, LocalMotionHome, RemoteMotionHome
  <2>2. CASE \E p \in HomeSpots : LocalBeacon(p.x, p.y)
    BY <2>2, LocalBeaconHome
  <2>3. CASE ForwardInput("key") \/ ToggleLock
    BY <2>3 DEF ForwardInput, ToggleLock, desktop, HomeInv, HomeCursorOnScreen
  <2>4. CASE \/ Escape \/ GoHome \/ SwitchNext
             \/ \E s \in {screens[k].name : k \in DOMAIN screens} : SwitchToScreen(s)
    BY <2>4, RequestHome DEF GoHome
  <2> QED BY <1>1, <2>1, <2>2, <2>3, <2>4 DEF InputEvent
<1>2. CASE ServerCall
  <2>1. CASE \E p \in FarSpots : RemoteBeacon(p.x, p.y)
    BY <2>1, InputAssumption, RemoteBeaconHome
  <2>2. CASE \E g \in Gains : SetGain(g)
    BY <2>2 DEF SetGain, desktop, HomeInv, HomeCursorOnScreen
  <2>3. CASE \E name \in Clients : AdmitKnown(name) \/ \E size \in Sizes : AdmitNew(name, size)
    BY <2>3, AdmitHome
  <2>4. CASE \E id \in admitted :
               \/ \E size \in Sizes : UpdateScreenInfo(id, size)
               \/ ClientConnected(id)
               \/ ClientDisconnected(id)
               \/ ClientRemoved(id)
    BY <2>4, AdmitHome, ConnectionHome
  <2>5. CASE \E config \in Configs : SwapLayout(ToLayout(config))
    BY <2>5, SwapHome
  <2> QED BY <1>2, <2>1, <2>2, <2>3, <2>4, <2>5 DEF ServerCall
<1>3. CASE Tick \/ UNCHANGED vars
  BY <1>3 DEF Tick, vars, desktop, HomeInv, HomeCursorOnScreen
<1> QED BY <1>1, <1>2, <1>3 DEF Next

\* At home the virtual cursor never leaves the local screen, whatever the motion, the
\* beacons, the lost clients and the reloads, as long as the server's screen stays
\* where its capture has it: off the origin, force_local lands beside the screen
\* (it takes virtual coordinates for local ones), and a screen admitted next to the
\* server's may be snapped together with it.
THEOREM HomeTheorem ==
  ASSUME \A config \in Configs : Len(config) <= MAX_ID + 1
  PROVE  Spec /\ []HomeUnmoved => []HomeCursorOnScreen
<1>1. Init => HomeInv
  BY InitHome
<1>2. HomeUnmoved /\ TypeInv /\ Inv /\ HomeInv /\ [Next]_vars => HomeInv'
  BY StepHome
<1>3. HomeInv => HomeCursorOnScreen
  BY DEF HomeInv
<1> QED BY <1>1, <1>2, <1>3, InvHolds, TypesHold, PTL DEF Spec

\* With one screen to an id, the server's is where the first found is.
LEMMA KeptIsUnmoved ==
  ASSUME Distinct, HomeIsLocal, Inv
  PROVE  HomeUnmoved
<1>1. PICK home \in Find(screens, HOME) : TRUE
  BY FindSome DEF Inv, StructureOK
<1>2. home.rect = local /\ AtOrigin(local) /\ \A p \in HomeSpots : Contains(local, p.x, p.y)
  BY DEF HomeIsLocal
<1>3. ASSUME NEW k \in DOMAIN screens, screens[k].id = HOME
      PROVE  screens[k].rect = local
  <2>1. PICK j \in DOMAIN screens : home = screens[j]
    BY DEF Find
  <2>2. screens[j].id = HOME
    BY <2>1, FindMatches
  <2> QED BY <1>2, <1>3, <2>1, <2>2 DEF Distinct
<1> QED BY <1>2, <1>3 DEF HomeUnmoved

\* On a desktop that stays as configured, with the server's display at its origin, the
\* server's screen does stay there: the cursor at home is on it without further ado.
THEOREM HomeOnFixedDesktop ==
  ASSUME HomeIsDisplay, \A config \in Configs : Len(config) <= MAX_ID + 1
  PROVE  IntentSpec => []HomeCursorOnScreen
<1>1. IntentInv /\ Inv => HomeUnmoved
  BY KeptIsUnmoved DEF IntentInv
<1>2. IntentSpec => Spec
  <2>1. IntentInit => Init
    BY DEF IntentInit
  <2>2. [IntentNext]_ivars => [Next]_vars
    BY IntentIsSession
  <2> QED BY <2>1, <2>2, PTL DEF IntentSpec, Spec
<1> QED BY <1>1, <1>2, IntentHolds, HomeTheorem, PTL

-----------------------------------------------------------------------------
(* A sustained press                                                         *)

\* Scaling a motion leaves a carry below one pixel, on the side of what was scaled,
\* and loses no pixel but that (PointerScale::apply).
LEMMA WholeIs ==
  ASSUME NEW v \in Int
  PROVE  LET rest == v - Whole(v) * GAIN_DEN
         IN /\ Whole(v) \in Int
            /\ v >= 0 => 0 <= rest /\ rest < GAIN_DEN /\ 0 <= Whole(v)
            /\ v <= 0 => rest <= 0 /\ -GAIN_DEN < rest /\ Whole(v) <= 0
            /\ v >= GAIN_DEN => Whole(v) >= 1
            /\ v <= -GAIN_DEN => Whole(v) <= -1
            /\ -GAIN_DEN < v /\ v < GAIN_DEN => Whole(v) = 0
<1> DEFINE rest == v - Whole(v) * GAIN_DEN
<1>1. ASSUME NEW n \in Nat, NEW k \in Nat \ {0}
      PROVE  LET q == n \div k
             IN /\ q \in Nat /\ 0 <= n - q * k /\ n - q * k < k
                /\ n >= k => q >= 1
                /\ n < k => q = 0
  <2>1. n \div k \in Int /\ k * (n \div k) <= n /\ n < k * (n \div k) + k
    OBVIOUS
  <2>2. PICK q \in Int : q = n \div k
    BY <2>1
  <2>3. k * q <= n /\ n < k * q + k /\ q * k = k * q
    BY <2>1, <2>2
  <2>4. 0 <= q
    <3>1. CASE q <= -1
      <4>1. k * q <= -k
        BY <2>2, <3>1
      <4> QED BY <2>2, <2>3, <4>1
    <3> QED BY <2>2, <3>1
  <2>5. n >= k => q >= 1
    BY <2>2, <2>3, <2>4
  <2>6. n < k => q = 0
    <3>1. CASE q >= 1
      <4>1. k * q >= k
        BY <2>2, <3>1
      <4> QED BY <2>2, <2>3, <4>1
    <3> QED BY <2>2, <2>4, <3>1
  <2> QED BY <2>2, <2>3, <2>4, <2>5, <2>6
<1>2. GAIN_DEN \in Nat \ {0}
  BY InputAssumption
<1>3. CASE v >= 0
  <2>1. Whole(v) = v \div GAIN_DEN /\ v \in Nat
    BY <1>3 DEF Whole
  <2>2. PICK q : q = v \div GAIN_DEN
    OBVIOUS
  <2>3. /\ q \in Nat /\ 0 <= v - q * GAIN_DEN /\ v - q * GAIN_DEN < GAIN_DEN
        /\ v >= GAIN_DEN => q >= 1
        /\ v < GAIN_DEN => q = 0
    BY <1>1, <1>2, <2>1, <2>2
  <2>4. v = 0 => q = 0
    BY <1>2, <2>3
  <2> QED BY <1>2, <1>3, <2>1, <2>2, <2>3, <2>4
<1>4. CASE v < 0
  <2>1. Whole(v) = -((-v) \div GAIN_DEN) /\ -v \in Nat
    BY <1>4 DEF Whole
  <2>2. PICK q : q = (-v) \div GAIN_DEN
    OBVIOUS
  <2>3. /\ q \in Nat /\ 0 <= (-v) - q * GAIN_DEN /\ (-v) - q * GAIN_DEN < GAIN_DEN
        /\ -v >= GAIN_DEN => q >= 1
        /\ -v < GAIN_DEN => q = 0
    BY <1>1, <1>2, <2>1, <2>2
  <2>4. Whole(v) = -q /\ rest = -((-v) - q * GAIN_DEN)
    BY <1>2, <2>1, <2>2, <2>3
  <2> QED BY <1>2, <1>4, <2>3, <2>4
<1> QED BY <1>3, <1>4

\* The gain is at least 1 and the carry less than a pixel.
ScaleKept ==
  /\ GAIN_DEN <= gain
  /\ -GAIN_DEN < gain_rem.x /\ gain_rem.x < GAIN_DEN
  /\ -GAIN_DEN < gain_rem.y /\ gain_rem.y < GAIN_DEN

\* The carry does not hold back a motion through edge d.
CarriedTowards(d) ==
  CASE d = "Left" -> gain_rem.x <= 0 [] d = "Right"  -> gain_rem.x >= 0
    [] d = "Top"  -> gain_rem.y <= 0 [] d = "Bottom" -> gain_rem.y >= 0

\* The fallback in progress on the cursor's screen.
InProgress == IF mode = HOME THEN pushing ELSE remote_pushing

\* What the session remembers of a press: the cursor rests inside its screen on the
\* edge pressed, no beacon is more recent than the press, and from the second motion
\* on a fallback is in progress that started at most a tick after the press: the first
\* motion may leave the cursor where it is, when the carry of an earlier one cancels
\* it, or bring it back from outside the screen.
HoldInv ==
  \A h \in hold :
    /\ AtEdge(h.dir) /\ CursorOnScreen
    /\ mode # HOME => CarriedTowards(h.dir)
    /\ \A age \in remote_beacon_at : AtMost(BEACON_FRESH, h.age) <= age
    /\ \/ h.age = 0
       \/ h.age = 1 /\ ~h.moved
       \/ \E p \in InProgress : p.dir = h.dir /\ AtMost(PUSH_FALLBACK, h.age - 1) <= p.age

HoldTyped == hold \in SUBSET [dir : Directions, age : 0..HOLD_LIMIT, moved : BOOLEAN]

DesktopKept == Distinct /\ HomeIsLocal

PushInv == DesktopKept /\ ScaleKept /\ HoldTyped /\ HoldInv

-----------------------------------------------------------------------------
\* A motion through edge d and no other.
Heads(d, dx, dy) ==
  CASE d = "Left" -> dx < 0 /\ dy = 0 [] d = "Right"  -> dx > 0 /\ dy = 0
    [] d = "Top"  -> dx = 0 /\ dy < 0 [] d = "Bottom" -> dx = 0 /\ dy > 0

LEMMA PressHeads ==
  ASSUME NEW dx \in Int, NEW dy \in Int, NEW d \in Directions
  PROVE  PushedEdges(dx, dy) = {d} <=> Heads(d, dx, dy)
<1>1. PushedEdges(dx, dy) \subseteq Directions
  BY EdgesAreDirections
<1>2. CASE d = "Left" BY <1>1, <1>2, PushedIs DEF Heads, Directions
<1>3. CASE d = "Right" BY <1>1, <1>3, PushedIs DEF Heads, Directions
<1>4. CASE d = "Top" BY <1>1, <1>4, PushedIs DEF Heads, Directions
<1>5. CASE d = "Bottom" BY <1>1, <1>5, PushedIs DEF Heads, Directions
<1> QED BY <1>2, <1>3, <1>4, <1>5 DEF Directions

\* On each axis, a gain of 1 or more turns a motion into pixels on the same side,
\* at least one unless the carry holds it back.
LEMMA ScaledAxis ==
  ASSUME NEW v \in Int, NEW rem \in Int, gain \in Int, GAIN_DEN <= gain,
         -GAIN_DEN < rem, rem < GAIN_DEN, NEW u \in Int, u = v * gain + rem
  PROVE  LET s == Whole(u)
             rest == u - s * GAIN_DEN
         IN /\ s \in Int /\ rest \in Int /\ -GAIN_DEN < rest /\ rest < GAIN_DEN
            /\ v = 0 => s = 0
            /\ v > 0 => s >= 0 /\ rest >= 0 /\ (rem >= 0 => s > 0)
            /\ v < 0 => s <= 0 /\ rest <= 0 /\ (rem <= 0 => s < 0)
<1> DEFINE s == Whole(u)
           rest == u - s * GAIN_DEN
<1>1. GAIN_DEN \in Nat \ {0}
  BY InputAssumption
<1>2. v * gain \in Int
  OBVIOUS
<1>3. s \in Int
  BY WholeIs
<1>4. v = 0 => u = rem
  OBVIOUS
<1>5. v > 0 => u >= GAIN_DEN + rem
  <2>1. v > 0 => v * gain >= gain
    BY <1>1
  <2> QED BY <1>1, <1>2, <2>1
<1>6. v < 0 => u <= rem - GAIN_DEN
  <2>1. v < 0 => v * gain <= -gain
    BY <1>1
  <2> QED BY <1>1, <1>2, <2>1
<1>7. rest \in Int
  BY <1>1, <1>3
<1>8. /\ u >= 0 => 0 <= rest /\ rest < GAIN_DEN /\ 0 <= s
      /\ u <= 0 => rest <= 0 /\ -GAIN_DEN < rest /\ s <= 0
      /\ u >= GAIN_DEN => s >= 1
      /\ u <= -GAIN_DEN => s <= -1
      /\ -GAIN_DEN < u /\ u < GAIN_DEN => s = 0
  BY WholeIs
<1> HIDE DEF s, rest
<1>9. /\ -GAIN_DEN < rest /\ rest < GAIN_DEN
      /\ v = 0 => s = 0
      /\ v > 0 => s >= 0 /\ rest >= 0 /\ (rem >= 0 => s > 0)
      /\ v < 0 => s <= 0 /\ rest <= 0 /\ (rem <= 0 => s < 0)
  BY <1>1, <1>3, <1>4, <1>5, <1>6, <1>7, <1>8
<1> QED BY <1>3, <1>7, <1>9 DEF s, rest

\* The scaled press heads where the hand presses, or stands still on its first motion.
LEMMA ScaledPress ==
  ASSUME ScaleTyped, ScaleKept, NEW dx \in Int, NEW dy \in Int,
         NEW rx \in Int, rx = dx * gain + gain_rem.x, NEW ry \in Int, ry = dy * gain + gain_rem.y,
         NEW sx, sx = Whole(rx), NEW sy, sy = Whole(ry),
         gain' = gain, gain_rem' = [x |-> rx - sx * GAIN_DEN, y |-> ry - sy * GAIN_DEN]
  PROVE  /\ sx \in Int /\ sy \in Int
         /\ ScaleKept'
         /\ \A d \in Directions : Heads(d, dx, dy) =>
              /\ CarriedTowards(d)'
              /\ Heads(d, sx, sy) \/ (sx = 0 /\ sy = 0)
              /\ CarriedTowards(d) => Heads(d, sx, sy)
<1>1. /\ gain \in Int /\ gain_rem.x \in Int /\ gain_rem.y \in Int /\ GAIN_DEN <= gain
      /\ -GAIN_DEN < gain_rem.x /\ gain_rem.x < GAIN_DEN
      /\ -GAIN_DEN < gain_rem.y /\ gain_rem.y < GAIN_DEN
  BY DEF ScaleTyped, ScaleKept, Points
<1>2. PICK restx, resty : restx = rx - sx * GAIN_DEN /\ resty = ry - sy * GAIN_DEN
  OBVIOUS
<1>3. /\ sx \in Int /\ restx \in Int /\ -GAIN_DEN < restx /\ restx < GAIN_DEN
      /\ dx = 0 => sx = 0
      /\ dx > 0 => sx >= 0 /\ restx >= 0 /\ (gain_rem.x >= 0 => sx > 0)
      /\ dx < 0 => sx <= 0 /\ restx <= 0 /\ (gain_rem.x <= 0 => sx < 0)
  <2>1. PICK rem \in Int : rem = gain_rem.x
    BY <1>1
  <2>2. rx = dx * gain + rem /\ -GAIN_DEN < rem /\ rem < GAIN_DEN
    BY <1>1, <2>1
  <2> QED BY <1>1, <1>2, <2>1, <2>2, ScaledAxis
<1>4. /\ sy \in Int /\ resty \in Int /\ -GAIN_DEN < resty /\ resty < GAIN_DEN
      /\ dy = 0 => sy = 0
      /\ dy > 0 => sy >= 0 /\ resty >= 0 /\ (gain_rem.y >= 0 => sy > 0)
      /\ dy < 0 => sy <= 0 /\ resty <= 0 /\ (gain_rem.y <= 0 => sy < 0)
  <2>1. PICK rem \in Int : rem = gain_rem.y
    BY <1>1
  <2>2. ry = dy * gain + rem /\ -GAIN_DEN < rem /\ rem < GAIN_DEN
    BY <1>1, <2>1
  <2> QED BY <1>1, <1>2, <2>1, <2>2, ScaledAxis
<1>5. gain_rem'.x = restx /\ gain_rem'.y = resty
  BY <1>2
<1>6. ScaleKept'
  BY <1>1, <1>3, <1>4, <1>5 DEF ScaleKept
<1>7. ASSUME NEW d \in Directions, Heads(d, dx, dy)
      PROVE  /\ CarriedTowards(d)'
             /\ Heads(d, sx, sy) \/ (sx = 0 /\ sy = 0)
             /\ CarriedTowards(d) => Heads(d, sx, sy)
  <2>1. CASE d = "Left" BY <1>1, <1>3, <1>4, <1>5, <1>7, <2>1 DEF Heads, CarriedTowards
  <2>2. CASE d = "Right" BY <1>1, <1>3, <1>4, <1>5, <1>7, <2>2 DEF Heads, CarriedTowards
  <2>3. CASE d = "Top" BY <1>1, <1>3, <1>4, <1>5, <1>7, <2>3 DEF Heads, CarriedTowards
  <2>4. CASE d = "Bottom" BY <1>1, <1>3, <1>4, <1>5, <1>7, <2>4 DEF Heads, CarriedTowards
  <2> QED BY <2>1, <2>2, <2>3, <2>4 DEF Directions
<1> QED BY <1>3, <1>4, <1>6, <1>7

-----------------------------------------------------------------------------
\* The point p is on the last pixel of r before edge d, or past it.
OnEdge(r, d, p) ==
  CASE d = "Left"   -> p.x <= r.x
    [] d = "Right"  -> p.x >= r.x + r.w - 1
    [] d = "Top"    -> p.y <= r.y
    [] d = "Bottom" -> p.y >= r.y + r.h - 1

\* The coordinate of p across the ray through edge d.
Across(d, p) == IF Along(d) = "x" THEN p.y ELSE p.x

\* Whether a crossing leads somewhere depends on where the edge is left only.
LEMMA CrossingAcross ==
  ASSUME NEW from, NEW d, NEW p, NEW q, Across(d, p) = Across(d, q), Crossing(from, d, p) # {}
  PROVE  Crossing(from, d, q) # {}
<1>1. PICK m \in Neighbor(screens, from, d, p.x, p.y) :
        ~walls_locked /\ Reachable(m.id) /\ Find(screens, m.id) # {}
  BY DEF Crossing
<1>2. PICK f \in Find(screens, from) :
        \E k \in BestCandidates(screens, f, d, Across(d, p)) : m = EntryPoint(screens[k], d, p.x, p.y)
  BY DEF Neighbor, Across
<1>3. PICK k \in BestCandidates(screens, f, d, Across(d, p)) : m = EntryPoint(screens[k], d, p.x, p.y)
  BY <1>2
<1>4. PICK n : n = EntryPoint(screens[k], d, q.x, q.y)
  OBVIOUS
<1>5. n.id = m.id
  BY <1>3, <1>4 DEF EntryPoint
<1>6. n \in Neighbor(screens, from, d, q.x, q.y)
  BY <1>3, <1>4 DEF Neighbor, Across
<1>7. PICK s \in Find(screens, n.id) : TRUE
  BY <1>1, <1>5
<1>8. InsetEntry(s, d, n.x, n.y) \in Crossing(from, d, q)
  BY <1>1, <1>5, <1>6, <1>7 DEF Crossing
<1> QED BY <1>8

LEMMA AtEdgeIs ==
  ASSUME NEW d
  PROVE  AtEdge(d) <=> \E s \in Find(screens, mode) : OnEdge(s.rect, d, cursor)
BY DEF AtEdge, OnEdge

\* A motion pressing edge d leaves a point of that edge on or past it; from inside the
\* screen it leaves through no other edge, and the clamp keeps where across it is.
LEMMA PressedPoint ==
  ASSUME NEW r \in Rects, r.w > 0, r.h > 0, NEW p \in Points, NEW d \in Directions, OnEdge(r, d, p),
         NEW dx \in Int, NEW dy \in Int, Heads(d, dx, dy) \/ (dx = 0 /\ dy = 0),
         NEW at, at = [x |-> p.x + dx, y |-> p.y + dy]
  PROVE  /\ at \in Points /\ Across(d, at) = Across(d, p)
         /\ OnEdge(r, d, at)
         /\ OnEdge(r, d, ClampTo(r, at)) /\ Contains(r, ClampTo(r, at).x, ClampTo(r, at).y)
         /\ Heads(d, dx, dy) => d \in Past(r, at)
         /\ Contains(r, p.x, p.y) => /\ Past(r, at) \subseteq {d}
                                     /\ Across(d, ClampTo(r, at)) = Across(d, p)
<1>1. /\ r.x \in Int /\ r.y \in Int /\ r.w \in Int /\ r.h \in Int /\ p.x \in Int /\ p.y \in Int
  BY DEF Rects, Points
<1>2. at \in Points /\ at.x = p.x + dx /\ at.y = p.y + dy
  BY <1>1 DEF Points
<1>3. /\ d \in {"Left", "Right"} => dy = 0
      /\ d \in {"Top", "Bottom"} => dx = 0
  BY DEF Heads
<1>4. Across(d, at) = Across(d, p)
  BY <1>1, <1>2, <1>3 DEF Across, Along, Directions
<1>5. Contains(r, ClampTo(r, at).x, ClampTo(r, at).y)
  BY <1>2, ClampLandsInside DEF Points
<1>6. /\ ClampTo(r, at).x = Clamp(at.x, r.x, r.x + r.w - 1)
      /\ ClampTo(r, at).y = Clamp(at.y, r.y, r.y + r.h - 1)
  BY DEF ClampTo
<1>7. OnEdge(r, d, at) /\ OnEdge(r, d, ClampTo(r, at)) /\ (Heads(d, dx, dy) => d \in Past(r, at))
  <2>1. CASE d = "Left" BY <1>1, <1>2, <1>6, <2>1 DEF OnEdge, Heads, Clamp, AtMost, Past, Directions
  <2>2. CASE d = "Right" BY <1>1, <1>2, <1>6, <2>2 DEF OnEdge, Heads, Clamp, AtMost, Past, Directions
  <2>3. CASE d = "Top" BY <1>1, <1>2, <1>6, <2>3 DEF OnEdge, Heads, Clamp, AtMost, Past, Directions
  <2>4. CASE d = "Bottom" BY <1>1, <1>2, <1>6, <2>4 DEF OnEdge, Heads, Clamp, AtMost, Past, Directions
  <2> QED BY <2>1, <2>2, <2>3, <2>4 DEF Directions
<1>8. ASSUME Contains(r, p.x, p.y)
      PROVE  Past(r, at) \subseteq {d} /\ Across(d, ClampTo(r, at)) = Across(d, p)
  <2>1. Past(r, p) = {}
    BY <1>8, InsideIsNotPast
  <2>2. PushedEdges(dx, dy) \subseteq {d}
    <3>1. CASE Heads(d, dx, dy) BY <3>1, PressHeads
    <3>2. CASE dx = 0 /\ dy = 0 BY <3>2, PushedIs, EdgesAreDirections DEF Directions
    <3> QED BY <3>1, <3>2
  <2>3. Past(r, at) \subseteq {d}
    BY <2>1, <2>2, PastIsPushed
  <2>4. /\ d \in {"Left", "Right"} => ClampTo(r, at).y = p.y
        /\ d \in {"Top", "Bottom"} => ClampTo(r, at).x = p.x
    BY <1>1, <1>2, <1>3, <1>6, <1>8 DEF Contains, Clamp, AtMost
  <2> QED BY <2>3, <2>4 DEF Across, Along, Directions
<1> QED BY <1>2, <1>4, <1>5, <1>7, <1>8

\* The push in progress goes on when it is through the same edge.
LEMMA KeepPushingIs ==
  ASSUME NEW old \in PushLatches(PUSH_FALLBACK), NEW d \in Directions
  PROVE  \E p \in KeepPushing(old, d) :
           p.dir = d /\ 0 <= p.age /\ \A q \in old : q.dir = d => q.age <= p.age
<1>1. CASE \E p \in old : p.dir = d
  <2>1. PICK p \in [dir : Directions, age : 0..PUSH_FALLBACK] : old = {p}
    BY <1>1 DEF PushLatches
  <2>2. KeepPushing(old, d) = {p} /\ p.dir = d /\ p.age \in 0..PUSH_FALLBACK
    BY <1>1, <2>1 DEF KeepPushing
  <2>3. 0 <= p.age /\ p.age <= p.age
    BY <2>2, TickAssumption
  <2>4. \A q \in old : q = p
    BY <2>1
  <2> QED BY <2>2, <2>3, <2>4
<1>2. CASE ~\E p \in old : p.dir = d
  <2>1. KeepPushing(old, d) = {[dir |-> d, age |-> 0]}
    BY <1>2 DEF KeepPushing
  <2> QED BY <1>2, <2>1
<1> QED BY <1>1, <1>2

-----------------------------------------------------------------------------
\* At home a press on an edge that leads somewhere either crosses it, or leaves the
\* cursor on it with the fallback going on and not yet due (handle_local_motion).
LEMMA LocalPressHeld ==
  ASSUME DesktopKept, TypeInv, Inv, HomeCursorOnScreen,
         NEW dx \in Int, NEW dy \in Int, LocalMotion(dx, dy), mode' = mode,
         NEW d \in Directions, Heads(d, dx, dy), AtEdge(d), Crossing(mode, d, cursor) # {}
  PROVE  /\ AtEdge(d)' /\ CursorOnScreen' /\ UNCHANGED remote_beacon_at
         /\ pushing' = KeepPushing(pushing, d) /\ ~Sustained(pushing, d)
<1> DEFINE at == [x |-> cursor.x + dx, y |-> cursor.y + dy]
           pushed == PushedEdges(dx, dy)
           pulled == PulledEdges(dx, dy)
<1>1. /\ UNCHANGED screens /\ mode = HOME
      /\ \/ LocalPush(at, pushed)
         \/ LocalInside(at, pushed, pulled)
         \/ LocalPinned(at, pushed, pulled)
         \/ LocalFallback(at, pushed)
  BY DEF LocalMotion, desktop
<1>2. PICK s \in Find(screens, HOME) : OnEdge(s.rect, d, cursor)
  BY <1>1, AtEdgeIs
<1>3. s.rect = local /\ \A f \in Find(screens, HOME) : f = s
  BY <1>2, FindIsOne DEF DesktopKept, HomeIsLocal, Inv, StructureOK
<1>4. local \in Rects /\ local.w > 0 /\ local.h > 0 /\ cursor \in Points
  <2>1. PICK k \in DOMAIN screens : s = screens[k]
    BY <1>2 DEF Find
  <2> QED BY <1>3, <2>1 DEF DesktopKept, Distinct, TypeInv, DesktopTyped, CursorTyped
<1>5. Contains(local, cursor.x, cursor.y)
  BY <1>1 DEF HomeCursorOnScreen
<1> HIDE DEF pushed, pulled
<1>6. PICK p : p = at
  OBVIOUS
<1>7. /\ p \in Points
      /\ OnEdge(local, d, ClampTo(local, p))
      /\ Contains(local, ClampTo(local, p).x, ClampTo(local, p).y)
      /\ Past(local, p) = {d} /\ Across(d, ClampTo(local, p)) = Across(d, cursor)
  BY <1>2, <1>3, <1>4, <1>5, <1>6, PressedPoint
<1>8. ~LocalPush(p, pushed) /\ ~LocalFallback(p, pushed)
  BY <1>1, CrossGoesElsewhere DEF LocalPush, LocalFallback
<1>9. ~LocalInside(p, pushed, pulled)
  <2>1. ExitDirection(screens, HOME, p.x, p.y) = {} => Contains(local, p.x, p.y)
    BY <1>2, <1>3 DEF ExitDirection
  <2> QED BY <1>4, <1>7, <2>1, InsideIsNotPast DEF LocalInside
<1>10. PICK e \in ExitDirection(screens, HOME, p.x, p.y) :
         /\ Sustained(pushing, e) => Crossing(HOME, e, ClampTo(local, p)) = {}
         /\ pushing' = IF Sustained(pushing, e) THEN {} ELSE KeepPushing(pushing, e)
         /\ cursor' = ClampTo(local, p) /\ UNCHANGED far_latches
  BY <1>1, <1>6, <1>8, <1>9 DEF LocalPinned
<1>11. e = d
  BY <1>3, <1>4, <1>7, ExitIsPast
<1>12. Crossing(HOME, d, ClampTo(local, p)) # {}
  BY <1>1, <1>7, CrossingAcross
<1>13. AtEdge(d)' /\ CursorOnScreen'
  <2>1. OnEdge(s.rect, d, cursor') /\ Contains(s.rect, cursor'.x, cursor'.y)
    BY <1>3, <1>7, <1>10
  <2>2. s \in Find(screens', mode')
    BY <1>1, <1>2
  <2>3. AtEdge(d)'
    BY <2>1, <2>2 DEF AtEdge, OnEdge
  <2>4. CursorOnScreen'
    BY <2>1, <2>2 DEF CursorOnScreen
  <2> QED BY <2>3, <2>4
<1> QED BY <1>10, <1>11, <1>12, <1>13 DEF far_latches

\* On a client the scaled press does the same, from its second motion on; the first
\* may find the cursor outside the screen, or not move it (handle_remote_motion).
LEMMA RemotePressHeld ==
  ASSUME DesktopKept, ScaleKept, TypeInv, Inv,
         NEW dx \in Int, NEW dy \in Int, RemoteMotion(dx, dy), mode' = mode,
         NEW d \in Directions, Heads(d, dx, dy), AtEdge(d), Crossing(mode, d, cursor) # {}
  PROVE  /\ AtEdge(d)' /\ CursorOnScreen' /\ CarriedTowards(d)' /\ UNCHANGED remote_beacon_at
         /\ CursorOnScreen /\ CarriedTowards(d) =>
              /\ remote_pushing' = KeepPushing(remote_pushing, d)
              /\ ~FallbackDue(d)
<1> DEFINE rx == dx * gain + gain_rem.x
           ry == dy * gain + gain_rem.y
           sx == Whole(rx)
           sy == Whole(ry)
           at == [x |-> cursor.x + sx, y |-> cursor.y + sy]
           pushed == PushedEdges(sx, sy)
           pulled == PulledEdges(sx, sy)
           armed == ArmedEdges(at, pushed)
<1>1. /\ UNCHANGED <<screens, gain>> /\ mode # HOME
      /\ gain_rem' = [x |-> rx - sx * GAIN_DEN, y |-> ry - sy * GAIN_DEN]
      /\ \/ RemotePush(at, armed)
         \/ RemoteRefused(at, armed, pushed, pulled)
         \/ RemoteInside(at) /\ RemoteForward(pushed, pulled, sx, sy)
         \/ RemotePinned(at) /\ RemoteForward(pushed, pulled, sx, sy)
         \/ RemoteFallback(at)
  BY DEF RemoteMotion, desktop
<1>2. rx \in Int /\ ry \in Int /\ ScaleTyped
  <2>1. dx * gain \in Int /\ dy * gain \in Int /\ gain_rem.x \in Int /\ gain_rem.y \in Int
    BY DEF TypeInv, ScaleTyped, Points
  <2> QED BY <2>1 DEF TypeInv
<1> HIDE DEF rx, ry
<1>3. PICK u, v : u = rx /\ v = ry /\ u = dx * gain + gain_rem.x /\ v = dy * gain + gain_rem.y
  BY DEF rx, ry
<1>4. /\ sx \in Int /\ sy \in Int
      /\ CarriedTowards(d)'
      /\ Heads(d, sx, sy) \/ (sx = 0 /\ sy = 0)
      /\ CarriedTowards(d) => Heads(d, sx, sy)
  BY <1>1, <1>2, <1>3, ScaledPress
<1> HIDE DEF sx, sy
<1>5. PICK s \in Find(screens, mode) : OnEdge(s.rect, d, cursor)
  BY AtEdgeIs
<1>6. s.rect \in Rects /\ s.rect.w > 0 /\ s.rect.h > 0 /\ cursor \in Points
      /\ \A f \in Find(screens, mode) : f = s
  <2>1. PICK k \in DOMAIN screens : s = screens[k]
    BY <1>5 DEF Find
  <2>2. \A f \in Find(screens, mode) : f = s
    BY <1>5, FindIsOne DEF Inv, StructureOK
  <2> QED BY <2>1, <2>2, FindIsTyped DEF DesktopKept, Distinct, TypeInv, DesktopTyped, CursorTyped
<1>7. pushed \subseteq {d}
  <2>1. CASE Heads(d, sx, sy) BY <1>4, <2>1, PressHeads
  <2>2. CASE sx = 0 /\ sy = 0 BY <2>2, PushedIs, EdgesAreDirections DEF Directions
  <2> QED BY <1>4, <2>1, <2>2
<1> HIDE DEF pushed, pulled
<1>8. PICK p : p = at
  OBVIOUS
<1>9. /\ p \in Points /\ Across(d, p) = Across(d, cursor)
      /\ OnEdge(s.rect, d, p)
      /\ OnEdge(s.rect, d, ClampTo(s.rect, p))
      /\ Contains(s.rect, ClampTo(s.rect, p).x, ClampTo(s.rect, p).y)
      /\ Heads(d, sx, sy) => d \in Past(s.rect, p)
      /\ Contains(s.rect, cursor.x, cursor.y) =>
           Past(s.rect, p) \subseteq {d} /\ Across(d, ClampTo(s.rect, p)) = Across(d, cursor)
  BY <1>4, <1>5, <1>6, <1>8, PressedPoint
<1>10. ~RemotePush(p, armed) /\ ~RemoteFallback(p)
  BY CrossGoesElsewhere DEF RemotePush, RemoteFallback
<1>11. ~RemoteRefused(p, armed, pushed, pulled)
  <2>1. armed \subseteq {d}
    BY <1>7 DEF ArmedEdges
  <2>2. Crossing(mode, d, p) # {}
    BY <1>9, CrossingAcross
  <2> QED BY <2>1, <2>2 DEF RemoteRefused
<1>12. (RemoteInside(p) \/ RemotePinned(p)) /\ UNCHANGED remote_beacon_at
  BY <1>1, <1>8, <1>10, <1>11 DEF RemoteForward
<1>13. RemoteInside(p) => cursor' = p /\ Contains(s.rect, p.x, p.y)
  BY <1>5 DEF RemoteInside, ExitDirection
<1>14. RemotePinned(p) => cursor' = ClampTo(s.rect, p)
  BY <1>6 DEF RemotePinned
<1>15. AtEdge(d)' /\ CursorOnScreen'
  <2>1. OnEdge(s.rect, d, cursor') /\ Contains(s.rect, cursor'.x, cursor'.y)
    BY <1>9, <1>12, <1>13, <1>14
  <2>2. s \in Find(screens', mode')
    BY <1>1, <1>5
  <2>3. AtEdge(d)'
    BY <2>1, <2>2 DEF AtEdge, OnEdge
  <2>4. CursorOnScreen'
    BY <2>1, <2>2 DEF CursorOnScreen
  <2> QED BY <2>3, <2>4
<1>16. ASSUME CursorOnScreen, CarriedTowards(d)
       PROVE  remote_pushing' = KeepPushing(remote_pushing, d) /\ ~FallbackDue(d)
  <2>1. Contains(s.rect, cursor.x, cursor.y)
    BY <1>6, <1>16 DEF CursorOnScreen
  <2>2. Past(s.rect, p) = {d} /\ Across(d, ClampTo(s.rect, p)) = Across(d, cursor)
    BY <1>4, <1>9, <1>16, <2>1
  <2>3. RemotePinned(p)
    BY <1>6, <1>9, <1>12, <1>13, <2>2, InsideIsNotPast
  <2>4. PICK e \in ExitDirection(screens, mode, p.x, p.y) :
          /\ FallbackDue(e) => Crossing(mode, e, ClampTo(s.rect, p)) = {}
          /\ remote_pushing' = IF FallbackDue(e) THEN {} ELSE KeepPushing(remote_pushing, e)
    BY <1>6, <2>3 DEF RemotePinned
  <2>5. e = d
    BY <1>6, <1>9, <2>2, ExitIsPast
  <2>6. Crossing(mode, d, ClampTo(s.rect, p)) # {}
    BY <2>2, CrossingAcross
  <2> QED BY <2>4, <2>5, <2>6
<1> QED BY <1>4, <1>12, <1>15, <1>16

\* Either way: a press that does not cross keeps the cursor on the edge and the
\* fallback going, and is not one the fallback owed a crossing.
LEMMA PressHeld ==
  ASSUME DesktopKept, ScaleKept, TypeInv, Inv, HomeCursorOnScreen,
         NEW m \in Deltas, Motion(m), mode' = mode,
         NEW d \in Directions, Presses(m, d), AtEdge(d), Crossing(mode, d, cursor) # {}
  PROVE  /\ AtEdge(d)' /\ CursorOnScreen' /\ UNCHANGED remote_beacon_at
         /\ mode # HOME => CarriedTowards(d)'
         /\ CursorOnScreen /\ (mode # HOME => CarriedTowards(d)) =>
              /\ \E p \in InProgress' :
                   p.dir = d /\ 0 <= p.age /\ \A q \in InProgress : q.dir = d => q.age <= p.age
              /\ ~(Sustained(InProgress, d) /\ ~BeaconIsFresh)
<1>1. m.dx \in Int /\ m.dy \in Int /\ Heads(d, m.dx, m.dy)
  <2>1. m.dx \in Int /\ m.dy \in Int
    BY InputAssumption
  <2> QED BY <2>1, PressHeads DEF Presses
<1>2. pushing \in PushLatches(PUSH_FALLBACK) /\ remote_pushing \in PushLatches(PUSH_FALLBACK)
  BY DEF TypeInv, LatchesTyped
<1>3. CASE LocalMotion(m.dx, m.dy)
  <2>1. mode = HOME /\ InProgress = pushing /\ InProgress' = pushing'
    BY <1>3 DEF LocalMotion, InProgress
  <2>2. /\ AtEdge(d)' /\ CursorOnScreen' /\ UNCHANGED remote_beacon_at
        /\ pushing' = KeepPushing(pushing, d) /\ ~Sustained(pushing, d)
    BY <1>1, <1>3, LocalPressHeld
  <2>3. \E p \in KeepPushing(pushing, d) :
          p.dir = d /\ 0 <= p.age /\ \A q \in pushing : q.dir = d => q.age <= p.age
    BY <1>2, KeepPushingIs
  <2> QED BY <2>1, <2>2, <2>3
<1>4. CASE RemoteMotion(m.dx, m.dy)
  <2>1. mode # HOME /\ InProgress = remote_pushing /\ InProgress' = remote_pushing'
    BY <1>4 DEF RemoteMotion, InProgress
  <2>2. /\ AtEdge(d)' /\ CursorOnScreen' /\ CarriedTowards(d)' /\ UNCHANGED remote_beacon_at
        /\ CursorOnScreen /\ CarriedTowards(d) =>
             remote_pushing' = KeepPushing(remote_pushing, d) /\ ~FallbackDue(d)
    BY <1>1, <1>4, RemotePressHeld
  <2>3. \E p \in KeepPushing(remote_pushing, d) :
          p.dir = d /\ 0 <= p.age /\ \A q \in remote_pushing : q.dir = d => q.age <= p.age
    BY <1>2, KeepPushingIs
  <2> QED BY <2>1, <2>2, <2>3 DEF FallbackDue
<1> QED BY <1>3, <1>4 DEF Motion

\* A motion keeps the history of the press true.
LEMMA MotionHolds ==
  ASSUME PushInv, TypeInv, Inv, HomeCursorOnScreen, NEW m \in Deltas, Motion(m),
         hold' = IF mode' = mode THEN Held(m) ELSE {}
  PROVE  HoldTyped' /\ HoldInv'
<1>1. CASE mode' # mode
  BY <1>1 DEF HoldTyped, HoldInv
<1>2. CASE mode' = mode
  <2> SUFFICES ASSUME NEW h \in Held(m)
               PROVE  /\ h \in [dir : Directions, age : 0..HOLD_LIMIT, moved : BOOLEAN]
                      /\ AtEdge(h.dir)' /\ CursorOnScreen'
                      /\ mode' # HOME => CarriedTowards(h.dir)'
                      /\ \A age \in remote_beacon_at' : AtMost(BEACON_FRESH, h.age) <= age
                      /\ \/ h.age = 0
                         \/ h.age = 1 /\ ~h.moved
                         \/ \E p \in InProgress' :
                              p.dir = h.dir /\ AtMost(PUSH_FALLBACK, h.age - 1) <= p.age
    BY <1>2 DEF HoldTyped, HoldInv
  <2>0. HOLD_LIMIT \in Nat /\ 0 \in 0..HOLD_LIMIT /\ BEACON_FRESH \in Nat /\ PUSH_FALLBACK \in Nat
    BY TickAssumption DEF HOLD_LIMIT
  <2>1. \A age \in remote_beacon_at : age \in Nat
    BY DEF TypeInv, LatchesTyped
  <2>2. CASE \E g \in hold : /\ Presses(m, g.dir) /\ Crossing(mode, g.dir, cursor) # {}
                             /\ h = [g EXCEPT !.moved = TRUE]
    <3>1. PICK g \in hold : /\ Presses(m, g.dir) /\ Crossing(mode, g.dir, cursor) # {}
                            /\ h = [g EXCEPT !.moved = TRUE]
      BY <2>2
    <3>2. g \in [dir : Directions, age : 0..HOLD_LIMIT, moved : BOOLEAN]
      BY DEF PushInv, HoldTyped
    <3>3. /\ h \in [dir : Directions, age : 0..HOLD_LIMIT, moved : BOOLEAN]
          /\ h.dir = g.dir /\ h.age = g.age /\ g.dir \in Directions /\ g.age \in Nat
      <4>1. h = [dir |-> g.dir, age |-> g.age, moved |-> TRUE]
        BY <3>1, <3>2
      <4>2. g.dir \in Directions /\ g.age \in 0..HOLD_LIMIT
        BY <3>2
      <4> QED BY <2>0, <4>1, <4>2
    <3>4. /\ AtEdge(g.dir) /\ CursorOnScreen
          /\ mode # HOME => CarriedTowards(g.dir)
          /\ \A age \in remote_beacon_at : AtMost(BEACON_FRESH, g.age) <= age
          /\ \/ g.age = 0
             \/ g.age = 1 /\ ~g.moved
             \/ \E p \in InProgress : p.dir = g.dir /\ AtMost(PUSH_FALLBACK, g.age - 1) <= p.age
      BY DEF PushInv, HoldInv
    <3>5. /\ AtEdge(g.dir)' /\ CursorOnScreen' /\ UNCHANGED remote_beacon_at
          /\ mode # HOME => CarriedTowards(g.dir)'
      BY <1>2, <3>1, <3>3, <3>4, PressHeld DEF PushInv
    <3>6. PICK p \in InProgress' :
            p.dir = g.dir /\ 0 <= p.age /\ \A q \in InProgress : q.dir = g.dir => q.age <= p.age
      BY <1>2, <3>1, <3>3, <3>4, PressHeld DEF PushInv
    <3>7. InProgress \in PushLatches(PUSH_FALLBACK) /\ InProgress' \in PushLatches(PUSH_FALLBACK)
      <4>1. TypeInv'
        BY InputAssumption, LocalMotionTyped, RemoteMotionTyped DEF Motion
      <4> QED BY <4>1 DEF InProgress, TypeInv, LatchesTyped
    <3>8. p.age \in Int /\ \A q \in InProgress : q.age \in Int
      BY <3>7 DEF PushLatches
    <3>9. \/ g.age = 0
          \/ AtMost(PUSH_FALLBACK, g.age - 1) <= p.age
      <4>1. CASE g.age = 1
        <5>1. AtMost(PUSH_FALLBACK, 0) = 0
          BY <2>0 DEF AtMost
        <5> QED BY <3>6, <4>1, <5>1
      <4>2. CASE \E q \in InProgress : q.dir = g.dir /\ AtMost(PUSH_FALLBACK, g.age - 1) <= q.age
        <5>1. AtMost(PUSH_FALLBACK, g.age - 1) \in Int
          BY <2>0, <3>3 DEF AtMost
        <5> QED BY <3>6, <3>8, <4>2, <5>1
      <4> QED BY <3>4, <4>1, <4>2
    <3>10. \A age \in remote_beacon_at' : AtMost(BEACON_FRESH, h.age) <= age
      BY <3>3, <3>4, <3>5
    <3>11. \/ h.age = 0
           \/ \E q \in InProgress' : q.dir = h.dir /\ AtMost(PUSH_FALLBACK, h.age - 1) <= q.age
      BY <3>3, <3>6, <3>9
    <3> QED BY <1>2, <3>3, <3>5, <3>10, <3>11
  <2>3. CASE \E e \in Directions : /\ Presses(m, e) /\ AtEdge(e) /\ Crossing(mode, e, cursor) # {}
                                   /\ h = [dir |-> e, age |-> 0, moved |-> TRUE]
    <3>1. PICK e \in Directions : /\ Presses(m, e) /\ AtEdge(e) /\ Crossing(mode, e, cursor) # {}
                                  /\ h = [dir |-> e, age |-> 0, moved |-> TRUE]
      BY <2>3
    <3>2. /\ AtEdge(e)' /\ CursorOnScreen' /\ UNCHANGED remote_beacon_at
          /\ mode # HOME => CarriedTowards(e)'
      BY <1>2, <3>1, PressHeld DEF PushInv
    <3>3. AtMost(BEACON_FRESH, 0) = 0
      BY <2>0 DEF AtMost
    <3> QED BY <1>2, <2>0, <2>1, <3>1, <3>2, <3>3
  <2> QED BY <2>2, <2>3 DEF Held
<1> QED BY <1>1, <1>2

\* So does a tick: the press grows no older than the fallback and the beacons.
LEMMA TickHolds ==
  ASSUME PushInv, TypeInv, Tick, hold' = HeldTick
  PROVE  HoldTyped' /\ HoldInv'
<1>0. HOLD_LIMIT \in Nat /\ BEACON_FRESH \in Nat /\ PUSH_FALLBACK \in Nat
  BY TickAssumption DEF HOLD_LIMIT
<1>1. UNCHANGED <<screens, mode, cursor, gain_rem>>
  BY DEF Tick, desktop, motion_scale
<1>2. InProgress' = Older(InProgress, PUSH_FALLBACK)
  BY DEF Tick, InProgress
<1>3. InProgress \in PushLatches(PUSH_FALLBACK)
  BY DEF InProgress, TypeInv, LatchesTyped
<1> SUFFICES ASSUME NEW h \in HeldTick
             PROVE  /\ h \in [dir : Directions, age : 0..HOLD_LIMIT, moved : BOOLEAN]
                    /\ AtEdge(h.dir)' /\ CursorOnScreen'
                    /\ mode' # HOME => CarriedTowards(h.dir)'
                    /\ \A age \in remote_beacon_at' : AtMost(BEACON_FRESH, h.age) <= age
                    /\ \/ h.age = 0
                       \/ h.age = 1 /\ ~h.moved
                       \/ \E p \in InProgress' :
                            p.dir = h.dir /\ AtMost(PUSH_FALLBACK, h.age - 1) <= p.age
  BY DEF HoldTyped, HoldInv
<1>4. PICK g \in hold : g.moved /\ h = [g EXCEPT !.age = AtMost(HOLD_LIMIT, g.age + 1), !.moved = FALSE]
  BY DEF HeldTick
<1>5. g \in [dir : Directions, age : 0..HOLD_LIMIT, moved : BOOLEAN]
  BY DEF PushInv, HoldTyped
<1>6. h = [dir |-> g.dir, age |-> AtMost(HOLD_LIMIT, g.age + 1), moved |-> FALSE]
  BY <1>4, <1>5
<1>7. g.dir \in Directions /\ g.age \in 0..HOLD_LIMIT
  BY <1>5
<1>8. /\ h.dir = g.dir /\ ~h.moved /\ h.age = AtMost(HOLD_LIMIT, g.age + 1)
      /\ h.age \in 0..HOLD_LIMIT /\ h.age <= g.age + 1
  BY <1>0, <1>6, <1>7 DEF AtMost
<1>9. h \in [dir : Directions, age : 0..HOLD_LIMIT, moved : BOOLEAN]
  BY <1>6, <1>7, <1>8
<1>10. /\ AtEdge(g.dir) /\ CursorOnScreen
       /\ mode # HOME => CarriedTowards(g.dir)
       /\ \A age \in remote_beacon_at : AtMost(BEACON_FRESH, g.age) <= age
       /\ \/ g.age = 0
          \/ \E p \in InProgress : p.dir = g.dir /\ AtMost(PUSH_FALLBACK, g.age - 1) <= p.age
  BY <1>4 DEF PushInv, HoldInv
<1>11. AtEdge(h.dir)' /\ CursorOnScreen' /\ (mode' # HOME => CarriedTowards(h.dir)')
  BY <1>1, <1>8, <1>10 DEF AtEdge, CursorOnScreen, CarriedTowards
<1>12. \A age \in remote_beacon_at' : AtMost(BEACON_FRESH, h.age) <= age
  <2> SUFFICES ASSUME NEW age \in remote_beacon_at' PROVE AtMost(BEACON_FRESH, h.age) <= age
    OBVIOUS
  <2>1. PICK old \in remote_beacon_at : age = AtMost(BEACON_FRESH, old + 1)
    BY DEF Tick
  <2>2. old \in 0..BEACON_FRESH
    BY DEF TypeInv, LatchesTyped
  <2>3. AtMost(BEACON_FRESH, g.age) <= old
    BY <1>10
  <2> QED BY <1>0, <1>7, <1>8, <2>1, <2>2, <2>3 DEF AtMost
<1>13. \/ h.age = 0
       \/ h.age = 1 /\ ~h.moved
       \/ \E p \in InProgress' : p.dir = h.dir /\ AtMost(PUSH_FALLBACK, h.age - 1) <= p.age
  <2>1. CASE g.age = 0
    <3>1. h.age = 0 \/ h.age = 1
      BY <1>0, <1>8, <2>1
    <3> QED BY <1>8, <3>1
  <2>2. CASE \E p \in InProgress : p.dir = g.dir /\ AtMost(PUSH_FALLBACK, g.age - 1) <= p.age
    <3>1. PICK p \in InProgress : p.dir = g.dir /\ AtMost(PUSH_FALLBACK, g.age - 1) <= p.age
      BY <2>2
    <3>2. PICK q \in InProgress' : q.dir = p.dir /\ q.age = AtMost(PUSH_FALLBACK, p.age + 1)
      BY <1>0, <1>2, <1>3, OlderIs
    <3>3. p.age \in 0..PUSH_FALLBACK
      BY <1>3 DEF PushLatches
    <3>4. AtMost(PUSH_FALLBACK, h.age - 1) <= q.age
      BY <1>0, <1>7, <1>8, <3>1, <3>2, <3>3 DEF AtMost
    <3> QED BY <1>8, <3>1, <3>2, <3>4
  <2> QED BY <1>10, <2>1, <2>2
<1> QED BY <1>9, <1>11, <1>12, <1>13

\* The actions of this specification are the session's, on a desktop that stays.
LEMMA PushIsSession ==
  ASSUME [PushNext]_pvars
  PROVE  [Next]_vars /\ UNCHANGED desktop
<1>1. CASE UNCHANGED pvars
  BY <1>1 DEF pvars, vars
<1>2. CASE \E m \in Deltas : Motion(m)
  BY <1>2 DEF Motion, Next, InputEvent, LocalMotion, RemoteMotion
<1>3. CASE \E p \in Spots : Beacon(p)
  BY <1>3 DEF Beacon, Next, InputEvent, ServerCall, LocalBeacon, RemoteBeacon
<1>4. CASE Tick \/ ToggleLock \/ SwitchNext
  BY <1>4 DEF Next, InputEvent, Tick, ToggleLock, SwitchNext
<1>5. CASE \/ \E name \in Clients : AdmitKnown(name)
           \/ \E id \in admitted : ClientConnected(id) \/ ClientDisconnected(id)
           \/ \E g \in Gains : SetGain(g)
  BY <1>5 DEF Next, ServerCall, AdmitKnown, ClientConnected, ClientDisconnected, SetGain
<1> QED BY <1>1, <1>2, <1>3, <1>4, <1>5 DEF PushNext

\* The carry stays below a pixel, whatever changes the gain.
LEMMA ScaleHolds ==
  ASSUME \A g \in Gains : GAIN_DEN <= g, ScaleKept, TypeInv, [PushNext]_pvars
  PROVE  ScaleKept'
<1>1. CASE UNCHANGED motion_scale
  BY <1>1 DEF motion_scale, ScaleKept
<1>2. CASE \E m \in Deltas : RemoteMotion(m.dx, m.dy)
  <2>1. PICK m \in Deltas : RemoteMotion(m.dx, m.dy)
    BY <1>2
  <2>2. m.dx \in Int /\ m.dy \in Int
    BY InputAssumption
  <2>3. PICK rx, ry : rx = m.dx * gain + gain_rem.x /\ ry = m.dy * gain + gain_rem.y
    OBVIOUS
  <2>4. rx \in Int /\ ry \in Int /\ ScaleTyped
    <3>1. m.dx * gain \in Int /\ m.dy * gain \in Int /\ gain_rem.x \in Int /\ gain_rem.y \in Int
      BY <2>2 DEF TypeInv, ScaleTyped, Points
    <3> QED BY <2>3, <3>1 DEF TypeInv
  <2>5. /\ gain' = gain
        /\ gain_rem' = [x |-> rx - Whole(rx) * GAIN_DEN, y |-> ry - Whole(ry) * GAIN_DEN]
    BY <2>1, <2>3 DEF RemoteMotion
  <2> QED BY <2>2, <2>3, <2>4, <2>5, ScaledPress
<1>3. CASE \E g \in Gains : SetGain(g)
  BY <1>3 DEF SetGain, ScaleKept
<1>4. CASE UNCHANGED pvars
  BY <1>1, <1>4 DEF pvars, vars
<1>5. CASE \/ \E m \in Deltas : LocalMotion(m.dx, m.dy)
           \/ \E p \in Spots : Beacon(p)
           \/ Tick \/ ToggleLock \/ SwitchNext
           \/ \E name \in Clients : AdmitKnown(name)
           \/ \E id \in admitted : ClientConnected(id) \/ ClientDisconnected(id)
  <2>1. UNCHANGED motion_scale
    BY <1>5 DEF LocalMotion, Beacon, LocalBeacon, RemoteBeacon, Tick, ToggleLock, SwitchNext,
       AdmitKnown, ClientConnected, ClientDisconnected
  <2> QED BY <1>1, <2>1
<1> QED BY <1>2, <1>3, <1>4, <1>5 DEF PushNext, Motion

LEMMA InitPush ==
  ASSUME HomeIsDisplay, PushInit
  PROVE  PushInv
<1>1. Init /\ Inv /\ hold = {}
  BY InitInv DEF PushInit
<1>2. DesktopKept
  BY <1>1, InitDesktop DEF DesktopKept
<1>3. ScaleKept
  <2>1. gain = GAIN_DEN /\ gain_rem.x = 0 /\ gain_rem.y = 0 /\ GAIN_DEN \in Nat \ {0}
    BY <1>1, InputAssumption DEF Init
  <2> QED BY <2>1 DEF ScaleKept
<1>4. HoldTyped /\ HoldInv
  BY <1>1 DEF HoldTyped, HoldInv
<1> QED BY <1>2, <1>3, <1>4 DEF PushInv

LEMMA StepPush ==
  ASSUME \A g \in Gains : GAIN_DEN <= g,
         PushInv, TypeInv, Inv, HomeCursorOnScreen, [PushNext]_pvars
  PROVE  PushInv'
<1>1. DesktopKept'
  <2>1. UNCHANGED <<screens, local>>
    BY PushIsSession DEF desktop
  <2> QED BY <2>1 DEF PushInv, DesktopKept, Distinct, HomeIsLocal
<1>2. ScaleKept'
  BY ScaleHolds DEF PushInv
<1>3. HoldTyped' /\ HoldInv'
  <2>1. CASE hold' = {}
    BY <2>1 DEF HoldTyped, HoldInv
  <2>2. CASE UNCHANGED pvars \/ ((\E g \in Gains : SetGain(g)) /\ UNCHANGED hold)
    <3>1. UNCHANGED <<screens, mode, cursor, gain_rem, pushing, remote_pushing, remote_beacon_at, hold>>
      BY <2>2 DEF pvars, vars, desktop, near_latches, far_latches, motion_scale, SetGain
    <3> QED
      BY <3>1 DEF PushInv, HoldTyped, HoldInv, AtEdge, CursorOnScreen, CarriedTowards, InProgress
  <2>3. CASE \E m \in Deltas : Motion(m) /\ hold' = IF mode' = mode THEN Held(m) ELSE {}
    BY <2>3, MotionHolds
  <2>4. CASE Tick /\ hold' = HeldTick
    BY <2>4, TickHolds
  <2> QED BY <2>1, <2>2, <2>3, <2>4 DEF PushNext
<1> QED BY <1>1, <1>2, <1>3 DEF PushInv

\* A user whose motion has pressed an edge in every tick of twice the fallback delay,
\* with no beacon, crosses it on the next push, whatever the gain from 1 up
\* (handle_local_motion, handle_remote_motion; EDGE_PUSH_FALLBACK is 150 ms and
\* REMOTE_BEACON_FRESH 120 ms).  Below 1 it fails: a motion that scales to no pixel
\* starts the fallback over.
THEOREM PushTheorem ==
  ASSUME HomeIsDisplay, \A config \in Configs : Len(config) <= MAX_ID + 1,
         \A g \in Gains : GAIN_DEN <= g, PUSH_FALLBACK > 0, BEACON_FRESH <= HOLD_LIMIT
  PROVE  PushSpec => SustainedPushCrosses
<1>1. PushSpec => Spec
  <2>1. PushInit => Init
    BY DEF PushInit
  <2>2. [PushNext]_pvars => [Next]_vars
    BY PushIsSession
  <2> QED BY <2>1, <2>2, PTL DEF PushSpec, Spec
<1>2. PushInit => PushInv
  BY InitPush
<1>3. PushInv /\ TypeInv /\ Inv /\ HomeCursorOnScreen /\ [PushNext]_pvars => PushInv'
  BY StepPush
<1>4. DesktopKept /\ Inv => HomeUnmoved
  BY KeptIsUnmoved DEF DesktopKept
<1>5. DesktopKept /\ [PushNext]_pvars => DesktopKept'
  <2> SUFFICES ASSUME DesktopKept, [PushNext]_pvars PROVE DesktopKept'
    OBVIOUS
  <2>1. UNCHANGED <<screens, local>>
    BY PushIsSession DEF desktop
  <2> QED BY <2>1 DEF DesktopKept, Distinct, HomeIsLocal
<1>6. PushInv => DesktopKept
  BY DEF PushInv
<1>7. PushInv /\ TypeInv /\ Inv /\ HomeCursorOnScreen =>
        [mode' = mode => \A m \in Deltas :
           ~ /\ \E h \in hold : /\ Presses(m, h.dir)
                                /\ h.age = HOLD_LIMIT
                                /\ Crossing(mode, h.dir, cursor) # {}
             /\ Motion(m)]_pvars
  <2> SUFFICES ASSUME PushInv, TypeInv, Inv, HomeCursorOnScreen, mode' = mode,
                      NEW m \in Deltas, Motion(m), NEW h \in hold, Presses(m, h.dir),
                      h.age = HOLD_LIMIT, Crossing(mode, h.dir, cursor) # {}
               PROVE  FALSE
    OBVIOUS
  <2>1. /\ HOLD_LIMIT \in Nat /\ HOLD_LIMIT >= 2 /\ HOLD_LIMIT - 1 >= PUSH_FALLBACK
        /\ BEACON_FRESH \in Nat /\ PUSH_FALLBACK \in Nat
    BY TickAssumption DEF HOLD_LIMIT
  <2>2. /\ AtEdge(h.dir) /\ CursorOnScreen
        /\ mode # HOME => CarriedTowards(h.dir)
        /\ \A age \in remote_beacon_at : AtMost(BEACON_FRESH, h.age) <= age
        /\ \/ h.age = 0
           \/ h.age = 1 /\ ~h.moved
           \/ \E p \in InProgress : p.dir = h.dir /\ AtMost(PUSH_FALLBACK, h.age - 1) <= p.age
    BY DEF PushInv, HoldInv
  <2>3. h.dir \in Directions
    BY DEF PushInv, HoldTyped
  <2>4. ~BeaconIsFresh
    <3>1. AtMost(BEACON_FRESH, h.age) = BEACON_FRESH
      BY <2>1 DEF AtMost
    <3>2. \A age \in remote_beacon_at : age \in Nat
      BY DEF TypeInv, LatchesTyped
    <3> QED BY <2>1, <2>2, <3>1, <3>2 DEF BeaconIsFresh
  <2>5. Sustained(InProgress, h.dir)
    <3>1. AtMost(PUSH_FALLBACK, h.age - 1) = PUSH_FALLBACK
      BY <2>1 DEF AtMost
    <3>2. h.age # 0 /\ h.age # 1
      BY <2>1
    <3> QED BY <2>2, <3>1, <3>2 DEF Sustained
  <2> QED BY <2>2, <2>3, <2>4, <2>5, PressHeld DEF PushInv
<1> QED
  BY <1>1, <1>2, <1>3, <1>4, <1>5, <1>6, <1>7, InvHolds, TypesHold, HomeTheorem, PTL
     DEF PushSpec, SustainedPushCrosses
=============================================================================
