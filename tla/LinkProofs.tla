----------------------------- MODULE LinkProofs -----------------------------
(***************************************************************************)
(* Proofs about Link, for any size of the sequence space, any queue and    *)
(* any number of connections.                                              *)
(*                                                                         *)
(* Numbers compare as they would if they did not wrap as long as less than *)
(* half the space lies between them (NewerIsGreater).  Following and       *)
(* Tracking say what the two receivers of datagrams remember; Framing says *)
(* that queue, stream and buffer together hold the frames the client still *)
(* has to hear, one after the other.                                       *)
(***************************************************************************)
EXTENDS Link, TLAPS

-----------------------------------------------------------------------------
(* Wrapping numbers *)

\* A quotient and a remainder determine each other.
LEMMA ModUnique ==
  ASSUME NEW S \in Nat \ {0}, NEW a \in Int, NEW r \in 0..S-1, NEW q \in Int, a = q * S + r
  PROVE  a % S = r
OBVIOUS

\* Every number has a quotient and a remainder.
LEMMA ModDef ==
  ASSUME NEW S \in Nat \ {0}, NEW a \in Int
  PROVE  a % S \in 0..S-1 /\ \E q \in Int : a = q * S + (a % S)
<1>1. a % S \in 0..S-1 /\ a \div S \in Int
  OBVIOUS
<1>2. a = (a \div S) * S + (a % S)
  OBVIOUS
<1> QED BY <1>1, <1>2

LEMMA HalfOfSpace == Space \in Nat \ {0} /\ Half \in Nat \ {0} /\ Space = 2 * Half
BY LinkAssumption DEF Half

\* The wrapped difference of two numbers is the way from the older to the newer.
LEMMA ForwardIsDistance ==
  ASSUME NEW a \in Int, NEW b \in Int, a - b < Half, b - a < Half
  PROVE  Forward(a % Space, b % Space) = IF a >= b THEN a - b ELSE a - b + Space
<1>1. PICK x \in 0..Space-1, p \in Int : x = a % Space /\ a = p * Space + x
  <2>1. Space \in Nat \ {0}
    BY HalfOfSpace
  <2>2. a % Space \in 0..Space-1 /\ \E p \in Int : a = p * Space + (a % Space)
    BY <2>1, ModDef
  <2> QED BY <2>2
<1>2. PICK y \in 0..Space-1, q \in Int : y = b % Space /\ b = q * Space + y
  <2>1. Space \in Nat \ {0}
    BY HalfOfSpace
  <2>2. b % Space \in 0..Space-1 /\ \E q \in Int : b = q * Space + (b % Space)
    BY <2>1, ModDef
  <2> QED BY <2>2
<1>3. x - y + Space \in Int /\ Space \in Int /\ q - p \in Int /\ q - p + 1 \in Int
  BY HalfOfSpace
<1>4. CASE a >= b
  <2>1. x - y + Space = (q - p + 1) * Space + (a - b)
    BY <1>1, <1>2, HalfOfSpace
  <2>2. a - b \in 0..Space-1
    BY <1>4, HalfOfSpace
  <2>3. (x - y + Space) % Space = a - b
    BY <1>3, <2>1, <2>2, ModUnique, HalfOfSpace
  <2> QED BY <1>1, <1>2, <1>4, <2>3 DEF Forward
<1>5. CASE a < b
  <2>1. x - y + Space = (q - p) * Space + (a - b + Space)
    BY <1>1, <1>2, HalfOfSpace
  <2>2. a - b + Space \in 0..Space-1
    BY <1>5, HalfOfSpace
  <2>3. (x - y + Space) % Space = a - b + Space
    BY <1>3, <2>1, <2>2, ModUnique, HalfOfSpace
  <2> QED BY <1>1, <1>2, <1>5, <2>3 DEF Forward
<1> QED BY <1>4, <1>5

\* is_newer (udp.rs:71-73) tells the greater of two numbers by their remainders.
LEMMA NewerIsGreater ==
  ASSUME NEW a \in Int, NEW b \in Int, a - b < Half, b - a < Half
  PROVE  IsNewer(a % Space, b % Space) <=> a > b
<1>1. PICK x \in 0..Space-1 : x = a % Space
  BY ModDef, HalfOfSpace
<1>2. PICK y \in 0..Space-1 : y = b % Space
  BY ModDef, HalfOfSpace
<1>3. Forward(x, y) = IF a >= b THEN a - b ELSE a - b + Space
  BY <1>1, <1>2, ForwardIsDistance
<1>4. x = y => Forward(x, y) = 0
  <2>1. Space = 1 * Space + 0 BY HalfOfSpace
  <2>2. Space % Space = 0 BY <2>1, ModUnique, HalfOfSpace
  <2> QED BY <2>2, HalfOfSpace DEF Forward
<1>5. a > b => x # y
  BY <1>3, <1>4
<1>6. Forward(x, y) < Half <=> a >= b
  BY <1>3, HalfOfSpace
<1>7. a = b => x = y
  BY <1>1, <1>2
<1> QED BY <1>1, <1>2, <1>5, <1>6, <1>7 DEF IsNewer

-----------------------------------------------------------------------------
(* The types *)

Datagrams == [port : Nat, n : Nat]

\* Nothing on its way, and no address, is of a connection still to come.
Typed ==
  /\ conn \in Nat /\ addr \in 0 .. conn
  /\ sent \in Nat /\ moved \in Nat /\ newest \in Nat /\ beacons \in Nat
  /\ tracker \in Nat /\ latest \in Nat
  /\ downNet \subseteq Datagrams /\ upNet \subseteq Datagrams
  /\ rx \in {Idle} \cup [state : {"checked", "learned", "fresh"}, d : Datagrams]
  /\ \A d \in downNet \cup upNet : d.port <= conn
  /\ rx # Idle => rx.d.port <= conn

LEMMA TypedInit == Init => Typed
BY HalfOfSpace DEF Init, Typed, Datagrams, Idle, None

LEMMA TypedNext == Typed /\ [Next]_vars => Typed'
<1> SUFFICES ASSUME Typed, [Next]_vars PROVE Typed'
  OBVIOUS
<1> USE DEF Typed, Datagrams, Idle, None, session, tcp, down, up
<1>1. CASE EnqueueFrame BY <1>1 DEF EnqueueFrame, Sends
<1>2. CASE EnqueueMotion BY <1>2 DEF EnqueueMotion
<1>3. CASE WriteFrame BY <1>3 DEF WriteFrame
<1>4. CASE WriteMotion BY <1>4 DEF WriteMotion
<1>5. CASE Recv BY <1>5 DEF Recv
<1>6. CASE Read BY <1>6 DEF Read
<1>7. CASE ReceiveMotion BY <1>7, HalfOfSpace DEF ReceiveMotion
<1>8. CASE LoseMotion BY <1>8 DEF LoseMotion
<1>9. CASE Beacon BY <1>9 DEF Beacon
<1>10. CASE LoseBeacon BY <1>10 DEF LoseBeacon
<1>11. CASE Check BY <1>11 DEF Check
<1>12. CASE Learn BY <1>12 DEF Learn, Adopt
<1>13. CASE Filter
  <2>1. rx.d.n % Space \in Nat BY <1>13, HalfOfSpace DEF Filter
  <2> QED BY <1>13, <2>1 DEF Filter
<1>14. CASE Apply BY <1>14 DEF Apply
<1>15. CASE Connect BY <1>15 DEF Connect
<1>16. CASE Register BY <1>16 DEF Register
<1>17. CASE Unregister BY <1>17 DEF Unregister
<1>18. CASE UNCHANGED vars BY <1>18 DEF vars
<1> QED
  BY <1>1, <1>2, <1>3, <1>4, <1>5, <1>6, <1>7, <1>8, <1>9, <1>10, <1>11, <1>12, <1>13, <1>14,
     <1>15, <1>16, <1>17, <1>18 DEF Next

-----------------------------------------------------------------------------
(* The motion, on the client *)

\* The client has followed the newest motion it received, and compares with the
\* remainder of its number; what is on its way to it is no newer than the last sent.
Following ==
  /\ moved = newest /\ moved <= sent /\ sent - moved < Half
  /\ motion_seq = moved % Space
  /\ \A d \in downNet : d.port = conn => d.n <= sent

LEMMA FollowingInit == Init => Following
<1> SUFFICES ASSUME Init PROVE Following
  OBVIOUS
<1>1. PICK n \in {0, Space - 2} :
        sent = n /\ motion_seq = n /\ moved = n /\ newest = n
  BY DEF Init
<1>2. n \in 0 .. Space - 1 /\ n = 0 * Space + n
  BY HalfOfSpace
<1>3. n % Space = n
  BY <1>2, ModUnique, HalfOfSpace
<1> QED BY <1>1, <1>2, <1>3, HalfOfSpace DEF Init, Following

LEMMA FollowingNext == Typed /\ Following /\ [Next]_vars => Following'
<1> SUFFICES ASSUME Typed, Following, [Next]_vars PROVE Following'
  OBVIOUS
<1> USE DEF Following
<1>1. CASE UNCHANGED <<conn, down>>
  BY <1>1 DEF down
<1>2. CASE WriteMotion
  BY <1>2, HalfOfSpace DEF WriteMotion, Typed, Datagrams, session, None
<1>3. CASE ReceiveMotion
  <2>1. PICK d \in downNet :
          /\ d.port = conn /\ sent - d.n < Half
          /\ downNet' \in {downNet, downNet \ {d}}
          /\ newest' = IF d.n > newest THEN d.n ELSE newest
          /\ IF IsNewer(d.n % Space, motion_seq)
               THEN motion_seq' = d.n % Space /\ moved' = d.n
               ELSE UNCHANGED <<motion_seq, moved>>
          /\ UNCHANGED <<conn, sent>>
    BY <1>3 DEF ReceiveMotion, session
  <2>2. d.n \in Int /\ d.n <= sent /\ moved \in Int /\ sent \in Int
    BY <2>1 DEF Typed, Datagrams
  <2>3. d.n - moved < Half /\ moved - d.n < Half
    BY <2>1, <2>2, HalfOfSpace
  <2>4. IsNewer(d.n % Space, moved % Space) <=> d.n > moved
    BY <2>2, <2>3, NewerIsGreater
  <2> QED BY <2>1, <2>2, <2>4, HalfOfSpace DEF Typed
<1>4. CASE LoseMotion
  BY <1>4 DEF LoseMotion, session
<1>5. CASE Connect
  <2>1. 0 % Space = 0
    BY HalfOfSpace
  <2>2. \A d \in downNet : d.port # conn + 1
    BY DEF Typed, Datagrams
  <2> QED BY <1>5, <2>1, <2>2, HalfOfSpace DEF Connect
<1> QED
  BY <1>1, <1>2, <1>3, <1>4, <1>5 DEF Next, EnqueueFrame, EnqueueMotion, WriteFrame, Recv, Read,
     Beacon, LoseBeacon, Check, Learn, Filter, Apply, Register, Unregister, session, vars

\* After each datagram the client's cursor has followed the newest motion of the
\* connection: the filter of udp.rs:71-73 in front of the motion command never lets
\* an older one through and never refuses a newer one, over the wrap and over a
\* reconnection.
THEOREM NewestTheorem == Spec => []CursorFollowsNewest
<1>1. Init => Typed /\ Following
  BY TypedInit, FollowingInit
<1>2. Typed /\ Following /\ [Next]_vars => (Typed /\ Following)'
  BY TypedNext, FollowingNext
<1>3. Following => CursorFollowsNewest
  BY DEF Following, CursorFollowsNewest
<1> QED BY <1>1, <1>2, <1>3, PTL DEF Spec

-----------------------------------------------------------------------------
(* The beacons, on the server *)

\* What the tracker remembers is the newest number from the port learned; without
\* a port it remembers nothing; a datagram past the first lock has its port learned.
Tracking ==
  /\ beacons < Half /\ tracker < Half /\ tracker = latest
  /\ \A d \in upNet : d.port # None /\ d.n < Half
  /\ rx # Idle => rx.d.port # None /\ rx.d.n < Half
  /\ addr = None => tracker = None
  /\ rx.state = "learned" => addr # None

LEMMA TrackingInit == Init => Tracking
BY HalfOfSpace DEF Init, Tracking, Idle, None

\* Past the second lock, the numbers compare like the numbers themselves.
LEMMA FilterTakesNewer ==
  ASSUME Typed, Tracking, rx.state = "learned"
  PROVE  /\ rx.d.n \in Nat /\ rx.d.n % Space = rx.d.n
         /\ IsNewer(rx.d.n % Space, tracker) <=> rx.d.n > latest
<1>1. rx.d.n \in Nat /\ rx.d.n < Half
  BY DEF Typed, Tracking, Datagrams, Idle
<1>2. tracker \in Nat /\ tracker < Half
  BY DEF Typed, Tracking
<1>3. rx.d.n % Space = rx.d.n /\ tracker % Space = tracker
  <2>1. \A n \in Nat : n < Half => n % Space = n
    <3> SUFFICES ASSUME NEW n \in Nat, n < Half PROVE n % Space = n
      OBVIOUS
    <3>1. n \in 0 .. Space - 1 /\ n = 0 * Space + n
      BY HalfOfSpace
    <3> QED BY <3>1, ModUnique, HalfOfSpace
  <2> QED BY <1>1, <1>2, <2>1
<1>4. IsNewer(rx.d.n % Space, tracker % Space) <=> rx.d.n > tracker
  BY <1>1, <1>2, NewerIsGreater, HalfOfSpace
<1> QED BY <1>1, <1>3, <1>4 DEF Tracking

LEMMA TrackingNext ==
  ASSUME ~TornBetween
  PROVE  Typed /\ Tracking /\ [Next]_vars => Tracking'
<1> SUFFICES ASSUME Typed, Tracking, [Next]_vars PROVE Tracking'
  OBVIOUS
<1> USE DEF Tracking, None, Idle
<1>1. CASE UNCHANGED up
  BY <1>1 DEF up
<1>2. CASE Beacon
  BY <1>2, HalfOfSpace DEF Beacon
<1>3. CASE LoseBeacon
  BY <1>3 DEF LoseBeacon
<1>4. CASE Check
  BY <1>4 DEF Check
<1>5. CASE Learn
  BY <1>5, HalfOfSpace DEF Learn, Adopt, Typed, Datagrams
<1>6. CASE Filter
  BY <1>6, FilterTakesNewer DEF Filter, Typed
<1>7. CASE Apply
  BY <1>7 DEF Apply
<1>8. CASE Connect
  BY <1>8, HalfOfSpace DEF Connect, Typed
<1>9. CASE Unregister
  BY <1>9, HalfOfSpace DEF Unregister
<1> QED
  BY <1>1, <1>2, <1>3, <1>4, <1>5, <1>6, <1>7, <1>8, <1>9 DEF Next, EnqueueFrame, EnqueueMotion,
     WriteFrame, WriteMotion, Recv, Read, ReceiveMotion, LoseMotion, Register, vars, up

\* A beacon reaches the session exactly when it is newer than all that came from its
\* port since the port was learned (server/udp.rs:145-165): the tracker starts from
\* nothing whenever another port takes the address.  The hypothesis is needed: when
\* an unregistration comes between the locks of the receiver, its tracker keeps a
\* number of a connection that is gone, and a live one is judged stale.
THEOREM FreshTheorem == ASSUME ~TornBetween PROVE Spec => FreshBeaconsPass
<1>1. Init => Typed /\ Tracking
  BY TypedInit, TrackingInit
<1>2. Typed /\ Tracking /\ [Next]_vars => (Typed /\ Tracking)'
  BY TypedNext, TrackingNext
<1>3. Typed /\ Tracking /\ [Next]_vars =>
        [rx.state = "learned" /\ rx' # rx => (rx'.state = "fresh" <=> rx.d.n > latest)]_vars
  <2> SUFFICES ASSUME Typed, Tracking, [Next]_vars, rx.state = "learned", rx' # rx
               PROVE  rx'.state = "fresh" <=> rx.d.n > latest
    OBVIOUS
  <2>1. Filter
    BY DEF Next, EnqueueFrame, EnqueueMotion, WriteFrame, WriteMotion, Recv, Read, ReceiveMotion,
       LoseMotion, Beacon, LoseBeacon, Check, Learn, Apply, Connect, Register, Unregister, vars, up,
       Idle
  <2> QED BY <2>1, FilterTakesNewer DEF Filter, Typed, Idle
<1> QED BY <1>1, <1>2, <1>3, PTL DEF Spec, FreshBeaconsPass

-----------------------------------------------------------------------------
(* Sequences *)

LEMMA Appended ==
  ASSUME NEW S, NEW s \in Seq(S), NEW e \in S
  PROVE  /\ Append(s, e) \in Seq(S) /\ Len(Append(s, e)) = Len(s) + 1 /\ Len(s) \in Nat
         /\ \A i \in 1 .. Len(s) : Append(s, e)[i] = s[i]
         /\ Append(s, e)[Len(s) + 1] = e
OBVIOUS

LEMMA Dropped ==
  ASSUME NEW S, NEW s \in Seq(S), s # <<>>
  PROVE  /\ Tail(s) \in Seq(S) /\ Len(Tail(s)) = Len(s) - 1 /\ Len(s) \in Nat \ {0}
         /\ Head(s) = s[1] /\ s[1] \in S
         /\ \A i \in 1 .. Len(s) - 1 : Tail(s)[i] = s[i + 1]
OBVIOUS

LEMMA Concatenated ==
  ASSUME NEW S, NEW s \in Seq(S), NEW t \in Seq(S)
  PROVE  /\ s \o t \in Seq(S) /\ Len(s \o t) = Len(s) + Len(t)
         /\ \A i \in 1 .. Len(s) : (s \o t)[i] = s[i]
         /\ \A i \in 1 .. Len(t) : (s \o t)[Len(s) + i] = t[i]
OBVIOUS

LEMMA Rest ==
  ASSUME NEW S, NEW s \in Seq(S), NEW k \in Nat, k <= Len(s)
  PROVE  LET rest == SubSeq(s, k + 1, Len(s)) IN
         /\ rest \in Seq(S) /\ Len(rest) = Len(s) - k
         /\ \A i \in 1 .. Len(rest) : k + i \in 1 .. Len(s) /\ rest[i] = s[k + i]
OBVIOUS

-----------------------------------------------------------------------------
(* The outbound queue *)

\* Of the frames low+1 .. high, and of no others, the queue holds each, in order.
Queued(low, q, high) ==
  /\ low <= high
  /\ \A i \in 1 .. Len(q) : q[i] # None => low < q[i] /\ q[i] <= high
  /\ \A i, j \in 1 .. Len(q) : i < j /\ q[i] # None /\ q[j] # None => q[i] < q[j]
  /\ \A n \in low + 1 .. high : \E i \in 1 .. Len(q) : q[i] = n

\* A frame that is accepted is the next one.
LEMMA QueuedFrame ==
  ASSUME NEW low \in Nat, NEW high \in Nat, NEW q \in Seq(Nat), Queued(low, q, high)
  PROVE  Queued(low, Append(q, high + 1), high + 1)
<1> DEFINE p == Append(q, high + 1)
<1>1. /\ Len(p) = Len(q) + 1 /\ Len(q) \in Nat
      /\ \A i \in 1 .. Len(q) : p[i] = q[i] /\ q[i] \in Nat
      /\ p[Len(q) + 1] = high + 1
  BY Appended
<1> HIDE DEF p
<1>2. \A i \in 1 .. Len(p) : i \in 1 .. Len(q) \/ i = Len(q) + 1
  BY <1>1
<1>3. \A i \in 1 .. Len(p) : p[i] # None => low < p[i] /\ p[i] <= high + 1
  BY <1>1, <1>2 DEF Queued
<1>4. \A i, j \in 1 .. Len(p) : i < j /\ p[i] # None /\ p[j] # None => p[i] < p[j]
  <2> SUFFICES ASSUME NEW i \in 1 .. Len(p), NEW j \in 1 .. Len(p), i < j, p[i] # None, p[j] # None
               PROVE  p[i] < p[j]
    OBVIOUS
  <2>1. i \in 1 .. Len(q) /\ p[i] = q[i] /\ q[i] \in Nat /\ q[i] <= high
    BY <1>1 DEF Queued
  <2>2. CASE j \in 1 .. Len(q)
    BY <1>1, <2>1, <2>2 DEF Queued
  <2>3. CASE j = Len(q) + 1
    BY <1>1, <2>1, <2>3
  <2> QED BY <1>2, <2>2, <2>3
<1>5. \A n \in low + 1 .. high + 1 : \E i \in 1 .. Len(p) : p[i] = n
  <2> SUFFICES ASSUME NEW n \in low + 1 .. high + 1 PROVE \E i \in 1 .. Len(p) : p[i] = n
    OBVIOUS
  <2>1. CASE n = high + 1
    BY <1>1, <2>1
  <2>2. CASE n # high + 1
    <3>1. PICK i \in 1 .. Len(q) : q[i] = n
      BY <2>2 DEF Queued
    <3> QED BY <1>1, <3>1
  <2> QED BY <2>1, <2>2
<1>6. low <= high + 1
  BY DEF Queued
<1>7. Queued(low, p, high + 1)
  BY <1>3, <1>4, <1>5, <1>6 DEF Queued
<1> QED BY <1>7 DEF p

\* Motion has no place in the order ...
LEMMA QueuedMotion ==
  ASSUME NEW low \in Nat, NEW high \in Nat, NEW q \in Seq(Nat), Queued(low, q, high)
  PROVE  Queued(low, Append(q, None), high)
<1> DEFINE p == Append(q, None)
<1>1. /\ Len(p) = Len(q) + 1 /\ Len(q) \in Nat
      /\ \A i \in 1 .. Len(q) : p[i] = q[i]
      /\ p[Len(q) + 1] = None
  BY Appended DEF None
<1> HIDE DEF p
<1>2. \A i \in 1 .. Len(p) : p[i] # None => i \in 1 .. Len(q)
  BY <1>1
<1>3. \A n \in low + 1 .. high : \E i \in 1 .. Len(p) : p[i] = n
  <2> SUFFICES ASSUME NEW n \in low + 1 .. high PROVE \E i \in 1 .. Len(p) : p[i] = n
    OBVIOUS
  <2>1. PICK i \in 1 .. Len(q) : q[i] = n
    BY DEF Queued
  <2> QED BY <1>1, <2>1
<1>4. \A i \in 1 .. Len(p) : p[i] # None => low < p[i] /\ p[i] <= high
  BY <1>1, <1>2 DEF Queued
<1>5. \A i, j \in 1 .. Len(p) : i < j /\ p[i] # None /\ p[j] # None => p[i] < p[j]
  BY <1>1, <1>2 DEF Queued
<1> QED BY <1>3, <1>4, <1>5 DEF Queued, p

\* ... and leaves none.
LEMMA DequeuedMotion ==
  ASSUME NEW low \in Nat, NEW high \in Nat, NEW q \in Seq(Nat), Queued(low, q, high),
         q # <<>>, Head(q) = None
  PROVE  Queued(low, Tail(q), high)
<1> DEFINE p == Tail(q)
<1>1. /\ Len(p) = Len(q) - 1 /\ Len(q) \in Nat \ {0} /\ q[1] = None
      /\ \A i \in 1 .. Len(p) : p[i] = q[i + 1] /\ i + 1 \in 1 .. Len(q)
  BY Dropped
<1> HIDE DEF p
<1>2. \A n \in low + 1 .. high : \E i \in 1 .. Len(p) : p[i] = n
  <2> SUFFICES ASSUME NEW n \in low + 1 .. high PROVE \E i \in 1 .. Len(p) : p[i] = n
    OBVIOUS
  <2>1. PICK i \in 1 .. Len(q) : q[i] = n
    BY DEF Queued
  <2>2. i # 1
    BY <1>1, <2>1 DEF None
  <2>3. i - 1 \in 1 .. Len(p) /\ (i - 1) + 1 = i
    BY <1>1, <2>2
  <2> QED BY <1>1, <2>1, <2>3
<1>3. \A i \in 1 .. Len(p) : p[i] # None => low < p[i] /\ p[i] <= high
  BY <1>1 DEF Queued
<1>4. \A i, j \in 1 .. Len(p) : i < j /\ p[i] # None /\ p[j] # None => p[i] < p[j]
  <2> SUFFICES ASSUME NEW i \in 1 .. Len(p), NEW j \in 1 .. Len(p), i < j, p[i] # None, p[j] # None
               PROVE  p[i] < p[j]
    OBVIOUS
  <2>1. i + 1 < j + 1
    OBVIOUS
  <2>2. p[i] = q[i + 1] /\ p[j] = q[j + 1] /\ i + 1 \in 1 .. Len(q) /\ j + 1 \in 1 .. Len(q)
    BY <1>1, Zenon
  <2>3. q[i + 1] # None /\ q[j + 1] # None => q[i + 1] < q[j + 1]
    BY <2>1, <2>2 DEF Queued
  <2> QED BY <2>2, <2>3
<1> QED BY <1>2, <1>3, <1>4 DEF Queued, p

\* What leaves the queue is the next frame, and the queue is left without it.
LEMMA DequeuedFrame ==
  ASSUME NEW low \in Nat, NEW high \in Nat, NEW q \in Seq(Nat), Queued(low, q, high),
         q # <<>>, Head(q) # None
  PROVE  Head(q) = low + 1 /\ Queued(low + 1, Tail(q), high)
<1> DEFINE p == Tail(q)
<1>1. /\ Len(p) = Len(q) - 1 /\ Len(q) \in Nat \ {0} /\ q[1] # None /\ q[1] \in Nat /\ Head(q) = q[1]
      /\ \A i \in 1 .. Len(p) : p[i] = q[i + 1] /\ i + 1 \in 1 .. Len(q) /\ q[i + 1] \in Nat
  BY Dropped
<1> HIDE DEF p
<1>2. 1 \in 1 .. Len(q) /\ low < q[1] /\ q[1] <= high
  BY <1>1 DEF Queued
<1>3. q[1] = low + 1
  <2>1. low + 1 \in low + 1 .. high
    BY <1>1, <1>2
  <2>2. PICK i \in 1 .. Len(q) : q[i] = low + 1
    BY <2>1 DEF Queued
  <2>3. i # 1 => q[1] < q[i]
    BY <1>1, <1>2, <2>2 DEF Queued, None
  <2> QED BY <1>1, <1>2, <2>2, <2>3
<1>4. \A n \in (low + 1) + 1 .. high : \E i \in 1 .. Len(p) : p[i] = n
  <2> SUFFICES ASSUME NEW n \in (low + 1) + 1 .. high PROVE \E i \in 1 .. Len(p) : p[i] = n
    OBVIOUS
  <2>1. PICK i \in 1 .. Len(q) : q[i] = n
    BY DEF Queued
  <2>2. i # 1
    BY <1>3, <2>1
  <2>3. i - 1 \in 1 .. Len(p) /\ (i - 1) + 1 = i
    BY <1>1, <2>2
  <2> QED BY <1>1, <2>1, <2>3
<1>5. \A i \in 1 .. Len(p) : p[i] # None => low + 1 < p[i] /\ p[i] <= high
  <2> SUFFICES ASSUME NEW i \in 1 .. Len(p), p[i] # None PROVE low + 1 < p[i] /\ p[i] <= high
    OBVIOUS
  <2>1. 1 < i + 1 /\ p[i] = q[i + 1] /\ i + 1 \in 1 .. Len(q)
    BY <1>1
  <2>2. q[1] < q[i + 1]
    BY <1>1, <1>2, <2>1 DEF Queued
  <2> QED BY <1>3, <2>1, <2>2 DEF Queued
<1>6. \A i, j \in 1 .. Len(p) : i < j /\ p[i] # None /\ p[j] # None => p[i] < p[j]
  <2> SUFFICES ASSUME NEW i \in 1 .. Len(p), NEW j \in 1 .. Len(p), i < j, p[i] # None, p[j] # None
               PROVE  p[i] < p[j]
    OBVIOUS
  <2>1. i + 1 < j + 1
    OBVIOUS
  <2>2. p[i] = q[i + 1] /\ p[j] = q[j + 1] /\ i + 1 \in 1 .. Len(q) /\ j + 1 \in 1 .. Len(q)
    BY <1>1, Zenon
  <2>3. q[i + 1] # None /\ q[j + 1] # None => q[i + 1] < q[j + 1]
    BY <2>1, <2>2 DEF Queued
  <2> QED BY <2>2, <2>3
<1>7. low + 1 <= high
  BY <1>2, <1>3
<1> QED BY <1>1, <1>3, <1>4, <1>5, <1>6, <1>7 DEF Queued, p
-----------------------------------------------------------------------------
(* The reliable stream *)

Pieces == [part : {"header", "body"}, n : Nat]

\* The place-th piece of a stream from which h frames were taken.
Piece(h, place) ==
  [part |-> IF place % 2 = 1 THEN "header" ELSE "body", n |-> h + ((place + 1) \div 2)]

\* What was written and not heard yet are the pieces of the next frames, in order;
\* what was accepted and not written yet is in the queue.
Framed(w) ==
  /\ Len(buf) + Len(stream) = 2 * w
  /\ Queued(heard + w, queue, accepted)

Framing ==
  /\ accepted \in Nat /\ heard \in Nat
  /\ buf \in Seq(Pieces) /\ stream \in Seq(Pieces) /\ queue \in Seq(Nat)
  /\ \A i \in 1 .. Len(buf) : buf[i] = Piece(heard, i)
  /\ \A i \in 1 .. Len(stream) : stream[i] = Piece(heard, Len(buf) + i)
  /\ \E w \in Nat : Framed(w)

LEMMA PieceFacts ==
  ASSUME NEW h \in Nat, NEW w \in Nat
  PROVE  /\ Piece(h, 2 * w + 1) = [part |-> "header", n |-> h + w + 1]
         /\ Piece(h, 2 * w + 2) = [part |-> "body", n |-> h + w + 1]
BY DEF Piece

LEMMA PieceAfterFrame ==
  ASSUME NEW h \in Nat, NEW i \in Nat
  PROVE  Piece(h, i + 2) = Piece(h + 1, i)
BY DEF Piece

\* The transport finds nothing, or the frame after the last one: the buffer never
\* starts with anything but a header.
LEMMA DecodesNext ==
  ASSUME Framing
  PROVE  \/ TryDecode(buf) = Nothing(buf)
         \/ /\ Len(buf) >= 2
            /\ TryDecode(buf) = [frame |-> heard + 1, rest |-> SubSeq(buf, 3, Len(buf))]
<1>1. CASE buf = <<>>
  BY <1>1 DEF TryDecode, Nothing
<1>2. CASE buf # <<>>
  <2>1. 1 \in 1 .. Len(buf) /\ Len(buf) \in Nat
    BY <1>2 DEF Framing
  <2>2. buf[1] = Piece(heard, 2 * 0 + 1) /\ heard \in Nat
    BY <2>1 DEF Framing
  <2>3. buf[1] = [part |-> "header", n |-> heard + 0 + 1]
    BY <2>2, PieceFacts
  <2>4. buf[1].part = "header" /\ buf[1].n = heard + 1
    BY <2>2, <2>3
  <2> QED BY <1>2, <2>1, <2>4 DEF TryDecode
<1> QED BY <1>1, <1>2

LEMMA FramingInit == Init => Framing
<1> SUFFICES ASSUME Init PROVE Framing
  OBVIOUS
<1>1. Framed(0)
  BY DEF Init, Framed, Queued
<1> QED BY <1>1 DEF Init, Framing

LEMMA FramingNext == Framing /\ [Next]_vars => Framing'
<1> SUFFICES ASSUME Framing, [Next]_vars PROVE Framing'
  OBVIOUS
<1>0. PICK w \in Nat : Framed(w)
  BY DEF Framing
<1>t. /\ w \in Nat /\ accepted \in Nat /\ heard \in Nat /\ heard + w \in Nat
      /\ buf \in Seq(Pieces) /\ Len(buf) \in Nat
      /\ stream \in Seq(Pieces) /\ Len(stream) \in Nat
      /\ queue \in Seq(Nat)
  BY <1>0 DEF Framing
<1>q. Queued(heard + w, queue, accepted) /\ Len(buf) + Len(stream) = 2 * w
  BY <1>0 DEF Framed
<1>n. w \in Nat /\ Len(buf) \in Nat /\ Len(stream) \in Nat
  BY <1>t
<1>e. Len(buf) + Len(stream) = 2 * w
  BY <1>q
<1>1. CASE UNCHANGED <<queue, tcp>>
  BY <1>1 DEF Framing, Framed, tcp
<1>2. CASE EnqueueFrame
  <2>1. CASE Len(queue) < Cap
    <3>1. /\ queue' = Append(queue, accepted + 1) /\ accepted' = accepted + 1
          /\ UNCHANGED <<stream, buf, heard>>
      BY <1>2, <2>1 DEF EnqueueFrame
    <3>2. Framed(w)'
      BY <1>t, <1>q, <3>1, QueuedFrame DEF Framed
    <3>3. queue' \in Seq(Nat) /\ accepted' \in Nat
      BY <1>t, <3>1
    <3> QED BY <3>1, <3>2, <3>3 DEF Framing
  <2>2. CASE ~(Len(queue) < Cap)
    BY <1>2, <2>2 DEF EnqueueFrame, Framing, Framed
  <2> QED BY <2>1, <2>2
<1>3. CASE EnqueueMotion
  <2>1. CASE Len(queue) < Cap
    <3>1. queue' = Append(queue, None) /\ UNCHANGED <<accepted, stream, buf, heard>>
      BY <1>3, <2>1 DEF EnqueueMotion, tcp
    <3>2. Framed(w)'
      BY <1>t, <1>q, <3>1, QueuedMotion DEF Framed
    <3>3. queue' \in Seq(Nat)
      BY <1>t, <3>1 DEF None
    <3> QED BY <3>1, <3>2, <3>3 DEF Framing
  <2>2. CASE ~(Len(queue) < Cap)
    BY <1>3, <2>2 DEF EnqueueMotion, Framing, Framed, tcp
  <2> QED BY <2>1, <2>2
<1>4. CASE WriteMotion
  <2>1. /\ queue # <<>> /\ Head(queue) = None /\ queue' = Tail(queue)
        /\ UNCHANGED <<accepted, stream, buf, heard>>
    BY <1>4 DEF WriteMotion, tcp
  <2>2. Framed(w)'
    BY <1>t, <1>q, <2>1, DequeuedMotion DEF Framed
  <2>3. queue' \in Seq(Nat)
    BY <1>t, <2>1
  <2> QED BY <2>1, <2>2, <2>3 DEF Framing
<1>5. CASE WriteFrame
  <2> DEFINE n == heard + w + 1
  <2>1. /\ queue # <<>> /\ Head(queue) # None /\ queue' = Tail(queue)
        /\ UNCHANGED <<accepted, buf, heard>>
        /\ stream' = stream \o <<[part |-> "header", n |-> Head(queue)],
                                 [part |-> "body", n |-> Head(queue)]>>
    BY <1>5 DEF WriteFrame
  <2>2. Head(queue) = n /\ Queued(heard + w + 1, Tail(queue), accepted)
    BY <1>t, <1>q, <2>1, DequeuedFrame
  <2>3. PICK frame \in Seq(Pieces) :
          /\ Len(frame) = 2 /\ stream' = stream \o frame
          /\ frame[1] = [part |-> "header", n |-> n] /\ frame[2] = [part |-> "body", n |-> n]
    <3> DEFINE f == <<[part |-> "header", n |-> n], [part |-> "body", n |-> n]>>
    <3>1. n \in Nat /\ f \in Seq(Pieces) /\ Len(f) = 2
      BY <1>t DEF Pieces
    <3> QED BY <2>1, <2>2, <3>1
  <2>5. /\ stream' \in Seq(Pieces) /\ Len(stream') = Len(stream) + 2
        /\ \A i \in 1 .. Len(stream) : stream'[i] = stream[i]
        /\ stream'[Len(stream) + 1] = frame[1]
        /\ stream'[Len(stream) + 2] = frame[2]
    <3>1. stream \in Seq(Pieces) /\ 1 \in 1 .. Len(frame) /\ 2 \in 1 .. Len(frame)
      BY <1>t, <2>3
    <3> DEFINE joined == stream \o frame
    <3>2. /\ joined \in Seq(Pieces) /\ Len(joined) = Len(stream) + Len(frame)
          /\ \A i \in 1 .. Len(stream) : joined[i] = stream[i]
          /\ \A i \in 1 .. Len(frame) : joined[Len(stream) + i] = frame[i]
      BY <3>1, Concatenated
    <3>3. stream' = joined /\ Len(frame) = 2
      BY <2>3
    <3> HIDE DEF joined
    <3> QED BY <3>1, <3>2, <3>3
  <2>6. frame[1] = Piece(heard, 2 * w + 1) /\ frame[2] = Piece(heard, 2 * w + 2)
    BY <1>t, <2>3, PieceFacts
  <2>7. Len(buf) + (Len(stream) + 1) = 2 * w + 1 /\ Len(buf) + (Len(stream) + 2) = 2 * w + 2
    BY <1>n, <1>e
  <2>8. \A i \in 1 .. Len(stream') : stream'[i] = Piece(heard, Len(buf) + i)
    <3> SUFFICES ASSUME NEW i \in 1 .. Len(stream') PROVE stream'[i] = Piece(heard, Len(buf) + i)
      OBVIOUS
    <3>1. i \in 1 .. Len(stream) \/ i = Len(stream) + 1 \/ i = Len(stream) + 2
      BY <1>t, <2>5
    <3>2. CASE i \in 1 .. Len(stream)
      BY <3>2, <2>5 DEF Framing
    <3>3. CASE i = Len(stream) + 1
      BY <3>3, <2>5, <2>6, <2>7, Zenon
    <3>4. CASE i = Len(stream) + 2
      BY <3>4, <2>5, <2>6, <2>7, Zenon
    <3> QED BY <3>1, <3>2, <3>3, <3>4
  <2>9. Framed(w + 1)'
    <3>1. Len(buf) + Len(stream') = 2 * (w + 1) /\ heard + (w + 1) = heard + w + 1
      BY <1>t, <1>n, <1>e, <2>5
    <3> QED BY <2>1, <2>2, <3>1 DEF Framed
  <2>10. queue' \in Seq(Nat)
    BY <1>t, <2>1
  <2>11. w + 1 \in Nat
    OBVIOUS
  <2>12. \A i \in 1 .. Len(buf) : buf[i] = Piece(heard, i)
    BY DEF Framing
  <2> QED BY <1>t, <2>1, <2>5, <2>8, <2>9, <2>10, <2>11, <2>12 DEF Framing
<1>6. CASE Recv
  <2>1. /\ heard' = TryDecode(buf).frame /\ buf' = TryDecode(buf).rest /\ TryDecode(buf).frame # None
        /\ UNCHANGED <<queue, accepted, stream>>
    BY <1>6 DEF Recv
  <2>2. Len(buf) >= 2 /\ heard' = heard + 1 /\ buf' = SubSeq(buf, 3, Len(buf))
    BY <2>1, DecodesNext DEF Nothing
  <2>3. /\ buf' \in Seq(Pieces) /\ Len(buf') = Len(buf) - 2
        /\ \A i \in 1 .. Len(buf') : buf'[i] = buf[i + 2]
    <3>1. LET rest == SubSeq(buf, 2 + 1, Len(buf)) IN
          /\ rest \in Seq(Pieces) /\ Len(rest) = Len(buf) - 2
          /\ \A i \in 1 .. Len(rest) : 2 + i \in 1 .. Len(buf) /\ rest[i] = buf[2 + i]
      <4>1. buf \in Seq(Pieces) /\ 2 \in Nat /\ 2 <= Len(buf)
        BY <1>t, <2>2
      <4> QED BY <4>1, Rest, Zenon
    <3>2. buf' = SubSeq(buf, 2 + 1, Len(buf))
      BY <2>2
    <3>3. Len(buf') \in Nat /\ \A i \in 1 .. Len(buf') : buf[i + 2] = buf[2 + i]
      BY <1>t, <3>1, <3>2
    <3> QED BY <3>1, <3>2, <3>3, Zenon
  <2>4. \A i \in 1 .. Len(buf') : buf'[i] = Piece(heard', i)
    <3> SUFFICES ASSUME NEW i \in 1 .. Len(buf') PROVE buf'[i] = Piece(heard', i)
      OBVIOUS
    <3>1. i \in Nat /\ i + 2 \in 1 .. Len(buf)
      BY <1>t, <2>2, <2>3
    <3>2. buf'[i] = Piece(heard, i + 2)
      BY <2>3, <3>1 DEF Framing
    <3> QED BY <1>t, <2>2, <3>1, <3>2, PieceAfterFrame
  <2>5. \A i \in 1 .. Len(stream) : stream[i] = Piece(heard', Len(buf') + i)
    <3> SUFFICES ASSUME NEW i \in 1 .. Len(stream) PROVE stream[i] = Piece(heard', Len(buf') + i)
      OBVIOUS
    <3>1. Len(buf') + i \in Nat /\ Len(buf) + i = (Len(buf') + i) + 2
      BY <1>t, <2>2, <2>3
    <3>2. stream[i] = Piece(heard, (Len(buf') + i) + 2)
      BY <3>1 DEF Framing
    <3> QED BY <1>t, <2>2, <3>1, <3>2, PieceAfterFrame
  <2>6. w - 1 \in Nat /\ heard' + (w - 1) = heard + w
    <3>1. w # 0
      BY <1>t, <1>q, <2>2
    <3> QED BY <1>t, <2>2, <3>1
  <2>7. Framed(w - 1)'
    <3>1. Len(buf') + Len(stream) = 2 * (w - 1)
      BY <1>t, <1>q, <2>3
    <3>2. Queued(heard' + (w - 1), queue', accepted')
      BY <1>q, <2>1, <2>6
    <3> QED BY <2>1, <3>1, <3>2 DEF Framed
  <2> QED BY <1>t, <2>1, <2>2, <2>3, <2>4, <2>5, <2>6, <2>7 DEF Framing
<1>7. CASE Read
  <2>1. PICK k \in DOMAIN stream :
          /\ buf' = TryDecode(buf).rest \o SubSeq(stream, 1, k)
          /\ stream' = SubSeq(stream, k + 1, Len(stream))
          /\ TryDecode(buf).frame = None
          /\ UNCHANGED <<queue, accepted, heard>>
    BY <1>7 DEF Read
  <2>2. TryDecode(buf).rest = buf
    BY <1>t, <2>1, DecodesNext DEF Nothing, None
  <2>3. k \in 1 .. Len(stream)
    BY <1>t
  <2> DEFINE taken == SubSeq(stream, 1, k)
  <2>4. /\ taken \in Seq(Pieces) /\ Len(taken) = k
        /\ \A i \in 1 .. k : taken[i] = stream[i]
    BY <1>t, <2>3
  <2>5. buf' = buf \o taken
    BY <2>1, <2>2
  <2> HIDE DEF taken
  <2>6. /\ buf' \in Seq(Pieces) /\ Len(buf') = Len(buf) + k
        /\ \A i \in 1 .. Len(buf) : buf'[i] = buf[i]
        /\ \A i \in 1 .. k : buf'[Len(buf) + i] = stream[i]
    BY <1>t, <2>3, <2>4, <2>5
  <2>7. /\ stream' \in Seq(Pieces) /\ Len(stream') = Len(stream) - k
        /\ \A i \in 1 .. Len(stream') : k + i \in 1 .. Len(stream) /\ stream'[i] = stream[k + i]
    <3>1. stream \in Seq(Pieces) /\ k \in Nat /\ k <= Len(stream)
      BY <1>t, <2>3
    <3> QED BY <2>1, <3>1, Rest, Zenon
  <2>8. \A i \in 1 .. Len(buf') : buf'[i] = Piece(heard, i)
    <3> SUFFICES ASSUME NEW i \in 1 .. Len(buf') PROVE buf'[i] = Piece(heard, i)
      OBVIOUS
    <3>1. CASE i \in 1 .. Len(buf)
      BY <2>6, <3>1 DEF Framing
    <3>2. CASE i \notin 1 .. Len(buf)
      <4>1. i - Len(buf) \in 1 .. k /\ i = Len(buf) + (i - Len(buf)) /\ i - Len(buf) \in 1 .. Len(stream)
        BY <1>t, <2>3, <2>6, <3>2
      <4> QED BY <2>6, <4>1 DEF Framing
    <3> QED BY <3>1, <3>2
  <2>9. \A i \in 1 .. Len(stream') : stream'[i] = Piece(heard, Len(buf') + i)
    <3> SUFFICES ASSUME NEW i \in 1 .. Len(stream') PROVE stream'[i] = Piece(heard, Len(buf') + i)
      OBVIOUS
    <3>1. stream'[i] = Piece(heard, Len(buf) + (k + i))
      BY <2>7 DEF Framing
    <3>2. Len(buf) + (k + i) = Len(buf') + i
      BY <1>t, <2>3, <2>6, <2>7
    <3> QED BY <3>1, <3>2
  <2>10. Framed(w)'
    BY <1>t, <1>q, <2>1, <2>3, <2>6, <2>7 DEF Framed
  <2> QED BY <1>t, <2>1, <2>6, <2>7, <2>8, <2>9, <2>10 DEF Framing
<1>8. CASE Connect
  <2>1. Framed(0)'
    BY <1>8 DEF Connect, Framed, Queued
  <2> QED BY <1>8, <2>1 DEF Connect, Framing
<1> QED
  BY <1>1, <1>2, <1>3, <1>4, <1>5, <1>6, <1>7, <1>8 DEF Next, ReceiveMotion, LoseMotion, Beacon,
     LoseBeacon, Check, Learn, Filter, Apply, Register, Unregister, vars

\* However the stream is cut, the client is given the accepted frames one after the
\* other, none twice and none left out: what follows a frame in the buffer is kept
\* (transport.rs:180-182), and what the queue is too full for never had a place.
THEOREM FramesTheorem == Spec => FramesInOrder
<1>1. Init => Typed /\ Framing
  BY TypedInit, FramingInit
<1>2. Typed /\ Framing /\ [Next]_vars => (Typed /\ Framing)'
  BY TypedNext, FramingNext
<1>3. Typed /\ Framing /\ [Next]_vars => [conn' = conn /\ heard' # heard => heard' = heard + 1]_vars
  <2> SUFFICES ASSUME Typed, Framing, [Next]_vars, conn' = conn, heard' # heard PROVE heard' = heard + 1
    OBVIOUS
  <2>1. Recv
    BY DEF Next, EnqueueFrame, EnqueueMotion, WriteFrame, WriteMotion, Read, ReceiveMotion,
       LoseMotion, Beacon, LoseBeacon, Check, Learn, Filter, Apply, Connect, Register, Unregister,
       vars, session, tcp, down, Typed
  <2> QED BY <2>1, DecodesNext DEF Recv, Nothing, Framing
<1> QED BY <1>1, <1>2, <1>3, PTL DEF Spec, FramesInOrder
=============================================================================
