--------------------------- MODULE CaptureProofs ---------------------------
(***************************************************************************)
(* Proofs about Capture, for any keyboards and any number of events and    *)
(* crossings.                                                              *)
(*                                                                         *)
(* GrabComes relates the commands that wait for the capture thread to what *)
(* the session wants, and its sleep to both.  Once says where a numbered   *)
(* press or release may still be: in X's queue or in the kernel's buffer,  *)
(* and never, while the reader forwards, in both.                          *)
(***************************************************************************)
EXTENDS Capture, TLAPS

\* The steps of the threads that leave the grab and the commands alone, and
\* those that leave the events alone.
Idles == UNCHANGED <<mode, cmds, cwake, pc, grabbed>>
Silent == UNCHANGED <<phase, isolated, rpc, reading, queues, made, reports>>

-----------------------------------------------------------------------------
(* Sequences *)

LEMMA Joined ==
  ASSUME NEW S, NEW s \in Seq(S), NEW c \in S, NEW d \in S
  PROVE  LET t == s \o <<c, d>> IN
         /\ t \in Seq(S) /\ Len(t) = Len(s) + 2 /\ Len(s) \in Nat /\ t # <<>>
         /\ \A i \in 1 .. Len(s) : t[i] = s[i]
         /\ t[Len(s) + 1] = c /\ t[Len(s) + 2] = d
<1>1. <<c, d>> \in Seq(S) /\ Len(<<c, d>>) = 2
  OBVIOUS
<1> QED BY <1>1

LEMMA Dropped ==
  ASSUME NEW S, NEW s \in Seq(S), s # <<>>
  PROVE  /\ Tail(s) \in Seq(S) /\ Len(Tail(s)) = Len(s) - 1 /\ Len(s) \in Nat \ {0}
         /\ Head(s) = s[1] /\ s[1] \in S
         /\ \A i \in 1 .. Len(s) - 1 : Tail(s)[i] = s[i + 1]
OBVIOUS

LEMMA Appended ==
  ASSUME NEW S, NEW s \in Seq(S), NEW e \in S
  PROVE  /\ Append(s, e) \in Seq(S) /\ Len(Append(s, e)) = Len(s) + 1 /\ Len(s) \in Nat
         /\ \A i \in 1 .. Len(s) : Append(s, e)[i] = s[i]
         /\ Append(s, e)[Len(s) + 1] = e
OBVIOUS

-----------------------------------------------------------------------------
(* The grab *)

IsGrab(q, i) == i \in 1 .. Len(q) /\ q[i].op = "grab"

\* The last command about the grab is what the session wants; with none on its
\* way, the grab is.
Wanted(q, m, g) ==
  /\ (\A i \in 1 .. Len(q) : ~IsGrab(q, i)) => (g <=> m = "away")
  /\ \A i \in 1 .. Len(q) :
       IsGrab(q, i) /\ (\A j \in 1 .. Len(q) : j > i => ~IsGrab(q, j)) => (q[i].on <=> m = "away")

GrabComes ==
  /\ cmds \in Seq(Command) /\ grabbed \in BOOLEAN
  /\ Wanted(cmds, mode, grabbed)
  /\ pc = "sleeping" => ~grabbed /\ (cmds = <<>> \/ cwake)

LEMMA SendingWants ==
  ASSUME NEW q \in Seq(Command), NEW on \in BOOLEAN, NEW m, NEW g,
         NEW c \in Command, NEW d \in Command,
         \/ c = [op |-> "grab", on |-> on] /\ d.op # "grab"
         \/ d = [op |-> "grab", on |-> on] /\ c.op # "grab",
         on <=> m = "away"
  PROVE  Wanted(q \o <<c, d>>, m, g)
<1> DEFINE p == q \o <<c, d>>
<1>1. /\ Len(p) = Len(q) + 2 /\ Len(q) \in Nat
      /\ p[Len(q) + 1] = c /\ p[Len(q) + 2] = d
  BY Joined
<1> HIDE DEF p
<1>2. PICK l \in 1 .. Len(p) : l > Len(q) /\ IsGrab(p, l) /\ p[l].on = on
  BY <1>1 DEF IsGrab
<1>3. \A i \in 1 .. Len(p) : i <= Len(q) \/ i = Len(q) + 1 \/ i = Len(q) + 2
  BY <1>1
<1>4. \A i \in 1 .. Len(p) : IsGrab(p, i) => i <= l
  BY <1>1, <1>2, <1>3 DEF IsGrab
<1>5. Wanted(p, m, g)
  BY <1>1, <1>2, <1>4 DEF Wanted
<1> QED BY <1>5 DEF p

LEMMA DroppingWants ==
  ASSUME NEW q \in Seq(Command), q # <<>>, NEW m, NEW g, Wanted(q, m, g)
  PROVE  /\ Head(q).op # "grab" => Wanted(Tail(q), m, g)
         /\ Head(q).op = "grab" => Wanted(Tail(q), m, Head(q).on)
<1> DEFINE p == Tail(q)
<1>1. /\ Len(p) = Len(q) - 1 /\ Len(q) \in Nat \ {0} /\ Head(q) = q[1]
      /\ \A i \in 1 .. Len(p) : p[i] = q[i + 1]
  BY Dropped
<1> HIDE DEF p
<1>2. \A i \in 1 .. Len(p) : i + 1 \in 1 .. Len(q) /\ (IsGrab(p, i) <=> IsGrab(q, i + 1))
  BY <1>1 DEF IsGrab
<1>3. \A j \in 1 .. Len(q) : j = 1 \/ (j - 1 \in 1 .. Len(p) /\ (j - 1) + 1 = j)
  BY <1>1
<1>4. \A i \in 1 .. Len(p) :
        IsGrab(p, i) /\ (\A j \in 1 .. Len(p) : j > i => ~IsGrab(p, j)) => (p[i].on <=> m = "away")
  <2> SUFFICES ASSUME NEW i \in 1 .. Len(p), IsGrab(p, i),
                      \A j \in 1 .. Len(p) : j > i => ~IsGrab(p, j)
               PROVE  (p[i].on <=> m = "away")
    OBVIOUS
  <2>1. \A j \in 1 .. Len(q) : j > i + 1 => ~IsGrab(q, j)
    <3> SUFFICES ASSUME NEW j \in 1 .. Len(q), j > i + 1 PROVE ~IsGrab(q, j)
      OBVIOUS
    <3>1. j - 1 \in 1 .. Len(p) /\ (j - 1) + 1 = j /\ j - 1 > i
      BY <1>1
    <3>2. ~IsGrab(p, j - 1)
      BY <3>1
    <3> QED BY <1>2, <3>1, <3>2
  <2> QED BY <1>1, <1>2, <2>1 DEF Wanted
<1>5. ASSUME \A i \in 1 .. Len(p) : ~IsGrab(p, i)
      PROVE  \A j \in 1 .. Len(q) : j # 1 => ~IsGrab(q, j)
  <2> SUFFICES ASSUME NEW j \in 1 .. Len(q), j # 1 PROVE ~IsGrab(q, j)
    OBVIOUS
  <2>1. j - 1 \in 1 .. Len(p) /\ (j - 1) + 1 = j
    BY <1>3
  <2> QED BY <1>2, <1>5, <2>1
<1>6. CASE Head(q).op # "grab"
  <2>1. (\A i \in 1 .. Len(p) : ~IsGrab(p, i)) => (g <=> m = "away")
    BY <1>1, <1>5, <1>6 DEF Wanted, IsGrab
  <2>2. Wanted(p, m, g)
    BY <1>4, <2>1 DEF Wanted
  <2> QED BY <1>6, <2>2 DEF p
<1>7. CASE Head(q).op = "grab"
  <2>1. (\A i \in 1 .. Len(p) : ~IsGrab(p, i)) => (q[1].on <=> m = "away")
    BY <1>1, <1>5, <1>7 DEF Wanted, IsGrab
  <2>2. Wanted(p, m, q[1].on)
    BY <1>4, <2>1 DEF Wanted
  <2> QED BY <1>1, <1>7, <2>2 DEF p
<1> QED BY <1>6, <1>7

LEMMA GrabInit == Init => GrabComes
<1> SUFFICES ASSUME Init PROVE GrabComes
  OBVIOUS
<1>1. cmds = <<>> /\ grabbed = FALSE /\ mode = "home" /\ pc = "events"
  BY DEF Init
<1>2. 1 .. Len(<<>>) = {}
  OBVIOUS
<1>3. Wanted(<<>>, "home", FALSE)
  BY <1>2 DEF Wanted
<1>4. <<>> \in Seq(Command)
  OBVIOUS
<1>5. Wanted(cmds, mode, grabbed)
  BY <1>1, <1>3, Zenon
<1> QED BY <1>1, <1>4, <1>5 DEF GrabComes

LEMMA GrabNext ==
  ASSUME GrabOutcomes = {TRUE}
  PROVE  GrabComes /\ [Next]_vars => GrabComes'
<1> SUFFICES ASSUME GrabComes, [Next]_vars PROVE GrabComes'
  OBVIOUS
<1> USE DEF GrabComes
<1>1. CASE Idles
  BY <1>1 DEF Idles
<1>2. ASSUME GoAway, UNCHANGED <<pc, grabbed>> PROVE GrabComes'
  <2>1. /\ cmds' = cmds \o <<[op |-> "grab", on |-> TRUE], [op |-> "isolate", on |-> TRUE]>>
        /\ cwake' /\ mode' = "away"
    BY <1>2 DEF GoAway, Sends
  <2>2. [op |-> "grab", on |-> TRUE] \in Command /\ [op |-> "isolate", on |-> TRUE] \in Command
    BY DEF Command
  <2>3. cmds' \in Seq(Command)
    BY <2>1, <2>2, Joined
  <2>4. Wanted(cmds', mode', grabbed')
    BY <2>1, <2>2, SendingWants
  <2> QED BY <1>2, <2>1, <2>3, <2>4
<1>3. ASSUME GoHome, UNCHANGED <<pc, grabbed>> PROVE GrabComes'
  <2>1. /\ cmds' = cmds \o <<[op |-> "isolate", on |-> FALSE], [op |-> "grab", on |-> FALSE]>>
        /\ cwake' /\ mode' = "home"
    BY <1>3 DEF GoHome, Sends
  <2>2. [op |-> "grab", on |-> FALSE] \in Command /\ [op |-> "isolate", on |-> FALSE] \in Command
    BY DEF Command
  <2>3. cmds' \in Seq(Command)
    BY <2>1, <2>2, Joined
  <2>4. Wanted(cmds', mode', grabbed')
    BY <2>1, <2>2, SendingWants
  <2> QED BY <1>3, <2>1, <2>3, <2>4
<1>4. CASE Cross
  BY <1>2, <1>4 DEF Cross, capture
<1>5. CASE Return
  BY <1>3, <1>5 DEF Return, capture
<1>6. CASE HearEscape
  BY <1>1, <1>3, <1>6 DEF HearEscape, capture, channel, Idles
<1>7. CASE NoEvents
  BY <1>7 DEF NoEvents, session, channel
<1>8. CASE SetGrabbed
  <2>1. /\ cmds # <<>> /\ Head(cmds).op = "grab" /\ pc = "commands"
        /\ cmds' = Tail(cmds) /\ UNCHANGED <<mode, cwake, pc>>
        /\ grabbed' = IF Head(cmds).on = grabbed THEN grabbed ELSE Head(cmds).on /\ TRUE
    BY <1>8 DEF SetGrabbed, Command_, session
  <2>2. Head(cmds).on \in BOOLEAN
    <3>1. Head(cmds) \in Command
      BY <2>1, Dropped
    <3> QED BY <3>1 DEF Command
  <2>3. grabbed' = Head(cmds).on
    BY <2>1, <2>2
  <2>4. cmds' \in Seq(Command)
    BY <2>1, Dropped
  <2>5. Wanted(cmds', mode', grabbed')
    BY <2>1, <2>3, DroppingWants
  <2> QED BY <2>1, <2>2, <2>3, <2>4, <2>5
<1>9. CASE Isolate
  <2>1. /\ cmds # <<>> /\ Head(cmds).op # "grab" /\ pc' = "nudge"
        /\ cmds' = Tail(cmds) /\ UNCHANGED <<mode, grabbed>>
    BY <1>9 DEF Isolate, Command_, session
  <2>2. cmds' \in Seq(Command)
    BY <2>1, Dropped
  <2>3. Wanted(cmds', mode', grabbed')
    BY <2>1, DroppingWants
  <2> QED BY <2>1, <2>2, <2>3
<1>10. CASE Nudge
  BY <1>10 DEF Nudge, session, channel
<1>11. CASE Poll
  BY <1>11 DEF Poll, WaitTimeout, session, channel
<1>12. CASE Wake
  BY <1>12 DEF Wake, session
<1>13. CASE OnEvent
  BY <1>1, <1>13 DEF OnEvent, channel, Idles
<1>14. CASE Reader
  BY <1>1, <1>14 DEF Reader, Absorb, Check, Purge, ReaderWakes, ReaderReads, Drain, session,
     channel, capture, Idles
<1>15. CASE \E k \in Keys : Type(k) \/ Plug(k)
  BY <1>1, <1>15 DEF Type, Plug, session, channel, capture, Idles
<1>16. CASE Scan
  BY <1>1, <1>16 DEF Scan, session, channel, capture, Idles
<1>17. CASE UNCHANGED vars
  BY <1>1, <1>17 DEF vars, session, channel, capture, Idles
<1> QED
  BY <1>4, <1>5, <1>6, <1>7, <1>8, <1>9, <1>10, <1>11, <1>12, <1>13, <1>14, <1>15, <1>16, <1>17
  DEF Next, CaptureThread

\* While control is away the capture thread keeps ticking, so the supervisor never
\* takes it for wedged (server/liveness.rs, x11/capture/thread.rs): it sleeps without
\* a timeout only if the grab is not held, and then either a command waits with its
\* byte in the pipe or the session is home.  The hypothesis is needed: a thread whose
\* grab was refused sleeps in silence.
THEOREM AliveTheorem ==
  ASSUME GrabOutcomes = {TRUE}
  PROVE  Spec => []NeverMistakenForDead
<1>1. GrabComes => NeverMistakenForDead
  BY DEF GrabComes, NeverMistakenForDead, Stalled, Wanted, IsGrab
<1> QED BY <1>1, GrabInit, GrabNext, PTL DEF Spec

-----------------------------------------------------------------------------
(* The events *)

\* The numbers in a queue of events; 0 is no number.
Numbers(q) == {q[i].n : i \in 1 .. Len(q)} \ {0}

\* No number is in the queue twice.
Distinct(q) == \A i, j \in 1 .. Len(q) : i < j /\ q[i].n # 0 => q[i].n # q[j].n

LEMMA NumbersAppended ==
  ASSUME NEW q \in Seq(Event), NEW e \in Event
  PROVE  /\ Append(q, e) \in Seq(Event)
         /\ Numbers(Append(q, e)) = Numbers(q) \cup ({e.n} \ {0})
         /\ Distinct(q) /\ e.n \notin Numbers(q) => Distinct(Append(q, e))
<1> DEFINE p == Append(q, e)
<1>1. /\ p \in Seq(Event) /\ Len(p) = Len(q) + 1 /\ Len(q) \in Nat
      /\ \A i \in 1 .. Len(q) : p[i] = q[i]
      /\ p[Len(q) + 1] = e
  BY Appended
<1> HIDE DEF p
<1>2. \A i \in 1 .. Len(p) : i \in 1 .. Len(q) \/ i = Len(q) + 1
  BY <1>1
<1>3. 1 .. Len(q) \subseteq 1 .. Len(p) /\ Len(q) + 1 \in 1 .. Len(p)
  BY <1>1
<1>4. Numbers(p) = Numbers(q) \cup ({e.n} \ {0})
  BY <1>1, <1>2, <1>3 DEF Numbers
<1>5. ASSUME Distinct(q), e.n \notin Numbers(q) PROVE Distinct(p)
  <2> SUFFICES ASSUME NEW i \in 1 .. Len(p), NEW j \in 1 .. Len(p), i < j, p[i].n # 0
               PROVE  p[i].n # p[j].n
    BY DEF Distinct
  <2>1. i \in 1 .. Len(q)
    BY <1>1
  <2>2. CASE j \in 1 .. Len(q)
    BY <1>1, <1>5, <2>1, <2>2 DEF Distinct
  <2>3. CASE j = Len(q) + 1
    BY <1>1, <1>5, <2>1, <2>3 DEF Numbers
  <2> QED BY <1>2, <2>2, <2>3
<1> QED BY <1>1, <1>4, <1>5 DEF p

LEMMA NumbersDropped ==
  ASSUME NEW q \in Seq(Event), q # <<>>
  PROVE  /\ Tail(q) \in Seq(Event) /\ Head(q) \in Event
         /\ Numbers(q) = Numbers(Tail(q)) \cup ({Head(q).n} \ {0})
         /\ Distinct(q) => Distinct(Tail(q)) /\ Head(q).n \notin Numbers(Tail(q))
<1> DEFINE p == Tail(q)
<1>1. /\ p \in Seq(Event) /\ Len(p) = Len(q) - 1 /\ Len(q) \in Nat \ {0}
      /\ Head(q) = q[1] /\ q[1] \in Event
      /\ \A i \in 1 .. Len(p) : p[i] = q[i + 1]
  BY Dropped
<1> HIDE DEF p
<1>2. \A i \in 1 .. Len(p) : i + 1 \in 1 .. Len(q)
  BY <1>1
<1>3. \A j \in 1 .. Len(q) : j = 1 \/ (j - 1 \in 1 .. Len(p) /\ p[j - 1] = q[j])
  <2> SUFFICES ASSUME NEW j \in 1 .. Len(q), j # 1
               PROVE  j - 1 \in 1 .. Len(p) /\ p[j - 1] = q[j]
    OBVIOUS
  <2>1. j - 1 \in 1 .. Len(p) /\ (j - 1) + 1 = j
    BY <1>1
  <2> QED BY <1>1, <2>1
<1>4. Numbers(q) = Numbers(p) \cup ({q[1].n} \ {0})
  <2>1. 1 \in 1 .. Len(q)
    BY <1>1
  <2>2. \A n \in Numbers(q) : n \in Numbers(p) \/ n = q[1].n
    BY <1>3 DEF Numbers
  <2>3. \A n \in Numbers(p) : n \in Numbers(q)
    BY <1>1, <1>2 DEF Numbers
  <2>4. 0 \notin Numbers(p) /\ 0 \notin Numbers(q) /\ {q[1].n} \ {0} \subseteq Numbers(q)
    BY <2>1 DEF Numbers
  <2> QED BY <2>2, <2>3, <2>4
<1>5. ASSUME Distinct(q) PROVE Distinct(p) /\ q[1].n \notin Numbers(p)
  <2>1. Distinct(p)
    <3> SUFFICES ASSUME NEW i \in 1 .. Len(p), NEW j \in 1 .. Len(p), i < j, p[i].n # 0
                 PROVE  p[i].n # p[j].n
      BY DEF Distinct
    <3>1. i + 1 < j + 1 /\ i + 1 \in 1 .. Len(q) /\ j + 1 \in 1 .. Len(q)
      BY <1>1, <1>2
    <3>2. p[i] = q[i + 1] /\ p[j] = q[j + 1]
      BY <1>1
    <3> QED BY <1>5, <3>1, <3>2 DEF Distinct
  <2>2. \A i \in 1 .. Len(p) : p[i].n # 0 => q[1].n # p[i].n
    <3> SUFFICES ASSUME NEW i \in 1 .. Len(p), p[i].n # 0 PROVE q[1].n # p[i].n
      OBVIOUS
    <3>1. 1 < i + 1 /\ 1 \in 1 .. Len(q) /\ i + 1 \in 1 .. Len(q) /\ p[i] = q[i + 1]
      BY <1>1, <1>2
    <3> QED BY <1>5, <3>1 DEF Distinct
  <2> QED BY <2>1, <2>2 DEF Numbers
<1> QED BY <1>1, <1>4, <1>5 DEF p

LEMMA NumbersEmpty == Numbers(<<>>) = {} /\ Distinct(<<>>) /\ <<>> \in Seq(Event)
<1>1. 1 .. Len(<<>>) = {}
  OBVIOUS
<1> QED BY <1>1 DEF Numbers, Distinct

Shapes ==
  /\ phase \in [Keys -> {"absent", "plugged", "opened", "watched"}]
  /\ \A k \in Keys \ Late : phase[k] = "watched"
  /\ isolated \subseteq Keys /\ remote \in BOOLEAN /\ reading \in BOOLEAN
  /\ made \in Nat /\ made <= MaxEvents
  /\ reports \in [1 .. MaxEvents -> Nat]
  /\ xq \in Seq(Event) /\ ring \in [Keys -> Seq(Event)]
  /\ cmds \in Seq(Command)

\* Nobody but the kernel's buffer knows of this keyboard's events.
Secret(k) == \A n \in Numbers(ring[k]) : n \notin Numbers(xq) /\ reports[n] = 0

\* A number is given once; X's queue has what was not reported yet; while the
\* reader forwards, X has nothing of what the kernel has.
Once ==
  /\ Shapes
  /\ ReportedOnce
  /\ \A n \in 1 .. MaxEvents : n > made => reports[n] = 0
  /\ \A n \in Numbers(xq) : n <= made /\ reports[n] = 0
  /\ Distinct(xq)
  /\ \A k \in Keys : \A n \in Numbers(ring[k]) : n <= made
  /\ \A k \in Late : Numbers(ring[k]) = {}
  /\ \A k, l \in Keys : k # l => Numbers(ring[k]) \cap Numbers(ring[l]) = {}
  /\ rpc = "purge" => reading
  /\ reading => Keys \ Late \subseteq isolated
  /\ reading /\ rpc # "purge" => \A k \in Keys : Secret(k)

\* Numbers are in range.
LEMMA NumbersRange ==
  ASSUME NEW q \in Seq(Event)
  PROVE  Numbers(q) \subseteq 1 .. MaxEvents
<1>1. \A i \in 1 .. Len(q) : q[i] \in Event
  OBVIOUS
<1> QED BY <1>1, CaptureAssumption DEF Numbers, Event

LEMMA OnceInit == Init => Once
<1> SUFFICES ASSUME Init PROVE Once
  OBVIOUS
<1>1. Shapes
  <2>1. <<>> \in Seq(Event) /\ <<>> \in Seq(Command)
    OBVIOUS
  <2>2. phase \in [Keys -> {"absent", "plugged", "opened", "watched"}]
    BY DEF Init
  <2>3. made \in Nat /\ made <= MaxEvents /\ reports \in [1 .. MaxEvents -> Nat]
    BY CaptureAssumption DEF Init
  <2> QED BY <2>1, <2>2, <2>3 DEF Init, Shapes
<1> QED BY <1>1, NumbersEmpty, CaptureAssumption DEF Init, Once, ReportedOnce

LEMMA TypeOnce ==
  ASSUME Once, NEW k \in Keys, Type(k)
  PROVE  Once'
<1> DEFINE n == IF k \in Late THEN 0 ELSE made + 1
           e == [key |-> k, down |-> k \notin fingers, n |-> n]
<1>1. /\ made < MaxEvents /\ made' = made + 1
      /\ xq' = IF k \in isolated THEN xq ELSE Append(xq, e)
      /\ ring' = IF phase[k] = "plugged" THEN ring ELSE [ring EXCEPT ![k] = Append(@, e)]
      /\ UNCHANGED <<phase, isolated, remote, reading, rpc, reports, cmds>>
  BY DEF Type, flag, reader, channel
<1>2. e \in Event /\ e.n = n /\ n \in 0 .. MaxEvents /\ made \in Nat
  BY <1>1, CaptureAssumption DEF Event, Once, Shapes
<1>3. \A l \in Keys : /\ ring[l] \in Seq(Event)
                      /\ n \notin Numbers(ring[l]) /\ Numbers(ring[l]) \subseteq 1 .. made
  <2> SUFFICES ASSUME NEW l \in Keys
               PROVE  /\ ring[l] \in Seq(Event)
                      /\ n \notin Numbers(ring[l]) /\ Numbers(ring[l]) \subseteq 1 .. made
    OBVIOUS
  <2>1. ring[l] \in Seq(Event)
    BY DEF Once, Shapes
  <2>2. Numbers(ring[l]) \subseteq 1 .. made
    BY <1>2, <2>1, NumbersRange, CaptureAssumption DEF Once
  <2> QED BY <1>2, <2>1, <2>2
<1>4. n \notin Numbers(xq) /\ (n # 0 => reports[n] = 0) /\ xq \in Seq(Event)
  <2>1. xq \in Seq(Event)
    BY DEF Once, Shapes
  <2>2. Numbers(xq) \subseteq 1 .. MaxEvents
    BY <2>1, NumbersRange
  <2> QED BY <1>2, <2>1, <2>2 DEF Once
<1>5. /\ xq' \in Seq(Event) /\ Distinct(xq')
      /\ Numbers(xq') = IF k \in isolated THEN Numbers(xq) ELSE Numbers(xq) \cup ({n} \ {0})
  <2>1. CASE k \in isolated
    BY <1>1, <1>4, <2>1 DEF Once
  <2>2. CASE k \notin isolated
    <3>1. Distinct(xq)
      BY DEF Once
    <3> HIDE DEF e
    <3> QED BY <1>1, <1>2, <1>4, <2>2, <3>1, NumbersAppended
  <2> QED BY <2>1, <2>2
<1>6. /\ ring' \in [Keys -> Seq(Event)]
      /\ \A l \in Keys : l # k => Numbers(ring'[l]) = Numbers(ring[l])
      /\ Numbers(ring'[k]) = IF phase[k] = "plugged" THEN Numbers(ring[k])
                            ELSE Numbers(ring[k]) \cup ({n} \ {0})
  <2>0. ring \in [Keys -> Seq(Event)]
    BY DEF Once, Shapes
  <2>1. CASE phase[k] = "plugged"
    BY <1>1, <2>0, <2>1
  <2>2. CASE phase[k] # "plugged"
    <3> HIDE DEF e
    <3>1. ring' = [ring EXCEPT ![k] = Append(@, e)]
      BY <1>1, <2>2
    <3>2. /\ Append(ring[k], e) \in Seq(Event)
          /\ Numbers(Append(ring[k], e)) = Numbers(ring[k]) \cup ({n} \ {0})
      BY <1>2, <1>3, NumbersAppended
    <3> QED BY <2>0, <2>2, <3>1, <3>2
  <2> QED BY <2>1, <2>2
<1> HIDE DEF e
<1>7. Shapes'
  BY <1>1, <1>2, <1>5, <1>6, CaptureAssumption DEF Once, Shapes
<1>8. reading => \A l \in Keys : l = k /\ l \notin Late => k \in isolated
  BY DEF Once
<1>9. ASSUME reading, rpc # "purge", NEW l \in Keys PROVE Secret(l)'
  <2>1. Secret(l) /\ Secret(k)
    BY <1>9 DEF Once
  <2>2. k \notin Late => Numbers(xq') = Numbers(xq)
    BY <1>5, <1>8, <1>9
  <2>3. k \in Late => n = 0 /\ Numbers(xq') = Numbers(xq)
    BY <1>5
  <2>4. Numbers(xq') = Numbers(xq) /\ (n # 0 => reports[n] = 0) /\ n \notin Numbers(xq)
    BY <1>4, <2>2, <2>3
  <2>5. \A m \in Numbers(ring'[l]) : m \in Numbers(ring[l]) \/ (m = n /\ n # 0)
    BY <1>6
  <2> QED BY <1>1, <2>1, <2>4, <2>5 DEF Secret
<1>10. \A m \in Numbers(xq') : m <= made' /\ reports'[m] = 0
  <2> SUFFICES ASSUME NEW m \in Numbers(xq') PROVE m <= made' /\ reports'[m] = 0
    OBVIOUS
  <2>1. CASE m \in Numbers(xq)
    <3>1. m \in 1 .. MaxEvents /\ m <= made /\ reports[m] = 0
      BY <1>4, <2>1, NumbersRange DEF Once
    <3> QED BY <1>1, <1>2, <3>1
  <2>2. CASE m \notin Numbers(xq)
    <3>1. m = n /\ n # 0
      BY <1>5, <2>2
    <3>2. n = made + 1
      BY <3>1
    <3> QED BY <1>1, <1>2, <1>4, <3>1, <3>2
  <2> QED BY <2>1, <2>2
<1>11. \A l \in Keys : \A m \in Numbers(ring'[l]) : m <= made'
  <2> SUFFICES ASSUME NEW l \in Keys, NEW m \in Numbers(ring'[l]) PROVE m <= made'
    OBVIOUS
  <2>1. m \in 1 .. made \/ m = n
    BY <1>3, <1>6
  <2>2. n <= made + 1
    BY <1>2
  <2> QED BY <1>1, <1>2, <2>1, <2>2
<1>12. \A l \in Late : Numbers(ring'[l]) = {}
  BY <1>6, CaptureAssumption DEF Once
<1>13. \A l, m \in Keys : l # m => Numbers(ring'[l]) \cap Numbers(ring'[m]) = {}
  <2> SUFFICES ASSUME NEW l \in Keys, NEW m \in Keys, l # m
               PROVE  Numbers(ring'[l]) \cap Numbers(ring'[m]) = {}
    OBVIOUS
  <2>1. Numbers(ring[l]) \cap Numbers(ring[m]) = {}
    BY DEF Once
  <2> QED BY <1>3, <1>6, <2>1
<1>14. \A m \in 1 .. MaxEvents : m > made' => reports'[m] = 0
  BY <1>1, <1>2 DEF Once
<1>15. /\ ReportedOnce' /\ (rpc' = "purge" => reading')
       /\ (reading' => Keys \ Late \subseteq isolated')
  BY <1>1 DEF Once, ReportedOnce
<1> QED BY <1>1, <1>5, <1>7, <1>9, <1>10, <1>11, <1>12, <1>13, <1>14, <1>15 DEF Once

\* Reporting numbers not reported yet, and only the numbers of events.
LEMMA ReportingOnce ==
  ASSUME Once, NEW ns, Reported(ns),
         \A n \in ns : n \in 1 .. MaxEvents => reports[n] = 0 /\ n <= made
  PROVE  /\ reports' \in [1 .. MaxEvents -> Nat]
         /\ \A n \in 1 .. MaxEvents : reports'[n] <= 1
         /\ \A n \in 1 .. MaxEvents : n > made => reports'[n] = 0
         /\ \A n \in 1 .. MaxEvents : n \notin ns => reports'[n] = reports[n]
<1>1. reports \in [1 .. MaxEvents -> Nat] /\ made \in Nat /\ MaxEvents \in Nat
  BY CaptureAssumption DEF Once, Shapes
<1>2. reports' = [n \in 1 .. MaxEvents |->
                   IF n \in ns /\ reports[n] < 2 THEN reports[n] + 1 ELSE reports[n]]
  BY <1>1 DEF Reported
<1>3. \A n \in 1 .. MaxEvents : reports[n] <= 1 /\ (n > made => reports[n] = 0)
  BY <1>1 DEF Once, ReportedOnce
<1>4. ASSUME NEW n \in 1 .. MaxEvents
      PROVE  /\ reports'[n] \in Nat /\ reports'[n] <= 1
             /\ n > made => reports'[n] = 0
             /\ n \notin ns => reports'[n] = reports[n]
  <2>1. /\ reports[n] \in Nat
        /\ reports'[n] = IF n \in ns /\ reports[n] < 2 THEN reports[n] + 1 ELSE reports[n]
    BY <1>1, <1>2
  <2>2. CASE n \in ns
    BY <1>1, <2>1, <2>2
  <2>3. CASE n \notin ns
    BY <1>3, <2>1, <2>3
  <2> QED BY <2>2, <2>3
<1>5. reports' \in [1 .. MaxEvents -> Nat]
  BY <1>2, <1>4
<1> QED BY <1>4, <1>5

LEMMA OnEventOnce == Once /\ OnEvent => Once'
<1> SUFFICES ASSUME Once, OnEvent PROVE Once'
  OBVIOUS
<1> DEFINE h == Head(xq).n
<1>1. /\ xq # <<>> /\ xq' = Tail(xq) /\ Reported({h})
      /\ UNCHANGED <<phase, isolated, remote, reading, rpc, ring, made, cmds>>
  BY DEF OnEvent, flag, reader, user, channel
<1>2. xq \in Seq(Event) /\ Distinct(xq)
  BY DEF Once, Shapes
<1>3. /\ xq' \in Seq(Event) /\ h \in 0 .. MaxEvents /\ Distinct(xq')
      /\ Numbers(xq) = Numbers(xq') \cup ({h} \ {0}) /\ h \notin Numbers(xq')
  BY <1>1, <1>2, NumbersDropped DEF Event
<1> HIDE DEF h
<1>4. \A n \in {h} : n \in 1 .. MaxEvents => reports[n] = 0 /\ n <= made
  BY <1>3 DEF Once
<1>5. /\ reports' \in [1 .. MaxEvents -> Nat]
      /\ \A n \in 1 .. MaxEvents : reports'[n] <= 1
      /\ \A n \in 1 .. MaxEvents : n > made => reports'[n] = 0
      /\ \A n \in 1 .. MaxEvents : n \notin {h} => reports'[n] = reports[n]
  BY <1>1, <1>4, ReportingOnce
<1>6. Shapes' /\ ReportedOnce'
  BY <1>1, <1>3, <1>5 DEF Once, Shapes, ReportedOnce
<1>7. /\ Numbers(xq') \subseteq 1 .. MaxEvents
      /\ \A k \in Keys : Numbers(ring[k]) \subseteq 1 .. MaxEvents
  BY <1>3, NumbersRange DEF Once, Shapes
<1>8. \A n \in Numbers(xq') : n <= made' /\ reports'[n] = 0
  BY <1>1, <1>3, <1>5, <1>7 DEF Once
<1>9. ASSUME reading, rpc # "purge", NEW k \in Keys PROVE Secret(k)'
  <2>1. Secret(k)
    BY <1>9 DEF Once
  <2>2. h \notin Numbers(ring[k])
    <3>1. 0 \notin Numbers(ring[k])
      BY DEF Numbers
    <3> QED BY <1>3, <2>1, <3>1 DEF Secret
  <2> QED BY <1>1, <1>3, <1>5, <1>7, <2>1, <2>2 DEF Secret
<1> QED BY <1>1, <1>3, <1>5, <1>6, <1>8, <1>9 DEF Once

\* A buffer that is emptied keeps no secret.
LEMMA EmptiedOnce ==
  ASSUME Once, NEW Emptied \in SUBSET Keys,
         ring' = [k \in Keys |-> IF k \in Emptied THEN <<>> ELSE ring[k]]
  PROVE  /\ ring' \in [Keys -> Seq(Event)]
         /\ \A k \in Keys : Numbers(ring'[k]) = IF k \in Emptied THEN {} ELSE Numbers(ring[k])
         /\ \A k \in Keys : \A n \in Numbers(ring'[k]) : n <= made
         /\ \A k \in Late : Numbers(ring'[k]) = {}
         /\ \A k, l \in Keys : k # l => Numbers(ring'[k]) \cap Numbers(ring'[l]) = {}
<1>1. ring' \in [Keys -> Seq(Event)]
  BY NumbersEmpty DEF Once, Shapes
<1>2. \A k \in Keys : Numbers(ring'[k]) = IF k \in Emptied THEN {} ELSE Numbers(ring[k])
  BY NumbersEmpty
<1>3. \A k \in Keys : Numbers(ring'[k]) \subseteq Numbers(ring[k])
  BY <1>2
<1>4. Late \subseteq Keys
  BY CaptureAssumption
<1>5. \A k, l \in Keys : k # l => Numbers(ring'[k]) \cap Numbers(ring'[l]) = {}
  <2> SUFFICES ASSUME NEW k \in Keys, NEW l \in Keys, k # l
               PROVE  Numbers(ring'[k]) \cap Numbers(ring'[l]) = {}
    OBVIOUS
  <2>1. Numbers(ring[k]) \cap Numbers(ring[l]) = {}
    BY DEF Once
  <2> QED BY <1>3, <2>1
<1> QED BY <1>1, <1>2, <1>3, <1>4, <1>5 DEF Once

LEMMA PurgeOnce == Once /\ Purge => Once'
<1> SUFFICES ASSUME Once, Purge PROVE Once'
  OBVIOUS
<1>1. /\ ring' = [k \in Keys |-> IF k \in Watched THEN <<>> ELSE ring[k]]
      /\ rpc' = "poll" /\ UNCHANGED <<phase, isolated, remote, reading, xq, made, reports, cmds>>
  BY DEF Purge, Purged, flag, user, channel
<1>2. Watched \in SUBSET Keys /\ Keys \ Late \subseteq Watched
  BY DEF Watched, Once, Shapes
<1>3. /\ ring' \in [Keys -> Seq(Event)]
      /\ \A k \in Keys : Numbers(ring'[k]) = IF k \in Watched THEN {} ELSE Numbers(ring[k])
      /\ \A k \in Keys : \A n \in Numbers(ring'[k]) : n <= made
      /\ \A k \in Late : Numbers(ring'[k]) = {}
      /\ \A k, l \in Keys : k # l => Numbers(ring'[k]) \cap Numbers(ring'[l]) = {}
  BY <1>1, <1>2, EmptiedOnce
<1>4. Shapes'
  BY <1>1, <1>3 DEF Once, Shapes
<1>5. \A k \in Keys : Secret(k)'
  BY <1>2, <1>3 DEF Secret
<1> QED BY <1>1, <1>3, <1>4, <1>5 DEF Once, ReportedOnce

LEMMA DrainOnce == Once /\ Drain => Once'
<1> SUFFICES ASSUME Once, Drain PROVE Once'
  OBVIOUS
<1>1. PICK k \in Keys :
        /\ ring' = [ring EXCEPT ![k] = <<>>]
        /\ Reported(IF reading THEN {ring[k][i].n : i \in Forwarded(k)} ELSE {})
        /\ rpc = "drain" /\ rpc' = "check"
        /\ UNCHANGED <<phase, isolated, remote, reading, xq, made, cmds>>
  BY DEF Drain, flag, user, channel, Watched
<1> DEFINE ns == IF reading THEN {ring[k][i].n : i \in Forwarded(k)} ELSE {}
<1>2. ring[k] \in Seq(Event) /\ ring \in [Keys -> Seq(Event)]
  BY DEF Once, Shapes
<1>3. reading => \A n \in ns : n \in 1 .. MaxEvents => n \in Numbers(ring[k])
  BY <1>2 DEF Forwarded, Numbers
<1>4. ~reading => ns = {}
  OBVIOUS
<1>5. Reported(ns)
  BY <1>1
<1> HIDE DEF ns
<1>6. reading => \A l \in Keys : Secret(l)
  BY <1>1 DEF Once
<1>7. \A n \in ns : n \in 1 .. MaxEvents => reports[n] = 0 /\ n <= made
  BY <1>3, <1>4, <1>6 DEF Once, Secret
<1>8. /\ reports' \in [1 .. MaxEvents -> Nat]
      /\ \A n \in 1 .. MaxEvents : reports'[n] <= 1
      /\ \A n \in 1 .. MaxEvents : n > made => reports'[n] = 0
      /\ \A n \in 1 .. MaxEvents : n \notin ns => reports'[n] = reports[n]
  BY <1>5, <1>7, ReportingOnce
<1>9. ring' = [l \in Keys |-> IF l \in {k} THEN <<>> ELSE ring[l]] /\ {k} \in SUBSET Keys
  BY <1>1, <1>2
<1>10. /\ ring' \in [Keys -> Seq(Event)]
       /\ \A l \in Keys : Numbers(ring'[l]) = IF l \in {k} THEN {} ELSE Numbers(ring[l])
       /\ \A l \in Keys : \A n \in Numbers(ring'[l]) : n <= made
       /\ \A l \in Late : Numbers(ring'[l]) = {}
       /\ \A l, m \in Keys : l # m => Numbers(ring'[l]) \cap Numbers(ring'[m]) = {}
  BY <1>9, EmptiedOnce
<1>11. Shapes' /\ ReportedOnce'
  BY <1>1, <1>8, <1>10 DEF Once, Shapes, ReportedOnce
<1>12. /\ Numbers(xq) \subseteq 1 .. MaxEvents
       /\ \A l \in Keys : Numbers(ring[l]) \subseteq 1 .. MaxEvents
  BY NumbersRange DEF Once, Shapes
<1>13. \A n \in Numbers(xq) : n \notin ns
  BY <1>3, <1>4, <1>6, <1>12 DEF Secret
<1>14. \A n \in Numbers(xq') : n <= made' /\ reports'[n] = 0
  BY <1>1, <1>8, <1>12, <1>13 DEF Once
<1>15. ASSUME reading, NEW l \in Keys PROVE Secret(l)'
  <2>1. CASE l = k
    BY <1>10, <2>1 DEF Secret
  <2>2. CASE l # k
    <3>1. Numbers(ring[l]) \cap Numbers(ring[k]) = {}
      BY <2>2 DEF Once
    <3>2. \A n \in Numbers(ring[l]) : n \notin ns /\ n \in 1 .. MaxEvents
      BY <1>3, <1>12, <1>15, <3>1
    <3> QED BY <1>1, <1>6, <1>8, <1>10, <1>15, <2>2, <3>2 DEF Secret
  <2> QED BY <2>1, <2>2
<1> QED BY <1>1, <1>8, <1>10, <1>11, <1>14, <1>15 DEF Once

\* What does not touch the events keeps them, unless the reader starts to forward.
LEMMA QuietOnce ==
  ASSUME Once, UNCHANGED <<queues, made, reports>>, Shapes',
         rpc' = "purge" => reading',
         reading' => Keys \ Late \subseteq isolated',
         reading' /\ rpc' # "purge" => reading /\ rpc # "purge"
  PROVE  Once'
BY DEF Once, Secret, ReportedOnce, queues

LEMMA OnceNext == Once /\ [Next]_vars => Once'
<1> SUFFICES ASSUME Once, [Next]_vars PROVE Once'
  OBVIOUS
<1>0. Shapes /\ Late \subseteq Keys
  BY CaptureAssumption DEF Once
<1>1. ASSUME Silent, remote' \in BOOLEAN, cmds' \in Seq(Command) PROVE Once'
  <2>1. Shapes'
    BY <1>0, <1>1 DEF Silent, Shapes, queues
  <2> QED BY <1>1, <2>1, QuietOnce DEF Silent, Once
<1>2. CASE \E k \in Keys : Type(k)
  BY <1>2, TypeOnce
<1>3. CASE \E k \in Keys : Plug(k)
  <2>1. Shapes'
    BY <1>0, <1>3 DEF Plug, Shapes, queues, flag, reader, user, channel
  <2>2. UNCHANGED <<queues, made, reports, rpc, reading, isolated>>
    BY <1>3 DEF Plug, reader, user
  <2> QED BY <2>1, <2>2, QuietOnce DEF Once
<1>4. CASE Scan
  <2>1. Shapes'
    BY <1>0, <1>4 DEF Scan, Shapes, queues, reader, user, channel
  <2> QED BY <1>4, <2>1, QuietOnce DEF Scan, Once, reader, user
<1>5. CASE OnEvent
  BY <1>5, OnEventOnce
<1>6. CASE Isolate
  <2>1. cmds # <<>> /\ cmds' = Tail(cmds) /\ remote' = Head(cmds).on
    BY <1>6 DEF Isolate, Command_
  <2>2. cmds' \in Seq(Command) /\ Head(cmds) \in Command
    BY <1>0, <2>1, Dropped DEF Shapes
  <2>3. remote' \in BOOLEAN
    BY <2>1, <2>2 DEF Command
  <2> QED BY <1>1, <1>6, <2>2, <2>3 DEF Isolate, Silent, reader, user
<1>7. CASE Absorb
  <2>1. Shapes' /\ isolated \subseteq isolated'
    BY <1>0, <1>7 DEF Absorb, Opened, Shapes, queues, flag, user, channel
  <2> QED BY <1>7, <2>1, QuietOnce DEF Absorb, Once, user
<1>8. CASE Check
  <2>1. Keys \ Late \subseteq Watched /\ Watched \subseteq Keys
    BY <1>0 DEF Watched, Shapes
  <2>2. Shapes'
    BY <1>0, <1>8, <2>1 DEF Check, Shapes, queues, flag, user, channel
  <2>3. UNCHANGED <<queues, made, reports>> /\ reading' = remote /\ rpc = "check"
    BY <1>8 DEF Check, user
  <2>4. /\ isolated' = IF remote = reading THEN isolated ELSE IF remote THEN Watched ELSE {}
        /\ rpc' = IF remote /\ ~reading THEN "purge" ELSE "poll"
    BY <1>8 DEF Check
  <2>5. reading' => Keys \ Late \subseteq isolated'
    BY <1>0, <2>1, <2>3, <2>4 DEF Once, Shapes
  <2> QED BY <1>0, <2>2, <2>3, <2>4, <2>5, QuietOnce DEF Shapes
<1>9. CASE Purge
  BY <1>9, PurgeOnce
<1>10. CASE Drain
  BY <1>10, DrainOnce
<1>11. CASE ReaderWakes \/ ReaderReads
  <2>1. /\ UNCHANGED <<queues, made, reports, reading, isolated, phase, remote, cmds>>
        /\ rpc = "poll" /\ rpc' \in {"check", "drain"}
    BY <1>11 DEF ReaderWakes, ReaderReads, flag, user, channel
  <2>2. Shapes'
    BY <1>0, <2>1 DEF Shapes, queues
  <2> QED BY <2>1, <2>2, QuietOnce DEF Once
<1>12. CASE Cross \/ Return \/ HearEscape
  <2>1. Silent /\ UNCHANGED remote
    BY <1>12 DEF Cross, Return, HearEscape, Silent, flag, reader, user
  <2>2. /\ [op |-> "grab", on |-> TRUE] \in Command /\ [op |-> "isolate", on |-> TRUE] \in Command
        /\ [op |-> "grab", on |-> FALSE] \in Command /\ [op |-> "isolate", on |-> FALSE] \in Command
    BY DEF Command
  <2>3. cmds \in Seq(Command)
    BY <1>0 DEF Shapes
  <2>4. GoAway \/ GoHome \/ UNCHANGED cmds
    BY <1>12 DEF Cross, Return, HearEscape, channel
  <2>5. cmds' \in Seq(Command)
    <3>1. CASE GoAway
      BY <2>2, <2>3, <3>1, Joined DEF GoAway, Sends
    <3>2. CASE GoHome
      BY <2>2, <2>3, <3>2, Joined DEF GoHome, Sends
    <3> QED BY <2>3, <2>4, <3>1, <3>2
  <2> QED BY <1>0, <1>1, <2>1, <2>5 DEF Shapes
<1>13. CASE SetGrabbed
  <2>1. cmds # <<>> /\ cmds' = Tail(cmds) /\ Silent /\ UNCHANGED remote
    BY <1>13 DEF SetGrabbed, Command_, Silent, flag, reader, user
  <2>2. cmds' \in Seq(Command)
    BY <1>0, <2>1, Dropped DEF Shapes
  <2> QED BY <1>0, <1>1, <2>1, <2>2 DEF Shapes
<1>14. CASE NoEvents \/ Nudge \/ Poll \/ Wake \/ UNCHANGED vars
  <2>1. Silent /\ UNCHANGED <<remote, cmds>>
    BY <1>14 DEF NoEvents, Nudge, Poll, Wake, vars, Silent, flag, reader, user, channel
  <2> QED BY <1>0, <1>1, <2>1 DEF Shapes
<1> QED
  BY <1>2, <1>3, <1>4, <1>5, <1>6, <1>7, <1>8, <1>9, <1>10, <1>11, <1>12, <1>13, <1>14
  DEF Next, CaptureThread, Reader

\* The main loop hears of a press or a release at most once, though two threads read
\* every keyboard: what X still has was typed before the kernel's grab, and the reader
\* throws its copy away before it forwards anything (evdev/reader.rs).
THEOREM OnceTheorem == Spec => []ReportedOnce
<1>1. Once => ReportedOnce
  BY DEF Once
<1> QED BY <1>1, OnceInit, OnceNext, PTL DEF Spec
=============================================================================
