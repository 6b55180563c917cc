------------------------------- MODULE Link -------------------------------
(***************************************************************************)
(* The wire between the server and one client machine: the reliable        *)
(* frames, that share the client's outbound queue with the cursor motion,  *)
(* go over TCP in pieces and are put together again by the transport; the  *)
(* motion and the beacons go over UDP, where they are lost, duplicated and *)
(* late, and are told apart by sequence numbers that wrap                  *)
(* (crates/core/src/{udp,transport}.rs, server/{client,udp}.rs,            *)
(* client/{mod,threads}.rs).                                               *)
(*                                                                         *)
(* The machine connects again and again, each time from another UDP port   *)
(* and with its numbers starting again, while datagrams of the old port    *)
(* are still on their way.  A frame is a header and a body and carries     *)
(* nothing but its place in the order it was accepted in; a datagram       *)
(* carries the number it would have if numbers did not wrap, of which the  *)
(* receivers look at the remainder only.  The network does not lose or     *)
(* delay half the sequence space in a row.                                 *)
(***************************************************************************)
EXTENDS Integers, Sequences, FiniteSets

CONSTANTS
  Space,       \* how many sequence numbers there are (2^32)
  Cap,         \* OUT_QUEUE_CAP
  MaxConns,    \* bound on the connections of the machine
  MaxSends,    \* bound on everything either side sends after a connection
  TornBetween  \* may an unregistration come between two locks of the UDP receiver?

ASSUME LinkAssumption ==
  /\ {Space, Cap, MaxConns, MaxSends} \subseteq Nat \ {0} /\ Space % 2 = 0
  /\ TornBetween \in BOOLEAN

Half == Space \div 2
Conns == 1 .. MaxConns
None == 0

VARIABLES
  conn,       \* the machine's connection, and the UDP port of it
  known,      \* the connection in `clients` and `tcp_ips`
  greeted,    \* the machine has its Welcome and is not registered yet
  queue,      \* its outbound queue: the place of a reliable frame, None for motion
  accepted,   \* the reliable frames that went into it
  stream,     \* the pieces of them on their way
  buf,        \* read_buf of the client's transport
  heard,      \* the last frame the client was given
  sent,       \* the last number the writer used
  downNet,    \* motion on its way
  motion_seq, \* what the client's UDP thread compares with
  moved,      \* the last motion applied ...
  newest,     \* ... and the newest received
  beacons,    \* the last number the client used
  upNet,      \* registrations (number 0) and beacons on their way
  addr,       \* `addrs`: the port the server has learned
  tracker,    \* `seqs`, or None
  latest,     \* the newest beacon from addr since it was learned
  rx,         \* the UDP receiver
  applied,    \* the last beacon the session was given
  sends       \* how much was sent

session == <<conn, known, greeted>>
tcp == <<accepted, stream, buf, heard>>
down == <<sent, downNet, motion_seq, moved, newest>>
up == <<beacons, upNet, addr, tracker, latest, rx, applied>>
vars == <<session, queue, tcp, down, up, sends>>

Idle == [state |-> "idle"]

\* is_newer: the difference is taken in the wrapping space.
Forward(seq, last) == (seq - last + Space) % Space

\* Variant: whatever is not the frame just seen is taken.
NotTheSame(seq, last) == seq # last

\* Variant: the numbers are compared as they are.
Greater(seq, last) == seq > last

IsNewer(seq, last) == seq # last /\ Forward(seq, last) < Half

Sends == sends < MaxSends /\ sends' = sends + 1

-----------------------------------------------------------------------------
(* The server's side of the queue *)

\* A reliable frame; a full queue drops it (and so does a machine that is gone).
EnqueueFrame ==
  /\ known # None /\ known = conn
  /\ Sends
  /\ IF Len(queue) < Cap
       THEN /\ queue' = Append(queue, accepted + 1)
            /\ accepted' = accepted + 1
       ELSE UNCHANGED <<queue, accepted>>
  /\ UNCHANGED <<session, stream, buf, heard, down, up>>

\* Motion, that has no place in the order.
EnqueueMotion ==
  /\ known # None /\ known = conn
  /\ Sends
  /\ queue' = IF Len(queue) < Cap THEN Append(queue, None) ELSE queue
  /\ UNCHANGED <<session, tcp, down, up>>

WriteFrame ==
  /\ queue # <<>> /\ Head(queue) # None
  /\ stream' = stream \o <<[part |-> "header", n |-> Head(queue)],
                           [part |-> "body", n |-> Head(queue)]>>
  /\ queue' = Tail(queue)
  /\ UNCHANGED <<session, accepted, buf, heard, down, up, sends>>

\* Without an address, motion is dropped and uses no number.
WriteMotion ==
  /\ queue # <<>> /\ Head(queue) = None
  /\ queue' = Tail(queue)
  /\ IF addr = None THEN UNCHANGED <<sent, downNet>>
     ELSE /\ sent + 1 - moved < Half
          /\ sent' = sent + 1
          /\ downNet' = downNet \cup {[port |-> addr, n |-> sent + 1]}
  /\ UNCHANGED <<session, tcp, motion_seq, moved, newest, up, sends>>

-----------------------------------------------------------------------------
(* The client's transport *)

FromHeader(b) ==
  LET heads == {i \in DOMAIN b : b[i].part = "header"}
  IN IF heads = {} THEN <<>>
     ELSE SubSeq(b, CHOOSE i \in heads : \A j \in heads : i <= j, Len(b))

Nothing(rest) == [frame |-> None, rest |-> rest]

\* Variant: one frame to a segment.
DecodeSegment(b) ==
  IF b = <<>> THEN Nothing(b)
  ELSE IF b[1].part # "header" THEN Nothing(FromHeader(b))
  ELSE IF Len(b) < 2 THEN Nothing(b)
  ELSE [frame |-> b[1].n, rest |-> <<>>]

\* A buffer that does not start with a header is scanned for one; what comes
\* after the first frame stays.
TryDecode(b) ==
  IF b = <<>> THEN Nothing(b)
  ELSE IF b[1].part # "header" THEN Nothing(FromHeader(b))
  ELSE IF Len(b) < 2 THEN Nothing(b)
  ELSE [frame |-> b[1].n, rest |-> SubSeq(b, 3, Len(b))]

\* recv gives out what the buffer has ...
Recv ==
  /\ TryDecode(buf).frame # None
  /\ heard' = TryDecode(buf).frame
  /\ buf' = TryDecode(buf).rest
  /\ UNCHANGED <<session, queue, accepted, stream, down, up, sends>>

\* ... before it reads on, as much as there happens to be.
Read ==
  /\ TryDecode(buf).frame = None
  /\ \E k \in DOMAIN stream :
       /\ buf' = TryDecode(buf).rest \o SubSeq(stream, 1, k)
       /\ stream' = SubSeq(stream, k + 1, Len(stream))
  /\ UNCHANGED <<session, queue, accepted, heard, down, up, sends>>

-----------------------------------------------------------------------------
(* The client's UDP thread *)

\* A datagram that is taken may be a copy of one still on its way.
ReceiveMotion ==
  \E d \in downNet :
    /\ d.port = conn
    /\ sent - d.n < Half
    /\ downNet' \in {downNet, downNet \ {d}}
    /\ newest' = IF d.n > newest THEN d.n ELSE newest
    /\ IF IsNewer(d.n % Space, motion_seq)
         THEN motion_seq' = d.n % Space /\ moved' = d.n
         ELSE UNCHANGED <<motion_seq, moved>>
    /\ UNCHANGED <<session, queue, tcp, sent, up, sends>>

LoseMotion ==
  \E d \in downNet :
    /\ downNet' = downNet \ {d}
    /\ UNCHANGED <<session, queue, tcp, sent, motion_seq, moved, newest, up, sends>>

\* A beacon, while the client is steered.
Beacon ==
  /\ known # None /\ known = conn
  /\ Sends
  /\ beacons + 1 < Half
  /\ beacons' = beacons + 1
  /\ upNet' = upNet \cup {[port |-> conn, n |-> beacons + 1]}
  /\ UNCHANGED <<session, queue, tcp, down, addr, tracker, latest, rx, applied>>

LoseBeacon ==
  \E d \in upNet :
    /\ upNet' = upNet \ {d}
    /\ UNCHANGED <<session, queue, tcp, down, beacons, addr, tracker, latest, rx, applied, sends>>

-----------------------------------------------------------------------------
(* The server's UDP receiver, lock by lock *)

\* Only a machine that is connected has its datagrams looked at.
Check ==
  /\ rx = Idle
  /\ \E d \in upNet :
       /\ upNet' \in {upNet, upNet \ {d}}
       /\ rx' = IF known = None THEN Idle ELSE [state |-> "checked", d |-> d]
  /\ UNCHANGED <<session, queue, tcp, down, beacons, addr, tracker, latest, applied, sends>>

\* Variant: a new port, the same numbers.
AdoptPort(port) ==
  /\ addr' = port
  /\ latest' = 0
  /\ UNCHANGED tracker

\* A machine that had an address gets a new one and starts from nothing; one
\* that had none just gets it.
Adopt(port) ==
  /\ addr' = port
  /\ latest' = 0
  /\ tracker' = IF addr = None THEN tracker ELSE None

Learn ==
  /\ rx.state = "checked"
  /\ IF rx.d.port = addr THEN UNCHANGED <<addr, latest, tracker>> ELSE Adopt(rx.d.port)
  /\ rx' = IF rx.d.n = 0 THEN Idle ELSE [rx EXCEPT !.state = "learned"]
  /\ UNCHANGED <<session, queue, tcp, down, beacons, upNet, applied, sends>>

Filter ==
  /\ rx.state = "learned"
  /\ IF IsNewer(rx.d.n % Space, tracker)
       THEN /\ tracker' = rx.d.n % Space
            /\ rx' = [rx EXCEPT !.state = "fresh"]
       ELSE /\ rx' = Idle
            /\ UNCHANGED tracker
  /\ latest' = IF rx.d.n > latest THEN rx.d.n ELSE latest
  /\ UNCHANGED <<session, queue, tcp, down, beacons, upNet, addr, applied, sends>>

\* on_remote_beacon.
Apply ==
  /\ rx.state = "fresh"
  /\ applied' = rx.d
  /\ rx' = Idle
  /\ UNCHANGED <<session, queue, tcp, down, beacons, upNet, addr, tracker, latest, sends>>

-----------------------------------------------------------------------------
(* Connections *)

\* The client has its Welcome: a new stream, a new port, new numbers, and a
\* first datagram that may come before the server has registered the machine.
Connect ==
  /\ conn < MaxConns
  /\ conn' = conn + 1
  /\ greeted' = TRUE
  /\ queue' = <<>>
  /\ accepted' = 0 /\ stream' = <<>> /\ buf' = <<>> /\ heard' = 0
  /\ sent' = 0 /\ motion_seq' = 0 /\ moved' = 0 /\ newest' = 0
  /\ beacons' = 0
  /\ upNet' = upNet \cup {[port |-> conn + 1, n |-> 0]}
  /\ UNCHANGED <<known, downNet, addr, tracker, latest, rx, applied, sends>>

\* A registration takes the place of the old one and leaves its address.
Register ==
  /\ greeted
  /\ known' = conn
  /\ greeted' = FALSE
  /\ UNCHANGED <<conn, queue, tcp, down, up, sends>>

\* teardown of the registered connection, or disconnect_client_inner.  The
\* client learns of it from its stream.
Unregister ==
  /\ known # None
  /\ TornBetween \/ rx.state # "learned"
  /\ known' = None
  /\ addr' = None /\ tracker' = None /\ latest' = 0
  /\ UNCHANGED <<conn, greeted, queue, tcp, down, beacons, upNet, rx, applied, sends>>

-----------------------------------------------------------------------------
\* A machine that never connected, or one that has been steered for so long that
\* the next number but one is the first again.
Init ==
  /\ \E n \in {0, Space - 2} :
       /\ conn = (IF n = 0 THEN None ELSE 1)
       /\ sent = n /\ motion_seq = n /\ moved = n /\ newest = n
       /\ addr = conn /\ known = conn /\ greeted = FALSE
  /\ queue = <<>> /\ accepted = 0 /\ stream = <<>> /\ buf = <<>> /\ heard = 0
  /\ downNet = {}
  /\ beacons = 0 /\ upNet = {} /\ tracker = None /\ latest = 0
  /\ rx = Idle /\ applied = [port |-> 0, n |-> 0] /\ sends = 0

Next ==
  \/ EnqueueFrame \/ EnqueueMotion \/ WriteFrame \/ WriteMotion
  \/ Recv \/ Read \/ ReceiveMotion \/ LoseMotion \/ Beacon \/ LoseBeacon
  \/ Check \/ Learn \/ Filter \/ Apply
  \/ Connect \/ Register \/ Unregister

Spec == Init /\ [][Next]_vars

-----------------------------------------------------------------------------
(* Properties *)

\* "Everything that must not be lost or reordered ... stays on TCP" (udp.rs:10-12),
\* and "several frames often share one TCP segment, and dropping the rest here
\* would silently lose messages" (transport.rs:180-182): however the stream is
\* cut, the client is given the accepted frames one after the other.
FramesInOrder == [][conn' = conn /\ heard' # heard => heard' = heard + 1]_vars

\* "equal is not-newer", "so a peer that has sent 2^32 frames keeps working"
\* (udp.rs:30-32, 71-73): after each datagram the cursor has followed the newest
\* motion of the connection, over the wrap and over a reconnection: nothing
\* older was applied after it, and nothing newer was refused.
CursorFollowsNewest == moved = newest

\* A beacon goes to the session if, and only if, it is newer than all that came
\* from its port since the port was learned: "a stale report ... could arm a
\* crossing the user never pushed for" (udp.rs:26-28), and a fresh one must not
\* be judged stale, or "the live session is deafened" (server/udp.rs:145-149).
FreshBeaconsPass ==
  [][rx.state = "learned" /\ rx' # rx => (rx'.state = "fresh" <=> rx.d.n > latest)]_vars

\* "Beacons must never be applied out of order" (udp.rs:27-28): not before one of
\* a later connection, nor before a later one of the same.
BeaconsInOrder ==
  [][applied' # applied /\ known # None =>
       \/ applied'.port > applied.port
       \/ applied'.port = applied.port /\ applied'.n > applied.n]_vars
=============================================================================
