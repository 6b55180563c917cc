------------------------------ MODULE Switching ------------------------------
(***************************************************************************)
(* What the session promises the rest of the system, with no geometry: the *)
(* cursor is on one screen; it enters a client's screen only while that    *)
(* client is connected and has a screen, and the step that loses the       *)
(* client takes the cursor home.  Session implements this.                 *)
(***************************************************************************)
EXTENDS Integers

HOME == 0     \* the server's own screen

VARIABLES
  mode,       \* the screen the cursor is on
  connected,  \* ids whose client is connected
  ids         \* ids of the screens of the running layout

vars == <<mode, connected, ids>>

Init == mode = HOME /\ connected = {} /\ HOME \in ids

\* The cursor moves to a screen that can answer for it.
Switch ==
  /\ mode' \in ids
  /\ mode' \in connected \cup {HOME}
  /\ UNCHANGED <<connected, ids>>

Connect ==
  /\ connected \subseteq connected'
  /\ UNCHANGED <<mode, ids>>

\* A client is lost; a client dropped by policy takes its screen with it.
Lose(id) ==
  /\ id # HOME
  /\ connected' = connected \ {id}
  /\ mode' = IF mode = id THEN HOME ELSE mode
  /\ ids' = ids \/ ids' = ids \ {id}

\* The desktop changes: it grows around the cursor, or the cursor goes home.
Rearrange ==
  /\ HOME \in ids'
  /\ mode' = HOME \/ (mode' = mode /\ ids \subseteq ids')
  /\ UNCHANGED connected

Next == Switch \/ Connect \/ (\E id \in ids \cup connected \cup {mode} : Lose(id)) \/ Rearrange

Spec == Init /\ [][Next]_vars

\* The cursor is home, or on a screen of the desktop whose client is connected.
CursorIsAnswered == HOME \in ids /\ (mode = HOME \/ mode \in connected \cap ids)
=============================================================================
