------------------------------ MODULE ServerMC ------------------------------
(***************************************************************************)
(* Instances of Server for TLC: two machines, one of which may have two    *)
(* connections at once, when it reconnects before its old one is noticed   *)
(* to be dead.                                                             *)
(***************************************************************************)
EXTENDS Server

CONSTANTS a1, a2, b1

Reconnecting == [c \in {a1, a2} |-> 1]
Pair == [c \in {a1, b1} |-> IF c = a1 THEN 1 ELSE 2]
=============================================================================
