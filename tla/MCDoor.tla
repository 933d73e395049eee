------------------------------- MODULE MCDoor -------------------------------
(* Five doors for TLC: two pieces of one name, which d4 opens when it has shut, the   *)
(* named d4, which the first piece opens, and two that players touch.                 *)
EXTENDS Door, TLC

CONSTANTS d1, d2, d3, d4, d5

Pieces == [d \in Door |-> IF d \in {d1, d2} THEN {d1, d2} ELSE {d}]
OpenFires == [d \in Door |-> IF d = d1 THEN {d4} ELSE {}]
ShutFires == [d \in Door |-> IF d = d4 THEN {d1, d2} ELSE {}]
=============================================================================
