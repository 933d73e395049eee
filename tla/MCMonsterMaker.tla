--------------------------- MODULE MCMonsterMaker ---------------------------
(* Three makers for TLC: m1 toggles m2 when it makes a monster, m2 makes without end  *)
(* and toggles itself off each time, m3 makes one monster when it is used.            *)
EXTENDS MonsterMaker, TLC

CONSTANTS m1, m2, m3, c1, c2, c3, c4

Counts == m1 :> 3 @@ m2 :> 0 @@ m3 :> 1
Limits == m1 :> 2 @@ m2 :> 1 @@ m3 :> 0
Fired == m1 :> {m2} @@ m2 :> {m2} @@ m3 :> {m1}
=============================================================================
