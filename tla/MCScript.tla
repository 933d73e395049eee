------------------------------ MODULE MCScript ------------------------------
(* Two walkers of one group, an AI script that the first of them fires, and a script that  *)
(* puts whoever of the two is idle on its mark and has to be triggered to go on.           *)
EXTENDS Script, TLC

CONSTANTS p, q, a, b, c, d

Names == a :> "g" @@ b :> "g" @@ c :> "c" @@ d :> "d"
Wanted == a :> {p} @@ b :> {q} @@ c :> {p} @@ d :> {p, q}
Moves == a :> "walk" @@ b :> "walk" @@ c :> "walk" @@ d :> "warp"
Fired == a :> {c} @@ b :> {b} @@ c :> {} @@ d :> {a}

Maps == {[scripts |-> {a, b}, troubles |-> 1], [scripts |-> {a, c}, troubles |-> 2],
         [scripts |-> {a, d}, troubles |-> 1], [scripts |-> {b, d}, troubles |-> 1]}
=============================================================================
