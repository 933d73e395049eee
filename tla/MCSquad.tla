------------------------------ MODULE MCSquad ------------------------------
(* Squads of three and of four monsters for TLC, with no, one or two enemies. *)
EXTENDS Squad, TLC

CONSTANTS m1, m2, m3, m4

\* Three monsters that differ in nothing.
Symmetric == Permutations({m1, m2, m3}) \cup Permutations(Enemy)

\* Two flagged monsters and two without the flag.
Pairs == {f @@ g : f \in Permutations({m1, m2}), g \in Permutations({m3, m4})}
=============================================================================
