---------------------------- MODULE MCInventory ----------------------------
(* A handgun, a submachine gun that shares its ammunition, and headcrabs to throw. *)
EXTENDS Inventory, TLC

Kinds == {"glock", "mp5", "crab"}
Of(f) == [c \in Class |-> f[c]]
Rounded == Of("glock" :> "9mm" @@ "mp5" :> "9mm" @@ "crab" :> "crab")
Clips == Of("glock" :> 2 @@ "mp5" :> 1 @@ "crab" :> NoClip)
Carried == "9mm" :> 2 @@ "crab" :> 1
Given == Of("glock" :> 1 @@ "mp5" :> 2 @@ "crab" :> 1)
Weights == Of("glock" :> 10 @@ "mp5" :> 15 @@ "crab" :> 5)

Symmetry == Permutations(Weapon) \cup Permutations(Player)
=============================================================================
