------------------------- MODULE MonsterMakerProofs -------------------------
(* Theorems about MonsterMaker, for any number of makers and children, any limits and *)
(* any targets, when each monster sends one notice of its death.                      *)
EXTENDS MonsterMaker, FiniteSetTheorems, TLAPS

-----------------------------------------------------------------------------
(* The invariant: what a maker with fields r, whose living children are L, knows *)

Knows(m, r, L) ==
  /\ Cardinality(L) <= r.live
  /\ Max[m] > 0 => r.live <= Max[m]
  /\ Count[m] > 0 => r.num >= 0
  /\ Count[m] > 0 /\ r.num = 0 => ~r.makes /\ r.use = "none"
  /\ Count[m] = 0 => r.num <= 0 /\ (r.num = 0 => r.live = 0)
  /\ r.gone => L = {}

Owned == \A c \in Child : child[c].state = "alive" => child[c].owner \in Maker

IInv == TypeOK /\ Owned /\ \A m \in Maker : Knows(m, maker[m], Living(m))

-----------------------------------------------------------------------------
(* What the functions of a maker do to what it knows *)

LEMMA LivingFinite ==
  ASSUME NEW m \in Maker
  PROVE  IsFiniteSet(Living(m))
<1>1. Living(m) \subseteq Child
  BY DEF Living
<1> QED BY <1>1, MakersAssumption, FS_Subset

LEMMA ToggledKnows ==
  ASSUME NEW m \in Maker, NEW r \in Fields, NEW L, Knows(m, r, L)
  PROVE  Toggled(r) \in Fields /\ Knows(m, Toggled(r), L)
<1>1. CASE r.use = "toggle" /\ ~r.gone
  <2>1. Toggled(r) = [r EXCEPT !.on = ~@, !.makes = ~r.on, !.due = TRUE]
    BY <1>1 DEF Toggled
  <2> QED BY <1>1, <2>1 DEF Knows, Fields
<1>2. CASE ~(r.use = "toggle" /\ ~r.gone)
  BY <1>2 DEF Toggled
<1> QED BY <1>1, <1>2

\* Counting one more: there was room and something left to make.
LEMMA CountedKnows ==
  ASSUME NEW m \in Maker, NEW r \in Fields, NEW L, NEW c,
         IsFiniteSet(L), c \notin L, Knows(m, r, L), ~r.gone,
         Max[m] > 0 => r.live < Max[m],
         Count[m] > 0 => r.num # 0
  PROVE  Counted(r) \in Fields /\ Knows(m, Counted(r), L \cup {c})
<1> DEFINE n == IF r.num <= 0 THEN -1 ELSE r.num - 1
<1>1. Counted(r) = [r EXCEPT !.live = r.live + 1, !.num = n, !.makes = r.makes /\ n # 0,
                             !.use = IF n = 0 THEN "none" ELSE r.use]
  BY DEF Counted
<1>2. /\ r.live \in Nat /\ r.num \in Int /\ n \in Int /\ r.makes \in BOOLEAN
      /\ Max[m] \in Nat /\ Count[m] \in Nat
  BY MakersAssumption DEF Fields
<1>3. Counted(r) \in Fields
  <2>1. r.live + 1 \in Nat /\ (r.makes /\ n # 0) \in BOOLEAN
    BY <1>2
  <2>2. (IF n = 0 THEN "none" ELSE r.use) \in {"toggle", "cyclic", "none"}
    BY DEF Fields
  <2> HIDE DEF n
  <2> QED BY <1>1, <1>2, <2>1, <2>2 DEF Fields
<1>4. /\ Counted(r).live = r.live + 1 /\ Counted(r).num = n /\ Counted(r).gone = r.gone
      /\ n = 0 => ~Counted(r).makes /\ Counted(r).use = "none"
  BY <1>1 DEF Fields
<1>5. Cardinality(L \cup {c}) = Cardinality(L) + 1 /\ Cardinality(L) \in Nat
  BY FS_AddElement, FS_CardinalityType
<1>6. Count[m] > 0 => n >= 0
  BY <1>2 DEF Knows
<1>7. Count[m] = 0 => n < 0
  BY <1>2 DEF Knows
<1> HIDE DEF n
<1> QED BY <1>2, <1>3, <1>4, <1>5, <1>6, <1>7 DEF Knows

\* A death that is noticed.
LEMMA NotifiedKnows ==
  ASSUME NEW m \in Maker, NEW r \in Fields, NEW L, NEW c \in L,
         IsFiniteSet(L), Knows(m, r, L)
  PROVE  Notified(r) \in Fields /\ Knows(m, Notified(r), L \ {c})
<1> DEFINE g == r.gone \/ (r.live = 1 /\ r.num = 0)
<1>1. Cardinality(L \ {c}) = Cardinality(L) - 1 /\ Cardinality(L) \in Nat
      /\ Cardinality(L \ {c}) \in Nat /\ IsFiniteSet(L \ {c})
  BY FS_RemoveElement, FS_CardinalityType
<1>2. /\ r.live \in Nat /\ r.num \in Int /\ g \in BOOLEAN
      /\ Max[m] \in Nat /\ Count[m] \in Nat
  BY MakersAssumption DEF Fields
<1>3. r.live - 1 \in Nat
  BY <1>1, <1>2 DEF Knows
<1>4. Notified(r) = [r EXCEPT !.live = r.live - 1, !.gone = g]
  BY DEF Notified
<1>5. ~r.gone
  BY DEF Knows
<1>6. g => L \ {c} = {}
  <2>1. SUFFICES ASSUME r.live = 1
                 PROVE  L \ {c} = {}
    BY <1>5
  <2>2. Cardinality(L \ {c}) = 0
    BY <1>1, <1>2, <2>1 DEF Knows
  <2> QED BY <1>1, <2>2, FS_EmptySet
<1> HIDE DEF g
<1>7. Notified(r) \in Fields
  BY <1>2, <1>3, <1>4 DEF Fields
<1>8. /\ Notified(r).live = r.live - 1 /\ Notified(r).num = r.num
      /\ Notified(r).makes = r.makes /\ Notified(r).use = r.use /\ Notified(r).gone = g
  BY <1>4 DEF Fields
<1>9. Count[m] = 0 => r.num # 0
  BY <1>1, <1>2, <1>3 DEF Knows
<1> QED BY <1>1, <1>2, <1>3, <1>6, <1>7, <1>8, <1>9 DEF Knows

\* A death that is not.
LEMMA FewerKnows ==
  ASSUME NEW m \in Maker, NEW r \in Fields, NEW L, NEW c,
         IsFiniteSet(L), Knows(m, r, L)
  PROVE  Knows(m, r, L \ {c})
<1>1. Cardinality(L \ {c}) <= Cardinality(L) /\ Cardinality(L) \in Nat
      /\ Cardinality(L \ {c}) \in Nat
  BY FS_RemoveElement, FS_CardinalityType
<1>2. r.live \in Nat
  BY DEF Fields
<1>3. Cardinality(L \ {c}) <= r.live
  BY <1>1, <1>2 DEF Knows
<1> QED BY <1>3 DEF Knows

-----------------------------------------------------------------------------
(* Every step keeps the invariant *)

LEMMA InitKnows == Init => IInv
<1> SUFFICES ASSUME Init PROVE IInv
  OBVIOUS
<1>1. TypeOK
  BY MakersAssumption DEF Init, TypeOK, Fields, Children, Free
<1>2. Owned
  BY DEF Init, Owned, Free
<1>3. ASSUME NEW m \in Maker
      PROVE  Knows(m, maker[m], Living(m))
  <2>1. Living(m) = {}
    BY DEF Init, Living, Free
  <2>2. Cardinality(Living(m)) = 0
    BY <2>1, FS_EmptySet
  <2>3. maker[m].live = 0 /\ maker[m].num = Count[m] /\ maker[m].gone = FALSE
    BY DEF Init
  <2>4. Count[m] \in Nat /\ Max[m] \in Nat
    BY MakersAssumption
  <2> QED BY <2>1, <2>2, <2>3, <2>4 DEF Knows
<1> QED BY <1>1, <1>2, <1>3 DEF IInv

LEMMA MakeKnows ==
  ASSUME IInv, NEW m \in Maker, NEW c \in Child, MakeMonster(m, c),
         ~maker[m].gone, maker[m].makes \/ maker[m].use # "none"
  PROVE  IInv'
<1> DEFINE fired == [n \in Maker |-> IF n \in Targets[m] THEN Toggled(maker[n])
                                     ELSE maker[n]]
<1>1. /\ maker' = [fired EXCEPT ![m] = Counted(fired[m])]
      /\ child' = [child EXCEPT ![c] = [state |-> "alive", owner |-> m]]
      /\ child[c].state = "free" /\ ~Full(m)
  BY DEF MakeMonster
<1>2. ASSUME NEW n \in Maker
      PROVE  /\ maker[n] \in Fields /\ Knows(n, maker[n], Living(n))
             /\ IsFiniteSet(Living(n))
  BY LivingFinite DEF IInv, TypeOK
<1>3. ASSUME NEW n \in Maker
      PROVE  fired[n] \in Fields /\ Knows(n, fired[n], Living(n))
  BY <1>2, ToggledKnows
<1>4. /\ fired[m].live = maker[m].live /\ fired[m].num = maker[m].num
      /\ fired[m].gone = maker[m].gone
  <2>1. /\ Toggled(maker[m]).live = maker[m].live /\ Toggled(maker[m]).num = maker[m].num
        /\ Toggled(maker[m]).gone = maker[m].gone
    BY <1>2 DEF Toggled, Fields
  <2> QED BY <2>1
<1>5. /\ Max[m] > 0 => maker[m].live < Max[m]
      /\ Count[m] > 0 => maker[m].num # 0
  <2>1. maker[m].live \in Nat /\ Max[m] \in Nat /\ maker[m] \in Fields
    BY <1>2, MakersAssumption DEF Fields
  <2>2. Max[m] > 0 => maker[m].live < Max[m]
    BY <1>1, <2>1 DEF Full
  <2>3. Count[m] > 0 => maker[m].num # 0
    BY <1>2 DEF Knows
  <2> QED BY <2>2, <2>3
<1>6. Living(m)' = Living(m) \cup {c} /\ c \notin Living(m)
  BY <1>1 DEF Living, IInv, TypeOK, Children
<1>7. ASSUME NEW n \in Maker, n # m
      PROVE  Living(n)' = Living(n)
  BY <1>1, <1>7 DEF Living, IInv, TypeOK, Children
<1>8. Counted(fired[m]) \in Fields /\ Knows(m, Counted(fired[m]), Living(m) \cup {c})
  <2> HIDE DEF fired
  <2> QED BY <1>2, <1>3, <1>4, <1>5, <1>6, CountedKnows
<1>9. fired \in [Maker -> Fields]
  BY <1>3
<1> HIDE DEF fired
<1>10. TypeOK'
  BY <1>1, <1>8, <1>9 DEF IInv, TypeOK, Children
<1>11. Owned'
  BY <1>1 DEF IInv, Owned, TypeOK, Children
<1>12. ASSUME NEW n \in Maker
       PROVE  Knows(n, maker[n], Living(n))'
  <2>1. CASE n = m
    <3>1. maker'[n] = Counted(fired[m])
      BY <1>1, <1>9, <2>1
    <3> QED BY <1>6, <1>8, <2>1, <3>1 DEF Knows
  <2>2. CASE n # m
    <3>1. maker'[n] = fired[n] /\ Living(n)' = Living(n)
      BY <1>1, <1>7, <1>9, <2>2
    <3> QED BY <1>3, <3>1 DEF Knows
  <2> QED BY <2>1, <2>2
<1> QED BY <1>10, <1>11, <1>12 DEF IInv

LEMMA ToggleKnows ==
  ASSUME IInv, NEW m \in Maker, ToggleUse(m)
  PROVE  IInv'
<1>1. maker' = [maker EXCEPT ![m] = Toggled(maker[m])] /\ UNCHANGED child
  BY DEF ToggleUse
<1>2. \A n \in Maker : maker[n] \in Fields /\ Knows(n, maker[n], Living(n))
  BY DEF IInv, TypeOK
<1>3. Toggled(maker[m]) \in Fields /\ Knows(m, Toggled(maker[m]), Living(m))
  BY <1>2, ToggledKnows
<1>4. TypeOK' /\ Owned'
  BY <1>1, <1>3 DEF IInv, TypeOK, Owned
<1>5. ASSUME NEW n \in Maker
      PROVE  Knows(n, maker[n], Living(n))'
  <2>1. Living(n)' = Living(n)
    BY <1>1 DEF Living
  <2>2. maker'[n] = IF n = m THEN Toggled(maker[m]) ELSE maker[n]
    BY <1>1 DEF IInv, TypeOK
  <2> QED BY <1>2, <1>3, <2>1, <2>2 DEF Knows
<1> QED BY <1>4, <1>5 DEF IInv

\* A living child is killed, or taken away with no notice.
LEMMA DeathKnows ==
  ASSUME IInv, NEW c \in Child, child[c].state = "alive",
         NEW x \in [state : {"free", "dying"}, owner : Maker \cup {Nobody}],
         child' = [child EXCEPT ![c] = x],
         Notice(c) \/ UNCHANGED maker
  PROVE  IInv'
<1>1. PICK m \in Maker : m = child[c].owner /\ m # Nobody
  BY MakersAssumption DEF IInv, Owned
<1>2. ASSUME NEW n \in Maker
      PROVE  /\ maker[n] \in Fields /\ Knows(n, maker[n], Living(n))
             /\ IsFiniteSet(Living(n))
  BY LivingFinite DEF IInv, TypeOK
<1>3. c \in Living(m)
  BY <1>1 DEF Living
<1>4. Living(m)' = Living(m) \ {c}
  BY <1>1 DEF Living, IInv, TypeOK, Children
<1>5. ASSUME NEW n \in Maker, n # m
      PROVE  Living(n)' = Living(n)
  BY <1>1, <1>5 DEF Living, IInv, TypeOK, Children
<1>6. child' \in Children /\ Owned'
  BY DEF IInv, TypeOK, Owned, Children
<1>7. CASE UNCHANGED maker
  <2>1. Knows(m, maker[m], Living(m) \ {c})
    BY <1>1, <1>2, FewerKnows
  <2>2. \A n \in Maker : Knows(n, maker[n], Living(n))'
    BY <1>2, <1>4, <1>5, <1>7, <2>1 DEF Knows
  <2> QED BY <1>6, <1>7, <2>2 DEF IInv, TypeOK
<1>8. CASE Notice(c)
  <2>1. ~maker[m].gone
    BY <1>1, <1>2, <1>3 DEF Knows
  <2>2. maker' = [maker EXCEPT ![m] = Notified(maker[m])]
    BY <1>1, <1>8, <2>1 DEF Notice
  <2>3. Notified(maker[m]) \in Fields /\ Knows(m, Notified(maker[m]), Living(m) \ {c})
    BY <1>1, <1>2, <1>3, NotifiedKnows
  <2>4. maker' \in [Maker -> Fields]
    BY <2>2, <2>3 DEF IInv, TypeOK
  <2>5. ASSUME NEW n \in Maker
        PROVE  Knows(n, maker[n], Living(n))'
    <3>1. CASE n = m
      <4>1. maker'[n] = Notified(maker[m])
        BY <2>2, <3>1 DEF IInv, TypeOK
      <4> QED BY <1>4, <2>3, <3>1, <4>1 DEF Knows
    <3>2. CASE n # m
      <4>1. maker'[n] = maker[n]
        BY <2>2, <3>2 DEF IInv, TypeOK
      <4> QED BY <1>2, <1>5, <3>2, <4>1 DEF Knows
    <3> QED BY <3>1, <3>2
  <2> QED BY <1>6, <2>4, <2>5 DEF IInv, TypeOK
<1> QED BY <1>7, <1>8

\* What happens to a body that sends no notice changes no maker.
LEMMA BodyKnows ==
  ASSUME IInv, NEW c \in Child, child[c].state = "dying",
         child' = [child EXCEPT ![c] = Free], UNCHANGED maker
  PROVE  IInv'
<1>1. child' \in Children /\ Owned'
  BY DEF IInv, TypeOK, Owned, Children, Free
<1>2. ASSUME NEW n \in Maker
      PROVE  Knows(n, maker[n], Living(n))'
  <2>1. Living(n)' = Living(n)
    BY DEF Living, IInv, TypeOK, Children, Free
  <2> QED BY <2>1 DEF IInv, Knows
<1> QED BY <1>1, <1>2 DEF IInv, TypeOK

LEMMA NextKnows == Renotifying = {} /\ IInv /\ [Next]_vars => IInv'
<1> SUFFICES ASSUME Renotifying = {}, IInv, [Next]_vars
             PROVE  IInv'
  OBVIOUS
<1> DEFINE Bodies == [state : {"free", "dying"}, owner : Maker \cup {Nobody}]
<1>1. ASSUME NEW m \in Maker, MakerThink(m)
      PROVE  IInv'
  BY <1>1, MakeKnows DEF MakerThink, Active
<1>2. ASSUME NEW m \in Maker, CyclicUse(m)
      PROVE  IInv'
  BY <1>2, MakeKnows DEF CyclicUse
<1>3. ASSUME NEW m \in Maker, ToggleUse(m)
      PROVE  IInv'
  BY <1>3, ToggleKnows
<1>4. ASSUME NEW c \in Child, Killed(c)
      PROVE  IInv'
  <2>1. Free \in Bodies /\ [state |-> "dying", owner |-> OwnerLater(c)] \in Bodies
    BY DEF Free, OwnerLater, IInv, TypeOK, Children
  <2> QED BY <1>4, <2>1, DeathKnows DEF Killed
<1>5. ASSUME NEW c \in Child, KilledAgain(c)
      PROVE  IInv'
  <2>1. ~Renotifies(c)
    BY DEF Renotifies
  <2> QED BY <1>5, <2>1, BodyKnows DEF KilledAgain
<1>6. ASSUME NEW c \in Child, FadeOut(c)
      PROVE  IInv'
  BY <1>6, BodyKnows DEF FadeOut
<1>7. ASSUME NEW c \in Child, Remove(c)
      PROVE  IInv'
  <2>1. Free \in Bodies
    BY DEF Free
  <2> QED BY <1>7, <2>1, DeathKnows DEF Remove
<1>8. CASE UNCHANGED vars
  BY <1>8 DEF vars, IInv, TypeOK, Owned, Knows, Living
<1> QED BY <1>1, <1>2, <1>3, <1>4, <1>5, <1>6, <1>7, <1>8 DEF Next

-----------------------------------------------------------------------------
(* Theorems *)

LEMMA Invariance == Renotifying = {} /\ Spec => []IInv
<1> SUFFICES ASSUME Renotifying = {} PROVE Spec => []IInv
  OBVIOUS
<1>1. IInv /\ [Next]_vars => IInv'
  BY NextKnows
<1> QED BY <1>1, InitKnows, PTL DEF Spec

\* Every reachable state is well typed: no maker counts fewer than none alive.
THEOREM TypeCorrect == Renotifying = {} /\ Spec => []TypeOK
<1>1. IInv => TypeOK
  BY DEF IInv
<1> QED BY <1>1, Invariance, PTL

\* The limits on the monsters alive and on the monsters made hold however makers,
\* targets and deaths interleave.
THEOREM LimitsHold == Renotifying = {} /\ Spec => [](LiveBound /\ NeverOvermade)
<1>1. ASSUME IInv PROVE LiveBound /\ NeverOvermade
  <2>1. ASSUME NEW m \in Maker, Max[m] > 0
        PROVE  Cardinality(Living(m)) <= Max[m]
    <3>1. IsFiniteSet(Living(m))
      BY LivingFinite
    <3>2. /\ Cardinality(Living(m)) \in Nat /\ maker[m].live \in Nat /\ Max[m] \in Nat
      BY <1>1, <3>1, FS_CardinalityType, MakersAssumption DEF IInv, TypeOK, Fields
    <3> QED BY <1>1, <2>1, <3>2 DEF IInv, Knows
  <2>2. NeverOvermade
    BY <1>1 DEF IInv, Knows, NeverOvermade
  <2> QED BY <2>1, <2>2 DEF LiveBound
<1> QED BY <1>1, Invariance, PTL

\* The limit on the monsters made, by itself.
COROLLARY NoneTooMany == Renotifying = {} /\ Spec => []NeverOvermade
BY LimitsHold, PTL

\* No maker removes itself while one of its monsters is alive.
THEOREM NoneOrphaned == Renotifying = {} /\ Spec => []NoOrphan
<1>1. ASSUME IInv PROVE NoOrphan
  <2>1. ASSUME NEW c \in Child, child[c].state = "alive"
        PROVE  ~maker[child[c].owner].gone
    <3>1. child[c].owner \in Maker
      BY <1>1, <2>1 DEF IInv, Owned
    <3>2. c \in Living(child[c].owner)
      BY <2>1 DEF Living
    <3> QED BY <1>1, <3>1, <3>2 DEF IInv, Knows
  <2> QED BY <2>1 DEF NoOrphan
<1> QED BY <1>1, Invariance, PTL
=============================================================================
