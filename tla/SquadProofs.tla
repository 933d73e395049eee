---------------------------- MODULE SquadProofs ----------------------------
(* Theorems about Squad, for every set of monsters, enemies and slots. *)
EXTENDS Squad, TLAPS, WellFoundedInduction

(***************************************************************************)
(* Slots                                                                   *)
(***************************************************************************)

\* The scan of OccupySlot over the bits finds one: a set of free slots that is not
\* empty has a lowest element.
LEMMA LowestIn == ASSUME NEW S \in SUBSET Nat, S # {} PROVE Lowest(S) \in S
<1> DEFINE R == OpToRel(<, Nat)
<1>1. \E x \in S : \A y \in S : ~ (<<y, x>> \in R)
  BY NatLessThanWellFounded, WFMin
<1>2. PICK x \in S : \A y \in S : ~ (<<y, x>> \in R)
  BY <1>1
<1>3. ASSUME NEW y \in S, y < x PROVE FALSE
  <2>1. <<y, x>> \in R
    BY <1>3 DEF OpToRel
  <2> QED BY <1>2, <2>1
<1>4. \A y \in S : x <= y
  BY <1>3
<1> QED BY <1>4 DEF Lowest

Hold == Slot \cup {SplitSlot, NoSlot}
Pair == (SUBSET Slot) \X Hold

\* ScheduleChange leaves a mask and a held slot of the right types.
LEMMA VacateType ==
  ASSUME TypeOK, NEW m \in Monster PROVE VacateSlot(m) \in Pair
BY DEF VacateSlot, HeldSlot, Pair, Hold, TypeOK, MySquadLeader, InSquad

LEMMA HeldType ==
  ASSUME TypeOK, NEW m \in Monster PROVE HeldSlot(m) \in Pair
BY DEF HeldSlot, Pair, Hold, TypeOK, MySquadLeader, InSquad

LEMMA OccupyType ==
  ASSUME NEW m \in Monster, NEW want \in {Engage, Grenade}, NEW split, NEW p \in Pair
  PROVE  OccupySlot(m, want, split, p) \in Pair
<1>1. CASE InSquad(m) /\ ~split /\ ~(want \subseteq p[1])
  <2> DEFINE free == want \ p[1]
  <2>1. free \in SUBSET Nat /\ free # {} /\ free \subseteq Slot
    BY <1>1, SlotsAssumption DEF Slot
  <2>2. Lowest(free) \in Slot
    <3>1. Lowest(free) \in free
      BY <2>1, LowestIn
    <3> QED BY <3>1, <2>1
  <2>3. OccupySlot(m, want, split, p) = <<p[1] \cup {Lowest(free)}, Lowest(free)>>
    BY <1>1 DEF OccupySlot
  <2> QED BY <2>2, <2>3 DEF Pair, Hold
<1>2. CASE ~(InSquad(m) /\ ~split /\ ~(want \subseteq p[1]))
  BY <1>2 DEF OccupySlot, Pair, Hold
<1> QED BY <1>1, <1>2

LEMMA TryType ==
  ASSUME TypeOK, NEW m \in Monster, NEW split,
         NEW p \in TrySlots(m, split, VacateSlot(m))
  PROVE  p \in Pair
<1>1. VacateSlot(m) \in Pair
  BY VacateType
<1>2. \A want \in {Engage, Grenade} : OccupySlot(m, want, split, VacateSlot(m)) \in Pair
  BY <1>1, OccupyType
<1>3. OccupySlot(m, Engage, split, OccupySlot(m, Grenade, split, VacateSlot(m))) \in Pair
  BY <1>2, OccupyType
<1> QED BY <1>1, <1>2, <1>3 DEF TrySlots

\* What a change of schedule can do: the pair p and the schedule s that it ends with.
Choice(m, split, p, s) ==
  \/ s = "other" /\ p \in TrySlots(m, split, VacateSlot(m)) \cup {HeldSlot(m)}
  \/ /\ s = "toss" /\ InSquad(m)
     /\ \E q \in {VacateSlot(m)} \cup {h \in {HeldSlot(m)} : schedule[m] = "toss"} :
          /\ split \/ ~(Grenade \subseteq q[1])
          /\ p = OccupySlot(m, Grenade, split, q)

LEMMA CoverChoice ==
  ASSUME NEW m \in Monster, NEW split, NEW c,
         NEW q \in {VacateSlot(m)} \cup {h \in {HeldSlot(m)} : schedule[m] = "toss"},
         c \in TakeCover(m, split, q)
  PROVE  Choice(m, split, c[1], c[2])
<1>1. CASE c = <<q, "other">>
  BY <1>1 DEF Choice, TrySlots
<1>2. CASE /\ c = <<OccupySlot(m, Grenade, split, q), "toss">>
           /\ InSquad(m)
           /\ split \/ ~(Grenade \subseteq q[1])
  <2>1. PICK p : p = OccupySlot(m, Grenade, split, q)
    OBVIOUS
  <2>2. c[1] = p /\ c[2] = "toss"
    BY <1>2, <2>1
  <2> QED BY <1>2, <2>1, <2>2 DEF Choice
<1> QED BY <1>1, <1>2 DEF TakeCover

\* MaintainSchedule and TASK_SET_SCHEDULE change the schedule in one of these ways.
LEMMA Chosen ==
  ASSUME NEW m \in Monster, MaintainSchedule(m) \/ SetSchedule(m)
  PROVE  \E split, p, s : Choice(m, split, p, s) /\ ChangeSchedule(m, p, s)
<1>1. CASE MaintainSchedule(m)
  <2>1. PICK split : split = SquadEnemySplit(m, enemy')
    OBVIOUS
  <2>2. PICK c \in (TrySlots(m, split, VacateSlot(m)) \X {"other"})
                     \cup TakeCover(m, split, VacateSlot(m)) : ChangeSchedule(m, c[1], c[2])
    BY <1>1, <2>1 DEF MaintainSchedule
  <2>3. CASE c \in TrySlots(m, split, VacateSlot(m)) \X {"other"}
    BY <2>2, <2>3 DEF Choice
  <2>4. CASE c \in TakeCover(m, split, VacateSlot(m))
    BY <2>2, <2>4, CoverChoice
  <2> QED BY <2>2, <2>3, <2>4
<1>2. CASE SetSchedule(m) /\ schedule[m] = "toss"
  <2>1. PICK split : split = SquadEnemySplit(m, enemy)
    OBVIOUS
  <2>2. PICK c \in TakeCover(m, split, HeldSlot(m)) : ChangeSchedule(m, c[1], c[2])
    BY <1>2, <2>1 DEF SetSchedule
  <2> QED BY <1>2, <2>2, CoverChoice
<1>3. CASE SetSchedule(m) /\ schedule[m] # "toss"
  BY <1>3 DEF SetSchedule, Choice
<1> QED BY <1>1, <1>2, <1>3

LEMMA ChoiceType ==
  ASSUME TypeOK, NEW m \in Monster, NEW split, NEW p, NEW s, Choice(m, split, p, s)
  PROVE  p \in Pair /\ s \in Schedule
<1>1. \A q \in {VacateSlot(m), HeldSlot(m)} : OccupySlot(m, Grenade, split, q) \in Pair
  BY VacateType, HeldType, OccupyType
<1> QED BY <1>1, TryType, HeldType DEF Choice, Schedule

(***************************************************************************)
(* Type correctness                                                        *)
(***************************************************************************)

LEMMA RemoveType ==
  ASSUME TypeOK, NEW l \in Monster, NEW m \in Monster, SquadRemove(l, m)
  PROVE  /\ leader' \in [Monster -> Monster \cup {NULL}]
         /\ member' \in [Monster -> SUBSET Monster]
BY DEF SquadRemove, TypeOK, MySquadLeader, InSquad

LEMMA RecruitType ==
  ASSUME TypeOK, NEW m \in Monster, SquadRecruit(m)
  PROVE  /\ leader' \in [Monster -> Monster \cup {NULL}]
         /\ member' \in [Monster -> SUBSET Monster]
<1>1. PICK R \in SUBSET Recruitable(m) :
        /\ member' = [member EXCEPT ![m] = @ \cup R]
        /\ leader' = [x \in Monster |->
             IF x \in R \/ (x = m /\ R # {}) THEN m ELSE leader[x]]
  BY DEF SquadRecruit
<1>2. R \subseteq Monster
  BY DEF Recruitable
<1> QED BY <1>1, <1>2 DEF TypeOK

\* Every reachable state is well typed.
THEOREM TypeCorrect == Spec => []TypeOK
<1>1. Init => TypeOK
  BY DEF Init, TypeOK, Status, Schedule
<1>2. TypeOK /\ [Next]_vars => TypeOK'
  <2> SUFFICES ASSUME TypeOK, [Next]_vars PROVE TypeOK'
    OBVIOUS
  <2>1. ASSUME NEW m \in Monster, StartMonster(m) PROVE TypeOK'
    <3>1. /\ leader' \in [Monster -> Monster \cup {NULL}]
          /\ member' \in [Monster -> SUBSET Monster]
      BY <2>1, RecruitType DEF StartMonster, TypeOK, links
    <3> QED BY <2>1, <3>1 DEF StartMonster, TypeOK
  <2>2. ASSUME NEW m \in Monster, Killed(m) PROVE TypeOK'
    <3>1. /\ leader' \in [Monster -> Monster \cup {NULL}]
          /\ member' \in [Monster -> SUBSET Monster]
      <4>1. CASE InSquad(m)
        BY <2>2, <4>1, RemoveType DEF Killed, TypeOK, InSquad
      <4>2. CASE ~InSquad(m)
        BY <2>2, <4>2 DEF Killed, TypeOK, links
      <4> QED BY <4>1, <4>2
    <3> QED BY <2>2, <3>1, VacateType DEF Killed, TypeOK, Pair, Hold, Status
  <2>3. ASSUME NEW m \in Monster, StartDying(m) PROVE TypeOK'
    BY <2>3, VacateType DEF StartDying, TypeOK, Pair, Hold, Status, Schedule, links
  <2>4. ASSUME NEW m \in Monster, Die(m) PROVE TypeOK'
    BY <2>4 DEF Die, TypeOK, Status, links
  <2>5. ASSUME NEW m \in Monster, Remove(m) PROVE TypeOK'
    BY <2>5 DEF Remove, TypeOK, Status, Schedule
  <2>6. ASSUME NEW m \in Monster, GetEnemy(m) PROVE TypeOK'
    BY <2>6 DEF GetEnemy, TypeOK, links
  <2>7. ASSUME NEW m \in Monster, LoseEnemy(m) PROVE TypeOK'
    BY <2>7 DEF LoseEnemy, TypeOK, links
  <2>8. ASSUME NEW m \in Monster, MaintainSchedule(m) \/ SetSchedule(m) PROVE TypeOK'
    <3>1. enemy' \in [Monster -> Enemy \cup {NULL}] /\ newEnemy' \in [Monster -> BOOLEAN]
      BY <2>8 DEF MaintainSchedule, SetSchedule, TypeOK
    <3>2. /\ slots' \in [Monster -> SUBSET Slot]
          /\ mySlot' \in [Monster -> Hold]
          /\ schedule' \in [Monster -> Schedule]
      <4>1. PICK split, p, s : Choice(m, split, p, s) /\ ChangeSchedule(m, p, s)
        BY <2>8, Chosen
      <4>2. p \in Pair /\ s \in Schedule
        BY <4>1, ChoiceType
      <4> QED BY <4>1, <4>2 DEF ChangeSchedule, TypeOK, Pair, Hold
    <3> QED BY <2>8, <3>1, <3>2 DEF MaintainSchedule, SetSchedule, TypeOK, Hold, links
  <2>9. CASE Restore
    BY <2>9 DEF Restore, TypeOK, Schedule, links
  <2>10. CASE UNCHANGED vars
    BY <2>10 DEF vars, TypeOK
  <2> QED BY <2>1, <2>2, <2>3, <2>4, <2>5, <2>6, <2>7, <2>8, <2>9, <2>10 DEF Next
<1> QED BY <1>1, <1>2, PTL DEF Spec

(***************************************************************************)
(* Exclusive slots                                                         *)
(***************************************************************************)

\* A member's slot is marked in its leader's mask, and no two members hold the same
\* one; until everybody has started, monsters outside squads hold nothing, so that a
\* recruit brings no slot along.
HeldIsMarked ==
  \A m \in Monster : InSquad(m) /\ mySlot[m] \in Slot => mySlot[m] \in slots[leader[m]]

HeldOnce ==
  \A m, n \in Monster :
    m # n /\ InSquad(m) /\ leader[m] = leader[n] /\ mySlot[m] \in Slot => mySlot[m] # mySlot[n]

RecruitsHoldNothing ==
  (\E x \in Monster : ~started[x]) => \A m \in Monster : ~InSquad(m) => mySlot[m] = NoSlot

SlotInv == TypeOK /\ HeldIsMarked /\ HeldOnce /\ RecruitsHoldNothing

\* What a schedule change does to a slot: the bits of the other members stay set,
\* and the bit it ends with, if any, is none of theirs.
Fresh(m, p) ==
  /\ p \in Pair
  /\ slots[leader[m]] \ {mySlot[m]} \subseteq p[1]
  /\ p[2] \in Slot => p[2] \in p[1] /\ p[2] \notin slots[leader[m]] \ {mySlot[m]}

LEMMA SlotsAreNumbers == Slot \subseteq Nat /\ NoSlot \notin Slot /\ SplitSlot \notin Slot
BY SlotsAssumption DEF Slot

LEMMA VacateFresh ==
  ASSUME TypeOK, NEW m \in Monster, InSquad(m) PROVE Fresh(m, VacateSlot(m))
<1>1. VacateSlot(m) \in Pair
  BY VacateType
<1> QED BY <1>1, SlotsAreNumbers DEF Fresh, VacateSlot, HeldSlot, MySquadLeader, TypeOK

LEMMA OccupyFresh ==
  ASSUME NEW m \in Monster, InSquad(m), NEW want \in {Engage, Grenade}, NEW split,
         NEW p, Fresh(m, p)
  PROVE  Fresh(m, OccupySlot(m, want, split, p))
<1> DEFINE q == OccupySlot(m, want, split, p)
<1>0. q \in Pair
  BY OccupyType DEF Fresh
<1>1. CASE ~split /\ ~(want \subseteq p[1])
  <2> DEFINE free == want \ p[1]
  <2>1. Lowest(free) \in free
    <3>1. free \in SUBSET Nat /\ free # {}
      BY <1>1, SlotsAssumption
    <3> QED BY <3>1, LowestIn
  <2>2. q = <<p[1] \cup {Lowest(free)}, Lowest(free)>>
    BY <1>1 DEF OccupySlot
  <2>3. q[1] = p[1] \cup {Lowest(free)} /\ q[2] = Lowest(free)
    BY <2>2
  <2>4. Lowest(free) \notin p[1]
    BY <2>1
  <2> HIDE DEF q, free
  <2>5. Fresh(m, q)
    BY <1>0, <2>3, <2>4 DEF Fresh
  <2> QED BY <2>5 DEF q
<1>2. CASE split
  BY <1>0, <1>2, SlotsAreNumbers DEF OccupySlot, Fresh
<1>3. CASE ~split /\ want \subseteq p[1]
  BY <1>3 DEF OccupySlot
<1> QED BY <1>1, <1>2, <1>3

LEMMA TryFresh ==
  ASSUME TypeOK, NEW m \in Monster, InSquad(m), NEW split,
         NEW p \in TrySlots(m, split, VacateSlot(m))
  PROVE  Fresh(m, p)
<1>1. Fresh(m, VacateSlot(m))
  BY VacateFresh
<1>2. \A want \in {Engage, Grenade} : Fresh(m, OccupySlot(m, want, split, VacateSlot(m)))
  BY <1>1, OccupyFresh
<1>3. Fresh(m, OccupySlot(m, Engage, split, OccupySlot(m, Grenade, split, VacateSlot(m))))
  BY <1>2, OccupyFresh
<1> QED BY <1>1, <1>2, <1>3 DEF TrySlots

\* A slot that is kept is marked, so whatever is asked for on top of it is free too.
LEMMA ChoiceFresh ==
  ASSUME TypeOK, HeldIsMarked, NEW m \in Monster, InSquad(m), NEW split, NEW p, NEW s,
         Choice(m, split, p, s)
  PROVE  Fresh(m, p)
<1>1. Fresh(m, HeldSlot(m))
  <2>1. HeldSlot(m) = <<slots[leader[m]], mySlot[m]>>
    BY DEF HeldSlot, MySquadLeader
  <2> QED BY <2>1, HeldType DEF Fresh, HeldIsMarked
<1>2. \A q \in {VacateSlot(m), HeldSlot(m)} : Fresh(m, OccupySlot(m, Grenade, split, q))
  BY <1>1, VacateFresh, OccupyFresh
<1> QED BY <1>1, <1>2, TryFresh DEF Choice

\* Outside a squad neither VacateSlot nor OccupySlot changes anything.
LEMMA ChoiceOutside ==
  ASSUME NEW m \in Monster, ~InSquad(m), NEW split, NEW p, NEW s, Choice(m, split, p, s)
  PROVE  p = <<slots[m], mySlot[m]>> /\ s = "other"
BY DEF Choice, TrySlots, VacateSlot, HeldSlot, OccupySlot, MySquadLeader

LEMMA RemoveShrinks ==
  ASSUME TypeOK, NEW l \in Monster, NEW m \in Monster, SquadRemove(l, m)
  PROVE  /\ \A x \in Monster : leader'[x] \in {leader[x], NULL}
         /\ leader'[m] = NULL
BY DEF SquadRemove, TypeOK

\* On a map where every monster starts before the first casualty, and that is not
\* saved and loaded in between, no attack slot is ever held by two members of a
\* squad, whatever the monsters, enemies, slots, killtargets and gamblers.
THEOREM SlotsExclusive == ~LateSpawn /\ ~SaveLoad /\ Spec => []SlotExclusive
<1> SUFFICES ASSUME ~LateSpawn, ~SaveLoad PROVE Spec => []SlotExclusive
  OBVIOUS
<1>1. Init => SlotInv
  BY SlotsAreNumbers DEF Init, SlotInv, TypeOK, Status, Schedule, HeldIsMarked, HeldOnce,
     RecruitsHoldNothing, InSquad
<1>2. SlotInv /\ TypeOK' /\ [Next]_vars => SlotInv'
  <2> SUFFICES ASSUME SlotInv, TypeOK', [Next]_vars
               PROVE  HeldIsMarked' /\ HeldOnce' /\ RecruitsHoldNothing'
    BY DEF SlotInv
  <2> USE DEF SlotInv, InSquad
  <2>1. ASSUME NEW m \in Monster, StartMonster(m)
        PROVE  HeldIsMarked' /\ HeldOnce' /\ RecruitsHoldNothing'
    <3>1. \A x \in Monster : ~InSquad(x) => mySlot[x] = NoSlot
      BY <2>1 DEF StartMonster, RecruitsHoldNothing
    <3>2. UNCHANGED <<slots, mySlot>>
      BY <2>1 DEF StartMonster
    <3>3. \A x \in Monster : leader'[x] = leader[x] \/ (leader[x] = NULL /\ mySlot[x] = NoSlot)
      <4>1. CASE SquadRecruit(m) /\ ~InSquad(m)
        <5>1. PICK R \in SUBSET Recruitable(m) : leader' = [x \in Monster |->
                 IF x \in R \/ (x = m /\ R # {}) THEN m ELSE leader[x]]
          BY <4>1 DEF SquadRecruit
        <5> QED BY <3>1, <4>1, <5>1 DEF Recruitable
      <4>2. CASE UNCHANGED links
        BY <4>2 DEF links
      <4> QED BY <2>1, <4>1, <4>2 DEF StartMonster
    <3>4. HeldIsMarked'
      BY <3>2, <3>3, SlotsAreNumbers DEF HeldIsMarked
    <3>5. HeldOnce'
      BY <3>2, <3>3, SlotsAreNumbers DEF HeldOnce
    <3>6. RecruitsHoldNothing'
      BY <3>1, <3>2, <3>3 DEF RecruitsHoldNothing
    <3> QED BY <3>4, <3>5, <3>6
  <2>2. ASSUME NEW m \in Monster, Killed(m)
        PROVE  HeldIsMarked' /\ HeldOnce' /\ RecruitsHoldNothing'
    <3>1. /\ \A x \in Monster : leader'[x] \in {leader[x], NULL}
          /\ leader'[m] = NULL
      <4>1. CASE InSquad(m)
        BY <2>2, <4>1, RemoveShrinks DEF Killed, TypeOK
      <4>2. CASE ~InSquad(m)
        BY <2>2, <4>2 DEF Killed, links
      <4> QED BY <4>1, <4>2
    <3>2. \A x \in Monster \ {m} : mySlot'[x] = mySlot[x]
      BY <2>2 DEF Killed, TypeOK
    <3>3. \A l \in Monster : slots[l] \ slots'[l] \subseteq
                               IF leader[m] = l THEN {mySlot[m]} ELSE {}
      BY <2>2 DEF Killed, TypeOK, VacateSlot, HeldSlot, MySquadLeader
    <3>4. HeldIsMarked'
      <4> SUFFICES ASSUME NEW x \in Monster, leader'[x] # NULL, mySlot'[x] \in Slot
                   PROVE  mySlot'[x] \in slots'[leader'[x]]
        BY DEF HeldIsMarked
      <4>1. x # m /\ leader'[x] = leader[x] /\ leader[x] \in Monster
        BY <3>1 DEF TypeOK
      <4>2. mySlot'[x] = mySlot[x] /\ mySlot[x] \in slots[leader[x]]
        BY <3>2, <4>1 DEF HeldIsMarked
      <4>3. leader[m] = leader[x] => mySlot[x] # mySlot[m]
        BY <4>1, <4>2 DEF HeldOnce
      <4> QED BY <3>3, <4>1, <4>2, <4>3
    <3>5. HeldOnce'
      BY <3>1, <3>2 DEF HeldOnce
    <3>6. RecruitsHoldNothing'
      BY <2>2 DEF Killed, Casualty, RecruitsHoldNothing
    <3> QED BY <3>4, <3>5, <3>6
  <2>3. ASSUME NEW m \in Monster, StartDying(m)
        PROVE  HeldIsMarked' /\ HeldOnce' /\ RecruitsHoldNothing'
    <3>1. UNCHANGED <<leader, started>>
      BY <2>3 DEF StartDying, links
    <3>2. mySlot' = [mySlot EXCEPT ![m] = VacateSlot(m)[2]]
      BY <2>3 DEF StartDying
    <3>3. CASE InSquad(m)
      <4>1. Fresh(m, VacateSlot(m))
        BY <3>3, VacateFresh
      <4>2. slots' = [slots EXCEPT ![leader[m]] = VacateSlot(m)[1]]
        BY <2>3, <3>3 DEF StartDying, MySquadLeader
      <4> QED BY <3>1, <3>2, <3>3, <4>1, <4>2
              DEF Fresh, HeldIsMarked, HeldOnce, RecruitsHoldNothing, TypeOK
    <3>4. CASE ~InSquad(m)
      BY <2>3, <3>1, <3>2, <3>4 DEF StartDying, VacateSlot, HeldSlot, MySquadLeader,
         HeldIsMarked, HeldOnce, RecruitsHoldNothing, TypeOK
    <3> QED BY <3>3, <3>4
  <2>4. ASSUME NEW m \in Monster, Die(m)
        PROVE  HeldIsMarked' /\ HeldOnce' /\ RecruitsHoldNothing'
    BY <2>4 DEF Die, links, HeldIsMarked, HeldOnce, RecruitsHoldNothing
  <2>5. ASSUME NEW m \in Monster, Remove(m)
        PROVE  HeldIsMarked' /\ HeldOnce' /\ RecruitsHoldNothing'
    <3>1. \A x \in Monster : leader'[x] \in {leader[x], NULL} \ {m}
      BY <2>5, HandlesAssumption DEF Remove, TypeOK
    <3>2. /\ \A x \in Monster \ {m} : mySlot'[x] = mySlot[x] /\ slots'[x] = slots[x]
          /\ leader'[m] = NULL
      BY <2>5 DEF Remove, TypeOK
    <3>3. HeldIsMarked'
      BY <3>1, <3>2 DEF HeldIsMarked, TypeOK
    <3>4. HeldOnce'
      BY <3>1, <3>2 DEF HeldOnce
    <3>5. RecruitsHoldNothing'
      BY <2>5 DEF Remove, Casualty, RecruitsHoldNothing
    <3> QED BY <3>3, <3>4, <3>5
  <2>6. ASSUME NEW m \in Monster, GetEnemy(m) \/ LoseEnemy(m)
        PROVE  HeldIsMarked' /\ HeldOnce' /\ RecruitsHoldNothing'
    BY <2>6 DEF GetEnemy, LoseEnemy, links, HeldIsMarked, HeldOnce, RecruitsHoldNothing
  <2>7. ASSUME NEW m \in Monster, MaintainSchedule(m) \/ SetSchedule(m)
        PROVE  HeldIsMarked' /\ HeldOnce' /\ RecruitsHoldNothing'
    <3>0. PICK split, p, s : Choice(m, split, p, s) /\ ChangeSchedule(m, p, s)
      BY <2>7, Chosen
    <3>1. /\ slots' = [slots EXCEPT ![MySquadLeader(m)] = p[1]]
          /\ mySlot' = [mySlot EXCEPT ![m] = p[2]]
      BY <3>0 DEF ChangeSchedule
    <3>2. UNCHANGED <<leader, started>>
      BY <2>7 DEF MaintainSchedule, SetSchedule, links
    <3>3. CASE InSquad(m)
      <4>1. Fresh(m, p)
        BY <3>0, <3>3, ChoiceFresh
      <4>2. slots' = [slots EXCEPT ![leader[m]] = p[1]]
        BY <3>1, <3>3 DEF MySquadLeader
      <4>3. HeldIsMarked'
        BY <3>1, <3>2, <3>3, <4>1, <4>2 DEF Fresh, HeldIsMarked, HeldOnce, TypeOK
      <4>4. HeldOnce'
        <5> SUFFICES ASSUME NEW x \in Monster, NEW y \in Monster, x # y,
                            leader[x] # NULL, leader[x] = leader[y], mySlot'[x] \in Slot
                     PROVE  mySlot'[x] # mySlot'[y]
          BY <3>2 DEF HeldOnce
        <5>1. \A z \in Monster \ {m} : mySlot'[z] = mySlot[z]
          BY <3>1 DEF TypeOK
        <5>2. \A z \in Monster \ {m} : leader[z] = leader[m] /\ mySlot[z] \in Slot
                 => mySlot[z] \in slots[leader[m]] \ {mySlot[m]}
          BY <3>3 DEF HeldIsMarked, HeldOnce
        <5>3. mySlot'[m] = p[2]
          BY <3>1 DEF TypeOK
        <5> QED BY <5>1, <5>2, <5>3, <4>1 DEF Fresh, HeldOnce
      <4>5. RecruitsHoldNothing'
        BY <3>1, <3>2, <3>3 DEF RecruitsHoldNothing, TypeOK
      <4> QED BY <4>3, <4>4, <4>5
    <3>4. CASE ~InSquad(m)
      <4>1. p = <<slots[m], mySlot[m]>>
        BY <3>0, <3>4, ChoiceOutside
      <4>2. UNCHANGED <<slots, mySlot>>
        BY <3>1, <3>4, <4>1 DEF MySquadLeader, TypeOK
      <4> QED BY <3>2, <4>2 DEF HeldIsMarked, HeldOnce, RecruitsHoldNothing
    <3> QED BY <3>3, <3>4
  <2>8. CASE Restore
    BY <2>8 DEF Restore
  <2>9. CASE UNCHANGED vars
    BY <2>9 DEF vars, HeldIsMarked, HeldOnce, RecruitsHoldNothing
  <2> QED BY <2>1, <2>2, <2>3, <2>4, <2>5, <2>6, <2>7, <2>8, <2>9 DEF Next
<1>3. SlotInv => SlotExclusive
  BY DEF SlotInv, HeldOnce, SlotExclusive, Executes
<1> QED BY <1>1, <1>2, <1>3, TypeCorrect, PTL DEF Spec

(***************************************************************************)
(* The shape of squads                                                     *)
(***************************************************************************)

\* The array of a leader may list monsters that have left (SquadRemove does not
\* unlink them), but never another squad's leader; a monster that has not started
\* yet is listed only where it belongs.
ListedNotLeading ==
  \A l \in Monster : \A x \in member[l] : ~IsLeader(x)

NewcomersListed ==
  \A l \in Monster : \A x \in member[l] : ~started[x] => leader[x] = l

ShapeInv == TypeOK /\ FollowerListed /\ LeaderLeads /\ ListedNotLeading /\ NewcomersListed

Shape == FollowerListed /\ LeaderLeads /\ ListedNotLeading /\ NewcomersListed

\* Recruiting makes a new leader of a monster nobody lists or follows.
LEMMA RecruitShape ==
  ASSUME ShapeInv, NEW m \in Monster, ~started[m], ~InSquad(m), SquadRecruit(m),
         started' = [started EXCEPT ![m] = TRUE]
  PROVE  Shape'
<1> USE DEF ShapeInv, InSquad, IsLeader
<1>1. PICK R \in SUBSET Recruitable(m) :
        /\ member' = [member EXCEPT ![m] = @ \cup R]
        /\ leader' = [x \in Monster |->
             IF x \in R \/ (x = m /\ R # {}) THEN m ELSE leader[x]]
  BY DEF SquadRecruit
<1>2. R \subseteq Monster /\ m \notin R /\ \A x \in R : leader[x] = NULL
  BY DEF Recruitable
<1>3. \A x \in Monster : leader[x] # m
  BY HandlesAssumption DEF LeaderLeads
<1>4. \A l \in Monster : m \notin member[l]
  BY HandlesAssumption DEF NewcomersListed
<1>5. \A l \in Monster : member'[l] = IF l = m THEN member[l] \cup R ELSE member[l]
  BY <1>1 DEF TypeOK
<1>6. \A x \in Monster : leader'[x] = IF x \in R \/ (x = m /\ R # {}) THEN m ELSE leader[x]
  BY <1>1
<1>7. FollowerListed'
  BY <1>2, <1>5, <1>6 DEF FollowerListed, TypeOK
<1>8. LeaderLeads'
  BY <1>2, <1>3, <1>6, HandlesAssumption DEF LeaderLeads, TypeOK
<1>9. ListedNotLeading'
  <2> SUFFICES ASSUME NEW l \in Monster, NEW x \in member'[l] PROVE leader'[x] # x
    BY DEF ListedNotLeading
  <2>1. x \in Monster /\ x # m /\ (x \in R \/ x \in member[l])
    BY <1>2, <1>4, <1>5 DEF TypeOK
  <2> QED BY <1>6, <2>1 DEF ListedNotLeading
<1>10. NewcomersListed'
  <2> SUFFICES ASSUME NEW l \in Monster, NEW x \in member'[l], ~started'[x]
               PROVE  leader'[x] = l
    BY DEF NewcomersListed
  <2>1. CASE x \in R
    <3>1. x \notin member[l]
      BY <2>1, <1>2, HandlesAssumption DEF NewcomersListed, TypeOK
    <3> QED BY <3>1, <2>1, <1>5, <1>6, <1>2
  <2>2. CASE x \notin R
    <3>1. x \in member[l] /\ x \in Monster /\ x # m
      BY <2>2, <1>4, <1>5 DEF TypeOK
    <3>2. ~started[x]
      BY <3>1 DEF TypeOK
    <3> QED BY <2>2, <3>1, <3>2, <1>6 DEF NewcomersListed
  <2> QED BY <2>1, <2>2
<1> QED BY <1>7, <1>8, <1>9, <1>10 DEF Shape

\* A member leaves, or its leader takes the whole squad along.
LEMMA RemoveShape ==
  ASSUME ShapeInv, NEW m \in Monster, InSquad(m), started[m], SquadRemove(leader[m], m),
         UNCHANGED started
  PROVE  Shape'
<1> USE DEF ShapeInv, InSquad, IsLeader
<1> DEFINE l == leader[m]
<1>1. l \in Monster /\ leader[l] = l /\ MySquadLeader(l) = l
  BY HandlesAssumption DEF LeaderLeads, TypeOK, MySquadLeader
<1>2. CASE m = l
  <2>1. /\ \A x \in Monster : leader'[x] = IF x \in member[l] \cup {l} THEN NULL ELSE leader[x]
        /\ \A x \in Monster : member'[x] = IF x = l THEN {} ELSE member[x]
    BY <1>1, <1>2 DEF SquadRemove, TypeOK
  <2>2. \A x \in Monster : leader[x] = l => leader'[x] = NULL
    BY <2>1 DEF FollowerListed
  <2>3. FollowerListed'
    BY <2>1, <2>2 DEF FollowerListed, TypeOK
  <2>4. LeaderLeads'
    <3> SUFFICES ASSUME NEW x \in Monster, leader'[x] # NULL
                 PROVE  leader'[leader'[x]] = leader'[x]
      BY DEF LeaderLeads
    <3>1. leader'[x] = leader[x] /\ leader[x] # l /\ leader[x] \in Monster
      BY <2>1, <2>2 DEF TypeOK
    <3>2. leader[leader[x]] = leader[x]
      BY <3>1 DEF LeaderLeads
    <3>3. leader[x] \notin member[l]
      BY <1>1, <3>1, <3>2 DEF ListedNotLeading
    <3> QED BY <2>1, <3>1, <3>2, <3>3
  <2>5. ListedNotLeading'
    BY <2>1, HandlesAssumption DEF ListedNotLeading, TypeOK
  <2>6. NewcomersListed'
    BY <1>1, <1>2, <2>1 DEF NewcomersListed, TypeOK
  <2> QED BY <2>3, <2>4, <2>5, <2>6 DEF Shape
<1>3. CASE m # l
  <2>1. /\ \A x \in Monster : leader'[x] = IF x = m THEN NULL ELSE leader[x]
        /\ \A x \in Monster : member'[x] = IF x = l THEN member[l] \ {l} ELSE member[x]
    BY <1>1, <1>3 DEF SquadRemove, TypeOK
  <2>2. \A x \in Monster : leader[x] # m
    BY <1>3, HandlesAssumption DEF LeaderLeads
  <2>3. FollowerListed'
    BY <1>1, <2>1, <2>2 DEF FollowerListed, TypeOK
  <2>4. LeaderLeads'
    BY <2>1, <2>2 DEF LeaderLeads, TypeOK
  <2>5. ListedNotLeading'
    BY <2>1, HandlesAssumption DEF ListedNotLeading, TypeOK
  <2>6. NewcomersListed'
    BY <2>1 DEF NewcomersListed, TypeOK
  <2> QED BY <2>3, <2>4, <2>5, <2>6 DEF Shape
<1> QED BY <1>2, <1>3

\* As long as no monster dies before its first think, every member of a squad is
\* listed by its leader and every member's leader leads: SquadRemove's assertions
\* hold, and the death of a leader frees each of its followers.
THEOREM SquadShape == ~DieUnstarted /\ Spec => [](FollowerListed /\ LeaderLeads)
<1> SUFFICES ASSUME ~DieUnstarted PROVE Spec => [](FollowerListed /\ LeaderLeads)
  OBVIOUS
<1>1. Init => ShapeInv
  BY DEF Init, ShapeInv, TypeOK, Status, Schedule, FollowerListed, LeaderLeads, ListedNotLeading,
     NewcomersListed, InSquad, IsLeader
<1>2. ShapeInv /\ TypeOK' /\ [Next]_vars => ShapeInv'
  <2> SUFFICES ASSUME ShapeInv, TypeOK', [Next]_vars PROVE Shape'
    BY DEF ShapeInv, Shape
  <2> DEFINE Keeps == UNCHANGED links /\ UNCHANGED started
  <2>0. Keeps => Shape'
    BY DEF ShapeInv, Shape, links, FollowerListed, LeaderLeads, ListedNotLeading,
       NewcomersListed, InSquad, IsLeader
  <2>1. ASSUME NEW m \in Monster, StartMonster(m) PROVE Shape'
    <3>1. CASE ~InSquad(m) /\ SquadRecruit(m)
      BY <2>1, <3>1, RecruitShape DEF StartMonster
    <3>2. CASE UNCHANGED links
      BY <2>1, <3>2 DEF StartMonster, links, ShapeInv, TypeOK, Shape, FollowerListed,
         LeaderLeads, ListedNotLeading, NewcomersListed, InSquad, IsLeader
    <3> QED BY <2>1, <3>1, <3>2 DEF StartMonster
  <2>2. ASSUME NEW m \in Monster, Killed(m) PROVE Shape'
    BY <2>0, <2>2, RemoveShape DEF Killed, Casualty
  <2>3. ASSUME NEW m \in Monster, Remove(m) PROVE Shape'
    <3>1. /\ \A x \in Monster : leader'[x] =
                IF x = m \/ leader[x] = m THEN NULL ELSE leader[x]
          /\ \A x \in Monster : member'[x] = IF x = m THEN {} ELSE member[x] \ {m}
          /\ UNCHANGED started
      BY <2>3 DEF Remove
    <3>2. FollowerListed'
      BY <3>1 DEF ShapeInv, FollowerListed, InSquad, IsLeader, TypeOK
    <3>3. LeaderLeads'
      BY <3>1 DEF ShapeInv, LeaderLeads, InSquad, IsLeader, TypeOK
    <3>4. ListedNotLeading'
      BY <3>1, HandlesAssumption DEF ShapeInv, ListedNotLeading, IsLeader, TypeOK
    <3>5. NewcomersListed'
      BY <3>1 DEF ShapeInv, NewcomersListed, TypeOK
    <3> QED BY <3>2, <3>3, <3>4, <3>5 DEF Shape
  <2>4. ASSUME NEW m \in Monster,
               StartDying(m) \/ Die(m) \/ GetEnemy(m) \/ LoseEnemy(m)
               \/ MaintainSchedule(m) \/ SetSchedule(m)
        PROVE  Shape'
    BY <2>0, <2>4 DEF StartDying, Die, GetEnemy, LoseEnemy, MaintainSchedule, SetSchedule
  <2>5. CASE Restore
    BY <2>0, <2>5 DEF Restore
  <2>6. CASE UNCHANGED vars
    BY <2>0, <2>6 DEF vars, links
  <2> QED BY <2>1, <2>2, <2>3, <2>4, <2>5, <2>6 DEF Next
<1>3. ShapeInv => FollowerListed /\ LeaderLeads
  BY DEF ShapeInv
<1> QED BY <1>1, <1>2, <1>3, TypeCorrect, PTL DEF Spec

\* Followers are listed by the leader they follow.
COROLLARY FollowersListed == ~DieUnstarted /\ Spec => []FollowerListed
BY SquadShape, PTL

(***************************************************************************)
(* Engage slots                                                            *)
(***************************************************************************)

\* Until everybody has started nobody has died, a monster outside a squad has marked
\* nothing that it would bring along as a leader and tosses no grenade, and whom a
\* leader lists follows it.
BeforeCasualties ==
  (\E x \in Monster : ~started[x]) =>
    /\ \A m \in Monster : status[m] = "alive"
    /\ \A m \in Monster : ~InSquad(m) => slots[m] = {} /\ schedule[m] # "toss"
    /\ \A l \in Monster : \A x \in member[l] : leader[x] = l

\* Afterwards nobody joins another squad, and the dead are in none.
ListedHere == \A l \in Monster : \A x \in member[l] : leader[x] \in {l, NULL}
DeadOutside == \A m \in Monster : status[m] # "alive" => ~InSquad(m)

\* The slot that a grenade's toss holds, and that TASK_SET_SCHEDULE may overwrite, is a
\* grenade slot or the split slot.
TossHolds ==
  \A m \in Monster : InSquad(m) /\ schedule[m] = "toss" => mySlot[m] \notin Engage

MarkInv == EngageIsHeld /\ BeforeCasualties /\ ListedHere /\ DeadOutside /\ TossHolds

\* What a schedule change leaves marked of the engage slots: those of the others, and
\* the one the monster ends with.
Others(m) == slots[leader[m]] \ {mySlot[m]}
Tight(m, p) == p[1] \cap Engage \subseteq Others(m) \cup {p[2]}

LEMMA VacateTight ==
  ASSUME TypeOK, NEW m \in Monster, InSquad(m)
  PROVE  VacateSlot(m) = <<Others(m), NoSlot>>
BY SlotsAreNumbers DEF VacateSlot, HeldSlot, Others, MySquadLeader, TypeOK, InSquad

\* OccupySlot adds at most the slot that it ends with.
LEMMA OccupyTight ==
  ASSUME NEW m \in Monster, NEW want, NEW split, NEW p, p[1] \cap Engage \subseteq Others(m)
  PROVE  Tight(m, OccupySlot(m, want, split, p))
<1>1. PICK s : s = Lowest(want \ p[1])
  OBVIOUS
<1>2. OccupySlot(m, want, split, p) \in {p, <<p[1], SplitSlot>>, <<p[1] \cup {s}, s>>}
  BY <1>1 DEF OccupySlot
<1>3. Tight(m, p) /\ Tight(m, <<p[1], SplitSlot>>) /\ Tight(m, <<p[1] \cup {s}, s>>)
  BY DEF Tight
<1> QED BY <1>2, <1>3

\* A grenade slot asked for and got is no engage slot, and marks none.
LEMMA GrenadeTight ==
  ASSUME NEW m \in Monster, NEW split, NEW p
  PROVE  LET q == OccupySlot(m, Grenade, split, p)
         IN  /\ q[1] \cap Engage = p[1] \cap Engage
             /\ (InSquad(m) /\ (split \/ ~(Grenade \subseteq p[1]))) => q[2] \notin Engage
<1>1. CASE InSquad(m) /\ ~split /\ ~(Grenade \subseteq p[1])
  <2>1. PICK s : s = Lowest(Grenade \ p[1])
    OBVIOUS
  <2>2. s \in Grenade
    <3>1. (Grenade \ p[1]) \in SUBSET Nat /\ Grenade \ p[1] # {}
      BY <1>1, SlotsAssumption
    <3> QED BY <2>1, <3>1, LowestIn
  <2>3. s \notin Engage
    BY <2>2, SlotsAssumption
  <2>4. OccupySlot(m, Grenade, split, p) = <<p[1] \cup {s}, s>>
    BY <1>1, <2>1 DEF OccupySlot
  <2> QED BY <2>3, <2>4
<1>2. CASE InSquad(m) /\ split
  <2>1. OccupySlot(m, Grenade, split, p) = <<p[1], SplitSlot>>
    BY <1>2 DEF OccupySlot
  <2> QED BY <2>1, SlotsAssumption
<1>3. CASE ~InSquad(m) \/ (~split /\ Grenade \subseteq p[1])
  BY <1>3 DEF OccupySlot
<1> QED BY <1>1, <1>2, <1>3

LEMMA TryTight ==
  ASSUME TypeOK, NEW m \in Monster, InSquad(m), NEW split,
         NEW p \in TrySlots(m, split, VacateSlot(m))
  PROVE  Tight(m, p)
<1>1. PICK v : v = VacateSlot(m)
  OBVIOUS
<1>2. v[1] = Others(m)
  BY <1>1, VacateTight
<1>3. PICK g : g = OccupySlot(m, Grenade, split, v)
  OBVIOUS
<1>4. v[1] \cap Engage \subseteq Others(m) /\ g[1] \cap Engage \subseteq Others(m)
  BY <1>2, <1>3, GrenadeTight
<1>5. /\ Tight(m, v)
      /\ Tight(m, g)
      /\ Tight(m, OccupySlot(m, Engage, split, v))
      /\ Tight(m, OccupySlot(m, Engage, split, g))
  BY <1>3, <1>4, OccupyTight DEF Tight
<1> QED BY <1>1, <1>3, <1>5 DEF TrySlots

LEMMA ChoiceTight ==
  ASSUME TypeOK, TossHolds, NEW m \in Monster, InSquad(m), NEW split, NEW p, NEW s,
         Choice(m, split, p, s)
  PROVE  Tight(m, p) /\ (s = "toss" => p[2] \notin Engage)
<1>1. PICK h : h = HeldSlot(m)
  OBVIOUS
<1>2. h[1] = slots[leader[m]] /\ h[2] = mySlot[m]
  BY <1>1 DEF HeldSlot, MySquadLeader
<1>3. Tight(m, h)
  BY <1>2 DEF Tight, Others
<1>4. CASE s = "other"
  BY <1>1, <1>3, <1>4, TryTight DEF Choice
<1>5. CASE s = "toss"
  <2>1. PICK q \in {VacateSlot(m)} \cup {x \in {h} : schedule[m] = "toss"} :
          /\ split \/ ~(Grenade \subseteq q[1])
          /\ p = OccupySlot(m, Grenade, split, q)
    BY <1>1, <1>5 DEF Choice
  <2>2. q[1] \cap Engage \subseteq Others(m)
    <3>1. CASE q = VacateSlot(m)
      BY <3>1, VacateTight
    <3>2. CASE q = h /\ schedule[m] = "toss"
      BY <1>2, <3>2 DEF TossHolds, Others
    <3> QED BY <2>1, <3>1, <3>2
  <2>3. Tight(m, p)
    BY <2>1, <2>2, OccupyTight
  <2>4. p[2] \notin Engage
    BY <2>1, GrenadeTight
  <2> QED BY <2>3, <2>4
<1> QED BY <1>4, <1>5 DEF Choice

\* Where no monster starts after a casualty, no game is loaded and no living monster is
\* removed, an engage bit that is set in a leader's mask is the slot of one of the
\* squad: the right to shoot is given back however its holder ends, whatever grenade
\* slots are taken before coin tosses or asked for by TASK_SET_SCHEDULE.
THEOREM NoEngageLost ==
  ~LateSpawn /\ ~DieUnstarted /\ ~SaveLoad /\ ~KillTarget /\ Spec => []EngageIsHeld
<1> SUFFICES ASSUME ~LateSpawn, ~DieUnstarted, ~SaveLoad, ~KillTarget
             PROVE  Spec => []EngageIsHeld
  OBVIOUS
<1>1. Init => MarkInv
  BY DEF Init, MarkInv, EngageIsHeld, BeforeCasualties, ListedHere, DeadOutside, TossHolds,
     InSquad, IsLeader
<1>2. MarkInv /\ TypeOK /\ TypeOK' /\ FollowerListed /\ LeaderLeads /\ [Next]_vars
        => MarkInv'
  <2> SUFFICES ASSUME MarkInv, TypeOK, TypeOK', FollowerListed, LeaderLeads, [Next]_vars
               PROVE  MarkInv'
    OBVIOUS
  <2> USE DEF InSquad, IsLeader
  <2>1. ASSUME NEW m \in Monster, StartMonster(m) PROVE MarkInv'
    <3>1. /\ \A x \in Monster : status[x] = "alive"
          /\ \A x \in Monster : leader[x] = NULL => slots[x] = {} /\ schedule[x] # "toss"
          /\ \A l \in Monster : \A x \in member[l] : leader[x] = l
      BY <2>1 DEF StartMonster, MarkInv, BeforeCasualties
    <3>2. UNCHANGED <<status, slots, mySlot, schedule>>
      BY <2>1 DEF StartMonster
    <3>3. CASE UNCHANGED links
      BY <3>1, <3>2, <3>3 DEF links, MarkInv, EngageIsHeld, BeforeCasualties, ListedHere,
         DeadOutside, TossHolds
    <3>4. CASE ~InSquad(m) /\ SquadRecruit(m)
      <4>1. PICK R \in SUBSET Recruitable(m) :
              /\ member' = [member EXCEPT ![m] = @ \cup R]
              /\ leader' = [x \in Monster |->
                   IF x \in R \/ (x = m /\ R # {}) THEN m ELSE leader[x]]
        BY <3>4 DEF SquadRecruit
      <4>2. \A x \in R : x \in Monster /\ leader[x] = NULL
        BY DEF Recruitable
      <4>3. \A x \in Monster : leader[x] # NULL => leader'[x] = leader[x]
        BY <3>4, <4>1, <4>2
      <4>4. \A x \in Monster : leader'[x] \in {leader[x], m}
        BY <4>1
      <4>5. EngageIsHeld'
        <5> SUFFICES ASSUME NEW l \in Monster, leader'[l] = l, NEW s \in slots[l] \cap Engage
                     PROVE  \E x \in Monster : leader'[x] = l /\ mySlot[x] = s
          BY <3>2 DEF EngageIsHeld
        <5>1. leader[l] = l
          BY <3>1, <3>4, <4>4
        <5>2. PICK x \in Monster : leader[x] = l /\ mySlot[x] = s
          BY <5>1 DEF MarkInv, EngageIsHeld
        <5> QED BY <4>3, <5>2, HandlesAssumption
      <4>6. \A l \in Monster : \A x \in member'[l] : leader'[x] = l
        BY <3>1, <4>1, <4>2, <4>3, HandlesAssumption DEF TypeOK
      <4>7. \A x \in Monster : leader'[x] = NULL => slots'[x] = {} /\ schedule'[x] # "toss"
        BY <3>1, <3>2, <4>3
      <4>8. BeforeCasualties' /\ ListedHere' /\ DeadOutside'
        BY <3>1, <3>2, <4>6, <4>7 DEF BeforeCasualties, ListedHere, DeadOutside
      <4>9. TossHolds'
        BY <3>1, <3>2 DEF MarkInv, TossHolds
      <4> QED BY <4>5, <4>8, <4>9 DEF MarkInv
    <3> QED BY <2>1, <3>3, <3>4 DEF StartMonster
  <2>2. ASSUME NEW m \in Monster, Killed(m) PROVE MarkInv'
    <3>1. \A x \in Monster : started'[x]
      BY <2>2 DEF Killed, Casualty
    <3>2. CASE ~InSquad(m)
      <4>1. UNCHANGED <<leader, member, slots, mySlot, schedule>>
        BY <2>2, <3>2 DEF Killed, links, VacateSlot, HeldSlot, MySquadLeader, TypeOK
      <4>2. \A x \in Monster \ {m} : status'[x] = status[x]
        BY <2>2 DEF Killed, TypeOK
      <4> QED BY <3>1, <3>2, <4>1, <4>2 DEF MarkInv, EngageIsHeld, BeforeCasualties,
                 ListedHere, DeadOutside, TossHolds
    <3>3. CASE InSquad(m)
      <4>1. PICK l \in Monster : l = leader[m] /\ leader[l] = l
        BY <3>3 DEF LeaderLeads, TypeOK
      <4>2. /\ slots' = [slots EXCEPT ![l] = slots[l] \ {mySlot[m]}]
            /\ mySlot' = [mySlot EXCEPT ![m] = NoSlot]
        <5>1. VacateSlot(m) = <<slots[l] \ {mySlot[m]}, NoSlot>>
          BY <3>3, <4>1, VacateTight DEF Others
        <5>2. MySquadLeader(m) = l
          BY <3>3, <4>1 DEF MySquadLeader
        <5>3. /\ slots' = [slots EXCEPT ![MySquadLeader(m)] = VacateSlot(m)[1]]
              /\ mySlot' = [mySlot EXCEPT ![m] = VacateSlot(m)[2]]
          BY <2>2 DEF Killed
        <5> QED BY <5>1, <5>2, <5>3
      <4>3. SquadRemove(l, m)
        BY <2>2, <3>3, <4>1 DEF Killed
      <4>4. /\ \A x \in Monster : leader'[x] \in {leader[x], NULL}
            /\ leader'[m] = NULL
        BY <4>3, RemoveShrinks
      <4>5. \A x \in Monster : member'[x] \subseteq member[x]
        BY <4>3 DEF SquadRemove, TypeOK
      <4>6. \A x \in Monster :
              leader[x] # NULL /\ leader[x] # m /\ x # m => leader'[x] = leader[x]
        <5>1. CASE m = l
          BY <4>1, <4>3, <5>1 DEF SquadRemove, MySquadLeader, MarkInv, ListedHere, TypeOK
        <5>2. CASE m # l
          BY <4>1, <4>3, <5>2 DEF SquadRemove, MySquadLeader, TypeOK
        <5> QED BY <5>1, <5>2
      <4>7. EngageIsHeld'
        <5> SUFFICES ASSUME NEW k \in Monster, leader'[k] = k, NEW s \in slots'[k] \cap Engage
                     PROVE  \E x \in Monster : leader'[x] = k /\ mySlot'[x] = s
          BY DEF EngageIsHeld
        <5>1. leader[k] = k /\ k # m
          BY <4>4, HandlesAssumption
        <5>2. s \in slots[k] /\ (k = l => s # mySlot[m])
          BY <4>2 DEF TypeOK
        <5>3. PICK x \in Monster : leader[x] = k /\ mySlot[x] = s
          BY <5>1, <5>2 DEF MarkInv, EngageIsHeld
        <5>4. x # m
          BY <4>1, <5>2, <5>3
        <5> QED BY <4>2, <4>6, <5>1, <5>3, <5>4, HandlesAssumption DEF TypeOK
      <4>8. ListedHere'
        BY <4>4, <4>5 DEF MarkInv, ListedHere, TypeOK
      <4>9. DeadOutside'
        BY <2>2, <4>4 DEF Killed, MarkInv, DeadOutside, TypeOK
      <4>10. TossHolds'
        BY <2>2, <4>2, <4>4 DEF Killed, MarkInv, TossHolds, TypeOK
      <4> QED BY <3>1, <4>7, <4>8, <4>9, <4>10 DEF MarkInv, BeforeCasualties
    <3> QED BY <3>2, <3>3
  <2>3. ASSUME NEW m \in Monster, StartDying(m) PROVE MarkInv'
    <3>1. ~InSquad(m)
      BY <2>3 DEF StartDying, MarkInv, DeadOutside
    <3>2. UNCHANGED <<leader, member, slots, mySlot, started>>
      BY <2>3, <3>1 DEF StartDying, links, VacateSlot, HeldSlot, MySquadLeader, TypeOK
    <3>3. /\ schedule' = [schedule EXCEPT ![m] = "other"]
          /\ status' = [status EXCEPT ![m] = "dying"]
          /\ status[m] # "alive"
      BY <2>3 DEF StartDying
    <3> QED BY <3>1, <3>2, <3>3 DEF MarkInv, EngageIsHeld, BeforeCasualties, ListedHere,
               DeadOutside, TossHolds, TypeOK
  <2>4. ASSUME NEW m \in Monster, Die(m) PROVE MarkInv'
    <3>1. ~InSquad(m) /\ status[m] # "alive"
      BY <2>4 DEF Die, MarkInv, DeadOutside
    <3> QED BY <2>4, <3>1 DEF Die, links, MarkInv, EngageIsHeld, BeforeCasualties,
               ListedHere, DeadOutside, TossHolds, TypeOK
  <2>5. ASSUME NEW m \in Monster, Remove(m) PROVE MarkInv'
    <3>1. \A x \in Monster : started'[x]
      BY <2>5 DEF Remove, Casualty
    <3>2. leader[m] = NULL
      BY <2>5 DEF Remove, MarkInv, DeadOutside
    <3>3. \A x \in Monster : leader[x] # m
      BY <3>2, HandlesAssumption DEF LeaderLeads
    <3>4. UNCHANGED leader
      BY <2>5, <3>2, <3>3 DEF Remove, TypeOK
    <3>5. /\ \A x \in Monster : member'[x] \subseteq member[x]
          /\ \A x \in Monster \ {m} : /\ status'[x] = status[x] /\ slots'[x] = slots[x]
                                     /\ mySlot'[x] = mySlot[x]
                                     /\ schedule'[x] = schedule[x]
      BY <2>5 DEF Remove, TypeOK
    <3> QED BY <3>1, <3>2, <3>4, <3>5, HandlesAssumption DEF MarkInv, EngageIsHeld,
               BeforeCasualties, ListedHere, DeadOutside, TossHolds
  <2>6. ASSUME NEW m \in Monster, GetEnemy(m) \/ LoseEnemy(m) PROVE MarkInv'
    BY <2>6 DEF GetEnemy, LoseEnemy, links, MarkInv, EngageIsHeld, BeforeCasualties,
       ListedHere, DeadOutside, TossHolds
  <2>7. ASSUME NEW m \in Monster, MaintainSchedule(m) \/ SetSchedule(m) PROVE MarkInv'
    <3>0. PICK split, p, s : Choice(m, split, p, s) /\ ChangeSchedule(m, p, s)
      BY <2>7, Chosen
    <3>1. /\ slots' = [slots EXCEPT ![MySquadLeader(m)] = p[1]]
          /\ mySlot' = [mySlot EXCEPT ![m] = p[2]]
          /\ schedule' = [schedule EXCEPT ![m] = s]
      BY <3>0 DEF ChangeSchedule
    <3>2. UNCHANGED <<leader, member, started, status>>
      BY <2>7 DEF MaintainSchedule, SetSchedule, links
    <3>3. CASE InSquad(m)
      <4>1. PICK l \in Monster : l = leader[m] /\ leader[l] = l
        BY <3>3 DEF LeaderLeads, TypeOK
      <4>2. Tight(m, p) /\ (s = "toss" => p[2] \notin Engage)
        BY <3>0, <3>3, ChoiceTight DEF MarkInv
      <4>3. slots' = [slots EXCEPT ![l] = p[1]]
        BY <3>1, <3>3, <4>1 DEF MySquadLeader
      <4>4. EngageIsHeld'
        <5> SUFFICES ASSUME NEW k \in Monster, leader[k] = k, NEW e \in slots'[k] \cap Engage
                     PROVE  \E x \in Monster : leader[x] = k /\ mySlot'[x] = e
          BY <3>2 DEF EngageIsHeld
        <5>1. CASE k = l /\ e = p[2]
          BY <3>1, <4>1, <5>1 DEF TypeOK
        <5>2. CASE ~(k = l /\ e = p[2])
          <6>1. e \in slots[k] /\ (k = l => e # mySlot[m])
            BY <4>1, <4>2, <4>3, <5>2 DEF Tight, Others, TypeOK
          <6>2. PICK x \in Monster : leader[x] = k /\ mySlot[x] = e
            BY <6>1 DEF MarkInv, EngageIsHeld
          <6>3. x # m
            BY <4>1, <6>1, <6>2
          <6> QED BY <3>1, <6>2, <6>3 DEF TypeOK
        <5> QED BY <5>1, <5>2
      <4>5. \A x \in Monster : leader[x] = NULL => slots'[x] = slots[x]
        BY <4>1, <4>3, HandlesAssumption DEF TypeOK
      <4>6. TossHolds'
        BY <3>1, <3>2, <4>2 DEF MarkInv, TossHolds, TypeOK
      <4>7. \A x \in Monster : leader[x] = NULL => schedule'[x] = schedule[x]
        BY <3>1, <3>3 DEF TypeOK
      <4> QED BY <3>2, <4>4, <4>5, <4>6, <4>7
              DEF MarkInv, BeforeCasualties, ListedHere, DeadOutside
    <3>4. CASE ~InSquad(m)
      <4>1. p = <<slots[m], mySlot[m]>> /\ s = "other"
        BY <3>0, <3>4, ChoiceOutside
      <4>2. UNCHANGED <<slots, mySlot>>
        BY <3>1, <3>4, <4>1 DEF MySquadLeader, TypeOK
      <4>3. \A x \in Monster : schedule'[x] = "toss" => schedule[x] = "toss"
        BY <3>1, <4>1 DEF TypeOK
      <4> QED BY <3>2, <4>2, <4>3 DEF MarkInv, EngageIsHeld, BeforeCasualties, ListedHere,
                 DeadOutside, TossHolds
    <3> QED BY <3>3, <3>4
  <2>8. CASE Restore
    BY <2>8 DEF Restore
  <2>9. CASE UNCHANGED vars
    BY <2>9 DEF vars, MarkInv, EngageIsHeld, BeforeCasualties, ListedHere, DeadOutside,
       TossHolds
  <2> QED BY <2>1, <2>2, <2>3, <2>4, <2>5, <2>6, <2>7, <2>8, <2>9 DEF Next
<1>3. MarkInv => EngageIsHeld
  BY DEF MarkInv
<1> QED BY <1>1, <1>2, <1>3, TypeCorrect, SquadShape, PTL DEF Spec

=============================================================================
