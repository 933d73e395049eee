---------------------------- MODULE MonsterMaker ----------------------------
(***************************************************************************)
(* Monster makers: CMonsterMaker of dlls/monstermaker.cpp and CHordeMaker  *)
(* of dlls/hordemaker.cpp, with the notices their children send when they  *)
(* die (CBaseMonster::Killed of dlls/combat.cpp, CFunghoul::Killed).       *)
(*                                                                         *)
(* A maker drops monsters when it thinks or is used, no more than Count in *)
(* all and no more than Max at a time.  It only knows how many of them are *)
(* alive from the notices, and it removes itself when it has none left to  *)
(* make and, by its count, none alive.  Before it counts a new monster it  *)
(* fires its target, which may be another maker or the maker itself.       *)
(*                                                                         *)
(* Children are slots that are used again once a monster is gone.  Whether *)
(* a place is free to drop one is left to chance.                          *)
(***************************************************************************)
EXTENDS Integers, FiniteSets

CONSTANTS
  Maker,
  Child,
  Nobody,        \* no owner
  Count,         \* Count[m]: monstercount, 0 for no limit
  Max,           \* Max[m]: m_imaxlivechildren, 0 for no limit
  Named,         \* makers that have a targetname
  Cyclic,        \* makers flagged SF_MONSTERMAKER_CYCLIC
  StartOn,       \* makers flagged SF_MONSTERMAKER_START_ON
  Targets,       \* Targets[m]: the makers m fires when it makes a monster
  Removable,     \* makers whose children have a name, and so may be killtargeted
  Renotifying    \* makers of monsters that send a notice each time they are killed

ASSUME MakersAssumption ==
  /\ IsFiniteSet(Child) /\ Nobody \notin Maker
  /\ Count \in [Maker -> Nat] /\ Max \in [Maker -> Nat]
  /\ Named \subseteq Maker /\ Cyclic \subseteq Named /\ StartOn \subseteq Named
  /\ Removable \subseteq Maker /\ Renotifying \subseteq Maker
  /\ Targets \in [Maker -> SUBSET (Named \ Cyclic)]

VARIABLES
  maker,   \* the fields of each maker
  child    \* each child, and the maker it is owned by

vars == <<maker, child>>

Fields ==
  [live  : Nat,                           \* m_cLiveChildren
   num   : Int,                           \* m_cNumMonsters; -1 stands for all below 0
   on    : BOOLEAN,                       \* m_fActive
   makes : BOOLEAN,                       \* the think function is MakerThink
   due   : BOOLEAN,                       \* nextthink has been set
   use   : {"toggle", "cyclic", "none"},  \* the use function
   gone  : BOOLEAN]                       \* removed

Children == [Child -> [state : {"free", "alive", "dying"}, owner : Maker \cup {Nobody}]]

Free == [state |-> "free", owner |-> Nobody]

Living(m) == {c \in Child : child[c].state = "alive" /\ child[c].owner = m}

-----------------------------------------------------------------------------
(* What the functions of a maker do to its fields *)

\* Variation: the limit is passed by one.
FullLate(m) == Max[m] > 0 /\ maker[m].live > Max[m]

\* Too many live ones out right now.
Full(m) == Max[m] > 0 /\ maker[m].live >= Max[m]

\* Variation: a maker that has made its last monster can still be used.
CountedStillUsed(r) ==
  LET n == IF r.num <= 0 THEN -1 ELSE r.num - 1
  IN [r EXCEPT !.live = @ + 1, !.num = n, !.makes = @ /\ n # 0]

\* The end of MakeMonster: the new monster is counted.
Counted(r) ==
  LET n == IF r.num <= 0 THEN -1 ELSE r.num - 1
  IN [r EXCEPT !.live = @ + 1, !.num = n, !.makes = @ /\ n # 0,
               !.use = IF n = 0 THEN "none" ELSE @]

\* ToggleUse; the maker thinks at once.
Toggled(r) ==
  IF r.use = "toggle" /\ ~r.gone
  THEN [r EXCEPT !.on = ~@, !.makes = ~r.on, !.due = TRUE] ELSE r

\* Variation: a maker that has made its last monster is removed with the next death.
NotifiedHasty(r) == [r EXCEPT !.live = @ - 1, !.gone = @ \/ r.num = 0]

\* DeathNotice
Notified(r) == [r EXCEPT !.live = @ - 1, !.gone = @ \/ (r.live = 1 /\ r.num = 0)]

-----------------------------------------------------------------------------

\* MakeMonster with room in child c: the target is fired first.
MakeMonster(m, c) ==
  /\ ~Full(m)
  /\ child[c].state = "free"
  /\ LET fired == [n \in Maker |-> IF n \in Targets[m] THEN Toggled(maker[n])
                                   ELSE maker[n]]
     IN maker' = [fired EXCEPT ![m] = Counted(@)]
  /\ child' = [child EXCEPT ![c] = [state |-> "alive", owner |-> m]]

Active(m) == maker[m].makes /\ maker[m].due /\ ~maker[m].gone

MakerThink(m) == Active(m) /\ \E c \in Child : MakeMonster(m, c)

\* A trigger or a button uses a maker.
CyclicUse(m) ==
  /\ maker[m].use = "cyclic" /\ ~maker[m].gone
  /\ \E c \in Child : MakeMonster(m, c)

ToggleUse(m) ==
  /\ maker[m].use = "toggle" /\ ~maker[m].gone
  /\ maker' = [maker EXCEPT ![m] = Toggled(@)]
  /\ UNCHANGED child

\* The owner of c, if it is still there, is told of its death.
Notice(c) ==
  LET m == child[c].owner
  IN IF m # Nobody /\ ~maker[m].gone
     THEN maker' = [maker EXCEPT ![m] = Notified(@)] ELSE UNCHANGED maker

\* m_fFadeChildren is false for a maker of one monster.
OwnerLater(c) ==
  LET m == child[c].owner
  IN IF m # Nobody /\ ~maker[m].gone /\ Count[m] = 1 THEN Nobody ELSE m

\* Variation: a monster that is gibbed does not tell its owner.
KilledSilent(c) ==
  /\ child[c].state = "alive"
  /\ \/ child' = [child EXCEPT ![c] = Free] /\ UNCHANGED maker
     \/ child' = [child EXCEPT ![c] = [state |-> "dying", owner |-> OwnerLater(c)]]
        /\ Notice(c)

\* Killed: a monster dies, in pieces or leaving a body.
Killed(c) ==
  /\ child[c].state = "alive"
  /\ Notice(c)
  /\ \/ child' = [child EXCEPT ![c] = Free]
     \/ child' = [child EXCEPT ![c] = [state |-> "dying", owner |-> OwnerLater(c)]]

\* Variation: no monster remembers that it has been killed.
RenotifiesAlways(c) == child[c].owner # Nobody

\* CFunghoul::Killed does not look at bits_MEMORY_KILLED.
Renotifies(c) == child[c].owner \in Renotifying

\* A dying monster or a corpse is killed again.
KilledAgain(c) ==
  /\ child[c].state = "dying"
  /\ IF Renotifies(c) THEN Notice(c) ELSE UNCHANGED maker
  /\ \/ child' = [child EXCEPT ![c] = Free]
     \/ Renotifies(c)
        /\ child' = [child EXCEPT ![c] = [state |-> "dying", owner |-> OwnerLater(c)]]

\* The corpse of a monster that has an owner fades out.
FadeOut(c) ==
  /\ child[c].state = "dying" /\ child[c].owner # Nobody
  /\ child' = [child EXCEPT ![c] = Free]
  /\ UNCHANGED maker

\* A killtarget, or a change of level, takes a monster away: nobody is told.
Remove(c) ==
  /\ child[c].state = "alive" /\ child[c].owner \in Removable
  /\ child' = [child EXCEPT ![c] = Free]
  /\ UNCHANGED maker

-----------------------------------------------------------------------------

\* Spawn: a maker that starts on has a think function but no time to call it.
Init ==
  /\ maker = [m \in Maker |->
       [live |-> 0, num |-> Count[m], gone |-> FALSE,
        on |-> m \notin Named \/ m \in StartOn,
        makes |-> m \notin Named \/ m \in StartOn,
        due |-> m \notin Named,
        use |-> IF m \in Cyclic THEN "cyclic" ELSE IF m \in Named THEN "toggle"
                ELSE "none"]]
  /\ child = [c \in Child |-> Free]

Next ==
  \/ \E m \in Maker : MakerThink(m) \/ CyclicUse(m) \/ ToggleUse(m)
  \/ \E c \in Child : Killed(c) \/ KilledAgain(c) \/ FadeOut(c) \/ Remove(c)

Spec == Init /\ [][Next]_vars

\* A maker that thinks again and again finds its place free now and then; corpses fade.
FairSpec == /\ Spec
            /\ \A m \in Maker : SF_vars(MakerThink(m))
            /\ \A c \in Child : WF_vars(FadeOut(c))

-----------------------------------------------------------------------------
(* Properties *)

\* Every field holds what its declaration allows, and no maker counts below zero.
TypeOK == maker \in [Maker -> Fields] /\ child \in Children

\* However makers, their targets, deaths and second deaths interleave, no more
\* monsters of a maker are alive at a time than its limit.
LiveBound == \A m \in Maker : Max[m] > 0 => Cardinality(Living(m)) <= Max[m]

\* A maker with a limit never makes more monsters than it: once it has made the last
\* one, no use, target or think function makes it go on.
NeverOvermade == \A m \in Maker : Count[m] > 0 => maker[m].num >= 0

\* A maker removes itself only when none of its monsters is alive to tell it so.
NoOrphan ==
  \A c \in Child : child[c].state = "alive" => ~maker[child[c].owner].gone

\* A maker that is on does not stay below its limit for ever, if its count is
\* limited and its monsters cannot be taken away behind its back: no death goes
\* unnoticed and no toggle leaves it on without a think.
Refills ==
  \A m \in Maker \ Removable :
    Count[m] > 0 /\ Max[m] > 0 => []<>(~Active(m) \/ Cardinality(Living(m)) = Max[m])

=============================================================================
