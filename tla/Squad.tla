------------------------------- MODULE Squad -------------------------------
(***************************************************************************)
(* Squads of monsters: dlls/squadmonster.cpp and squadmonster.h.           *)
(*                                                                         *)
(* A squad is a leader and the monsters its m_hSquadMember array lists.    *)
(* Every member points back at the leader (m_hSquadLeader).  The leader    *)
(* keeps a bit mask of the attack slots its squad has handed out           *)
(* (m_afSquadSlots) and every monster remembers the one bit it holds       *)
(* (m_iMySlot), so that only a few members attack at the same time.        *)
(*                                                                         *)
(* The m_hSquadMember array is a set here: its order is read nowhere.      *)
(* A handle whose entity was freed reads NULL (EHANDLE), so removing an    *)
(* entity clears every handle on it.                                       *)
(***************************************************************************)
EXTENDS Naturals, FiniteSets

CONSTANTS
  Monster,      \* squad monsters of one class on the map
  Enemy,        \* entities they may fight
  NULL,         \* the empty handle
  Engage,       \* bits of bits_SLOTS_HGRUNT_ENGAGE
  Grenade,      \* bits of bits_SLOTS_HGRUNT_GRENADE
  SplitSlot,    \* the bit of bits_SLOT_SQUAD_SPLIT
  NoSlot,       \* bits_NO_SLOT
  MaxSquad,     \* MAX_SQUAD_MEMBERS
  Named,        \* monsters with the squad's netname
  Flagged,      \* monsters with SF_SQUADMONSTER_LEADER
  Gambler,      \* monsters of hgrunt_heavy.cpp and miller_human.cpp
  LateSpawn,    \* BOOLEAN: monsters may start after others have died
  DieUnstarted, \* BOOLEAN: a monster may die before its first think
  SaveLoad,     \* BOOLEAN: the game may be saved and loaded
  KillTarget    \* BOOLEAN: a living monster may be removed by a killtarget

Slot == Engage \cup Grenade

ASSUME SlotsAssumption ==
  /\ Engage \subseteq Nat
  /\ Grenade \subseteq Nat
  /\ Engage \cap Grenade = {}
  /\ SplitSlot \in Nat \ (Engage \cup Grenade)
  /\ NoSlot \notin Nat
ASSUME HandlesAssumption == NULL \notin Monster \cup Enemy
ASSUME SizeAssumption == MaxSquad \in Nat \ {0}

VARIABLES
  started,   \* has StartMonster run?
  status,    \* how far the monster's death has got, see Status
  leader,    \* m_hSquadLeader
  member,    \* m_hSquadMember, used by leaders only
  slots,     \* m_afSquadSlots, used by leaders only
  mySlot,    \* m_iMySlot
  enemy,     \* m_hEnemy
  newEnemy,  \* bits_COND_NEW_ENEMY
  schedule   \* m_pSchedule, see Schedule

\* "killed": Killed has run; "dying": TASK_DIE plays the death animation; "dead":
\* deadflag is DEAD_DEAD; "removed": the edict is freed.
Status == {"alive", "killed", "dying", "dead", "removed"}

\* "none": NULL; "toss": TossGrenadeCover, a grenade and then the task
\* TASK_SET_SCHEDULE SCHED_TAKE_COVER_FROM_ENEMY; "other": any other schedule.
Schedule == {"none", "toss", "other"}

vars == <<started, status, leader, member, slots, mySlot, enemy, newEnemy, schedule>>
links == <<leader, member>>

-----------------------------------------------------------------------------
(* Queries *)

InSquad(m) == leader[m] # NULL
MySquadLeader(m) == IF InSquad(m) THEN leader[m] ELSE m
IsLeader(m) == leader[m] = m

\* What the loops over MySquadMember(0 .. MAX_SQUAD_MEMBERS - 1) of a leader visit:
\* index MAX_SQUAD_MEMBERS - 1 answers the leader itself.
Members(l) == member[l] \cup {l}

\* "not all squad members are fighting the same enemy", for the m_hEnemy fields en
SquadEnemySplit(m, en) ==
  /\ InSquad(m)
  /\ \E x \in Members(leader[m]) : en[x] \notin {NULL, en[leader[m]]}

Lowest(S) == CHOOSE s \in S : \A t \in S : s <= t

-----------------------------------------------------------------------------
(* Slots.  A pair <<mask, mine>> holds the leader's m_afSquadSlots and the *)
(* caller's m_iMySlot while a handler runs.                                *)

\* Mutant: the slot is forgotten by its holder and stays set in the leader's mask.
VacateSlotKeepsBit(m) == <<slots[MySquadLeader(m)], NoSlot>>

HeldSlot(m) == <<slots[MySquadLeader(m)], mySlot[m]>>

VacateSlot(m) ==
  IF mySlot[m] # NoSlot /\ InSquad(m)
  THEN <<slots[leader[m]] \ {mySlot[m]}, NoSlot>>
  ELSE HeldSlot(m)

\* Mutant: the bit is not marked in the leader's mask.
OccupySlotUnmarked(m, desired, split, p) ==
  IF ~InSquad(m) \/ desired \subseteq p[1] THEN p
  ELSE <<p[1], IF split THEN SplitSlot ELSE Lowest(desired \ p[1])>>

\* Mutant: the split bit is marked like any other slot.
OccupySlotMarksSplit(m, desired, split, p) ==
  IF ~InSquad(m) \/ desired \subseteq p[1] THEN p
  ELSE LET s == IF split THEN SplitSlot ELSE Lowest(desired \ p[1])
       IN <<p[1] \cup {s}, s>>

OccupySlot(m, desired, split, p) ==
  IF ~InSquad(m) THEN p
  ELSE IF split THEN <<p[1], SplitSlot>>
  ELSE IF desired \subseteq p[1] THEN p
  ELSE LET s == Lowest(desired \ p[1]) IN <<p[1] \cup {s}, s>>

-----------------------------------------------------------------------------
(* Membership *)

\* Mutant: the leader's death frees the leader only.
SquadRemoveAlone(l, m) ==
  /\ leader' = [leader EXCEPT ![m] = NULL]
  /\ member' = [member EXCEPT ![l] = IF m = l THEN {} ELSE @]

SquadRemove(l, m) ==
  LET ll == MySquadLeader(l) IN
  IF m = ll
  THEN /\ leader' = [x \in Monster |-> IF x \in member[l] \cup {m} THEN NULL ELSE leader[x]]
       /\ member' = [member EXCEPT ![l] = {}]
  ELSE /\ member' = [member EXCEPT ![ll] = @ \ {l}]
       /\ leader' = [leader EXCEPT ![m] = NULL]

\* CBaseMonster::IsAlive is deadflag # DEAD_DEAD: a dying monster counts as alive.
IsAlive(m) == status[m] \in {"alive", "killed", "dying"}

\* Who SquadRecruit accepts: by name whoever carries it, dead or alive; in the
\* sphere only the living without a name.
Recruitable(m) ==
  {x \in Monster \ {m} :
     /\ ~InSquad(x)
     /\ status[x] # "removed"
     /\ IF m \in Named THEN x \in Named ELSE x \notin Named /\ IsAlive(x)}

Room(m) == MaxSquad - 1 - Cardinality(member[m])

\* The name search stops only when SquadAdd finds no free entry; the sphere search
\* also passes over monsters out of range, out of sight or in a script.
RecruitSet(m, R) ==
  /\ R \subseteq Recruitable(m)
  /\ Cardinality(R) <= Room(m)
  /\ m \in Named => R = Recruitable(m) \/ Cardinality(R) = Room(m)

\* Mutant: SquadAdd sets the recruit's leader and forgets the array entry.
SquadRecruitUnlisted(m) ==
  \E R \in SUBSET Recruitable(m) :
    /\ RecruitSet(m, R)
    /\ UNCHANGED member
    /\ leader' = [x \in Monster |->
         IF x \in R \/ (x = m /\ R # {}) THEN m ELSE leader[x]]

SquadRecruit(m) ==
  \E R \in SUBSET Recruitable(m) :
    /\ RecruitSet(m, R)
    /\ member' = [member EXCEPT ![m] = @ \cup R]
    /\ leader' = [x \in Monster |->
         IF x \in R \/ (x = m /\ R # {}) THEN m ELSE leader[x]]

-----------------------------------------------------------------------------
(* Actions *)

\* CSquadMonster::StartMonster, the first think of a spawned monster.
StartMonster(m) ==
  /\ ~started[m]
  /\ status[m] # "removed"
  /\ started' = [started EXCEPT ![m] = TRUE]
  /\ IF ~InSquad(m) /\ (m \in Named => m \in Flagged)
     THEN SquadRecruit(m)
     ELSE UNCHANGED links
  /\ UNCHANGED <<status, slots, mySlot, enemy, newEnemy, schedule>>

\* Without LateSpawn (a map without monster makers) everybody has started before
\* the first casualty.
Casualty(m) ==
  /\ status[m] # "removed"
  /\ LateSpawn \/ \A x \in Monster : started[x]
  /\ DieUnstarted \/ started[m]

\* CSquadMonster::Killed; a corpse that is gibbed goes through it again.
Killed(m) ==
  /\ Casualty(m)
  /\ status' = [status EXCEPT ![m] = IF @ = "alive" THEN "killed" ELSE @]
  /\ slots' = [slots EXCEPT ![MySquadLeader(m)] = VacateSlot(m)[1]]
  /\ mySlot' = [mySlot EXCEPT ![m] = VacateSlot(m)[2]]
  /\ IF InSquad(m)
     THEN SquadRemove(leader[m], m)
     ELSE UNCHANGED links
  /\ UNCHANGED <<started, enemy, newEnemy, schedule>>

\* The think after Killed: the state becomes MONSTERSTATE_DEAD, ScheduleChange
\* vacates, and the death schedule starts, without the old conditions.
StartDying(m) ==
  /\ started[m] /\ status[m] = "killed"
  /\ status' = [status EXCEPT ![m] = "dying"]
  /\ slots' = [slots EXCEPT ![MySquadLeader(m)] = VacateSlot(m)[1]]
  /\ mySlot' = [mySlot EXCEPT ![m] = VacateSlot(m)[2]]
  /\ newEnemy' = [newEnemy EXCEPT ![m] = FALSE]
  /\ schedule' = [schedule EXCEPT ![m] = "other"]
  /\ UNCHANGED <<started, links, enemy>>

\* TASK_DIE ends: deadflag becomes DEAD_DEAD.
Die(m) ==
  /\ status[m] = "dying"
  /\ status' = [status EXCEPT ![m] = "dead"]
  /\ UNCHANGED <<started, links, slots, mySlot, enemy, newEnemy, schedule>>

\* UTIL_Remove: a corpse fades or is gibbed, a killtarget takes a living monster.
Remove(m) ==
  /\ Casualty(m)
  /\ status[m] # "alive" \/ KillTarget
  /\ status' = [status EXCEPT ![m] = "removed"]
  /\ leader' = [x \in Monster |-> IF x = m \/ leader[x] = m THEN NULL ELSE leader[x]]
  /\ member' = [x \in Monster |-> IF x = m THEN {} ELSE member[x] \ {m}]
  /\ slots' = [slots EXCEPT ![m] = {}]
  /\ mySlot' = [mySlot EXCEPT ![m] = NoSlot]
  /\ enemy' = [enemy EXCEPT ![m] = NULL]
  /\ newEnemy' = [newEnemy EXCEPT ![m] = FALSE]
  /\ schedule' = [schedule EXCEPT ![m] = "none"]
  /\ UNCHANGED started

Thinks(m) == started[m] /\ status[m] = "alive"

\* CBaseMonster::GetEnemy: a better enemy in sight, or PopEnemy recalls an old one.
\* The condition is raised only if the running schedule listens to it.
GetEnemy(m) ==
  /\ Thinks(m)
  /\ \E e \in Enemy \ {enemy[m]} : enemy' = [enemy EXCEPT ![m] = e]
  /\ \/ newEnemy' = [newEnemy EXCEPT ![m] = TRUE]
     \/ enemy[m] = NULL /\ UNCHANGED newEnemy
  /\ UNCHANGED <<started, status, links, slots, mySlot, schedule>>

\* The enemy's edict is freed, the dead enemy is dropped, or SetState(IDLE) strips it.
LoseEnemy(m) ==
  /\ enemy[m] # NULL
  /\ enemy' = [enemy EXCEPT ![m] = NULL]
  /\ UNCHANGED <<started, status, links, slots, mySlot, newEnemy, schedule>>

\* Whom GetIdealState may give m's new enemy with SquadMakeEnemy(m_hEnemy).
Alarmed(m) ==
  IF newEnemy[m] /\ InSquad(m) /\ enemy[m] # NULL
  THEN {x \in Members(leader[m]) : enemy[x] # enemy[m]}
  ELSE {}

\* The slots a GetSchedule call tries.  Most monsters stop at the first slot they
\* get; a gambler may take a grenade slot, lose the coin toss and ask for an
\* engage slot as well.
TrySlots(m, split, p) ==
  {p} \cup {OccupySlot(m, want, split, p) : want \in {Engage, Grenade}}
      \cup (IF m \in Gambler
            THEN {OccupySlot(m, Engage, split, OccupySlot(m, Grenade, split, p))}
            ELSE {})

\* GetScheduleOfType(SCHED_TAKE_COVER_FROM_ENEMY): the pair it leaves and the schedule
\* it chooses.  A squad's grunt that can throw a grenade and gets a slot tosses it.
TakeCover(m, split, p) ==
  {<<p, "other">>}
  \cup {c \in {<<OccupySlot(m, Grenade, split, p), "toss">>} :
          InSquad(m) /\ (split \/ ~(Grenade \subseteq p[1]))}

\* ChangeSchedule, with what the handler has made of the slots.
ChangeSchedule(m, p, sched) ==
  /\ slots' = [slots EXCEPT ![MySquadLeader(m)] = p[1]]
  /\ mySlot' = [mySlot EXCEPT ![m] = p[2]]
  /\ schedule' = [schedule EXCEPT ![m] = sched]

\* CBaseMonster::MaintainSchedule when the schedule is over or interrupted:
\* ScheduleChange vacates, GetIdealState may alarm the squad (members that see an enemy
\* of their own keep it), GetSchedule tries slots, ChangeSchedule clears the conditions.
MaintainSchedule(m) ==
  /\ Thinks(m)
  /\ \E called \in SUBSET Alarmed(m) :
       /\ enemy' = [x \in Monster |-> IF x \in called THEN enemy[m] ELSE enemy[x]]
       /\ newEnemy' = [x \in Monster |-> (x \in called \/ newEnemy[x]) /\ x # m]
  /\ LET split == SquadEnemySplit(m, enemy')
         vacated == VacateSlot(m)
     IN \E c \in (TrySlots(m, split, vacated) \X {"other"}) \cup TakeCover(m, split, vacated) :
          ChangeSchedule(m, c[1], c[2])
  /\ UNCHANGED <<started, status, links>>

\* TASK_SET_SCHEDULE: the last task of a schedule chooses the next one.  It vacates
\* nothing, and after a toss it may ask for another grenade slot.
SetSchedule(m) ==
  /\ Thinks(m)
  /\ \/ /\ schedule[m] = "toss"
        /\ \E c \in TakeCover(m, SquadEnemySplit(m, enemy), HeldSlot(m)) :
             ChangeSchedule(m, c[1], c[2])
     \/ schedule[m] = "other" /\ ChangeSchedule(m, HeldSlot(m), "other")
  /\ newEnemy' = [newEnemy EXCEPT ![m] = FALSE]
  /\ UNCHANGED <<started, status, links, enemy>>

\* A saved game is loaded: m_afSquadSlots is not among the saved fields, m_iMySlot is,
\* and CBaseMonster::Restore drops the schedule, and without an enemy the conditions.
Restore ==
  /\ SaveLoad
  /\ slots' = [m \in Monster |-> {}]
  /\ schedule' = [m \in Monster |-> "none"]
  /\ newEnemy' = [m \in Monster |-> newEnemy[m] /\ enemy[m] # NULL]
  /\ UNCHANGED <<started, status, links, mySlot, enemy>>

-----------------------------------------------------------------------------

Init ==
  /\ started = [m \in Monster |-> FALSE]
  /\ status = [m \in Monster |-> "alive"]
  /\ leader = [m \in Monster |-> NULL]
  /\ member = [m \in Monster |-> {}]
  /\ slots = [m \in Monster |-> {}]
  /\ mySlot = [m \in Monster |-> NoSlot]
  /\ enemy = [m \in Monster |-> NULL]
  /\ newEnemy = [m \in Monster |-> FALSE]
  /\ schedule = [m \in Monster |-> "none"]

Next ==
  \/ \E m \in Monster :
       \/ StartMonster(m)
       \/ Killed(m)
       \/ StartDying(m)
       \/ Die(m)
       \/ Remove(m)
       \/ GetEnemy(m)
       \/ LoseEnemy(m)
       \/ MaintainSchedule(m)
       \/ SetSchedule(m)
  \/ Restore

Spec == Init /\ [][Next]_vars

-----------------------------------------------------------------------------
(* Properties *)

\* Every field holds what its declaration allows.
TypeOK ==
  /\ started \in [Monster -> BOOLEAN]
  /\ status \in [Monster -> Status]
  /\ leader \in [Monster -> Monster \cup {NULL}]
  /\ member \in [Monster -> SUBSET Monster]
  /\ slots \in [Monster -> SUBSET Slot]
  /\ mySlot \in [Monster -> Slot \cup {SplitSlot, NoSlot}]
  /\ enemy \in [Monster -> Enemy \cup {NULL}]
  /\ newEnemy \in [Monster -> BOOLEAN]
  /\ schedule \in [Monster -> Schedule]

\* A monster that points at another one as its leader is listed in that leader's
\* m_hSquadMember: when the leader dies, SquadRemove's loop reaches it and nobody is
\* left pointing at a squad that is gone.
FollowerListed ==
  \A m \in Monster : InSquad(m) /\ ~IsLeader(m) => m \in member[leader[m]]

\* A squad's leader belongs to its own squad: MySquadLeader() is the same monster for
\* every member, so all of them read and write the same m_afSquadSlots.
LeaderLeads ==
  \A m \in Monster : InSquad(m) => IsLeader(leader[m])

Executes(m) == status[m] = "alive" /\ schedule[m] # "none" /\ InSquad(m)

\* Two living members of one squad that both run a schedule never hold the same
\* attack slot: OccupySlot hands out a bit once until VacateSlot returns it.
SlotExclusive ==
  \A m, n \in Monster :
    m # n /\ Executes(m) /\ Executes(n) /\ leader[m] = leader[n] /\ mySlot[m] \in Slot
      => mySlot[m] # mySlot[n]

\* An engage bit set in the leader's m_afSquadSlots is held by a member of the squad: a
\* squad never loses the right to shoot when a member changes schedule, falls out of
\* the squad or dies.  (A grenade bit can be lost: TASK_SET_SCHEDULE and a lost coin
\* toss put another slot over it in m_iMySlot.)
EngageIsHeld ==
  \A l \in Monster : IsLeader(l) =>
    \A s \in slots[l] \cap Engage : \E m \in Monster : leader[m] = l /\ mySlot[m] = s

\* SquadRemove "remove pRemove from my squad": whoever a leader lists is a member.
ListedFollows ==
  \A l \in Monster : IsLeader(l) => \A m \in member[l] : leader[m] = l

=============================================================================
