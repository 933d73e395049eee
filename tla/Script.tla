------------------------------- MODULE Script -------------------------------
(***************************************************************************)
(* Scripted sequences (dlls/scripted.cpp) and the part of a monster's      *)
(* thinking that carries them out (dlls/schedule.cpp, monsterstate.cpp,    *)
(* monsters.cpp, combat.cpp).                                              *)
(*                                                                         *)
(* A script takes a monster, which from then on is its own; the monster    *)
(* notices at its next think, walks to the mark, waits for the others of   *)
(* the group (the scripts of the same name), plays and is let go.  Damage, *)
(* death, a saved game and rival scripts may come in between.  m_pCine of  *)
(* the monster and m_hTargetEnt of the script are the link; m_iDelay of a  *)
(* script counts the monsters of its group that are still on their way.    *)
(***************************************************************************)
EXTENDS Integers, FiniteSets

CONSTANTS
  Monster, Script, None,
  Name,         \* Name[s]: the targetname of script s, "" for none
  Wants,        \* Wants[s]: the monsters that m_iszEntity stands for
  ByClass,      \* the scripts whose m_iszEntity is the name of a class
  MoveTo,       \* MoveTo[s]: "none", "walk" or "warp"
  AI,           \* aiscripted_sequences
  Idles,        \* the scripts with an idle sequence, m_iszIdle
  Plays,        \* the scripts with a sequence to play, m_iszPlay
  Override,     \* SF_SCRIPT_OVERRIDESTATE
  Repeatable,   \* SF_SCRIPT_REPEATABLE
  NoInterrupt,  \* SF_SCRIPT_NOINTERRUPT
  Fires,        \* Fires[s]: the scripts that s fires at its end
  Scenes,       \* the maps: which scripts there are, and a bound on the troubles, that is
                \* how often a monster is hurt or a game is loaded
  Moods,        \* the states a monster is in that is left to itself
  MaxDelay      \* bound: m_iDelay of a group that has lost count

ASSUME ScriptAssumption ==
  /\ None \notin Monster /\ None \notin Script
  /\ Name \in [Script -> STRING]
  /\ Wants \in [Script -> SUBSET Monster]
  /\ MoveTo \in [Script -> {"none", "walk", "warp"}]
  /\ Fires \in [Script -> SUBSET Script]
  /\ AI \subseteq Script /\ NoInterrupt \subseteq Script /\ Repeatable \subseteq Script
  /\ Scenes \subseteq [scripts : SUBSET Script, troubles : Nat]
  /\ "idle" \in Moods /\ Moods \subseteq {"idle", "alert", "combat"}
  /\ MaxDelay \in Nat

VARIABLES
  cine,      \* m_pCine of a monster
  state,     \* m_MonsterState
  ideal,     \* m_IdealMonsterState
  task,      \* the part of its schedule it is at; "none" when there is no schedule
  life,      \* deadflag
  playing,   \* the monsters whose m_scriptState is SCRIPT_PLAYING
  hurt,      \* those with bits_COND_LIGHT_DAMAGE
  low,       \* those whose health is not above 0
  killed,    \* those with bits_MEMORY_KILLED
  target,    \* m_hTargetEnt of a script
  delay,     \* m_iDelay
  start,     \* m_startTime: "set" or, a million seconds ahead, "never"
  think,     \* the think function that is due; "gone" for a removed script
  bends,     \* the scripts whose m_interruptable is set
  lost,      \* history: the scripts whose group has lost count of who is on the way
  late,      \* history: the monsters shot after a script let go of them, before a think
  troubles   \* how many troubles are left

monsterVars == <<cine, state, ideal, task, life, playing, hurt, low, killed>>
scriptVars == <<target, delay, start, think, bends>>
vars == <<monsterVars, scriptVars, lost, late, troubles>>

AtMark == {"wait", "play"}

-----------------------------------------------------------------------------
(* Groups *)

There(s) == think[s] # "gone"

\* FIND_ENTITY_BY_TARGETNAME with the name of s, which finds nothing for "".
Group(s) == IF Name[s] = "" THEN {} ELSE {x \in Script : Name[x] = Name[s] /\ There(x)}

\* Scripts whose walk to the mark is counted in m_iDelay of the group.
Counts(s) == s \notin AI /\ MoveTo[s] = "walk"

\* The monster was counted by DelayStart and has not come to TASK_ENABLE_SCRIPT.
OnWay(m) ==
  /\ cine[m] # None
  /\ Counts(cine[m]) /\ ideal[m] = "script"
  /\ ~(state[m] = "script" /\ task[m] \in AtMark)

Alive(m) == life[m] # "dead"   \* IsAlive: not DEAD_DEAD

-----------------------------------------------------------------------------
(* CineCleanup of the monsters in M.  One that was dying is dead at once;  *)
(* one without health dies at its next think.                              *)

CineAfter(M) == [m \in Monster |-> IF m \in M THEN None ELSE cine[m]]
TargetAfter(M) == [s \in Script |-> IF \E m \in M : cine[m] = s THEN None ELSE target[s]]
LifeAfter(M) == [m \in Monster |-> IF m \in M /\ life[m] = "dying" THEN "dead" ELSE life[m]]
StateAfter(M) == [m \in Monster |-> IF m \in M /\ life[m] = "dying" THEN "dead" ELSE state[m]]
HurtAfter(M) == hurt \cup {m \in M \cap low : life[m] # "dying"}

\* Variation: a monster without health goes back to normal.
IdealAfterAlive(M) ==
  [m \in Monster |-> IF m \notin M THEN ideal[m]
                     ELSE IF life[m] = "dying" THEN "dead" ELSE "idle"]

\* Variation: the ideal state stays as it was.
IdealAfterKept(M) ==
  [m \in Monster |-> IF m \in M /\ life[m] = "dying" THEN "dead" ELSE ideal[m]]

IdealAfter(M) ==
  [m \in Monster |-> IF m \notin M THEN ideal[m]
                     ELSE IF life[m] = "dying" \/ m \in low THEN "dead" ELSE "idle"]

\* A walker that is let go before it has come to its mark stays counted.
LostAfter(M) == lost \cup UNION {Group(cine[m]) : m \in {x \in M : OnWay(x)}}

\* The monsters that CancelScript of s lets go: ScriptEntityCancel passes over AI scripts
\* and over monsters that have not yet come into the script state.
Victims(s) ==
  {m \in Monster : /\ cine[m] \in (IF Name[s] = "" THEN {s} ELSE Group(s)) \ AI
                   /\ state[m] = "script"}

Cleanup(M) ==
  /\ cine' = CineAfter(M) /\ target' = TargetAfter(M) /\ life' = LifeAfter(M)
  /\ lost' = LostAfter(M)

-----------------------------------------------------------------------------
(* Scripts *)

\* Use of the scripts in S, when the links are tgt and the thinks are thk: a script that
\* has a monster is started, one that has none looks for one.
Used(S, tgt, thk) ==
  /\ start' = [s \in Script |-> IF /\ s \in S /\ thk[s] # "gone" /\ tgt[s] # None
                                   /\ tgt[s] \notin playing
                                THEN "set" ELSE start[s]]
  /\ think' = [s \in Script |-> IF s \in S /\ thk[s] # "gone" /\ tgt[s] = None
                                THEN "cine" ELSE thk[s]]

\* A trigger uses a script.
Use(s) ==
  /\ There(s)
  /\ Used({s}, target, think)
  /\ UNCHANGED <<monsterVars, target, delay, bends, lost, late, troubles>>

\* Variation: a monster is taken that another script has.
CanPlaySequenceShared(m, s) ==
  /\ Alive(m)
  /\ \/ s \in AI \cup Override
     \/ state[m] = "idle" \/ ideal[m] = "idle"
     \/ state[m] = "alert" /\ s \notin ByClass

CanPlaySequence(m, s) ==
  /\ cine[m] = None /\ Alive(m)
  /\ \/ s \in AI \cup Override
     \/ state[m] = "idle" \/ ideal[m] = "idle"
     \/ state[m] = "alert" /\ s \notin ByClass

\* Variation: the others are not told to wait.
DelayedNot(s) == s \in Script /\ UNCHANGED delay

\* DelayStart(true), for a walk.
Delayed(s) ==
  delay' = [x \in Script |-> IF x \in Group(s) \ AI THEN delay[x] + 1 ELSE delay[x]]

\* What a monster does first that finds itself in the hands of s.  To be in nobody's is
\* what ASSERT(m_pCine != NULL) excludes.
FirstTask(s) == IF s = None THEN "other" ELSE IF MoveTo[s] = "walk" THEN "walk" ELSE "wait"

\* PossessEntity.  A monster that is still in the script state, because another script has
\* let it go since it last thought, goes on with the schedule it has; not so in the hands
\* of an AI script, which gives it a new one.
PossessEntity(m, s) ==
  /\ cine' = [cine EXCEPT ![m] = s] /\ target' = [target EXCEPT ![s] = m]
  /\ playing' = playing \ {m} /\ ideal' = [ideal EXCEPT ![m] = "script"]
  /\ IF Counts(s) THEN Delayed(s) /\ \A x \in Group(s) : delay[x] < MaxDelay
     ELSE UNCHANGED delay
  /\ start' = IF MoveTo[s] = "warp" THEN [start EXCEPT ![s] = "never"] ELSE start
  /\ IF s \in AI /\ state[m] = "script"
     THEN task' = [task EXCEPT ![m] = FirstTask(s)] /\ hurt' = hurt \ {m}
     ELSE UNCHANGED <<task, hurt>>
  /\ lost' = IF s \notin AI /\ state[m] = "script" /\ task[m] # "none"
             THEN lost \cup Group(s) \cup {s} ELSE lost

\* CineThink: it may also be that nobody can be found, and then the whole group is
\* cancelled, and CineThink is called again.
CineThink(s) ==
  /\ think[s] = "cine"
  /\ LET free == {m \in Wants[s] : CanPlaySequence(m, s)} IN
     \/ \E m \in free :
          /\ PossessEntity(m, s)
          /\ think' = [think EXCEPT ![s] = "none"]
          /\ UNCHANGED <<state, life>>
     \/ /\ free = {}
        /\ Cleanup(Victims(s))
        /\ state' = StateAfter(Victims(s)) /\ ideal' = IdealAfter(Victims(s))
        /\ hurt' = HurtAfter(Victims(s))
        /\ UNCHANGED <<task, playing, delay, start, think>>
  /\ UNCHANGED <<low, killed, bends, late, troubles>>

\* SUB_Remove, a tenth of a second after SequenceDone.
Remove(s) ==
  /\ think[s] = "remove"
  /\ think' = [think EXCEPT ![s] = "gone"]
  /\ UNCHANGED <<monsterVars, target, delay, start, bends, lost, late, troubles>>

\* SequenceDone of the script that m is in.
SequenceDone(m) ==
  LET s == cine[m] IN
  /\ Cleanup({m})
  /\ state' = StateAfter({m})
  /\ hurt' = HurtAfter({m})
  /\ task' = [task EXCEPT ![m] = "none"]
  /\ ideal' = IdealAfter({m})
  /\ Used(Fires[s], TargetAfter({m}),
          IF s \in Repeatable THEN think ELSE [think EXCEPT ![s] = "remove"])
  /\ UNCHANGED <<playing, low, killed, delay, bends, late, troubles>>

-----------------------------------------------------------------------------
(* Monsters *)

CanInterrupt(s) == s \in bends /\ target[s] # None /\ life[target[s]] = "no"

\* IgnoreConditions may drop the damage, but is asked only when a player is near.
Ignores(m) == state[m] = "script" /\ cine[m] # None /\ ~CanInterrupt(cine[m])

Breaks(m) == m \in hurt /\ task[m] \in {"walk", "wait", "play"}

\* GetIdealState in the script state calls ExitScriptedSequence, which for a dying monster
\* sets the state and lets the script keep it.
Exits(m) == state[m] = "script" /\ ideal[m] # "dead" /\ Breaks(m)
Released(m) == IF Exits(m) /\ life[m] # "dying" /\ cine[m] # None
               THEN Victims(cine[m]) ELSE {}
IdealNext(m) == IF Exits(m) /\ life[m] = "dying" THEN "dead" ELSE IdealAfter(Released(m))[m]

\* MaintainSchedule replaces the schedule: the state becomes the ideal one.
Reschedule(m) ==
  /\ task[m] = "none" \/ state[m] # ideal[m] \/ Breaks(m)
  /\ LET M == Released(m)
         to == IdealNext(m)
     IN /\ cine' = CineAfter(M) /\ target' = TargetAfter(M)
        /\ lost' = LostAfter(IF to = "dead" THEN M \cup {m} ELSE M)
        /\ state' = [StateAfter(M) EXCEPT ![m] = to]
        /\ ideal' = [IdealAfter(M) EXCEPT ![m] = to]
        /\ life' = [LifeAfter(M) EXCEPT ![m] = IF to = "dead" THEN "dying" ELSE @]
        /\ task' = [task EXCEPT ![m] = CASE to = "dead" -> "die"
                                         [] to = "script" -> FirstTask(cine'[m])
                                         [] OTHER -> "other"]
        /\ hurt' = HurtAfter(M) \ {m}
  /\ UNCHANGED <<playing, low, killed, delay, start, think, bends, late, troubles>>

\* A think without effect on the schedule drops the condition.
Shrug(m) ==
  /\ m \in hurt /\ task[m] # "none" /\ state[m] = ideal[m]
  /\ Breaks(m) => Ignores(m)
  /\ hurt' = hurt \ {m}
  /\ UNCHANGED <<cine, state, ideal, task, life, playing, low, killed, scriptVars, lost,
                 late, troubles>>

\* The schedule goes on.
GoesOn(m) == state[m] = ideal[m] /\ m \notin hurt

\* Variation: it is not counted who has come.
CountedInNot(G) ==
  /\ start' = [x \in Script |-> IF x \in G /\ delay[x] <= 1 THEN "set" ELSE start[x]]
  /\ UNCHANGED delay

\* DelayStart(false): the group is started when all have come.
CountedIn(G) ==
  /\ delay' = [x \in Script |-> IF x \in G THEN delay[x] - 1 ELSE delay[x]]
  /\ start' = [x \in Script |-> IF x \in G /\ delay[x] <= 1 THEN "set" ELSE start[x]]

\* The monster gets to its mark, TASK_ENABLE_SCRIPT.
Arrive(m) ==
  /\ task[m] = "walk" /\ state[m] = "script" /\ GoesOn(m)
  /\ LET s == cine[m]
         G == Group(s) \ AI
     IN /\ \A x \in G : delay[x] > -MaxDelay
        /\ CountedIn(G)
        /\ lost' = IF Counts(s) \/ G = {} THEN lost ELSE lost \cup Group(s)
  /\ task' = [task EXCEPT ![m] = "wait"]
  /\ UNCHANGED <<cine, state, ideal, life, playing, hurt, low, killed, target, think, bends,
                 late, troubles>>

\* The walk fails; after SCHED_FAIL the script's schedule is begun again.
Stumble(m) ==
  /\ Alive(m) /\ task[m] = "walk" /\ GoesOn(m)
  /\ task' = [task EXCEPT ![m] = "none"]
  /\ UNCHANGED <<cine, state, ideal, life, playing, hurt, low, killed, scriptVars, lost,
                 late, troubles>>

\* TASK_WAIT_FOR_SCRIPT ends, and TASK_PLAY_SCRIPT begins.
StartPlay(m) ==
  /\ task[m] = "wait" /\ state[m] = "script" /\ GoesOn(m)
  /\ LET s == cine[m] IN
     /\ delay[s] <= 0 /\ start[s] = "set"
     /\ IF s \in Plays
        THEN /\ task' = [task EXCEPT ![m] = "play"]
             /\ playing' = playing \cup {m}
             /\ UNCHANGED <<cine, state, ideal, life, hurt, low, killed, scriptVars, lost,
                            late, troubles>>
        ELSE SequenceDone(m)

\* TASK_PLAY_SCRIPT
Finish(m) ==
  /\ task[m] = "play" /\ state[m] = "script" /\ GoesOn(m)
  /\ SequenceDone(m)

\* TASK_DIE
DieDone(m) ==
  /\ task[m] = "die" /\ GoesOn(m)
  /\ life' = [life EXCEPT ![m] = "dead"]
  /\ UNCHANGED <<cine, state, ideal, task, playing, hurt, low, killed, scriptVars, lost,
                 late, troubles>>

MonsterThink(m) ==
  Alive(m) /\ (Reschedule(m) \/ Shrug(m) \/ Arrive(m) \/ StartPlay(m) \/ Finish(m) \/ DieDone(m))

\* Enemies, sounds and boredom: the rest of GetIdealState, for a monster that is free.
Mood(m) ==
  /\ Alive(m) /\ task[m] = "other" /\ state[m] \in Moods /\ state[m] = ideal[m]
  /\ \E to \in Moods : /\ state' = [state EXCEPT ![m] = to]
                       /\ ideal' = [ideal EXCEPT ![m] = to]
  /\ hurt' = hurt \ {m}
  /\ UNCHANGED <<cine, task, life, playing, low, killed, scriptVars, lost, late, troubles>>

\* Variation: AllowInterrupt does not look at the script's flags.
AllowsInterruptAll(s) == s \in Script

AllowsInterrupt(s) == s \notin NoInterrupt

\* An event in the sequence that is played: SCRIPT_EVENT_DEAD, NOT_DEAD, NOINTERRUPT and
\* CANINTERRUPT.
AnimEvent(m) ==
  /\ Alive(m) /\ task[m] = "play" /\ state[m] = "script" /\ cine[m] # None
  /\ \/ /\ life' = [life EXCEPT ![m] = "dying"]
        /\ low' = low \cup {m}
        /\ UNCHANGED bends
     \/ /\ life' = [life EXCEPT ![m] = "no"]
        /\ low' = low \ {m}
        /\ UNCHANGED bends
     \/ /\ AllowsInterrupt(cine[m])
        /\ bends' \in {bends \ {cine[m]}, bends \cup {cine[m]}}
        /\ UNCHANGED <<life, low>>
  /\ UNCHANGED <<cine, state, ideal, task, playing, hurt, killed, target, delay, start, think,
                 lost, late, troubles>>

\* TakeDamage that hurts only, or any in the script state, where nobody is killed: what is
\* left of the script is to break first.
Hurt(m) ==
  /\ hurt' = hurt \cup {m}
  /\ \/ UNCHANGED <<low, late>>
     \/ /\ state[m] = "script"
        /\ low' = low \cup {m}
        /\ late' = IF cine[m] = None /\ ideal[m] # "dead" THEN late \cup {m} ELSE late
  /\ UNCHANGED <<ideal, killed, lost>>

\* Killed: BecomeDead gives the body half of a living monster's health.
Killed(m) ==
  /\ state[m] # "script" /\ m \notin killed
  /\ killed' = killed \cup {m}
  /\ hurt' = hurt \cup {m} /\ low' = low \ {m}
  /\ ideal' = [ideal EXCEPT ![m] = "dead"]
  /\ lost' = LostAfter({m})
  /\ UNCHANGED late

\* Killed once more, which bits_MEMORY_KILLED makes an early return.
KilledAgain(m) ==
  /\ state[m] # "script" /\ m \in killed
  /\ low' = low \cup {m}
  /\ UNCHANGED <<hurt, ideal, killed, lost, late>>

TakeDamage(m) ==
  /\ Alive(m) /\ troubles > 0
  /\ troubles' = troubles - 1
  /\ Hurt(m) \/ Killed(m) \/ KilledAgain(m)
  /\ UNCHANGED <<cine, state, task, life, playing, scriptVars>>

\* A game is loaded.  Schedules are not saved, and conditions only with an enemy.
Load ==
  /\ troubles > 0
  /\ troubles' = troubles - 1
  /\ task' = [m \in Monster |-> "none"]
  /\ hurt' \in SUBSET hurt
  /\ lost' = lost \cup UNION {Group(cine[m]) :
                               m \in {x \in Monster : cine[x] # None /\ Counts(cine[x]) /\ ~OnWay(x)}}
  /\ UNCHANGED <<cine, state, ideal, life, playing, low, killed, scriptVars, late>>

-----------------------------------------------------------------------------

\* Spawn: a script without a name or with an idle sequence looks for its monster at once.
Init ==
  /\ cine = [m \in Monster |-> None]
  /\ state = [m \in Monster |-> "idle"] /\ ideal = [m \in Monster |-> "idle"]
  /\ task = [m \in Monster |-> "none"] /\ life = [m \in Monster |-> "no"]
  /\ playing = {} /\ hurt = {} /\ low = {} /\ killed = {}
  /\ target = [s \in Script |-> None] /\ delay = [s \in Script |-> 0]
  /\ start = [s \in Script |-> IF s \in Idles /\ Name[s] # "" THEN "never" ELSE "set"]
  /\ \E map \in Scenes :
       /\ think = [s \in Script |-> IF s \notin map.scripts THEN "gone"
                                    ELSE IF s \in Idles \/ Name[s] = "" THEN "cine"
                                    ELSE "none"]
       /\ troubles = map.troubles
  /\ bends = Script \ NoInterrupt
  /\ lost = {} /\ late = {}

Next ==
  \/ \E s \in Script : Use(s) \/ CineThink(s) \/ Remove(s)
  \/ \E m \in Monster : \/ MonsterThink(m) \/ Stumble(m) \/ Mood(m)
                        \/ AnimEvent(m) \/ TakeDamage(m)
  \/ Load

Spec == Init /\ [][Next]_vars

\* The engine calls each monster's think, and often enough that it does not miss the time
\* between the arrival of the last of its group and a new start of one of the others; a
\* monster that tries again and again gets to its mark.
Fairness ==
  \A m \in Monster : /\ WF_vars(MonsterThink(m))
                     /\ SF_vars(Alive(m) /\ (Arrive(m) \/ StartPlay(m)))

FairSpec == Spec /\ Fairness
-----------------------------------------------------------------------------
(* Properties *)

\* Each variable has its type, and a script that must not be interrupted stays that way.
TypeOK ==
  /\ cine \in [Monster -> Script \cup {None}]
  /\ state \in [Monster -> Moods \cup {"script", "dead"}]
  /\ ideal \in [Monster -> Moods \cup {"script", "dead"}]
  /\ task \in [Monster -> {"none", "other", "walk", "wait", "play", "die"}]
  /\ life \in [Monster -> {"no", "dying", "dead"}]
  /\ playing \subseteq Monster /\ hurt \subseteq Monster
  /\ low \subseteq Monster /\ killed \subseteq Monster /\ late \subseteq Monster
  /\ target \in [Script -> Monster \cup {None}]
  /\ delay \in [Script -> Int]
  /\ start \in [Script -> {"set", "never"}]
  /\ think \in [Script -> {"none", "cine", "remove", "gone"}]
  /\ bends \subseteq Script \ NoInterrupt /\ lost \subseteq Script
  /\ troubles \in Nat

\* Script and monster agree on each other, m_pCine and m_hTargetEnt: no monster is in two
\* scripts, and none is left with a pointer to a script that has removed itself.
Linked ==
  \A m \in Monster, s \in Script :
    /\ cine[m] = s <=> target[s] = m
    /\ target[s] = m => think[s] = "none"

\* ASSERT(m_pCine != NULL) in GetSchedule and GetScheduleOfType, and what the tasks of a
\* script take for granted: a monster that will go on with a script has one.
ScriptFound == \A m \in Monster : ideal[m] = "script" => cine[m] # None

\* m_iDelay is the number of monsters that are still on their way to a mark of the group,
\* as long as the group has not lost count.
Coming(G) == {m \in Monster : OnWay(m) /\ cine[m] \in G}
Balanced ==
  \A s \in Script \ (AI \cup lost) :
    There(s) => delay[s] = Cardinality(Coming(Group(s)))

\* Nobody begins to play while another one of the group is still on its way.
Together ==
  [][\A m \in Monster :
       m \in playing' \ playing /\ cine[m] \notin AI \cup lost => Coming(Group(cine[m])) = {}]_vars

\* A monster without health that no script holds is going to die, unless it was shot
\* between the end of a script and its next think, or had been killed before.
NoneUndead ==
  \A m \in low \ (late \cup killed) : cine[m] # None \/ ideal[m] = "dead"

\* A living monster that is in a script that need not be triggered first is let go at
\* last, if its group has not lost count.
LetGo ==
  \A m \in Monster :
    []<>~(/\ cine[m] # None
          /\ start[cine[m]] = "set" /\ cine[m] \notin lost
          /\ life[m] = "no" /\ m \notin killed)
=============================================================================
