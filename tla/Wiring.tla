------------------------------- MODULE Wiring -------------------------------
(***************************************************************************)
(* The wiring of a level: triggers, counters, relays, multi_managers and   *)
(* their clones, multisources, buttons, env_global and delayed uses, of    *)
(* dlls/triggers.cpp, dlls/buttons.cpp and dlls/subs.cpp.                  *)
(*                                                                         *)
(* An entity fires its targets by name.  FireTargets looks for the next    *)
(* entity of that name in the list of entities and calls its Use, which    *)
(* may fire targets itself before it returns, remove entities and make new *)
(* ones.  `stack' is the stack of these calls: a frame is a call of        *)
(* SUB_UseTargets ("use"), a loop of FireTargets ("fire") or of            *)
(* ManagerThink ("run"), and `then' is what its caller does afterwards.    *)
(* The engine thinks, touches and lets time pass when the stack is empty.  *)
(*                                                                         *)
(* Time is counted in tenths of a second, and `due' counts down to an      *)
(* entity's nextthink.                                                     *)
(***************************************************************************)
EXTENDS Integers, Sequences, FiniteSets

CONSTANTS
  Slots,     \* the list of entities is 1 .. Slots
  Names,     \* targetnames, "" among them for none
  Levels     \* the maps: fields of the entities, by slot

Ents == 1 .. Slots
Never == -1
MoveTime == 1   \* how long a button takes to move

Kinds == {"free", "multiple", "counter", "relay", "auto", "manager", "clone",
          "multisource", "button", "global", "delayed"}

Entries == [name : Names, delay : Nat]

Flags == {"once",      \* SF_RELAY_FIREONCE, SF_AUTO_FIREONCE
          "thread",    \* SF_MULTIMAN_THREAD
          "toggle",    \* SF_BUTTON_TOGGLE
          "touch",     \* SF_BUTTON_TOUCH_ONLY
          "still",     \* SF_BUTTON_DONTMOVE
          "health",    \* to be shot
          "global"}    \* m_globalstate is set

GlobalStates == {"off", "on", "dead"}
MaxTargets == 32       \* MS_MAX_TARGETS

\* A map: the fields of its entities, and the state of the global name on arrival.
\* A multisource has a name, and no manager that has it in its list targets it too.
Level == [kind : [Ents -> Kinds \ {"clone", "delayed"}], name : [Ents -> Names],
          target : [Ents -> Names], kill : [Ents -> Names], master : [Ents -> Names],
          delay : [Ents -> Nat], wait : [Ents -> {Never} \cup (Nat \ {0})],
          count : [Ents -> Nat], list : [Ents -> Seq(Entries)],
          flags : [Ents -> SUBSET Flags], sets : [Ents -> GlobalStates \cup {"toggle"}],
          global : GlobalStates]

ASSUME LevelsAssumption ==
  /\ Slots \in 1 .. MaxTargets /\ "" \in Names
  /\ Levels \subseteq Level
  /\ \A l \in Levels, e \in Ents :
       /\ l.kind[e] = "multisource" => l.name[e] # ""
       /\ l.kind[e] = "manager" => l.target[e] = ""

VARIABLES
  level,     \* the map
  kind,      \* what each entity is; "free" when there is none
  of,        \* the entity of the map whose fields it has: its own, or a copy
  list,      \* m_iTargetName and m_flTargetDelay of managers
  due,       \* time to nextthink, or Never
  mode,      \* m_toggle_state, the think and the use function
  left,      \* m_cTriggersLeft of counters, m_index of managers
  age,       \* time since m_startTime of managers
  touch,     \* the entities whose touch function is set
  members,   \* m_rgEntities of multisources
  last,      \* the last of them, 0 when there are none
  lit,       \* the members for which m_rgTriggered is 1
  global,    \* the global state of the one name there is
  killed,    \* entities with FL_KILLME
  stack,     \* the calls in progress, the innermost first
  fired,     \* history: how often an entity has fired, up to 2
  early,     \* history: multisources used before they knew their members
  refused    \* history: counters whose master was closed at their last count

fields == <<level, kind, of, list>>
history == <<fired, early, refused>>
vars == <<level, kind, of, list, due, mode, left, age, touch, members, last, lit, global,
          killed, stack, fired, early, refused>>

-----------------------------------------------------------------------------
(* Reading the map *)

Name(e) == IF kind[e] = "delayed" THEN "" ELSE level.name[of[e]]
Target(e) == level.target[of[e]]
Kill(e) == IF kind[e] = "multisource" THEN "" ELSE level.kill[of[e]]
Delay(e) == IF kind[e] \in {"delayed", "multisource"} THEN 0 ELSE level.delay[of[e]]
Wait(e) == IF kind[e] = "counter" THEN Never ELSE level.wait[of[e]]
Flag(e, f) == f \in level.flags[of[e]]
Live(e) == kind[e] # "free" /\ e \notin killed

\* What FIND_ENTITY_BY_TARGETNAME finds: UTIL_Remove takes the name away.
NamedAs(n) == IF n = "" THEN {} ELSE {e \in Ents : Live(e) /\ Name(e) = n}

First(S) == CHOOSE e \in S : \A x \in S : e <= x
Final(S) == CHOOSE e \in S : \A x \in S : x <= e

\* A slot is not used again while a multisource holds a handle to what was there.
FreeSlots == {e \in Ents : /\ kind[e] = "free" /\ level.kind[e] = "free"
                           /\ \A m \in Ents : e \notin members[m]}

\* CMultiManager::Spawn: a bubble sort, which leaves entries of equal delay in order.
SortOrders(s) ==
  {p \in [DOMAIN s -> DOMAIN s] :
     \A i, j \in DOMAIN s : i < j =>
       \/ s[p[i]].delay < s[p[j]].delay
       \/ s[p[i]].delay = s[p[j]].delay /\ p[i] < p[j]}
Sorted(s) == LET p == CHOOSE p \in SortOrders(s) : TRUE IN [i \in DOMAIN s |-> s[p[i]]]

-----------------------------------------------------------------------------
(* Masters *)

\* CMultiSource::IsTriggered
Triggered(m) ==
  /\ mode[m] = "set"
  /\ lit[m] = members[m]
  /\ Flag(m, "global") => global = "on"

\* UTIL_IsMasterTriggered: who has no master, or one that is gone, may go on.
MasterOpen(e) ==
  LET M == NamedAs(level.master[of[e]]) IN
  IF M = {} THEN TRUE ELSE kind[First(M)] = "multisource" => Triggered(First(M))

-----------------------------------------------------------------------------
(* The stack *)

Frame(do, by, then) == [do |-> do, by |-> by, then |-> then, name |-> "", at |-> 0,
                        only |-> FALSE]
Call(e, then) == Frame("use", e, then)
Top == Head(stack)

\* FireTargets from a manager's list.
FireFrame(e, n, then) == [Frame("fire", e, then) EXCEPT !.name = n]
\* The loop of ButtonBackHome over the multisources among its targets.
SourcesFrame(e) == [FireFrame(e, Target(e), "rest") EXCEPT !.only = TRUE]

OnStack(e) == \E i \in 1 .. Len(stack) : stack[i].by = e

-----------------------------------------------------------------------------
(* Buttons.  `below' is the stack under them, `touched' is what is left of *)
(* `touch' when they are called.                                           *)

Stays(b) == Wait(b) = Never   \* m_fStayPushed

\* TriggerAndWait.  When the master has closed meanwhile the button stays as it is.
TriggerAndWait(b, below, touched) ==
  IF ~MasterOpen(b)
  THEN /\ mode' = [mode EXCEPT ![b] = "up"]
       /\ due' = [due EXCEPT ![b] = Never]
       /\ stack' = below
       /\ touch' = touched
  ELSE /\ mode' = [mode EXCEPT ![b] = "top"]
       /\ due' = [due EXCEPT ![b] = IF Flag(b, "toggle") THEN Never ELSE Wait(b)]
       /\ touch' = IF ~Flag(b, "toggle") /\ ~Stays(b) THEN touched
                   ELSE IF Flag(b, "touch") THEN touched \cup {b} ELSE touched \ {b}
       /\ stack' = <<Call(b, "none")>> \o below

\* Variation: the multisources are not told.
ButtonBackHomeSilent(b, below, touched) ==
  /\ mode' = [mode EXCEPT ![b] = "bottom"]
  /\ due' = [due EXCEPT ![b] = Never]
  /\ stack' = below
  /\ touch' = IF Flag(b, "touch") THEN touched \cup {b} ELSE touched \ {b}

\* ButtonBackHome: a toggle fires, then each multisource among the targets is used.
ButtonBackHome(b, below, touched) ==
  /\ mode' = [mode EXCEPT ![b] = "bottom"]
  /\ due' = [due EXCEPT ![b] = Never]
  /\ stack' = (IF Flag(b, "toggle") THEN <<Call(b, "none")>> ELSE <<>>)
              \o <<SourcesFrame(b)>> \o below
  /\ touch' = touched

\* Variation: no time is set for the way back.
ButtonReturnUntimed(b, below, touched) ==
  IF Flag(b, "still") THEN ButtonBackHome(b, below, touched)
  ELSE /\ mode' = [mode EXCEPT ![b] = "down"]
       /\ due' = [due EXCEPT ![b] = Never]
       /\ stack' = below
       /\ touch' = touched

\* ButtonReturn
ButtonReturn(b, below, touched) ==
  IF Flag(b, "still") THEN ButtonBackHome(b, below, touched)
  ELSE /\ mode' = [mode EXCEPT ![b] = "down"]
       /\ due' = [due EXCEPT ![b] = MoveTime]
       /\ stack' = below
       /\ touch' = touched

\* ButtonActivate, for a button that is at the bottom: one that does not move is
\* there at once.
ButtonActivate(b, below, touched) ==
  IF MasterOpen(b) /\ Flag(b, "still") THEN TriggerAndWait(b, below, touched)
  ELSE /\ IF MasterOpen(b)
          THEN /\ mode' = [mode EXCEPT ![b] = "up"]
               /\ due' = [due EXCEPT ![b] = MoveTime]
          ELSE UNCHANGED <<mode, due>>
       /\ stack' = below
       /\ touch' = touched

\* A button that can be sent back by those who use it.
Returnable(b) == mode[b] = "top" /\ Flag(b, "toggle") /\ ~Stays(b)

\* ButtonUse
ButtonUse(b, below) ==
  CASE mode[b] = "bottom" -> ButtonActivate(b, below, touch)
    [] Returnable(b) -> ButtonReturn(b, below, touch)
    [] OTHER -> stack' = below /\ UNCHANGED <<mode, due, touch>>

-----------------------------------------------------------------------------
(* Triggers *)

\* ActivateMultiTrigger up to SUB_UseTargets; the rest is the frame's `then'.
Activates(e) == ~(due[e] > 0) /\ MasterOpen(e)

\* Variation: the test for the end comes one use too early.
CounterUseShort(t, below) ==
  /\ left' = [left EXCEPT ![t] = IF @ < 0 THEN @ ELSE @ - 1]
  /\ stack' = below
  /\ refused' = IF left[t] = 1 /\ ~MasterOpen(t) THEN refused \cup {t} ELSE refused

\* CounterUse: nothing is left of a counter that has counted to the end.
CounterUse(t, below) ==
  /\ left' = [left EXCEPT ![t] = IF @ < 0 THEN @ ELSE @ - 1]
  /\ IF left[t] = 1 /\ Activates(t)
     THEN stack' = <<Call(t, "trigger")>> \o below
     ELSE stack' = below
  /\ refused' = IF left[t] = 1 /\ ~MasterOpen(t) THEN refused \cup {t} ELSE refused

\* Variation: a trigger that fires once is left as it is.
TriggerFiredStays(e) ==
  IF Wait(e) > 0
  THEN due' = [due EXCEPT ![e] = Wait(e)] /\ UNCHANGED <<mode, touch>>
  ELSE UNCHANGED <<due, mode, touch>>

\* The rest of ActivateMultiTrigger.
TriggerFired(e) ==
  IF Wait(e) > 0
  THEN due' = [due EXCEPT ![e] = Wait(e)] /\ UNCHANGED <<mode, touch>>
  ELSE /\ due' = [due EXCEPT ![e] = 1]
       /\ mode' = [mode EXCEPT ![e] = "spent"]
       /\ touch' = touch \ {e}

-----------------------------------------------------------------------------
(* Managers *)

\* ManagerUse past the cloning: build the table and think at once.
Started(t) ==
  /\ mode' = [mode EXCEPT ![t] = "running"]
  /\ left' = [left EXCEPT ![t] = 1]
  /\ age' = [age EXCEPT ![t] = 0]
  /\ due' = [due EXCEPT ![t] = 0]

\* Clone and its ManagerUse.
Cloned(t, c) ==
  /\ kind' = [kind EXCEPT ![c] = "clone"]
  /\ of' = [of EXCEPT ![c] = t]
  /\ list' = [list EXCEPT ![c] = list[t]]
  /\ Started(c)

\* Variation: the use function stays set while the manager runs.
ManagerUseAgain(t, below) ==
  /\ stack' = below
  /\ UNCHANGED <<kind, of, list>>
  /\ Started(t)

\* Only a manager that is not running has a use function.
ManagerUse(t, below) ==
  /\ stack' = below
  /\ IF kind[t] = "manager" /\ Flag(t, "thread")
     THEN FreeSlots # {} /\ Cloned(t, First(FreeSlots))
     ELSE /\ UNCHANGED <<kind, of, list>>
          /\ IF mode[t] = "ready" THEN Started(t) ELSE UNCHANGED <<mode, left, age, due>>

\* Variation: the manager thinks again at once.
RemainingNone(e) == 0

\* Variation: the difference is taken the other way round.
RemainingSwapped(e) == age[e] - list[e][left[e]].delay

\* When the next entry is to be fired.
Remaining(e) == list[e][left[e]].delay - age[e]

\* ManagerThink: one turn of its loop, or what comes after it.
ManagerLoop ==
  /\ stack # <<>> /\ Top.do = "run"
  /\ LET e == Top.by IN
     IF left[e] <= Len(list[e]) /\ list[e][left[e]].delay <= age[e]
     THEN /\ stack' = <<FireFrame(e, list[e][left[e]].name, "next")>> \o stack
          /\ UNCHANGED <<mode, due, killed>>
     ELSE /\ stack' = Tail(stack)
          /\ IF left[e] > Len(list[e])
             THEN IF kind[e] = "clone"
                  THEN killed' = killed \cup {e} /\ UNCHANGED <<mode, due>>
                  ELSE mode' = [mode EXCEPT ![e] = "ready"] /\ UNCHANGED <<due, killed>>
             ELSE due' = [due EXCEPT ![e] = Remaining(e)] /\ UNCHANGED <<mode, killed>>
  /\ UNCHANGED <<fields, left, age, touch, members, last, lit, global, history>>

-----------------------------------------------------------------------------
(* Multisources *)

\* Use.  A caller that is no member toggles the last one: the search ends at
\* i = m_iTotal either way, and the test that follows is i > m_iTotal.
MultisourceUse(t, by, below) ==
  LET i == IF by \in members[t] THEN by ELSE last[t]
      on == IF i = 0 THEN {} ELSE (lit[t] \ {i}) \cup ({i} \ lit[t])
  IN IF mode[t] # "set"
     THEN /\ early' = early \cup {t}   \* m_iTotal is 0, the write goes astray
          /\ stack' = below
          /\ UNCHANGED lit
     ELSE /\ lit' = [lit EXCEPT ![t] = on]
          /\ stack' = IF on = members[t] /\ (Flag(t, "global") => global = "on")
                      THEN <<Call(t, "none")>> \o below ELSE below
          /\ UNCHANGED early

\* Register: all that target it, then the managers that have it in their list.
Registered(m) ==
  LET n == level.name[m]
      targeting == {e \in Ents : kind[e] # "free" /\ Target(e) = n}
      managing == {e \in Ents : /\ kind[e] \in {"manager", "clone"}
                                /\ \E i \in 1 .. Len(list[e]) : list[e][i].name = n}
      all == targeting \cup managing
  IN /\ members' = [members EXCEPT ![m] = all]
     /\ last' = [last EXCEPT ![m] = IF managing # {} THEN Final(managing)
                                    ELSE IF all # {} THEN Final(all) ELSE 0]
     /\ mode' = [mode EXCEPT ![m] = "set"]

-----------------------------------------------------------------------------
(* SUB_UseTargets and FireTargets *)

\* Variation: it is not given a time to think.
DelayedUseUntimed(d, e) ==
  /\ kind' = [kind EXCEPT ![d] = "delayed"]
  /\ of' = [of EXCEPT ![d] = of[e]]
  /\ due' = [due EXCEPT ![d] = Never]

\* SUB_UseTargets: with a delay a DelayedUse takes target and killtarget along,
\* without one the killtargets are removed and the targets fired.
DelayedUse(d, e) ==
  /\ kind' = [kind EXCEPT ![d] = "delayed"]
  /\ of' = [of EXCEPT ![d] = of[e]]
  /\ due' = [due EXCEPT ![d] = Delay(e)]

UseTargets ==
  /\ stack # <<>> /\ Top.do = "use"
  /\ LET e == Top.by IN
     /\ fired' = [fired EXCEPT ![e] = IF of[e] = e /\ @ < 2 THEN @ + 1 ELSE @]
     /\ IF Delay(e) # 0 /\ (Target(e) # "" \/ Kill(e) # "")
        THEN /\ FreeSlots # {}
             /\ DelayedUse(First(FreeSlots), e)
             /\ stack' = <<Frame("fire", e, Top.then)>> \o Tail(stack)
             /\ UNCHANGED killed
        ELSE /\ killed' = killed \cup NamedAs(Kill(e))
             /\ stack' = <<FireFrame(e, Target(e), Top.then)>> \o Tail(stack)
             /\ UNCHANGED <<kind, of, due>>
  /\ UNCHANGED <<level, list, mode, left, age, touch, members, last, lit, global, early,
                 refused>>

\* The entities the loop of FireTargets has still to come to.
Ahead == {t \in NamedAs(Top.name) : /\ t > Top.at
                                    /\ Top.only => kind[t] = "multisource"}

\* CEnvGlobal::Use
GlobalUse(t) ==
  LET to == level.sets[of[t]]
  IN global' = CASE to # "toggle" -> to
                 [] global = "on" -> "off"
                 [] global = "off" -> "on"
                 [] OTHER -> global

\* FireTargets: the next entity of the name is used.
FireNext ==
  /\ stack # <<>> /\ Top.do = "fire" /\ Ahead # {}
  /\ LET t == First(Ahead)
         below == <<[Top EXCEPT !.at = t]>> \o Tail(stack)
     IN \/ /\ kind[t] = "relay"
           /\ stack' = <<Call(t, "once")>> \o below
           /\ UNCHANGED <<fields, due, mode, left, age, touch, lit, global, early, refused>>
        \/ /\ kind[t] = "counter" /\ CounterUse(t, below)
           /\ UNCHANGED <<fields, due, mode, age, touch, lit, global, early>>
        \/ /\ kind[t] \in {"manager", "clone"} /\ ManagerUse(t, below)
           /\ UNCHANGED <<level, touch, lit, global, early, refused>>
        \/ /\ kind[t] = "multisource" /\ MultisourceUse(t, Top.by, below)
           /\ UNCHANGED <<fields, due, mode, left, age, touch, global, refused>>
        \/ /\ kind[t] = "button" /\ ~Flag(t, "touch") /\ ButtonUse(t, below)
           /\ UNCHANGED <<fields, left, age, lit, global, early, refused>>
        \/ /\ kind[t] = "global"
           /\ GlobalUse(t)
           /\ stack' = below
           /\ UNCHANGED <<fields, due, mode, left, age, touch, lit, early, refused>>
        \/ /\ \/ kind[t] \in {"multiple", "auto"}   \* they have no use function
              \/ kind[t] = "button" /\ Flag(t, "touch")
           /\ stack' = below
           /\ UNCHANGED <<fields, due, mode, left, age, touch, lit, global, early, refused>>
  /\ UNCHANGED <<members, last, killed, fired>>

\* FireTargets has come to the end of the list, and its caller goes on.
FireDone ==
  /\ stack # <<>> /\ Top.do = "fire" /\ Ahead = {}
  /\ LET e == Top.by
         below == Tail(stack)
     IN \/ /\ Top.then = "none"
           /\ stack' = below
           /\ UNCHANGED <<kind, killed, due, mode, left, touch>>
        \/ /\ Top.then = "once"     \* CTriggerRelay::Use, CAutoTrigger::Think
           /\ killed' = IF Flag(e, "once") THEN killed \cup {e} ELSE killed
           /\ stack' = below
           /\ UNCHANGED <<kind, due, mode, left, touch>>
        \/ /\ Top.then = "trigger" /\ TriggerFired(e)
           /\ stack' = below
           /\ UNCHANGED <<kind, killed, left>>
        \/ /\ Top.then = "next"     \* ManagerThink
           /\ left' = [left EXCEPT ![e] = @ + 1]
           /\ stack' = below
           /\ UNCHANGED <<kind, killed, due, mode, touch>>
        \/ /\ Top.then = "return" /\ ButtonReturn(e, below, touch)   \* ButtonTouch
           /\ UNCHANGED <<kind, killed, left>>
        \/ /\ Top.then = "rest"     \* ButtonBackHome
           /\ touch' = IF Flag(e, "touch") THEN touch \cup {e} ELSE touch \ {e}
           /\ stack' = below
           /\ UNCHANGED <<kind, killed, due, mode, left>>
        \/ /\ Top.then = "delayed"  \* DelayThink
           /\ kind' = [kind EXCEPT ![e] = "free"]
           /\ stack' = below
           /\ UNCHANGED <<killed, due, mode, left, touch>>
  /\ UNCHANGED <<level, of, list, age, members, last, lit, global, history>>

-----------------------------------------------------------------------------
(* What the engine calls *)

Idle == stack = <<>>

\* A player walks into a trigger.
MultiTouch(e) ==
  /\ Idle /\ Live(e) /\ kind[e] = "multiple" /\ e \in touch
  /\ Activates(e)
  /\ stack' = <<Call(e, "trigger")>>
  /\ UNCHANGED <<fields, due, mode, left, age, touch, members, last, lit, global, killed,
                 history>>

\* A player walks into a button.
ButtonTouch(e) ==
  /\ Idle /\ Live(e) /\ kind[e] = "button" /\ e \in touch
  /\ MasterOpen(e)
  /\ \/ mode[e] = "bottom" /\ ButtonActivate(e, <<>>, touch \ {e})
     \/ /\ Returnable(e)
        /\ stack' = <<Call(e, "return")>>
        /\ touch' = touch \ {e}
        /\ UNCHANGED <<mode, due>>
  /\ UNCHANGED <<fields, left, age, members, last, lit, global, killed, history>>

\* A player uses a button, perhaps one that is about to be removed.
PlayerUse(e) ==
  /\ Idle /\ kind[e] = "button" /\ ~Flag(e, "touch") /\ ~Flag(e, "health")
  /\ ButtonUse(e, <<>>)
  /\ UNCHANGED <<fields, left, age, members, last, lit, global, killed, history>>

\* CBaseButton::TakeDamage: the touch function goes even when the button is locked.
ButtonShot(e) ==
  /\ Idle /\ Live(e) /\ kind[e] = "button" /\ Flag(e, "health")
  /\ \/ mode[e] = "bottom" /\ ButtonActivate(e, <<>>, touch \ {e})
     \/ /\ Returnable(e)
        /\ ButtonReturn(e, <<>>, touch \ {e})
  /\ UNCHANGED <<fields, left, age, members, last, lit, global, killed, history>>

ThinkTime(e) == Idle /\ Live(e) /\ due[e] = 0

\* MultiWaitOver, or SUB_Remove when the trigger is spent.
TriggerThink(e) ==
  /\ ThinkTime(e) /\ kind[e] \in {"multiple", "counter"}
  /\ due' = [due EXCEPT ![e] = Never]
  /\ kind' = IF mode[e] = "spent" THEN [kind EXCEPT ![e] = "free"] ELSE kind
  /\ UNCHANGED <<level, of, list, mode, left, age, touch, members, last, lit, global,
                 killed, stack, history>>

\* CAutoTrigger::Think, ManagerThink and DelayThink: the rest is on the stack.
CallThink(e) ==
  /\ ThinkTime(e)
  /\ due' = [due EXCEPT ![e] = Never]
  /\ \/ /\ kind[e] = "auto"
        /\ stack' = IF Flag(e, "global") => global = "on" THEN <<Call(e, "once")>> ELSE <<>>
     \/ kind[e] \in {"manager", "clone"} /\ stack' = <<Frame("run", e, "none")>>
     \/ kind[e] = "delayed" /\ stack' = <<Call(e, "delayed")>>
  /\ UNCHANGED <<fields, mode, left, age, touch, members, last, lit, global, killed, history>>

\* CMultiSource::Register
Register(e) ==
  /\ ThinkTime(e) /\ kind[e] = "multisource"
  /\ due' = [due EXCEPT ![e] = Never]
  /\ Registered(e)
  /\ UNCHANGED <<fields, left, age, touch, lit, global, killed, stack, history>>

\* A button has come to the end of its move or of its wait.
ButtonThink(e) ==
  /\ ThinkTime(e) /\ kind[e] = "button"
  /\ \/ mode[e] = "up" /\ TriggerAndWait(e, <<>>, touch)
     \/ mode[e] = "top" /\ ButtonReturn(e, <<>>, touch)
     \/ mode[e] = "down" /\ ButtonBackHome(e, <<>>, touch)
  /\ UNCHANGED <<fields, left, age, members, last, lit, global, killed, history>>

\* The engine frees what has FL_KILLME.
Reap(e) ==
  /\ Idle /\ e \in killed
  /\ kind' = [kind EXCEPT ![e] = "free"]
  /\ killed' = killed \ {e}
  /\ UNCHANGED <<level, of, list, due, mode, left, age, touch, members, last, lit, global,
                 stack, history>>

Managers == {e \in Ents : kind[e] \in {"manager", "clone"}}
Running == {e \in Ents : kind[e] \in {"manager", "clone"} /\ mode[e] = "running"}

\* A tenth of a second passes once each entity has had its turn.
Tick ==
  /\ Idle /\ killed = {}
  /\ \A e \in Ents : Live(e) => due[e] # 0
  /\ due' = [e \in Ents |-> IF due[e] > 0 THEN due[e] - 1 ELSE due[e]]
  /\ age' = [e \in Ents |-> IF e \in Running THEN age[e] + 1 ELSE age[e]]
  /\ UNCHANGED <<fields, mode, left, touch, members, last, lit, global, killed, stack,
                 history>>

\* A game is loaded: Precache is called, which sets an auto trigger off again.
Load ==
  /\ Idle /\ killed = {}
  /\ due' = [e \in Ents |-> IF kind[e] = "auto" THEN 1 ELSE due[e]]
  /\ UNCHANGED <<fields, mode, left, age, touch, members, last, lit, global, killed, stack,
                 history>>

-----------------------------------------------------------------------------

\* What Spawn makes of the map.
Init ==
  /\ level \in Levels
  /\ kind = level.kind
  /\ of = [e \in Ents |-> e]
  /\ list = [e \in Ents |-> Sorted(level.list[e])]
  /\ due = [e \in Ents |-> IF kind[e] \in {"auto", "multisource"} THEN 1 ELSE Never]
  /\ mode = [e \in Ents |-> CASE kind[e] = "multisource" -> "init"
                              [] kind[e] = "button" -> "bottom"
                              [] kind[e] = "manager" -> "ready"
                              [] OTHER -> "armed"]
  /\ left = [e \in Ents |-> IF kind[e] # "counter" THEN 0
                             ELSE IF level.count[e] = 0 THEN 2 ELSE level.count[e]]
  /\ age = [e \in Ents |-> 0]
  /\ touch = {e \in Ents : \/ kind[e] = "multiple"
                           \/ kind[e] = "button" /\ Flag(e, "touch")}
  /\ members = [e \in Ents |-> {}] /\ last = [e \in Ents |-> 0]
  /\ lit = [e \in Ents |-> {}]
  /\ global = level.global
  /\ killed = {} /\ stack = <<>>
  /\ fired = [e \in Ents |-> 0] /\ early = {} /\ refused = {}

Calls == ManagerLoop \/ UseTargets \/ FireNext \/ FireDone
Think(e) == TriggerThink(e) \/ CallThink(e) \/ Register(e) \/ ButtonThink(e)
Player(e) == MultiTouch(e) \/ ButtonTouch(e) \/ PlayerUse(e) \/ ButtonShot(e)

Next == Calls \/ Tick \/ Load \/ \E e \in Ents : Think(e) \/ Player(e) \/ Reap(e)

Spec == Init /\ [][Next]_vars

\* A call returns; and frame after frame the engine lets entities think and frees the
\* removed ones before time goes on, whatever the players do in between.
Fairness == /\ WF_vars(Calls)
            /\ SF_vars(\E e \in Ents : Think(e) \/ Reap(e))
            /\ SF_vars(Tick)

FairSpec == Spec /\ Fairness
-----------------------------------------------------------------------------
(* Properties *)

Frames == [do : {"use", "fire", "run"}, by : Ents, name : Names, at : 0 .. Slots,
           only : BOOLEAN,
           then : {"none", "once", "trigger", "next", "return", "rest", "delayed"}]

\* Each variable has its type, and a manager's index does not leave its list (m_index is
\* compared with m_cTargets before the arrays are read).
TypeOK ==
  /\ level \in Levels
  /\ kind \in [Ents -> Kinds] /\ of \in [Ents -> Ents]
  /\ list \in [Ents -> Seq(Entries)]
  /\ due \in [Ents -> Nat \cup {Never}]
  /\ mode \in [Ents -> {"armed", "spent", "init", "set", "bottom", "up", "top", "down",
                        "ready", "running"}]
  /\ left \in [Ents -> Int] /\ \A e \in Running : left[e] \in 1 .. Len(list[e]) + 1
  /\ age \in [Ents -> Nat] /\ touch \subseteq Ents
  /\ members \in [Ents -> SUBSET Ents] /\ last \in [Ents -> 0 .. Slots]
  /\ lit \in [Ents -> SUBSET Ents]
  /\ global \in GlobalStates /\ killed \subseteq Ents
  /\ stack \in Seq(Frames)
  /\ fired \in [Ents -> 0 .. 2] /\ early \subseteq Ents /\ refused \subseteq Ents

\* Entities of the map that are meant to fire once.
OneShot(e) ==
  \/ level.kind[e] = "multiple" /\ level.wait[e] = Never
  \/ level.kind[e] = "counter"
  \/ level.kind[e] \in {"relay", "auto"} /\ "once" \in level.flags[e]

\* trigger_once, trigger_counter and what has a FIREONCE flag fire once at most, though
\* they are removed only later and may be touched, used or loaded until then.
OnceFires == \A e \in Ents : OneShot(e) => fired[e] <= 1

\* S has all that x sets off at once: the entities that its targets call, and their
\* targets.  Who has a delay calls nobody at once, but for the multisources of a button.
Callers == {"relay", "counter", "button", "multisource"}
Beyond(l, x, S) ==
  /\ S \subseteq {y \in Ents : l.kind[y] \in Callers} /\ x \notin S
  /\ \A y \in S \cup {x}, z \in Ents :
       /\ l.kind[z] \in Callers /\ l.name[z] # "" /\ l.name[z] = l.target[y]
       /\ l.delay[y] = 0 \/ "multisource" \in {l.kind[z], l.kind[y]}
       => z \in S

\* A relay that fires once is not used again by what it sets off before it is removed.  A
\* map may have it otherwise.
NoReturn ==
  \A l \in Levels, e \in Ents :
    l.kind[e] = "relay" /\ "once" \in l.flags[e] => \E S \in SUBSET Ents : Beyond(l, e, S)

\* A counter that has counted to its end has fired, unless its master was closed then.
CounterNotLost ==
  \A c \in Ents : level.kind[c] = "counter" /\ left[c] <= 0 /\ ~OnStack(c) =>
                  fired[c] > 0 \/ c \in refused

\* A multisource shows a button that targets it as on while the button is in, and as off
\* while it is out.  Not for the last of its members, which everyone who is no member
\* toggles, not for toggle buttons, which use it twice when they come out, and not after
\* a use before Register.
LampShowsButton ==
  Idle =>
    \A b, m \in Ents :
      /\ Live(b) /\ kind[b] = "button" /\ ~Flag(b, "toggle") /\ Delay(b) = 0
      /\ Live(m) /\ kind[m] = "multisource" /\ mode[m] = "set" /\ m \notin early
      /\ b \in members[m] \ {last[m]}
      => (b \in lit[m] <=> mode[b] \in {"top", "down"})

\* Whatever is under way has a time to go on: a moving button, a pushed button that comes
\* out by itself, a manager in its list, a delayed use.  A button whose master has closed
\* while it moved is the exception.
NoneStuck ==
  \A e \in Ents :
    /\ Live(e) /\ due[e] = Never /\ ~OnStack(e)
    => /\ kind[e] # "delayed" /\ e \notin Running
       /\ kind[e] = "button" =>
            \/ mode[e] = "bottom"
            \/ mode[e] = "top" /\ (Flag(e, "toggle") \/ Stays(e))
            \/ mode[e] = "up" /\ level.master[e] # ""

\* A multi_manager and its clones keep to the agenda: each entry once, in the order of the
\* delays, on time, and no second start while a run lasts.
FiringNext(e) == \E i \in 1 .. Len(stack) : stack[i].by = e /\ stack[i].then = "next"
Position(e) == IF FiringNext(e) THEN left[e] + 1 ELSE left[e]
EntriesFrom(e, i) == {[at |-> j, delay |-> list[e][j].delay] : j \in i .. Len(list[e])}

A == INSTANCE Agenda WITH
       Runner <- Ents,
       Entry <- [at : Nat, delay : Nat],
       present <- Managers,
       running <- Running,
       open <- [e \in Ents |-> IF e \in Running THEN EntriesFrom(e, Position(e)) ELSE {}],
       age <- [e \in Ents |-> IF e \in Running THEN age[e] ELSE 0]

KeepsAgenda == A!Spec

\* A delayed use arrives, each run of a manager ends, and a button that comes out by
\* itself and has no master comes out: none of them is under way for ever.
NothingHangs ==
  /\ \A e \in Ents : []<>(kind[e] # "delayed")
  /\ \A e \in Ents : []<>(e \notin Running)
  /\ \A b \in Ents :
       []<>~(/\ kind[b] = "button" /\ mode[b] # "bottom" /\ ~Flag(b, "toggle") /\ ~Stays(b)
             /\ level.master[b] = "")
=============================================================================
