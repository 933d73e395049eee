# Verification of the Half-Life: Posthuman game library

TLA+ models of the game rules in `src/dlls`, the TLC configurations that check
them on small instances, and theorems that TLAPS proves of them for every
instance. The first part of this file is an inventory of the system, the second
describes the models, the third what is proved, the last what is planned and
what stays out.

## 1. The system

The library is loaded by the GoldSrc engine. The engine owns the entities
(edicts) and calls into the library: `Spawn`, `Think` when the time in
`nextthink` has come, `Touch` and `Blocked` from its physics, `Use` from
players, save and restore. There is one thread. Concurrency is the order in
which the engine runs the callbacks of hundreds of entities, and *reentrancy*:
`FireTargets` calls `Use` of every entity of a name, on the spot, in the middle
of the handler that fires. Entities refer to each other by `EHANDLE` (reads NULL
after the entity was freed), by `pev->owner` (does not), by name, or by index
into a shared pool.

| component | state | operations | interacts through | what makes it correct |
|---|---|---|---|---|
| Squads (`squadmonster.*`) | leader handle, member array, mask of slots, own slot | start, recruit, die, occupy and vacate slots, alarm the squad | handles between monsters, `MaintainSchedule` | one holder per slot, no engage slot lost, members and leader agree |
| World sounds (`soundent.*`, `Listen`, `PBestSound`) | pool of sounds on two lists, one audible link per sound, list head per monster | insert, expire, reset, listen, pick the best | one pool for all monsters and players | lists disjoint and complete, walks end, monsters react to what they heard |
| Doors (`doors.cpp`, `subs.cpp`) | toggle state, position, think, move-done and touch functions | touch, use, travel, wait, block | `FireTargets`, masters, doors of one name | never stuck, never opens locked, comes back |
| Monster makers (`monstermaker.cpp`, `hordemaker.cpp`) | monsters left and alive, think and use functions | make, toggle, count deaths, remove itself | targets, `pev->owner`, `DeathNotice` | both limits, no orphan, fills up again |
| Schedules (`schedule.cpp`, `monsterstate.cpp`, `defaultai.cpp`) | schedule, task, conditions, state | choose, run and interrupt tasks | all monsters | no task of an old schedule runs in a new one, an interrupt is seen |
| Scripts (`scripted.cpp`) | the monster taken, its phase, the queue of scripts | find, move, play, cancel, let go | takes monsters from their schedules | a monster obeys one script at a time and is let go |
| Talking monsters (`talkmonster.cpp`) | shared talk time, the target followed, answers due | speak, answer, follow, stop | global `g_talkWaitTime` | one speaks at a time, a question is answered or dropped |
| Triggers, buttons, managers (`triggers.cpp`, `buttons.cpp`) | timers, counters, indices of targets, activator | touch, use, count, fire in order | `FireTargets` | each target once and in order, masters say what their sources say |
| Platforms and trains (`plats.cpp`) | toggle state, path corner | travel, wait, block, change tracks | `LinearMove`, paths | as doors; a train is on one track |
| Global state (`world.cpp`) | table of names, levels, states | add, set, save | level changes | an entity that is dead stays dead |
| Weapons, satchels, tripmines | clip, ammunition, timers, charges | fire, reload, deploy, drop | player, prediction on the client | no ammunition made or lost |
| Player, multiplayer rules, chargers, vehicles, tanks, observers | mostly timers and handles | | everything above | |
| Node graph, sentences | tables | shortest path, choice of sentences | monsters | algorithms with a reference definition |

Ropes, player movement, the renderer and HUD, bots, the map compilers and the
vendored libraries are geometry, drawing, or not this program's logic.

What is hard here: handlers that fire targets before they have finished with
their own state; state of one entity read by another after it has died or been
removed; shared links and shared pools; fields that are not saved; timers that
race with touches; notices that come twice or never. `PROJECT.json` lists each
of these at the line where it bites.

## 2. The models

Each component has a module with its state, one action for each handler, its
properties at the end, and, before a definition, a *variation* of it with a
plausible bug, which shows that a property can fail. Each has an MC module
and configurations for TLC, and most have a `...Proofs` module.

### Squad

State: the fields of `CSquadMonster`, the part of the schedule that matters
(`schedule`: none, `TossGrenadeCover`, or another), `enemy` and `newEnemy`, and
`status` for the steps of a death (`Killed`, then the think that starts dying,
then `TASK_DIE`, then removal). `StartMonster` recruits; `Killed` vacates and runs
`SquadRemove`; `MaintainSchedule` is the whole of a schedule change:
`ScheduleChange` vacates, the squad may be alarmed, `GetSchedule` tries slots.
`SetSchedule` is the task `TASK_SET_SCHEDULE`, which chooses a schedule without
vacating: `TossGrenadeCover` ends with it and asks for cover, and a squad's
`TakeCover` may toss again and occupy a second grenade slot over the first. Whether
a monster can throw (`CAN_RANGE_ATTACK2`, which may be stale) is a choice. The member
array is a set, because its order is read nowhere. A freed entity's handles read
NULL, so `Remove` clears them.

Five constants switch what may happen on a map: `LateSpawn` (monsters start
after others have died, as monster makers cause), `DieUnstarted` (one dies
before its first think), `SaveLoad`, `KillTarget`, and `Gambler` (the monsters
whose `GetSchedule` takes a slot before a coin toss).

* `squad_slots` (three monsters, two enemies, one engage bit and two grenade bits,
  squads of up to three, all of them gamblers, who can do what the others can,
  symmetry): `SlotExclusive` and `EngageIsHeld`. Three is enough for a leader and
  two rivals, one engage bit for everybody to want the same one, and the second
  grenade bit lets a toss follow a toss. `EngageIsHeld` stops at the engage slots
  because the code loses grenade slots: a gambler that loses the toss puts its
  engage slot over the grenade slot in `m_iMySlot`, and so does the second toss of
  `SetSchedule`; the first bit stays in the leader's mask, held by nobody, until
  the leader is gone. It would fail for the grenade bits in this run. What the two
  properties say is that this hands no slot out twice and never takes the right to
  shoot from the squad. Late spawns and loads are off because with them
  `SlotExclusive` fails: a squad that lost its leader leaves `m_iMySlot` set, and a
  recruit brings that slot along; and `m_afSquadSlots` is not saved while
  `m_iMySlot` is. Setting `LateSpawn` or `SaveLoad` to `TRUE` in this configuration
  shows the traces.
* `squad_shape` (four monsters of one name, two of them flagged as leaders, squads
  of up to three, late spawns, loads, killtargets): `FollowerListed` and
  `LeaderLeads`. Whoever of the two flagged monsters starts first has three
  candidates and room for two, so the limit turns one away: it may recruit the
  other possible leader, or leave it to found a squad of its own, and a leader that
  starts late picks up whom a death has left without a squad. The slots are left out (no bits, no
  enemies): what a squad is does not depend on them. With `DieUnstarted = TRUE`,
  `LeaderLeads` fails: a recruit killed before its first think founds a squad when
  the think comes although its old leader still lists it, and loses it again,
  one-sidedly, when that leader dies. Recruiting in a sphere, without a name, is in
  `squad_slots`, and with late spawns in the theorem `SquadShape`.
* `squad_stale_member` finds that `ListedFollows` fails: `SquadRemove` compares
  the array with `this`, the leader, instead of the monster it removes.

The symmetry of `squad_shape` swaps the two flagged monsters and the two others.
`CHECK_DEADLOCK FALSE`: when all monsters are removed nothing happens any more.

### AudibleChain and SoundEnt

`SoundEnt` keeps the two lists of sounds as the sequences they spell, which
reserved sounds never expire, which sounds have expired, and what each monster
heard. `AudibleChain` is what `Listen` promises whatever the lists hold: each
call threads the sounds it hears, in an order, over links that all monsters
share; a load forgets all of it (`Forget`). `SoundEnt` extends it, and
`ChainSpec` as a property of `SoundEnt` says that each step of the detailed
model is one of the abstract one or leaves the links alone: the refinement is
the identity on the shared variables.

Time and distance are choices: a sound may come of age whenever it is not
reserved, and a monster may hear any audible subset of the active sounds.
`MonsterThink` is a `RunAI` that listens, or one that is out of sight and does not;
either may then ask for the best sound, and `reactions` notes for each answer whether
the monster had just listened and whether the sound was one that it heard.
`ReactsToHeard` speaks of the first kind. The second asks with a condition and a
chain of an earlier think, and what it gets is not restricted: sounds freed, retyped
or threaded anew since, or none.

* `sound_lists` (three sounds, one reserved, two monsters, with loads):
  `OnOneList` (each sound on one of the lists, once), `ReservedActive`,
  `ReactsToHeard`, `ChainsEnd`, the refinement `ChainSpec`, and `ExpiredFreed`.
  Three sounds make chains of all shapes; two monsters are what it takes to
  rewrite each other's links; the pool of three is full after two insertions.
  `ExpiredFreed` assumes weak fairness of `Think`, which the engine calls every
  0.3 s because `Think` sets its own `nextthink`; a load, which empties the
  active list, frees what has expired as well.
* `sound_reset` (two clients) finds that `ReservedActive` fails: `CSound::Reset`
  empties `m_iNext` and so cuts the active list. With one client the property
  holds: new sounds are put in front, so nothing is behind its reserved sound.

Monsters are symmetric, and `sound_reset` uses it; `sound_lists` does not,
because it checks liveness.

`ChainsEnd` speaks of monsters that have listened since the last load. After a
load `m_iAudibleList` and all links are 0 and `pool[0]` links to itself, so a walk
before the first `Listen` would not end. Whether a monster can get there depends on
its conditions and schedule, which this module leaves open.

### Door

Each door has `m_toggle_state`, a position (one of the ends, or between), the
scheduled function, the move-done function and whether its touch function is
set. The functions of the code are operators on these fields (`GoUp`, `HitTop`,
`GoDown`, `HitBottom`, `Activate`, `Used`, `Turn`); `LinearMove` ends at once at
its destination, and so do they. The actions are what the engine calls: `Touch`,
`Use`, `Advance`, `MoveDone`, `WaitOver`, `Blocked`, and `Master`, a change of the
multisource a door asks. Arriving fires targets, other doors, in the same step;
`TargetsAssumption` keeps a door from firing its own name. Firing does not cascade: a
used door stands at an end (`ThinkFits`) and so never arrives in the same step.

* `doors` (five doors: two rotating pieces of one name, one a toggle and one with
  a master; a door that fires and is fired by them, use-only, that stays; two
  that players touch, one with a master, one a toggle): `ThinkFits`,
  `TouchBack`, `LockedStaysShut`, `Returns`. Each flag occurs on a
  named and an unnamed door or where its interplay is (toggles and blocking).
  `Returns` assumes weak fairness of `WaitOver` only: the engine runs a think
  function whose time has come, and nothing disables it.
* `door_asserts` finds that the assertion of `DoorGoUp` fails after a `Use`
  followed by a touch.

### MonsterMaker

Each maker has its two counters, its active flag, whether it thinks, whether a
time is set for that, its use function and whether it is removed; each child is
free, alive or dying and has an owner. `MakeMonster` tests the limits, fires the
targets (which may toggle this maker), and only then counts. `Killed` sends the
notice; `KilledAgain` is damage to a body, which sends another one only for makers
in `Renotifying` (the funghoul); `Remove` takes a child away with no notice, as a
killtarget does. A counter below zero, an unlimited maker, is -1.
Targets are makers that are toggled; a maker that fires a cyclic one, which
would make a monster inside `MakeMonster`, is left out.

* `makers` (three makers: three monsters and two at a time; unlimited and one at a
  time, toggling itself off with each; one monster when it is used; four slots):
  `LiveBound`, `NeverOvermade`, `NoOrphan`, `Refills`. Four slots
  are one for each monster that may be alive together. `Refills` assumes that
  corpses fade (their think functions are scheduled) and strong fairness of a think that makes
  a monster: the place may be blocked at a think but not at all of them. That is
  an assumption on the players and not on the code.
* `makers_twice` finds that `LiveBound` fails when a monster sends two notices.

A named maker that starts on has no time set (`due`), so it makes nothing until
it has been toggled twice; `Init` shows it, `Refills` promises nothing of it.

### Wiring and Agenda

The entities that make a level's logic: `trigger_once` and `trigger_multiple`
(kind `multiple`), `trigger_counter`, `trigger_relay`, `trigger_auto`,
`multi_manager` and its clones, `multisource`, `func_button`, `env_global`, and
the `DelayedUse` that `SUB_UseTargets` makes for a delay. An entity is a slot of
the engine's list, because `FireTargets` goes through that list in its order,
and what it does there may free slots and fill them again before it returns. A
map (`level`) gives the fields that a level designer sets; `Spawn` is `Init`.

Calls are on a stack. A frame is a call of `SUB_UseTargets`, a loop of
`FireTargets` or of `ManagerThink`, with `then` for what its caller still has to
do; so that the second half of `ActivateMultiTrigger`, of `ButtonTouch` or of
`ManagerThink` runs after whatever the first half set off, as in the code. The
four actions of `Calls` run the stack. The others are what the engine calls, on
an empty stack: thinks (`TriggerThink`, `CallThink`, `Register`, `ButtonThink`),
players (`MultiTouch`, `ButtonTouch`, `PlayerUse`, `ButtonShot`), `Reap` (freeing
what has `FL_KILLME`), `Load` and `Tick`. Time is in tenths of a second and does
not pass while something is due.

`Agenda` says what a `multi_manager` promises: a run fires each entry once, in the
order of the delays, none early, none late, and is neither given up nor started
again before it ends, unless the manager is removed (`Remove`). `Wiring` implements it (`KeepsAgenda`): its `m_index`, its sorted arrays
and `m_startTime` are mapped to the set of entries still open by `INSTANCE ...
WITH`.

* `wiring` has three kinds of map, chosen in `MCWiring`, with the list of 12
  slots so that a delayed use and a clone find a free one. `Airlock`: two buttons
  and a manager with an unsorted list switch a multisource, which is the master
  of a third button and pushes it. `Count`: a `trigger_once`, a
  `trigger_multiple`, a threaded manager with clones and relays, one delayed and
  one that fires once, work on a counter that kills the manager. `State` (four
  variants): an auto trigger, an `env_global` that sets, toggles or kills the
  state of a name, a multisource that hangs on it, a counter and buttons behind
  that. They are small because each of these entities has its hazards with one
  or two neighbours; delays of up to three ticks order any two of them both ways.
  `OnceFires`, `CounterNotLost`, `LampShowsButton`, `NoneStuck`, `KeepsAgenda`,
  `NothingHangs`.

Fairness: the stack runs (weak: C++ calls return or go on); an entity whose think
is due gets it, and one that is freed is freed (strong, because a think may have
to wait for the stack again and again); and time passes (strong, likewise). All
three are the engine's frame loop.

What the properties except is what the code does: everybody who is not a member
of a multisource toggles its last member (the search ends at `m_iTotal`, the test
is for more), and who uses one before `Register` writes beside the array; a
button whose master closes while it moves stays where it is; a counter whose
master is closed at its last count never fires.

Left out: triggers that do not fire (`trigger_hurt`, `_push`, `_teleport`, ...),
momentary and rotating buttons, sparks and sounds, the use type (`SetUse` of
relays, `USE_ON` and `USE_OFF`), killtargets of multisources, more than one
global name and its level change, and maps whose relays fire each other in a
cycle, on which the code does not return either.

### Script

`scripted_sequence` and `aiscripted_sequence`, and of a monster the part of its
thinking that carries them out. The link is `cine` (`m_pCine`) and `target`
(`m_hTargetEnt`); `m_iDelay` of each script of a group counts the monsters on
their way. `CineThink` finds and possesses a monster or cancels the group;
`Reschedule` is the whole of a schedule change in `MaintainSchedule`:
`FScheduleValid`, `GetIdealState` (which may exit the script and let a group go),
the new state, `GetSchedule`. Then `Arrive`, `Stumble`, `StartPlay`, `Finish`
(with `SequenceDone`, which fires other scripts and removes this one),
`DieDone`; `AnimEvent` for the events in an animation, `TakeDamage` for wounds,
death and more damage to the dead, `Load`. `Mood` stands for the rest of
`GetIdealState`.

* `scripts`: monsters `p` and `q`; scripts `a` and `b`, walkers of one group, for
  one each, `b` repeatable and firing itself; `c`, an AI script that `a` fires;
  `d`, which takes either of them by class, warps and waits for its trigger. Two
  of the scripts are on a map at a time, in the four pairs that differ (a group,
  a script and an AI script, rivals with and without priority), with up to two
  troubles (wounds or loads) where they interact and one where the states are too
  many. `MaxDelay` bounds an `m_iDelay` that has lost count. No symmetry: the two
  monsters differ. `CHECK_DEADLOCK FALSE`: when the monsters are dead and the
  scripts removed nothing happens any more. `Linked`, `ScriptFound` (the
  assertion `m_pCine != NULL`), `Balanced`, `Together`, `NoneUndead`, `LetGo`.

Fairness: each monster thinks (weak); and it thinks often enough not to miss for
ever the moments at which its group is complete, and a walker that tries again
and again gets to its mark (strong fairness of `Arrive` and `StartPlay`). The
second half is an assumption on maps rather than on the code.

`lost` and `late` name what the code does and the properties except: a group
loses count when a walker dies, or is let go, or is loaded on its way, or is taken
from another script before it has noticed; a monster shot between the end of a
script and its next think has no health and lives.

Left out: gibbed and fading monsters, scripts that are killtargeted (they leave
a dangling `m_pCine`), what `FCheckAITrigger` fires, `m_flDelay`, the schedule
`AMBUSH` at the end, scripted sentences. `SCRIPT_EVENT_FIREEVENT` fires a target
and is a `Use`.

### Inventory

A weapon is an entity: in the world (`touch` is set), in a player's list, in
the weaponbox or on its way out. The functions that call each other
(`AddPlayerItem`, `GiveAmmo`, `GiveNamedItem`, `ExtractAmmo`, `SwitchWeapon`,
`RemovePlayerItem`, `PackWeapon`, `RemoveAllItems`) are operators on a record of
the weapons and the players; the actions are what the engine and the players
call: touching a weapon, ammunition or the box; dropping, selecting, the last
weapon; `PrimaryAttack`, `Reload`, `Discard` and `WeaponIdle`, which are what
`ItemPostFrame` comes to, each after the `ReloadSetAmmos` it begins with;
`DoRetireWeapon`, a hundredth of a second after the last round; death, packing,
stripping, respawning, removal. Times are choices: a reload may end at any frame.

* `inventory`: two players; a handgun whose `ReloadSetAmmos` keeps a round for
  the chamber, a submachine gun that shares its ammunition, and headcrabs, which
  are their own ammunition and cannot be held without it; three weapon entities and
  a box at a time; the map brings in three weapons or rounds (`MaxSupply`), which is
  enough for duplicates, an exchange through the box and a weapon made by
  `GiveAmmo` itself. The players carry two rounds of 9 mm and one headcrab, the
  handgun's clip holds two (with one there is no chamber rule), the other's one.
  `Held`, `Armed`, `AmmoKept`. Players, and weapons, are interchangeable and the
  properties are safety properties, so symmetry is used. `CHECK_DEADLOCK FALSE`:
  players without anything wait for the map.

The rules are those of a multiplayer game without weapons that stay, on a map that
equips its players itself (`game_player_equip`), so that nobody has a crowbar.
`stale` names a deviation: the guns' `Holster` does not cancel a reload although
`CBasePlayerItem::Holster` says "cancel any reload in progress"
(`dlls/weapons.cpp:987`), and when the ammunition is gone before the gun is drawn
again the handgun puts a round into the pool and -1 into its clip; `TypeOK` and
`AmmoKept` except guns that owe a round in this way.

Left out: second kinds of ammunition and fire, hand grenades, weapons that may not
be put away (`CanHolster`), the other guns' own ways to reload, client prediction,
single-player rules.

## 3. The proofs

All theorems hold for any finite or infinite sets of monsters, doors, makers and
scripts, finite sets of players and weapons, and any maps, unless an assumption named in the module or in the
theorem says otherwise; TLC evaluates the modules' assumptions in each run.

* **SquadProofs.** `TypeCorrect`. `SlotsExclusive` (without late spawns and
  loads): the invariant `SlotInv` adds to exclusiveness that a held slot is
  marked (`HeldIsMarked`: otherwise `OccupySlot` could hand it out again) and that a
  monster outside a squad holds nothing when it can still be recruited
  (`RecruitsHoldNothing`). `SquadShape` (if no monster dies before its first
  think): `FollowerListed /\ LeaderLeads` is made inductive by saying that a listed
  monster leads nobody and that what a newcomer follows lists it; `FollowersListed`
  is its half that a run checks. `NoEngageLost` is the converse of `HeldIsMarked` for engage
  slots, that a marked one has a holder (`EngageIsHeld`), on maps without late spawns,
  early deaths, loads and killtargets. Its invariant `MarkInv` says that nobody dies, and
  nobody outside a squad has a slot to bring along, until all have started; that
  afterwards whom a leader lists follows that leader or nobody; that the dead are
  outside; and (`TossHolds`) that a monster which tosses a grenade, and whose slot
  `TASK_SET_SCHEDULE` may overwrite, holds no engage slot. `Choice` lists what a
  change of schedule can do, and `Tight` says which engage slots it leaves marked, so that each
  step of it gives back the one that it takes away.
* **SoundEntProofs.** `EveryChainEnds`, of `AudibleChain`: a walk ends because along every link
  that a listening monster can reach a rank falls: `Acyclic` says that there is such a
  ranking of the pool. A `Listen` links each sound it hears to the one heard before
  and the first to nothing, so these sounds get the lowest ranks; the others keep their order
  above them, and their links fall in the old order or lead into the new chain. The invariant speaks of all links and all lists
  at once, because a monster's chain runs over the links of others. A load leaves
  no monster listening. Of `SoundEnt`: `TypeCorrect`, `PoolKept` (`OnOneList`), for a pool of
  any size. That no sound is lost is not inductive, because `Reset` cuts the active list: `Ordered`
  adds that behind a reserved sound there are only reserved ones, of clients with lower
  indices. So what `Reset` loses is reserved, and `LastClientHeard`: it never loses the sound of the
  last client, which with one client is `LonePlayerHeard` (`ReservedActive`). What
  the walk of the active list collects (`Among`) is found by induction
  on its length, in the form that a place where it first goes wrong is the
  least of a set (`LeastIn`): the sounds that are asked for, in the order of the list (`AmongIs`);
  lemmas say what `Reverse`, concatenation, `Tail` and `SubSeq` do to a list without
  repetitions. `ImplementsChain` is the refinement: the part of the active list that a
  monster hears is one of the orders of `AudibleChain` (`AmongIsOrder`); with it
  `EveryWalkEnds`. What `PBestSound` then visits is exactly what was heard (`VisitsHeard`), hence
  `HeardAnswered` (`ReactsToHeard`).
* **DoorProofs.** `TypeCorrect`, `NoneStuck` (`ThinkFits`, whose inductive form is
  itself with the types: each function of a door leaves fields that fit from any
  fields, so that the order of calls does not matter) and `LockHolds`, the action
  property `LockedStaysShut`: from `AT_BOTTOM` only `Activate` goes up, and a peer
  that rests at the bottom goes down. `NeverDeaf` (`TouchBack`): each function leaves
  a door on its way, at the top, or at the bottom with its touch function, and a
  touch of a door whose fields fit never leaves it at the bottom without one.
* **MonsterMakerProofs** (if each monster sends one notice, `Renotifying = {}`).
  `TypeCorrect`, `LimitsHold`, `NoneOrphaned`, `NoneTooMany`. The invariant says what a maker
  *knows*: no more of its children are alive than it counts, its count is within
  the limit, a maker with nothing left neither thinks nor can be used, and a
  removed one has no living child. Four lemmas say what counting, toggling,
  and a noticed or unnoticed death do to this, about a record and a set and with no
  state.
* **ScriptProofs.** `Safe` is the conjunction of `TypeOK`, `Linked`, `ScriptFound`
  and `NoneUndead`, and is inductive as it stands: that a monster without a
  script is not in the ideal state of one needs that the link is one to one, and
  that a released monster is not left undead needs what `CineCleanup` does to the
  dying. `CleanupKeeps` and `UsedKeeps` are lemmas on the two operators that most
  actions go through; then there is one lemma for each action. `Balanced` counts,
  so it is proved for finite sets of monsters: `Balance` adds it to `Safe`, and a
  step is *steady* for a monster (`Steady`) when it neither joins nor leaves those
  on the way of a group that keeps count. `PossessBalance` adds one monster,
  `ArriveBalance` takes one away, all others are steady (`SteadyBalanced`).
  `AlwaysTogether` follows: `StartPlay` needs an `m_iDelay` of zero, and then
  nobody is on the way.
* **WiringProofs.** `TypeCorrect`, `NothingStuck` (`NoneStuck`) and `CountsToTheEnd`
  (`CounterNotLost`), for any map of `LevelsAssumption`: any number of entities up to
  the 32 of a multisource's arrays, wired in any way, cycles included. The type of the stack is not
  inductive, nor is the range of `m_index`: what the second half of a function does when
  its targets have been fired is right only if the entity is still what it was.
  `Inv` therefore says which kinds of entity own which frames (`FramesFit`), that an
  entity of the map keeps its slot and only clones and delayed uses come and go in
  others (`KindsFit`), and what the stack looks like (`Shape`): a run of a manager or a delayed
  use is at the bottom, and an entry of a run is fired right above it, so that no two
  runs are in progress and none is resumed by another's frame. `Timely` says of
  each entity that what is under way has a time to think or is in the middle of it;
  it is also what keeps a manager from thinking while it is not in its list. `Inv /\ Timely`
  is inductive together, with one lemma for each action; the lemmas on stacks say
  what pushing, popping and turning a frame leave of all this. `CountFor` adds that
  a counter that still counts has no call in progress and no wait, without which
  its last use would be dropped.
  `LampsShow` (`LampShowsButton`) takes the whole stack into account: while a button's
  functions run, a multisource shows it wrongly, once or twice. `LampAt` says that it is
  right when the calls of the button that have still to reach the multisource (`Awaited`)
  are taken into account, each of which toggles it: the one that fires the targets of a pushed button and the
  loop of `ButtonBackHome`. `Lone` says that there is at most one of each kind, and
  that a call fires what the button targets; `SourceFor` that a multisource looks
  for its members once. `Aside` is what every step but `Register` leaves alone, so that
  one lemma for each action has to look only at the button (`TurnedCalls` when the
  step is the use of the multisource itself).
  `FiresOnce` (`OnceFires`) rests on `OnceFor`: no two calls of an entity that fires once are in progress
  (`Alone`), it has not fired while its call of `SUB_UseTargets` is still to begin, and
  once it has fired it is on the stack or `Done`: a counter at its end, a trigger
  without touch function, a relay or auto trigger that is removed or about to be. A relay has
  nothing that closes it before `UTIL_Remove`, which comes after its targets have been fired:
  one that is called again by what it fires, as a relay that fires a counter which fires the
  relay, does fire twice. The theorem therefore assumes `NoReturn`: for each such relay
  there is a set of callers (relays, counters, buttons, multisources) without it which has all that
  its members and the relay name as target (`Beyond`; a delay breaks the chain, but for the
  multisources that a button uses itself). `Lines` says that all that stands on the stack above a
  relay is of that set (`Above`). Runs of managers, delayed uses and uses by players begin with
  the stack empty, so they need no such hypothesis. TLC checks `NoReturn` of the
  maps of the run (`NoReturnOfMaps`). `SortedInOrder` says that the sort in
  `CMultiManager::Spawn` has a result, the only thing the `CHOOSE` in `Sorted`
  needs, and what it is; by the shortest list without one.
* **AgendaProofs.** `ImplementsAgenda` (`KeepsAgenda`): with the mapping of `Wiring`
  every behaviour of it is one of `Agenda`, for any map. `Inv` and `Timely` do not say when a
  manager thinks, so `OnTime` adds that its list is in order and that one that waits in the list either
  thinks at once or has `due + age` equal to the delay of the entry it has come to: the
  difference `ManagerThink` puts in `nextthink` stays right as time passes. `Moves` lists
  what a step may do to the runs: leave each alone (`Unmoved`), or begin, proceed, end or
  remove one of them, or let time pass for all. `MovesAgenda` shows that this is a step or a stutter of
  `Agenda`, and there is one lemma for each action of `Wiring` that it moves so. The
  entry that is being fired is past for `Agenda` and still at `m_index` for the
  code (`Place`), until its targets have been fired: `NextOfRun` is what makes the two meet.

* **InventoryProofs.** `OnePlace` (`Held`) and `ThrownArmed` (`Armed`), for any players, weapons
  and classes. `Held` is not inductive: `Inv` (`Sound` with `ArmedIn`) says in addition that a weapon
  that somebody holds, or that is in the box, brings no more rounds (`Kept`: otherwise a duplicate
  could be refused and stay where nobody can get it), and that what lies in the world is not
  due for removal. The operators of `Inventory` call each other and pass through states
  that are not sound, so each has a lemma that says what it changes, not that it keeps the
  invariant: nothing but clips and hands (`Settled`), one pool (`PoolOnly`), what a
  duplicate brings (`Extracted`), a weapon come to the list (`Added`) or gone from it (`Packed`).
  `LocalSound` puts them together: what changes one weapon and one player leaves the rest
  sound. Between the two halves of dropping a weapon, or of packing the dead, a player
  has ammunition without its weapon; `ArmedBut` names the one kind. `ThrownArmed` needs the
  part of `InventoryAssumption` that no other weapon uses the ammunition of an exhaustible one,
  which is so of hand grenades, satchels, trip mines and headcrabs: `GiveAmmo` may give
  one weapon at a time. `NoneAssumption` only says that a missing entity is not a record.
  `WithinBounds` (`TypeOK`): the bounds of clips and pools are not inductive either, since a
  reload takes what it needs only when it ends. `Fit` says of each gun that a reload under way
  that is not stale is of the weapon in somebody's hand, and that its clip is not
  full and its owner's pool not empty (`LoadFits`): what makes it stale is what
  `Holster` leaves running. `AmmunitionKept` (`AmmoKept`) adds the rounds of all pools, all clips
  and the box. That a sum over a finite set is a function with a recursion equation is
  proved without the library's induction, by the smallest set where it would fail
  (`SumFunction`), hence the finite sets of players and weapons in
  `InventoryAssumption`. Operators that take ammunition out of one place to put it in another say
  how many rounds they bring (`Brings`), those that move it within one
  player that they conserve it (`Conserves`); a gun with a clip below zero has
  borrowed a round (`Paid` if none has), the exception `Owing` of the property.

Only model-checked: liveness (`ExpiredFreed`, `Returns`, `Refills`, `NothingHangs`,
`LetGo`), which is beyond the prover, and `OnceFires` for maps that do not satisfy
`NoReturn`, of which it need not hold. Each invariant and each safety property of the passing runs is
a theorem, if only under the hypotheses named above.

## 4. What is left

Plan, in this order.

1. `Schedule`: conditions, interrupts and tasks, with the refinement that the
   `MaintainSchedule` of `Squad`, the `Reschedule` of `Script` and the `MonsterThink` of
   `SoundEnt` are steps of it. It decides the open question of the walk after a load.
2. `Horde`: the lists of places of horde makers, the last one used, and the
   loop that may not end.
3. As far as time allows: talking monsters, trains over `LinearMove`, scripted
   sentences, the other guns, satchels and tripmines, and the algorithms of
   `nodes.cpp` against reference definitions.

Not modelled of the components above: the squad's shared last known position and
`m_fEnemyEluded`; of doors, sounds, damage, health given, killtargets and delayed
targets, `func_door_momentary` (it follows a button and schedules nothing),
`func_water`, and the side to which a rotating door opens (it turns away from its
activator, which changes the sign of the angle and no state); of makers, the place of
a horde maker, the shorter wait after it found none, makers that are killtargeted, entities that
fail to spawn. Sound masks, volumes and distances are choices.
