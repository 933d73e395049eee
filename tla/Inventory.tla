----------------------------- MODULE Inventory -----------------------------
(***************************************************************************)
(* Weapons and ammunition of the players of a multiplayer game             *)
(* (dlls/player.cpp, weapons.cpp, weapons_shared.cpp, gamerules.cpp,       *)
(* multiplay_gamerules.cpp).                                               *)
(*                                                                         *)
(* A weapon is an entity that lies in the world, is in the list of a       *)
(* player, is packed in a weaponbox, or is about to be removed; nothing    *)
(* but the calls below keeps these apart.  Rounds are in the pools of the  *)
(* players, in clips, in new weapons (m_iDefaultAmmo) and in the box.      *)
(* The functions of the code are operators on a record s of the two        *)
(* variables they change, because they call each other.                    *)
(***************************************************************************)
EXTENDS Integers, FiniteSets, FiniteSetsExt, Functions

CONSTANTS
  Player, None,
  Weapon,       \* bound: the entities there may be at a time
  Class,        \* class names of weapons
  Ammo,         \* kinds of ammunition
  AmmoOf,       \* pszAmmo1 of a class
  MaxClip,      \* iMaxClip, NoClip for weapons that use the pool
  MaxAmmo,      \* iMaxAmmo1
  DefaultAmmo,  \* m_iDefaultAmmo of a new weapon
  Weight,       \* iWeight
  Exhaustible,  \* ITEM_FLAG_EXHAUSTIBLE: the weapon is its own ammunition
  Chambered,    \* classes whose ReloadSetAmmos is that of CGlock
  Equipment,    \* what game_player_equip gives
  MaxSupply     \* bound: how many weapons and ammunition boxes the map brings into the game

NoClip == -1

ASSUME InventoryAssumption ==
  /\ IsFiniteSet(Player) /\ IsFiniteSet(Weapon)
  /\ None \notin Weapon /\ None \notin Player /\ None \notin Class
  /\ AmmoOf \in [Class -> Ammo] /\ MaxAmmo \in [Ammo -> Nat \ {0}]
  /\ MaxClip \in [Class -> (Nat \ {0}) \cup {NoClip}]
  /\ DefaultAmmo \in [Class -> Nat \ {0}] /\ Weight \in [Class -> Nat]
  /\ Exhaustible \subseteq Class /\ \A c \in Exhaustible : MaxClip[c] = NoClip
  /\ \A c \in Exhaustible, d \in Class : AmmoOf[c] = AmmoOf[d] => c = d
  /\ Chambered \subseteq Class /\ \A c \in Chambered : MaxClip[c] # NoClip
  /\ Equipment \in Class /\ MaxSupply \in Nat

VARIABLES
  weapon,   \* of each weapon: its class, owner (m_pPlayer), clip, spare (m_iDefaultAmmo), pending
            \* (m_fInReload of a gun, m_fJustThrown of a thrown weapon), think, touch (DefaultTouch
            \* is set), and the history stale: it was holstered with a reload pending
  player,   \* of each player: items (m_rgpPlayerItems), active, last, pool (m_rgAmmo), dead
  box,      \* the weaponbox, if there is one: its weapon, rounds, and whether it is timed
  supplied  \* how much the map has brought

vars == <<weapon, player, box, supplied>>

WeaponType ==
  [class : Class, owner : Player \cup {None}, clip : Int, spare : Nat, pending : BOOLEAN,
   think : {"none", "retire", "remove"}, touch : BOOLEAN, stale : BOOLEAN]
PlayerType == [items : SUBSET Weapon, active : Weapon \cup {None}, last : Weapon \cup {None},
               pool : [Ammo -> Int], dead : BOOLEAN]
BoxType == [weapon : Weapon \cup {None}, rounds : Int, timed : BOOLEAN]

\* None stands for a missing entity.
ASSUME NoneAssumption == None \notin WeaponType /\ None \notin BoxType

now == [weapon |-> weapon, player |-> player]
Become(s) == weapon' = s.weapon /\ player' = s.player

Free == {w \in Weapon : weapon[w] = None}

\* The entity that CREATE_NAMED_ENTITY gets; None when there is none left.
New == IF Free = {} THEN {None} ELSE Free

Fresh(c) == [class |-> c, owner |-> None, clip |-> 0, spare |-> DefaultAmmo[c],
             pending |-> FALSE, think |-> "none", touch |-> TRUE, stale |-> FALSE]

NoRounds == [a \in Ammo |-> 0]

Has(s, p, c) == \E w \in s.player[p].items : s.weapon[w].class = c
Rounds(s, w) == s.player[s.weapon[w].owner].pool[AmmoOf[s.weapon[w].class]]

-----------------------------------------------------------------------------
(* Switching *)

\* CanDeploy, and IsUseable, which comes to the same.
CanDeploy(s, w) == s.weapon[w].clip > 0 \/ Rounds(s, w) # 0

\* The guns redefine Holster: it leaves m_fInReload as it is.
Holster(s, w) ==
  IF w # None /\ s.weapon[w].pending /\ MaxClip[s.weapon[w].class] # NoClip
  THEN [s EXCEPT !.weapon[w].stale = TRUE] ELSE s

Wield(s, p, w) == [Holster(s, s.player[p].active) EXCEPT !.player[p].active = w]

SwitchWeapon(s, p, w) ==
  IF w # None /\ ~CanDeploy(s, w) THEN s ELSE Wield(s, p, w)

\* FindNextBestWeapon: what GetNextBestWeapon may switch to when w is put away.
NextBest(s, p, w) ==
  LET ready == {v \in s.player[p].items \ {w} : CanDeploy(s, v)}
      weight(v) == Weight[s.weapon[v].class]
      alike == {v \in ready : weight(v) = weight(w)}
  IN IF alike # {} THEN alike ELSE {v \in ready : \A u \in ready : weight(u) <= weight(v)}

\* FShouldSwitchWeapon; auto says whether the setting and the buttons of the player allow it.
ShouldSwitch(s, p, w, auto) ==
  LET active == s.player[p].active
  IN /\ CanDeploy(s, w)
     /\ \/ active = None
        \/ auto /\ Weight[s.weapon[w].class] > Weight[s.weapon[active].class]

-----------------------------------------------------------------------------
(* Picking up *)

Link(s, p, w) ==
  [s EXCEPT !.weapon[w].owner = p, !.player[p].items = @ \cup {w}]

\* AttachToPlayer: neither lying nor falling any more.
Attach(s, w) == [s EXCEPT !.weapon[w].touch = FALSE, !.weapon[w].think = "none"]

Kill(s, w) == [s EXCEPT !.weapon[w].touch = FALSE, !.weapon[w].think = "remove"]

\* GiveNamedItem with no ammunition, of a weapon the player has not got: it brings nothing,
\* and without rounds the player does not switch to it.
GiveEmpty(s, p, c, new) ==
  IF new = None THEN s
  ELSE Attach(Link([s EXCEPT !.weapon[new] = [Fresh(c) EXCEPT !.spare = 0, !.clip = NoClip]],
                   p, new), new)

GiveAmmo(s, p, n, a, new) ==
  LET add == Min({n, MaxAmmo[a] - s.player[p].pool[a]})
      missing == {c \in Exhaustible : AmmoOf[c] = a /\ ~Has(s, p, c)}
      armed == IF missing = {} THEN s ELSE GiveEmpty(s, p, CHOOSE c \in missing : TRUE, new)
  IN IF add < 1 THEN s ELSE [armed EXCEPT !.player[p].pool[a] = @ + add]

\* AddPrimaryAmmo of weapon v: an empty clip is filled first.
AddPrimaryAmmo(s, v, n, new) ==
  LET c == s.weapon[v].class
      i == IF s.weapon[v].clip = 0 THEN Min({n, MaxClip[c]}) ELSE 0
  IN IF MaxClip[c] = NoClip
     THEN GiveAmmo([s EXCEPT !.weapon[v].clip = NoClip], s.weapon[v].owner, n, AmmoOf[c], new)
     ELSE GiveAmmo([s EXCEPT !.weapon[v].clip = @ + i], s.weapon[v].owner, n - i, AmmoOf[c], new)

\* ExtractAmmo: what w brings goes to v.
ExtractAmmo(s, w, v, new) ==
  [AddPrimaryAmmo(s, v, s.weapon[w].spare, new) EXCEPT !.weapon[w].spare = 0]

ExtractClipAmmo(s, w, p, new) ==
  GiveAmmo(s, p, IF s.weapon[w].clip = NoClip THEN 0 ELSE s.weapon[w].clip,
           AmmoOf[s.weapon[w].class], new)

\* The player has such a weapon, v: AddDuplicate, and w is removed if v took anything.
AddDuplicate(s, p, w, v, new) ==
  IF s.weapon[w].spare = 0 THEN Kill(ExtractClipAmmo(s, w, p, new), w)
  ELSE LET a == AmmoOf[s.weapon[w].class]
       IN IF s.player[p].pool[a] < MaxAmmo[a] THEN Kill(ExtractAmmo(s, w, v, new), w)
          ELSE ExtractAmmo(s, w, v, new)

\* Variation: the ammunition is extracted before the weapon is in the list.
AddPlayerItemLate(s, p, w, auto, new) ==
  LET same == {v \in s.player[p].items : s.weapon[v].class = s.weapon[w].class}
      owned == [s EXCEPT !.weapon[w].owner = p]
      added == Attach(Link(ExtractAmmo(owned, w, w, new), p, w), w)
  IN IF same # {} THEN AddDuplicate(s, p, w, CHOOSE v \in same : TRUE, new)
     ELSE IF ShouldSwitch(added, p, w, auto) THEN SwitchWeapon(added, p, w) ELSE added

\* AddPlayerItem and, if it is added, the AttachToPlayer of its callers.
AddPlayerItem(s, p, w, auto, new) ==
  LET same == {v \in s.player[p].items : s.weapon[v].class = s.weapon[w].class}
      added == Attach(ExtractAmmo(Link(s, p, w), w, w, new), w)
  IN IF same # {} THEN AddDuplicate(s, p, w, CHOOSE v \in same : TRUE, new)
     ELSE IF ShouldSwitch(added, p, w, auto) THEN SwitchWeapon(added, p, w) ELSE added

\* DefaultTouch with CanHavePlayerItem.
CanHave(s, p, w) ==
  LET c == s.weapon[w].class
  IN ~s.player[p].dead /\ (s.player[p].pool[AmmoOf[c]] < MaxAmmo[AmmoOf[c]] \/ ~Has(s, p, c))

\* UTIL_Remove of a weapon, at last.
Removed(w) ==
  /\ weapon[w] # None /\ weapon[w].think = "remove"
  /\ weapon' = [weapon EXCEPT ![w] = None]
  /\ UNCHANGED <<player, box>>

\* A weapon of the map comes down, or one that has been taken materializes again.
Spawn(w, c) ==
  /\ w \in Free
  /\ weapon' = [weapon EXCEPT ![w] = Fresh(c)]
  /\ UNCHANGED <<player, box>>

DefaultTouch(p, w) ==
  /\ weapon[w] # None /\ weapon[w].touch /\ CanHave(now, p, w)
  /\ \E new \in New, auto \in BOOLEAN : Become(AddPlayerItem(now, p, w, auto, new))
  /\ UNCHANGED box

\* CBasePlayerAmmo: a round for guns.  A dead player is not solid.
TakeAmmo(p, a) ==
  /\ ~player[p].dead
  /\ \A c \in Exhaustible : AmmoOf[c] # a
  /\ player[p].pool[a] < MaxAmmo[a]
  /\ Become(GiveAmmo(now, p, 1, a, None))
  /\ UNCHANGED box

-----------------------------------------------------------------------------
(* Giving away *)

\* The weapon in hand is holstered and thinks no more.
PutAway(s, p, w) ==
  IF s.player[p].active = w
  THEN [Holster(s, w) EXCEPT !.weapon[w].think = "none", !.player[p].active = None] ELSE s

RemovePlayerItem(s, p, w) ==
  LET put == PutAway(s, p, w)
      own == put.player[p]
  IN [put EXCEPT !.player[p] = [own EXCEPT !.items = @ \ {w}, !.last = IF @ = w THEN None ELSE @]]

PackWeapon(s, w) ==
  [RemovePlayerItem(s, s.weapon[w].owner, w) EXCEPT
     !.weapon[w].owner = None, !.weapon[w].think = "none", !.weapon[w].touch = FALSE]

Drop(it) == [it EXCEPT !.touch = FALSE, !.think = "remove"]

Emptied(own) ==
  [own EXCEPT !.items = {}, !.active = None, !.last = None, !.pool = NoRounds]

RemoveAllItems(s, p) ==
  LET put == Holster(s, s.player[p].active)
      items == s.player[p].items
  IN [weapon |-> [w \in Weapon |-> IF w \in items THEN Drop(put.weapon[w]) ELSE put.weapon[w]],
      player |-> [s.player EXCEPT ![p] = Emptied(s.player[p])]]

\* The rounds that go into the box with the weapon when it is dropped.
Half(s, w) == IF s.weapon[w].class \in Exhaustible THEN Rounds(s, w) ELSE Rounds(s, w) \div 2

\* Variation: a weapon that is its own ammunition goes without it.
LeftThrown(s, w) == IF s.weapon[w].class \in Exhaustible THEN Rounds(s, w) ELSE Rounds(s, w) \div 2

\* Variation: the player keeps what is packed.
LeftAll(s, w) == IF s.weapon[w].class \in Exhaustible THEN 0 ELSE Rounds(s, w)

Left(s, w) == IF s.weapon[w].class \in Exhaustible THEN 0 ELSE Rounds(s, w) \div 2

\* DropPlayerItem; bound: there is one box at a time.
DropPlayerItem(p, w) ==
  /\ box = None /\ w \in player[p].items
  /\ \E to \in NextBest(now, p, w) :
       LET switched == SwitchWeapon(now, p, to)
           left == [PackWeapon(switched, w) EXCEPT
                      !.player[p].pool[AmmoOf[weapon[w].class]] = Left(switched, w)]
       IN /\ Become(left)
          /\ box' = [weapon |-> w, rounds |-> Half(switched, w), timed |-> FALSE]

Killed(p) ==
  /\ ~player[p].dead
  /\ Become([Holster(now, player[p].active) EXCEPT !.player[p].dead = TRUE])
  /\ UNCHANGED box

\* PackDeadPlayerItems: the weapon in hand is topped up and packed with its ammunition,
\* the rest is removed.
PackDeadPlayerItems(p) ==
  LET w == player[p].active
      j == Min({MaxClip[weapon[w].class] - weapon[w].clip, Rounds(now, w)})
      full == [now EXCEPT !.weapon[w].clip = @ + j]
  IN /\ box = None /\ player[p].dead /\ player[p].items # {}
     /\ IF w = None
        THEN /\ Become(RemoveAllItems(now, p))
             /\ box' = [weapon |-> None, rounds |-> 0, timed |-> TRUE]
        ELSE /\ Become(RemoveAllItems(PackWeapon(full, w), p))
             /\ box' = [weapon |-> w, rounds |-> Rounds(now, w) - j, timed |-> TRUE]

\* PlayerSpawn, with a game_player_equip that gives one weapon.
Respawn(p, w) ==
  /\ player[p].dead /\ player[p].items = {} /\ w \in Free
  /\ LET reset == [now EXCEPT !.weapon[w] = Fresh(Equipment),
                              !.player[p] = [@ EXCEPT !.dead = FALSE, !.last = None,
                                                      !.pool = NoRounds]]
     IN Become(AddPlayerItem(reset, p, w, TRUE, None))
  /\ UNCHANGED box

\* player_weaponstrip
Strip(p) ==
  /\ ~player[p].dead /\ player[p].items # {}
  /\ Become(RemoveAllItems(now, p))
  /\ UNCHANGED box

-----------------------------------------------------------------------------
(* The box *)

\* CWeaponBox::Touch: its ammunition, then its weapon.  Bound: an entity is left for the
\* weapon that comes with exhaustible ammunition.
TouchBox(p) ==
  /\ box # None /\ ~player[p].dead
  /\ IF box.weapon = None THEN UNCHANGED <<weapon, player>>
     ELSE \E new \in New, auto \in BOOLEAN :
            LET c == weapon[box.weapon].class
                given == IF box.rounds = 0 THEN now ELSE GiveAmmo(now, p, box.rounds, AmmoOf[c], new)
            IN /\ c \in Exhaustible => new # None
               /\ Become(AddPlayerItem(given, p, box.weapon, auto, None))
  /\ box' = None

\* CWeaponBox::Kill
KillBox ==
  /\ box # None /\ box.timed
  /\ weapon' = IF box.weapon = None THEN weapon ELSE [weapon EXCEPT ![box.weapon].think = "remove"]
  /\ box' = None
  /\ UNCHANGED player

-----------------------------------------------------------------------------
(* Commands and frames *)

SelectItem(p, w) ==
  /\ w \in player[p].items /\ w # player[p].active
  /\ Become([Wield(now, p, w) EXCEPT !.player[p].last = player[p].active])
  /\ UNCHANGED box

SelectLastItem(p) ==
  /\ player[p].last # None
  /\ Become([Wield(now, p, player[p].last) EXCEPT !.player[p].last = player[p].active])
  /\ UNCHANGED box

\* What goes into the clip; CGlock leaves a round for the chamber.
Load(s, w) ==
  LET it == s.weapon[w]
      j == Min({MaxClip[it.class] - it.clip, Rounds(s, w)})
  IN IF it.class \in Chambered /\ it.clip = 0 /\ Rounds(s, w) # 1 THEN j - 1 ELSE j

Loaded(it, n) ==
  [it EXCEPT !.clip = @ + n, !.pending = FALSE, !.stale = it.stale /\ it.clip + n < 0]

\* ReloadSetAmmos, when the weapon's frame comes.
ReloadSetAmmos(s, w) ==
  LET it == s.weapon[w]
  IN IF MaxClip[it.class] = NoClip \/ ~it.pending THEN s
     ELSE [s EXCEPT !.weapon[w] = Loaded(it, Load(s, w)),
                    !.player[it.owner].pool[AmmoOf[it.class]] = @ - Load(s, w)]

\* ItemPostFrame of the weapon in hand begins with ReloadSetAmmos.
InHand(p) == ~player[p].dead /\ player[p].active # None
Ready(p) == ReloadSetAmmos(now, player[p].active)

PrimaryAttack(p) ==
  LET s == Ready(p)
      w == player[p].active
      a == AmmoOf[weapon[w].class]
  IN /\ InHand(p)
     /\ \/ /\ MaxClip[weapon[w].class] # NoClip /\ s.weapon[w].clip > 0
           /\ Become([s EXCEPT !.weapon[w].clip = @ - 1])
        \/ /\ MaxClip[weapon[w].class] = NoClip /\ Rounds(s, w) # 0
           /\ Become([s EXCEPT !.weapon[w].pending = TRUE, !.player[p].pool[a] = @ - 1])
     /\ UNCHANGED box

\* Variation: a reload is begun with nothing to load.
DefaultReloadEmpty(s, w) == s.weapon[w].clip # MaxClip[s.weapon[w].class]

\* DefaultReload begins, after the key or because the clip is empty.
DefaultReload(s, w) == Min({MaxClip[s.weapon[w].class] - s.weapon[w].clip, Rounds(s, w)}) > 0

Reload(p) ==
  LET s == Ready(p)
      w == player[p].active
  IN /\ InHand(p) /\ MaxClip[weapon[w].class] # NoClip
     /\ s.weapon[w].clip # MaxClip[weapon[w].class]
     /\ Become(IF DefaultReload(s, w) THEN [s EXCEPT !.weapon[w].pending = TRUE] ELSE s)
     /\ UNCHANGED box

\* The weapon is of no use: GetNextBestWeapon.
Discard(p) ==
  LET s == Ready(p)
      w == player[p].active
  IN /\ InHand(p) /\ ~CanDeploy(s, w)
     /\ \E to \in NextBest(s, p, w) : Become(SwitchWeapon(s, p, to))
     /\ UNCHANGED box

\* WeaponIdle; the last of a thrown weapon is gone: RetireWeapon.
WeaponIdle(p) ==
  LET s == Ready(p)
      w == player[p].active
      thrown == MaxClip[weapon[w].class] = NoClip /\ weapon[w].pending
      last == Rounds(now, w) = 0
  IN /\ InHand(p)
     /\ Become(IF thrown THEN [s EXCEPT !.weapon[w].pending = FALSE,
                                        !.weapon[w].think = IF last THEN "retire" ELSE @]
               ELSE s)
     /\ UNCHANGED box

DoRetireWeapon(w) ==
  LET p == weapon[w].owner
      s == [now EXCEPT !.weapon[w].think = "none"]
  IN /\ weapon[w] # None /\ weapon[w].think = "retire"
     /\ IF p = None \/ player[p].active # w THEN Become(s)
        ELSE IF NextBest(s, p, w) = {} THEN Become(SwitchWeapon(s, p, None))
        ELSE \E to \in NextBest(s, p, w) : Become(SwitchWeapon(s, p, to))
     /\ UNCHANGED box

-----------------------------------------------------------------------------
\* A map that hands out its own weapons has just stripped the players.
Init ==
  /\ weapon = [w \in Weapon |-> None]
  /\ player = [p \in Player |-> [items |-> {}, active |-> None, last |-> None,
                                 pool |-> NoRounds, dead |-> FALSE]]
  /\ box = None
  /\ supplied = 0

Supply ==
  /\ supplied < MaxSupply
  /\ supplied' = supplied + 1
  /\ \/ \E w \in Weapon, c \in Class : Spawn(w, c)
     \/ \E p \in Player, a \in Ammo : TakeAmmo(p, a)
     \/ \E p \in Player, w \in Weapon : Respawn(p, w)

Frame(p) == PrimaryAttack(p) \/ Reload(p) \/ Discard(p) \/ WeaponIdle(p)

World ==
  \/ KillBox
  \/ \E w \in Weapon : Removed(w) \/ DoRetireWeapon(w)
  \/ \E p \in Player : Killed(p) \/ PackDeadPlayerItems(p) \/ Strip(p) \/ TouchBox(p)
  \/ \E p \in Player, w \in Weapon : DefaultTouch(p, w)

Commands ==
  \/ \E p \in Player : SelectLastItem(p)
  \/ \E p \in Player, w \in Weapon : SelectItem(p, w) \/ DropPlayerItem(p, w)

Next == Supply \/ (UNCHANGED supplied /\ (World \/ Commands \/ \E p \in Player : Frame(p)))

Spec == Init /\ [][Next]_vars

-----------------------------------------------------------------------------
(* Properties *)

\* Types; and a clip never holds less than nothing or more than fits.  ReloadSetAmmos of the
\* handgun takes a round out of nowhere into the pool, and leaves -1 in the clip, when there
\* is nothing to load, which DefaultReload excludes when the reload begins; the Holster of
\* the guns does not cancel a reload, and by the time the gun is drawn again the ammunition
\* may be gone.  Such a weapon is stale.
TypeOK ==
  /\ weapon \in [Weapon -> WeaponType \cup {None}]
  /\ player \in [Player -> PlayerType]
  /\ supplied \in 0..MaxSupply
  /\ box # None => box \in BoxType /\ box.rounds >= 0
  /\ \A w \in Weapon \ Free :
       LET it == weapon[w]
       IN IF MaxClip[it.class] = NoClip THEN it.clip \in {NoClip, 0}
          ELSE it.clip <= MaxClip[it.class] /\ (it.clip >= 0 \/ it.stale)
  /\ \A p \in Player, a \in Ammo : player[p].pool[a] \in 0..MaxAmmo[a]

Holders(w) ==
  {p \in Player : w \in player[p].items} \cup
  (IF weapon[w] # None /\ weapon[w].touch THEN {"world"} ELSE {}) \cup
  (IF box # None /\ box.weapon = w THEN {"box"} ELSE {}) \cup
  (IF weapon[w] = None \/ weapon[w].think = "remove" THEN {"nobody"} ELSE {})

\* A weapon is in exactly one place: with a player who is its m_pPlayer, in the world, in
\* the box, or on its way out; so that no weapon is removed that somebody holds and none is
\* left that nobody can get.  A player has one weapon of a class, and the weapon in hand and
\* the last one are his own.  AddPlayerItem, PackWeapon and the functions that call them
\* each move the weapon in several steps, with other weapons made on the way.
Held ==
  /\ \A w \in Weapon : Cardinality(Holders(w)) = 1
  /\ \A p \in Player :
       /\ \A w \in player[p].items : weapon[w].owner = p
       /\ \A v, w \in player[p].items : weapon[v].class = weapon[w].class => v = w
       /\ {player[p].active, player[p].last} \subseteq player[p].items \cup {None}

\* Whoever has ammunition that is a weapon has the weapon: GiveAmmo gives it, and what takes
\* the weapon away takes the ammunition too.
Armed ==
  \A p \in Player, c \in Exhaustible : player[p].pool[AmmoOf[c]] > 0 => Has(now, p, c)

\* The rounds in a weapon, unless it is on its way out.
RoundsIn(it, a) ==
  IF it = None \/ it.think = "remove" \/ AmmoOf[it.class] # a THEN 0
  ELSE it.spare + (IF MaxClip[it.class] = NoClip THEN 0 ELSE it.clip)

\* The rounds there are of a kind: in the pools, in the weapons, in the box.
TotalIn(s, a) ==
  SumFunction([p \in Player |-> s.player[p].pool[a]])
  + SumFunction([w \in Weapon |-> RoundsIn(s.weapon[w], a)])

RoundsInBox(a) ==
  IF box # None /\ box.weapon # None /\ weapon[box.weapon] # None
     /\ AmmoOf[weapon[box.weapon].class] = a
  THEN box.rounds ELSE 0

Total(a) == TotalIn(now, a) + RoundsInBox(a)

Owing == \E w \in Weapon \ Free : weapon[w].stale /\ weapon[w].clip < 0

\* No step but a supply makes ammunition: what is extracted, topped up, packed, dropped,
\* halved or handed over is taken from where it was.
AmmoKept == [][supplied' # supplied \/ Owing \/ \A a \in Ammo : Total(a)' <= Total(a)]_vars

=============================================================================
