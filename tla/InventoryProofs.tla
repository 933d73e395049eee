-------------------------- MODULE InventoryProofs --------------------------
(* Theorems about Inventory, for any players, weapons, classes and ammunition. *)
EXTENDS Inventory, TLAPS, FiniteSetTheorems, WellFoundedInduction

(***************************************************************************)
(* The invariant, of the record s that the operators change                *)
(***************************************************************************)

States == [weapon : [Weapon -> WeaponType \cup {None}], player : [Player -> PlayerType]]

\* Of no use to anybody who has it not: not in the world, not on its way out, with no rounds
\* that AddDuplicate could leave in it.
Kept(it) == it # None /\ ~it.touch /\ it.think # "remove" /\ it.spare = 0

\* A weapon is in the world, on its way out, one of X or with a player.
Placed(s, X, w) ==
  s.weapon[w] # None =>
    /\ ~(s.weapon[w].touch /\ s.weapon[w].think = "remove")
    /\ \/ s.weapon[w].touch \/ s.weapon[w].think = "remove" \/ w \in X
       \/ \E p \in Player : w \in s.player[p].items

\* What p has is his, and not in X.
Own(s, X, p) == \A w \in s.player[p].items : Kept(s.weapon[w]) /\ s.weapon[w].owner = p /\ w \notin X

OneOfAClass(s, p) == \A v, w \in s.player[p].items : s.weapon[v].class = s.weapon[w].class => v = w

InList(s, p) == {s.player[p].active, s.player[p].last} \subseteq s.player[p].items \cup {None}

\* The weapons of X are held elsewhere, in the box.
Sound(s, X) ==
  /\ s \in States
  /\ \A w \in Weapon : Placed(s, X, w)
  /\ \A w \in X : w \in Weapon /\ Kept(s.weapon[w])
  /\ \A p \in Player : Own(s, X, p) /\ OneOfAClass(s, p) /\ InList(s, p)

ArmedIn(s) ==
  \A p \in Player, c \in Exhaustible : s.player[p].pool[AmmoOf[c]] > 0 => Has(s, p, c)

Boxed == IF box = None THEN {} ELSE {box.weapon} \ {None}

Inv == /\ Sound(now, Boxed) /\ ArmedIn(now)
       /\ box = None \/ box \in BoxType

(***************************************************************************)
(* Reading states                                                          *)
(***************************************************************************)

LEMMA MinOfTwo ==
  ASSUME NEW a \in Int, NEW b \in Int
  PROVE  Min({a, b}) = IF a <= b THEN a ELSE b
<1>1. PICK m : m = IF a <= b THEN a ELSE b
  OBVIOUS
<1>2. m \in {a, b} /\ \A y \in {a, b} : m <= y
  BY <1>1
<1>3. \A x \in {a, b} : (\A y \in {a, b} : x <= y) => x = m
  BY <1>1
<1>4. Min({a, b}) = m
  BY <1>2, <1>3, Zenon DEF Min
<1> QED BY <1>1, <1>4

LEMMA WeaponFields ==
  ASSUME NEW s \in States, NEW w \in Weapon, s.weapon[w] # None
  PROVE  /\ s.weapon[w] \in WeaponType
         /\ s.weapon[w].class \in Class /\ s.weapon[w].owner \in Player \cup {None}
         /\ s.weapon[w].clip \in Int /\ s.weapon[w].spare \in Nat
         /\ s.weapon[w].pending \in BOOLEAN /\ s.weapon[w].stale \in BOOLEAN
         /\ s.weapon[w].touch \in BOOLEAN /\ s.weapon[w].think \in {"none", "retire", "remove"}
<1>1. s.weapon[w] \in WeaponType
  BY DEF States
<1> QED BY <1>1 DEF WeaponType

LEMMA PlayerFields ==
  ASSUME NEW s \in States, NEW p \in Player
  PROVE  /\ s.player[p] \in PlayerType
         /\ s.player[p].items \subseteq Weapon
         /\ s.player[p].active \in Weapon \cup {None} /\ s.player[p].last \in Weapon \cup {None}
         /\ s.player[p].pool \in [Ammo -> Int] /\ s.player[p].dead \in BOOLEAN
<1>1. s.player[p] \in PlayerType
  BY DEF States
<1> QED BY <1>1 DEF PlayerType

LEMMA Constants ==
  /\ None \notin Weapon /\ None \notin Player
  /\ \A c \in Class : /\ AmmoOf[c] \in Ammo /\ DefaultAmmo[c] \in Nat \ {0}
                      /\ MaxClip[c] \in Int /\ (MaxClip[c] = NoClip \/ MaxClip[c] \in Nat \ {0})
  /\ \A a \in Ammo : MaxAmmo[a] \in Nat \ {0}
  /\ Exhaustible \subseteq Class /\ Equipment \in Class
  /\ \A c \in Exhaustible : MaxClip[c] = NoClip
  /\ \A c \in Exhaustible, d \in Class : AmmoOf[c] = AmmoOf[d] => c = d
<1>1. /\ MaxClip \in [Class -> (Nat \ {0}) \cup {NoClip}] /\ AmmoOf \in [Class -> Ammo]
      /\ MaxAmmo \in [Ammo -> Nat \ {0}] /\ DefaultAmmo \in [Class -> Nat \ {0}]
  BY InventoryAssumption
<1> QED BY <1>1, InventoryAssumption DEF NoClip

\* The record of all weapons and players.
LEMMA StateRecord ==
  ASSUME NEW f \in [Weapon -> WeaponType \cup {None}], NEW g \in [Player -> PlayerType],
         NEW r, r = [weapon |-> f, player |-> g]
  PROVE  r \in States /\ r.weapon = f /\ r.player = g
BY DEF States

\* What a sound state says of one item.
LEMMA Listed ==
  ASSUME NEW s, NEW X, Sound(s, X), NEW p \in Player, NEW w \in s.player[p].items
  PROVE  /\ w \in Weapon /\ s.weapon[w] # None /\ s.weapon[w] \in WeaponType
         /\ s.weapon[w].owner = p /\ ~s.weapon[w].touch /\ s.weapon[w].think # "remove"
         /\ s.weapon[w].spare = 0 /\ w \notin X
         /\ \A q \in Player : w \in s.player[q].items => q = p
<1>1. s \in States
  BY DEF Sound
<1>2. w \in Weapon
  BY <1>1, PlayerFields
<1>3. \A q \in Player : Own(s, X, q)
  BY DEF Sound
<1>4. Kept(s.weapon[w]) /\ s.weapon[w].owner = p /\ w \notin X
  BY <1>3 DEF Own
<1>5. \A q \in Player : w \in s.player[q].items => s.weapon[w].owner = q
  BY <1>3 DEF Own
<1> QED BY <1>1, <1>2, <1>4, <1>5, WeaponFields DEF Kept

\* The weapon in hand and the last one are entities.
LEMMA InHandListed ==
  ASSUME NEW s, NEW X, Sound(s, X), NEW p \in Player
  PROVE  /\ s \in States
         /\ s.player[p].active \in s.player[p].items \cup {None}
         /\ s.player[p].last \in s.player[p].items \cup {None}
         /\ s.player[p].active \in Weapon \cup {None}
         /\ s.player[p].active # None => s.weapon[s.player[p].active] # None
<1>1. s \in States /\ InList(s, p)
  BY DEF Sound
<1>2. s.player[p].active \in s.player[p].items \cup {None}
      /\ s.player[p].last \in s.player[p].items \cup {None}
  BY <1>1 DEF InList
<1> QED BY <1>1, <1>2, PlayerFields, Listed

(***************************************************************************)
(* Steps                                                                   *)
(***************************************************************************)

\* The weapon jt is it, but for its clip and what it is about to do.
Alike(it, jt) ==
  /\ jt = None <=> it = None
  /\ it # None =>
       /\ jt.class = it.class /\ jt.owner = it.owner /\ jt.spare = it.spare
       /\ jt.touch = it.touch /\ (jt.think = "remove" <=> it.think = "remove")

\* From s to t the weapons outside W stay where they are; nobody but p gets or loses one.
Outside(s, t, W, p) ==
  /\ t \in States
  /\ \A v \in Weapon : v \notin W => Alike(s.weapon[v], t.weapon[v])
  /\ \A q \in Player : q # p => /\ t.player[q].items = s.player[q].items
                                /\ t.player[q].active = s.player[q].active
                                /\ t.player[q].last = s.player[q].last

\* A step is sound if what becomes of the weapons of W is.
LEMMA LocalSound ==
  ASSUME NEW s, NEW X, Sound(s, X), NEW p \in Player, NEW W, NEW t, Outside(s, t, W, p),
         NEW Y,
         \A v \in Weapon : v \notin W => /\ v \in Y <=> v \in X
                                         /\ v \in t.player[p].items <=> v \in s.player[p].items,
         \A v \in W, q \in Player : q # p => v \notin s.player[q].items,
         \A v \in W : v \in Weapon => Placed(t, Y, v),
         \A v \in Y : v \in Weapon /\ (v \in W => Kept(t.weapon[v])),
         \A v \in W : v \in t.player[p].items =>
            Kept(t.weapon[v]) /\ t.weapon[v].owner = p /\ v \notin Y,
         OneOfAClass(t, p), InList(t, p)
  PROVE  Sound(t, Y)
<1>1. s \in States /\ t \in States /\ \A v \in Weapon : Placed(s, X, v)
  BY DEF Sound, Outside
<1>2. \A v \in Weapon : v \notin W => Alike(s.weapon[v], t.weapon[v])
  BY DEF Outside
<1>3. ASSUME NEW v \in Weapon, v \notin W, Kept(s.weapon[v])
      PROVE  /\ Kept(t.weapon[v]) /\ t.weapon[v].owner = s.weapon[v].owner
             /\ t.weapon[v].class = s.weapon[v].class
  BY <1>2, <1>3 DEF Alike, Kept
<1>4. ASSUME NEW v \in Weapon, v \notin W, NEW q \in Player, v \in s.player[q].items
      PROVE  v \in t.player[q].items
  BY <1>4 DEF Outside
<1>5. ASSUME NEW v \in Weapon PROVE Placed(t, Y, v)
  <2>1. CASE v \in W
    BY <2>1
  <2>2. CASE v \notin W
    <3>1. Placed(s, X, v) /\ Alike(s.weapon[v], t.weapon[v]) /\ (v \in Y <=> v \in X)
      BY <1>1, <1>2, <2>2
    <3> QED BY <2>2, <3>1, <1>4 DEF Placed, Alike
  <2> QED BY <2>1, <2>2
<1>6. ASSUME NEW v \in Y PROVE v \in Weapon /\ Kept(t.weapon[v])
  <2>1. CASE v \notin W
    <3>1. v \in Weapon /\ v \in X
      BY <2>1
    <3>2. Kept(s.weapon[v])
      BY <3>1 DEF Sound
    <3> QED BY <3>1, <3>2, <2>1, <1>3
  <2> QED BY <2>1
<1>7. ASSUME NEW q \in Player, NEW v \in t.player[q].items, v \notin W \/ q # p
      PROVE  /\ v \in s.player[q].items /\ v \notin W /\ v \in Weapon
             /\ Kept(t.weapon[v]) /\ t.weapon[v].owner = q /\ v \notin Y
             /\ t.weapon[v].class = s.weapon[v].class
  <2>1. v \in Weapon
    BY <1>1, PlayerFields
  <2>2. v \in s.player[q].items /\ v \notin W
    BY <1>7, <2>1 DEF Outside
  <2>3. Kept(s.weapon[v]) /\ s.weapon[v].owner = q /\ v \notin X
    BY <2>2 DEF Sound, Own
  <2> QED BY <1>3, <2>1, <2>2, <2>3
<1>8. ASSUME NEW q \in Player PROVE Own(t, Y, q)
  BY <1>7 DEF Own
<1>9. ASSUME NEW q \in Player PROVE OneOfAClass(t, q)
  <2>1. CASE q # p
    <3>1. OneOfAClass(s, q)
      BY DEF Sound
    <3> QED BY <2>1, <3>1, <1>7 DEF OneOfAClass
  <2> QED BY <2>1
<1>10. ASSUME NEW q \in Player PROVE InList(t, q)
  <2>1. CASE q # p
    <3>1. InList(s, q)
      BY DEF Sound
    <3> QED BY <2>1, <3>1 DEF InList, Outside
  <2> QED BY <2>1
<1> QED BY <1>1, <1>5, <1>6, <1>8, <1>9, <1>10 DEF Sound

\* From s to t every weapon stays where it is.
Settled(s, t) ==
  /\ t \in States
  /\ \A v \in Weapon : Alike(s.weapon[v], t.weapon[v])
  /\ \A q \in Player : t.player[q].items = s.player[q].items

LEMMA SettledSound ==
  ASSUME NEW s, NEW X, Sound(s, X), NEW t, Settled(s, t), \A q \in Player : InList(t, q)
  PROVE  Sound(t, X)
<1>1. s \in States /\ t \in States
  BY DEF Sound, Settled
<1>2. ASSUME NEW v \in Weapon PROVE Placed(t, X, v)
  <2>1. Placed(s, X, v) /\ Alike(s.weapon[v], t.weapon[v])
    BY DEF Sound, Settled
  <2>2. \A q \in Player : t.player[q].items = s.player[q].items
    BY DEF Settled
  <2> QED BY <2>1, <2>2 DEF Placed, Alike
<1>3. ASSUME NEW v \in Weapon, Kept(s.weapon[v])
      PROVE  /\ Kept(t.weapon[v]) /\ t.weapon[v].owner = s.weapon[v].owner
             /\ t.weapon[v].class = s.weapon[v].class
  <2>1. Alike(s.weapon[v], t.weapon[v])
    BY DEF Settled
  <2> QED BY <1>3, <2>1 DEF Alike, Kept
<1>4. ASSUME NEW v \in X PROVE v \in Weapon /\ Kept(t.weapon[v])
  BY <1>3 DEF Sound
<1>5. ASSUME NEW q \in Player, NEW v \in t.player[q].items
      PROVE  /\ v \in s.player[q].items
             /\ Kept(t.weapon[v]) /\ t.weapon[v].owner = q /\ v \notin X
             /\ t.weapon[v].class = s.weapon[v].class
  <2>1. v \in Weapon /\ v \in s.player[q].items
    BY <1>1, PlayerFields DEF Settled
  <2>2. Kept(s.weapon[v]) /\ s.weapon[v].owner = q /\ v \notin X
    BY <2>1 DEF Sound, Own
  <2> QED BY <1>3, <2>1, <2>2
<1>6. ASSUME NEW q \in Player PROVE Own(t, X, q)
  BY <1>5 DEF Own
<1>7. ASSUME NEW q \in Player PROVE OneOfAClass(t, q)
  <2>1. OneOfAClass(s, q)
    BY DEF Sound
  <2> QED BY <2>1, <1>5 DEF OneOfAClass
<1> QED BY <1>1, <1>2, <1>4, <1>6, <1>7 DEF Sound

\* The same weapons, so the same classes.
LEMMA SettledHas ==
  ASSUME NEW s, NEW X, Sound(s, X), NEW t, Settled(s, t), NEW p \in Player, NEW c, Has(s, p, c)
  PROVE  Has(t, p, c)
<1>1. PICK v \in s.player[p].items : s.weapon[v].class = c
  BY DEF Has
<1>2. v \in Weapon /\ s.weapon[v] # None
  BY Listed
<1>3. Alike(s.weapon[v], t.weapon[v]) /\ v \in t.player[p].items
  BY <1>2 DEF Settled
<1> QED BY <1>1, <1>2, <1>3 DEF Alike, Has

\* And whoever was armed still is, if no ammunition is added that is a weapon.
LEMMA SettledArmed ==
  ASSUME NEW s, NEW X, Sound(s, X), ArmedIn(s), NEW t, Settled(s, t),
         \A q \in Player, c \in Exhaustible :
            t.player[q].pool[AmmoOf[c]] > 0 => s.player[q].pool[AmmoOf[c]] > 0 \/ Has(s, q, c)
  PROVE  ArmedIn(t)
<1>1. ASSUME NEW q \in Player, NEW c \in Exhaustible, t.player[q].pool[AmmoOf[c]] > 0
      PROVE  Has(t, q, c)
  <2>1. Has(s, q, c)
    BY <1>1 DEF ArmedIn
  <2> QED BY <2>1, SettledHas
<1> QED BY <1>1 DEF ArmedIn

LEMMA AlikeSame == ASSUME NEW it PROVE Alike(it, it)
BY DEF Alike

\* A state with another entry for a weapon, which is alike.
LEMMA SetAlike ==
  ASSUME NEW s \in States, NEW w \in Weapon, NEW it \in WeaponType, Alike(s.weapon[w], it)
  PROVE  LET r == [s EXCEPT !.weapon[w] = it] IN Settled(s, r) /\ r.player = s.player
<1>0. PICK r : r = [s EXCEPT !.weapon[w] = it]
  OBVIOUS
<1>1. /\ r \in States /\ r.player = s.player
      /\ \A v \in Weapon : r.weapon[v] = IF v = w THEN it ELSE s.weapon[v]
  BY <1>0 DEF States
<1>2. ASSUME NEW v \in Weapon PROVE Alike(s.weapon[v], r.weapon[v])
  BY <1>1, AlikeSame
<1>3. Settled(s, r)
  BY <1>1, <1>2 DEF Settled
<1> QED BY <1>0, <1>1, <1>3

\* And for a player, who keeps his items.
LEMMA SetSettled ==
  ASSUME NEW s \in States, NEW p \in Player, NEW pl \in PlayerType,
         pl.items = s.player[p].items
  PROVE  LET r == [s EXCEPT !.player[p] = pl] IN
         /\ Settled(s, r) /\ r.weapon = s.weapon
         /\ \A q \in Player : r.player[q] = IF q = p THEN pl ELSE s.player[q]
<1>0. PICK r : r = [s EXCEPT !.player[p] = pl]
  OBVIOUS
<1>1. /\ r \in States /\ r.weapon = s.weapon
      /\ \A q \in Player : r.player[q] = IF q = p THEN pl ELSE s.player[q]
  BY <1>0 DEF States
<1>2. ASSUME NEW v \in Weapon PROVE Alike(s.weapon[v], r.weapon[v])
  BY <1>1, AlikeSame
<1>3. Settled(s, r)
  BY <1>1, <1>2 DEF Settled
<1> QED BY <1>0, <1>1, <1>3

LEMMA AlikeTrans ==
  ASSUME NEW i, NEW j, NEW k, Alike(i, j), Alike(j, k)
  PROVE  Alike(i, k)
BY DEF Alike

LEMMA SettledTrans ==
  ASSUME NEW s, NEW t, NEW u, Settled(s, t), Settled(t, u)
  PROVE  Settled(s, u)
<1>1. ASSUME NEW v \in Weapon PROVE Alike(s.weapon[v], u.weapon[v])
  <2>1. Alike(s.weapon[v], t.weapon[v]) /\ Alike(t.weapon[v], u.weapon[v])
    BY DEF Settled
  <2> QED BY <2>1, AlikeTrans
<1> QED BY <1>1 DEF Settled

LEMMA SettledSame ==
  ASSUME NEW s \in States
  PROVE  Settled(s, s)
BY AlikeSame DEF Settled

(***************************************************************************)
(* Switching                                                               *)
(***************************************************************************)

LEMMA HolsterSettled ==
  ASSUME NEW s \in States, NEW w \in Weapon \cup {None}, w # None => s.weapon[w] # None
  PROVE  Settled(s, Holster(s, w)) /\ Holster(s, w).player = s.player
<1>1. CASE w # None /\ s.weapon[w].pending /\ MaxClip[s.weapon[w].class] # NoClip
  <2>1. s.weapon[w] \in WeaponType
    BY <1>1, WeaponFields
  <2>2. PICK it : it = [s.weapon[w] EXCEPT !.stale = TRUE]
    OBVIOUS
  <2>3. it \in WeaponType /\ Alike(s.weapon[w], it)
    BY <1>1, <2>1, <2>2, NoneAssumption DEF WeaponType, Alike
  <2>4. Holster(s, w) = [s EXCEPT !.weapon[w] = it]
    BY <1>1, <2>2 DEF Holster, States
  <2> QED BY <1>1, <2>3, <2>4, SetAlike
<1>2. CASE ~(w # None /\ s.weapon[w].pending /\ MaxClip[s.weapon[w].class] # NoClip)
  BY <1>2, SettledSame DEF Holster
<1> QED BY <1>1, <1>2

LEMMA WieldSettled ==
  ASSUME NEW s, NEW X, Sound(s, X), NEW p \in Player, NEW w \in Weapon \cup {None}
  PROVE  /\ Settled(s, Wield(s, p, w))
         /\ Wield(s, p, w).player[p].active = w
         /\ \A q \in Player : /\ Wield(s, p, w).player[q].pool = s.player[q].pool
                              /\ Wield(s, p, w).player[q].last = s.player[q].last
                              /\ q # p => Wield(s, p, w).player[q] = s.player[q]
<1>1. PICK h : h = Holster(s, s.player[p].active)
  OBVIOUS
<1>2. s \in States /\ Settled(s, h) /\ h.player = s.player
  BY <1>1, InHandListed, HolsterSettled
<1>3. h \in States /\ h.player[p] \in PlayerType
  BY <1>2, PlayerFields DEF Settled
<1>4. PICK pl : pl = [h.player[p] EXCEPT !.active = w]
  OBVIOUS
<1>5. /\ pl \in PlayerType /\ pl.items = s.player[p].items /\ pl.last = s.player[p].last
      /\ pl.active = w /\ pl.pool = s.player[p].pool
  BY <1>2, <1>3, <1>4 DEF PlayerType
<1>6. Wield(s, p, w) = [h EXCEPT !.player[p] = pl]
  BY <1>1, <1>3, <1>4 DEF Wield, States
<1>7. /\ Settled(h, Wield(s, p, w))
      /\ \A q \in Player : Wield(s, p, w).player[q] = IF q = p THEN pl ELSE h.player[q]
  BY <1>2, <1>3, <1>5, <1>6, SetSettled
<1>8. Settled(s, Wield(s, p, w))
  BY <1>2, <1>7, SettledTrans
<1> QED BY <1>2, <1>5, <1>7, <1>8

\* A player may switch to any weapon of his own, or to none.
LEMMA WieldSound ==
  ASSUME NEW s, NEW X, Sound(s, X), NEW p \in Player, NEW w \in s.player[p].items \cup {None}
  PROVE  Sound(Wield(s, p, w), X) /\ (ArmedIn(s) => ArmedIn(Wield(s, p, w)))
<1>1. w \in Weapon \cup {None}
  BY Listed
<1>2. PICK t : t = Wield(s, p, w)
  OBVIOUS
<1>3. /\ Settled(s, t) /\ t.player[p].active = w
      /\ \A q \in Player : /\ t.player[q].pool = s.player[q].pool
                           /\ t.player[q].last = s.player[q].last
                           /\ q # p => t.player[q] = s.player[q]
  BY <1>1, <1>2, WieldSettled
<1>4. ASSUME NEW q \in Player PROVE InList(t, q)
  <2>1. s.player[q].active \in s.player[q].items \cup {None}
        /\ s.player[q].last \in s.player[q].items \cup {None}
    BY InHandListed
  <2>2. t.player[q].items = s.player[q].items
    BY <1>3 DEF Settled
  <2> QED BY <1>3, <2>1, <2>2 DEF InList
<1>5. Sound(t, X)
  BY <1>3, <1>4, SettledSound
<1>6. ArmedIn(s) => ArmedIn(t)
  BY <1>3, SettledArmed
<1> QED BY <1>2, <1>5, <1>6

LEMMA SwitchSound ==
  ASSUME NEW s, NEW X, Sound(s, X), NEW p \in Player, NEW w \in s.player[p].items \cup {None}
  PROVE  /\ Sound(SwitchWeapon(s, p, w), X) /\ (ArmedIn(s) => ArmedIn(SwitchWeapon(s, p, w)))
         /\ Settled(s, SwitchWeapon(s, p, w))
         /\ \A q \in Player : SwitchWeapon(s, p, w).player[q].pool = s.player[q].pool
<1>1. w \in Weapon \cup {None} /\ s \in States
  BY Listed DEF Sound
<1>2. CASE w # None /\ ~CanDeploy(s, w)
  BY <1>1, <1>2, SettledSame DEF SwitchWeapon
<1>3. CASE ~(w # None /\ ~CanDeploy(s, w))
  <2>1. SwitchWeapon(s, p, w) = Wield(s, p, w)
    BY <1>3 DEF SwitchWeapon
  <2> QED BY <1>1, <2>1, WieldSound, WieldSettled
<1> QED BY <1>2, <1>3

\* There is another weapon to switch to.
LEMMA NextBestListed ==
  ASSUME NEW s, NEW p, NEW w, NEW v \in NextBest(s, p, w)
  PROVE  v \in s.player[p].items /\ v # w
BY DEF NextBest

(***************************************************************************)
(* Ammunition                                                              *)
(***************************************************************************)

\* From s to t only rounds of kind a come to, or leave, the pool of p.
PoolOnly(s, t, p, a) ==
  /\ Settled(s, t)
  /\ \A q \in Player :
       /\ t.player[q].active = s.player[q].active /\ t.player[q].last = s.player[q].last
       /\ \A b \in Ammo : q # p \/ b # a => t.player[q].pool[b] = s.player[q].pool[b]

LEMMA PoolOnlySound ==
  ASSUME NEW s, NEW X, Sound(s, X), NEW p \in Player, NEW a, NEW t, PoolOnly(s, t, p, a)
  PROVE  /\ Sound(t, X)
         /\ ArmedIn(s) /\ (\A c \in Exhaustible : AmmoOf[c] = a => Has(s, p, c)) => ArmedIn(t)
<1>1. Settled(s, t)
  BY DEF PoolOnly
<1>2. ASSUME NEW q \in Player PROVE InList(t, q)
  <2>1. InList(s, q)
    BY DEF Sound
  <2> QED BY <1>1, <2>1 DEF InList, PoolOnly, Settled
<1>3. Sound(t, X)
  BY <1>1, <1>2, SettledSound
<1>4. ASSUME ArmedIn(s), \A c \in Exhaustible : AmmoOf[c] = a => Has(s, p, c)
      PROVE  ArmedIn(t)
  <2>1. ASSUME NEW q \in Player, NEW c \in Exhaustible, t.player[q].pool[AmmoOf[c]] > 0
        PROVE  s.player[q].pool[AmmoOf[c]] > 0 \/ Has(s, q, c)
    <3>1. AmmoOf[c] \in Ammo
      BY Constants
    <3>2. CASE q # p \/ AmmoOf[c] # a
      BY <2>1, <3>1, <3>2 DEF PoolOnly
    <3>3. CASE q = p /\ AmmoOf[c] = a
      BY <1>4, <3>3
    <3> QED BY <3>2, <3>3
  <2> QED BY <1>1, <1>4, <2>1, SettledArmed
<1> QED BY <1>3, <1>4

\* A pool with another number of rounds.
LEMMA SetPool ==
  ASSUME NEW s \in States, NEW p \in Player, NEW a \in Ammo, NEW n \in Int
  PROVE  LET r == [s EXCEPT !.player[p].pool[a] = n] IN
         PoolOnly(s, r, p, a) /\ r.weapon = s.weapon /\ r.player[p].pool[a] = n
<1>1. s.player[p] \in PlayerType /\ s.player[p].pool \in [Ammo -> Int]
  BY PlayerFields
<1>2. PICK f : f = [s.player[p].pool EXCEPT ![a] = n]
  OBVIOUS
<1>3. f \in [Ammo -> Int] /\ \A b \in Ammo : f[b] = IF b = a THEN n ELSE s.player[p].pool[b]
  BY <1>1, <1>2
<1>4. PICK pl : pl = [s.player[p] EXCEPT !.pool = f]
  OBVIOUS
<1>5. /\ pl \in PlayerType /\ pl.items = s.player[p].items /\ pl.last = s.player[p].last
      /\ pl.active = s.player[p].active /\ pl.pool = f
  BY <1>1, <1>3, <1>4 DEF PlayerType
<1>6. PICK r : r = [s EXCEPT !.player[p] = pl]
  OBVIOUS
<1>7. [s EXCEPT !.player[p].pool[a] = n] = r
  BY <1>2, <1>4, <1>6 DEF States
<1>8. /\ Settled(s, r) /\ r.weapon = s.weapon
      /\ \A q \in Player : r.player[q] = IF q = p THEN pl ELSE s.player[q]
  BY <1>5, <1>6, SetSettled
<1>9. PoolOnly(s, r, p, a) /\ r.weapon = s.weapon /\ r.player[p].pool[a] = n
  BY <1>3, <1>5, <1>8 DEF PoolOnly
<1> QED BY <1>7, <1>9

\* Ammunition for one who has the weapon it may be, or who is not given one.
LEMMA GiveAmmoPool ==
  ASSUME NEW s \in States, NEW p \in Player, NEW n \in Int, NEW a \in Ammo, NEW new,
         new = None \/ \A c \in Exhaustible : AmmoOf[c] = a => Has(s, p, c)
  PROVE  PoolOnly(s, GiveAmmo(s, p, n, a, new), p, a)
<1>1. PICK add : add = Min({n, MaxAmmo[a] - s.player[p].pool[a]})
  OBVIOUS
<1>2. s.player[p].pool[a] \in Int /\ MaxAmmo[a] \in Int
  BY PlayerFields, Constants
<1>3. add \in Int
  <2>1. PICK k \in Int : k = MaxAmmo[a] - s.player[p].pool[a]
    BY <1>2
  <2>2. Min({n, k}) = IF n <= k THEN n ELSE k
    BY MinOfTwo
  <2> QED BY <1>1, <2>1, <2>2
<1>4. CASE add < 1
  BY <1>1, <1>4, SettledSame DEF GiveAmmo, PoolOnly
<1>5. CASE ~(add < 1)
  <2>1. GiveAmmo(s, p, n, a, new) = [s EXCEPT !.player[p].pool[a] = @ + add]
    <3>1. CASE new = None
      BY <1>1, <1>5, <3>1 DEF GiveAmmo, GiveEmpty
    <3>2. CASE \A c \in Exhaustible : AmmoOf[c] = a => Has(s, p, c)
      <4>1. {c \in Exhaustible : AmmoOf[c] = a /\ ~Has(s, p, c)} = {}
        BY <3>2
      <4> QED BY <1>1, <1>5, <4>1 DEF GiveAmmo
    <3> QED BY <3>1, <3>2
  <2>2. s.player[p].pool[a] + add \in Int
    BY <1>2, <1>3
  <2> QED BY <2>1, <2>2, SetPool
<1> QED BY <1>4, <1>5

\* A clip with another number of rounds.
LEMMA SetClip ==
  ASSUME NEW s \in States, NEW w \in Weapon, s.weapon[w] # None, NEW n \in Int
  PROVE  LET r == [s EXCEPT !.weapon[w].clip = n] IN Settled(s, r) /\ r.player = s.player
<1>1. s.weapon[w] \in WeaponType
  BY WeaponFields
<1>2. PICK it : it = [s.weapon[w] EXCEPT !.clip = n]
  OBVIOUS
<1>3. it \in WeaponType /\ Alike(s.weapon[w], it)
  BY <1>1, <1>2, NoneAssumption DEF WeaponType, Alike
<1>4. [s EXCEPT !.weapon[w].clip = n] = [s EXCEPT !.weapon[w] = it]
  BY <1>2
<1> QED BY <1>3, <1>4, SetAlike

LEMMA PoolOnlyAfter ==
  ASSUME NEW s, NEW t, Settled(s, t), t.player = s.player, NEW p, NEW a, NEW u, PoolOnly(t, u, p, a)
  PROVE  PoolOnly(s, u, p, a)
<1>1. Settled(s, u)
  BY SettledTrans DEF PoolOnly
<1> QED BY <1>1 DEF PoolOnly

\* The only weapon that is ammunition of its kind is of that class.
LEMMA HasOfKind ==
  ASSUME NEW s \in States, NEW p \in Player, NEW v \in s.player[p].items, s.weapon[v] # None
  PROVE  \A c \in Exhaustible : AmmoOf[c] = AmmoOf[s.weapon[v].class] => Has(s, p, c)
<1>1. v \in Weapon
  BY PlayerFields
<1>2. s.weapon[v].class \in Class
  BY <1>1, WeaponFields
<1>3. \A c \in Exhaustible : AmmoOf[c] = AmmoOf[s.weapon[v].class] => c = s.weapon[v].class
  BY <1>2, Constants
<1> QED BY <1>3 DEF Has

\* A weapon fills its clip, and then the pool of its owner.
LEMMA AddPrimaryAmmoPool ==
  ASSUME NEW s \in States, NEW p \in Player, NEW v \in s.player[p].items,
         s.weapon[v] # None, s.weapon[v].owner = p, NEW n \in Int, NEW new
  PROVE  PoolOnly(s, AddPrimaryAmmo(s, v, n, new), p, AmmoOf[s.weapon[v].class])
<1>1. v \in Weapon
  BY PlayerFields
<1>2. PICK c \in Class : c = s.weapon[v].class
  BY <1>1, WeaponFields
<1>3. s.weapon[v].clip \in Int /\ MaxClip[c] \in Int /\ AmmoOf[c] \in Ammo
  BY <1>1, <1>2, WeaponFields, Constants
<1>4. PICK i : i = IF s.weapon[v].clip = 0 THEN Min({n, MaxClip[c]}) ELSE 0
  OBVIOUS
<1>5. i \in Int
  <2>1. Min({n, MaxClip[c]}) = IF n <= MaxClip[c] THEN n ELSE MaxClip[c]
    BY <1>3, MinOfTwo
  <2> QED BY <1>3, <1>4, <2>1
<1>6. PICK k : k = IF MaxClip[c] = NoClip THEN NoClip ELSE s.weapon[v].clip + i
  OBVIOUS
<1>7. PICK m : m = IF MaxClip[c] = NoClip THEN n ELSE n - i
  OBVIOUS
<1>8. k \in Int /\ m \in Int
  BY <1>3, <1>5, <1>6, <1>7 DEF NoClip
<1>9. PICK t : t = [s EXCEPT !.weapon[v].clip = k]
  OBVIOUS
<1>10. Settled(s, t) /\ t.player = s.player
  BY <1>1, <1>8, <1>9, SetClip
<1>11. t \in States /\ v \in t.player[p].items /\ t.weapon[v] # None /\ t.weapon[v].class = c
  <2>1. t \in States /\ Alike(s.weapon[v], t.weapon[v])
    BY <1>1, <1>10 DEF Settled
  <2> QED BY <1>2, <1>10, <2>1 DEF Alike
<1>12. \A d \in Exhaustible : AmmoOf[d] = AmmoOf[c] => Has(t, p, d)
  BY <1>11, HasOfKind
<1>13. AddPrimaryAmmo(s, v, n, new) = GiveAmmo(t, p, m, AmmoOf[c], new)
  BY <1>2, <1>4, <1>6, <1>7, <1>9 DEF AddPrimaryAmmo
<1>14. PoolOnly(t, GiveAmmo(t, p, m, AmmoOf[c], new), p, AmmoOf[c])
  BY <1>3, <1>8, <1>11, <1>12, GiveAmmoPool
<1> QED BY <1>2, <1>10, <1>13, <1>14, PoolOnlyAfter

\* From s to t, w loses what it brings, to the clip of a weapon of p or his pool.
Extracted(s, t, w, p, a) ==
  /\ t \in States
  /\ \A v \in Weapon \ {w} : Alike(s.weapon[v], t.weapon[v])
  /\ t.weapon[w] # None /\ t.weapon[w].class = s.weapon[w].class
  /\ t.weapon[w].owner = s.weapon[w].owner /\ t.weapon[w].touch = s.weapon[w].touch
  /\ (t.weapon[w].think = "remove" <=> s.weapon[w].think = "remove") /\ t.weapon[w].spare = 0
  /\ \A q \in Player :
       /\ t.player[q].items = s.player[q].items
       /\ t.player[q].active = s.player[q].active /\ t.player[q].last = s.player[q].last
       /\ \A b \in Ammo : q # p \/ b # a => t.player[q].pool[b] = s.player[q].pool[b]

LEMMA ExtractAmmoIs ==
  ASSUME NEW s \in States, NEW p \in Player, NEW v \in s.player[p].items,
         s.weapon[v] # None, s.weapon[v].owner = p, NEW w \in Weapon, s.weapon[w] # None, NEW new
  PROVE  Extracted(s, ExtractAmmo(s, w, v, new), w, p, AmmoOf[s.weapon[v].class])
<1>1. s.weapon[w].spare \in Int
  BY WeaponFields
<1>2. PICK a : a = AmmoOf[s.weapon[v].class]
  OBVIOUS
<1>3. PICK t : t = AddPrimaryAmmo(s, v, s.weapon[w].spare, new)
  OBVIOUS
<1>4. PoolOnly(s, t, p, a)
  BY <1>1, <1>2, <1>3, AddPrimaryAmmoPool
<1>5. t \in States /\ \A u \in Weapon : Alike(s.weapon[u], t.weapon[u])
  BY <1>4 DEF PoolOnly, Settled
<1>6. t.weapon[w] # None /\ t.weapon[w] \in WeaponType
  BY <1>5, WeaponFields DEF Alike
<1>7. PICK it : it = [t.weapon[w] EXCEPT !.spare = 0]
  OBVIOUS
<1>8. /\ it \in WeaponType /\ it.class = t.weapon[w].class /\ it.owner = t.weapon[w].owner
      /\ it.touch = t.weapon[w].touch /\ it.think = t.weapon[w].think /\ it.spare = 0
  BY <1>6, <1>7 DEF WeaponType
<1>9. PICK e : e = [t EXCEPT !.weapon[w] = it]
  OBVIOUS
<1>10. ExtractAmmo(s, w, v, new) = e
  BY <1>3, <1>7, <1>9, <1>5 DEF ExtractAmmo, States
<1>11. /\ e \in States /\ e.player = t.player
       /\ \A u \in Weapon : e.weapon[u] = IF u = w THEN it ELSE t.weapon[u]
  BY <1>5, <1>8, <1>9 DEF States
<1>12. \A u \in Weapon \ {w} : Alike(s.weapon[u], e.weapon[u])
  BY <1>5, <1>11
<1>13. e.weapon[w] = it /\ it # None /\ Alike(s.weapon[w], t.weapon[w])
  BY <1>5, <1>8, <1>11, NoneAssumption
<1>14. Extracted(s, e, w, p, a)
  BY <1>4, <1>8, <1>11, <1>12, <1>13 DEF Extracted, PoolOnly, Settled, Alike
<1> QED BY <1>2, <1>10, <1>14

(***************************************************************************)
(* Picking up                                                              *)
(***************************************************************************)

\* What has changed no weapon of anybody arms nobody less.
LEMMA EntityArmed ==
  ASSUME NEW s, ArmedIn(s), NEW t, t.player = s.player,
         \A q \in Player : \A v \in s.player[q].items : t.weapon[v] = s.weapon[v]
  PROVE  ArmedIn(t)
<1>1. ASSUME NEW q \in Player, NEW c \in Exhaustible, t.player[q].pool[AmmoOf[c]] > 0
      PROVE  Has(t, q, c)
  <2>1. PICK u \in s.player[q].items : s.weapon[u].class = c
    BY <1>1 DEF ArmedIn, Has
  <2> QED BY <2>1 DEF Has
<1> QED BY <1>1 DEF ArmedIn

\* A weapon that nobody has changes, wherever it was.
LEMMA EntitySound ==
  ASSUME NEW s, NEW X, Sound(s, X), NEW w \in Weapon, \A q \in Player : w \notin s.player[q].items,
         NEW t \in States, t.player = s.player,
         \A v \in Weapon : v # w => t.weapon[v] = s.weapon[v], Placed(t, X \ {w}, w)
  PROVE  Sound(t, X \ {w}) /\ (ArmedIn(s) => ArmedIn(t))
<1>1. s \in States
  BY DEF Sound
<1>2. \A q \in Player : \A v \in s.player[q].items : v \in Weapon /\ v # w /\ t.weapon[v] = s.weapon[v]
  BY <1>1, PlayerFields
<1>3. ASSUME NEW p \in Player PROVE Sound(t, X \ {w})
  <2>1. Outside(s, t, {w}, p)
    BY AlikeSame DEF Outside
  <2>2. InList(t, p)
    <3>1. InList(s, p)
      BY DEF Sound
    <3> QED BY <3>1 DEF InList
  <2>3. OneOfAClass(t, p)
    <3>1. OneOfAClass(s, p)
      BY DEF Sound
    <3> QED BY <1>2, <3>1 DEF OneOfAClass
  <2>4. \A v \in X : v \in Weapon
    BY DEF Sound
  <2> QED BY <2>1, <2>2, <2>3, <2>4, LocalSound
<1>4. ASSUME Player = {} PROVE Sound(t, X \ {w})
  <2>1. \A v \in Weapon : Placed(t, X \ {w}, v)
    <3>1. \A v \in Weapon : Placed(s, X, v)
      BY DEF Sound
    <3> QED BY <1>4, <3>1 DEF Placed
  <2>2. \A v \in X \ {w} : v \in Weapon /\ Kept(t.weapon[v])
    BY DEF Sound
  <2> QED BY <1>4, <2>1, <2>2 DEF Sound
<1>5. Sound(t, X \ {w})
  BY <1>3, <1>4
<1>6. ArmedIn(s) => ArmedIn(t)
  BY <1>2, EntityArmed
<1> QED BY <1>5, <1>6

\* A weapon that nobody has is on its way out.
LEMMA KillSound ==
  ASSUME NEW s, NEW X, Sound(s, X), NEW w \in Weapon, s.weapon[w] # None,
         \A q \in Player : w \notin s.player[q].items
  PROVE  Sound(Kill(s, w), X \ {w}) /\ (ArmedIn(s) => ArmedIn(Kill(s, w)))
<1>1. s \in States /\ s.weapon[w] \in WeaponType
  BY WeaponFields DEF Sound
<1>2. PICK it : it = [s.weapon[w] EXCEPT !.touch = FALSE, !.think = "remove"]
  OBVIOUS
<1>3. it \in WeaponType /\ it.touch = FALSE /\ it.think = "remove"
  BY <1>1, <1>2 DEF WeaponType
<1>4. PICK k : k = [s EXCEPT !.weapon[w] = it]
  OBVIOUS
<1>5. Kill(s, w) = k
  BY <1>1, <1>2, <1>4 DEF Kill, States
<1>6. /\ k \in States /\ k.player = s.player
      /\ \A v \in Weapon : k.weapon[v] = IF v = w THEN it ELSE s.weapon[v]
  BY <1>1, <1>3, <1>4 DEF States
<1>7. Placed(k, X \ {w}, w)
  BY <1>3, <1>6 DEF Placed
<1> QED BY <1>5, <1>6, <1>7, EntitySound

\* A weapon in the world that brings nothing any more.
LEMMA EmptiedSound ==
  ASSUME NEW s, NEW X, Sound(s, X), NEW p \in Player, NEW w \in Weapon, s.weapon[w] # None,
         \A q \in Player : w \notin s.player[q].items, NEW a, NEW t, Extracted(s, t, w, p, a)
  PROVE  Sound(t, X)
<1>1. s \in States /\ t \in States
  BY DEF Sound, Extracted
<1>2. Outside(s, t, {w}, p)
  BY DEF Outside, Extracted
<1>3. \A q \in Player : t.player[q].items = s.player[q].items
  BY DEF Extracted
<1>4. Placed(t, X, w)
  <2>1. Placed(s, X, w)
    BY DEF Sound
  <2> QED BY <1>3, <2>1 DEF Placed, Extracted
<1>5. \A v \in X : v \in Weapon /\ (v = w => Kept(t.weapon[v]))
  BY DEF Sound, Kept, Extracted
<1>6. InList(t, p)
  <2>1. InList(s, p)
    BY DEF Sound
  <2> QED BY <2>1 DEF InList, Extracted
<1>7. OneOfAClass(t, p)
  <2>1. OneOfAClass(s, p)
    BY DEF Sound
  <2>2. ASSUME NEW v \in s.player[p].items PROVE t.weapon[v].class = s.weapon[v].class
    <3>1. v \in Weapon \ {w} /\ s.weapon[v] # None
      BY <1>1, Listed
    <3>2. Alike(s.weapon[v], t.weapon[v])
      BY <3>1 DEF Extracted
    <3> QED BY <3>1, <3>2 DEF Alike
  <2> QED BY <1>3, <2>1, <2>2 DEF OneOfAClass
<1> QED BY <1>2, <1>3, <1>4, <1>5, <1>6, <1>7, LocalSound

\* Nobody else's ammunition, and p has the weapon that his may be.
LEMMA ExtractedArmed ==
  ASSUME NEW s, NEW X, Sound(s, X), ArmedIn(s), NEW p \in Player, NEW w \in Weapon,
         \A q \in Player : w \notin s.player[q].items,
         NEW v \in s.player[p].items,
         NEW t, Extracted(s, t, w, p, AmmoOf[s.weapon[v].class])
  PROVE  ArmedIn(t)
<1>1. s \in States /\ s.weapon[v] # None
  BY Listed DEF Sound
<1>2. ASSUME NEW q \in Player, NEW c \in Exhaustible, t.player[q].pool[AmmoOf[c]] > 0
      PROVE  Has(t, q, c)
  <2>1. Has(s, q, c)
    <3>1. AmmoOf[c] \in Ammo
      BY Constants
    <3>2. CASE q # p \/ AmmoOf[c] # AmmoOf[s.weapon[v].class]
      <4>1. s.player[q].pool[AmmoOf[c]] > 0
        BY <1>2, <3>1, <3>2 DEF Extracted
      <4> QED BY <4>1 DEF ArmedIn
    <3>3. CASE q = p /\ AmmoOf[c] = AmmoOf[s.weapon[v].class]
      BY <1>1, <3>3, HasOfKind
    <3> QED BY <3>2, <3>3
  <2>2. PICK u \in s.player[q].items : s.weapon[u].class = c
    BY <2>1 DEF Has
  <2>3. u \in Weapon \ {w} /\ s.weapon[u] # None /\ u \in t.player[q].items
    BY Listed DEF Extracted
  <2>4. Alike(s.weapon[u], t.weapon[u])
    BY <2>3 DEF Extracted
  <2> QED BY <2>2, <2>3, <2>4 DEF Alike, Has
<1> QED BY <1>2 DEF ArmedIn

\* A weapon of a class the player has: its rounds are taken, and it is removed or left in
\* the world; if it came from the box, it has been unloaded and is removed.
LEMMA DuplicateSound ==
  ASSUME NEW s, NEW X, Sound(s, X), ArmedIn(s), NEW p \in Player, NEW w \in Weapon,
         s.weapon[w] # None, s.weapon[w].touch \/ w \in X,
         NEW v \in s.player[p].items, s.weapon[v].class = s.weapon[w].class, NEW new
  PROVE  Sound(AddDuplicate(s, p, w, v, new), X \ {w}) /\ ArmedIn(AddDuplicate(s, p, w, v, new))
<1>1. /\ s \in States /\ s.weapon[v] # None /\ s.weapon[v].owner = p
      /\ s.weapon[w].class \in Class /\ s.weapon[w].clip \in Int
  BY Listed, WeaponFields DEF Sound
<1>2. \A q \in Player : w \notin s.player[q].items
  BY Listed
<1>3. PICK a \in Ammo : a = AmmoOf[s.weapon[w].class]
  BY <1>1, Constants
<1>4. CASE s.weapon[w].spare = 0
  <2>1. PICK n \in Int : n = IF s.weapon[w].clip = NoClip THEN 0 ELSE s.weapon[w].clip
    BY <1>1
  <2>2. PICK u : u = GiveAmmo(s, p, n, a, new)
    OBVIOUS
  <2>3. \A c \in Exhaustible : AmmoOf[c] = a => Has(s, p, c)
    BY <1>1, <1>3, HasOfKind
  <2>4. PoolOnly(s, u, p, a)
    BY <1>1, <2>2, <2>3, GiveAmmoPool
  <2>5. Sound(u, X) /\ ArmedIn(u)
    BY <2>3, <2>4, PoolOnlySound
  <2>6. u.weapon[w] # None /\ \A q \in Player : w \notin u.player[q].items
    BY <1>2, <2>4 DEF PoolOnly, Settled, Alike
  <2>7. AddDuplicate(s, p, w, v, new) = Kill(u, w)
    BY <1>3, <1>4, <2>1, <2>2 DEF AddDuplicate, ExtractClipAmmo
  <2>8. Sound(Kill(u, w), X \ {w}) /\ ArmedIn(Kill(u, w))
    BY <2>5, <2>6, KillSound
  <2> QED BY <2>7, <2>8
<1>5. CASE s.weapon[w].spare # 0
  <2>1. PICK e : e = ExtractAmmo(s, w, v, new)
    OBVIOUS
  <2>2. Extracted(s, e, w, p, AmmoOf[s.weapon[v].class])
    BY <1>1, <2>1, ExtractAmmoIs
  <2>3. Sound(e, X)
    BY <1>2, <2>2, EmptiedSound
  <2>4. ArmedIn(e)
    BY <1>2, <2>2, ExtractedArmed
  <2>5. w \notin X
    BY <1>5 DEF Sound, Kept
  <2>6. X \ {w} = X
    BY <2>5
  <2>7. AddDuplicate(s, p, w, v, new) \in {e, Kill(e, w)}
    BY <1>5, <2>1 DEF AddDuplicate
  <2>8. e.weapon[w] # None /\ \A q \in Player : w \notin e.player[q].items
    BY <1>2, <2>2 DEF Extracted
  <2>9. Sound(Kill(e, w), X \ {w}) /\ ArmedIn(Kill(e, w))
    BY <2>3, <2>4, <2>8, KillSound
  <2> QED BY <2>3, <2>4, <2>6, <2>7, <2>9
<1> QED BY <1>4, <1>5

\* From s to t, w is added to the items of p; with it comes ammunition of its kind.
Added(s, t, w, p) ==
  /\ Outside(s, t, {w}, p)
  /\ t.player[p].items = s.player[p].items \cup {w}
  /\ t.player[p].active = s.player[p].active /\ t.player[p].last = s.player[p].last
  /\ Kept(t.weapon[w]) /\ t.weapon[w].owner = p
  /\ \A q \in Player, b \in Ammo :
       q # p \/ b # AmmoOf[t.weapon[w].class] => t.player[q].pool[b] = s.player[q].pool[b]

LEMMA AddedSound ==
  ASSUME NEW s, NEW X, Sound(s, X), ArmedIn(s), NEW p \in Player, NEW w \in Weapon,
         \A q \in Player : w \notin s.player[q].items, NEW t, Added(s, t, w, p),
         \A v \in s.player[p].items : s.weapon[v].class # t.weapon[w].class
  PROVE  Sound(t, X \ {w}) /\ ArmedIn(t)
<1>1. s \in States /\ Outside(s, t, {w}, p) /\ t.player[p].items = s.player[p].items \cup {w}
  BY DEF Sound, Added
<1>2. Kept(t.weapon[w]) /\ t.weapon[w].owner = p
  BY DEF Added
<1>3. Placed(t, X \ {w}, w)
  BY <1>1, <1>2 DEF Placed, Kept
<1>4. InList(t, p)
  <2>1. InList(s, p)
    BY DEF Sound
  <2> QED BY <2>1 DEF InList, Added
<1>5. ASSUME NEW q \in Player, NEW v \in s.player[q].items
      PROVE  t.weapon[v].class = s.weapon[v].class /\ v \in t.player[q].items
  <2>1. v \in Weapon /\ v # w /\ s.weapon[v] # None
    BY Listed
  <2>2. Alike(s.weapon[v], t.weapon[v])
    BY <1>1, <2>1 DEF Outside
  <2>3. v \in t.player[q].items
    BY <1>1 DEF Outside
  <2> QED BY <2>1, <2>2, <2>3 DEF Alike
<1>6. OneOfAClass(t, p)
  <2>1. OneOfAClass(s, p)
    BY DEF Sound
  <2> QED BY <1>1, <1>5, <2>1 DEF OneOfAClass
<1>7. \A v \in X : v \in Weapon
  BY DEF Sound
<1>8. Sound(t, X \ {w})
  BY <1>1, <1>2, <1>3, <1>4, <1>6, <1>7, LocalSound
<1>9. ASSUME NEW q \in Player, NEW c \in Exhaustible, t.player[q].pool[AmmoOf[c]] > 0
      PROVE  Has(t, q, c)
  <2>1. AmmoOf[c] \in Ammo
    BY Constants
  <2>2. CASE q # p \/ AmmoOf[c] # AmmoOf[t.weapon[w].class]
    <3>1. s.player[q].pool[AmmoOf[c]] > 0
      BY <1>9, <2>1, <2>2 DEF Added
    <3>2. PICK v \in s.player[q].items : s.weapon[v].class = c
      BY <3>1 DEF ArmedIn, Has
    <3> QED BY <1>5, <3>2 DEF Has
  <2>3. CASE q = p /\ AmmoOf[c] = AmmoOf[t.weapon[w].class]
    <3>1. t \in States /\ w \in t.player[p].items /\ t.weapon[w] # None
      BY <1>1, <1>2 DEF Outside, Kept
    <3> QED BY <2>3, <3>1, HasOfKind
  <2> QED BY <2>2, <2>3
<1> QED BY <1>8, <1>9 DEF ArmedIn

\* The weapon jt is loaded as it is, and so is any reload of it.
SameClip(it, jt) == jt.clip = it.clip /\ jt.pending = it.pending /\ jt.stale = it.stale

LEMMA LinkIs ==
  ASSUME NEW s \in States, NEW p \in Player, NEW w \in Weapon, s.weapon[w] # None
  PROVE  /\ Link(s, p, w) \in States
         /\ \A v \in Weapon : v # w => Link(s, p, w).weapon[v] = s.weapon[v]
         /\ \E it \in WeaponType :
              /\ Link(s, p, w).weapon[w] = it /\ it.owner = p /\ it.class = s.weapon[w].class
              /\ it.spare = s.weapon[w].spare /\ SameClip(s.weapon[w], it)
              /\ it.touch = s.weapon[w].touch /\ it.think = s.weapon[w].think
         /\ \A q \in Player : q # p => Link(s, p, w).player[q] = s.player[q]
         /\ \E pl \in PlayerType :
              /\ Link(s, p, w).player[p] = pl /\ pl.items = s.player[p].items \cup {w}
              /\ pl.active = s.player[p].active /\ pl.last = s.player[p].last
              /\ pl.pool = s.player[p].pool
<1>1. s.weapon[w] \in WeaponType /\ s.player[p] \in PlayerType
  BY WeaponFields, PlayerFields
<1>2. PICK it : it = [s.weapon[w] EXCEPT !.owner = p]
  OBVIOUS
<1>3. /\ it \in WeaponType /\ it.owner = p /\ it.class = s.weapon[w].class
      /\ it.spare = s.weapon[w].spare /\ SameClip(s.weapon[w], it)
      /\ it.touch = s.weapon[w].touch /\ it.think = s.weapon[w].think
  BY <1>1, <1>2 DEF WeaponType, SameClip
<1>4. PICK pl : pl = [s.player[p] EXCEPT !.items = @ \cup {w}]
  OBVIOUS
<1>5. /\ pl \in PlayerType /\ pl.items = s.player[p].items \cup {w}
      /\ pl.active = s.player[p].active /\ pl.last = s.player[p].last
      /\ pl.pool = s.player[p].pool
  BY <1>1, <1>4 DEF PlayerType
<1>6. PICK f : f = [s.weapon EXCEPT ![w] = it]
  OBVIOUS
<1>7. PICK g : g = [s.player EXCEPT ![p] = pl]
  OBVIOUS
<1>8. /\ f \in [Weapon -> WeaponType \cup {None}] /\ g \in [Player -> PlayerType]
      /\ \A v \in Weapon : f[v] = IF v = w THEN it ELSE s.weapon[v]
      /\ \A q \in Player : g[q] = IF q = p THEN pl ELSE s.player[q]
  BY <1>3, <1>5, <1>6, <1>7 DEF States
<1>9. Link(s, p, w) = [weapon |-> f, player |-> g]
  <2>1. PICK k : k = [weapon |-> f, player |-> s.player]
    OBVIOUS
  <2>2. k.weapon = f /\ k.player = s.player
    BY <2>1
  <2>3. [s EXCEPT !.weapon[w].owner = p] = k
    BY <1>2, <1>6, <2>1 DEF States
  <2>4. Link(s, p, w) = [k EXCEPT !.player[p].items = s.player[p].items \cup {w}]
    BY <2>2, <2>3, Zenon DEF Link
  <2>5. [k EXCEPT !.player[p].items = s.player[p].items \cup {w}] = [k EXCEPT !.player = g]
    BY <1>4, <1>7, <2>2
  <2> QED BY <2>1, <2>4, <2>5
<1>10. Link(s, p, w) \in States /\ Link(s, p, w).weapon = f /\ Link(s, p, w).player = g
  BY <1>8, <1>9, StateRecord
<1> QED BY <1>3, <1>5, <1>8, <1>10

LEMMA LinkPlayer ==
  ASSUME NEW s \in States, NEW p \in Player, NEW w \in Weapon, s.weapon[w] # None,
         NEW l, l = Link(s, p, w)
  PROVE  /\ l.player[p].items = s.player[p].items \cup {w}
         /\ l.player[p].active = s.player[p].active /\ l.player[p].last = s.player[p].last
         /\ l.player[p].pool = s.player[p].pool
         /\ \A q \in Player : q # p => l.player[q] = s.player[q]
<1>1. PICK own \in PlayerType :
        /\ Link(s, p, w).player[p] = own /\ own.items = s.player[p].items \cup {w}
        /\ own.active = s.player[p].active /\ own.last = s.player[p].last
        /\ own.pool = s.player[p].pool
  BY LinkIs
<1>2. \A q \in Player : q # p => Link(s, p, w).player[q] = s.player[q]
  BY LinkIs
<1> QED BY <1>1, <1>2

LEMMA AttachIs ==
  ASSUME NEW s \in States, NEW w \in Weapon, s.weapon[w] # None
  PROVE  /\ Attach(s, w) \in States /\ Attach(s, w).player = s.player
         /\ \A v \in Weapon : v # w => Attach(s, w).weapon[v] = s.weapon[v]
         /\ \E it \in WeaponType :
              /\ Attach(s, w).weapon[w] = it /\ it.owner = s.weapon[w].owner
              /\ it.class = s.weapon[w].class /\ it.spare = s.weapon[w].spare
              /\ ~it.touch /\ it.think = "none" /\ SameClip(s.weapon[w], it)
<1>1. s.weapon[w] \in WeaponType
  BY WeaponFields
<1>2. PICK it : it = [s.weapon[w] EXCEPT !.touch = FALSE, !.think = "none"]
  OBVIOUS
<1>3. /\ it \in WeaponType /\ it.owner = s.weapon[w].owner
      /\ it.class = s.weapon[w].class /\ it.spare = s.weapon[w].spare
      /\ ~it.touch /\ it.think = "none" /\ SameClip(s.weapon[w], it)
  BY <1>1, <1>2 DEF WeaponType, SameClip
<1>4. PICK k : k = [s EXCEPT !.weapon[w] = it]
  OBVIOUS
<1>5. Attach(s, w) = k
  BY <1>1, <1>2, <1>4 DEF Attach, States
<1>6. /\ k \in States /\ k.player = s.player
      /\ \A v \in Weapon : k.weapon[v] = IF v = w THEN it ELSE s.weapon[v]
  BY <1>3, <1>4 DEF States
<1> QED BY <1>3, <1>5, <1>6

\* A weapon of the world, or of X, goes to a player who has none of its class.
LEMMA PickedUp ==
  ASSUME NEW s, NEW X, Sound(s, X), ArmedIn(s), NEW p \in Player, NEW w \in Weapon,
         s.weapon[w] # None, s.weapon[w].touch \/ w \in X, NEW new,
         \A v \in s.player[p].items : s.weapon[v].class # s.weapon[w].class,
         NEW t, t = Attach(ExtractAmmo(Link(s, p, w), w, w, new), w)
  PROVE  Sound(t, X \ {w}) /\ ArmedIn(t) /\ w \in t.player[p].items
<1>1. s \in States /\ \A q \in Player : w \notin s.player[q].items
  BY Listed DEF Sound
<1>2. PICK l : l = Link(s, p, w)
  OBVIOUS
<1>3. /\ l \in States /\ l.weapon[w] \in WeaponType /\ l.weapon[w] # None
      /\ l.weapon[w].owner = p /\ l.weapon[w].class = s.weapon[w].class
      /\ \A v \in Weapon : v # w => l.weapon[v] = s.weapon[v]
  BY <1>1, <1>2, LinkIs, NoneAssumption
<1>4. /\ l.player[p].items = s.player[p].items \cup {w}
      /\ l.player[p].active = s.player[p].active /\ l.player[p].last = s.player[p].last
      /\ l.player[p].pool = s.player[p].pool
      /\ \A q \in Player : q # p => l.player[q] = s.player[q]
  BY <1>1, <1>2, LinkPlayer
<1>5. PICK e : e = ExtractAmmo(l, w, w, new)
  OBVIOUS
<1>6. w \in l.player[p].items
  BY <1>4
<1>7. Extracted(l, e, w, p, AmmoOf[l.weapon[w].class])
  BY <1>3, <1>5, <1>6, ExtractAmmoIs
<1>8. e \in States /\ e.weapon[w] # None
  BY <1>7 DEF Extracted
<1>9. t = Attach(e, w)
  BY <1>2, <1>5
<1>10. /\ t \in States /\ t.player = e.player
       /\ \A v \in Weapon : v # w => t.weapon[v] = e.weapon[v]
       /\ t.weapon[w] \in WeaponType /\ t.weapon[w].owner = e.weapon[w].owner
       /\ t.weapon[w].class = e.weapon[w].class /\ t.weapon[w].spare = e.weapon[w].spare
       /\ ~t.weapon[w].touch /\ t.weapon[w].think = "none"
  BY <1>8, <1>9, AttachIs
<1>11. Kept(t.weapon[w])
  BY <1>7, <1>10, NoneAssumption DEF Kept, Extracted
<1>12. t.weapon[w].owner = p /\ t.weapon[w].class = s.weapon[w].class
  BY <1>3, <1>7, <1>10 DEF Extracted
<1>13. ASSUME NEW v \in Weapon, v # w PROVE Alike(s.weapon[v], t.weapon[v])
  BY <1>3, <1>7, <1>10, <1>13 DEF Extracted
<1>14. ASSUME NEW q \in Player, q # p
       PROVE  /\ t.player[q].items = s.player[q].items
              /\ t.player[q].active = s.player[q].active /\ t.player[q].last = s.player[q].last
  BY <1>4, <1>7, <1>10, <1>14 DEF Extracted
<1>15. Outside(s, t, {w}, p)
  BY <1>10, <1>13, <1>14 DEF Outside
<1>16. /\ t.player[p].items = s.player[p].items \cup {w}
       /\ t.player[p].active = s.player[p].active /\ t.player[p].last = s.player[p].last
  BY <1>4, <1>7, <1>10 DEF Extracted
<1>17. \A q \in Player, b \in Ammo :
         q # p \/ b # AmmoOf[t.weapon[w].class] => t.player[q].pool[b] = s.player[q].pool[b]
  BY <1>3, <1>4, <1>7, <1>10, <1>12 DEF Extracted
<1>18. Added(s, t, w, p)
  BY <1>11, <1>12, <1>15, <1>16, <1>17 DEF Added
<1>19. \A v \in s.player[p].items : s.weapon[v].class # t.weapon[w].class
  BY <1>12
<1>20. Sound(t, X \ {w}) /\ ArmedIn(t)
  BY <1>1, <1>18, <1>19, AddedSound
<1> QED BY <1>16, <1>20

LEMMA AddPlayerItemSound ==
  ASSUME NEW s, NEW X, Sound(s, X), ArmedIn(s), NEW p \in Player, NEW w \in Weapon,
         s.weapon[w] # None, s.weapon[w].touch \/ w \in X, NEW auto, NEW new
  PROVE  /\ Sound(AddPlayerItem(s, p, w, auto, new), X \ {w})
         /\ ArmedIn(AddPlayerItem(s, p, w, auto, new))
<1>1. PICK same : same = {v \in s.player[p].items : s.weapon[v].class = s.weapon[w].class}
  OBVIOUS
<1>2. PICK added : added = Attach(ExtractAmmo(Link(s, p, w), w, w, new), w)
  OBVIOUS
<1>3. CASE same # {}
  <2>1. PICK v : v = CHOOSE u \in same : TRUE
    OBVIOUS
  <2>2. v \in s.player[p].items /\ s.weapon[v].class = s.weapon[w].class
    BY <1>1, <1>3, <2>1
  <2>3. AddPlayerItem(s, p, w, auto, new) = AddDuplicate(s, p, w, v, new)
    BY <1>1, <1>3, <2>1 DEF AddPlayerItem
  <2> QED BY <2>2, <2>3, DuplicateSound
<1>4. CASE same = {}
  <2>1. Sound(added, X \ {w}) /\ ArmedIn(added) /\ w \in added.player[p].items
    <3>1. \A v \in s.player[p].items : s.weapon[v].class # s.weapon[w].class
      BY <1>1, <1>4
    <3> QED BY <1>2, <3>1, PickedUp
  <2>2. AddPlayerItem(s, p, w, auto, new) \in {added, SwitchWeapon(added, p, w)}
    BY <1>1, <1>2, <1>4 DEF AddPlayerItem
  <2>3. Sound(SwitchWeapon(added, p, w), X \ {w}) /\ ArmedIn(SwitchWeapon(added, p, w))
    BY <2>1, SwitchSound
  <2> QED BY <2>1, <2>2, <2>3
<1> QED BY <1>3, <1>4

(***************************************************************************)
(* Giving away                                                             *)
(***************************************************************************)

\* Everybody but p, as far as class d goes, has the weapons that are his ammunition.
ArmedBut(s, p, d) ==
  \A q \in Player, c \in Exhaustible :
    s.player[q].pool[AmmoOf[c]] > 0 /\ ~(q = p /\ c = d) => Has(s, q, c)

\* A gun with a reload pending is stale once it is holstered.
Stowed(it) == it.stale \/ (it.pending /\ MaxClip[it.class] # NoClip)

\* The weapon jt is loaded as it is, but it has been put away if it was in hand.
SameRounds(it, jt, inHand) ==
  /\ jt.clip = it.clip /\ jt.pending = it.pending
  /\ jt.stale = IF inHand THEN Stowed(it) ELSE it.stale

LEMMA HolsterIs ==
  ASSUME NEW s \in States, NEW w \in Weapon, s.weapon[w] # None
  PROVE  /\ \A v \in Weapon : v # w => Holster(s, w).weapon[v] = s.weapon[v]
         /\ Holster(s, w).weapon[w] = [s.weapon[w] EXCEPT !.stale = Stowed(s.weapon[w])]
<1>1. None \notin Weapon /\ s.weapon \in [Weapon -> WeaponType \cup {None}]
  BY Constants DEF States
<1>2. s.weapon[w] \in WeaponType
  BY WeaponFields
<1>3. CASE s.weapon[w].pending /\ MaxClip[s.weapon[w].class] # NoClip
  <2>1. Holster(s, w) = [s EXCEPT !.weapon[w].stale = TRUE]
    BY <1>1, <1>3 DEF Holster
  <2>2. Stowed(s.weapon[w]) = TRUE
    BY <1>3 DEF Stowed
  <2> QED BY <1>1, <2>1, <2>2 DEF States
<1>4. CASE ~(s.weapon[w].pending /\ MaxClip[s.weapon[w].class] # NoClip)
  <2>1. Holster(s, w) = s
    BY <1>4 DEF Holster
  <2>2. Stowed(s.weapon[w]) = s.weapon[w].stale
    BY <1>2, <1>4 DEF Stowed, WeaponType
  <2> QED BY <1>2, <2>1, <2>2 DEF WeaponType
<1> QED BY <1>3, <1>4

\* Where w is put away, whether in hand or not.
LEMMA PutAwayIs ==
  ASSUME NEW s, NEW X, Sound(s, X), NEW p \in Player, NEW w \in s.player[p].items
  PROVE  LET t == PutAway(s, p, w) IN
         /\ Settled(s, t)
         /\ \A q \in Player : q # p => t.player[q] = s.player[q]
         /\ t.player[p].active = (IF s.player[p].active = w THEN None ELSE s.player[p].active)
         /\ t.player[p].last = s.player[p].last /\ t.player[p].pool = s.player[p].pool
         /\ \A v \in Weapon : v # w => t.weapon[v] = s.weapon[v]
         /\ SameRounds(s.weapon[w], t.weapon[w], s.player[p].active = w)
<1>1. s \in States /\ w \in Weapon /\ s.weapon[w] # None /\ s.weapon[w].think # "remove"
  BY Listed DEF Sound
<1>2. CASE s.player[p].active = w
  <2>1. PICK h : h = Holster(s, w)
    OBVIOUS
  <2>2. Settled(s, h) /\ h.player = s.player
    BY <1>1, <2>1, HolsterSettled
  <2>3. h \in States /\ Alike(s.weapon[w], h.weapon[w])
    BY <1>1, <2>2 DEF Settled
  <2>4. h.weapon[w] # None /\ h.weapon[w].think # "remove" /\ h.weapon[w] \in WeaponType
    BY <1>1, <2>3, WeaponFields DEF Alike
  <2>5. PICK it : it = [h.weapon[w] EXCEPT !.think = "none"]
    OBVIOUS
  <2>6. it \in WeaponType /\ Alike(h.weapon[w], it)
    BY <2>4, <2>5, NoneAssumption DEF WeaponType, Alike
  <2>7. PICK k : k = [h EXCEPT !.weapon[w] = it]
    OBVIOUS
  <2>8. Settled(h, k) /\ k.player = s.player /\ k \in States
    <3>1. Settled(h, k) /\ k.player = h.player
      BY <1>1, <2>3, <2>6, <2>7, SetAlike
    <3> QED BY <2>2, <3>1 DEF Settled
  <2>9. PICK pl : pl = [s.player[p] EXCEPT !.active = None]
    OBVIOUS
  <2>10. /\ pl \in PlayerType /\ pl.items = s.player[p].items /\ pl.active = None
         /\ pl.last = s.player[p].last /\ pl.pool = s.player[p].pool
    BY <1>1, <2>9, PlayerFields DEF PlayerType
  <2>11. PICK u : u = [k EXCEPT !.player[p] = pl]
    OBVIOUS
  <2>12. /\ Settled(k, u)
         /\ \A q \in Player : u.player[q] = IF q = p THEN pl ELSE s.player[q]
    <3>1. Settled(k, u)
      BY <2>8, <2>10, <2>11, SetSettled
    <3> QED BY <2>8, <2>11, <3>1 DEF States
  <2>13. PutAway(s, p, w) = u
    <3>1. [h EXCEPT !.weapon[w].think = "none"] = k
      BY <2>3, <2>5, <2>7 DEF States
    <3>2. PutAway(s, p, w) = [k EXCEPT !.player[p].active = None]
      BY <1>2, <2>1, <3>1, Zenon DEF PutAway
    <3>3. [k EXCEPT !.player[p].active = None] = u
      BY <2>8, <2>9, <2>11 DEF States
    <3> QED BY <3>2, <3>3
  <2>14. Settled(s, u)
    BY <2>2, <2>8, <2>12, SettledTrans
  <2>15. /\ \A v \in Weapon : v # w => u.weapon[v] = s.weapon[v]
         /\ SameRounds(s.weapon[w], u.weapon[w], TRUE)
    <3>1. /\ \A v \in Weapon : v # w => h.weapon[v] = s.weapon[v]
          /\ h.weapon[w] = [s.weapon[w] EXCEPT !.stale = Stowed(s.weapon[w])]
      BY <1>1, <2>1, HolsterIs
    <3>2. u.weapon = [h.weapon EXCEPT ![w] = it]
      BY <2>7, <2>8, <2>11 DEF States
    <3>3. h.weapon \in [Weapon -> WeaponType \cup {None}]
      BY <2>3 DEF States
    <3>4. it.stale = Stowed(s.weapon[w]) /\ it.clip = s.weapon[w].clip
          /\ it.pending = s.weapon[w].pending
      <4>1. s.weapon[w] \in WeaponType
        BY <1>1, WeaponFields
      <4> QED BY <2>4, <2>5, <3>1, <4>1 DEF WeaponType
    <3> QED BY <1>1, <3>1, <3>2, <3>3, <3>4 DEF SameRounds
  <2> QED BY <1>2, <2>10, <2>12, <2>13, <2>14, <2>15
<1>3. CASE s.player[p].active # w
  <2>1. SameRounds(s.weapon[w], s.weapon[w], FALSE)
    BY DEF SameRounds
  <2> QED BY <1>1, <1>3, <2>1, SettledSame DEF PutAway
<1> QED BY <1>2, <1>3

\* From s to t, w goes from p to X.
Packed(s, t, w, p) ==
  /\ Outside(s, t, {w}, p)
  /\ t.player[p].items = s.player[p].items \ {w}
  /\ t.player[p].active = (IF s.player[p].active = w THEN None ELSE s.player[p].active)
  /\ t.player[p].last = (IF s.player[p].last = w THEN None ELSE s.player[p].last)
  /\ Kept(t.weapon[w]) /\ t.weapon[w].class = s.weapon[w].class
  /\ \A q \in Player : t.player[q].pool = s.player[q].pool
  /\ \A v \in Weapon : v # w => t.weapon[v] = s.weapon[v]
  /\ SameRounds(s.weapon[w], t.weapon[w], s.player[p].active = w)

LEMMA PackWeaponIs ==
  ASSUME NEW s, NEW X, Sound(s, X), NEW p \in Player, NEW w \in s.player[p].items
  PROVE  Packed(s, PackWeapon(s, w), w, p)
<1>1. /\ s \in States /\ w \in Weapon /\ s.weapon[w] # None
      /\ s.weapon[w].owner = p /\ s.weapon[w].spare = 0
  BY Listed DEF Sound
<1>2. PICK t : t = PutAway(s, p, w)
  OBVIOUS
<1>3. /\ Settled(s, t) /\ \A q \in Player : q # p => t.player[q] = s.player[q]
      /\ t.player[p].active = (IF s.player[p].active = w THEN None ELSE s.player[p].active)
      /\ t.player[p].last = s.player[p].last /\ t.player[p].pool = s.player[p].pool
      /\ \A v \in Weapon : v # w => t.weapon[v] = s.weapon[v]
      /\ SameRounds(s.weapon[w], t.weapon[w], s.player[p].active = w)
  BY <1>2, PutAwayIs
<1>4. /\ t \in States /\ Alike(s.weapon[w], t.weapon[w]) /\ t.player[p].items = s.player[p].items
      /\ \A v \in Weapon : Alike(s.weapon[v], t.weapon[v])
  BY <1>1, <1>3 DEF Settled
<1>5. t.weapon[w] # None /\ t.weapon[w] \in WeaponType
      /\ t.weapon[w].class = s.weapon[w].class /\ t.weapon[w].spare = 0
  BY <1>1, <1>4, WeaponFields DEF Alike
<1>6. PICK last : last = IF t.player[p].last = w THEN None ELSE t.player[p].last
  OBVIOUS
<1>7. PICK pl : pl = [t.player[p] EXCEPT !.items = @ \ {w}, !.last = last]
  OBVIOUS
<1>8. /\ pl \in PlayerType /\ pl.items = s.player[p].items \ {w} /\ pl.last = last
      /\ pl.active = t.player[p].active /\ pl.pool = s.player[p].pool
  <2>1. t.player[p] \in PlayerType /\ last \in Weapon \cup {None}
    BY <1>4, <1>6, PlayerFields
  <2> QED BY <1>3, <1>4, <1>7, <2>1 DEF PlayerType
<1>9. PICK r : r = [t EXCEPT !.player[p] = pl]
  OBVIOUS
<1>10. /\ r \in States /\ r.weapon = t.weapon
       /\ \A q \in Player : r.player[q] = IF q = p THEN pl ELSE t.player[q]
  BY <1>4, <1>8, <1>9 DEF States
<1>11. RemovePlayerItem(s, p, w) = r
  <2>1. PICK own : own = t.player[p]
    OBVIOUS
  <2>2. pl = [own EXCEPT !.items = @ \ {w}, !.last = IF @ = w THEN None ELSE @]
    <3>1. own \in PlayerType
      BY <1>4, <2>1, PlayerFields
    <3> QED BY <1>6, <1>7, <2>1, <3>1 DEF PlayerType
  <2>3. RemovePlayerItem(s, p, w) =
          [t EXCEPT !.player[p] =
             [own EXCEPT !.items = @ \ {w}, !.last = IF @ = w THEN None ELSE @]]
    BY <1>2, <2>1 DEF RemovePlayerItem
  <2> QED BY <1>9, <2>2, <2>3
<1>12. PICK it : it = [t.weapon[w] EXCEPT !.owner = None, !.think = "none", !.touch = FALSE]
  OBVIOUS
<1>13. /\ it \in WeaponType /\ it.class = s.weapon[w].class /\ it.spare = 0
       /\ ~it.touch /\ it.think = "none" /\ SameClip(t.weapon[w], it)
  BY <1>5, <1>12 DEF WeaponType, SameClip
<1>14. PICK u : u = [r EXCEPT !.weapon[w] = it]
  OBVIOUS
<1>15. /\ u \in States /\ u.player = r.player
       /\ \A v \in Weapon : u.weapon[v] = IF v = w THEN it ELSE r.weapon[v]
  BY <1>1, <1>10, <1>13, <1>14 DEF States
<1>16. PackWeapon(s, w) = u
  <2>1. PackWeapon(s, w) =
          [r EXCEPT !.weapon[w].owner = None, !.weapon[w].think = "none", !.weapon[w].touch = FALSE]
    BY <1>1, <1>11, Zenon DEF PackWeapon
  <2>2. [r EXCEPT !.weapon[w].owner = None, !.weapon[w].think = "none", !.weapon[w].touch = FALSE]
          = u
    BY <1>1, <1>10, <1>12, <1>14 DEF States
  <2> QED BY <2>1, <2>2
<1>17. Kept(it)
  BY <1>13, NoneAssumption DEF Kept
<1>18. Outside(s, u, {w}, p)
  <2>1. \A v \in Weapon : v \notin {w} => Alike(s.weapon[v], u.weapon[v])
    BY <1>4, <1>10, <1>15
  <2>2. \A q \in Player : q # p => u.player[q] = s.player[q]
    BY <1>3, <1>10, <1>15
  <2> QED BY <1>15, <2>1, <2>2 DEF Outside
<1>19. /\ \A v \in Weapon : v # w => u.weapon[v] = s.weapon[v]
       /\ SameRounds(s.weapon[w], u.weapon[w], s.player[p].active = w)
  BY <1>1, <1>3, <1>10, <1>13, <1>15 DEF SameRounds, SameClip
<1>20. Packed(s, u, w, p)
  BY <1>1, <1>3, <1>6, <1>8, <1>10, <1>13, <1>15, <1>17, <1>18, <1>19 DEF Packed
<1> QED BY <1>16, <1>20

LEMMA PackedSound ==
  ASSUME NEW s, NEW X, Sound(s, X), NEW p \in Player, NEW w \in s.player[p].items,
         NEW t, Packed(s, t, w, p)
  PROVE  Sound(t, X \cup {w}) /\ (ArmedIn(s) => ArmedBut(t, p, s.weapon[w].class))
<1>1. /\ s \in States /\ w \in Weapon /\ Outside(s, t, {w}, p)
      /\ t.player[p].items = s.player[p].items \ {w} /\ Kept(t.weapon[w])
      /\ \A q \in Player : w \in s.player[q].items => q = p
  <2>1. s \in States
    BY DEF Sound
  <2>2. w \in Weapon /\ \A q \in Player : w \in s.player[q].items => q = p
    BY Listed
  <2> QED BY <2>1, <2>2 DEF Packed
<1>2. Placed(t, X \cup {w}, w)
  BY <1>1 DEF Placed, Kept
<1>3. InList(t, p)
  <2>1. InList(s, p)
    BY DEF Sound
  <2> QED BY <2>1 DEF InList, Packed
<1>4. ASSUME NEW q \in Player, NEW v \in s.player[q].items, v # w
      PROVE  t.weapon[v].class = s.weapon[v].class /\ v \in t.player[q].items
  <2>1. v \in Weapon /\ s.weapon[v] # None
    BY Listed
  <2>2. Alike(s.weapon[v], t.weapon[v])
    BY <1>1, <1>4, <2>1 DEF Outside
  <2>3. v \in t.player[q].items
    BY <1>1, <1>4 DEF Outside
  <2> QED BY <2>1, <2>2, <2>3 DEF Alike
<1>5. OneOfAClass(t, p)
  <2>1. OneOfAClass(s, p)
    BY DEF Sound
  <2> QED BY <1>1, <1>4, <2>1 DEF OneOfAClass
<1>6. \A v \in X : v \in Weapon
  BY DEF Sound
<1>7. Sound(t, X \cup {w})
  BY <1>1, <1>2, <1>3, <1>5, <1>6, LocalSound
<1>8. ASSUME ArmedIn(s), NEW q \in Player, NEW c \in Exhaustible,
             t.player[q].pool[AmmoOf[c]] > 0, ~(q = p /\ c = s.weapon[w].class)
      PROVE  Has(t, q, c)
  <2>1. s.player[q].pool[AmmoOf[c]] > 0
    BY <1>8 DEF Packed
  <2>2. PICK v \in s.player[q].items : s.weapon[v].class = c
    BY <1>8, <2>1 DEF ArmedIn, Has
  <2>3. v # w
    BY <1>1, <1>8, <2>2
  <2> QED BY <1>4, <2>2, <2>3 DEF Has
<1> QED BY <1>7, <1>8 DEF ArmedBut

\* What RemoveAllItems makes of what a player has, and of him.
LEMMA RemoveAllIs ==
  ASSUME NEW s, NEW X, Sound(s, X), NEW p \in Player, NEW h, h = Holster(s, s.player[p].active)
  PROVE  LET t == RemoveAllItems(s, p)
             W == s.player[p].items
         IN /\ t \in States
            /\ \A v \in Weapon : t.weapon[v] = IF v \in W THEN Drop(h.weapon[v]) ELSE h.weapon[v]
            /\ \A v \in W : /\ t.weapon[v] \in WeaponType
                             /\ ~t.weapon[v].touch /\ t.weapon[v].think = "remove"
            /\ t.player[p].items = {} /\ t.player[p].active = None /\ t.player[p].last = None
            /\ \A a \in Ammo : t.player[p].pool[a] = 0
            /\ \A q \in Player : q # p => t.player[q] = s.player[q]
<1>1. s \in States
  BY DEF Sound
<1>2. Settled(s, h)
  BY InHandListed, HolsterSettled
<1>3. PICK W : W = s.player[p].items
  OBVIOUS
<1>4. W \subseteq Weapon /\ h \in States
  BY <1>1, <1>2, <1>3, PlayerFields DEF Settled
<1>5. ASSUME NEW v \in W
      PROVE  h.weapon[v] \in WeaponType
  <2>1. v \in Weapon /\ s.weapon[v] # None
    BY <1>3, Listed
  <2>2. Alike(s.weapon[v], h.weapon[v])
    BY <1>2, <2>1 DEF Settled
  <2>3. h.weapon[v] # None
    BY <2>1, <2>2 DEF Alike
  <2> QED BY <1>4, <2>1, <2>3, WeaponFields
<1>6. PICK f : f = [v \in Weapon |-> IF v \in W THEN Drop(h.weapon[v]) ELSE h.weapon[v]]
  OBVIOUS
<1>7. ASSUME NEW v \in W
      PROVE  f[v] \in WeaponType /\ f[v].touch = FALSE /\ f[v].think = "remove"
  <2>1. f[v] = Drop(h.weapon[v])
    BY <1>4, <1>6
  <2>2. h.weapon[v] \in WeaponType
    BY <1>5
  <2> QED BY <2>1, <2>2 DEF WeaponType, Drop
<1>8. f \in [Weapon -> WeaponType \cup {None}] /\ \A v \in Weapon : v \notin W => f[v] = h.weapon[v]
  <2>1. ASSUME NEW v \in Weapon
        PROVE  (IF v \in W THEN Drop(h.weapon[v]) ELSE h.weapon[v]) \in WeaponType \cup {None}
    <3>1. CASE v \in W
      BY <1>5, <3>1 DEF WeaponType, Drop
    <3>2. CASE v \notin W
      BY <1>4, <3>2 DEF States
    <3> QED BY <3>1, <3>2
  <2> QED BY <1>6, <2>1
<1>9. PICK pl : pl = Emptied(s.player[p])
  OBVIOUS
<1>10. /\ pl \in PlayerType /\ pl.items = {} /\ pl.active = None /\ pl.last = None
       /\ \A a \in Ammo : pl.pool[a] = 0
  <2>1. s.player[p] \in PlayerType
    BY <1>1, PlayerFields
  <2>2. NoRounds \in [Ammo -> Int] /\ \A a \in Ammo : NoRounds[a] = 0
    BY DEF NoRounds
  <2> QED BY <1>9, <2>1, <2>2 DEF PlayerType, Emptied
<1>11. PICK g : g = [s.player EXCEPT ![p] = pl]
  OBVIOUS
<1>12. g \in [Player -> PlayerType] /\ \A q \in Player : g[q] = IF q = p THEN pl ELSE s.player[q]
  BY <1>1, <1>10, <1>11 DEF States
<1>13. PICK t : t = [weapon |-> f, player |-> g]
  OBVIOUS
<1>14. t \in States /\ t.weapon = f /\ t.player = g
  BY <1>8, <1>12, <1>13, StateRecord
<1>15. RemoveAllItems(s, p) = t
  BY <1>3, <1>6, <1>9, <1>11, <1>13 DEF RemoveAllItems
<1>16. W \subseteq Weapon /\ p \in Player
  BY <1>4
<1> QED BY <1>3, <1>6, <1>7, <1>10, <1>12, <1>14, <1>15, <1>16

\* All the weapons of a player are on their way out, and his ammunition is gone.
LEMMA RemoveAllSound ==
  ASSUME NEW s, NEW X, Sound(s, X), NEW p \in Player
  PROVE  /\ Sound(RemoveAllItems(s, p), X)
         /\ \A d : ArmedBut(s, p, d) => ArmedIn(RemoveAllItems(s, p))
<1>1. s \in States
  BY DEF Sound
<1>2. PICK h : h = Holster(s, s.player[p].active)
  OBVIOUS
<1>3. Settled(s, h)
  BY <1>2, InHandListed, HolsterSettled
<1>4. PICK W : W = s.player[p].items
  OBVIOUS
<1>5. W \subseteq Weapon /\ h \in States
  BY <1>1, <1>3, <1>4, PlayerFields DEF Settled
<1>6. ASSUME NEW v \in W
      PROVE  /\ s.weapon[v] # None /\ h.weapon[v] \in WeaponType /\ v \notin X
             /\ \A q \in Player : v \in s.player[q].items => q = p
  <2>1. v \in Weapon /\ s.weapon[v] # None /\ v \notin X
        /\ \A q \in Player : v \in s.player[q].items => q = p
    BY <1>4, Listed
  <2>2. Alike(s.weapon[v], h.weapon[v])
    BY <1>3, <2>1 DEF Settled
  <2>3. h.weapon[v] # None
    BY <2>1, <2>2 DEF Alike
  <2> QED BY <1>5, <2>1, <2>3, WeaponFields
<1>7. PICK t : t = RemoveAllItems(s, p)
  OBVIOUS
<1>8. /\ t \in States
      /\ \A v \in Weapon : t.weapon[v] = IF v \in W THEN Drop(h.weapon[v]) ELSE h.weapon[v]
      /\ \A v \in W : /\ t.weapon[v] \in WeaponType
                       /\ ~t.weapon[v].touch /\ t.weapon[v].think = "remove"
  BY <1>2, <1>4, <1>7, RemoveAllIs
<1>9. /\ t.player[p].items = {} /\ t.player[p].active = None /\ t.player[p].last = None
      /\ \A a \in Ammo : t.player[p].pool[a] = 0
      /\ \A q \in Player : q # p => t.player[q] = s.player[q]
  BY <1>2, <1>7, RemoveAllIs
<1>10. Outside(s, t, W, p)
  <2>1. \A v \in Weapon : v \notin W => Alike(s.weapon[v], t.weapon[v])
    BY <1>3, <1>8 DEF Settled
  <2> QED BY <1>8, <1>9, <2>1 DEF Outside
<1>11. \A v \in W : Placed(t, X, v)
  BY <1>8 DEF Placed
<1>12. InList(t, p) /\ OneOfAClass(t, p) /\ t.player[p].items = {}
  BY <1>9 DEF InList, OneOfAClass
<1>13. \A v \in X : v \in Weapon /\ v \notin W
  BY <1>6 DEF Sound
<1>14. Sound(t, X)
  BY <1>4, <1>6, <1>10, <1>11, <1>12, <1>13, LocalSound
<1>15. ASSUME NEW d, ArmedBut(s, p, d), NEW q \in Player, NEW c \in Exhaustible,
              t.player[q].pool[AmmoOf[c]] > 0
       PROVE  Has(t, q, c)
  <2>1. q # p
    BY <1>9, <1>15, Constants
  <2>2. t.player[q] = s.player[q]
    BY <1>9, <2>1
  <2>3. PICK v \in s.player[q].items : s.weapon[v].class = c
    BY <1>15, <2>1, <2>2 DEF ArmedBut, Has
  <2>4. v \in Weapon /\ v \notin W /\ s.weapon[v] # None
    BY <1>6, <2>1, <2>3, Listed
  <2>5. Alike(s.weapon[v], t.weapon[v])
    BY <1>10, <2>4 DEF Outside
  <2> QED BY <2>2, <2>3, <2>4, <2>5 DEF Alike, Has
<1> QED BY <1>7, <1>14, <1>15 DEF ArmedIn

(***************************************************************************)
(* Ammunition that brings its weapon                                       *)
(***************************************************************************)

LEMMA GiveEmptyIs ==
  ASSUME NEW s, NEW X, Sound(s, X), ArmedIn(s), NEW p \in Player, NEW c \in Class,
         NEW new \in Weapon, s.weapon[new] = None
  PROVE  LET t == GiveEmpty(s, p, c, new) IN
         Added(s, t, new, p) /\ t.weapon[new].class = c /\ t.player[p].pool = s.player[p].pool
<1>1. s \in States /\ None \notin Weapon
  BY Constants DEF Sound
<1>2. PICK it : it = [Fresh(c) EXCEPT !.spare = 0, !.clip = NoClip]
  OBVIOUS
<1>3. it \in WeaponType /\ it.class = c /\ it.spare = 0 /\ it # None
  <2>1. DefaultAmmo[c] \in Nat
    BY Constants
  <2>2. Fresh(c) \in WeaponType /\ Fresh(c).class = c
    BY <2>1 DEF Fresh, WeaponType
  <2>3. NoClip \in Int
    BY DEF NoClip
  <2>4. it \in WeaponType /\ it.class = c /\ it.spare = 0
    BY <1>2, <2>2, <2>3 DEF WeaponType
  <2> QED BY <2>4, NoneAssumption
<1>4. PICK m : m = [s EXCEPT !.weapon[new] = it]
  OBVIOUS
<1>5. /\ m \in States /\ m.player = s.player /\ m.weapon[new] = it
      /\ \A v \in Weapon : v # new => m.weapon[v] = s.weapon[v]
  BY <1>1, <1>3, <1>4 DEF States
<1>6. PICK l : l = Link(m, p, new)
  OBVIOUS
<1>7. /\ l \in States /\ l.weapon[new] \in WeaponType /\ l.weapon[new] # None
      /\ l.weapon[new].owner = p /\ l.weapon[new].class = c /\ l.weapon[new].spare = 0
      /\ \A v \in Weapon : v # new => l.weapon[v] = s.weapon[v]
  BY <1>3, <1>5, <1>6, LinkIs, NoneAssumption
<1>8. /\ l.player[p].items = s.player[p].items \cup {new}
      /\ l.player[p].active = s.player[p].active /\ l.player[p].last = s.player[p].last
      /\ l.player[p].pool = s.player[p].pool
      /\ \A q \in Player : q # p => l.player[q] = s.player[q]
  <2>1. m \in States /\ m.weapon[new] # None
    BY <1>3, <1>5
  <2>2. /\ l.player[p].items = m.player[p].items \cup {new}
        /\ l.player[p].active = m.player[p].active /\ l.player[p].last = m.player[p].last
        /\ l.player[p].pool = m.player[p].pool
        /\ \A q \in Player : q # p => l.player[q] = m.player[q]
    BY <1>6, <2>1, LinkPlayer
  <2> QED BY <1>5, <2>2
<1>9. PICK t : t = Attach(l, new)
  OBVIOUS
<1>10. /\ t \in States /\ t.player = l.player
       /\ \A v \in Weapon : v # new => t.weapon[v] = s.weapon[v]
       /\ t.weapon[new] \in WeaponType /\ t.weapon[new].owner = p
       /\ t.weapon[new].class = c /\ t.weapon[new].spare = 0
       /\ ~t.weapon[new].touch /\ t.weapon[new].think = "none"
  BY <1>7, <1>9, AttachIs
<1>11. Kept(t.weapon[new])
  BY <1>10, NoneAssumption DEF Kept
<1>12. Outside(s, t, {new}, p)
  BY <1>8, <1>10, AlikeSame DEF Outside
<1>13. Added(s, t, new, p)
  BY <1>8, <1>10, <1>11, <1>12 DEF Added
<1>14. GiveEmpty(s, p, c, new) = t
  BY <1>1, <1>2, <1>4, <1>6, <1>9 DEF GiveEmpty
<1> QED BY <1>8, <1>10, <1>13, <1>14

\* With an entity to spare, a player gets the weapon that his ammunition is.
LEMMA GiveAmmoSound ==
  ASSUME NEW s, NEW X, Sound(s, X), ArmedIn(s), NEW p \in Player, NEW n \in Int, NEW a \in Ammo,
         NEW new \in Weapon \cup {None}, new # None => s.weapon[new] = None,
         new # None \/ \A c \in Exhaustible : AmmoOf[c] # a
  PROVE  Sound(GiveAmmo(s, p, n, a, new), X) /\ ArmedIn(GiveAmmo(s, p, n, a, new))
<1>1. s \in States
  BY DEF Sound
<1>2. PICK missing : missing = {c \in Exhaustible : AmmoOf[c] = a /\ ~Has(s, p, c)}
  OBVIOUS
<1>3. CASE missing = {}
  <2>1. \A c \in Exhaustible : AmmoOf[c] = a => Has(s, p, c)
    BY <1>2, <1>3
  <2> QED BY <1>1, <2>1, GiveAmmoPool, PoolOnlySound
<1>4. CASE missing # {}
  <2>1. PICK d : d = CHOOSE c \in missing : TRUE
    OBVIOUS
  <2>2. d \in Exhaustible /\ AmmoOf[d] = a /\ ~Has(s, p, d) /\ d \in Class
    BY <1>2, <1>4, <2>1, Constants
  <2>3. new \in Weapon /\ s.weapon[new] = None
    BY <2>2
  <2>4. PICK t : t = GiveEmpty(s, p, d, new)
    OBVIOUS
  <2>5. Added(s, t, new, p) /\ t.weapon[new].class = d /\ t.player[p].pool = s.player[p].pool
    BY <2>2, <2>3, <2>4, GiveEmptyIs
  <2>6. \A q \in Player : new \notin s.player[q].items
    BY <2>3, Listed
  <2>7. X \ {new} = X
    BY <2>3 DEF Sound, Kept
  <2>8. \A v \in s.player[p].items : s.weapon[v].class # t.weapon[new].class
    BY <2>2, <2>5 DEF Has
  <2>9. Sound(t, X) /\ ArmedIn(t)
    <3>1. Sound(t, X \ {new}) /\ ArmedIn(t)
      BY <2>3, <2>5, <2>6, <2>8, AddedSound
    <3> QED BY <2>7, <3>1
  <2>10. t \in States /\ new \in t.player[p].items /\ t.weapon[new] # None
    BY <2>5, <2>9 DEF Added, Kept, Sound
  <2>11. \A c \in Exhaustible : AmmoOf[c] = a => Has(t, p, c)
    BY <2>2, <2>5, <2>10, HasOfKind
  <2>12. PICK add : add = Min({n, MaxAmmo[a] - s.player[p].pool[a]})
    OBVIOUS
  <2>13. add \in Int /\ t.player[p].pool[a] \in Int
    <3>1. s.player[p].pool[a] \in Int /\ MaxAmmo[a] \in Int /\ t.player[p].pool[a] \in Int
      BY <1>1, <2>10, PlayerFields, Constants
    <3>2. PICK k \in Int : k = MaxAmmo[a] - s.player[p].pool[a]
      BY <3>1
    <3>3. Min({n, k}) = IF n <= k THEN n ELSE k
      BY MinOfTwo
    <3> QED BY <2>12, <3>1, <3>2, <3>3
  <2>14. CASE add < 1
    <3>1. GiveAmmo(s, p, n, a, new) = s
      BY <2>12, <2>14 DEF GiveAmmo
    <3> QED BY <3>1
  <2>15. CASE ~(add < 1)
    <3>1. GiveAmmo(s, p, n, a, new) = [t EXCEPT !.player[p].pool[a] = @ + add]
      BY <1>2, <1>4, <2>1, <2>4, <2>12, <2>15 DEF GiveAmmo
    <3>2. PICK k \in Int : k = t.player[p].pool[a] + add
      BY <2>13
    <3>3. GiveAmmo(s, p, n, a, new) = [t EXCEPT !.player[p].pool[a] = k]
      BY <3>1, <3>2
    <3>4. PoolOnly(t, GiveAmmo(s, p, n, a, new), p, a)
      BY <2>10, <3>3, SetPool
    <3> QED BY <2>9, <2>11, <3>4, PoolOnlySound
  <2> QED BY <2>14, <2>15
<1> QED BY <1>3, <1>4

(***************************************************************************)
(* The weapon in hand                                                      *)
(***************************************************************************)

LEMMA ReloadSetAmmosIs ==
  ASSUME NEW s, NEW X, Sound(s, X), NEW p \in Player, NEW w \in s.player[p].items
  PROVE  PoolOnly(s, ReloadSetAmmos(s, w), p, AmmoOf[s.weapon[w].class])
<1>1. /\ s \in States /\ w \in Weapon /\ s.weapon[w] # None /\ s.weapon[w] \in WeaponType
      /\ s.weapon[w].owner = p
  BY Listed DEF Sound
<1>2. PICK c \in Class : c = s.weapon[w].class
  BY <1>1, WeaponFields
<1>3. PICK a \in Ammo : a = AmmoOf[c]
  BY Constants
<1>4. PICK rounds \in Int : rounds = s.player[p].pool[a]
  BY <1>1, PlayerFields
<1>5. s.weapon[w].clip \in Int /\ MaxClip[c] \in Int
  BY <1>1, WeaponFields, Constants
<1>6. PICK load \in Int : load = Load(s, w)
  <2>1. PICK k \in Int : k = MaxClip[c] - s.weapon[w].clip
    BY <1>5
  <2>2. Min({k, rounds}) = IF k <= rounds THEN k ELSE rounds
    BY MinOfTwo
  <2>3. PICK j \in Int : j = Min({k, rounds})
    BY <2>2
  <2>4. Load(s, w) = j \/ Load(s, w) = j - 1
    <3>1. Rounds(s, w) = rounds
      BY <1>1, <1>2, <1>3, <1>4 DEF Rounds
    <3>2. Min({MaxClip[s.weapon[w].class] - s.weapon[w].clip, Rounds(s, w)}) = j
      BY <1>2, <2>1, <2>3, <3>1
    <3> QED BY <3>2, Zenon DEF Load
  <2> QED BY <2>4
<1>7. PICK it : it = Loaded(s.weapon[w], load)
  OBVIOUS
<1>8. it \in WeaponType /\ Alike(s.weapon[w], it)
  <2>1. PICK clip \in Int : clip = s.weapon[w].clip + load
    BY <1>5
  <2>2. PICK stale \in BOOLEAN : stale = (s.weapon[w].stale /\ s.weapon[w].clip + load < 0)
    OBVIOUS
  <2>3. it = [s.weapon[w] EXCEPT !.clip = clip, !.pending = FALSE, !.stale = stale]
    BY <1>7, <2>1, <2>2 DEF Loaded
  <2> QED BY <1>1, <2>3, NoneAssumption DEF WeaponType, Alike
<1>9. PICK k : k = [s EXCEPT !.weapon[w] = it]
  OBVIOUS
<1>10. Settled(s, k) /\ k.player = s.player /\ k \in States
  <2>1. Settled(s, k) /\ k.player = s.player
    BY <1>1, <1>8, <1>9, SetAlike
  <2> QED BY <2>1 DEF Settled
<1>11. PICK left \in Int : left = rounds - load
  OBVIOUS
<1>12. PICK u : u = [k EXCEPT !.player[p].pool[a] = left]
  OBVIOUS
<1>13. PoolOnly(s, u, p, a)
  <2>1. PoolOnly(k, u, p, a)
    BY <1>10, <1>12, SetPool
  <2> QED BY <1>10, <2>1, PoolOnlyAfter
<1>14. ReloadSetAmmos(s, w) = s \/ ReloadSetAmmos(s, w) = u
  <2>1. ReloadSetAmmos(s, w) = s
        \/ ReloadSetAmmos(s, w) =
             [s EXCEPT !.weapon[w] = it, !.player[p].pool[a] = rounds - load]
    BY <1>1, <1>2, <1>3, <1>4, <1>6, <1>7 DEF ReloadSetAmmos
  <2>2. [s EXCEPT !.weapon[w] = it, !.player[p].pool[a] = rounds - load] = u
    BY <1>9, <1>11, <1>12
  <2> QED BY <2>1, <2>2
<1> QED
  <2>1. PoolOnly(s, s, p, a)
    BY <1>1, SettledSame DEF PoolOnly
  <2> QED BY <1>2, <1>3, <1>13, <1>14, <2>1

(***************************************************************************)
(* The invariant is one                                                    *)
(***************************************************************************)

LEMMA NowIs ==
  now.weapon = weapon /\ now.player = player
BY DEF now

LEMMA BecomeIs ==
  ASSUME NEW s \in States, Become(s)
  PROVE  now' = s
BY DEF Become, States, now

\* A sound state the operators have made, with the box as it is then.
LEMMA BecomeInv ==
  ASSUME NEW s, NEW X, Sound(s, X), ArmedIn(s), Become(s), Boxed' = X,
         box' = None \/ box' \in BoxType
  PROVE  Inv'
<1>1. s \in States
  BY DEF Sound
<1>2. now' = s
  BY <1>1, BecomeIs
<1>3. Sound(now', Boxed') /\ ArmedIn(now')
  BY <1>2
<1> QED BY <1>3 DEF Inv

LEMMA BoxedFacts ==
  ASSUME Inv
  PROVE  /\ Sound(now, Boxed) /\ ArmedIn(now) /\ now \in States
         /\ Boxed \subseteq Weapon
         /\ box # None => box.weapon \in Weapon \cup {None} /\ box.rounds \in Int
<1>1. Sound(now, Boxed) /\ ArmedIn(now) /\ (box = None \/ box \in BoxType)
  BY DEF Inv
<1>2. now \in States /\ Boxed \subseteq Weapon
  BY <1>1 DEF Sound
<1>3. box # None => box.weapon \in Weapon \cup {None} /\ box.rounds \in Int
  BY <1>1 DEF BoxType
<1> QED BY <1>1, <1>2, <1>3

LEMMA InitInv == Init => Inv
<1> SUFFICES ASSUME Init PROVE Inv
  OBVIOUS
<1>1. NoRounds \in [Ammo -> Int] /\ \A a \in Ammo : NoRounds[a] = 0
  BY DEF NoRounds
<1>2. weapon \in [Weapon -> WeaponType \cup {None}] /\ \A w \in Weapon : weapon[w] = None
  BY DEF Init
<1>3. \A p \in Player :
        [items |-> {}, active |-> None, last |-> None, pool |-> NoRounds, dead |-> FALSE] \in PlayerType
  BY <1>1 DEF PlayerType
<1>4. player \in [Player -> PlayerType]
  BY <1>3 DEF Init
<1>5. \A p \in Player : /\ player[p].items = {} /\ player[p].active = None
                        /\ player[p].last = None /\ player[p].pool = NoRounds
  BY DEF Init
<1>6. now \in States /\ now.weapon = weapon /\ now.player = player
  BY <1>2, <1>4, StateRecord DEF now
<1>7. box = None /\ Boxed = {}
  BY DEF Init, Boxed
<1>8. \A w \in Weapon : Placed(now, {}, w)
  BY <1>2, <1>6 DEF Placed
<1>9. \A p \in Player : Own(now, {}, p) /\ OneOfAClass(now, p) /\ InList(now, p)
  BY <1>5, <1>6 DEF Own, OneOfAClass, InList
<1>10. ArmedIn(now)
  <2>1. \A c \in Exhaustible : AmmoOf[c] \in Ammo
    BY Constants
  <2> QED BY <1>1, <1>5, <1>6, <2>1 DEF ArmedIn
<1> QED BY <1>6, <1>7, <1>8, <1>9, <1>10 DEF Inv, Sound

(* Switching, shooting, reloading: no weapon moves. *)

LEMMA SettledStep ==
  ASSUME Inv, NEW s, Sound(s, Boxed), ArmedIn(s), Become(s), UNCHANGED box
  PROVE  Inv'
<1>1. box = None \/ box \in BoxType
  BY DEF Inv
<1>2. Boxed' = Boxed
  BY DEF Boxed
<1> QED BY <1>1, <1>2, BecomeInv

\* What the weapon in hand is when its frame comes.
LEMMA ReadyIs ==
  ASSUME Inv, NEW p \in Player, player[p].active # None
  PROVE  LET s == Ready(p)
             w == player[p].active
         IN /\ Sound(s, Boxed) /\ ArmedIn(s) /\ PoolOnly(now, s, p, AmmoOf[weapon[w].class])
            /\ w \in Weapon /\ w \in s.player[p].items /\ s.weapon[w] # None
            /\ s.weapon[w].class = weapon[w].class /\ weapon[w].class \in Class
<1>1. PICK w : w = player[p].active
  OBVIOUS
<1>2. Sound(now, Boxed) /\ ArmedIn(now) /\ now \in States
  BY BoxedFacts
<1>3. w \in now.player[p].items /\ w \in Weapon /\ now.weapon[w] # None
  BY <1>1, <1>2, InHandListed, NowIs, Listed
<1>4. PICK c \in Class : c = now.weapon[w].class
  BY <1>2, <1>3, WeaponFields
<1>5. PICK s : s = Ready(p)
  OBVIOUS
<1>6. s = ReloadSetAmmos(now, w)
  BY <1>1, <1>5 DEF Ready
<1>7. PoolOnly(now, s, p, AmmoOf[c])
  BY <1>2, <1>3, <1>4, <1>6, ReloadSetAmmosIs
<1>8. \A d \in Exhaustible : AmmoOf[d] = AmmoOf[c] => Has(now, p, d)
  BY <1>2, <1>3, <1>4, HasOfKind
<1>9. Sound(s, Boxed) /\ ArmedIn(s)
  BY <1>2, <1>7, <1>8, PoolOnlySound
<1>10. w \in s.player[p].items /\ Alike(now.weapon[w], s.weapon[w])
  BY <1>3, <1>7 DEF PoolOnly, Settled
<1>11. s.weapon[w] # None /\ s.weapon[w].class = c
  BY <1>3, <1>4, <1>10 DEF Alike
<1> QED BY <1>1, <1>3, <1>4, <1>5, <1>7, <1>9, <1>10, <1>11, NowIs

LEMMA SamePlayers ==
  ASSUME NEW s, NEW X, Sound(s, X), ArmedIn(s), NEW t, Settled(s, t), t.player = s.player
  PROVE  Sound(t, X) /\ ArmedIn(t)
<1>1. ASSUME NEW q \in Player PROVE InList(t, q)
  <2>1. InList(s, q)
    BY DEF Sound
  <2> QED BY <2>1 DEF InList
<1>2. Sound(t, X)
  BY <1>1, SettledSound
<1>3. ArmedIn(t)
  BY SettledArmed
<1> QED BY <1>2, <1>3

LEMMA SetPending ==
  ASSUME NEW s \in States, NEW w \in Weapon, s.weapon[w] # None, NEW b \in BOOLEAN
  PROVE  LET t == [s EXCEPT !.weapon[w].pending = b] IN Settled(s, t) /\ t.player = s.player
<1>1. s.weapon[w] \in WeaponType
  BY WeaponFields
<1>2. PICK it : it = [s.weapon[w] EXCEPT !.pending = b]
  OBVIOUS
<1>3. it \in WeaponType /\ Alike(s.weapon[w], it)
  BY <1>1, <1>2, NoneAssumption DEF WeaponType, Alike
<1>4. [s EXCEPT !.weapon[w].pending = b] = [s EXCEPT !.weapon[w] = it]
  BY <1>2
<1> QED BY <1>3, <1>4, SetAlike

\* A weapon that is not on its way out thinks of something else.
LEMMA SetThink ==
  ASSUME NEW s \in States, NEW w \in Weapon, s.weapon[w] # None, s.weapon[w].think # "remove",
         NEW think \in {"none", "retire"}
  PROVE  LET t == [s EXCEPT !.weapon[w].think = think] IN Settled(s, t) /\ t.player = s.player
<1>1. s.weapon[w] \in WeaponType
  BY WeaponFields
<1>2. PICK it : it = [s.weapon[w] EXCEPT !.think = think]
  OBVIOUS
<1>3. it \in WeaponType /\ Alike(s.weapon[w], it)
  BY <1>1, <1>2, NoneAssumption DEF WeaponType, Alike
<1>4. [s EXCEPT !.weapon[w].think = think] = [s EXCEPT !.weapon[w] = it]
  BY <1>2
<1> QED BY <1>3, <1>4, SetAlike

LEMMA PrimaryAttackInv ==
  ASSUME Inv, NEW p \in Player, PrimaryAttack(p)
  PROVE  Inv'
<1>1. PICK w : w = player[p].active
  OBVIOUS
<1>2. PICK s : s = Ready(p)
  OBVIOUS
<1>3. PICK a : a = AmmoOf[weapon[w].class]
  OBVIOUS
<1>4. w # None /\ UNCHANGED box
  BY <1>1 DEF PrimaryAttack, InHand
<1>5. /\ Sound(s, Boxed) /\ ArmedIn(s) /\ w \in Weapon /\ w \in s.player[p].items
      /\ s.weapon[w] # None /\ s.weapon[w].class = weapon[w].class /\ weapon[w].class \in Class
  BY <1>1, <1>2, <1>4, ReadyIs
<1>6. s \in States /\ s.weapon[w].owner = p
  BY <1>5, Listed DEF Sound
<1>7. \/ Become([s EXCEPT !.weapon[w].clip = @ - 1])
      \/ Become([s EXCEPT !.weapon[w].pending = TRUE, !.player[p].pool[a] = @ - 1])
  BY <1>1, <1>2, <1>3, Zenon DEF PrimaryAttack
<1>8. CASE Become([s EXCEPT !.weapon[w].clip = @ - 1])
  <2>1. PICK n \in Int : n = s.weapon[w].clip - 1
    BY <1>5, <1>6, WeaponFields
  <2>2. PICK t : t = [s EXCEPT !.weapon[w].clip = n]
    OBVIOUS
  <2>3. Settled(s, t) /\ t.player = s.player
    BY <1>5, <1>6, <2>2, SetClip
  <2>4. Sound(t, Boxed) /\ ArmedIn(t)
    BY <1>5, <2>3, SamePlayers
  <2>5. Become(t)
    BY <1>8, <2>1, <2>2
  <2> QED BY <1>4, <2>4, <2>5, SettledStep
<1>9. CASE Become([s EXCEPT !.weapon[w].pending = TRUE, !.player[p].pool[a] = @ - 1])
  <2>1. PICK k : k = [s EXCEPT !.weapon[w].pending = TRUE]
    OBVIOUS
  <2>2. Settled(s, k) /\ k.player = s.player
    BY <1>5, <1>6, <2>1, SetPending
  <2>3. k \in States
    BY <2>2 DEF Settled
  <2>4. a \in Ammo
    BY <1>3, <1>5, Constants
  <2>5. PICK n \in Int : n = s.player[p].pool[a] - 1
    BY <1>6, <2>4, PlayerFields
  <2>6. PICK t : t = [k EXCEPT !.player[p].pool[a] = n]
    OBVIOUS
  <2>7. PoolOnly(s, t, p, a)
    <3>1. PoolOnly(k, t, p, a)
      BY <2>3, <2>4, <2>6, SetPool
    <3> QED BY <2>2, <3>1, PoolOnlyAfter
  <2>8. \A d \in Exhaustible : AmmoOf[d] = a => Has(s, p, d)
    BY <1>3, <1>5, <1>6, HasOfKind
  <2>9. Sound(t, Boxed) /\ ArmedIn(t)
    BY <1>5, <2>7, <2>8, PoolOnlySound
  <2>10. Become(t)
    BY <1>9, <2>1, <2>5, <2>6, Zenon
  <2> QED BY <1>4, <2>9, <2>10, SettledStep
<1> QED BY <1>7, <1>8, <1>9

LEMMA ReloadInv ==
  ASSUME Inv, NEW p \in Player, Reload(p)
  PROVE  Inv'
<1>1. PICK w : w = player[p].active
  OBVIOUS
<1>2. PICK s : s = Ready(p)
  OBVIOUS
<1>3. w # None /\ UNCHANGED box
  BY <1>1 DEF Reload, InHand
<1>4. Sound(s, Boxed) /\ ArmedIn(s) /\ w \in Weapon /\ s.weapon[w] # None
  BY <1>1, <1>2, <1>3, ReadyIs
<1>5. PICK t : t = [s EXCEPT !.weapon[w].pending = TRUE]
  OBVIOUS
<1>6. Become(s) \/ Become(t)
  BY <1>1, <1>2, <1>5, Zenon DEF Reload
<1>7. Settled(s, t) /\ t.player = s.player
  <2>1. s \in States
    BY <1>4 DEF Sound
  <2> QED BY <1>4, <1>5, <2>1, SetPending
<1>8. Sound(t, Boxed) /\ ArmedIn(t)
  BY <1>4, <1>7, SamePlayers
<1> QED BY <1>3, <1>4, <1>6, <1>8, SettledStep

LEMMA DiscardInv ==
  ASSUME Inv, NEW p \in Player, Discard(p)
  PROVE  Inv'
<1>1. PICK s : s = Ready(p)
  OBVIOUS
<1>2. player[p].active # None /\ UNCHANGED box
  BY DEF Discard, InHand
<1>3. Sound(s, Boxed) /\ ArmedIn(s)
  BY <1>1, <1>2, ReadyIs
<1>4. PICK to \in NextBest(s, p, player[p].active) : Become(SwitchWeapon(s, p, to))
  BY <1>1 DEF Discard
<1>5. to \in s.player[p].items \cup {None}
  BY <1>4, NextBestListed
<1>6. Sound(SwitchWeapon(s, p, to), Boxed) /\ ArmedIn(SwitchWeapon(s, p, to))
  BY <1>3, <1>5, SwitchSound
<1> QED BY <1>2, <1>4, <1>6, SettledStep

LEMMA WeaponIdleInv ==
  ASSUME Inv, NEW p \in Player, WeaponIdle(p)
  PROVE  Inv'
<1>1. PICK w : w = player[p].active
  OBVIOUS
<1>2. PICK s : s = Ready(p)
  OBVIOUS
<1>3. w # None /\ UNCHANGED box
  BY <1>1 DEF WeaponIdle, InHand
<1>4. Sound(s, Boxed) /\ ArmedIn(s) /\ w \in Weapon /\ w \in s.player[p].items /\ s.weapon[w] # None
  BY <1>1, <1>2, <1>3, ReadyIs
<1>5. s \in States /\ s.weapon[w].think \in {"none", "retire"}
  <2>1. s \in States
    BY <1>4 DEF Sound
  <2> QED BY <1>4, <2>1, WeaponFields, Listed
<1>6. PICK think \in {"none", "retire"} :
        think = IF Rounds(now, w) = 0 THEN "retire" ELSE s.weapon[w].think
  BY <1>5
<1>7. PICK k : k = [s EXCEPT !.weapon[w].pending = FALSE]
  OBVIOUS
<1>8. Settled(s, k) /\ k.player = s.player
  BY <1>4, <1>5, <1>7, SetPending
<1>9. k \in States /\ k.weapon[w] # None /\ k.weapon[w].think # "remove"
  BY <1>4, <1>5, <1>8 DEF Settled, Alike
<1>10. PICK t : t = [k EXCEPT !.weapon[w].think = think]
  OBVIOUS
<1>11. Settled(k, t) /\ t.player = k.player
  BY <1>4, <1>9, <1>10, SetThink
<1>12. Settled(s, t) /\ t.player = s.player
  BY <1>8, <1>11, SettledTrans
<1>13. Sound(t, Boxed) /\ ArmedIn(t)
  BY <1>4, <1>12, SamePlayers
<1>14. Become(s) \/ Become(t)
  <2>1. Become(s) \/ Become([s EXCEPT !.weapon[w].pending = FALSE,
                      !.weapon[w].think = IF Rounds(now, w) = 0 THEN "retire" ELSE @])
    BY <1>1, <1>2, Zenon DEF WeaponIdle
  <2>2. [s EXCEPT !.weapon[w].pending = FALSE,
                  !.weapon[w].think = IF Rounds(now, w) = 0 THEN "retire" ELSE @] = t
    BY <1>6, <1>7, <1>10
  <2> QED BY <2>1, <2>2
<1> QED BY <1>3, <1>4, <1>13, <1>14, SettledStep

LEMMA DoRetireWeaponInv ==
  ASSUME Inv, NEW w \in Weapon, DoRetireWeapon(w)
  PROVE  Inv'
<1>1. PICK p : p = weapon[w].owner
  OBVIOUS
<1>2. PICK s : s = [now EXCEPT !.weapon[w].think = "none"]
  OBVIOUS
<1>3. Sound(now, Boxed) /\ ArmedIn(now) /\ now \in States
  BY BoxedFacts
<1>4. /\ now.weapon[w] # None /\ now.weapon[w].think # "remove" /\ p \in Player \cup {None}
      /\ UNCHANGED box
  <2>1. weapon[w] # None /\ weapon[w].think = "retire" /\ UNCHANGED box
    BY DEF DoRetireWeapon
  <2> QED BY <1>1, <1>3, <2>1, NowIs, WeaponFields
<1>5. Settled(now, s) /\ s.player = now.player
  BY <1>2, <1>3, <1>4, SetThink
<1>6. Sound(s, Boxed) /\ ArmedIn(s)
  BY <1>3, <1>5, SamePlayers
<1>7. \/ Become(s)
      \/ p \in Player /\ (\/ Become(SwitchWeapon(s, p, None))
                          \/ \E to \in NextBest(s, p, w) : Become(SwitchWeapon(s, p, to)))
  BY <1>1, <1>2, <1>4 DEF DoRetireWeapon
<1>8. CASE Become(s)
  BY <1>4, <1>6, <1>8, SettledStep
<1>9. ASSUME p \in Player, NEW to \in s.player[p].items \cup {None}, Become(SwitchWeapon(s, p, to))
      PROVE  Inv'
  <2>1. Sound(SwitchWeapon(s, p, to), Boxed) /\ ArmedIn(SwitchWeapon(s, p, to))
    BY <1>6, <1>9, SwitchSound
  <2> QED BY <1>4, <1>9, <2>1, SettledStep
<1> QED BY <1>7, <1>8, <1>9, NextBestListed

\* Another last weapon.
LEMMA SetLast ==
  ASSUME NEW s, NEW X, Sound(s, X), ArmedIn(s), NEW p \in Player,
         NEW last \in s.player[p].items \cup {None}
  PROVE  LET t == [s EXCEPT !.player[p].last = last] IN Sound(t, X) /\ ArmedIn(t)
<1>1. s \in States /\ s.player[p] \in PlayerType /\ last \in Weapon \cup {None}
  <2>1. s \in States
    BY DEF Sound
  <2> QED BY <2>1, PlayerFields
<1>2. PICK pl : pl = [s.player[p] EXCEPT !.last = last]
  OBVIOUS
<1>3. /\ pl \in PlayerType /\ pl.items = s.player[p].items /\ pl.last = last
      /\ pl.active = s.player[p].active /\ pl.pool = s.player[p].pool
  BY <1>1, <1>2 DEF PlayerType
<1>4. PICK t : t = [s EXCEPT !.player[p] = pl]
  OBVIOUS
<1>5. /\ Settled(s, t)
      /\ \A q \in Player : t.player[q] = IF q = p THEN pl ELSE s.player[q]
  BY <1>1, <1>3, <1>4, SetSettled
<1>6. ASSUME NEW q \in Player PROVE InList(t, q)
  <2>1. InList(s, q)
    BY DEF Sound
  <2> QED BY <1>3, <1>5, <2>1 DEF InList
<1>7. Sound(t, X)
  BY <1>5, <1>6, SettledSound
<1>8. \A q \in Player : t.player[q].pool = s.player[q].pool
  BY <1>3, <1>5
<1>9. ArmedIn(t)
  BY <1>5, <1>8, SettledArmed
<1>10. t = [s EXCEPT !.player[p].last = last]
  BY <1>2, <1>4
<1> QED BY <1>7, <1>9, <1>10

LEMMA SelectInv ==
  ASSUME Inv, NEW p \in Player, NEW w \in player[p].items \cup {None},
         Become([Wield(now, p, w) EXCEPT !.player[p].last = player[p].active]), UNCHANGED box
  PROVE  Inv'
<1>1. Sound(now, Boxed) /\ ArmedIn(now) /\ w \in now.player[p].items \cup {None}
  BY BoxedFacts, NowIs
<1>2. PICK s : s = Wield(now, p, w)
  OBVIOUS
<1>3. Sound(s, Boxed) /\ ArmedIn(s)
  BY <1>1, <1>2, WieldSound
<1>4. player[p].active \in s.player[p].items \cup {None}
  <2>1. w \in Weapon \cup {None}
    BY <1>1, Listed
  <2>2. Settled(now, s)
    BY <1>1, <1>2, <2>1, WieldSettled
  <2>3. now.player[p].active \in now.player[p].items \cup {None}
    BY <1>1, InHandListed
  <2> QED BY <2>2, <2>3, NowIs DEF Settled
<1>5. PICK t : t = [s EXCEPT !.player[p].last = player[p].active]
  OBVIOUS
<1>6. Sound(t, Boxed) /\ ArmedIn(t)
  BY <1>3, <1>4, <1>5, SetLast
<1>7. Become(t)
  BY <1>2, <1>5
<1> QED BY <1>6, <1>7, SettledStep

LEMMA SelectItemInv ==
  ASSUME Inv, NEW p \in Player, NEW w, SelectItem(p, w)
  PROVE  Inv'
BY SelectInv DEF SelectItem

LEMMA SelectLastItemInv ==
  ASSUME Inv, NEW p \in Player, SelectLastItem(p)
  PROVE  Inv'
<1>1. player[p].last \in player[p].items \cup {None}
  BY BoxedFacts, InHandListed, NowIs
<1> QED BY <1>1, SelectInv DEF SelectLastItem

LEMMA KilledInv ==
  ASSUME Inv, NEW p \in Player, Killed(p)
  PROVE  Inv'
<1>1. Sound(now, Boxed) /\ ArmedIn(now)
  BY BoxedFacts
<1>2. PICK h : h = Holster(now, player[p].active)
  OBVIOUS
<1>3. Settled(now, h) /\ h.player = now.player
  BY <1>1, <1>2, InHandListed, HolsterSettled, NowIs
<1>4. Sound(h, Boxed) /\ ArmedIn(h)
  BY <1>1, <1>3, SamePlayers
<1>5. h \in States /\ h.player[p] \in PlayerType
  <2>1. h \in States
    BY <1>4 DEF Sound
  <2> QED BY <2>1, PlayerFields
<1>6. PICK pl : pl = [h.player[p] EXCEPT !.dead = TRUE]
  OBVIOUS
<1>7. /\ pl \in PlayerType /\ pl.items = h.player[p].items /\ pl.last = h.player[p].last
      /\ pl.active = h.player[p].active /\ pl.pool = h.player[p].pool
  BY <1>5, <1>6 DEF PlayerType
<1>8. PICK t : t = [h EXCEPT !.player[p] = pl]
  OBVIOUS
<1>9. /\ Settled(h, t)
      /\ \A q \in Player : t.player[q] = IF q = p THEN pl ELSE h.player[q]
  BY <1>5, <1>7, <1>8, SetSettled
<1>10. ASSUME NEW q \in Player PROVE InList(t, q)
  <2>1. InList(h, q)
    BY <1>4 DEF Sound
  <2> QED BY <1>7, <1>9, <2>1 DEF InList
<1>11. Sound(t, Boxed)
  BY <1>4, <1>9, <1>10, SettledSound
<1>12. \A q \in Player : t.player[q].pool = h.player[q].pool
  BY <1>7, <1>9
<1>13. ArmedIn(t)
  BY <1>4, <1>9, <1>12, SettledArmed
<1>14. Become(t) /\ UNCHANGED box
  BY <1>2, <1>6, <1>8 DEF Killed
<1> QED BY <1>11, <1>13, <1>14, SettledStep

LEMMA TakeAmmoInv ==
  ASSUME Inv, NEW p \in Player, NEW a \in Ammo, TakeAmmo(p, a)
  PROVE  Inv'
<1>1. Sound(now, Boxed) /\ ArmedIn(now)
  BY BoxedFacts
<1>2. Become(GiveAmmo(now, p, 1, a, None)) /\ UNCHANGED box /\ \A c \in Exhaustible : AmmoOf[c] # a
  BY DEF TakeAmmo
<1>3. Sound(GiveAmmo(now, p, 1, a, None), Boxed) /\ ArmedIn(GiveAmmo(now, p, 1, a, None))
  BY <1>1, <1>2, GiveAmmoSound
<1> QED BY <1>2, <1>3, SettledStep

LEMMA ArmedButAll ==
  ASSUME NEW s, ArmedIn(s), NEW p, NEW d
  PROVE  ArmedBut(s, p, d)
BY DEF ArmedIn, ArmedBut

LEMMA StripInv ==
  ASSUME Inv, NEW p \in Player, Strip(p)
  PROVE  Inv'
<1>1. Sound(now, Boxed) /\ ArmedIn(now)
  BY BoxedFacts
<1>2. Sound(RemoveAllItems(now, p), Boxed) /\ ArmedIn(RemoveAllItems(now, p))
  BY <1>1, RemoveAllSound, ArmedButAll
<1> QED BY <1>2, SettledStep DEF Strip

(* Weapons that come and go. *)

\* Another entry for an entity that is in the world, or in the box, or nowhere.
LEMMA EntityStep ==
  ASSUME Inv, NEW w \in Weapon, \A q \in Player : w \notin player[q].items,
         NEW it \in WeaponType \cup {None},
         it # None => ~(it.touch /\ it.think = "remove") /\ (it.touch \/ it.think = "remove"),
         weapon' = [weapon EXCEPT ![w] = it], player' = player,
         Boxed' = Boxed \ {w}, box' = None \/ box' = box
  PROVE  Inv'
<1>1. /\ Sound(now, Boxed) /\ ArmedIn(now) /\ now \in States
      /\ now.weapon = weapon /\ now.player = player
  BY BoxedFacts, NowIs
<1>2. weapon \in [Weapon -> WeaponType \cup {None}] /\ player \in [Player -> PlayerType]
  BY <1>1 DEF States
<1>3. /\ weapon' \in [Weapon -> WeaponType \cup {None}]
      /\ \A v \in Weapon : weapon'[v] = IF v = w THEN it ELSE weapon[v]
  BY <1>2
<1>4. PICK t : t = [weapon |-> weapon', player |-> player]
  OBVIOUS
<1>5. t \in States /\ t.weapon = weapon' /\ t.player = player
  BY <1>2, <1>3, <1>4, StateRecord
<1>6. Placed(t, Boxed \ {w}, w)
  BY <1>3, <1>5 DEF Placed
<1>7. Sound(t, Boxed \ {w}) /\ ArmedIn(t)
  <2>1. t.player = now.player /\ \A q \in Player : w \notin now.player[q].items
    BY <1>1, <1>5
  <2>2. \A v \in Weapon : v # w => t.weapon[v] = now.weapon[v]
    BY <1>1, <1>3, <1>5
  <2>3. t \in States
    BY <1>5
  <2> QED BY <1>1, <1>6, <2>1, <2>2, <2>3, EntitySound
<1>8. Become(t)
  BY <1>5 DEF Become
<1>9. box' = None \/ box' \in BoxType
  BY DEF Inv
<1> QED BY <1>7, <1>8, <1>9, BecomeInv

LEMMA RemovedInv ==
  ASSUME Inv, NEW w \in Weapon, Removed(w)
  PROVE  Inv'
<1>1. Sound(now, Boxed) /\ now.weapon = weapon /\ now.player = player
  BY BoxedFacts, NowIs
<1>2. \A q \in Player : w \notin player[q].items
  BY <1>1, Listed DEF Removed
<1>3. w \notin Boxed
  <2>1. \A v \in Boxed : Kept(weapon[v])
    BY <1>1 DEF Sound
  <2> QED BY <2>1 DEF Removed, Kept
<1>4. Boxed' = Boxed \ {w}
  BY <1>3 DEF Removed, Boxed
<1> QED BY <1>2, <1>4, EntityStep DEF Removed

LEMMA FreshIs ==
  ASSUME NEW c \in Class
  PROVE  /\ Fresh(c) \in WeaponType /\ Fresh(c).touch /\ Fresh(c).think = "none"
         /\ Fresh(c).class = c /\ Fresh(c) # None
<1>1. DefaultAmmo[c] \in Nat
  BY Constants
<1>2. Fresh(c) \in WeaponType /\ Fresh(c).touch /\ Fresh(c).think = "none" /\ Fresh(c).class = c
  BY <1>1 DEF Fresh, WeaponType
<1> QED BY <1>2, NoneAssumption

\* An entity that is not there is nobody's.
LEMMA FreeFacts ==
  ASSUME Inv, NEW w \in Weapon, weapon[w] = None
  PROVE  w \notin Boxed /\ \A q \in Player : w \notin player[q].items
<1>1. Sound(now, Boxed) /\ now.weapon = weapon /\ now.player = player
  BY BoxedFacts, NowIs
<1>2. \A v \in Boxed : Kept(weapon[v])
  BY <1>1 DEF Sound
<1> QED BY <1>1, <1>2, Listed DEF Kept

LEMMA SpawnInv ==
  ASSUME Inv, NEW w \in Weapon, NEW c \in Class, Spawn(w, c)
  PROVE  Inv'
<1>1. weapon[w] = None
  BY DEF Spawn, Free
<1>2. w \notin Boxed /\ \A q \in Player : w \notin player[q].items
  BY <1>1, FreeFacts
<1>3. Boxed' = Boxed \ {w}
  BY <1>2 DEF Spawn, Boxed
<1>4. PICK it \in WeaponType : it = Fresh(c)
  BY FreshIs
<1>5. it.touch /\ it.think = "none"
  BY <1>4, FreshIs
<1> QED BY <1>2, <1>3, <1>4, <1>5, EntityStep DEF Spawn

LEMMA KillBoxInv ==
  ASSUME Inv, KillBox
  PROVE  Inv'
<1>1. Sound(now, Boxed) /\ ArmedIn(now) /\ now.weapon = weapon /\ now.player = player /\ now \in States
      /\ box.weapon \in Weapon \cup {None} /\ box # None
  BY BoxedFacts, NowIs DEF KillBox
<1>2. box' = None /\ Boxed' = {} /\ UNCHANGED player
  BY DEF KillBox, Boxed
<1>3. CASE box.weapon = None
  <2>1. Boxed = {}
    BY <1>3 DEF Boxed
  <2>2. Become(now)
    BY <1>1, <1>2, <1>3 DEF KillBox, Become
  <2> QED BY <1>1, <1>2, <2>1, <2>2, BecomeInv
<1>4. CASE box.weapon # None
  <2>1. PICK w \in Weapon : w = box.weapon
    BY <1>1, <1>4
  <2>2. Boxed = {w}
    BY <1>1, <1>4, <2>1 DEF Boxed
  <2>3. Kept(weapon[w]) /\ \A q \in Player : w \notin player[q].items
    <3>1. Kept(weapon[w])
      BY <1>1, <2>2 DEF Sound
    <3> QED BY <1>1, <2>2, <3>1, Listed
  <2>4. weapon[w] \in WeaponType
    BY <1>1, <2>3, WeaponFields DEF Kept
  <2>5. PICK it : it = [weapon[w] EXCEPT !.think = "remove"]
    OBVIOUS
  <2>6. it \in WeaponType /\ ~it.touch /\ it.think = "remove"
    BY <2>3, <2>4, <2>5 DEF WeaponType, Kept
  <2>7. weapon' = [weapon EXCEPT ![w] = it]
    BY <1>4, <2>1, <2>5 DEF KillBox
  <2> QED BY <1>2, <2>2, <2>3, <2>6, <2>7, EntityStep
<1> QED BY <1>3, <1>4

(* Weapons that change hands. *)

LEMMA DefaultTouchInv ==
  ASSUME Inv, NEW p \in Player, NEW w \in Weapon, DefaultTouch(p, w)
  PROVE  Inv'
<1>1. Sound(now, Boxed) /\ ArmedIn(now) /\ now.weapon = weapon
  BY BoxedFacts, NowIs
<1>2. PICK new, auto : Become(AddPlayerItem(now, p, w, auto, new))
  BY DEF DefaultTouch
<1>3. weapon[w] # None /\ weapon[w].touch /\ UNCHANGED box
  BY DEF DefaultTouch
<1>4. PICK s : s = AddPlayerItem(now, p, w, auto, new)
  OBVIOUS
<1>5. Sound(s, Boxed \ {w}) /\ ArmedIn(s)
  BY <1>1, <1>3, <1>4, AddPlayerItemSound
<1>6. Boxed \ {w} = Boxed
  <2>1. \A v \in Boxed : Kept(weapon[v])
    BY <1>1 DEF Sound
  <2> QED BY <1>3, <2>1 DEF Kept
<1> QED BY <1>2, <1>3, <1>4, <1>5, <1>6, SettledStep

\* What a spawning player starts from: a new weapon lies there, k, and his pools are empty, r.
LEMMA RespawnIs ==
  ASSUME Inv, NEW p \in Player, NEW w \in Weapon, Respawn(p, w)
  PROVE  \E k \in States, r \in States :
           /\ k.player = now.player /\ k.weapon[w] = Fresh(Equipment)
           /\ \A v \in Weapon : v # w => k.weapon[v] = now.weapon[v]
           /\ r.weapon = k.weapon /\ \A q \in Player : q # p => r.player[q] = k.player[q]
           /\ \A a \in Ammo : r.player[p].pool[a] = 0
           /\ Sound(r, Boxed) /\ ArmedIn(r) /\ Become(AddPlayerItem(r, p, w, TRUE, None))
<1>1. Sound(now, Boxed) /\ ArmedIn(now) /\ now.weapon = weapon /\ now.player = player
      /\ now \in States
  BY BoxedFacts, NowIs
<1>2. weapon[w] = None /\ player[p].items = {} /\ UNCHANGED box
  BY DEF Respawn, Free
<1>3. w \notin Boxed /\ \A q \in Player : w \notin player[q].items
  BY <1>2, FreeFacts
<1>4. PICK it \in WeaponType : it = Fresh(Equipment)
  BY FreshIs, Constants
<1>5. it.touch /\ it.think = "none" /\ it # None
  BY <1>4, FreshIs, Constants
<1>6. PICK k : k = [now EXCEPT !.weapon[w] = it]
  OBVIOUS
<1>7. /\ k \in States /\ k.player = player
      /\ \A v \in Weapon : k.weapon[v] = IF v = w THEN it ELSE weapon[v]
  BY <1>1, <1>6 DEF States
<1>8. Sound(k, Boxed \ {w}) /\ ArmedIn(k)
  <2>1. Placed(k, Boxed \ {w}, w)
    BY <1>5, <1>7 DEF Placed
  <2>2. k.player = now.player /\ \A q \in Player : w \notin now.player[q].items
    BY <1>1, <1>3, <1>7
  <2>3. \A v \in Weapon : v # w => k.weapon[v] = now.weapon[v]
    BY <1>1, <1>7
  <2>4. k \in States
    BY <1>7
  <2> QED BY <1>1, <2>1, <2>2, <2>3, <2>4, EntitySound
<1>9. Boxed \ {w} = Boxed
  BY <1>3
<1>10. PICK own : own = k.player[p]
  OBVIOUS
<1>11. PICK pl : pl = [own EXCEPT !.dead = FALSE, !.last = None, !.pool = NoRounds]
  OBVIOUS
<1>12. /\ pl \in PlayerType /\ pl.items = own.items /\ pl.last = None
       /\ pl.active = own.active /\ \A a \in Ammo : pl.pool[a] = 0
  <2>1. own \in PlayerType
    BY <1>7, <1>10, PlayerFields
  <2>2. NoRounds \in [Ammo -> Int] /\ \A a \in Ammo : NoRounds[a] = 0
    BY DEF NoRounds
  <2> QED BY <1>11, <2>1, <2>2 DEF PlayerType
<1>13. PICK r : r = [k EXCEPT !.player[p] = pl]
  OBVIOUS
<1>14. /\ Settled(k, r) /\ r.weapon = k.weapon
       /\ \A q \in Player : r.player[q] = IF q = p THEN pl ELSE k.player[q]
  <2>1. k \in States /\ pl \in PlayerType /\ pl.items = k.player[p].items
    BY <1>7, <1>10, <1>12
  <2> QED BY <1>13, <2>1, SetSettled
<1>15. ASSUME NEW q \in Player PROVE InList(r, q)
  <2>1. InList(k, q)
    BY <1>8 DEF Sound
  <2> QED BY <1>10, <1>12, <1>14, <2>1 DEF InList
<1>16. Sound(r, Boxed)
  BY <1>8, <1>9, <1>14, <1>15, SettledSound
<1>17. ArmedIn(r)
  <2>1. ASSUME NEW q \in Player, NEW c \in Exhaustible, r.player[q].pool[AmmoOf[c]] > 0
        PROVE  k.player[q].pool[AmmoOf[c]] > 0
    <3>1. AmmoOf[c] \in Ammo
      BY Constants
    <3> QED BY <1>12, <1>14, <2>1, <3>1
  <2> QED BY <1>8, <1>14, <2>1, SettledArmed
<1>18. r.weapon[w] # None /\ r.weapon[w].touch
  BY <1>5, <1>7, <1>14
<1>19. Become(AddPlayerItem(r, p, w, TRUE, None))
  <2>1. [now EXCEPT !.weapon[w] = it, !.player[p] =
           [player[p] EXCEPT !.dead = FALSE, !.last = None, !.pool = NoRounds]] = r
    BY <1>1, <1>6, <1>7, <1>10, <1>11, <1>13
  <2> QED BY <1>1, <1>4, <2>1 DEF Respawn
<1>20. k \in States /\ r \in States
  BY <1>7, <1>14 DEF Settled
<1>21. /\ k.player = now.player /\ k.weapon[w] = Fresh(Equipment)
       /\ \A v \in Weapon : v # w => k.weapon[v] = now.weapon[v]
  BY <1>1, <1>4, <1>7
<1>22. /\ \A q \in Player : q # p => r.player[q] = k.player[q]
       /\ \A a \in Ammo : r.player[p].pool[a] = 0
  BY <1>12, <1>14
<1> QED BY <1>14, <1>16, <1>17, <1>19, <1>20, <1>21, <1>22

LEMMA RespawnInv ==
  ASSUME Inv, NEW p \in Player, NEW w \in Weapon, Respawn(p, w)
  PROVE  Inv'
<1>1. PICK k \in States, r \in States :
        /\ k.weapon[w] = Fresh(Equipment) /\ r.weapon = k.weapon
        /\ Sound(r, Boxed) /\ ArmedIn(r) /\ Become(AddPlayerItem(r, p, w, TRUE, None))
  BY RespawnIs
<1>2. weapon[w] = None /\ UNCHANGED box
  BY DEF Respawn, Free
<1>3. Boxed \ {w} = Boxed
  BY <1>2, FreeFacts
<1>4. r.weapon[w] # None /\ r.weapon[w].touch
  BY <1>1, FreshIs, Constants
<1>5. PICK s : s = AddPlayerItem(r, p, w, TRUE, None)
  OBVIOUS
<1>6. Sound(s, Boxed \ {w}) /\ ArmedIn(s)
  BY <1>1, <1>4, <1>5, AddPlayerItemSound
<1> QED BY <1>1, <1>2, <1>3, <1>5, <1>6, SettledStep

\* Who touches a box with a weapon is given its rounds, and then the weapon.
LEMMA TouchBoxIs ==
  ASSUME Inv, NEW p \in Player, TouchBox(p), box.weapon # None
  PROVE  \E w \in Weapon, new \in Weapon \cup {None}, auto \in BOOLEAN, given \in States :
           /\ w = box.weapon /\ now.weapon[w] # None /\ Boxed = {w}
           /\ new # None => now.weapon[new] = None
           /\ given = IF box.rounds = 0 THEN now
                      ELSE GiveAmmo(now, p, box.rounds, AmmoOf[now.weapon[w].class], new)
           /\ Sound(given, {w}) /\ ArmedIn(given) /\ given.weapon[w] # None
           /\ Become(AddPlayerItem(given, p, w, auto, None))
<1>1. /\ Sound(now, Boxed) /\ ArmedIn(now) /\ now \in States /\ now.weapon = weapon
      /\ box # None /\ box.weapon \in Weapon \cup {None} /\ box.rounds \in Int
  BY BoxedFacts, NowIs DEF TouchBox
<1>2. PICK w \in Weapon : w = box.weapon
  BY <1>1
<1>3. Boxed = {w}
  BY <1>1, <1>2 DEF Boxed
<1>4. weapon[w] # None
  BY <1>1, <1>3 DEF Sound, Kept
<1>5. PICK c \in Class : c = weapon[w].class
  BY <1>1, <1>4, WeaponFields
<1>6. PICK new \in New, auto \in BOOLEAN :
        /\ c \in Exhaustible => new # None
        /\ Become(AddPlayerItem(IF box.rounds = 0 THEN now
                                ELSE GiveAmmo(now, p, box.rounds, AmmoOf[c], new),
                                p, w, auto, None))
  BY <1>2, <1>5, Zenon DEF TouchBox
<1>7. PICK given : given = IF box.rounds = 0 THEN now
                           ELSE GiveAmmo(now, p, box.rounds, AmmoOf[c], new)
  OBVIOUS
<1>8. Become(AddPlayerItem(given, p, w, auto, None))
  BY <1>6, <1>7, Zenon
<1>9. new \in Weapon \cup {None} /\ (new # None => now.weapon[new] = None)
  BY <1>1, <1>6 DEF New, Free
<1>10. new # None \/ \A d \in Exhaustible : AmmoOf[d] # AmmoOf[c]
  BY <1>6, Constants
<1>11. AmmoOf[c] \in Ammo
  BY Constants
<1>12. /\ Sound(GiveAmmo(now, p, box.rounds, AmmoOf[c], new), {w})
       /\ ArmedIn(GiveAmmo(now, p, box.rounds, AmmoOf[c], new))
  BY <1>1, <1>3, <1>9, <1>10, <1>11, GiveAmmoSound
<1>13. Sound(given, {w}) /\ ArmedIn(given)
  BY <1>1, <1>3, <1>7, <1>12
<1>14. given \in States /\ given.weapon[w] # None
  BY <1>13 DEF Sound, Kept
<1>15. given = IF box.rounds = 0 THEN now
               ELSE GiveAmmo(now, p, box.rounds, AmmoOf[now.weapon[w].class], new)
  BY <1>1, <1>5, <1>7
<1> QED BY <1>1, <1>2, <1>3, <1>4, <1>6, <1>8, <1>9, <1>13, <1>14, <1>15

LEMMA TouchBoxInv ==
  ASSUME Inv, NEW p \in Player, TouchBox(p)
  PROVE  Inv'
<1>1. Sound(now, Boxed) /\ ArmedIn(now) /\ now.weapon = weapon /\ now.player = player
      /\ now \in States
  BY BoxedFacts, NowIs
<1>2. box' = None /\ Boxed' = {}
  BY DEF TouchBox, Boxed
<1>3. CASE box.weapon = None
  <2>1. Boxed = {}
    BY <1>3 DEF Boxed
  <2>2. Become(now)
    BY <1>1, <1>3 DEF TouchBox, Become
  <2> QED BY <1>1, <1>2, <2>1, <2>2, BecomeInv
<1>4. CASE box.weapon # None
  <2>1. PICK w \in Weapon, auto \in BOOLEAN, given \in States :
          /\ Sound(given, {w}) /\ ArmedIn(given) /\ given.weapon[w] # None
          /\ Become(AddPlayerItem(given, p, w, auto, None))
    BY <1>4, TouchBoxIs
  <2>2. PICK s : s = AddPlayerItem(given, p, w, auto, None)
    OBVIOUS
  <2>3. Sound(s, {w} \ {w}) /\ ArmedIn(s)
    BY <2>1, <2>2, AddPlayerItemSound
  <2>4. {w} \ {w} = {}
    OBVIOUS
  <2> QED BY <1>2, <2>1, <2>2, <2>3, <2>4, BecomeInv
<1> QED BY <1>3, <1>4

LEMMA BoxIs ==
  ASSUME NEW w \in Weapon \cup {None}, NEW n \in Int, NEW timed \in BOOLEAN,
         box' = [weapon |-> w, rounds |-> n, timed |-> timed]
  PROVE  box' \in BoxType /\ Boxed' = {w} \ {None}
<1>1. box' \in BoxType /\ box'.weapon = w
  BY DEF BoxType
<1>2. box' # None
  BY <1>1, NoneAssumption
<1> QED BY <1>1, <1>2 DEF Boxed

\* Who drops w switches, s, packs w, t, and is left with k rounds of the kind a, u, n being
\* in the box.
Dropped(p, w, to, s, t, u, c, a, k, n) ==
  /\ to \in NextBest(now, p, w) /\ s = SwitchWeapon(now, p, to)
  /\ Sound(s, {}) /\ ArmedIn(s) /\ w \in s.player[p].items
  /\ c \in Class /\ s.weapon[w].class = c /\ a \in Ammo /\ a = AmmoOf[c]
  /\ Packed(s, t, w, p) /\ Sound(t, {w}) /\ ArmedBut(t, p, c)
  /\ k \in Int /\ n \in Int
  /\ k = IF c \in Exhaustible THEN 0 ELSE s.player[p].pool[a] \div 2
  /\ n = IF c \in Exhaustible THEN s.player[p].pool[a] ELSE s.player[p].pool[a] \div 2
  /\ t \in States /\ u \in States /\ u = [t EXCEPT !.player[p].pool[a] = k]
  /\ Become(u) /\ box' = [weapon |-> w, rounds |-> n, timed |-> FALSE]

LEMMA DropIs ==
  ASSUME Inv, NEW p \in Player, NEW w \in Weapon, DropPlayerItem(p, w)
  PROVE  \E to, s, t, u, c, a, k, n : Dropped(p, w, to, s, t, u, c, a, k, n)
<1>1. /\ Sound(now, Boxed) /\ ArmedIn(now) /\ now.weapon = weapon /\ now.player = player
      /\ now \in States /\ None \notin Weapon
  BY BoxedFacts, NowIs, Constants
<1>2. box = None /\ Boxed = {} /\ w \in now.player[p].items
  BY <1>1 DEF DropPlayerItem, Boxed
<1>3. PICK to, switched, left :
        /\ to \in NextBest(now, p, w)
        /\ switched = SwitchWeapon(now, p, to)
        /\ left = [PackWeapon(switched, w) EXCEPT
                     !.player[p].pool[AmmoOf[weapon[w].class]] = Left(switched, w)]
        /\ Become(left)
        /\ box' = [weapon |-> w, rounds |-> Half(switched, w), timed |-> FALSE]
  BY Zenon DEF DropPlayerItem
<1>4. /\ Sound(switched, {}) /\ ArmedIn(switched) /\ Settled(now, switched)
      /\ w \in switched.player[p].items
  <2>1. to \in now.player[p].items \cup {None}
    BY <1>3, NextBestListed
  <2>2. Sound(switched, {}) /\ ArmedIn(switched) /\ Settled(now, switched)
    BY <1>1, <1>2, <1>3, <2>1, SwitchSound
  <2> QED BY <1>2, <2>2 DEF Settled
<1>5. PICK c \in Class : c = weapon[w].class
  BY <1>1, <1>2, Listed, WeaponFields
<1>6. /\ switched \in States /\ switched.weapon[w] # None /\ switched.weapon[w].class = c
      /\ switched.weapon[w].owner = p
  <2>1. switched \in States /\ switched.weapon[w] # None /\ switched.weapon[w].owner = p
    BY <1>4, Listed DEF Sound
  <2>2. Alike(weapon[w], switched.weapon[w])
    BY <1>1, <1>4 DEF Settled
  <2> QED BY <1>5, <2>1, <2>2 DEF Alike
<1>7. PICK a \in Ammo : a = AmmoOf[c]
  BY Constants
<1>8. PICK rounds \in Int : rounds = switched.player[p].pool[a]
  BY <1>6, PlayerFields
<1>9. Rounds(switched, w) = rounds
  BY <1>6, <1>7, <1>8 DEF Rounds
<1>10. PICK k \in Int : k = IF c \in Exhaustible THEN 0 ELSE rounds \div 2
  OBVIOUS
<1>11. PICK n \in Int : n = IF c \in Exhaustible THEN rounds ELSE rounds \div 2
  OBVIOUS
<1>12. k = Left(switched, w) /\ n = Half(switched, w)
  BY <1>6, <1>9, <1>10, <1>11 DEF Left, Half
<1>13. PICK t : t = PackWeapon(switched, w)
  OBVIOUS
<1>14. Packed(switched, t, w, p)
  BY <1>4, <1>13, PackWeaponIs
<1>15. Sound(t, {w}) /\ ArmedBut(t, p, c)
  <2>1. Sound(t, {} \cup {w}) /\ ArmedBut(t, p, c)
    BY <1>4, <1>6, <1>14, PackedSound
  <2>2. {} \cup {w} = {w}
    OBVIOUS
  <2> QED BY <2>1, <2>2
<1>16. left = [t EXCEPT !.player[p].pool[a] = k]
  BY <1>3, <1>5, <1>7, <1>12, <1>13
<1>17. t \in States /\ left \in States
  <2>1. t \in States
    BY <1>15 DEF Sound
  <2>2. Settled(t, left)
    BY <1>16, <2>1, SetPool DEF PoolOnly
  <2> QED BY <2>1, <2>2 DEF Settled
<1>18. Dropped(p, w, to, switched, t, left, c, a, k, n)
  BY <1>3, <1>4, <1>6, <1>7, <1>8, <1>10, <1>11, <1>12, <1>14, <1>15, <1>16, <1>17, Zenon DEF Dropped
<1> QED BY <1>18

LEMMA DropPlayerItemInv ==
  ASSUME Inv, NEW p \in Player, NEW w \in Weapon, DropPlayerItem(p, w)
  PROVE  Inv'
<1>1. PICK to, s, t, left, c, a, k, n : Dropped(p, w, to, s, t, left, c, a, k, n)
  BY DropIs
<1>2. PoolOnly(t, left, p, a) /\ left.player[p].pool[a] = k
  <2>1. t \in States /\ a \in Ammo /\ k \in Int /\ left = [t EXCEPT !.player[p].pool[a] = k]
    BY <1>1, Zenon DEF Dropped
  <2>2. LET r == [t EXCEPT !.player[p].pool[a] = k] IN
        PoolOnly(t, r, p, a) /\ r.weapon = t.weapon /\ r.player[p].pool[a] = k
    BY <2>1, SetPool
  <2> QED BY <2>1, <2>2, Zenon
<1>3. Sound(t, {w}) /\ Sound(left, {w}) /\ ArmedBut(t, p, c) /\ t \in States
  <2>1. Sound(t, {w}) /\ ArmedBut(t, p, c)
    BY <1>1, Zenon DEF Dropped
  <2> QED BY <1>2, <2>1, PoolOnlySound DEF Sound
<1>4. a = AmmoOf[c] /\ c \in Class /\ (c \in Exhaustible => k = 0)
  BY <1>1, Zenon DEF Dropped
<1>5. ASSUME NEW q \in Player, NEW d \in Exhaustible, left.player[q].pool[AmmoOf[d]] > 0
      PROVE  Has(left, q, d)
  <2>1. AmmoOf[d] \in Ammo
    BY Constants
  <2>2. ~(q = p /\ d = c)
    BY <1>2, <1>4, <1>5
  <2>3. q # p \/ AmmoOf[d] # a
    BY <1>4, <2>2, Constants
  <2>4. t.player[q].pool[AmmoOf[d]] > 0
    BY <1>2, <1>5, <2>1, <2>3 DEF PoolOnly
  <2>5. Has(t, q, d)
    BY <1>3, <2>2, <2>4 DEF ArmedBut
  <2> QED BY <1>2, <1>3, <2>5, SettledHas DEF PoolOnly
<1>6. ArmedIn(left)
  BY <1>5 DEF ArmedIn
<1>7. box' \in BoxType /\ Boxed' = {w} \ {None}
  <2>1. n \in Int /\ box' = [weapon |-> w, rounds |-> n, timed |-> FALSE]
    BY <1>1, Zenon DEF Dropped
  <2> QED BY <2>1, BoxIs
<1>8. {w} = {w} \ {None}
  BY Constants
<1>9. Sound(left, {w} \ {None}) /\ Become(left)
  BY <1>1, <1>3, <1>8 DEF Dropped
<1> QED BY <1>6, <1>7, <1>9, BecomeInv

\* A dead player with w in hand: it is topped up with j rounds, full, packed, t, and the rest
\* is removed, r.
Buried(p, w, c, a, j, full, t, r) ==
  /\ w = now.player[p].active /\ w \in now.player[p].items /\ w \in Weapon
  /\ now.weapon[w] # None /\ c \in Class /\ c = now.weapon[w].class
  /\ a \in Ammo /\ a = AmmoOf[c] /\ j \in Int
  /\ j = LET room == MaxClip[c] - now.weapon[w].clip
         IN IF room <= now.player[p].pool[a] THEN room ELSE now.player[p].pool[a]
  /\ full = [now EXCEPT !.weapon[w] = [now.weapon[w] EXCEPT !.clip = now.weapon[w].clip + j]]
  /\ Sound(full, {}) /\ w \in full.player[p].items
  /\ Packed(full, t, w, p) /\ Sound(t, {w}) /\ ArmedBut(t, p, full.weapon[w].class)
  /\ r = RemoveAllItems(t, p) /\ Become(r)
  /\ box' = [weapon |-> w, rounds |-> now.player[p].pool[a] - j, timed |-> TRUE]

LEMMA BuriedIs ==
  ASSUME Inv, NEW p \in Player, PackDeadPlayerItems(p), player[p].active # None
  PROVE  \E w, c, a, j, full, t, r : Buried(p, w, c, a, j, full, t, r)
<1>1. /\ Sound(now, Boxed) /\ ArmedIn(now) /\ now.weapon = weapon /\ now.player = player
      /\ now \in States
  BY BoxedFacts, NowIs
<1>2. box = None /\ Boxed = {}
  BY DEF PackDeadPlayerItems, Boxed
<1>3. PICK w : w = player[p].active
  OBVIOUS
<1>4. w \in now.player[p].items /\ w \in Weapon /\ now.weapon[w] # None
  BY <1>1, <1>3, InHandListed, Listed
<1>5. PICK c \in Class : c = now.weapon[w].class
  BY <1>1, <1>4, WeaponFields
<1>6. PICK a \in Ammo : a = AmmoOf[c]
  BY Constants
<1>7. PICK rounds \in Int : rounds = now.player[p].pool[a]
  BY <1>1, PlayerFields
<1>8. Rounds(now, w) = rounds
  BY <1>1, <1>4, <1>5, <1>6, <1>7, Listed DEF Rounds
<1>9. PICK room \in Int : room = MaxClip[c] - now.weapon[w].clip
  BY <1>1, <1>4, WeaponFields, Constants
<1>10. PICK j \in Int : j = IF room <= rounds THEN room ELSE rounds
  OBVIOUS
<1>11. Min({MaxClip[now.weapon[w].class] - now.weapon[w].clip, Rounds(now, w)}) = j
  BY <1>5, <1>8, <1>9, <1>10, MinOfTwo
<1>12. PICK n \in Int : n = now.weapon[w].clip + j
  BY <1>1, <1>4, WeaponFields
<1>13. PICK full : full = [now EXCEPT !.weapon[w].clip = n]
  OBVIOUS
<1>14. /\ Become(RemoveAllItems(PackWeapon(full, w), p))
       /\ box' = [weapon |-> w, rounds |-> rounds - j, timed |-> TRUE]
  <2>1. [now EXCEPT !.weapon[w].clip = @ + j] = full
    BY <1>12, <1>13
  <2> QED BY <1>1, <1>3, <1>8, <1>11, <2>1 DEF PackDeadPlayerItems
<1>15. full = [now EXCEPT !.weapon[w] = [now.weapon[w] EXCEPT !.clip = now.weapon[w].clip + j]]
  BY <1>12, <1>13
<1>16. Settled(now, full) /\ full.player = now.player
  BY <1>1, <1>4, <1>13, SetClip
<1>17. Sound(full, {}) /\ ArmedIn(full) /\ w \in full.player[p].items
  BY <1>1, <1>2, <1>4, <1>16, SamePlayers
<1>18. PICK t : t = PackWeapon(full, w)
  OBVIOUS
<1>19. Packed(full, t, w, p)
  BY <1>17, <1>18, PackWeaponIs
<1>20. Sound(t, {w}) /\ ArmedBut(t, p, full.weapon[w].class)
  <2>1. Sound(t, {} \cup {w}) /\ ArmedBut(t, p, full.weapon[w].class)
    BY <1>17, <1>19, PackedSound
  <2>2. {} \cup {w} = {w}
    OBVIOUS
  <2> QED BY <2>1, <2>2
<1>21. j = LET m == MaxClip[c] - now.weapon[w].clip
           IN IF m <= now.player[p].pool[a] THEN m ELSE now.player[p].pool[a]
  BY <1>7, <1>9, <1>10
<1>22. PICK r : r = RemoveAllItems(t, p)
  OBVIOUS
<1>23. Buried(p, w, c, a, j, full, t, r)
  BY <1>1, <1>3, <1>4, <1>5, <1>6, <1>7, <1>10, <1>14, <1>15, <1>17, <1>18, <1>19, <1>20, <1>21,
     <1>22, Zenon DEF Buried
<1> QED BY <1>23

LEMMA PackDeadPlayerItemsInv ==
  ASSUME Inv, NEW p \in Player, PackDeadPlayerItems(p)
  PROVE  Inv'
<1>1. /\ Sound(now, Boxed) /\ ArmedIn(now) /\ now \in States /\ None \notin Weapon
      /\ now.player = player /\ Boxed = {}
  BY BoxedFacts, NowIs, Constants DEF PackDeadPlayerItems, Boxed
<1>2. CASE player[p].active = None
  <2>1. /\ Become(RemoveAllItems(now, p))
        /\ box' = [weapon |-> None, rounds |-> 0, timed |-> TRUE]
    BY <1>2 DEF PackDeadPlayerItems
  <2>2. Sound(RemoveAllItems(now, p), {}) /\ ArmedIn(RemoveAllItems(now, p))
    BY <1>1, RemoveAllSound, ArmedButAll
  <2>3. box' \in BoxType /\ Boxed' = {None} \ {None}
    <3>1. None \in Weapon \cup {None} /\ 0 \in Int /\ TRUE \in BOOLEAN
      OBVIOUS
    <3> QED BY <2>1, <3>1, BoxIs
  <2>4. Boxed' = {}
    BY <2>3
  <2> QED BY <2>1, <2>2, <2>3, <2>4, BecomeInv
<1>3. CASE player[p].active # None
  <2>1. PICK w, c, a, j, full, t, r : Buried(p, w, c, a, j, full, t, r)
    BY <1>3, BuriedIs
  <2>2. /\ w \in Weapon /\ Sound(t, {w}) /\ ArmedBut(t, p, full.weapon[w].class)
        /\ r = RemoveAllItems(t, p) /\ Become(r) /\ j \in Int /\ a \in Ammo
        /\ box' = [weapon |-> w, rounds |-> now.player[p].pool[a] - j, timed |-> TRUE]
    BY <2>1, Zenon DEF Buried
  <2>3. {w} = {w} \ {None}
    BY <1>1, <2>2
  <2>4. Sound(r, {w} \ {None}) /\ ArmedIn(r)
    BY <2>2, <2>3, RemoveAllSound
  <2>5. now.player[p].pool[a] - j \in Int /\ TRUE \in BOOLEAN
    BY <1>1, <2>2, PlayerFields
  <2>6. box' \in BoxType /\ Boxed' = {w} \ {None}
    BY <2>2, <2>5, BoxIs
  <2> QED BY <2>2, <2>4, <2>6, BecomeInv
<1> QED BY <1>2, <1>3

LEMMA StepInv == Inv /\ [Next]_vars => Inv'
<1>1. ASSUME Inv, UNCHANGED vars PROVE Inv'
  <2>1. Sound(now, Boxed) /\ ArmedIn(now)
    BY <1>1 DEF Inv
  <2>2. Become(now) /\ UNCHANGED box
    BY <1>1, NowIs DEF vars, Become
  <2> QED BY <1>1, <2>1, <2>2, SettledStep
<1>2. ASSUME Inv, Supply PROVE Inv'
  BY <1>2, SpawnInv, TakeAmmoInv, RespawnInv DEF Supply
<1>3. ASSUME Inv, World PROVE Inv'
  BY <1>3, KillBoxInv, RemovedInv, DoRetireWeaponInv, KilledInv, PackDeadPlayerItemsInv, StripInv,
     TouchBoxInv, DefaultTouchInv DEF World
<1>4. ASSUME Inv, Commands PROVE Inv'
  BY <1>4, SelectLastItemInv, SelectItemInv, DropPlayerItemInv DEF Commands
<1>5. ASSUME Inv, NEW p \in Player, Frame(p) PROVE Inv'
  BY <1>5, PrimaryAttackInv, ReloadInv, DiscardInv, WeaponIdleInv DEF Frame
<1> QED BY <1>1, <1>2, <1>3, <1>4, <1>5 DEF Next

LEMMA AlwaysInv == Spec => []Inv
BY InitInv, StepInv, PTL DEF Spec

(***************************************************************************)
(* The properties                                                          *)
(***************************************************************************)

LEMMA InvHeld == Inv => Held
<1> SUFFICES ASSUME Inv PROVE Held
  OBVIOUS
<1>1. /\ Sound(now, Boxed) /\ now \in States /\ now.weapon = weapon /\ now.player = player
  BY BoxedFacts, NowIs
<1>2. ASSUME NEW w \in Weapon PROVE Cardinality(Holders(w)) = 1
  <2>1. PICK by : by = {p \in Player : w \in player[p].items}
    OBVIOUS
  <2>2. Placed(now, Boxed, w)
    BY <1>1 DEF Sound
  <2>3. w \in Boxed <=> box # None /\ box.weapon = w
    BY Constants DEF Boxed
  <2>4. w \in Boxed => Kept(weapon[w]) /\ by = {}
    <3>1. w \in Boxed => Kept(weapon[w])
      BY <1>1 DEF Sound
    <3> QED BY <1>1, <2>1, <3>1, Listed
  <2>5. weapon[w] # None => weapon[w].touch \in BOOLEAN
    BY <1>1, WeaponFields
  <2>6. \E h : Holders(w) = {h}
    <3>1. CASE by # {}
      <4>1. PICK p \in Player : w \in player[p].items
        BY <2>1, <3>1
      <4>2. /\ weapon[w] # None /\ ~weapon[w].touch /\ weapon[w].think # "remove"
            /\ w \notin Boxed /\ \A q \in Player : w \in player[q].items => q = p
        BY <1>1, <4>1, Listed
      <4>3. by = {p}
        BY <2>1, <4>1, <4>2
      <4>4. ~(box # None /\ box.weapon = w)
        BY <2>3, <4>2
      <4> QED BY <2>1, <4>2, <4>3, <4>4, Zenon DEF Holders
    <3>2. CASE by = {} /\ w \in Boxed
      <4>1. /\ weapon[w] # None /\ ~weapon[w].touch /\ weapon[w].think # "remove"
            /\ box # None /\ box.weapon = w
        BY <2>3, <2>4, <3>2 DEF Kept
      <4>2. Holders(w) = {"box"}
        BY <2>1, <3>2, <4>1 DEF Holders
      <4> QED BY <4>2
    <3>3. CASE by = {} /\ w \notin Boxed /\ weapon[w] = None
      <4>1. ~(box # None /\ box.weapon = w)
        BY <2>3, <3>3
      <4>2. Holders(w) = {"nobody"}
        BY <2>1, <3>3, <4>1 DEF Holders
      <4> QED BY <4>2
    <3>4. CASE by = {} /\ w \notin Boxed /\ weapon[w] # None
      <4>1. ~(box # None /\ box.weapon = w)
        BY <2>3, <3>4
      <4>2. \A p \in Player : w \notin player[p].items
        BY <2>1, <3>4
      <4>3. /\ ~(weapon[w].touch /\ weapon[w].think = "remove")
            /\ weapon[w].touch \/ weapon[w].think = "remove"
        BY <1>1, <2>2, <3>4, <4>2 DEF Placed
      <4>4. Holders(w) = {"world"} \/ Holders(w) = {"nobody"}
        BY <2>1, <2>5, <3>4, <4>1, <4>3 DEF Holders
      <4> QED BY <4>4
    <3> QED BY <3>1, <3>2, <3>3, <3>4
  <2> QED BY <2>6, FS_Singleton
<1>3. ASSUME NEW p \in Player
      PROVE  /\ \A w \in player[p].items : weapon[w].owner = p
             /\ \A v, w \in player[p].items : weapon[v].class = weapon[w].class => v = w
             /\ {player[p].active, player[p].last} \subseteq player[p].items \cup {None}
  <2>1. Own(now, Boxed, p) /\ OneOfAClass(now, p) /\ InList(now, p)
    BY <1>1 DEF Sound
  <2> QED BY <1>1, <2>1 DEF Own, OneOfAClass, InList
<1> QED BY <1>2, <1>3 DEF Held

\* A weapon is in exactly one place, and a player has one weapon of a class and only his own in
\* hand: through AddPlayerItem, PackWeapon, RemoveAllItems, the weaponbox and their callers, for
\* any number of players, weapons and classes.
THEOREM OnePlace == Spec => []Held
BY InvHeld, AlwaysInv, PTL

\* GiveAmmo gives the weapon that ammunition is, and what takes the weapon away takes its
\* ammunition, for any exhaustible weapons that own their kind of ammunition.
THEOREM ThrownArmed == Spec => []Armed
<1>1. Inv => Armed
  BY NowIs DEF Inv, ArmedIn, Armed
<1> QED BY <1>1, AlwaysInv, PTL

(***************************************************************************)
(* Sums                                                                    *)
(***************************************************************************)

LEMMA LeastIn == ASSUME NEW S \in SUBSET Nat, S # {} PROVE \E x \in S : \A y \in S : x <= y
<1> DEFINE Below == OpToRel(<, Nat)
<1>1. PICK x \in S : \A y \in S : <<y, x>> \notin Below
  BY NatLessThanWellFounded, WFMin
<1>2. ASSUME NEW y \in S, y < x PROVE FALSE
  <2>1. <<y, x>> \in Below
    BY <1>2 DEF OpToRel
  <2> HIDE DEF Below
  <2> QED BY <1>1, <2>1
<1>3. \A y \in S : x <= y
  BY <1>2
<1> QED BY <1>3

\* The element that a sum takes first.
First(T) == CHOOSE x \in T : TRUE

LEMMA FirstIs ==
  ASSUME NEW T, T # {}
  PROVE  First(T) \in T
BY DEF First

\* The sum of f over T, from the sums over smaller sets.
Add(f, sum, T) == IF T = {} THEN 0 ELSE f[First(T)] + sum[T \ {First(T)}]

\* The sums over all subsets of S.
Sums(f, S, sum) == sum = [T \in SUBSET S |-> Add(f, sum, T)]

Smaller(S, n) == {T \in SUBSET S : Cardinality(T) <= n}

LEMMA WithoutFirst ==
  ASSUME NEW S, IsFiniteSet(S), NEW T \in SUBSET S, T # {}
  PROVE  /\ First(T) \in T /\ First(T) \in S
         /\ T \ {First(T)} \in SUBSET S
         /\ Cardinality(T) \in Nat /\ Cardinality(T \ {First(T)}) \in Nat
         /\ Cardinality(T \ {First(T)}) = Cardinality(T) - 1
<1>1. IsFiniteSet(T) /\ First(T) \in T
  BY FS_Subset, FirstIs
<1>2. IsFiniteSet(T \ {First(T)}) /\ Cardinality(T \ {First(T)}) = Cardinality(T) - 1
  BY <1>1, FS_RemoveElement
<1> QED BY <1>1, <1>2, FS_CardinalityType

\* The recursive function in SumFunction exists.
LEMMA SumExists ==
  ASSUME NEW S, IsFiniteSet(S), NEW f
  PROVE  \E sum : Sums(f, S, sum)
<1> DEFINE Stuck == {n \in Nat : ~ \E sum : sum = [T \in Smaller(S, n) |-> Add(f, sum, T)]}
<1>1. ASSUME Stuck # {} PROVE FALSE
  <2>0. Stuck \in SUBSET Nat
    OBVIOUS
  <2>1. PICK n \in Stuck : \A k \in Stuck : n <= k
    BY <1>1, <2>0, LeastIn
  <2>2. CASE n = 0
    <3>1. \A T \in Smaller(S, 0) : T = {}
      <4>1. ASSUME NEW T \in Smaller(S, 0) PROVE T = {}
        <5>1. T \in SUBSET S /\ Cardinality(T) <= 0
          BY DEF Smaller
        <5>2. IsFiniteSet(T) /\ Cardinality(T) \in Nat
          BY <5>1, FS_Subset, FS_CardinalityType
        <5>3. Cardinality(T) = 0
          BY <5>1, <5>2
        <5> QED BY <5>2, <5>3, FS_EmptySet
      <4> QED BY <4>1
    <3>2. PICK h : h = [T \in Smaller(S, 0) |-> 0]
      OBVIOUS
    <3>3. h = [T \in Smaller(S, 0) |-> Add(f, h, T)]
      BY <3>1, <3>2 DEF Add
    <3> QED BY <2>1, <2>2, <3>3
  <2>3. CASE n # 0
    <3>1. n \in Nat /\ n - 1 \in Nat /\ n - 1 \notin Stuck
      BY <2>1, <2>3
    <3>2. PICK g : g = [T \in Smaller(S, n - 1) |-> Add(f, g, T)]
      BY <3>1
    <3>3. PICK h : h = [T \in Smaller(S, n) |-> Add(f, g, T)]
      OBVIOUS
    <3>4. ASSUME NEW T \in Smaller(S, n) PROVE Add(f, g, T) = Add(f, h, T)
      <4>1. CASE T = {}
        BY <4>1 DEF Add
      <4>2. CASE T # {}
        <5>1. PICK U : U = T \ {First(T)}
          OBVIOUS
        <5>2. U \in Smaller(S, n - 1) /\ U \in Smaller(S, n)
          BY <3>1, <4>2, <5>1, WithoutFirst DEF Smaller
        <5>3. g[U] = Add(f, g, U)
          BY <3>2, <5>2
        <5>4. h[U] = Add(f, g, U)
          BY <3>3, <5>2
        <5> QED BY <5>1, <5>3, <5>4 DEF Add
      <4> QED BY <4>1, <4>2
    <3>5. h = [T \in Smaller(S, n) |-> Add(f, h, T)]
      BY <3>3, <3>4
    <3> QED BY <2>1, <3>5
  <2> QED BY <2>2, <2>3
<1>2. Cardinality(S) \in Nat
  BY FS_CardinalityType
<1>3. Smaller(S, Cardinality(S)) = SUBSET S
  BY FS_Subset DEF Smaller
<1>4. PICK n \in Nat : n = Cardinality(S)
  BY <1>2
<1>5. PICK sum : sum = [T \in Smaller(S, n) |-> Add(f, sum, T)]
  BY <1>1
<1>6. sum = [T \in SUBSET S |-> Add(f, sum, T)]
  BY <1>3, <1>4, <1>5
<1>7. Sums(f, S, sum)
  BY <1>6 DEF Sums
<1> QED BY <1>7

\* So the sum of f is what it says of the whole domain.
LEMMA SumIs ==
  ASSUME NEW S, IsFiniteSet(S), NEW f, S = DOMAIN f
  PROVE  \E sum : Sums(f, S, sum) /\ SumFunction(f) = sum[S]
<1>0. PICK g : Sums(f, S, g)
  BY SumExists
<1>1. g = [T \in SUBSET DOMAIN f |-> Add(f, g, T)]
  BY <1>0 DEF Sums
<1>2. g = [T \in SUBSET DOMAIN f |-> IF T = {} THEN 0
                                     ELSE f[CHOOSE x \in T : TRUE] + g[T \ {CHOOSE x \in T : TRUE}]]
  BY <1>1 DEF Add, First
<1>3. SumFunction(f) = LET iter[T \in SUBSET DOMAIN f] ==
                             IF T = {} THEN 0
                             ELSE f[CHOOSE x \in T : TRUE] + iter[T \ {CHOOSE x \in T : TRUE}]
                       IN iter[DOMAIN f]
  BY DEF SumFunction, SumFunctionOnSet, FoldFunctionOnSet, MapThenFoldSet
<1>4. PICK h : /\ h = [T \in SUBSET DOMAIN f |->
                         IF T = {} THEN 0
                         ELSE f[CHOOSE x \in T : TRUE] + h[T \ {CHOOSE x \in T : TRUE}]]
               /\ SumFunction(f) = h[DOMAIN f]
  BY <1>2, <1>3
<1>5. h = [T \in SUBSET DOMAIN f |-> Add(f, h, T)]
  BY <1>4 DEF Add, First
<1>6. Sums(f, S, h)
  BY <1>5 DEF Sums
<1> QED BY <1>4, <1>6

\* A sum that is no greater than another but for what is at x.
LEMMA SumsCompare ==
  ASSUME NEW S, IsFiniteSet(S), NEW f \in [S -> Int], NEW g \in [S -> Int], NEW x \in S,
         \A y \in S : y # x => g[y] <= f[y]
  PROVE  /\ SumFunction(f) \in Int /\ SumFunction(g) \in Int
         /\ SumFunction(g) <= SumFunction(f) + (g[x] - f[x])
<1>1. PICK F : Sums(f, S, F) /\ SumFunction(f) = F[S]
  BY SumIs
<1>2. PICK G : Sums(g, S, G) /\ SumFunction(g) = G[S]
  BY SumIs
<1> DEFINE Extra(T) == IF x \in T THEN g[x] - f[x] ELSE 0
<1> DEFINE Right(T) == F[T] \in Int /\ G[T] \in Int /\ G[T] <= F[T] + Extra(T)
<1> DEFINE Wrong == {n \in Nat : \E T \in SUBSET S : Cardinality(T) = n /\ ~Right(T)}
<1>3. ASSUME Wrong # {} PROVE FALSE
  <2>0. Wrong \in SUBSET Nat
    OBVIOUS
  <2>1. PICK n \in Wrong : \A k \in Wrong : n <= k
    BY <1>3, <2>0, LeastIn
  <2>2. PICK T \in SUBSET S : Cardinality(T) = n /\ ~Right(T)
    BY <2>1
  <2>3. F[T] = Add(f, F, T) /\ G[T] = Add(g, G, T)
    BY <1>1, <1>2 DEF Sums
  <2>4. CASE T = {}
    BY <2>2, <2>3, <2>4 DEF Add
  <2>5. CASE T # {}
    <3>1. PICK y \in S : y = First(T) /\ y \in T
      BY <2>5, WithoutFirst
    <3>2. PICK U \in SUBSET S : U = T \ {y}
      OBVIOUS
    <3>3. Cardinality(U) \in Nat /\ Cardinality(U) < n
      BY <2>2, <2>5, <3>1, <3>2, WithoutFirst
    <3>4. Right(U)
      <4>1. Cardinality(U) \notin Wrong
        BY <2>1, <3>3
      <4> QED BY <3>2, <3>3, <4>1
    <3>5. F[T] = f[y] + F[U] /\ G[T] = g[y] + G[U]
      BY <2>3, <2>5, <3>1, <3>2 DEF Add
    <3>6. f[y] \in Int /\ g[y] \in Int /\ f[x] \in Int /\ g[x] \in Int
      OBVIOUS
    <3>7. F[U] \in Int /\ G[U] \in Int /\ G[U] <= F[U] + Extra(U)
      BY <3>4
    <3>8. CASE y = x
      <4>1. Extra(U) = 0 /\ Extra(T) = g[x] - f[x]
        BY <3>1, <3>2, <3>8
      <4> QED BY <2>2, <3>5, <3>6, <3>7, <3>8, <4>1
    <3>9. CASE y # x
      <4>1. Extra(U) = Extra(T) /\ g[y] <= f[y] /\ Extra(T) \in Int
        BY <3>2, <3>6, <3>9
      <4> HIDE DEF Extra
      <4> QED BY <2>2, <3>5, <3>6, <3>7, <4>1
    <3> QED BY <3>8, <3>9
  <2> QED BY <2>4, <2>5
<1>4. Right(S)
  <2>1. Cardinality(S) \in Nat /\ Cardinality(S) \notin Wrong
    BY <1>3, FS_CardinalityType
  <2> QED BY <2>1
<1> QED BY <1>1, <1>2, <1>4

LEMMA SumType ==
  ASSUME NEW S, IsFiniteSet(S), NEW f \in [S -> Int]
  PROVE  SumFunction(f) \in Int
<1>1. CASE S = {}
  <2>1. PICK F : Sums(f, S, F) /\ SumFunction(f) = F[S]
    BY SumIs
  <2> QED BY <1>1, <2>1 DEF Sums, Add
<1>2. CASE S # {}
  BY <1>2, SumsCompare
<1> QED BY <1>1, <1>2

\* A sum that is nowhere greater than another.
LEMMA SumsOrdered ==
  ASSUME NEW S, IsFiniteSet(S), NEW f \in [S -> Int], NEW g \in [S -> Int],
         \A y \in S : g[y] <= f[y]
  PROVE  SumFunction(g) <= SumFunction(f)
<1>1. CASE S = {}
  <2>1. f = g
    BY <1>1
  <2> QED BY <2>1, SumType
<1>2. CASE S # {}
  <2>1. PICK x \in S : TRUE
    BY <1>2
  <2>2. /\ SumFunction(f) \in Int /\ SumFunction(g) \in Int
        /\ SumFunction(g) <= SumFunction(f) + (g[x] - f[x])
    BY <2>1, SumsCompare
  <2>3. f[x] \in Int /\ g[x] \in Int /\ g[x] <= f[x]
    BY <2>1
  <2> QED BY <2>2, <2>3
<1> QED BY <1>1, <1>2

(***************************************************************************)
(* The rounds there are                                                    *)
(***************************************************************************)

PoolSum(s, a) == SumFunction([p \in Player |-> s.player[p].pool[a]])
RoundsSum(s, a) == SumFunction([w \in Weapon |-> RoundsIn(s.weapon[w], a)])

LEMMA RoundsType ==
  ASSUME NEW it \in WeaponType \cup {None}, NEW a
  PROVE  RoundsIn(it, a) \in Int
<1>1. CASE it = None
  BY <1>1 DEF RoundsIn
<1>2. CASE it # None
  <2>1. it.spare \in Nat /\ it.clip \in Int
    BY <1>2 DEF WeaponType
  <2> QED BY <2>1 DEF RoundsIn
<1> QED BY <1>1, <1>2

LEMMA SumsType ==
  ASSUME NEW s \in States, NEW a \in Ammo
  PROVE  /\ IsFiniteSet(Player) /\ IsFiniteSet(Weapon)
         /\ [p \in Player |-> s.player[p].pool[a]] \in [Player -> Int]
         /\ [w \in Weapon |-> RoundsIn(s.weapon[w], a)] \in [Weapon -> Int]
         /\ PoolSum(s, a) \in Int /\ RoundsSum(s, a) \in Int
         /\ TotalIn(s, a) \in Int /\ TotalIn(s, a) = PoolSum(s, a) + RoundsSum(s, a)
<1>1. IsFiniteSet(Player) /\ IsFiniteSet(Weapon)
  BY InventoryAssumption
<1>2. [p \in Player |-> s.player[p].pool[a]] \in [Player -> Int]
  <2>1. \A p \in Player : s.player[p].pool[a] \in Int
    BY PlayerFields
  <2> QED BY <2>1
<1>3. [w \in Weapon |-> RoundsIn(s.weapon[w], a)] \in [Weapon -> Int]
  <2>1. \A w \in Weapon : RoundsIn(s.weapon[w], a) \in Int
    BY RoundsType DEF States
  <2> QED BY <2>1
<1>4. PoolSum(s, a) \in Int /\ RoundsSum(s, a) \in Int
  BY <1>1, <1>2, <1>3, SumType DEF PoolSum, RoundsSum
<1>5. TotalIn(s, a) = PoolSum(s, a) + RoundsSum(s, a)
  BY DEF TotalIn, PoolSum, RoundsSum
<1> QED BY <1>1, <1>2, <1>3, <1>4, <1>5

LEMMA PoolSumAt ==
  ASSUME NEW s \in States, NEW t \in States, NEW a \in Ammo, NEW p \in Player,
         \A q \in Player : q # p => t.player[q].pool[a] <= s.player[q].pool[a]
  PROVE  PoolSum(t, a) <= PoolSum(s, a) + (t.player[p].pool[a] - s.player[p].pool[a])
<1>1. PICK f \in [Player -> Int] : f = [q \in Player |-> s.player[q].pool[a]]
  BY SumsType
<1>2. PICK g \in [Player -> Int] : g = [q \in Player |-> t.player[q].pool[a]]
  BY SumsType
<1>3. \A q \in Player : f[q] = s.player[q].pool[a] /\ g[q] = t.player[q].pool[a]
  BY <1>1, <1>2
<1>4. SumFunction(g) <= SumFunction(f) + (g[p] - f[p])
  BY <1>3, SumsType, SumsCompare
<1> QED BY <1>1, <1>2, <1>3, <1>4 DEF PoolSum

LEMMA PoolSumAll ==
  ASSUME NEW s \in States, NEW t \in States, NEW a \in Ammo,
         \A q \in Player : t.player[q].pool[a] <= s.player[q].pool[a]
  PROVE  PoolSum(t, a) <= PoolSum(s, a)
<1>1. PICK f \in [Player -> Int] : f = [q \in Player |-> s.player[q].pool[a]]
  BY SumsType
<1>2. PICK g \in [Player -> Int] : g = [q \in Player |-> t.player[q].pool[a]]
  BY SumsType
<1>3. \A q \in Player : g[q] <= f[q]
  BY <1>1, <1>2
<1>4. SumFunction(g) <= SumFunction(f)
  BY <1>3, SumsType, SumsOrdered
<1> QED BY <1>1, <1>2, <1>4 DEF PoolSum

LEMMA RoundsSumAt ==
  ASSUME NEW s \in States, NEW t \in States, NEW a \in Ammo, NEW w \in Weapon,
         \A v \in Weapon : v # w => RoundsIn(t.weapon[v], a) <= RoundsIn(s.weapon[v], a)
  PROVE  RoundsSum(t, a) <=
           RoundsSum(s, a) + (RoundsIn(t.weapon[w], a) - RoundsIn(s.weapon[w], a))
<1>1. PICK f \in [Weapon -> Int] : f = [v \in Weapon |-> RoundsIn(s.weapon[v], a)]
  BY SumsType
<1>2. PICK g \in [Weapon -> Int] : g = [v \in Weapon |-> RoundsIn(t.weapon[v], a)]
  BY SumsType
<1>3. \A v \in Weapon : f[v] = RoundsIn(s.weapon[v], a) /\ g[v] = RoundsIn(t.weapon[v], a)
  BY <1>1, <1>2
<1>4. SumFunction(g) <= SumFunction(f) + (g[w] - f[w])
  BY <1>3, SumsType, SumsCompare
<1> QED BY <1>1, <1>2, <1>3, <1>4 DEF RoundsSum

LEMMA RoundsSumAll ==
  ASSUME NEW s \in States, NEW t \in States, NEW a \in Ammo,
         \A v \in Weapon : RoundsIn(t.weapon[v], a) <= RoundsIn(s.weapon[v], a)
  PROVE  RoundsSum(t, a) <= RoundsSum(s, a)
<1>1. PICK f \in [Weapon -> Int] : f = [v \in Weapon |-> RoundsIn(s.weapon[v], a)]
  BY SumsType
<1>2. PICK g \in [Weapon -> Int] : g = [v \in Weapon |-> RoundsIn(t.weapon[v], a)]
  BY SumsType
<1>3. \A v \in Weapon : g[v] <= f[v]
  BY <1>1, <1>2
<1>4. SumFunction(g) <= SumFunction(f)
  BY <1>3, SumsType, SumsOrdered
<1> QED BY <1>1, <1>2, <1>4 DEF RoundsSum

\* From s to t nothing but n rounds of kind b are added, and a weapon there is stays one of
\* its class.
Brings(s, t, n, b) ==
  /\ \A v \in Weapon : s.weapon[v] # None =>
       t.weapon[v] # None /\ t.weapon[v].class = s.weapon[v].class
  /\ \A a \in Ammo : TotalIn(t, a) <= TotalIn(s, a) + (IF a = b THEN n ELSE 0)

Conserves(s, t) ==
  /\ \A v \in Weapon : s.weapon[v] # None =>
       t.weapon[v] # None /\ t.weapon[v].class = s.weapon[v].class
  /\ \A a \in Ammo : TotalIn(t, a) <= TotalIn(s, a)

LEMMA ConservesSame ==
  ASSUME NEW s \in States
  PROVE  Conserves(s, s)
BY SumsType DEF Conserves

LEMMA ConservesTrans ==
  ASSUME NEW s \in States, NEW t \in States, NEW u \in States, Conserves(s, t), Conserves(t, u)
  PROVE  Conserves(s, u)
<1>1. ASSUME NEW a \in Ammo PROVE TotalIn(u, a) <= TotalIn(s, a)
  <2>1. TotalIn(u, a) <= TotalIn(t, a) /\ TotalIn(t, a) <= TotalIn(s, a)
    BY DEF Conserves
  <2> QED BY <2>1, SumsType
<1> QED BY <1>1 DEF Conserves

\* Weapons that hold no more, and pools that do not either.
LEMMA ConservesAll ==
  ASSUME NEW s \in States, NEW t \in States,
         \A v \in Weapon : s.weapon[v] # None =>
            t.weapon[v] # None /\ t.weapon[v].class = s.weapon[v].class,
         \A v \in Weapon, a \in Ammo : RoundsIn(t.weapon[v], a) <= RoundsIn(s.weapon[v], a),
         \A q \in Player, a \in Ammo : t.player[q].pool[a] <= s.player[q].pool[a]
  PROVE  Conserves(s, t)
<1>1. ASSUME NEW a \in Ammo PROVE TotalIn(t, a) <= TotalIn(s, a)
  <2>1. PoolSum(t, a) <= PoolSum(s, a) /\ RoundsSum(t, a) <= RoundsSum(s, a)
    BY PoolSumAll, RoundsSumAll
  <2> QED BY <2>1, SumsType
<1> QED BY <1>1 DEF Conserves

(***************************************************************************)
(* What fits.  A reload of a gun that is not stale is one of the weapon in *)
(* hand, and there is something to load; so that ReloadSetAmmos never      *)
(* makes a round.                                                          *)
(***************************************************************************)

Loading(it) == MaxClip[it.class] # NoClip /\ it.pending /\ ~it.stale

\* The clip of a weapon that has none is 0 until somebody takes it.
ClipFits(it) ==
  IF MaxClip[it.class] = NoClip
  THEN it.clip = NoClip \/ (it.clip = 0 /\ (it.touch \/ it.think = "remove"))
  ELSE it.clip <= MaxClip[it.class] /\ (it.clip >= 0 \/ it.stale)

LoadFits(s, w) ==
  Loading(s.weapon[w]) =>
    /\ s.weapon[w].owner \in Player /\ s.player[s.weapon[w].owner].active = w
    /\ s.weapon[w].clip = 0 => Rounds(s, w) > 0

PoolFits(own) == \A a \in Ammo : own.pool[a] \in 0..MaxAmmo[a]

Fit(s) ==
  /\ \A w \in Weapon : s.weapon[w] # None => ClipFits(s.weapon[w]) /\ LoadFits(s, w)
  /\ \A p \in Player : PoolFits(s.player[p])

\* A step that changes only the weapons W, and p.
Only(s, t, W, p) ==
  /\ t \in States
  /\ \A v \in Weapon : v \notin W => t.weapon[v] = s.weapon[v]
  /\ \A q \in Player : q # p => /\ t.player[q].active = s.player[q].active
                                /\ t.player[q].pool = s.player[q].pool

LEMMA FitFrom ==
  ASSUME NEW s \in States, Fit(s), NEW t, NEW W, NEW p, Only(s, t, W, p),
         p \in Player => PoolFits(t.player[p]),
         \A v \in Weapon : v \in W /\ t.weapon[v] # None => ClipFits(t.weapon[v]) /\ LoadFits(t, v),
         \A v \in Weapon : (/\ v \notin W /\ s.weapon[v] # None
                            /\ Loading(s.weapon[v]) /\ s.weapon[v].owner = p) => LoadFits(t, v)
  PROVE  Fit(t)
<1>1. ASSUME NEW v \in Weapon, t.weapon[v] # None PROVE ClipFits(t.weapon[v]) /\ LoadFits(t, v)
  <2>1. CASE v \in W
    BY <1>1, <2>1
  <2>2. CASE v \notin W
    <3>1. t.weapon[v] = s.weapon[v] /\ ClipFits(s.weapon[v]) /\ LoadFits(s, v)
      BY <1>1, <2>2 DEF Fit, Only
    <3>2. LoadFits(t, v)
      <4>1. CASE ~Loading(s.weapon[v])
        BY <3>1, <4>1 DEF LoadFits
      <4>2. CASE Loading(s.weapon[v]) /\ s.weapon[v].owner = p
        BY <1>1, <2>2, <3>1, <4>2
      <4>3. CASE Loading(s.weapon[v]) /\ s.weapon[v].owner # p
        <5>1. PICK q \in Player : q = s.weapon[v].owner
          BY <3>1, <4>3 DEF LoadFits
        <5>2. t.player[q].active = s.player[q].active /\ t.player[q].pool = s.player[q].pool
          BY <4>3, <5>1 DEF Only
        <5> QED BY <3>1, <5>1, <5>2 DEF LoadFits, Rounds
      <4> QED BY <4>1, <4>2, <4>3
    <3> QED BY <3>1, <3>2
  <2> QED BY <2>1, <2>2
<1>2. ASSUME NEW q \in Player PROVE PoolFits(t.player[q])
  <2>1. CASE q # p
    <3>1. t.player[q].pool = s.player[q].pool /\ PoolFits(s.player[q])
      BY <2>1 DEF Fit, Only
    <3> QED BY <3>1 DEF PoolFits
  <2> QED BY <2>1
<1> QED BY <1>1, <1>2 DEF Fit

\* The weapon jt holds what it does.
Laden(it, jt) ==
  /\ jt = None <=> it = None
  /\ it # None =>
       /\ jt.class = it.class /\ jt.clip = it.clip /\ jt.spare = it.spare
       /\ (jt.think = "remove" <=> it.think = "remove")

LEMMA LadenRounds ==
  ASSUME NEW it, NEW jt, Laden(it, jt)
  PROVE  \A a : RoundsIn(jt, a) = RoundsIn(it, a)
BY DEF Laden, RoundsIn

LEMMA LadenSame == ASSUME NEW it PROVE Laden(it, it)
BY DEF Laden

\* If all weapons hold what they did, and all pools, no rounds are made.
LEMMA LadenConserves ==
  ASSUME NEW s \in States, NEW t \in States,
         \A v \in Weapon : Laden(s.weapon[v], t.weapon[v]),
         \A q \in Player, a \in Ammo : t.player[q].pool[a] <= s.player[q].pool[a]
  PROVE  Conserves(s, t)
<1>1. ASSUME NEW v \in Weapon, NEW a \in Ammo
      PROVE  RoundsIn(t.weapon[v], a) <= RoundsIn(s.weapon[v], a)
  <2>1. RoundsIn(t.weapon[v], a) = RoundsIn(s.weapon[v], a)
    BY LadenRounds
  <2>2. RoundsIn(s.weapon[v], a) \in Int
    BY RoundsType DEF States
  <2> QED BY <2>1, <2>2
<1>2. \A v \in Weapon : s.weapon[v] # None =>
        t.weapon[v] # None /\ t.weapon[v].class = s.weapon[v].class
  BY DEF Laden
<1> QED BY <1>1, <1>2, ConservesAll

\* The pools are the same.
LEMMA SamePools ==
  ASSUME NEW s \in States, NEW t, \A q \in Player : t.player[q].pool = s.player[q].pool
  PROVE  \A q \in Player, a \in Ammo : t.player[q].pool[a] <= s.player[q].pool[a]
<1>1. ASSUME NEW q \in Player, NEW a \in Ammo
      PROVE  t.player[q].pool[a] <= s.player[q].pool[a]
  <2>1. s.player[q].pool[a] \in Int /\ t.player[q].pool = s.player[q].pool
    BY PlayerFields
  <2> QED BY <2>1
<1> QED BY <1>1

(* Switching *)

\* Who holsters the weapon in hand is loading none.
LEMMA HolsterFits ==
  ASSUME NEW s, NEW X, Sound(s, X), Fit(s), NEW p \in Player, NEW h,
         h = Holster(s, s.player[p].active)
  PROVE  /\ h \in States /\ h.player = s.player /\ Fit(h)
         /\ \A v \in Weapon : Laden(s.weapon[v], h.weapon[v])
         /\ \A v \in Weapon : h.weapon[v] # None /\ Loading(h.weapon[v]) => h.weapon[v].owner # p
<1>1. PICK w : w = s.player[p].active
  OBVIOUS
<1>2. /\ s \in States /\ w \in Weapon \cup {None} /\ (w # None => s.weapon[w] # None)
  BY <1>1, InHandListed
<1>3. Settled(s, h) /\ h.player = s.player
  BY <1>1, <1>2, HolsterSettled
<1>4. h \in States
  BY <1>3 DEF Settled
<1>5. \A v \in Weapon : s.weapon[v] # None /\ Loading(s.weapon[v]) /\ s.weapon[v].owner = p => v = w
  BY <1>1 DEF Fit, LoadFits
<1>6. CASE w = None
  <2>1. h = s
    BY <1>1, <1>6 DEF Holster
  <2>2. \A v \in Weapon : s.weapon[v] # None /\ Loading(s.weapon[v]) => s.weapon[v].owner # p
    BY <1>5, <1>6, Constants
  <2> QED BY <1>4, <2>1, <2>2, LadenSame
<1>7. CASE w # None
  <2>1. w \in Weapon /\ s.weapon[w] # None /\ s.weapon[w] \in WeaponType
    BY <1>2, <1>7, WeaponFields
  <2>2. /\ \A v \in Weapon : v # w => h.weapon[v] = s.weapon[v]
        /\ h.weapon[w] = [s.weapon[w] EXCEPT !.stale = Stowed(s.weapon[w])]
    BY <1>1, <1>2, <2>1, HolsterIs
  <2>3. /\ h.weapon[w].class = s.weapon[w].class /\ h.weapon[w].clip = s.weapon[w].clip
        /\ h.weapon[w].spare = s.weapon[w].spare /\ h.weapon[w].think = s.weapon[w].think
        /\ h.weapon[w].pending = s.weapon[w].pending /\ h.weapon[w].touch = s.weapon[w].touch
        /\ h.weapon[w].stale = Stowed(s.weapon[w])
    BY <2>1, <2>2 DEF WeaponType
  <2>4. h.weapon[w] # None
    BY <1>3, <2>1 DEF Settled, Alike
  <2>5. ~Loading(h.weapon[w])
    BY <2>3 DEF Loading, Stowed
  <2>6. ClipFits(h.weapon[w])
    <3>1. ClipFits(s.weapon[w])
      BY <2>1 DEF Fit
    <3> QED BY <2>3, <3>1 DEF ClipFits, Stowed
  <2>7. \A v \in Weapon : Laden(s.weapon[v], h.weapon[v])
    <3>1. Laden(s.weapon[w], h.weapon[w])
      BY <2>1, <2>3, <2>4 DEF Laden
    <3> QED BY <2>2, <3>1, LadenSame
  <2>8. Fit(h)
    <3>1. Only(s, h, {w}, p)
      BY <1>3, <1>4, <2>2 DEF Only
    <3>2. PoolFits(h.player[p])
      BY <1>3 DEF Fit
    <3>3. LoadFits(h, w)
      BY <2>5 DEF LoadFits
    <3>4. \A v \in Weapon : v \notin {w} /\ s.weapon[v] # None
                            /\ Loading(s.weapon[v]) /\ s.weapon[v].owner = p => LoadFits(h, v)
      BY <1>5
    <3> QED BY <1>2, <2>6, <3>1, <3>2, <3>3, <3>4, FitFrom
  <2>9. \A v \in Weapon : h.weapon[v] # None /\ Loading(h.weapon[v]) => h.weapon[v].owner # p
    BY <1>5, <2>2, <2>5
  <2> QED BY <1>3, <1>4, <2>7, <2>8, <2>9
<1> QED BY <1>6, <1>7

\* A player who is loading nothing may change in anything but his pool.
LEMMA IdleFits ==
  ASSUME NEW s \in States, Fit(s), NEW p \in Player, NEW t \in States, t.weapon = s.weapon,
         \A v \in Weapon : s.weapon[v] # None /\ Loading(s.weapon[v]) => s.weapon[v].owner # p,
         \A q \in Player : q # p => t.player[q] = s.player[q],
         PoolFits(t.player[p])
  PROVE  Fit(t)
<1>1. Only(s, t, {}, p)
  BY DEF Only
<1> QED BY <1>1, FitFrom

LEMMA WieldFits ==
  ASSUME NEW s, NEW X, Sound(s, X), Fit(s), NEW p \in Player, NEW w \in Weapon \cup {None}
  PROVE  LET t == Wield(s, p, w) IN Fit(t) /\ Conserves(s, t)
<1>1. PICK h : h = Holster(s, s.player[p].active)
  OBVIOUS
<1>2. /\ h \in States /\ h.player = s.player /\ Fit(h)
      /\ \A v \in Weapon : Laden(s.weapon[v], h.weapon[v])
      /\ \A v \in Weapon : h.weapon[v] # None /\ Loading(h.weapon[v]) => h.weapon[v].owner # p
  BY <1>1, HolsterFits
<1>3. PICK t : t = Wield(s, p, w)
  OBVIOUS
<1>4. /\ t \in States
      /\ \A q \in Player : t.player[q].pool = s.player[q].pool /\ (q # p => t.player[q] = s.player[q])
  BY <1>3, WieldSettled DEF Settled
<1>5. t.weapon = h.weapon
  BY <1>1, <1>2, <1>3 DEF Wield, States
<1>6. s \in States /\ PoolFits(t.player[p])
  <2>1. PoolFits(s.player[p])
    BY DEF Fit
  <2> QED BY <1>4, <2>1 DEF PoolFits, Sound
<1>7. Fit(t)
  BY <1>2, <1>4, <1>5, <1>6, IdleFits
<1>8. Conserves(s, t)
  BY <1>2, <1>4, <1>5, <1>6, SamePools, LadenConserves
<1> QED BY <1>3, <1>7, <1>8

LEMMA SwitchFits ==
  ASSUME NEW s, NEW X, Sound(s, X), Fit(s), NEW p \in Player, NEW w \in Weapon \cup {None}
  PROVE  LET t == SwitchWeapon(s, p, w) IN Fit(t) /\ Conserves(s, t)
<1>1. s \in States
  BY DEF Sound
<1> QED BY <1>1, ConservesSame, WieldFits DEF SwitchWeapon

(* Ammunition *)

\* A pool is the only thing of a player that has changed.
LEMMA OnlyPool ==
  ASSUME NEW s \in States, NEW t, NEW p, NEW a, PoolOnly(s, t, p, a), t.weapon = s.weapon
  PROVE  Only(s, t, {}, p)
<1>1. t \in States
  BY DEF PoolOnly, Settled
<1>2. ASSUME NEW q \in Player, q # p PROVE t.player[q].pool = s.player[q].pool
  <2>1. t.player[q].pool \in [Ammo -> Int] /\ s.player[q].pool \in [Ammo -> Int]
    BY <1>1, PlayerFields
  <2>2. \A b \in Ammo : t.player[q].pool[b] = s.player[q].pool[b]
    BY <1>2 DEF PoolOnly
  <2> QED BY <2>1, <2>2
<1> QED BY <1>1, <1>2 DEF Only, PoolOnly

\* No more rounds in a pool than fit: a reload still has something to load.
LEMMA MorePool ==
  ASSUME NEW s \in States, Fit(s), NEW p \in Player, NEW a \in Ammo, NEW t, NEW n \in Nat,
         PoolOnly(s, t, p, a), t.weapon = s.weapon,
         s.player[p].pool[a] <= t.player[p].pool[a], t.player[p].pool[a] <= MaxAmmo[a],
         t.player[p].pool[a] <= s.player[p].pool[a] + n
  PROVE  Fit(t) /\ Brings(s, t, n, a)
<1>1. t \in States /\ Only(s, t, {}, p)
  BY OnlyPool DEF PoolOnly, Settled
<1>2. ASSUME NEW b \in Ammo
      PROVE  /\ s.player[p].pool[b] \in 0..MaxAmmo[b] /\ t.player[p].pool[b] \in 0..MaxAmmo[b]
             /\ s.player[p].pool[b] <= t.player[p].pool[b]
  <2>1. s.player[p].pool[b] \in 0..MaxAmmo[b] /\ MaxAmmo[b] \in Int
    BY Constants DEF Fit, PoolFits
  <2>2. t.player[p].pool[b] \in Int
    BY <1>1, PlayerFields
  <2>3. CASE b = a
    BY <2>1, <2>2, <2>3
  <2>4. CASE b # a
    BY <2>1, <2>4 DEF PoolOnly
  <2> QED BY <2>3, <2>4
<1>3. PoolFits(t.player[p])
  BY <1>2 DEF PoolFits
<1>4. ASSUME NEW v \in Weapon, s.weapon[v] # None, Loading(s.weapon[v]), s.weapon[v].owner = p
      PROVE  LoadFits(t, v)
  <2>1. AmmoOf[s.weapon[v].class] \in Ammo
    BY <1>4, WeaponFields, Constants
  <2>2. LoadFits(s, v) /\ t.weapon[v] = s.weapon[v] /\ t.player[p].active = s.player[p].active
    BY <1>4 DEF Fit, PoolOnly
  <2>3. s.weapon[v].clip = 0 => Rounds(s, v) > 0
    BY <1>4, <2>2 DEF LoadFits
  <2>4. Rounds(t, v) >= Rounds(s, v) /\ Rounds(t, v) \in Int /\ Rounds(s, v) \in Int
    BY <1>2, <1>4, <2>1 DEF Rounds
  <2> QED BY <1>4, <2>2, <2>3, <2>4 DEF LoadFits
<1>5. Fit(t)
  BY <1>1, <1>3, <1>4, FitFrom
<1>6. ASSUME NEW b \in Ammo
      PROVE  TotalIn(t, b) <= TotalIn(s, b) + (IF b = a THEN n ELSE 0)
  <2>1. \A q \in Player : q # p => t.player[q].pool[b] <= s.player[q].pool[b]
    <3>1. ASSUME NEW q \in Player, q # p PROVE t.player[q].pool[b] <= s.player[q].pool[b]
      <4>1. t.player[q].pool[b] = s.player[q].pool[b] /\ s.player[q].pool[b] \in Int
        BY <3>1, PlayerFields DEF PoolOnly
      <4> QED BY <4>1
    <3> QED BY <3>1
  <2>2. PoolSum(t, b) <= PoolSum(s, b) + (t.player[p].pool[b] - s.player[p].pool[b])
    BY <1>1, <2>1, PoolSumAt
  <2>3. RoundsSum(t, b) = RoundsSum(s, b)
    BY DEF RoundsSum
  <2>4. t.player[p].pool[b] <= s.player[p].pool[b] + (IF b = a THEN n ELSE 0)
    <3>1. CASE b = a
      BY <3>1
    <3>2. CASE b # a
      <4>1. t.player[p].pool[b] = s.player[p].pool[b] /\ s.player[p].pool[b] \in Int
        BY <3>2, PlayerFields DEF PoolOnly
      <4> QED BY <3>2, <4>1
    <3> QED BY <3>1, <3>2
  <2>5. PICK m \in Nat : m = IF b = a THEN n ELSE 0
    OBVIOUS
  <2>6. /\ PoolSum(t, b) \in Int /\ PoolSum(s, b) \in Int /\ RoundsSum(s, b) \in Int
        /\ TotalIn(s, b) = PoolSum(s, b) + RoundsSum(s, b)
        /\ TotalIn(t, b) = PoolSum(t, b) + RoundsSum(t, b)
        /\ t.player[p].pool[b] \in Int /\ s.player[p].pool[b] \in Int
    BY <1>1, SumsType, PlayerFields
  <2> QED BY <2>2, <2>3, <2>4, <2>5, <2>6
<1> QED BY <1>5, <1>6 DEF Brings

\* Rounds that GiveAmmo adds to a pool, of n.
LEMMA GiveAmmoIs ==
  ASSUME NEW s \in States, Fit(s), NEW p \in Player, NEW n \in Int, NEW a \in Ammo, NEW new,
         new = None \/ \A c \in Exhaustible : AmmoOf[c] = a => Has(s, p, c)
  PROVE  LET t == GiveAmmo(s, p, n, a, new) IN
         /\ t \in States /\ PoolOnly(s, t, p, a) /\ t.weapon = s.weapon /\ Fit(t)
         /\ Brings(s, t, IF n > 0 THEN n ELSE 0, a)
<1>1. PICK t : t = GiveAmmo(s, p, n, a, new)
  OBVIOUS
<1>2. PICK pool \in Int : pool = s.player[p].pool[a]
  BY PlayerFields
<1>3. MaxAmmo[a] \in Int /\ pool \in 0..MaxAmmo[a]
  BY <1>2, Constants DEF Fit, PoolFits
<1>4. PICK room \in Int : room = MaxAmmo[a] - pool
  BY <1>3
<1>5. PICK add \in Int : add = IF n <= room THEN n ELSE room
  OBVIOUS
<1>6. Min({n, MaxAmmo[a] - s.player[p].pool[a]}) = add
  BY <1>2, <1>4, <1>5, MinOfTwo
<1>7. PoolOnly(s, t, p, a) /\ t \in States
  BY <1>1, GiveAmmoPool DEF PoolOnly, Settled
<1>8. t.weapon = s.weapon /\ t.player[p].pool[a] = IF add < 1 THEN pool ELSE pool + add
  <2>1. CASE add < 1
    BY <1>1, <1>2, <1>6, <2>1 DEF GiveAmmo
  <2>2. CASE ~(add < 1)
    <3>1. t = [s EXCEPT !.player[p].pool[a] = @ + add]
      <4>1. CASE new = None
        BY <1>1, <1>6, <2>2, <4>1 DEF GiveAmmo, GiveEmpty
      <4>2. CASE \A c \in Exhaustible : AmmoOf[c] = a => Has(s, p, c)
        <5>1. {c \in Exhaustible : AmmoOf[c] = a /\ ~Has(s, p, c)} = {}
          BY <4>2
        <5> QED BY <1>1, <1>6, <2>2, <5>1 DEF GiveAmmo
      <4> QED BY <4>1, <4>2
    <3>2. PICK k \in Int : k = pool + add
      OBVIOUS
    <3>3. t = [s EXCEPT !.player[p].pool[a] = k]
      BY <1>2, <3>1, <3>2
    <3>4. t.weapon = s.weapon /\ t.player[p].pool[a] = k
      BY <3>3, SetPool
    <3> QED BY <2>2, <3>2, <3>4
  <2> QED BY <2>1, <2>2
<1>9. PICK m \in Nat : m = IF n > 0 THEN n ELSE 0
  OBVIOUS
<1>10. Fit(t) /\ Brings(s, t, m, a)
  <2>1. /\ pool <= t.player[p].pool[a] /\ t.player[p].pool[a] <= MaxAmmo[a]
        /\ t.player[p].pool[a] <= pool + m
    BY <1>3, <1>4, <1>5, <1>8, <1>9
  <2> QED BY <1>2, <1>7, <1>8, <2>1, MorePool
<1> QED BY <1>1, <1>7, <1>8, <1>9, <1>10

LEMMA EntryIs ==
  ASSUME NEW s \in States, NEW w \in Weapon, NEW it \in WeaponType \cup {None}
  PROVE  LET r == [s EXCEPT !.weapon[w] = it] IN
         /\ r \in States /\ r.player = s.player /\ r.weapon[w] = it
         /\ \A v \in Weapon : v # w => r.weapon[v] = s.weapon[v]
BY DEF States

\* Another entry for one weapon.
LEMMA EntryFits ==
  ASSUME NEW s \in States, Fit(s), NEW w \in Weapon, NEW t \in States, t.player = s.player,
         \A v \in Weapon : v # w => t.weapon[v] = s.weapon[v],
         t.weapon[w] # None => ClipFits(t.weapon[w]) /\ LoadFits(t, w)
  PROVE  Fit(t)
<1>1. Only(s, t, {w}, None)
  BY DEF Only
<1>2. None \notin Player
  BY Constants
<1>3. ASSUME NEW v \in Weapon, v # w, s.weapon[v] # None, Loading(s.weapon[v]) PROVE LoadFits(t, v)
  <2>1. LoadFits(s, v) /\ t.weapon[v] = s.weapon[v]
    BY <1>3 DEF Fit
  <2> QED BY <2>1 DEF LoadFits, Rounds
<1> QED BY <1>1, <1>2, <1>3, FitFrom

LEMMA EntryTotal ==
  ASSUME NEW s \in States, NEW w \in Weapon, NEW t \in States, t.player = s.player,
         \A v \in Weapon : v # w => t.weapon[v] = s.weapon[v], NEW a \in Ammo
  PROVE  TotalIn(t, a) <= TotalIn(s, a) + (RoundsIn(t.weapon[w], a) - RoundsIn(s.weapon[w], a))
<1>1. \A v \in Weapon : v # w => RoundsIn(t.weapon[v], a) <= RoundsIn(s.weapon[v], a)
  <2>1. \A v \in Weapon : RoundsIn(s.weapon[v], a) \in Int
    BY RoundsType DEF States
  <2> QED BY <2>1
<1>2. RoundsIn(t.weapon[w], a) \in Int /\ RoundsIn(s.weapon[w], a) \in Int
  BY RoundsType DEF States
<1>3. RoundsSum(t, a) <= RoundsSum(s, a) + (RoundsIn(t.weapon[w], a) - RoundsIn(s.weapon[w], a))
  BY <1>1, RoundsSumAt
<1>4. PoolSum(t, a) = PoolSum(s, a)
  BY DEF PoolSum
<1>5. /\ TotalIn(s, a) = PoolSum(s, a) + RoundsSum(s, a)
      /\ TotalIn(t, a) = PoolSum(t, a) + RoundsSum(t, a)
      /\ PoolSum(s, a) \in Int /\ RoundsSum(s, a) \in Int /\ RoundsSum(t, a) \in Int
  BY SumsType
<1> QED BY <1>2, <1>3, <1>4, <1>5

\* It fills its clip, and then the pool.
LEMMA AddPrimaryAmmoIs ==
  ASSUME NEW s \in States, Fit(s), NEW p \in Player, NEW v \in s.player[p].items,
         s.weapon[v] # None, s.weapon[v].owner = p, NEW n \in Nat, NEW new
  PROVE  LET t == AddPrimaryAmmo(s, v, n, new) IN
         /\ t \in States /\ Fit(t) /\ Brings(s, t, n, AmmoOf[s.weapon[v].class])
         /\ \A u \in Weapon : u # v => t.weapon[u] = s.weapon[u]
         /\ \E k \in Int : /\ t.weapon[v] = [s.weapon[v] EXCEPT !.clip = k]
                           /\ MaxClip[s.weapon[v].class] = NoClip => k = NoClip
<1>1. v \in Weapon /\ s.weapon[v] \in WeaponType
  BY PlayerFields, WeaponFields
<1>2. PICK c \in Class : c = s.weapon[v].class
  BY <1>1, WeaponFields
<1>3. PICK a \in Ammo : a = AmmoOf[c]
  BY Constants
<1>4. PICK clip \in Int : clip = s.weapon[v].clip
  BY <1>1, WeaponFields
<1>5. PICK max \in Int : max = MaxClip[c] /\ (max = NoClip \/ max >= 1)
  BY Constants
<1>6. PICK i \in Nat : i <= n /\ i = IF max = NoClip \/ clip # 0 THEN 0
                                     ELSE IF n <= max THEN n ELSE max
  BY <1>5
<1>7. PICK k \in Int : k = IF max = NoClip THEN NoClip ELSE clip + i
  BY DEF NoClip
<1>8. PICK m \in Nat : m = n - i
  BY <1>6
<1>9. PICK it : it = [s.weapon[v] EXCEPT !.clip = k]
  OBVIOUS
<1>10. /\ it \in WeaponType /\ it.class = c /\ it.clip = k /\ it.owner = p
       /\ it.spare = s.weapon[v].spare /\ it.think = s.weapon[v].think
       /\ it.touch = s.weapon[v].touch /\ it.pending = s.weapon[v].pending
       /\ it.stale = s.weapon[v].stale
  BY <1>1, <1>2, <1>9 DEF WeaponType
<1>11. PICK u : u = [s EXCEPT !.weapon[v] = it]
  OBVIOUS
<1>12. /\ u \in States /\ u.player = s.player /\ u.weapon[v] = it
       /\ \A x \in Weapon : x # v => u.weapon[x] = s.weapon[x]
  BY <1>1, <1>10, <1>11, EntryIs
<1>13. ClipFits(s.weapon[v]) /\ LoadFits(s, v)
  BY <1>1 DEF Fit
<1>14. ClipFits(it)
  BY <1>2, <1>4, <1>5, <1>6, <1>7, <1>10, <1>13 DEF ClipFits
<1>15. LoadFits(u, v)
  <2>1. Loading(it) => Loading(s.weapon[v]) /\ max # NoClip
    BY <1>2, <1>5, <1>10 DEF Loading
  <2>2. max # NoClip /\ k = 0 => clip = 0
    BY <1>5, <1>6, <1>7
  <2>3. Rounds(u, v) = Rounds(s, v)
    BY <1>2, <1>10, <1>12 DEF Rounds
  <2> QED BY <1>4, <1>10, <1>12, <1>13, <2>1, <2>2, <2>3 DEF LoadFits
<1>16. Fit(u)
  BY <1>1, <1>12, <1>14, <1>15, EntryFits
<1>17. ASSUME NEW b \in Ammo
       PROVE  TotalIn(u, b) <= TotalIn(s, b) + (IF b = a THEN i ELSE 0)
  <2>1. TotalIn(u, b) <= TotalIn(s, b) + (RoundsIn(it, b) - RoundsIn(s.weapon[v], b))
    BY <1>1, <1>12, EntryTotal
  <2>2. RoundsIn(it, b) <= RoundsIn(s.weapon[v], b) + (IF b = a THEN i ELSE 0)
    <3>1. it # None
      BY <1>10, NoneAssumption
    <3>2. PICK m1 \in Nat : m1 = s.weapon[v].spare
      BY <1>1, WeaponFields
    <3>3. PICK j \in Nat : j = IF b = a THEN i ELSE 0
      OBVIOUS
    <3>4. CASE it.think = "remove" \/ a # b
      <4>1. RoundsIn(it, b) = 0 /\ RoundsIn(s.weapon[v], b) = 0
        BY <1>2, <1>3, <1>10, <3>4 DEF RoundsIn
      <4> QED BY <3>3, <4>1
    <3>5. CASE it.think # "remove" /\ a = b
      <4>1. RoundsIn(it, b) = m1 + (IF max = NoClip THEN 0 ELSE k)
        BY <1>2, <1>3, <1>5, <1>10, <3>1, <3>2, <3>5 DEF RoundsIn
      <4>2. RoundsIn(s.weapon[v], b) = m1 + (IF max = NoClip THEN 0 ELSE clip)
        BY <1>2, <1>3, <1>4, <1>5, <1>10, <3>2, <3>5 DEF RoundsIn
      <4> QED BY <1>7, <3>3, <3>5, <4>1, <4>2
    <3> QED BY <3>4, <3>5
  <2>3. RoundsIn(it, b) \in Int /\ RoundsIn(s.weapon[v], b) \in Int
    BY <1>1, <1>10, RoundsType
  <2>4. TotalIn(u, b) \in Int /\ TotalIn(s, b) \in Int
    BY <1>12, SumsType
  <2>5. PICK j \in Nat : j = IF b = a THEN i ELSE 0
    OBVIOUS
  <2> QED BY <2>1, <2>2, <2>3, <2>4, <2>5
<1>18. \A d \in Exhaustible : AmmoOf[d] = a => Has(u, p, d)
  <2>1. v \in u.player[p].items /\ u.weapon[v] # None /\ u.weapon[v].class = c
    BY <1>10, <1>12, NoneAssumption
  <2> QED BY <1>3, <1>12, <2>1, HasOfKind
<1>19. PICK t : t = AddPrimaryAmmo(s, v, n, new)
  OBVIOUS
<1>20. t = GiveAmmo(u, p, m, a, new)
  <2>1. [s EXCEPT !.weapon[v].clip = k] = u
    BY <1>9, <1>11
  <2>2. CASE max = NoClip
    BY <1>2, <1>3, <1>5, <1>6, <1>7, <1>8, <1>19, <2>1, <2>2 DEF AddPrimaryAmmo
  <2>3. CASE max # NoClip
    <3>1. Min({n, max}) = IF n <= max THEN n ELSE max
      BY MinOfTwo
    <3>2. (IF s.weapon[v].clip = 0 THEN Min({n, MaxClip[s.weapon[v].class]}) ELSE 0) = i
      BY <1>2, <1>4, <1>5, <1>6, <2>3, <3>1
    <3>3. t = GiveAmmo([s EXCEPT !.weapon[v].clip = @ + i], s.weapon[v].owner, n - i, AmmoOf[c], new)
      BY <1>2, <1>5, <1>19, <2>3, <3>2, Zenon DEF AddPrimaryAmmo
    <3>4. [s EXCEPT !.weapon[v].clip = @ + i] = u
      BY <1>4, <1>7, <2>1, <2>3
    <3> QED BY <1>3, <1>8, <3>3, <3>4
  <2> QED BY <2>2, <2>3
<1>21. /\ t \in States /\ t.weapon = u.weapon /\ Fit(t)
       /\ Brings(u, t, m, a)
  <2>1. (IF m > 0 THEN m ELSE 0) = m /\ m \in Int
    OBVIOUS
  <2> QED BY <1>12, <1>16, <1>18, <1>20, <2>1, GiveAmmoIs
<1>22. Brings(s, t, n, a)
  <2>1. ASSUME NEW b \in Ammo
        PROVE  TotalIn(t, b) <= TotalIn(s, b) + (IF b = a THEN n ELSE 0)
    <3>1. TotalIn(t, b) <= TotalIn(u, b) + (IF b = a THEN m ELSE 0)
      BY <1>21 DEF Brings
    <3>2. TotalIn(t, b) \in Int /\ TotalIn(u, b) \in Int /\ TotalIn(s, b) \in Int
      BY <1>12, <1>21, SumsType
    <3> QED BY <1>8, <1>17, <3>1, <3>2
  <2>2. \A x \in Weapon : s.weapon[x] # None =>
          t.weapon[x] # None /\ t.weapon[x].class = s.weapon[x].class
    BY <1>2, <1>10, <1>12, <1>21, NoneAssumption
  <2> QED BY <2>1, <2>2 DEF Brings
<1>23. max = NoClip => k = NoClip
  BY <1>7
<1> QED BY <1>2, <1>3, <1>5, <1>9, <1>12, <1>19, <1>21, <1>22, <1>23


\* What w brings goes to v, a weapon of its class.
Emptier(it, jt) ==
  /\ jt # None /\ jt.class = it.class /\ jt.owner = it.owner /\ jt.spare = 0 /\ jt.touch = it.touch
  /\ jt.think = it.think /\ jt.pending = it.pending /\ jt.stale = it.stale

LEMMA ExtractAmmoFits ==
  ASSUME NEW s \in States, Fit(s), NEW p \in Player, NEW v \in s.player[p].items,
         s.weapon[v] # None, s.weapon[v].owner = p, NEW w \in Weapon, s.weapon[w] # None,
         s.weapon[w].class = s.weapon[v].class, s.weapon[w].think # "remove", NEW new
  PROVE  LET t == ExtractAmmo(s, w, v, new) IN
         /\ t \in States /\ Fit(t) /\ Conserves(s, t)
         /\ \A u \in Weapon : u \notin {v, w} => t.weapon[u] = s.weapon[u]
         /\ Emptier(s.weapon[w], t.weapon[w])
         /\ w # v => t.weapon[w].clip = s.weapon[w].clip
         /\ w = v /\ MaxClip[s.weapon[w].class] = NoClip => t.weapon[w].clip = NoClip
<1>1. PICK n \in Nat : n = s.weapon[w].spare
  BY WeaponFields
<1>2. v \in Weapon /\ s.weapon[v] \in WeaponType /\ s.weapon[w] \in WeaponType
  BY PlayerFields, WeaponFields
<1>3. PICK c \in Class : c = s.weapon[v].class
  BY <1>2, WeaponFields
<1>4. PICK a \in Ammo : a = AmmoOf[c]
  BY Constants
<1>5. PICK h : h = AddPrimaryAmmo(s, v, n, new)
  OBVIOUS
<1>6. /\ h \in States /\ Fit(h) /\ Brings(s, h, n, a)
      /\ \A u \in Weapon : u # v => h.weapon[u] = s.weapon[u]
      /\ \E k \in Int : /\ h.weapon[v] = [s.weapon[v] EXCEPT !.clip = k]
                        /\ MaxClip[s.weapon[v].class] = NoClip => k = NoClip
  BY <1>3, <1>4, <1>5, AddPrimaryAmmoIs
<1>7. PICK k \in Int : /\ h.weapon[v] = [s.weapon[v] EXCEPT !.clip = k]
                       /\ MaxClip[s.weapon[v].class] = NoClip => k = NoClip
  BY <1>6
<1>8. PICK jt : jt = h.weapon[w]
  OBVIOUS
<1>9. /\ jt \in WeaponType /\ jt # None /\ jt.class = c /\ jt.owner = s.weapon[w].owner
      /\ jt.spare = n /\ jt.touch = s.weapon[w].touch /\ jt.think = s.weapon[w].think
      /\ jt.pending = s.weapon[w].pending /\ jt.stale = s.weapon[w].stale
      /\ w # v => jt.clip = s.weapon[w].clip
      /\ w = v /\ MaxClip[c] = NoClip => jt.clip = NoClip
  <2>1. CASE w = v
    BY <1>1, <1>2, <1>3, <1>7, <1>8, <2>1, NoneAssumption DEF WeaponType
  <2>2. CASE w # v
    BY <1>1, <1>2, <1>3, <1>6, <1>8, <2>2, NoneAssumption DEF WeaponType
  <2> QED BY <2>1, <2>2
<1>10. PICK it : it = [jt EXCEPT !.spare = 0]
  OBVIOUS
<1>11. /\ it \in WeaponType /\ it # None /\ it.class = c /\ it.owner = jt.owner
       /\ it.spare = 0 /\ it.touch = jt.touch /\ it.think = jt.think
       /\ it.pending = jt.pending /\ it.stale = jt.stale /\ it.clip = jt.clip
  <2>1. /\ it \in WeaponType /\ it.class = c /\ it.owner = jt.owner
        /\ it.spare = 0 /\ it.touch = jt.touch /\ it.think = jt.think
        /\ it.pending = jt.pending /\ it.stale = jt.stale /\ it.clip = jt.clip
    BY <1>9, <1>10 DEF WeaponType
  <2> QED BY <2>1, NoneAssumption
<1>12. PICK t : t = [h EXCEPT !.weapon[w] = it]
  OBVIOUS
<1>13. /\ t \in States /\ t.player = h.player /\ t.weapon[w] = it
       /\ \A u \in Weapon : u # w => t.weapon[u] = h.weapon[u]
  BY <1>6, <1>11, <1>12, EntryIs
<1>14. ExtractAmmo(s, w, v, new) = t
  BY <1>1, <1>5, <1>6, <1>8, <1>10, <1>12 DEF ExtractAmmo, States
<1>15. Fit(t)
  <2>1. ClipFits(jt) /\ LoadFits(h, w)
    BY <1>6, <1>8, <1>9 DEF Fit
  <2>2. ClipFits(it)
    BY <1>9, <1>11, <2>1 DEF ClipFits
  <2>3. Rounds(t, w) = Rounds(h, w)
    BY <1>8, <1>9, <1>11, <1>13 DEF Rounds
  <2>4. LoadFits(t, w)
    BY <1>8, <1>9, <1>11, <1>13, <2>1, <2>3 DEF LoadFits, Loading
  <2> QED BY <1>6, <1>13, <2>2, <2>4, EntryFits
<1>16. ASSUME NEW b \in Ammo PROVE TotalIn(t, b) <= TotalIn(s, b)
  <2>1. TotalIn(t, b) <= TotalIn(h, b) + (RoundsIn(it, b) - RoundsIn(jt, b))
    BY <1>6, <1>8, <1>13, EntryTotal
  <2>2. TotalIn(h, b) <= TotalIn(s, b) + (IF b = a THEN n ELSE 0)
    BY <1>6 DEF Brings
  <2>3. RoundsIn(it, b) \in Int /\ RoundsIn(jt, b) \in Int
    BY <1>9, <1>11, RoundsType
  <2>4. TotalIn(t, b) \in Int /\ TotalIn(h, b) \in Int /\ TotalIn(s, b) \in Int
    BY <1>6, <1>13, SumsType
  <2>5. CASE b # a
    <3>1. RoundsIn(it, b) = 0 /\ RoundsIn(jt, b) = 0
      BY <1>4, <1>9, <1>11, <2>5 DEF RoundsIn
    <3> QED BY <2>1, <2>2, <2>4, <2>5, <3>1
  <2>6. CASE b = a
    <3>1. PICK i \in Int : i = IF MaxClip[c] = NoClip THEN 0 ELSE jt.clip
      BY <1>9, WeaponFields DEF WeaponType
    <3>2. RoundsIn(jt, b) = n + i
      BY <1>4, <1>9, <2>6, <3>1 DEF RoundsIn
    <3>3. RoundsIn(it, b) = 0 + i
      BY <1>4, <1>9, <1>11, <2>6, <3>1 DEF RoundsIn
    <3> QED BY <2>1, <2>2, <2>4, <2>6, <3>2, <3>3
  <2> QED BY <2>5, <2>6
<1>17. Conserves(s, t)
  <2>1. ASSUME NEW u \in Weapon, s.weapon[u] # None
        PROVE  t.weapon[u] # None /\ t.weapon[u].class = s.weapon[u].class
    <3>1. h.weapon[u] # None /\ h.weapon[u].class = s.weapon[u].class
      BY <2>1, <1>6 DEF Brings
    <3> QED BY <3>1, <1>8, <1>9, <1>11, <1>13
  <2> QED BY <2>1, <1>16 DEF Conserves
<1>18. \A u \in Weapon : u \notin {v, w} => t.weapon[u] = s.weapon[u]
  BY <1>6, <1>13
<1>19. Emptier(s.weapon[w], t.weapon[w])
  BY <1>3, <1>9, <1>11, <1>13 DEF Emptier
<1> QED BY <1>3, <1>9, <1>11, <1>13, <1>14, <1>15, <1>17, <1>18, <1>19


(* Picking up *)

\* What nobody has is not being reloaded.
LEMMA IdleInWorld ==
  ASSUME NEW s, NEW X, Sound(s, X), Fit(s), NEW w \in Weapon, s.weapon[w] # None,
         \A q \in Player : w \notin s.player[q].items
  PROVE  ~Loading(s.weapon[w])
<1>1. SUFFICES ASSUME Loading(s.weapon[w]) PROVE FALSE
  OBVIOUS
<1>2. PICK q \in Player : s.player[q].active = w
  BY <1>1 DEF Fit, LoadFits
<1>3. w \in s.player[q].items \cup {None}
  BY <1>2, InHandListed
<1> QED BY <1>3, Constants

LEMMA LinkFits ==
  ASSUME NEW s \in States, Fit(s), NEW p \in Player, NEW w \in Weapon, s.weapon[w] # None,
         ~Loading(s.weapon[w])
  PROVE  Fit(Link(s, p, w)) /\ Conserves(s, Link(s, p, w))
<1>1. PICK t : t = Link(s, p, w)
  OBVIOUS
<1>2. t \in States /\ \A v \in Weapon : v # w => t.weapon[v] = s.weapon[v]
  BY <1>1, LinkIs
<1>3. /\ t.weapon[w] \in WeaponType /\ t.weapon[w].class = s.weapon[w].class
      /\ t.weapon[w].spare = s.weapon[w].spare /\ SameClip(s.weapon[w], t.weapon[w])
      /\ t.weapon[w].touch = s.weapon[w].touch /\ t.weapon[w].think = s.weapon[w].think
  BY <1>1, LinkIs
<1>4. /\ t.player[p].active = s.player[p].active /\ t.player[p].pool = s.player[p].pool
      /\ \A q \in Player : q # p => t.player[q] = s.player[q]
  BY <1>1, LinkIs
<1>5. t.weapon[w] # None
  BY <1>3, NoneAssumption
<1>6. Only(s, t, {w}, p)
  BY <1>2, <1>4 DEF Only
<1>7. PoolFits(t.player[p])
  <2>1. PoolFits(s.player[p])
    BY DEF Fit
  <2> QED BY <1>4, <2>1 DEF PoolFits
<1>8. ClipFits(t.weapon[w]) /\ LoadFits(t, w)
  <2>1. ClipFits(s.weapon[w])
    BY DEF Fit
  <2>2. ~Loading(t.weapon[w])
    BY <1>3 DEF Loading, SameClip
  <2> QED BY <1>3, <2>1, <2>2 DEF ClipFits, LoadFits, SameClip
<1>9. ASSUME NEW v \in Weapon, v # w, s.weapon[v] # None, Loading(s.weapon[v]),
             s.weapon[v].owner = p
      PROVE  LoadFits(t, v)
  <2>1. LoadFits(s, v) /\ t.weapon[v] = s.weapon[v]
    BY <1>2, <1>9 DEF Fit
  <2> QED BY <1>4, <1>9, <2>1 DEF LoadFits, Rounds
<1>10. Fit(t)
  BY <1>6, <1>7, <1>8, <1>9, FitFrom
<1>11. \A v \in Weapon : Laden(s.weapon[v], t.weapon[v])
  <2>1. Laden(s.weapon[w], t.weapon[w])
    BY <1>3, <1>5 DEF Laden, SameClip
  <2> QED BY <1>2, <2>1, LadenSame
<1>12. \A q \in Player : t.player[q].pool = s.player[q].pool
  BY <1>4
<1>13. Conserves(s, t)
  BY <1>2, <1>11, <1>12, SamePools, LadenConserves
<1> QED BY <1>1, <1>10, <1>13

LEMMA AttachFits ==
  ASSUME NEW s \in States, Fit(s), NEW w \in Weapon, s.weapon[w] # None,
         s.weapon[w].think # "remove",
         MaxClip[s.weapon[w].class] = NoClip => s.weapon[w].clip = NoClip
  PROVE  Fit(Attach(s, w)) /\ Conserves(s, Attach(s, w))
<1>1. PICK t : t = Attach(s, w)
  OBVIOUS
<1>2. /\ t \in States /\ t.player = s.player
      /\ \A v \in Weapon : v # w => t.weapon[v] = s.weapon[v]
  BY <1>1, AttachIs
<1>3. /\ t.weapon[w] \in WeaponType /\ t.weapon[w].owner = s.weapon[w].owner
      /\ t.weapon[w].class = s.weapon[w].class /\ t.weapon[w].spare = s.weapon[w].spare
      /\ t.weapon[w].think = "none" /\ SameClip(s.weapon[w], t.weapon[w])
  BY <1>1, AttachIs
<1>4. t.weapon[w] # None
  BY <1>3, NoneAssumption
<1>5. ClipFits(s.weapon[w]) /\ LoadFits(s, w)
  BY DEF Fit
<1>6. ClipFits(t.weapon[w])
  BY <1>3, <1>5 DEF ClipFits, SameClip
<1>7. LoadFits(t, w)
  BY <1>2, <1>3, <1>5 DEF LoadFits, Loading, SameClip, Rounds
<1>8. Fit(t)
  BY <1>2, <1>6, <1>7, EntryFits
<1>9. \A v \in Weapon : Laden(s.weapon[v], t.weapon[v])
  <2>1. Laden(s.weapon[w], t.weapon[w])
    BY <1>3, <1>4 DEF Laden, SameClip
  <2> QED BY <1>2, <2>1, LadenSame
<1>10. Conserves(s, t)
  BY <1>2, <1>9, SamePools, LadenConserves
<1> QED BY <1>1, <1>8, <1>10

\* With a weapon go its rounds.
LEMMA KillFits ==
  ASSUME NEW s \in States, Fit(s), NEW w \in Weapon, s.weapon[w] # None
  PROVE  LET t == Kill(s, w) IN
         /\ t \in States /\ Fit(t) /\ t.player = s.player
         /\ \A v \in Weapon : v # w => t.weapon[v] = s.weapon[v]
         /\ t.weapon[w] # None /\ t.weapon[w].class = s.weapon[w].class
         /\ \A b \in Ammo : TotalIn(t, b) <= TotalIn(s, b) - RoundsIn(s.weapon[w], b)
<1>1. s.weapon[w] \in WeaponType
  BY WeaponFields
<1>2. PICK it : it = [s.weapon[w] EXCEPT !.touch = FALSE, !.think = "remove"]
  OBVIOUS
<1>3. /\ it \in WeaponType /\ it.think = "remove" /\ it.class = s.weapon[w].class
      /\ it.owner = s.weapon[w].owner /\ SameClip(s.weapon[w], it)
  BY <1>1, <1>2 DEF WeaponType, SameClip
<1>4. PICK t : t = [s EXCEPT !.weapon[w] = it]
  OBVIOUS
<1>5. Kill(s, w) = t
  BY <1>1, <1>2, <1>4 DEF Kill, States
<1>6. /\ t \in States /\ t.player = s.player /\ t.weapon[w] = it
      /\ \A v \in Weapon : v # w => t.weapon[v] = s.weapon[v]
  BY <1>3, <1>4, EntryIs
<1>7. ClipFits(s.weapon[w]) /\ LoadFits(s, w)
  BY DEF Fit
<1>8. ClipFits(it)
  BY <1>3, <1>7 DEF ClipFits, SameClip
<1>9. LoadFits(t, w)
  BY <1>3, <1>6, <1>7 DEF LoadFits, Loading, SameClip, Rounds
<1>10. Fit(t)
  BY <1>6, <1>8, <1>9, EntryFits
<1>11. ASSUME NEW b \in Ammo PROVE TotalIn(t, b) <= TotalIn(s, b) - RoundsIn(s.weapon[w], b)
  <2>1. TotalIn(t, b) <= TotalIn(s, b) + (RoundsIn(it, b) - RoundsIn(s.weapon[w], b))
    BY <1>6, EntryTotal
  <2>2. RoundsIn(it, b) = 0
    BY <1>3 DEF RoundsIn
  <2>3. RoundsIn(s.weapon[w], b) \in Int /\ TotalIn(t, b) \in Int /\ TotalIn(s, b) \in Int
    BY <1>1, <1>6, RoundsType, SumsType
  <2> QED BY <2>1, <2>2, <2>3
<1> QED BY <1>3, <1>5, <1>6, <1>10, <1>11, NoneAssumption


\* A weapon in whose clip a round is not missing that was never there.
Paid(it) == ~(it.stale /\ it.clip < 0)

LEMMA PaidRounds ==
  ASSUME NEW it \in WeaponType, ClipFits(it), Paid(it), NEW a
  PROVE  RoundsIn(it, a) \in Nat
<1>1. it.spare \in Nat /\ it.clip \in Int
  BY DEF WeaponType
<1>2. MaxClip[it.class] # NoClip => it.clip \in Nat
  BY <1>1 DEF ClipFits, Paid
<1> QED BY <1>1, <1>2 DEF RoundsIn

LEMMA KillConserves ==
  ASSUME NEW s \in States, Fit(s), NEW w \in Weapon, s.weapon[w] # None, Paid(s.weapon[w])
  PROVE  Conserves(s, Kill(s, w))
<1>1. PICK t : t = Kill(s, w)
  OBVIOUS
<1>2. /\ t \in States /\ Fit(t) /\ t.player = s.player
      /\ \A v \in Weapon : v # w => t.weapon[v] = s.weapon[v]
      /\ t.weapon[w] # None /\ t.weapon[w].class = s.weapon[w].class
      /\ \A b \in Ammo : TotalIn(t, b) <= TotalIn(s, b) - RoundsIn(s.weapon[w], b)
  BY <1>1, KillFits
<1>3. ASSUME NEW b \in Ammo PROVE TotalIn(t, b) <= TotalIn(s, b)
  <2>1. ClipFits(s.weapon[w]) /\ s.weapon[w] \in WeaponType
    BY WeaponFields DEF Fit
  <2>2. RoundsIn(s.weapon[w], b) \in Nat
    BY <2>1, PaidRounds
  <2>3. TotalIn(t, b) <= TotalIn(s, b) - RoundsIn(s.weapon[w], b)
    BY <1>2
  <2>4. TotalIn(t, b) \in Int /\ TotalIn(s, b) \in Int
    BY <1>2, SumsType
  <2> QED BY <2>2, <2>3, <2>4
<1>4. ASSUME NEW v \in Weapon, s.weapon[v] # None
      PROVE  t.weapon[v] # None /\ t.weapon[v].class = s.weapon[v].class
  BY <1>2, <1>4
<1> QED BY <1>1, <1>3, <1>4 DEF Conserves

LEMMA AddDuplicateFits ==
  ASSUME NEW s, NEW X, Sound(s, X), Fit(s), NEW p \in Player, NEW w \in Weapon,
         s.weapon[w] # None, s.weapon[w].touch \/ w \in X,
         NEW v \in s.player[p].items, s.weapon[v].class = s.weapon[w].class, NEW new
  PROVE  LET t == AddDuplicate(s, p, w, v, new) IN
         Fit(t) /\ (Paid(s.weapon[w]) => Conserves(s, t))
<1>1. /\ s \in States /\ s.weapon[v] # None /\ s.weapon[v].owner = p /\ v \in Weapon
      /\ s.weapon[w].class \in Class /\ s.weapon[w].clip \in Int /\ s.weapon[w] \in WeaponType
  <2>1. s \in States
    BY DEF Sound
  <2>2. s.weapon[v] # None /\ s.weapon[v].owner = p /\ v \in Weapon
    BY Listed
  <2> QED BY <2>1, <2>2, WeaponFields
<1>2. v # w
  BY Listed
<1>3. PICK a \in Ammo : a = AmmoOf[s.weapon[w].class]
  BY <1>1, Constants
<1>4. s.weapon[w].think # "remove"
  BY DEF Sound, Placed, Kept
<1>5. PICK t : t = AddDuplicate(s, p, w, v, new)
  OBVIOUS
<1>6. CASE s.weapon[w].spare = 0
  <2>1. PICK n \in Int : n = IF s.weapon[w].clip = NoClip THEN 0 ELSE s.weapon[w].clip
    BY <1>1
  <2>2. PICK u : u = GiveAmmo(s, p, n, a, new)
    OBVIOUS
  <2>3. \A c \in Exhaustible : AmmoOf[c] = a => Has(s, p, c)
    BY <1>1, <1>3, HasOfKind
  <2>4. PICK m \in Nat : m = IF n > 0 THEN n ELSE 0
    OBVIOUS
  <2>5. u \in States /\ u.weapon = s.weapon /\ Fit(u) /\ Brings(s, u, m, a)
    BY <1>1, <2>2, <2>3, <2>4, GiveAmmoIs
  <2>6. t = Kill(u, w)
    BY <1>3, <1>5, <1>6, <2>1, <2>2 DEF AddDuplicate, ExtractClipAmmo
  <2>7. /\ t \in States /\ Fit(t)
        /\ \A x \in Weapon : x # w => t.weapon[x] = u.weapon[x]
        /\ t.weapon[w] # None /\ t.weapon[w].class = u.weapon[w].class
        /\ \A b \in Ammo : TotalIn(t, b) <= TotalIn(u, b) - RoundsIn(u.weapon[w], b)
    BY <2>5, <2>6, KillFits
  <2>8. ASSUME Paid(s.weapon[w]), NEW b \in Ammo PROVE TotalIn(t, b) <= TotalIn(s, b)
    <3>1. TotalIn(u, b) <= TotalIn(s, b) + (IF b = a THEN m ELSE 0)
      BY <2>5 DEF Brings
    <3>2. TotalIn(t, b) <= TotalIn(u, b) - RoundsIn(s.weapon[w], b)
      BY <2>5, <2>7
    <3>3. TotalIn(t, b) \in Int /\ TotalIn(u, b) \in Int /\ TotalIn(s, b) \in Int
      BY <1>1, <2>5, <2>7, SumsType
    <3>4. ClipFits(s.weapon[w])
      BY DEF Fit
    <3>5. RoundsIn(s.weapon[w], b) = IF b = a THEN m ELSE 0
      <4>1. CASE b # a
        BY <1>3, <4>1 DEF RoundsIn
      <4>2. CASE b = a
        <5>1. RoundsIn(s.weapon[w], b) = IF MaxClip[s.weapon[w].class] = NoClip THEN 0 ELSE s.weapon[w].clip
          BY <1>1, <1>3, <1>4, <1>6, <4>2 DEF RoundsIn
        <5>2. CASE MaxClip[s.weapon[w].class] = NoClip
          BY <2>1, <2>4, <3>4, <4>2, <5>1, <5>2 DEF ClipFits, NoClip
        <5>3. CASE MaxClip[s.weapon[w].class] # NoClip
          <6>1. s.weapon[w].clip >= 0
            BY <1>1, <2>8, <3>4, <5>3 DEF ClipFits, Paid
          <6> QED BY <1>1, <2>1, <2>4, <4>2, <5>1, <5>3, <6>1 DEF NoClip
        <5> QED BY <5>2, <5>3
      <4> QED BY <4>1, <4>2
    <3> QED BY <3>1, <3>2, <3>3, <3>5
  <2>9. \A x \in Weapon : s.weapon[x] # None =>
          t.weapon[x] # None /\ t.weapon[x].class = s.weapon[x].class
    BY <2>5, <2>7
  <2> QED BY <1>5, <2>7, <2>8, <2>9 DEF Conserves
<1>7. CASE s.weapon[w].spare # 0
  <2>1. PICK e : e = ExtractAmmo(s, w, v, new)
    OBVIOUS
  <2>2. /\ e \in States /\ Fit(e) /\ Conserves(s, e) /\ Emptier(s.weapon[w], e.weapon[w])
        /\ w # v => e.weapon[w].clip = s.weapon[w].clip
    BY <1>1, <1>4, <2>1, ExtractAmmoFits
  <2>3. t \in {e, Kill(e, w)}
    BY <1>5, <1>7, <2>1 DEF AddDuplicate
  <2>4. Kill(e, w) \in States /\ Fit(Kill(e, w))
    BY <2>2, KillFits DEF Emptier
  <2>5. Paid(s.weapon[w]) => Conserves(s, Kill(e, w))
    <3>1. SUFFICES ASSUME Paid(s.weapon[w]) PROVE Conserves(s, Kill(e, w))
      OBVIOUS
    <3>2. Paid(e.weapon[w]) /\ e.weapon[w] # None
      BY <1>2, <2>2, <3>1 DEF Paid, Emptier
    <3>3. Conserves(e, Kill(e, w))
      BY <2>2, <3>2, KillConserves
    <3> QED BY <1>1, <2>2, <2>4, <3>3, ConservesTrans
  <2> QED BY <1>5, <2>2, <2>3, <2>4, <2>5
<1> QED BY <1>6, <1>7


LEMMA PickedUpFits ==
  ASSUME NEW s, NEW X, Sound(s, X), Fit(s), NEW p \in Player, NEW w \in Weapon,
         s.weapon[w] # None, s.weapon[w].touch \/ w \in X, NEW new,
         NEW t, t = Attach(ExtractAmmo(Link(s, p, w), w, w, new), w)
  PROVE  t \in States /\ Fit(t) /\ Conserves(s, t)
<1>1. s \in States /\ \A q \in Player : w \notin s.player[q].items
  BY Listed DEF Sound
<1>2. s.weapon[w].think # "remove" /\ ~Loading(s.weapon[w])
  <2>1. Placed(s, X, w)
    BY DEF Sound
  <2>2. w \in X => Kept(s.weapon[w])
    BY DEF Sound
  <2>3. s.weapon[w].think # "remove"
    BY <2>1, <2>2 DEF Placed, Kept
  <2> QED BY <1>1, <2>3, IdleInWorld
<1>3. PICK l : l = Link(s, p, w)
  OBVIOUS
<1>4. /\ l \in States /\ l.weapon[w] # None /\ l.weapon[w].owner = p
      /\ l.weapon[w].think = s.weapon[w].think /\ w \in l.player[p].items
  BY <1>1, <1>3, LinkIs, NoneAssumption
<1>5. Fit(l) /\ Conserves(s, l)
  BY <1>1, <1>2, <1>3, LinkFits
<1>6. PICK e : e = ExtractAmmo(l, w, w, new)
  OBVIOUS
<1>7. /\ e \in States /\ Fit(e) /\ Conserves(l, e) /\ Emptier(l.weapon[w], e.weapon[w])
      /\ MaxClip[l.weapon[w].class] = NoClip => e.weapon[w].clip = NoClip
  BY <1>2, <1>4, <1>5, <1>6, ExtractAmmoFits
<1>8. /\ e.weapon[w] # None /\ e.weapon[w].think # "remove"
      /\ MaxClip[e.weapon[w].class] = NoClip => e.weapon[w].clip = NoClip
  BY <1>2, <1>4, <1>7 DEF Emptier
<1>9. t = Attach(e, w)
  BY <1>3, <1>6
<1>10. t \in States /\ Fit(t) /\ Conserves(e, t)
  BY <1>7, <1>8, <1>9, AttachFits, AttachIs
<1>11. Conserves(s, e)
  BY <1>1, <1>4, <1>5, <1>7, ConservesTrans
<1> QED BY <1>1, <1>7, <1>10, <1>11, ConservesTrans

LEMMA AddPlayerItemFits ==
  ASSUME NEW s, NEW X, Sound(s, X), ArmedIn(s), Fit(s), NEW p \in Player, NEW w \in Weapon,
         s.weapon[w] # None, s.weapon[w].touch \/ w \in X, NEW auto, NEW new
  PROVE  LET t == AddPlayerItem(s, p, w, auto, new) IN
         Fit(t) /\ (Paid(s.weapon[w]) => Conserves(s, t))
<1>1. PICK same : same = {v \in s.player[p].items : s.weapon[v].class = s.weapon[w].class}
  OBVIOUS
<1>2. PICK added : added = Attach(ExtractAmmo(Link(s, p, w), w, w, new), w)
  OBVIOUS
<1>3. PICK t : t = AddPlayerItem(s, p, w, auto, new)
  OBVIOUS
<1>4. CASE same # {}
  <2>1. PICK v : v = CHOOSE u \in same : TRUE
    OBVIOUS
  <2>2. v \in s.player[p].items /\ s.weapon[v].class = s.weapon[w].class
    BY <1>1, <1>4, <2>1
  <2>3. t = AddDuplicate(s, p, w, v, new)
    BY <1>1, <1>3, <1>4, <2>1 DEF AddPlayerItem
  <2> QED BY <1>3, <2>2, <2>3, AddDuplicateFits
<1>5. CASE same = {}
  <2>1. Sound(added, X \ {w})
    <3>1. \A v \in s.player[p].items : s.weapon[v].class # s.weapon[w].class
      BY <1>1, <1>5
    <3> QED BY <1>2, <3>1, PickedUp
  <2>2. t \in {added, SwitchWeapon(added, p, w)}
    BY <1>1, <1>2, <1>3, <1>5 DEF AddPlayerItem
  <2>3. added \in States /\ Fit(added) /\ Conserves(s, added)
    BY <1>2, PickedUpFits
  <2>4. /\ Fit(SwitchWeapon(added, p, w)) /\ Conserves(added, SwitchWeapon(added, p, w))
        /\ SwitchWeapon(added, p, w) \in States
    <3>1. Fit(SwitchWeapon(added, p, w)) /\ Conserves(added, SwitchWeapon(added, p, w))
      BY <2>1, <2>3, SwitchFits
    <3>2. SwitchWeapon(added, p, w) \in States
      BY <2>1, <2>3, WieldSettled DEF SwitchWeapon, Settled
    <3> QED BY <3>1, <3>2
  <2>5. s \in States
    BY DEF Sound
  <2> QED BY <1>3, <2>2, <2>3, <2>4, <2>5, ConservesTrans
<1> QED BY <1>4, <1>5


\* The weapon that comes with its ammunition brings nothing else.
LEMMA GiveEmptyFits ==
  ASSUME NEW s \in States, Fit(s), NEW p \in Player, NEW c \in Class, MaxClip[c] = NoClip,
         NEW new \in Weapon, s.weapon[new] = None
  PROVE  LET t == GiveEmpty(s, p, c, new) IN
         /\ t \in States /\ Fit(t) /\ Conserves(s, t)
         /\ \A v \in Weapon : v # new => t.weapon[v] = s.weapon[v]
<1>1. None \notin Weapon
  BY Constants
<1>2. PICK it : it = [Fresh(c) EXCEPT !.spare = 0, !.clip = NoClip]
  OBVIOUS
<1>3. it \in WeaponType /\ it.class = c /\ it.spare = 0 /\ it # None /\ it.clip = NoClip
      /\ it.think = "none"
  <2>1. DefaultAmmo[c] \in Nat
    BY Constants
  <2>2. Fresh(c) \in WeaponType /\ Fresh(c).class = c /\ Fresh(c).think = "none"
    BY <2>1 DEF Fresh, WeaponType
  <2>3. NoClip \in Int
    BY DEF NoClip
  <2>4. it \in WeaponType /\ it.class = c /\ it.spare = 0 /\ it.clip = NoClip /\ it.think = "none"
    BY <1>2, <2>2, <2>3 DEF WeaponType
  <2> QED BY <2>4, NoneAssumption
<1>4. PICK m : m = [s EXCEPT !.weapon[new] = it]
  OBVIOUS
<1>5. /\ m \in States /\ m.player = s.player /\ m.weapon[new] = it
      /\ \A v \in Weapon : v # new => m.weapon[v] = s.weapon[v]
  BY <1>3, <1>4, EntryIs
<1>6. ~Loading(it) /\ ClipFits(it)
  BY <1>3 DEF Loading, ClipFits
<1>7. Fit(m)
  <2>1. LoadFits(m, new)
    BY <1>5, <1>6 DEF LoadFits
  <2> QED BY <1>5, <1>6, <2>1, EntryFits
<1>8. ASSUME NEW a \in Ammo PROVE TotalIn(m, a) <= TotalIn(s, a)
  <2>1. TotalIn(m, a) <= TotalIn(s, a) + (RoundsIn(it, a) - RoundsIn(s.weapon[new], a))
    BY <1>5, EntryTotal
  <2>2. RoundsIn(it, a) = 0 /\ RoundsIn(s.weapon[new], a) = 0
    BY <1>3 DEF RoundsIn
  <2>3. TotalIn(m, a) \in Int /\ TotalIn(s, a) \in Int
    BY <1>5, SumsType
  <2> QED BY <2>1, <2>2, <2>3
<1>9. Conserves(s, m)
  BY <1>5, <1>8 DEF Conserves
<1>10. PICK l : l = Link(m, p, new)
  OBVIOUS
<1>11. /\ l \in States /\ l.weapon[new] # None /\ l.weapon[new].class = c
       /\ l.weapon[new].clip = NoClip /\ l.weapon[new].think = "none"
       /\ \A v \in Weapon : v # new => l.weapon[v] = m.weapon[v]
  <2>1. SameClip(m.weapon[new], l.weapon[new])
    BY <1>3, <1>5, <1>10, LinkIs
  <2> QED BY <1>3, <1>5, <1>10, <2>1, LinkIs, NoneAssumption DEF SameClip
<1>12. Fit(l) /\ Conserves(m, l)
  BY <1>3, <1>5, <1>6, <1>7, <1>10, LinkFits
<1>13. PICK t : t = Attach(l, new)
  OBVIOUS
<1>14. t \in States /\ \A v \in Weapon : v # new => t.weapon[v] = l.weapon[v]
  BY <1>11, <1>13, AttachIs
<1>15. Fit(t) /\ Conserves(l, t)
  BY <1>11, <1>12, <1>13, AttachFits
<1>16. GiveEmpty(s, p, c, new) = t
  BY <1>1, <1>2, <1>4, <1>10, <1>13 DEF GiveEmpty
<1>17. Conserves(s, t)
  <2>1. Conserves(s, l)
    BY <1>5, <1>9, <1>11, <1>12, ConservesTrans
  <2> QED BY <1>11, <1>14, <1>15, <2>1, ConservesTrans
<1>18. \A v \in Weapon : v # new => t.weapon[v] = s.weapon[v]
  BY <1>5, <1>11, <1>14
<1> QED BY <1>14, <1>15, <1>16, <1>17, <1>18

LEMMA GiveAmmoFits ==
  ASSUME NEW s, NEW X, Sound(s, X), ArmedIn(s), Fit(s), NEW p \in Player, NEW n \in Int,
         NEW a \in Ammo, NEW new \in Weapon \cup {None}, new # None => s.weapon[new] = None
  PROVE  LET t == GiveAmmo(s, p, n, a, new) IN
         /\ t \in States /\ Fit(t) /\ Brings(s, t, IF n > 0 THEN n ELSE 0, a)
         /\ \A v \in Weapon : s.weapon[v] # None => t.weapon[v] = s.weapon[v]
<1>1. s \in States
  BY DEF Sound
<1>2. PICK missing : missing = {c \in Exhaustible : AmmoOf[c] = a /\ ~Has(s, p, c)}
  OBVIOUS
<1>3. CASE missing = {} \/ new = None
  <2>1. new = None \/ \A c \in Exhaustible : AmmoOf[c] = a => Has(s, p, c)
    BY <1>2, <1>3
  <2>2. LET t == GiveAmmo(s, p, n, a, new) IN
        /\ t \in States /\ t.weapon = s.weapon /\ Fit(t)
        /\ Brings(s, t, IF n > 0 THEN n ELSE 0, a)
    BY <1>1, <2>1, GiveAmmoIs
  <2> QED BY <2>2
<1>4. CASE missing # {} /\ new # None
  <2>1. PICK d : d = CHOOSE c \in missing : TRUE
    OBVIOUS
  <2>2. d \in Exhaustible /\ d \in Class /\ MaxClip[d] = NoClip
    BY <1>2, <1>4, <2>1, Constants
  <2>3. new \in Weapon /\ s.weapon[new] = None
    BY <1>4
  <2>4. PICK t : t = GiveEmpty(s, p, d, new)
    OBVIOUS
  <2>5. /\ t \in States /\ Fit(t) /\ Conserves(s, t)
        /\ \A v \in Weapon : v # new => t.weapon[v] = s.weapon[v]
    BY <1>1, <2>2, <2>3, <2>4, GiveEmptyFits
  <2>6. t.player[p].pool = s.player[p].pool
    BY <2>2, <2>3, <2>4, GiveEmptyIs
  <2>7. PICK r : r = GiveAmmo(t, p, n, a, None)
    OBVIOUS
  <2>8. PICK m \in Nat : m = IF n > 0 THEN n ELSE 0
    OBVIOUS
  <2>9. r \in States /\ r.weapon = t.weapon /\ Fit(r) /\ Brings(t, r, m, a)
    BY <2>5, <2>7, <2>8, GiveAmmoIs
  <2>10. PICK add : add = Min({n, MaxAmmo[a] - s.player[p].pool[a]})
    OBVIOUS
  <2>11. CASE add < 1
    <3>1. GiveAmmo(s, p, n, a, new) = s
      BY <2>10, <2>11 DEF GiveAmmo
    <3>2. Brings(s, s, m, a)
      <4>1. ASSUME NEW b \in Ammo PROVE TotalIn(s, b) <= TotalIn(s, b) + (IF b = a THEN m ELSE 0)
        <5>1. TotalIn(s, b) \in Int
          BY <1>1, SumsType
        <5> QED BY <5>1
      <4> QED BY <4>1 DEF Brings
    <3> QED BY <1>1, <2>8, <3>1, <3>2
  <2>12. CASE ~(add < 1)
    <3>1. GiveAmmo(s, p, n, a, new) = [t EXCEPT !.player[p].pool[a] = @ + add]
      BY <1>2, <1>4, <2>1, <2>4, <2>10, <2>12 DEF GiveAmmo
    <3>2. r = [t EXCEPT !.player[p].pool[a] = @ + add]
      BY <2>6, <2>7, <2>10, <2>12 DEF GiveAmmo, GiveEmpty
    <3>3. ASSUME NEW b \in Ammo PROVE TotalIn(r, b) <= TotalIn(s, b) + (IF b = a THEN m ELSE 0)
      <4>1. TotalIn(r, b) <= TotalIn(t, b) + (IF b = a THEN m ELSE 0)
        BY <2>9 DEF Brings
      <4>2. TotalIn(t, b) <= TotalIn(s, b)
        BY <2>5 DEF Conserves
      <4>3. TotalIn(r, b) \in Int /\ TotalIn(t, b) \in Int /\ TotalIn(s, b) \in Int
        BY <1>1, <2>5, <2>9, SumsType
      <4> QED BY <4>1, <4>2, <4>3
    <3>4. \A v \in Weapon : s.weapon[v] # None => r.weapon[v] = s.weapon[v]
      BY <2>3, <2>5, <2>9
    <3>5. Brings(s, r, m, a)
      BY <3>3, <3>4 DEF Brings
    <3> QED BY <2>8, <2>9, <3>1, <3>2, <3>4, <3>5
  <2> QED BY <2>11, <2>12
<1> QED BY <1>3, <1>4


(* Giving away *)

\* What a player has that uses his pool has no clip.
LEMMA HeldClip ==
  ASSUME NEW s, NEW X, Sound(s, X), Fit(s), NEW p \in Player, NEW w \in s.player[p].items,
         MaxClip[s.weapon[w].class] = NoClip
  PROVE  s.weapon[w].clip = NoClip
<1>1. w \in Weapon /\ s.weapon[w] # None /\ ~s.weapon[w].touch /\ s.weapon[w].think # "remove"
  BY Listed
<1>2. ClipFits(s.weapon[w])
  BY <1>1 DEF Fit
<1> QED BY <1>1, <1>2 DEF ClipFits

LEMMA PackedFits ==
  ASSUME NEW s, NEW X, Sound(s, X), Fit(s), NEW p \in Player, NEW w \in s.player[p].items,
         NEW t, Packed(s, t, w, p)
  PROVE  t \in States /\ Fit(t) /\ Conserves(s, t) /\ t.weapon[w].clip = s.weapon[w].clip
<1>1. /\ s \in States /\ w \in Weapon /\ s.weapon[w] # None /\ s.weapon[w].owner = p
      /\ s.weapon[w].think # "remove" /\ s.weapon[w].spare = 0
  BY Listed DEF Sound
<1>2. /\ t \in States /\ \A v \in Weapon : v # w => t.weapon[v] = s.weapon[v]
      /\ \A q \in Player : t.player[q].pool = s.player[q].pool
      /\ \A q \in Player : q # p => t.player[q].active = s.player[q].active
      /\ t.player[p].active = (IF s.player[p].active = w THEN None ELSE s.player[p].active)
  BY DEF Packed, Outside
<1>3. /\ t.weapon[w] # None /\ t.weapon[w].think # "remove" /\ t.weapon[w].spare = 0
      /\ t.weapon[w].class = s.weapon[w].class
      /\ SameRounds(s.weapon[w], t.weapon[w], s.player[p].active = w)
  BY DEF Packed, Kept
<1>4. Only(s, t, {w}, p)
  BY <1>2 DEF Only
<1>5. PoolFits(t.player[p])
  <2>1. PoolFits(s.player[p])
    BY DEF Fit
  <2> QED BY <1>2, <2>1 DEF PoolFits
<1>6. ClipFits(s.weapon[w]) /\ LoadFits(s, w)
  BY <1>1 DEF Fit
<1>7. ClipFits(t.weapon[w])
  <2>1. MaxClip[s.weapon[w].class] = NoClip => s.weapon[w].clip = NoClip
    BY HeldClip
  <2>2. s.weapon[w].stale => t.weapon[w].stale
    BY <1>3 DEF SameRounds, Stowed
  <2> QED BY <1>3, <1>6, <2>1, <2>2 DEF ClipFits, SameRounds
<1>8. LoadFits(t, w)
  <2>1. ~Loading(t.weapon[w])
    <3>1. CASE s.player[p].active = w
      BY <1>3, <3>1 DEF Loading, SameRounds, Stowed
    <3>2. CASE s.player[p].active # w
      <4>1. ~Loading(s.weapon[w])
        BY <1>1, <1>6, <3>2 DEF LoadFits
      <4> QED BY <1>3, <3>2, <4>1 DEF Loading, SameRounds
    <3> QED BY <3>1, <3>2
  <2> QED BY <2>1 DEF LoadFits
<1>9. ASSUME NEW v \in Weapon, v # w, s.weapon[v] # None, Loading(s.weapon[v]),
             s.weapon[v].owner = p
      PROVE  LoadFits(t, v)
  <2>1. LoadFits(s, v) /\ t.weapon[v] = s.weapon[v]
    BY <1>2, <1>9 DEF Fit
  <2>2. s.player[p].active = v
    BY <1>9, <2>1 DEF LoadFits
  <2> QED BY <1>2, <1>9, <2>1, <2>2 DEF LoadFits, Rounds
<1>10. Fit(t)
  BY <1>1, <1>4, <1>5, <1>7, <1>8, <1>9, FitFrom
<1>11. \A v \in Weapon : Laden(s.weapon[v], t.weapon[v])
  <2>1. Laden(s.weapon[w], t.weapon[w])
    BY <1>1, <1>3 DEF Laden, SameRounds
  <2> QED BY <1>2, <2>1, LadenSame
<1>12. Conserves(s, t)
  BY <1>1, <1>2, <1>11, SamePools, LadenConserves
<1> QED BY <1>2, <1>3, <1>10, <1>12 DEF SameRounds

LEMMA RemoveAllFits ==
  ASSUME NEW s, NEW X, Sound(s, X), Fit(s), NEW p \in Player
  PROVE  LET t == RemoveAllItems(s, p) IN
         /\ t \in States /\ Fit(t)
         /\ (\A v \in s.player[p].items : Paid(s.weapon[v])) =>
              /\ Conserves(s, t)
              /\ \A a \in Ammo : TotalIn(t, a) <= TotalIn(s, a) - s.player[p].pool[a]
<1>1. s \in States
  BY DEF Sound
<1>2. PICK h : h = Holster(s, s.player[p].active)
  OBVIOUS
<1>3. /\ h \in States /\ h.player = s.player /\ Fit(h)
      /\ \A v \in Weapon : Laden(s.weapon[v], h.weapon[v])
      /\ \A v \in Weapon : h.weapon[v] # None /\ Loading(h.weapon[v]) => h.weapon[v].owner # p
  BY <1>2, HolsterFits
<1>4. Settled(s, h)
  BY <1>2, InHandListed, HolsterSettled
<1>5. PICK t : t = RemoveAllItems(s, p)
  OBVIOUS
<1>6. PICK W : W = s.player[p].items
  OBVIOUS
<1>7. /\ t \in States
      /\ \A v \in Weapon : t.weapon[v] = IF v \in W THEN Drop(h.weapon[v]) ELSE h.weapon[v]
      /\ \A a \in Ammo : t.player[p].pool[a] = 0
      /\ \A q \in Player : q # p => t.player[q] = s.player[q]
  BY <1>2, <1>5, <1>6, RemoveAllIs
<1>8. ASSUME NEW v \in W
      PROVE  /\ v \in Weapon /\ s.weapon[v] # None /\ s.weapon[v] \in WeaponType
             /\ h.weapon[v] # None /\ h.weapon[v].owner = p /\ h.weapon[v] \in WeaponType
  <2>1. v \in Weapon /\ s.weapon[v] # None /\ s.weapon[v] \in WeaponType /\ s.weapon[v].owner = p
    BY <1>6, Listed
  <2>2. Alike(s.weapon[v], h.weapon[v])
    BY <1>4, <2>1 DEF Settled
  <2>3. h.weapon[v] # None /\ h.weapon[v].owner = p
    BY <2>1, <2>2 DEF Alike
  <2> QED BY <1>3, <2>1, <2>3, WeaponFields
<1>9. ASSUME NEW v \in W
      PROVE  /\ t.weapon[v] \in WeaponType /\ t.weapon[v].think = "remove"
             /\ t.weapon[v].class = h.weapon[v].class /\ SameClip(h.weapon[v], t.weapon[v])
  <2>1. t.weapon[v] = Drop(h.weapon[v])
    BY <1>7, <1>8
  <2>2. h.weapon[v] \in WeaponType
    BY <1>8
  <2> QED BY <2>1, <2>2 DEF WeaponType, Drop, SameClip
<1>10. Only(h, t, W, p)
  BY <1>3, <1>7 DEF Only
<1>11. PoolFits(t.player[p])
  <2>1. \A a \in Ammo : MaxAmmo[a] \in Nat
    BY Constants
  <2> QED BY <1>7, <2>1 DEF PoolFits
<1>12. ASSUME NEW v \in W PROVE ClipFits(t.weapon[v]) /\ LoadFits(t, v)
  <2>1. ClipFits(h.weapon[v]) /\ ~Loading(h.weapon[v])
    BY <1>3, <1>8 DEF Fit
  <2> QED BY <1>9, <2>1 DEF ClipFits, Loading, LoadFits, SameClip
<1>13. \A v \in Weapon : (/\ v \notin W /\ h.weapon[v] # None
                          /\ Loading(h.weapon[v]) /\ h.weapon[v].owner = p) => LoadFits(t, v)
  BY <1>3
<1>14. Fit(t)
  BY <1>3, <1>10, <1>11, <1>12, <1>13, FitFrom
<1>15. ASSUME \A v \in W : Paid(s.weapon[v])
       PROVE  /\ Conserves(s, t)
              /\ \A a \in Ammo : TotalIn(t, a) <= TotalIn(s, a) - s.player[p].pool[a]
  <2>1. ASSUME NEW v \in Weapon, NEW a \in Ammo
        PROVE  RoundsIn(t.weapon[v], a) <= RoundsIn(s.weapon[v], a)
    <3>1. RoundsIn(h.weapon[v], a) = RoundsIn(s.weapon[v], a) /\ RoundsIn(s.weapon[v], a) \in Int
      BY <1>1, <1>3, LadenRounds, RoundsType DEF States
    <3>2. CASE v \in W
      <4>1. ClipFits(s.weapon[v])
        BY <1>8, <3>2 DEF Fit
      <4>2. RoundsIn(s.weapon[v], a) \in Nat
        BY <1>8, <1>15, <3>2, <4>1, PaidRounds
      <4>3. RoundsIn(t.weapon[v], a) = 0
        BY <1>9, <3>2 DEF RoundsIn
      <4> QED BY <4>2, <4>3
    <3>3. CASE v \notin W
      BY <1>7, <3>1, <3>3
    <3> QED BY <3>2, <3>3
  <2>2. ASSUME NEW q \in Player, NEW a \in Ammo
        PROVE  t.player[q].pool[a] <= s.player[q].pool[a]
    <3>1. s.player[q].pool[a] \in 0..MaxAmmo[a] /\ MaxAmmo[a] \in Int
      BY Constants DEF Fit, PoolFits
    <3> QED BY <1>7, <3>1
  <2>3. ASSUME NEW v \in Weapon, s.weapon[v] # None
        PROVE  t.weapon[v] # None /\ t.weapon[v].class = s.weapon[v].class
    <3>1. h.weapon[v] # None /\ h.weapon[v].class = s.weapon[v].class
      BY <1>3, <2>3 DEF Laden
    <3>2. CASE v \in W
      BY <1>9, <3>1, <3>2, NoneAssumption
    <3>3. CASE v \notin W
      BY <1>7, <3>1, <3>3
    <3> QED BY <3>2, <3>3
  <2>4. Conserves(s, t)
    BY <1>1, <1>7, <2>1, <2>2, <2>3, ConservesAll
  <2>5. ASSUME NEW a \in Ammo PROVE TotalIn(t, a) <= TotalIn(s, a) - s.player[p].pool[a]
    <3>1. RoundsSum(t, a) <= RoundsSum(s, a)
      BY <1>1, <1>7, <2>1, RoundsSumAll
    <3>2. PoolSum(t, a) <= PoolSum(s, a) + (t.player[p].pool[a] - s.player[p].pool[a])
      BY <1>1, <1>7, <2>2, PoolSumAt
    <3>3. /\ TotalIn(s, a) = PoolSum(s, a) + RoundsSum(s, a)
          /\ TotalIn(t, a) = PoolSum(t, a) + RoundsSum(t, a)
          /\ PoolSum(s, a) \in Int /\ RoundsSum(s, a) \in Int
          /\ PoolSum(t, a) \in Int /\ RoundsSum(t, a) \in Int
      BY <1>1, <1>7, SumsType
    <3>4. s.player[p].pool[a] \in Int /\ t.player[p].pool[a] = 0
      BY <1>1, <1>7, PlayerFields
    <3> QED BY <3>1, <3>2, <3>3, <3>4
  <2> QED BY <2>4, <2>5
<1> QED BY <1>5, <1>6, <1>7, <1>14, <1>15


(* The weapon in hand *)

\* Another entry for one weapon, and another pool for one player.
LEMMA SwapTotal ==
  ASSUME NEW s \in States, NEW t \in States, NEW w \in Weapon, NEW p \in Player,
         \A v \in Weapon : v # w => t.weapon[v] = s.weapon[v],
         NEW b \in Ammo, \A q \in Player : q # p => t.player[q].pool[b] = s.player[q].pool[b]
  PROVE  TotalIn(t, b) <= TotalIn(s, b) + (RoundsIn(t.weapon[w], b) - RoundsIn(s.weapon[w], b))
                          + (t.player[p].pool[b] - s.player[p].pool[b])
<1>1. \A v \in Weapon : v # w => RoundsIn(t.weapon[v], b) <= RoundsIn(s.weapon[v], b)
  <2>1. \A v \in Weapon : RoundsIn(s.weapon[v], b) \in Int
    BY RoundsType DEF States
  <2> QED BY <2>1
<1>2. \A q \in Player : q # p => t.player[q].pool[b] <= s.player[q].pool[b]
  <2>1. \A q \in Player : s.player[q].pool[b] \in Int
    BY PlayerFields
  <2> QED BY <2>1
<1>3. RoundsSum(t, b) <= RoundsSum(s, b) + (RoundsIn(t.weapon[w], b) - RoundsIn(s.weapon[w], b))
  BY <1>1, RoundsSumAt
<1>4. PoolSum(t, b) <= PoolSum(s, b) + (t.player[p].pool[b] - s.player[p].pool[b])
  BY <1>2, PoolSumAt
<1>5. /\ TotalIn(s, b) = PoolSum(s, b) + RoundsSum(s, b)
      /\ TotalIn(t, b) = PoolSum(t, b) + RoundsSum(t, b)
      /\ PoolSum(s, b) \in Int /\ RoundsSum(s, b) \in Int
      /\ PoolSum(t, b) \in Int /\ RoundsSum(t, b) \in Int
  BY SumsType
<1>6. RoundsIn(t.weapon[w], b) \in Int /\ RoundsIn(s.weapon[w], b) \in Int
  BY RoundsType DEF States
<1>7. t.player[p].pool[b] \in Int /\ s.player[p].pool[b] \in Int
  BY PlayerFields
<1> QED BY <1>3, <1>4, <1>5, <1>6, <1>7

\* Who has w in hand is loading nothing else.
LEMMA HandFits ==
  ASSUME NEW s \in States, Fit(s), NEW p \in Player, NEW w, s.player[p].active = w,
         NEW t, Only(s, t, {w}, p), PoolFits(t.player[p]),
         t.weapon[w] # None => ClipFits(t.weapon[w]) /\ LoadFits(t, w)
  PROVE  Fit(t)
<1>1. \A v \in Weapon : v # w /\ s.weapon[v] # None /\ Loading(s.weapon[v]) => s.weapon[v].owner # p
  BY DEF Fit, LoadFits
<1> QED BY <1>1, FitFrom

\* There is a round less than there is room for only for the handgun with nothing to load.
LEMMA LoadIs ==
  ASSUME NEW s \in States, Fit(s), NEW p \in Player, NEW w \in Weapon, s.weapon[w] # None,
         s.weapon[w].owner = p, MaxClip[s.weapon[w].class] # NoClip
  PROVE  /\ Load(s, w) \in Int /\ Rounds(s, w) \in Nat /\ Load(s, w) <= Rounds(s, w)
         /\ s.weapon[w].clip + Load(s, w) <= MaxClip[s.weapon[w].class]
         /\ \/ Load(s, w) >= 0
            \/ Load(s, w) = -1 /\ s.weapon[w].clip = 0 /\ Rounds(s, w) = 0
<1>1. s.weapon[w].class \in Class /\ AmmoOf[s.weapon[w].class] \in Ammo
  BY WeaponFields, Constants
<1>2. PICK clip \in Int : clip = s.weapon[w].clip
  BY WeaponFields
<1>3. PICK max \in Int : max = MaxClip[s.weapon[w].class] /\ max >= 1
  BY <1>1, Constants
<1>4. PICK rounds \in Nat : rounds = Rounds(s, w)
  <2>1. s.player[p].pool[AmmoOf[s.weapon[w].class]] \in 0..MaxAmmo[AmmoOf[s.weapon[w].class]]
    BY <1>1 DEF Fit, PoolFits
  <2>2. MaxAmmo[AmmoOf[s.weapon[w].class]] \in Int
    BY <1>1, Constants
  <2>3. Rounds(s, w) = s.player[p].pool[AmmoOf[s.weapon[w].class]]
    BY DEF Rounds
  <2>4. Rounds(s, w) \in Nat
    BY <2>1, <2>2, <2>3
  <2> QED BY <2>4
<1>5. clip <= max
  <2>1. ClipFits(s.weapon[w])
    BY DEF Fit
  <2> QED BY <1>2, <1>3, <2>1 DEF ClipFits
<1>6. PICK k \in Nat : k = max - clip
  BY <1>5
<1>7. PICK j \in Nat : j = IF k <= rounds THEN k ELSE rounds
  OBVIOUS
<1>8. Min({MaxClip[s.weapon[w].class] - s.weapon[w].clip, Rounds(s, w)}) = j
  BY <1>2, <1>3, <1>4, <1>6, <1>7, MinOfTwo
<1>9. Load(s, w) = j \/ (clip = 0 /\ rounds # 1 /\ Load(s, w) = j - 1)
  <2>1. Load(s, w) = j \/ (s.weapon[w].clip = 0 /\ Rounds(s, w) # 1 /\ Load(s, w) = j - 1)
    BY <1>8, Zenon DEF Load
  <2> QED BY <1>2, <1>4, <2>1
<1> QED BY <1>2, <1>3, <1>4, <1>6, <1>7, <1>9


\* No reload makes a round, but that of a stale handgun in whose clip it is missing.
LEMMA ReloadFits ==
  ASSUME NEW s, NEW X, Sound(s, X), Fit(s), NEW p \in Player, NEW w \in s.player[p].items,
         s.player[p].active = w
  PROVE  LET t == ReloadSetAmmos(s, w) IN
         /\ t \in States /\ Fit(t) /\ Conserves(s, t)
         /\ \A v \in Weapon : v # w => t.weapon[v] = s.weapon[v]
         /\ MaxClip[s.weapon[w].class] # NoClip => ~t.weapon[w].pending
         /\ MaxClip[s.weapon[w].class] = NoClip => t = s
<1>1. /\ s \in States /\ w \in Weapon /\ s.weapon[w] # None /\ s.weapon[w] \in WeaponType
      /\ s.weapon[w].owner = p /\ s.weapon[w].think # "remove" /\ s.weapon[w].spare = 0
  BY Listed DEF Sound
<1>2. PICK c \in Class : c = s.weapon[w].class
  BY <1>1, WeaponFields
<1>3. PICK a \in Ammo : a = AmmoOf[c]
  BY Constants
<1>4. PICK t : t = ReloadSetAmmos(s, w)
  OBVIOUS
<1>5. CASE MaxClip[c] = NoClip \/ ~s.weapon[w].pending
  <2>1. t = s
    BY <1>2, <1>4, <1>5 DEF ReloadSetAmmos
  <2> QED BY <1>1, <1>2, <1>4, <1>5, <2>1, ConservesSame
<1>6. CASE MaxClip[c] # NoClip /\ s.weapon[w].pending
  <2>1. PICK load \in Int : load = Load(s, w)
    BY <1>1, <1>2, <1>6, LoadIs
  <2>2. PICK rounds \in Nat : rounds = Rounds(s, w)
    BY <1>1, <1>2, <1>6, LoadIs
  <2>3. PICK clip \in Int : clip = s.weapon[w].clip
    BY <1>1, WeaponFields
  <2>4. PICK max \in Int : max = MaxClip[c] /\ max >= 1
    BY <1>6, Constants
  <2>5. /\ load <= rounds /\ clip + load <= max
        /\ load >= 0 \/ (load = -1 /\ clip = 0 /\ rounds = 0)
    BY <1>1, <1>2, <1>6, <2>1, <2>2, <2>3, <2>4, LoadIs
  <2>6. PICK stale \in BOOLEAN : stale = (s.weapon[w].stale /\ clip + load < 0)
    OBVIOUS
  <2>7. PICK it : it = Loaded(s.weapon[w], load)
    OBVIOUS
  <2>8. /\ it \in WeaponType /\ it.class = c /\ it.owner = p /\ it.spare = 0
        /\ it.think = s.weapon[w].think /\ it.clip = clip + load /\ ~it.pending
        /\ it.stale = stale
    <3>1. PICK i \in Int : i = clip + load
      OBVIOUS
    <3>2. it = [s.weapon[w] EXCEPT !.clip = i, !.pending = FALSE, !.stale = stale]
      BY <2>3, <2>6, <2>7, <3>1 DEF Loaded
    <3> QED BY <1>1, <1>2, <3>1, <3>2 DEF WeaponType
  <2>9. it # None
    BY <2>8, NoneAssumption
  <2>10. PICK k : k = [s EXCEPT !.weapon[w] = it]
    OBVIOUS
  <2>11. /\ k \in States /\ k.player = s.player /\ k.weapon[w] = it
         /\ \A v \in Weapon : v # w => k.weapon[v] = s.weapon[v]
    <3>1. s \in States /\ w \in Weapon /\ it \in WeaponType \cup {None}
      BY <1>1, <2>8
    <3>2. LET r == [s EXCEPT !.weapon[w] = it] IN
          /\ r \in States /\ r.player = s.player /\ r.weapon[w] = it
          /\ \A v \in Weapon : v # w => r.weapon[v] = s.weapon[v]
      BY <3>1, EntryIs
    <3> QED BY <2>10, <3>2
  <2>12. PICK left \in Int : left = rounds - load
    OBVIOUS
  <2>13. PICK u : u = [k EXCEPT !.player[p].pool[a] = left]
    OBVIOUS
  <2>14. PoolOnly(k, u, p, a) /\ u.weapon = k.weapon /\ u.player[p].pool[a] = left
    <3>1. LET r == [k EXCEPT !.player[p].pool[a] = left] IN
          PoolOnly(k, r, p, a) /\ r.weapon = k.weapon /\ r.player[p].pool[a] = left
      BY <2>11, SetPool
    <3> QED BY <2>13, <3>1
  <2>15. t = u
    <3>1. Rounds(s, w) = s.player[p].pool[a]
      BY <1>1, <1>2, <1>3 DEF Rounds
    <3>2. t = [s EXCEPT !.weapon[w] = it, !.player[p].pool[a] = rounds - load]
      BY <1>1, <1>2, <1>3, <1>4, <1>6, <2>1, <2>2, <2>7, <3>1 DEF ReloadSetAmmos
    <3>3. [s EXCEPT !.weapon[w] = it, !.player[p].pool[a] = rounds - load] = u
      BY <2>10, <2>12, <2>13
    <3> QED BY <3>2, <3>3
  <2>16. u \in States /\ Only(k, u, {}, p)
    BY <2>11, <2>14, OnlyPool DEF PoolOnly, Settled
  <2>17. Only(s, u, {w}, p)
    BY <2>11, <2>14, <2>16 DEF Only
  <2>18. ASSUME NEW b \in Ammo, b # a PROVE u.player[p].pool[b] = s.player[p].pool[b]
    BY <2>11, <2>14, <2>18 DEF PoolOnly
  <2>19. s.player[p].pool[a] = rounds
    BY <1>1, <1>2, <1>3, <2>2 DEF Rounds
  <2>20. PoolFits(u.player[p])
    <3>1. PoolFits(s.player[p]) /\ MaxAmmo[a] \in Int /\ MaxAmmo[a] >= 1
      BY Constants DEF Fit
    <3>2. rounds \in 0..MaxAmmo[a]
      BY <2>19, <3>1 DEF PoolFits
    <3>3. left \in 0..MaxAmmo[a]
      BY <2>5, <2>12, <3>1, <3>2
    <3> QED BY <2>14, <2>18, <3>1, <3>3 DEF PoolFits
  <2>21. ClipFits(s.weapon[w]) /\ LoadFits(s, w)
    BY <1>1 DEF Fit
  <2>22. ClipFits(it)
    <3>1. s.weapon[w].stale \in BOOLEAN /\ (clip >= 0 \/ s.weapon[w].stale)
      BY <1>1, <1>2, <1>6, <2>3, <2>21, WeaponFields DEF ClipFits
    <3>2. s.weapon[w].stale \/ clip # 0 \/ rounds > 0
      BY <1>2, <1>6, <2>2, <2>3, <2>21 DEF LoadFits, Loading
    <3>3. clip + load >= 0 \/ stale
      BY <2>5, <2>6, <3>1, <3>2
    <3> QED BY <1>6, <2>4, <2>5, <2>8, <3>3 DEF ClipFits
  <2>23. LoadFits(u, w)
    BY <2>8, <2>11, <2>14 DEF LoadFits, Loading
  <2>24. Fit(u)
    BY <1>1, <2>11, <2>14, <2>17, <2>20, <2>22, <2>23, HandFits
  <2>25. ASSUME NEW b \in Ammo PROVE TotalIn(u, b) <= TotalIn(s, b)
    <3>1. \A q \in Player : q # p => u.player[q].pool[b] = s.player[q].pool[b]
      BY <2>11, <2>14 DEF PoolOnly
    <3>2. \A v \in Weapon : v # w => u.weapon[v] = s.weapon[v]
      BY <2>11, <2>14
    <3>3. TotalIn(u, b) <= TotalIn(s, b) + (RoundsIn(u.weapon[w], b) - RoundsIn(s.weapon[w], b))
                           + (u.player[p].pool[b] - s.player[p].pool[b])
      BY <1>1, <2>16, <3>1, <3>2, SwapTotal
    <3>4. TotalIn(u, b) \in Int /\ TotalIn(s, b) \in Int
      BY <1>1, <2>16, SumsType
    <3>5. u.weapon[w] = it
      BY <2>11, <2>14
    <3>6. CASE b # a
      <4>1. RoundsIn(it, b) = 0 /\ RoundsIn(s.weapon[w], b) = 0
        BY <1>2, <1>3, <2>8, <3>6 DEF RoundsIn
      <4>2. PICK i \in Int : i = s.player[p].pool[b] /\ i = u.player[p].pool[b]
        BY <1>1, <2>18, <3>6, PlayerFields
      <4> QED BY <3>3, <3>4, <3>5, <4>1, <4>2
    <3>7. CASE b = a
      <4>1. RoundsIn(it, b) = 0 + (clip + load)
        BY <1>1, <1>3, <1>6, <2>8, <2>9, <3>7 DEF RoundsIn
      <4>2. RoundsIn(s.weapon[w], b) = 0 + clip
        BY <1>1, <1>2, <1>3, <1>6, <2>3, <3>7 DEF RoundsIn
      <4> QED BY <2>12, <2>14, <2>19, <3>3, <3>4, <3>5, <3>7, <4>1, <4>2
    <3> QED BY <3>6, <3>7
  <2>26. \A v \in Weapon : s.weapon[v] # None =>
           u.weapon[v] # None /\ u.weapon[v].class = s.weapon[v].class
    BY <1>2, <2>8, <2>9, <2>11, <2>14
  <2> QED BY <1>2, <1>4, <1>6, <2>8, <2>11, <2>14, <2>15, <2>16, <2>24, <2>25, <2>26 DEF Conserves
<1> QED BY <1>2, <1>5, <1>6


\* After switching, a player is loading nothing.
LEMMA WieldIdle ==
  ASSUME NEW s, NEW X, Sound(s, X), Fit(s), NEW p \in Player, NEW w \in Weapon \cup {None}
  PROVE  LET t == Wield(s, p, w) IN
         \A v \in Weapon : t.weapon[v] # None /\ Loading(t.weapon[v]) => t.weapon[v].owner # p
<1>1. PICK h : h = Holster(s, s.player[p].active)
  OBVIOUS
<1>2. /\ h \in States
      /\ \A v \in Weapon : h.weapon[v] # None /\ Loading(h.weapon[v]) => h.weapon[v].owner # p
  BY <1>1, HolsterFits
<1>3. Wield(s, p, w).weapon = h.weapon
  BY <1>1, <1>2 DEF Wield, States
<1> QED BY <1>2, <1>3

\* Only what players do not have in hand and have no rounds in has changed of them.
LEMMA PlayersFits ==
  ASSUME NEW s \in States, Fit(s), NEW t \in States, t.weapon = s.weapon,
         \A q \in Player : /\ t.player[q].active = s.player[q].active
                           /\ t.player[q].pool = s.player[q].pool
  PROVE  Fit(t) /\ Conserves(s, t)
<1>1. Only(s, t, {}, None) /\ None \notin Player
  BY Constants DEF Only
<1>2. ASSUME NEW v \in Weapon, s.weapon[v] # None, Loading(s.weapon[v]) PROVE LoadFits(t, v)
  <2>1. LoadFits(s, v)
    BY <1>2 DEF Fit
  <2>2. s.weapon[v].owner \in Player
    BY <1>2, <2>1 DEF LoadFits
  <2> QED BY <1>2, <2>1, <2>2 DEF LoadFits, Rounds
<1>3. Fit(t)
  BY <1>1, <1>2, FitFrom
<1>4. Conserves(s, t)
  BY SamePools, LadenSame, LadenConserves
<1> QED BY <1>3, <1>4

(***************************************************************************)
(* No step makes ammunition                                                *)
(***************************************************************************)

Stocked == Fit(now) /\ (box # None => box.rounds >= 0)

NoneMade == \A a \in Ammo : Total(a)' <= Total(a)

LEMMA PaidUp ==
  ASSUME ~Owing
  PROVE  \A w \in Weapon : now.weapon[w] # None => Paid(now.weapon[w])
BY NowIs DEF Owing, Free, Paid

LEMMA BoxRounds ==
  ASSUME Inv, Stocked, NEW a \in Ammo
  PROVE  RoundsInBox(a) \in Nat
BY BoxedFacts DEF RoundsInBox, Stocked

\* What is in the box stays there.
LEMMA TotalKept ==
  ASSUME Inv, Stocked, NEW s \in States, Become(s), UNCHANGED box,
         \A a \in Ammo : TotalIn(s, a) <= TotalIn(now, a),
         \A v \in Boxed : s.weapon[v] # None /\ s.weapon[v].class = now.weapon[v].class
  PROVE  NoneMade
<1>1. now' = s
  BY BecomeIs
<1>2. Sound(now, Boxed) /\ now \in States
  BY BoxedFacts
<1>3. ASSUME NEW a \in Ammo PROVE Total(a)' <= Total(a)
  <2>1. RoundsInBox(a)' = RoundsInBox(a)
    <3>1. CASE box # None /\ box.weapon # None
      <4>1. box.weapon \in Boxed
        BY <3>1 DEF Boxed
      <4>2. weapon[box.weapon] # None
        BY <1>2, <4>1, NowIs DEF Sound, Kept
      <4>3. weapon'[box.weapon] # None /\ weapon'[box.weapon].class = weapon[box.weapon].class
        BY <4>1, NowIs DEF Become
      <4> QED BY <4>2, <4>3 DEF RoundsInBox
    <3>2. CASE ~(box # None /\ box.weapon # None)
      BY <3>2 DEF RoundsInBox
    <3> QED BY <3>1, <3>2
  <2>2. RoundsInBox(a) \in Int
    BY BoxRounds
  <2>3. TotalIn(s, a) \in Int /\ TotalIn(now, a) \in Int /\ TotalIn(s, a) <= TotalIn(now, a)
    BY <1>2, SumsType
  <2>4. Total(a)' = TotalIn(s, a) + RoundsInBox(a) /\ Total(a) = TotalIn(now, a) + RoundsInBox(a)
    BY <1>1, <2>1 DEF Total
  <2> QED BY <2>2, <2>3, <2>4
<1> QED BY <1>3 DEF NoneMade

LEMMA ConservesKept ==
  ASSUME Inv, Stocked, NEW s \in States, Become(s), UNCHANGED box, Conserves(now, s)
  PROVE  NoneMade
<1>1. Sound(now, Boxed)
  BY BoxedFacts
<1>2. ASSUME NEW v \in Boxed
      PROVE  s.weapon[v] # None /\ s.weapon[v].class = now.weapon[v].class
  <2>1. v \in Weapon /\ now.weapon[v] # None
    BY <1>1 DEF Sound, Kept
  <2> QED BY <2>1 DEF Conserves
<1> QED BY <1>2, TotalKept DEF Conserves

LEMMA FitStocked ==
  ASSUME Stocked, NEW s \in States, Become(s), UNCHANGED box, Fit(s)
  PROVE  Stocked'
<1>1. now' = s
  BY BecomeIs
<1> QED BY <1>1 DEF Stocked


\* The weapon in hand when its frame comes: its reload is done, with no round made.
LEMMA ReadyFits ==
  ASSUME Inv, Stocked, NEW p \in Player, player[p].active # None
  PROVE  LET s == Ready(p)
             w == player[p].active
         IN /\ s \in States /\ Sound(s, Boxed) /\ Fit(s) /\ Conserves(now, s)
            /\ w \in Weapon /\ w \in s.player[p].items /\ s.player[p].active = w
            /\ s.weapon[w] \in WeaponType /\ s.weapon[w].owner = p
            /\ s.weapon[w].class = weapon[w].class
            /\ MaxClip[weapon[w].class] # NoClip => ~s.weapon[w].pending
            /\ MaxClip[weapon[w].class] = NoClip => s = now
<1>1. PICK w : w = player[p].active
  OBVIOUS
<1>2. PICK s : s = Ready(p)
  OBVIOUS
<1>3. /\ Sound(s, Boxed) /\ PoolOnly(now, s, p, AmmoOf[weapon[w].class])
      /\ w \in Weapon /\ w \in s.player[p].items /\ s.weapon[w].class = weapon[w].class
  BY <1>1, <1>2, ReadyIs
<1>4. /\ now.weapon = weapon /\ now.player = player /\ Sound(now, Boxed) /\ Fit(now)
  BY NowIs, BoxedFacts DEF Stocked
<1>5. w \in now.player[p].items /\ now.player[p].active = w
  BY <1>1, <1>3, <1>4 DEF PoolOnly, Settled
<1>6. s = ReloadSetAmmos(now, w)
  BY <1>1, <1>2 DEF Ready
<1>7. /\ s \in States /\ Fit(s) /\ Conserves(now, s)
      /\ MaxClip[now.weapon[w].class] # NoClip => ~s.weapon[w].pending
      /\ MaxClip[now.weapon[w].class] = NoClip => s = now
  BY <1>4, <1>5, <1>6, ReloadFits
<1>8. s.player[p].active = w
  BY <1>3, <1>5 DEF PoolOnly
<1>9. s.weapon[w] \in WeaponType /\ s.weapon[w].owner = p
  BY <1>3, Listed
<1> QED BY <1>1, <1>2, <1>3, <1>4, <1>7, <1>8, <1>9

\* A shot takes a round out of the clip, a throw one out of the pool.
LEMMA PrimaryAttackKeeps ==
  ASSUME Inv, Stocked, NEW p \in Player, PrimaryAttack(p)
  PROVE  Stocked' /\ NoneMade
<1>1. PICK w : w = player[p].active
  OBVIOUS
<1>2. PICK s : s = Ready(p)
  OBVIOUS
<1>3. PICK a : a = AmmoOf[weapon[w].class]
  OBVIOUS
<1>4. w # None /\ UNCHANGED box
  BY <1>1 DEF PrimaryAttack, InHand
<1>5. /\ s \in States /\ Sound(s, Boxed) /\ Fit(s) /\ Conserves(now, s)
      /\ w \in Weapon /\ w \in s.player[p].items /\ s.player[p].active = w
      /\ s.weapon[w] \in WeaponType /\ s.weapon[w].owner = p
      /\ s.weapon[w].class = weapon[w].class
      /\ MaxClip[weapon[w].class] # NoClip => ~s.weapon[w].pending
  BY <1>1, <1>2, <1>4, ReadyFits
<1>6. s.weapon[w] # None /\ s.weapon[w].think # "remove" /\ now \in States
  BY <1>5, Listed, BoxedFacts
<1>7. PICK c \in Class : c = weapon[w].class
  BY <1>5, <1>6, WeaponFields
<1>8. a \in Ammo
  BY <1>3, <1>7, Constants
<1>9. ClipFits(s.weapon[w])
  BY <1>5, <1>6 DEF Fit
<1>10. PICK clip \in Int : clip = s.weapon[w].clip
  BY <1>5, <1>6, WeaponFields
<1>11. PICK spare \in Nat : spare = s.weapon[w].spare
  BY <1>5, <1>6, WeaponFields
<1>12. \/ /\ MaxClip[c] # NoClip /\ clip > 0
          /\ Become([s EXCEPT !.weapon[w].clip = @ - 1])
       \/ /\ MaxClip[c] = NoClip /\ Rounds(s, w) # 0
          /\ Become([s EXCEPT !.weapon[w].pending = TRUE, !.player[p].pool[a] = @ - 1])
  BY <1>1, <1>2, <1>3, <1>7, <1>10, Zenon DEF PrimaryAttack
<1>13. CASE /\ MaxClip[c] # NoClip /\ clip > 0
            /\ Become([s EXCEPT !.weapon[w].clip = @ - 1])
  <2>1. PICK i \in Int : i = clip - 1
    OBVIOUS
  <2>2. PICK it : it = [s.weapon[w] EXCEPT !.clip = i]
    OBVIOUS
  <2>3. /\ it \in WeaponType /\ it.class = c /\ it.spare = spare /\ it.think # "remove"
        /\ it.clip = i /\ it.pending = s.weapon[w].pending
    BY <1>5, <1>6, <1>7, <1>11, <2>2 DEF WeaponType
  <2>4. PICK t : t = [s EXCEPT !.weapon[w] = it]
    OBVIOUS
  <2>5. /\ t \in States /\ t.player = s.player /\ t.weapon[w] = it
        /\ \A v \in Weapon : v # w => t.weapon[v] = s.weapon[v]
    <3>1. it \in WeaponType \cup {None}
      BY <2>3
    <3>2. LET r == [s EXCEPT !.weapon[w] = it] IN
          /\ r \in States /\ r.player = s.player /\ r.weapon[w] = it
          /\ \A v \in Weapon : v # w => r.weapon[v] = s.weapon[v]
      BY <1>5, <3>1, EntryIs
    <3> QED BY <2>4, <3>2
  <2>6. Become(t)
    <3>1. [s EXCEPT !.weapon[w].clip = @ - 1] = t
      BY <1>10, <2>1, <2>2, <2>4
    <3> QED BY <1>13, <3>1
  <2>7. ClipFits(it)
    BY <1>5, <1>7, <1>9, <1>10, <1>13, <2>1, <2>3, Constants DEF ClipFits
  <2>8. LoadFits(t, w)
    BY <1>5, <1>7, <1>13, <2>3, <2>5 DEF LoadFits, Loading
  <2>9. Fit(t)
    BY <1>5, <2>5, <2>7, <2>8, EntryFits
  <2>10. it # None
    BY <2>3, NoneAssumption
  <2>11. ASSUME NEW b \in Ammo PROVE TotalIn(t, b) <= TotalIn(s, b)
    <3>1. TotalIn(t, b) <= TotalIn(s, b) + (RoundsIn(it, b) - RoundsIn(s.weapon[w], b))
      BY <1>5, <2>5, EntryTotal
    <3>2. TotalIn(t, b) \in Int /\ TotalIn(s, b) \in Int
      BY <1>5, <2>5, SumsType
    <3>3. RoundsIn(it, b) = IF a = b THEN spare + i ELSE 0
      BY <1>3, <1>7, <1>13, <2>3, <2>10 DEF RoundsIn
    <3>4. RoundsIn(s.weapon[w], b) = IF a = b THEN spare + clip ELSE 0
      BY <1>3, <1>5, <1>6, <1>7, <1>10, <1>11, <1>13 DEF RoundsIn
    <3> QED BY <2>1, <3>1, <3>2, <3>3, <3>4
  <2>12. Conserves(s, t)
    BY <1>5, <1>7, <2>3, <2>5, <2>10, <2>11 DEF Conserves
  <2>13. Conserves(now, t)
    BY <1>5, <1>6, <2>5, <2>12, ConservesTrans
  <2> QED BY <1>4, <2>5, <2>6, <2>9, <2>13, FitStocked, ConservesKept
<1>14. CASE /\ MaxClip[c] = NoClip /\ Rounds(s, w) # 0
            /\ Become([s EXCEPT !.weapon[w].pending = TRUE, !.player[p].pool[a] = @ - 1])
  <2>1. PICK rounds \in Int : rounds = s.player[p].pool[a]
    BY <1>5, <1>8, PlayerFields
  <2>2. rounds # 0 /\ MaxAmmo[a] \in Int /\ rounds \in 0..MaxAmmo[a]
    <3>1. Rounds(s, w) = rounds
      BY <1>3, <1>5, <1>7, <2>1 DEF Rounds
    <3>2. PoolFits(s.player[p])
      BY <1>5 DEF Fit
    <3> QED BY <1>8, <1>14, <2>1, <3>1, <3>2, Constants DEF PoolFits
  <2>3. PICK it : it = [s.weapon[w] EXCEPT !.pending = TRUE]
    OBVIOUS
  <2>4. /\ it \in WeaponType /\ it.class = c /\ it.spare = spare /\ it.think = s.weapon[w].think
        /\ it.clip = clip /\ it.touch = s.weapon[w].touch /\ it.stale = s.weapon[w].stale
    BY <1>5, <1>7, <1>10, <1>11, <2>3 DEF WeaponType
  <2>5. PICK k : k = [s EXCEPT !.weapon[w] = it]
    OBVIOUS
  <2>6. /\ k \in States /\ k.player = s.player /\ k.weapon[w] = it
        /\ \A v \in Weapon : v # w => k.weapon[v] = s.weapon[v]
    <3>1. it \in WeaponType \cup {None}
      BY <2>4
    <3>2. LET r == [s EXCEPT !.weapon[w] = it] IN
          /\ r \in States /\ r.player = s.player /\ r.weapon[w] = it
          /\ \A v \in Weapon : v # w => r.weapon[v] = s.weapon[v]
      BY <1>5, <3>1, EntryIs
    <3> QED BY <2>5, <3>2
  <2>7. PICK left \in Int : left = rounds - 1
    OBVIOUS
  <2>8. PICK t : t = [k EXCEPT !.player[p].pool[a] = left]
    OBVIOUS
  <2>9. PoolOnly(k, t, p, a) /\ t.weapon = k.weapon /\ t.player[p].pool[a] = left
    <3>1. LET r == [k EXCEPT !.player[p].pool[a] = left] IN
          PoolOnly(k, r, p, a) /\ r.weapon = k.weapon /\ r.player[p].pool[a] = left
      BY <1>8, <2>6, SetPool
    <3> QED BY <2>8, <3>1
  <2>10. t \in States /\ Only(k, t, {}, p)
    BY <2>6, <2>9, OnlyPool DEF PoolOnly, Settled
  <2>11. Become(t)
    <3>1. [s EXCEPT !.weapon[w].pending = TRUE, !.player[p].pool[a] = @ - 1] = t
      BY <2>1, <2>3, <2>5, <2>6, <2>7, <2>8
    <3> QED BY <1>14, <3>1
  <2>12. Only(s, t, {w}, p)
    BY <2>6, <2>9, <2>10 DEF Only
  <2>13. ASSUME NEW b \in Ammo, b # a PROVE t.player[p].pool[b] = s.player[p].pool[b]
    BY <2>6, <2>9, <2>13 DEF PoolOnly
  <2>14. PoolFits(t.player[p])
    <3>1. PoolFits(s.player[p])
      BY <1>5 DEF Fit
    <3> QED BY <2>2, <2>7, <2>9, <2>13, <3>1 DEF PoolFits
  <2>15. ClipFits(it) /\ LoadFits(t, w)
    BY <1>5, <1>7, <1>9, <1>10, <1>14, <2>4, <2>6, <2>9 DEF ClipFits, LoadFits, Loading
  <2>16. Fit(t)
    BY <1>5, <2>6, <2>9, <2>12, <2>14, <2>15, HandFits
  <2>17. Laden(s.weapon[w], it)
    BY <1>5, <1>6, <1>7, <1>10, <1>11, <2>4, NoneAssumption DEF Laden
  <2>18. \A v \in Weapon : Laden(s.weapon[v], t.weapon[v])
    BY <2>6, <2>9, <2>17, LadenSame
  <2>19. ASSUME NEW q \in Player, NEW b \in Ammo
         PROVE  t.player[q].pool[b] <= s.player[q].pool[b]
    <3>1. s.player[q].pool[b] \in Int
      BY <1>5, PlayerFields
    <3>2. CASE q # p \/ b # a
      BY <2>6, <2>9, <3>1, <3>2 DEF PoolOnly
    <3>3. CASE q = p /\ b = a
      BY <2>1, <2>7, <2>9, <3>3
    <3> QED BY <3>2, <3>3
  <2>20. Conserves(s, t)
    BY <1>5, <2>10, <2>18, <2>19, LadenConserves
  <2>21. Conserves(now, t)
    BY <1>5, <1>6, <2>10, <2>20, ConservesTrans
  <2> QED BY <1>4, <2>10, <2>11, <2>16, <2>21, FitStocked, ConservesKept
<1> QED BY <1>12, <1>13, <1>14


\* Another entry for a weapon that holds what it did.
LEMMA SameEntry ==
  ASSUME NEW s \in States, Fit(s), NEW w \in Weapon, s.weapon[w] # None, NEW it \in WeaponType,
         it.class = s.weapon[w].class, it.owner = s.weapon[w].owner,
         it.clip = s.weapon[w].clip, it.spare = s.weapon[w].spare,
         it.touch = s.weapon[w].touch, it.stale = s.weapon[w].stale,
         it.think = "remove" <=> s.weapon[w].think = "remove",
         Loading(it) => Loading(s.weapon[w]) \/ (/\ it.owner \in Player
                                                 /\ s.player[it.owner].active = w
                                                 /\ Rounds(s, w) > 0)
  PROVE  LET t == [s EXCEPT !.weapon[w] = it] IN
         t \in States /\ Fit(t) /\ Conserves(s, t)
<1>1. PICK t : t = [s EXCEPT !.weapon[w] = it]
  OBVIOUS
<1>2. /\ t \in States /\ t.player = s.player /\ t.weapon[w] = it
      /\ \A v \in Weapon : v # w => t.weapon[v] = s.weapon[v]
  <2>1. it \in WeaponType \cup {None}
    OBVIOUS
  <2>2. LET r == [s EXCEPT !.weapon[w] = it] IN
        /\ r \in States /\ r.player = s.player /\ r.weapon[w] = it
        /\ \A v \in Weapon : v # w => r.weapon[v] = s.weapon[v]
    BY <2>1, EntryIs
  <2> QED BY <1>1, <2>2
<1>3. ClipFits(s.weapon[w]) /\ LoadFits(s, w)
  BY DEF Fit
<1>4. ClipFits(it)
  BY <1>3 DEF ClipFits
<1>5. LoadFits(t, w)
  BY <1>2, <1>3 DEF LoadFits, Rounds
<1>6. Fit(t)
  BY <1>2, <1>4, <1>5, EntryFits
<1>7. Laden(s.weapon[w], it)
  BY NoneAssumption DEF Laden
<1>8. \A v \in Weapon : Laden(s.weapon[v], t.weapon[v])
  BY <1>2, <1>7, LadenSame
<1>9. Conserves(s, t)
  BY <1>2, <1>8, SamePools, LadenConserves
<1> QED BY <1>1, <1>2, <1>6, <1>9

LEMMA ReloadKeeps ==
  ASSUME Inv, Stocked, NEW p \in Player, Reload(p)
  PROVE  Stocked' /\ NoneMade
<1>1. PICK w : w = player[p].active
  OBVIOUS
<1>2. PICK s : s = Ready(p)
  OBVIOUS
<1>3. w # None /\ UNCHANGED box
  BY <1>1 DEF Reload, InHand
<1>4. /\ s \in States /\ Sound(s, Boxed) /\ Fit(s) /\ Conserves(now, s)
      /\ w \in Weapon /\ w \in s.player[p].items /\ s.player[p].active = w
      /\ s.weapon[w] \in WeaponType /\ s.weapon[w].owner = p
      /\ s.weapon[w].class = weapon[w].class
  BY <1>1, <1>2, <1>3, ReadyFits
<1>5. s.weapon[w] # None /\ now \in States /\ MaxClip[s.weapon[w].class] # NoClip
  BY <1>1, <1>4, Listed, BoxedFacts DEF Reload
<1>6. PICK it : it = [s.weapon[w] EXCEPT !.pending = TRUE]
  OBVIOUS
<1>7. PICK t : t = [s EXCEPT !.weapon[w] = it]
  OBVIOUS
<1>8. Become(s) \/ (DefaultReload(s, w) /\ Become(t))
  <2>1. Become(IF DefaultReload(s, w) THEN [s EXCEPT !.weapon[w].pending = TRUE] ELSE s)
    BY <1>1, <1>2, Zenon DEF Reload
  <2>2. [s EXCEPT !.weapon[w].pending = TRUE] = t
    BY <1>6, <1>7
  <2> QED BY <2>1, <2>2
<1>9. CASE Become(s)
  BY <1>3, <1>4, <1>9, FitStocked, ConservesKept
<1>10. CASE DefaultReload(s, w) /\ Become(t)
  <2>1. Rounds(s, w) > 0
    <3>1. Rounds(s, w) \in Nat
      BY <1>4, <1>5, LoadIs
    <3>2. PICK k \in Int : k = MaxClip[s.weapon[w].class] - s.weapon[w].clip
      BY <1>4, <1>5, WeaponFields, Constants
    <3>3. Min({k, Rounds(s, w)}) = IF k <= Rounds(s, w) THEN k ELSE Rounds(s, w)
      BY <3>1, MinOfTwo
    <3> QED BY <1>10, <3>1, <3>2, <3>3 DEF DefaultReload
  <2>2. /\ it \in WeaponType /\ it.class = s.weapon[w].class /\ it.owner = s.weapon[w].owner
        /\ it.clip = s.weapon[w].clip /\ it.spare = s.weapon[w].spare
        /\ it.touch = s.weapon[w].touch /\ it.stale = s.weapon[w].stale
        /\ it.think = s.weapon[w].think
    BY <1>4, <1>6 DEF WeaponType
  <2>3. LET r == [s EXCEPT !.weapon[w] = it] IN r \in States /\ Fit(r) /\ Conserves(s, r)
    BY <1>4, <1>5, <2>1, <2>2, SameEntry
  <2>4. t \in States /\ Fit(t) /\ Conserves(now, t)
    BY <1>4, <1>5, <1>7, <2>3, ConservesTrans
  <2> QED BY <1>3, <1>10, <2>4, FitStocked, ConservesKept
<1> QED BY <1>8, <1>9, <1>10

LEMMA SwitchKeeps ==
  ASSUME Inv, Stocked, NEW s, NEW X, Sound(s, X), Fit(s), Conserves(now, s), NEW p \in Player,
         NEW w \in Weapon \cup {None}, Become(SwitchWeapon(s, p, w)), UNCHANGED box
  PROVE  Stocked' /\ NoneMade
<1>1. PICK t : t = SwitchWeapon(s, p, w)
  OBVIOUS
<1>2. s \in States /\ now \in States
  BY BoxedFacts DEF Sound
<1>3. Fit(t) /\ Conserves(s, t)
  BY <1>1, SwitchFits
<1>4. t \in States
  <2>1. Wield(s, p, w) \in States
    BY WieldSettled DEF Settled
  <2> QED BY <1>1, <1>2, <2>1 DEF SwitchWeapon
<1>5. Conserves(now, t)
  BY <1>2, <1>3, <1>4, ConservesTrans
<1> QED BY <1>1, <1>3, <1>4, <1>5, FitStocked, ConservesKept

LEMMA DiscardKeeps ==
  ASSUME Inv, Stocked, NEW p \in Player, Discard(p)
  PROVE  Stocked' /\ NoneMade
<1>1. PICK s : s = Ready(p)
  OBVIOUS
<1>2. player[p].active # None /\ UNCHANGED box
  BY DEF Discard, InHand
<1>3. Sound(s, Boxed) /\ Fit(s) /\ Conserves(now, s)
  BY <1>1, <1>2, ReadyFits
<1>4. PICK to \in NextBest(s, p, player[p].active) : Become(SwitchWeapon(s, p, to))
  BY <1>1 DEF Discard
<1>5. to \in Weapon
  BY <1>3, <1>4, NextBestListed, Listed
<1> QED BY <1>2, <1>3, <1>4, <1>5, SwitchKeeps

LEMMA WeaponIdleKeeps ==
  ASSUME Inv, Stocked, NEW p \in Player, WeaponIdle(p)
  PROVE  Stocked' /\ NoneMade
<1>1. PICK w : w = player[p].active
  OBVIOUS
<1>2. PICK s : s = Ready(p)
  OBVIOUS
<1>3. w # None /\ UNCHANGED box
  BY <1>1 DEF WeaponIdle, InHand
<1>4. /\ s \in States /\ Sound(s, Boxed) /\ Fit(s) /\ Conserves(now, s)
      /\ w \in Weapon /\ w \in s.player[p].items /\ s.weapon[w] \in WeaponType
      /\ s.weapon[w].class = weapon[w].class
  BY <1>1, <1>2, <1>3, ReadyFits
<1>5. s.weapon[w] # None /\ s.weapon[w].think \in {"none", "retire"} /\ now \in States
  BY <1>4, Listed, WeaponFields, BoxedFacts
<1>6. PICK think \in {"none", "retire"} :
        think = IF Rounds(now, w) = 0 THEN "retire" ELSE s.weapon[w].think
  BY <1>5
<1>7. PICK it : it = [s.weapon[w] EXCEPT !.pending = FALSE, !.think = think]
  OBVIOUS
<1>8. PICK t : t = [s EXCEPT !.weapon[w] = it]
  OBVIOUS
<1>9. Become(s) \/ Become(t)
  <2>1. Become(s) \/ Become([s EXCEPT !.weapon[w].pending = FALSE,
                      !.weapon[w].think = IF Rounds(now, w) = 0 THEN "retire" ELSE @])
    BY <1>1, <1>2, Zenon DEF WeaponIdle
  <2>2. [s EXCEPT !.weapon[w].pending = FALSE,
                  !.weapon[w].think = IF Rounds(now, w) = 0 THEN "retire" ELSE @] = t
    BY <1>4, <1>6, <1>7, <1>8 DEF WeaponType, States
  <2> QED BY <2>1, <2>2
<1>10. CASE Become(s)
  BY <1>3, <1>4, <1>10, FitStocked, ConservesKept
<1>11. CASE Become(t)
  <2>1. /\ it \in WeaponType /\ it.class = s.weapon[w].class /\ it.owner = s.weapon[w].owner
        /\ it.clip = s.weapon[w].clip /\ it.spare = s.weapon[w].spare
        /\ it.touch = s.weapon[w].touch /\ it.stale = s.weapon[w].stale
        /\ it.think = think /\ ~it.pending
    BY <1>4, <1>7 DEF WeaponType
  <2>2. ~Loading(it) /\ it.think # "remove" /\ s.weapon[w].think # "remove"
    BY <1>5, <2>1 DEF Loading
  <2>3. LET r == [s EXCEPT !.weapon[w] = it] IN r \in States /\ Fit(r) /\ Conserves(s, r)
    BY <1>4, <1>5, <2>1, <2>2, SameEntry
  <2>4. t \in States /\ Fit(t) /\ Conserves(now, t)
    BY <1>4, <1>5, <1>8, <2>3, ConservesTrans
  <2> QED BY <1>3, <1>11, <2>4, FitStocked, ConservesKept
<1> QED BY <1>9, <1>10, <1>11

LEMMA DoRetireWeaponKeeps ==
  ASSUME Inv, Stocked, NEW w \in Weapon, DoRetireWeapon(w)
  PROVE  Stocked' /\ NoneMade
<1>1. PICK p : p = weapon[w].owner
  OBVIOUS
<1>2. PICK s : s = [now EXCEPT !.weapon[w].think = "none"]
  OBVIOUS
<1>3. Sound(now, Boxed) /\ ArmedIn(now) /\ now \in States /\ Fit(now)
  BY BoxedFacts DEF Stocked
<1>4. /\ now.weapon[w] # None /\ now.weapon[w].think = "retire" /\ p \in Player \cup {None}
      /\ now.weapon[w] \in WeaponType /\ UNCHANGED box
  <2>1. weapon[w] # None /\ weapon[w].think = "retire" /\ UNCHANGED box
    BY DEF DoRetireWeapon
  <2> QED BY <1>1, <1>3, <2>1, NowIs, WeaponFields
<1>5. Sound(s, Boxed)
  <2>1. Settled(now, s) /\ s.player = now.player
    BY <1>2, <1>3, <1>4, SetThink
  <2> QED BY <1>3, <2>1, SamePlayers
<1>6. PICK it : it = [now.weapon[w] EXCEPT !.think = "none"]
  OBVIOUS
<1>7. /\ it \in WeaponType /\ it.class = now.weapon[w].class /\ it.owner = now.weapon[w].owner
      /\ it.clip = now.weapon[w].clip /\ it.spare = now.weapon[w].spare
      /\ it.touch = now.weapon[w].touch /\ it.stale = now.weapon[w].stale
      /\ it.pending = now.weapon[w].pending /\ it.think = "none"
  BY <1>4, <1>6 DEF WeaponType
<1>8. s = [now EXCEPT !.weapon[w] = it]
  BY <1>2, <1>6
<1>9. s \in States /\ Fit(s) /\ Conserves(now, s)
  <2>1. Loading(it) => Loading(now.weapon[w])
    BY <1>7 DEF Loading
  <2>2. LET r == [now EXCEPT !.weapon[w] = it] IN r \in States /\ Fit(r) /\ Conserves(now, r)
    BY <1>3, <1>4, <1>7, <2>1, SameEntry
  <2> QED BY <1>8, <2>2
<1>10. \/ Become(s)
       \/ p \in Player /\ (\/ Become(SwitchWeapon(s, p, None))
                           \/ \E to \in NextBest(s, p, w) : Become(SwitchWeapon(s, p, to)))
  BY <1>1, <1>2, <1>4 DEF DoRetireWeapon
<1>11. CASE Become(s)
  BY <1>4, <1>9, <1>11, FitStocked, ConservesKept
<1>12. ASSUME p \in Player, NEW to \in Weapon \cup {None}, Become(SwitchWeapon(s, p, to))
       PROVE  Stocked' /\ NoneMade
  BY <1>4, <1>5, <1>9, <1>12, SwitchKeeps
<1>13. \A to \in NextBest(s, p, w) : p \in Player => to \in Weapon
  BY <1>5, NextBestListed, Listed
<1> QED BY <1>10, <1>11, <1>12, <1>13


LEMMA SelectKeeps ==
  ASSUME Inv, Stocked, NEW p \in Player, NEW w \in player[p].items \cup {None},
         Become([Wield(now, p, w) EXCEPT !.player[p].last = player[p].active]), UNCHANGED box
  PROVE  Stocked' /\ NoneMade
<1>1. /\ Sound(now, Boxed) /\ now \in States /\ Fit(now)
      /\ w \in now.player[p].items \cup {None}
  BY BoxedFacts, NowIs DEF Stocked
<1>2. w \in Weapon \cup {None} /\ player[p].active \in Weapon \cup {None}
  BY <1>1, Listed, InHandListed, NowIs
<1>3. PICK s : s = Wield(now, p, w)
  OBVIOUS
<1>4. s \in States /\ Fit(s) /\ Conserves(now, s)
  <2>1. Settled(now, s)
    BY <1>1, <1>2, <1>3, WieldSettled
  <2>2. Fit(s) /\ Conserves(now, s)
    BY <1>1, <1>2, <1>3, WieldFits
  <2> QED BY <2>1, <2>2 DEF Settled
<1>5. PICK pl : pl = [s.player[p] EXCEPT !.last = player[p].active]
  OBVIOUS
<1>6. /\ pl \in PlayerType /\ pl.items = s.player[p].items
      /\ pl.active = s.player[p].active /\ pl.pool = s.player[p].pool
  <2>1. s.player[p] \in PlayerType
    BY <1>4, PlayerFields
  <2> QED BY <1>2, <1>5, <2>1 DEF PlayerType
<1>7. PICK t : t = [s EXCEPT !.player[p] = pl]
  OBVIOUS
<1>8. /\ t \in States /\ t.weapon = s.weapon
      /\ \A q \in Player : t.player[q] = IF q = p THEN pl ELSE s.player[q]
  <2>1. /\ Settled(s, t) /\ t.weapon = s.weapon
        /\ \A q \in Player : t.player[q] = IF q = p THEN pl ELSE s.player[q]
    BY <1>4, <1>6, <1>7, SetSettled
  <2> QED BY <2>1 DEF Settled
<1>9. Fit(t) /\ Conserves(s, t)
  BY <1>4, <1>6, <1>8, PlayersFits
<1>10. Conserves(now, t)
  BY <1>1, <1>4, <1>8, <1>9, ConservesTrans
<1>11. Become(t)
  BY <1>3, <1>5, <1>7
<1> QED BY <1>8, <1>9, <1>10, <1>11, FitStocked, ConservesKept

LEMMA SelectItemKeeps ==
  ASSUME Inv, Stocked, NEW p \in Player, NEW w, SelectItem(p, w)
  PROVE  Stocked' /\ NoneMade
BY SelectKeeps DEF SelectItem

LEMMA SelectLastItemKeeps ==
  ASSUME Inv, Stocked, NEW p \in Player, SelectLastItem(p)
  PROVE  Stocked' /\ NoneMade
<1>1. player[p].last \in player[p].items \cup {None}
  BY BoxedFacts, InHandListed, NowIs
<1> QED BY <1>1, SelectKeeps DEF SelectLastItem

LEMMA KilledKeeps ==
  ASSUME Inv, Stocked, NEW p \in Player, Killed(p)
  PROVE  Stocked' /\ NoneMade
<1>1. Sound(now, Boxed) /\ now \in States /\ Fit(now) /\ now.player = player
  BY BoxedFacts, NowIs DEF Stocked
<1>2. PICK h : h = Holster(now, now.player[p].active)
  OBVIOUS
<1>3. h \in States /\ h.player = now.player /\ Fit(h)
      /\ \A v \in Weapon : Laden(now.weapon[v], h.weapon[v])
  BY <1>1, <1>2, HolsterFits
<1>4. PICK pl : pl = [h.player[p] EXCEPT !.dead = TRUE]
  OBVIOUS
<1>5. /\ pl \in PlayerType /\ pl.items = h.player[p].items
      /\ pl.active = h.player[p].active /\ pl.pool = h.player[p].pool
  <2>1. h.player[p] \in PlayerType
    BY <1>3, PlayerFields
  <2> QED BY <1>4, <2>1 DEF PlayerType
<1>6. PICK t : t = [h EXCEPT !.player[p] = pl]
  OBVIOUS
<1>7. /\ t \in States /\ t.weapon = h.weapon
      /\ \A q \in Player : t.player[q] = IF q = p THEN pl ELSE h.player[q]
  <2>1. /\ Settled(h, t) /\ t.weapon = h.weapon
        /\ \A q \in Player : t.player[q] = IF q = p THEN pl ELSE h.player[q]
    BY <1>3, <1>5, <1>6, SetSettled
  <2> QED BY <2>1 DEF Settled
<1>8. Fit(t) /\ Conserves(h, t)
  BY <1>3, <1>5, <1>7, PlayersFits
<1>9. Conserves(now, h)
  BY <1>1, <1>3, SamePools, LadenConserves
<1>10. Conserves(now, t)
  BY <1>1, <1>3, <1>7, <1>8, <1>9, ConservesTrans
<1>11. Become(t) /\ UNCHANGED box
  BY <1>1, <1>2, <1>4, <1>6 DEF Killed
<1> QED BY <1>7, <1>8, <1>10, <1>11, FitStocked, ConservesKept

LEMMA StripKeeps ==
  ASSUME Inv, Stocked, NEW p \in Player, Strip(p)
  PROVE  Stocked' /\ (Owing \/ NoneMade)
<1>1. Sound(now, Boxed) /\ Fit(now)
  BY BoxedFacts DEF Stocked
<1>2. PICK t : t = RemoveAllItems(now, p)
  OBVIOUS
<1>3. /\ t \in States /\ Fit(t)
      /\ (\A v \in now.player[p].items : Paid(now.weapon[v])) => Conserves(now, t)
  BY <1>1, <1>2, RemoveAllFits
<1>4. Become(t) /\ UNCHANGED box
  BY <1>2 DEF Strip
<1>5. ~Owing => \A v \in now.player[p].items : Paid(now.weapon[v])
  BY <1>1, PaidUp, Listed
<1> QED BY <1>3, <1>4, <1>5, FitStocked, ConservesKept

LEMMA TakeAmmoStocks ==
  ASSUME Inv, Stocked, NEW p \in Player, NEW a \in Ammo, TakeAmmo(p, a)
  PROVE  Stocked'
<1>1. Sound(now, Boxed) /\ ArmedIn(now) /\ Fit(now)
  BY BoxedFacts DEF Stocked
<1>2. PICK t : t = GiveAmmo(now, p, 1, a, None)
  OBVIOUS
<1>3. t \in States /\ Fit(t)
  BY <1>1, <1>2, GiveAmmoFits
<1> QED BY <1>2, <1>3, FitStocked DEF TakeAmmo

(* Weapons that come and go. *)

\* Another entry for a weapon, or for none.
LEMMA BecomeEntry ==
  ASSUME Inv, NEW w \in Weapon, NEW it \in WeaponType \cup {None},
         weapon' = [weapon EXCEPT ![w] = it], player' = player
  PROVE  LET t == [now EXCEPT !.weapon[w] = it] IN
         /\ Become(t) /\ t \in States /\ t.player = now.player /\ t.weapon[w] = it
         /\ \A v \in Weapon : v # w => t.weapon[v] = now.weapon[v]
<1>1. now \in States /\ now.weapon = weapon /\ now.player = player
  BY BoxedFacts, NowIs
<1>2. PICK t : t = [now EXCEPT !.weapon[w] = it]
  OBVIOUS
<1>3. /\ t \in States /\ t.player = now.player /\ t.weapon[w] = it
      /\ \A v \in Weapon : v # w => t.weapon[v] = now.weapon[v]
  <2>1. LET r == [now EXCEPT !.weapon[w] = it] IN
        /\ r \in States /\ r.player = now.player /\ r.weapon[w] = it
        /\ \A v \in Weapon : v # w => r.weapon[v] = now.weapon[v]
    BY <1>1, EntryIs
  <2> QED BY <1>2, <2>1
<1>4. t.weapon = weapon'
  BY <1>1, <1>2 DEF States
<1> QED BY <1>1, <1>2, <1>3, <1>4 DEF Become

LEMMA RemovedKeeps ==
  ASSUME Inv, Stocked, NEW w \in Weapon, Removed(w)
  PROVE  Stocked' /\ NoneMade
<1>1. Sound(now, Boxed) /\ now \in States /\ Fit(now) /\ now.weapon = weapon
  BY BoxedFacts, NowIs DEF Stocked
<1>2. weapon[w].think = "remove" /\ UNCHANGED box
  BY DEF Removed
<1>3. PICK t : t = [now EXCEPT !.weapon[w] = None]
  OBVIOUS
<1>4. /\ Become(t) /\ t \in States /\ t.player = now.player /\ t.weapon[w] = None
      /\ \A v \in Weapon : v # w => t.weapon[v] = now.weapon[v]
  <2>1. LET r == [now EXCEPT !.weapon[w] = None] IN
        /\ Become(r) /\ r \in States /\ r.player = now.player /\ r.weapon[w] = None
        /\ \A v \in Weapon : v # w => r.weapon[v] = now.weapon[v]
    BY BecomeEntry DEF Removed
  <2> QED BY <1>3, <2>1
<1>5. Fit(t)
  BY <1>1, <1>4, EntryFits
<1>6. ASSUME NEW a \in Ammo PROVE TotalIn(t, a) <= TotalIn(now, a)
  <2>1. TotalIn(t, a) <= TotalIn(now, a) + (RoundsIn(None, a) - RoundsIn(now.weapon[w], a))
    BY <1>1, <1>4, EntryTotal
  <2>2. RoundsIn(None, a) = 0 /\ RoundsIn(now.weapon[w], a) = 0
    BY <1>1, <1>2 DEF RoundsIn
  <2>3. TotalIn(t, a) \in Int /\ TotalIn(now, a) \in Int
    BY <1>1, <1>4, SumsType
  <2> QED BY <2>1, <2>2, <2>3
<1>7. ASSUME NEW v \in Boxed
      PROVE  t.weapon[v] # None /\ t.weapon[v].class = now.weapon[v].class
  <2>1. v \in Weapon /\ Kept(now.weapon[v])
    BY <1>1 DEF Sound
  <2>2. v # w
    BY <1>1, <1>2, <2>1 DEF Kept
  <2> QED BY <1>4, <2>1, <2>2 DEF Kept
<1> QED BY <1>2, <1>4, <1>5, <1>6, <1>7, FitStocked, TotalKept

LEMMA FreshFits ==
  ASSUME NEW c \in Class
  PROVE  ClipFits(Fresh(c)) /\ ~Loading(Fresh(c))
<1>1. PICK it : it = Fresh(c)
  OBVIOUS
<1>2. it.class = c /\ it.clip = 0 /\ ~it.pending /\ it.touch
  BY <1>1 DEF Fresh
<1>3. MaxClip[c] = NoClip \/ 0 <= MaxClip[c]
  BY Constants
<1> QED BY <1>1, <1>2, <1>3 DEF ClipFits, Loading

LEMMA SpawnStocks ==
  ASSUME Inv, Stocked, NEW w \in Weapon, NEW c \in Class, Spawn(w, c)
  PROVE  Stocked'
<1>1. now \in States /\ Fit(now)
  BY BoxedFacts DEF Stocked
<1>2. PICK it : it = Fresh(c)
  OBVIOUS
<1>3. it \in WeaponType \cup {None} /\ ClipFits(it) /\ ~Loading(it)
  BY <1>2, FreshIs, FreshFits
<1>4. PICK t : t = [now EXCEPT !.weapon[w] = it]
  OBVIOUS
<1>5. /\ Become(t) /\ t \in States /\ t.player = now.player /\ t.weapon[w] = it
      /\ \A v \in Weapon : v # w => t.weapon[v] = now.weapon[v]
  <2>1. weapon' = [weapon EXCEPT ![w] = it] /\ player' = player
    BY <1>2 DEF Spawn
  <2>2. LET r == [now EXCEPT !.weapon[w] = it] IN
        /\ Become(r) /\ r \in States /\ r.player = now.player /\ r.weapon[w] = it
        /\ \A v \in Weapon : v # w => r.weapon[v] = now.weapon[v]
    BY <1>3, <2>1, BecomeEntry
  <2> QED BY <1>4, <2>2
<1>6. LoadFits(t, w)
  BY <1>3, <1>5 DEF LoadFits
<1>7. Fit(t)
  BY <1>1, <1>3, <1>5, <1>6, EntryFits
<1> QED BY <1>5, <1>7, FitStocked DEF Spawn

(* Weapons that change hands. *)

LEMMA DefaultTouchKeeps ==
  ASSUME Inv, Stocked, NEW p \in Player, NEW w \in Weapon, DefaultTouch(p, w)
  PROVE  Stocked' /\ (Owing \/ NoneMade)
<1>1. Sound(now, Boxed) /\ ArmedIn(now) /\ now.weapon = weapon /\ Fit(now)
  BY BoxedFacts, NowIs DEF Stocked
<1>2. PICK new, auto : Become(AddPlayerItem(now, p, w, auto, new))
  BY DEF DefaultTouch
<1>3. weapon[w] # None /\ weapon[w].touch /\ UNCHANGED box
  BY DEF DefaultTouch
<1>4. PICK t : t = AddPlayerItem(now, p, w, auto, new)
  OBVIOUS
<1>5. t \in States
  <2>1. Sound(t, Boxed \ {w})
    BY <1>1, <1>3, <1>4, AddPlayerItemSound
  <2> QED BY <2>1 DEF Sound
<1>6. Fit(t) /\ (Paid(now.weapon[w]) => Conserves(now, t))
  BY <1>1, <1>3, <1>4, AddPlayerItemFits
<1>7. ~Owing => Paid(now.weapon[w])
  BY <1>1, <1>3, PaidUp
<1> QED BY <1>2, <1>3, <1>4, <1>5, <1>6, <1>7, FitStocked, ConservesKept

LEMMA RespawnStocks ==
  ASSUME Inv, Stocked, NEW p \in Player, NEW w \in Weapon, Respawn(p, w)
  PROVE  Stocked'
<1>1. Sound(now, Boxed) /\ now \in States /\ Fit(now) /\ now.player = player
  BY BoxedFacts, NowIs DEF Stocked
<1>2. PICK k \in States, r \in States :
        /\ k.player = now.player /\ k.weapon[w] = Fresh(Equipment)
        /\ \A v \in Weapon : v # w => k.weapon[v] = now.weapon[v]
        /\ r.weapon = k.weapon /\ \A q \in Player : q # p => r.player[q] = k.player[q]
        /\ \A a \in Ammo : r.player[p].pool[a] = 0
        /\ Sound(r, Boxed) /\ ArmedIn(r) /\ Become(AddPlayerItem(r, p, w, TRUE, None))
  BY RespawnIs
<1>3. ClipFits(k.weapon[w]) /\ ~Loading(k.weapon[w]) /\ k.weapon[w].touch /\ k.weapon[w] # None
  BY <1>2, Constants, FreshFits, FreshIs
<1>4. Fit(k)
  <2>1. LoadFits(k, w)
    BY <1>3 DEF LoadFits
  <2> QED BY <1>1, <1>2, <1>3, <2>1, EntryFits
<1>5. ASSUME NEW v \in Weapon, k.weapon[v] # None, Loading(k.weapon[v]) PROVE k.weapon[v].owner # p
  <2>1. v # w /\ LoadFits(k, v)
    BY <1>3, <1>4, <1>5 DEF Fit
  <2>2. SUFFICES ASSUME k.weapon[v].owner = p PROVE FALSE
    OBVIOUS
  <2>3. now.player[p].active = v
    BY <1>2, <1>5, <2>1, <2>2 DEF LoadFits
  <2>4. now.player[p].items = {}
    BY <1>1 DEF Respawn
  <2> QED BY <1>1, <2>3, <2>4, InHandListed, Constants
<1>6. PoolFits(r.player[p])
  BY <1>2, Constants DEF PoolFits
<1>7. Fit(r)
  BY <1>2, <1>4, <1>5, <1>6, IdleFits
<1>8. PICK t : t = AddPlayerItem(r, p, w, TRUE, None)
  OBVIOUS
<1>9. t \in States
  <2>1. Sound(t, Boxed \ {w})
    BY <1>2, <1>3, <1>8, AddPlayerItemSound
  <2> QED BY <2>1 DEF Sound
<1>10. Fit(t)
  BY <1>2, <1>3, <1>7, <1>8, AddPlayerItemFits
<1> QED BY <1>2, <1>8, <1>9, <1>10, FitStocked DEF Respawn

(* The box. *)

\* What was in the box is taken, or gone.
LEMMA BoxGone ==
  ASSUME Inv, Stocked, NEW s \in States, Become(s), box' = None, Fit(s)
  PROVE  /\ Stocked'
         /\ (\A a \in Ammo : TotalIn(s, a) <= Total(a)) => NoneMade
<1>1. now' = s
  BY BecomeIs
<1>2. \A a : RoundsInBox(a)' = 0
  BY DEF RoundsInBox
<1>3. ASSUME NEW a \in Ammo, TotalIn(s, a) <= Total(a) PROVE Total(a)' <= Total(a)
  <2>1. Total(a)' = TotalIn(s, a) + 0 /\ TotalIn(s, a) \in Int
    BY <1>1, <1>2, SumsType DEF Total
  <2> QED BY <1>3, <2>1
<1> QED BY <1>1, <1>3 DEF Stocked, NoneMade

\* A box is left, with n rounds and w.
LEMMA BoxMade ==
  ASSUME Inv, Stocked, box = None, NEW s \in States, Become(s), Fit(s),
         NEW w \in Weapon \cup {None}, NEW n \in Nat, NEW timed \in BOOLEAN,
         box' = [weapon |-> w, rounds |-> n, timed |-> timed],
         w # None => s.weapon[w] # None
  PROVE  /\ Stocked'
         /\ (\A a \in Ammo : TotalIn(s, a) <=
               TotalIn(now, a) - (IF w # None /\ AmmoOf[s.weapon[w].class] = a THEN n ELSE 0))
            => NoneMade
<1>1. now' = s /\ weapon' = s.weapon
  BY BecomeIs DEF Become
<1>2. box'.weapon = w /\ box'.rounds = n
  OBVIOUS
<1>3. box' # None
  BY BoxIs, NoneAssumption
<1>4. \A a : RoundsInBox(a)' = (IF w # None /\ AmmoOf[s.weapon[w].class] = a THEN n ELSE 0)
  BY <1>1, <1>2, <1>3 DEF RoundsInBox
<1>5. ASSUME NEW a \in Ammo, TotalIn(s, a) <= TotalIn(now, a)
                 - (IF w # None /\ AmmoOf[s.weapon[w].class] = a THEN n ELSE 0)
      PROVE  Total(a)' <= Total(a)
  <2>1. PICK m \in Nat : m = IF w # None /\ AmmoOf[s.weapon[w].class] = a THEN n ELSE 0
    OBVIOUS
  <2>2. Total(a)' = TotalIn(s, a) + m
    BY <1>1, <1>4, <2>1 DEF Total
  <2>3. Total(a) = TotalIn(now, a) + 0
    BY DEF Total, RoundsInBox
  <2>4. TotalIn(s, a) \in Int /\ TotalIn(now, a) \in Int
    BY BoxedFacts, SumsType
  <2> QED BY <1>5, <2>1, <2>2, <2>3, <2>4
<1> QED BY <1>1, <1>2, <1>5 DEF Stocked, NoneMade

LEMMA KillBoxKeeps ==
  ASSUME Inv, Stocked, KillBox
  PROVE  Stocked' /\ (Owing \/ NoneMade)
<1>1. /\ Sound(now, Boxed) /\ now \in States /\ Fit(now) /\ now.weapon = weapon
      /\ now.player = player /\ box' = None /\ box # None /\ box.weapon \in Weapon \cup {None}
  BY BoxedFacts, NowIs DEF Stocked, KillBox
<1>2. ASSUME NEW a \in Ammo PROVE TotalIn(now, a) <= Total(a)
  <2>1. RoundsInBox(a) \in Nat /\ TotalIn(now, a) \in Int
    BY <1>1, BoxRounds, SumsType
  <2> QED BY <2>1 DEF Total
<1>3. CASE box.weapon = None
  <2>1. Become(now)
    BY <1>1, <1>3 DEF KillBox, Become
  <2> QED BY <1>1, <1>2, <2>1, BoxGone
<1>4. CASE box.weapon # None
  <2>1. PICK w \in Weapon : w = box.weapon
    BY <1>1, <1>4
  <2>2. now.weapon[w] # None /\ now.weapon[w] \in WeaponType
    <3>1. w \in Boxed
      BY <1>1, <1>4, <2>1 DEF Boxed
    <3>2. now.weapon[w] # None
      BY <1>1, <3>1 DEF Sound, Kept
    <3> QED BY <1>1, <3>2, WeaponFields
  <2>3. PICK it : it = [now.weapon[w] EXCEPT !.think = "remove"]
    OBVIOUS
  <2>4. /\ it \in WeaponType /\ it.think = "remove" /\ it.class = now.weapon[w].class
        /\ it.owner = now.weapon[w].owner /\ it.clip = now.weapon[w].clip
        /\ it.pending = now.weapon[w].pending /\ it.stale = now.weapon[w].stale
    BY <2>2, <2>3 DEF WeaponType
  <2>5. PICK t : t = [now EXCEPT !.weapon[w] = it]
    OBVIOUS
  <2>6. /\ Become(t) /\ t \in States /\ t.player = now.player /\ t.weapon[w] = it
        /\ \A v \in Weapon : v # w => t.weapon[v] = now.weapon[v]
    <3>1. weapon' = [weapon EXCEPT ![w] = it] /\ player' = player
      BY <1>1, <1>4, <2>1, <2>3 DEF KillBox
    <3>2. LET r == [now EXCEPT !.weapon[w] = it] IN
          /\ Become(r) /\ r \in States /\ r.player = now.player /\ r.weapon[w] = it
          /\ \A v \in Weapon : v # w => r.weapon[v] = now.weapon[v]
      BY <2>4, <3>1, BecomeEntry
    <3> QED BY <2>5, <3>2
  <2>7. ClipFits(now.weapon[w]) /\ LoadFits(now, w)
    BY <1>1, <2>2 DEF Fit
  <2>8. ClipFits(it) /\ LoadFits(t, w)
    BY <2>4, <2>6, <2>7 DEF ClipFits, LoadFits, Loading, Rounds
  <2>9. Fit(t)
    BY <1>1, <2>6, <2>8, EntryFits
  <2>10. ASSUME ~Owing, NEW a \in Ammo PROVE TotalIn(t, a) <= Total(a)
    <3>1. Paid(now.weapon[w])
      BY <2>2, <2>10, PaidUp
    <3>2. RoundsIn(now.weapon[w], a) \in Nat /\ RoundsIn(it, a) = 0
      BY <2>2, <2>4, <2>7, <3>1, PaidRounds DEF RoundsIn
    <3>3. TotalIn(t, a) <= TotalIn(now, a) + (RoundsIn(it, a) - RoundsIn(now.weapon[w], a))
      BY <1>1, <2>6, EntryTotal
    <3>4. TotalIn(t, a) \in Int /\ TotalIn(now, a) \in Int /\ RoundsInBox(a) \in Nat
      BY <1>1, <2>6, BoxRounds, SumsType
    <3>5. TotalIn(now, a) <= Total(a)
      BY <1>2
    <3>6. Total(a) \in Int
      BY <3>4 DEF Total
    <3> QED BY <3>2, <3>3, <3>4, <3>5, <3>6
  <2> QED BY <1>1, <2>6, <2>9, <2>10, BoxGone
<1> QED BY <1>3, <1>4

\* Who touches the box gets no more than was in it.
LEMMA TouchBoxKeeps ==
  ASSUME Inv, Stocked, NEW p \in Player, TouchBox(p)
  PROVE  Stocked' /\ (Owing \/ NoneMade)
<1>1. /\ Sound(now, Boxed) /\ ArmedIn(now) /\ now \in States /\ Fit(now)
      /\ now.weapon = weapon /\ now.player = player
      /\ box' = None /\ box # None /\ box.rounds \in Nat
  BY BoxedFacts, NowIs DEF Stocked, TouchBox
<1>2. CASE box.weapon = None
  <2>1. Become(now)
    BY <1>1, <1>2 DEF TouchBox, Become
  <2>2. ASSUME NEW a \in Ammo PROVE TotalIn(now, a) <= Total(a)
    <3>1. RoundsInBox(a) \in Nat /\ TotalIn(now, a) \in Int
      BY <1>1, BoxRounds, SumsType
    <3> QED BY <3>1 DEF Total
  <2> QED BY <1>1, <2>1, <2>2, BoxGone
<1>3. CASE box.weapon # None
  <2>1. PICK w \in Weapon, new \in Weapon \cup {None}, auto \in BOOLEAN, given \in States :
          /\ w = box.weapon /\ now.weapon[w] # None
          /\ new # None => now.weapon[new] = None
          /\ given = IF box.rounds = 0 THEN now
                     ELSE GiveAmmo(now, p, box.rounds, AmmoOf[now.weapon[w].class], new)
          /\ Sound(given, {w}) /\ ArmedIn(given) /\ given.weapon[w] # None
          /\ Become(AddPlayerItem(given, p, w, auto, None))
    BY <1>3, TouchBoxIs
  <2>2. PICK b \in Ammo : b = AmmoOf[now.weapon[w].class]
    BY <1>1, <2>1, WeaponFields, Constants
  <2>3. Fit(given) /\ Brings(now, given, box.rounds, b) /\ given.weapon[w] = now.weapon[w]
    <3>1. CASE box.rounds = 0
      <4>1. Conserves(now, now)
        BY <1>1, ConservesSame
      <4>2. \A a \in Ammo : TotalIn(now, a) \in Int
        BY <1>1, SumsType
      <4> QED BY <1>1, <2>1, <3>1, <4>1, <4>2 DEF Conserves, Brings
    <3>2. CASE box.rounds # 0
      <4>1. given = GiveAmmo(now, p, box.rounds, b, new)
        BY <2>1, <2>2, <3>2
      <4>2. /\ Fit(given) /\ Brings(now, given, IF box.rounds > 0 THEN box.rounds ELSE 0, b)
            /\ \A v \in Weapon : now.weapon[v] # None => given.weapon[v] = now.weapon[v]
        BY <1>1, <2>1, <4>1, GiveAmmoFits
      <4>3. (IF box.rounds > 0 THEN box.rounds ELSE 0) = box.rounds
        BY <1>1
      <4> QED BY <2>1, <4>2, <4>3
    <3> QED BY <3>1, <3>2
  <2>4. PICK t : t = AddPlayerItem(given, p, w, auto, None)
    OBVIOUS
  <2>5. t \in States
    <3>1. Sound(t, {w} \ {w})
      BY <2>1, <2>4, AddPlayerItemSound
    <3> QED BY <3>1 DEF Sound
  <2>6. Fit(t) /\ (Paid(given.weapon[w]) => Conserves(given, t))
    BY <2>1, <2>3, <2>4, AddPlayerItemFits
  <2>7. ASSUME ~Owing, NEW a \in Ammo PROVE TotalIn(t, a) <= Total(a)
    <3>1. TotalIn(t, a) <= TotalIn(given, a)
      BY <2>1, <2>3, <2>6, <2>7, PaidUp DEF Conserves
    <3>2. TotalIn(given, a) <= TotalIn(now, a) + (IF a = b THEN box.rounds ELSE 0)
      BY <2>3 DEF Brings
    <3>3. RoundsInBox(a) = (IF a = b THEN box.rounds ELSE 0)
      BY <1>1, <1>3, <2>1, <2>2 DEF RoundsInBox
    <3>4. Total(a) = TotalIn(now, a) + (IF a = b THEN box.rounds ELSE 0)
      BY <3>3 DEF Total
    <3>5. PICK m \in Nat : m = IF a = b THEN box.rounds ELSE 0
      BY <1>1
    <3>6. TotalIn(t, a) \in Int /\ TotalIn(given, a) \in Int /\ TotalIn(now, a) \in Int
      BY <1>1, <2>1, <2>5, SumsType
    <3> QED BY <3>1, <3>2, <3>4, <3>5, <3>6
  <2> QED BY <1>1, <2>1, <2>4, <2>5, <2>6, <2>7, BoxGone
<1> QED BY <1>2, <1>3

\* A player who drops a weapon keeps no more than is not in the box.
LEMMA DropPlayerItemKeeps ==
  ASSUME Inv, Stocked, NEW p \in Player, NEW w \in Weapon, DropPlayerItem(p, w)
  PROVE  Stocked' /\ NoneMade
<1>1. Sound(now, Boxed) /\ now \in States /\ Fit(now) /\ now.player = player
      /\ now.weapon = weapon
  BY BoxedFacts, NowIs DEF Stocked
<1>2. PICK to, s, t, left, c, a, k, n : Dropped(p, w, to, s, t, left, c, a, k, n)
  BY DropIs
<1>3. to \in Weapon /\ s = Wield(now, p, to)
  <2>1. to \in NextBest(now, p, w) /\ s = SwitchWeapon(now, p, to)
    BY <1>2, Zenon DEF Dropped
  <2>2. to \in now.player[p].items /\ CanDeploy(now, to)
    BY <2>1 DEF NextBest
  <2> QED BY <1>1, <2>1, <2>2, Listed DEF SwitchWeapon
<1>4. /\ Fit(s) /\ Conserves(now, s)
      /\ \A v \in Weapon : s.weapon[v] # None /\ Loading(s.weapon[v]) => s.weapon[v].owner # p
  BY <1>1, <1>3, WieldFits, WieldIdle
<1>5. /\ Sound(s, {}) /\ s \in States /\ w \in s.player[p].items
      /\ Packed(s, t, w, p) /\ Sound(t, {w}) /\ s.weapon[w].class = c
      /\ c \in Class /\ a \in Ammo /\ a = AmmoOf[c] /\ k \in Int /\ n \in Int
      /\ t \in States /\ left \in States /\ Become(left)
      /\ box' = [weapon |-> w, rounds |-> n, timed |-> FALSE]
  BY <1>2, Zenon DEF Dropped, Sound
<1>6. left = [t EXCEPT !.player[p].pool[a] = k]
  BY <1>2, Zenon DEF Dropped
<1>7. /\ Fit(t) /\ Conserves(s, t) /\ t.weapon[w] # None /\ t.weapon[w].class = c
      /\ \A v \in Weapon : v # w => t.weapon[v] = s.weapon[v]
      /\ t.player[p].pool = s.player[p].pool
  BY <1>4, <1>5, PackedFits DEF Packed, Kept
<1>8. PICK rounds \in Int : rounds = t.player[p].pool[a]
  BY <1>5, PlayerFields
<1>9. /\ rounds \in 0..MaxAmmo[a] /\ MaxAmmo[a] \in Nat
      /\ k = IF c \in Exhaustible THEN 0 ELSE rounds \div 2
      /\ n = IF c \in Exhaustible THEN rounds ELSE rounds \div 2
  <2>1. rounds \in 0..MaxAmmo[a]
    BY <1>5, <1>7, <1>8 DEF Fit, PoolFits
  <2>2. /\ k = IF c \in Exhaustible THEN 0 ELSE s.player[p].pool[a] \div 2
        /\ n = IF c \in Exhaustible THEN s.player[p].pool[a] ELSE s.player[p].pool[a] \div 2
    BY <1>2, Zenon DEF Dropped
  <2> QED BY <1>5, <1>7, <1>8, <2>1, <2>2, Constants
<1>10. k \in 0..MaxAmmo[a] /\ n \in Nat /\ k + n <= rounds
  BY <1>9
<1>11. /\ left.weapon = t.weapon /\ left.player[p].pool[a] = k
       /\ \A b \in Ammo : b # a => left.player[p].pool[b] = t.player[p].pool[b]
       /\ \A q \in Player : q # p => left.player[q] = t.player[q]
  <2>1. LET r == [t EXCEPT !.player[p].pool[a] = k] IN
        PoolOnly(t, r, p, a) /\ r.weapon = t.weapon /\ r.player[p].pool[a] = k
    BY <1>5, SetPool
  <2>2. PoolOnly(t, left, p, a) /\ left.weapon = t.weapon /\ left.player[p].pool[a] = k
    BY <1>6, <2>1, Zenon
  <2>3. \A q \in Player : q # p => left.player[q] = t.player[q]
    BY <1>5, <1>6 DEF States
  <2> QED BY <2>2, <2>3 DEF PoolOnly
<1>12. Fit(left)
  <2>1. PoolFits(left.player[p])
    <3>1. \A b \in Ammo : t.player[p].pool[b] \in 0..MaxAmmo[b]
      BY <1>7 DEF Fit, PoolFits
    <3> QED BY <1>10, <1>11, <3>1 DEF PoolFits
  <2>2. ~Loading(t.weapon[w])
    <3>1. \A q \in Player : w \notin t.player[q].items
      BY <1>5, Listed
    <3> QED BY <1>5, <1>7, <3>1, IdleInWorld
  <2>3. \A v \in Weapon : t.weapon[v] # None /\ Loading(t.weapon[v]) => t.weapon[v].owner # p
    BY <1>4, <1>7, <2>2
  <2> QED BY <1>5, <1>7, <1>11, <2>1, <2>3, IdleFits
<1>13. ASSUME NEW b \in Ammo
       PROVE  TotalIn(left, b) <=
                TotalIn(now, b) - (IF w # None /\ AmmoOf[left.weapon[w].class] = b THEN n ELSE 0)
  <2>1. TotalIn(t, b) <= TotalIn(s, b) /\ TotalIn(s, b) <= TotalIn(now, b)
    BY <1>4, <1>7 DEF Conserves
  <2>2. TotalIn(left, b) <= TotalIn(t, b)
          + (RoundsIn(left.weapon[w], b) - RoundsIn(t.weapon[w], b))
          + (left.player[p].pool[b] - t.player[p].pool[b])
    BY <1>5, <1>11, SwapTotal
  <2>3. RoundsIn(left.weapon[w], b) = RoundsIn(t.weapon[w], b) /\ RoundsIn(t.weapon[w], b) \in Int
    BY <1>5, <1>11, RoundsType DEF States
  <2>4. /\ TotalIn(t, b) \in Int /\ TotalIn(s, b) \in Int /\ TotalIn(now, b) \in Int
        /\ TotalIn(left, b) \in Int /\ t.player[p].pool[b] \in Int
    BY <1>1, <1>5, SumsType, PlayerFields
  <2>5. AmmoOf[left.weapon[w].class] = a
    BY <1>5, <1>7, <1>11
  <2>6. CASE b = a
    BY <1>8, <1>10, <1>11, <2>1, <2>2, <2>3, <2>4, <2>6
  <2>7. CASE b # a
    BY <1>11, <2>1, <2>2, <2>3, <2>4, <2>5, <2>7
  <2> QED BY <2>6, <2>7
<1>14. left.weapon[w] # None /\ box = None
  BY <1>7, <1>11 DEF DropPlayerItem
<1>15. FALSE \in BOOLEAN /\ w \in Weapon \cup {None}
  OBVIOUS
<1> QED BY <1>5, <1>10, <1>12, <1>13, <1>14, <1>15, BoxMade

\* The weapon of a dead player takes no more out of his pool than goes into its clip and the box.
LEMMA BuriedFits ==
  ASSUME Inv, Stocked, NEW p \in Player, PackDeadPlayerItems(p), player[p].active # None
  PROVE  Stocked' /\ (Owing \/ NoneMade)
<1>1. Sound(now, Boxed) /\ now \in States /\ Fit(now)
  BY BoxedFacts DEF Stocked
<1>2. PICK w, c, a, j, full, t, r : Buried(p, w, c, a, j, full, t, r)
  BY BuriedIs
<1>3. /\ w = now.player[p].active /\ w \in now.player[p].items /\ w \in Weapon
      /\ now.weapon[w] # None /\ c \in Class /\ c = now.weapon[w].class
      /\ a \in Ammo /\ a = AmmoOf[c] /\ j \in Int
  BY <1>2, Zenon DEF Buried
<1>4. /\ Sound(full, {}) /\ w \in full.player[p].items /\ Packed(full, t, w, p)
      /\ Sound(t, {w}) /\ r = RemoveAllItems(t, p)
  BY <1>2, Zenon DEF Buried
<1>5. Become(r) /\ box' = [weapon |-> w, rounds |-> now.player[p].pool[a] - j, timed |-> TRUE]
  BY <1>2, Zenon DEF Buried
<1>6. PICK it : it = [now.weapon[w] EXCEPT !.clip = now.weapon[w].clip + j]
  OBVIOUS
<1>7. now.weapon[w] \in WeaponType /\ now.weapon[w].owner = p /\ now.weapon[w].think # "remove"
  BY <1>1, <1>3, Listed
<1>8. /\ it \in WeaponType /\ it # None /\ it.clip = now.weapon[w].clip + j
      /\ it.class = c /\ it.owner = p /\ it.spare = now.weapon[w].spare
      /\ it.pending = now.weapon[w].pending /\ it.stale = now.weapon[w].stale
      /\ it.touch = now.weapon[w].touch /\ it.think = now.weapon[w].think
  <2>1. PICK old \in WeaponType : old = now.weapon[w]
    BY <1>7
  <2>2. PICK m \in Int : m = old.clip + j
    BY <1>3 DEF WeaponType
  <2>3. it = [old EXCEPT !.clip = m]
    BY <1>6, <2>1, <2>2
  <2>4. it \in WeaponType /\ it # None
    BY <2>1, <2>2, <2>3, NoneAssumption DEF WeaponType
  <2> QED BY <1>3, <1>7, <2>1, <2>2, <2>3, <2>4 DEF WeaponType
<1>9. /\ full \in States /\ full.player = now.player /\ full.weapon[w] = it
      /\ \A v \in Weapon : v # w => full.weapon[v] = now.weapon[v]
  <2>1. it \in WeaponType \cup {None}
    BY <1>8
  <2>2. LET q == [now EXCEPT !.weapon[w] = it] IN
        /\ q \in States /\ q.player = now.player /\ q.weapon[w] = it
        /\ \A v \in Weapon : v # w => q.weapon[v] = now.weapon[v]
    BY <1>1, <1>3, <2>1, EntryIs
  <2>3. full = [now EXCEPT !.weapon[w] = it]
    BY <1>2, <1>6, Zenon DEF Buried
  <2> QED BY <2>2, <2>3
<1>10. PICK clip \in Int : clip = now.weapon[w].clip
  BY <1>7 DEF WeaponType
<1>11. PICK rounds \in Nat : rounds = now.player[p].pool[a]
  <2>1. now.player[p].pool[a] \in 0..MaxAmmo[a]
    BY <1>1, <1>3 DEF Fit, PoolFits
  <2>2. MaxAmmo[a] \in Nat
    BY <1>3, Constants
  <2> QED BY <2>1, <2>2
<1>12. j = IF MaxClip[c] - clip <= rounds THEN MaxClip[c] - clip ELSE rounds
  <2>1. j = LET m == MaxClip[c] - now.weapon[w].clip
            IN IF m <= now.player[p].pool[a] THEN m ELSE now.player[p].pool[a]
    BY <1>2, Zenon DEF Buried
  <2> QED BY <1>10, <1>11, <2>1
<1>13. ClipFits(now.weapon[w]) /\ LoadFits(now, w)
  BY <1>1, <1>3 DEF Fit
<1>14. MaxClip[c] \in Int
  BY <1>3, Constants
<1>15. MaxClip[c] = NoClip => clip = NoClip
  BY <1>1, <1>3, <1>10, HeldClip
<1>16. MaxClip[c] # NoClip => clip <= MaxClip[c]
  BY <1>3, <1>10, <1>13 DEF ClipFits
<1>17. j \in 0..rounds /\ (MaxClip[c] = NoClip => j = 0) /\ clip + j <= MaxClip[c]
  BY <1>11, <1>12, <1>14, <1>15, <1>16
<1>18. ClipFits(it)
  <2>1. CASE MaxClip[c] = NoClip
    BY <1>8, <1>10, <1>15, <1>17, <2>1 DEF ClipFits
  <2>2. CASE MaxClip[c] # NoClip
    <3>1. clip >= 0 \/ it.stale
      BY <1>3, <1>8, <1>10, <1>13, <2>2 DEF ClipFits
    <3>2. it.clip <= MaxClip[c] /\ (it.clip >= 0 \/ it.stale)
      BY <1>8, <1>10, <1>17, <3>1
    <3> QED BY <1>8, <2>2, <3>2 DEF ClipFits
  <2> QED BY <2>1, <2>2
<1>19. LoadFits(full, w)
  <2>1. SUFFICES ASSUME Loading(it) PROVE /\ now.player[p].active = w
                                          /\ it.clip = 0 => Rounds(full, w) > 0
    BY <1>8, <1>9 DEF LoadFits
  <2>2. Loading(now.weapon[w]) /\ MaxClip[c] # NoClip /\ ~now.weapon[w].stale
    BY <1>3, <1>8, <2>1 DEF Loading
  <2>3. clip >= 0 /\ (clip = 0 => Rounds(now, w) > 0)
    BY <1>3, <1>10, <1>13, <2>2 DEF ClipFits, LoadFits
  <2>4. it.clip = 0 => clip = 0
    BY <1>8, <1>10, <1>17, <2>3
  <2>5. Rounds(full, w) = Rounds(now, w)
    BY <1>3, <1>7, <1>8, <1>9 DEF Rounds
  <2> QED BY <1>3, <2>3, <2>4, <2>5
<1>20. Fit(full)
  BY <1>1, <1>3, <1>9, <1>18, <1>19, EntryFits
<1>21. t \in States /\ Fit(t) /\ Conserves(full, t)
  BY <1>4, <1>20, PackedFits
<1>22. /\ r \in States /\ Fit(r)
       /\ (\A v \in t.player[p].items : Paid(t.weapon[v])) =>
             /\ Conserves(t, r)
             /\ \A b \in Ammo : TotalIn(r, b) <= TotalIn(t, b) - t.player[p].pool[b]
  BY <1>4, <1>21, RemoveAllFits
<1>23. r.weapon[w] # None
  <2>1. Sound(r, {w})
    BY <1>4, RemoveAllSound
  <2> QED BY <2>1 DEF Sound, Kept
<1>24. PICK n \in Nat : n = rounds - j
  BY <1>17
<1>25. box' = [weapon |-> w, rounds |-> n, timed |-> TRUE] /\ box = None
  BY <1>5, <1>11, <1>24 DEF PackDeadPlayerItems
<1>26. ASSUME ~Owing, NEW b \in Ammo
       PROVE  TotalIn(r, b) <=
                TotalIn(now, b) - (IF w # None /\ AmmoOf[r.weapon[w].class] = b THEN n ELSE 0)
  <2>1. \A v \in t.player[p].items : Paid(t.weapon[v])
    <3>1. ASSUME NEW v \in t.player[p].items PROVE Paid(t.weapon[v])
      <4>1. v \in now.player[p].items /\ v # w
        BY <1>4, <1>9 DEF Packed
      <4>2. v \in Weapon /\ now.weapon[v] # None
        BY <1>1, <4>1, Listed
      <4>3. t.weapon[v] = now.weapon[v]
        BY <1>4, <1>9, <4>1, <4>2 DEF Packed
      <4> QED BY <1>26, <4>2, <4>3, PaidUp
    <3> QED BY <3>1
  <2>2. Conserves(t, r) /\ TotalIn(r, b) <= TotalIn(t, b) - t.player[p].pool[b]
    BY <1>22, <2>1
  <2>3. TotalIn(t, b) <= TotalIn(full, b)
    BY <1>21 DEF Conserves
  <2>4. TotalIn(full, b) <= TotalIn(now, b) + (RoundsIn(it, b) - RoundsIn(now.weapon[w], b))
    BY <1>1, <1>3, <1>9, EntryTotal
  <2>5. RoundsIn(it, b) - RoundsIn(now.weapon[w], b) = IF b = a THEN j ELSE 0
    <3>1. it.spare \in Int
      BY <1>8 DEF WeaponType
    <3>2. CASE b # a
      <4>1. RoundsIn(it, b) = 0 /\ RoundsIn(now.weapon[w], b) = 0
        BY <1>3, <1>8, <3>2 DEF RoundsIn
      <4> QED BY <3>2, <4>1
    <3>3. CASE b = a /\ MaxClip[c] = NoClip
      <4>1. RoundsIn(it, b) = it.spare + 0 /\ RoundsIn(now.weapon[w], b) = it.spare + 0
        BY <1>3, <1>7, <1>8, <3>3 DEF RoundsIn
      <4> QED BY <1>17, <3>1, <3>3, <4>1
    <3>4. CASE b = a /\ MaxClip[c] # NoClip
      <4>1. /\ RoundsIn(it, b) = it.spare + it.clip
            /\ RoundsIn(now.weapon[w], b) = it.spare + now.weapon[w].clip
        BY <1>3, <1>7, <1>8, <3>4 DEF RoundsIn
      <4> QED BY <1>3, <1>8, <1>10, <3>1, <3>4, <4>1
    <3> QED BY <3>2, <3>3, <3>4
  <2>6. t.player[p].pool[b] = now.player[p].pool[b] /\ now.player[p].pool[b] \in Nat
    <3>1. now.player[p].pool[b] \in 0..MaxAmmo[b] /\ MaxAmmo[b] \in Nat
      BY <1>1, Constants DEF Fit, PoolFits
    <3> QED BY <1>4, <1>9, <3>1 DEF Packed
  <2>7. /\ TotalIn(r, b) \in Int /\ TotalIn(t, b) \in Int /\ TotalIn(full, b) \in Int
        /\ TotalIn(now, b) \in Int
    BY <1>1, <1>9, <1>21, <1>22, SumsType
  <2>8. AmmoOf[r.weapon[w].class] = a
    BY <1>3, <1>8, <1>9, <1>21, <2>2 DEF Conserves
  <2>9. PICK diff \in Int : diff = RoundsIn(it, b) - RoundsIn(now.weapon[w], b)
    BY <1>3, <2>5
  <2>10. CASE b = a
    BY <1>11, <1>24, <2>2, <2>3, <2>4, <2>5, <2>6, <2>7, <2>9, <2>10
  <2>11. CASE b # a
    BY <2>2, <2>3, <2>4, <2>5, <2>6, <2>7, <2>8, <2>9, <2>11
  <2> QED BY <2>10, <2>11
<1>27. w \in Weapon \cup {None} /\ TRUE \in BOOLEAN
  BY <1>3
<1>28. Stocked' /\ ((\A b \in Ammo : TotalIn(r, b) <=
          TotalIn(now, b) - (IF w # None /\ AmmoOf[r.weapon[w].class] = b THEN n ELSE 0))
            => NoneMade)
  BY <1>5, <1>22, <1>23, <1>25, <1>27, BoxMade
<1> QED BY <1>26, <1>28

LEMMA PackDeadPlayerItemsKeeps ==
  ASSUME Inv, Stocked, NEW p \in Player, PackDeadPlayerItems(p)
  PROVE  Stocked' /\ (Owing \/ NoneMade)
<1>1. CASE player[p].active # None
  BY <1>1, BuriedFits
<1>2. CASE player[p].active = None
  <2>1. Sound(now, Boxed) /\ now \in States /\ Fit(now)
    BY BoxedFacts DEF Stocked
  <2>2. PICK t : t = RemoveAllItems(now, p)
    OBVIOUS
  <2>3. /\ t \in States /\ Fit(t)
        /\ (\A v \in now.player[p].items : Paid(now.weapon[v])) => Conserves(now, t)
    BY <2>1, <2>2, RemoveAllFits
  <2>4. Become(t) /\ box = None /\ box' = [weapon |-> None, rounds |-> 0, timed |-> TRUE]
    BY <1>2, <2>2 DEF PackDeadPlayerItems
  <2>5. ASSUME ~Owing, NEW b \in Ammo
        PROVE  TotalIn(t, b) <=
                 TotalIn(now, b) - (IF None # None /\ AmmoOf[t.weapon[None].class] = b THEN 0 ELSE 0)
    <3>1. TotalIn(t, b) <= TotalIn(now, b)
      BY <2>1, <2>3, <2>5, PaidUp, Listed DEF Conserves
    <3>2. TotalIn(t, b) \in Int /\ TotalIn(now, b) \in Int
      BY <2>1, <2>3, SumsType
    <3> QED BY <3>1, <3>2
  <2>6. None \in Weapon \cup {None} /\ TRUE \in BOOLEAN /\ 0 \in Nat
    OBVIOUS
  <2>7. Stocked' /\ ((\A b \in Ammo : TotalIn(t, b) <=
          TotalIn(now, b) - (IF None # None /\ AmmoOf[t.weapon[None].class] = b THEN 0 ELSE 0))
            => NoneMade)
    BY <2>3, <2>4, <2>6, BoxMade
  <2> QED BY <2>5, <2>7
<1> QED BY <1>1, <1>2

(* The invariant, and what follows. *)

StockInv == Inv /\ Stocked /\ supplied \in 0..MaxSupply

LEMMA InitStocked == Init => StockInv
<1> SUFFICES ASSUME Init PROVE StockInv
  OBVIOUS
<1>1. Inv
  BY InitInv
<1>2. now.weapon = weapon /\ now.player = player /\ box = None
  BY <1>1, NowIs DEF Init
<1>3. \A w \in Weapon : now.weapon[w] = None
  BY <1>2 DEF Init
<1>4. ASSUME NEW p \in Player, NEW a \in Ammo PROVE now.player[p].pool[a] \in 0..MaxAmmo[a]
  <2>1. now.player[p].pool = NoRounds
    BY <1>2 DEF Init
  <2>2. now.player[p].pool[a] = 0 /\ MaxAmmo[a] \in Nat
    BY <2>1, Constants DEF NoRounds
  <2> QED BY <2>2
<1>5. Fit(now)
  BY <1>3, <1>4 DEF Fit, PoolFits
<1>6. supplied \in 0..MaxSupply
  BY InventoryAssumption DEF Init
<1> QED BY <1>1, <1>2, <1>5, <1>6 DEF Stocked, StockInv

LEMMA SupplyStocks == Inv /\ Stocked /\ Supply => Stocked'
<1> SUFFICES ASSUME Inv, Stocked, Supply PROVE Stocked'
  OBVIOUS
<1>1. ASSUME NEW w \in Weapon, NEW c \in Class, Spawn(w, c) PROVE Stocked'
  BY <1>1, SpawnStocks
<1>2. ASSUME NEW p \in Player, NEW a \in Ammo, TakeAmmo(p, a) PROVE Stocked'
  BY <1>2, TakeAmmoStocks
<1>3. ASSUME NEW p \in Player, NEW w \in Weapon, Respawn(p, w) PROVE Stocked'
  BY <1>3, RespawnStocks
<1> QED BY <1>1, <1>2, <1>3 DEF Supply

LEMMA WorldKeeps == Inv /\ Stocked /\ World => Stocked' /\ (Owing \/ NoneMade)
<1> SUFFICES ASSUME Inv, Stocked, World PROVE Stocked' /\ (Owing \/ NoneMade)
  OBVIOUS
<1>1. KillBox => Stocked' /\ (Owing \/ NoneMade)
  BY KillBoxKeeps
<1>2. ASSUME NEW w \in Weapon, Removed(w) \/ DoRetireWeapon(w) PROVE Stocked' /\ NoneMade
  BY <1>2, RemovedKeeps, DoRetireWeaponKeeps
<1>3. ASSUME NEW p \in Player, Killed(p) \/ PackDeadPlayerItems(p) \/ Strip(p) \/ TouchBox(p)
      PROVE  Stocked' /\ (Owing \/ NoneMade)
  BY <1>3, KilledKeeps, PackDeadPlayerItemsKeeps, StripKeeps, TouchBoxKeeps
<1>4. ASSUME NEW p \in Player, NEW w \in Weapon, DefaultTouch(p, w)
      PROVE  Stocked' /\ (Owing \/ NoneMade)
  BY <1>4, DefaultTouchKeeps
<1> QED BY <1>1, <1>2, <1>3, <1>4 DEF World

LEMMA CommandsKeep == Inv /\ Stocked /\ Commands => Stocked' /\ NoneMade
<1> SUFFICES ASSUME Inv, Stocked, Commands PROVE Stocked' /\ NoneMade
  OBVIOUS
<1>1. ASSUME NEW p \in Player, SelectLastItem(p) PROVE Stocked' /\ NoneMade
  BY <1>1, SelectLastItemKeeps
<1>2. ASSUME NEW p \in Player, NEW w \in Weapon, SelectItem(p, w) \/ DropPlayerItem(p, w)
      PROVE  Stocked' /\ NoneMade
  BY <1>2, SelectItemKeeps, DropPlayerItemKeeps
<1> QED BY <1>1, <1>2 DEF Commands

LEMMA FrameKeeps ==
  ASSUME Inv, Stocked, NEW p \in Player, Frame(p)
  PROVE  Stocked' /\ NoneMade
BY PrimaryAttackKeeps, ReloadKeeps, DiscardKeeps, WeaponIdleKeeps DEF Frame

\* What a step leaves: all that fits, and no more than there was.
LEMMA StepStocked ==
  ASSUME StockInv, [Next]_vars
  PROVE  StockInv' /\ (UNCHANGED vars \/ supplied' # supplied \/ Owing \/ NoneMade)
<1>1. Inv /\ Stocked /\ supplied \in 0..MaxSupply /\ MaxSupply \in Nat /\ Inv'
  BY StepInv, InventoryAssumption DEF StockInv
<1>2. CASE UNCHANGED vars
  <2>1. now' = now /\ box' = box /\ supplied' = supplied
    BY <1>2 DEF vars, now
  <2> QED BY <1>1, <1>2, <2>1 DEF StockInv, Stocked
<1>3. CASE Supply
  <2>1. supplied < MaxSupply /\ supplied' = supplied + 1
    BY <1>3 DEF Supply
  <2> QED BY <1>1, <1>3, <2>1, SupplyStocks DEF StockInv
<1>4. CASE UNCHANGED supplied /\ (World \/ Commands \/ \E p \in Player : Frame(p))
  <2>1. Stocked' /\ (Owing \/ NoneMade)
    BY <1>1, <1>4, WorldKeeps, CommandsKeep, FrameKeeps
  <2> QED BY <1>1, <1>4, <2>1 DEF StockInv
<1> QED BY <1>2, <1>3, <1>4 DEF Next

LEMMA AlwaysStocked == Spec => []StockInv
<1>1. Init => StockInv
  BY InitStocked
<1>2. StockInv /\ [Next]_vars => StockInv'
  BY StepStocked
<1> QED BY <1>1, <1>2, PTL DEF Spec

\* Pools, clips and the box hold neither less than nothing nor more than fits, but for the
\* clip of a gun that was holstered in the middle of a reload (Holster, ReloadSetAmmos): for
\* any number of players and weapons.
THEOREM WithinBounds == Spec => []TypeOK
<1>1. ASSUME StockInv PROVE TypeOK
  <2>1. /\ Sound(now, Boxed) /\ now \in States /\ Fit(now)
        /\ now.weapon = weapon /\ now.player = player
        /\ supplied \in 0..MaxSupply /\ (box # None => box \in BoxType /\ box.rounds >= 0)
    BY <1>1, BoxedFacts, NowIs DEF StockInv, Stocked, Inv
  <2>2. weapon \in [Weapon -> WeaponType \cup {None}] /\ player \in [Player -> PlayerType]
    BY <2>1 DEF States
  <2>3. ASSUME NEW w \in Weapon \ Free
        PROVE  IF MaxClip[weapon[w].class] = NoClip THEN weapon[w].clip \in {NoClip, 0}
               ELSE /\ weapon[w].clip <= MaxClip[weapon[w].class]
                    /\ weapon[w].clip >= 0 \/ weapon[w].stale
    <3>1. ClipFits(weapon[w])
      BY <2>1 DEF Fit, Free
    <3> QED BY <3>1 DEF ClipFits
  <2>4. \A p \in Player, a \in Ammo : player[p].pool[a] \in 0..MaxAmmo[a]
    BY <2>1 DEF Fit, PoolFits
  <2> QED BY <2>1, <2>2, <2>3, <2>4 DEF TypeOK
<1> QED BY <1>1, AlwaysStocked, PTL

\* No step but a supply makes ammunition, unless a gun that was holstered in the middle of a
\* reload owes a round: what AddPlayerItem, GiveAmmo, ReloadSetAmmos, PackWeapon,
\* DropPlayerItem and PackDeadPlayerItems hand over is taken from where it was.
THEOREM AmmunitionKept == Spec => AmmoKept
<1>1. ASSUME StockInv, [Next]_vars
      PROVE  [supplied' # supplied \/ Owing \/ \A a \in Ammo : Total(a)' <= Total(a)]_vars
  BY <1>1, StepStocked DEF NoneMade
<1> QED BY <1>1, AlwaysStocked, PTL DEF AmmoKept, Spec

=============================================================================
