----------------------------- MODULE DoorProofs -----------------------------
(* Theorems about Door, for every set of doors and every way to name, flag and link *)
(* them.                                                                              *)
EXTENDS Door, TLAPS

(***************************************************************************)
(* What the functions of a door leave behind                               *)
(***************************************************************************)

\* Each function of a door returns fields, and fields that fit, from any fields.
LEMMA EndsFit ==
  ASSUME NEW d \in Door, NEW r \in Fields
  PROVE  /\ HitTop(d, r) \in Fields /\ Fits(d, HitTop(d, r))
         /\ HitBottom(d, r) \in Fields /\ Fits(d, HitBottom(d, r))
BY DEF HitTop, HitBottom, Fits, Fields

LEMMA GoUpFits ==
  ASSUME NEW d \in Door, NEW r \in Fields
  PROVE  GoUp(d, r) \in Fields /\ Fits(d, GoUp(d, r))
<1> DEFINE start == [r EXCEPT !.state = "GOING_UP", !.done = "HitTop", !.think = "move",
                         !.failed = @ \/ r.state \notin {"AT_BOTTOM", "GOING_DOWN"}]
<1>1. start \in Fields
  BY DEF Fields
<1>2. CASE r.pos = "top"
  <2>1. GoUp(d, r) = HitTop(d, start)
    BY <1>2 DEF GoUp
  <2> HIDE DEF start
  <2> QED BY <1>1, <2>1, EndsFit
<1>3. CASE r.pos # "top"
  <2>1. GoUp(d, r) = start
    BY <1>3 DEF GoUp
  <2>2. Fits(d, start)
    BY <1>3 DEF Fits, Fields
  <2> QED BY <1>1, <2>1, <2>2
<1> QED BY <1>2, <1>3

LEMMA GoDownFits ==
  ASSUME NEW d \in Door, NEW r \in Fields
  PROVE  GoDown(d, r) \in Fields /\ Fits(d, GoDown(d, r))
<1> DEFINE start == [r EXCEPT !.state = "GOING_DOWN", !.done = "HitBottom", !.think = "move"]
<1>1. start \in Fields
  BY DEF Fields
<1>2. CASE r.pos = "bottom"
  <2>1. GoDown(d, r) = HitBottom(d, start)
    BY <1>2 DEF GoDown
  <2> HIDE DEF start
  <2> QED BY <1>1, <2>1, EndsFit
<1>3. CASE r.pos # "bottom"
  <2>1. GoDown(d, r) = start
    BY <1>3 DEF GoDown
  <2>2. Fits(d, start)
    BY <1>3 DEF Fits, Fields
  <2> QED BY <1>1, <2>1, <2>2
<1> QED BY <1>2, <1>3

LEMMA ActivateFits ==
  ASSUME NEW d \in Door, NEW r \in Fields
  PROVE  Activate(d, r) \in Fields /\ Fits(d, Activate(d, r))
BY GoUpFits, GoDownFits DEF Activate

LEMMA TurnFits ==
  ASSUME NEW d \in Door, NEW r \in Fields
  PROVE  Turn(d, r) \in Fields /\ Fits(d, Turn(d, r))
BY GoUpFits, GoDownFits DEF Turn

\* FireTargets keeps all doors well formed, and touches only doors it uses.
LEMMA FireFits ==
  ASSUME NEW D \in [Door -> Fields], NEW X, \A d \in Door : Fits(d, D[d])
  PROVE  /\ Fire(D, X) \in [Door -> Fields]
         /\ \A d \in Door : Fits(d, Fire(D, X)[d])
BY ActivateFits DEF Fire, Used

LEMMA BecomesFits ==
  ASSUME TypeOK, ThinkFits, NEW d \in Door, NEW r \in Fields, Fits(d, r), Becomes(d, r)
  PROVE  door' \in [Door -> Fields] /\ ThinkFits'
<1> DEFINE D == [door EXCEPT ![d] = r]
<1>1. D \in [Door -> Fields] /\ \A e \in Door : Fits(e, D[e])
  BY DEF TypeOK, ThinkFits
<1> HIDE DEF D
<1>2. door' = Fire(D, Fires(d, r))
  BY DEF Becomes, D
<1> QED BY <1>1, <1>2, FireFits DEF ThinkFits

(***************************************************************************)
(* Safety                                                                  *)
(***************************************************************************)

\* What Blocked does to the blocked door and its peers before any target fires.
AfterBlock(d) ==
  LET r == IF d \in Stays THEN door[d] ELSE Turn(d, door[d])
  IN [e \in Door |-> IF e = d THEN r ELSE IF e \in Group[d] THEN Peer(e, d, r) ELSE door[e]]

LEMMA BlockedShape ==
  ASSUME NEW d \in Door, Blocked(d)
  PROVE  \E X : door' = Fire(AfterBlock(d), X)
BY DEF Blocked, AfterBlock

LEMMA AfterBlockFits ==
  ASSUME TypeOK, ThinkFits, NEW d \in Door
  PROVE  /\ AfterBlock(d) \in [Door -> Fields]
         /\ \A e \in Door : Fits(e, AfterBlock(d)[e])
<1> DEFINE r == IF d \in Stays THEN door[d] ELSE Turn(d, door[d])
<1>1. r \in Fields /\ Fits(d, r)
  BY TurnFits DEF TypeOK, ThinkFits
<1>2. ASSUME NEW e \in Door PROVE Peer(e, d, r) \in Fields /\ Fits(e, Peer(e, d, r))
  <2>1. door[e] \in Fields /\ Fits(e, door[e])
    BY DEF TypeOK, ThinkFits
  <2>2. r.pos \in {"bottom", "between", "top"}
    BY <1>1 DEF Fields
  <2> HIDE DEF r
  <2>3. Realigned(e, d, r) \in Fields
    BY <2>1, <2>2 DEF Realigned, Fields
  <2> QED BY <2>1, <2>3, TurnFits DEF Peer
<1>3. AfterBlock(d) = [e \in Door |-> IF e = d THEN r
                                      ELSE IF e \in Group[d] THEN Peer(e, d, r) ELSE door[e]]
  BY DEF AfterBlock
<1> HIDE DEF r
<1> QED BY <1>1, <1>2, <1>3 DEF TypeOK, ThinkFits

IInv == TypeOK /\ ThinkFits

LEMMA InitFits == Init => IInv
BY DEF Init, IInv, TypeOK, ThinkFits, Fits, Fields

LEMMA TouchFits ==
  ASSUME IInv, NEW d \in Door, Touch(d) PROVE IInv'
<1> DEFINE r == [Activate(d, door[d]) EXCEPT !.touch = FALSE]
<1>1. Activate(d, door[d]) \in Fields /\ Fits(d, Activate(d, door[d]))
  BY ActivateFits DEF IInv, TypeOK
<1>2. r \in Fields /\ Fits(d, r)
  <2> DEFINE a == Activate(d, door[d])
  <2> SUFFICES [a EXCEPT !.touch = FALSE] \in Fields /\ Fits(d, [a EXCEPT !.touch = FALSE])
    OBVIOUS
  <2>1. a \in Fields /\ Fits(d, a)
    BY <1>1
  <2> HIDE DEF a
  <2> QED BY <2>1 DEF Fields, Fits
<1>3. Becomes(d, r)
  BY DEF Touch
<1> HIDE DEF r
<1> QED BY <1>2, <1>3, BecomesFits DEF IInv, TypeOK, Touch

LEMMA MovesFit ==
  ASSUME IInv, NEW d \in Door, Advance(d) \/ MoveDone(d) \/ WaitOver(d) PROVE IInv'
<1>1. CASE Advance(d)
  <2>1. door' = [door EXCEPT ![d].pos = "between"] /\ locked' = locked
    BY <1>1 DEF Advance
  <2>2. door[d] \in Fields /\ Fits(d, door[d])
    BY DEF IInv, TypeOK, ThinkFits
  <2>3. [door[d] EXCEPT !.pos = "between"] \in Fields
    BY <2>2 DEF Fields
  <2>4. Fits(d, [door[d] EXCEPT !.pos = "between"])
    BY <1>1, <2>2 DEF Fits, Fields, Advance
  <2>5. door' = [door EXCEPT ![d] = [door[d] EXCEPT !.pos = "between"]]
    BY <2>1 DEF IInv, TypeOK
  <2> QED BY <2>1, <2>3, <2>4, <2>5 DEF IInv, TypeOK, ThinkFits
<1>2. CASE MoveDone(d)
  <2>1. door[d] \in Fields
    BY DEF IInv, TypeOK
  <2>2. Becomes(d, HitTop(d, door[d])) \/ Becomes(d, HitBottom(d, door[d]))
    BY <1>2 DEF MoveDone
  <2> QED BY <1>2, <2>1, <2>2, EndsFit, BecomesFits DEF IInv, TypeOK, MoveDone
<1>3. CASE WaitOver(d)
  <2>1. door[d] \in Fields
    BY DEF IInv, TypeOK
  <2> QED BY <1>3, <2>1, GoDownFits, BecomesFits DEF IInv, TypeOK, WaitOver
<1> QED BY <1>1, <1>2, <1>3

LEMMA InvariantFits == IInv /\ [Next]_vars => IInv'
<1> SUFFICES ASSUME IInv, [Next]_vars PROVE IInv'
  OBVIOUS
<1>1. CASE UNCHANGED vars
  BY <1>1 DEF vars, IInv, TypeOK, ThinkFits
<1>2. ASSUME NEW d \in Door, Use(d) PROVE IInv'
  <2>1. door' = Fire(door, Group[d]) \/ door' = Fire(door, {d})
    BY <1>2 DEF Use
  <2>2. locked' = locked
    BY <1>2 DEF Use
  <2> QED BY <2>1, <2>2, FireFits DEF IInv, TypeOK, ThinkFits
<1>3. ASSUME NEW d \in Door, Blocked(d) PROVE IInv'
  <2>1. PICK X : door' = Fire(AfterBlock(d), X)
    BY <1>3, BlockedShape
  <2>2. locked' = locked
    BY <1>3 DEF Blocked
  <2> QED BY <2>1, <2>2, AfterBlockFits, FireFits DEF IInv, TypeOK, ThinkFits
<1>4. ASSUME NEW d \in Door, Master(d) PROVE IInv'
  BY <1>4 DEF Master, IInv, TypeOK, ThinkFits
<1> QED BY <1>1, <1>2, <1>3, <1>4, TouchFits, MovesFit DEF Next

\* Every reachable state of the doors is well typed.
THEOREM TypeCorrect == Spec => []TypeOK
<1>1. IInv => TypeOK
  BY DEF IInv
<1> QED BY <1>1, InitFits, InvariantFits, PTL DEF Spec

\* No door is ever stuck: for any doors, names, flags and targets, the scheduled
\* function always fits the state of the door.
THEOREM NoneStuck == Spec => []ThinkFits
<1>1. IInv => ThinkFits
  BY DEF IInv
<1> QED BY <1>1, InitFits, InvariantFits, PTL DEF Spec

(***************************************************************************)
(* Masters                                                                 *)
(***************************************************************************)

\* The functions that bring a door down never leave it going up.
LEMMA DownIsNotUp ==
  ASSUME NEW d \in Door, NEW r \in Fields
  PROVE  /\ GoDown(d, r).state # "GOING_UP"
         /\ HitTop(d, r).state # "GOING_UP"
         /\ HitBottom(d, r).state # "GOING_UP"
BY DEF GoDown, HitTop, HitBottom, Fields

\* No use reaches a locked door.
LEMMA FireSparesLocked ==
  ASSUME NEW D, NEW X, NEW d \in locked, d \in Door
  PROVE  Fire(D, X)[d] = D[d]
BY DEF Fire, Used

StaysShut == \A d \in locked : door[d].state = "AT_BOTTOM" => door'[d].state # "GOING_UP"

LEMMA BecomesShut ==
  ASSUME TypeOK, NEW d \in Door, NEW r, Becomes(d, r), NEW e \in locked,
         door[e].state = "AT_BOTTOM", e = d => r.state # "GOING_UP"
  PROVE  door'[e].state # "GOING_UP"
<1>1. e \in Door
  BY DoorsAssumption DEF TypeOK
<1>2. door'[e] = [door EXCEPT ![d] = r][e]
  BY <1>1, FireSparesLocked DEF Becomes
<1> QED BY <1>1, <1>2 DEF TypeOK

LEMMA StepStaysShut == IInv /\ [Next]_vars => [StaysShut]_vars
<1> SUFFICES ASSUME IInv, Next, NEW e \in locked, door[e].state = "AT_BOTTOM"
             PROVE  door'[e].state # "GOING_UP"
  BY DEF StaysShut
<1>1. e \in Door /\ door[e] \in Fields /\ Fits(e, door[e])
  BY DoorsAssumption DEF IInv, TypeOK, ThinkFits
<1>2. ASSUME NEW d \in Door, Touch(d) PROVE door'[e].state # "GOING_UP"
  BY <1>2, BecomesShut DEF Touch, IInv
<1>3. ASSUME NEW d \in Door, Use(d) PROVE door'[e].state # "GOING_UP"
  <2>1. PICK X : door' = Fire(door, X)
    BY <1>3 DEF Use
  <2> QED BY <1>1, <2>1, FireSparesLocked
<1>4. ASSUME NEW d \in Door, Advance(d) PROVE door'[e].state # "GOING_UP"
  BY <1>1, <1>4 DEF Advance, IInv, TypeOK, Fields
<1>5. ASSUME NEW d \in Door, MoveDone(d) PROVE door'[e].state # "GOING_UP"
  <2>1. PICK r \in {HitTop(d, door[d]), HitBottom(d, door[d])} : Becomes(d, r)
    BY <1>5 DEF MoveDone
  <2>2. r.state # "GOING_UP"
    BY DownIsNotUp DEF IInv, TypeOK
  <2> QED BY <2>1, <2>2, BecomesShut DEF IInv
<1>6. ASSUME NEW d \in Door, WaitOver(d) PROVE door'[e].state # "GOING_UP"
  <2>1. GoDown(d, door[d]).state # "GOING_UP"
    BY DownIsNotUp DEF IInv, TypeOK
  <2> QED BY <1>6, <2>1, BecomesShut DEF WaitOver, IInv
<1>7. ASSUME NEW d \in Door, Blocked(d) PROVE door'[e].state # "GOING_UP"
  <2> DEFINE r == IF d \in Stays THEN door[d] ELSE Turn(d, door[d])
  <2>1. PICK X : door' = Fire(AfterBlock(d), X)
    BY <1>7, BlockedShape
  <2>2. e # d
    BY <1>7 DEF Blocked, Moving
  <2>3. door'[e] = AfterBlock(d)[e]
    BY <1>1, <2>1, FireSparesLocked
  <2>4. r \in Fields
    BY TurnFits DEF IInv, TypeOK
  <2> HIDE DEF r
  <2>5. AfterBlock(d)[e] = IF e \in Group[d] THEN Peer(e, d, r) ELSE door[e]
    BY <1>1, <2>2 DEF AfterBlock, r
  <2>6. Realigned(e, d, r) \in Fields /\ Realigned(e, d, r).state = "AT_BOTTOM"
    BY <1>1, <2>4 DEF Realigned, Fields
  <2>7. Peer(e, d, r) = door[e] \/ Peer(e, d, r) = GoDown(e, Realigned(e, d, r))
    BY <2>6 DEF Peer, Turn
  <2>8. GoDown(e, Realigned(e, d, r)).state # "GOING_UP"
    BY <1>1, <2>6, DownIsNotUp
  <2> QED BY <2>3, <2>5, <2>7, <2>8
<1>8. ASSUME NEW d \in Door, Master(d) PROVE door'[e].state # "GOING_UP"
  BY <1>8 DEF Master
<1> QED BY <1>2, <1>3, <1>4, <1>5, <1>6, <1>7, <1>8 DEF Next

\* A door whose master is not triggered never leaves its bottom for the top: neither a
\* touch, nor a use, nor a peer that is blocked opens it.
THEOREM LockHolds == Spec => LockedStaysShut
<1>1. Spec => [][StaysShut]_vars
  BY InitFits, InvariantFits, StepStaysShut, PTL DEF Spec
<1> QED BY <1>1 DEF LockedStaysShut, StaysShut

(***************************************************************************)
(* Touching                                                                *)
(***************************************************************************)

\* A door with fields r that is shut can be touched.
Touchable(d, r) == d \notin UseOnly /\ r.state = "AT_BOTTOM" => r.touch

\* Whatever the fields were, each function leaves a door that is on its way, at the
\* top, or at the bottom with its touch function.
LEMMA FunctionsTouch ==
  ASSUME NEW d \in Door, NEW r \in Fields
  PROVE  /\ Touchable(d, HitTop(d, r)) /\ Touchable(d, HitBottom(d, r))
         /\ Touchable(d, GoUp(d, r)) /\ Touchable(d, GoDown(d, r))
<1>1. Touchable(d, HitTop(d, r)) /\ Touchable(d, HitBottom(d, r))
  BY DEF HitTop, HitBottom, Fields, Touchable
<1>2. Touchable(d, GoUp(d, r))
  BY DEF GoUp, HitTop, Fields, Touchable
<1>3. Touchable(d, GoDown(d, r))
  BY DEF GoDown, HitBottom, Fields, Touchable
<1> QED BY <1>1, <1>2, <1>3

\* FireTargets leaves no door deaf.
LEMMA FireTouches ==
  ASSUME NEW D \in [Door -> Fields], NEW X, NEW d \in Door, Touchable(d, D[d])
  PROVE  Touchable(d, Fire(D, X)[d])
<1>1. D[d] \in Fields
  OBVIOUS
<1>2. Touchable(d, Activate(d, D[d]))
  BY <1>1, FunctionsTouch DEF Activate
<1> QED BY <1>2 DEF Fire, Used

LEMMA BecomesTouches ==
  ASSUME TypeOK, NEW d \in Door, NEW r \in Fields, Becomes(d, r), Touchable(d, r),
         NEW e \in Door, Touchable(e, door[e])
  PROVE  Touchable(e, door'[e])
<1>1. PICK D \in [Door -> Fields] : D = [door EXCEPT ![d] = r]
  BY DEF TypeOK
<1>2. Touchable(e, D[e])
  BY <1>1 DEF TypeOK
<1>3. door' = Fire(D, Fires(d, r))
  BY <1>1 DEF Becomes
<1> QED BY <1>2, <1>3, FireTouches

\* A touch sends the door off before DoorTouch disables its touch function.
LEMMA ActivateLeaves ==
  ASSUME NEW d \in Door, NEW r \in Fields, Fits(d, r)
  PROVE  Activate(d, r).state # "AT_BOTTOM"
BY DEF Activate, GoUp, GoDown, HitTop, Fits, Fields

TouchInv == \A d \in Door : Touchable(d, door[d])

LEMMA StepTouches == IInv /\ TouchInv /\ [Next]_vars => TouchInv'
<1> SUFFICES ASSUME IInv, TouchInv, [Next]_vars, NEW e \in Door
             PROVE  Touchable(e, door'[e])
  BY DEF TouchInv, Touchable
<1>1. /\ door \in [Door -> Fields]
      /\ TypeOK
      /\ Touchable(e, door[e])
  BY DEF IInv, TypeOK, TouchInv
<1>2. CASE UNCHANGED vars
  BY <1>1, <1>2 DEF vars
<1>3. ASSUME NEW d \in Door, Touch(d) PROVE Touchable(e, door'[e])
  <2>1. PICK a \in Fields : a = Activate(d, door[d])
    BY <1>1, ActivateFits
  <2>2. a.state # "AT_BOTTOM"
    BY <1>1, <2>1, ActivateLeaves DEF IInv, ThinkFits
  <2>3. PICK r \in Fields : r = [a EXCEPT !.touch = FALSE]
    BY DEF Fields
  <2>4. Touchable(d, r)
    BY <2>2, <2>3 DEF Touchable, Fields
  <2>5. Becomes(d, r)
    BY <1>3, <2>1, <2>3 DEF Touch
  <2> QED BY <1>1, <2>4, <2>5, BecomesTouches
<1>4. ASSUME NEW d \in Door, Use(d) PROVE Touchable(e, door'[e])
  <2>1. PICK X : door' = Fire(door, X)
    BY <1>4 DEF Use
  <2> QED BY <1>1, <2>1, FireTouches
<1>5. ASSUME NEW d \in Door, Advance(d) PROVE Touchable(e, door'[e])
  <2>1. door' = [door EXCEPT ![d].pos = "between"]
    BY <1>5 DEF Advance
  <2>2. door'[e].state = door[e].state /\ door'[e].touch = door[e].touch
    BY <1>1, <2>1 DEF Fields
  <2> QED BY <1>1, <2>2 DEF Touchable
<1>6. ASSUME NEW d \in Door, MoveDone(d) PROVE Touchable(e, door'[e])
  <2>1. PICK r \in {HitTop(d, door[d]), HitBottom(d, door[d])} : Becomes(d, r)
    BY <1>6 DEF MoveDone
  <2>2. r \in Fields /\ Touchable(d, r)
    BY <1>1, EndsFit, FunctionsTouch
  <2> QED BY <1>1, <2>1, <2>2, BecomesTouches
<1>7. ASSUME NEW d \in Door, WaitOver(d) PROVE Touchable(e, door'[e])
  <2>1. GoDown(d, door[d]) \in Fields /\ Touchable(d, GoDown(d, door[d]))
    BY <1>1, GoDownFits, FunctionsTouch
  <2> QED BY <1>1, <1>7, <2>1, BecomesTouches DEF WaitOver
<1>8. ASSUME NEW d \in Door, Blocked(d) PROVE Touchable(e, door'[e])
  <2>1. PICK X : door' = Fire(AfterBlock(d), X)
    BY <1>8, BlockedShape
  <2>2. AfterBlock(d) \in [Door -> Fields]
    BY AfterBlockFits DEF IInv
  <2>3. Touchable(e, AfterBlock(d)[e])
    <3>1. PICK r \in Fields : r = IF d \in Stays THEN door[d] ELSE Turn(d, door[d])
      BY <1>1, TurnFits
    <3>2. ASSUME NEW q \in Fields PROVE Touchable(e, Turn(e, q))
      BY FunctionsTouch DEF Turn
    <3>3. Realigned(e, d, r) \in Fields
      BY <1>1, <3>1 DEF Realigned, Fields
    <3>4. AfterBlock(d)[e] \in {door[e], Turn(e, door[e]), Turn(e, Realigned(e, d, r))}
      BY <3>1 DEF AfterBlock, Peer
    <3>5. door[e] \in Fields
      BY <1>1
    <3> QED BY <1>1, <3>2, <3>3, <3>4, <3>5
  <2> QED BY <2>1, <2>2, <2>3, FireTouches
<1>9. ASSUME NEW d \in Door, Master(d) PROVE Touchable(e, door'[e])
  BY <1>1, <1>9 DEF Master
<1> QED BY <1>2, <1>3, <1>4, <1>5, <1>6, <1>7, <1>8, <1>9 DEF Next

\* A door that is shut can be touched again, however it was touched, used, blocked or
\* turned around on the way.
THEOREM NeverDeaf == Spec => []TouchBack
<1>1. Init => TouchInv
  <2> SUFFICES ASSUME Init, NEW d \in Door, d \notin UseOnly PROVE door[d].touch
    BY DEF TouchInv, Touchable
  <2>1. door[d].touch = (d \notin UseOnly)
    BY DEF Init
  <2> QED BY <2>1
<1>2. TouchInv => TouchBack
  BY DEF TouchInv, TouchBack, Touchable
<1> QED BY <1>1, <1>2, StepTouches, InitFits, InvariantFits, PTL DEF Spec

=============================================================================
