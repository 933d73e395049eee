-------------------------------- MODULE Door --------------------------------
(***************************************************************************)
(* Doors: CBaseDoor and CRotDoor of dlls/doors.cpp, with LinearMove,       *)
(* AngularMove and FireTargets of dlls/subs.cpp.                           *)
(*                                                                         *)
(* A door rests at the bottom or at the top and moves between them.  It is *)
(* touched by players, used by triggers, buttons, monsters and players,    *)
(* stopped by what stands in its way, and fires its targets, other doors   *)
(* among them, when it arrives.  Doors of one name are pieces of one door: *)
(* a piece that is blocked turns its peers around too.                     *)
(*                                                                         *)
(* A position is an end or somewhere between; the order of the pieces in   *)
(* the entity list makes no difference because pieces of one name do not   *)
(* target each other (TargetsAssumption).                                  *)
(***************************************************************************)

CONSTANTS
  Door,
  Group,      \* Group[d]: the doors with d's targetname, {d} when it has none
  Named,      \* doors that have a targetname
  Mastered,   \* doors that have a master (m_sMaster)
  Toggle,     \* doors flagged SF_DOOR_NO_AUTO_RETURN
  UseOnly,    \* doors flagged SF_DOOR_USE_ONLY
  Stays,      \* doors whose m_flWait is -1
  Rotating,   \* func_door_rotating
  TopFires,   \* TopFires[d]: the doors d uses when it arrives at the top
  BottomFires \* the same for the bottom

ASSUME DoorsAssumption ==
  /\ Named \subseteq Door /\ Toggle \subseteq Door /\ UseOnly \subseteq Door
  /\ Stays \subseteq Door /\ Rotating \subseteq Door /\ Mastered \subseteq Door
  /\ \A d \in Door :
       /\ Group[d] \subseteq Door /\ d \in Group[d]
       /\ d \notin Named => Group[d] = {d}
       /\ \A e \in Group[d] : Group[e] = Group[d] /\ (e \in Rotating <=> d \in Rotating)

ASSUME TargetsAssumption ==
  \A d \in Door : /\ TopFires[d] \subseteq Named \ Group[d]
                  /\ BottomFires[d] \subseteq Named \ Group[d]

VARIABLES
  door,   \* the fields of each door
  locked  \* doors whose master is not triggered

vars == <<door, locked>>

Fields ==
  [state : {"AT_BOTTOM", "GOING_UP", "AT_TOP", "GOING_DOWN"},  \* m_toggle_state
   pos   : {"bottom", "between", "top"},                       \* origin or angles
   think : {"none", "move", "wait"},     \* nothing, LinearMoveDone, DoorGoDown
   done  : {"none", "HitTop", "HitBottom"},                    \* m_pfnCallWhenMoveDone
   touch : BOOLEAN,                      \* the touch function is DoorTouch
   failed : BOOLEAN]                     \* history: an ASSERT of the door failed

Moving(r) == r.state \in {"GOING_UP", "GOING_DOWN"}

-----------------------------------------------------------------------------
(* What the functions of a door do to its fields *)

\* Variation: DoorHitTop does not arm the return.
HitTopUnarmed(d, r) ==
  [r EXCEPT !.state = "AT_TOP", !.pos = "top", !.think = "none",
            !.touch = IF d \in Toggle /\ d \notin UseOnly THEN TRUE ELSE @,
            !.failed = @ \/ r.state # "GOING_UP"]

HitTop(d, r) ==
  [r EXCEPT !.state = "AT_TOP", !.pos = "top",
            !.think = IF d \in Toggle \cup Stays THEN "none" ELSE "wait",
            !.touch = IF d \in Toggle /\ d \notin UseOnly THEN TRUE ELSE @,
            !.failed = @ \/ r.state # "GOING_UP"]

\* Variation: DoorHitBottom does not re-instate the touch function.
HitBottomDeaf(d, r) ==
  [r EXCEPT !.state = "AT_BOTTOM", !.pos = "bottom", !.think = "none",
            !.failed = @ \/ r.state # "GOING_DOWN"]

HitBottom(d, r) ==
  [r EXCEPT !.state = "AT_BOTTOM", !.pos = "bottom", !.think = "none",
            !.touch = d \notin UseOnly,
            !.failed = @ \/ r.state # "GOING_DOWN"]

\* DoorGoUp; LinearMove ends at once for a door that is already there.
GoUp(d, r) ==
  LET start == [r EXCEPT !.state = "GOING_UP", !.done = "HitTop", !.think = "move",
                         !.failed = @ \/ r.state \notin {"AT_BOTTOM", "GOING_DOWN"}]
  IN IF r.pos = "top" THEN HitTop(d, start) ELSE start

\* Variation: DoorGoDown forgets SetMoveDone.
GoDownKeepsDone(d, r) ==
  LET start == [r EXCEPT !.state = "GOING_DOWN", !.think = "move"]
  IN IF r.pos = "bottom" THEN HitBottom(d, start) ELSE start

GoDown(d, r) ==
  LET start == [r EXCEPT !.state = "GOING_DOWN", !.done = "HitBottom", !.think = "move"]
  IN IF r.pos = "bottom" THEN HitBottom(d, start) ELSE start

\* DoorActivate past its test of the master.
Activate(d, r) == IF d \in Toggle /\ r.state = "AT_TOP" THEN GoDown(d, r) ELSE GoUp(d, r)

\* Variation: Use moves the door without asking its master.
UsedUnasked(d, r) ==
  IF r.state = "AT_BOTTOM" \/ (d \in Toggle /\ r.state = "AT_TOP") THEN Activate(d, r) ELSE r

\* Use
Used(d, r) ==
  IF d \notin locked /\ (r.state = "AT_BOTTOM" \/ (d \in Toggle /\ r.state = "AT_TOP"))
  THEN Activate(d, r) ELSE r

\* FireTargets: every door that is named is used.
Fire(D, X) == [d \in Door |-> IF d \in X THEN Used(d, D[d]) ELSE D[d]]

\* The doors used because d has arrived, when its fields are r afterwards.
Fires(d, r) == IF r.state = "AT_TOP" THEN TopFires[d]
               ELSE IF r.state = "AT_BOTTOM" THEN BottomFires[d] ELSE {}

\* Door d has just run one of its functions, which left it with fields r.
Becomes(d, r) == door' = Fire([door EXCEPT ![d] = r], Fires(d, r))

-----------------------------------------------------------------------------

\* A player touches a door: doors that are somebody's target ignore it.
Touch(d) ==
  /\ door[d].touch /\ d \notin Named
  /\ d \notin locked
  /\ Becomes(d, [Activate(d, door[d]) EXCEPT !.touch = FALSE])
  /\ UNCHANGED locked

\* A trigger, a button or a monster uses all the doors of a name; a player uses the
\* one it looks at.
Use(d) ==
  /\ \/ door' = Fire(door, Group[d])
     \/ d \in UseOnly /\ door' = Fire(door, {d})
  /\ UNCHANGED locked

\* The engine moves the door away from the end it stood at.
Advance(d) ==
  /\ \/ door[d].state = "GOING_UP" /\ door[d].pos = "bottom"
     \/ door[d].state = "GOING_DOWN" /\ door[d].pos = "top"
  /\ door' = [door EXCEPT ![d].pos = "between"]
  /\ UNCHANGED locked

\* LinearMoveDone: the time of travel is over.
MoveDone(d) ==
  /\ door[d].think = "move" /\ door[d].pos = "between"
  /\ \/ door[d].done = "HitTop" /\ Becomes(d, HitTop(d, door[d]))
     \/ door[d].done = "HitBottom" /\ Becomes(d, HitBottom(d, door[d]))
  /\ UNCHANGED locked

\* The wait at the top is over.
WaitOver(d) ==
  /\ door[d].think = "wait"
  /\ Becomes(d, GoDown(d, door[d]))
  /\ UNCHANGED locked

\* How Blocked turns a door around.
Turn(d, r) == IF r.state = "GOING_DOWN" THEN GoUp(d, r) ELSE GoDown(d, r)

\* Blocked compares the velocity and avelocity of a peer with the velocity of the
\* blocked door, which is zero when it rotates or does not move any more: only a peer
\* at rest is put where the blocked door is.
Realigned(p, d, r) ==
  IF ~Moving(door[p]) /\ (d \in Rotating \/ ~Moving(r))
  THEN [door[p] EXCEPT !.pos = r.pos] ELSE door[p]

\* What Blocked does to a peer p of the blocked door d, whose fields are r by now.
Peer(p, d, r) == IF p \in Stays THEN door[p] ELSE Turn(p, Realigned(p, d, r))

Blocked(d) ==
  /\ Moving(door[d])
  /\ LET r == IF d \in Stays THEN door[d] ELSE Turn(d, door[d])
         after == [e \in Door |-> IF e = d THEN r
                                  ELSE IF e \in Group[d] THEN Peer(e, d, r) ELSE door[e]]
         run == {e \in Group[d] : e \notin Stays}
     IN door' = Fire(after, UNION {Fires(e, after[e]) : e \in run})
  /\ UNCHANGED locked

\* Variation: a door without a master is locked too.
MasterAny(d) ==
  /\ locked' \in {locked \cup {d}, locked \ {d}}
  /\ UNCHANGED door

\* The master of a door, a multisource, changes.
Master(d) ==
  /\ d \in Mastered
  /\ locked' \in {locked \cup {d}, locked \ {d}}
  /\ UNCHANGED door

-----------------------------------------------------------------------------

\* Spawn: a door that starts open has swapped its ends and is at its bottom too.
Init ==
  /\ door = [d \in Door |-> [state |-> "AT_BOTTOM", pos |-> "bottom", think |-> "none",
                             done |-> "none", touch |-> d \notin UseOnly,
                             failed |-> FALSE]]
  /\ locked \in SUBSET Mastered

Next ==
  \E d \in Door : \/ Touch(d) \/ Use(d) \/ Advance(d) \/ MoveDone(d)
                  \/ WaitOver(d) \/ Blocked(d) \/ Master(d)

Spec == Init /\ [][Next]_vars

\* The engine runs a think function whose time has come.
FairSpec == Spec /\ \A d \in Door : WF_vars(WaitOver(d))

-----------------------------------------------------------------------------
(* Properties *)

\* Every field of every door holds what its declaration allows.
TypeOK == door \in [Door -> Fields] /\ locked \in SUBSET Mastered

\* The function scheduled for a door is the one its state waits for; it rests only at
\* the ends; the return of one that returns by itself is scheduled.
Fits(d, r) ==
  /\ r.state = "AT_BOTTOM" => r.pos = "bottom" /\ r.think = "none"
  /\ r.state = "AT_TOP" =>
       /\ r.pos = "top"
       /\ r.think = IF d \in Toggle \cup Stays THEN "none" ELSE "wait"
  /\ r.state = "GOING_UP" => r.pos # "top" /\ r.think = "move" /\ r.done = "HitTop"
  /\ r.state = "GOING_DOWN" => r.pos # "bottom" /\ r.think = "move" /\ r.done = "HitBottom"

\* Whatever the order of touches, uses, blocks and arrivals, no door is stuck: state,
\* place and scheduled function fit, and so DoorHitTop and DoorHitBottom are only
\* called in the states they assert.
ThinkFits == \A d \in Door : Fits(d, door[d])

\* A door that is shut can be touched again: the touch function that DoorTouch
\* disabled has come back, whichever way the door came down.  (At the top of a toggle
\* door this fails: a touch that meets the door as it starts down takes it back up on
\* the spot, and DoorTouch then disables what DoorHitTop has just re-instated.)
TouchBack ==
  \A d \in Door \ UseOnly : door[d].state = "AT_BOTTOM" => door[d].touch

\* A door whose master is not triggered does not open: neither by a touch or a use nor
\* as a peer of a blocked door.
LockedStaysShut ==
  [][\A d \in locked : door[d].state = "AT_BOTTOM" => door'[d].state # "GOING_UP"]_vars

\* A door that returns by itself leaves the top.
Returns ==
  \A d \in Door \ (Toggle \cup Stays) : door[d].state = "AT_TOP" ~> door[d].state # "AT_TOP"

\* The assertions of DoorGoUp, DoorHitTop and DoorHitBottom hold.
AssertsHold == \A d \in Door : ~door[d].failed

=============================================================================
