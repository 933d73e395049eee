---------------------------- MODULE ScriptProofs ----------------------------
(* That monsters and scripts hold each other, for any number of them.      *)
EXTENDS Script, FiniteSetTheorems, TLAPS

Safe == TypeOK /\ Linked /\ ScriptFound /\ NoneUndead

\* No mood is the state of a script or of a corpse.
LEMMA MoodsApart ==
  ASSUME ScriptAssumption
  PROVE  "idle" \in Moods /\ "script" \notin Moods /\ "dead" \notin Moods
BY DEF ScriptAssumption

LEMMA GroupOfScripts == \A s : Group(s) \subseteq Script
BY DEF Group

\* CineCleanup keeps monsters and scripts together, whomever it is called for.
LEMMA CleanupKeeps ==
  ASSUME ScriptAssumption, TypeOK, Linked, NEW M \in SUBSET Monster
  PROVE  /\ CineAfter(M) \in [Monster -> Script \cup {None}]
         /\ TargetAfter(M) \in [Script -> Monster \cup {None}]
         /\ LifeAfter(M) \in [Monster -> {"no", "dying", "dead"}]
         /\ StateAfter(M) \in [Monster -> Moods \cup {"script", "dead"}]
         /\ IdealAfter(M) \in [Monster -> Moods \cup {"script", "dead"}]
         /\ HurtAfter(M) \subseteq Monster /\ LostAfter(M) \subseteq Script
         /\ \A m \in Monster, s \in Script :
              /\ CineAfter(M)[m] = s <=> TargetAfter(M)[s] = m
              /\ TargetAfter(M)[s] = m => target[s] = m
         /\ \A m \in Monster :
              /\ m \in M => CineAfter(M)[m] = None /\ IdealAfter(M)[m] \in {"idle", "dead"}
              /\ m \in M /\ m \in low => IdealAfter(M)[m] = "dead"
              /\ m \notin M => CineAfter(M)[m] = cine[m] /\ IdealAfter(M)[m] = ideal[m]
<1>0. "idle" \in Moods /\ None \notin Monster /\ None \notin Script
  BY DEF ScriptAssumption
<1>1. /\ CineAfter(M) \in [Monster -> Script \cup {None}]
      /\ TargetAfter(M) \in [Script -> Monster \cup {None}]
  BY DEF TypeOK, CineAfter, TargetAfter
<1>2. /\ LifeAfter(M) \in [Monster -> {"no", "dying", "dead"}]
      /\ StateAfter(M) \in [Monster -> Moods \cup {"script", "dead"}]
  BY DEF TypeOK, LifeAfter, StateAfter
<1>3. IdealAfter(M) \in [Monster -> Moods \cup {"script", "dead"}]
  BY <1>0 DEF TypeOK, IdealAfter
<1>4. HurtAfter(M) \subseteq Monster /\ LostAfter(M) \subseteq Script
  <2>1. HurtAfter(M) \subseteq Monster
    BY DEF TypeOK, HurtAfter
  <2>2. LostAfter(M) \subseteq Script
    <3> SUFFICES ASSUME NEW s \in LostAfter(M), s \notin lost
                 PROVE  s \in Script
      BY DEF TypeOK
    <3>1. PICK m \in M : s \in Group(cine[m])
      BY Zenon DEF LostAfter
    <3> QED BY <3>1, GroupOfScripts
  <2> QED BY <2>1, <2>2
<1>5. ASSUME NEW m \in Monster, NEW s \in Script
      PROVE  /\ CineAfter(M)[m] = s <=> TargetAfter(M)[s] = m
             /\ TargetAfter(M)[s] = m => target[s] = m
  BY <1>0 DEF TypeOK, CineAfter, TargetAfter, Linked
<1>6. ASSUME NEW m \in Monster
      PROVE  /\ m \in M => CineAfter(M)[m] = None /\ IdealAfter(M)[m] \in {"idle", "dead"}
             /\ m \in M /\ m \in low => IdealAfter(M)[m] = "dead"
             /\ m \notin M => CineAfter(M)[m] = cine[m] /\ IdealAfter(M)[m] = ideal[m]
  BY DEF CineAfter, IdealAfter
<1> QED BY <1>1, <1>2, <1>3, <1>4, <1>5, <1>6

\* Using scripts leaves those alone that hold a monster or are gone.
LEMMA UsedKeeps ==
  ASSUME TypeOK, NEW S, NEW tgt, NEW thk \in [Script -> {"none", "cine", "remove", "gone"}],
         Used(S, tgt, thk)
  PROVE  /\ start' \in [Script -> {"set", "never"}]
         /\ think' \in [Script -> {"none", "cine", "remove", "gone"}]
         /\ \A s \in Script : tgt[s] # None => think'[s] = thk[s]
BY DEF TypeOK, Used

LEMMA InitSafe ==
  ASSUME ScriptAssumption, Init
  PROVE  Safe
<1>1. "idle" \in Moods /\ None \notin Monster /\ Moods \subseteq {"idle", "alert", "combat"}
  BY DEF ScriptAssumption
<1>2. /\ start \in [Script -> {"set", "never"}]
      /\ think \in [Script -> {"none", "cine", "remove", "gone"}]
      /\ troubles \in Nat
  <2>1. PICK map \in Scenes :
          /\ think = [s \in Script |-> IF s \notin map.scripts THEN "gone"
                                       ELSE IF s \in Idles \/ Name[s] = "" THEN "cine"
                                       ELSE "none"]
          /\ troubles = map.troubles
    BY DEF Init
  <2>2. map.troubles \in Nat
    BY <2>1 DEF ScriptAssumption
  <2> QED BY <2>1, <2>2 DEF Init
<1>a. /\ cine \in [Monster -> Script \cup {None}]
      /\ state \in [Monster -> Moods \cup {"script", "dead"}]
      /\ ideal \in [Monster -> Moods \cup {"script", "dead"}]
      /\ task \in [Monster -> {"none", "other", "walk", "wait", "play", "die"}]
      /\ life \in [Monster -> {"no", "dying", "dead"}]
  BY <1>1 DEF Init
<1>b. /\ target \in [Script -> Monster \cup {None}]
      /\ delay \in [Script -> Int]
  <2>1. target = [s \in Script |-> None] /\ delay = [s \in Script |-> 0]
    BY Zenon DEF Init
  <2> QED BY <2>1
<1>c. /\ playing = {} /\ hurt = {} /\ low = {} /\ killed = {} /\ lost = {} /\ late = {}
      /\ bends = Script \ NoInterrupt
  BY Zenon DEF Init
<1>3. TypeOK
  BY <1>2, <1>a, <1>b, <1>c DEF TypeOK
<1>4. /\ cine = [m \in Monster |-> None] /\ ideal = [m \in Monster |-> "idle"]
      /\ target = [s \in Script |-> None]
  BY DEF Init
<1>5. None \notin Script
  BY DEF ScriptAssumption
<1>6. Linked
  BY <1>1, <1>4, <1>5 DEF Linked
<1>7. ScriptFound /\ NoneUndead
  BY <1>4, <1>c DEF ScriptFound, NoneUndead
<1> QED BY <1>3, <1>6, <1>7 DEF Safe

LEMMA UseSafe ==
  ASSUME ScriptAssumption, Safe, NEW s \in Script, Use(s)
  PROVE  Safe'
<1>0. None \notin Monster
  BY DEF ScriptAssumption
<1>1. think \in [Script -> {"none", "cine", "remove", "gone"}]
  BY DEF Safe, TypeOK
<1>2. /\ start' \in [Script -> {"set", "never"}]
      /\ think' \in [Script -> {"none", "cine", "remove", "gone"}]
      /\ \A x \in Script : target[x] # None => think'[x] = think[x]
  BY <1>1, UsedKeeps DEF Safe, Use
<1>3. TypeOK'
  BY <1>2 DEF Safe, TypeOK, Use, monsterVars
<1>4. Linked'
  BY <1>0, <1>2 DEF Safe, Linked, Use, monsterVars
<1>5. ScriptFound' /\ NoneUndead'
  BY DEF Safe, ScriptFound, NoneUndead, Use, monsterVars
<1> QED BY <1>3, <1>4, <1>5 DEF Safe

LEMMA PossessSafe ==
  ASSUME ScriptAssumption, Safe, NEW s \in Script, NEW m \in Monster,
         think[s] = "cine", CanPlaySequence(m, s), PossessEntity(m, s),
         think' = [think EXCEPT ![s] = "none"],
         UNCHANGED <<state, life, low, killed, bends, late, troubles>>
  PROVE  Safe'
<1>0. None \notin Monster /\ None \notin Script
  BY DEF ScriptAssumption
<1>1. FirstTask(s) \in {"other", "walk", "wait"} /\ Group(s) \subseteq Script
  BY DEF FirstTask, Group
<1>2. delay' \in [Script -> Int]
  BY DEF Safe, TypeOK, PossessEntity, Delayed
<1>3. lost' \subseteq Script
  BY <1>1 DEF Safe, TypeOK, PossessEntity
<1>4. task' \in [Monster -> {"none", "other", "walk", "wait", "play", "die"}] /\ hurt' \subseteq Monster
  BY <1>1 DEF Safe, TypeOK, PossessEntity
<1>5. start' \in [Script -> {"set", "never"}]
  BY DEF Safe, TypeOK, PossessEntity
<1>6. /\ cine' \in [Monster -> Script \cup {None}]
      /\ target' \in [Script -> Monster \cup {None}]
      /\ ideal' \in [Monster -> Moods \cup {"script", "dead"}] /\ playing' \subseteq Monster
  BY DEF Safe, TypeOK, PossessEntity
<1>7. TypeOK'
  BY <1>2, <1>3, <1>4, <1>5, <1>6 DEF Safe, TypeOK
<1>8. Linked'
  BY <1>0 DEF Safe, TypeOK, Linked, PossessEntity, CanPlaySequence
<1>9. ScriptFound' /\ NoneUndead'
  BY <1>0 DEF Safe, TypeOK, ScriptFound, NoneUndead, PossessEntity
<1> QED BY <1>7, <1>8, <1>9 DEF Safe

\* Cleanup of some monsters with nothing else but a new use of scripts.
LEMMA CancelSafe ==
  ASSUME ScriptAssumption, Safe, NEW M \in SUBSET Monster, Cleanup(M),
         state' = StateAfter(M), ideal' = IdealAfter(M), hurt' = HurtAfter(M),
         UNCHANGED <<task, playing, delay, start, think, low, killed, bends, late, troubles>>
  PROVE  Safe'
<1>1. TypeOK /\ Linked
  BY DEF Safe
<1>a. /\ cine' \in [Monster -> Script \cup {None}]
      /\ target' \in [Script -> Monster \cup {None}]
      /\ life' \in [Monster -> {"no", "dying", "dead"}]
      /\ state' \in [Monster -> Moods \cup {"script", "dead"}]
      /\ ideal' \in [Monster -> Moods \cup {"script", "dead"}]
      /\ hurt' \subseteq Monster /\ lost' \subseteq Script
  BY <1>1, CleanupKeeps DEF Cleanup
<1>2. TypeOK'
  BY <1>1, <1>a DEF TypeOK
<1>3. Linked'
  BY <1>1, CleanupKeeps DEF Linked, Cleanup
<1>b. \A m \in Monster :
        /\ m \in M => cine'[m] = None /\ ideal'[m] \in {"idle", "dead"}
        /\ m \in M /\ m \in low => ideal'[m] = "dead"
        /\ m \notin M => cine'[m] = cine[m] /\ ideal'[m] = ideal[m]
  BY <1>1, CleanupKeeps, Zenon DEF Cleanup
<1>4. ScriptFound' /\ NoneUndead'
  BY <1>b DEF Safe, TypeOK, ScriptFound, NoneUndead
<1> QED BY <1>2, <1>3, <1>4 DEF Safe

LEMMA CineThinkSafe ==
  ASSUME ScriptAssumption, Safe, NEW s \in Script, CineThink(s)
  PROVE  Safe'
<1>0. Wants[s] \subseteq Monster /\ Victims(s) \subseteq Monster
  BY DEF ScriptAssumption, Victims
<1>1. CASE \E m \in {x \in Wants[s] : CanPlaySequence(x, s)} :
             /\ PossessEntity(m, s)
             /\ think' = [think EXCEPT ![s] = "none"]
             /\ UNCHANGED <<state, life>>
  <2>1. PICK m \in Wants[s] : /\ CanPlaySequence(m, s) /\ PossessEntity(m, s)
                              /\ think' = [think EXCEPT ![s] = "none"]
                              /\ UNCHANGED <<state, life>>
    BY <1>1
  <2>2. m \in Monster
    BY <1>0, <2>1
  <2> QED BY <2>1, <2>2, PossessSafe DEF CineThink
<1>2. CASE ~\E m \in {x \in Wants[s] : CanPlaySequence(x, s)} :
             /\ PossessEntity(m, s)
             /\ think' = [think EXCEPT ![s] = "none"]
             /\ UNCHANGED <<state, life>>
  <2>1. /\ Cleanup(Victims(s)) /\ state' = StateAfter(Victims(s))
        /\ ideal' = IdealAfter(Victims(s)) /\ hurt' = HurtAfter(Victims(s))
        /\ UNCHANGED <<task, playing, delay, start, think, low, killed, bends, late, troubles>>
    BY <1>2 DEF CineThink
  <2> QED BY <1>0, <2>1, CancelSafe
<1> QED BY <1>1, <1>2

LEMMA RemoveSafe ==
  ASSUME ScriptAssumption, Safe, NEW s \in Script, Remove(s)
  PROVE  Safe'
BY DEF Safe, TypeOK, Linked, ScriptFound, NoneUndead, Remove, monsterVars

\* The monster that SequenceDone is called for has a script.
LEMMA DoneSafe ==
  ASSUME ScriptAssumption, Safe, NEW m \in Monster, cine[m] # None, SequenceDone(m)
  PROVE  Safe'
<1>0. None \notin Monster /\ None \notin Script
  BY DEF ScriptAssumption
<1>1. TypeOK /\ Linked
  BY DEF Safe
<1>2. cine[m] \in Script /\ target[cine[m]] = m
  BY <1>1 DEF TypeOK, Linked
<1>3. PICK M \in SUBSET Monster : M = {m}
  OBVIOUS
<1>4. PICK thk \in [Script -> {"none", "cine", "remove", "gone"}] :
        thk = IF cine[m] \in Repeatable THEN think ELSE [think EXCEPT ![cine[m]] = "remove"]
  BY <1>1 DEF TypeOK
<1>5. /\ Used(Fires[cine[m]], TargetAfter(M), thk)
      /\ Cleanup(M) /\ state' = StateAfter(M) /\ ideal' = IdealAfter(M) /\ hurt' = HurtAfter(M)
      /\ task' = [task EXCEPT ![m] = "none"]
      /\ UNCHANGED <<playing, low, killed, delay, bends, late, troubles>>
  BY <1>3, <1>4 DEF SequenceDone
<1>6. /\ start' \in [Script -> {"set", "never"}]
      /\ think' \in [Script -> {"none", "cine", "remove", "gone"}]
      /\ \A s \in Script : TargetAfter(M)[s] # None => think'[s] = thk[s]
  BY <1>1, <1>5, UsedKeeps
<1>7. /\ cine' \in [Monster -> Script \cup {None}]
      /\ target' \in [Script -> Monster \cup {None}]
      /\ life' \in [Monster -> {"no", "dying", "dead"}]
      /\ state' \in [Monster -> Moods \cup {"script", "dead"}]
      /\ ideal' \in [Monster -> Moods \cup {"script", "dead"}]
      /\ hurt' \subseteq Monster /\ lost' \subseteq Script
      /\ \A x \in Monster, s \in Script :
           /\ cine'[x] = s <=> target'[s] = x
           /\ target'[s] = x => target[s] = x
      /\ \A x \in Monster :
           /\ x \in M => cine'[x] = None /\ ideal'[x] \in {"idle", "dead"}
           /\ x \in M /\ x \in low => ideal'[x] = "dead"
           /\ x \notin M => cine'[x] = cine[x] /\ ideal'[x] = ideal[x]
  <2>1. /\ CineAfter(M) \in [Monster -> Script \cup {None}]
        /\ TargetAfter(M) \in [Script -> Monster \cup {None}]
        /\ LifeAfter(M) \in [Monster -> {"no", "dying", "dead"}]
        /\ StateAfter(M) \in [Monster -> Moods \cup {"script", "dead"}]
        /\ IdealAfter(M) \in [Monster -> Moods \cup {"script", "dead"}]
        /\ HurtAfter(M) \subseteq Monster /\ LostAfter(M) \subseteq Script
        /\ \A x \in Monster, s \in Script :
             /\ CineAfter(M)[x] = s <=> TargetAfter(M)[s] = x
             /\ TargetAfter(M)[s] = x => target[s] = x
        /\ \A x \in Monster :
             /\ x \in M => CineAfter(M)[x] = None /\ IdealAfter(M)[x] \in {"idle", "dead"}
             /\ x \in M /\ x \in low => IdealAfter(M)[x] = "dead"
             /\ x \notin M => CineAfter(M)[x] = cine[x] /\ IdealAfter(M)[x] = ideal[x]
    BY <1>1, CleanupKeeps, Zenon
  <2> QED BY <1>5, <2>1 DEF Cleanup
<1>7b. \A x \in Monster, s \in Script :
         /\ cine'[x] = s <=> target'[s] = x
         /\ target'[s] = x => target[s] = x
  BY <1>7
<1>7c. \A x \in Monster :
         /\ x \in M => cine'[x] = None /\ ideal'[x] \in {"idle", "dead"}
         /\ x \in M /\ x \in low => ideal'[x] = "dead"
         /\ x \notin M => cine'[x] = cine[x] /\ ideal'[x] = ideal[x]
  BY <1>7
<1>8. task' \in [Monster -> {"none", "other", "walk", "wait", "play", "die"}]
  BY <1>1, <1>5 DEF TypeOK
<1>9. TypeOK'
  BY <1>1, <1>5, <1>6, <1>7, <1>8 DEF TypeOK
<1>10. ASSUME NEW x \in Monster, NEW s \in Script
       PROVE  target'[s] = x => think'[s] = "none"
  <2>1. SUFFICES ASSUME target'[s] = x PROVE think'[s] = "none"
    OBVIOUS
  <2>2. cine'[x] = s /\ target[s] = x /\ target'[s] # None
    BY <2>1, <1>0, <1>7b
  <2>3. x # m
    BY <2>2, <1>0, <1>3, <1>7c
  <2>4. s # cine[m] /\ think[s] = "none"
    BY <1>1, <1>2, <2>2, <2>3 DEF Linked
  <2>5. thk[s] = "none"
    BY <1>1, <1>4, <2>4 DEF TypeOK
  <2>6. think'[s] = thk[s]
    BY <2>2, <1>5, <1>6 DEF Cleanup
  <2> QED BY <2>5, <2>6
<1>11. Linked'
  BY <1>7b, <1>10 DEF Linked
<1>12. ScriptFound' /\ NoneUndead'
  BY <1>5, <1>7c DEF Safe, TypeOK, ScriptFound, NoneUndead
<1> QED BY <1>9, <1>11, <1>12 DEF Safe

\* A monster that goes on in the script state has a script.
LEMMA GoesOnFound ==
  ASSUME Safe, NEW m \in Monster, state[m] = "script", GoesOn(m)
  PROVE  cine[m] # None /\ cine[m] \in Script
BY DEF Safe, TypeOK, ScriptFound, GoesOn

LEMMA RescheduleSafe ==
  ASSUME ScriptAssumption, Safe, NEW m \in Monster, Reschedule(m)
  PROVE  Safe'
<1>1. TypeOK /\ Linked
  BY DEF Safe
<1>2. PICK M \in SUBSET Monster : M = Released(m)
  BY DEF Released, Victims
<1>3. /\ cine' = CineAfter(M) /\ target' = TargetAfter(M)
      /\ lost' = LostAfter(IF IdealNext(m) = "dead" THEN M \cup {m} ELSE M)
      /\ state' = [StateAfter(M) EXCEPT ![m] = IdealNext(m)]
      /\ ideal' = [IdealAfter(M) EXCEPT ![m] = IdealNext(m)]
      /\ life' = [LifeAfter(M) EXCEPT ![m] = IF IdealNext(m) = "dead" THEN "dying" ELSE @]
      /\ task' = [task EXCEPT ![m] = CASE IdealNext(m) = "dead" -> "die"
                                       [] IdealNext(m) = "script" -> FirstTask(cine'[m])
                                       [] OTHER -> "other"]
      /\ hurt' = HurtAfter(M) \ {m}
      /\ UNCHANGED <<playing, low, killed, delay, start, think, bends, late, troubles>>
  BY <1>2 DEF Reschedule
<1>4. /\ CineAfter(M) \in [Monster -> Script \cup {None}]
      /\ TargetAfter(M) \in [Script -> Monster \cup {None}]
      /\ LifeAfter(M) \in [Monster -> {"no", "dying", "dead"}]
      /\ StateAfter(M) \in [Monster -> Moods \cup {"script", "dead"}]
      /\ IdealAfter(M) \in [Monster -> Moods \cup {"script", "dead"}]
      /\ HurtAfter(M) \subseteq Monster
      /\ \A x \in Monster, s \in Script :
           /\ CineAfter(M)[x] = s <=> TargetAfter(M)[s] = x
           /\ TargetAfter(M)[s] = x => target[s] = x
      /\ \A x \in Monster :
           /\ x \in M => CineAfter(M)[x] = None /\ IdealAfter(M)[x] \in {"idle", "dead"}
           /\ x \in M /\ x \in low => IdealAfter(M)[x] = "dead"
           /\ x \notin M => CineAfter(M)[x] = cine[x] /\ IdealAfter(M)[x] = ideal[x]
  BY <1>1, CleanupKeeps, Zenon
<1>5. lost' \subseteq Script
  <2>1. PICK X \in SUBSET Monster : lost' = LostAfter(X)
    BY <1>3
  <2> QED BY <1>1, <2>1, CleanupKeeps, Zenon
<1>6. IdealNext(m) = "dead" \/ IdealNext(m) = IdealAfter(M)[m]
  BY <1>2 DEF IdealNext
<1>7. IdealNext(m) \in Moods \cup {"script", "dead"}
  BY <1>4, <1>6
<1>8. /\ ideal' \in [Monster -> Moods \cup {"script", "dead"}]
      /\ state' \in [Monster -> Moods \cup {"script", "dead"}]
      /\ life' \in [Monster -> {"no", "dying", "dead"}]
  BY <1>3, <1>4, <1>7
<1>9. task' \in [Monster -> {"none", "other", "walk", "wait", "play", "die"}]
  <2>1. \A s : FirstTask(s) \in {"other", "walk", "wait"}
    BY DEF FirstTask
  <2> QED BY <1>1, <1>3, <2>1 DEF TypeOK
<1>10. TypeOK'
  BY <1>1, <1>3, <1>4, <1>5, <1>8, <1>9 DEF TypeOK
<1>11. Linked'
  BY <1>1, <1>3, <1>4 DEF Linked
<1>12. \A x \in Monster : ideal'[x] = "dead" \/ ideal'[x] = IdealAfter(M)[x]
  BY <1>3, <1>4, <1>6
<1>13. \A x \in Monster : IdealAfter(M)[x] = "dead" => ideal'[x] = "dead"
  BY <1>3, <1>4, <1>6
<1>14. ScriptFound'
  BY <1>3, <1>4, <1>12 DEF Safe, ScriptFound
<1>15. NoneUndead'
  BY <1>3, <1>4, <1>13, <1>1 DEF Safe, TypeOK, NoneUndead
<1> QED BY <1>10, <1>11, <1>14, <1>15 DEF Safe

LEMMA ShrugSafe ==
  ASSUME ScriptAssumption, Safe, NEW m \in Monster, Shrug(m)
  PROVE  Safe'
<1>1. TypeOK'
  BY DEF Safe, TypeOK, Shrug, scriptVars
<1>2. Linked' /\ ScriptFound' /\ NoneUndead'
  BY DEF Safe, Linked, ScriptFound, NoneUndead, Shrug, scriptVars
<1> QED BY <1>1, <1>2 DEF Safe

LEMMA ArriveSafe ==
  ASSUME ScriptAssumption, Safe, NEW m \in Monster, Arrive(m)
  PROVE  Safe'
<1>1. PICK G \in SUBSET Script : G = Group(cine[m]) \ AI
  BY GroupOfScripts
<1>2. CountedIn(G)
  BY <1>1 DEF Arrive
<1>3. /\ delay' \in [Script -> Int]
      /\ start' \in [Script -> {"set", "never"}]
  BY <1>2 DEF Safe, TypeOK, CountedIn
<1>4. lost' \subseteq Script
  BY GroupOfScripts DEF Safe, TypeOK, Arrive
<1>5. /\ task' = [task EXCEPT ![m] = "wait"]
      /\ UNCHANGED <<cine, state, ideal, life, playing, hurt, low, killed, target, think,
                     bends, late, troubles>>
  BY DEF Arrive
<1>6. TypeOK'
  BY <1>3, <1>4, <1>5 DEF Safe, TypeOK
<1>7. Linked' /\ ScriptFound' /\ NoneUndead'
  BY <1>5 DEF Safe, Linked, ScriptFound, NoneUndead
<1> QED BY <1>6, <1>7 DEF Safe

LEMMA StumbleSafe ==
  ASSUME ScriptAssumption, Safe, NEW m \in Monster, Stumble(m)
  PROVE  Safe'
<1>1. TypeOK'
  BY DEF Safe, TypeOK, Stumble, scriptVars
<1>2. Linked' /\ ScriptFound' /\ NoneUndead'
  BY DEF Safe, Linked, ScriptFound, NoneUndead, Stumble, scriptVars
<1> QED BY <1>1, <1>2 DEF Safe

LEMMA StartPlaySafe ==
  ASSUME ScriptAssumption, Safe, NEW m \in Monster, StartPlay(m)
  PROVE  Safe'
<1>1. CASE SequenceDone(m)
  BY <1>1, GoesOnFound, DoneSafe DEF StartPlay
<1>2. CASE ~SequenceDone(m)
  <2>1. /\ task' = [task EXCEPT ![m] = "play"]
        /\ playing' = playing \cup {m}
        /\ UNCHANGED <<cine, state, ideal, life, hurt, low, killed, scriptVars, lost, late,
                       troubles>>
    BY <1>2 DEF StartPlay
  <2>2. TypeOK'
    BY <2>1 DEF Safe, TypeOK, scriptVars
  <2>3. Linked' /\ ScriptFound' /\ NoneUndead'
    BY <2>1 DEF Safe, Linked, ScriptFound, NoneUndead, scriptVars
  <2> QED BY <2>2, <2>3 DEF Safe
<1> QED BY <1>1, <1>2

LEMMA FinishSafe ==
  ASSUME ScriptAssumption, Safe, NEW m \in Monster, Finish(m)
  PROVE  Safe'
BY GoesOnFound, DoneSafe DEF Finish

LEMMA DieDoneSafe ==
  ASSUME ScriptAssumption, Safe, NEW m \in Monster, DieDone(m)
  PROVE  Safe'
<1>1. TypeOK'
  BY DEF Safe, TypeOK, DieDone, scriptVars
<1>2. Linked' /\ ScriptFound' /\ NoneUndead'
  BY DEF Safe, Linked, ScriptFound, NoneUndead, DieDone, scriptVars
<1> QED BY <1>1, <1>2 DEF Safe

LEMMA MoodSafe ==
  ASSUME ScriptAssumption, Safe, NEW m \in Monster, Mood(m)
  PROVE  Safe'
<1>1. PICK to \in Moods : /\ state' = [state EXCEPT ![m] = to]
                          /\ ideal' = [ideal EXCEPT ![m] = to]
  BY DEF Mood
<1>2. /\ hurt' = hurt \ {m} /\ ideal[m] \in Moods
      /\ UNCHANGED <<cine, task, life, playing, low, killed, scriptVars, lost, late, troubles>>
  BY DEF Mood
<1>3. TypeOK'
  BY <1>1, <1>2 DEF Safe, TypeOK, scriptVars
<1>4. Linked'
  BY <1>2 DEF Safe, Linked, scriptVars
<1>5. ScriptFound' /\ NoneUndead'
  BY <1>1, <1>2, MoodsApart DEF Safe, TypeOK, ScriptFound, NoneUndead
<1> QED BY <1>3, <1>4, <1>5 DEF Safe

LEMMA AnimEventSafe ==
  ASSUME ScriptAssumption, Safe, NEW m \in Monster, AnimEvent(m)
  PROVE  Safe'
<1>1. cine[m] # None /\ cine[m] \in Script
  BY DEF Safe, TypeOK, AnimEvent
<1>2. /\ life' \in [Monster -> {"no", "dying", "dead"}]
      /\ low' \in {low, low \cup {m}, low \ {m}}
  BY DEF Safe, TypeOK, AnimEvent
<1>3. bends' \subseteq Script \ NoInterrupt
  BY <1>1 DEF Safe, TypeOK, AnimEvent, AllowsInterrupt
<1>4. UNCHANGED <<cine, state, ideal, task, playing, hurt, killed, target, delay, start, think,
                  lost, late, troubles>>
  BY DEF AnimEvent
<1>5. TypeOK'
  BY <1>2, <1>3, <1>4 DEF Safe, TypeOK
<1>6. Linked' /\ ScriptFound' /\ NoneUndead'
  BY <1>1, <1>2, <1>4 DEF Safe, Linked, ScriptFound, NoneUndead
<1> QED BY <1>5, <1>6 DEF Safe

LEMMA TakeDamageSafe ==
  ASSUME ScriptAssumption, Safe, NEW m \in Monster, TakeDamage(m)
  PROVE  Safe'
<1>1. /\ troubles' = troubles - 1 /\ troubles > 0
      /\ UNCHANGED <<cine, state, task, life, playing, scriptVars>>
  BY DEF TakeDamage
<1>2. troubles' \in Nat
  BY <1>1 DEF Safe, TypeOK
<1>3. CASE Hurt(m)
  <2>1. TypeOK'
    BY <1>1, <1>2, <1>3 DEF Safe, TypeOK, Hurt, scriptVars
  <2>2. Linked' /\ ScriptFound' /\ NoneUndead'
    BY <1>1, <1>3 DEF Safe, TypeOK, Linked, ScriptFound, NoneUndead, Hurt, scriptVars
  <2> QED BY <2>1, <2>2 DEF Safe
<1>4. CASE Killed(m)
  <2>1. lost' \subseteq Script
    <3>1. {m} \in SUBSET Monster
      OBVIOUS
    <3> QED BY <1>4, <3>1, CleanupKeeps, Zenon DEF Killed, Safe
  <2>2. TypeOK'
    BY <1>1, <1>2, <1>4, <2>1 DEF Safe, TypeOK, Killed, scriptVars
  <2>3. Linked' /\ ScriptFound' /\ NoneUndead'
    BY <1>1, <1>4 DEF Safe, TypeOK, Linked, ScriptFound, NoneUndead, Killed, scriptVars
  <2> QED BY <2>2, <2>3 DEF Safe
<1>5. CASE KilledAgain(m)
  <2>1. TypeOK'
    BY <1>1, <1>2, <1>5 DEF Safe, TypeOK, KilledAgain, scriptVars
  <2>2. Linked' /\ ScriptFound' /\ NoneUndead'
    BY <1>1, <1>5 DEF Safe, TypeOK, Linked, ScriptFound, NoneUndead, KilledAgain, scriptVars
  <2> QED BY <2>1, <2>2 DEF Safe
<1> QED BY <1>3, <1>4, <1>5 DEF TakeDamage

LEMMA LoadSafe ==
  ASSUME ScriptAssumption, Safe, Load
  PROVE  Safe'
<1>1. troubles' \in Nat /\ hurt' \subseteq Monster
  BY DEF Safe, TypeOK, Load
<1>2. lost' \subseteq Script
  <2>1. SUFFICES ASSUME NEW s \in lost', s \notin lost PROVE s \in Script
    BY DEF Safe, TypeOK
  <2>2. lost' = lost \cup UNION {Group(cine[m]) : m \in {x \in Monster :
                  cine[x] # None /\ Counts(cine[x]) /\ ~OnWay(x)}}
    BY DEF Load
  <2>3. PICK m \in Monster : s \in Group(cine[m])
    BY <2>1, <2>2
  <2> QED BY <2>3, GroupOfScripts
<1>3. /\ task' = [m \in Monster |-> "none"]
      /\ UNCHANGED <<cine, state, ideal, life, playing, low, killed, scriptVars, late>>
  BY DEF Load
<1>4. TypeOK'
  BY <1>1, <1>2, <1>3 DEF Safe, TypeOK, scriptVars
<1>5. Linked' /\ ScriptFound' /\ NoneUndead'
  BY <1>3 DEF Safe, Linked, ScriptFound, NoneUndead, scriptVars
<1> QED BY <1>4, <1>5 DEF Safe

LEMMA StutterSafe ==
  ASSUME Safe, UNCHANGED vars
  PROVE  Safe'
BY DEF Safe, TypeOK, Linked, ScriptFound, NoneUndead, vars, monsterVars, scriptVars

LEMMA StepSafe ==
  ASSUME ScriptAssumption, Safe, [Next]_vars
  PROVE  Safe'
<1>1. ASSUME NEW s \in Script, Use(s) \/ CineThink(s) \/ Remove(s)
      PROVE  Safe'
  BY <1>1, UseSafe, CineThinkSafe, RemoveSafe
<1>2. ASSUME NEW m \in Monster, MonsterThink(m)
      PROVE  Safe'
  BY <1>2, RescheduleSafe, ShrugSafe, ArriveSafe, StartPlaySafe, FinishSafe, DieDoneSafe
     DEF MonsterThink
<1>3. ASSUME NEW m \in Monster, Stumble(m) \/ Mood(m) \/ AnimEvent(m) \/ TakeDamage(m)
      PROVE  Safe'
  BY <1>3, StumbleSafe, MoodSafe, AnimEventSafe, TakeDamageSafe
<1>4. CASE Load
  BY <1>4, LoadSafe
<1>5. CASE UNCHANGED vars
  BY <1>5, StutterSafe
<1> QED BY <1>1, <1>2, <1>3, <1>4, <1>5 DEF Next

LEMMA AlwaysSafe == ScriptAssumption /\ Spec => []Safe
<1> SUFFICES ASSUME ScriptAssumption
             PROVE  Spec => []Safe
  OBVIOUS
<1>1. Init => Safe
  BY InitSafe
<1>2. Safe /\ [Next]_vars => Safe'
  BY StepSafe
<1> QED BY <1>1, <1>2, PTL DEF Spec

\* Every reachable state is well typed, and a script that must not be interrupted (the flag
\* SF_SCRIPT_NOINTERRUPT, which AllowInterrupt respects) cannot be.
THEOREM TypeCorrect == ScriptAssumption /\ Spec => []TypeOK
<1>1. Safe => TypeOK
  BY DEF Safe
<1> QED BY <1>1, AlwaysSafe, PTL

\* m_pCine and m_hTargetEnt point at each other, however many monsters and scripts there are
\* and whatever order they are used, cancelled, overridden and removed in.
THEOREM AlwaysLinked == ScriptAssumption /\ Spec => []Linked
<1>1. Safe => Linked
  BY DEF Safe
<1> QED BY <1>1, AlwaysSafe, PTL

\* The assertion m_pCine != NULL in GetSchedule and GetScheduleOfType never fails.
THEOREM AssertionHolds == ScriptAssumption /\ Spec => []ScriptFound
<1>1. Safe => ScriptFound
  BY DEF Safe
<1> QED BY <1>1, AlwaysSafe, PTL

\* A monster whose script has kept it from being killed dies when it is let go.
THEOREM DeathNotForgotten == ScriptAssumption /\ Spec => []NoneUndead
<1>1. Safe => NoneUndead
  BY DEF Safe
<1> QED BY <1>1, AlwaysSafe, PTL

-----------------------------------------------------------------------------
(* The count of a group.  A monster is on the way of a group, or it is not; *)
(* a step that changes that also counts, or is one that loses the count.    *)

Balance == Safe /\ Balanced

\* A step leaves m on its way, or off it, or makes its group lose count.
Steady(m) ==
  \/ (OnWay(m)' <=> OnWay(m)) /\ (OnWay(m) => cine'[m] = cine[m])
  \/ OnWay(m) /\ ~OnWay(m)' /\ Group(cine[m]) \subseteq lost'
  \/ ~OnWay(m) /\ OnWay(m)' /\ Group(cine'[m]) \subseteq lost'

LEMMA GroupBothWays ==
  ASSUME NEW s \in Script, There(s), NEW x \in Script
  PROVE  x \in Group(s) => s \in Group(x) /\ There(x)
BY DEF Group

LEMMA GroupStays ==
  ASSUME \A s \in Script : There(s)' <=> There(s)
  PROVE  \A s : Group(s)' = Group(s)
BY DEF Group

\* No step that changes monsters steadily disturbs the balance.
LEMMA SteadyBalanced ==
  ASSUME Safe, Balanced, lost \subseteq lost',
         \A s \in Script : There(s) /\ s \notin AI \cup lost' => delay'[s] = delay[s],
         \A s \in Script : There(s)' <=> There(s),
         cine' \in [Monster -> Script \cup {None}],
         \A m \in Monster : Steady(m)
  PROVE  Balanced'
<1>1. SUFFICES ASSUME NEW s \in Script, s \notin AI, s \notin lost', There(s)
               PROVE  delay'[s] = Cardinality(Coming(Group(s))')
  BY DEF Balanced
<1>2. Group(s)' = Group(s)
  BY GroupStays
<1>3. ASSUME NEW m \in Monster
      PROVE  OnWay(m)' /\ cine'[m] \in Group(s) <=> OnWay(m) /\ cine[m] \in Group(s)
  <2>1. cine[m] \in Group(s) => s \in Group(cine[m])
    BY <1>1, GroupBothWays, GroupOfScripts
  <2>2. cine'[m] \in Group(s) => s \in Group(cine'[m])
    BY <1>1, GroupBothWays, GroupOfScripts
  <2>3. Steady(m)
    OBVIOUS
  <2> QED BY <1>1, <2>1, <2>2, <2>3, Zenon DEF Steady
<1>4. Coming(Group(s))' = Coming(Group(s))
  BY <1>2, <1>3 DEF Coming
<1>5. delay[s] = Cardinality(Coming(Group(s)))
  BY <1>1 DEF Balanced
<1> QED BY <1>1, <1>4, <1>5

LEMMA UntouchedSteady ==
  ASSUME NEW m \in Monster,
         cine'[m] = cine[m], ideal'[m] = ideal[m], state'[m] = state[m], task'[m] = task[m]
  PROVE  Steady(m)
BY DEF Steady, OnWay

LEMMA ReleasedSteady ==
  ASSUME NEW m \in Monster, NEW M \in SUBSET Monster, m \in M, cine'[m] = None,
         LostAfter(M) \subseteq lost'
  PROVE  Steady(m)
<1>1. ~OnWay(m)'
  BY DEF OnWay
<1>2. OnWay(m) => Group(cine[m]) \subseteq LostAfter(M)
  BY Zenon DEF LostAfter
<1> QED BY <1>1, <1>2 DEF Steady

\* With scripts and thinks of scripts left alone.
LEMMA QuietBalanced ==
  ASSUME Safe, Balanced, lost \subseteq lost', UNCHANGED delay,
         \A s \in Script : think[s] = "gone" <=> think'[s] = "gone",
         cine' \in [Monster -> Script \cup {None}],
         \A m \in Monster : Steady(m)
  PROVE  Balanced'
<1>1. \A s \in Script : There(s)' <=> There(s)
  BY DEF There
<1> QED BY <1>1, SteadyBalanced

LEMMA InitBalance ==
  ASSUME ScriptAssumption, Init
  PROVE  Balance
<1>1. \A m \in Monster : ~OnWay(m)
  BY DEF Init, OnWay
<1>2. \A s : Coming(Group(s)) = {}
  BY <1>1 DEF Coming
<1>3. \A s \in Script : delay[s] = 0
  BY DEF Init
<1> QED BY <1>2, <1>3, InitSafe, FS_EmptySet DEF Balance, Balanced

LEMMA UseBalance ==
  ASSUME ScriptAssumption, Balance, NEW s \in Script, Use(s)
  PROVE  Balanced'
<1>1. Safe /\ Balanced
  BY DEF Balance
<1>2. \A x \in Script : think[x] = "gone" <=> think'[x] = "gone"
  BY <1>1 DEF Safe, TypeOK, Use, Used, There
<1>3. UNCHANGED <<cine, ideal, state, task, delay, lost>>
  BY DEF Use, monsterVars
<1>4. \A m \in Monster : Steady(m)
  BY <1>3, UntouchedSteady
<1> QED BY <1>1, <1>2, <1>3, <1>4, QuietBalanced DEF Safe, TypeOK

\* A monster is taken: its group counts it, once.
LEMMA PossessBalance ==
  ASSUME ScriptAssumption, IsFiniteSet(Monster), Balance,
         NEW s \in Script, NEW m \in Monster,
         think[s] = "cine", CanPlaySequence(m, s), PossessEntity(m, s),
         think' = [think EXCEPT ![s] = "none"], UNCHANGED state
  PROVE  Balanced'
<1>1. Safe /\ Balanced /\ TypeOK
  BY DEF Balance, Safe
<1>2. /\ cine[m] = None /\ cine' = [cine EXCEPT ![m] = s]
      /\ ideal' = [ideal EXCEPT ![m] = "script"]
  BY DEF PossessEntity, CanPlaySequence
<1>3. cine' \in [Monster -> Script \cup {None}] /\ cine'[m] = s /\ s # None
  BY <1>1, <1>2 DEF TypeOK, ScriptAssumption
<1>4. There(s) /\ \A x \in Script : There(x)' <=> There(x)
  BY <1>1 DEF TypeOK, There
<1>5. lost \subseteq lost'
  BY DEF PossessEntity
<1>6. ~OnWay(m)
  BY <1>2 DEF OnWay
<1>7. ASSUME NEW x \in Monster, x # m
      PROVE  /\ cine'[x] = cine[x] /\ ideal'[x] = ideal[x]
             /\ state'[x] = state[x] /\ task'[x] = task[x]
  BY <1>1, <1>2, <1>7 DEF TypeOK, PossessEntity
<1>8. CASE ~Counts(s)
  <2>1. UNCHANGED delay
    BY <1>8 DEF PossessEntity
  <2>2. ~OnWay(m)'
    BY <1>3, <1>8 DEF OnWay, Counts
  <2>3. Steady(m)
    BY <1>6, <2>2 DEF Steady
  <2> QED BY <1>1, <1>3, <1>4, <1>5, <1>7, <2>1, <2>3, UntouchedSteady, SteadyBalanced
<1>9. CASE Counts(s) /\ state[m] = "script" /\ task[m] # "none"
  <2>1. lost' = lost \cup Group(s) \cup {s} /\ Delayed(s)
    BY <1>9 DEF PossessEntity, Counts
  <2>2. Steady(m)
    BY <1>3, <1>6, <2>1 DEF Steady
  <2>3. \A x \in Script : There(x) /\ x \notin AI \cup lost' => delay'[x] = delay[x]
    BY <2>1 DEF Delayed
  <2> QED BY <1>1, <1>3, <1>4, <1>5, <1>7, <2>2, <2>3, UntouchedSteady, SteadyBalanced
<1>10. CASE Counts(s) /\ ~(state[m] = "script" /\ task[m] # "none")
  <2>1. Delayed(s) /\ s \notin AI /\ lost' = lost /\ UNCHANGED task
    BY <1>10 DEF PossessEntity, Counts
  <2>2. OnWay(m)'
    BY <1>1, <1>2, <1>3, <1>10, <2>1 DEF OnWay, AtMark, Counts, TypeOK
  <2>3. SUFFICES ASSUME NEW x \in Script, x \notin AI, x \notin lost, There(x)
                 PROVE  delay'[x] = Cardinality(Coming(Group(x))')
    BY <1>4, <2>1 DEF Balanced
  <2>4. Group(x)' = Group(x)
    BY <1>4, GroupStays
  <2>5. \A y \in Monster : y # m => (OnWay(y)' <=> OnWay(y)) /\ cine'[y] = cine[y]
    BY <1>7 DEF OnWay
  <2>6. delay[x] = Cardinality(Coming(Group(x)))
    BY <1>1, <2>3 DEF Balanced
  <2>7. CASE s \in Group(x)
    <3>1. x \in Group(s)
      BY <2>3, <2>7, GroupBothWays
    <3>2. delay'[x] = delay[x] + 1
      BY <2>1, <2>3, <3>1 DEF Delayed
    <3>3. Coming(Group(x))' = Coming(Group(x)) \cup {m} /\ m \notin Coming(Group(x))
      BY <1>3, <1>6, <2>2, <2>4, <2>5, <2>7 DEF Coming
    <3>4. IsFiniteSet(Coming(Group(x)))
      BY FS_Subset DEF Coming
    <3>5. Cardinality(Coming(Group(x)) \cup {m}) = Cardinality(Coming(Group(x))) + 1
      BY <3>3, <3>4, FS_AddElement
    <3> QED BY <2>6, <3>2, <3>3, <3>5
  <2>8. CASE s \notin Group(x)
    <3>1. x \notin Group(s)
      BY <1>4, <2>8, GroupBothWays
    <3>2. delay'[x] = delay[x]
      BY <2>1, <3>1 DEF Delayed
    <3>3. Coming(Group(x))' = Coming(Group(x))
      BY <1>3, <1>6, <2>4, <2>5, <2>8 DEF Coming
    <3> QED BY <2>6, <3>2, <3>3
  <2> QED BY <2>7, <2>8
<1> QED BY <1>8, <1>9, <1>10

LEMMA CancelBalance ==
  ASSUME ScriptAssumption, Balance, NEW M \in SUBSET Monster, Cleanup(M),
         state' = StateAfter(M), ideal' = IdealAfter(M), UNCHANGED <<task, delay, think>>
  PROVE  Balanced'
<1>1. Safe /\ Balanced /\ TypeOK /\ Linked
  BY DEF Balance, Safe
<1>2. /\ cine' = CineAfter(M) /\ lost' = LostAfter(M) /\ lost \subseteq lost'
      /\ cine' \in [Monster -> Script \cup {None}]
  BY <1>1 DEF Cleanup, CineAfter, LostAfter, TypeOK
<1>3. ASSUME NEW m \in Monster
      PROVE  Steady(m)
  <2>1. CASE m \in M
    BY <1>2, <2>1, ReleasedSteady DEF CineAfter
  <2>2. CASE m \notin M
    BY <1>1, <1>2, <2>2, UntouchedSteady DEF CineAfter, StateAfter, IdealAfter, TypeOK
  <2> QED BY <2>1, <2>2
<1> QED BY <1>1, <1>2, <1>3, QuietBalanced

LEMMA CineThinkBalance ==
  ASSUME ScriptAssumption, IsFiniteSet(Monster), Balance, NEW s \in Script, CineThink(s)
  PROVE  Balanced'
<1>0. Wants[s] \subseteq Monster /\ Victims(s) \subseteq Monster
  BY DEF ScriptAssumption, Victims
<1>1. CASE \E m \in {x \in Wants[s] : CanPlaySequence(x, s)} :
             /\ PossessEntity(m, s)
             /\ think' = [think EXCEPT ![s] = "none"]
             /\ UNCHANGED <<state, life>>
  <2>1. PICK m \in Wants[s] : /\ CanPlaySequence(m, s) /\ PossessEntity(m, s)
                              /\ think' = [think EXCEPT ![s] = "none"]
                              /\ UNCHANGED <<state, life>>
    BY <1>1
  <2>2. m \in Monster /\ think[s] = "cine"
    BY <1>0, <2>1 DEF CineThink
  <2> QED BY <2>1, <2>2, PossessBalance
<1>2. CASE ~\E m \in {x \in Wants[s] : CanPlaySequence(x, s)} :
             /\ PossessEntity(m, s)
             /\ think' = [think EXCEPT ![s] = "none"]
             /\ UNCHANGED <<state, life>>
  <2>1. /\ Cleanup(Victims(s)) /\ state' = StateAfter(Victims(s))
        /\ ideal' = IdealAfter(Victims(s)) /\ UNCHANGED <<task, delay, think>>
    BY <1>2 DEF CineThink
  <2> QED BY <1>0, <2>1, CancelBalance
<1> QED BY <1>1, <1>2

\* A script that removes itself holds nobody.
LEMMA RemoveBalance ==
  ASSUME ScriptAssumption, Balance, NEW s \in Script, Remove(s)
  PROVE  Balanced'
<1>1. TypeOK /\ Linked /\ Balanced
  BY DEF Balance, Safe
<1>2. UNCHANGED <<cine, ideal, state, task, delay, lost>> /\ think' = [think EXCEPT ![s] = "gone"]
  BY DEF Remove, monsterVars
<1>3. \A m \in Monster : (OnWay(m)' <=> OnWay(m)) /\ cine'[m] = cine[m] /\ cine[m] # s
  <2>1. \A m \in Monster : cine[m] # s
    BY <1>1 DEF Linked, Remove
  <2> QED BY <1>2, <2>1 DEF OnWay
<1>4. SUFFICES ASSUME NEW x \in Script, x \notin AI, x \notin lost, There(x)'
               PROVE  delay'[x] = Cardinality(Coming(Group(x))')
  BY <1>2 DEF Balanced
<1>5. There(x) /\ x # s
  BY <1>1, <1>2, <1>4 DEF There, TypeOK
<1>6. \A y \in Script : y # s => (y \in Group(x)' <=> y \in Group(x))
  BY <1>1, <1>2 DEF Group, There, TypeOK
<1>7. /\ \A m \in Monster : cine[m] \in Script \cup {None}
      /\ \A y : Group(x) \subseteq Script /\ Group(x)' \subseteq Script
  BY <1>1 DEF TypeOK, Group
<1>8. Coming(Group(x))' = Coming(Group(x))
  BY <1>3, <1>6, <1>7 DEF Coming
<1> QED BY <1>1, <1>2, <1>4, <1>5, <1>8 DEF Balanced

\* One that has come to its mark is not on its way: to let it go loses no count.
LEMMA DoneBalance ==
  ASSUME ScriptAssumption, Balance, NEW m \in Monster, cine[m] # None, SequenceDone(m)
  PROVE  Balanced'
<1>1. Safe /\ TypeOK /\ Balanced
  BY DEF Balance, Safe
<1>2. PICK M \in SUBSET Monster : M = {m}
  OBVIOUS
<1>3. /\ cine' = CineAfter(M) /\ lost' = LostAfter(M) /\ state' = StateAfter(M)
      /\ ideal' = IdealAfter(M) /\ task' = [task EXCEPT ![m] = "none"] /\ UNCHANGED delay
  BY <1>2 DEF SequenceDone, Cleanup
<1>4. lost \subseteq lost' /\ cine' \in [Monster -> Script \cup {None}]
  BY <1>1, <1>3 DEF LostAfter, CineAfter, TypeOK
<1>5. \A x \in Script : think[x] = "gone" <=> think'[x] = "gone"
  <2>1. cine[m] \in Script /\ think[cine[m]] = "none"
    BY <1>1 DEF Safe, TypeOK, Linked
  <2>2. PICK thk \in [Script -> {"none", "cine", "remove", "gone"}] :
          /\ thk = IF cine[m] \in Repeatable THEN think ELSE [think EXCEPT ![cine[m]] = "remove"]
          /\ Used(Fires[cine[m]], TargetAfter({m}), thk)
    BY <1>1 DEF TypeOK, SequenceDone
  <2>3. \A x \in Script : think[x] = "gone" <=> thk[x] = "gone"
    BY <1>1, <2>1, <2>2 DEF TypeOK
  <2>4. \A x \in Script : think'[x] = thk[x] \/ (think'[x] = "cine" /\ thk[x] # "gone")
    BY <2>2 DEF Used
  <2> QED BY <2>3, <2>4
<1>6. ASSUME NEW x \in Monster
      PROVE  Steady(x)
  <2>1. CASE x = m
    BY <1>2, <1>3, <2>1, ReleasedSteady DEF CineAfter
  <2>2. CASE x # m
    BY <1>1, <1>2, <1>3, <2>2, UntouchedSteady DEF CineAfter, StateAfter, IdealAfter, TypeOK
  <2> QED BY <2>1, <2>2
<1> QED BY <1>1, <1>3, <1>4, <1>5, <1>6, QuietBalanced

LEMMA RescheduleBalance ==
  ASSUME ScriptAssumption, Balance, NEW m \in Monster, Reschedule(m)
  PROVE  Balanced'
<1>1. Safe /\ TypeOK /\ Balanced /\ ScriptFound
  BY DEF Balance, Safe
<1>2. PICK M \in SUBSET Monster : M = Released(m)
  BY DEF Released, Victims
<1>3. PICK L \in SUBSET Monster : L = IF IdealNext(m) = "dead" THEN M \cup {m} ELSE M
  OBVIOUS
<1>4. /\ cine' = CineAfter(M) /\ lost' = LostAfter(L)
      /\ state' = [StateAfter(M) EXCEPT ![m] = IdealNext(m)]
      /\ ideal' = [IdealAfter(M) EXCEPT ![m] = IdealNext(m)]
      /\ task' = [task EXCEPT ![m] = CASE IdealNext(m) = "dead" -> "die"
                                       [] IdealNext(m) = "script" -> FirstTask(cine'[m])
                                       [] OTHER -> "other"]
      /\ UNCHANGED <<delay, think>>
  BY <1>2, <1>3 DEF Reschedule
<1>5. /\ lost \subseteq lost' /\ LostAfter(M) \subseteq lost'
      /\ cine' \in [Monster -> Script \cup {None}]
  BY <1>1, <1>3, <1>4 DEF LostAfter, CineAfter, TypeOK
<1>6. ASSUME NEW x \in Monster
      PROVE  Steady(x)
  <2>1. CASE x \in M
    BY <1>4, <1>5, <2>1, ReleasedSteady DEF CineAfter
  <2>2. CASE x \notin M /\ x # m
    BY <1>1, <1>4, <2>2, UntouchedSteady DEF CineAfter, StateAfter, IdealAfter, TypeOK
  <2>3. CASE x \notin M /\ x = m
    <3>1. /\ cine'[m] = cine[m] /\ state'[m] = IdealNext(m) /\ ideal'[m] = IdealNext(m)
          /\ IdealAfter(M)[m] = ideal[m]
          /\ IdealNext(m) = "dead" \/ IdealNext(m) = ideal[m]
      BY <1>1, <1>2, <1>4, <2>3 DEF CineAfter, StateAfter, IdealAfter, IdealNext, TypeOK
    <3>2. CASE IdealNext(m) = "dead"
      <4>1. ~OnWay(m)'
        BY <3>1, <3>2 DEF OnWay
      <4>2. OnWay(m) => Group(cine[m]) \subseteq LostAfter(L)
        BY <1>3, <3>2, Zenon DEF LostAfter
      <4> QED BY <1>4, <2>3, <4>1, <4>2 DEF Steady
    <3>3. CASE IdealNext(m) # "dead" /\ IdealNext(m) # "script"
      BY <2>3, <3>1, <3>3 DEF Steady, OnWay
    <3>4. CASE IdealNext(m) = "script"
      <4>1. task'[m] = FirstTask(cine[m]) /\ ideal[m] = "script"
        BY <1>1, <1>4, <3>1, <3>4 DEF TypeOK
      <4>2. CASE cine[m] = None \/ ~Counts(cine[m])
        BY <2>3, <3>1, <4>2 DEF Steady, OnWay, Counts
      <4>3. CASE cine[m] # None /\ Counts(cine[m])
        <5>1. OnWay(m)'
          BY <3>1, <3>4, <4>1, <4>3 DEF OnWay, AtMark, FirstTask, Counts
        <5>2. ~(state[m] = "script" /\ task[m] \in AtMark)
          <6>1. SUFFICES ASSUME state[m] = "script", task[m] \in AtMark PROVE FALSE
            OBVIOUS
          <6>2. Exits(m)
            BY <4>1, <6>1 DEF Reschedule, Exits, AtMark
          <6>3. life[m] # "dying"
            BY <3>4, <6>2 DEF IdealNext
          <6>4. m \in Victims(cine[m])
            <7>1. cine[m] \in Script /\ cine[m] \notin AI
              BY <1>1, <4>3 DEF TypeOK, Counts
            <7>2. There(cine[m])
              BY <1>1, <7>1 DEF Safe, Linked, There
            <7> QED BY <6>1, <7>1, <7>2 DEF Victims, Group
          <6> QED BY <1>2, <2>3, <4>3, <6>2, <6>3, <6>4 DEF Released
        <5>3. OnWay(m)
          BY <4>1, <4>3, <5>2 DEF OnWay
        <5> QED BY <2>3, <3>1, <5>1, <5>3 DEF Steady
      <4> QED BY <4>2, <4>3
    <3> QED BY <3>2, <3>3, <3>4
  <2> QED BY <2>1, <2>2, <2>3
<1> QED BY <1>1, <1>4, <1>5, <1>6, QuietBalanced

\* The monster comes to its mark, and its group counts one less.
LEMMA ArriveBalance ==
  ASSUME ScriptAssumption, IsFiniteSet(Monster), Balance, NEW m \in Monster, Arrive(m)
  PROVE  Balanced'
<1>1. Safe /\ TypeOK /\ Linked /\ Balanced
  BY DEF Balance, Safe
<1>2. PICK s \in Script : s = cine[m] /\ There(s)
  <2>1. cine[m] # None /\ cine[m] \in Script
    BY <1>1, GoesOnFound DEF Arrive
  <2> QED BY <1>1, <2>1 DEF Linked, There
<1>3. /\ state[m] = "script" /\ ideal[m] = "script" /\ task[m] = "walk"
      /\ task' = [task EXCEPT ![m] = "wait"]
      /\ CountedIn(Group(s) \ AI)
      /\ lost' = IF Counts(s) \/ Group(s) \ AI = {} THEN lost ELSE lost \cup Group(s)
      /\ UNCHANGED <<cine, state, ideal, think>>
  BY <1>2 DEF Arrive, GoesOn
<1>4. \A x \in Script : There(x)' <=> There(x)
  BY <1>3 DEF There
<1>5. ASSUME NEW x \in Monster, x # m
      PROVE  /\ cine'[x] = cine[x] /\ ideal'[x] = ideal[x]
             /\ state'[x] = state[x] /\ task'[x] = task[x]
  BY <1>1, <1>3, <1>5 DEF TypeOK
<1>6. task'[m] = "wait" /\ cine'[m] = s /\ s # None
  BY <1>1, <1>2, <1>3 DEF TypeOK, ScriptAssumption
<1>7. ~OnWay(m)'
  BY <1>3, <1>6 DEF OnWay, AtMark
<1>8. lost \subseteq lost' /\ cine' \in [Monster -> Script \cup {None}]
  BY <1>1, <1>3 DEF TypeOK
<1>9. CASE ~Counts(s)
  <2>1. \A x \in Script : There(x) /\ x \notin AI \cup lost' => delay'[x] = delay[x]
    BY <1>3, <1>9 DEF CountedIn
  <2>2. Steady(m)
    BY <1>2, <1>7, <1>9 DEF Steady, OnWay
  <2> QED BY <1>1, <1>4, <1>5, <1>8, <2>1, <2>2, UntouchedSteady, SteadyBalanced
<1>10. CASE Counts(s)
  <2>1. s \notin AI /\ lost' = lost
    BY <1>3, <1>10 DEF Counts
  <2>2. OnWay(m)
    BY <1>2, <1>3, <1>6, <1>10 DEF OnWay, AtMark
  <2>3. SUFFICES ASSUME NEW x \in Script, x \notin AI, x \notin lost, There(x)
                 PROVE  delay'[x] = Cardinality(Coming(Group(x))')
    BY <1>4, <2>1 DEF Balanced
  <2>4. Group(x)' = Group(x)
    BY <1>4, GroupStays
  <2>5. \A y \in Monster : y # m => (OnWay(y)' <=> OnWay(y)) /\ cine'[y] = cine[y]
    BY <1>5 DEF OnWay
  <2>6. delay[x] = Cardinality(Coming(Group(x)))
    BY <1>1, <2>3 DEF Balanced
  <2>7. CASE s \in Group(x)
    <3>1. x \in Group(s) \ AI
      BY <2>3, <2>7, GroupBothWays
    <3>2. delay'[x] = delay[x] - 1
      BY <1>3, <3>1 DEF CountedIn
    <3>3. Coming(Group(x))' = Coming(Group(x)) \ {m} /\ m \in Coming(Group(x))
      BY <1>2, <1>7, <2>2, <2>4, <2>5, <2>7 DEF Coming
    <3>4. IsFiniteSet(Coming(Group(x)))
      BY FS_Subset DEF Coming
    <3>5. Cardinality(Coming(Group(x)) \ {m}) = Cardinality(Coming(Group(x))) - 1
      BY <3>3, <3>4, FS_RemoveElement
    <3> QED BY <2>6, <3>2, <3>3, <3>5
  <2>8. CASE s \notin Group(x)
    <3>1. x \notin Group(s)
      BY <1>2, <2>8, GroupBothWays
    <3>2. delay'[x] = delay[x]
      BY <1>3, <3>1 DEF CountedIn
    <3>3. Coming(Group(x))' = Coming(Group(x))
      BY <1>2, <1>6, <1>7, <2>4, <2>5, <2>8 DEF Coming
    <3> QED BY <2>6, <3>2, <3>3
  <2> QED BY <2>7, <2>8
<1> QED BY <1>9, <1>10

LEMMA StartPlayBalance ==
  ASSUME ScriptAssumption, Balance, NEW m \in Monster, StartPlay(m)
  PROVE  Balanced'
<1>1. Safe /\ TypeOK /\ Balanced
  BY DEF Balance, Safe
<1>2. CASE SequenceDone(m)
  BY <1>1, <1>2, GoesOnFound, DoneBalance DEF StartPlay
<1>3. CASE ~SequenceDone(m)
  <2>1. /\ task' = [task EXCEPT ![m] = "play"] /\ task[m] = "wait"
        /\ UNCHANGED <<cine, state, ideal, delay, think, lost>>
    BY <1>3 DEF StartPlay, scriptVars
  <2>2. ASSUME NEW x \in Monster
        PROVE  Steady(x)
    BY <1>1, <2>1 DEF Steady, OnWay, AtMark, TypeOK
  <2> QED BY <1>1, <2>1, <2>2, QuietBalanced DEF TypeOK
<1> QED BY <1>2, <1>3

LEMMA FinishBalance ==
  ASSUME ScriptAssumption, Balance, NEW m \in Monster, Finish(m)
  PROVE  Balanced'
BY GoesOnFound, DoneBalance DEF Finish, Balance

\* What neither moves a monster to a mark or away from it nor takes or frees one.
LEMMA StillBalance ==
  ASSUME Balance, UNCHANGED <<cine, state, ideal, task, delay, think, lost>>
  PROVE  Balanced'
<1>1. Safe /\ TypeOK /\ Balanced
  BY DEF Balance, Safe
<1> QED BY <1>1, UntouchedSteady, QuietBalanced DEF TypeOK

LEMMA StumbleBalance ==
  ASSUME Balance, NEW m \in Monster, Stumble(m)
  PROVE  Balanced'
<1>1. Safe /\ TypeOK /\ Balanced
  BY DEF Balance, Safe
<1>2. /\ task' = [task EXCEPT ![m] = "none"] /\ task[m] = "walk"
      /\ UNCHANGED <<cine, state, ideal, delay, think, lost>>
  BY DEF Stumble, scriptVars
<1>3. ASSUME NEW x \in Monster
      PROVE  Steady(x)
  BY <1>1, <1>2 DEF Steady, OnWay, AtMark, TypeOK
<1> QED BY <1>1, <1>2, <1>3, QuietBalanced DEF TypeOK

LEMMA MoodBalance ==
  ASSUME ScriptAssumption, Balance, NEW m \in Monster, Mood(m)
  PROVE  Balanced'
<1>1. Safe /\ TypeOK /\ Balanced
  BY DEF Balance, Safe
<1>2. PICK to \in Moods : /\ state' = [state EXCEPT ![m] = to]
                          /\ ideal' = [ideal EXCEPT ![m] = to]
  BY DEF Mood
<1>3. ideal[m] \in Moods /\ UNCHANGED <<cine, task, delay, think, lost>>
  BY DEF Mood, scriptVars
<1>4. Steady(m)
  BY <1>1, <1>2, <1>3, MoodsApart DEF Steady, OnWay, TypeOK
<1>5. ASSUME NEW x \in Monster, x # m
      PROVE  Steady(x)
  BY <1>1, <1>2, <1>3, <1>5, UntouchedSteady DEF TypeOK
<1> QED BY <1>1, <1>3, <1>4, <1>5, QuietBalanced DEF TypeOK

LEMMA TakeDamageBalance ==
  ASSUME Balance, NEW m \in Monster, TakeDamage(m)
  PROVE  Balanced'
<1>1. Safe /\ TypeOK /\ Balanced
  BY DEF Balance, Safe
<1>2. UNCHANGED <<cine, state, task, delay, think>>
  BY DEF TakeDamage, scriptVars
<1>3. CASE Killed(m)
  <2>1. /\ ideal' = [ideal EXCEPT ![m] = "dead"] /\ lost' = LostAfter({m})
        /\ lost \subseteq lost'
    BY <1>3 DEF Killed, LostAfter
  <2>2. OnWay(m) => Group(cine[m]) \subseteq lost'
    BY <2>1 DEF LostAfter
  <2>3. ~OnWay(m)'
    BY <1>1, <2>1 DEF OnWay, TypeOK
  <2>4. Steady(m)
    BY <2>2, <2>3 DEF Steady
  <2>5. ASSUME NEW x \in Monster, x # m
        PROVE  Steady(x)
    BY <1>1, <1>2, <2>1, <2>5, UntouchedSteady DEF TypeOK
  <2> QED BY <1>1, <1>2, <2>1, <2>4, <2>5, QuietBalanced DEF TypeOK
<1>4. CASE ~Killed(m)
  <2>1. UNCHANGED <<ideal, lost>>
    BY <1>4 DEF TakeDamage, Hurt, KilledAgain
  <2> QED BY <1>2, <2>1, StillBalance
<1> QED BY <1>3, <1>4

\* After a load those that had come to their marks walk there again: their groups are lost.
LEMMA LoadBalance ==
  ASSUME Balance, Load
  PROVE  Balanced'
<1>1. Safe /\ TypeOK /\ Balanced
  BY DEF Balance, Safe
<1>2. /\ task' = [m \in Monster |-> "none"]
      /\ lost' = lost \cup UNION {Group(cine[m]) : m \in {x \in Monster :
                   cine[x] # None /\ Counts(cine[x]) /\ ~OnWay(x)}}
      /\ UNCHANGED <<cine, state, ideal, delay, think>>
  BY DEF Load, scriptVars
<1>3. ASSUME NEW m \in Monster
      PROVE  Steady(m)
  <2>1. OnWay(m)' <=> cine[m] # None /\ Counts(cine[m]) /\ ideal[m] = "script"
    BY <1>2 DEF OnWay, AtMark, Counts
  <2>2. OnWay(m) => OnWay(m)'
    BY <2>1 DEF OnWay
  <2>3. ~OnWay(m) /\ OnWay(m)' => Group(cine[m]) \subseteq lost'
    BY <1>2, <2>1
  <2> QED BY <1>2, <2>2, <2>3 DEF Steady
<1>4. lost \subseteq lost'
  BY <1>2
<1> QED BY <1>1, <1>2, <1>3, <1>4, QuietBalanced DEF TypeOK

LEMMA StepBalance ==
  ASSUME ScriptAssumption, IsFiniteSet(Monster), Balance, [Next]_vars
  PROVE  Balance'
<1> SUFFICES Balanced'
  BY StepSafe DEF Balance
<1>1. ASSUME NEW s \in Script, Use(s) \/ CineThink(s) \/ Remove(s)
      PROVE  Balanced'
  BY <1>1, UseBalance, CineThinkBalance, RemoveBalance
<1>2. ASSUME NEW m \in Monster, MonsterThink(m)
      PROVE  Balanced'
  <2>1. CASE Shrug(m) \/ DieDone(m)
    BY <2>1, StillBalance DEF Shrug, DieDone, scriptVars
  <2> QED BY <1>2, <2>1, RescheduleBalance, ArriveBalance, StartPlayBalance, FinishBalance
          DEF MonsterThink
<1>3. ASSUME NEW m \in Monster, Stumble(m) \/ Mood(m) \/ AnimEvent(m) \/ TakeDamage(m)
      PROVE  Balanced'
  <2>1. CASE AnimEvent(m)
    BY <2>1, StillBalance DEF AnimEvent
  <2> QED BY <1>3, <2>1, StumbleBalance, MoodBalance, TakeDamageBalance
<1>4. CASE Load
  BY <1>4, LoadBalance
<1>5. CASE UNCHANGED vars
  BY <1>5, StillBalance DEF vars, monsterVars, scriptVars
<1> QED BY <1>1, <1>2, <1>3, <1>4, <1>5 DEF Next

LEMMA AlwaysBalance == ScriptAssumption /\ IsFiniteSet(Monster) /\ Spec => []Balance
<1> SUFFICES ASSUME ScriptAssumption, IsFiniteSet(Monster)
             PROVE  Spec => []Balance
  OBVIOUS
<1>1. Init => Balance
  BY InitBalance
<1>2. Balance /\ [Next]_vars => Balance'
  BY StepBalance
<1> QED BY <1>1, <1>2, PTL DEF Spec

\* A group that has not lost count waits for exactly those that are still on their way
\* (DelayStart), for any number of scripts and any finite number of monsters.
THEOREM AlwaysBalanced == ScriptAssumption /\ IsFiniteSet(Monster) /\ Spec => []Balanced
<1>1. Balance => Balanced
  BY DEF Balance
<1> QED BY <1>1, AlwaysBalance, PTL

\* Only the start of a sequence makes a monster play, and the count is then zero.
LEMMA StepTogether ==
  ASSUME ScriptAssumption, IsFiniteSet(Monster), Balance, Next
  PROVE  \A m \in Monster : m \in playing' \ playing /\ cine[m] \notin AI \cup lost
                            => Coming(Group(cine[m])) = {}
<1> SUFFICES ASSUME NEW m \in Monster, m \in playing', m \notin playing,
                    cine[m] \notin AI, cine[m] \notin lost
             PROVE  Coming(Group(cine[m])) = {}
  OBVIOUS
<1>1. Safe /\ TypeOK /\ Balanced
  BY DEF Balance, Safe
<1>2. StartPlay(m) /\ ~SequenceDone(m)
  <2>1. ASSUME NEW s \in Script, Use(s) \/ CineThink(s) \/ Remove(s)
        PROVE  FALSE
    BY <2>1 DEF Use, CineThink, PossessEntity, Remove, monsterVars
  <2>2. ASSUME NEW x \in Monster,
               \/ Stumble(x) \/ Mood(x) \/ AnimEvent(x) \/ TakeDamage(x)
               \/ Reschedule(x) \/ Shrug(x) \/ Arrive(x) \/ Finish(x) \/ DieDone(x)
        PROVE  FALSE
    BY <2>2 DEF Stumble, Mood, AnimEvent, TakeDamage, Reschedule, Shrug, Arrive, Finish,
                SequenceDone, DieDone
  <2>3. ASSUME Load PROVE FALSE
    BY <2>3 DEF Load
  <2>4. ASSUME NEW x \in Monster, StartPlay(x)
        PROVE  x = m /\ ~SequenceDone(x)
    BY <2>4 DEF StartPlay, SequenceDone
  <2> QED BY <2>1, <2>2, <2>3, <2>4 DEF Next, MonsterThink
<1>3. cine[m] \in Script /\ There(cine[m])
  <2>1. cine[m] # None /\ cine[m] \in Script
    BY <1>1, <1>2, GoesOnFound DEF StartPlay
  <2> QED BY <1>1, <2>1 DEF Safe, Linked, There
<1>4. delay[cine[m]] <= 0
  BY <1>2 DEF StartPlay
<1>5. delay[cine[m]] = Cardinality(Coming(Group(cine[m])))
  BY <1>1, <1>3 DEF Balanced
<1>6. IsFiniteSet(Coming(Group(cine[m])))
  BY FS_Subset DEF Coming
<1>7. Cardinality(Coming(Group(cine[m]))) \in Nat
  BY <1>6, FS_CardinalityType
<1>8. Cardinality(Coming(Group(cine[m]))) = 0
  BY <1>4, <1>5, <1>7
<1> QED BY <1>6, <1>8, FS_EmptySet

\* Nobody begins to play while another one of the group is still on its way
\* (TASK_WAIT_FOR_SCRIPT), for any finite number of monsters.
THEOREM AlwaysTogether == ScriptAssumption /\ IsFiniteSet(Monster) /\ Spec => Together
<1> SUFFICES ASSUME ScriptAssumption, IsFiniteSet(Monster)
             PROVE  Spec => Together
  OBVIOUS
<1>1. Balance /\ [Next]_vars
      => [\A m \in Monster : m \in playing' \ playing /\ cine[m] \notin AI \cup lost
                             => Coming(Group(cine[m])) = {}]_vars
  BY StepTogether
<1>2. Spec => []Balance
  BY AlwaysBalance
<1> QED BY <1>1, <1>2, PTL DEF Spec, Together
=============================================================================
