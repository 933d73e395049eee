---------------------------- MODULE AudibleChain ----------------------------
(***************************************************************************)
(* What CBaseMonster::Listen promises about the link that all monsters     *)
(* share.  Every sound of the world has one m_iNextAudible, and every      *)
(* monster that listens threads on it the sounds it hears now: its own     *)
(* chain runs over links that another monster may rewrite before it walks  *)
(* it.  Which sounds there are, and in which order the active list holds   *)
(* them, is left open: module SoundEnt extends and implements this.        *)
(***************************************************************************)
EXTENDS Naturals, FiniteSets

CONSTANTS
  Pool,     \* the sounds of m_SoundPool
  Empty,    \* SOUNDLIST_EMPTY
  Monster

ASSUME PoolAssumption == IsFiniteSet(Pool) /\ Empty \notin Pool

VARIABLES
  nextAudible,  \* m_iNextAudible of each sound
  audible,      \* m_iAudibleList of each monster
  listened      \* monsters that have called Listen

chain == <<nextAudible, audible, listened>>

\* The orders in which an active list may hold the sounds that one monster hears.
Orders ==
  UNION {{hs \in [1..n -> Pool] : \A i, j \in 1..n : hs[i] = hs[j] => i = j} :
           n \in 0..Cardinality(Pool)}

Heard(hs) == {hs[i] : i \in DOMAIN hs}
Place(hs, s) == CHOOSE i \in DOMAIN hs : hs[i] = s

\* The links after sounds hs are threaded, one by one, onto a list that starts at last.
ThreadOnto(hs, last) ==
  [s \in Pool |->
     IF s \in Heard(hs)
     THEN IF Place(hs, s) = 1 THEN last ELSE hs[Place(hs, s) - 1]
     ELSE nextAudible[s]]

\* The links after a Listen that hears hs: the first sound ends the chain, every
\* other one links to the sound heard before it.
Thread(hs) == ThreadOnto(hs, Empty)

\* Variation: Listen does not reset m_iAudibleList first.
ThreadUpKeepsList(m, hs) ==
  /\ nextAudible' = ThreadOnto(hs, IF m \in listened THEN audible[m] ELSE Empty)
  /\ audible' = [audible EXCEPT ![m] = IF Heard(hs) = {} THEN @ ELSE hs[Cardinality(DOMAIN hs)]]
  /\ listened' = listened \cup {m}

\* What Listen does to the lists when it hears the sounds hs, in this order.
ThreadUp(m, hs) ==
  /\ listened' = listened \cup {m}
  /\ audible' = [audible EXCEPT ![m] = IF Heard(hs) = {} THEN Empty ELSE hs[Cardinality(DOMAIN hs)]]
  /\ nextAudible' = Thread(hs)

\* The sounds that PBestSound visits for a monster whose list starts at a: the
\* smallest set that holds a and the link of every sound it holds.
Visited(a, link) ==
  {s \in Pool :
     \A S \in SUBSET Pool :
       (/\ a \in S \cup {Empty}
        /\ \A t \in S : link[t] \in S \cup {Empty}) => s \in S}

\* The walk stops where it meets SOUNDLIST_EMPTY.
Ends(a, link) == a = Empty \/ \E s \in Visited(a, link) : link[s] = Empty

ChainInit ==
  /\ nextAudible \in [Pool -> Pool]
  /\ audible \in [Monster -> Pool]
  /\ listened = {}

\* A saved game is loaded: sounds and monsters are new, and nobody has listened.
Forget ==
  /\ nextAudible' \in [Pool -> Pool]
  /\ audible' \in [Monster -> Pool]
  /\ listened' = {}

ChainNext == Forget \/ \E m \in Monster : \E hs \in Orders : ThreadUp(m, hs)

ChainSpec == ChainInit /\ [][ChainNext]_chain

\* However the monsters' Listen calls interleave, a monster that has listened once
\* walks its chain to an end: PBestSound and PBestScent return.
ChainsEnd == \A m \in listened : Ends(audible[m], nextAudible)

=============================================================================
