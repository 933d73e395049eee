------------------------------ MODULE SoundEnt ------------------------------
(***************************************************************************)
(* World sounds and the monsters that hear them: dlls/soundent.cpp,        *)
(* soundent.h, and Listen / PBestSound of dlls/monsters.cpp.               *)
(*                                                                         *)
(* A pool of MAX_WORLD_SOUNDS sounds is threaded, through m_iNext, on two  *)
(* lists: free and active.  A list is here the sequence of pool indices it *)
(* spells from its head.  The first sounds of the pool are reserved, one   *)
(* per client, and never expire.  A second link, m_iNextAudible, is shared *)
(* by all monsters: each threads on it the sounds its last Listen heard.   *)
(*                                                                         *)
(* Time is abstract: a sound that is not reserved may come of age at any   *)
(* moment.  So is distance: a monster may hear any of the active sounds.   *)
(***************************************************************************)
EXTENDS AudibleChain, Integers, Sequences, SequencesExt

CONSTANTS
  MaxSounds,      \* MAX_WORLD_SOUNDS
  MaxClients,     \* gpGlobals->maxClients
  Null,           \* PBestSound returns NULL
  SaveLoad        \* BOOLEAN: the game may be saved and loaded

ASSUME SoundsAssumption ==
  /\ MaxSounds \in Nat /\ MaxClients \in 1..MaxSounds
  /\ Pool = 0..MaxSounds - 1
  /\ Null \notin Pool

Reserved == 0..MaxClients - 1      \* what ClientSoundIndex answers for the clients

\* m_iType as far as FIsSound and FIsScent tell sounds apart
Kind == {"none", "sound", "scent"}

VARIABLES
  free,         \* the free list
  active,       \* the active list
  never,        \* sounds whose m_flExpireTime is SOUND_NEVER_EXPIRE
  due,          \* active sounds whose m_flExpireTime has passed
  kind,         \* m_iType
  hears,        \* did the last Listen of each monster set bits_COND_HEAR_SOUND?
  reactions     \* history: of the RunAI just made, if it asked for the best sound: had it listened
                \* first (now), and heard what it got (heard)?

vars == <<free, active, never, due, kind, chain, hears, reactions>>
world == <<free, active, never, due, kind>>
ears == <<chain, hears>>

-----------------------------------------------------------------------------
(* The sound lists *)

\* The sounds of list l that are in S, as a walk of l collects them.
Among(l, S) ==
  LET upTo[i \in 0..Len(l)] ==
        IF i = 0 THEN <<>>
        ELSE IF l[i] \in S THEN Append(upTo[i - 1], l[i]) ELSE upTo[i - 1]
  IN upTo[Len(l)]

\* Initialize: the pool is chained in order on the free list, then MaxClients sounds
\* are moved to the head of the active list, one after the other.
InitialActive == [i \in 1..MaxClients |-> MaxClients - i]
InitialFree == [i \in 1..MaxSounds - MaxClients |-> MaxClients + i - 1]

\* Variation: the new sound stays on the free list too.
InsertSoundKeepsFree(k) ==
  /\ free # <<>>
  /\ LET s == Head(free) IN
     /\ active' = <<s>> \o active
     /\ kind' = [kind EXCEPT ![s] = k]
     /\ never' = never \ {s}
     /\ due' = due \ {s}
  /\ reactions' = {} /\ UNCHANGED <<free, ears>>

InsertSound(k) ==
  /\ IF free = <<>>
     THEN UNCHANGED world
     ELSE LET s == Head(free) IN
          /\ free' = Tail(free)
          /\ active' = <<s>> \o active
          /\ kind' = [kind EXCEPT ![s] = k]
          /\ never' = never \ {s}
          /\ due' = due \ {s}
  /\ reactions' = {} /\ UNCHANGED ears

\* Variation: the test against SOUND_NEVER_EXPIRE (-1, always in the past) is missing.
AgeForgetsNever(s) ==
  /\ s \in ToSet(active) \ due
  /\ due' = due \cup {s}
  /\ reactions' = {} /\ UNCHANGED <<free, active, never, kind, ears>>

\* Time passes the m_flExpireTime of a sound on the active list.
Age(s) ==
  /\ s \in ToSet(active) \ (never \cup due)
  /\ due' = due \cup {s}
  /\ reactions' = {} /\ UNCHANGED <<free, active, never, kind, ears>>

\* Variation: the walk drops a freed sound without linking it to the free list.
ThinkLosesSound ==
  /\ active' = Among(active, Pool \ due)
  /\ due' = {}
  /\ reactions' = {} /\ UNCHANGED <<free, never, kind, ears>>

\* Variation: the walk stops at the first sound that stays.
ThinkStopsEarly ==
  LET s == Head(active) IN
  /\ IF s \in due
     THEN active' = Tail(active) /\ free' = <<s>> \o free /\ due' = due \ {s}
     ELSE UNCHANGED <<active, free, due>>
  /\ reactions' = {} /\ UNCHANGED <<never, kind, ears>>

\* Think walks the active list and moves each expired sound to the head of the
\* free list.
Think ==
  /\ active' = Among(active, Pool \ due)
  /\ free' = Reverse(Among(active, due)) \o free
  /\ due' = {}
  /\ reactions' = {} /\ UNCHANGED <<never, kind, ears>>

\* UpdatePlayerSound writes the reserved sound of a client that is alive.
UpdatePlayerSound(c) ==
  /\ kind' = [kind EXCEPT ![c] = "sound"]
  /\ reactions' = {} /\ UNCHANGED <<free, active, never, due, ears>>

\* CSound::Reset, when a client is killed or disconnects: m_iNext is emptied too,
\* so the active list ends at this sound.
Reset(c) ==
  /\ kind' = [kind EXCEPT ![c] = "none"]
  /\ active' = IF c \in ToSet(active)
               THEN SubSeq(active, 1, CHOOSE i \in 1..Len(active) : active[i] = c)
               ELSE active
  /\ reactions' = {} /\ UNCHANGED <<free, never, due, ears>>

-----------------------------------------------------------------------------
(* Monsters *)

Audible == {s \in ToSet(active) : kind[s] # "none"}

\* Variation: m_iAudibleList is not reset, the new sounds are threaded onto the old.
ThreadsOntoOld(m, H) == ThreadUpKeepsList(m, Among(active, H))

\* Listen walks the active list and threads the sounds it hears, each onto the one
\* before it.
Threads(m, H) == ThreadUp(m, Among(active, H))

\* Variation: bits_COND_HEAR_SOUND is set for a scent as well.
ListenHearsScents(m, H) ==
  /\ Threads(m, H)
  /\ hears' = [hears EXCEPT ![m] = H # {}]

Listen(m, H) ==
  /\ Threads(m, H)
  /\ hears' = [hears EXCEPT ![m] = \E s \in H : kind[s] = "sound"]

\* PBestSound returns the nearest sound on the chain that starts at a, here any.
PBestSound(a, link) ==
  LET found == {s \in Visited(a, link) : kind[s] = "sound"}
  IN IF found = {} THEN {Null} ELSE found

Reaction(now, heard) == {[now |-> now, heard |-> heard]}

\* RunAI: Listen unless the monster is out of every client's sight and not fighting.
\* Then a schedule that reacts to bits_COND_HEAR_SOUND may ask for the best sound, after a
\* skipped Listen of the old list (a walk of it that does not end gives no answer).  It
\* need not ask: a ChangeSchedule since the Listen may have cleared the condition.
MonsterThink(m) ==
  /\ \/ \E H \in SUBSET Audible :
          /\ Listen(m, H)
          /\ \/ reactions' = {}
             \/ /\ hears'[m]
                /\ \E s \in PBestSound(audible'[m], nextAudible') : reactions' = Reaction(TRUE, s \in H)
     \/ /\ UNCHANGED ears
        /\ \/ reactions' = {}
           \/ /\ hears[m] /\ Ends(audible[m], nextAudible)
              /\ reactions' = Reaction(FALSE, FALSE)
  /\ UNCHANGED world

\* A saved game is loaded.  The sound entity is not saved (FCAP_DONT_SAVE) and is
\* initialized again, m_iAudibleList is not saved and is 0 in the new monster;
\* m_afConditions is saved and kept by monsters that have an enemy.
Restore ==
  /\ SaveLoad
  /\ active' = InitialActive
  /\ free' = InitialFree
  /\ never' = Reserved
  /\ due' = {}
  /\ kind' = [s \in Pool |-> "none"]
  /\ nextAudible' = [s \in Pool |-> 0]
  /\ audible' = [m \in Monster |-> 0]
  /\ listened' = {}
  /\ \E fighting \in SUBSET Monster :
       hears' = [m \in Monster |-> hears[m] /\ m \in fighting]
  /\ reactions' = {}

-----------------------------------------------------------------------------

Init ==
  /\ active = InitialActive
  /\ free = InitialFree
  /\ never = Reserved
  /\ due = {}
  /\ kind = [s \in Pool |-> "none"]
  /\ nextAudible = [s \in Pool |-> 0]
  /\ audible = [m \in Monster |-> 0]
  /\ listened = {}
  /\ hears = [m \in Monster |-> FALSE]
  /\ reactions = {}

Next ==
  \/ \E k \in {"sound", "scent"} : InsertSound(k)
  \/ \E s \in Pool : Age(s)
  \/ Think
  \/ \E c \in Reserved : UpdatePlayerSound(c) \/ Reset(c)
  \/ \E m \in Monster : MonsterThink(m)
  \/ Restore

Spec == Init /\ [][Next]_vars

\* The engine calls CSoundEnt::Think every 0.3 seconds.
FairSpec == Spec /\ WF_vars(Think)

-----------------------------------------------------------------------------
(* Properties *)

\* Every field holds what its declaration allows, and only active sounds with an
\* expire time come of age.
TypeOK ==
  /\ free \in Seq(Pool) /\ active \in Seq(Pool)
  /\ never \in SUBSET Pool
  /\ due \in SUBSET (ToSet(active) \ never)
  /\ kind \in [Pool -> Kind]
  /\ nextAudible \in [Pool -> Pool \cup {Empty}]
  /\ audible \in [Monster -> Pool \cup {Empty}]
  /\ hears \in [Monster -> BOOLEAN]
  /\ reactions \in SUBSET [now : BOOLEAN, heard : BOOLEAN]

\* No sound is linked twice, on one list or on both, so that an allocation can never hand
\* out a sound that is still heard; and one that is not reserved is never lost from both, so
\* that InsertSound drops a sound ("Free Sound List is full!") only when all are in use.
OnOneList ==
  /\ IsInjective(free \o active)
  /\ Pool \ Reserved \subseteq ToSet(free \o active)

\* The reserved sound of every client stays on the active list, at the index
\* ClientSoundIndex computes: monsters can hear every player.
ReservedActive == Reserved \subseteq ToSet(active) /\ never = Reserved

\* A monster that asks for the best sound in a RunAI that listened, because it heard
\* one, gets a sound and one that it heard itself, whatever the other monsters threaded
\* on the same links before.
ReactsToHeard ==
  \A r \in reactions : r.now => r.heard

\* A sound whose time has passed (none of the reserved ones) is taken off the active list,
\* whatever is inserted in front of it.
ExpiredFreed == \A s \in Pool \ Reserved : s \in due ~> s \in ToSet(free)

=============================================================================
