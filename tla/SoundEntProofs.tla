--------------------------- MODULE SoundEntProofs ---------------------------
(* Theorems about AudibleChain and SoundEnt, for every pool, however many of   *)
(* its sounds are reserved, and every set of monsters.                         *)
EXTENDS SoundEnt, TLAPS, FiniteSetTheorems, SequenceTheorems, WellFoundedInduction

(***************************************************************************)
(* The links alone cannot show that every walk ends: a Listen rewrites      *)
(* links in the middle of another monster's chain.  What it never does is  *)
(* link a sound to one that stands later in the order of links last        *)
(* written.  The inductive invariant says that such an order exists: the   *)
(* sounds threaded so far, W, have ranks that fall along every link.       *)
(***************************************************************************)

Falls(W, rank) ==
  /\ \A m \in listened : audible[m] \in W \cup {Empty}
  /\ \A s \in W : nextAudible[s] # Empty =>
       /\ nextAudible[s] \in W
       /\ rank[nextAudible[s]] < rank[s]

Acyclic == \E W \in SUBSET Pool : \E rank \in [Pool -> Nat] : Falls(W, rank)

ChainTypeOK ==
  /\ nextAudible \in [Pool -> Pool \cup {Empty}]
  /\ audible \in [Monster -> Pool \cup {Empty}]
  /\ listened \in SUBSET Monster

IInv == ChainTypeOK /\ Acyclic

\* An order of heard sounds is an injective function on 1..n, and Place inverts it.
LEMMA OrderShape ==
  ASSUME NEW hs \in Orders
  PROVE  \E n \in Nat :
           /\ hs \in [1..n -> Pool]
           /\ Cardinality(DOMAIN hs) = n
           /\ \A s \in Heard(hs) : Place(hs, s) \in 1..n /\ hs[Place(hs, s)] = s
           /\ \A i \in 1..n : hs[i] \in Heard(hs) /\ Place(hs, hs[i]) = i
<1>1. Cardinality(Pool) \in Nat
  BY PoolAssumption, FS_CardinalityType
<1>2. PICK n \in 0..Cardinality(Pool) :
        hs \in {f \in [1..n -> Pool] : \A i, j \in 1..n : f[i] = f[j] => i = j}
  BY DEF Orders
<1>3. n \in Nat /\ hs \in [1..n -> Pool] /\ DOMAIN hs = 1..n
  BY <1>1, <1>2
<1>4. Cardinality(1..n) = n
  BY <1>3, FS_Interval
<1>5. \A s \in Heard(hs) : Place(hs, s) \in 1..n /\ hs[Place(hs, s)] = s
  BY <1>3 DEF Heard, Place
<1>6. \A i \in 1..n : hs[i] \in Heard(hs)
  BY <1>3 DEF Heard
<1>7. \A i \in 1..n : Place(hs, hs[i]) = i
  BY <1>2, <1>5, <1>6
<1> QED BY <1>3, <1>4, <1>5, <1>6, <1>7

LEMMA ListenType ==
  ASSUME ChainTypeOK, NEW m \in Monster, NEW hs \in Orders, ThreadUp(m, hs) PROVE ChainTypeOK'
<1>1. PICK n \in Nat :
        /\ hs \in [1..n -> Pool]
        /\ Cardinality(DOMAIN hs) = n
        /\ \A s \in Heard(hs) : Place(hs, s) \in 1..n /\ hs[Place(hs, s)] = s
  BY OrderShape
<1>2. nextAudible' \in [Pool -> Pool \cup {Empty}]
  <2>1. \A s \in Heard(hs) : Place(hs, s) # 1 => Place(hs, s) - 1 \in 1..n
    BY <1>1
  <2> QED BY <1>1, <2>1 DEF ChainTypeOK, ThreadUp, Thread, ThreadOnto
<1>3. audible' \in [Monster -> Pool \cup {Empty}]
  <2>1. CASE Heard(hs) = {}
    BY <2>1 DEF ChainTypeOK, ThreadUp
  <2>2. CASE Heard(hs) # {}
    <3>1. n \in 1..n
      BY <1>1, <2>2
    <3>2. hs[Cardinality(DOMAIN hs)] \in Pool
      BY <1>1, <3>1
    <3> QED BY <2>2, <3>2 DEF ChainTypeOK, ThreadUp
  <2> QED BY <2>1, <2>2
<1> QED BY <1>2, <1>3 DEF ChainTypeOK, ThreadUp

\* A Listen moves the sounds it hears below all others and ranks them by their place.
LEMMA ListenFalls ==
  ASSUME ChainTypeOK, Acyclic, NEW m \in Monster, NEW hs \in Orders, ThreadUp(m, hs)
  PROVE  Acyclic'
<1>1. PICK n \in Nat :
        /\ hs \in [1..n -> Pool]
        /\ Cardinality(DOMAIN hs) = n
        /\ \A s \in Heard(hs) : Place(hs, s) \in 1..n /\ hs[Place(hs, s)] = s
        /\ \A i \in 1..n : hs[i] \in Heard(hs) /\ Place(hs, hs[i]) = i
  BY OrderShape
<1>2. PICK W \in SUBSET Pool, rank \in [Pool -> Nat] : Falls(W, rank)
  BY DEF Acyclic
<1> DEFINE V == W \cup Heard(hs)
           low == [s \in Pool |-> IF s \in Heard(hs) THEN Place(hs, s) ELSE rank[s] + n + 1]
<1>3. Heard(hs) \subseteq Pool
  BY <1>1
<1>4. low \in [Pool -> Nat]
  BY <1>1, <1>2
<1>5. \A k \in listened' : audible'[k] \in V \cup {Empty}
  <2> SUFFICES ASSUME NEW k \in listened' PROVE audible'[k] \in V \cup {Empty}
    OBVIOUS
  <2>1. CASE k = m /\ Heard(hs) = {}
    BY <2>1 DEF ThreadUp, ChainTypeOK
  <2>2. CASE k = m /\ Heard(hs) # {}
    <3>1. n \in 1..n
      BY <1>1, <2>2
    <3> QED BY <1>1, <2>2, <3>1 DEF ThreadUp, ChainTypeOK
  <2>3. CASE k # m
    BY <1>2, <2>3 DEF ThreadUp, ChainTypeOK, Falls
  <2> QED BY <2>1, <2>2, <2>3
<1>6. ASSUME NEW s \in V, nextAudible'[s] # Empty
      PROVE  nextAudible'[s] \in V /\ low[nextAudible'[s]] < low[s]
  <2>1. CASE s \in Heard(hs)
    <3> DEFINE i == Place(hs, s)
    <3>1. nextAudible'[s] = IF i = 1 THEN Empty ELSE hs[i - 1]
      BY <1>3, <2>1 DEF ThreadUp, Thread, ThreadOnto
    <3>2. i # 1 /\ nextAudible'[s] = hs[i - 1]
      BY <1>6, <3>1
    <3>3. i \in 1..n /\ i - 1 \in 1..n
      BY <1>1, <2>1, <3>2
    <3>4. hs[i - 1] \in Heard(hs) /\ Place(hs, hs[i - 1]) = i - 1
      BY <1>1, <3>3
    <3>5. low[hs[i - 1]] = i - 1 /\ low[s] = i
      BY <1>3, <2>1, <3>4
    <3> QED BY <3>2, <3>3, <3>4, <3>5
  <2>2. CASE s \notin Heard(hs)
    <3>1. s \in W /\ s \in Pool
      BY <1>2, <2>2
    <3>2. nextAudible'[s] = nextAudible[s]
      BY <2>2, <3>1 DEF ThreadUp, Thread, ThreadOnto
    <3> DEFINE t == nextAudible[s]
    <3>3. t \in W /\ t \in Pool /\ rank[t] < rank[s]
      BY <1>2, <1>6, <3>1, <3>2 DEF Falls
    <3>4. low[s] = rank[s] + n + 1
      BY <2>2, <3>1
    <3>5. CASE t \in Heard(hs)
      <4>1. low[t] = Place(hs, t) /\ Place(hs, t) \in 1..n
        BY <1>1, <3>3, <3>5
      <4>2. rank[s] \in Nat
        BY <1>2, <3>1
      <4>3. low[t] < low[s]
        BY <1>1, <3>4, <4>1, <4>2
      <4> QED BY <3>2, <3>3, <4>3
    <3>6. CASE t \notin Heard(hs)
      <4>1. low[t] = rank[t] + n + 1
        BY <3>3, <3>6
      <4>2. rank[s] \in Nat /\ rank[t] \in Nat
        BY <1>2, <3>1, <3>3
      <4> QED BY <1>1, <3>2, <3>3, <3>4, <4>1, <4>2
    <3> QED BY <3>5, <3>6
  <2> QED BY <2>1, <2>2
<1>7. V \in SUBSET Pool
  BY <1>2, <1>3
<1> HIDE DEF V, low
<1>8. Falls(V, low)'
  BY <1>5, <1>6 DEF Falls
<1> QED BY <1>4, <1>7, <1>8 DEF Acyclic

\* Ranks that fall along the links bring every walk to an end: the visited sound of
\* the lowest rank has no successor.
LEMMA FallingEnds ==
  ASSUME Acyclic, NEW m \in listened PROVE Ends(audible[m], nextAudible)
<1>1. PICK W \in SUBSET Pool, rank \in [Pool -> Nat] : Falls(W, rank)
  BY DEF Acyclic
<1> DEFINE a == audible[m]
           V == Visited(a, nextAudible)
<1> SUFFICES ASSUME a # Empty PROVE \E s \in V : nextAudible[s] = Empty
  BY DEF Ends
<1>2. a \in W
  BY <1>1 DEF Falls
<1>3. a \in V
  BY <1>2 DEF Visited
<1>4. V \subseteq W
  <2>1. \A t \in W : nextAudible[t] \in W \cup {Empty}
    BY <1>1 DEF Falls
  <2> QED BY <1>2, <2>1 DEF Visited
<1>5. ASSUME NEW t \in V, nextAudible[t] # Empty
      PROVE  nextAudible[t] \in V /\ rank[nextAudible[t]] < rank[t]
  <2>1. nextAudible[t] \in W /\ rank[nextAudible[t]] < rank[t]
    BY <1>1, <1>4, <1>5 DEF Falls
  <2>2. ASSUME NEW S \in SUBSET Pool, a \in S \cup {Empty},
               \A u \in S : nextAudible[u] \in S \cup {Empty}
        PROVE  nextAudible[t] \in S
    <3>1. t \in S
      BY <2>2 DEF Visited
    <3> QED BY <1>5, <2>2, <3>1
  <2>3. nextAudible[t] \in Pool
    BY <2>1
  <2> QED BY <2>1, <2>2, <2>3 DEF Visited
<1> DEFINE Ranks == {rank[t] : t \in V}
           Below == OpToRel(<, Nat)
<1>6. Ranks \in SUBSET Nat /\ Ranks # {}
  BY <1>1, <1>3, <1>4
<1>7. PICK r \in Ranks : \A q \in Ranks : <<q, r>> \notin Below
  BY <1>6, NatLessThanWellFounded, WFMin
<1>8. PICK s \in V : rank[s] = r
  BY <1>7
<1>9. ASSUME nextAudible[s] # Empty PROVE FALSE
  <2>1. rank[nextAudible[s]] \in Ranks /\ rank[nextAudible[s]] < r
    BY <1>5, <1>8, <1>9
  <2>2. <<rank[nextAudible[s]], r>> \in Below
    BY <1>6, <1>7, <2>1 DEF OpToRel
  <2> QED BY <1>7, <2>1, <2>2
<1> QED BY <1>8, <1>9

\* PBestSound and PBestScent return: however the Listen calls of the monsters
\* interleave and in whatever order the active list holds the sounds, every chain a
\* monster walks over the shared m_iNextAudible ends.
THEOREM EveryChainEnds == ChainSpec => []ChainsEnd
<1>1. ChainInit => IInv
  <2> SUFFICES ASSUME ChainInit PROVE IInv
    OBVIOUS
  <2>1. ChainTypeOK
    BY DEF ChainInit, ChainTypeOK
  <2>2. Falls({}, [s \in Pool |-> 0])
    BY DEF ChainInit, Falls
  <2>3. [s \in Pool |-> 0] \in [Pool -> Nat]
    OBVIOUS
  <2> QED BY <2>1, <2>2, <2>3 DEF IInv, Acyclic
<1>2. IInv /\ [ChainNext]_chain => IInv'
  <2> SUFFICES ASSUME IInv, [ChainNext]_chain PROVE IInv'
    OBVIOUS
  <2>1. ASSUME NEW m \in Monster, NEW hs \in Orders, ThreadUp(m, hs)
        PROVE  IInv'
    BY <2>1, ListenType, ListenFalls DEF IInv
  <2>2. CASE Forget
    <3>1. ChainTypeOK'
      BY <2>2 DEF Forget, ChainTypeOK
    <3>2. Falls({}, [s \in Pool |-> 0])' /\ [s \in Pool |-> 0] \in [Pool -> Nat]
      BY <2>2 DEF Forget, Falls
    <3> QED BY <3>1, <3>2 DEF IInv, Acyclic
  <2>3. CASE UNCHANGED chain
    BY <2>3 DEF chain, IInv, ChainTypeOK, Acyclic, Falls
  <2> QED BY <2>1, <2>2, <2>3 DEF ChainNext
<1>3. IInv => ChainsEnd
  BY FallingEnds DEF IInv, ChainsEnd
<1> QED BY <1>1, <1>2, <1>3, PTL DEF ChainSpec

-----------------------------------------------------------------------------
(***************************************************************************)
(* Lists                                                                   *)
(***************************************************************************)

LEMMA LeastIn == ASSUME NEW S \in SUBSET Nat, S # {} PROVE \E x \in S : \A y \in S : x <= y
<1> DEFINE Below == OpToRel(<, Nat)
<1>1. PICK x \in S : \A y \in S : <<y, x>> \notin Below
  BY NatLessThanWellFounded, WFMin
<1>2. ASSUME NEW y \in S, y < x PROVE FALSE
  <2>1. <<y, x>> \in Below
    BY <1>2 DEF OpToRel
  <2> HIDE DEF Below
  <2> QED BY <1>1, <2>1
<1> QED BY <1>2

\* What a walk of l has collected at its place i, from what it had at the place before.
Collect(l, S, upTo, i) ==
  IF i = 0 THEN <<>>
  ELSE IF l[i] \in S THEN Append(upTo[i - 1], l[i]) ELSE upTo[i - 1]

Collects(l, S, upTo, n) ==
  upTo \in [0..n -> Seq(Pool)] /\ \A i \in 0..n : upTo[i] = Collect(l, S, upTo, i)

\* The recursive function in Among exists.
LEMMA WalkExists ==
  ASSUME NEW l \in Seq(Pool), NEW S
  PROVE  \E upTo : Collects(l, S, upTo, Len(l))
<1> DEFINE Stuck == {n \in 0..Len(l) : ~ \E upTo : Collects(l, S, upTo, n)}
<1>1. Len(l) \in Nat /\ \A i \in 1..Len(l) : l[i] \in Pool
  BY LenProperties, ElementOfSeq
<1>2. ASSUME Stuck # {} PROVE FALSE
  <2>0. Stuck \in SUBSET Nat
    BY <1>1
  <2>1. PICK n \in Stuck : \A k \in Stuck : n <= k
    BY <1>2, <2>0, LeastIn
  <2>2. CASE n = 0
    <3>1. Collects(l, S, [i \in 0..0 |-> <<>>], 0)
      BY DEF Collects, Collect
    <3> QED BY <2>1, <2>2, <3>1
  <2>3. CASE n # 0
    <3>1. n \in 1..Len(l) /\ n - 1 \in 0..Len(l) /\ n - 1 \notin Stuck
      BY <1>1, <2>1, <2>3
    <3>2. PICK g : Collects(l, S, g, n - 1)
      BY <3>1
    <3>3. Collect(l, S, g, n) \in Seq(Pool)
      <4>1. g[n - 1] \in Seq(Pool) /\ l[n] \in Pool
        BY <1>1, <3>1, <3>2 DEF Collects
      <4> QED BY <4>1, AppendProperties DEF Collect
    <3>4. PICK h : h = [i \in 0..n |-> IF i = n THEN Collect(l, S, g, n) ELSE g[i]]
      OBVIOUS
    <3>5. h \in [0..n -> Seq(Pool)]
      BY <3>1, <3>2, <3>3, <3>4 DEF Collects
    <3>6. \A i \in 0..n : i # 0 => h[i - 1] = g[i - 1]
      BY <3>1, <3>4
    <3>7. ASSUME NEW i \in 0..n PROVE h[i] = Collect(l, S, h, i)
      <4>1. Collect(l, S, h, i) = Collect(l, S, g, i)
        BY <3>6 DEF Collect
      <4>2. CASE i = n
        BY <3>4, <4>1, <4>2
      <4>3. CASE i # n
        <5>1. i \in 0..n - 1 /\ h[i] = g[i]
          BY <3>1, <3>4, <4>3
        <5> QED BY <3>2, <4>1, <5>1 DEF Collects
      <4> QED BY <4>2, <4>3
    <3>8. Collects(l, S, h, n)
      BY <3>5, <3>7 DEF Collects
    <3> QED BY <2>1, <3>8
  <2> QED BY <2>2, <2>3
<1> QED BY <1>1, <1>2

\* So Among is what the walk has collected at the end of l.
LEMMA AmongWalks ==
  ASSUME NEW l \in Seq(Pool), NEW S
  PROVE  \E upTo : Collects(l, S, upTo, Len(l)) /\ Among(l, S) = upTo[Len(l)]
<1>1. Len(l) \in Nat
  BY LenProperties
<1>2. PICK g : Collects(l, S, g, Len(l))
  BY WalkExists
<1>3. g = [i \in 0..Len(l) |-> IF i = 0 THEN <<>>
                               ELSE IF l[i] \in S THEN Append(g[i - 1], l[i]) ELSE g[i - 1]]
  BY <1>2 DEF Collects, Collect
<1>4. PICK f : /\ f = [i \in 0..Len(l) |-> IF i = 0 THEN <<>>
                                           ELSE IF l[i] \in S THEN Append(f[i - 1], l[i]) ELSE f[i - 1]]
               /\ Among(l, S) = f[Len(l)]
  BY <1>3 DEF Among
<1>5. \A i \in 0..Len(l) : f[i] = Collect(l, S, f, i)
  BY <1>4 DEF Collect
<1> DEFINE Differ == {i \in 0..Len(l) : f[i] # g[i]}
<1>6. ASSUME Differ # {} PROVE FALSE
  <2>0. Differ \in SUBSET Nat
    BY <1>1
  <2>1. PICK i \in Differ : \A k \in Differ : i <= k
    BY <1>6, <2>0, LeastIn
  <2>2. i # 0 => f[i - 1] = g[i - 1]
    BY <1>1, <2>1
  <2>3. f[i] = Collect(l, S, f, i) /\ g[i] = Collect(l, S, g, i)
    BY <1>2, <1>5 DEF Collects
  <2> QED BY <2>1, <2>2, <2>3 DEF Collect
<1>7. f[Len(l)] = g[Len(l)]
  BY <1>1, <1>6
<1> QED BY <1>2, <1>4, <1>7

\* q has the members of S among the first n of l, in their order.
Collected(l, S, q, n) ==
  /\ \A i \in 1..Len(q) : q[i] \in S /\ \E a \in 1..n : q[i] = l[a]
  /\ \A a \in 1..n : l[a] \in S => \E i \in 1..Len(q) : q[i] = l[a]
  /\ \A i, j \in 1..Len(q) : i < j =>
       \E a, b \in 1..n : a < b /\ q[i] = l[a] /\ q[j] = l[b]

\* Among keeps what is in S, once if it was there once, and in the order of the list.
LEMMA AmongIs ==
  ASSUME NEW l \in Seq(Pool), NEW S
  PROVE  LET r == Among(l, S)
         IN  /\ r \in Seq(Pool)
             /\ ToSet(r) = ToSet(l) \cap S
             /\ \A i, j \in 1..Len(r) : i < j =>
                  \E a, b \in 1..Len(l) : a < b /\ r[i] = l[a] /\ r[j] = l[b]
<1>1. PICK upTo : Collects(l, S, upTo, Len(l)) /\ Among(l, S) = upTo[Len(l)]
  BY AmongWalks
<1>2. /\ Len(l) \in Nat /\ DOMAIN l = 1..Len(l) /\ \A i \in 1..Len(l) : l[i] \in Pool
      /\ \A i \in 0..Len(l) : upTo[i] \in Seq(Pool) /\ upTo[i] = Collect(l, S, upTo, i)
  BY <1>1, LenProperties, ElementOfSeq DEF Collects
<1> DEFINE Bad == {n \in 0..Len(l) : ~Collected(l, S, upTo[n], n)}
<1>3. ASSUME Bad # {} PROVE FALSE
  <2>0. Bad \in SUBSET Nat
    BY <1>2
  <2>1. PICK n \in Bad : \A k \in Bad : n <= k
    BY <1>3, <2>0, LeastIn
  <2>2. /\ n \in 0..Len(l) /\ ~Collected(l, S, upTo[n], n)
        /\ upTo[n] \in Seq(Pool) /\ upTo[n] = Collect(l, S, upTo, n)
    BY <1>2, <2>1
  <2>3. CASE n = 0
    <3>1. upTo[n] = <<>> /\ Len(upTo[n]) = 0
      BY <2>2, <2>3 DEF Collect
    <3> QED BY <2>2, <2>3, <3>1 DEF Collected
  <2>4. CASE n # 0
    <3>1. n \in 1..Len(l) /\ n - 1 \in 0..Len(l) /\ Collected(l, S, upTo[n - 1], n - 1) /\ l[n] \in Pool
      BY <1>2, <2>1, <2>4
    <3>2. PICK q \in Seq(Pool) : q = upTo[n - 1]
      BY <1>2, <3>1
    <3>3. Len(q) \in Nat
      BY LenProperties
    <3>4. Collected(l, S, q, n - 1)
      BY <3>1, <3>2
    <3>5. \A a \in 1..n : a \in 1..n - 1 \/ a = n
      BY <3>1
    <3>6. 1..n - 1 \subseteq 1..n /\ n \in 1..n /\ \A a \in 1..n - 1 : a < n
      BY <3>1
    <3>7. CASE l[n] \notin S
      <4>1. upTo[n] = q
        BY <2>2, <2>4, <3>2, <3>7 DEF Collect
      <4> QED BY <2>2, <3>4, <3>5, <3>6, <3>7, <4>1 DEF Collected
    <3>8. CASE l[n] \in S
      <4>1. PICK r : r = upTo[n]
        OBVIOUS
      <4>2. r = Append(q, l[n])
        BY <2>2, <2>4, <3>2, <3>8, <4>1 DEF Collect
      <4>3. Len(r) = Len(q) + 1 /\ r[Len(r)] = l[n] /\ \A i \in 1..Len(q) : r[i] = q[i]
        BY <3>1, <4>2, AppendProperties
      <4>4. \A i \in 1..Len(r) : i \in 1..Len(q) \/ i = Len(r)
        BY <3>3, <4>3
      <4>5. ASSUME NEW i \in 1..Len(r)
            PROVE  r[i] \in S /\ \E a \in 1..n : r[i] = l[a]
        <5>1. CASE i = Len(r)
          BY <3>6, <3>8, <4>3, <5>1
        <5>2. CASE i \in 1..Len(q)
          <6>1. q[i] \in S /\ r[i] = q[i]
            BY <3>4, <4>3, <5>2 DEF Collected
          <6>2. PICK a \in 1..n - 1 : q[i] = l[a]
            BY <3>4, <5>2 DEF Collected
          <6> QED BY <3>6, <6>1, <6>2
        <5> QED BY <4>4, <5>1, <5>2
      <4>6. ASSUME NEW a \in 1..n, l[a] \in S PROVE \E i \in 1..Len(r) : r[i] = l[a]
        <5>1. CASE a = n
          <6>1. Len(r) \in 1..Len(r)
            BY <3>3, <4>3
          <6> QED BY <4>3, <5>1, <6>1
        <5>2. CASE a \in 1..n - 1
          <6>1. PICK i \in 1..Len(q) : q[i] = l[a]
            BY <3>4, <4>6, <5>2 DEF Collected
          <6>2. i \in 1..Len(r)
            BY <3>3, <4>3
          <6> QED BY <4>3, <6>1, <6>2
        <5> QED BY <3>5, <5>1, <5>2
      <4>7. ASSUME NEW i \in 1..Len(r), NEW j \in 1..Len(r), i < j
            PROVE  \E a, b \in 1..n : a < b /\ r[i] = l[a] /\ r[j] = l[b]
        <5>1. i \in 1..Len(q) /\ r[i] = q[i]
          BY <3>3, <4>3, <4>7
        <5>2. CASE j \in 1..Len(q)
          <6>1. r[j] = q[j]
            BY <4>3, <5>2
          <6>2. PICK a \in 1..n - 1, b \in 1..n - 1 : a < b /\ q[i] = l[a] /\ q[j] = l[b]
            BY <3>4, <4>7, <5>1, <5>2 DEF Collected
          <6> QED BY <3>6, <5>1, <6>1, <6>2
        <5>3. CASE j = Len(r)
          <6>1. PICK a \in 1..n - 1 : q[i] = l[a]
            BY <3>4, <5>1 DEF Collected
          <6> QED BY <3>6, <4>3, <5>1, <5>3, <6>1
        <5> QED BY <4>4, <5>2, <5>3
      <4> QED BY <2>2, <4>1, <4>5, <4>6, <4>7 DEF Collected
    <3> QED BY <3>7, <3>8
  <2> QED BY <2>3, <2>4
<1>4. PICK r \in Seq(Pool) : r = Among(l, S) /\ Collected(l, S, r, Len(l))
  BY <1>1, <1>2, <1>3
<1>5. DOMAIN r = 1..Len(r)
  BY LenProperties
<1>6. ToSet(r) = ToSet(l) \cap S
  <2>1. ASSUME NEW i \in 1..Len(r) PROVE r[i] \in ToSet(l) \cap S
    BY <1>2, <1>4, <2>1 DEF ToSet, Collected
  <2>2. ASSUME NEW a \in 1..Len(l), l[a] \in S PROVE l[a] \in ToSet(r)
    BY <1>4, <1>5, <2>2 DEF ToSet, Collected
  <2> QED BY <1>2, <1>5, <2>1, <2>2 DEF ToSet
<1> QED BY <1>4, <1>6 DEF Collected

LEMMA Members ==
  ASSUME NEW l \in Seq(Pool)
  PROVE  /\ Len(l) \in Nat /\ DOMAIN l = 1..Len(l)
         /\ \A i \in 1..Len(l) : l[i] \in Pool /\ l[i] \in ToSet(l)
         /\ \A s \in ToSet(l) : s \in Pool /\ \E i \in 1..Len(l) : l[i] = s
         /\ ToSet(l) \subseteq Pool
<1>1. Len(l) \in Nat /\ DOMAIN l = 1..Len(l) /\ \A i \in 1..Len(l) : l[i] \in Pool
  BY LenProperties, ElementOfSeq
<1>2. \A i \in 1..Len(l) : l[i] \in ToSet(l)
  BY <1>1 DEF ToSet
<1>3. \A s \in ToSet(l) : \E i \in 1..Len(l) : l[i] = s
  BY <1>1 DEF ToSet
<1> QED BY <1>1, <1>2, <1>3

LEMMA Injective ==
  ASSUME NEW l \in Seq(Pool), NEW n, n = Len(l)
  PROVE  IsInjective(l) <=> \A i, j \in 1..n : l[i] = l[j] => i = j
<1>1. DOMAIN l = 1..n
  BY Members
<1> QED BY <1>1 DEF IsInjective

LEMMA AmongInjective ==
  ASSUME NEW l \in Seq(Pool), IsInjective(l), NEW S
  PROVE  IsInjective(Among(l, S))
<1>1. PICK r \in Seq(Pool) : /\ r = Among(l, S)
                             /\ \A i, j \in 1..Len(r) : i < j =>
                                  \E a, b \in 1..Len(l) : a < b /\ r[i] = l[a] /\ r[j] = l[b]
  BY AmongIs
<1>2. ASSUME NEW i \in 1..Len(r), NEW j \in 1..Len(r), i < j, r[i] = r[j] PROVE FALSE
  <2>1. PICK a \in 1..Len(l), b \in 1..Len(l) : a < b /\ r[i] = l[a] /\ r[j] = l[b]
    BY <1>1, <1>2
  <2>2. a = b
    BY <1>2, <2>1, Injective
  <2> QED BY <2>1, <2>2, Members
<1>3. Len(r) \in Nat
  BY Members
<1>4. \A i, j \in 1..Len(r) : r[i] = r[j] => i = j
  BY <1>2, <1>3
<1>5. IsInjective(r)
  BY <1>4, Injective
<1> QED BY <1>1, <1>5

LEMMA ReverseIs ==
  ASSUME NEW l \in Seq(Pool)
  PROVE  /\ Reverse(l) \in Seq(Pool) /\ ToSet(Reverse(l)) = ToSet(l)
         /\ IsInjective(l) => IsInjective(Reverse(l))
<1>1. PICK n \in Nat : n = Len(l)
  BY Members
<1>2. PICK r : r = Reverse(l)
  OBVIOUS
<1>3. /\ DOMAIN r = 1..n /\ \A i \in 1..n : n - i + 1 \in 1..n /\ r[i] = l[n - i + 1]
      /\ \A i \in 1..n : l[i] \in Pool
      /\ r = [i \in 1..n |-> l[n - i + 1]]
  BY <1>1, <1>2, Members DEF Reverse
<1>4. r \in Seq(Pool) /\ Len(r) = n
  BY <1>3, IsASeq
<1>5. ASSUME NEW i \in 1..n PROVE r[i] \in ToSet(l) /\ l[i] \in ToSet(r)
  <2>1. r[i] \in ToSet(l)
    BY <1>1, <1>3, Members
  <2>2. n - i + 1 \in 1..n /\ n - (n - i + 1) + 1 = i
    OBVIOUS
  <2>3. r[n - i + 1] = l[i]
    BY <1>3, <2>2
  <2> QED BY <1>4, <2>1, <2>2, <2>3, Members
<1>6. ToSet(r) = ToSet(l)
  <2>1. /\ \A s \in ToSet(r) : \E i \in 1..n : r[i] = s
        /\ \A s \in ToSet(l) : \E i \in 1..n : l[i] = s
    BY <1>1, <1>4, Members
  <2>2. \A i \in 1..n : r[i] \in ToSet(l) /\ l[i] \in ToSet(r)
    BY <1>5
  <2>3. ToSet(r) \subseteq ToSet(l) /\ ToSet(l) \subseteq ToSet(r)
    BY <2>1, <2>2
  <2> QED BY <2>3
<1>7. ASSUME IsInjective(l) PROVE IsInjective(r)
  <2>1. ASSUME NEW i \in 1..n, NEW j \in 1..n, r[i] = r[j] PROVE i = j
    <3>1. n - i + 1 = n - j + 1
      BY <1>1, <1>3, <1>7, <2>1, Injective
    <3> QED BY <3>1
  <2> QED BY <1>4, <2>1, Injective
<1> QED BY <1>2, <1>4, <1>6, <1>7

LEMMA JoinIs ==
  ASSUME NEW k \in Seq(Pool), NEW l \in Seq(Pool)
  PROVE  /\ k \o l \in Seq(Pool) /\ ToSet(k \o l) = ToSet(k) \cup ToSet(l)
         /\ IsInjective(k \o l) <=>
              IsInjective(k) /\ IsInjective(l) /\ ToSet(k) \cap ToSet(l) = {}
<1>1. PICK m \in Nat, n \in Nat : m = Len(k) /\ n = Len(l)
  BY Members
<1>2. PICK r : r = k \o l
  OBVIOUS
<1>3. /\ r \in Seq(Pool) /\ Len(r) = m + n
      /\ \A i \in 1..m : r[i] = k[i]
      /\ \A i \in m + 1..m + n : r[i] = l[i - m]
  BY <1>1, <1>2, ConcatProperties
<1>4. \A i \in 1..n : i + m \in 1..m + n /\ r[i + m] = l[i]
  <2>1. \A i \in 1..n : i + m \in m + 1..m + n /\ i + m - m = i
    BY <1>1
  <2> QED BY <1>3, <2>1
<1>5. \A i \in 1..m + n : i \in 1..m \/ (i - m \in 1..n /\ i = i - m + m)
  OBVIOUS
<1>6. ToSet(k) \cup ToSet(l) \subseteq ToSet(r)
  <2>1. \A i \in 1..m : i \in 1..m + n
    OBVIOUS
  <2>2. \A i \in 1..m : k[i] \in ToSet(r)
    BY <1>3, <2>1, Members
  <2>3. \A i \in 1..n : l[i] \in ToSet(r)
    BY <1>3, <1>4, Members
  <2> QED BY <1>1, <2>2, <2>3, Members
<1>7. ToSet(r) \subseteq ToSet(k) \cup ToSet(l)
  <2>1. ASSUME NEW i \in 1..m + n PROVE r[i] \in ToSet(k) \cup ToSet(l)
    <3>1. i \in 1..m => r[i] \in ToSet(k)
      BY <1>1, <1>3, Members
    <3>2. i - m \in 1..n /\ i = i - m + m => r[i] = l[i - m] /\ r[i] \in ToSet(l)
      BY <1>1, <1>4, Members
    <3> QED BY <1>5, <3>1, <3>2
  <2> QED BY <1>3, <2>1, Members
<1>8. ASSUME IsInjective(r) PROVE IsInjective(k) /\ IsInjective(l) /\ ToSet(k) \cap ToSet(l) = {}
  <2>1. \A i, j \in 1..m + n : r[i] = r[j] => i = j
    BY <1>3, <1>8, Injective
  <2>2. \A i \in 1..m : i \in 1..m + n
    OBVIOUS
  <2>3. \A i, j \in 1..m : k[i] = k[j] => i = j
    BY <1>3, <2>1, <2>2
  <2>4. \A i, j \in 1..n : l[i] = l[j] => i = j
    <3>1. \A i, j \in 1..n : l[i] = l[j] => i + m = j + m
      BY <1>4, <2>1
    <3> QED BY <3>1
  <2>5. \A i \in 1..m, j \in 1..n : k[i] # l[j]
    <3>1. \A i \in 1..m, j \in 1..n : k[i] = l[j] => i = j + m
      BY <1>3, <1>4, <2>1, <2>2
    <3> QED BY <3>1
  <2>6. IsInjective(k) /\ IsInjective(l)
    BY <1>1, <2>3, <2>4, Injective
  <2>7. ToSet(k) \cap ToSet(l) = {}
    BY <1>1, <2>5, Members
  <2> QED BY <2>6, <2>7
<1>9. ASSUME IsInjective(k), IsInjective(l), ToSet(k) \cap ToSet(l) = {} PROVE IsInjective(r)
  <2>1. ASSUME NEW i \in 1..m + n, NEW j \in 1..m + n, r[i] = r[j] PROVE i = j
    <3>1. CASE i \in 1..m /\ j \in 1..m
      <4>1. k[i] = k[j]
        BY <1>3, <2>1, <3>1
      <4> QED BY <1>1, <1>9, <3>1, <4>1, Injective
    <3>2. CASE i \notin 1..m /\ j \notin 1..m
      <4>1. i - m \in 1..n /\ j - m \in 1..n /\ l[i - m] = r[i] /\ l[j - m] = r[j]
        BY <1>4, <1>5, <3>2
      <4>2. i - m = j - m
        BY <1>1, <1>9, <2>1, <4>1, Injective
      <4> QED BY <4>2
    <3>3. \A h \in 1..m : r[h] \in ToSet(k)
      BY <1>1, <1>3, Members
    <3>4. \A h \in 1..n : r[h + m] \in ToSet(l)
      BY <1>1, <1>4, Members
    <3>5. \A h \in 1..m + n : h \notin 1..m => r[h] \in ToSet(l)
      BY <1>5, <3>4
    <3> QED BY <1>9, <2>1, <3>1, <3>2, <3>3, <3>5
  <2> QED BY <1>3, <2>1, Injective
<1> QED BY <1>2, <1>3, <1>6, <1>7, <1>8, <1>9

LEMMA HeadOff ==
  ASSUME NEW l \in Seq(Pool), l # <<>>
  PROVE  /\ Head(l) \in Pool /\ Tail(l) \in Seq(Pool)
         /\ ToSet(l) = {Head(l)} \cup ToSet(Tail(l))
         /\ IsInjective(l) => IsInjective(Tail(l)) /\ Head(l) \notin ToSet(Tail(l))
<1>1. PICK r : r = Tail(l)
  OBVIOUS
<1>2. PICK n \in Nat : n = Len(l)
  BY Members
<1>3. /\ n # 0 /\ Head(l) = l[1] /\ r \in Seq(Pool) /\ Len(r) = n - 1
      /\ \A i \in 1..n - 1 : r[i] = l[i + 1]
  BY <1>1, <1>2, EmptySeq, HeadTailProperties
<1>4. 1 \in 1..n /\ \A i \in 1..n - 1 : i + 1 \in 1..n
  BY <1>3
<1>5. \A i \in 1..n : i = 1 \/ (i - 1 \in 1..n - 1 /\ i = i - 1 + 1)
  OBVIOUS
<1>6. \A i \in 1..n : i = 1 \/ (i - 1 \in 1..n - 1 /\ l[i] = r[i - 1])
  BY <1>3, <1>5
<1>7. ToSet(l) \subseteq {Head(l)} \cup ToSet(r)
  <2>1. \A i \in 1..n - 1 : r[i] \in ToSet(r)
    BY <1>3, Members
  <2>2. \A i \in 1..n : l[i] \in {Head(l)} \cup ToSet(r)
    BY <1>3, <1>6, <2>1
  <2> QED BY <1>2, <2>2, Members
<1>8. {Head(l)} \cup ToSet(r) \subseteq ToSet(l)
  <2>1. \A i \in 1..n : l[i] \in ToSet(l)
    BY <1>2, Members
  <2>2. \A i \in 1..n - 1 : r[i] \in ToSet(l)
    BY <1>3, <1>4, <2>1
  <2>3. ToSet(r) \subseteq ToSet(l)
    BY <1>3, <2>2, Members
  <2> QED BY <1>3, <1>4, <2>1, <2>3
<1>9. ASSUME IsInjective(l) PROVE IsInjective(r) /\ Head(l) \notin ToSet(r)
  <2>1. \A i, j \in 1..n : l[i] = l[j] => i = j
    BY <1>2, <1>9, Injective
  <2>2. \A i, j \in 1..n - 1 : r[i] = r[j] => i + 1 = j + 1
    BY <1>3, <1>4, <2>1
  <2>3. \A i, j \in 1..n - 1 : r[i] = r[j] => i = j
    BY <2>2
  <2>4. \A i \in 1..n - 1 : r[i] = l[1] => i + 1 = 1
    BY <1>3, <1>4, <2>1
  <2>5. Head(l) \notin ToSet(r)
    BY <1>3, <2>4, Members
  <2> QED BY <1>3, <2>3, <2>5, Injective
<1> QED BY <1>1, <1>3, <1>4, <1>7, <1>8, <1>9, Members

\* The list that ends at s.
LEMMA CutIs ==
  ASSUME NEW l \in Seq(Pool), NEW s \in ToSet(l)
  PROVE  \E k \in 1..Len(l), r \in Seq(Pool) :
           /\ r = SubSeq(l, 1, CHOOSE i \in 1..Len(l) : l[i] = s)
           /\ l[k] = s /\ Len(r) = k /\ \A i \in 1..k : i \in 1..Len(l) /\ r[i] = l[i]
<1>1. PICK k : k = CHOOSE i \in 1..Len(l) : l[i] = s
  OBVIOUS
<1>2. k \in 1..Len(l) /\ l[k] = s
  BY <1>1, Members
<1>3. PICK n \in Nat : n = Len(l)
  BY Members
<1>4. PICK r : r = SubSeq(l, 1, k)
  OBVIOUS
<1>5. \A i \in 1..k : l[i] \in Pool
  BY <1>2, <1>3, Members
<1>6. /\ r \in Seq(Pool) /\ Len(r) = k - 1 + 1
      /\ \A i \in 1..k - 1 + 1 : r[i] = l[1 + i - 1]
  BY <1>2, <1>3, <1>4, <1>5, SubSeqProperties
<1>7. Len(r) = k /\ \A i \in 1..k : i \in 1..n /\ r[i] = l[i]
  BY <1>2, <1>3, <1>6
<1> QED BY <1>1, <1>2, <1>3, <1>4, <1>6, <1>7

-----------------------------------------------------------------------------
(***************************************************************************)
(* The two lists.  That no sound is lost is not inductive: Reset cuts the  *)
(* active list, and what it loses is reserved only because new sounds go   *)
(* in front of the reserved ones, and these stay in the order in which     *)
(* Initialize linked them.                                                 *)
(***************************************************************************)

Ordered(a) ==
  \A i, j \in 1..Len(a) : i < j /\ a[i] \in Reserved => a[j] \in Reserved /\ a[j] < a[i]

Listed(f, a) ==
  /\ f \in Seq(Pool) /\ a \in Seq(Pool)
  /\ IsInjective(f) /\ IsInjective(a) /\ ToSet(f) \cap ToSet(a) = {}
  /\ Pool \ Reserved \subseteq ToSet(f) \cup ToSet(a)
  /\ ToSet(f) \cap Reserved = {}
  /\ MaxClients - 1 \in ToSet(a)
  /\ Ordered(a)

LEMMA PoolIs ==
  /\ MaxSounds \in Nat \ {0} /\ MaxClients \in Nat \ {0} /\ MaxClients <= MaxSounds
  /\ Pool = 0..MaxSounds - 1 /\ Reserved = 0..MaxClients - 1
  /\ 0 \in Pool /\ Reserved \subseteq Pool /\ MaxClients - 1 \in Reserved
  /\ Null \notin Pool /\ Empty \notin Pool
<1>1. MaxSounds \in Nat /\ MaxClients \in 1..MaxSounds
  BY SoundsAssumption
<1> QED BY <1>1, SoundsAssumption, PoolAssumption DEF Reserved

LEMMA InitialListed == Listed(InitialFree, InitialActive)
<1>1. PICK f, a : f = InitialFree /\ a = InitialActive
  OBVIOUS
<1>2. PICK n \in Nat : n = MaxSounds - MaxClients
  BY PoolIs
<1>3. a = [i \in 1..MaxClients |-> MaxClients - i] /\ f = [i \in 1..n |-> MaxClients + i - 1]
  BY <1>1, <1>2 DEF InitialActive, InitialFree
<1>4. /\ \A i \in 1..MaxClients : MaxClients - i \in Reserved
      /\ \A s \in Reserved : MaxClients - s \in 1..MaxClients /\ MaxClients - (MaxClients - s) = s
      /\ \A i \in 1..n : MaxClients + i - 1 \in Pool \ Reserved
      /\ \A s \in Pool \ Reserved : s - MaxClients + 1 \in 1..n
                                    /\ MaxClients + (s - MaxClients + 1) - 1 = s
  BY <1>2, PoolIs
<1>5. a \in Seq(Pool) /\ Len(a) = MaxClients
  <2>1. \A i \in 1..MaxClients : MaxClients - i \in Pool
    BY <1>4, PoolIs
  <2> QED BY <1>3, <2>1, PoolIs, IsASeq
<1>6. f \in Seq(Pool) /\ Len(f) = n
  BY <1>2, <1>3, <1>4, IsASeq
<1>7. /\ \A i \in 1..MaxClients : a[i] = MaxClients - i
      /\ \A i \in 1..n : f[i] = MaxClients + i - 1
  BY <1>3
<1>8. IsInjective(a) /\ IsInjective(f)
  <2>1. \A i, j \in 1..MaxClients : a[i] = a[j] => i = j
    BY <1>7, PoolIs
  <2>2. \A i, j \in 1..n : f[i] = f[j] => i = j
    BY <1>7, PoolIs
  <2> QED BY <1>5, <1>6, <2>1, <2>2, Injective
<1>9. ToSet(a) = Reserved
  <2>1. \A s \in ToSet(a) : s \in Reserved
    <3>1. \A s \in ToSet(a) : \E i \in 1..MaxClients : a[i] = s
      BY <1>5, Members
    <3> QED BY <1>4, <1>7, <3>1
  <2>2. \A i \in 1..MaxClients : a[i] \in ToSet(a)
    BY <1>5, Members
  <2>3. \A s \in Reserved : s \in ToSet(a)
    BY <1>4, <1>7, <2>2
  <2> QED BY <2>1, <2>3
<1>10. ToSet(f) = Pool \ Reserved
  <2>1. \A s \in ToSet(f) : s \in Pool \ Reserved
    <3>1. \A s \in ToSet(f) : \E i \in 1..n : f[i] = s
      BY <1>6, Members
    <3> QED BY <1>4, <1>7, <3>1
  <2>2. \A i \in 1..n : f[i] \in ToSet(f)
    BY <1>6, Members
  <2>3. \A s \in Pool \ Reserved : s \in ToSet(f)
    BY <1>4, <1>7, <2>2
  <2> QED BY <2>1, <2>3
<1>11. Ordered(a)
  <2>1. ASSUME NEW i \in 1..MaxClients, NEW j \in 1..MaxClients, i < j
        PROVE  a[j] \in Reserved /\ a[j] < a[i]
    BY <1>4, <1>7, <2>1, PoolIs
  <2> QED BY <1>5, <2>1 DEF Ordered
<1> QED BY <1>1, <1>5, <1>6, <1>8, <1>9, <1>10, <1>11, PoolIs DEF Listed

LEMMA InsertListed ==
  ASSUME NEW f, NEW a, Listed(f, a), f # <<>>
  PROVE  /\ Listed(Tail(f), <<Head(f)>> \o a)
         /\ Head(f) \in Pool \ Reserved /\ Head(f) \notin ToSet(a)
         /\ ToSet(<<Head(f)>> \o a) = {Head(f)} \cup ToSet(a)
<1>1. f \in Seq(Pool) /\ a \in Seq(Pool)
  BY DEF Listed
<1>2. PICK s \in Pool, t \in Seq(Pool) : s = Head(f) /\ t = Tail(f)
  BY <1>1, HeadOff
<1>3. ToSet(f) = {s} \cup ToSet(t) /\ IsInjective(t) /\ s \notin ToSet(t)
  BY <1>1, <1>2, HeadOff DEF Listed
<1>4. s \in Pool \ Reserved /\ s \notin ToSet(a)
  BY <1>2, <1>3 DEF Listed
<1>5. PICK h : h = <<s>>
  OBVIOUS
<1>6. h \in Seq(Pool) /\ Len(h) = 1 /\ h[1] = s
  BY <1>2, <1>5
<1>7. ToSet(h) = {s}
  <2>1. \A x \in ToSet(h) : \E i \in 1..1 : h[i] = x
    BY <1>6, Members
  <2>2. \A i \in 1..1 : h[i] \in ToSet(h)
    BY <1>6, Members
  <2>3. \A x \in ToSet(h) : x = s
    BY <1>6, <2>1
  <2>4. s \in ToSet(h)
    BY <1>6, <2>2
  <2> QED BY <2>3, <2>4
<1>8. IsInjective(h)
  BY <1>6, Injective
<1>9. PICK r \in Seq(Pool) : r = h \o a
  BY <1>1, <1>6, JoinIs
<1>10. ToSet(r) = {s} \cup ToSet(a) /\ IsInjective(r)
  BY <1>1, <1>4, <1>6, <1>7, <1>8, <1>9, JoinIs DEF Listed
<1>11. Ordered(r)
  <2>1. PICK n \in Nat : n = Len(a)
    BY <1>1, Members
  <2>2. /\ Len(h \o a) = Len(h) + Len(a)
        /\ \A i \in 1..Len(h) + Len(a) :
             (h \o a)[i] = IF i <= Len(h) THEN h[i] ELSE a[i - Len(h)]
    BY <1>1, <1>6, ConcatProperties
  <2>3. Len(r) = 1 + n /\ \A i \in 1..1 + n : r[i] = IF i <= 1 THEN h[i] ELSE a[i - 1]
    BY <1>6, <1>9, <2>1, <2>2
  <2>5. \A i \in 1..1 + n : (i = 1 /\ r[i] = s) \/ (i - 1 \in 1..n /\ r[i] = a[i - 1])
    BY <1>6, <2>3
  <2>4. ASSUME NEW i \in 1..1 + n, NEW j \in 1..1 + n, i < j, r[i] \in Reserved
        PROVE  r[j] \in Reserved /\ r[j] < r[i]
    <3>1. i - 1 \in 1..n /\ j - 1 \in 1..n /\ i - 1 < j - 1 /\ r[i] = a[i - 1] /\ r[j] = a[j - 1]
      BY <1>4, <2>4, <2>5
    <3> QED BY <2>1, <2>4, <3>1 DEF Listed, Ordered
  <2> QED BY <2>3, <2>4 DEF Ordered
<1>12. Listed(t, r)
  BY <1>2, <1>3, <1>4, <1>9, <1>10, <1>11 DEF Listed
<1> QED BY <1>2, <1>4, <1>5, <1>9, <1>10, <1>12

LEMMA ThinkListed ==
  ASSUME NEW f, NEW a, Listed(f, a), NEW D, D \subseteq ToSet(a) \ Reserved
  PROVE  Listed(Reverse(Among(a, D)) \o f, Among(a, Pool \ D))
<1>1. f \in Seq(Pool) /\ a \in Seq(Pool) /\ IsInjective(a) /\ ToSet(a) \subseteq Pool
  BY Members DEF Listed
<1>2. PICK k \in Seq(Pool) :
        /\ k = Among(a, Pool \ D) /\ ToSet(k) = ToSet(a) \cap (Pool \ D) /\ IsInjective(k)
        /\ \A i, j \in 1..Len(k) : i < j =>
             \E b, c \in 1..Len(a) : b < c /\ k[i] = a[b] /\ k[j] = a[c]
  BY <1>1, AmongIs, AmongInjective
<1>3. PICK d \in Seq(Pool) : d = Among(a, D) /\ ToSet(d) = ToSet(a) \cap D /\ IsInjective(d)
  BY <1>1, AmongIs, AmongInjective
<1>4. PICK r \in Seq(Pool) : r = Reverse(d) /\ ToSet(r) = ToSet(a) \cap D /\ IsInjective(r)
  BY <1>3, ReverseIs
<1>4a. r \o f \in Seq(Pool) /\ ToSet(r \o f) = ToSet(r) \cup ToSet(f)
  BY <1>1, JoinIs
<1>5. PICK g \in Seq(Pool) : g = r \o f /\ ToSet(g) = (ToSet(a) \cap D) \cup ToSet(f)
  BY <1>4, <1>4a
<1>6. IsInjective(g)
  <2>1. IsInjective(f) /\ ToSet(r) \cap ToSet(f) = {}
    BY <1>4 DEF Listed
  <2> QED BY <1>1, <1>4, <1>5, <2>1, JoinIs
<1>7. ASSUME NEW i \in 1..Len(k), NEW j \in 1..Len(k), i < j, k[i] \in Reserved
      PROVE  k[j] \in Reserved /\ k[j] < k[i]
  <2>1. PICK b \in 1..Len(a), c \in 1..Len(a) : b < c /\ k[i] = a[b] /\ k[j] = a[c]
    BY <1>2, <1>7
  <2> QED BY <1>7, <2>1 DEF Listed, Ordered
<1>8. Ordered(k)
  BY <1>7 DEF Ordered
<1>9. ToSet(g) \cap ToSet(k) = {} /\ ToSet(g) \cap Reserved = {}
  BY <1>2, <1>5 DEF Listed
<1>10. Pool \ Reserved \subseteq ToSet(g) \cup ToSet(k)
  BY <1>1, <1>2, <1>5 DEF Listed
<1>11. MaxClients - 1 \in ToSet(k)
  BY <1>2, PoolIs DEF Listed
<1> QED BY <1>2, <1>3, <1>4, <1>5, <1>6, <1>8, <1>9, <1>10, <1>11 DEF Listed

LEMMA CutListed ==
  ASSUME NEW f, NEW a, Listed(f, a), NEW c \in Reserved, c \in ToSet(a)
  PROVE  LET r == SubSeq(a, 1, CHOOSE i \in 1..Len(a) : a[i] = c)
         IN  Listed(f, r) /\ ToSet(a) \ Reserved \subseteq ToSet(r)
<1>1. f \in Seq(Pool) /\ a \in Seq(Pool)
  BY DEF Listed
<1>2. PICK k \in 1..Len(a), r \in Seq(Pool) :
        /\ r = SubSeq(a, 1, CHOOSE i \in 1..Len(a) : a[i] = c)
        /\ a[k] = c /\ Len(r) = k /\ \A i \in 1..k : i \in 1..Len(a) /\ r[i] = a[i]
  BY <1>1, CutIs
<1>3. PICK n \in Nat : n = Len(a)
  BY <1>1, Members
<1>4. \A i \in 1..n : i > k => a[i] \in Reserved /\ a[i] < c
  BY <1>2, <1>3 DEF Listed, Ordered
<1>5. \A i \in 1..k : a[i] \in ToSet(r)
  BY <1>2, Members
<1>6. \A i \in 1..n : i > k \/ i \in 1..k
  BY <1>2, <1>3
<1>7. ToSet(a) \ Reserved \subseteq ToSet(r)
  <2>1. \A i \in 1..n : a[i] \in Reserved \/ a[i] \in ToSet(r)
    BY <1>4, <1>5, <1>6
  <2> QED BY <1>1, <1>3, <2>1, Members
<1>8. MaxClients - 1 \in ToSet(r)
  <2>1. PICK i \in 1..n : a[i] = MaxClients - 1
    BY <1>1, <1>3, Members DEF Listed
  <2>2. ~(MaxClients - 1 < c)
    BY PoolIs
  <2> QED BY <1>4, <1>5, <1>6, <2>1, <2>2
<1>9. ToSet(r) \subseteq ToSet(a)
  <2>1. \A i \in 1..k : r[i] \in ToSet(a)
    BY <1>1, <1>2, Members
  <2>2. Len(r) = k
    BY <1>2
  <2>3. \A s \in ToSet(r) : \E i \in 1..Len(r) : r[i] = s
    BY Members
  <2> QED BY <2>1, <2>2, <2>3
<1>10. IsInjective(r)
  <2>1. \A i, j \in 1..n : a[i] = a[j] => i = j
    BY <1>1, <1>3, Injective DEF Listed
  <2>2. \A i, j \in 1..k : r[i] = r[j] => i = j
    BY <1>2, <1>3, <2>1
  <2> QED BY <1>2, <2>2, Injective
<1>11. Ordered(r)
  BY <1>2 DEF Listed, Ordered
<1>12. Listed(f, r)
  BY <1>2, <1>7, <1>8, <1>9, <1>10, <1>11 DEF Listed
<1> QED BY <1>2, <1>7, <1>12

-----------------------------------------------------------------------------
(***************************************************************************)
(* What a Listen threads is what PBestSound visits, link by link.           *)
(***************************************************************************)

\* The part of the active list that a monster hears is an order AudibleChain allows.
LEMMA AmongIsOrder ==
  ASSUME NEW l \in Seq(Pool), IsInjective(l), NEW S \in SUBSET ToSet(l)
  PROVE  Among(l, S) \in Orders /\ Heard(Among(l, S)) = S
<1>1. PICK r \in Seq(Pool) : r = Among(l, S) /\ ToSet(r) = ToSet(l) \cap S /\ IsInjective(r)
  BY AmongIs, AmongInjective
<1>2. PICK n \in Nat : n = Len(r)
  BY Members
<1>3. r \in [1..n -> Pool] /\ \A i, j \in 1..n : r[i] = r[j] => i = j
  BY <1>1, <1>2, Members, Injective, LenProperties
<1>4. n <= Cardinality(Pool)
  <2>1. r \in Injection(1..n, Pool)
    BY <1>3 DEF Injection, IsInjective
  <2>2. IsFiniteSet(1..n) /\ Cardinality(1..n) = n
    BY FS_Interval
  <2>3. Cardinality(1..n) <= Cardinality(Pool)
    BY <2>1, <2>2, PoolAssumption, FS_Injection
  <2> QED BY <2>2, <2>3
<1>5. n \in 0..Cardinality(Pool)
  BY <1>4, PoolAssumption, FS_CardinalityType
<1>6. r \in Orders
  BY <1>3, <1>5 DEF Orders
<1>7. Heard(r) = S
  BY <1>1 DEF Heard, ToSet
<1> QED BY <1>1, <1>6, <1>7

LEMMA VisitsHeard ==
  ASSUME ChainTypeOK, NEW m \in Monster, NEW hs \in Orders, ThreadUp(m, hs)
  PROVE  Visited(audible'[m], nextAudible') = Heard(hs)
<1>1. PICK n \in Nat :
        /\ hs \in [1..n -> Pool]
        /\ Cardinality(DOMAIN hs) = n
        /\ \A s \in Heard(hs) : Place(hs, s) \in 1..n /\ hs[Place(hs, s)] = s
        /\ \A i \in 1..n : hs[i] \in Heard(hs) /\ Place(hs, hs[i]) = i
  BY OrderShape
<1>2. PICK a, link : a = audible'[m] /\ link = nextAudible'
  OBVIOUS
<1>3. Heard(hs) \subseteq Pool /\ Empty \notin Pool
  BY <1>1, PoolAssumption
<1>4. a = IF Heard(hs) = {} THEN Empty ELSE hs[n]
  BY <1>1, <1>2 DEF ThreadUp, ChainTypeOK
<1>5. \A i \in 1..n : link[hs[i]] = IF i = 1 THEN Empty ELSE hs[i - 1]
  BY <1>1, <1>2, <1>3 DEF ThreadUp, Thread, ThreadOnto
<1>6. a \in Heard(hs) \cup {Empty}
  <2>1. CASE Heard(hs) = {}
    BY <1>4, <2>1
  <2>2. CASE Heard(hs) # {}
    <3>1. n \in 1..n
      BY <1>1, <2>2
    <3> QED BY <1>1, <1>4, <2>2, <3>1
  <2> QED BY <2>1, <2>2
<1>7. \A t \in Heard(hs) : link[t] \in Heard(hs) \cup {Empty}
  <2> SUFFICES ASSUME NEW t \in Heard(hs), link[t] # Empty PROVE link[t] \in Heard(hs)
    OBVIOUS
  <2>1. PICK i \in 1..n : t = hs[i]
    BY <1>1
  <2>2. i - 1 \in 1..n /\ link[t] = hs[i - 1]
    BY <1>5, <2>1
  <2> QED BY <1>1, <2>2
<1>8. ASSUME NEW s \in Visited(a, link) PROVE s \in Heard(hs)
  BY <1>3, <1>6, <1>7, <1>8 DEF Visited
<1>9. ASSUME NEW S \in SUBSET Pool, a \in S \cup {Empty},
             \A t \in S : link[t] \in S \cup {Empty}
      PROVE  Heard(hs) \subseteq S
  <2> DEFINE Missed == {k \in Nat : k < n /\ hs[n - k] \notin S}
  <2>1. ASSUME Missed # {} PROVE FALSE
    <3>1. Missed \in SUBSET Nat
      OBVIOUS
    <3>2. PICK k \in Missed : \A x \in Missed : k <= x
      BY <2>1, <3>1, LeastIn
    <3>3. k \in Nat /\ n - k \in 1..n /\ hs[n - k] \notin S /\ hs[n - k] \in Pool
      BY <1>1, <3>2
    <3>4. CASE k = 0
      <4>1. hs[n] \in Heard(hs) /\ a = hs[n]
        BY <1>1, <1>4, <3>3, <3>4
      <4> QED BY <1>3, <1>9, <3>3, <3>4, <4>1
    <3>5. CASE k # 0
      <4>1. k - 1 \in Nat /\ k - 1 < n /\ n - (k - 1) = n - k + 1 /\ ~(k <= k - 1)
        BY <3>3, <3>5
      <4>2. hs[n - k + 1] \in S
        BY <3>2, <4>1
      <4>3. n - k + 1 \in 1..n /\ n - k + 1 # 1 /\ n - k + 1 - 1 = n - k
        BY <3>3, <3>5
      <4>4. link[hs[n - k + 1]] = hs[n - k]
        BY <1>5, <4>3
      <4> QED BY <1>3, <1>9, <3>3, <4>2, <4>4
    <3> QED BY <3>4, <3>5
  <2>2. \A i \in 1..n : n - i \in Nat /\ n - i < n /\ n - (n - i) = i
    OBVIOUS
  <2>3. \A i \in 1..n : hs[i] \in S
    BY <2>1, <2>2
  <2> QED BY <1>1, <2>3
<1>10. ASSUME NEW s \in Heard(hs) PROVE s \in Visited(a, link)
  BY <1>3, <1>9, <1>10 DEF Visited
<1> QED BY <1>2, <1>8, <1>10

-----------------------------------------------------------------------------
(***************************************************************************)
(* The invariant of SoundEnt and its steps.                                 *)
(***************************************************************************)

Lists ==
  /\ Listed(free, active)
  /\ never = Reserved
  /\ due \subseteq ToSet(active) \ Reserved

Ears ==
  /\ ChainTypeOK
  /\ kind \in [Pool -> Kind]
  /\ hears \in [Monster -> BOOLEAN]
  /\ reactions \in SUBSET [now : BOOLEAN, heard : BOOLEAN]
  /\ ReactsToHeard

Inv == Lists /\ Ears

LEMMA InsertSoundPreserves ==
  ASSUME Inv, NEW k \in {"sound", "scent"}, InsertSound(k) PROVE Inv'
<1>1. Ears'
  <2>1. kind' \in [Pool -> Kind]
    <3>1. CASE free = <<>>
      BY <3>1 DEF Inv, Ears, InsertSound, world
    <3>2. CASE free # <<>>
      BY <3>2 DEF Inv, Ears, InsertSound, Kind
    <3> QED BY <3>1, <3>2
  <2> QED BY <2>1 DEF Inv, Ears, InsertSound, ears, chain, ChainTypeOK, ReactsToHeard
<1>2. CASE free = <<>>
  BY <1>1, <1>2 DEF Inv, Lists, InsertSound, world
<1>3. CASE free # <<>>
  <2>1. Listed(free, active)
    BY DEF Inv, Lists
  <2>2. /\ Listed(Tail(free), <<Head(free)>> \o active)
        /\ Head(free) \in Pool \ Reserved
        /\ ToSet(<<Head(free)>> \o active) = {Head(free)} \cup ToSet(active)
    BY <1>3, <2>1, InsertListed
  <2>3. /\ free' = Tail(free) /\ active' = <<Head(free)>> \o active
        /\ never' = never \ {Head(free)} /\ due' = due \ {Head(free)}
    BY <1>3 DEF InsertSound
  <2>4. Listed(free', active') /\ ToSet(active) \subseteq ToSet(active')
    BY <2>2, <2>3
  <2> QED BY <1>1, <2>2, <2>3, <2>4 DEF Inv, Lists
<1> QED BY <1>2, <1>3

LEMMA AgePreserves == ASSUME Inv, NEW s \in Pool, Age(s) PROVE Inv'
  BY DEF Inv, Lists, Ears, Age, ears, chain, ChainTypeOK, ReactsToHeard

LEMMA ThinkPreserves == ASSUME Inv, Think PROVE Inv'
<1>1. Listed(Reverse(Among(active, due)) \o free, Among(active, Pool \ due))
  BY ThinkListed DEF Inv, Lists
<1>2. Lists'
  BY <1>1 DEF Inv, Lists, Think
<1>3. Ears'
  BY DEF Inv, Ears, Think, ears, chain, ChainTypeOK, ReactsToHeard
<1> QED BY <1>2, <1>3 DEF Inv

LEMMA UpdatePlayerSoundPreserves ==
  ASSUME Inv, NEW c \in Reserved, UpdatePlayerSound(c) PROVE Inv'
<1>1. kind' \in [Pool -> Kind]
  BY DEF Inv, Ears, UpdatePlayerSound, Kind
<1> QED BY <1>1 DEF Inv, Lists, Ears, UpdatePlayerSound, ears, chain, ChainTypeOK, ReactsToHeard

LEMMA ResetPreserves == ASSUME Inv, NEW c \in Reserved, Reset(c) PROVE Inv'
<1>1. kind' \in [Pool -> Kind]
  BY DEF Inv, Ears, Reset, Kind
<1>2. Ears'
  BY <1>1 DEF Inv, Ears, Reset, ears, chain, ChainTypeOK, ReactsToHeard
<1>3. CASE c \in ToSet(active)
  <2>1. PICK r : r = SubSeq(active, 1, CHOOSE i \in 1..Len(active) : active[i] = c)
    OBVIOUS
  <2>2. Listed(free, r) /\ ToSet(active) \ Reserved \subseteq ToSet(r)
    BY <1>3, <2>1, CutListed DEF Inv, Lists
  <2>3. active' = r
    BY <1>3, <2>1 DEF Reset
  <2>4. Lists'
    BY <2>2, <2>3 DEF Inv, Lists, Reset
  <2> QED BY <1>2, <2>4 DEF Inv
<1>4. CASE c \notin ToSet(active)
  BY <1>2, <1>4 DEF Inv, Lists, Reset
<1> QED BY <1>3, <1>4

\* A monster that listens threads an order of what it hears.
LEMMA ListenThreads ==
  ASSUME Inv, NEW m \in Monster, NEW H \in SUBSET Audible, Listen(m, H)
  PROVE  /\ Among(active, H) \in Orders
         /\ ThreadUp(m, Among(active, H))
         /\ Visited(audible'[m], nextAudible') = H
<1>1. H \subseteq ToSet(active)
  BY DEF Audible
<1>2. Among(active, H) \in Orders /\ Heard(Among(active, H)) = H
  BY <1>1, AmongIsOrder DEF Inv, Lists, Listed
<1>3. ThreadUp(m, Among(active, H))
  BY DEF Listen, Threads
<1> QED BY <1>2, <1>3, VisitsHeard DEF Inv, Ears

\* An answer that is none of the wrong ones.
LEMMA AnswerTyped ==
  ASSUME NEW S, NEW b \in BOOLEAN, \A r \in S : r = [now |-> b, heard |-> b]
  PROVE  /\ S \in SUBSET [now : BOOLEAN, heard : BOOLEAN]
         /\ \A r \in S : r.now => r.heard
<1>1. PICK a : a = [now |-> b, heard |-> b]
  OBVIOUS
<1>2. a \in [now : BOOLEAN, heard : BOOLEAN] /\ a.now = b /\ a.heard = b
  BY <1>1
<1>3. \A r \in S : r = a
  BY <1>1
<1>4. \A r \in S : r \in [now : BOOLEAN, heard : BOOLEAN]
  BY <1>2, <1>3
<1>5. \A r \in S : r.now => r.heard
  BY <1>2, <1>3
<1> QED BY <1>4, <1>5

LEMMA MonsterThinkPreserves == ASSUME Inv, NEW m \in Monster, MonsterThink(m) PROVE Inv'
<1>1. Lists'
  BY DEF Inv, Lists, MonsterThink, world
<1>2. kind' \in [Pool -> Kind]
  BY DEF Inv, Ears, MonsterThink, world
<1>3. CASE UNCHANGED ears /\ reactions' \in {{}, Reaction(FALSE, FALSE)}
  <2>1. \A r \in reactions' : r = [now |-> FALSE, heard |-> FALSE]
    BY <1>3 DEF Reaction
  <2>2. reactions' \in SUBSET [now : BOOLEAN, heard : BOOLEAN] /\ ReactsToHeard'
    BY <2>1, AnswerTyped DEF ReactsToHeard
  <2> QED BY <1>1, <1>2, <1>3, <2>2 DEF Inv, Ears, ears, chain, ChainTypeOK
<1>4. ASSUME NEW H \in SUBSET Audible, Listen(m, H),
             \/ reactions' = {}
             \/ /\ hears'[m]
                /\ \E s \in PBestSound(audible'[m], nextAudible') : reactions' = Reaction(TRUE, s \in H)
      PROVE  Inv'
  <2>1. PICK hs \in Orders : ThreadUp(m, hs) /\ Visited(audible'[m], nextAudible') = H
    BY <1>4, ListenThreads
  <2>2. ChainTypeOK'
    BY <2>1, ListenType DEF Inv, Ears
  <2>3. hears' \in [Monster -> BOOLEAN]
    BY <1>4 DEF Inv, Ears, Listen
  <2>4. \A r \in reactions' : r = [now |-> TRUE, heard |-> TRUE]
    <3> SUFFICES ASSUME reactions' # {} PROVE reactions' = {[now |-> TRUE, heard |-> TRUE]}
      OBVIOUS
    <3>1. PICK s \in PBestSound(audible'[m], nextAudible') : reactions' = Reaction(TRUE, s \in H)
      BY <1>4
    <3>2. \E t \in H : kind[t] = "sound"
      BY <1>4 DEF Listen, Inv, Ears
    <3>3. s \in H
      BY <2>1, <3>1, <3>2 DEF PBestSound
    <3>4. (s \in H) = TRUE
      BY <3>3
    <3> QED BY <3>1, <3>4 DEF Reaction
  <2>5. reactions' \in SUBSET [now : BOOLEAN, heard : BOOLEAN] /\ ReactsToHeard'
    BY <2>4, AnswerTyped DEF ReactsToHeard
  <2> QED BY <1>1, <1>2, <2>2, <2>3, <2>5 DEF Inv, Ears
<1> QED BY <1>3, <1>4 DEF MonsterThink

\* A new world: what Init and Restore have in common.
LEMMA RestorePreserves == ASSUME Inv, Restore PROVE Inv'
<1>1. Lists'
  BY InitialListed DEF Restore, Lists
<1>2. ChainTypeOK'
  BY PoolIs DEF Restore, ChainTypeOK
<1>3. kind' \in [Pool -> Kind]
  BY DEF Restore, Kind
<1>4. hears' \in [Monster -> BOOLEAN]
  BY DEF Restore, Inv, Ears
<1> QED BY <1>1, <1>2, <1>3, <1>4 DEF Restore, Inv, Ears, ReactsToHeard

LEMMA InitInv == ASSUME Init PROVE Inv
<1>1. Lists
  BY InitialListed DEF Init, Lists
<1>2. ChainTypeOK
  BY PoolIs DEF Init, ChainTypeOK
<1> QED BY <1>1, <1>2 DEF Init, Inv, Ears, Kind, ReactsToHeard

LEMMA NextInv == ASSUME Inv, [Next]_vars PROVE Inv'
<1>1. CASE UNCHANGED vars
  BY <1>1 DEF vars, Inv, Lists, Ears, chain, ChainTypeOK, ReactsToHeard
<1>2. CASE Next
  BY <1>2, InsertSoundPreserves, AgePreserves, ThinkPreserves, UpdatePlayerSoundPreserves,
     ResetPreserves, MonsterThinkPreserves, RestorePreserves DEF Next
<1> QED BY <1>1, <1>2

LEMMA InvAlways == Spec => []Inv
  BY InitInv, NextInv, PTL DEF Spec

-----------------------------------------------------------------------------
(* Theorems *)

\* Every field of the sound pool and of the monsters' ears holds what its declaration
\* allows, and only active sounds with an expire time come of age.
THEOREM TypeCorrect == Spec => []TypeOK
<1>1. Inv => TypeOK
  BY PoolIs DEF Inv, Lists, Listed, Ears, ChainTypeOK, TypeOK
<1> QED BY <1>1, InvAlways, PTL

\* InsertSound, Think, Reset and Initialize keep the two lists disjoint and without
\* repetition, and lose no sound but the reserved ones, for a pool of any size.
THEOREM PoolKept == Spec => []OnOneList
<1>1. ASSUME Inv PROVE OnOneList
  <2>1. Listed(free, active)
    BY <1>1 DEF Inv, Lists
  <2>2. free \in Seq(Pool) /\ active \in Seq(Pool)
    BY <2>1 DEF Listed
  <2>3. ToSet(free \o active) = ToSet(free) \cup ToSet(active)
    BY <2>2, JoinIs
  <2>4. IsInjective(free) /\ IsInjective(active) /\ ToSet(free) \cap ToSet(active) = {}
    BY <2>1 DEF Listed
  <2>5. IsInjective(free \o active)
    BY <2>2, <2>4, JoinIs
  <2> QED BY <2>1, <2>3, <2>5 DEF OnOneList, Listed
<1> QED BY <1>1, InvAlways, PTL

\* The sound of the client with the highest index, which Initialize puts in front of the
\* other reserved ones, is never cut off the active list, whichever client's sound is Reset;
\* of those behind it this cannot be said.
THEOREM LastClientHeard == Spec => [](MaxClients - 1 \in ToSet(active) /\ never = Reserved)
<1>1. Inv => MaxClients - 1 \in ToSet(active) /\ never = Reserved
  BY DEF Inv, Lists, Listed
<1> QED BY <1>1, InvAlways, PTL

\* So a lone player, with whose sound the reserved ones end, is always heard.
THEOREM LonePlayerHeard == MaxClients = 1 /\ Spec => []ReservedActive
<1> SUFFICES ASSUME MaxClients = 1 PROVE Spec => []ReservedActive
  OBVIOUS
<1>1. Inv => ReservedActive
  <2>1. Reserved = {MaxClients - 1}
    BY PoolIs
  <2> QED BY <2>1 DEF Inv, Lists, Listed, ReservedActive
<1> QED BY <1>1, InvAlways, PTL

\* A monster that asks for the best sound in a RunAI that listened, because it heard one,
\* gets one of those it heard, whatever the others threaded on the same links before.
THEOREM HeardAnswered == Spec => []ReactsToHeard
<1>1. Inv => ReactsToHeard
  BY DEF Inv, Ears
<1> QED BY <1>1, InvAlways, PTL

\* The links of SoundEnt implement AudibleChain: a Listen is one ThreadUp of an order of
\* sounds, a load forgets the links, and nothing else touches them.
THEOREM ImplementsChain == Spec => ChainSpec
<1>1. Init => ChainInit
  BY PoolIs DEF Init, ChainInit
<1>2. Inv /\ [Next]_vars => [ChainNext]_chain
  <2> SUFFICES ASSUME Inv, [Next]_vars PROVE [ChainNext]_chain
    OBVIOUS
  <2>1. CASE UNCHANGED vars
    BY <2>1 DEF vars, chain
  <2>2. ASSUME NEW m \in Monster, MonsterThink(m) PROVE [ChainNext]_chain
    <3>1. CASE UNCHANGED ears
      BY <3>1 DEF ears, chain
    <3>2. ASSUME NEW H \in SUBSET Audible, Listen(m, H) PROVE ChainNext
      BY <3>2, ListenThreads DEF ChainNext
    <3> QED BY <2>2, <3>1, <3>2 DEF MonsterThink
  <2>3. CASE Restore
    BY <2>3, PoolIs DEF Restore, ChainNext, Forget
  <2>4. ASSUME UNCHANGED ears PROVE [ChainNext]_chain
    BY <2>4 DEF ears, chain
  <2>5. ASSUME NEW k \in {"sound", "scent"}, InsertSound(k) PROVE UNCHANGED ears
    BY <2>5 DEF InsertSound
  <2>6. ASSUME NEW s \in Pool, Age(s) PROVE UNCHANGED ears
    BY <2>6 DEF Age
  <2>7. ASSUME Think PROVE UNCHANGED ears
    BY <2>7 DEF Think
  <2>8. ASSUME NEW c \in Reserved, UpdatePlayerSound(c) \/ Reset(c) PROVE UNCHANGED ears
    BY <2>8 DEF UpdatePlayerSound, Reset
  <2> QED BY <2>1, <2>2, <2>3, <2>4, <2>5, <2>6, <2>7, <2>8 DEF Next
<1> QED BY <1>1, <1>2, InvAlways, PTL DEF Spec, ChainSpec

\* However the monsters' RunAI, new sounds, deaths and loads interleave, no walk of
\* PBestSound over the shared links is endless.
THEOREM EveryWalkEnds == Spec => []ChainsEnd
  BY ImplementsChain, EveryChainEnds, PTL

=============================================================================
