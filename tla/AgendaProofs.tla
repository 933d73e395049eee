---------------------------- MODULE AgendaProofs ----------------------------
(***************************************************************************)
(* Wiring implements Agenda: each run of a multi_manager fires its entries *)
(* once, in the order of their delays and on time, in every map.           *)
(***************************************************************************)
EXTENDS WiringProofs

(***************************************************************************)
(* Entries that are being fired                                            *)
(***************************************************************************)

\* The entry of e at its index is being fired.
Nexts(st, e) == Has(st, "fire", e, "next")

\* Where e is in its list, the one that is being fired counted as past.
Place(st, l, e) == IF Nexts(st, e) THEN l[e] + 1 ELSE l[e]

LEMMA NextsByThen ==
  ASSUME NEW st \in Seq(Frames), Shape(st), NEW e
  PROVE  (\E i \in 1 .. Len(st) : st[i].by = e /\ st[i].then = "next") <=> Nexts(st, e)
<1>1. ASSUME NEW i \in 1 .. Len(st), st[i].by = e, st[i].then = "next"
      PROVE  Nexts(st, e)
  BY <1>1 DEF Shape, Nexts, Has
<1> QED BY <1>1 DEF Nexts, Has

LEMMA PlaceIs ==
  ASSUME Inv, NEW e PROVE Position(e) = Place(stack, left, e)
<1>1. stack \in Seq(Frames) /\ Shape(stack)
  BY DEF Inv, TypeOK
<1>2. FiringNext(e) <=> Nexts(stack, e)
  BY <1>1, NextsByThen DEF FiringNext
<1> QED BY <1>2 DEF Position, Place

LEMMA PlaceIsNext ==
  ASSUME Inv', NEW e PROVE Position(e)' = Place(stack', left', e)
<1>1. PICK st : st = stack'
  OBVIOUS
<1>2. st \in Seq(Frames) /\ Shape(st)
  <2>1. TypeOK' /\ Shape(stack)'
    BY DEF Inv
  <2>2. stack' \in Seq(Frames)
    BY <2>1 DEF TypeOK
  <2>3. Shape(stack')
    BY <2>1 DEF Shape
  <2> QED BY <1>1, <2>2, <2>3
<1>3. FiringNext(e)' <=> Nexts(stack', e)
  <2>1. FiringNext(e)' <=> \E i \in 1 .. Len(st) : st[i].by = e /\ st[i].then = "next"
    BY <1>1 DEF FiringNext
  <2> QED BY <1>1, <1>2, <2>1, NextsByThen
<1> QED BY <1>3 DEF Position, Place

\* The entries that are being fired stay so.
SameNexts == \A e : Nexts(stack', e) <=> Nexts(stack, e)
SameRuns == \A e : Runs(stack', e) <=> Runs(stack, e)
Same == SameNexts /\ SameRuns

Other(f) == f.do # "run" /\ f.then # "next"

LEMMA PushOthers ==
  ASSUME NEW s \in Seq(Frames), NEW st \in Seq(Frames), NEW F, OnTop(st, F, s),
         \A f \in F : Other(f)
  PROVE  \A e : (Nexts(st, e) <=> Nexts(s, e)) /\ (Runs(st, e) <=> Runs(s, e))
<1>1. \A d, e, t : Has(s, d, e, t) => Has(st, d, e, t)
  BY OnTopKeeps
<1>2. \A d, e, t : Has(st, d, e, t) =>
        Has(s, d, e, t) \/ \E f \in F : f.do = d /\ f.by = e /\ f.then = t
  BY OnTopKeeps
<1> QED BY <1>1, <1>2 DEF Nexts, Runs, Other

LEMMA CallOthers ==
  ASSUME NEW r \in Seq(Frames), \A d, e, t : Has(r, d, e, t) <=> Has(stack, d, e, t),
         \/ stack' = r
         \/ \E f \in Frames : Other(f) /\ stack' = <<f>> \o r
  PROVE  Same
<1>1. \A e : (Nexts(r, e) <=> Nexts(stack, e)) /\ (Runs(r, e) <=> Runs(stack, e))
  BY DEF Nexts, Runs
<1>2. CASE stack' = r
  BY <1>1, <1>2 DEF Same, SameNexts, SameRuns
<1>3. ASSUME NEW f \in Frames, Other(f), stack' = <<f>> \o r PROVE Same
  <2>1. PICK F : F = {f}
    OBVIOUS
  <2>2. stack' \in Seq(Frames) /\ OnTop(stack', F, r)
    BY <1>3, <2>1, PushOne
  <2>3. \A g \in F : Other(g)
    BY <1>3, <2>1
  <2>4. \A e : (Nexts(stack', e) <=> Nexts(r, e)) /\ (Runs(stack', e) <=> Runs(r, e))
    BY <2>2, <2>3, PushOthers
  <2> QED BY <1>1, <2>4 DEF Same, SameNexts, SameRuns
<1> QED BY <1>2, <1>3

LEMMA PopOthers ==
  ASSUME Inv, stack # <<>>, Other(Top)
  PROVE  \A e : /\ Nexts(Tail(stack), e) <=> Nexts(stack, e)
                /\ Runs(Tail(stack), e) <=> Runs(stack, e)
<1>1. stack \in Seq(Frames) /\ Top = stack[1]
  BY TopFrame DEF Inv, TypeOK
<1>2. \A d, e, t : Has(Tail(stack), d, e, t) => Has(stack, d, e, t)
  BY <1>1, PopKeeps
<1>3. \A d, e, t : Has(stack, d, e, t) =>
        Has(Tail(stack), d, e, t) \/ (stack[1].do = d /\ stack[1].by = e /\ stack[1].then = t)
  BY <1>1, PopKeeps
<1> QED BY <1>1, <1>2, <1>3 DEF Nexts, Runs, Other

LEMMA IdleNexts == ASSUME Inv, Idle PROVE \A e : ~Nexts(stack, e) /\ ~Runs(stack, e)
<1>1. stack \in Seq(Frames) /\ Len(stack) = 0
  BY DEF Inv, TypeOK, Idle
<1> QED BY <1>1, NoFrames DEF Nexts, Runs

\* What the engine calls is no run and no entry.
LEMMA EngineSame ==
  ASSUME Inv, Idle,
         \/ stack' = stack \/ stack' = <<>>
         \/ \E f \in Frames : Other(f) /\ stack' = <<f>>
  PROVE  Same
<1>1. stack = <<>>
  BY DEF Idle
<1>2. CASE stack' = stack
  BY <1>2 DEF Same, SameNexts, SameRuns
<1>3. ASSUME NEW f \in Frames, Other(f), stack' = <<f>> PROVE Same
  <2>1. Len(stack') = 1 /\ stack'[1] = f
    BY <1>3
  <2>2. \A i \in 1 .. 1 : i = 1
    OBVIOUS
  <2>3. \A e : ~Nexts(stack', e) /\ ~Runs(stack', e)
    BY <1>3, <2>1, <2>2 DEF Nexts, Runs, Has, Other
  <2> QED BY <2>3, IdleNexts DEF Same, SameNexts, SameRuns
<1> QED BY <1>1, <1>2, <1>3

LEMMA ButtonSame ==
  ASSUME Inv, NEW b \in Ents, NEW r \in Seq(Frames), Pushes(b, r),
         \A e : (Nexts(r, e) <=> Nexts(stack, e)) /\ (Runs(r, e) <=> Runs(stack, e))
  PROVE  Same
<1>1. stack' \in Seq(Frames) /\ OnTop(stack', CallsOf(b), r)
  BY DEF Pushes
<1>2. \A f \in CallsOf(b) : Other(f)
  BY DEF CallsOf, Other
<1>3. \A e : (Nexts(stack', e) <=> Nexts(r, e)) /\ (Runs(stack', e) <=> Runs(r, e))
  BY <1>1, <1>2, PushOthers
<1> QED BY <1>3 DEF Same, SameNexts, SameRuns

(***************************************************************************)
(* What a step may do to a run                                             *)
(***************************************************************************)

\* The list is in order.
InOrder(s) == \A i, j \in 1 .. Len(s) : i < j => s[i].delay <= s[j].delay

\* A manager that waits in its list waits for the time of its entry, or has just been started.
OnTimeFor(e) ==
  e \in Running /\ e \notin killed /\ ~Runs(stack, e) =>
    due[e] = 0 \/ (left[e] <= Len(list[e]) /\ due[e] + age[e] = list[e][left[e]].delay)

OnTime == \A e \in Ents : InOrder(list[e]) /\ OnTimeFor(e)

Unmoved(e) ==
  /\ e \in Managers' <=> e \in Managers
  /\ e \in Running' <=> e \in Running
  /\ e \in Running => /\ list'[e] = list[e] /\ age'[e] = age[e]
                      /\ Place(stack', left', e) = Place(stack, left, e)

Begins(r) ==
  /\ r \notin Running /\ r \in Running' /\ r \in Managers'
  /\ age'[r] = 0 /\ Place(stack', left', r) = 1

Proceeds(r) ==
  /\ r \in Running /\ r \in Running' /\ (r \in Managers' <=> r \in Managers)
  /\ Place(stack, left, r) = left[r] /\ left[r] \in 1 .. Len(list[r])
  /\ list[r][left[r]].delay <= age[r]
  /\ list'[r] = list[r] /\ age'[r] = age[r] /\ Place(stack', left', r) = left[r] + 1

Ends(r) ==
  /\ r \in Running /\ r \notin Running' /\ (r \in Managers' <=> r \in Managers)
  /\ Place(stack, left, r) > Len(list[r])

Leaves(r) == r \in Managers /\ r \notin Managers'

Passes ==
  /\ Running' = Running /\ Managers' = Managers
  /\ \A e \in Running :
       /\ list'[e] = list[e] /\ age'[e] = age[e] + 1
       /\ Place(stack', left', e) = Place(stack, left, e)
       /\ Place(stack, left, e) = left[e]
       /\ left[e] <= Len(list[e]) /\ age[e] < list[e][left[e]].delay

Moves ==
  \/ \A e \in Ents : Unmoved(e)
  \/ \E r \in Ents : /\ \A e \in Ents : e # r => Unmoved(e)
                     /\ Begins(r) \/ Proceeds(r) \/ Ends(r) \/ Leaves(r)
  \/ Passes

(***************************************************************************)
(* Such a step is one of Agenda                                            *)
(***************************************************************************)

Open == [e \in Ents |-> IF e \in Running THEN EntriesFrom(e, Position(e)) ELSE {}]
Ages == [e \in Ents |-> IF e \in Running THEN age[e] ELSE 0]

Entry == [at : Nat, delay : Nat]
Rest(s, n) == {[at |-> j, delay |-> s[j].delay] : j \in n .. Len(s)}

LEMMA OpenIs ==
  ASSUME Inv
  PROVE  Open = [e \in Ents |-> IF e \in Running THEN Rest(list[e], Place(stack, left, e))
                                ELSE {}]
BY PlaceIs DEF Open, EntriesFrom, Rest

LEMMA OpenIsNext ==
  ASSUME Inv'
  PROVE  Open' = [e \in Ents |-> IF e \in Running' THEN Rest(list'[e], Place(stack', left', e))
                                 ELSE {}]
<1>1. Open' = [e \in Ents |-> IF e \in Running' THEN EntriesFrom(e, Position(e))' ELSE {}]
  BY DEF Open
<1>2. ASSUME NEW e \in Ents
      PROVE  EntriesFrom(e, Position(e))' = Rest(list'[e], Place(stack', left', e))
  <2>1. Position(e)' = Place(stack', left', e)
    BY PlaceIsNext
  <2>2. EntriesFrom(e, Position(e))' =
          {[at |-> j, delay |-> list'[e][j].delay] : j \in Position(e)' .. Len(list'[e])}
    BY DEF EntriesFrom
  <2> QED BY <2>1, <2>2 DEF Rest
<1> QED BY <1>1, <1>2

LEMMA AgesIsNext == Ages' = [e \in Ents |-> IF e \in Running' THEN age'[e] ELSE 0]
BY DEF Ages

\* For an entity that does not move, so does its agenda.
LEMMA UnmovedIs ==
  ASSUME Inv, Inv', NEW e \in Ents, Unmoved(e)
  PROVE  Open'[e] = Open[e] /\ Ages'[e] = Ages[e]
BY OpenIs, OpenIsNext, AgesIsNext DEF Unmoved, Ages

\* The entry at the index is the first of those that are left.
LEMMA RestFirst ==
  ASSUME NEW s \in Seq(Entries), NEW n \in 1 .. Len(s), InOrder(s)
  PROVE  LET x == [at |-> n, delay |-> s[n].delay] IN
         /\ x \in Rest(s, n) /\ \A y \in Rest(s, n) : x.delay <= y.delay
         /\ Rest(s, n + 1) = Rest(s, n) \ {x}
<1>1. Len(s) \in Nat /\ \A i \in 1 .. Len(s) : s[i].delay \in Nat
  <2>1. \A i \in 1 .. Len(s) : s[i] \in Entries
    BY ElementOfSeq
  <2> QED BY <2>1, LenProperties DEF Entries
<1>2. PICK x : x = [at |-> n, delay |-> s[n].delay]
  OBVIOUS
<1>3. x \in Rest(s, n)
  BY <1>1, <1>2 DEF Rest
<1>4. ASSUME NEW y \in Rest(s, n) PROVE x.delay <= y.delay
  <2>1. PICK j \in n .. Len(s) : y = [at |-> j, delay |-> s[j].delay]
    BY DEF Rest
  <2>2. j \in 1 .. Len(s) /\ (j = n \/ n < j)
    BY <1>1
  <2> QED BY <1>1, <1>2, <2>1, <2>2 DEF InOrder
<1>5. ASSUME NEW y PROVE y \in Rest(s, n + 1) <=> y \in Rest(s, n) /\ y # x
  <2>1. ASSUME NEW j \in n + 1 .. Len(s), y = [at |-> j, delay |-> s[j].delay]
        PROVE  y \in Rest(s, n) /\ y # x
    <3>1. j \in n .. Len(s) /\ y.at = j /\ x.at = n /\ j # n
      BY <1>1, <1>2, <2>1
    <3> QED BY <2>1, <3>1 DEF Rest
  <2>2. ASSUME NEW j \in n .. Len(s), y = [at |-> j, delay |-> s[j].delay], y # x
        PROVE  y \in Rest(s, n + 1)
    <3>1. j \in n + 1 .. Len(s)
      BY <1>1, <1>2, <2>2
    <3> QED BY <2>2, <3>1 DEF Rest
  <2> QED BY <2>1, <2>2 DEF Rest
<1> QED BY <1>2, <1>3, <1>4, <1>5

LEMMA MovesAgenda ==
  ASSUME Inv, Inv', OnTime, Moves
  PROVE  [A!Next]_(A!agenda)
<1>1. /\ Open \in [Ents -> SUBSET Entry] /\ Ages \in [Ents -> Nat]
  <2>1. ASSUME NEW e \in Ents, e \in Running
        PROVE  Rest(list[e], Place(stack, left, e)) \subseteq Entry
    <3>1. list[e] \in Seq(Entries) /\ left[e] \in Nat \ {0}
      <4>1. list[e] \in Seq(Entries) /\ left[e] \in 1 .. Len(list[e]) + 1
        BY <2>1 DEF Inv, TypeOK
      <4> QED BY <4>1, LenProperties
    <3>2. Place(stack, left, e) \in Nat \ {0}
      BY <3>1 DEF Place
    <3>3. ASSUME NEW j \in Place(stack, left, e) .. Len(list[e])
          PROVE  [at |-> j, delay |-> list[e][j].delay] \in Entry
      <4>1. j \in 1 .. Len(list[e])
        BY <3>1, <3>2, LenProperties
      <4>2. list[e][j] \in Entries
        BY <3>1, <4>1, ElementOfSeq
      <4> QED BY <4>1, <4>2 DEF Entries, Entry
    <3> QED BY <3>3 DEF Rest
  <2>2. age \in [Ents -> Nat]
    BY DEF Inv, TypeOK
  <2> QED BY <2>1, <2>2, OpenIs DEF Ages
<1>2. CASE \A e \in Ents : Unmoved(e)
  <2>1. Running' = Running /\ Managers' = Managers
    BY <1>2 DEF Unmoved, Running, Managers
  <2>2. Open' = Open /\ Ages' = Ages
    <3>1. \A e \in Ents : Open'[e] = Open[e] /\ Ages'[e] = Ages[e]
      BY <1>2, UnmovedIs
    <3>2. Open' = [e \in Ents |-> Open'[e]] /\ Ages' = [e \in Ents |-> Ages'[e]]
      BY OpenIsNext, AgesIsNext
    <3> QED BY <1>1, <3>1, <3>2
  <2> QED BY <2>1, <2>2 DEF A!agenda, Open, Ages
<1>3. ASSUME NEW r \in Ents, \A e \in Ents : e # r => Unmoved(e),
             Begins(r) \/ Proceeds(r) \/ Ends(r) \/ Leaves(r)
      PROVE  A!Next
  <2>1. /\ Open' = [Open EXCEPT ![r] = Open'[r]] /\ Ages' = [Ages EXCEPT ![r] = Ages'[r]]
        /\ \A e \in Ents : e # r => (e \in Running' <=> e \in Running)
                                    /\ (e \in Managers' <=> e \in Managers)
        /\ Running \subseteq Managers /\ Running' \subseteq Managers'
        /\ Managers \subseteq Ents /\ Managers' \subseteq Ents
    <3>1. \A e \in Ents : e # r => Open'[e] = Open[e] /\ Ages'[e] = Ages[e]
      BY <1>3, UnmovedIs
    <3>2. Open' = [e \in Ents |-> Open'[e]] /\ Ages' = [e \in Ents |-> Ages'[e]]
      BY OpenIsNext, AgesIsNext
    <3>3. \A e \in Ents : e # r => (e \in Running' <=> e \in Running)
                                   /\ (e \in Managers' <=> e \in Managers)
      BY <1>3 DEF Unmoved
    <3>4. /\ Running \subseteq Managers /\ Running' \subseteq Managers'
          /\ Managers \subseteq Ents /\ Managers' \subseteq Ents
      BY DEF Running, Managers
    <3> QED BY <1>1, <3>1, <3>2, <3>3, <3>4
  <2>2. /\ Open'[r] = IF r \in Running' THEN Rest(list'[r], Place(stack', left', r)) ELSE {}
        /\ Open[r] = IF r \in Running THEN Rest(list[r], Place(stack, left, r)) ELSE {}
        /\ Ages'[r] = IF r \in Running' THEN age'[r] ELSE 0
        /\ Ages[r] = IF r \in Running THEN age[r] ELSE 0
    BY OpenIs, OpenIsNext, AgesIsNext DEF Ages
  <2>3. CASE Begins(r)
    <3>1. list'[r] \in Seq(Entries)
      <4>1. TypeOK'
        BY DEF Inv
      <4>2. list' \in [Ents -> Seq(Entries)]
        BY <4>1 DEF TypeOK
      <4> QED BY <4>2
    <3>2. PICK s \in Seq(Entries) : s = list'[r]
      BY <3>1
    <3>3. ASSUME NEW j \in 1 .. Len(s)
          PROVE  [at |-> j, delay |-> s[j].delay] \in Entry
      <4>1. s[j] \in Entries /\ j \in Nat
        BY ElementOfSeq, LenProperties
      <4> QED BY <4>1 DEF Entries, Entry
    <3>4. Open'[r] \subseteq Entry
      BY <2>2, <2>3, <3>2, <3>3 DEF Rest, Begins
    <3>5. Managers' = Managers \cup {r} /\ Running' = Running \cup {r} /\ Ages'[r] = 0
      BY <2>1, <2>2, <2>3 DEF Begins
    <3>6. A!Start(r)
      BY <2>1, <2>3, <3>4, <3>5 DEF A!Start, Begins, Open, Ages, Entry
    <3> QED BY <3>6 DEF A!Next
  <2>4. CASE Proceeds(r)
    <3>1. list[r] \in Seq(Entries) /\ InOrder(list[r])
      BY DEF Inv, TypeOK, OnTime
    <3>2. PICK x : x = [at |-> left[r], delay |-> list[r][left[r]].delay]
      OBVIOUS
    <3>3. /\ x \in Rest(list[r], left[r])
          /\ \A y \in Rest(list[r], left[r]) : x.delay <= y.delay
          /\ Rest(list[r], left[r] + 1) = Rest(list[r], left[r]) \ {x}
      BY <2>4, <3>1, <3>2, RestFirst DEF Proceeds
    <3>4. /\ Open[r] = Rest(list[r], left[r]) /\ Open'[r] = Open[r] \ {x}
          /\ Ages[r] = age[r] /\ Ages'[r] = Ages[r] /\ x.delay <= Ages[r]
      BY <2>2, <2>4, <3>2, <3>3 DEF Proceeds
    <3>5. Managers' = Managers /\ Running' = Running /\ r \in Running
      <4>1. r \in Running /\ r \in Running' /\ r \in Managers /\ r \in Managers'
        BY <2>1, <2>4 DEF Proceeds
      <4> QED BY <2>1, <4>1
    <3>6. /\ Open' = [Open EXCEPT ![r] = @ \ {x}] /\ Ages' = Ages
          /\ x \in {y \in Open[r] : y.delay <= Ages[r]}
          /\ \A y \in Open[r] : x.delay <= y.delay
      BY <1>1, <2>1, <3>3, <3>4
    <3>7. A!Fire(r, x) /\ x \in Open[r]
      BY <3>5, <3>6 DEF A!Fire, A!Due, Open, Ages
    <3> QED BY <3>7 DEF A!Next, Open
  <2>5. CASE Ends(r)
    <3>1. \A j \in Place(stack, left, r) .. Len(list[r]) : FALSE
      <4>1. /\ list[r] \in Seq(Entries) /\ left[r] \in Int
        BY DEF Inv, TypeOK
      <4>2. Place(stack, left, r) \in Int /\ Len(list[r]) \in Int
        BY <4>1, LenProperties DEF Place
      <4> QED BY <2>5, <4>2 DEF Ends
    <3>2. Open[r] = {} /\ Open'[r] = {} /\ Ages'[r] = 0
      BY <2>2, <2>5, <3>1 DEF Ends, Rest
    <3>3. /\ Open' = Open /\ Ages' = [Ages EXCEPT ![r] = 0]
          /\ Managers' = Managers /\ Running' = Running \ {r} /\ r \in Running
      BY <1>1, <2>1, <2>5, <3>2 DEF Ends
    <3>4. A!Finish(r)
      BY <3>2, <3>3 DEF A!Finish, Open, Ages
    <3> QED BY <3>4 DEF A!Next
  <2>6. CASE Leaves(r)
    <3>1. r \notin Running'
      BY <2>1, <2>6 DEF Leaves
    <3>2. /\ Open' = [Open EXCEPT ![r] = {}] /\ Ages' = [Ages EXCEPT ![r] = 0]
          /\ Managers' = Managers \ {r} /\ Running' = Running \ {r} /\ r \in Managers
      BY <2>1, <2>2, <2>6, <3>1 DEF Leaves
    <3>3. A!Remove(r)
      BY <3>2 DEF A!Remove, Open, Ages
    <3> QED BY <3>3 DEF A!Next
  <2> QED BY <1>3, <2>3, <2>4, <2>5, <2>6
<1>4. CASE Passes
  <2>1. ASSUME NEW r \in Running PROVE {y \in Open[r] : y.delay <= Ages[r]} = {}
    <3>1. list[r] \in Seq(Entries) /\ InOrder(list[r]) /\ age[r] \in Nat /\ r \in Ents
      BY <2>1 DEF Inv, TypeOK, OnTime, Running
    <3>2. /\ left[r] \in 1 .. Len(list[r]) /\ list[r][left[r]].delay \in Nat
      BY <1>4, <2>1, RunningList DEF Passes
    <3>3. \A y \in Rest(list[r], left[r]) : list[r][left[r]].delay <= y.delay
      BY <3>1, <3>2, RestFirst
    <3>4. Open[r] = Rest(list[r], left[r]) /\ Ages[r] = age[r]
      BY <1>4, <2>1, <3>1, OpenIs DEF Passes, Ages
    <3>5. Open[r] \subseteq Entry /\ age[r] < list[r][left[r]].delay
      BY <1>1, <1>4, <2>1, <3>1 DEF Passes
    <3>6. ASSUME NEW y \in Open[r] PROVE ~(y.delay <= Ages[r])
      <4>1. y.delay \in Nat /\ list[r][left[r]].delay <= y.delay
        BY <3>3, <3>4, <3>5 DEF Entry
      <4> QED BY <3>1, <3>2, <3>4, <3>5, <4>1
    <3> QED BY <3>6
  <2>2. Open' = Open
    BY <1>4, OpenIs, OpenIsNext DEF Passes
  <2>3. Ages' = [r \in Ents |-> IF r \in Running THEN Ages[r] + 1 ELSE Ages[r]]
    BY <1>4, AgesIsNext DEF Passes, Ages
  <2>4. Managers' = Managers /\ Running' = Running
    BY <1>4 DEF Passes
  <2>5. A!Pass
    BY <2>1, <2>2, <2>3, <2>4 DEF A!Pass, A!Due, Open, Ages
  <2> QED BY <2>5 DEF A!Next
<1> QED BY <1>2, <1>3, <1>4 DEF Moves

(***************************************************************************)
(* Each action moves the agenda so                                         *)
(***************************************************************************)

\* The step leaves alone what the agenda of e is read from.
QuietFor(e) ==
  \/ kind[e] \notin {"manager", "clone"} /\ kind'[e] \notin {"manager", "clone"}
  \/ /\ kind'[e] = kind[e] /\ mode'[e] = mode[e] /\ due'[e] = due[e]
     /\ list'[e] = list[e] /\ left'[e] = left[e] /\ age'[e] = age[e]

LEMMA QuietUnmoved ==
  ASSUME NEW e \in Ents, QuietFor(e), SameNexts
  PROVE  Unmoved(e)
BY DEF QuietFor, SameNexts, Unmoved, Running, Managers, Place

LEMMA QuietOnTime ==
  ASSUME OnTime, NEW e \in Ents, QuietFor(e), SameRuns, list'[e] = list[e],
         e \in killed => e \in killed'
  PROVE  InOrder(list[e])' /\ OnTimeFor(e)'
<1>1. InOrder(list[e])'
  BY DEF OnTime, InOrder
<1>2. Runs(stack, e)' <=> Runs(stack, e)
  <2>1. Runs(stack, e)' <=> Runs(stack', e)
    BY DEF Runs, Has
  <2> QED BY <2>1 DEF SameRuns
<1> QED BY <1>1, <1>2 DEF OnTime, OnTimeFor, QuietFor, Running

LEMMA QuietStep ==
  ASSUME OnTime, Same, list' = list, killed \subseteq killed', \A e \in Ents : QuietFor(e)
  PROVE  Moves /\ OnTime'
<1>1. \A e \in Ents : Unmoved(e)
  BY QuietUnmoved DEF Same
<1>2. \A e \in Ents : InOrder(list[e])' /\ OnTimeFor(e)'
  BY QuietOnTime DEF Same
<1> QED BY <1>1, <1>2 DEF Moves, OnTime

\* Types that the steps below need.
LEMMA Types ==
  ASSUME Inv
  PROVE  /\ stack \in Seq(Frames) /\ Shape(stack) /\ due \in [Ents -> Nat \cup {Never}]
         /\ left \in [Ents -> Int] /\ age \in [Ents -> Nat] /\ mode \in [Ents -> Modes]
         /\ kind \in [Ents -> Kinds] /\ list \in [Ents -> Seq(Entries)]
BY DEF Inv, TypeOK, Modes

LEMMA NoNext == ASSUME Inv, NEW e, e \notin Running PROVE ~Nexts(stack, e)
BY DEF Inv, FramesFit, Nexts, Fits

\* A button moves, with the frames of r below it.
LEMMA ButtonMoves ==
  ASSUME Inv, OnTime, NEW b \in Ents, kind[b] = "button", NEW r \in Seq(Frames), Pushes(b, r),
         \A e : (Nexts(r, e) <=> Nexts(stack, e)) /\ (Runs(r, e) <=> Runs(stack, e)),
         UNCHANGED <<kind, list, left, age, killed>>
  PROVE  Moves /\ OnTime'
<1>1. Same
  BY ButtonSame
<1>2. ASSUME NEW e \in Ents PROVE QuietFor(e)
  <2>1. CASE e = b
    BY <2>1 DEF QuietFor
  <2>2. CASE e # b
    <3>1. /\ \E x : mode' = [mode EXCEPT ![b] = x]
          /\ \E y : due' = [due EXCEPT ![b] = y]
      BY DEF Pushes
    <3>2. mode'[e] = mode[e] /\ due'[e] = due[e]
      BY <2>2, <3>1, Types
    <3> QED BY <3>2 DEF QuietFor
  <2> QED BY <2>1, <2>2
<1> QED BY <1>1, <1>2, QuietStep

LEMMA UseTargetsMoves == ASSUME Inv, OnTime, UseTargets PROVE Moves /\ OnTime'
<1>1. stack # <<>> /\ Top.do = "use"
  BY Zenon DEF UseTargets
<1>2. PICK e \in Ents : e = Top.by
  BY <1>1, TopFrame
<1>3. Top = stack[1] /\ stack[1] \in Frames
  BY <1>1, TopFrame
<1>4. UNCHANGED <<mode, list, left, age>>
  BY Zenon DEF UseTargets
<1>5. stack[1].then \in {"none", "once", "trigger", "next", "return", "rest", "delayed"}
  BY <1>3 DEF Frames
<1>6. ASSUME NEW g \in Frames, g.by = e, g.do = "fire", g.then = stack[1].then,
             stack' = <<g>> \o Tail(stack)
      PROVE  Same
  <2>1. Other(stack[1]) /\ Other(g)
    <3>1. 1 \in 1 .. Len(stack) /\ stack[1].do = "use"
      BY <1>1, <1>3, TopFrame
    <3>2. stack[1].then # "next"
      BY <3>1, Types DEF Shape
    <3> QED BY <1>6, <3>1, <3>2 DEF Other
  <2>2. PICK r \in Seq(Frames) : r = Tail(stack)
    BY <1>1, Types, PopFrame
  <2>3. PICK F : F = {g}
    OBVIOUS
  <2>4. stack' \in Seq(Frames) /\ OnTop(stack', F, r)
    BY <1>6, <2>2, <2>3, PushOne
  <2>5. \A f \in F : Other(f)
    BY <2>1, <2>3
  <2>6. \A x : (Nexts(stack', x) <=> Nexts(r, x)) /\ (Runs(stack', x) <=> Runs(r, x))
    BY <2>4, <2>5, PushOthers
  <2>7. \A x : (Nexts(r, x) <=> Nexts(stack, x)) /\ (Runs(r, x) <=> Runs(stack, x))
    BY <1>1, <1>3, <2>1, <2>2, PopOthers
  <2> QED BY <2>6, <2>7 DEF Same, SameNexts, SameRuns
<1>7. CASE Delay(e) # 0 /\ (Target(e) # "" \/ Kill(e) # "")
  <2>1. /\ FreeSlots # {} /\ DelayedUse(First(FreeSlots), e) /\ killed' = killed
        /\ stack' = <<Frame("fire", e, stack[1].then)>> \o Tail(stack)
    BY <1>2, <1>3, <1>7, Zenon DEF UseTargets
  <2>2. PICK d \in Ents : d = First(FreeSlots) /\ kind[d] = "free"
    BY <2>1, FreeSlot
  <2>3. kind' = [kind EXCEPT ![d] = "delayed"] /\ due' = [due EXCEPT ![d] = Delay(e)]
    BY <2>1, <2>2 DEF DelayedUse
  <2>4. PICK g \in Frames : g = Frame("fire", e, stack[1].then) /\ g.do = "fire" /\ g.by = e
                            /\ g.then = stack[1].then
    BY <1>5, FrameType
  <2>5. Same
    BY <1>6, <2>1, <2>4
  <2>6. ASSUME NEW x \in Ents PROVE QuietFor(x)
    <3>1. CASE x = d
      <4>1. kind'[x] = "delayed"
        BY <2>3, <3>1, Types
      <4> QED BY <2>2, <3>1, <4>1 DEF QuietFor
    <3>2. CASE x # d
      <4>1. kind'[x] = kind[x] /\ due'[x] = due[x]
        BY <2>3, <3>2, Types
      <4> QED BY <1>4, <4>1 DEF QuietFor
    <3> QED BY <3>1, <3>2
  <2> QED BY <1>4, <2>1, <2>5, <2>6, QuietStep
<1>8. CASE ~(Delay(e) # 0 /\ (Target(e) # "" \/ Kill(e) # ""))
  <2>1. /\ stack' = <<FireFrame(e, Target(e), stack[1].then)>> \o Tail(stack)
        /\ UNCHANGED <<kind, due>> /\ killed \subseteq killed'
    BY <1>2, <1>3, <1>8, Zenon DEF UseTargets
  <2>2. Target(e) \in Names
    BY LevelType DEF Inv
  <2>3. PICK g \in Frames : g = FireFrame(e, Target(e), stack[1].then) /\ g.do = "fire"
                            /\ g.by = e /\ g.then = stack[1].then
    BY <1>5, <2>2, FireFrameType
  <2>4. Same
    BY <1>6, <2>1, <2>3
  <2>5. \A x \in Ents : QuietFor(x)
    BY <1>4, <2>1 DEF QuietFor
  <2> QED BY <1>4, <2>1, <2>4, <2>5, QuietStep
<1> QED BY <1>7, <1>8, Zenon

LEMMA FireNextMoves == ASSUME Inv, OnTime, FireNext PROVE Moves /\ OnTime'
<1>1. stack # <<>> /\ Ahead # {}
  BY DEF FireNext
<1>2. PICK t \in Ents : t = First(Ahead)
  BY <1>1, NextAhead
<1>3. PICK below \in Seq(Frames) :
        below = <<[Top EXCEPT !.at = t]>> \o Tail(stack) /\ Alike(below, stack)
  BY <1>1, <1>2, NextAhead
<1>4. TypeOK
  BY DEF Inv
<1>5. killed' = killed
  BY DEF FireNext
<1>6. \A d, e, u : Has(below, d, e, u) <=> Has(stack, d, e, u)
  BY <1>3, Types, AlikeKeeps
<1>7. ASSUME NEW k \in {"once", "trigger", "none"},
             stack' = below \/ stack' = <<Call(t, k)>> \o below,
             UNCHANGED <<kind, list, due, mode, age>>,
             left' = left \/ (kind[t] = "counter" /\ \E n : left' = [left EXCEPT ![t] = n])
      PROVE  Moves /\ OnTime'
  <2>1. PICK f \in Frames : f = Call(t, k) /\ f.do = "use" /\ f.then = k
    BY FrameType DEF Call
  <2>2. Other(f)
    BY <2>1 DEF Other
  <2>3. Same
    BY <1>6, <1>7, <2>1, <2>2, CallOthers
  <2>4. ASSUME NEW x \in Ents PROVE QuietFor(x)
    <3>1. CASE x = t /\ kind[t] = "counter"
      BY <1>7, <3>1 DEF QuietFor
    <3>2. CASE left'[x] = left[x]
      BY <1>7, <3>2 DEF QuietFor
    <3> QED BY <1>7, <3>1, <3>2, Types
  <2> QED BY <1>5, <1>7, <2>3, <2>4, QuietStep
<1>8. CASE stack' = <<Call(t, "once")>> \o below /\ UNCHANGED <<fields, due, mode, left, age>>
  BY <1>7, <1>8 DEF fields
<1>9. CASE kind[t] = "counter" /\ CounterUse(t, below) /\ UNCHANGED <<fields, due, mode, age>>
  <2>1. /\ stack' = below \/ stack' = <<Call(t, "trigger")>> \o below
        /\ \E n : left' = [left EXCEPT ![t] = n]
    BY <1>9 DEF CounterUse
  <2> QED BY <1>7, <1>9, <2>1 DEF fields
<1>10. CASE kind[t] \in {"manager", "clone"} /\ ManagerUse(t, below)
  <2>1. Same
    BY <1>6, <1>10, CallOthers DEF ManagerUse
  <2>2. ASSUME NEW c \in Ents, Started(c), c \notin Running,
               kind'[c] \in {"manager", "clone"}, InOrder(list'[c]),
               \A x \in Ents : x # c => kind'[x] = kind[x] /\ list'[x] = list[x]
        PROVE  Moves /\ OnTime'
    <3>1. /\ mode' = [mode EXCEPT ![c] = "running"] /\ left' = [left EXCEPT ![c] = 1]
          /\ age' = [age EXCEPT ![c] = 0] /\ due' = [due EXCEPT ![c] = 0]
      BY <2>2 DEF Started
    <3>2. ASSUME NEW x \in Ents, x # c PROVE QuietFor(x) /\ list'[x] = list[x]
      BY <2>2, <3>1, <3>2, Types DEF QuietFor
    <3>3. \A x \in Ents : x # c => Unmoved(x)
      BY <2>1, <3>2, QuietUnmoved DEF Same
    <3>4. mode'[c] = "running" /\ left'[c] = 1 /\ age'[c] = 0 /\ due'[c] = 0
      BY <3>1, Types
    <3>5. ~Nexts(stack', c)
      BY <2>1, <2>2, NoNext DEF Same, SameNexts
    <3>6. Begins(c)
      BY <2>2, <3>4, <3>5 DEF Begins, Running, Managers, Place
    <3>7. ASSUME NEW x \in Ents PROVE InOrder(list[x])' /\ OnTimeFor(x)'
      <4>1. CASE x = c
        BY <2>2, <3>4, <4>1 DEF InOrder, OnTimeFor
      <4>2. CASE x # c
        BY <1>5, <2>1, <3>2, <4>2, QuietOnTime DEF Same
      <4> QED BY <4>1, <4>2
    <3> QED BY <3>3, <3>6, <3>7 DEF Moves, OnTime
  <2>3. CASE kind[t] = "manager" /\ Flag(t, "thread")
    <3>1. FreeSlots # {} /\ Cloned(t, First(FreeSlots))
      BY <2>3, <1>10 DEF ManagerUse
    <3>2. PICK c \in Ents : c = First(FreeSlots) /\ kind[c] = "free"
      BY <3>1, FreeSlot
    <3>3. /\ kind' = [kind EXCEPT ![c] = "clone"] /\ list' = [list EXCEPT ![c] = list[t]]
          /\ Started(c)
      BY <3>1, <3>2 DEF Cloned
    <3>4. c \notin Running
      BY <3>2 DEF Running
    <3>5. list'[c] = list[t] /\ InOrder(list[t]) /\ kind'[c] = "clone"
      BY <3>3, Types DEF OnTime
    <3>6. \A x \in Ents : x # c => kind'[x] = kind[x] /\ list'[x] = list[x]
      BY <3>3, Types
    <3> QED BY <2>2, <3>3, <3>4, <3>5, <3>6
  <2>4. CASE ~(kind[t] = "manager" /\ Flag(t, "thread")) /\ mode[t] = "ready"
    <3>1. UNCHANGED <<kind, list>> /\ Started(t)
      BY <1>10, <2>4 DEF ManagerUse
    <3>2. t \notin Running
      BY <2>4 DEF Running
    <3> QED BY <1>10, <2>2, <3>1, <3>2 DEF OnTime
  <2>5. CASE ~(kind[t] = "manager" /\ Flag(t, "thread")) /\ mode[t] # "ready"
    <3>1. stack' = below /\ UNCHANGED <<kind, list, due, mode, left, age>>
      BY <1>10, <2>5 DEF ManagerUse
    <3> QED BY <1>7, <3>1
  <2> QED BY <2>3, <2>4, <2>5
<1>11. CASE MultisourceUse(t, Top.by, below) /\ UNCHANGED <<fields, due, mode, left, age>>
  <2>1. stack' = below \/ stack' = <<Call(t, "none")>> \o below
    BY <1>1, <1>4, <1>11, TopFrame, MultisourceUseTypes
  <2> QED BY <1>7, <1>11, <2>1 DEF fields
<1>12. CASE kind[t] = "button" /\ ButtonUse(t, below) /\ UNCHANGED <<fields, left, age>>
  <2>1. Pushes(t, below)
    BY <1>4, <1>12, ButtonUsePushes
  <2>2. \A e : (Nexts(below, e) <=> Nexts(stack, e)) /\ (Runs(below, e) <=> Runs(stack, e))
    BY <1>6 DEF Nexts, Runs
  <2> QED BY <1>5, <1>12, <2>1, <2>2, ButtonMoves DEF fields
<1>13. CASE stack' = below /\ UNCHANGED <<fields, due, mode, left, age>>
  BY <1>7, <1>13 DEF fields
<1> QED BY <1>2, <1>3, <1>8, <1>9, <1>10, <1>11, <1>12, <1>13 DEF FireNext

LEMMA ManagerLoopMoves == ASSUME Inv, OnTime, ManagerLoop PROVE Moves /\ OnTime'
<1>1. stack # <<>> /\ Top.do = "run"
  BY DEF ManagerLoop
<1>2. PICK e \in Ents : e = Top.by
  BY <1>1, TopFrame
<1>3. e \in Running /\ Len(stack) = 1
  BY <1>1, <1>2, TopFrame DEF Fits
<1>4. UNCHANGED <<kind, list, left, age>>
  BY DEF ManagerLoop, fields
<1>5. \A x : ~Nexts(stack, x)
  BY <1>1, <1>3, SingleFrame DEF Nexts
<1>6. \A x : x # e => ~Runs(stack, x)
  BY <1>2, <1>3, SingleFrame DEF Runs
<1>7. left[e] \in Int /\ Len(list[e]) \in Nat /\ age[e] \in Nat
  BY Types, LenProperties
<1>8. CASE left[e] <= Len(list[e]) /\ list[e][left[e]].delay <= age[e]
  <2>1. left[e] \in 1 .. Len(list[e]) /\ list[e][left[e]].name \in Names
    BY <1>3, <1>8, RunningList
  <2>2. PICK f \in Frames : /\ f = FireFrame(e, list[e][left[e]].name, "next")
                            /\ f.do = "fire" /\ f.by = e /\ f.then = "next"
    BY <2>1, FireFrameType
  <2>3. stack' = <<f>> \o stack /\ UNCHANGED <<mode, due, killed>>
    BY <1>2, <1>8, <2>2 DEF ManagerLoop
  <2>4. PICK F : F = {f}
    OBVIOUS
  <2>5. stack' \in Seq(Frames) /\ OnTop(stack', F, stack)
    BY <2>3, <2>4, Types, PushOne
  <2>6. \A d, x, t : Has(stack', d, x, t) =>
          Has(stack, d, x, t) \/ (d = "fire" /\ x = e /\ t = "next")
    <3>1. \A g \in F : g.do = "fire" /\ g.by = e /\ g.then = "next"
      BY <2>2, <2>4
    <3>2. \A d, x, t : Has(stack', d, x, t) =>
            Has(stack, d, x, t) \/ \E g \in F : g.do = d /\ g.by = x /\ g.then = t
      BY <2>5, Types, OnTopKeeps
    <3> QED BY <3>1, <3>2
  <2>7. \A d, x, t : Has(stack, d, x, t) => Has(stack', d, x, t)
    BY <2>5, Types, OnTopKeeps
  <2>8. Nexts(stack', e)
    <3>1. PICK st \in Seq(Frames) : st = stack'
      BY <2>5
    <3>2. Len(st) = 1 + Len(stack) /\ st[1] = f
      BY <2>2, <2>3, <3>1, Types, ConcatProperties
    <3>3. 1 \in 1 .. Len(st)
      BY <1>3, <3>2
    <3> QED BY <2>2, <3>1, <3>2, <3>3 DEF Nexts, Has
  <2>9. SameRuns
    BY <2>6, <2>7 DEF SameRuns, Runs
  <2>10. ASSUME NEW x \in Ents, x # e PROVE Unmoved(x)
    <3>1. ~Nexts(stack', x)
      BY <1>5, <2>6, <2>10 DEF Nexts
    <3>2. Place(stack', left', x) = Place(stack, left, x)
      BY <1>4, <1>5, <3>1 DEF Place
    <3> QED BY <1>4, <2>3, <3>2 DEF Unmoved, Running, Managers
  <2>11. Proceeds(e)
    <3>1. Place(stack, left, e) = left[e] /\ Place(stack', left', e) = left[e] + 1
      BY <1>4, <1>5, <2>8 DEF Place
    <3> QED BY <1>3, <1>4, <1>8, <2>1, <2>3, <3>1 DEF Proceeds, Running, Managers
  <2>12. \A x \in Ents : QuietFor(x)
    BY <1>4, <2>3 DEF QuietFor
  <2>13. \A x \in Ents : InOrder(list[x])' /\ OnTimeFor(x)'
    BY <1>4, <2>3, <2>9, <2>12, QuietOnTime
  <2> QED BY <2>10, <2>11, <2>13 DEF Moves, OnTime
<1>9. CASE ~(left[e] <= Len(list[e]) /\ list[e][left[e]].delay <= age[e])
  <2>1. stack' = Tail(stack)
    BY <1>2, <1>9 DEF ManagerLoop
  <2>2. \A d, x, t : ~Has(stack', d, x, t)
    <3>1. PICK r \in Seq(Frames) : r = stack' /\ Len(r) = 0
      BY <1>1, <1>3, <2>1, Types, PopFrame
    <3> QED BY <3>1, NoFrames
  <2>3. SameNexts /\ \A x : ~Runs(stack', x)
    BY <1>5, <2>2 DEF SameNexts, Nexts, Runs
  <2>4. \/ kind[e] = "clone" /\ killed' = killed \cup {e} /\ UNCHANGED <<mode, due>>
        \/ /\ left[e] > Len(list[e]) /\ mode' = [mode EXCEPT ![e] = "ready"]
           /\ UNCHANGED <<due, killed>>
        \/ /\ due' = [due EXCEPT ![e] = Remaining(e)] /\ UNCHANGED <<mode, killed>>
           /\ left[e] <= Len(list[e]) /\ Remaining(e) + age[e] = list[e][left[e]].delay
    <3>1. CASE left[e] > Len(list[e])
      BY <1>2, <1>9, <3>1 DEF ManagerLoop
    <3>2. CASE ~(left[e] > Len(list[e]))
      <4>1. left[e] <= Len(list[e])
        BY <1>7, <3>2
      <4>2. list[e][left[e]].delay \in Nat
        BY <1>3, <4>1, RunningList
      <4>3. Remaining(e) + age[e] = list[e][left[e]].delay
        BY <1>7, <4>2 DEF Remaining
      <4>4. due' = [due EXCEPT ![e] = Remaining(e)] /\ UNCHANGED <<mode, killed>>
        BY <1>2, <1>9, <3>2 DEF ManagerLoop
      <4> QED BY <4>1, <4>3, <4>4
    <3> QED BY <3>1, <3>2
  <2>5. ASSUME NEW x \in Ents, x # e PROVE Unmoved(x) /\ InOrder(list[x])' /\ OnTimeFor(x)'
    <3>1. mode'[x] = mode[x] /\ due'[x] = due[x] /\ (x \in killed => x \in killed')
      BY <2>4, <2>5, Types
    <3>2. QuietFor(x)
      BY <1>4, <3>1 DEF QuietFor
    <3>3. InOrder(list[x])'
      BY <1>4 DEF OnTime, InOrder
    <3>4. OnTimeFor(x)
      BY DEF OnTime
    <3>5. OnTimeFor(x)'
      BY <1>4, <1>6, <2>5, <3>1, <3>4 DEF OnTimeFor, Running
    <3> QED BY <2>3, <3>2, <3>3, <3>5, QuietUnmoved
  <2>6. InOrder(list[e])'
    BY <1>4 DEF OnTime, InOrder
  <2>7. CASE kind[e] = "clone" /\ killed' = killed \cup {e} /\ UNCHANGED <<mode, due>>
    <3>1. Unmoved(e)
      BY <1>4, <2>3, <2>7, QuietUnmoved DEF QuietFor
    <3>2. OnTimeFor(e)'
      BY <2>7 DEF OnTimeFor
    <3> QED BY <2>5, <2>6, <3>1, <3>2 DEF Moves, OnTime
  <2>8. CASE left[e] > Len(list[e]) /\ mode' = [mode EXCEPT ![e] = "ready"]
    <3>1. mode'[e] = "ready"
      BY <2>8, Types
    <3>2. e \notin Running' /\ (e \in Managers' <=> e \in Managers)
      BY <1>4, <3>1 DEF Running, Managers
    <3>3. Place(stack, left, e) = left[e]
      BY <1>5 DEF Place
    <3>4. Ends(e)
      BY <1>3, <2>8, <3>2, <3>3 DEF Ends
    <3>5. OnTimeFor(e)'
      BY <3>2 DEF OnTimeFor
    <3> QED BY <2>5, <2>6, <3>4, <3>5 DEF Moves, OnTime
  <2>9. CASE /\ due' = [due EXCEPT ![e] = Remaining(e)] /\ mode' = mode
             /\ left[e] <= Len(list[e]) /\ Remaining(e) + age[e] = list[e][left[e]].delay
    <3>1. Unmoved(e)
      BY <1>4, <2>3, <2>9 DEF Unmoved, SameNexts, Place, Running, Managers
    <3>2. due'[e] = Remaining(e)
      BY <2>9, Types
    <3>3. OnTimeFor(e)'
      BY <1>4, <2>9, <3>2 DEF OnTimeFor
    <3> QED BY <2>5, <2>6, <3>1, <3>3 DEF Moves, OnTime
  <2> QED BY <2>4, <2>7, <2>8, <2>9
<1> QED BY <1>8, <1>9

LEMMA FireDoneMoves == ASSUME Inv, OnTime, FireDone PROVE Moves /\ OnTime'
<1>1. stack # <<>> /\ Top.do = "fire"
  BY DEF FireDone
<1>2. PICK e \in Ents : e = Top.by
  BY <1>1, TopFrame
<1>3. Fits("fire", e, Top.then) /\ TypeOK
  BY <1>1, <1>2, TopFrame DEF Inv
<1>4. PICK below \in Seq(Frames) : below = Tail(stack)
  BY <1>1, Types, PopFrame
<1>5. UNCHANGED <<list, age>>
  BY DEF FireDone
<1>6. ASSUME Top.then # "next"
      PROVE  \A x : (Nexts(below, x) <=> Nexts(stack, x)) /\ (Runs(below, x) <=> Runs(stack, x))
  BY <1>1, <1>4, <1>6, PopOthers DEF Other
<1>7. ASSUME Top.then # "next", stack' = below, \A x \in Ents : QuietFor(x),
             killed \subseteq killed'
      PROVE  Moves /\ OnTime'
  <2>1. Same
    BY <1>6, <1>7 DEF Same, SameNexts, SameRuns
  <2> QED BY <1>5, <1>7, <2>1, QuietStep
<1>8. CASE Top.then \in {"none", "once", "rest"}
  <2>1. stack' = below /\ UNCHANGED <<kind, due, mode, left>> /\ killed \subseteq killed'
    BY <1>2, <1>4, <1>8 DEF FireDone
  <2>2. \A x \in Ents : QuietFor(x)
    BY <1>5, <2>1 DEF QuietFor
  <2> QED BY <1>7, <1>8, <2>1, <2>2
<1>9. CASE Top.then = "trigger"
  <2>1. TriggerFired(e) /\ stack' = below /\ UNCHANGED <<kind, killed, left>>
    BY <1>2, <1>4, <1>9 DEF FireDone
  <2>2. kind[e] \in {"multiple", "counter"}
    BY <1>3, <1>9 DEF Fits, KindsFor
  <2>3. ASSUME NEW x \in Ents PROVE QuietFor(x)
    <3>1. CASE x = e
      BY <2>1, <2>2, <3>1 DEF QuietFor
    <3>2. CASE x # e
      <4>1. mode'[x] = mode[x] /\ due'[x] = due[x]
        BY <2>1, <3>2, Types DEF TriggerFired
      <4> QED BY <1>5, <2>1, <4>1 DEF QuietFor
    <3> QED BY <3>1, <3>2
  <2> QED BY <1>7, <1>9, <2>1, <2>3
<1>10. CASE Top.then = "next"
  <2>1. /\ left' = [left EXCEPT ![e] = left[e] + 1] /\ stack' = below
        /\ UNCHANGED <<kind, killed, due, mode>>
    BY <1>2, <1>4, <1>10 DEF FireDone
  <2>2. /\ e \in Running /\ Len(stack) = 2 /\ stack[2].do = "run" /\ stack[2].by = e
        /\ \A d, x, t : Has(below, d, x, t) => d = "run" /\ t # "next"
    BY <1>1, <1>2, <1>4, <1>10, NextOfRun
  <2>3. left'[e] = left[e] + 1 /\ \A x \in Ents : x # e => left'[x] = left[x]
    BY <2>1, Types
  <2>4. \A x : Nexts(stack, x) <=> x = e
    <3>1. Top = stack[1] /\ Has(stack, stack[1].do, stack[1].by, stack[1].then)
      BY <1>1, Types, TopFrame, PopKeeps
    <3>2. Nexts(stack, e)
      BY <1>1, <1>2, <1>10, <3>1 DEF Nexts
    <3>3. ASSUME NEW x, Nexts(stack, x) PROVE x = e
      <4>1. Has(below, "fire", x, "next") \/ x = Top.by
        BY <1>1, <1>4, <3>1, <3>3, Types, PopKeeps DEF Nexts
      <4> QED BY <1>2, <2>2, <4>1
    <3> QED BY <3>2, <3>3
  <2>5. \A x : ~Nexts(stack', x)
    BY <2>1, <2>2 DEF Nexts
  <2>6. \A x \in Ents : Place(stack', left', x) = Place(stack, left, x)
    BY <2>3, <2>4, <2>5 DEF Place
  <2>7. \A x \in Ents : Unmoved(x)
    BY <1>5, <2>1, <2>6 DEF Unmoved, Running, Managers
  <2>8. Runs(stack', e)
    <3>1. Len(below) = 1 /\ below[1] = stack[2]
      <4>1. Len(below) = Len(stack) - 1 /\ \A i \in 1 .. Len(stack) - 1 : below[i] = stack[i + 1]
        BY <1>1, <1>4, Types, PopFrame
      <4>2. Len(stack) - 1 = 1 /\ 1 \in 1 .. 1 /\ 1 + 1 = 2
        BY <2>2
      <4> QED BY <4>1, <4>2
    <3>2. PICK t : t = below[1].then
      OBVIOUS
    <3>3. Has(below, "run", e, t)
      <4>1. 1 \in 1 .. Len(below)
        BY <3>1
      <4> QED BY <2>2, <3>1, <3>2, <4>1 DEF Has
    <3>4. t \in {"none", "once", "trigger", "next", "return", "rest", "delayed"}
      BY <3>3, HasFrame
    <3>5. t # "next" /\ Fits("run", e, t)
      <4>1. Has(stack, "run", e, t)
        BY <1>1, <1>4, <3>3, Types, PopKeeps
      <4> QED BY <2>2, <3>3, <4>1 DEF Inv, FramesFit
    <3>6. kind[e] \in {"manager", "clone"}
      BY <2>2 DEF Running
    <3>7. t = "none"
      BY <3>4, <3>5, <3>6 DEF Fits, KindsFor
    <3> QED BY <2>1, <3>3, <3>7 DEF Runs
  <2>9. ASSUME NEW x \in Ents PROVE InOrder(list[x])' /\ OnTimeFor(x)'
    <3>1. InOrder(list[x])'
      BY <1>5 DEF OnTime, InOrder
    <3>2. Runs(stack, x)' <=> Runs(stack', x)
      BY DEF Runs, Has
    <3>3. CASE x = e
      BY <2>8, <3>1, <3>2, <3>3 DEF OnTimeFor
    <3>4. CASE x # e
      <4>1. Runs(stack', x) <=> Runs(stack, x)
        <5>1. \A d, t : Has(below, d, x, t) => Has(stack, d, x, t)
          BY <1>1, <1>4, Types, PopKeeps
        <5>2. \A d, t : Has(stack, d, x, t) => Has(below, d, x, t) \/ x = Top.by
          BY <1>1, <1>4, Types, PopKeeps, TopFrame
        <5> QED BY <1>2, <2>1, <3>4, <5>1, <5>2 DEF Runs
      <4>2. OnTimeFor(x)
        BY DEF OnTime
      <4>3. left'[x] = left[x]
        BY <2>3, <3>4
      <4> QED BY <1>5, <2>1, <3>1, <3>2, <4>1, <4>2, <4>3 DEF OnTimeFor, Running
    <3> QED BY <3>3, <3>4
  <2> QED BY <2>7, <2>9 DEF Moves, OnTime
<1>11. CASE Top.then = "return"
  <2>1. ButtonReturn(e, below, touch) /\ UNCHANGED <<kind, killed, left>>
    BY <1>2, <1>4, <1>11 DEF FireDone
  <2>2. kind[e] = "button"
    BY <1>3, <1>11 DEF Fits, KindsFor
  <2>3. Pushes(e, below)
    BY <1>3, <2>1, ButtonReturnPushes DEF TypeOK
  <2> QED BY <1>5, <1>6, <1>11, <2>1, <2>2, <2>3, ButtonMoves
<1>12. CASE Top.then = "delayed"
  <2>1. kind' = [kind EXCEPT ![e] = "free"] /\ stack' = below
        /\ UNCHANGED <<killed, due, mode, left>>
    BY <1>2, <1>4, <1>12 DEF FireDone
  <2>2. kind[e] = "delayed"
    BY <1>3, <1>12 DEF Fits, KindsFor
  <2>3. ASSUME NEW x \in Ents PROVE QuietFor(x)
    <3>1. CASE x = e
      <4>1. kind'[x] = "free"
        BY <2>1, <3>1, Types
      <4> QED BY <2>2, <3>1, <4>1 DEF QuietFor
    <3>2. CASE x # e
      <4>1. kind'[x] = kind[x]
        BY <2>1, <3>2, Types
      <4> QED BY <1>5, <2>1, <4>1 DEF QuietFor
    <3> QED BY <3>1, <3>2
  <2> QED BY <1>7, <1>12, <2>1, <2>3
<1> QED
  <2>1. Top.then \in {"none", "once", "trigger", "next", "return", "rest", "delayed"}
    BY <1>1, TopFrame DEF Frames
  <2> QED BY <1>8, <1>9, <1>10, <1>11, <1>12, <2>1

\* A button is moved by the engine.
LEMMA IdleButtonMoves ==
  ASSUME Inv, OnTime, Idle, NEW b \in Ents, kind[b] = "button", Pushes(b, <<>>),
         UNCHANGED <<fields, left, age, killed>>
  PROVE  Moves /\ OnTime'
<1>1. PICK r : r = <<>>
  OBVIOUS
<1>2. r \in Seq(Frames) /\ Len(r) = 0
  BY <1>1
<1>3. \A d, e, t : ~Has(r, d, e, t)
  BY <1>2, NoFrames
<1>4. \A e : (Nexts(r, e) <=> Nexts(stack, e)) /\ (Runs(r, e) <=> Runs(stack, e))
  BY <1>3, IdleNexts DEF Nexts, Runs
<1> QED BY <1>1, <1>2, <1>4, ButtonMoves DEF fields

LEMMA PlayerMoves == ASSUME Inv, OnTime, NEW e \in Ents, Player(e) PROVE Moves /\ OnTime'
<1>1. TypeOK /\ touch \ {e} \in SUBSET Ents /\ <<>> \in Seq(Frames)
  BY DEF Inv, TypeOK
<1>2. ASSUME NEW k \in {"trigger", "return"}, Idle, stack' = <<Call(e, k)>>,
             UNCHANGED <<fields, due, mode, left, age, killed>>
      PROVE  Moves /\ OnTime'
  <2>1. PICK f \in Frames : f = Call(e, k) /\ f.do = "use" /\ f.then = k
    BY FrameType DEF Call
  <2>2. Same
    BY <1>2, <2>1, EngineSame DEF Other
  <2>3. \A x \in Ents : QuietFor(x)
    BY <1>2 DEF QuietFor, fields
  <2> QED BY <1>2, <2>2, <2>3, QuietStep DEF fields
<1>3. CASE MultiTouch(e)
  BY <1>2, <1>3 DEF MultiTouch
<1>4. CASE ButtonTouch(e)
  <2>1. /\ Idle /\ kind[e] = "button" /\ UNCHANGED <<fields, left, age, killed>>
        /\ \/ ButtonActivate(e, <<>>, touch \ {e})
           \/ stack' = <<Call(e, "return")>> /\ UNCHANGED <<mode, due>>
    BY <1>4 DEF ButtonTouch
  <2>2. CASE ButtonActivate(e, <<>>, touch \ {e})
    BY <1>1, <2>1, <2>2, ButtonActivatePushes, IdleButtonMoves
  <2>3. CASE stack' = <<Call(e, "return")>> /\ UNCHANGED <<mode, due>>
    BY <1>2, <2>1, <2>3
  <2> QED BY <2>1, <2>2, <2>3
<1>5. CASE PlayerUse(e)
  BY <1>1, <1>5, ButtonUsePushes, IdleButtonMoves DEF PlayerUse
<1>6. CASE ButtonShot(e)
  BY <1>1, <1>6, ButtonActivatePushes, ButtonReturnPushes, IdleButtonMoves DEF ButtonShot
<1> QED BY <1>3, <1>4, <1>5, <1>6 DEF Player

LEMMA ThinkMoves == ASSUME Inv, OnTime, NEW e \in Ents, Think(e) PROVE Moves /\ OnTime'
<1>1. TypeOK /\ touch \in SUBSET Ents /\ <<>> \in Seq(Frames)
  BY DEF Inv, TypeOK
<1>2. ASSUME due' = [due EXCEPT ![e] = Never], Same, kind[e] \notin {"manager", "clone"},
             kind' = kind \/ kind' = [kind EXCEPT ![e] = "free"],
             mode' = mode \/ mode' = [mode EXCEPT ![e] = "set"],
             UNCHANGED <<list, left, age, killed>>
      PROVE  Moves /\ OnTime'
  <2>1. ASSUME NEW x \in Ents PROVE QuietFor(x)
    <3>1. CASE x = e
      <4>1. kind'[x] = kind[x] \/ kind'[x] = "free"
        BY <1>2, <3>1, Types
      <4> QED BY <1>2, <3>1, <4>1 DEF QuietFor
    <3>2. CASE x # e
      <4>1. kind'[x] = kind[x] /\ due'[x] = due[x] /\ mode'[x] = mode[x]
        BY <1>2, <3>2, Types
      <4> QED BY <1>2, <4>1 DEF QuietFor
    <3> QED BY <3>1, <3>2
  <2> QED BY <1>2, <2>1, QuietStep
<1>3. CASE TriggerThink(e)
  <2>1. /\ Idle /\ due' = [due EXCEPT ![e] = Never] /\ kind[e] \in {"multiple", "counter"}
        /\ kind' = kind \/ kind' = [kind EXCEPT ![e] = "free"]
        /\ UNCHANGED <<list, left, age, killed, mode, stack>>
    BY <1>3 DEF TriggerThink, ThinkTime
  <2>2. Same
    BY <2>1, EngineSame
  <2> QED BY <1>2, <2>1, <2>2
<1>4. CASE Register(e)
  <2>1. /\ Idle /\ due' = [due EXCEPT ![e] = Never] /\ kind[e] = "multisource"
        /\ Registered(e) /\ UNCHANGED <<kind, list, left, age, killed, stack>>
    BY <1>4 DEF Register, ThinkTime, fields
  <2>2. mode' = [mode EXCEPT ![e] = "set"]
    BY <2>1 DEF Registered
  <2>3. Same
    BY <2>1, EngineSame
  <2> QED BY <1>2, <2>1, <2>2, <2>3
<1>5. CASE ButtonThink(e)
  BY <1>1, <1>5, TriggerAndWaitPushes, ButtonReturnPushes, ButtonBackHomePushes,
     IdleButtonMoves DEF ButtonThink, ThinkTime
<1>6. CASE CallThink(e)
  <2>1. /\ Idle /\ due' = [due EXCEPT ![e] = Never]
        /\ UNCHANGED <<kind, list, mode, left, age, killed>>
    BY <1>6 DEF CallThink, ThinkTime, fields
  <2>2. ASSUME NEW k \in {"once", "delayed"}, kind[e] \in {"auto", "delayed"},
               stack' = <<Call(e, k)>> \/ stack' = <<>>
        PROVE  Moves /\ OnTime'
    <3>1. PICK f \in Frames : f = Call(e, k) /\ f.do = "use" /\ f.then = k
      BY FrameType DEF Call
    <3>2. Same
      BY <2>1, <2>2, <3>1, EngineSame DEF Other
    <3> QED BY <1>2, <2>1, <2>2, <3>2
  <2>3. CASE kind[e] \in {"manager", "clone"} /\ stack' = <<Frame("run", e, "none")>>
    <3>1. PICK f \in Frames :
            f = Frame("run", e, "none") /\ f.do = "run" /\ f.by = e /\ f.then = "none"
      BY FrameType
    <3>2. Len(stack') = 1 /\ stack'[1] = f
      BY <2>3, <3>1
    <3>3. \A i \in 1 .. 1 : i = 1
      OBVIOUS
    <3>4. /\ \A x : ~Nexts(stack', x) /\ (x # e => ~Runs(stack', x))
          /\ Runs(stack', e)
      BY <3>1, <3>2, <3>3 DEF Nexts, Runs, Has
    <3>5. \A x : ~Nexts(stack, x) /\ ~Runs(stack, x)
      BY <2>1, IdleNexts
    <3>6. \A x \in Ents : Unmoved(x)
      BY <2>1, <3>4, <3>5 DEF Unmoved, Place, Running, Managers
    <3>7. ASSUME NEW x \in Ents PROVE InOrder(list[x])' /\ OnTimeFor(x)'
      <4>1. InOrder(list[x])'
        BY <2>1 DEF OnTime, InOrder
      <4>2. Runs(stack, x)' <=> Runs(stack', x)
        BY DEF Runs, Has
      <4>3. CASE x = e
        BY <3>4, <4>1, <4>2, <4>3 DEF OnTimeFor
      <4>4. CASE x # e
        <5>1. due'[x] = due[x] /\ OnTimeFor(x)
          BY <2>1, <4>4, Types DEF OnTime
        <5> QED BY <2>1, <3>5, <4>1, <5>1 DEF OnTimeFor, Running
      <4> QED BY <4>3, <4>4
    <3> QED BY <3>6, <3>7 DEF Moves, OnTime
  <2> QED BY <1>6, <2>2, <2>3 DEF CallThink
<1> QED BY <1>3, <1>4, <1>5, <1>6 DEF Think

LEMMA ReapMoves == ASSUME Inv, OnTime, NEW e \in Ents, Reap(e) PROVE Moves /\ OnTime'
<1>1. /\ kind' = [kind EXCEPT ![e] = "free"] /\ killed' = killed \ {e} /\ Idle
      /\ UNCHANGED <<list, due, mode, left, age, stack>>
  BY DEF Reap
<1>2. Same
  BY <1>1, EngineSame
<1>3. kind'[e] = "free"
  BY <1>1, Types
<1>4. ASSUME NEW x \in Ents, x # e PROVE Unmoved(x) /\ InOrder(list[x])' /\ OnTimeFor(x)'
  <2>1. kind'[x] = kind[x]
    BY <1>1, <1>4, Types
  <2>2. QuietFor(x)
    BY <1>1, <2>1 DEF QuietFor
  <2>3. Unmoved(x)
    BY <1>2, <2>2, QuietUnmoved DEF Same
  <2>4. InOrder(list[x])' /\ OnTimeFor(x)'
    BY <1>1, <1>2, <1>4, <2>2, QuietOnTime DEF Same
  <2> QED BY <2>3, <2>4
<1>5. InOrder(list[e])' /\ OnTimeFor(e)'
  BY <1>1, <1>3 DEF OnTime, InOrder, OnTimeFor, Running
<1>6. OnTime'
  BY <1>4, <1>5 DEF OnTime
<1>7. CASE e \in Managers
  <2>1. Leaves(e)
    BY <1>3, <1>7 DEF Leaves, Managers
  <2> QED BY <1>4, <1>6, <2>1 DEF Moves
<1>8. CASE e \notin Managers
  <2>1. QuietFor(e)
    BY <1>3, <1>8 DEF QuietFor, Managers
  <2>2. Unmoved(e)
    BY <1>2, <2>1, QuietUnmoved DEF Same
  <2> QED BY <1>4, <1>6, <2>2 DEF Moves
<1> QED BY <1>7, <1>8

LEMMA TickMoves == ASSUME Inv, Timely, OnTime, Tick PROVE Moves /\ OnTime'
<1>1. /\ Idle /\ killed = {} /\ \A e \in Ents : Live(e) => due[e] # 0
      /\ due' = [e \in Ents |-> IF due[e] > 0 THEN due[e] - 1 ELSE due[e]]
      /\ age' = [e \in Ents |-> IF e \in Running THEN age[e] + 1 ELSE age[e]]
      /\ UNCHANGED <<kind, list, mode, left, stack, killed>>
  BY DEF Tick, fields
<1>2. SameNexts /\ \A x : ~Nexts(stack, x) /\ ~Runs(stack, x)
  BY <1>1, EngineSame, IdleNexts DEF Same
<1>3. Running' = Running /\ Managers' = Managers
  BY <1>1 DEF Running, Managers
<1>4. ASSUME NEW e \in Running
      PROVE  /\ due[e] \in Nat \ {0} /\ age[e] \in Nat /\ left[e] <= Len(list[e])
             /\ list[e][left[e]].delay \in Nat
             /\ due[e] + age[e] = list[e][left[e]].delay
  <2>1. e \in Ents /\ Live(e) /\ e \notin killed
    BY <1>1 DEF Running, Live
  <2>2. due[e] \in Nat \ {0}
    <3>1. due[e] # 0
      BY <1>1, <2>1
    <3>2. due[e] # Never
      BY <1>2, <2>1 DEF Timely, TimelyFor
    <3> QED BY <2>1, <3>1, <3>2, Types
  <2>3. left[e] <= Len(list[e]) /\ due[e] + age[e] = list[e][left[e]].delay
    BY <1>2, <2>1, <2>2 DEF OnTime, OnTimeFor
  <2>4. list[e][left[e]].delay \in Nat
    BY <2>3, RunningList
  <2> QED BY <2>1, <2>2, <2>3, <2>4, Types
<1>5. ASSUME NEW e \in Running
      PROVE  /\ due'[e] + age'[e] = list[e][left[e]].delay /\ age'[e] = age[e] + 1
             /\ age[e] < list[e][left[e]].delay
  <2>1. e \in Ents
    BY DEF Running
  <2>2. due'[e] = due[e] - 1 /\ age'[e] = age[e] + 1
    BY <1>1, <1>4, <2>1
  <2>3. PICK d \in Nat \ {0}, a \in Nat, t \in Nat :
          d = due[e] /\ a = age[e] /\ t = list[e][left[e]].delay /\ d + a = t
    BY <1>4
  <2>4. (d - 1) + (a + 1) = t /\ a < t
    BY <2>3
  <2> QED BY <2>2, <2>3, <2>4
<1>6. Passes
  BY <1>1, <1>2, <1>3, <1>4, <1>5 DEF Passes, Place, SameNexts
<1>7. ASSUME NEW e \in Ents PROVE InOrder(list[e])' /\ OnTimeFor(e)'
  BY <1>1, <1>3, <1>4, <1>5 DEF OnTime, InOrder, OnTimeFor
<1> QED BY <1>6, <1>7 DEF Moves, OnTime

LEMMA LoadMoves == ASSUME Inv, OnTime, Load \/ UNCHANGED vars PROVE Moves /\ OnTime'
<1>1. /\ UNCHANGED <<kind, list, mode, left, age, killed, stack>>
      /\ \A e \in Ents : kind[e] # "auto" => due'[e] = due[e]
  BY DEF Load, fields, vars
<1>2. Same
  BY <1>1 DEF Same, SameNexts, SameRuns
<1>3. \A e \in Ents : QuietFor(e)
  BY <1>1 DEF QuietFor
<1> QED BY <1>1, <1>2, <1>3, QuietStep

LEMMA StepMoves == ASSUME Inv, Timely, OnTime, [Next]_vars PROVE Moves /\ OnTime'
BY ManagerLoopMoves, UseTargetsMoves, FireNextMoves, FireDoneMoves, PlayerMoves, ThinkMoves,
   ReapMoves, TickMoves, LoadMoves DEF Next, Calls

LEMMA InitOnTime == ASSUME Init PROVE OnTime
<1>1. level \in Levels /\ kind = level.kind /\ list = [e \in Ents |-> Sorted(level.list[e])]
  BY DEF Init
<1>2. level \in Level
  BY <1>1, LevelsAssumption, Zenon
<1>3. \A e \in Ents : level.list[e] \in Seq(Entries) /\ kind[e] \notin {"clone"}
  BY <1>1, <1>2 DEF Level
<1>4. mode = [e \in Ents |-> CASE kind[e] = "multisource" -> "init"
                               [] kind[e] = "button" -> "bottom"
                               [] kind[e] = "manager" -> "ready"
                               [] OTHER -> "armed"]
  BY DEF Init
<1>5. ASSUME NEW e \in Ents PROVE InOrder(list[e]) /\ e \notin Running
  <2>1. InOrder(list[e])
    <3>1. PICK s \in Seq(Entries) : s = level.list[e]
      BY <1>3
    <3>2. PICK o : o = Sorted(s) /\ o = list[e]
      BY <1>1, <3>1
    <3>3. PICK p \in [1 .. Len(s) -> 1 .. Len(s)] :
            /\ \A i \in 1 .. Len(s) : Sorted(s)[i] = s[p[i]]
            /\ \A i, j \in 1 .. Len(s) : i < j =>
                 /\ p[i] # p[j]
                 /\ \/ s[p[i]].delay < s[p[j]].delay
                    \/ s[p[i]].delay = s[p[j]].delay /\ p[i] < p[j]
      BY SortedInOrder
    <3>4. Len(o) = Len(s)
      BY <3>2, SortedInOrder
    <3>5. \A i \in 1 .. Len(s) : s[p[i]].delay \in Nat
      <4>1. \A i \in 1 .. Len(s) : s[p[i]] \in Entries
        BY <3>3, ElementOfSeq
      <4> QED BY <4>1 DEF Entries
    <3>6. ASSUME NEW i \in 1 .. Len(s), NEW j \in 1 .. Len(s), i < j
          PROVE  o[i].delay <= o[j].delay
      <4>1. o[i] = s[p[i]] /\ o[j] = s[p[j]]
        BY <3>2, <3>3
      <4>2. s[p[i]].delay < s[p[j]].delay \/ s[p[i]].delay = s[p[j]].delay
        BY <3>3, <3>6
      <4>3. s[p[i]].delay \in Nat /\ s[p[j]].delay \in Nat
        BY <3>5
      <4> QED BY <4>1, <4>2, <4>3
    <3> QED BY <3>2, <3>4, <3>6 DEF InOrder
  <2>2. kind[e] = "manager" => mode[e] = "ready"
    BY <1>4
  <2>3. e \notin Running
    BY <1>3, <2>2 DEF Running
  <2> QED BY <2>1, <2>3
<1> QED BY <1>5 DEF OnTime, OnTimeFor

LEMMA InitAgenda == ASSUME Init PROVE A!Init
<1>1. level \in Levels /\ kind = level.kind
  BY DEF Init
<1>2. level \in Level
  BY <1>1, LevelsAssumption, Zenon
<1>3. \A e \in Ents : kind[e] \notin {"clone"}
  BY <1>1, <1>2 DEF Level
<1>4. mode = [e \in Ents |-> CASE kind[e] = "multisource" -> "init"
                               [] kind[e] = "button" -> "bottom"
                               [] kind[e] = "manager" -> "ready"
                               [] OTHER -> "armed"]
  BY DEF Init
<1>5. Running = {}
  BY <1>3, <1>4 DEF Running
<1>6. Managers \subseteq Ents
  BY DEF Managers
<1> QED BY <1>5, <1>6 DEF A!Init

\* In every map and of every size, the managers and their clones do what Agenda promises:
\* a run fires each entry of the list once, in the order of the delays, when its time has
\* come and no later, and nothing but the removal of the manager ends it before its end.
THEOREM ImplementsAgenda == Spec => KeepsAgenda
<1>1. Inv /\ Timely /\ OnTime /\ [Next]_vars => (Inv /\ Timely /\ OnTime)'
  BY StepInv, StepTimely, StepMoves
<1>2. Init => Inv /\ Timely /\ OnTime
  BY InitInv, InitOnTime
<1>3. Init => A!Init
  BY InitAgenda
<1>4. Inv /\ Inv' /\ Timely /\ OnTime /\ [Next]_vars => [A!Next]_(A!agenda)
  BY StepMoves, MovesAgenda
<1> QED BY <1>1, <1>2, <1>3, <1>4, PTL DEF Spec, KeepsAgenda, A!Spec

=============================================================================
