---------------------------- MODULE WiringProofs ----------------------------
(* Theorems about Wiring, for every number of slots and all maps. *)
EXTENDS Wiring, TLAPS, SequenceTheorems, WellFoundedInduction

(***************************************************************************)
(* The list of entities                                                    *)
(***************************************************************************)

LEMMA LeastIn == ASSUME NEW S \in SUBSET Nat, S # {} PROVE \E x \in S : \A y \in S : x <= y
<1>1. \E x \in S : \A y \in S : ~ (<<y, x>> \in OpToRel(<, Nat))
  BY NatLessThanWellFounded, WFMin
<1>2. PICK x \in S : \A y \in S : ~ (<<y, x>> \in OpToRel(<, Nat))
  BY <1>1
<1>3. ASSUME NEW y \in S, y < x PROVE FALSE
  <2>1. <<y, x>> \in OpToRel(<, Nat)
    BY <1>3 DEF OpToRel
  <2> QED BY <1>2, <2>1
<1> QED BY <1>3

LEMMA SlotsNat == Slots \in Nat /\ Ents \subseteq Nat
<1>1. Slots \in 1 .. MaxTargets
  BY LevelsAssumption, Zenon
<1>2. Slots \in Nat
  BY <1>1 DEF MaxTargets
<1> QED BY <1>1, <1>2 DEF Ents

\* FIND_ENTITY_BY_TARGETNAME finds an entity that has the name, if there is one.
LEMMA FirstIn == ASSUME NEW S \in SUBSET Ents, S # {} PROVE First(S) \in S
<1>1. \E x \in S : \A y \in S : x <= y
  BY LeastIn, SlotsNat
<1> QED BY <1>1 DEF First

LEMMA FinalIn == ASSUME NEW S \in SUBSET Ents, S # {} PROVE Final(S) \in S
<1> DEFINE T == {Slots - x : x \in S}
<1>0. Slots \in Nat /\ \A x \in S : x \in 1 .. Slots
  BY SlotsNat DEF Ents
<1>1. T \in SUBSET Nat /\ T # {}
  BY <1>0
<1>2. \E n \in T : \A k \in T : n <= k
  BY <1>1, LeastIn
<1>3. PICK x \in S : \A y \in S : Slots - x <= Slots - y
  BY <1>2
<1>4. \A y \in S : y <= x
  BY <1>0, <1>3
<1> QED BY <1>4 DEF Final

(***************************************************************************)
(* Stacks                                                                  *)
(***************************************************************************)

\* st is s with frames of F on top.
OnTop(st, F, s) ==
  \E k \in Nat : /\ Len(st) = Len(s) + k
                 /\ \A i \in 1 .. k : st[i] \in F
                 /\ \A i \in 1 .. Len(s) : st[i + k] = s[i]

\* The stack s has the frames of r, but for the place in the list of entities.
Alike(s, r) ==
  /\ Len(s) = Len(r)
  /\ \A i \in 1 .. Len(r) :
       s[i].by = r[i].by /\ s[i].do = r[i].do /\ s[i].then = r[i].then

LEMMA PushOne ==
  ASSUME NEW f \in Frames, NEW s \in Seq(Frames), NEW F, f \in F
  PROVE  <<f>> \o s \in Seq(Frames) /\ OnTop(<<f>> \o s, F, s)
<1>1. <<f>> \in Seq(Frames) /\ Len(<<f>>) = 1 /\ <<f>>[1] = f
  OBVIOUS
<1>2. PICK st : st = <<f>> \o s
  OBVIOUS
<1>3. /\ st \in Seq(Frames)
      /\ Len(st) = 1 + Len(s)
      /\ \A i \in 1 .. 1 + Len(s) : st[i] = IF i <= 1 THEN <<f>>[i] ELSE s[i - 1]
  BY <1>1, <1>2, ConcatProperties
<1>4. Len(s) \in Nat
  BY LenProperties
<1>5. st[1] = f
  BY <1>1, <1>3, <1>4
<1>6. ASSUME NEW i \in 1 .. Len(s) PROVE st[i + 1] = s[i]
  <2>1. i + 1 \in 1 .. 1 + Len(s) /\ ~(i + 1 <= 1) /\ (i + 1) - 1 = i
    BY <1>4
  <2> QED BY <1>3, <2>1
<1> QED BY <1>2, <1>3, <1>4, <1>5, <1>6 DEF OnTop

LEMMA PushTwo ==
  ASSUME NEW f \in Frames, NEW g \in Frames, NEW s \in Seq(Frames), NEW F, f \in F, g \in F
  PROVE  /\ <<f>> \o <<g>> \o s \in Seq(Frames)
         /\ OnTop(<<f>> \o <<g>> \o s, F, s)
<1>1. PICK r : r = <<g>> \o s
  OBVIOUS
<1>2. PICK st : st = <<f>> \o r
  OBVIOUS
<1>3. r \in Seq(Frames) /\ OnTop(r, F, s)
  BY <1>1, PushOne
<1>4. st \in Seq(Frames) /\ OnTop(st, F, r)
  BY <1>2, <1>3, PushOne
<1>5. st = <<f>> \o <<g>> \o s
  BY <1>1, <1>2, ConcatAssociative
<1>6. Len(s) \in Nat /\ Len(r) \in Nat /\ Len(st) \in Nat
  BY <1>3, <1>4, LenProperties
<1>7. PICK k \in Nat : /\ Len(r) = Len(s) + k
                       /\ \A i \in 1 .. k : r[i] \in F
                       /\ \A i \in 1 .. Len(s) : r[i + k] = s[i]
  BY <1>3 DEF OnTop
<1>8. PICK n \in Nat : /\ Len(st) = Len(r) + n
                       /\ \A i \in 1 .. n : st[i] \in F
                       /\ \A i \in 1 .. Len(r) : st[i + n] = r[i]
  BY <1>4 DEF OnTop
<1>9. Len(st) = Len(s) + (k + n)
  BY <1>6, <1>7, <1>8
<1>10. ASSUME NEW i \in 1 .. k + n PROVE st[i] \in F
  <2>1. CASE i <= n
    BY <1>8, <2>1
  <2>2. CASE i > n
    <3>1. i - n \in 1 .. k /\ i - n \in 1 .. Len(r) /\ (i - n) + n = i
      BY <1>6, <1>7, <2>2
    <3> QED BY <1>7, <1>8, <3>1
  <2> QED BY <2>1, <2>2
<1>11. ASSUME NEW i \in 1 .. Len(s) PROVE st[i + (k + n)] = s[i]
  <2>1. i + k \in 1 .. Len(r) /\ (i + k) + n = i + (k + n)
    BY <1>6, <1>7
  <2> QED BY <1>7, <1>8, <2>1
<1>12. OnTop(st, F, s)
  <2>1. PICK j \in Nat : j = k + n
    OBVIOUS
  <2> QED BY <2>1, <1>9, <1>10, <1>11 DEF OnTop
<1> QED BY <1>4, <1>5, <1>12

LEMMA PushNone ==
  ASSUME NEW s \in Seq(Frames), NEW F PROVE OnTop(s, F, s)
<1>1. Len(s) \in Nat
  BY LenProperties
<1>2. Len(s) = Len(s) + 0 /\ 1 .. 0 = {} /\ \A i \in 1 .. Len(s) : i + 0 = i
  BY <1>1
<1> QED BY <1>1, <1>2 DEF OnTop

LEMMA PopFrame ==
  ASSUME NEW s \in Seq(Frames), s # <<>>
  PROVE  /\ Tail(s) \in Seq(Frames) /\ Len(Tail(s)) = Len(s) - 1
         /\ Len(s) \in Nat \ {0} /\ s[1] \in Frames /\ Head(s) = s[1]
         /\ \A i \in 1 .. Len(s) - 1 : Tail(s)[i] = s[i + 1]
BY HeadTailProperties, EmptySeq, LenProperties

\* The top frame is replaced by one like it.
LEMMA TurnTop ==
  ASSUME NEW s \in Seq(Frames), s # <<>>, NEW g \in Frames,
         g.by = s[1].by, g.do = s[1].do, g.then = s[1].then
  PROVE  <<g>> \o Tail(s) \in Seq(Frames) /\ Alike(<<g>> \o Tail(s), s)
<1>1. PICK t : t = Tail(s)
  OBVIOUS
<1>2. PICK st : st = <<g>> \o t
  OBVIOUS
<1>3. /\ t \in Seq(Frames) /\ Len(t) = Len(s) - 1 /\ Len(s) \in Nat \ {0}
      /\ \A i \in 1 .. Len(s) - 1 : t[i] = s[i + 1]
  BY <1>1, PopFrame
<1>4. /\ <<g>> \in Seq(Frames) /\ Len(<<g>>) = 1 /\ <<g>>[1] = g
  OBVIOUS
<1>5. /\ st \in Seq(Frames) /\ Len(st) = 1 + Len(t)
      /\ \A i \in 1 .. 1 + Len(t) : st[i] = IF i <= 1 THEN <<g>>[i] ELSE t[i - 1]
  BY <1>2, <1>3, <1>4, ConcatProperties
<1>6. Len(st) = Len(s)
  BY <1>3, <1>5
<1>7. ASSUME NEW i \in 1 .. Len(s) PROVE st[i] = IF i = 1 THEN g ELSE s[i]
  <2>1. CASE i = 1
    BY <1>3, <1>4, <1>5, <2>1
  <2>2. CASE i # 1
    <3>1. i - 1 \in 1 .. Len(s) - 1 /\ (i - 1) + 1 = i /\ i \in 1 .. 1 + Len(t) /\ ~(i <= 1)
      BY <1>3, <2>2
    <3> QED BY <1>3, <1>5, <2>2, <3>1
  <2> QED BY <2>1, <2>2
<1>8. Alike(st, s)
  BY <1>6, <1>7 DEF Alike
<1> QED BY <1>1, <1>2, <1>5, <1>8

\* A frame that does d for e, with t to follow, is on the stack.
Has(st, d, e, t) ==
  \E i \in 1 .. Len(st) : st[i].do = d /\ st[i].by = e /\ st[i].then = t

\* Runs of managers and delayed uses are at the bottom, and an entry of a run is fired
\* right above it.
Shape(st) ==
  \A i \in 1 .. Len(st) :
    /\ st[i].do = "run" \/ st[i].then = "delayed" => i = Len(st)
    /\ st[i].then = "next" => /\ st[i].do = "fire" /\ i + 1 = Len(st)
                              /\ st[i + 1].do = "run" /\ st[i + 1].by = st[i].by

\* A call from within other calls.
Inner(f) == f.do # "run" /\ f.then \notin {"next", "delayed"}

LEMMA OnTopKeeps ==
  ASSUME NEW s \in Seq(Frames), NEW st \in Seq(Frames), NEW F, OnTop(st, F, s)
  PROVE  /\ \A d, e, t : Has(s, d, e, t) => Has(st, d, e, t)
         /\ \A d, e, t : Has(st, d, e, t) =>
              Has(s, d, e, t) \/ \E f \in F : f.do = d /\ f.by = e /\ f.then = t
         /\ Shape(s) /\ (\A f \in F : Inner(f)) => Shape(st)
<1>1. PICK k \in Nat : /\ Len(st) = Len(s) + k
                       /\ \A i \in 1 .. k : st[i] \in F
                       /\ \A i \in 1 .. Len(s) : st[i + k] = s[i]
  BY DEF OnTop
<1>2. Len(s) \in Nat /\ Len(st) \in Nat
  BY LenProperties
<1>3. ASSUME NEW i \in 1 .. Len(st), i > k
      PROVE  i - k \in 1 .. Len(s) /\ st[i] = s[i - k] /\ (i - k = Len(s) <=> i = Len(st))
  <2>1. i - k \in 1 .. Len(s) /\ (i - k) + k = i
    BY <1>1, <1>2, <1>3
  <2> QED BY <1>1, <1>2, <2>1
<1>4. \A d, e, t : Has(s, d, e, t) => Has(st, d, e, t)
  <2> SUFFICES ASSUME NEW d, NEW e, NEW t, NEW i \in 1 .. Len(s),
                      s[i].do = d, s[i].by = e, s[i].then = t
               PROVE  Has(st, d, e, t)
    BY DEF Has
  <2>1. i + k \in 1 .. Len(st) /\ st[i + k] = s[i]
    BY <1>1, <1>2
  <2> QED BY <2>1 DEF Has
<1>5. \A d, e, t : Has(st, d, e, t) =>
        Has(s, d, e, t) \/ \E f \in F : f.do = d /\ f.by = e /\ f.then = t
  <2> SUFFICES ASSUME NEW d, NEW e, NEW t, NEW i \in 1 .. Len(st),
                      st[i].do = d, st[i].by = e, st[i].then = t
               PROVE  Has(s, d, e, t) \/ \E f \in F : f.do = d /\ f.by = e /\ f.then = t
    BY DEF Has
  <2>1. CASE i <= k
    BY <1>1, <2>1
  <2>2. CASE i > k
    BY <1>3, <2>2 DEF Has
  <2> QED BY <1>1, <1>2, <2>1, <2>2
<1>6. ASSUME Shape(s), \A f \in F : Inner(f) PROVE Shape(st)
  <2> SUFFICES ASSUME NEW i \in 1 .. Len(st)
               PROVE  /\ st[i].do = "run" \/ st[i].then = "delayed" => i = Len(st)
                      /\ st[i].then = "next" =>
                           /\ st[i].do = "fire" /\ i + 1 = Len(st)
                           /\ st[i + 1].do = "run" /\ st[i + 1].by = st[i].by
    BY DEF Shape
  <2>1. CASE i <= k
    BY <1>1, <1>6, <2>1 DEF Inner
  <2>2. CASE i > k
    <3>1. i - k \in 1 .. Len(s) /\ st[i] = s[i - k] /\ (i - k = Len(s) <=> i = Len(st))
      BY <1>3, <2>2
    <3>2. st[i].do = "run" \/ st[i].then = "delayed" => i = Len(st)
      BY <1>6, <3>1 DEF Shape
    <3>3. ASSUME st[i].then = "next"
          PROVE  /\ st[i].do = "fire" /\ i + 1 = Len(st)
                 /\ st[i + 1].do = "run" /\ st[i + 1].by = st[i].by
      <4>1. /\ s[i - k].do = "fire" /\ (i - k) + 1 = Len(s)
            /\ s[(i - k) + 1].do = "run" /\ s[(i - k) + 1].by = s[i - k].by
        BY <1>6, <3>1, <3>3 DEF Shape
      <4>2. i + 1 = Len(st) /\ i + 1 \in 1 .. Len(st) /\ i + 1 > k /\ (i + 1) - k = (i - k) + 1
        BY <1>1, <1>2, <2>2, <4>1
      <4>3. st[i + 1] = s[(i - k) + 1]
        BY <1>3, <4>2
      <4> QED BY <3>1, <4>1, <4>2, <4>3
    <3> QED BY <3>2, <3>3
  <2> QED BY <1>1, <1>2, <2>1, <2>2
<1> QED BY <1>4, <1>5, <1>6

LEMMA AlikeKeeps ==
  ASSUME NEW s \in Seq(Frames), NEW r \in Seq(Frames), Alike(s, r)
  PROVE  /\ \A d, e, t : Has(s, d, e, t) <=> Has(r, d, e, t)
         /\ Shape(r) => Shape(s)
<1>1. Len(r) \in Nat
  BY LenProperties
<1>2. \A d, e, t : Has(s, d, e, t) <=> Has(r, d, e, t)
  BY DEF Alike, Has
<1>3. Shape(r) => Shape(s)
  BY <1>1 DEF Alike, Shape
<1> QED BY <1>2, <1>3

LEMMA PopKeeps ==
  ASSUME NEW s \in Seq(Frames), s # <<>>
  PROVE  /\ \A d, e, t : Has(Tail(s), d, e, t) => Has(s, d, e, t)
         /\ \A d, e, t : Has(s, d, e, t) =>
              Has(Tail(s), d, e, t) \/ (s[1].do = d /\ s[1].by = e /\ s[1].then = t)
         /\ Has(s, s[1].do, s[1].by, s[1].then)
         /\ Shape(s) => Shape(Tail(s))
<1>1. PICK r \in Seq(Frames) : r = Tail(s)
  BY PopFrame
<1>2. /\ Len(r) = Len(s) - 1 /\ Len(s) \in Nat \ {0}
      /\ \A i \in 1 .. Len(s) - 1 : r[i] = s[i + 1]
  BY <1>1, PopFrame
<1>3. ASSUME NEW i \in 1 .. Len(r) PROVE i + 1 \in 1 .. Len(s) /\ r[i] = s[i + 1]
  BY <1>2
<1>4. ASSUME NEW i \in 1 .. Len(s), i # 1 PROVE i - 1 \in 1 .. Len(r) /\ s[i] = r[i - 1]
  <2>1. i - 1 \in 1 .. Len(s) - 1 /\ (i - 1) + 1 = i
    BY <1>2, <1>4
  <2> QED BY <1>2, <2>1
<1>5. \A d, e, t : Has(r, d, e, t) => Has(s, d, e, t)
  BY <1>3 DEF Has
<1>6. \A d, e, t : Has(s, d, e, t) =>
        Has(r, d, e, t) \/ (s[1].do = d /\ s[1].by = e /\ s[1].then = t)
  BY <1>4 DEF Has
<1>7. Has(s, s[1].do, s[1].by, s[1].then)
  BY <1>2 DEF Has
<1>8. ASSUME Shape(s) PROVE Shape(r)
  <2> SUFFICES ASSUME NEW i \in 1 .. Len(r)
               PROVE  /\ r[i].do = "run" \/ r[i].then = "delayed" => i = Len(r)
                      /\ r[i].then = "next" =>
                           /\ r[i].do = "fire" /\ i + 1 = Len(r)
                           /\ r[i + 1].do = "run" /\ r[i + 1].by = r[i].by
    BY DEF Shape
  <2>1. i + 1 \in 1 .. Len(s) /\ r[i] = s[i + 1]
    BY <1>3
  <2>2. r[i].do = "run" \/ r[i].then = "delayed" => i = Len(r)
    BY <1>2, <1>8, <2>1 DEF Shape
  <2>3. ASSUME r[i].then = "next"
        PROVE  /\ r[i].do = "fire" /\ i + 1 = Len(r)
               /\ r[i + 1].do = "run" /\ r[i + 1].by = r[i].by
    <3>1. /\ s[i + 1].do = "fire" /\ (i + 1) + 1 = Len(s)
          /\ s[(i + 1) + 1].do = "run" /\ s[(i + 1) + 1].by = s[i + 1].by
      BY <1>8, <2>1, <2>3 DEF Shape
    <3>2. i + 1 = Len(r) /\ i + 1 \in 1 .. Len(r)
      BY <1>2, <3>1
    <3>3. r[i + 1] = s[(i + 1) + 1]
      BY <1>3, <3>2
    <3> QED BY <2>1, <3>1, <3>2, <3>3
  <2> QED BY <2>2, <2>3
<1> QED BY <1>1, <1>5, <1>6, <1>7, <1>8

LEMMA FrameType ==
  ASSUME NEW d \in {"use", "fire", "run"}, NEW e \in Ents,
         NEW t \in {"none", "once", "trigger", "next", "return", "rest", "delayed"}
  PROVE  /\ Frame(d, e, t) \in Frames
         /\ Frame(d, e, t).do = d /\ Frame(d, e, t).by = e /\ Frame(d, e, t).then = t
<1>1. PICK n \in Names : n = ""
  BY LevelsAssumption, Zenon
<1>2. Frame(d, e, t) = [do |-> d, by |-> e, then |-> t, name |-> n, at |-> 0, only |-> FALSE]
  BY <1>1, Zenon DEF Frame
<1>3. 0 \in 0 .. Slots
  BY SlotsNat
<1> QED BY <1>2, <1>3 DEF Frames

LEMMA FireFrameType ==
  ASSUME NEW e \in Ents, NEW n \in Names,
         NEW t \in {"none", "once", "trigger", "next", "return", "rest", "delayed"}
  PROVE  /\ FireFrame(e, n, t) \in Frames
         /\ FireFrame(e, n, t).do = "fire" /\ FireFrame(e, n, t).by = e
         /\ FireFrame(e, n, t).then = t
<1>1. PICK f \in Frames : /\ f = Frame("fire", e, t)
                          /\ f.do = "fire" /\ f.by = e /\ f.then = t
  BY FrameType
<1>2. FireFrame(e, n, t) = [f EXCEPT !.name = n]
  BY <1>1 DEF FireFrame
<1> QED BY <1>1, <1>2 DEF Frames

(***************************************************************************)
(* The list of a manager                                                   *)
(***************************************************************************)

\* The place p is one of those that a sort leaves the entries in, for any entry more.
LEMMA InsertLast ==
  ASSUME NEW s \in Seq(Entries), Len(s) # 0,
         NEW r \in Seq(Entries), Len(r) = Len(s) - 1,
         \A i \in 1 .. Len(r) : r[i] = s[i],
         NEW p \in SortOrders(r)
  PROVE  SortOrders(s) # {}
<1>1. PICK n \in Nat : n = Len(r)
  BY LenProperties
<1>2. /\ Len(s) = n + 1 /\ DOMAIN s = 1 .. n + 1 /\ DOMAIN r = 1 .. n
      /\ \A i \in 1 .. n + 1 : s[i] \in Entries
      /\ \A i \in 1 .. n : r[i] = s[i]
  BY <1>1, LenProperties, ElementOfSeq
<1>14. PICK d : d = [i \in 1 .. n + 1 |-> s[i].delay]
  OBVIOUS
<1>15. d \in [1 .. n + 1 -> Nat] /\ \A i \in 1 .. n + 1 : d[i] = s[i].delay
  BY <1>2, <1>14 DEF Entries
<1>3. /\ p \in [1 .. n -> 1 .. n]
      /\ \A i, j \in 1 .. n : i < j => \/ d[p[i]] < d[p[j]]
                                       \/ d[p[i]] = d[p[j]] /\ p[i] < p[j]
  <2>1. /\ p \in [1 .. n -> 1 .. n]
        /\ \A i, j \in 1 .. n : i < j => \/ r[p[i]].delay < r[p[j]].delay
                                         \/ r[p[i]].delay = r[p[j]].delay /\ p[i] < p[j]
    BY <1>2, Zenon DEF SortOrders
  <2>2. \A i \in 1 .. n : r[p[i]].delay = d[p[i]]
    <3> TAKE i \in 1 .. n
    <3>1. p[i] \in 1 .. n /\ p[i] \in 1 .. n + 1
      BY <2>1
    <3> QED BY <1>2, <1>15, <3>1
  <2> QED BY <2>1, <2>2
<1>4. PICK P : P = {i \in 1 .. n + 1 : i = n + 1 \/ d[n + 1] < d[p[i]]}
  OBVIOUS
<1>5. P \in SUBSET Nat /\ n + 1 \in P
  BY <1>4
<1>6. PICK k \in P : \A i \in P : k <= i
  BY <1>5, LeastIn
<1>7. k \in 1 .. n + 1 /\ (k <= n => d[n + 1] < d[p[k]])
  BY <1>4
<1>8. ASSUME NEW i \in 1 .. n, i < k PROVE d[p[i]] <= d[n + 1]
  <2>1. i \notin P
    BY <1>5, <1>6, <1>8
  <2>2. p[i] \in 1 .. n + 1
    BY <1>3
  <2> QED BY <1>4, <1>15, <2>1, <2>2
<1>9. ASSUME NEW i \in 1 .. n, k <= i PROVE d[n + 1] < d[p[i]]
  <2>1. PICK h \in 1 .. n : h = k
    BY <1>7, <1>9
  <2>2. p[i] \in 1 .. n /\ p[h] \in 1 .. n
    BY <1>3
  <2>3. d[n + 1] \in Nat /\ d[p[h]] \in Nat /\ d[p[i]] \in Nat
    BY <1>15, <2>2
  <2>4. d[n + 1] < d[p[h]]
    BY <1>7, <2>1
  <2>5. CASE h = i
    BY <2>4, <2>5
  <2>6. CASE h < i
    <3>1. d[p[h]] < d[p[i]] \/ d[p[h]] = d[p[i]]
      BY <1>3, <2>6
    <3> QED BY <2>3, <2>4, <3>1
  <2> QED BY <1>9, <2>1, <2>5, <2>6
<1>10. PICK q : q = [i \in 1 .. n + 1 |-> IF i < k THEN p[i] ELSE IF i = k THEN n + 1
                                          ELSE p[i - 1]]
  OBVIOUS
<1>11. q \in [1 .. n + 1 -> 1 .. n + 1]
  <2>1. ASSUME NEW i \in 1 .. n + 1 PROVE q[i] \in 1 .. n + 1
    <3>1. CASE i < k
      BY <1>3, <1>7, <1>10, <3>1
    <3>2. CASE i = k
      BY <1>10, <3>2
    <3>3. CASE i > k
      <4>1. i - 1 \in 1 .. n
        BY <1>7, <3>3
      <4> QED BY <1>3, <1>7, <1>10, <3>3, <4>1
    <3> QED BY <1>7, <3>1, <3>2, <3>3
  <2> QED BY <1>10, <2>1
<1>12. ASSUME NEW i \in 1 .. n + 1, NEW j \in 1 .. n + 1, i < j
       PROVE  \/ d[q[i]] < d[q[j]]
              \/ d[q[i]] = d[q[j]] /\ q[i] < q[j]
  <2>1. CASE j < k
    <3>1. q[i] = p[i] /\ q[j] = p[j] /\ i \in 1 .. n /\ j \in 1 .. n
      BY <1>7, <1>10, <1>12, <2>1
    <3> QED BY <1>3, <1>12, <3>1
  <2>2. CASE j = k
    <3>1. q[i] = p[i] /\ q[j] = n + 1 /\ i \in 1 .. n /\ i < k /\ p[i] \in 1 .. n
      BY <1>3, <1>7, <1>10, <1>12, <2>2
    <3>2. d[p[i]] <= d[n + 1]
      BY <1>8, <3>1
    <3> QED BY <1>15, <3>1, <3>2
  <2>3. CASE j > k
    <3>0. PICK m \in 1 .. n : m = j - 1
      BY <1>7, <2>3
    <3>1. q[j] = p[m] /\ k <= m /\ p[m] \in 1 .. n
      <4>1. q[j] = p[j - 1]
        BY <1>7, <1>10, <2>3
      <4> QED BY <1>3, <1>7, <2>3, <3>0, <4>1
    <3>2. CASE i < k
      <4>1. q[i] = p[i] /\ i \in 1 .. n /\ i < m
        BY <1>7, <1>10, <2>3, <3>0, <3>2
      <4> QED BY <1>3, <3>0, <3>1, <4>1
    <3>3. CASE i = k
      <4>1. q[i] = n + 1
        BY <1>10, <3>3
      <4> QED BY <1>9, <3>1, <4>1
    <3>4. CASE i > k
      <4>1. PICK h \in 1 .. n : h = i - 1
        BY <1>7, <3>4
      <4>2. q[i] = p[i - 1] /\ h < m
        BY <1>7, <1>10, <1>12, <3>0, <3>4, <4>1
      <4> QED BY <1>3, <3>0, <3>1, <4>1, <4>2
    <3> QED BY <1>7, <3>2, <3>3, <3>4
  <2> QED BY <1>7, <2>1, <2>2, <2>3
<1>13. q \in SortOrders(s)
  <2>1. \A i \in 1 .. n + 1 : s[q[i]].delay = d[q[i]]
    BY <1>11, <1>15
  <2>2. \A i, j \in DOMAIN s : i < j =>
          \/ s[q[i]].delay < s[q[j]].delay
          \/ s[q[i]].delay = s[q[j]].delay /\ q[i] < q[j]
    BY <1>2, <1>12, <2>1
  <2> QED BY <1>2, <1>11, <2>2, Zenon DEF SortOrders
<1> QED BY <1>13

LEMMA Sortable == ASSUME NEW s \in Seq(Entries) PROVE SortOrders(s) # {}
<1> PICK B : B = {n \in Nat : \E r \in Seq(Entries) : Len(r) = n /\ SortOrders(r) = {}}
  OBVIOUS
<1>1. SUFFICES ASSUME B # {} PROVE FALSE
  <2>1. Len(s) \in Nat
    BY LenProperties
  <2> QED BY <1>1, <2>1
<1>2. B \in SUBSET Nat
  OBVIOUS
<1>3. PICK n \in B : \A m \in B : n <= m
  BY <1>1, <1>2, LeastIn
<1>4. PICK r \in Seq(Entries) : Len(r) = n /\ SortOrders(r) = {}
  BY <1>3
<1>5. CASE n = 0
  <2>1. DOMAIN r = {}
    BY <1>4, <1>5, LenProperties
  <2>2. PICK f : f = [i \in {} |-> i]
    OBVIOUS
  <2>3. f \in SortOrders(r)
    BY <2>1, <2>2 DEF SortOrders
  <2> QED BY <1>4, <2>3
<1>6. CASE n # 0
  <2>1. r # <<>>
    BY <1>4, <1>6
  <2>2. PICK t : t = SubSeq(r, 1, n - 1)
    OBVIOUS
  <2>3. t \in Seq(Entries) /\ Len(t) = n - 1 /\ \A i \in 1 .. Len(t) : t[i] = r[i]
    <3>1. n - 1 \in Nat /\ 1 \in Int /\ \A i \in 1 .. n - 1 : r[i] \in Entries
      BY <1>2, <1>4, <1>6, ElementOfSeq
    <3>2. /\ t \in Seq(Entries)
          /\ Len(t) = IF 1 <= n - 1 THEN (n - 1) - 1 + 1 ELSE 0
          /\ \A i \in 1 .. (n - 1) - 1 + 1 : t[i] = r[1 + i - 1]
      BY <2>2, <3>1, SubSeqProperties
    <3> QED BY <3>1, <3>2
  <2>4. n - 1 \in Nat /\ ~(n <= n - 1)
    BY <1>2, <1>6
  <2>5. n - 1 \notin B
    BY <1>3, <2>4
  <2>6. PICK p : p \in SortOrders(t)
    BY <2>3, <2>4, <2>5
  <2>7. SortOrders(r) # {}
    BY <1>4, <1>6, <2>3, <2>6, InsertLast
  <2> QED BY <1>4, <2>7
<1> QED BY <1>5, <1>6

\* The sort of CMultiManager::Spawn loses no entry, doubles none, puts an earlier one
\* before a later one and leaves those of one time in the order of the map.
THEOREM SortedInOrder ==
  ASSUME NEW s \in Seq(Entries)
  PROVE  /\ Sorted(s) \in Seq(Entries) /\ Len(Sorted(s)) = Len(s)
         /\ \E p \in [1 .. Len(s) -> 1 .. Len(s)] :
              /\ \A i \in 1 .. Len(s) : Sorted(s)[i] = s[p[i]]
              /\ \A i, j \in 1 .. Len(s) : i < j =>
                   /\ p[i] # p[j]
                   /\ \/ s[p[i]].delay < s[p[j]].delay
                      \/ s[p[i]].delay = s[p[j]].delay /\ p[i] < p[j]
<1>1. PICK p \in SortOrders(s) : Sorted(s) = [i \in DOMAIN s |-> s[p[i]]]
  BY Sortable, Zenon DEF Sorted
<1>2. PICK n \in Nat : n = Len(s) /\ DOMAIN s = 1 .. n
  BY LenProperties
<1>3. \A i \in 1 .. n : s[i] \in Entries
  BY <1>2, ElementOfSeq
<1>4. /\ p \in [1 .. n -> 1 .. n]
      /\ \A i, j \in 1 .. n : i < j => \/ s[p[i]].delay < s[p[j]].delay
                                       \/ s[p[i]].delay = s[p[j]].delay /\ p[i] < p[j]
  BY <1>2, Zenon DEF SortOrders
<1>5. PICK r : r = Sorted(s)
  OBVIOUS
<1>6. r = [i \in 1 .. n |-> s[p[i]]]
  BY <1>1, <1>2, <1>5
<1>7. r \in Seq(Entries)
  <2>1. \A i \in 1 .. n : s[p[i]] \in Entries
    BY <1>3, <1>4
  <2> QED BY <1>6, <2>1, IsASeq
<1>8. Len(r) = n
  <2>1. DOMAIN r = 1 .. n /\ DOMAIN r = 1 .. Len(r) /\ Len(r) \in Nat
    BY <1>6, <1>7, LenProperties
  <2> QED BY <2>1
<1>9. ASSUME NEW i \in 1 .. n, NEW j \in 1 .. n, i < j PROVE p[i] # p[j]
  <2>1. p[i] \in 1 .. n /\ p[j] \in 1 .. n /\ s[p[i]].delay \in Nat
    <3>1. p[i] \in 1 .. n /\ p[j] \in 1 .. n
      BY <1>4
    <3>2. s[p[i]] \in Entries
      BY <1>3, <3>1
    <3> QED BY <3>1, <3>2 DEF Entries
  <2>2. \/ s[p[i]].delay < s[p[j]].delay
        \/ s[p[i]].delay = s[p[j]].delay /\ p[i] < p[j]
    BY <1>4, <1>9
  <2> QED BY <2>1, <2>2
<1>10. \A i, j \in 1 .. n : i < j =>
         /\ p[i] # p[j]
         /\ \/ s[p[i]].delay < s[p[j]].delay
            \/ s[p[i]].delay = s[p[j]].delay /\ p[i] < p[j]
  BY <1>4, <1>9
<1>11. \A i \in 1 .. n : r[i] = s[p[i]]
  BY <1>6
<1>12. \E q \in [1 .. n -> 1 .. n] :
         /\ \A i \in 1 .. n : r[i] = s[q[i]]
         /\ \A i, j \in 1 .. n : i < j =>
              /\ q[i] # q[j]
              /\ \/ s[q[i]].delay < s[q[j]].delay
                 \/ s[q[i]].delay = s[q[j]].delay /\ q[i] < q[j]
  BY <1>4, <1>10, <1>11, Zenon
<1> QED BY <1>2, <1>5, <1>7, <1>8, <1>12, Zenon

(***************************************************************************)
(* The invariant: types, which frames there are for which entity           *)
(***************************************************************************)

\* The kinds of entities whose functions go on that way.
KindsFor(t) ==
  CASE t = "none" -> {"manager", "clone", "button", "multisource"}
    [] t = "once" -> {"relay", "auto"}
    [] t = "trigger" -> {"multiple", "counter"}
    [] t = "next" -> {"manager", "clone"}
    [] t \in {"return", "rest"} -> {"button"}
    [] OTHER -> {"delayed"}

\* The entity has a master, by name.
MasterOf(e) == {n \in Names : n = level.master[e] /\ n # ""}

\* A frame belongs to an entity that is still what it was when it was called.
Fits(d, e, t) ==
  /\ kind[e] \in KindsFor(t)
  /\ d = "run" => e \in Running
  /\ d # "run" /\ t = "none" => kind[e] \in {"button", "multisource"}
  /\ t = "next" => e \in Running /\ left[e] <= Len(list[e])

FramesFit == \A d, e, t : Has(stack, d, e, t) => Fits(d, e, t)

\* An entity of the map keeps its slot, clones and delayed uses have the others.
KindsFit ==
  \A e \in Ents :
    IF level.kind[e] # "free"
    THEN of[e] = e /\ kind[e] \in {level.kind[e], "free"}
    ELSE kind[e] \in {"free", "clone", "delayed"}

Inv == TypeOK /\ KindsFit /\ Shape(stack) /\ FramesFit

Runs(st, e) == Has(st, "run", e, "none")
Delays(st, e) == Has(st, "use", e, "delayed") \/ Has(st, "fire", e, "delayed")

\* What is under way thinks, or is in the middle of it.
TimelyFor(e) ==
  /\ kind[e] \in {"manager", "clone"} /\ due[e] # Never => e \in Running
  /\ Runs(stack, e) => due[e] = Never
  /\ e \in Running => due[e] # Never \/ e \in killed \/ Runs(stack, e)
  /\ kind[e] = "delayed" => due[e] # Never \/ Delays(stack, e)
  /\ kind[e] = "button" => \/ due[e] # Never
                           \/ mode[e] = "bottom"
                           \/ mode[e] = "top" /\ (Flag(e, "toggle") \/ Stays(e))
                           \/ mode[e] = "up" /\ MasterOf(e) # {}

Timely == \A e \in Ents : TimelyFor(e)

Modes == {"armed", "spent", "init", "set", "bottom", "up", "top", "down", "ready", "running"}

LEMMA LevelType ==
  ASSUME TypeOK
  PROVE  /\ level \in Level
         /\ \A e \in Ents :
              /\ Target(e) \in Names /\ Delay(e) \in Nat
              /\ Wait(e) \in {Never} \cup (Nat \ {0})
              /\ level.sets[of[e]] \in GlobalStates \cup {"toggle"}
<1>1. level \in Level
  BY LevelsAssumption, Zenon DEF TypeOK
<1>2. of \in [Ents -> Ents]
  BY Zenon DEF TypeOK
<1>3. /\ level.target \in [Ents -> Names] /\ level.delay \in [Ents -> Nat]
      /\ level.wait \in [Ents -> {Never} \cup (Nat \ {0})]
      /\ level.sets \in [Ents -> GlobalStates \cup {"toggle"}]
  BY <1>1 DEF Level
<1> QED BY <1>1, <1>2, <1>3 DEF Target, Delay, Wait

LEMMA NamedAsIn == ASSUME NEW n PROVE NamedAs(n) \subseteq Ents
BY Zenon DEF NamedAs

\* Who is not yet at the end of its list has its frames as before.
Calm ==
  \A e \in Ents :
    /\ kind[e] # "free" => kind'[e] = kind[e]
    /\ e \in Running => e \in Running' /\ left'[e] = left[e] /\ list'[e] = list[e]

LEMMA CalmFits ==
  ASSUME Calm, NEW d, NEW e \in Ents, NEW t, Fits(d, e, t)
  PROVE  Fits(d, e, t)'
<1>1. kind[e] # "free"
  BY DEF Fits, KindsFor
<1> QED BY <1>1 DEF Calm, Fits

LEMMA HasFrame ==
  ASSUME NEW s \in Seq(Frames), NEW d, NEW e, NEW t, Has(s, d, e, t)
  PROVE  /\ d \in {"use", "fire", "run"} /\ e \in Ents
         /\ t \in {"none", "once", "trigger", "next", "return", "rest", "delayed"}
<1>1. PICK i \in 1 .. Len(s) : s[i].do = d /\ s[i].by = e /\ s[i].then = t
  BY DEF Has
<1>2. s[i] \in Frames
  BY ElementOfSeq
<1> QED BY <1>1, <1>2 DEF Frames

\* A step that goes on with the frames of r and calls the functions of F within them.
LEMMA Settles ==
  ASSUME NEW r \in Seq(Frames), NEW F, stack' \in Seq(Frames), OnTop(stack', F, r),
         \A d, e, t : Has(r, d, e, t) => Fits(d, e, t)',
         Shape(r), \A f \in F : Inner(f) /\ Fits(f.do, f.by, f.then)'
  PROVE  Shape(stack)' /\ FramesFit'
<1>1. PICK st \in Seq(Frames) : st = stack'
  OBVIOUS
<1>2. /\ \A d, e, t : Has(st, d, e, t) =>
              Has(r, d, e, t) \/ \E f \in F : f.do = d /\ f.by = e /\ f.then = t
      /\ Shape(st)
  BY <1>1, OnTopKeeps
<1>3. Shape(stack)'
  BY <1>1, <1>2 DEF Shape
<1>4. \A d, e, t : Has(stack', d, e, t) => Fits(d, e, t)'
  BY <1>1, <1>2
<1> QED BY <1>3, <1>4 DEF FramesFit, Has

(***************************************************************************)
(* Buttons                                                                 *)
(***************************************************************************)

\* A button in state x that thinks in y need not wait for what never comes.
Resting(b, x, y) ==
  \/ y # Never
  \/ x = "bottom"
  \/ x = "top" /\ (Flag(b, "toggle") \/ Stays(b))
  \/ x = "up" /\ ~MasterOpen(b)

CallsOf(b) == {f \in Frames : f.by = b /\ f.do \in {"use", "fire"} /\ f.then \in {"none", "rest"}}

\* What the functions of a button do to it and to the stack.
Pushes(b, below) ==
  /\ \E x \in Modes, y \in Nat \cup {Never} :
       /\ mode' = [mode EXCEPT ![b] = x] /\ due' = [due EXCEPT ![b] = y]
       /\ Resting(b, x, y) \/ (x = mode[b] /\ y = due[b])
  /\ touch' \subseteq Ents
  /\ stack' \in Seq(Frames) /\ OnTop(stack', CallsOf(b), below)

LEMMA CallOf ==
  ASSUME NEW b \in Ents, NEW below \in Seq(Frames)
  PROVE  <<Call(b, "none")>> \o below \in Seq(Frames)
         /\ OnTop(<<Call(b, "none")>> \o below, CallsOf(b), below)
<1>1. PICK f \in Frames : f = Call(b, "none") /\ f.do = "use" /\ f.by = b /\ f.then = "none"
  BY FrameType DEF Call
<1>2. f \in CallsOf(b)
  BY <1>1 DEF CallsOf
<1> QED BY <1>1, <1>2, PushOne

LEMMA TriggerAndWaitPushes ==
  ASSUME TypeOK, NEW b \in Ents, NEW below \in Seq(Frames), NEW touched \in SUBSET Ents,
         TriggerAndWait(b, below, touched)
  PROVE  Pushes(b, below)
<1>1. CASE ~MasterOpen(b)
  <2>1. /\ mode' = [mode EXCEPT ![b] = "up"] /\ due' = [due EXCEPT ![b] = Never]
        /\ stack' = below /\ touch' = touched
    BY <1>1 DEF TriggerAndWait
  <2>2. Resting(b, "up", Never)
    BY <1>1 DEF Resting
  <2>3. "up" \in Modes /\ Never \in Nat \cup {Never}
    BY DEF Modes
  <2> QED BY <2>1, <2>2, <2>3, PushNone DEF Pushes
<1>2. CASE MasterOpen(b)
  <2>1. PICK y : y = IF Flag(b, "toggle") THEN Never ELSE Wait(b)
    OBVIOUS
  <2>2. /\ mode' = [mode EXCEPT ![b] = "top"] /\ due' = [due EXCEPT ![b] = y]
        /\ touch' \subseteq Ents /\ stack' = <<Call(b, "none")>> \o below
    BY <1>2, <2>1 DEF TriggerAndWait
  <2>3. y \in Nat \cup {Never}
    BY <2>1, LevelType
  <2>4. Resting(b, "top", y)
    BY <2>1 DEF Resting, Stays
  <2>5. "top" \in Modes
    BY DEF Modes
  <2> QED BY <2>2, <2>3, <2>4, <2>5, CallOf DEF Pushes
<1> QED BY <1>1, <1>2

LEMMA ButtonBackHomePushes ==
  ASSUME TypeOK, NEW b \in Ents, NEW below \in Seq(Frames), NEW touched \in SUBSET Ents,
         ButtonBackHome(b, below, touched)
  PROVE  Pushes(b, below)
<1>1. PICK g \in Frames : g = SourcesFrame(b) /\ g.do = "fire" /\ g.by = b /\ g.then = "rest"
  <2>1. PICK f \in Frames : /\ f = FireFrame(b, Target(b), "rest")
                            /\ f.do = "fire" /\ f.by = b /\ f.then = "rest"
    BY LevelType, FireFrameType
  <2>2. SourcesFrame(b) = [f EXCEPT !.only = TRUE]
    BY <2>1 DEF SourcesFrame
  <2> QED BY <2>1, <2>2 DEF Frames
<1>2. PICK f \in Frames : f = Call(b, "none") /\ f.do = "use" /\ f.by = b /\ f.then = "none"
  BY FrameType DEF Call
<1>3. f \in CallsOf(b) /\ g \in CallsOf(b)
  BY <1>1, <1>2 DEF CallsOf
<1>4. stack' = (IF Flag(b, "toggle") THEN <<f>> ELSE <<>>) \o <<g>> \o below
  BY <1>1, <1>2 DEF ButtonBackHome
<1>5. stack' \in Seq(Frames) /\ OnTop(stack', CallsOf(b), below)
  <2>1. CASE Flag(b, "toggle")
    <3>1. stack' = <<f>> \o <<g>> \o below
      BY <1>4, <2>1
    <3> QED BY <1>3, <3>1, PushTwo
  <2>2. CASE ~Flag(b, "toggle")
    <3>1. PICK r : r = <<g>>
      OBVIOUS
    <3>2. <<>> \o r = r
      <4>1. r \in Seq(Frames)
        BY <3>1
      <4> QED BY <4>1, ConcatEmptySeq
    <3>3. stack' = r \o below
      BY <1>4, <2>2, <3>1, <3>2
    <3> QED BY <1>3, <3>1, <3>3, PushOne
  <2> QED BY <2>1, <2>2
<1>6. /\ mode' = [mode EXCEPT ![b] = "bottom"] /\ due' = [due EXCEPT ![b] = Never]
      /\ touch' = touched
  BY DEF ButtonBackHome
<1>7. "bottom" \in Modes /\ Never \in Nat \cup {Never}
      /\ Resting(b, "bottom", Never)
  BY DEF Modes, Resting
<1> QED BY <1>5, <1>6, <1>7 DEF Pushes

LEMMA ButtonReturnPushes ==
  ASSUME TypeOK, NEW b \in Ents, NEW below \in Seq(Frames), NEW touched \in SUBSET Ents,
         ButtonReturn(b, below, touched)
  PROVE  Pushes(b, below)
<1>1. CASE Flag(b, "still")
  BY <1>1, ButtonBackHomePushes DEF ButtonReturn
<1>2. CASE ~Flag(b, "still")
  <2>1. /\ mode' = [mode EXCEPT ![b] = "down"] /\ due' = [due EXCEPT ![b] = MoveTime]
        /\ stack' = below /\ touch' = touched
    BY <1>2 DEF ButtonReturn
  <2>2. "down" \in Modes /\ MoveTime \in Nat \cup {Never}
        /\ Resting(b, "down", MoveTime)
    BY DEF Modes, Resting, MoveTime, Never
  <2> QED BY <2>1, <2>2, PushNone DEF Pushes
<1> QED BY <1>1, <1>2

LEMMA StaysPushes ==
  ASSUME TypeOK, NEW b \in Ents, NEW below \in Seq(Frames),
         stack' = below, touch' \subseteq Ents, UNCHANGED <<mode, due>>
  PROVE  Pushes(b, below)
<1>1. mode \in [Ents -> Modes] /\ due \in [Ents -> Nat \cup {Never}]
  BY DEF TypeOK, Modes
<1>2. OnTop(stack', CallsOf(b), below)
  BY PushNone
<1>3. mode' = [mode EXCEPT ![b] = mode[b]] /\ due' = [due EXCEPT ![b] = due[b]]
  BY <1>1
<1> QED BY <1>1, <1>2, <1>3 DEF Pushes

LEMMA ButtonActivatePushes ==
  ASSUME TypeOK, NEW b \in Ents, NEW below \in Seq(Frames), NEW touched \in SUBSET Ents,
         ButtonActivate(b, below, touched)
  PROVE  Pushes(b, below)
<1>1. CASE MasterOpen(b) /\ Flag(b, "still")
  BY <1>1, TriggerAndWaitPushes DEF ButtonActivate
<1>2. CASE MasterOpen(b) /\ ~Flag(b, "still")
  <2>1. /\ mode' = [mode EXCEPT ![b] = "up"] /\ due' = [due EXCEPT ![b] = MoveTime]
        /\ stack' = below /\ touch' = touched
    BY <1>2 DEF ButtonActivate
  <2>2. "up" \in Modes /\ MoveTime \in Nat \cup {Never} /\ Resting(b, "up", MoveTime)
    BY DEF Modes, Resting, MoveTime, Never
  <2> QED BY <2>1, <2>2, PushNone DEF Pushes
<1>3. CASE ~MasterOpen(b)
  <2>1. UNCHANGED <<mode, due>> /\ stack' = below /\ touch' = touched
    BY <1>3 DEF ButtonActivate
  <2> QED BY <2>1, StaysPushes
<1> QED BY <1>1, <1>2, <1>3

LEMMA ButtonUsePushes ==
  ASSUME TypeOK, NEW b \in Ents, NEW below \in Seq(Frames), ButtonUse(b, below)
  PROVE  Pushes(b, below)
<1>1. touch \in SUBSET Ents
  BY DEF TypeOK
<1>2. CASE mode[b] = "bottom"
  BY <1>1, <1>2, ButtonActivatePushes DEF ButtonUse, Returnable
<1>3. CASE mode[b] # "bottom" /\ Returnable(b)
  BY <1>1, <1>3, ButtonReturnPushes DEF ButtonUse
<1>4. CASE mode[b] # "bottom" /\ ~Returnable(b)
  <2>1. stack' = below /\ UNCHANGED <<mode, due, touch>>
    BY <1>4 DEF ButtonUse
  <2> QED BY <1>1, <2>1, StaysPushes
<1> QED BY <1>2, <1>3, <1>4

LEMMA NoFrames ==
  ASSUME NEW s \in Seq(Frames), Len(s) = 0
  PROVE  Shape(s) /\ \A d, e, t : ~Has(s, d, e, t)
BY DEF Shape, Has

LEMMA FewFrames ==
  ASSUME stack' \in Seq(Frames), Len(stack') = 0
  PROVE  Shape(stack)' /\ FramesFit'
<1>1. PICK s \in Seq(Frames) : s = stack'
  OBVIOUS
<1>2. Shape(s) /\ \A d, e, t : ~Has(s, d, e, t)
  BY <1>1, NoFrames
<1>3. Shape(stack') /\ \A d, e, t : ~Has(stack', d, e, t)
  BY <1>1, <1>2
<1> QED BY <1>3 DEF FramesFit, Shape, Has

LEMMA SameKinds == ASSUME Inv, UNCHANGED <<level, kind, of>> PROVE KindsFit'
BY DEF Inv, KindsFit

\* A step of a button with the frames of r below it.
LEMMA ButtonSettles ==
  ASSUME Inv, NEW b \in Ents, kind[b] = "button", NEW r \in Seq(Frames), Shape(r),
         \A d, e, t : Has(r, d, e, t) => Has(stack, d, e, t),
         Pushes(b, r), UNCHANGED <<kind, of, list, left>>
  PROVE  /\ Shape(stack)' /\ FramesFit' /\ Running' = Running
         /\ mode' \in [Ents -> Modes] /\ due' \in [Ents -> Nat \cup {Never}]
         /\ touch' \subseteq Ents /\ stack' \in Seq(Frames)
<1>1. mode \in [Ents -> Modes] /\ due \in [Ents -> Nat \cup {Never}]
  BY DEF Inv, TypeOK, Modes
<1>2. PICK x \in Modes, y \in Nat \cup {Never} :
        mode' = [mode EXCEPT ![b] = x] /\ due' = [due EXCEPT ![b] = y]
  BY DEF Pushes
<1>3. mode' \in [Ents -> Modes] /\ due' \in [Ents -> Nat \cup {Never}]
  BY <1>1, <1>2
<1>4. Running' = Running
  BY <1>1, <1>2 DEF Running
<1>5. Calm
  BY <1>4 DEF Calm
<1>6. stack' \in Seq(Frames) /\ OnTop(stack', CallsOf(b), r) /\ touch' \subseteq Ents
  BY DEF Pushes
<1>7. ASSUME NEW d, NEW e, NEW t, Has(r, d, e, t) PROVE Fits(d, e, t)'
  <2>1. e \in Ents /\ Fits(d, e, t)
    BY <1>7, HasFrame DEF Inv, FramesFit
  <2> QED BY <1>5, <2>1, CalmFits
<1>8. ASSUME NEW f \in CallsOf(b) PROVE Inner(f) /\ Fits(f.do, f.by, f.then)'
  BY <1>8 DEF CallsOf, Inner, Fits, KindsFor
<1>9. Shape(stack)' /\ FramesFit'
  BY <1>6, <1>7, <1>8, Settles
<1> QED BY <1>3, <1>4, <1>6, <1>9

LEMMA TopFrame ==
  ASSUME Inv, stack # <<>>
  PROVE  /\ Top = stack[1] /\ Top \in Frames /\ Top.by \in Ents /\ Len(stack) \in Nat \ {0}
         /\ Fits(Top.do, Top.by, Top.then)
         /\ Top.do = "run" \/ Top.then = "delayed" => Len(stack) = 1
<1>1. stack \in Seq(Frames)
  BY DEF Inv, TypeOK
<1>2. Top = stack[1] /\ stack[1] \in Frames /\ Len(stack) \in Nat \ {0}
  BY <1>1, PopFrame DEF Top
<1>3. Has(stack, stack[1].do, stack[1].by, stack[1].then)
  BY <1>1, PopKeeps
<1>4. Fits(Top.do, Top.by, Top.then)
  BY <1>2, <1>3 DEF Inv, FramesFit
<1>5. Top.do = "run" \/ Top.then = "delayed" => Len(stack) = 1
  <2>1. 1 \in 1 .. Len(stack)
    BY <1>2
  <2>2. Shape(stack)
    BY DEF Inv
  <2> QED BY <1>2, <2>1, <2>2 DEF Shape
<1> QED BY <1>2, <1>4, <1>5 DEF Frames

(***************************************************************************)
(* Each call keeps the invariant                                           *)
(***************************************************************************)

\* A manager that is running has an entry to look at, or has come past its list.
LEMMA RunningList ==
  ASSUME Inv, NEW e \in Running, left[e] <= Len(list[e])
  PROVE  /\ left[e] \in 1 .. Len(list[e]) /\ list[e][left[e]] \in Entries
         /\ list[e][left[e]].name \in Names /\ list[e][left[e]].delay \in Nat
<1>1. e \in Ents /\ list[e] \in Seq(Entries) /\ left[e] \in 1 .. Len(list[e]) + 1
  BY DEF Inv, TypeOK, Running
<1>2. Len(list[e]) \in Nat
  BY <1>1, LenProperties
<1>3. left[e] \in 1 .. Len(list[e])
  BY <1>1, <1>2
<1>4. list[e][left[e]] \in Entries
  BY <1>1, <1>3, ElementOfSeq
<1> QED BY <1>3, <1>4 DEF Entries

LEMMA ManagerLoopInv == ASSUME Inv, ManagerLoop PROVE Inv'
<1>1. stack # <<>> /\ Top.do = "run"
  BY DEF ManagerLoop
<1>2. PICK e \in Ents : e = Top.by
  BY <1>1, TopFrame
<1>3. e \in Running /\ Len(stack) = 1 /\ Top = stack[1] /\ stack[1] \in Frames
  BY <1>1, <1>2, TopFrame DEF Fits
<1>4. UNCHANGED <<level, kind, of, list, left, age, touch, members, last, lit, global, fired,
                  early, refused>>
  BY DEF ManagerLoop, fields, history
<1>5. KindsFit'
  BY <1>4, SameKinds
<1>6. TypeOK
  BY DEF Inv
<1>7. CASE left[e] <= Len(list[e]) /\ list[e][left[e]].delay <= age[e]
  <2>1. PICK f \in Frames : /\ f = FireFrame(e, list[e][left[e]].name, "next")
                            /\ f.do = "fire" /\ f.by = e /\ f.then = "next"
    BY <1>3, <1>7, RunningList, FireFrameType
  <2>2. stack' = <<f>> \o stack /\ UNCHANGED <<mode, due, killed>>
    BY <1>2, <1>7, <2>1 DEF ManagerLoop
  <2>3. TypeOK'
    <3>1. stack' \in Seq(Frames)
      BY <1>6, <2>2, PushOne DEF TypeOK
    <3>2. Running' = Running
      BY <1>4, <2>2 DEF Running
    <3> QED BY <1>4, <1>6, <2>2, <3>1, <3>2 DEF TypeOK
  <2>4. /\ Len(stack') = 2 /\ stack'[1] = f /\ stack'[2] = stack[1]
    <3>1. stack \in Seq(Frames)
      BY <1>6 DEF TypeOK
    <3>2. OnTop(stack', {f}, stack)
      BY <2>2, <3>1, PushOne
    <3>3. Len(stack') = 1 + Len(stack)
      BY <2>2, <3>1, ConcatProperties
    <3>4. PICK k \in Nat : /\ Len(stack') = Len(stack) + k
                           /\ \A i \in 1 .. k : stack'[i] \in {f}
                           /\ \A i \in 1 .. Len(stack) : stack'[i + k] = stack[i]
      BY <3>2 DEF OnTop
    <3>5. k = 1
      BY <1>3, <3>3, <3>4
    <3> QED BY <1>3, <3>4, <3>5
  <2>5. \A i \in 1 .. 2 : i = 1 \/ i = 2
    OBVIOUS
  <2>6. Shape(stack')
    <3>1. stack[1].then # "next"
      <4>1. 1 \in 1 .. Len(stack) /\ Shape(stack)
        BY <1>3 DEF Inv
      <4> QED BY <1>1, <1>3, <4>1 DEF Shape
    <3> QED BY <1>1, <1>2, <1>3, <2>1, <2>4, <2>5, <3>1 DEF Shape
  <2>7. ASSUME NEW d, NEW x, NEW t, Has(stack', d, x, t)
        PROVE  (d = "fire" /\ x = e /\ t = "next") \/ Has(stack, d, x, t)
    <3>1. 1 \in 1 .. Len(stack)
      BY <1>3
    <3> QED BY <2>1, <2>4, <2>5, <2>7, <3>1 DEF Has
  <2>8. Fits("fire", e, "next")'
    BY <1>3, <1>4, <1>7, <2>2 DEF Fits, KindsFor, Running
  <2>9. \A d, x, t : Fits(d, x, t)' = Fits(d, x, t)
    BY <1>4, <2>2 DEF Fits, Running
  <2>10. \A d, x, t : Has(stack', d, x, t) => Fits(d, x, t)'
    BY <2>7, <2>8, <2>9 DEF Inv, FramesFit
  <2> QED BY <1>5, <2>3, <2>6, <2>10 DEF Inv, FramesFit, Shape, Has
<1>8. CASE ~(left[e] <= Len(list[e]) /\ list[e][left[e]].delay <= age[e])
  <2>1. stack' = Tail(stack)
    BY <1>2, <1>8 DEF ManagerLoop
  <2>2. stack' \in Seq(Frames) /\ Len(stack') = 0
    BY <1>1, <1>3, <1>6, <2>1, PopFrame DEF TypeOK
  <2>3. CASE left[e] > Len(list[e])
    <3>1. IF kind[e] = "clone"
          THEN killed' = killed \cup {e} /\ UNCHANGED <<mode, due>>
          ELSE mode' = [mode EXCEPT ![e] = "ready"] /\ UNCHANGED <<due, killed>>
      BY <1>2, <1>8, <2>3 DEF ManagerLoop
    <3>2. Running' \subseteq Running /\ due' = due
      BY <1>4, <1>6, <3>1 DEF Running, TypeOK
    <3>3. killed' \subseteq Ents /\ mode' \in [Ents -> Modes]
      BY <1>6, <3>1 DEF TypeOK, Modes
    <3>4. TypeOK'
      BY <1>4, <1>6, <2>2, <3>2, <3>3 DEF TypeOK, Modes
    <3> QED BY <1>5, <2>2, <3>4, FewFrames DEF Inv
  <2>4. CASE ~(left[e] > Len(list[e]))
    <3>1. due' = [due EXCEPT ![e] = Remaining(e)] /\ UNCHANGED <<mode, killed>>
      BY <1>2, <1>8, <2>4 DEF ManagerLoop
    <3>2. left[e] <= Len(list[e])
      <4>1. left[e] \in Int /\ Len(list[e]) \in Nat
        BY <1>6, LenProperties DEF TypeOK
      <4> QED BY <2>4, <4>1
    <3>3. Remaining(e) \in Nat
      <4>1. list[e][left[e]].delay \in Nat /\ age[e] \in Nat
        BY <1>3, <1>6, <3>2, RunningList DEF TypeOK
      <4> QED BY <1>8, <3>2, <4>1 DEF Remaining
    <3>4. Running' = Running
      BY <1>4, <3>1 DEF Running
    <3>5. TypeOK'
      BY <1>4, <1>6, <2>2, <3>1, <3>3, <3>4 DEF TypeOK
    <3> QED BY <1>5, <2>2, <3>5, FewFrames DEF Inv
  <2> QED BY <2>3, <2>4
<1> QED BY <1>7, <1>8

\* The top frame, a call of SUB_UseTargets, becomes the loop of FireTargets.
LEMMA UseToFire ==
  ASSUME NEW s \in Seq(Frames), s # <<>>, s[1].do = "use", NEW g \in Frames,
         g.by = s[1].by, g.do = "fire", g.then = s[1].then, Shape(s)
  PROVE  /\ <<g>> \o Tail(s) \in Seq(Frames) /\ Len(<<g>> \o Tail(s)) = Len(s)
         /\ (<<g>> \o Tail(s))[1] = g
         /\ \A i \in 2 .. Len(s) : (<<g>> \o Tail(s))[i] = s[i]
         /\ Shape(<<g>> \o Tail(s))
         /\ \A d, e, t : Has(<<g>> \o Tail(s), d, e, t) =>
              Has(s, d, e, t) \/ (d = "fire" /\ Has(s, "use", e, t))
<1>1. PICK t : t = Tail(s)
  OBVIOUS
<1>2. PICK st : st = <<g>> \o t
  OBVIOUS
<1>3. /\ t \in Seq(Frames) /\ Len(t) = Len(s) - 1 /\ Len(s) \in Nat \ {0}
      /\ \A i \in 1 .. Len(s) - 1 : t[i] = s[i + 1]
  BY <1>1, PopFrame
<1>4. /\ <<g>> \in Seq(Frames) /\ Len(<<g>>) = 1 /\ <<g>>[1] = g
  OBVIOUS
<1>5. /\ st \in Seq(Frames) /\ Len(st) = 1 + Len(t)
      /\ \A i \in 1 .. 1 + Len(t) : st[i] = IF i <= 1 THEN <<g>>[i] ELSE t[i - 1]
  BY <1>2, <1>3, <1>4, ConcatProperties
<1>6. Len(st) = Len(s)
  BY <1>3, <1>5
<1>7. st[1] = g
  BY <1>3, <1>4, <1>5
<1>8. ASSUME NEW i \in 2 .. Len(s) PROVE st[i] = s[i]
  <2>1. i - 1 \in 1 .. Len(s) - 1 /\ (i - 1) + 1 = i /\ i \in 1 .. 1 + Len(t) /\ ~(i <= 1)
    BY <1>3
  <2> QED BY <1>3, <1>5, <2>1
<1>9. s[1].then # "next" /\ 1 \in 1 .. Len(s)
  <2>1. 1 \in 1 .. Len(s)
    BY <1>3
  <2> QED BY <2>1 DEF Shape
<1>10. Shape(st)
  <2> SUFFICES ASSUME NEW i \in 1 .. Len(st)
               PROVE  /\ st[i].do = "run" \/ st[i].then = "delayed" => i = Len(st)
                      /\ st[i].then = "next" =>
                           /\ st[i].do = "fire" /\ i + 1 = Len(st)
                           /\ st[i + 1].do = "run" /\ st[i + 1].by = st[i].by
    BY DEF Shape
  <2>1. CASE i = 1
    BY <1>6, <1>7, <1>9, <2>1 DEF Shape
  <2>2. CASE i # 1
    <3>1. i \in 2 .. Len(s) /\ i \in 1 .. Len(s)
      BY <1>3, <1>6, <2>2
    <3>2. i + 1 = Len(st) => i + 1 \in 2 .. Len(s)
      BY <1>3, <1>6, <3>1
    <3>3. st[i] = s[i] /\ (i + 1 = Len(st) => st[i + 1] = s[i + 1])
      BY <1>8, <3>1, <3>2
    <3> QED BY <1>6, <3>1, <3>3 DEF Shape
  <2> QED BY <2>1, <2>2
<1>11. ASSUME NEW d, NEW e, NEW u, Has(st, d, e, u)
       PROVE  Has(s, d, e, u) \/ (d = "fire" /\ Has(s, "use", e, u))
  <2>1. PICK i \in 1 .. Len(st) : st[i].do = d /\ st[i].by = e /\ st[i].then = u
    BY <1>11 DEF Has
  <2>2. CASE i = 1
    <3>1. d = "fire" /\ s[1].by = e /\ s[1].then = u
      BY <1>7, <2>1, <2>2
    <3> QED BY <1>9, <3>1 DEF Has
  <2>3. CASE i # 1
    <3>1. i \in 2 .. Len(s) /\ i \in 1 .. Len(s)
      BY <1>3, <1>6, <2>3
    <3> QED BY <1>8, <2>1, <3>1 DEF Has
  <2> QED BY <2>2, <2>3
<1> QED BY <1>1, <1>2, <1>5, <1>6, <1>7, <1>8, <1>10, <1>11

LEMMA FreeSlot ==
  ASSUME FreeSlots # {}
  PROVE  /\ First(FreeSlots) \in Ents /\ kind[First(FreeSlots)] = "free"
         /\ level.kind[First(FreeSlots)] = "free"
<1>1. FreeSlots \subseteq Ents
  BY DEF FreeSlots
<1>2. First(FreeSlots) \in FreeSlots
  BY <1>1, FirstIn
<1> QED BY <1>2 DEF FreeSlots

LEMMA UseTargetsInv == ASSUME Inv, UseTargets PROVE Inv'
<1>1. stack # <<>> /\ Top.do = "use"
  BY Zenon DEF UseTargets
<1>2. PICK e \in Ents : e = Top.by
  BY <1>1, TopFrame
<1>3. Top = stack[1] /\ stack[1] \in Frames /\ stack \in Seq(Frames) /\ TypeOK
  BY <1>1, TopFrame DEF Inv, TypeOK
<1>4. UNCHANGED <<level, list, mode, left, age, touch, members, last, lit, global, early,
                  refused>>
  BY Zenon DEF UseTargets
<1>5. fired' \in [Ents -> 0 .. 2]
  <2>1. fired' = [fired EXCEPT ![e] = IF of[e] = e /\ @ < 2 THEN @ + 1 ELSE @]
    BY <1>2, Zenon DEF UseTargets
  <2>2. fired \in [Ents -> 0 .. 2]
    BY <1>3 DEF TypeOK
  <2> QED BY <2>1, <2>2
<1>6. stack[1].then \in {"none", "once", "trigger", "next", "return", "rest", "delayed"}
  BY <1>3 DEF Frames
<1>7. ASSUME NEW g \in Frames, g.by = stack[1].by, g.do = "fire", g.then = stack[1].then,
             stack' = <<g>> \o Tail(stack), Calm
      PROVE  stack' \in Seq(Frames) /\ Shape(stack)' /\ FramesFit'
  <2>1. /\ stack' \in Seq(Frames) /\ Shape(stack')
        /\ \A d, x, t : Has(stack', d, x, t) =>
             Has(stack, d, x, t) \/ (d = "fire" /\ Has(stack, "use", x, t))
    BY <1>1, <1>3, <1>7, UseToFire DEF Inv
  <2>2. ASSUME NEW d, NEW x, NEW t, Has(stack', d, x, t) PROVE Fits(d, x, t)
    <3>1. Has(stack, d, x, t) => Fits(d, x, t)
      BY DEF Inv, FramesFit
    <3>2. Has(stack, "use", x, t) => Fits("use", x, t)
      BY DEF Inv, FramesFit
    <3>3. Fits("use", x, t) => Fits("fire", x, t)
      BY DEF Fits
    <3> QED BY <2>1, <2>2, <3>1, <3>2, <3>3
  <2>3. ASSUME NEW d, NEW x, NEW t, Has(stack', d, x, t) PROVE Fits(d, x, t)'
    <3>1. x \in Ents
      BY <2>1, <2>3, HasFrame
    <3> QED BY <1>7, <2>2, <2>3, <3>1, CalmFits
  <2> QED BY <2>1, <2>3 DEF FramesFit, Shape, Has
<1>8. CASE Delay(e) # 0 /\ (Target(e) # "" \/ Kill(e) # "")
  <2>1. /\ FreeSlots # {} /\ DelayedUse(First(FreeSlots), e)
        /\ stack' = <<Frame("fire", e, Top.then)>> \o Tail(stack) /\ UNCHANGED killed
    BY <1>2, <1>8, Zenon DEF UseTargets
  <2>2. PICK s \in Ents : s = First(FreeSlots) /\ kind[s] = "free" /\ level.kind[s] = "free"
    BY <2>1, FreeSlot
  <2>3. /\ kind' = [kind EXCEPT ![s] = "delayed"] /\ of' = [of EXCEPT ![s] = of[e]]
        /\ due' = [due EXCEPT ![s] = Delay(e)]
    BY <2>1, <2>2 DEF DelayedUse
  <2>4. Running' = Running
    BY <1>3, <1>4, <2>2, <2>3 DEF Running, TypeOK
  <2>5. Calm
    BY <1>3, <1>4, <2>2, <2>3, <2>4 DEF Calm, TypeOK
  <2>6. PICK g \in Frames : /\ g = Frame("fire", e, Top.then)
                            /\ g.do = "fire" /\ g.by = e /\ g.then = Top.then
    BY <1>3, <1>6, FrameType
  <2>7. stack' \in Seq(Frames) /\ Shape(stack)' /\ FramesFit'
    BY <1>2, <1>3, <1>7, <2>1, <2>5, <2>6
  <2>8. KindsFit'
    BY <1>3, <1>4, <2>2, <2>3 DEF Inv, KindsFit, TypeOK
  <2>9. TypeOK'
    <3>1. due' \in [Ents -> Nat \cup {Never}]
      BY <1>3, <2>3, LevelType DEF TypeOK
    <3>2. kind' \in [Ents -> Kinds] /\ of' \in [Ents -> Ents]
      BY <1>3, <2>3 DEF TypeOK, Kinds
    <3>3. killed' = killed
      BY <2>1
    <3> QED BY <1>3, <1>4, <1>5, <2>4, <2>7, <3>1, <3>2, <3>3 DEF TypeOK
  <2> QED BY <2>7, <2>8, <2>9 DEF Inv
<1>9. CASE ~(Delay(e) # 0 /\ (Target(e) # "" \/ Kill(e) # ""))
  <2>1. /\ killed' = killed \cup NamedAs(Kill(e))
        /\ stack' = <<FireFrame(e, Target(e), Top.then)>> \o Tail(stack)
        /\ UNCHANGED <<kind, of, due>>
    BY <1>2, <1>9, Zenon DEF UseTargets
  <2>2. Running' = Running
    BY <1>4, <2>1 DEF Running
  <2>3. Calm
    BY <1>4, <2>1, <2>2 DEF Calm
  <2>4. PICK g \in Frames : /\ g = FireFrame(e, Target(e), Top.then)
                            /\ g.do = "fire" /\ g.by = e /\ g.then = Top.then
    BY <1>3, <1>6, LevelType, FireFrameType
  <2>5. stack' \in Seq(Frames) /\ Shape(stack)' /\ FramesFit'
    BY <1>2, <1>3, <1>7, <2>1, <2>3, <2>4
  <2>6. KindsFit'
    BY <1>4, <2>1, SameKinds
  <2>7. killed' \subseteq Ents
    BY <1>3, <2>1, NamedAsIn DEF TypeOK
  <2>8. TypeOK'
    BY <1>3, <1>4, <1>5, <2>1, <2>2, <2>5, <2>7 DEF TypeOK
  <2> QED BY <2>5, <2>6, <2>8 DEF Inv
<1> QED BY <1>8, <1>9, Zenon

\* The entity whose turn it is, and the stack while it is used.
LEMMA NextAhead ==
  ASSUME Inv, stack # <<>>, Ahead # {}
  PROVE  /\ First(Ahead) \in Ents /\ First(Ahead) \in Ahead
         /\ [Top EXCEPT !.at = First(Ahead)] \in Frames
         /\ <<[Top EXCEPT !.at = First(Ahead)]>> \o Tail(stack) \in Seq(Frames)
         /\ Alike(<<[Top EXCEPT !.at = First(Ahead)]>> \o Tail(stack), stack)
<1>1. Ahead \subseteq Ents
  BY NamedAsIn, Zenon DEF Ahead
<1>2. PICK t \in Ents : t = First(Ahead) /\ t \in Ahead
  BY <1>1, FirstIn
<1>3. Top = stack[1] /\ Top \in Frames /\ stack \in Seq(Frames)
  BY TopFrame DEF Inv, TypeOK
<1>4. PICK g : g = [Top EXCEPT !.at = t]
  OBVIOUS
<1>5. g \in Frames /\ g.by = stack[1].by /\ g.do = stack[1].do /\ g.then = stack[1].then
  <2>1. t \in 0 .. Slots
    BY SlotsNat DEF Ents
  <2> QED BY <1>3, <1>4, <2>1 DEF Frames
<1>6. <<g>> \o Tail(stack) \in Seq(Frames) /\ Alike(<<g>> \o Tail(stack), stack)
  BY <1>3, <1>5, TurnTop
<1> QED BY <1>2, <1>4, <1>5, <1>6

\* An entity is used, and what it calls goes on top of the others.
LEMMA UseSettles ==
  ASSUME Inv, Calm, NEW below \in Seq(Frames), Alike(below, stack),
         \/ stack' = below
         \/ \E f \in Frames : /\ Inner(f) /\ Fits(f.do, f.by, f.then)'
                              /\ stack' = <<f>> \o below
  PROVE  stack' \in Seq(Frames) /\ Shape(stack)' /\ FramesFit'
<1>1. stack \in Seq(Frames) /\ Shape(stack)
  BY DEF Inv, TypeOK
<1>2. Shape(below) /\ \A d, e, t : Has(below, d, e, t) <=> Has(stack, d, e, t)
  BY <1>1, AlikeKeeps
<1>3. ASSUME NEW d, NEW e, NEW t, Has(below, d, e, t) PROVE Fits(d, e, t)'
  <2>1. e \in Ents /\ Fits(d, e, t)
    BY <1>2, <1>3, HasFrame DEF Inv, FramesFit
  <2> QED BY <2>1, CalmFits
<1>4. PICK F : F = {f \in Frames : Inner(f) /\ Fits(f.do, f.by, f.then)'}
  OBVIOUS
<1>5. stack' \in Seq(Frames) /\ OnTop(stack', F, below)
  <2>1. CASE stack' = below
    BY <2>1, PushNone
  <2>2. ASSUME NEW f \in Frames, Inner(f), Fits(f.do, f.by, f.then)', stack' = <<f>> \o below
        PROVE  stack' \in Seq(Frames) /\ OnTop(stack', F, below)
    BY <1>4, <2>2, PushOne
  <2> QED BY <2>1, <2>2
<1>6. \A f \in F : Inner(f) /\ Fits(f.do, f.by, f.then)'
  BY <1>4
<1> QED BY <1>2, <1>3, <1>5, <1>6, Settles

\* A manager that starts, the one that is used or its clone.
LEMMA ManagerUseInv ==
  ASSUME Inv, NEW t \in Ents, kind[t] \in {"manager", "clone"}, NEW below \in Seq(Frames),
         Alike(below, stack), ManagerUse(t, below),
         UNCHANGED <<level, touch, lit, global, early, refused, members, last, killed, fired>>
  PROVE  Inv'
<1>1. TypeOK
  BY DEF Inv
<1>2. stack' = below
  BY DEF ManagerUse
<1>3. ASSUME NEW c \in Ents, Started(c), \A e \in Ents : e # c => kind'[e] = kind[e],
             kind'[c] \in {"manager", "clone"}, list' = [list EXCEPT ![c] = list[t]],
             c \notin Running, kind[c] = "free" \/ kind'[c] = kind[c],
             kind' \in [Ents -> Kinds], of' \in [Ents -> Ents], KindsFit'
      PROVE  Inv'
  <2>1. /\ mode' = [mode EXCEPT ![c] = "running"] /\ left' = [left EXCEPT ![c] = 1]
        /\ age' = [age EXCEPT ![c] = 0] /\ due' = [due EXCEPT ![c] = 0]
    BY <1>3 DEF Started
  <2>2. Running' = Running \cup {c}
    BY <1>1, <1>3, <2>1 DEF Running, TypeOK
  <2>3. \A e \in Running : left'[e] = left[e] /\ list'[e] = list[e]
    BY <1>1, <1>3, <2>1 DEF TypeOK, Running
  <2>4. Calm
    BY <1>3, <2>2, <2>3 DEF Calm
  <2>5. stack' \in Seq(Frames) /\ Shape(stack)' /\ FramesFit'
    BY <1>2, <2>4, UseSettles
  <2>6. list' \in [Ents -> Seq(Entries)]
    BY <1>1, <1>3 DEF TypeOK
  <2>7. \A e \in Running' : left'[e] \in 1 .. Len(list'[e]) + 1
    <3>1. ASSUME NEW e \in Running' PROVE left'[e] \in 1 .. Len(list'[e]) + 1
      <4>1. CASE e \in Running
        BY <1>1, <2>3, <4>1 DEF TypeOK
      <4>2. CASE e = c
        <5>1. Len(list'[e]) \in Nat /\ left'[e] = 1
          BY <1>1, <2>1, <2>6, <4>2, LenProperties DEF TypeOK
        <5> QED BY <5>1
      <4> QED BY <2>2, <4>1, <4>2
    <3> QED BY <3>1
  <2>8. /\ mode' \in [Ents -> Modes] /\ left' \in [Ents -> Int] /\ age' \in [Ents -> Nat]
        /\ due' \in [Ents -> Nat \cup {Never}]
    BY <1>1, <2>1 DEF TypeOK, Modes
  <2>9. TypeOK'
    BY <1>1, <1>3, <2>5, <2>6, <2>7, <2>8 DEF TypeOK, Modes
  <2> QED BY <1>3, <2>5, <2>9 DEF Inv
<1>4. CASE kind[t] = "manager" /\ Flag(t, "thread")
  <2>1. FreeSlots # {} /\ Cloned(t, First(FreeSlots))
    BY <1>4 DEF ManagerUse
  <2>2. PICK c \in Ents : c = First(FreeSlots) /\ kind[c] = "free" /\ level.kind[c] = "free"
    BY <2>1, FreeSlot
  <2>3. /\ kind' = [kind EXCEPT ![c] = "clone"] /\ of' = [of EXCEPT ![c] = t]
        /\ list' = [list EXCEPT ![c] = list[t]] /\ Started(c)
    BY <2>1, <2>2 DEF Cloned
  <2>4. kind' \in [Ents -> Kinds] /\ of' \in [Ents -> Ents] /\ KindsFit'
    BY <1>1, <2>2, <2>3 DEF Inv, KindsFit, TypeOK, Kinds
  <2>5. c \notin Running
    BY <2>2 DEF Running
  <2>6. kind'[c] = "clone" /\ \A e \in Ents : e # c => kind'[e] = kind[e]
    BY <1>1, <2>3 DEF TypeOK
  <2> QED BY <1>3, <2>2, <2>3, <2>4, <2>5, <2>6
<1>5. CASE ~(kind[t] = "manager" /\ Flag(t, "thread"))
  <2>1. UNCHANGED <<kind, of, list>>
    BY <1>5 DEF ManagerUse
  <2>2. KindsFit'
    BY <2>1, SameKinds
  <2>3. CASE mode[t] = "ready"
    <3>1. Started(t)
      BY <1>5, <2>3 DEF ManagerUse
    <3>2. t \notin Running
      BY <2>3 DEF Running
    <3>3. list' = [list EXCEPT ![t] = list[t]]
      BY <1>1, <2>1 DEF TypeOK
    <3> QED BY <1>1, <1>3, <2>1, <2>2, <3>1, <3>2, <3>3 DEF TypeOK
  <2>4. CASE mode[t] # "ready"
    <3>1. UNCHANGED <<mode, left, age, due>>
      BY <1>5, <2>4 DEF ManagerUse
    <3>2. Running' = Running
      BY <2>1, <3>1 DEF Running
    <3>3. Calm
      BY <2>1, <3>1, <3>2 DEF Calm
    <3>4. stack' \in Seq(Frames) /\ Shape(stack)' /\ FramesFit'
      BY <1>2, <3>3, UseSettles
    <3>5. TypeOK'
      BY <1>1, <2>1, <3>1, <3>2, <3>4 DEF TypeOK
    <3> QED BY <2>2, <3>4, <3>5 DEF Inv
  <2> QED BY <2>3, <2>4
<1> QED BY <1>4, <1>5

LEMMA MultisourceUseTypes ==
  ASSUME TypeOK, NEW t \in Ents, NEW by \in Ents, NEW below, MultisourceUse(t, by, below)
  PROVE  /\ lit' \in [Ents -> SUBSET Ents] /\ early' \subseteq Ents
         /\ stack' = below \/ stack' = <<Call(t, "none")>> \o below
<1>1. PICK i : i = IF by \in members[t] THEN by ELSE last[t]
  OBVIOUS
<1>2. PICK on : on = IF i = 0 THEN {} ELSE (lit[t] \ {i}) \cup ({i} \ lit[t])
  OBVIOUS
<1>3. on \subseteq Ents
  <2>1. lit[t] \subseteq Ents /\ last[t] \in 0 .. Slots
    BY DEF TypeOK
  <2>2. i = 0 \/ i \in Ents
    BY <1>1, <2>1, SlotsNat DEF Ents
  <2> QED BY <1>2, <2>1, <2>2
<1>4. CASE mode[t] # "set"
  <2>1. early' = early \cup {t} /\ stack' = below /\ UNCHANGED lit
    BY <1>4 DEF MultisourceUse
  <2> QED BY <2>1 DEF TypeOK
<1>5. CASE mode[t] = "set"
  <2>1. /\ lit' = [lit EXCEPT ![t] = on] /\ UNCHANGED early
        /\ stack' = below \/ stack' = <<Call(t, "none")>> \o below
    BY <1>1, <1>2, <1>5 DEF MultisourceUse
  <2> QED BY <1>3, <2>1 DEF TypeOK
<1> QED BY <1>4, <1>5

LEMMA FireNextInv == ASSUME Inv, FireNext PROVE Inv'
<1>1. stack # <<>> /\ Ahead # {}
  BY DEF FireNext
<1>2. PICK t \in Ents : t = First(Ahead)
  BY <1>1, NextAhead
<1>3. PICK below \in Seq(Frames) :
        below = <<[Top EXCEPT !.at = t]>> \o Tail(stack) /\ Alike(below, stack)
  BY <1>1, <1>2, NextAhead
<1>4. TypeOK
  BY DEF Inv
<1>5. UNCHANGED <<members, last, killed, fired>>
  BY DEF FireNext
<1>6. ASSUME NEW k \in {"once", "trigger", "none"}, kind[t] \in KindsFor(k),
             k = "none" => kind[t] \in {"button", "multisource"},
             UNCHANGED <<kind, list, mode>>,
             \A e \in Running : left'[e] = left[e],
             stack' = below \/ stack' = <<Call(t, k)>> \o below
      PROVE  stack' \in Seq(Frames) /\ Shape(stack)' /\ FramesFit' /\ Running' = Running
  <2>1. Running' = Running
    BY <1>6 DEF Running
  <2>2. Calm
    BY <1>6, <2>1 DEF Calm
  <2>3. PICK f \in Frames : f = Call(t, k) /\ f.do = "use" /\ f.by = t /\ f.then = k
    BY FrameType DEF Call
  <2>4. Inner(f) /\ Fits(f.do, f.by, f.then)'
    BY <1>6, <2>3 DEF Inner, Fits
  <2> QED BY <1>3, <1>6, <2>1, <2>2, <2>3, <2>4, UseSettles
<1>7. CASE /\ kind[t] = "relay"
           /\ stack' = <<Call(t, "once")>> \o below
           /\ UNCHANGED <<fields, due, mode, left, age, touch, lit, global, early, refused>>
  <2>1. stack' \in Seq(Frames) /\ Shape(stack)' /\ FramesFit' /\ Running' = Running
    BY <1>6, <1>7 DEF fields, KindsFor
  <2>2. KindsFit'
    BY <1>7, SameKinds DEF fields
  <2>3. TypeOK'
    BY <1>4, <1>5, <1>7, <2>1 DEF TypeOK, fields
  <2> QED BY <2>1, <2>2, <2>3 DEF Inv
<1>8. CASE /\ kind[t] = "counter" /\ CounterUse(t, below)
           /\ UNCHANGED <<fields, due, mode, age, touch, lit, global, early>>
  <2>1. /\ left' = [left EXCEPT ![t] = IF @ < 0 THEN @ ELSE @ - 1]
        /\ stack' = below \/ stack' = <<Call(t, "trigger")>> \o below
        /\ refused' = refused \/ refused' = refused \cup {t}
    BY <1>8 DEF CounterUse
  <2>2. left' \in [Ents -> Int] /\ \A e \in Running : left'[e] = left[e]
    BY <1>4, <1>8, <2>1 DEF TypeOK, Running
  <2>3. stack' \in Seq(Frames) /\ Shape(stack)' /\ FramesFit' /\ Running' = Running
    BY <1>6, <1>8, <2>1, <2>2 DEF fields, KindsFor
  <2>4. KindsFit'
    BY <1>8, SameKinds DEF fields
  <2>5. refused' \subseteq Ents
    BY <1>4, <2>1 DEF TypeOK
  <2>6. TypeOK'
    BY <1>4, <1>5, <1>8, <2>2, <2>3, <2>5 DEF TypeOK, fields
  <2> QED BY <2>3, <2>4, <2>6 DEF Inv
<1>9. CASE /\ kind[t] \in {"manager", "clone"} /\ ManagerUse(t, below)
           /\ UNCHANGED <<level, touch, lit, global, early, refused>>
  BY <1>3, <1>5, <1>9, ManagerUseInv
<1>10. CASE /\ kind[t] = "multisource" /\ MultisourceUse(t, Top.by, below)
            /\ UNCHANGED <<fields, due, mode, left, age, touch, global, refused>>
  <2>1. /\ lit' \in [Ents -> SUBSET Ents] /\ early' \subseteq Ents
        /\ stack' = below \/ stack' = <<Call(t, "none")>> \o below
    BY <1>1, <1>4, <1>10, TopFrame, MultisourceUseTypes
  <2>2. stack' \in Seq(Frames) /\ Shape(stack)' /\ FramesFit' /\ Running' = Running
    BY <1>6, <1>10, <2>1 DEF fields, KindsFor
  <2>3. KindsFit'
    BY <1>10, SameKinds DEF fields
  <2>4. TypeOK'
    BY <1>4, <1>5, <1>10, <2>1, <2>2 DEF TypeOK, fields
  <2> QED BY <2>2, <2>3, <2>4 DEF Inv
<1>11. CASE /\ kind[t] = "button" /\ ButtonUse(t, below)
            /\ UNCHANGED <<fields, left, age, lit, global, early, refused>>
  <2>1. Pushes(t, below)
    BY <1>4, <1>11, ButtonUsePushes
  <2>2. Shape(below) /\ \A d, e, u : Has(below, d, e, u) => Has(stack, d, e, u)
    BY <1>3, <1>4, AlikeKeeps DEF Inv, TypeOK
  <2>3. UNCHANGED <<kind, of, list, left>>
    BY <1>11 DEF fields
  <2>4. /\ Shape(stack)' /\ FramesFit' /\ Running' = Running
        /\ mode' \in [Ents -> Modes] /\ due' \in [Ents -> Nat \cup {Never}]
        /\ touch' \subseteq Ents /\ stack' \in Seq(Frames)
    BY <1>11, <2>1, <2>2, <2>3, ButtonSettles
  <2>5. KindsFit'
    BY <1>11, SameKinds DEF fields
  <2>6. TypeOK'
    BY <1>4, <1>5, <1>11, <2>4 DEF TypeOK, fields, Modes
  <2> QED BY <2>4, <2>5, <2>6 DEF Inv
<1>12. CASE /\ stack' = below /\ (GlobalUse(t) \/ UNCHANGED global)
            /\ UNCHANGED <<fields, due, mode, left, age, touch, lit, early, refused>>
  <2>1. global' \in GlobalStates
    <3>1. global \in GlobalStates /\ level.sets[of[t]] \in GlobalStates \cup {"toggle"}
      BY <1>4, LevelType DEF TypeOK
    <3>2. CASE GlobalUse(t)
      BY <3>1, <3>2 DEF GlobalUse, GlobalStates
    <3> QED BY <1>12, <3>1, <3>2
  <2>2. Running' = Running /\ Calm
    BY <1>12 DEF Running, Calm, fields
  <2>3. stack' \in Seq(Frames) /\ Shape(stack)' /\ FramesFit'
    BY <1>3, <1>12, <2>2, UseSettles
  <2>4. KindsFit'
    BY <1>12, SameKinds DEF fields
  <2>5. TypeOK'
    BY <1>4, <1>5, <1>12, <2>1, <2>2, <2>3 DEF TypeOK, fields
  <2> QED BY <2>3, <2>4, <2>5 DEF Inv
<1> QED BY <1>2, <1>3, <1>7, <1>8, <1>9, <1>10, <1>11, <1>12 DEF FireNext

\* A call returns, and the calls below it go on.
LEMMA PopSettles ==
  ASSUME Inv, stack # <<>>, stack' = Tail(stack), Calm
  PROVE  Shape(stack)' /\ FramesFit'
<1>1. stack \in Seq(Frames) /\ Shape(stack)
  BY DEF Inv, TypeOK
<1>2. PICK r \in Seq(Frames) : r = Tail(stack)
  BY <1>1, PopFrame
<1>3. Shape(r) /\ \A d, e, t : Has(r, d, e, t) => Has(stack, d, e, t)
  BY <1>1, <1>2, PopKeeps
<1>4. ASSUME NEW d, NEW e, NEW t, Has(r, d, e, t) PROVE Fits(d, e, t)'
  <2>1. e \in Ents /\ Fits(d, e, t)
    BY <1>3, <1>4, HasFrame DEF Inv, FramesFit
  <2> QED BY <2>1, CalmFits
<1>5. PICK F : F = {}
  OBVIOUS
<1>6. stack' \in Seq(Frames) /\ OnTop(stack', F, r)
  BY <1>2, PushNone
<1>7. \A f \in F : Inner(f) /\ Fits(f.do, f.by, f.then)'
  BY <1>5
<1>8. \A d, e, t : Has(r, d, e, t) => Fits(d, e, t)'
  BY <1>4
<1> QED BY <1>3, <1>6, <1>7, <1>8, Settles

\* An entry of a list has been fired: below it there is only the run it belongs to.
LEMMA NextOfRun ==
  ASSUME Inv, stack # <<>>, Top.then = "next"
  PROVE  /\ Top.do = "fire" /\ Len(stack) = 2
         /\ stack[2].do = "run" /\ stack[2].by = Top.by
         /\ \A d, e, t : Has(Tail(stack), d, e, t) => d = "run" /\ t # "next"
         /\ Top.by \in Running /\ left[Top.by] \in 1 .. Len(list[Top.by])
<1>1. stack \in Seq(Frames) /\ Shape(stack) /\ Top = stack[1] /\ Len(stack) \in Nat \ {0}
  BY TopFrame DEF Inv, TypeOK
<1>2. /\ Top.do = "fire" /\ Len(stack) = 2
      /\ stack[2].do = "run" /\ stack[2].by = Top.by
  <2>1. 1 \in 1 .. Len(stack)
    BY <1>1
  <2>2. Top.do = "fire" /\ 1 + 1 = Len(stack) /\ stack[1 + 1].do = "run"
        /\ stack[1 + 1].by = Top.by
    BY <1>1, <2>1 DEF Shape
  <2> QED BY <2>2
<1>3. stack[2].then # "next"
  <2>1. 2 \in 1 .. Len(stack)
    BY <1>2
  <2> QED BY <1>1, <1>2, <2>1 DEF Shape
<1>4. ASSUME NEW d, NEW e, NEW t, Has(Tail(stack), d, e, t) PROVE d = "run" /\ t # "next"
  <2>1. PICK r : r = Tail(stack)
    OBVIOUS
  <2>2. Len(r) = 1 /\ r[1] = stack[2]
    <3>1. Len(r) = Len(stack) - 1 /\ \A i \in 1 .. Len(stack) - 1 : r[i] = stack[i + 1]
      BY <1>1, <2>1, PopFrame
    <3>2. Len(stack) - 1 = 1 /\ 1 \in 1 .. 1 /\ 1 + 1 = 2
      BY <1>2
    <3> QED BY <3>1, <3>2
  <2>3. PICK i \in 1 .. Len(r) : r[i].do = d /\ r[i].by = e /\ r[i].then = t
    BY <1>4, <2>1 DEF Has
  <2>4. i = 1
    BY <2>2
  <2> QED BY <1>2, <1>3, <2>2, <2>3, <2>4
<1>5. Top.by \in Running /\ left[Top.by] <= Len(list[Top.by])
  BY TopFrame DEF Fits
<1>6. left[Top.by] \in 1 .. Len(list[Top.by])
  BY <1>5, RunningList
<1> QED BY <1>2, <1>4, <1>5, <1>6

LEMMA FireDoneInv == ASSUME Inv, FireDone PROVE Inv'
<1>1. stack # <<>> /\ Top.do = "fire"
  BY DEF FireDone
<1>2. PICK e \in Ents : e = Top.by
  BY <1>1, TopFrame
<1>3. /\ Fits("fire", e, Top.then) /\ TypeOK /\ stack \in Seq(Frames) /\ Shape(stack)
      /\ (Top.then = "delayed" => Len(stack) = 1)
  BY <1>1, <1>2, TopFrame DEF Inv, TypeOK
<1>4. PICK below \in Seq(Frames) : below = Tail(stack)
  BY <1>1, <1>3, PopFrame
<1>5. UNCHANGED <<level, of, list, age, members, last, lit, global, fired, early, refused>>
  BY DEF FireDone, history
<1>6. ASSUME stack' = below, UNCHANGED <<kind, left>>, killed' \subseteq Ents,
             due' \in [Ents -> Nat \cup {Never}], mode' \in [Ents -> Modes],
             \A x \in Ents : mode'[x] = mode[x] \/ (x = e /\ e \notin Running
                                                        /\ mode'[x] # "running"),
             touch' \subseteq Ents
      PROVE  Inv'
  <2>1. Running' = Running
    BY <1>3, <1>6 DEF Running, TypeOK
  <2>2. Calm
    BY <1>5, <1>6, <2>1 DEF Calm
  <2>3. Shape(stack)' /\ FramesFit'
    BY <1>1, <1>4, <1>6, <2>2, PopSettles
  <2>4. KindsFit'
    BY <1>5, <1>6, SameKinds
  <2>5. TypeOK'
    BY <1>3, <1>4, <1>5, <1>6, <2>1 DEF TypeOK, Modes
  <2> QED BY <2>3, <2>4, <2>5 DEF Inv
<1>7. /\ due \in [Ents -> Nat \cup {Never}] /\ mode \in [Ents -> Modes]
      /\ touch \subseteq Ents /\ killed \subseteq Ents
  BY <1>3 DEF TypeOK, Modes
<1>8. CASE /\ stack' = below /\ killed' \subseteq Ents /\ touch' \subseteq Ents
           /\ UNCHANGED <<kind, due, mode, left>>
  BY <1>6, <1>7, <1>8
<1>9. CASE Top.then = "trigger" /\ TriggerFired(e) /\ stack' = below
           /\ UNCHANGED <<kind, killed, left>>
  <2>1. e \notin Running
    BY <1>3, <1>9 DEF Fits, KindsFor, Running
  <2>2. /\ due' \in [Ents -> Nat \cup {Never}] /\ mode' \in [Ents -> Modes]
        /\ \A x \in Ents : mode'[x] = mode[x] \/ (x = e /\ mode'[x] # "running")
        /\ touch' \subseteq Ents
    <3>1. CASE Wait(e) > 0
      <4>1. Wait(e) \in Nat
        <5>1. Wait(e) \in {Never} \cup Nat
          BY <1>3, LevelType
        <5> QED BY <3>1, <5>1 DEF Never
      <4> QED BY <1>7, <1>9, <3>1, <4>1 DEF TriggerFired
    <3>2. CASE ~(Wait(e) > 0)
      BY <1>7, <1>9, <3>2 DEF TriggerFired, Modes
    <3> QED BY <3>1, <3>2
  <2> QED BY <1>6, <1>7, <1>9, <2>1, <2>2
<1>10. CASE Top.then = "next" /\ left' = [left EXCEPT ![e] = @ + 1] /\ stack' = below
            /\ UNCHANGED <<kind, killed, due, mode, touch>>
  <2>1. /\ e \in Running /\ left[e] \in 1 .. Len(list[e])
        /\ \A d, x, t : Has(below, d, x, t) => d = "run" /\ t # "next"
    BY <1>1, <1>2, <1>4, <1>10, NextOfRun
  <2>2. Running' = Running
    BY <1>5, <1>10 DEF Running
  <2>3. left' \in [Ents -> Int] /\ \A x \in Running' : left'[x] \in 1 .. Len(list'[x]) + 1
    <3>1. Len(list[e]) \in Nat
      BY <1>3, LenProperties DEF TypeOK
    <3>2. left' \in [Ents -> Int] /\ left'[e] = left[e] + 1
          /\ \A x \in Ents : x # e => left'[x] = left[x]
      BY <1>3, <1>10 DEF TypeOK
    <3>3. ASSUME NEW x \in Running' PROVE left'[x] \in 1 .. Len(list'[x]) + 1
      <4>1. x \in Running /\ x \in Ents /\ list'[x] = list[x]
        BY <1>5, <2>2 DEF Running
      <4>2. CASE x = e
        BY <2>1, <3>1, <3>2, <4>1, <4>2
      <4>3. CASE x # e
        BY <1>3, <3>2, <4>1, <4>3 DEF TypeOK
      <4> QED BY <4>2, <4>3
    <3> QED BY <3>2, <3>3
  <2>4. TypeOK'
    BY <1>3, <1>4, <1>5, <1>10, <2>2, <2>3 DEF TypeOK
  <2>5. KindsFit'
    BY <1>5, <1>10, SameKinds
  <2>6. Shape(stack')
    BY <1>1, <1>3, <1>4, <1>10, PopKeeps
  <2>7. ASSUME NEW d, NEW x, NEW t, Has(stack', d, x, t) PROVE Fits(d, x, t)'
    <3>1. t # "next" /\ Fits(d, x, t)
      <4>1. Has(stack, d, x, t)
        BY <1>1, <1>3, <1>4, <1>10, <2>7, PopKeeps
      <4> QED BY <1>10, <2>1, <2>7, <4>1 DEF Inv, FramesFit
    <3> QED BY <1>10, <2>2, <3>1 DEF Fits
  <2> QED BY <2>4, <2>5, <2>6, <2>7 DEF Inv, FramesFit, Shape, Has
<1>11. CASE Top.then = "return" /\ ButtonReturn(e, below, touch)
            /\ UNCHANGED <<kind, killed, left>>
  <2>1. kind[e] = "button"
    BY <1>3, <1>11 DEF Fits, KindsFor
  <2>2. Pushes(e, below)
    BY <1>3, <1>7, <1>11, ButtonReturnPushes
  <2>3. Shape(below) /\ \A d, x, u : Has(below, d, x, u) => Has(stack, d, x, u)
    BY <1>1, <1>3, <1>4, PopKeeps
  <2>4. /\ Shape(stack)' /\ FramesFit' /\ Running' = Running
        /\ mode' \in [Ents -> Modes] /\ due' \in [Ents -> Nat \cup {Never}]
        /\ touch' \subseteq Ents /\ stack' \in Seq(Frames)
    BY <1>5, <1>11, <2>1, <2>2, <2>3, ButtonSettles
  <2>5. KindsFit'
    BY <1>5, <1>11, SameKinds
  <2>6. TypeOK'
    BY <1>3, <1>5, <1>11, <2>4 DEF TypeOK, Modes
  <2> QED BY <2>4, <2>5, <2>6 DEF Inv
<1>12. CASE Top.then = "delayed" /\ kind' = [kind EXCEPT ![e] = "free"] /\ stack' = below
            /\ UNCHANGED <<killed, due, mode, left, touch>>
  <2>1. kind[e] = "delayed" /\ Len(stack') = 0 /\ stack' \in Seq(Frames)
    BY <1>1, <1>3, <1>4, <1>12, PopFrame DEF Fits, KindsFor
  <2>2. Running' = Running
    BY <1>3, <1>12, <2>1 DEF Running, TypeOK
  <2>3. TypeOK'
    <3>1. kind' \in [Ents -> Kinds]
      BY <1>3, <1>12 DEF TypeOK, Kinds
    <3> QED BY <1>3, <1>5, <1>12, <2>1, <2>2, <3>1 DEF TypeOK
  <2>4. KindsFit'
    BY <1>3, <1>5, <1>12 DEF Inv, KindsFit, TypeOK
  <2> QED BY <2>1, <2>3, <2>4, FewFrames DEF Inv
<1> QED
  <2>1. CASE Top.then \in {"none", "once", "rest"}
    <3>1. killed' \subseteq Ents /\ touch' \subseteq Ents
          /\ stack' = below /\ UNCHANGED <<kind, due, mode, left>>
      BY <1>2, <1>4, <1>7, <2>1 DEF FireDone
    <3> QED BY <1>8, <3>1
  <2>2. CASE Top.then \notin {"none", "once", "rest"}
    BY <1>2, <1>4, <1>9, <1>10, <1>11, <1>12, <2>2 DEF FireDone
  <2> QED BY <2>1, <2>2

(***************************************************************************)
(* What the engine calls keeps the invariant                               *)
(***************************************************************************)

LEMMA OneFrame ==
  ASSUME NEW f \in Frames, stack' = <<f>>, f.then # "next", Fits(f.do, f.by, f.then)'
  PROVE  stack' \in Seq(Frames) /\ Shape(stack)' /\ FramesFit'
<1>1. stack' \in Seq(Frames) /\ Len(stack') = 1 /\ stack'[1] = f
  OBVIOUS
<1>2. \A i \in 1 .. 1 : i = 1
  OBVIOUS
<1>3. Shape(stack')
  BY <1>1, <1>2 DEF Shape
<1>4. ASSUME NEW d, NEW e, NEW t, Has(stack', d, e, t) PROVE Fits(d, e, t)'
  <2>1. d = f.do /\ e = f.by /\ t = f.then
    BY <1>1, <1>2, <1>4 DEF Has
  <2> QED BY <2>1
<1> QED BY <1>1, <1>3, <1>4 DEF FramesFit, Shape, Has

\* When nothing is called and no slot is taken, only the types are at stake.
LEMMA QuietInv ==
  ASSUME Inv, Idle, stack' = stack,
         UNCHANGED <<level, of, list, left, lit, global, fired, early, refused, touch>>,
         \A e \in Ents : kind'[e] = kind[e] \/ kind'[e] = "free",
         \A e \in Ents : mode'[e] = mode[e] \/ mode'[e] # "running",
         kind' \in [Ents -> Kinds], due' \in [Ents -> Nat \cup {Never}],
         mode' \in [Ents -> Modes], killed' \subseteq Ents, age' \in [Ents -> Nat],
         members' \in [Ents -> SUBSET Ents], last' \in [Ents -> 0 .. Slots]
  PROVE  Inv'
<1>1. TypeOK /\ KindsFit
  BY DEF Inv
<1>2. Running' \subseteq Running
  BY DEF Running
<1>3. TypeOK'
  BY <1>1, <1>2 DEF TypeOK, Modes
<1>4. KindsFit'
  BY <1>1 DEF KindsFit
<1>5. stack' \in Seq(Frames) /\ Len(stack') = 0
  BY <1>1 DEF Idle, TypeOK
<1> QED BY <1>3, <1>4, <1>5, FewFrames DEF Inv

LEMMA ButtonInv ==
  ASSUME Inv, Idle, NEW e \in Ents, kind[e] = "button", Pushes(e, <<>>),
         UNCHANGED <<fields, left, age, members, last, lit, global, killed, history>>
  PROVE  Inv'
<1>1. PICK r : r = <<>>
  OBVIOUS
<1>6. r \in Seq(Frames) /\ Len(r) = 0
  BY <1>1
<1>2. Shape(r) /\ \A d, x, u : Has(r, d, x, u) => Has(stack, d, x, u)
  BY <1>6, NoFrames
<1>3. /\ Shape(stack)' /\ FramesFit' /\ Running' = Running
      /\ mode' \in [Ents -> Modes] /\ due' \in [Ents -> Nat \cup {Never}]
      /\ touch' \subseteq Ents /\ stack' \in Seq(Frames)
  BY <1>1, <1>2, <1>6, ButtonSettles DEF fields
<1>4. KindsFit'
  BY SameKinds DEF fields
<1>5. TypeOK'
  BY <1>3 DEF Inv, TypeOK, fields, history, Modes
<1> QED BY <1>3, <1>4, <1>5 DEF Inv

\* A function is called whose first step is a frame.
LEMMA CalledInv ==
  ASSUME Inv, Idle, NEW f \in Frames, stack' = <<f>>, f.then # "next",
         Fits(f.do, f.by, f.then),
         due' \in [Ents -> Nat \cup {Never}], touch' \subseteq Ents,
         UNCHANGED <<fields, mode, left, age, members, last, lit, global, killed, history>>
  PROVE  Inv'
<1>1. Running' = Running
  BY DEF Running, fields
<1>2. Fits(f.do, f.by, f.then)'
  BY <1>1 DEF Fits, fields
<1>3. stack' \in Seq(Frames) /\ Shape(stack)' /\ FramesFit'
  BY <1>2, OneFrame
<1>4. KindsFit'
  BY SameKinds DEF fields
<1>5. TypeOK'
  BY <1>1, <1>3 DEF Inv, TypeOK, fields, history
<1> QED BY <1>3, <1>4, <1>5 DEF Inv

LEMMA PlayerInv == ASSUME Inv, NEW e \in Ents, Player(e) PROVE Inv'
<1>1. /\ TypeOK /\ due \in [Ents -> Nat \cup {Never}] /\ touch \subseteq Ents
      /\ touch \ {e} \in SUBSET Ents /\ <<>> \in Seq(Frames)
  BY DEF Inv, TypeOK
<1>2. CASE MultiTouch(e)
  <2>1. /\ Idle /\ kind[e] = "multiple" /\ stack' = <<Call(e, "trigger")>>
        /\ UNCHANGED <<fields, due, mode, left, age, touch, members, last, lit, global,
                       killed, history>>
    BY <1>2 DEF MultiTouch
  <2>2. PICK f \in Frames :
          f = Call(e, "trigger") /\ f.do = "use" /\ f.by = e /\ f.then = "trigger"
    BY FrameType DEF Call
  <2>3. Fits(f.do, f.by, f.then)
    BY <2>1, <2>2 DEF Fits, KindsFor
  <2> QED BY <1>1, <2>1, <2>2, <2>3, CalledInv
<1>3. CASE ButtonTouch(e)
  <2>1. /\ Idle /\ kind[e] = "button"
        /\ UNCHANGED <<fields, left, age, members, last, lit, global, killed, history>>
    BY <1>3 DEF ButtonTouch
  <2>2. CASE ButtonActivate(e, <<>>, touch \ {e})
    BY <1>1, <2>1, <2>2, ButtonActivatePushes, ButtonInv
  <2>3. CASE /\ stack' = <<Call(e, "return")>> /\ touch' = touch \ {e}
             /\ UNCHANGED <<mode, due>>
    <3>1. PICK f \in Frames :
            f = Call(e, "return") /\ f.do = "use" /\ f.by = e /\ f.then = "return"
      BY FrameType DEF Call
    <3>2. Fits(f.do, f.by, f.then)
      BY <2>1, <3>1 DEF Fits, KindsFor
    <3> QED BY <1>1, <2>1, <2>3, <3>1, <3>2, CalledInv
  <2> QED BY <1>3, <2>2, <2>3 DEF ButtonTouch
<1>4. CASE PlayerUse(e)
  BY <1>1, <1>4, ButtonUsePushes, ButtonInv DEF PlayerUse
<1>5. CASE ButtonShot(e)
  <2>1. /\ Idle /\ kind[e] = "button"
        /\ UNCHANGED <<fields, left, age, members, last, lit, global, killed, history>>
        /\ \/ ButtonActivate(e, <<>>, touch \ {e})
           \/ ButtonReturn(e, <<>>, touch \ {e})
    BY <1>5 DEF ButtonShot
  <2> QED BY <1>1, <2>1, ButtonActivatePushes, ButtonReturnPushes, ButtonInv
<1> QED BY <1>2, <1>3, <1>4, <1>5 DEF Player

LEMMA RegisteredTypes ==
  ASSUME TypeOK, NEW m \in Ents, Registered(m)
  PROVE  /\ members' \in [Ents -> SUBSET Ents] /\ last' \in [Ents -> 0 .. Slots]
         /\ mode' = [mode EXCEPT ![m] = "set"]
<1> DEFINE n == level.name[m]
           targeting == {e \in Ents : kind[e] # "free" /\ Target(e) = n}
           managing == {e \in Ents : /\ kind[e] \in {"manager", "clone"}
                                     /\ \E i \in 1 .. Len(list[e]) : list[e][i].name = n}
           all == targeting \cup managing
<1>1. /\ members' = [members EXCEPT ![m] = all]
      /\ last' = [last EXCEPT ![m] = IF managing # {} THEN Final(managing)
                                     ELSE IF all # {} THEN Final(all) ELSE 0]
      /\ mode' = [mode EXCEPT ![m] = "set"]
  BY DEF Registered
<1>2. all \subseteq Ents /\ managing \subseteq Ents
  OBVIOUS
<1>3. /\ managing # {} => Final(managing) \in Ents
      /\ all # {} => Final(all) \in Ents
  BY <1>2, FinalIn
<1>4. PICK M, l : M = all /\ l = IF managing # {} THEN Final(managing)
                                 ELSE IF all # {} THEN Final(all) ELSE 0
  OBVIOUS
<1>5. members' = [members EXCEPT ![m] = M] /\ last' = [last EXCEPT ![m] = l]
  BY <1>1, <1>4
<1>6. l \in 0 .. Slots
  <2>1. l \in Ents \/ l = 0
    BY <1>3, <1>4
  <2> QED BY <2>1, SlotsNat DEF Ents
<1>7. members \in [Ents -> SUBSET Ents] /\ last \in [Ents -> 0 .. Slots]
  BY DEF TypeOK
<1>8. M \in SUBSET Ents
  BY <1>2, <1>4
<1> HIDE DEF n, targeting, managing, all
<1>9. members' \in [Ents -> SUBSET Ents] /\ last' \in [Ents -> 0 .. Slots]
  BY <1>5, <1>6, <1>7, <1>8
<1> QED BY <1>1, <1>9

LEMMA ThinkInv == ASSUME Inv, Timely, NEW e \in Ents, Think(e) PROVE Inv'
<1>1. /\ TypeOK /\ due \in [Ents -> Nat \cup {Never}] /\ touch \in SUBSET Ents
      /\ mode \in [Ents -> Modes] /\ kind \in [Ents -> Kinds] /\ <<>> \in Seq(Frames)
      /\ [due EXCEPT ![e] = Never] \in [Ents -> Nat \cup {Never}]
  BY DEF Inv, TypeOK, Modes
<1>2. CASE TriggerThink(e)
  <2>1. /\ Idle /\ due' = [due EXCEPT ![e] = Never]
        /\ kind' = [kind EXCEPT ![e] = "free"] \/ kind' = kind
        /\ UNCHANGED <<level, of, list, mode, left, age, touch, members, last, lit, global,
                       killed, stack, fired, early, refused>>
    BY <1>2 DEF TriggerThink, ThinkTime, history
  <2>2. /\ kind' \in [Ents -> Kinds] /\ due' \in [Ents -> Nat \cup {Never}]
        /\ \A x \in Ents : kind'[x] = kind[x] \/ kind'[x] = "free"
    BY <1>1, <2>1 DEF Kinds
  <2>3. /\ mode' \in [Ents -> Modes] /\ killed' \subseteq Ents /\ age' \in [Ents -> Nat]
        /\ members' \in [Ents -> SUBSET Ents] /\ last' \in [Ents -> 0 .. Slots]
        /\ \A x \in Ents : mode'[x] = mode[x]
    BY <1>1, <2>1 DEF TypeOK
  <2> QED BY <2>1, <2>2, <2>3, QuietInv
<1>3. CASE CallThink(e)
  <2>1. /\ Idle /\ due' = [due EXCEPT ![e] = Never]
        /\ UNCHANGED <<fields, mode, left, age, touch, members, last, lit, global, killed,
                       history>>
    BY <1>3 DEF CallThink, ThinkTime
  <2>2. due' \in [Ents -> Nat \cup {Never}] /\ touch' \subseteq Ents
    BY <1>1, <2>1
  <2>3. ASSUME NEW d \in {"use", "run"}, NEW t \in {"once", "none", "delayed"},
               stack' = <<Frame(d, e, t)>>, Fits(d, e, t)
        PROVE  Inv'
    <3>1. PICK f \in Frames : f = Frame(d, e, t) /\ f.do = d /\ f.by = e /\ f.then = t
      BY FrameType
    <3> QED BY <2>1, <2>2, <2>3, <3>1, CalledInv
  <2>4. CASE kind[e] = "auto" /\ stack' = <<>>
    <3>1. stack' \in Seq(Frames) /\ Len(stack') = 0
      BY <2>4
    <3>2. TypeOK' /\ KindsFit'
      <4>1. Running' = Running
        BY <2>1 DEF Running, fields
      <4>2. KindsFit'
        BY <2>1, SameKinds DEF fields
      <4> QED BY <1>1, <2>1, <2>2, <3>1, <4>1, <4>2 DEF TypeOK, fields, history
    <3> QED BY <3>1, <3>2, FewFrames DEF Inv
  <2>5. CASE kind[e] = "auto" /\ stack' = <<Call(e, "once")>>
    <3>1. Fits("use", e, "once")
      BY <2>5 DEF Fits, KindsFor
    <3> QED BY <2>3, <2>5, <3>1 DEF Call
  <2>6. CASE kind[e] \in {"manager", "clone"} /\ stack' = <<Frame("run", e, "none")>>
    <3>1. e \in Running
      <4>1. due[e] # Never
        BY <1>3 DEF CallThink, ThinkTime, Never
      <4> QED BY <2>6, <4>1 DEF Timely, TimelyFor
    <3>2. Fits("run", e, "none")
      BY <2>6, <3>1 DEF Fits, KindsFor
    <3> QED BY <2>3, <2>6, <3>2
  <2>7. CASE kind[e] = "delayed" /\ stack' = <<Call(e, "delayed")>>
    <3>1. Fits("use", e, "delayed")
      BY <2>7 DEF Fits, KindsFor
    <3> QED BY <2>3, <2>7, <3>1 DEF Call
  <2> QED BY <1>3, <2>4, <2>5, <2>6, <2>7 DEF CallThink
<1>4. CASE Register(e)
  <2>1. /\ Idle /\ due' = [due EXCEPT ![e] = Never] /\ Registered(e)
        /\ UNCHANGED <<level, kind, of, list, left, age, touch, lit, global, killed, stack,
                       fired, early, refused>>
    BY <1>4 DEF Register, ThinkTime, fields, history
  <2>2. /\ members' \in [Ents -> SUBSET Ents] /\ last' \in [Ents -> 0 .. Slots]
        /\ mode' = [mode EXCEPT ![e] = "set"]
    BY <1>1, <2>1, RegisteredTypes
  <2>3. mode' \in [Ents -> Modes] /\ \A x \in Ents : mode'[x] = mode[x] \/ mode'[x] # "running"
    BY <1>1, <2>2 DEF Modes
  <2>4. /\ kind' \in [Ents -> Kinds] /\ due' \in [Ents -> Nat \cup {Never}]
        /\ killed' \subseteq Ents /\ age' \in [Ents -> Nat]
        /\ \A x \in Ents : kind'[x] = kind[x]
    BY <1>1, <2>1 DEF TypeOK
  <2> QED BY <2>1, <2>2, <2>3, <2>4, QuietInv
<1>5. CASE ButtonThink(e)
  BY <1>1, <1>5, TriggerAndWaitPushes, ButtonReturnPushes, ButtonBackHomePushes, ButtonInv
     DEF ButtonThink, ThinkTime
<1> QED BY <1>2, <1>3, <1>4, <1>5 DEF Think

LEMMA ReapInv == ASSUME Inv, NEW e \in Ents, Reap(e) PROVE Inv'
<1>1. /\ Idle /\ kind' = [kind EXCEPT ![e] = "free"] /\ killed' = killed \ {e}
      /\ UNCHANGED <<level, of, list, due, mode, left, age, touch, members, last, lit, global,
                     stack, fired, early, refused>>
  BY DEF Reap, history
<1>2. /\ kind' \in [Ents -> Kinds] /\ \A x \in Ents : kind'[x] = kind[x] \/ kind'[x] = "free"
      /\ killed' \subseteq Ents
  BY <1>1 DEF Inv, TypeOK, Kinds
<1>3. /\ mode' \in [Ents -> Modes] /\ due' \in [Ents -> Nat \cup {Never}]
      /\ age' \in [Ents -> Nat] /\ members' \in [Ents -> SUBSET Ents]
      /\ last' \in [Ents -> 0 .. Slots] /\ \A x \in Ents : mode'[x] = mode[x]
  BY <1>1 DEF Inv, TypeOK, Modes
<1> QED BY <1>1, <1>2, <1>3, QuietInv

LEMMA ClockInv == ASSUME Inv, Tick \/ Load PROVE Inv'
<1>1. /\ Idle
      /\ UNCHANGED <<level, kind, of, list, mode, left, touch, members, last, lit, global,
                     killed, stack, fired, early, refused>>
  BY DEF Tick, Load, fields, history
<1>2. due \in [Ents -> Nat \cup {Never}] /\ age \in [Ents -> Nat]
  BY DEF Inv, TypeOK
<1>3. due' \in [Ents -> Nat \cup {Never}] /\ age' \in [Ents -> Nat]
  <2>1. CASE Tick
    <3>1. /\ due' = [x \in Ents |-> IF due[x] > 0 THEN due[x] - 1 ELSE due[x]]
          /\ age' = [x \in Ents |-> IF x \in Running THEN age[x] + 1 ELSE age[x]]
      BY <2>1 DEF Tick
    <3> QED BY <1>2, <3>1 DEF Never
  <2>2. CASE Load
    <3>1. /\ due' = [x \in Ents |-> IF kind[x] = "auto" THEN 1 ELSE due[x]]
          /\ age' = age
      BY <2>2 DEF Load
    <3> QED BY <1>2, <3>1
  <2> QED BY <2>1, <2>2
<1>4. /\ kind' \in [Ents -> Kinds] /\ mode' \in [Ents -> Modes] /\ killed' \subseteq Ents
      /\ members' \in [Ents -> SUBSET Ents] /\ last' \in [Ents -> 0 .. Slots]
      /\ \A x \in Ents : mode'[x] = mode[x] /\ kind'[x] = kind[x]
  BY <1>1 DEF Inv, TypeOK, Modes
<1> QED BY <1>1, <1>3, <1>4, QuietInv

LEMMA StutterInv == ASSUME Inv, UNCHANGED vars PROVE Inv'
BY DEF Inv, TypeOK, KindsFit, Shape, FramesFit, Has, Fits, Running, vars

LEMMA StepInv == ASSUME Inv, Timely, [Next]_vars PROVE Inv'
BY ManagerLoopInv, UseTargetsInv, FireNextInv, FireDoneInv, PlayerInv, ThinkInv, ReapInv,
   ClockInv, StutterInv DEF Next, Calls

LEMMA InitInv == ASSUME Init PROVE Inv /\ Timely
<1>1. /\ level \in Levels /\ kind = level.kind /\ of = [e \in Ents |-> e]
      /\ list = [e \in Ents |-> Sorted(level.list[e])]
      /\ due = [e \in Ents |-> IF kind[e] \in {"auto", "multisource"} THEN 1 ELSE Never]
      /\ mode = [e \in Ents |-> CASE kind[e] = "multisource" -> "init"
                                  [] kind[e] = "button" -> "bottom"
                                  [] kind[e] = "manager" -> "ready"
                                  [] OTHER -> "armed"]
      /\ left = [e \in Ents |-> IF kind[e] # "counter" THEN 0
                                 ELSE IF level.count[e] = 0 THEN 2 ELSE level.count[e]]
      /\ age = [e \in Ents |-> 0] /\ touch \subseteq Ents
      /\ members = [e \in Ents |-> {}] /\ last = [e \in Ents |-> 0]
      /\ lit = [e \in Ents |-> {}] /\ global = level.global
      /\ killed = {} /\ stack = <<>>
      /\ fired = [e \in Ents |-> 0] /\ early = {} /\ refused = {}
  BY DEF Init
<1>2. level \in Level
  BY <1>1, LevelsAssumption, Zenon
<1>3. /\ level.kind \in [Ents -> Kinds \ {"clone", "delayed"}]
      /\ level.list \in [Ents -> Seq(Entries)] /\ level.count \in [Ents -> Nat]
      /\ level.global \in GlobalStates
  BY <1>2 DEF Level
<1>4. list \in [Ents -> Seq(Entries)]
  <2>1. \A e \in Ents : Sorted(level.list[e]) \in Seq(Entries)
    BY <1>3, SortedInOrder
  <2> QED BY <1>1, <2>1
<1>5. Running = {}
  BY <1>1 DEF Running
<1>6. TypeOK
  <2>1. kind \in [Ents -> Kinds] /\ of \in [Ents -> Ents] /\ left \in [Ents -> Int]
    BY <1>1, <1>3
  <2>2. due \in [Ents -> Nat \cup {Never}] /\ age \in [Ents -> Nat]
    BY <1>1
  <2>3. mode \in [Ents -> Modes]
    BY <1>1 DEF Modes
  <2>4. /\ members \in [Ents -> SUBSET Ents] /\ last \in [Ents -> 0 .. Slots]
        /\ lit \in [Ents -> SUBSET Ents] /\ fired \in [Ents -> 0 .. 2]
    BY <1>1, SlotsNat
  <2>5. stack \in Seq(Frames)
    BY <1>1
  <2> QED BY <1>1, <1>3, <1>4, <1>5, <2>1, <2>2, <2>3, <2>4, <2>5 DEF TypeOK, Modes
<1>7. KindsFit
  BY <1>1, <1>3 DEF KindsFit
<1>8. stack \in Seq(Frames) /\ Len(stack) = 0
  BY <1>1
<1>9. Shape(stack) /\ \A d, e, t : ~Has(stack, d, e, t)
  BY <1>8, NoFrames
<1>10. Timely
  <2> SUFFICES ASSUME NEW e \in Ents PROVE TimelyFor(e)
    BY DEF Timely
  <2>1. kind[e] \in {"manager", "clone"} => due[e] = Never
    BY <1>1
  <2>2. kind[e] # "delayed" /\ (kind[e] = "button" => mode[e] = "bottom")
    BY <1>1, <1>3
  <2> QED BY <1>5, <1>9, <2>1, <2>2 DEF TimelyFor, Runs
<1> QED BY <1>6, <1>7, <1>9, <1>10 DEF Inv, FramesFit

(***************************************************************************)
(* What is under way goes on                                               *)
(***************************************************************************)

SameBottom == \A e : (Runs(stack', e) <=> Runs(stack, e)) /\ (Delays(stack', e) <=> Delays(stack, e))

SameFor(e) == /\ kind'[e] = kind[e] /\ due'[e] = due[e] /\ mode'[e] = mode[e]
              /\ of'[e] = of[e] /\ (e \in killed => e \in killed')

LEMMA SameTimely ==
  ASSUME Timely, SameBottom, NEW e \in Ents, SameFor(e), level' = level
  PROVE  TimelyFor(e)'
<1>1. TimelyFor(e)
  BY DEF Timely
<1>2. e \in Running' <=> e \in Running
  BY DEF SameFor, Running
<1>3. Flag(e, "toggle")' = Flag(e, "toggle") /\ Stays(e)' = Stays(e) /\ MasterOf(e)' = MasterOf(e)
  BY DEF SameFor, Flag, Stays, Wait, MasterOf
<1>4. (Runs(stack, e)' <=> Runs(stack, e)) /\ (Delays(stack, e)' <=> Delays(stack, e))
  <2>1. (Runs(stack, e)' <=> Runs(stack', e)) /\ (Delays(stack, e)' <=> Delays(stack', e))
    BY DEF Runs, Delays, Has
  <2> QED BY <2>1 DEF SameBottom
<1> QED BY <1>1, <1>2, <1>3, <1>4 DEF TimelyFor, SameFor

LEMMA PushBottom ==
  ASSUME NEW s \in Seq(Frames), NEW st \in Seq(Frames), NEW F, OnTop(st, F, s),
         \A f \in F : f.do # "run" /\ f.then # "delayed"
  PROVE  \A e : (Runs(st, e) <=> Runs(s, e)) /\ (Delays(st, e) <=> Delays(s, e))
<1>1. \A d, e, t : Has(s, d, e, t) => Has(st, d, e, t)
  BY OnTopKeeps
<1>2. \A d, e, t : Has(st, d, e, t) =>
        Has(s, d, e, t) \/ \E f \in F : f.do = d /\ f.by = e /\ f.then = t
  BY OnTopKeeps
<1> QED BY <1>1, <1>2 DEF Runs, Delays

\* An entity that is not in the middle of its list has no run on the stack.
LEMMA NoRun == ASSUME Inv, NEW e, e \notin Running PROVE ~Runs(stack, e)
BY DEF Inv, FramesFit, Runs, Fits

LEMMA LockedByName ==
  ASSUME Inv, NEW b \in Ents, kind[b] = "button", ~MasterOpen(b)
  PROVE  MasterOf(b) # {}
<1>1. level.kind[b] # "free" /\ of[b] = b
  BY DEF Inv, KindsFit
<1>2. level.master \in [Ents -> Names]
  <2>1. level \in Level
    BY LevelType DEF Inv
  <2> QED BY <2>1 DEF Level
<1>3. PICK n \in Names : n = level.master[b]
  BY <1>2
<1>4. NamedAs(n) # {}
  BY <1>1, <1>3, Zenon DEF MasterOpen
<1>5. n # ""
  BY <1>4, Zenon DEF NamedAs
<1> QED BY <1>3, <1>5, Zenon DEF MasterOf

LEMMA ButtonTimely ==
  ASSUME Inv, Timely, NEW b \in Ents, kind[b] = "button", NEW r \in Seq(Frames), Pushes(b, r),
         \A e : (Runs(r, e) <=> Runs(stack, e)) /\ (Delays(r, e) <=> Delays(stack, e)),
         UNCHANGED <<level, kind, of, killed>>
  PROVE  Timely'
<1>1. PICK x \in Modes, y \in Nat \cup {Never} :
        /\ mode' = [mode EXCEPT ![b] = x] /\ due' = [due EXCEPT ![b] = y]
        /\ Resting(b, x, y) \/ (x = mode[b] /\ y = due[b])
  BY DEF Pushes
<1>2. mode \in [Ents -> Modes] /\ due \in [Ents -> Nat \cup {Never}]
  BY DEF Inv, TypeOK, Modes
<1>3. SameBottom
  <2>1. stack' \in Seq(Frames) /\ OnTop(stack', CallsOf(b), r)
    BY DEF Pushes
  <2>2. \A f \in CallsOf(b) : f.do # "run" /\ f.then # "delayed"
    BY DEF CallsOf
  <2>3. \A e : (Runs(stack', e) <=> Runs(r, e)) /\ (Delays(stack', e) <=> Delays(r, e))
    BY <2>1, <2>2, PushBottom
  <2> QED BY <2>3 DEF SameBottom
<1>4. ASSUME NEW e \in Ents, e # b PROVE TimelyFor(e)'
  <2>1. SameFor(e)
    BY <1>1, <1>2, <1>4 DEF SameFor
  <2> QED BY <1>3, <2>1, SameTimely
<1>5. TimelyFor(b)'
  <2>1. CASE x = mode[b] /\ y = due[b]
    <3>1. SameFor(b)
      BY <1>1, <1>2, <2>1 DEF SameFor
    <3> QED BY <1>3, <3>1, SameTimely
  <2>2. CASE Resting(b, x, y)
    <3>1. mode'[b] = x /\ due'[b] = y /\ kind'[b] = "button"
      BY <1>1, <1>2
    <3>2. Flag(b, "toggle")' = Flag(b, "toggle") /\ Stays(b)' = Stays(b)
          /\ MasterOf(b)' = MasterOf(b)
      BY DEF Flag, Stays, Wait, MasterOf
    <3>3. ~Runs(stack, b)'
      <4>1. b \notin Running
        BY DEF Running
      <4> QED BY <1>3, <4>1, NoRun DEF SameBottom, Runs, Has
    <3>4. b \notin Running'
      BY <3>1 DEF Running
    <3>5. x = "up" /\ ~MasterOpen(b) => MasterOf(b) # {}
      BY LockedByName
    <3> QED BY <2>2, <3>1, <3>2, <3>3, <3>4, <3>5 DEF TimelyFor, Resting
  <2> QED BY <1>1, <2>1, <2>2
<1> QED BY <1>4, <1>5 DEF Timely

LEMMA SingleFrame ==
  ASSUME Inv, Len(stack) = 1
  PROVE  \A d, e, t : Has(stack, d, e, t) => d = Top.do /\ e = Top.by /\ t = Top.then
<1>1. stack # <<>>
  <2>1. Len(<<>>) = 0
    OBVIOUS
  <2> QED BY <2>1
<1>2. Top = stack[1]
  BY <1>1, TopFrame
<1>3. \A i \in 1 .. 1 : i = 1
  OBVIOUS
<1> QED BY <1>2, <1>3 DEF Has

LEMMA ManagerLoopTimely == ASSUME Inv, Timely, ManagerLoop PROVE Timely'
<1>1. stack # <<>> /\ Top.do = "run"
  BY DEF ManagerLoop
<1>2. PICK e \in Ents : e = Top.by
  BY <1>1, TopFrame
<1>3. e \in Running /\ Len(stack) = 1 /\ stack \in Seq(Frames) /\ due[e] = Never
  <2>3. /\ e \in Running /\ Len(stack) = 1 /\ stack \in Seq(Frames) /\ Shape(stack)
        /\ Top = stack[1] /\ Top \in Frames /\ kind[e] \in KindsFor(Top.then)
    BY <1>1, <1>2, TopFrame DEF Fits, Inv, TypeOK
  <2>4. Top.then # "next"
    <3>1. 1 \in 1 .. Len(stack)
      BY <2>3
    <3> QED BY <1>1, <2>3, <3>1 DEF Shape
  <2>5. Top.then \in {"none", "once", "trigger", "next", "return", "rest", "delayed"}
    BY <2>3 DEF Frames
  <2>1. e \in Running /\ Len(stack) = 1 /\ stack \in Seq(Frames) /\ Top.then = "none"
    BY <2>3, <2>4, <2>5 DEF KindsFor, Running
  <2>2. Runs(stack, e)
    BY <1>1, <1>2, <2>1, TopFrame DEF Runs, Has
  <2> QED BY <2>1, <2>2 DEF Timely, TimelyFor
<1>4. UNCHANGED <<level, kind, of, list, left, age>>
  BY DEF ManagerLoop, fields
<1>5. CASE left[e] <= Len(list[e]) /\ list[e][left[e]].delay <= age[e]
  <2>1. PICK f \in Frames : /\ f = FireFrame(e, list[e][left[e]].name, "next")
                            /\ f.do = "fire" /\ f.by = e /\ f.then = "next"
    BY <1>3, <1>5, RunningList, FireFrameType
  <2>2. stack' = <<f>> \o stack /\ UNCHANGED <<mode, due, killed>>
    BY <1>2, <1>5, <2>1 DEF ManagerLoop
  <2>3. SameBottom
    <3>1. stack' \in Seq(Frames) /\ OnTop(stack', {f}, stack)
      BY <1>3, <2>2, PushOne
    <3> QED BY <1>3, <2>1, <3>1, PushBottom DEF SameBottom
  <2>4. \A x \in Ents : SameFor(x)
    BY <1>4, <2>2 DEF SameFor
  <2> QED BY <1>4, <2>3, <2>4, SameTimely DEF Timely
<1>6. CASE ~(left[e] <= Len(list[e]) /\ list[e][left[e]].delay <= age[e])
  <2>1. stack' = Tail(stack)
    BY <1>2, <1>6 DEF ManagerLoop
  <2>2. \A d, x, t : ~Has(stack', d, x, t)
    <3>1. PICK r \in Seq(Frames) : r = stack' /\ Len(r) = 0
      BY <1>1, <1>3, <2>1, PopFrame
    <3>2. \A d, x, t : ~Has(r, d, x, t)
      BY <3>1, NoFrames
    <3> QED BY <3>1, <3>2
  <2>3. /\ mode \in [Ents -> Modes] /\ due \in [Ents -> Nat \cup {Never}]
        /\ left[e] \in Int /\ Len(list[e]) \in Nat /\ age[e] \in Int
    BY LenProperties DEF Inv, TypeOK, Modes
  <2>4. \/ kind[e] = "clone" /\ killed' = killed \cup {e} /\ UNCHANGED <<mode, due>>
        \/ mode' = [mode EXCEPT ![e] = "ready"] /\ UNCHANGED <<due, killed>>
        \/ /\ due' = [due EXCEPT ![e] = Remaining(e)] /\ UNCHANGED <<mode, killed>>
           /\ Remaining(e) # Never
    <3>1. CASE left[e] > Len(list[e])
      BY <1>2, <1>6, <3>1 DEF ManagerLoop
    <3>2. CASE ~(left[e] > Len(list[e]))
      <4>1. left[e] <= Len(list[e])
        BY <2>3, <3>2
      <4>2. list[e][left[e]].delay \in Nat
        BY <1>3, <4>1, RunningList
      <4>3. Remaining(e) # Never
        BY <1>6, <2>3, <4>1, <4>2 DEF Remaining, Never
      <4>4. due' = [due EXCEPT ![e] = Remaining(e)] /\ UNCHANGED <<mode, killed>>
        BY <1>2, <1>6, <3>2 DEF ManagerLoop
      <4> QED BY <4>3, <4>4
    <3> QED BY <3>1, <3>2
  <2>5. ASSUME NEW x \in Ents PROVE TimelyFor(x)'
    <3>1. ~Runs(stack, x)' /\ (~Delays(stack, x))'
      BY <2>2 DEF Runs, Delays, Has
    <3>2. Flag(x, "toggle")' = Flag(x, "toggle") /\ Stays(x)' = Stays(x)
          /\ MasterOf(x)' = MasterOf(x)
      BY <1>4 DEF Flag, Stays, Wait, MasterOf
    <3>3. CASE x = e
      <4>1. kind[e] \in {"manager", "clone"} /\ mode[e] = "running"
        BY <1>3 DEF Running
      <4> QED BY <1>3, <1>4, <2>3, <2>4, <3>1, <3>3, <4>1 DEF TimelyFor, Running
    <3>4. CASE x # e
      <4>1. ~Runs(stack, x) /\ ~Delays(stack, x)
        BY <1>1, <1>2, <1>3, <3>4, SingleFrame DEF Runs, Delays
      <4>2. TimelyFor(x)
        BY DEF Timely
      <4>3. /\ mode'[x] = mode[x] /\ due'[x] = due[x] /\ kind'[x] = kind[x]
            /\ (x \in killed => x \in killed')
        BY <1>4, <2>3, <2>4, <3>4
      <4> QED BY <3>1, <3>2, <4>1, <4>2, <4>3 DEF TimelyFor, Running
    <3> QED BY <3>3, <3>4
  <2> QED BY <2>5 DEF Timely
<1> QED BY <1>5, <1>6

LEMMA UseTargetsTimely == ASSUME Inv, Timely, UseTargets PROVE Timely'
<1>1. stack # <<>> /\ Top.do = "use"
  BY Zenon DEF UseTargets
<1>2. PICK e \in Ents : e = Top.by
  BY <1>1, TopFrame
<1>3. Top = stack[1] /\ stack[1] \in Frames /\ stack \in Seq(Frames) /\ TypeOK
  BY <1>1, TopFrame DEF Inv, TypeOK
<1>4. UNCHANGED <<level, list, mode, left, age>>
  BY Zenon DEF UseTargets
<1>5. stack[1].then \in {"none", "once", "trigger", "next", "return", "rest", "delayed"}
  BY <1>3 DEF Frames
<1>6. ASSUME NEW g \in Frames, g.by = stack[1].by, g.do = "fire", g.then = stack[1].then,
             stack' = <<g>> \o Tail(stack)
      PROVE  SameBottom
  <2>1. /\ stack' \in Seq(Frames) /\ Len(stack') = Len(stack) /\ stack'[1] = g
        /\ \A i \in 2 .. Len(stack) : stack'[i] = stack[i]
    BY <1>1, <1>3, <1>6, UseToFire DEF Inv
  <2>2. Len(stack) \in Nat \ {0}
    BY <1>1, TopFrame
  <2>3. \A i \in 1 .. Len(stack) : i = 1 \/ i \in 2 .. Len(stack)
    BY <2>2
  <2>4. \A x : Runs(stack', x) <=> Runs(stack, x)
    BY <1>1, <1>3, <1>6, <2>1, <2>3 DEF Runs, Has
  <2>5. 1 \in 1 .. Len(stack)
    BY <2>2
  <2>6. \A x : Delays(stack', x) <=> Delays(stack, x)
    <3>1. ASSUME NEW x, Delays(stack', x) PROVE Delays(stack, x)
      <4>1. PICK i \in 1 .. Len(stack) : /\ stack'[i].by = x /\ stack'[i].then = "delayed"
                                         /\ stack'[i].do \in {"use", "fire"}
        BY <2>1, <3>1 DEF Delays, Has
      <4>2. CASE i = 1
        BY <1>1, <1>3, <1>6, <2>1, <2>5, <4>1, <4>2 DEF Delays, Has
      <4>3. CASE i \in 2 .. Len(stack)
        BY <2>1, <4>1, <4>3 DEF Delays, Has
      <4> QED BY <2>3, <4>2, <4>3
    <3>2. ASSUME NEW x, Delays(stack, x) PROVE Delays(stack', x)
      <4>1. PICK i \in 1 .. Len(stack) : /\ stack[i].by = x /\ stack[i].then = "delayed"
                                         /\ stack[i].do \in {"use", "fire"}
        BY <3>2 DEF Delays, Has
      <4>2. CASE i = 1
        BY <1>6, <2>1, <2>5, <4>1, <4>2 DEF Delays, Has
      <4>3. CASE i \in 2 .. Len(stack)
        BY <2>1, <4>1, <4>3 DEF Delays, Has
      <4> QED BY <2>3, <4>2, <4>3
    <3> QED BY <3>1, <3>2
  <2> QED BY <2>4, <2>6 DEF SameBottom
<1>7. CASE Delay(e) # 0 /\ (Target(e) # "" \/ Kill(e) # "")
  <2>1. /\ FreeSlots # {} /\ DelayedUse(First(FreeSlots), e)
        /\ stack' = <<Frame("fire", e, Top.then)>> \o Tail(stack) /\ UNCHANGED killed
    BY <1>2, <1>7, Zenon DEF UseTargets
  <2>2. PICK s \in Ents : s = First(FreeSlots) /\ kind[s] = "free" /\ level.kind[s] = "free"
    BY <2>1, FreeSlot
  <2>3. /\ kind' = [kind EXCEPT ![s] = "delayed"] /\ of' = [of EXCEPT ![s] = of[e]]
        /\ due' = [due EXCEPT ![s] = Delay(e)]
    BY <2>1, <2>2 DEF DelayedUse
  <2>4. PICK g \in Frames : /\ g = Frame("fire", e, Top.then)
                            /\ g.do = "fire" /\ g.by = e /\ g.then = Top.then
    BY <1>3, <1>5, FrameType
  <2>5. SameBottom
    BY <1>2, <1>3, <1>6, <2>1, <2>4
  <2>6. ASSUME NEW x \in Ents PROVE TimelyFor(x)'
    <3>1. CASE x = s
      <4>1. kind'[x] = "delayed" /\ due'[x] = Delay(e)
        BY <1>3, <2>3, <3>1 DEF TypeOK
      <4>2. due'[x] # Never
        BY <1>3, <4>1, LevelType DEF Never
      <4>3. ~Runs(stack, x)'
        <5>1. x \notin Running
          BY <2>2, <3>1 DEF Running
        <5> QED BY <2>5, <5>1, NoRun DEF SameBottom, Runs, Has
      <4>4. x \notin Running'
        BY <4>1 DEF Running
      <4> QED BY <4>1, <4>2, <4>3, <4>4 DEF TimelyFor
    <3>2. CASE x # s
      <4>1. SameFor(x)
        BY <1>3, <1>4, <2>1, <2>3, <3>2 DEF SameFor, TypeOK
      <4> QED BY <1>4, <2>5, <4>1, SameTimely
    <3> QED BY <3>1, <3>2
  <2> QED BY <2>6 DEF Timely
<1>8. CASE ~(Delay(e) # 0 /\ (Target(e) # "" \/ Kill(e) # ""))
  <2>1. /\ killed' = killed \cup NamedAs(Kill(e))
        /\ stack' = <<FireFrame(e, Target(e), Top.then)>> \o Tail(stack)
        /\ UNCHANGED <<kind, of, due>>
    BY <1>2, <1>8, Zenon DEF UseTargets
  <2>2. PICK g \in Frames : /\ g = FireFrame(e, Target(e), Top.then)
                            /\ g.do = "fire" /\ g.by = e /\ g.then = Top.then
    BY <1>3, <1>5, LevelType, FireFrameType
  <2>3. SameBottom
    BY <1>2, <1>3, <1>6, <2>1, <2>2
  <2>4. \A x \in Ents : SameFor(x)
    BY <1>4, <2>1 DEF SameFor
  <2> QED BY <1>4, <2>3, <2>4, SameTimely DEF Timely
<1> QED BY <1>7, <1>8, Zenon

\* A use that leaves the bottom of the stack, and who thinks, as it is.
LEMMA UseBottom ==
  ASSUME Inv, NEW below \in Seq(Frames), Alike(below, stack),
         \/ stack' = below
         \/ \E f \in Frames : /\ f.do # "run" /\ f.then # "delayed"
                              /\ stack' = <<f>> \o below
  PROVE  SameBottom
<1>1. stack \in Seq(Frames)
  BY DEF Inv, TypeOK
<1>2. \A e : (Runs(below, e) <=> Runs(stack, e)) /\ (Delays(below, e) <=> Delays(stack, e))
  BY <1>1, AlikeKeeps DEF Runs, Delays
<1>3. CASE stack' = below
  BY <1>2, <1>3 DEF SameBottom
<1>4. ASSUME NEW f \in Frames, f.do # "run", f.then # "delayed", stack' = <<f>> \o below
      PROVE  SameBottom
  <2>3. PICK F : F = {f}
    OBVIOUS
  <2>4. \A g \in F : g.do # "run" /\ g.then # "delayed"
    BY <1>4, <2>3
  <2>1. stack' \in Seq(Frames) /\ OnTop(stack', F, below)
    BY <1>4, <2>3, PushOne
  <2>2. \A e : (Runs(stack', e) <=> Runs(below, e)) /\ (Delays(stack', e) <=> Delays(below, e))
    BY <2>1, <2>4, PushBottom
  <2> QED BY <1>2, <2>2 DEF SameBottom
<1> QED BY <1>3, <1>4

LEMMA FireNextTimely == ASSUME Inv, Timely, FireNext PROVE Timely'
<1>1. stack # <<>> /\ Ahead # {}
  BY DEF FireNext
<1>2. PICK t \in Ents : t = First(Ahead)
  BY <1>1, NextAhead
<1>3. PICK below \in Seq(Frames) :
        below = <<[Top EXCEPT !.at = t]>> \o Tail(stack) /\ Alike(below, stack)
  BY <1>1, <1>2, NextAhead
<1>4. TypeOK /\ stack \in Seq(Frames)
  BY DEF Inv, TypeOK
<1>5. UNCHANGED <<members, last, killed, fired>>
  BY DEF FireNext
<1>6. ASSUME NEW k \in {"once", "trigger", "none"},
             stack' = below \/ stack' = <<Call(t, k)>> \o below,
             UNCHANGED <<level, kind, of, due, mode>>
      PROVE  Timely'
  <2>1. PICK f \in Frames : f = Call(t, k) /\ f.do = "use" /\ f.by = t /\ f.then = k
    BY FrameType DEF Call
  <2>2. SameBottom
    BY <1>3, <1>6, <2>1, UseBottom
  <2>3. \A x \in Ents : SameFor(x)
    BY <1>5, <1>6 DEF SameFor
  <2> QED BY <1>6, <2>2, <2>3, SameTimely DEF Timely
<1>7. CASE stack' = <<Call(t, "once")>> \o below /\ UNCHANGED <<fields, due, mode>>
  BY <1>6, <1>7 DEF fields
<1>8. CASE CounterUse(t, below) /\ UNCHANGED <<fields, due, mode>>
  <2>1. stack' = below \/ stack' = <<Call(t, "trigger")>> \o below
    BY <1>8 DEF CounterUse
  <2> QED BY <1>6, <1>8, <2>1 DEF fields
<1>9. CASE /\ kind[t] \in {"manager", "clone"} /\ ManagerUse(t, below) /\ level' = level
  <2>1. SameBottom
    BY <1>3, <1>9, UseBottom DEF ManagerUse
  <2>2. ASSUME NEW c \in Ents, Started(c), \A e \in Ents : e # c => kind'[e] = kind[e],
               \A e \in Ents : e # c => of'[e] = of[e],
               kind'[c] \in {"manager", "clone"}, c \notin Running
        PROVE  Timely'
    <3>1. /\ mode' = [mode EXCEPT ![c] = "running"] /\ due' = [due EXCEPT ![c] = 0]
      BY <2>2 DEF Started
    <3>2. ASSUME NEW x \in Ents, x # c PROVE TimelyFor(x)'
      <4>1. SameFor(x)
        BY <1>4, <1>5, <2>2, <3>1, <3>2 DEF SameFor, TypeOK
      <4> QED BY <1>9, <2>1, <4>1, SameTimely
    <3>3. TimelyFor(c)'
      <4>1. mode'[c] = "running" /\ due'[c] = 0 /\ 0 # Never
        BY <1>4, <3>1 DEF TypeOK, Never
      <4>2. ~Runs(stack, c)'
        <5>1. ~Runs(stack', c)
          BY <2>1, <2>2, NoRun DEF SameBottom
        <5> QED BY <5>1 DEF Runs, Has
      <4> QED BY <2>2, <4>1, <4>2 DEF TimelyFor, Running
    <3> QED BY <3>2, <3>3 DEF Timely
  <2>3. CASE kind[t] = "manager" /\ Flag(t, "thread")
    <3>1. FreeSlots # {} /\ Cloned(t, First(FreeSlots))
      BY <2>3, <1>9 DEF ManagerUse
    <3>2. PICK c \in Ents : c = First(FreeSlots) /\ kind[c] = "free"
      BY <3>1, FreeSlot
    <3>3. /\ kind' = [kind EXCEPT ![c] = "clone"] /\ of' = [of EXCEPT ![c] = t] /\ Started(c)
      BY <3>1, <3>2 DEF Cloned
    <3>4. c \notin Running
      BY <3>2 DEF Running
    <3> QED BY <1>4, <2>2, <3>3, <3>4 DEF TypeOK
  <2>4. CASE ~(kind[t] = "manager" /\ Flag(t, "thread")) /\ mode[t] = "ready"
    <3>1. UNCHANGED <<kind, of>> /\ Started(t)
      BY <1>9, <2>4 DEF ManagerUse
    <3>2. t \notin Running
      BY <2>4 DEF Running
    <3> QED BY <1>9, <2>2, <3>1, <3>2
  <2>5. CASE ~(kind[t] = "manager" /\ Flag(t, "thread")) /\ mode[t] # "ready"
    <3>1. stack' = below /\ UNCHANGED <<kind, of, due, mode>>
      BY <1>9, <2>5 DEF ManagerUse
    <3> QED BY <1>6, <1>9, <3>1
  <2> QED BY <2>3, <2>4, <2>5
<1>10. CASE MultisourceUse(t, Top.by, below) /\ UNCHANGED <<fields, due, mode>>
  <2>1. stack' = below \/ stack' = <<Call(t, "none")>> \o below
    BY <1>1, <1>4, <1>10, TopFrame, MultisourceUseTypes
  <2> QED BY <1>6, <1>10, <2>1 DEF fields
<1>11. CASE kind[t] = "button" /\ ButtonUse(t, below) /\ UNCHANGED fields
  <2>1. Pushes(t, below)
    BY <1>4, <1>11, ButtonUsePushes
  <2>2. \A e : (Runs(below, e) <=> Runs(stack, e)) /\ (Delays(below, e) <=> Delays(stack, e))
    BY <1>3, <1>4, AlikeKeeps DEF Runs, Delays
  <2> QED BY <1>5, <1>11, <2>1, <2>2, ButtonTimely DEF fields
<1>12. CASE stack' = below /\ UNCHANGED <<fields, due, mode>>
  BY <1>6, <1>12 DEF fields
<1> QED BY <1>2, <1>3, <1>7, <1>8, <1>9, <1>10, <1>11, <1>12 DEF FireNext

LEMMA PopBottom ==
  ASSUME Inv, stack # <<>>, stack' = Tail(stack), Top.do # "run", Top.then # "delayed"
  PROVE  SameBottom
<1>1. stack \in Seq(Frames) /\ Top = stack[1]
  BY TopFrame DEF Inv, TypeOK
<1>2. \A d, e, t : Has(stack', d, e, t) => Has(stack, d, e, t)
  BY <1>1, PopKeeps
<1>3. \A d, e, t : Has(stack, d, e, t) =>
        Has(stack', d, e, t) \/ (Top.do = d /\ Top.by = e /\ Top.then = t)
  BY <1>1, PopKeeps
<1>4. \A e : Runs(stack', e) <=> Runs(stack, e)
  BY <1>2, <1>3 DEF Runs
<1>5. \A e : Delays(stack', e) <=> Delays(stack, e)
  BY <1>2, <1>3 DEF Delays
<1> QED BY <1>4, <1>5 DEF SameBottom

LEMMA FireDoneTimely == ASSUME Inv, Timely, FireDone PROVE Timely'
<1>1. stack # <<>> /\ Top.do = "fire"
  BY DEF FireDone
<1>2. PICK e \in Ents : e = Top.by
  BY <1>1, TopFrame
<1>3. /\ Fits("fire", e, Top.then) /\ TypeOK /\ stack \in Seq(Frames)
      /\ (Top.then = "delayed" => Len(stack) = 1)
  BY <1>1, <1>2, TopFrame DEF Inv, TypeOK
<1>4. PICK below \in Seq(Frames) : below = Tail(stack)
  BY <1>1, <1>3, PopFrame
<1>5. UNCHANGED <<level, of>>
  BY DEF FireDone
<1>6. ASSUME stack' = below, UNCHANGED <<kind, due, mode>>, Top.then # "delayed",
             killed \subseteq killed'
      PROVE  Timely'
  <2>1. SameBottom
    BY <1>1, <1>4, <1>6, PopBottom
  <2>2. \A x \in Ents : SameFor(x)
    BY <1>5, <1>6 DEF SameFor
  <2> QED BY <1>5, <2>1, <2>2, SameTimely DEF Timely
<1>7. CASE Top.then \in {"none", "once", "rest"}
  <2>1. stack' = below /\ UNCHANGED <<kind, due, mode>> /\ killed \subseteq killed'
    BY <1>2, <1>4, <1>7 DEF FireDone
  <2> QED BY <1>6, <1>7, <2>1
<1>8. CASE Top.then = "trigger"
  <2>1. TriggerFired(e) /\ stack' = below /\ UNCHANGED <<kind, killed>>
    BY <1>2, <1>4, <1>8 DEF FireDone
  <2>2. SameBottom
    BY <1>1, <1>4, <1>8, <2>1, PopBottom
  <2>3. ASSUME NEW x \in Ents, x # e PROVE TimelyFor(x)'
    <3>1. mode'[x] = mode[x] /\ due'[x] = due[x]
      BY <1>3, <2>1, <2>3 DEF TriggerFired, TypeOK
    <3>2. SameFor(x)
      BY <1>5, <2>1, <3>1 DEF SameFor
    <3> QED BY <1>5, <2>2, <3>2, SameTimely
  <2>4. TimelyFor(e)'
    <3>1. kind'[e] \in {"multiple", "counter"} /\ kind[e] = kind'[e]
      BY <1>3, <1>8, <2>1 DEF Fits, KindsFor
    <3>2. e \notin Running /\ e \notin Running'
      BY <3>1 DEF Running
    <3>3. ~Runs(stack, e)'
      BY <2>2, <3>2, NoRun DEF SameBottom, Runs, Has
    <3> QED BY <3>1, <3>2, <3>3 DEF TimelyFor
  <2> QED BY <2>3, <2>4 DEF Timely
<1>9. CASE Top.then = "next"
  <2>1. stack' = below /\ UNCHANGED <<kind, killed, due, mode>>
    BY <1>4, <1>9 DEF FireDone
  <2> QED BY <1>6, <1>9, <2>1
<1>10. CASE Top.then = "return"
  <2>1. ButtonReturn(e, below, touch) /\ UNCHANGED <<kind, killed>>
    BY <1>2, <1>4, <1>10 DEF FireDone
  <2>2. kind[e] = "button"
    BY <1>3, <1>10 DEF Fits, KindsFor
  <2>3. Pushes(e, below)
    BY <1>3, <2>1, ButtonReturnPushes DEF TypeOK
  <2>4. \A x : (Runs(below, x) <=> Runs(stack, x)) /\ (Delays(below, x) <=> Delays(stack, x))
    <3>1. \A d, x, t : Has(below, d, x, t) => Has(stack, d, x, t)
      BY <1>1, <1>3, <1>4, PopKeeps
    <3>2. \A d, x, t : Has(stack, d, x, t) => Has(below, d, x, t) \/ (d = "fire" /\ t = "return")
      BY <1>1, <1>3, <1>4, <1>10, PopKeeps, TopFrame
    <3> QED BY <3>1, <3>2 DEF Runs, Delays
  <2> QED BY <1>5, <2>1, <2>2, <2>3, <2>4, ButtonTimely
<1>11. CASE Top.then = "delayed"
  <2>1. kind' = [kind EXCEPT ![e] = "free"] /\ stack' = below
        /\ UNCHANGED <<killed, due, mode>>
    BY <1>2, <1>4, <1>11 DEF FireDone
  <2>2. \A x \in Ents : \A d, t : x # e => ~Has(stack, d, x, t)
    BY <1>2, <1>3, <1>11, SingleFrame
  <2>3. \A x, d, t : ~Has(stack', d, x, t)
    <3>1. PICK r \in Seq(Frames) : r = stack' /\ Len(r) = 0
      BY <1>1, <1>3, <1>4, <1>11, <2>1, PopFrame
    <3>2. \A d, x, t : ~Has(r, d, x, t)
      BY <3>1, NoFrames
    <3> QED BY <3>1, <3>2
  <2>4. ASSUME NEW x \in Ents PROVE TimelyFor(x)'
    <3>1. ~Runs(stack, x)' /\ (~Delays(stack, x))'
      BY <2>3 DEF Runs, Delays, Has
    <3>2. CASE x = e
      <4>1. kind'[x] = "free"
        BY <1>3, <2>1, <3>2 DEF TypeOK
      <4> QED BY <3>1, <4>1 DEF TimelyFor, Running
    <3>3. CASE x # e
      <4>1. ~Runs(stack, x) /\ ~Delays(stack, x) /\ TimelyFor(x)
        BY <2>2, <3>3 DEF Runs, Delays, Timely
      <4>2. /\ Flag(x, "toggle")' = Flag(x, "toggle")
            /\ Stays(x)' = Stays(x) /\ MasterOf(x)' = MasterOf(x)
        <5>1. kind'[x] = kind[x]
          BY <1>3, <2>1, <3>3 DEF TypeOK
        <5> QED BY <1>5, <5>1 DEF Flag, Stays, Wait, MasterOf
      <4>3. kind'[x] = kind[x] /\ due' = due /\ mode' = mode /\ killed' = killed
        BY <1>3, <2>1, <3>3 DEF TypeOK
      <4> QED BY <3>1, <4>1, <4>2, <4>3 DEF TimelyFor, Running
    <3> QED BY <3>2, <3>3
  <2> QED BY <2>4 DEF Timely
<1> QED
  <2>1. Top.then \in {"none", "once", "trigger", "next", "return", "rest", "delayed"}
    BY <1>1, TopFrame DEF Frames
  <2> QED BY <1>7, <1>8, <1>9, <1>10, <1>11, <2>1

\* What the engine calls, when no other call is in progress.
LEMMA IdleBottom == ASSUME Inv, Idle PROVE \A e : ~Runs(stack, e) /\ ~Delays(stack, e)
<1>1. stack \in Seq(Frames) /\ Len(stack) = 0
  BY DEF Inv, TypeOK, Idle
<1>2. \A d, e, t : ~Has(stack, d, e, t)
  BY <1>1, NoFrames
<1> QED BY <1>2 DEF Runs, Delays

LEMMA IdleButtonTimely ==
  ASSUME Inv, Timely, Idle, NEW b \in Ents, kind[b] = "button", Pushes(b, <<>>),
         UNCHANGED <<fields, killed>>
  PROVE  Timely'
<1>1. PICK r : r = <<>>
  OBVIOUS
<1>2. r \in Seq(Frames) /\ Len(r) = 0
  BY <1>1
<1>3. \A d, e, t : ~Has(r, d, e, t)
  BY <1>2, NoFrames
<1>4. \A e : (Runs(r, e) <=> Runs(stack, e)) /\ (Delays(r, e) <=> Delays(stack, e))
  BY <1>3, IdleBottom DEF Runs, Delays
<1> QED BY <1>1, <1>2, <1>4, ButtonTimely DEF fields

\* One frame, of a call that is neither a run nor a delayed use, or none.
LEMMA CallBottom ==
  ASSUME Inv, Idle,
         \/ stack' = <<>> \/ stack' = stack
         \/ \E f \in Frames : f.do # "run" /\ f.then # "delayed" /\ stack' = <<f>>
  PROVE  SameBottom
<1>1. stack = <<>>
  BY DEF Idle
<1>2. CASE stack' = stack
  BY <1>2 DEF SameBottom
<1>3. ASSUME NEW f \in Frames, f.do # "run", f.then # "delayed", stack' = <<f>>
      PROVE  SameBottom
  <2>1. Len(stack') = 1 /\ stack'[1] = f
    BY <1>3
  <2>2. \A i \in 1 .. 1 : i = 1
    OBVIOUS
  <2>3. \A e : ~Runs(stack', e) /\ ~Delays(stack', e)
    BY <1>3, <2>1, <2>2 DEF Runs, Delays, Has
  <2> QED BY <2>3, IdleBottom DEF SameBottom
<1> QED BY <1>1, <1>2, <1>3

LEMMA PlayerTimely == ASSUME Inv, Timely, NEW e \in Ents, Player(e) PROVE Timely'
<1>1. TypeOK /\ touch \ {e} \in SUBSET Ents /\ <<>> \in Seq(Frames)
  BY DEF Inv, TypeOK
<1>2. ASSUME NEW k \in {"trigger", "return"}, Idle, stack' = <<Call(e, k)>>,
             UNCHANGED <<fields, due, mode, killed>>
      PROVE  Timely'
  <2>1. PICK f \in Frames : f = Call(e, k) /\ f.do = "use" /\ f.by = e /\ f.then = k
    BY FrameType DEF Call
  <2>2. SameBottom
    BY <1>2, <2>1, CallBottom
  <2>3. \A x \in Ents : SameFor(x)
    BY <1>2 DEF SameFor, fields
  <2> QED BY <1>2, <2>2, <2>3, SameTimely DEF Timely, fields
<1>3. CASE MultiTouch(e)
  BY <1>2, <1>3 DEF MultiTouch
<1>4. CASE ButtonTouch(e)
  <2>1. /\ Idle /\ kind[e] = "button" /\ UNCHANGED <<fields, killed>>
        /\ \/ ButtonActivate(e, <<>>, touch \ {e})
           \/ stack' = <<Call(e, "return")>> /\ UNCHANGED <<mode, due>>
    BY <1>4 DEF ButtonTouch
  <2>2. CASE ButtonActivate(e, <<>>, touch \ {e})
    BY <1>1, <2>1, <2>2, ButtonActivatePushes, IdleButtonTimely
  <2>3. CASE stack' = <<Call(e, "return")>> /\ UNCHANGED <<mode, due>>
    BY <1>2, <2>1, <2>3
  <2> QED BY <2>1, <2>2, <2>3
<1>5. CASE PlayerUse(e)
  BY <1>1, <1>5, ButtonUsePushes, IdleButtonTimely DEF PlayerUse
<1>6. CASE ButtonShot(e)
  BY <1>1, <1>6, ButtonActivatePushes, ButtonReturnPushes, IdleButtonTimely DEF ButtonShot
<1> QED BY <1>3, <1>4, <1>5, <1>6 DEF Player

LEMMA ThinkTimely == ASSUME Inv, Timely, NEW e \in Ents, Think(e) PROVE Timely'
<1>1. /\ TypeOK /\ due \in [Ents -> Nat \cup {Never}] /\ touch \in SUBSET Ents
      /\ mode \in [Ents -> Modes] /\ kind \in [Ents -> Kinds] /\ <<>> \in Seq(Frames)
  BY DEF Inv, TypeOK, Modes
<1>2. ASSUME Idle, due' = [due EXCEPT ![e] = Never], SameBottom,
             kind[e] \in {"multiple", "counter", "auto", "multisource"},
             kind' = kind \/ kind' = [kind EXCEPT ![e] = "free"],
             mode' = mode \/ mode' = [mode EXCEPT ![e] = "set"],
             UNCHANGED <<level, of, killed>>
      PROVE  Timely'
  <2>1. ASSUME NEW x \in Ents, x # e PROVE TimelyFor(x)'
    <3>1. SameFor(x)
      BY <1>1, <1>2, <2>1 DEF SameFor
    <3> QED BY <1>2, <3>1, SameTimely
  <2>2. TimelyFor(e)'
    <3>1. kind'[e] \in {"multiple", "counter", "auto", "multisource", "free"} /\ due'[e] = Never
      BY <1>1, <1>2
    <3> QED BY <3>1 DEF TimelyFor, Running
  <2> QED BY <2>1, <2>2 DEF Timely
<1>3. CASE TriggerThink(e)
  <2>1. /\ Idle /\ due' = [due EXCEPT ![e] = Never] /\ kind[e] \in {"multiple", "counter"}
        /\ kind' = kind \/ kind' = [kind EXCEPT ![e] = "free"]
        /\ UNCHANGED <<level, of, killed, mode, stack>>
    BY <1>3 DEF TriggerThink, ThinkTime
  <2>2. SameBottom
    BY <2>1, CallBottom
  <2> QED BY <1>2, <2>1, <2>2
<1>4. CASE Register(e)
  <2>1. /\ Idle /\ due' = [due EXCEPT ![e] = Never] /\ kind[e] = "multisource"
        /\ Registered(e) /\ UNCHANGED <<level, kind, of, killed, stack>>
    BY <1>4 DEF Register, ThinkTime, fields
  <2>2. mode' = [mode EXCEPT ![e] = "set"]
    BY <1>1, <2>1, RegisteredTypes
  <2>3. SameBottom
    BY <2>1, CallBottom
  <2> QED BY <1>2, <2>1, <2>2, <2>3
<1>5. CASE ButtonThink(e)
  BY <1>1, <1>5, TriggerAndWaitPushes, ButtonReturnPushes, ButtonBackHomePushes,
     IdleButtonTimely DEF ButtonThink, ThinkTime
<1>6. CASE CallThink(e)
  <2>1. /\ Idle /\ due' = [due EXCEPT ![e] = Never]
        /\ UNCHANGED <<level, kind, of, mode, killed>>
    BY <1>6 DEF CallThink, ThinkTime, fields
  <2>2. CASE /\ kind[e] = "auto"
             /\ stack' = IF Flag(e, "global") => global = "on" THEN <<Call(e, "once")>> ELSE <<>>
    <3>1. PICK f \in Frames : f = Call(e, "once") /\ f.do = "use" /\ f.then = "once"
      BY FrameType DEF Call
    <3>2. SameBottom
      BY <2>1, <2>2, <3>1, CallBottom
    <3> QED BY <1>2, <2>1, <2>2, <3>2
  <2>3. ASSUME NEW f \in Frames, stack' = <<f>>, f.by = e,
               \/ kind[e] \in {"manager", "clone"} /\ f.do = "run" /\ f.then = "none"
               \/ kind[e] = "delayed" /\ f.do = "use" /\ f.then = "delayed"
        PROVE  Timely'
    <3>1. Len(stack') = 1 /\ stack'[1] = f
      BY <2>3
    <3>2. \A i \in 1 .. 1 : i = 1
      OBVIOUS
    <3>3. \A x \in Ents : x # e => ~Runs(stack', x) /\ ~Delays(stack', x)
      BY <2>3, <3>1, <3>2 DEF Runs, Delays, Has
    <3>4. /\ f.do = "run" /\ f.then = "none" => Runs(stack', e)
          /\ f.do = "use" /\ f.then = "delayed" => ~Runs(stack', e) /\ Delays(stack', e)
      BY <2>3, <3>1, <3>2 DEF Runs, Delays, Has
    <3>5. ASSUME NEW x \in Ents PROVE TimelyFor(x)'
      <4>1. (Runs(stack, x)' <=> Runs(stack', x)) /\ (Delays(stack, x)' <=> Delays(stack', x))
        BY DEF Runs, Delays, Has
      <4>2. CASE x # e
        <5>1. ~Runs(stack, x) /\ ~Delays(stack, x) /\ TimelyFor(x)
          BY <2>1, IdleBottom DEF Timely
        <5>2. /\ Flag(x, "toggle")' = Flag(x, "toggle") /\ Stays(x)' = Stays(x)
              /\ MasterOf(x)' = MasterOf(x)
          BY <2>1 DEF Flag, Stays, Wait, MasterOf
        <5>3. due'[x] = due[x]
          BY <1>1, <2>1, <4>2
        <5> QED BY <2>1, <3>3, <4>1, <4>2, <5>1, <5>2, <5>3 DEF TimelyFor, Running
      <4>3. CASE x = e
        <5>1. due'[e] = Never /\ kind'[e] = kind[e]
          BY <1>1, <2>1
        <5> QED BY <2>3, <3>4, <4>1, <4>3, <5>1 DEF TimelyFor, Running
      <4> QED BY <4>2, <4>3
    <3> QED BY <3>5 DEF Timely
  <2>4. CASE kind[e] \in {"manager", "clone"} /\ stack' = <<Frame("run", e, "none")>>
    <3>1. PICK f \in Frames :
            f = Frame("run", e, "none") /\ f.do = "run" /\ f.by = e /\ f.then = "none"
      BY FrameType
    <3> QED BY <2>3, <2>4, <3>1
  <2>5. CASE kind[e] = "delayed" /\ stack' = <<Call(e, "delayed")>>
    <3>1. PICK f \in Frames :
            f = Call(e, "delayed") /\ f.do = "use" /\ f.by = e /\ f.then = "delayed"
      BY FrameType DEF Call
    <3> QED BY <2>3, <2>5, <3>1
  <2> QED BY <1>6, <2>2, <2>4, <2>5 DEF CallThink
<1> QED BY <1>3, <1>4, <1>5, <1>6 DEF Think

LEMMA OtherTimely ==
  ASSUME Inv, Timely, (\E e \in Ents : Reap(e)) \/ Tick \/ Load
  PROVE  Timely'
<1>1. /\ due \in [Ents -> Nat \cup {Never}] /\ mode \in [Ents -> Modes]
      /\ kind \in [Ents -> Kinds]
  BY DEF Inv, TypeOK, Modes
<1>2. Idle /\ UNCHANGED <<level, of, mode, stack>>
  BY DEF Reap, Tick, Load, fields
<1>3. SameBottom /\ \A x : ~Runs(stack, x)
  BY <1>2, CallBottom, IdleBottom
<1>4. ASSUME NEW e \in Ents, Reap(e) PROVE Timely'
  <2>1. kind' = [kind EXCEPT ![e] = "free"] /\ due' = due /\ killed' = killed \ {e}
    BY <1>4 DEF Reap
  <2>2. ASSUME NEW x \in Ents PROVE TimelyFor(x)'
    <3>1. CASE x = e
      <4>1. kind'[x] = "free" /\ ~Runs(stack', x)
        BY <1>1, <1>3, <2>1, <3>1 DEF SameBottom
      <4>2. ~Runs(stack, x)'
        BY <4>1 DEF Runs, Has
      <4> QED BY <4>1, <4>2 DEF TimelyFor, Running
    <3>2. CASE x # e
      <4>1. SameFor(x)
        BY <1>1, <1>2, <2>1, <3>2 DEF SameFor
      <4> QED BY <1>2, <1>3, <4>1, SameTimely
    <3> QED BY <3>1, <3>2
  <2> QED BY <2>2 DEF Timely
<1>5. CASE Tick \/ Load
  <2>1. UNCHANGED <<kind, killed>>
    BY <1>5 DEF Tick, Load, fields
  <2>2. \A x \in Ents : kind[x] # "auto" => (due'[x] = Never <=> due[x] = Never)
    <3>1. CASE Tick
      <4>1. due' = [x \in Ents |-> IF due[x] > 0 THEN due[x] - 1 ELSE due[x]]
        BY <3>1 DEF Tick
      <4> QED BY <1>1, <4>1 DEF Never
    <3>2. CASE Load
      <4>1. due' = [x \in Ents |-> IF kind[x] = "auto" THEN 1 ELSE due[x]]
        BY <3>2 DEF Load
      <4> QED BY <4>1
    <3> QED BY <1>5, <3>1, <3>2
  <2>3. ASSUME NEW x \in Ents PROVE TimelyFor(x)'
    <3>1. (Runs(stack, x)' <=> Runs(stack, x)) /\ (Delays(stack, x)' <=> Delays(stack, x))
      BY <1>2 DEF Runs, Delays, Has
    <3>2. /\ Flag(x, "toggle")' = Flag(x, "toggle") /\ Stays(x)' = Stays(x)
          /\ MasterOf(x)' = MasterOf(x)
      BY <1>2, <2>1 DEF Flag, Stays, Wait, MasterOf
    <3>3. TimelyFor(x) /\ (x \in Running' <=> x \in Running)
      BY <1>2, <2>1 DEF Timely, Running
    <3>4. ~Runs(stack, x)
      BY <1>3
    <3> QED BY <1>2, <2>1, <2>2, <3>1, <3>2, <3>3, <3>4 DEF TimelyFor, Running
  <2> QED BY <2>3 DEF Timely
<1> QED BY <1>4, <1>5

LEMMA StepTimely == ASSUME Inv, Timely, [Next]_vars PROVE Timely'
<1>1. CASE UNCHANGED vars
  <2>1. SameBottom /\ level' = level /\ \A e \in Ents : SameFor(e)
    BY <1>1 DEF vars, SameBottom, SameFor
  <2> QED BY <2>1, SameTimely DEF Timely
<1> QED BY <1>1, ManagerLoopTimely, UseTargetsTimely, FireNextTimely, FireDoneTimely,
           PlayerTimely, ThinkTimely, OtherTimely DEF Next, Calls

(***************************************************************************)
(* Types, and nothing gets stuck                                           *)
(***************************************************************************)

LEMMA Invariant == Spec => [](Inv /\ Timely)
<1>1. Inv /\ Timely /\ [Next]_vars => (Inv /\ Timely)'
  BY StepInv, StepTimely
<1> QED BY <1>1, InitInv, PTL DEF Spec

\* In every map each variable has its type, and the index of a manager in the middle of
\* its list is at an entry or one past the end (ManagerThink).
THEOREM TypeCorrect == Spec => []TypeOK
<1>1. Inv => TypeOK
  BY DEF Inv
<1> QED BY <1>1, Invariant, PTL

\* What is not on the stack has no run there and no delayed use.
LEMMA OffStack ==
  ASSUME NEW e, ~OnStack(e)
  PROVE  ~Runs(stack, e) /\ ~Delays(stack, e)
BY DEF OnStack, Runs, Delays, Has

\* In every map, whatever is under way has a time to go on: a button that moves or comes
\* out by itself, a manager in its list, a delayed use.
THEOREM NothingStuck == Spec => []NoneStuck
<1>1. ASSUME Inv, Timely, NEW e \in Ents, Live(e), due[e] = Never, ~OnStack(e)
      PROVE  /\ kind[e] # "delayed" /\ e \notin Running
             /\ kind[e] = "button" =>
                  \/ mode[e] = "bottom"
                  \/ mode[e] = "top" /\ (Flag(e, "toggle") \/ Stays(e))
                  \/ mode[e] = "up" /\ level.master[e] # ""
  <2>1. TimelyFor(e) /\ ~Runs(stack, e) /\ ~Delays(stack, e)
    BY <1>1, OffStack DEF Timely
  <2>2. e \notin killed
    BY <1>1 DEF Live
  <2>3. MasterOf(e) # {} => level.master[e] # ""
    BY Zenon DEF MasterOf
  <2>4. kind[e] # "delayed" /\ e \notin Running
    BY <1>1, <2>1, <2>2 DEF TimelyFor
  <2>5. kind[e] = "button" => \/ mode[e] = "bottom"
                              \/ mode[e] = "top" /\ (Flag(e, "toggle") \/ Stays(e))
                              \/ mode[e] = "up" /\ MasterOf(e) # {}
    BY <1>1, <2>1 DEF TimelyFor
  <2> QED BY <2>3, <2>4, <2>5, Zenon
<1>2. Inv /\ Timely => NoneStuck
  BY <1>1, Zenon DEF NoneStuck
<1> QED BY <1>2, Invariant, PTL

(***************************************************************************)
(* Counters                                                                *)
(***************************************************************************)

\* A counter is about to fire, or fires.
Uses(st, c) == Has(st, "use", c, "trigger")
Fires(st, c) == Has(st, "fire", c, "trigger")

Counts == {c \in Ents : level.kind[c] = "counter"}

\* A counter that still counts does not wait and is not at its targets; one that has
\* come to its end is about to fire, has fired or was refused.
CountFor(c) ==
  /\ left[c] >= 1 => due[c] = Never /\ ~Uses(stack, c) /\ ~Fires(stack, c)
  /\ left[c] <= 0 => Uses(stack, c) \/ fired[c] > 0 \/ c \in refused
  /\ Fires(stack, c) => fired[c] > 0

Counted == \A c \in Counts : CountFor(c)

SameFires(c) == /\ Uses(stack', c) <=> Uses(stack, c)
                /\ Fires(stack', c) <=> Fires(stack, c)

LEMMA CounterKind ==
  ASSUME Inv, NEW c \in Counts PROVE c \in Ents /\ kind[c] \in {"counter", "free"} /\ of[c] = c
BY DEF Inv, KindsFit, Counts

LEMMA SameCount ==
  ASSUME NEW c, CountFor(c), SameFires(c), left'[c] = left[c], fired'[c] = fired[c],
         due'[c] = due[c] \/ due'[c] = Never, refused \subseteq refused'
  PROVE  CountFor(c)'
<1>1. /\ Uses(stack, c)' <=> Uses(stack', c)
      /\ Fires(stack, c)' <=> Fires(stack', c)
  BY DEF Uses, Fires, Has
<1> QED BY <1>1 DEF CountFor, SameFires

\* Frames of others on top change nothing.
LEMMA PushFires ==
  ASSUME NEW s \in Seq(Frames), NEW st \in Seq(Frames), NEW F, OnTop(st, F, s), NEW c,
         \A f \in F : f.by # c \/ f.then # "trigger"
  PROVE  (Uses(st, c) <=> Uses(s, c)) /\ (Fires(st, c) <=> Fires(s, c))
<1>1. \A d, e, t : Has(s, d, e, t) => Has(st, d, e, t)
  BY OnTopKeeps
<1>2. \A d, e, t : Has(st, d, e, t) =>
        Has(s, d, e, t) \/ \E f \in F : f.do = d /\ f.by = e /\ f.then = t
  BY OnTopKeeps
<1> QED BY <1>1, <1>2 DEF Uses, Fires

LEMMA CallFires ==
  ASSUME NEW r \in Seq(Frames), NEW c, \A d, e, t : Has(r, d, e, t) <=> Has(stack, d, e, t),
         \/ stack' = r
         \/ \E f \in Frames : (f.by # c \/ f.then # "trigger") /\ stack' = <<f>> \o r
  PROVE  SameFires(c)
<1>1. (Uses(r, c) <=> Uses(stack, c)) /\ (Fires(r, c) <=> Fires(stack, c))
  BY DEF Uses, Fires
<1>2. CASE stack' = r
  BY <1>1, <1>2 DEF SameFires
<1>3. ASSUME NEW f \in Frames, f.by # c \/ f.then # "trigger", stack' = <<f>> \o r
      PROVE  SameFires(c)
  <2>1. PICK F : F = {f}
    OBVIOUS
  <2>2. stack' \in Seq(Frames) /\ OnTop(stack', F, r)
    BY <1>3, <2>1, PushOne
  <2>3. \A g \in F : g.by # c \/ g.then # "trigger"
    BY <1>3, <2>1
  <2>4. (Uses(stack', c) <=> Uses(r, c)) /\ (Fires(stack', c) <=> Fires(r, c))
    BY <2>2, <2>3, PushFires
  <2> QED BY <1>1, <2>4 DEF SameFires
<1> QED BY <1>2, <1>3

LEMMA PopFires ==
  ASSUME Inv, NEW c, stack # <<>>, Top.by # c \/ Top.then # "trigger"
  PROVE  /\ Uses(Tail(stack), c) <=> Uses(stack, c)
         /\ Fires(Tail(stack), c) <=> Fires(stack, c)
<1>1. stack \in Seq(Frames) /\ Top = stack[1]
  BY TopFrame DEF Inv, TypeOK
<1>2. \A d, e, t : Has(Tail(stack), d, e, t) => Has(stack, d, e, t)
  BY <1>1, PopKeeps
<1>3. \A d, e, t : Has(stack, d, e, t) =>
        Has(Tail(stack), d, e, t) \/ (stack[1].do = d /\ stack[1].by = e /\ stack[1].then = t)
  BY <1>1, PopKeeps
<1> QED BY <1>1, <1>2, <1>3 DEF Uses, Fires

\* A button is not a counter, and its calls do not go on as those of a trigger.
LEMMA ButtonCounts ==
  ASSUME Inv, Counted, NEW b \in Ents, kind[b] = "button", NEW r \in Seq(Frames), Pushes(b, r),
         NEW c \in Counts, UNCHANGED <<left, fired, refused>>,
         (Uses(r, c) <=> Uses(stack, c)) /\ (Fires(r, c) <=> Fires(stack, c))
  PROVE  CountFor(c)'
<1>1. c \in Ents /\ c # b
  BY CounterKind
<1>2. due'[c] = due[c]
  <2>1. due \in [Ents -> Nat \cup {Never}] /\ \E y : due' = [due EXCEPT ![b] = y]
    BY DEF Inv, TypeOK, Pushes
  <2> QED BY <1>1, <2>1
<1>3. SameFires(c)
  <2>1. stack' \in Seq(Frames) /\ OnTop(stack', CallsOf(b), r)
    BY DEF Pushes
  <2>2. \A f \in CallsOf(b) : f.by # c \/ f.then # "trigger"
    BY <1>1 DEF CallsOf
  <2>3. (Uses(stack', c) <=> Uses(r, c)) /\ (Fires(stack', c) <=> Fires(r, c))
    BY <2>1, <2>2, PushFires
  <2> QED BY <2>3 DEF SameFires
<1> QED BY <1>2, <1>3, SameCount DEF Counted

LEMMA ManagerLoopCounts == ASSUME Inv, Counted, NEW c \in Counts, ManagerLoop PROVE CountFor(c)'
<1>1. stack # <<>> /\ Top.do = "run"
  BY DEF ManagerLoop
<1>2. PICK e \in Ents : e = Top.by
  BY <1>1, TopFrame
<1>3. e \in Running /\ stack \in Seq(Frames) /\ due \in [Ents -> Nat \cup {Never}]
  BY <1>1, <1>2, TopFrame DEF Fits, Inv, TypeOK
<1>4. c \in Ents /\ c # e
  BY <1>3, CounterKind DEF Running
<1>5. UNCHANGED <<left, fired, refused>>
  BY DEF ManagerLoop, history
<1>6. CASE left[e] <= Len(list[e]) /\ list[e][left[e]].delay <= age[e]
  <2>1. /\ stack' = <<FireFrame(e, list[e][left[e]].name, "next")>> \o stack
        /\ due' = due
    BY <1>2, <1>6 DEF ManagerLoop
  <2>2. PICK f \in Frames : f = FireFrame(e, list[e][left[e]].name, "next") /\ f.by = e
    BY <1>3, <1>6, RunningList, FireFrameType
  <2>3. SameFires(c)
    BY <1>3, <1>4, <2>1, <2>2, CallFires
  <2> QED BY <1>5, <2>1, <2>3, SameCount DEF Counted
<1>7. CASE ~(left[e] <= Len(list[e]) /\ list[e][left[e]].delay <= age[e])
  <2>1. /\ stack' = Tail(stack)
        /\ due' = due \/ due' = [due EXCEPT ![e] = Remaining(e)]
    BY <1>2, <1>7 DEF ManagerLoop
  <2>2. SameFires(c)
    BY <1>1, <1>2, <1>4, <2>1, PopFires DEF SameFires
  <2>3. due'[c] = due[c]
    BY <1>3, <1>4, <2>1
  <2> QED BY <1>5, <2>2, <2>3, SameCount DEF Counted
<1> QED BY <1>6, <1>7

LEMMA UseTargetsCounts == ASSUME Inv, Counted, NEW c \in Counts, UseTargets PROVE CountFor(c)'
<1>1. stack # <<>> /\ Top.do = "use"
  BY Zenon DEF UseTargets
<1>2. PICK e \in Ents : e = Top.by
  BY <1>1, TopFrame
<1>3. /\ stack \in Seq(Frames) /\ Top = stack[1] /\ stack[1] \in Frames
      /\ due \in [Ents -> Nat \cup {Never}] /\ fired \in [Ents -> 0 .. 2]
  BY <1>1, TopFrame DEF Inv, TypeOK
<1>4. c \in Ents /\ level.kind[c] = "counter" /\ of[c] = c
  BY CounterKind DEF Counts
<1>5. /\ UNCHANGED <<left, refused>>
      /\ fired' = [fired EXCEPT ![e] = IF of[e] = e /\ @ < 2 THEN @ + 1 ELSE @]
  BY <1>2, Zenon DEF UseTargets
<1>6. stack[1].then \in {"none", "once", "trigger", "next", "return", "rest", "delayed"}
  BY <1>3 DEF Frames
<1>7. ASSUME NEW g \in Frames, g.by = e, g.do = "fire", g.then = stack[1].then,
             stack' = <<g>> \o Tail(stack), due'[c] = due[c]
      PROVE  CountFor(c)'
  <2>1. PICK r \in Seq(Frames) : r = Tail(stack)
    BY <1>1, <1>3, PopFrame
  <2>2. PICK F : F = {g}
    OBVIOUS
  <2>3. stack' \in Seq(Frames) /\ OnTop(stack', F, r)
    BY <1>7, <2>1, <2>2, PushOne
  <2>4. CASE e # c \/ stack[1].then # "trigger"
    <3>1. \A f \in F : f.by # c \/ f.then # "trigger"
      BY <1>7, <2>2, <2>4
    <3>2. SameFires(c)
      <4>1. (Uses(stack', c) <=> Uses(r, c)) /\ (Fires(stack', c) <=> Fires(r, c))
        BY <2>3, <3>1, PushFires
      <4> QED BY <1>1, <1>2, <1>3, <2>1, <2>4, <4>1, PopFires DEF SameFires
    <3>3. e # c
      <4>1. e = c => kind[e] \in {"counter", "free"} /\ kind[e] \in KindsFor(Top.then)
        BY <1>1, <1>2, CounterKind, TopFrame DEF Fits
      <4> QED BY <1>3, <1>6, <2>4, <4>1 DEF KindsFor
    <3>4. fired'[c] = fired[c]
      BY <1>3, <1>4, <1>5, <3>3
    <3> QED BY <1>5, <1>7, <3>2, <3>4, SameCount DEF Counted
  <2>5. CASE e = c /\ stack[1].then = "trigger"
    <3>1. Uses(stack, c)
      BY <1>1, <1>2, <1>3, <2>5, PopKeeps DEF Uses
    <3>2. ~(left[c] >= 1) /\ left'[c] = left[c]
      BY <1>5, <3>1 DEF Counted, CountFor
    <3>3. fired'[c] > 0
      <4>1. fired[c] \in 0 .. 2 /\ of[c] = c /\ c = e
        BY <1>3, <1>4, <2>5
      <4>2. fired'[c] = IF fired[c] < 2 THEN fired[c] + 1 ELSE fired[c]
        BY <1>3, <1>4, <1>5, <4>1
      <4> QED BY <4>1, <4>2
    <3> QED BY <3>2, <3>3 DEF CountFor
  <2> QED BY <2>4, <2>5
<1>8. CASE Delay(e) # 0 /\ (Target(e) # "" \/ Kill(e) # "")
  <2>1. /\ FreeSlots # {} /\ DelayedUse(First(FreeSlots), e)
        /\ stack' = <<Frame("fire", e, stack[1].then)>> \o Tail(stack)
    BY <1>2, <1>3, <1>8, Zenon DEF UseTargets
  <2>2. PICK d \in Ents : d = First(FreeSlots) /\ level.kind[d] = "free"
    BY <2>1, FreeSlot
  <2>3. due' = [due EXCEPT ![d] = Delay(e)]
    BY <2>1, <2>2 DEF DelayedUse
  <2>4. due'[c] = due[c]
    BY <1>3, <1>4, <2>2, <2>3
  <2>5. PICK g \in Frames : g = Frame("fire", e, stack[1].then) /\ g.do = "fire" /\ g.by = e
                            /\ g.then = stack[1].then
    BY <1>6, FrameType
  <2> QED BY <1>7, <2>1, <2>4, <2>5
<1>9. CASE ~(Delay(e) # 0 /\ (Target(e) # "" \/ Kill(e) # ""))
  <2>1. /\ stack' = <<FireFrame(e, Target(e), stack[1].then)>> \o Tail(stack) /\ due' = due
    BY <1>2, <1>3, <1>9, Zenon DEF UseTargets
  <2>2. Target(e) \in Names
    BY LevelType DEF Inv
  <2>3. PICK g \in Frames : g = FireFrame(e, Target(e), stack[1].then) /\ g.do = "fire"
                            /\ g.by = e /\ g.then = stack[1].then
    BY <1>6, <2>2, FireFrameType
  <2> QED BY <1>7, <2>1, <2>3
<1> QED BY <1>8, <1>9, Zenon

LEMMA FireNextCounts == ASSUME Inv, Counted, NEW c \in Counts, FireNext PROVE CountFor(c)'
<1>1. stack # <<>> /\ Ahead # {}
  BY DEF FireNext
<1>2. PICK t \in Ents : t = First(Ahead)
  BY <1>1, NextAhead
<1>3. PICK below \in Seq(Frames) :
        below = <<[Top EXCEPT !.at = t]>> \o Tail(stack) /\ Alike(below, stack)
  BY <1>1, <1>2, NextAhead
<1>4. /\ TypeOK /\ stack \in Seq(Frames) /\ due \in [Ents -> Nat \cup {Never}]
      /\ left \in [Ents -> Int]
  BY DEF Inv, TypeOK
<1>5. \A d, e, u : Has(below, d, e, u) <=> Has(stack, d, e, u)
  BY <1>3, <1>4, AlikeKeeps
<1>6. c \in Ents /\ kind[c] \in {"counter", "free"} /\ fired' = fired
  BY CounterKind DEF FireNext
<1>7. ASSUME NEW k \in {"once", "trigger", "none"}, t # c \/ k # "trigger",
             stack' = below \/ stack' = <<Call(t, k)>> \o below,
             left'[c] = left[c], due'[c] = due[c], refused \subseteq refused'
      PROVE  CountFor(c)'
  <2>1. PICK f \in Frames : f = Call(t, k) /\ f.by = t /\ f.then = k
    BY FrameType DEF Call
  <2>2. SameFires(c)
    BY <1>5, <1>7, <2>1, CallFires
  <2> QED BY <1>6, <1>7, <2>2, SameCount DEF Counted
<1>8. CASE kind[t] = "relay" /\ stack' = <<Call(t, "once")>> \o below
           /\ UNCHANGED <<due, left, refused>>
  BY <1>7, <1>8
<1>9. CASE CounterUse(t, below) /\ UNCHANGED <<fields, due>>
  <2>1. /\ left' = [left EXCEPT ![t] = IF @ < 0 THEN @ ELSE @ - 1]
        /\ \/ stack' = below
           \/ (t = c => left[c] = 1) /\ stack' = <<Call(t, "trigger")>> \o below
        /\ refused \subseteq refused'
    BY <1>9 DEF CounterUse
  <2>2. CASE t # c
    <3>1. left'[c] = left[c]
      BY <1>4, <1>6, <2>1, <2>2
    <3> QED BY <1>7, <1>9, <2>1, <2>2, <3>1
  <2>3. CASE t = c /\ left[c] # 1
    <3>1. stack' = below
      BY <2>1, <2>3
    <3>2. SameFires(c)
      BY <1>5, <3>1, CallFires
    <3>3. /\ left'[c] = IF left[c] < 0 THEN left[c] ELSE left[c] - 1
          /\ left[c] \in Int
      BY <1>4, <1>6, <2>1, <2>3
    <3>4. (left'[c] >= 1 => left[c] >= 1) /\ (left'[c] <= 0 => left[c] <= 0)
      BY <2>3, <3>3
    <3>5. Uses(stack, c)' <=> Uses(stack', c)
      BY DEF Uses, Has
    <3>6. Fires(stack, c)' <=> Fires(stack', c)
      BY DEF Fires, Has
    <3> QED BY <1>6, <1>9, <2>1, <3>2, <3>4, <3>5, <3>6 DEF Counted, CountFor, SameFires
  <2>4. CASE t = c /\ left[c] = 1
    <3>1. left'[c] = 0 /\ due[c] = Never /\ ~Fires(stack, c)
      BY <1>4, <1>6, <2>1, <2>4 DEF Counted, CountFor
    <3>2. CASE ~MasterOpen(c)
      <4>1. stack' = below /\ c \in refused'
        BY <1>9, <2>4, <3>2 DEF CounterUse, Activates
      <4>2. SameFires(c)
        BY <1>5, <4>1, CallFires
      <4>3. Fires(stack, c)' <=> Fires(stack', c)
        BY DEF Fires, Has
      <4> QED BY <3>1, <4>1, <4>2, <4>3 DEF CountFor, SameFires
    <3>3. CASE MasterOpen(c)
      <4>1. Activates(c)
        BY <3>1, <3>3 DEF Activates, Never
      <4>2. stack' = <<Call(c, "trigger")>> \o below
        BY <1>9, <2>4, <4>1 DEF CounterUse
      <4>3. PICK f \in Frames : f = Call(c, "trigger") /\ f.do = "use" /\ f.by = c
                                /\ f.then = "trigger"
        BY <1>6, FrameType DEF Call
      <4>4. PICK st \in Seq(Frames) : st = stack' /\ st[1] = f /\ Len(st) = Len(below) + 1
        <5>1. /\ <<f>> \in Seq(Frames) /\ Len(<<f>>) = 1 /\ <<f>>[1] = f
          OBVIOUS
        <5>2. PICK st : st = <<f>> \o below
          OBVIOUS
        <5>3. /\ st \in Seq(Frames) /\ Len(st) = 1 + Len(below) /\ Len(below) \in Nat
              /\ \A i \in 1 .. 1 + Len(below) : st[i] = IF i <= 1 THEN <<f>>[i] ELSE below[i - 1]
          BY <5>1, <5>2, ConcatProperties, LenProperties
        <5>4. st[1] = f /\ Len(st) = Len(below) + 1
          BY <5>1, <5>3
        <5> QED BY <4>2, <4>3, <5>2, <5>3, <5>4
      <4>5. Uses(stack, c)'
        <5>1. 1 \in 1 .. Len(st)
          BY <4>4, LenProperties
        <5>2. Uses(st, c)
          BY <4>3, <4>4, <5>1 DEF Uses, Has
        <5> QED BY <4>4, <5>2 DEF Uses, Has
      <4>6. ~Fires(stack, c)'
        <5>1. PICK F : F = {f}
          OBVIOUS
        <5>2. OnTop(st, F, below)
          BY <4>2, <4>3, <4>4, <5>1, PushOne
        <5>3. Has(st, "fire", c, "trigger") =>
                Has(below, "fire", c, "trigger") \/ \E g \in F : g.do = "fire"
          BY <5>2, OnTopKeeps
        <5>4. ~Fires(st, c)
          BY <1>5, <3>1, <4>3, <5>1, <5>3 DEF Fires
        <5> QED BY <4>4, <5>4 DEF Fires, Has
      <4> QED BY <3>1, <4>5, <4>6 DEF CountFor
    <3> QED BY <3>2, <3>3
  <2> QED BY <2>2, <2>3, <2>4
<1>10. CASE kind[t] \in {"manager", "clone"} /\ ManagerUse(t, below) /\ UNCHANGED refused
  <2>1. stack' = below /\ t # c
    BY <1>6, <1>10 DEF ManagerUse
  <2>2. ASSUME NEW x \in Ents, x # c, Started(x) PROVE CountFor(c)'
    <3>1. left'[c] = left[c] /\ due'[c] = due[c]
      BY <1>4, <1>6, <2>2 DEF Started
    <3> QED BY <1>7, <1>10, <2>1, <3>1
  <2>3. CASE kind[t] = "manager" /\ Flag(t, "thread")
    <3>1. FreeSlots # {} /\ Started(First(FreeSlots))
      BY <1>10, <2>3 DEF ManagerUse, Cloned
    <3>2. PICK x \in Ents : x = First(FreeSlots) /\ level.kind[x] = "free"
      BY <3>1, FreeSlot
    <3>3. x # c
      BY <3>2 DEF Counts
    <3> QED BY <2>2, <3>1, <3>2, <3>3
  <2>4. CASE ~(kind[t] = "manager" /\ Flag(t, "thread")) /\ mode[t] = "ready"
    <3>1. Started(t)
      BY <1>10, <2>4 DEF ManagerUse
    <3> QED BY <2>1, <2>2, <3>1
  <2>5. CASE ~(kind[t] = "manager" /\ Flag(t, "thread")) /\ mode[t] # "ready"
    <3>1. UNCHANGED <<left, due>>
      BY <1>10, <2>5 DEF ManagerUse
    <3> QED BY <1>7, <1>10, <2>1, <3>1
  <2> QED BY <2>3, <2>4, <2>5
<1>11. CASE MultisourceUse(t, Top.by, below) /\ UNCHANGED <<due, left, refused>>
  <2>1. stack' = below \/ stack' = <<Call(t, "none")>> \o below
    BY <1>1, <1>4, <1>11, TopFrame, MultisourceUseTypes
  <2> QED BY <1>7, <1>11, <2>1
<1>12. CASE kind[t] = "button" /\ ButtonUse(t, below) /\ UNCHANGED <<left, refused>>
  <2>1. Pushes(t, below)
    BY <1>4, <1>12, ButtonUsePushes
  <2>2. (Uses(below, c) <=> Uses(stack, c)) /\ (Fires(below, c) <=> Fires(stack, c))
    BY <1>5 DEF Uses, Fires
  <2> QED BY <1>6, <1>12, <2>1, <2>2, ButtonCounts
<1>13. CASE stack' = below /\ UNCHANGED <<due, left, refused>>
  BY <1>7, <1>13
<1> QED BY <1>2, <1>3, <1>8, <1>9, <1>10, <1>11, <1>12, <1>13 DEF FireNext

LEMMA FireDoneCounts == ASSUME Inv, Counted, NEW c \in Counts, FireDone PROVE CountFor(c)'
<1>1. stack # <<>> /\ Top.do = "fire"
  BY DEF FireDone
<1>2. PICK e \in Ents : e = Top.by
  BY <1>1, TopFrame
<1>3. /\ Fits("fire", e, Top.then) /\ TypeOK /\ stack \in Seq(Frames) /\ Top = stack[1]
      /\ due \in [Ents -> Nat \cup {Never}] /\ left \in [Ents -> Int]
  BY <1>1, <1>2, TopFrame DEF Inv, TypeOK
<1>4. PICK below \in Seq(Frames) : below = Tail(stack)
  BY <1>1, <1>3, PopFrame
<1>5. UNCHANGED <<fired, refused>> /\ c \in Ents /\ kind[c] \in {"counter", "free"}
  BY CounterKind DEF FireDone, history
<1>6. ASSUME e # c \/ Top.then # "trigger", stack' = below, left'[c] = left[c],
             due'[c] = due[c]
      PROVE  CountFor(c)'
  <2>1. SameFires(c)
    BY <1>1, <1>2, <1>4, <1>6, PopFires DEF SameFires
  <2> QED BY <1>5, <1>6, <2>1, SameCount DEF Counted
<1>7. CASE Top.then \in {"none", "once", "rest", "delayed"}
  <2>1. stack' = below /\ UNCHANGED <<left, due>>
    BY <1>2, <1>4, <1>7 DEF FireDone
  <2> QED BY <1>6, <1>7, <2>1
<1>8. CASE Top.then = "trigger"
  <2>1. TriggerFired(e) /\ stack' = below /\ UNCHANGED left
    BY <1>2, <1>4, <1>8 DEF FireDone
  <2>2. CASE e # c
    <3>1. due'[c] = due[c]
      BY <1>3, <1>5, <2>1, <2>2 DEF TriggerFired
    <3> QED BY <1>6, <2>1, <2>2, <3>1
  <2>3. CASE e = c
    <3>1. Fires(stack, c)
      BY <1>1, <1>2, <1>3, <1>8, <2>3, PopKeeps DEF Fires
    <3>2. ~(left[c] >= 1) /\ fired[c] > 0
      BY <3>1 DEF Counted, CountFor
    <3> QED BY <1>5, <2>1, <3>2 DEF CountFor
  <2> QED BY <2>2, <2>3
<1>9. CASE Top.then = "next"
  <2>1. left' = [left EXCEPT ![e] = @ + 1] /\ stack' = below /\ UNCHANGED due
    BY <1>2, <1>4, <1>9 DEF FireDone
  <2>2. e # c
    BY <1>3, <1>5, <1>9 DEF Fits, KindsFor
  <2>3. left'[c] = left[c]
    BY <1>3, <1>5, <2>1, <2>2
  <2> QED BY <1>6, <2>1, <2>2, <2>3
<1>10. CASE Top.then = "return"
  <2>1. ButtonReturn(e, below, touch) /\ UNCHANGED left
    BY <1>2, <1>4, <1>10 DEF FireDone
  <2>2. kind[e] = "button"
    BY <1>3, <1>10 DEF Fits, KindsFor
  <2>3. Pushes(e, below)
    BY <1>3, <2>1, ButtonReturnPushes DEF TypeOK
  <2>4. (Uses(below, c) <=> Uses(stack, c)) /\ (Fires(below, c) <=> Fires(stack, c))
    BY <1>1, <1>4, <1>10, PopFires
  <2> QED BY <1>5, <2>1, <2>2, <2>3, <2>4, ButtonCounts
<1> QED
  <2>1. Top.then \in {"none", "once", "trigger", "next", "return", "rest", "delayed"}
    BY <1>1, TopFrame DEF Frames
  <2> QED BY <1>7, <1>8, <1>9, <1>10, <2>1

\* What the engine calls.
LEMMA EngineCounts ==
  ASSUME Inv, Counted, Idle, NEW c \in Counts,
         \/ stack' = stack \/ stack' = <<>>
         \/ \E f \in Frames : (f.by # c \/ f.then # "trigger") /\ stack' = <<f>>,
         UNCHANGED <<left, fired, refused>>, due'[c] = due[c] \/ due'[c] = Never
  PROVE  CountFor(c)'
<1>1. stack = <<>> /\ stack \in Seq(Frames) /\ Len(stack) = 0
  BY DEF Idle, Inv, TypeOK
<1>2. CASE stack' = stack
  <2>1. SameFires(c)
    BY <1>2 DEF SameFires
  <2> QED BY <2>1, SameCount DEF Counted
<1>3. ASSUME NEW f \in Frames, f.by # c \/ f.then # "trigger", stack' = <<f>>
      PROVE  CountFor(c)'
  <2>1. Len(stack') = 1 /\ stack'[1] = f
    BY <1>3
  <2>2. \A i \in 1 .. 1 : i = 1
    OBVIOUS
  <2>3. ~Uses(stack', c) /\ ~Fires(stack', c)
    BY <1>3, <2>1, <2>2 DEF Uses, Fires, Has
  <2>4. ~Uses(stack, c) /\ ~Fires(stack, c)
    BY <1>1, NoFrames DEF Uses, Fires
  <2>5. SameFires(c)
    BY <2>3, <2>4 DEF SameFires
  <2> QED BY <2>5, SameCount DEF Counted
<1> QED BY <1>1, <1>2, <1>3

LEMMA EngineButtonCounts ==
  ASSUME Inv, Counted, Idle, NEW b \in Ents, kind[b] = "button", Pushes(b, <<>>),
         NEW c \in Counts, UNCHANGED <<left, fired, refused>>
  PROVE  CountFor(c)'
<1>1. PICK r : r = stack
  OBVIOUS
<1>2. r \in Seq(Frames) /\ Pushes(b, r)
  BY <1>1 DEF Inv, TypeOK, Idle
<1> QED BY <1>1, <1>2, ButtonCounts

LEMMA PlayerCounts ==
  ASSUME Inv, Counted, NEW c \in Counts, NEW e \in Ents, Player(e)
  PROVE  CountFor(c)'
<1>1. TypeOK /\ touch \in SUBSET Ents /\ touch \ {e} \in SUBSET Ents /\ <<>> \in Seq(Frames)
  BY DEF Inv, TypeOK
<1>2. Idle /\ UNCHANGED <<left, fired, refused>>
  BY DEF Player, MultiTouch, ButtonTouch, PlayerUse, ButtonShot, history
<1>3. kind[c] \in {"counter", "free"}
  BY CounterKind
<1>4. ASSUME NEW k \in {"trigger", "return"}, stack' = <<Call(e, k)>>, e # c, due' = due
      PROVE  CountFor(c)'
  <2>1. PICK f \in Frames : f = Call(e, k) /\ f.by = e
    BY FrameType DEF Call
  <2> QED BY <1>2, <1>4, <2>1, EngineCounts
<1>5. CASE MultiTouch(e)
  BY <1>3, <1>4, <1>5 DEF MultiTouch
<1>6. CASE ButtonTouch(e)
  <2>1. /\ kind[e] = "button"
        /\ \/ ButtonActivate(e, <<>>, touch \ {e})
           \/ stack' = <<Call(e, "return")>> /\ UNCHANGED <<mode, due>>
    BY <1>6 DEF ButtonTouch
  <2>2. CASE ButtonActivate(e, <<>>, touch \ {e})
    BY <1>1, <1>2, <2>1, <2>2, ButtonActivatePushes, EngineButtonCounts
  <2>3. CASE stack' = <<Call(e, "return")>> /\ UNCHANGED <<mode, due>>
    BY <1>3, <1>4, <2>1, <2>3
  <2> QED BY <2>1, <2>2, <2>3
<1>7. CASE PlayerUse(e)
  BY <1>1, <1>2, <1>7, ButtonUsePushes, EngineButtonCounts DEF PlayerUse
<1>8. CASE ButtonShot(e)
  BY <1>1, <1>2, <1>8, ButtonActivatePushes, ButtonReturnPushes, EngineButtonCounts
     DEF ButtonShot
<1> QED BY <1>5, <1>6, <1>7, <1>8 DEF Player

LEMMA ThinkCounts ==
  ASSUME Inv, Counted, NEW c \in Counts, NEW e \in Ents, Think(e)
  PROVE  CountFor(c)'
<1>1. /\ TypeOK /\ due \in [Ents -> Nat \cup {Never}] /\ touch \in SUBSET Ents
      /\ <<>> \in Seq(Frames)
  BY DEF Inv, TypeOK
<1>2. Idle /\ UNCHANGED <<left, fired, refused>>
  BY DEF Think, TriggerThink, CallThink, Register, ButtonThink, ThinkTime, history
<1>3. c \in Ents /\ kind[c] \in {"counter", "free"}
  BY CounterKind
<1>4. due' = [due EXCEPT ![e] = Never] => due'[c] = due[c] \/ due'[c] = Never
  BY <1>1, <1>3
<1>5. CASE TriggerThink(e) \/ Register(e)
  <2>1. stack' = stack /\ due' = [due EXCEPT ![e] = Never]
    BY <1>5 DEF TriggerThink, Register
  <2> QED BY <1>2, <1>4, <2>1, EngineCounts
<1>6. CASE CallThink(e)
  <2>1. due' = [due EXCEPT ![e] = Never] /\ kind[e] \in {"auto", "manager", "clone", "delayed"}
    BY <1>6 DEF CallThink
  <2>2. \/ stack' = <<>>
        \/ stack' = <<Call(e, "once")>> \/ stack' = <<Frame("run", e, "none")>>
        \/ stack' = <<Call(e, "delayed")>>
    BY <1>6 DEF CallThink
  <2>3. ASSUME NEW d \in {"use", "run"}, NEW k \in {"once", "none", "delayed"},
               stack' = <<Frame(d, e, k)>>
        PROVE  CountFor(c)'
    <3>1. PICK f \in Frames : f = Frame(d, e, k) /\ f.then = k
      BY FrameType
    <3> QED BY <1>2, <1>4, <2>1, <2>3, <3>1, EngineCounts
  <2>4. CASE stack' = <<>>
    BY <1>2, <1>4, <2>1, <2>4, EngineCounts
  <2> QED BY <2>2, <2>3, <2>4 DEF Call
<1>7. CASE ButtonThink(e)
  BY <1>1, <1>2, <1>7, TriggerAndWaitPushes, ButtonReturnPushes, ButtonBackHomePushes,
     EngineButtonCounts DEF ButtonThink
<1> QED BY <1>5, <1>6, <1>7 DEF Think

LEMMA StepCounts == ASSUME Inv, Counted, [Next]_vars PROVE Counted'
<1>1. level' = level
  BY Zenon DEF Next, Calls, ManagerLoop, UseTargets, FireNext, FireDone, Tick, Load, Think,
     TriggerThink, CallThink, Register, ButtonThink, Player, MultiTouch, ButtonTouch,
     PlayerUse, ButtonShot, Reap, fields, vars
<1>2. ASSUME NEW c \in Counts PROVE CountFor(c)'
  <2>1. CASE UNCHANGED vars
    <3>1. SameFires(c)
      BY <2>1 DEF SameFires, vars
    <3> QED BY <2>1, <3>1, SameCount DEF Counted, vars
  <2>2. CASE Tick \/ Load \/ \E e \in Ents : Reap(e)
    <3>1. Idle /\ UNCHANGED <<stack, left, fired, refused>>
      BY <2>2 DEF Tick, Load, Reap, history
    <3>2. c \in Ents /\ kind[c] \in {"counter", "free"}
      BY CounterKind
    <3>3. CASE due'[c] = due[c]
      BY <3>1, <3>3, EngineCounts
    <3>4. CASE Tick /\ due'[c] # due[c]
      <4>1. due'[c] = IF due[c] > 0 THEN due[c] - 1 ELSE due[c]
        BY <3>2, <3>4 DEF Tick
      <4>2. due[c] # Never
        BY <3>4, <4>1 DEF Never
      <4>3. Uses(stack, c)' <=> Uses(stack, c)
        BY <3>1 DEF Uses, Has
      <4>4. Fires(stack, c)' <=> Fires(stack, c)
        BY <3>1 DEF Fires, Has
      <4> QED BY <3>1, <4>2, <4>3, <4>4 DEF Counted, CountFor
    <3> QED BY <2>2, <3>2, <3>3, <3>4 DEF Load, Reap
  <2> QED BY <2>1, <2>2, ManagerLoopCounts, UseTargetsCounts, FireNextCounts, FireDoneCounts,
             PlayerCounts, ThinkCounts DEF Next, Calls
<1> QED BY <1>1, <1>2 DEF Counted, Counts

LEMMA InitCounts == ASSUME Init PROVE Counted
<1>1. /\ kind = level.kind /\ due = [e \in Ents |-> IF kind[e] \in {"auto", "multisource"} THEN 1 ELSE Never]
      /\ stack = <<>>
      /\ left = [e \in Ents |-> IF kind[e] # "counter" THEN 0
                                ELSE IF level.count[e] = 0 THEN 2 ELSE level.count[e]]
  BY Zenon DEF Init
<1>2. level \in Level
  BY LevelsAssumption, Zenon DEF Init
<1>3. level.count \in [Ents -> Nat]
  BY <1>2 DEF Level
<1>4. \A c : ~Uses(stack, c) /\ ~Fires(stack, c)
  <2>1. stack \in Seq(Frames) /\ Len(stack) = 0
    BY <1>1
  <2> QED BY <2>1, NoFrames DEF Uses, Fires
<1>5. ASSUME NEW c \in Counts PROVE CountFor(c)
  <2>1. c \in Ents /\ kind[c] = "counter"
    BY <1>1 DEF Counts
  <2>2. due[c] = Never /\ left[c] >= 1 /\ ~(left[c] <= 0)
    BY <1>1, <1>3, <2>1
  <2> QED BY <1>4, <2>2 DEF CountFor
<1> QED BY <1>5 DEF Counted

\* In every map, a counter that has counted to its end fires, unless its master was closed
\* then: no use that comes while it is at its targets, and no wait, lets it pass by.
THEOREM CountsToTheEnd == Spec => []CounterNotLost
<1>1. Inv /\ Timely /\ Counted /\ [Next]_vars => (Inv /\ Timely /\ Counted)'
  BY StepInv, StepTimely, StepCounts
<1>2. ASSUME Inv, Counted PROVE CounterNotLost
  <2>1. ASSUME NEW c \in Ents, level.kind[c] = "counter", left[c] <= 0, ~OnStack(c)
        PROVE  fired[c] > 0 \/ c \in refused
    <3>1. CountFor(c)
      BY <1>2, <2>1 DEF Counted, Counts
    <3>2. ~Uses(stack, c)
      BY <2>1 DEF OnStack, Uses, Has
    <3> QED BY <2>1, <3>1, <3>2 DEF CountFor
  <2> QED BY <2>1 DEF CounterNotLost
<1>3. Init => Inv /\ Timely /\ Counted
  BY InitInv, InitCounts
<1> QED BY <1>1, <1>2, <1>3, PTL DEF Spec

(***************************************************************************)
(* Lamps: what a multisource shows of a button                             *)
(***************************************************************************)

\* A call of a button whose target is n: of its targets, or of the multisources among them.
CallFor(f, n) ==
  /\ f.do \in {"use", "fire"} /\ (f.do = "fire" => f.name = n)
  /\ \/ f.then = "none" /\ ~f.only
     \/ f.then = "rest" /\ f.only /\ f.do = "fire"

\* A call of b that goes on with t is in progress.
Under(st, b, t) == \E i \in 1 .. Len(st) : st[i].by = b /\ st[i].then = t

\* It has not come to m yet.
Awaits(f, m) == f.do = "use" \/ f.at < m
Awaited(st, b, t, m) ==
  \E i \in 1 .. Len(st) : st[i].by = b /\ st[i].then = t /\ Awaits(st[i], m)

\* There is at most one call of each kind.
Lone(st, b, n) ==
  \A i \in 1 .. Len(st) :
    st[i].by = b =>
      /\ CallFor(st[i], n)
      /\ \A j \in 1 .. Len(st) : st[j].by = b /\ st[j].then = st[i].then => j = i

LEMMA ConsIs ==
  ASSUME NEW f \in Frames, NEW s \in Seq(Frames), NEW st, st = <<f>> \o s
  PROVE  /\ st \in Seq(Frames) /\ Len(st) = 1 + Len(s) /\ Len(s) \in Nat /\ st[1] = f
         /\ \A i \in 1 .. Len(s) : st[i + 1] = s[i]
         /\ \A i \in 1 .. Len(st) : i # 1 => i - 1 \in 1 .. Len(s) /\ st[i] = s[i - 1]
<1>1. <<f>> \in Seq(Frames) /\ Len(<<f>>) = 1 /\ <<f>>[1] = f
  OBVIOUS
<1>2. /\ st \in Seq(Frames) /\ Len(st) = 1 + Len(s)
      /\ \A i \in 1 .. 1 + Len(s) : st[i] = IF i <= 1 THEN <<f>>[i] ELSE s[i - 1]
  BY <1>1, ConcatProperties
<1>3. Len(s) \in Nat
  BY LenProperties
<1>4. st[1] = f
  BY <1>1, <1>2, <1>3
<1>5. ASSUME NEW i \in 1 .. Len(s) PROVE st[i + 1] = s[i]
  <2>1. i + 1 \in 1 .. 1 + Len(s) /\ ~(i + 1 <= 1) /\ (i + 1) - 1 = i
    BY <1>3
  <2> QED BY <1>2, <2>1
<1>6. ASSUME NEW i \in 1 .. Len(st), i # 1 PROVE i - 1 \in 1 .. Len(s) /\ st[i] = s[i - 1]
  <2>1. i \in 1 .. 1 + Len(s) /\ ~(i <= 1) /\ i - 1 \in 1 .. Len(s)
    BY <1>2, <1>3, <1>6
  <2> QED BY <1>2, <2>1
<1> QED BY <1>2, <1>3, <1>4, <1>5, <1>6

\* What a frame on top adds.
LEMMA ConsCalls ==
  ASSUME NEW f \in Frames, NEW s \in Seq(Frames), NEW b, NEW n
  PROVE  /\ Lone(<<f>> \o s, b, n) <=>
              Lone(s, b, n) /\ (f.by = b => CallFor(f, n) /\ ~Under(s, b, f.then))
         /\ \A t : Under(<<f>> \o s, b, t) <=> (f.by = b /\ f.then = t) \/ Under(s, b, t)
         /\ \A t, m : Awaited(<<f>> \o s, b, t, m) <=>
              (f.by = b /\ f.then = t /\ Awaits(f, m)) \/ Awaited(s, b, t, m)
<1>1. PICK st : st = <<f>> \o s
  OBVIOUS
<1>2. /\ st \in Seq(Frames) /\ Len(st) = 1 + Len(s) /\ Len(s) \in Nat /\ st[1] = f
      /\ \A i \in 1 .. Len(s) : st[i + 1] = s[i]
      /\ \A i \in 1 .. Len(st) : i # 1 => i - 1 \in 1 .. Len(s) /\ st[i] = s[i - 1]
  BY <1>1, ConsIs
<1>3. 1 \in 1 .. Len(st) /\ \A i \in 1 .. Len(s) : i + 1 \in 1 .. Len(st) /\ i + 1 # 1
  BY <1>2
<1>4. ASSUME NEW t PROVE Under(st, b, t) <=> (f.by = b /\ f.then = t) \/ Under(s, b, t)
  <2>1. ASSUME Under(st, b, t) PROVE (f.by = b /\ f.then = t) \/ Under(s, b, t)
    BY <1>2, <2>1 DEF Under
  <2>2. ASSUME Under(s, b, t) PROVE Under(st, b, t)
    BY <1>2, <1>3, <2>2 DEF Under
  <2>3. ASSUME f.by = b, f.then = t PROVE Under(st, b, t)
    BY <1>2, <1>3, <2>3 DEF Under
  <2> QED BY <2>1, <2>2, <2>3
<1>5. ASSUME NEW t, NEW m
      PROVE  Awaited(st, b, t, m) <=>
               (f.by = b /\ f.then = t /\ Awaits(f, m)) \/ Awaited(s, b, t, m)
  <2>1. ASSUME Awaited(st, b, t, m)
        PROVE  (f.by = b /\ f.then = t /\ Awaits(f, m)) \/ Awaited(s, b, t, m)
    BY <1>2, <2>1 DEF Awaited
  <2>2. ASSUME Awaited(s, b, t, m) PROVE Awaited(st, b, t, m)
    BY <1>2, <1>3, <2>2 DEF Awaited
  <2>3. ASSUME f.by = b, f.then = t, Awaits(f, m) PROVE Awaited(st, b, t, m)
    BY <1>2, <1>3, <2>3 DEF Awaited
  <2> QED BY <2>1, <2>2, <2>3
<1>6. ASSUME Lone(st, b, n) PROVE Lone(s, b, n)
  <2> SUFFICES ASSUME NEW i \in 1 .. Len(s), s[i].by = b
               PROVE  /\ CallFor(s[i], n)
                      /\ \A j \in 1 .. Len(s) : s[j].by = b /\ s[j].then = s[i].then => j = i
    BY DEF Lone
  <2>1. st[i + 1] = s[i] /\ i + 1 \in 1 .. Len(st)
    BY <1>2, <1>3
  <2>2. CallFor(s[i], n)
    BY <1>6, <2>1 DEF Lone
  <2>3. ASSUME NEW j \in 1 .. Len(s), s[j].by = b, s[j].then = s[i].then PROVE j = i
    <3>1. st[j + 1] = s[j] /\ j + 1 \in 1 .. Len(st)
      BY <1>2, <1>3
    <3>2. j + 1 = i + 1
      BY <1>6, <2>1, <2>3, <3>1 DEF Lone
    <3> QED BY <3>2
  <2> QED BY <2>2, <2>3
<1>7. ASSUME Lone(st, b, n), f.by = b PROVE CallFor(f, n) /\ ~Under(s, b, f.then)
  <2>1. CallFor(f, n)
    BY <1>2, <1>3, <1>7 DEF Lone
  <2>2. ASSUME NEW i \in 1 .. Len(s), s[i].by = b, s[i].then = f.then PROVE FALSE
    <3>1. st[i + 1] = s[i] /\ i + 1 \in 1 .. Len(st) /\ i + 1 # 1
      BY <1>2, <1>3
    <3> QED BY <1>2, <1>3, <1>7, <2>2, <3>1 DEF Lone
  <2> QED BY <2>1, <2>2 DEF Under
<1>8. ASSUME Lone(s, b, n), f.by = b => CallFor(f, n) /\ ~Under(s, b, f.then)
      PROVE  Lone(st, b, n)
  <2> SUFFICES ASSUME NEW i \in 1 .. Len(st), st[i].by = b
               PROVE  /\ CallFor(st[i], n)
                      /\ \A j \in 1 .. Len(st) : st[j].by = b /\ st[j].then = st[i].then => j = i
    BY DEF Lone
  <2>1. CallFor(st[i], n)
    BY <1>2, <1>8 DEF Lone
  <2>2. ASSUME NEW j \in 1 .. Len(st), st[j].by = b, st[j].then = st[i].then PROVE j = i
    <3>1. CASE i = 1 /\ j # 1
      BY <1>2, <1>8, <2>2, <3>1 DEF Under
    <3>2. CASE i # 1 /\ j = 1
      BY <1>2, <1>8, <2>2, <3>2 DEF Under
    <3>3. CASE i # 1 /\ j # 1
      <4>1. /\ i - 1 \in 1 .. Len(s) /\ st[i] = s[i - 1]
            /\ j - 1 \in 1 .. Len(s) /\ st[j] = s[j - 1]
        BY <1>2, <3>3
      <4>2. j - 1 = i - 1
        BY <1>8, <2>2, <4>1 DEF Lone
      <4> QED BY <1>2, <4>2
    <3> QED BY <3>1, <3>2, <3>3
  <2> QED BY <2>1, <2>2
<1>9. Lone(st, b, n) <=> Lone(s, b, n) /\ (f.by = b => CallFor(f, n) /\ ~Under(s, b, f.then))
  BY <1>6, <1>7, <1>8
<1>10. /\ \A t : Under(st, b, t) <=> (f.by = b /\ f.then = t) \/ Under(s, b, t)
       /\ \A t, m : Awaited(st, b, t, m) <=>
            (f.by = b /\ f.then = t /\ Awaits(f, m)) \/ Awaited(s, b, t, m)
  BY <1>4, <1>5
<1> QED BY <1>1, <1>9, <1>10, Zenon

LEMMA SplitTop ==
  ASSUME NEW s \in Seq(Frames), s # <<>>
  PROVE  s = <<s[1]>> \o Tail(s) /\ Tail(s) \in Seq(Frames) /\ s[1] \in Frames
<1>1. PICK r : r = Tail(s)
  OBVIOUS
<1>2. r \in Seq(Frames) /\ Len(r) = Len(s) - 1 /\ Len(s) \in Nat \ {0} /\ s[1] \in Frames
      /\ \A i \in 1 .. Len(s) - 1 : r[i] = s[i + 1]
  BY <1>1, PopFrame
<1>3. PICK st : st = <<s[1]>> \o r
  OBVIOUS
<1>4. /\ st \in Seq(Frames) /\ Len(st) = 1 + Len(r) /\ st[1] = s[1]
      /\ \A i \in 1 .. Len(st) : i # 1 => i - 1 \in 1 .. Len(r) /\ st[i] = r[i - 1]
  BY <1>2, <1>3, ConsIs
<1>5. Len(st) = Len(s)
  BY <1>2, <1>4
<1>6. ASSUME NEW i \in 1 .. Len(s) PROVE st[i] = s[i]
  <2>1. CASE i # 1
    <3>1. i - 1 \in 1 .. Len(s) - 1 /\ (i - 1) + 1 = i /\ st[i] = r[i - 1]
      BY <1>2, <1>4, <1>5, <2>1
    <3> QED BY <1>2, <3>1
  <2> QED BY <1>4, <2>1
<1>7. st = s
  BY <1>4, <1>5, <1>6, SeqEqual
<1> QED BY <1>1, <1>2, <1>3, <1>7

LEMMA EmptyCalls ==
  ASSUME NEW b, NEW n
  PROVE  /\ Lone(<<>>, b, n)
         /\ \A t : ~Under(<<>>, b, t)
         /\ \A t, m : ~Awaited(<<>>, b, t, m)
<1>1. Len(<<>>) = 0 /\ 1 .. 0 = {}
  OBVIOUS
<1> QED BY <1>1 DEF Lone, Under, Awaited

\* The calls of b are the same in st as in s.
SameCalls(st, s, b, n) ==
  /\ Lone(st, b, n) <=> Lone(s, b, n)
  /\ \A t : Under(st, b, t) <=> Under(s, b, t)
  /\ \A t, m : Awaited(st, b, t, m) <=> Awaited(s, b, t, m)

LEMMA OthersCalls ==
  ASSUME NEW s \in Seq(Frames), NEW st \in Seq(Frames), NEW F, OnTop(st, F, s), NEW b, NEW n,
         \A f \in F : f.by # b
  PROVE  SameCalls(st, s, b, n)
<1>1. PICK k \in Nat : /\ Len(st) = Len(s) + k
                       /\ \A i \in 1 .. k : st[i] \in F
                       /\ \A i \in 1 .. Len(s) : st[i + k] = s[i]
  BY DEF OnTop
<1>2. Len(s) \in Nat /\ Len(st) \in Nat
  BY LenProperties
<1>3. ASSUME NEW i \in 1 .. Len(st), st[i].by = b
      PROVE  i - k \in 1 .. Len(s) /\ st[i] = s[i - k]
  <2>1. ~(i <= k)
    BY <1>1, <1>3
  <2>2. i - k \in 1 .. Len(s) /\ (i - k) + k = i
    BY <1>1, <1>2, <2>1
  <2> QED BY <1>1, <2>2
<1>4. ASSUME NEW i \in 1 .. Len(s) PROVE i + k \in 1 .. Len(st) /\ st[i + k] = s[i]
  BY <1>1, <1>2
<1>5. ASSUME NEW t PROVE Under(st, b, t) <=> Under(s, b, t)
  <2>1. Under(st, b, t) => Under(s, b, t)
    BY <1>3 DEF Under
  <2>2. Under(s, b, t) => Under(st, b, t)
    BY <1>4 DEF Under
  <2> QED BY <2>1, <2>2
<1>6. ASSUME NEW t, NEW m PROVE Awaited(st, b, t, m) <=> Awaited(s, b, t, m)
  <2>1. Awaited(st, b, t, m) => Awaited(s, b, t, m)
    BY <1>3 DEF Awaited
  <2>2. Awaited(s, b, t, m) => Awaited(st, b, t, m)
    BY <1>4 DEF Awaited
  <2> QED BY <2>1, <2>2
<1>7. ASSUME Lone(s, b, n) PROVE Lone(st, b, n)
  <2> SUFFICES ASSUME NEW i \in 1 .. Len(st), st[i].by = b
               PROVE  /\ CallFor(st[i], n)
                      /\ \A j \in 1 .. Len(st) : st[j].by = b /\ st[j].then = st[i].then => j = i
    BY DEF Lone
  <2>1. i - k \in 1 .. Len(s) /\ st[i] = s[i - k]
    BY <1>3
  <2>2. CallFor(st[i], n)
    BY <1>7, <2>1 DEF Lone
  <2>3. ASSUME NEW j \in 1 .. Len(st), st[j].by = b, st[j].then = st[i].then PROVE j = i
    <3>1. j - k \in 1 .. Len(s) /\ st[j] = s[j - k]
      BY <1>3, <2>3
    <3>2. j - k = i - k
      BY <1>7, <2>1, <2>3, <3>1 DEF Lone
    <3> QED BY <1>2, <3>2
  <2> QED BY <2>2, <2>3
<1>8. ASSUME Lone(st, b, n) PROVE Lone(s, b, n)
  <2> SUFFICES ASSUME NEW i \in 1 .. Len(s), s[i].by = b
               PROVE  /\ CallFor(s[i], n)
                      /\ \A j \in 1 .. Len(s) : s[j].by = b /\ s[j].then = s[i].then => j = i
    BY DEF Lone
  <2>1. st[i + k] = s[i] /\ i + k \in 1 .. Len(st)
    BY <1>4
  <2>2. CallFor(s[i], n)
    BY <1>8, <2>1 DEF Lone
  <2>3. ASSUME NEW j \in 1 .. Len(s), s[j].by = b, s[j].then = s[i].then PROVE j = i
    <3>1. st[j + k] = s[j] /\ j + k \in 1 .. Len(st)
      BY <1>4
    <3>2. j + k = i + k
      BY <1>8, <2>1, <2>3, <3>1 DEF Lone
    <3> QED BY <1>2, <3>2
  <2> QED BY <2>2, <2>3
<1> QED BY <1>5, <1>6, <1>7, <1>8 DEF SameCalls

Sources == {m \in Ents : level.kind[m] = "multisource"}

\* The buttons the property speaks of.
Lamps == {b \in Ents : /\ level.kind[b] = "button" /\ "toggle" \notin level.flags[b]
                       /\ level.delay[b] = 0}

\* A multisource looks for its members once; if it has any it has a last one.
SourceFor(m) ==
  /\ mode[m] # "set" => last[m] = 0
  /\ mode[m] = "set" => due[m] = Never
  /\ members[m] # {} => last[m] # 0

Shown(b, m) ==
  /\ Live(b) /\ Live(m) /\ m \notin early
  /\ level.target[b] = level.name[m] /\ b # last[m]

\* The multisource m shows where b is, but for the calls that have not come to it yet.
LampAt(b, m) ==
  /\ b \in members[m] => level.target[b] = level.name[m]
  /\ level.target[b] = level.name[m] /\ mode[m] = "set" /\ kind[b] = "button" => b \in members[m]
  /\ Shown(b, m) =>
       (b \in lit[m] <=> (mode[b] \in {"top", "down"} <=>
                            (Awaited(stack, b, "none", m) <=> Awaited(stack, b, "rest", m))))

\* A button fires its targets while it is in.
LampFor(b) ==
  /\ Lone(stack, b, level.target[b])
  /\ Under(stack, b, "none") => mode[b] = "top"
  /\ \A m \in Sources : LampAt(b, m)

Lit == (\A m \in Sources : SourceFor(m)) /\ (\A b \in Lamps : LampFor(b))

\* What every step but Register leaves of the multisources.
Aside ==
  /\ UNCHANGED <<level, members, last>> /\ early \subseteq early'
  /\ \A e \in Ents : level.kind[e] # "free" =>
       /\ kind'[e] \in {kind[e], "free"}
       /\ e \in killed /\ kind'[e] # "free" => e \in killed'
  /\ \A m \in Sources : mode'[m] = mode[m] /\ (due[m] = Never => due'[m] = Never)

LEMMA FixedKind ==
  ASSUME Inv, NEW e \in Ents, level.kind[e] # "free"
  PROVE  of[e] = e /\ kind[e] \in {level.kind[e], "free"}
BY DEF Inv, KindsFit

LEMMA SameSources ==
  ASSUME Aside, NEW m \in Sources, SourceFor(m) PROVE SourceFor(m)'
BY DEF Aside, SourceFor

LEMMA LampKind ==
  ASSUME Inv, NEW b \in Lamps
  PROVE  /\ b \in Ents /\ level.kind[b] = "button" /\ of[b] = b /\ kind[b] \in {"button", "free"}
         /\ Target(b) = level.target[b] /\ ~Flag(b, "toggle") /\ ~Returnable(b)
         /\ kind[b] = "button" => Delay(b) = 0
<1>1. /\ b \in Ents /\ level.kind[b] = "button" /\ "toggle" \notin level.flags[b]
      /\ level.delay[b] = 0
  BY DEF Lamps
<1>2. of[b] = b /\ kind[b] \in {"button", "free"}
  BY <1>1, FixedKind
<1> QED BY <1>1, <1>2 DEF Target, Flag, Returnable, Delay

LEMMA SourceKind ==
  ASSUME Inv, NEW m \in Sources
  PROVE  /\ m \in Ents /\ level.kind[m] = "multisource" /\ of[m] = m
         /\ kind[m] \in {"multisource", "free"} /\ Name(m) = level.name[m] /\ level.name[m] # ""
         /\ m \notin Lamps
<1>1. m \in Ents /\ level.kind[m] = "multisource"
  BY DEF Sources
<1>2. of[m] = m /\ kind[m] \in {"multisource", "free"}
  BY <1>1, FixedKind
<1>3. level.name[m] # ""
  <2>1. level \in Levels
    BY DEF Inv, TypeOK
  <2> QED BY <1>1, <2>1, LevelsAssumption
<1> QED BY <1>1, <1>2, <1>3 DEF Name, Lamps

\* A step that changes of b and its multisources what it says.
LEMMA LampKept ==
  ASSUME Aside, Inv, NEW b \in Lamps, LampFor(b), NEW st, st = stack',
         Lone(st, b, level.target[b]), Under(st, b, "none") => mode'[b] = "top",
         \A m \in Sources :
           Shown(b, m) /\ m \notin early'
           => (b \in lit'[m] <=> (mode'[b] \in {"top", "down"} <=>
                                    (Awaited(st, b, "none", m) <=> Awaited(st, b, "rest", m))))
  PROVE  LampFor(b)'
<1>1. b \in Ents /\ level.kind[b] # "free" /\ level' = level
  BY LampKind DEF Aside
<1>2. Lone(stack, b, level.target[b])'
  BY <1>1 DEF Lone
<1>3. (Under(stack, b, "none") => mode[b] = "top")'
  BY DEF Under
<1>4. ASSUME NEW m \in Sources PROVE LampAt(b, m)'
  <2>1. /\ level' = level /\ members' = members /\ last' = last /\ mode'[m] = mode[m]
        /\ early \subseteq early' /\ m \in Ents /\ level.kind[m] # "free"
    BY SourceKind DEF Aside
  <2>2. LampAt(b, m)
    BY DEF LampFor
  <2>3. /\ Live(b)' => Live(b)
        /\ Live(m)' => Live(m)
        /\ kind'[b] = "button" => kind[b] = "button"
    BY <1>1, <2>1 DEF Aside, Live
  <2>4. Shown(b, m)' => Shown(b, m) /\ m \notin early'
    BY <2>1, <2>3 DEF Shown
  <2>5. \A t : Awaited(stack, b, t, m)' <=> Awaited(st, b, t, m)
    BY DEF Awaited
  <2>6. Shown(b, m)' =>
         (b \in lit[m] <=> (mode[b] \in {"top", "down"} <=>
                            (Awaited(stack, b, "none", m) <=> Awaited(stack, b, "rest", m))))'
    BY <2>4, <2>5
  <2>7. /\ (b \in members[m] => level.target[b] = level.name[m])'
        /\ (level.target[b] = level.name[m] /\ mode[m] = "set" /\ kind[b] = "button"
            => b \in members[m])'
    BY <2>1, <2>2, <2>3 DEF LampAt
  <2> QED BY <2>6, <2>7 DEF LampAt
<1>5. \A m \in Sources' : LampAt(b, m)'
  BY <1>1, <1>4 DEF Sources
<1> QED BY <1>2, <1>3, <1>5 DEF LampFor

\* A step that leaves b as it is, or has calls of it come to where nothing hears them.
LEMMA LampSame ==
  ASSUME Aside, Inv, NEW b \in Lamps, LampFor(b), NEW st, st = stack', mode'[b] = mode[b],
         Lone(st, b, level.target[b]), \A t : Under(st, b, t) => Under(stack, b, t),
         \A m \in Sources :
           Shown(b, m) /\ m \notin early'
           => /\ b \in lit'[m] <=> b \in lit[m]
              /\ \A t : Awaited(st, b, t, m) <=> Awaited(stack, b, t, m)
  PROVE  LampFor(b)'
<1>1. Under(st, b, "none") => mode'[b] = "top"
  BY DEF LampFor
<1>2. ASSUME NEW m \in Sources, Shown(b, m), m \notin early'
      PROVE  b \in lit'[m] <=> (mode'[b] \in {"top", "down"} <=>
                                  (Awaited(st, b, "none", m) <=> Awaited(st, b, "rest", m)))
  <2>1. LampAt(b, m)
    BY DEF LampFor
  <2>2. b \in lit[m] <=> (mode[b] \in {"top", "down"} <=>
                            (Awaited(stack, b, "none", m) <=> Awaited(stack, b, "rest", m)))
    BY <1>2, <2>1 DEF LampAt
  <2>3. /\ b \in lit'[m] <=> b \in lit[m]
        /\ Awaited(st, b, "none", m) <=> Awaited(stack, b, "none", m)
        /\ Awaited(st, b, "rest", m) <=> Awaited(stack, b, "rest", m)
    BY <1>2
  <2> QED BY <2>2, <2>3
<1> QED BY <1>1, <1>2, LampKept

\* A step that changes the fields of no multisource, and makes only what is not of the map.
LEMMA AsideFrom ==
  ASSUME Inv, UNCHANGED <<level, members, last>>, early \subseteq early', killed \subseteq killed',
         NEW x \in Ents,
         \/ kind' = kind
         \/ level.kind[x] = "free" /\ \E k : kind' = [kind EXCEPT ![x] = k]
         \/ kind' = [kind EXCEPT ![x] = "free"],
         \/ UNCHANGED <<mode, due>>
         \/ /\ x \notin Sources
            /\ mode' = mode \/ \E y : mode' = [mode EXCEPT ![x] = y]
            /\ due' = due \/ \E y : due' = [due EXCEPT ![x] = y]
  PROVE  Aside
<1>1. /\ kind \in [Ents -> Kinds] /\ due \in [Ents -> Nat \cup {Never}]
      /\ mode \in [Ents -> Modes]
  BY DEF Inv, TypeOK, Modes
<1>2. ASSUME NEW e \in Ents, level.kind[e] # "free" PROVE kind'[e] \in {kind[e], "free"}
  BY <1>1, <1>2
<1>3. ASSUME NEW m \in Sources PROVE mode'[m] = mode[m] /\ due'[m] = due[m]
  <2>1. m \in Ents
    BY DEF Sources
  <2> QED BY <1>1, <2>1
<1> QED BY <1>2, <1>3 DEF Aside

LEMMA NotSource ==
  ASSUME Inv, NEW e \in Ents, kind[e] \notin {"multisource", "free"} PROVE e \notin Sources
BY SourceKind

\* What the functions of a button leave.
LEMMA PushesAside ==
  ASSUME Inv, NEW b \in Ents, kind[b] = "button", NEW r, Pushes(b, r),
         UNCHANGED <<level, kind, members, last, killed, early>>
  PROVE  Aside
<1>1. PICK x \in Modes, y \in Nat \cup {Never} :
        mode' = [mode EXCEPT ![b] = x] /\ due' = [due EXCEPT ![b] = y]
  BY DEF Pushes
<1>2. b \notin Sources
  BY NotSource
<1> QED BY <1>1, <1>2, AsideFrom

LEMMA ManagerLoopAside == ASSUME Inv, ManagerLoop PROVE Aside
<1>1. stack # <<>> /\ Top.do = "run"
  BY DEF ManagerLoop
<1>2. PICK e \in Ents : e = Top.by
  BY <1>1, TopFrame
<1>3. e \in Running
  BY <1>1, <1>2, TopFrame DEF Fits
<1>4. e \notin Sources
  BY <1>3, NotSource DEF Running
<1>5. /\ UNCHANGED <<level, kind, members, last, early>> /\ killed \subseteq killed'
      /\ mode' = mode \/ mode' = [mode EXCEPT ![e] = "ready"]
      /\ due' = due \/ due' = [due EXCEPT ![e] = Remaining(e)]
  BY <1>2 DEF ManagerLoop, fields, history
<1> QED BY <1>4, <1>5, AsideFrom

LEMMA UseTargetsAside == ASSUME Inv, UseTargets PROVE Aside
<1>1. stack # <<>>
  BY Zenon DEF UseTargets
<1>2. PICK e \in Ents : e = Top.by
  BY <1>1, TopFrame
<1>3. UNCHANGED <<level, mode, members, last, early>>
  BY Zenon DEF UseTargets
<1>4. CASE Delay(e) # 0 /\ (Target(e) # "" \/ Kill(e) # "")
  <2>1. FreeSlots # {} /\ DelayedUse(First(FreeSlots), e) /\ UNCHANGED killed
    BY <1>2, <1>4, Zenon DEF UseTargets
  <2>2. PICK d \in Ents : d = First(FreeSlots) /\ level.kind[d] = "free"
    BY <2>1, FreeSlot
  <2>3. kind' = [kind EXCEPT ![d] = "delayed"] /\ due' = [due EXCEPT ![d] = Delay(e)]
    BY <2>1, <2>2 DEF DelayedUse
  <2>4. d \notin Sources
    BY <2>2 DEF Sources
  <2> QED BY <1>3, <2>1, <2>2, <2>3, <2>4, AsideFrom
<1>5. CASE ~(Delay(e) # 0 /\ (Target(e) # "" \/ Kill(e) # ""))
  <2>1. killed' = killed \cup NamedAs(Kill(e)) /\ UNCHANGED <<kind, due>>
    BY <1>2, <1>5, Zenon DEF UseTargets
  <2> QED BY <1>2, <1>3, <2>1, AsideFrom
<1> QED BY <1>4, <1>5, Zenon

LEMMA FireNextAside == ASSUME Inv, FireNext PROVE Aside
<1>1. stack # <<>> /\ Ahead # {}
  BY DEF FireNext
<1>2. PICK t \in Ents : t = First(Ahead)
  BY <1>1, NextAhead
<1>3. PICK below \in Seq(Frames) : below = <<[Top EXCEPT !.at = t]>> \o Tail(stack)
  BY <1>1, <1>2, NextAhead
<1>4. TypeOK /\ UNCHANGED <<members, last, killed>>
  BY DEF Inv, FireNext
<1>5. CASE UNCHANGED <<level, kind, mode, due>> /\ early \subseteq early'
  BY <1>2, <1>4, <1>5, AsideFrom
<1>6. CASE kind[t] \in {"manager", "clone"} /\ ManagerUse(t, below) /\ UNCHANGED <<level, early>>
  <2>1. ASSUME NEW x \in Ents, x \notin Sources, Started(x),
               \/ kind' = kind
               \/ level.kind[x] = "free" /\ kind' = [kind EXCEPT ![x] = "clone"]
        PROVE  Aside
    <3>1. mode' = [mode EXCEPT ![x] = "running"] /\ due' = [due EXCEPT ![x] = 0]
      BY <2>1 DEF Started
    <3> QED BY <1>4, <1>6, <2>1, <3>1, AsideFrom
  <2>2. CASE kind[t] = "manager" /\ Flag(t, "thread")
    <3>1. FreeSlots # {} /\ Cloned(t, First(FreeSlots))
      BY <1>6, <2>2 DEF ManagerUse
    <3>2. PICK x \in Ents : x = First(FreeSlots) /\ level.kind[x] = "free"
      BY <3>1, FreeSlot
    <3>3. x \notin Sources
      BY <3>2 DEF Sources
    <3> QED BY <2>1, <3>1, <3>2, <3>3 DEF Cloned
  <2>3. CASE ~(kind[t] = "manager" /\ Flag(t, "thread"))
    <3>1. kind' = kind /\ (Started(t) \/ UNCHANGED <<mode, due>>)
      BY <1>6, <2>3 DEF ManagerUse
    <3>2. t \notin Sources
      BY <1>6, NotSource
    <3> QED BY <1>4, <1>5, <1>6, <2>1, <3>1, <3>2
  <2> QED BY <2>2, <2>3
<1>7. CASE kind[t] = "button" /\ ButtonUse(t, below) /\ UNCHANGED <<level, kind, early>>
  BY <1>4, <1>7, ButtonUsePushes, PushesAside
<1>8. early' = early \/ (\E by : MultisourceUse(t, by, below))
  BY <1>1, <1>2, <1>3 DEF FireNext
<1>9. early \subseteq early'
  BY <1>8 DEF MultisourceUse
<1> QED BY <1>2, <1>3, <1>5, <1>6, <1>7, <1>9 DEF FireNext, fields

LEMMA FireDoneAside == ASSUME Inv, FireDone PROVE Aside
<1>1. stack # <<>> /\ Top.do = "fire"
  BY DEF FireDone
<1>2. PICK e \in Ents : e = Top.by
  BY <1>1, TopFrame
<1>3. Fits("fire", e, Top.then) /\ TypeOK /\ stack \in Seq(Frames)
  BY <1>1, <1>2, TopFrame DEF Inv, TypeOK
<1>4. PICK below \in Seq(Frames) : below = Tail(stack)
  BY <1>1, <1>3, PopFrame
<1>5. UNCHANGED <<level, members, last, early>>
  BY DEF FireDone, history
<1>6. CASE Top.then \in {"none", "next", "rest", "once"}
  <2>1. UNCHANGED <<kind, mode, due>> /\ killed \subseteq killed'
    BY <1>2, <1>6 DEF FireDone
  <2> QED BY <1>2, <1>5, <2>1, AsideFrom
<1>7. CASE Top.then = "trigger"
  <2>1. TriggerFired(e) /\ UNCHANGED <<kind, killed>>
    BY <1>2, <1>7 DEF FireDone
  <2>2. /\ mode' = mode \/ mode' = [mode EXCEPT ![e] = "spent"]
        /\ \E y : due' = [due EXCEPT ![e] = y]
    BY <2>1 DEF TriggerFired
  <2>3. e \notin Sources
    BY <1>3, <1>7, NotSource DEF Fits, KindsFor
  <2> QED BY <1>5, <2>1, <2>2, <2>3, AsideFrom
<1>8. CASE Top.then = "return"
  <2>1. ButtonReturn(e, below, touch) /\ UNCHANGED <<kind, killed>> /\ kind[e] = "button"
    BY <1>2, <1>3, <1>4, <1>8 DEF FireDone, Fits, KindsFor
  <2>2. Pushes(e, below)
    BY <1>3, <2>1, ButtonReturnPushes DEF TypeOK
  <2> QED BY <1>5, <2>1, <2>2, PushesAside
<1>9. CASE Top.then = "delayed"
  <2>1. kind' = [kind EXCEPT ![e] = "free"] /\ UNCHANGED <<killed, mode, due>>
    BY <1>2, <1>9 DEF FireDone
  <2> QED BY <1>5, <2>1, AsideFrom
<1> QED
  <2>1. Top.then \in {"none", "once", "trigger", "next", "return", "rest", "delayed"}
    BY <1>1, TopFrame DEF Frames
  <2> QED BY <1>6, <1>7, <1>8, <1>9, <2>1

LEMMA PlayerAside == ASSUME Inv, NEW e \in Ents, Player(e) PROVE Aside
<1>1. TypeOK /\ touch \in SUBSET Ents /\ touch \ {e} \in SUBSET Ents /\ <<>> \in Seq(Frames)
  BY DEF Inv, TypeOK
<1>2. UNCHANGED <<level, kind, members, last, killed, early>>
  BY DEF Player, MultiTouch, ButtonTouch, PlayerUse, ButtonShot, history, fields
<1>3. CASE UNCHANGED <<mode, due>>
  BY <1>2, <1>3, AsideFrom
<1>4. CASE kind[e] = "button" /\ Pushes(e, <<>>)
  BY <1>2, <1>4, PushesAside
<1>5. CASE ButtonTouch(e)
  <2>1. kind[e] = "button" /\ (ButtonActivate(e, <<>>, touch \ {e}) \/ UNCHANGED <<mode, due>>)
    BY <1>5 DEF ButtonTouch
  <2> QED BY <1>1, <1>3, <1>4, <2>1, ButtonActivatePushes
<1>6. CASE PlayerUse(e)
  BY <1>1, <1>4, <1>6, ButtonUsePushes DEF PlayerUse
<1>7. CASE ButtonShot(e)
  BY <1>1, <1>4, <1>7, ButtonActivatePushes, ButtonReturnPushes DEF ButtonShot
<1> QED BY <1>3, <1>5, <1>6, <1>7 DEF Player, MultiTouch

LEMMA ThinkAside == ASSUME Inv, NEW e \in Ents, Think(e), ~Register(e) PROVE Aside
<1>1. TypeOK /\ touch \in SUBSET Ents /\ <<>> \in Seq(Frames)
  BY DEF Inv, TypeOK
<1>2. UNCHANGED <<level, members, last, killed, early>>
  BY DEF Think, TriggerThink, CallThink, ButtonThink, history, fields
<1>3. CASE TriggerThink(e) \/ CallThink(e)
  <2>1. /\ due' = [due EXCEPT ![e] = Never] /\ mode' = mode
        /\ kind' = kind \/ kind' = [kind EXCEPT ![e] = "free"]
        /\ kind[e] \notin {"multisource", "free"}
    BY <1>3 DEF TriggerThink, CallThink, fields
  <2>2. e \notin Sources
    BY <2>1, NotSource
  <2> QED BY <1>2, <2>1, <2>2, AsideFrom
<1>4. CASE ButtonThink(e)
  <2>1. kind[e] = "button" /\ kind' = kind
    BY <1>4 DEF ButtonThink, fields
  <2>2. Pushes(e, <<>>)
    BY <1>1, <1>4, TriggerAndWaitPushes, ButtonReturnPushes, ButtonBackHomePushes DEF ButtonThink
  <2> QED BY <1>2, <2>1, <2>2, PushesAside
<1> QED BY <1>3, <1>4 DEF Think

LEMMA OtherAside == ASSUME Inv, Tick \/ Load \/ \E e \in Ents : Reap(e) PROVE Aside
<1>1. /\ kind \in [Ents -> Kinds] /\ due \in [Ents -> Nat \cup {Never}]
  BY DEF Inv, TypeOK
<1>2. UNCHANGED <<level, members, last, early, mode>>
  BY DEF Tick, Load, Reap, history, fields
<1>3. CASE Tick \/ Load
  <2>1. UNCHANGED <<kind, killed>>
    BY <1>3 DEF Tick, Load, fields
  <2>2. ASSUME NEW m \in Sources, due[m] = Never PROVE due'[m] = Never
    <3>1. m \in Ents /\ kind[m] # "auto"
      BY SourceKind
    <3> QED BY <1>3, <2>2, <3>1 DEF Tick, Load, Never
  <2> QED BY <1>2, <2>1, <2>2 DEF Aside
<1>4. ASSUME NEW e \in Ents, Reap(e) PROVE Aside
  <2>1. kind' = [kind EXCEPT ![e] = "free"] /\ killed' = killed \ {e} /\ due' = due
    BY <1>4 DEF Reap
  <2>2. ASSUME NEW x \in Ents
        PROVE  /\ kind'[x] \in {kind[x], "free"}
               /\ x \in killed /\ kind'[x] # "free" => x \in killed'
    BY <1>1, <2>1
  <2> QED BY <1>2, <2>1, <2>2 DEF Aside
<1> QED BY <1>3, <1>4

LEMMA LampCalm ==
  ASSUME Aside, Inv, NEW b \in Lamps, LampFor(b), NEW st, st = stack', mode'[b] = mode[b],
         lit' = lit, SameCalls(st, stack, b, level.target[b])
  PROVE  LampFor(b)'
<1>1. Lone(st, b, level.target[b])
  BY DEF SameCalls, LampFor
<1> QED BY <1>1, LampSame DEF SameCalls

LEMMA PushCalls ==
  ASSUME NEW f \in Frames, NEW s \in Seq(Frames), NEW b, NEW n, f.by # b
  PROVE  SameCalls(<<f>> \o s, s, b, n)
<1>1. PICK st : st = <<f>> \o s
  OBVIOUS
<1>2. /\ Lone(st, b, n) <=> Lone(s, b, n)
      /\ \A t : Under(st, b, t) <=> Under(s, b, t)
      /\ \A t, m : Awaited(st, b, t, m) <=> Awaited(s, b, t, m)
  BY <1>1, ConsCalls
<1> QED BY <1>1, <1>2 DEF SameCalls

\* The stack and what is under its top.
LEMMA TopCalls ==
  ASSUME Inv, stack # <<>>, NEW b, NEW n, NEW r, r = Tail(stack)
  PROVE  /\ r \in Seq(Frames) /\ Top \in Frames
         /\ Lone(stack, b, n) <=>
              Lone(r, b, n) /\ (Top.by = b => CallFor(Top, n) /\ ~Under(r, b, Top.then))
         /\ \A t : Under(stack, b, t) <=> (Top.by = b /\ Top.then = t) \/ Under(r, b, t)
         /\ \A t, m : Awaited(stack, b, t, m) <=>
              (Top.by = b /\ Top.then = t /\ Awaits(Top, m)) \/ Awaited(r, b, t, m)
         /\ \A t, m : ~Under(r, b, t) => ~Awaited(r, b, t, m)
<1>1. PICK s \in Seq(Frames) : s = stack
  BY DEF Inv, TypeOK
<1>2. PICK f \in Frames : f = Top /\ f = s[1]
  BY <1>1, TopFrame
<1>3. s = <<f>> \o r /\ r \in Seq(Frames)
  BY <1>1, <1>2, SplitTop
<1>4. /\ Lone(s, b, n) <=>
              Lone(r, b, n) /\ (f.by = b => CallFor(f, n) /\ ~Under(r, b, f.then))
      /\ \A t : Under(s, b, t) <=> (f.by = b /\ f.then = t) \/ Under(r, b, t)
      /\ \A t, m : Awaited(s, b, t, m) <=>
           (f.by = b /\ f.then = t /\ Awaits(f, m)) \/ Awaited(r, b, t, m)
  BY <1>3, ConsCalls
<1>5. \A t, m : ~Under(r, b, t) => ~Awaited(r, b, t, m)
  BY DEF Under, Awaited
<1> QED BY <1>1, <1>2, <1>3, <1>4, <1>5

LEMMA PopCalls ==
  ASSUME Inv, stack # <<>>, NEW b, NEW n, NEW r, r = Tail(stack), Top.by # b
  PROVE  SameCalls(r, stack, b, n)
BY TopCalls DEF SameCalls

LEMMA ToSource ==
  ASSUME Inv, NEW t \in Ents, kind[t] = "multisource" PROVE t \in Sources
BY DEF Inv, KindsFit, Sources

LEMMA FirstLeast ==
  ASSUME NEW S \in SUBSET Ents, NEW x \in S PROVE First(S) <= x
<1>1. \E z \in S : \A y \in S : z <= y
  BY LeastIn, SlotsNat
<1> QED BY <1>1 DEF First

LEMMA ManagerLoopLamp ==
  ASSUME Inv, ManagerLoop, NEW b \in Lamps, LampFor(b) PROVE LampFor(b)'
<1>1. stack # <<>> /\ Top.do = "run"
  BY DEF ManagerLoop
<1>2. PICK e \in Ents : e = Top.by
  BY <1>1, TopFrame
<1>3. e \in Running /\ stack \in Seq(Frames) /\ mode \in [Ents -> Modes]
  BY <1>1, <1>2, TopFrame DEF Fits, Inv, TypeOK, Modes
<1>4. b # e /\ b \in Ents
  BY <1>3, LampKind DEF Running
<1>5. Aside /\ lit' = lit
  BY ManagerLoopAside DEF ManagerLoop
<1>6. mode'[b] = mode[b]
  <2>1. mode' = mode \/ mode' = [mode EXCEPT ![e] = "ready"]
    BY <1>2 DEF ManagerLoop
  <2> QED BY <1>3, <1>4, <2>1
<1>7. CASE left[e] <= Len(list[e]) /\ list[e][left[e]].delay <= age[e]
  <2>1. stack' = <<FireFrame(e, list[e][left[e]].name, "next")>> \o stack
    BY <1>2, <1>7 DEF ManagerLoop
  <2>2. PICK f \in Frames : f = FireFrame(e, list[e][left[e]].name, "next") /\ f.by = e
    BY <1>3, <1>7, RunningList, FireFrameType
  <2>3. stack' = <<f>> \o stack
    BY <2>1, <2>2
  <2>4. SameCalls(<<f>> \o stack, stack, b, level.target[b])
    BY <1>3, <1>4, <2>2, PushCalls
  <2> QED BY <1>5, <1>6, <2>3, <2>4, LampCalm
<1>8. CASE ~(left[e] <= Len(list[e]) /\ list[e][left[e]].delay <= age[e])
  <2>1. PICK r : r = Tail(stack) /\ r = stack'
    BY <1>2, <1>8 DEF ManagerLoop
  <2>2. SameCalls(r, stack, b, level.target[b])
    BY <1>1, <1>2, <1>4, <2>1, PopCalls
  <2> QED BY <1>5, <1>6, <2>1, <2>2, LampCalm
<1> QED BY <1>7, <1>8

LEMMA UseTargetsLamp ==
  ASSUME Inv, UseTargets, NEW b \in Lamps, LampFor(b) PROVE LampFor(b)'
<1>1. stack # <<>> /\ Top.do = "use"
  BY Zenon DEF UseTargets
<1>2. PICK e \in Ents : e = Top.by
  BY <1>1, TopFrame
<1>3. Aside /\ lit' = lit /\ mode' = mode
  BY UseTargetsAside, Zenon DEF UseTargets
<1>4. PICK r : r = Tail(stack)
  OBVIOUS
<1>5. PICK n : n = level.target[b]
  OBVIOUS
<1>6. /\ r \in Seq(Frames) /\ Top \in Frames
      /\ Lone(stack, b, n) <=>
              Lone(r, b, n) /\ (Top.by = b => CallFor(Top, n) /\ ~Under(r, b, Top.then))
      /\ \A t : Under(stack, b, t) <=> (Top.by = b /\ Top.then = t) \/ Under(r, b, t)
      /\ \A t, m : Awaited(stack, b, t, m) <=>
              (Top.by = b /\ Top.then = t /\ Awaits(Top, m)) \/ Awaited(r, b, t, m)
  BY <1>1, <1>4, TopCalls
<1>7. Top.then \in {"none", "once", "trigger", "next", "return", "rest", "delayed"}
  BY <1>6 DEF Frames
<1>8. ASSUME NEW g \in Frames, stack' = <<g>> \o r, g.by = e, g.then = Top.then,
             e = b => g.do = "fire" /\ g.at = 0 /\ g.name = n /\ ~g.only
      PROVE  LampFor(b)'
  <2>1. PICK st : st = <<g>> \o r
    OBVIOUS
  <2>2. /\ Lone(st, b, n) <=>
             Lone(r, b, n) /\ (g.by = b => CallFor(g, n) /\ ~Under(r, b, g.then))
        /\ \A t : Under(st, b, t) <=> (g.by = b /\ g.then = t) \/ Under(r, b, t)
        /\ \A t, m : Awaited(st, b, t, m) <=>
             (g.by = b /\ g.then = t /\ Awaits(g, m)) \/ Awaited(r, b, t, m)
    BY <1>6, <2>1, ConsCalls
  <2>3. Lone(stack, b, n)
    BY <1>5 DEF LampFor
  <2>4. e = b => CallFor(Top, n) /\ CallFor(g, n)
    BY <1>1, <1>2, <1>6, <1>8, <2>3 DEF CallFor
  <2>5. Lone(st, b, n)
    BY <1>2, <1>6, <1>8, <2>2, <2>3, <2>4
  <2>6. \A t : Under(st, b, t) => Under(stack, b, t)
    BY <1>2, <1>6, <1>8, <2>2
  <2>7. ASSUME NEW m \in Sources, NEW t PROVE Awaited(st, b, t, m) <=> Awaited(stack, b, t, m)
    <3>1. m > 0
      <4>1. m \in Ents /\ Slots \in Nat
        BY SlotsNat DEF Sources
      <4> QED BY <4>1 DEF Ents
    <3>2. e = b => Awaits(Top, m) /\ Awaits(g, m)
      BY <1>1, <1>8, <3>1 DEF Awaits
    <3>3. Awaited(st, b, t, m) <=> (g.by = b /\ g.then = t /\ Awaits(g, m)) \/ Awaited(r, b, t, m)
      BY <2>2
    <3>4. Awaited(stack, b, t, m) <=>
            (Top.by = b /\ Top.then = t /\ Awaits(Top, m)) \/ Awaited(r, b, t, m)
      BY <1>6
    <3> QED BY <1>2, <1>8, <3>2, <3>3, <3>4
  <2> QED BY <1>3, <1>5, <1>8, <2>1, <2>5, <2>6, <2>7, LampSame
<1>9. CASE Delay(e) # 0 /\ (Target(e) # "" \/ Kill(e) # "")
  <2>1. stack' = <<Frame("fire", e, Top.then)>> \o r
    BY <1>2, <1>4, <1>9, Zenon DEF UseTargets
  <2>2. e # b
    <3>1. e = b => kind[b] \in KindsFor(Top.then)
      BY <1>1, <1>2, TopFrame DEF Fits
    <3>2. e = b => kind[b] = "button"
      BY <1>7, <3>1, LampKind DEF KindsFor
    <3> QED BY <1>9, <3>2, LampKind
  <2>3. PICK g \in Frames : /\ g = Frame("fire", e, Top.then)
                            /\ g.by = e /\ g.then = Top.then
    BY <1>7, FrameType
  <2> QED BY <1>8, <2>1, <2>2, <2>3
<1>10. CASE ~(Delay(e) # 0 /\ (Target(e) # "" \/ Kill(e) # ""))
  <2>1. stack' = <<FireFrame(e, Target(e), Top.then)>> \o r
    BY <1>2, <1>4, <1>10, Zenon DEF UseTargets
  <2>2. Target(e) \in Names /\ (e = b => Target(e) = n)
    BY <1>5, LevelType, LampKind DEF Inv
  <2>3. PICK g \in Frames : /\ g = FireFrame(e, Target(e), Top.then) /\ g.do = "fire"
                            /\ g.by = e /\ g.then = Top.then
    BY <1>7, <2>2, FireFrameType
  <2>4. g.at = 0 /\ g.only = FALSE /\ g.name = Target(e)
    BY <2>3 DEF FireFrame, Frame
  <2> QED BY <1>8, <2>1, <2>2, <2>3, <2>4
<1> QED BY <1>9, <1>10, Zenon

\* The stack below is the stack when its frame on top has come to t.
Turned(below, t, b) ==
  /\ below \in Seq(Frames) /\ Lone(below, b, level.target[b])
  /\ \A u : Under(below, b, u) <=> Under(stack, b, u)
  /\ Top.by = b => Top.then \in {"none", "rest"}
  /\ \A m \in Sources : Shown(b, m) =>
       \A u : IF Top.by = b /\ t = m /\ u = Top.then
              THEN Awaited(stack, b, u, m) /\ ~Awaited(below, b, u, m)
              ELSE Awaited(below, b, u, m) <=> Awaited(stack, b, u, m)

LEMMA TurnedCalls ==
  ASSUME Inv, stack # <<>>, Top.do = "fire", Ahead # {}, NEW t \in Ents, t = First(Ahead),
         NEW below, below = <<[Top EXCEPT !.at = t]>> \o Tail(stack),
         NEW b \in Lamps, LampFor(b)
  PROVE  Turned(below, t, b)
<1>1. PICK r : r = Tail(stack)
  OBVIOUS
<1>2. PICK n : n = level.target[b]
  OBVIOUS
<1>3. /\ r \in Seq(Frames) /\ Top \in Frames
      /\ Lone(stack, b, n) <=>
              Lone(r, b, n) /\ (Top.by = b => CallFor(Top, n) /\ ~Under(r, b, Top.then))
      /\ \A u : Under(stack, b, u) <=> (Top.by = b /\ Top.then = u) \/ Under(r, b, u)
      /\ \A u, m : Awaited(stack, b, u, m) <=>
              (Top.by = b /\ Top.then = u /\ Awaits(Top, m)) \/ Awaited(r, b, u, m)
      /\ \A u, m : ~Under(r, b, u) => ~Awaited(r, b, u, m)
  BY <1>1, TopCalls
<1>4. PICK g \in Frames : g = [Top EXCEPT !.at = t]
  BY NextAhead
<1>5. /\ g.do = Top.do /\ g.by = Top.by /\ g.then = Top.then /\ g.only = Top.only
      /\ g.name = Top.name /\ g.at = t
  BY <1>3, <1>4 DEF Frames
<1>6. below = <<g>> \o r /\ r \in Seq(Frames)
  BY <1>1, <1>3, <1>4
<1>7. /\ Lone(below, b, n) <=>
             Lone(r, b, n) /\ (g.by = b => CallFor(g, n) /\ ~Under(r, b, g.then))
      /\ \A u : Under(below, b, u) <=> (g.by = b /\ g.then = u) \/ Under(r, b, u)
      /\ \A u, m : Awaited(below, b, u, m) <=>
             (g.by = b /\ g.then = u /\ Awaits(g, m)) \/ Awaited(r, b, u, m)
  <2>1. PICK st : st = <<g>> \o r
    OBVIOUS
  <2>2. /\ Lone(st, b, n) <=>
             Lone(r, b, n) /\ (g.by = b => CallFor(g, n) /\ ~Under(r, b, g.then))
        /\ \A u : Under(st, b, u) <=> (g.by = b /\ g.then = u) \/ Under(r, b, u)
        /\ \A u, m : Awaited(st, b, u, m) <=>
             (g.by = b /\ g.then = u /\ Awaits(g, m)) \/ Awaited(r, b, u, m)
    BY <1>6, <2>1, ConsCalls
  <2>3. st = below
    BY <1>6, <2>1
  <2> QED BY <2>2, <2>3
<1>8. CallFor(g, n) <=> CallFor(Top, n)
  BY <1>5 DEF CallFor
<1>9. Lone(stack, b, n)
  BY <1>2 DEF LampFor
<1>10. Lone(below, b, n)
  BY <1>3, <1>5, <1>7, <1>8, <1>9
<1>11. \A u : Under(below, b, u) <=> Under(stack, b, u)
  BY <1>3, <1>5, <1>7
<1>12. t \in Ahead /\ Ahead \in SUBSET Ents
  BY NextAhead, NamedAsIn, Zenon DEF Ahead
<1>13. Top.by = b => Top.then \in {"none", "rest"}
  BY <1>3, <1>9 DEF CallFor
<1>14. ASSUME NEW m \in Sources, Shown(b, m), NEW u
       PROVE  IF Top.by = b /\ t = m /\ u = Top.then
              THEN Awaited(stack, b, u, m) /\ ~Awaited(below, b, u, m)
              ELSE Awaited(below, b, u, m) <=> Awaited(stack, b, u, m)
  <2>1. CASE Top.by = b /\ u = Top.then
    <3>1. CallFor(Top, n) /\ ~Awaited(r, b, u, m)
      BY <1>3, <1>9, <2>1
    <3>2. m \in Ents /\ kind[m] = "multisource" /\ m \in NamedAs(Top.name)
      <4>1. Live(m) /\ level.target[b] = level.name[m]
        BY <1>14 DEF Shown
      <4>2. m \in Ents /\ kind[m] = "multisource" /\ Name(m) = n /\ n # ""
        BY <1>2, <4>1, SourceKind DEF Live
      <4>3. Top.name = n
        BY <3>1 DEF CallFor
      <4> QED BY <4>1, <4>2, <4>3 DEF NamedAs
    <3>3. m > Top.at => m \in Ahead
      BY <3>2 DEF Ahead
    <3>4. m > Top.at => t <= m
      BY <1>12, <3>3, FirstLeast
    <3>5. t > Top.at
      BY <1>12 DEF Ahead
    <3>6. m \in Int /\ t \in Int /\ Top.at \in Int
      BY <1>3, <3>2, SlotsNat DEF Frames
    <3>7. IF m = t THEN Awaits(Top, m) /\ ~Awaits(g, m) ELSE Awaits(g, m) <=> Awaits(Top, m)
      BY <1>5, <3>4, <3>5, <3>6 DEF Awaits
    <3>8. /\ Awaited(below, b, u, m) <=> Awaits(g, m)
          /\ Awaited(stack, b, u, m) <=> Awaits(Top, m)
      BY <1>3, <1>5, <1>7, <2>1, <3>1
    <3> QED BY <2>1, <3>7, <3>8
  <2>2. CASE ~(Top.by = b /\ u = Top.then)
    <3>1. /\ Awaited(below, b, u, m) <=> Awaited(r, b, u, m)
          /\ Awaited(stack, b, u, m) <=> Awaited(r, b, u, m)
      BY <1>3, <1>5, <1>7, <2>2
    <3> QED BY <2>2, <3>1
  <2> QED BY <2>1, <2>2
<1>15. below \in Seq(Frames)
  BY <1>3, <1>6, PushOne
<1> QED BY <1>2, <1>10, <1>11, <1>13, <1>14, <1>15 DEF Turned

\* The calls of b are in s as on the stack, for those that count.
AsOn(s, b) ==
  /\ s \in Seq(Frames) /\ Lone(s, b, level.target[b])
  /\ \A u : Under(s, b, u) <=> Under(stack, b, u)
  /\ \A m \in Sources : Shown(b, m) =>
       \A u : Awaited(s, b, u, m) <=> Awaited(stack, b, u, m)

\* A button that is out or on its way goes in.
LEMMA TriggersLamp ==
  ASSUME Aside, Inv, NEW b \in Lamps, LampFor(b), NEW r, AsOn(r, b), NEW touched,
         mode[b] \in {"bottom", "up"}, TriggerAndWait(b, r, touched), lit' = lit
  PROVE  LampFor(b)'
<1>1. mode \in [Ents -> Modes] /\ b \in Ents /\ r \in Seq(Frames)
  BY LampKind DEF Inv, TypeOK, Modes, AsOn
<1>2. PICK n : n = level.target[b]
  OBVIOUS
<1>3. CASE ~MasterOpen(b)
  <2>1. mode'[b] = "up" /\ stack' = r
    BY <1>1, <1>3 DEF TriggerAndWait
  <2>2. PICK st : st = stack'
    OBVIOUS
  <2>3. Under(st, b, "none") => mode'[b] = "top"
    BY <2>1, <2>2 DEF AsOn, LampFor
  <2>4. ASSUME NEW m \in Sources, Shown(b, m)
        PROVE  b \in lit'[m] <=> (mode'[b] \in {"top", "down"} <=>
                                  (Awaited(st, b, "none", m) <=> Awaited(st, b, "rest", m)))
    <3>1. LampAt(b, m)
      BY DEF LampFor
    <3>2. b \in lit[m] <=> (mode[b] \in {"top", "down"} <=>
                              (Awaited(stack, b, "none", m) <=> Awaited(stack, b, "rest", m)))
      BY <2>4, <3>1 DEF LampAt
    <3>3. /\ Awaited(st, b, "none", m) <=> Awaited(stack, b, "none", m)
          /\ Awaited(st, b, "rest", m) <=> Awaited(stack, b, "rest", m)
      BY <2>1, <2>2, <2>4 DEF AsOn
    <3> QED BY <2>1, <3>2, <3>3
  <2> QED BY <2>1, <2>2, <2>3, <2>4, LampKept DEF AsOn
<1>4. CASE MasterOpen(b)
  <2>1. mode'[b] = "top" /\ stack' = <<Call(b, "none")>> \o r
    BY <1>1, <1>4 DEF TriggerAndWait
  <2>2. PICK f \in Frames : /\ f = Call(b, "none") /\ f.do = "use" /\ f.by = b
                            /\ f.then = "none"
    BY <1>1, FrameType DEF Call
  <2>3. f.only = FALSE
    BY <2>2 DEF Call, Frame
  <2>4. PICK st : st = <<f>> \o r
    OBVIOUS
  <2>5. /\ Lone(st, b, n) <=>
             Lone(r, b, n) /\ (f.by = b => CallFor(f, n) /\ ~Under(r, b, f.then))
        /\ \A u, m : Awaited(st, b, u, m) <=>
             (f.by = b /\ f.then = u /\ Awaits(f, m)) \/ Awaited(r, b, u, m)
    BY <1>1, <2>2, <2>4, ConsCalls
  <2>6. ~Under(r, b, "none")
    BY DEF AsOn, LampFor
  <2>7. Lone(st, b, n)
    BY <1>2, <2>2, <2>3, <2>5, <2>6 DEF CallFor, AsOn
  <2>8. ASSUME NEW m \in Sources, Shown(b, m)
        PROVE  b \in lit'[m] <=> (mode'[b] \in {"top", "down"} <=>
                                  (Awaited(st, b, "none", m) <=> Awaited(st, b, "rest", m)))
    <3>1. LampAt(b, m)
      BY DEF LampFor
    <3>2. b \in lit[m] <=> (mode[b] \in {"top", "down"} <=>
                              (Awaited(stack, b, "none", m) <=> Awaited(stack, b, "rest", m)))
      BY <2>8, <3>1 DEF LampAt
    <3>3. /\ Awaited(r, b, "none", m) <=> Awaited(stack, b, "none", m)
          /\ Awaited(r, b, "rest", m) <=> Awaited(stack, b, "rest", m)
      BY <2>8 DEF AsOn
    <3>4. ~Awaited(r, b, "none", m)
      BY <2>6 DEF Under, Awaited
    <3>5. Awaited(st, b, "none", m) /\ (Awaited(st, b, "rest", m) <=> Awaited(r, b, "rest", m))
      BY <2>2, <2>5 DEF Awaits
    <3> QED BY <2>1, <3>2, <3>3, <3>4, <3>5
  <2>9. st = stack'
    BY <2>1, <2>2, <2>4
  <2> QED BY <1>2, <2>1, <2>7, <2>8, <2>9, LampKept
<1> QED BY <1>3, <1>4

\* One that waits at the bottom is told to go in.
LEMMA ActivatesLamp ==
  ASSUME Aside, Inv, NEW b \in Lamps, LampFor(b), NEW r, AsOn(r, b), NEW touched,
         mode[b] = "bottom", ButtonActivate(b, r, touched), lit' = lit
  PROVE  LampFor(b)'
<1>1. mode \in [Ents -> Modes] /\ b \in Ents
  BY LampKind DEF Inv, TypeOK, Modes
<1>2. CASE MasterOpen(b) /\ Flag(b, "still")
  BY <1>2, TriggersLamp DEF ButtonActivate
<1>3. CASE ~(MasterOpen(b) /\ Flag(b, "still"))
  <2>1. mode'[b] \in {"bottom", "up"} /\ stack' = r
    BY <1>1, <1>3 DEF ButtonActivate
  <2>2. PICK st : st = stack'
    OBVIOUS
  <2>3. Under(st, b, "none") => mode'[b] = "top"
    BY <2>1, <2>2 DEF AsOn, LampFor
  <2>4. ASSUME NEW m \in Sources, Shown(b, m)
        PROVE  b \in lit'[m] <=> (mode'[b] \in {"top", "down"} <=>
                                  (Awaited(st, b, "none", m) <=> Awaited(st, b, "rest", m)))
    <3>1. LampAt(b, m)
      BY DEF LampFor
    <3>2. b \in lit[m] <=> (mode[b] \in {"top", "down"} <=>
                              (Awaited(stack, b, "none", m) <=> Awaited(stack, b, "rest", m)))
      BY <2>4, <3>1 DEF LampAt
    <3>3. /\ Awaited(st, b, "none", m) <=> Awaited(stack, b, "none", m)
          /\ Awaited(st, b, "rest", m) <=> Awaited(stack, b, "rest", m)
      BY <2>1, <2>2, <2>4 DEF AsOn
    <3> QED BY <2>1, <3>2, <3>3
  <2> QED BY <2>1, <2>2, <2>3, <2>4, LampKept DEF AsOn
<1> QED BY <1>2, <1>3

\* Nothing happens to b, or to others with calls of theirs on top.
LEMMA AsOnLamp ==
  ASSUME Aside, Inv, NEW b \in Lamps, LampFor(b), NEW r, AsOn(r, b), mode'[b] = mode[b],
         NEW st, st = stack', SameCalls(st, r, b, level.target[b]),
         \A m \in Sources : Shown(b, m) /\ m \notin early' => (b \in lit'[m] <=> b \in lit[m])
  PROVE  LampFor(b)'
<1>1. Lone(st, b, level.target[b]) /\ \A t : Under(st, b, t) => Under(stack, b, t)
  BY DEF SameCalls, AsOn
<1>2. \A m \in Sources : Shown(b, m) => \A t : Awaited(st, b, t, m) <=> Awaited(stack, b, t, m)
  BY DEF SameCalls, AsOn
<1> QED BY <1>1, <1>2, LampSame

LEMMA MultisourceLamp ==
  ASSUME Aside, Inv, stack # <<>>, Top.do = "fire", Ahead # {},
         NEW t \in Ents, t = First(Ahead), kind[t] = "multisource",
         NEW below, below = <<[Top EXCEPT !.at = t]>> \o Tail(stack),
         MultisourceUse(t, Top.by, below), mode' = mode,
         \A m \in Sources : SourceFor(m), NEW b \in Lamps, LampFor(b)
  PROVE  LampFor(b)'
<1>0. Turned(below, t, b)
  BY TurnedCalls
<1>1. /\ below \in Seq(Frames) /\ Lone(below, b, level.target[b])
      /\ \A u : Under(below, b, u) <=> Under(stack, b, u)
      /\ Top.by = b => Top.then \in {"none", "rest"}
      /\ \A m \in Sources : Shown(b, m) =>
           \A u : IF Top.by = b /\ t = m /\ u = Top.then
                  THEN Awaited(stack, b, u, m) /\ ~Awaited(below, b, u, m)
                  ELSE Awaited(below, b, u, m) <=> Awaited(stack, b, u, m)
  BY <1>0 DEF Turned
<1>2. t \in Sources /\ t # b
  BY ToSource, SourceKind
<1>3. PICK by : by = Top.by
  OBVIOUS
<1>4. PICK i : i = IF by \in members[t] THEN by ELSE last[t]
  OBVIOUS
<1>5. PICK on : on = IF i = 0 THEN {} ELSE (lit[t] \ {i}) \cup ({i} \ lit[t])
  OBVIOUS
<1>6. /\ stack' = below \/ stack' = <<Call(t, "none")>> \o below
      /\ IF mode[t] # "set"
         THEN early' = early \cup {t} /\ lit' = lit
         ELSE lit' = [lit EXCEPT ![t] = on]
  BY <1>3, <1>4, <1>5, Zenon DEF MultisourceUse
<1>7. PICK st : st = stack' /\ SameCalls(st, below, b, level.target[b])
  <2>1. PICK f \in Frames : f = Call(t, "none") /\ f.by = t
    BY FrameType DEF Call
  <2>2. SameCalls(<<f>> \o below, below, b, level.target[b])
    BY <1>1, <1>2, <2>1, PushCalls
  <2>3. SameCalls(below, below, b, level.target[b])
    BY DEF SameCalls
  <2> QED BY <1>6, <2>1, <2>2, <2>3
<1>8. Lone(st, b, level.target[b]) /\ \A t1 : Under(st, b, t1) => Under(stack, b, t1)
  BY <1>1, <1>7 DEF SameCalls
<1>9. ASSUME NEW m \in Sources, Shown(b, m), m \notin early'
      PROVE  b \in lit'[m] <=> (mode[b] \in {"top", "down"} <=>
                                  (Awaited(st, b, "none", m) <=> Awaited(st, b, "rest", m)))
  <2>1. LampAt(b, m) /\ SourceFor(m)
    BY DEF LampFor
  <2>2. b \in lit[m] <=> (mode[b] \in {"top", "down"} <=>
                            (Awaited(stack, b, "none", m) <=> Awaited(stack, b, "rest", m)))
    BY <1>9, <2>1 DEF LampAt
  <2>3. \A u : Awaited(st, b, u, m) <=> Awaited(below, b, u, m)
    BY <1>7 DEF SameCalls
  <2>4. \A u : IF Top.by = b /\ t = m /\ u = Top.then
               THEN Awaited(stack, b, u, m) /\ ~Awaited(below, b, u, m)
               ELSE Awaited(below, b, u, m) <=> Awaited(stack, b, u, m)
    BY <1>1, <1>9
  <2>5. lit \in [Ents -> SUBSET Ents] /\ m \in Ents
    BY DEF Inv, TypeOK, Sources
  <2>6. CASE m # t
    <3>1. lit'[m] = lit[m]
      BY <1>6, <2>5, <2>6
    <3>2. /\ Awaited(st, b, "none", m) <=> Awaited(stack, b, "none", m)
          /\ Awaited(st, b, "rest", m) <=> Awaited(stack, b, "rest", m)
      BY <2>3, <2>4, <2>6
    <3> QED BY <2>2, <3>1, <3>2
  <2>7. CASE m = t
    <3>1. mode[t] = "set" /\ lit'[m] = on
      BY <1>6, <1>9, <2>5, <2>7
    <3>2. b \in members[m] /\ b # last[m] /\ last[m] # 0
      <4>1. level.target[b] = level.name[m] /\ b # last[m] /\ kind[b] = "button"
        BY <1>9, LampKind DEF Shown, Live
      <4>2. b \in members[m]
        BY <2>1, <2>7, <3>1, <4>1 DEF LampAt
      <4> QED BY <2>1, <4>1, <4>2 DEF SourceFor
    <3>3. CASE by = b
      <4>1. b # 0
        BY LampKind, SlotsNat DEF Ents
      <4>2. on = (lit[t] \ {b}) \cup ({b} \ lit[t])
        BY <1>4, <1>5, <2>7, <3>2, <3>3, <4>1
      <4>3. b \in lit'[m] <=> ~(b \in lit[m])
        BY <2>7, <3>1, <4>2
      <4>4. CASE Top.then = "none"
        <5>1. /\ Awaited(stack, b, "none", m) /\ ~Awaited(st, b, "none", m)
              /\ Awaited(st, b, "rest", m) <=> Awaited(stack, b, "rest", m)
          BY <1>3, <2>3, <2>4, <2>7, <3>3, <4>4
        <5> QED BY <2>2, <4>3, <5>1
      <4>5. CASE Top.then = "rest"
        <5>1. /\ Awaited(stack, b, "rest", m) /\ ~Awaited(st, b, "rest", m)
              /\ Awaited(st, b, "none", m) <=> Awaited(stack, b, "none", m)
          BY <1>3, <2>3, <2>4, <2>7, <3>3, <4>5
        <5> QED BY <2>2, <4>3, <5>1
      <4> QED BY <1>1, <1>3, <3>3, <4>4, <4>5
    <3>4. CASE by # b
      <4>1. i # b /\ i # 0
        <5>1. by # 0
          <6>1. Top.by \in Ents
            BY TopFrame
          <6> QED BY <1>3, <6>1, SlotsNat DEF Ents
        <5> QED BY <1>4, <2>7, <3>2, <3>4, <5>1
      <4>2. b \in lit'[m] <=> b \in lit[m]
        BY <1>5, <2>7, <3>1, <4>1
      <4>3. /\ Awaited(st, b, "none", m) <=> Awaited(stack, b, "none", m)
            /\ Awaited(st, b, "rest", m) <=> Awaited(stack, b, "rest", m)
        BY <1>3, <2>3, <2>4, <3>4
      <4> QED BY <2>2, <4>2, <4>3
    <3> QED BY <3>3, <3>4
  <2> QED BY <2>6, <2>7
<1>10. Under(st, b, "none") => mode'[b] = "top"
  BY <1>8 DEF LampFor
<1>11. mode'[b] = mode[b]
  OBVIOUS
<1> QED BY <1>7, <1>8, <1>9, <1>10, <1>11, LampKept

LEMMA FireNextLamp ==
  ASSUME Inv, FireNext, \A m \in Sources : SourceFor(m), NEW b \in Lamps, LampFor(b)
  PROVE  LampFor(b)'
<1>1. stack # <<>> /\ Top.do = "fire" /\ Ahead # {} /\ Aside
  BY FireNextAside DEF FireNext
<1>2. PICK t \in Ents : t = First(Ahead)
  BY <1>1, NextAhead
<1>3. PICK below : below = <<[Top EXCEPT !.at = t]>> \o Tail(stack)
  OBVIOUS
<1>4. Turned(below, t, b)
  BY <1>1, <1>2, <1>3, TurnedCalls
<1>5. /\ below \in Seq(Frames) /\ TypeOK /\ mode \in [Ents -> Modes]
      /\ b \in Ents /\ kind[b] \in {"button", "free"}
  BY <1>4, LampKind DEF Inv, TypeOK, Modes, Turned
<1>6. CASE kind[t] # "multisource"
  <2>1. AsOn(below, b)
    <3>1. ASSUME NEW m \in Sources, Shown(b, m) PROVE m # t
      BY <1>6, <3>1, SourceKind DEF Shown, Live
    <3> QED BY <1>4, <3>1 DEF AsOn, Turned
  <2>2. ASSUME mode'[b] = mode[b], lit' = lit,
               NEW F, stack' \in Seq(Frames), OnTop(stack', F, below), \A f \in F : f.by # b
        PROVE  LampFor(b)'
    <3>1. PICK st : st = stack' /\ SameCalls(st, below, b, level.target[b])
      BY <1>5, <2>2, OthersCalls
    <3> QED BY <1>1, <2>1, <2>2, <3>1, AsOnLamp
  <2>3. ASSUME mode'[b] = mode[b], lit' = lit,
               stack' = below \/ \E k \in {"once", "trigger"} : stack' = <<Call(t, k)>> \o below,
               t # b \/ stack' = below
        PROVE  LampFor(b)'
    <3>1. CASE stack' = below
      <4>1. OnTop(stack', {}, below)
        BY <1>5, <3>1, PushNone
      <4> QED BY <1>5, <2>2, <2>3, <3>1, <4>1
    <3>2. ASSUME NEW k \in {"once", "trigger"}, stack' = <<Call(t, k)>> \o below, t # b
          PROVE  LampFor(b)'
      <4>1. PICK f \in Frames : f = Call(t, k) /\ f.by = t
        BY FrameType DEF Call
      <4>2. PICK F : F = {f}
        OBVIOUS
      <4>3. stack' \in Seq(Frames) /\ OnTop(stack', F, below)
        BY <1>5, <3>2, <4>1, <4>2, PushOne
      <4> QED BY <2>2, <2>3, <3>2, <4>1, <4>2, <4>3
    <3> QED BY <2>3, <3>1, <3>2
  <2>4. CASE kind[t] = "relay" /\ stack' = <<Call(t, "once")>> \o below /\ UNCHANGED <<mode, lit>>
    BY <1>5, <2>3, <2>4
  <2>5. CASE kind[t] = "counter" /\ CounterUse(t, below) /\ UNCHANGED <<mode, lit>>
    BY <1>5, <2>3, <2>5 DEF CounterUse
  <2>6. CASE kind[t] \in {"manager", "clone"} /\ ManagerUse(t, below) /\ UNCHANGED lit
    <3>1. stack' = below /\ t # b
      BY <1>5, <2>6 DEF ManagerUse
    <3>2. ASSUME NEW x \in Ents, x # b, Started(x) PROVE mode'[b] = mode[b]
      BY <1>5, <3>2 DEF Started
    <3>3. mode'[b] = mode[b]
      <4>1. CASE kind[t] = "manager" /\ Flag(t, "thread")
        <5>1. FreeSlots # {} /\ Started(First(FreeSlots))
          BY <2>6, <4>1 DEF ManagerUse, Cloned
        <5>2. PICK x \in Ents : x = First(FreeSlots) /\ level.kind[x] = "free"
          BY <5>1, FreeSlot
        <5>3. x # b
          BY <5>2, LampKind
        <5> QED BY <3>2, <5>1, <5>2, <5>3
      <4>2. CASE ~(kind[t] = "manager" /\ Flag(t, "thread"))
        <5>1. Started(t) \/ mode' = mode
          BY <2>6, <4>2 DEF ManagerUse
        <5> QED BY <3>1, <3>2, <5>1
      <4> QED BY <4>1, <4>2
    <3> QED BY <2>3, <2>6, <3>1, <3>3
  <2>7. CASE kind[t] = "button" /\ ButtonUse(t, below) /\ UNCHANGED lit
    <3>1. CASE t # b
      <4>1. Pushes(t, below)
        BY <1>5, <2>7, ButtonUsePushes
      <4>2. mode'[b] = mode[b]
        <5>1. \E x : mode' = [mode EXCEPT ![t] = x]
          BY <4>1 DEF Pushes
        <5> QED BY <1>5, <3>1, <5>1
      <4>3. stack' \in Seq(Frames) /\ OnTop(stack', CallsOf(t), below)
        BY <4>1 DEF Pushes
      <4>4. \A f \in CallsOf(t) : f.by # b
        BY <3>1 DEF CallsOf
      <4> QED BY <2>2, <2>7, <4>2, <4>3, <4>4
    <3>2. CASE t = b /\ mode[b] = "bottom"
      <4>1. ButtonActivate(b, below, touch)
        BY <2>7, <3>2 DEF ButtonUse, Returnable
      <4> QED BY <1>1, <2>1, <2>7, <3>2, <4>1, ActivatesLamp
    <3>3. CASE t = b /\ mode[b] # "bottom"
      <4>1. stack' = below /\ UNCHANGED mode
        BY <2>7, <3>3, LampKind DEF ButtonUse
      <4> QED BY <2>3, <2>7, <4>1
    <3> QED BY <3>1, <3>2, <3>3
  <2>8. CASE stack' = below /\ UNCHANGED <<mode, lit>>
    BY <2>3, <2>8
  <2> QED BY <1>2, <1>3, <1>6, <2>4, <2>5, <2>6, <2>7, <2>8 DEF FireNext
<1>7. CASE kind[t] = "multisource"
  <2>1. MultisourceUse(t, Top.by, below) /\ mode' = mode
    BY <1>2, <1>3, <1>7 DEF FireNext
  <2> QED BY <1>1, <1>2, <1>3, <1>7, <2>1, MultisourceLamp
<1> QED BY <1>6, <1>7

LEMMA FireDoneLamp ==
  ASSUME Inv, FireDone, NEW b \in Lamps, LampFor(b) PROVE LampFor(b)'
<1>1. stack # <<>> /\ Top.do = "fire" /\ Ahead = {} /\ Aside /\ lit' = lit
  BY FireDoneAside DEF FireDone
<1>2. PICK e \in Ents : e = Top.by
  BY <1>1, TopFrame
<1>3. /\ Fits("fire", e, Top.then) /\ TypeOK /\ mode \in [Ents -> Modes]
      /\ b \in Ents /\ kind[b] \in {"button", "free"}
  BY <1>1, <1>2, TopFrame, LampKind DEF Inv, TypeOK, Modes
<1>4. PICK r : r = Tail(stack)
  OBVIOUS
<1>5. PICK n : n = level.target[b]
  OBVIOUS
<1>6. /\ r \in Seq(Frames) /\ Top \in Frames
      /\ Lone(stack, b, n) <=>
              Lone(r, b, n) /\ (Top.by = b => CallFor(Top, n) /\ ~Under(r, b, Top.then))
      /\ \A u : Under(stack, b, u) <=> (Top.by = b /\ Top.then = u) \/ Under(r, b, u)
      /\ \A u, m : Awaited(stack, b, u, m) <=>
              (Top.by = b /\ Top.then = u /\ Awaits(Top, m)) \/ Awaited(r, b, u, m)
  BY <1>1, <1>4, TopCalls
<1>7. Lone(stack, b, n)
  BY <1>5 DEF LampFor
<1>8. Lone(r, b, n) /\ (e = b => CallFor(Top, n))
  BY <1>2, <1>6, <1>7
<1>9. ASSUME NEW m \in Sources, Shown(b, m), e = b PROVE ~Awaits(Top, m)
  <2>1. Top.name = n /\ Top.do = "fire"
    BY <1>1, <1>8, <1>9 DEF CallFor
  <2>2. Live(m) /\ level.target[b] = level.name[m]
    BY <1>9 DEF Shown
  <2>3. m \in Ents /\ kind[m] = "multisource" /\ Name(m) = n /\ n # ""
    BY <1>5, <2>2, SourceKind DEF Live
  <2>4. m \in NamedAs(Top.name)
    BY <2>1, <2>2, <2>3 DEF NamedAs
  <2>5. ~(m > Top.at)
    BY <1>1, <2>3, <2>4 DEF Ahead
  <2>6. m \in Int
    <3>1. m \in Ents
      BY <2>3
    <3> QED BY <3>1, SlotsNat DEF Ents
  <2>7. Top.at \in Int
    <3>1. Top \in Frames
      BY <1>6
    <3> QED BY <3>1, SlotsNat DEF Frames
  <2> QED BY <1>1, <2>5, <2>6, <2>7 DEF Awaits
<1>10. AsOn(r, b) \/ e = b
  BY <1>2, <1>5, <1>6, <1>8 DEF AsOn
<1>11. ASSUME stack' = r, mode'[b] = mode[b] PROVE LampFor(b)'
  <2>1. \A u : Under(r, b, u) => Under(stack, b, u)
    BY <1>6
  <2>2. ASSUME NEW m \in Sources, Shown(b, m), NEW u
        PROVE  Awaited(r, b, u, m) <=> Awaited(stack, b, u, m)
    BY <1>2, <1>6, <1>9, <2>2
  <2> QED BY <1>1, <1>5, <1>8, <1>11, <2>1, <2>2, LampSame
<1>12. CASE Top.then \in {"none", "once", "next", "rest", "delayed"}
  <2>1. stack' = r /\ mode' = mode
    BY <1>4, <1>12 DEF FireDone
  <2> QED BY <1>11, <2>1
<1>13. CASE Top.then = "trigger"
  <2>1. TriggerFired(e) /\ stack' = r
    BY <1>2, <1>4, <1>13 DEF FireDone
  <2>2. e # b
    BY <1>3, <1>13 DEF Fits, KindsFor
  <2>3. mode'[b] = mode[b]
    BY <1>3, <2>1, <2>2 DEF TriggerFired
  <2> QED BY <1>11, <2>1, <2>3
<1>14. CASE Top.then = "return"
  <2>1. ButtonReturn(e, r, touch)
    BY <1>2, <1>4, <1>14 DEF FireDone
  <2>2. e # b
    BY <1>8, <1>14 DEF CallFor
  <2>3. Pushes(e, r)
    BY <1>3, <1>6, <2>1, ButtonReturnPushes DEF TypeOK
  <2>4. mode'[b] = mode[b]
    <3>1. \E x : mode' = [mode EXCEPT ![e] = x]
      BY <2>3 DEF Pushes
    <3> QED BY <1>3, <2>2, <3>1
  <2>5. stack' \in Seq(Frames) /\ OnTop(stack', CallsOf(e), r)
    BY <2>3 DEF Pushes
  <2>6. \A f \in CallsOf(e) : f.by # b
    BY <2>2 DEF CallsOf
  <2>7. PICK st : st = stack' /\ SameCalls(st, r, b, level.target[b])
    BY <1>6, <2>5, <2>6, OthersCalls
  <2> QED BY <1>1, <1>10, <2>2, <2>4, <2>7, AsOnLamp
<1> QED
  <2>1. Top.then \in {"none", "once", "trigger", "next", "return", "rest", "delayed"}
    BY <1>6 DEF Frames
  <2> QED BY <1>12, <1>13, <1>14, <2>1

(***************************************************************************)
(* Lamps: what the engine calls                                            *)
(***************************************************************************)

LEMMA IdleAsOn ==
  ASSUME Inv, Idle, NEW b PROVE AsOn(<<>>, b) /\ <<>> \in Seq(Frames)
<1>1. <<>> \in Seq(Frames) /\ stack = <<>>
  BY DEF Idle
<1> QED BY <1>1, EmptyCalls DEF AsOn

\* The engine calls others, or nothing.
LEMMA EngineLamp ==
  ASSUME Aside, Inv, Idle, NEW b \in Lamps, LampFor(b), lit' = lit, mode'[b] = mode[b],
         \/ stack' = <<>> \/ stack' = stack
         \/ \E f \in Frames : f.by # b /\ stack' = <<f>>
         \/ \E e \in Ents : e # b /\ Pushes(e, <<>>)
  PROVE  LampFor(b)'
<1>1. stack = <<>> /\ AsOn(<<>>, b) /\ <<>> \in Seq(Frames)
  BY IdleAsOn DEF Idle
<1>2. PICK r \in Seq(Frames) : r = <<>> /\ AsOn(r, b)
  BY <1>1
<1>3. ASSUME NEW F, stack' \in Seq(Frames), OnTop(stack', F, r), \A f \in F : f.by # b
      PROVE  LampFor(b)'
  <2>1. PICK st : st = stack' /\ SameCalls(st, r, b, level.target[b])
    BY <1>3, OthersCalls
  <2> QED BY <1>2, <2>1, AsOnLamp
<1>4. CASE stack' = <<>> \/ stack' = stack
  <2>1. stack' = r /\ OnTop(r, {}, r)
    BY <1>1, <1>2, <1>4, PushNone
  <2> QED BY <1>3, <2>1
<1>5. ASSUME NEW f \in Frames, f.by # b, stack' = <<f>> PROVE LampFor(b)'
  <2>1. PICK F : F = {f}
    OBVIOUS
  <2>2. <<f>> \o r \in Seq(Frames) /\ OnTop(<<f>> \o r, F, r)
    BY <2>1, PushOne
  <2>3. <<f>> \o r = <<f>>
    <3>1. <<f>> \in Seq(Frames)
      OBVIOUS
    <3> QED BY <1>2, <3>1, ConcatEmptySeq
  <2>4. stack' \in Seq(Frames) /\ OnTop(stack', F, r)
    <3>1. stack' = <<f>> \o r
      BY <1>5, <2>3
    <3> QED BY <2>2, <3>1
  <2>5. \A h \in F : h.by # b
    BY <1>5, <2>1
  <2> QED BY <1>3, <2>4, <2>5
<1>6. ASSUME NEW e \in Ents, e # b, Pushes(e, <<>>) PROVE LampFor(b)'
  <2>1. stack' \in Seq(Frames) /\ OnTop(stack', CallsOf(e), r)
    BY <1>2, <1>6 DEF Pushes
  <2>2. \A f \in CallsOf(e) : f.by # b
    BY <1>6 DEF CallsOf
  <2> QED BY <1>3, <2>1, <2>2
<1> QED BY <1>4, <1>5, <1>6

\* A button is back, and tells the multisources among its targets.
LEMMA BackHomeLamp ==
  ASSUME Aside, Inv, Idle, NEW b \in Lamps, LampFor(b), NEW touched, lit' = lit,
         mode[b] \in {"top", "down"}, ButtonBackHome(b, <<>>, touched)
  PROVE  LampFor(b)'
<1>1. /\ stack = <<>> /\ mode \in [Ents -> Modes] /\ b \in Ents /\ ~Flag(b, "toggle")
      /\ TypeOK /\ Target(b) = level.target[b] /\ Target(b) \in Names
  BY LampKind, LevelType DEF Idle, Inv, TypeOK, Modes
<1>2. PICK g \in Frames : /\ g = SourcesFrame(b) /\ g.do = "fire" /\ g.by = b
                          /\ g.then = "rest" /\ g.only /\ g.at = 0 /\ g.name = level.target[b]
  <2>1. PICK f \in Frames : /\ f = FireFrame(b, Target(b), "rest")
                            /\ f.do = "fire" /\ f.by = b /\ f.then = "rest"
    BY <1>1, FireFrameType
  <2>2. f.at = 0 /\ f.name = Target(b)
    BY <2>1 DEF FireFrame, Frame
  <2>3. PICK g : g = SourcesFrame(b)
    OBVIOUS
  <2>4. g = [f EXCEPT !.only = TRUE]
    BY <2>1, <2>3 DEF SourcesFrame
  <2>5. /\ g \in Frames /\ g.do = f.do /\ g.by = f.by /\ g.then = f.then
        /\ g.at = f.at /\ g.name = f.name /\ g.only
    <3>1. f \in Frames
      BY <2>1
    <3> QED BY <2>4, <3>1 DEF Frames
  <2>6. f.do = "fire" /\ f.by = b /\ f.then = "rest" /\ f.at = 0 /\ f.name = level.target[b]
    BY <1>1, <2>1, <2>2
  <2> QED BY <2>3, <2>5, <2>6
<1>3. PICK s \in Seq(Frames) : s = <<>>
  <2>1. <<>> \in Seq(Frames)
    OBVIOUS
  <2> QED BY <2>1
<1>4. PICK st : st = <<g>> \o s
  OBVIOUS
<1>5. st = stack'
  <2>1. stack' = <<>> \o <<g>> \o <<>>
    BY <1>1, <1>2 DEF ButtonBackHome
  <2>2. PICK x \in Seq(Frames) : x = <<g>>
    <3>1. <<g>> \in Seq(Frames)
      OBVIOUS
    <3> QED BY <3>1
  <2>3. <<>> \o x = x /\ x \o <<>> = x
    BY <2>2, ConcatEmptySeq
  <2> QED BY <1>3, <1>4, <2>1, <2>2, <2>3
<1>6. PICK n : n = level.target[b]
  OBVIOUS
<1>7. /\ Lone(st, b, n) <=>
             Lone(s, b, n) /\ (g.by = b => CallFor(g, n) /\ ~Under(s, b, g.then))
      /\ \A u : Under(st, b, u) <=> (g.by = b /\ g.then = u) \/ Under(s, b, u)
      /\ \A u, m : Awaited(st, b, u, m) <=>
             (g.by = b /\ g.then = u /\ Awaits(g, m)) \/ Awaited(s, b, u, m)
  BY <1>4, ConsCalls
<1>8. Lone(s, b, n) /\ (\A u : ~Under(s, b, u)) /\ (\A u, m : ~Awaited(s, b, u, m))
  BY <1>3, EmptyCalls
<1>9. Lone(st, b, n) /\ ~Under(st, b, "none")
  BY <1>2, <1>6, <1>7, <1>8 DEF CallFor
<1>10. mode'[b] = "bottom"
  BY <1>1 DEF ButtonBackHome
<1>11. ASSUME NEW m \in Sources, Shown(b, m)
       PROVE  b \in lit'[m] <=> (mode'[b] \in {"top", "down"} <=>
                                   (Awaited(st, b, "none", m) <=> Awaited(st, b, "rest", m)))
  <2>1. LampAt(b, m)
    BY DEF LampFor
  <2>2. b \in lit[m] <=> (mode[b] \in {"top", "down"} <=>
                            (Awaited(stack, b, "none", m) <=> Awaited(stack, b, "rest", m)))
    BY <1>11, <2>1 DEF LampAt
  <2>3. ~Awaited(stack, b, "none", m) /\ ~Awaited(stack, b, "rest", m)
    BY <1>1, <1>3, <1>8
  <2>4. Awaits(g, m)
    <3>1. m > 0
      <4>1. m \in Ents /\ Slots \in Nat
        BY SlotsNat DEF Sources
      <4> QED BY <4>1 DEF Ents
    <3> QED BY <1>2, <3>1 DEF Awaits
  <2>5. ~Awaited(st, b, "none", m) /\ Awaited(st, b, "rest", m)
    BY <1>2, <1>7, <1>8, <2>4
  <2> QED BY <1>10, <2>2, <2>3, <2>5
<1> QED BY <1>5, <1>6, <1>9, <1>10, <1>11, LampKept

LEMMA ReturnLamp ==
  ASSUME Aside, Inv, Idle, NEW b \in Lamps, LampFor(b), NEW touched, lit' = lit,
         mode[b] = "top", ButtonReturn(b, <<>>, touched)
  PROVE  LampFor(b)'
<1>1. CASE Flag(b, "still")
  BY <1>1, BackHomeLamp DEF ButtonReturn
<1>2. CASE ~Flag(b, "still")
  <2>1. mode \in [Ents -> Modes] /\ b \in Ents /\ stack = <<>>
    BY LampKind DEF Inv, TypeOK, Modes, Idle
  <2>2. mode'[b] = "down" /\ stack' = <<>>
    BY <1>2, <2>1 DEF ButtonReturn
  <2>3. PICK st : st = stack'
    OBVIOUS
  <2>4. /\ Lone(st, b, level.target[b]) /\ ~Under(st, b, "none")
        /\ \A m \in Sources : Shown(b, m) =>
              \A u : Awaited(st, b, u, m) <=> Awaited(stack, b, u, m)
    BY <2>1, <2>2, <2>3, EmptyCalls
  <2>5. ASSUME NEW m \in Sources, Shown(b, m)
        PROVE  b \in lit'[m] <=> (mode'[b] \in {"top", "down"} <=>
                                    (Awaited(st, b, "none", m) <=> Awaited(st, b, "rest", m)))
    <3>1. LampAt(b, m)
      BY DEF LampFor
    <3>2. b \in lit[m] <=> (mode[b] \in {"top", "down"} <=>
                              (Awaited(stack, b, "none", m) <=> Awaited(stack, b, "rest", m)))
      BY <2>5, <3>1 DEF LampAt
    <3> QED BY <2>2, <2>4, <2>5, <3>2
  <2> QED BY <2>3, <2>4, <2>5, LampKept
<1> QED BY <1>1, <1>2

LEMMA PlayerLamp ==
  ASSUME Inv, NEW e \in Ents, Player(e), NEW b \in Lamps, LampFor(b) PROVE LampFor(b)'
<1>1. /\ TypeOK /\ touch \in SUBSET Ents /\ touch \ {e} \in SUBSET Ents /\ <<>> \in Seq(Frames)
      /\ mode \in [Ents -> Modes]
  BY DEF Inv, TypeOK, Modes
<1>2. Aside /\ Idle /\ lit' = lit
  BY PlayerAside DEF Player, MultiTouch, ButtonTouch, PlayerUse, ButtonShot
<1>3. b \in Ents /\ kind[b] \in {"button", "free"} /\ ~Returnable(b) /\ AsOn(<<>>, b)
  BY <1>2, LampKind, IdleAsOn
<1>4. ASSUME NEW k \in {"trigger", "return"}, stack' = <<Call(e, k)>>, e # b, mode' = mode
      PROVE  LampFor(b)'
  <2>1. PICK f \in Frames : f = Call(e, k) /\ f.by = e
    BY FrameType DEF Call
  <2> QED BY <1>2, <1>4, <2>1, EngineLamp
<1>5. CASE e # b /\ Pushes(e, <<>>)
  <2>1. mode'[b] = mode[b]
    <3>1. \E x : mode' = [mode EXCEPT ![e] = x]
      BY <1>5 DEF Pushes
    <3> QED BY <1>1, <1>3, <1>5, <3>1
  <2> QED BY <1>2, <1>5, <2>1, EngineLamp
<1>6. CASE MultiTouch(e)
  BY <1>3, <1>4, <1>6 DEF MultiTouch
<1>7. CASE ButtonTouch(e)
  <2>1. \/ mode[e] = "bottom" /\ ButtonActivate(e, <<>>, touch \ {e})
        \/ Returnable(e) /\ stack' = <<Call(e, "return")>> /\ mode' = mode
    BY <1>7 DEF ButtonTouch
  <2>2. CASE mode[e] = "bottom" /\ ButtonActivate(e, <<>>, touch \ {e})
    BY <1>1, <1>2, <1>3, <1>5, <2>2, ButtonActivatePushes, ActivatesLamp
  <2>3. CASE Returnable(e) /\ stack' = <<Call(e, "return")>> /\ mode' = mode
    BY <1>3, <1>4, <2>3
  <2> QED BY <2>1, <2>2, <2>3
<1>8. CASE PlayerUse(e)
  <2>1. ButtonUse(e, <<>>)
    BY <1>8 DEF PlayerUse
  <2>2. CASE e # b
    BY <1>1, <1>5, <2>1, <2>2, ButtonUsePushes
  <2>3. CASE e = b /\ mode[b] = "bottom"
    <3>1. ButtonActivate(b, <<>>, touch)
      BY <2>1, <2>3 DEF ButtonUse, Returnable
    <3> QED BY <1>2, <1>3, <2>3, <3>1, ActivatesLamp
  <2>4. CASE e = b /\ mode[b] # "bottom"
    <3>1. stack' = <<>> /\ mode' = mode
      BY <1>3, <2>1, <2>4 DEF ButtonUse
    <3> QED BY <1>2, <3>1, EngineLamp
  <2> QED BY <2>2, <2>3, <2>4
<1>9. CASE ButtonShot(e)
  <2>1. \/ mode[e] = "bottom" /\ ButtonActivate(e, <<>>, touch \ {e})
        \/ Returnable(e) /\ ButtonReturn(e, <<>>, touch \ {e})
    BY <1>9 DEF ButtonShot
  <2>2. CASE e # b
    BY <1>1, <1>5, <2>1, <2>2, ButtonActivatePushes, ButtonReturnPushes
  <2>3. CASE e = b
    BY <1>2, <1>3, <2>1, <2>3, ActivatesLamp
  <2> QED BY <2>2, <2>3
<1> QED BY <1>6, <1>7, <1>8, <1>9 DEF Player

LEMMA ThinkLamp ==
  ASSUME Inv, NEW e \in Ents, Think(e), ~Register(e), NEW b \in Lamps, LampFor(b)
  PROVE  LampFor(b)'
<1>1. /\ TypeOK /\ touch \in SUBSET Ents /\ <<>> \in Seq(Frames) /\ mode \in [Ents -> Modes]
  BY DEF Inv, TypeOK, Modes
<1>2. Aside /\ Idle /\ lit' = lit
  BY ThinkAside DEF Think, TriggerThink, CallThink, ButtonThink, ThinkTime
<1>3. b \in Ents /\ kind[b] \in {"button", "free"} /\ AsOn(<<>>, b)
  BY <1>2, LampKind, IdleAsOn
<1>4. CASE TriggerThink(e)
  <2>1. stack' = stack /\ mode' = mode
    BY <1>4 DEF TriggerThink
  <2> QED BY <1>2, <2>1, EngineLamp
<1>5. CASE CallThink(e)
  <2>1. mode' = mode /\ e # b
    BY <1>3, <1>5 DEF CallThink
  <2>2. \/ stack' = <<>>
        \/ stack' = <<Frame("use", e, "once")>> \/ stack' = <<Frame("run", e, "none")>>
        \/ stack' = <<Frame("use", e, "delayed")>>
    BY <1>5 DEF CallThink, Call
  <2>3. ASSUME NEW d \in {"use", "run"}, NEW k \in {"once", "none", "delayed"},
               stack' = <<Frame(d, e, k)>>
        PROVE  LampFor(b)'
    <3>1. PICK f \in Frames : f = Frame(d, e, k) /\ f.by = e
      BY FrameType
    <3> QED BY <1>2, <2>1, <2>3, <3>1, EngineLamp
  <2>4. CASE stack' = <<>>
    BY <1>2, <2>1, <2>4, EngineLamp
  <2> QED BY <2>2, <2>3, <2>4
<1>6. CASE ButtonThink(e)
  <2>1. \/ mode[e] = "up" /\ TriggerAndWait(e, <<>>, touch)
        \/ mode[e] = "top" /\ ButtonReturn(e, <<>>, touch)
        \/ mode[e] = "down" /\ ButtonBackHome(e, <<>>, touch)
    BY <1>6 DEF ButtonThink
  <2>2. CASE e # b
    <3>1. Pushes(e, <<>>)
      BY <1>1, <2>1, TriggerAndWaitPushes, ButtonReturnPushes, ButtonBackHomePushes
    <3>2. mode'[b] = mode[b]
      <4>1. \E x : mode' = [mode EXCEPT ![e] = x]
        BY <3>1 DEF Pushes
      <4> QED BY <1>1, <1>3, <2>2, <4>1
    <3> QED BY <1>2, <2>2, <3>1, <3>2, EngineLamp
  <2>3. CASE e = b
    BY <1>2, <1>3, <2>1, <2>3, TriggersLamp, ReturnLamp, BackHomeLamp
  <2> QED BY <2>2, <2>3
<1> QED BY <1>4, <1>5, <1>6 DEF Think

LEMMA OtherLamp ==
  ASSUME Inv, Tick \/ Load \/ \E e \in Ents : Reap(e), NEW b \in Lamps, LampFor(b)
  PROVE  LampFor(b)'
<1>1. Aside /\ Idle /\ UNCHANGED <<lit, mode, stack>>
  BY OtherAside DEF Tick, Load, Reap
<1> QED BY <1>1, EngineLamp

\* What Register finds: a button is among the members when it targets the multisource.
LEMMA RegisterFinds ==
  ASSUME Inv, NEW e \in Ents, Registered(e)
  PROVE  /\ mode' = [mode EXCEPT ![e] = "set"]
         /\ \A m \in Ents \ {e} : members'[m] = members[m] /\ last'[m] = last[m]
         /\ members'[e] # {} => last'[e] # 0
         /\ \A b \in Lamps : /\ b \in members'[e] => level.target[b] = level.name[e]
                             /\ level.target[b] = level.name[e] /\ kind[b] = "button"
                                => b \in members'[e]
<1>1. PICK n : n = level.name[e]
  OBVIOUS
<1>2. PICK T : T = {x \in Ents : kind[x] # "free" /\ Target(x) = n}
  OBVIOUS
<1>3. PICK M : M = {x \in Ents : /\ kind[x] \in {"manager", "clone"}
                                 /\ \E i \in 1 .. Len(list[x]) : list[x][i].name = n}
  OBVIOUS
<1>4. PICK all : all = T \cup M
  OBVIOUS
<1>5. PICK l : l = IF M # {} THEN Final(M) ELSE IF all # {} THEN Final(all) ELSE 0
  OBVIOUS
<1>6. /\ members' = [members EXCEPT ![e] = all] /\ last' = [last EXCEPT ![e] = l]
      /\ mode' = [mode EXCEPT ![e] = "set"]
  BY <1>1, <1>2, <1>3, <1>4, <1>5, Zenon DEF Registered
<1>7. members \in [Ents -> SUBSET Ents] /\ last \in [Ents -> 0 .. Slots]
  BY DEF Inv, TypeOK
<1>8. members'[e] = all /\ last'[e] = l
  BY <1>6, <1>7
<1>9. \A m \in Ents \ {e} : members'[m] = members[m] /\ last'[m] = last[m]
  BY <1>6, <1>7
<1>10. all # {} => l # 0
  <2>1. T \in SUBSET Ents /\ M \in SUBSET Ents /\ all \in SUBSET Ents
    BY <1>2, <1>3, <1>4
  <2>2. (M # {} => Final(M) \in Ents) /\ (all # {} => Final(all) \in Ents)
    BY <2>1, FinalIn
  <2>3. 0 \notin Ents
    BY SlotsNat DEF Ents
  <2> QED BY <1>5, <2>2, <2>3
<1>11. ASSUME NEW b \in Lamps
       PROVE  /\ b \in all => level.target[b] = n
              /\ level.target[b] = n /\ kind[b] = "button" => b \in all
  <2>1. b \in Ents /\ kind[b] \in {"button", "free"} /\ Target(b) = level.target[b]
    BY LampKind
  <2>2. b \notin M
    BY <1>3, <2>1
  <2>3. b \in T <=> kind[b] = "button" /\ level.target[b] = n
    BY <1>2, <2>1
  <2> QED BY <1>4, <2>2, <2>3
<1>12. \A b \in Lamps : /\ b \in members'[e] => level.target[b] = level.name[e]
                        /\ level.target[b] = level.name[e] /\ kind[b] = "button"
                           => b \in members'[e]
  BY <1>1, <1>8, <1>11
<1> QED BY <1>6, <1>8, <1>9, <1>10, <1>12

\* Calls are the same, and a button that shows now showed before.
LEMMA RegisterLit == ASSUME Inv, Lit, NEW e \in Ents, Register(e) PROVE Lit'
<1>1. /\ kind[e] = "multisource" /\ due[e] = 0 /\ due' = [due EXCEPT ![e] = Never]
      /\ Registered(e) /\ level' = level /\ kind' = kind
      /\ UNCHANGED <<lit, killed, stack, early>>
  BY DEF Register, ThinkTime, fields, history
<1>2. e \in Sources
  BY <1>1, ToSource
<1>3. mode[e] # "set" /\ last[e] = 0 /\ members[e] = {}
  BY <1>1, <1>2 DEF Lit, SourceFor, Never
<1>4. /\ mode' = [mode EXCEPT ![e] = "set"]
      /\ \A m \in Ents \ {e} : members'[m] = members[m] /\ last'[m] = last[m]
      /\ members'[e] # {} => last'[e] # 0
      /\ \A b \in Lamps : /\ b \in members'[e] => level.target[b] = level.name[e]
                          /\ level.target[b] = level.name[e] /\ kind[b] = "button"
                             => b \in members'[e]
  BY <1>1, RegisterFinds
<1>5. mode \in [Ents -> Modes] /\ due \in [Ents -> Nat \cup {Never}]
  BY DEF Inv, TypeOK, Modes
<1>6. mode'[e] = "set" /\ due'[e] = Never
  BY <1>1, <1>4, <1>5
<1>7. \A x \in Ents \ {e} : mode'[x] = mode[x] /\ due'[x] = due[x]
  BY <1>1, <1>4, <1>5
<1>8. Sources' = Sources /\ Lamps' = Lamps
  BY <1>1 DEF Sources, Lamps
<1>9. ASSUME NEW m \in Sources PROVE SourceFor(m)'
  <2>1. m \in Ents /\ SourceFor(m)
    BY <1>9, SourceKind DEF Lit
  <2>2. CASE m = e
    BY <1>4, <1>6, <2>2 DEF SourceFor
  <2>3. CASE m # e
    BY <1>4, <1>7, <2>1, <2>3 DEF SourceFor
  <2> QED BY <2>2, <2>3
<1>10. ASSUME NEW b \in Lamps PROVE LampFor(b)'
  <2>1. b \in Ents /\ LampFor(b) /\ b # e
    BY <1>2, LampKind, SourceKind DEF Lit
  <2>2. mode'[b] = mode[b] /\ Live(b)' = Live(b)
    BY <1>1, <1>7, <2>1 DEF Live
  <2>3. Lone(stack, b, level.target[b])' /\ (Under(stack, b, "none") => mode[b] = "top")'
    BY <1>1, <2>1, <2>2 DEF LampFor, Lone, Under
  <2>4. ASSUME NEW m \in Sources PROVE LampAt(b, m)'
    <3>1. m \in Ents /\ LampAt(b, m)
      BY <2>1, SourceKind DEF LampFor
    <3>2. Live(m)' = Live(m)
      BY <1>1 DEF Live
    <3>3. /\ (b \in members[m] => level.target[b] = level.name[m])'
          /\ (level.target[b] = level.name[m] /\ mode[m] = "set" /\ kind[b] = "button"
              => b \in members[m])'
      <4>1. CASE m = e
        BY <1>1, <1>4, <4>1
      <4>2. CASE m # e
        BY <1>1, <1>4, <1>7, <3>1, <4>2 DEF LampAt
      <4> QED BY <4>1, <4>2
    <3>4. Shown(b, m)' => Shown(b, m)
      <4>1. CASE m = e
        <5>1. b # last[m]
          <6>1. b # 0
            BY <2>1, SlotsNat DEF Ents
          <6> QED BY <1>3, <4>1, <6>1
        <5> QED BY <1>1, <2>2, <3>2, <5>1 DEF Shown
      <4>2. CASE m # e
        BY <1>1, <1>4, <2>2, <3>1, <3>2, <4>2 DEF Shown
      <4> QED BY <4>1, <4>2
    <3>5. \A t : Awaited(stack, b, t, m)' <=> Awaited(stack, b, t, m)
      BY <1>1 DEF Awaited
    <3>6. Shown(b, m)' =>
            (b \in lit[m] <=> (mode[b] \in {"top", "down"} <=>
                               (Awaited(stack, b, "none", m) <=> Awaited(stack, b, "rest", m))))'
      <4>1. Shown(b, m) =>
              (b \in lit[m] <=> (mode[b] \in {"top", "down"} <=>
                                 (Awaited(stack, b, "none", m) <=> Awaited(stack, b, "rest", m))))
        BY <3>1 DEF LampAt
      <4> QED BY <1>1, <2>2, <3>4, <3>5, <4>1
    <3> QED BY <3>3, <3>6 DEF LampAt
  <2> QED BY <1>8, <2>3, <2>4 DEF LampFor
<1> QED BY <1>8, <1>9, <1>10 DEF Lit

LEMMA StutterLit == ASSUME Lit, UNCHANGED vars PROVE Lit'
<1>1. /\ UNCHANGED <<level, kind, mode, due, members, last, lit>>
      /\ UNCHANGED <<killed, stack, early>>
  BY DEF vars
<1>2. Sources' = Sources /\ Lamps' = Lamps
  BY <1>1 DEF Sources, Lamps
<1>3. \A m \in Sources : SourceFor(m)'
  BY <1>1 DEF Lit, SourceFor
<1>4. ASSUME NEW b \in Lamps PROVE LampFor(b)'
  <2>1. LampFor(b)
    BY DEF Lit
  <2>2. ASSUME NEW m \in Sources PROVE LampAt(b, m)'
    BY <1>1, <2>1 DEF LampFor, LampAt, Shown, Live, Awaited
  <2> QED BY <1>1, <1>2, <2>1, <2>2 DEF LampFor, Lone, Under
<1> QED BY <1>2, <1>3, <1>4 DEF Lit

\* Every step but Register leaves the multisources aside.
LEMMA AsideLit ==
  ASSUME Aside, Lit, \A b \in Lamps : LampFor(b) => LampFor(b)'
  PROVE  Lit'
<1>1. Sources' = Sources /\ Lamps' = Lamps
  BY DEF Aside, Sources, Lamps
<1>2. \A m \in Sources : SourceFor(m)'
  BY SameSources DEF Lit
<1> QED BY <1>1, <1>2 DEF Lit

LEMMA StepLit == ASSUME Inv, Lit, [Next]_vars PROVE Lit'
<1>1. CASE ManagerLoop
  <2>1. Aside
    BY <1>1, ManagerLoopAside
  <2> QED BY <1>1, <2>1, ManagerLoopLamp, AsideLit
<1>2. CASE UseTargets
  <2>1. Aside
    BY <1>2, UseTargetsAside
  <2> QED BY <1>2, <2>1, UseTargetsLamp, AsideLit
<1>3. CASE FireNext
  <2>1. Aside
    BY <1>3, FireNextAside
  <2>2. \A m \in Sources : SourceFor(m)
    BY DEF Lit
  <2> QED BY <1>3, <2>1, <2>2, FireNextLamp, AsideLit
<1>4. CASE FireDone
  <2>1. Aside
    BY <1>4, FireDoneAside
  <2> QED BY <1>4, <2>1, FireDoneLamp, AsideLit
<1>5. ASSUME NEW e \in Ents, Player(e) PROVE Lit'
  <2>1. Aside
    BY <1>5, PlayerAside
  <2> QED BY <1>5, <2>1, PlayerLamp, AsideLit
<1>6. ASSUME NEW e \in Ents, Think(e) PROVE Lit'
  <2>1. CASE Register(e)
    BY <2>1, RegisterLit
  <2>2. CASE ~Register(e)
    <3>1. Aside
      BY <1>6, <2>2, ThinkAside
    <3> QED BY <1>6, <2>2, <3>1, ThinkLamp, AsideLit
  <2> QED BY <2>1, <2>2
<1>7. CASE Tick \/ Load \/ \E e \in Ents : Reap(e)
  <2>1. Aside
    BY <1>7, OtherAside
  <2> QED BY <1>7, <2>1, OtherLamp, AsideLit
<1>8. CASE UNCHANGED vars
  BY <1>8, StutterLit
<1> QED BY <1>1, <1>2, <1>3, <1>4, <1>5, <1>6, <1>7, <1>8 DEF Next, Calls

LEMMA InitLit == ASSUME Init PROVE Lit
<1>1. /\ stack = <<>> /\ mode = [e \in Ents |-> CASE kind[e] = "multisource" -> "init"
                                                  [] kind[e] = "button" -> "bottom"
                                                  [] kind[e] = "manager" -> "ready"
                                                  [] OTHER -> "armed"]
      /\ members = [e \in Ents |-> {}] /\ last = [e \in Ents |-> 0]
      /\ lit = [e \in Ents |-> {}] /\ kind = level.kind
  BY Zenon DEF Init
<1>2. ASSUME NEW m \in Sources
      PROVE  mode[m] = "init" /\ members[m] = {} /\ last[m] = 0 /\ lit[m] = {}
  BY <1>1 DEF Sources
<1>3. PICK st : st = stack
  OBVIOUS
<1>4. \A b, n, t, m : Lone(st, b, n) /\ ~Under(st, b, t) /\ ~Awaited(st, b, t, m)
  <2>1. st = <<>>
    BY <1>1, <1>3
  <2> QED BY <2>1, EmptyCalls
<1>5. ASSUME NEW b \in Lamps PROVE LampFor(b)
  <2>1. mode[b] = "bottom"
    BY <1>1 DEF Lamps
  <2>2. ASSUME NEW m \in Sources PROVE LampAt(b, m)
    BY <1>2, <1>3, <1>4, <2>1 DEF LampAt
  <2> QED BY <1>3, <1>4, <2>2 DEF LampFor
<1>6. \A m \in Sources : SourceFor(m)
  BY <1>2 DEF SourceFor
<1> QED BY <1>5, <1>6 DEF Lit

\* In every map, between two calls of the engine, a multisource shows each button that
\* targets it as on exactly while the button is in: however its uses nest with those of
\* others, whatever is removed meanwhile, each way in and each way out tells it once.
THEOREM LampsShow == Spec => []LampShowsButton
<1>1. Inv /\ Timely /\ Lit /\ [Next]_vars => (Inv /\ Timely /\ Lit)'
  BY StepInv, StepTimely, StepLit
<1>2. ASSUME Inv, Lit PROVE LampShowsButton
  <2> SUFFICES ASSUME Idle, NEW b \in Ents, NEW m \in Ents,
                      Live(b), kind[b] = "button", ~Flag(b, "toggle"), Delay(b) = 0,
                      Live(m), kind[m] = "multisource", mode[m] = "set", m \notin early,
                      b \in members[m] \ {last[m]}
               PROVE  b \in lit[m] <=> mode[b] \in {"top", "down"}
    BY DEF LampShowsButton
  <2>1. m \in Sources
    BY <1>2, ToSource
  <2>2. b \in Lamps
    <3>1. level.kind[b] = "button" /\ of[b] = b
      BY <1>2 DEF Inv, KindsFit
    <3> QED BY <3>1 DEF Lamps, Flag, Delay
  <2>3. LampAt(b, m)
    BY <1>2, <2>1, <2>2 DEF Lit, LampFor
  <2>4. Shown(b, m)
    BY <2>3 DEF LampAt, Shown
  <2>5. PICK st : st = stack
    OBVIOUS
  <2>6. \A t : ~Awaited(st, b, t, m)
    <3>1. st = <<>>
      BY <2>5 DEF Idle
    <3> QED BY <3>1, EmptyCalls
  <2>7. b \in lit[m] <=> (mode[b] \in {"top", "down"} <=>
                            (Awaited(stack, b, "none", m) <=> Awaited(stack, b, "rest", m)))
    BY <2>3, <2>4 DEF LampAt
  <2> QED BY <2>5, <2>6, <2>7
<1>3. Init => Inv /\ Timely /\ Lit
  BY InitInv, InitLit
<1> QED BY <1>1, <1>2, <1>3, PTL DEF Spec

(***************************************************************************)
(* Who fires once: an entity is on the stack at most once                  *)
(***************************************************************************)

Busy(st, x) == \E i \in 1 .. Len(st) : st[i].by = x
AtUse(st, x) == \E i \in 1 .. Len(st) : st[i].by = x /\ st[i].do = "use"
Alone(st, x) == \A i, j \in 1 .. Len(st) : st[i].by = x /\ st[j].by = x => i = j

\* What x has set off, and is on the stack above it, is of S.
Above(st, x, S) == \A i, j \in 1 .. Len(st) : i < j /\ st[j].by = x => st[i].by \in S

\* A caller fires its own targets, at once if it has no delay.
NameFits(f) ==
  f.do = "fire" /\ level.kind[f.by] \in Callers /\ f.name # "" =>
    /\ f.name = level.target[f.by]
    /\ level.delay[f.by] = 0 \/ level.kind[f.by] = "multisource" \/ f.only
Named(st) == \A i \in 1 .. Len(st) : NameFits(st[i])

\* What a frame on top adds.
LEMMA ConsOnce ==
  ASSUME NEW f \in Frames, NEW s \in Seq(Frames), NEW st, st = <<f>> \o s, NEW x, NEW S
  PROVE  /\ Busy(st, x) <=> f.by = x \/ Busy(s, x)
         /\ AtUse(st, x) <=> (f.by = x /\ f.do = "use") \/ AtUse(s, x)
         /\ Alone(st, x) <=> Alone(s, x) /\ (f.by = x => ~Busy(s, x))
         /\ Above(st, x, S) <=> Above(s, x, S) /\ (Busy(s, x) => f.by \in S)
         /\ Named(st) <=> Named(s) /\ NameFits(f)
<1>1. /\ Len(st) = 1 + Len(s) /\ Len(s) \in Nat /\ st[1] = f
      /\ \A i \in 1 .. Len(s) : st[i + 1] = s[i]
      /\ \A i \in 1 .. Len(st) : i # 1 => i - 1 \in 1 .. Len(s) /\ st[i] = s[i - 1]
  BY ConsIs
<1>2. 1 \in 1 .. Len(st) /\ \A i \in 1 .. Len(s) : i + 1 \in 1 .. Len(st) /\ i + 1 # 1 /\ 1 < i + 1
  BY <1>1
<1>3. Busy(st, x) <=> f.by = x \/ Busy(s, x)
  <2>1. Busy(st, x) => f.by = x \/ Busy(s, x)
    BY <1>1 DEF Busy
  <2>2. f.by = x => Busy(st, x)
    BY <1>1, <1>2 DEF Busy
  <2>3. Busy(s, x) => Busy(st, x)
    BY <1>1, <1>2 DEF Busy
  <2> QED BY <2>1, <2>2, <2>3
<1>4. AtUse(st, x) <=> (f.by = x /\ f.do = "use") \/ AtUse(s, x)
  <2>1. AtUse(st, x) => (f.by = x /\ f.do = "use") \/ AtUse(s, x)
    BY <1>1 DEF AtUse
  <2>2. f.by = x /\ f.do = "use" => AtUse(st, x)
    BY <1>1, <1>2 DEF AtUse
  <2>3. AtUse(s, x) => AtUse(st, x)
    BY <1>1, <1>2 DEF AtUse
  <2> QED BY <2>1, <2>2, <2>3
<1>5. Named(st) <=> Named(s) /\ NameFits(f)
  <2>1. Named(st) => Named(s)
    BY <1>1, <1>2 DEF Named
  <2>2. Named(st) => NameFits(f)
    BY <1>1, <1>2 DEF Named
  <2>3. Named(s) /\ NameFits(f) => Named(st)
    BY <1>1 DEF Named
  <2> QED BY <2>1, <2>2, <2>3
<1>6. ASSUME Alone(st, x) PROVE Alone(s, x) /\ (f.by = x => ~Busy(s, x))
  <2>1. ASSUME NEW i \in 1 .. Len(s), NEW j \in 1 .. Len(s), s[i].by = x, s[j].by = x
        PROVE  i = j
    <3>1. i + 1 = j + 1
      BY <1>1, <1>2, <1>6, <2>1 DEF Alone
    <3> QED BY <1>1, <3>1
  <2>2. ASSUME f.by = x, NEW i \in 1 .. Len(s), s[i].by = x PROVE FALSE
    BY <1>1, <1>2, <1>6, <2>2 DEF Alone
  <2> QED BY <2>1, <2>2 DEF Alone, Busy
<1>7. ASSUME Alone(s, x), f.by = x => ~Busy(s, x) PROVE Alone(st, x)
  <2> SUFFICES ASSUME NEW i \in 1 .. Len(st), NEW j \in 1 .. Len(st), st[i].by = x, st[j].by = x
               PROVE  i = j
    BY DEF Alone
  <2>1. CASE i = 1 \/ j = 1
    <3>1. f.by = x
      BY <1>1, <2>1
    <3>2. \A k \in 1 .. Len(s) : s[k].by # x
      BY <1>7, <3>1 DEF Busy
    <3> QED BY <1>1, <3>2
  <2>2. CASE i # 1 /\ j # 1
    <3>1. i - 1 = j - 1
      BY <1>1, <1>7, <2>2 DEF Alone
    <3> QED BY <1>1, <3>1
  <2> QED BY <2>1, <2>2
<1>8. ASSUME Above(st, x, S) PROVE Above(s, x, S) /\ (Busy(s, x) => f.by \in S)
  <2>1. ASSUME NEW i \in 1 .. Len(s), NEW j \in 1 .. Len(s), i < j, s[j].by = x
        PROVE  s[i].by \in S
    <3>1. i + 1 < j + 1
      BY <1>1, <2>1
    <3>2. st[i + 1].by \in S
      BY <1>1, <1>2, <1>8, <2>1, <3>1 DEF Above
    <3> QED BY <1>1, <3>2
  <2>2. ASSUME NEW i \in 1 .. Len(s), s[i].by = x PROVE f.by \in S
    BY <1>1, <1>2, <1>8, <2>2 DEF Above
  <2> QED BY <2>1, <2>2 DEF Above, Busy
<1>9. ASSUME Above(s, x, S), Busy(s, x) => f.by \in S PROVE Above(st, x, S)
  <2> SUFFICES ASSUME NEW i \in 1 .. Len(st), NEW j \in 1 .. Len(st), i < j, st[j].by = x
               PROVE  st[i].by \in S
    BY DEF Above
  <2>1. j # 1 /\ j - 1 \in 1 .. Len(s) /\ s[j - 1].by = x
    BY <1>1
  <2>2. CASE i = 1
    BY <1>1, <1>9, <2>1, <2>2 DEF Busy
  <2>3. CASE i # 1
    <3>1. i - 1 \in 1 .. Len(s) /\ i - 1 < j - 1 /\ st[i] = s[i - 1]
      BY <1>1, <2>3
    <3> QED BY <1>9, <2>1, <3>1 DEF Above
  <2> QED BY <2>2, <2>3
<1> QED BY <1>3, <1>4, <1>5, <1>6, <1>7, <1>8, <1>9

\* The frames of x are the same in st as in s.
SameFrames(st, s, x) ==
  /\ Busy(st, x) <=> Busy(s, x)
  /\ AtUse(st, x) <=> AtUse(s, x)
  /\ Alone(st, x) <=> Alone(s, x)

LEMMA OthersOnce ==
  ASSUME NEW s \in Seq(Frames), NEW st \in Seq(Frames), NEW F, OnTop(st, F, s)
  PROVE  /\ \A x : (\A f \in F : f.by # x) => SameFrames(st, s, x)
         /\ \A x, S : (\A f \in F : f.by # x) /\ Above(s, x, S) /\
                      (Busy(s, x) => \A f \in F : f.by \in S) => Above(st, x, S)
         /\ Named(s) /\ (\A f \in F : NameFits(f)) => Named(st)
<1>1. PICK k \in Nat : /\ Len(st) = Len(s) + k
                       /\ \A i \in 1 .. k : st[i] \in F
                       /\ \A i \in 1 .. Len(s) : st[i + k] = s[i]
  BY DEF OnTop
<1>2. Len(s) \in Nat /\ Len(st) \in Nat
  BY LenProperties
<1>3. ASSUME NEW i \in 1 .. Len(st), ~(i <= k) PROVE i - k \in 1 .. Len(s) /\ st[i] = s[i - k]
  <2>1. i - k \in 1 .. Len(s) /\ (i - k) + k = i
    BY <1>1, <1>2, <1>3
  <2> QED BY <1>1, <2>1
<1>4. ASSUME NEW i \in 1 .. Len(s) PROVE i + k \in 1 .. Len(st) /\ st[i + k] = s[i]
  BY <1>1, <1>2
<1>5. ASSUME NEW i \in 1 .. Len(st), i <= k PROVE st[i] \in F
  BY <1>1, <1>5
<1>6. Named(s) /\ (\A f \in F : NameFits(f)) => Named(st)
  BY <1>3, <1>5 DEF Named
<1>7. ASSUME NEW x, \A f \in F : f.by # x PROVE SameFrames(st, s, x)
  <2>1. \A i \in 1 .. Len(st) : st[i].by = x => i - k \in 1 .. Len(s) /\ st[i] = s[i - k]
    BY <1>3, <1>5, <1>7
  <2>2. Busy(st, x) <=> Busy(s, x)
    <3>1. Busy(st, x) => Busy(s, x)
      BY <2>1 DEF Busy
    <3>2. Busy(s, x) => Busy(st, x)
      BY <1>4 DEF Busy
    <3> QED BY <3>1, <3>2
  <2>3. AtUse(st, x) <=> AtUse(s, x)
    <3>1. AtUse(st, x) => AtUse(s, x)
      BY <2>1 DEF AtUse
    <3>2. AtUse(s, x) => AtUse(st, x)
      BY <1>4 DEF AtUse
    <3> QED BY <3>1, <3>2
  <2>4. ASSUME Alone(s, x), NEW i \in 1 .. Len(st), NEW j \in 1 .. Len(st),
               st[i].by = x, st[j].by = x
        PROVE  i = j
    <3>1. i - k = j - k
      BY <2>1, <2>4 DEF Alone
    <3> QED BY <1>2, <3>1
  <2>5. ASSUME Alone(st, x), NEW i \in 1 .. Len(s), NEW j \in 1 .. Len(s),
               s[i].by = x, s[j].by = x
        PROVE  i = j
    <3>1. i + k = j + k
      BY <1>4, <2>5 DEF Alone
    <3> QED BY <1>2, <3>1
  <2> QED BY <2>2, <2>3, <2>4, <2>5 DEF SameFrames, Alone
<1>8. ASSUME NEW x, NEW S, \A f \in F : f.by # x, Above(s, x, S),
             Busy(s, x) => \A f \in F : f.by \in S
      PROVE  Above(st, x, S)
  <2> SUFFICES ASSUME NEW i \in 1 .. Len(st), NEW j \in 1 .. Len(st), i < j, st[j].by = x
               PROVE  st[i].by \in S
    BY DEF Above
  <2>1. ~(j <= k)
    BY <1>5, <1>8
  <2>2. j - k \in 1 .. Len(s) /\ s[j - k].by = x
    BY <1>3, <2>1
  <2>3. CASE i <= k
    <3>1. Busy(s, x)
      BY <2>2 DEF Busy
    <3> QED BY <1>5, <1>8, <2>3, <3>1
  <2>4. CASE ~(i <= k)
    <3>1. i - k \in 1 .. Len(s) /\ st[i] = s[i - k] /\ i - k < j - k
      BY <1>3, <2>4
    <3> QED BY <1>8, <2>2, <3>1 DEF Above
  <2> QED BY <2>3, <2>4
<1> QED BY <1>6, <1>7, <1>8

LEMMA EmptyOnce ==
  ASSUME NEW x, NEW S
  PROVE  ~Busy(<<>>, x) /\ ~AtUse(<<>>, x) /\ Alone(<<>>, x) /\ Above(<<>>, x, S) /\ Named(<<>>)
<1>1. Len(<<>>) = 0 /\ 1 .. 0 = {}
  OBVIOUS
<1> QED BY <1>1 DEF Busy, AtUse, Alone, Above, Named

\* The stack and what is under its top.
LEMMA TopOnce ==
  ASSUME Inv, stack # <<>>, NEW r, r = Tail(stack), NEW x, NEW S
  PROVE  /\ r \in Seq(Frames) /\ Top \in Frames
         /\ Busy(stack, x) <=> Top.by = x \/ Busy(r, x)
         /\ AtUse(stack, x) <=> (Top.by = x /\ Top.do = "use") \/ AtUse(r, x)
         /\ Alone(stack, x) <=> Alone(r, x) /\ (Top.by = x => ~Busy(r, x))
         /\ Above(stack, x, S) <=> Above(r, x, S) /\ (Busy(r, x) => Top.by \in S)
         /\ Named(stack) <=> Named(r) /\ NameFits(Top)
         /\ AtUse(r, x) => Busy(r, x)
<1>1. PICK s \in Seq(Frames) : s = stack
  BY DEF Inv, TypeOK
<1>2. PICK f \in Frames : f = Top /\ f = s[1]
  BY <1>1, TopFrame
<1>3. s = <<f>> \o r /\ r \in Seq(Frames)
  BY <1>1, <1>2, SplitTop
<1>4. /\ Busy(s, x) <=> f.by = x \/ Busy(r, x)
      /\ AtUse(s, x) <=> (f.by = x /\ f.do = "use") \/ AtUse(r, x)
      /\ Alone(s, x) <=> Alone(r, x) /\ (f.by = x => ~Busy(r, x))
      /\ Above(s, x, S) <=> Above(r, x, S) /\ (Busy(r, x) => f.by \in S)
      /\ Named(s) <=> Named(r) /\ NameFits(f)
  BY <1>3, ConsOnce
<1>5. AtUse(r, x) => Busy(r, x)
  BY DEF AtUse, Busy
<1> QED BY <1>1, <1>2, <1>3, <1>4, <1>5

\* What the functions of a button call is at its own targets, and they set the touch
\* function of none but the button.
Told(b) == {f \in Frames : f.by = b /\ NameFits(f)}
Tells(b, below, touched) ==
  /\ stack' \in Seq(Frames) /\ OnTop(stack', Told(b), below)
  /\ touch' \subseteq touched \cup {b}

LEMMA CallTold ==
  ASSUME NEW b \in Ents, NEW t \in {"none", "once", "trigger", "next", "return", "rest", "delayed"}
  PROVE  /\ Call(b, t) \in Told(b) /\ Call(b, t) \in Frames
         /\ Call(b, t).by = b /\ Call(b, t).do = "use" /\ Call(b, t).then = t
<1>1. PICK f \in Frames : f = Call(b, t) /\ f.do = "use" /\ f.by = b /\ f.then = t
  BY FrameType DEF Call
<1>2. NameFits(f)
  BY <1>1 DEF NameFits
<1> QED BY <1>1, <1>2 DEF Told

LEMMA TriggerAndWaitTells ==
  ASSUME NEW b \in Ents, NEW below \in Seq(Frames), NEW touched,
         TriggerAndWait(b, below, touched)
  PROVE  Tells(b, below, touched)
<1>1. touch' \subseteq touched \cup {b}
  BY DEF TriggerAndWait
<1>2. PICK f \in Frames : f = Call(b, "none") /\ f \in Told(b)
  BY CallTold
<1>3. stack' = below \/ stack' = <<f>> \o below
  BY <1>2 DEF TriggerAndWait
<1> QED BY <1>1, <1>2, <1>3, PushNone, PushOne DEF Tells

LEMMA ButtonBackHomeTells ==
  ASSUME Inv, NEW b \in Ents, NEW below \in Seq(Frames), NEW touched,
         ButtonBackHome(b, below, touched)
  PROVE  Tells(b, below, touched)
<1>1. TypeOK /\ touch' = touched
  BY DEF Inv, ButtonBackHome
<1>2. PICK g \in Frames : g = SourcesFrame(b) /\ g \in Told(b)
  <2>1. PICK f \in Frames : f = FireFrame(b, Target(b), "rest") /\ f.by = b
    BY <1>1, LevelType, FireFrameType
  <2>2. f.name = Target(b)
    BY <2>1 DEF FireFrame, Frame
  <2>3. PICK g : g = SourcesFrame(b)
    OBVIOUS
  <2>4. g = [f EXCEPT !.only = TRUE]
    BY <2>1, <2>3 DEF SourcesFrame
  <2>5. g \in Frames /\ g.by = b /\ g.name = Target(b) /\ g.only
    <3>1. f \in Frames /\ f.by = b /\ f.name = Target(b)
      BY <2>1, <2>2
    <3> QED BY <2>4, <3>1 DEF Frames
  <2>6. level.kind[b] \in Callers => Target(b) = level.target[b]
    BY FixedKind DEF Callers, Target
  <2>7. NameFits(g)
    BY <2>5, <2>6 DEF NameFits
  <2> QED BY <2>3, <2>5, <2>7 DEF Told
<1>3. PICK f \in Frames : f = Call(b, "none") /\ f \in Told(b)
  BY CallTold
<1>4. stack' = (IF Flag(b, "toggle") THEN <<f>> ELSE <<>>) \o <<g>> \o below
  BY <1>2, <1>3 DEF ButtonBackHome
<1>5. CASE Flag(b, "toggle")
  <2>1. stack' = <<f>> \o <<g>> \o below
    BY <1>4, <1>5
  <2> QED BY <1>1, <1>2, <1>3, <2>1, PushTwo DEF Tells
<1>6. CASE ~Flag(b, "toggle")
  <2>1. PICK r : r = <<g>>
    OBVIOUS
  <2>2. <<>> \o r = r
    <3>1. r \in Seq(Frames)
      BY <2>1
    <3> QED BY <3>1, ConcatEmptySeq
  <2>3. stack' = r \o below
    BY <1>4, <1>6, <2>1, <2>2
  <2>4. stack' = <<g>> \o below
    BY <2>1, <2>3
  <2> QED BY <1>1, <1>2, <2>4, PushOne DEF Tells
<1> QED BY <1>5, <1>6

LEMMA ButtonReturnTells ==
  ASSUME Inv, NEW b \in Ents, NEW below \in Seq(Frames), NEW touched,
         ButtonReturn(b, below, touched)
  PROVE  Tells(b, below, touched)
<1>1. CASE Flag(b, "still")
  BY <1>1, ButtonBackHomeTells DEF ButtonReturn
<1>2. CASE ~Flag(b, "still")
  BY <1>2, PushNone DEF ButtonReturn, Tells
<1> QED BY <1>1, <1>2

LEMMA ButtonActivateTells ==
  ASSUME NEW b \in Ents, NEW below \in Seq(Frames), NEW touched,
         ButtonActivate(b, below, touched)
  PROVE  Tells(b, below, touched)
<1>1. CASE MasterOpen(b) /\ Flag(b, "still")
  BY <1>1, TriggerAndWaitTells DEF ButtonActivate
<1>2. CASE ~(MasterOpen(b) /\ Flag(b, "still"))
  <2>1. stack' = below /\ touch' = touched
    BY <1>2 DEF ButtonActivate
  <2> QED BY <2>1, PushNone DEF Tells
<1> QED BY <1>1, <1>2

LEMMA ButtonUseTells ==
  ASSUME Inv, NEW b \in Ents, NEW below \in Seq(Frames), ButtonUse(b, below)
  PROVE  Tells(b, below, touch)
<1>1. CASE mode[b] = "bottom"
  BY <1>1, ButtonActivateTells DEF ButtonUse, Returnable
<1>2. CASE mode[b] # "bottom" /\ Returnable(b)
  BY <1>2, ButtonReturnTells DEF ButtonUse
<1>3. CASE mode[b] # "bottom" /\ ~Returnable(b)
  <2>1. stack' = below /\ touch' = touch
    BY <1>3 DEF ButtonUse
  <2> QED BY <2>1, PushNone DEF Tells
<1> QED BY <1>1, <1>2, <1>3

Onces == {x \in Ents : OneShot(x)}
OnceRelays == {x \in Ents : level.kind[x] = "relay" /\ "once" \in level.flags[x]}

\* What keeps x from being fired again when no call of it is in progress; a counter has
\* come to its end before.
Done(x) ==
  \/ level.kind[x] = "counter"
  \/ level.kind[x] = "multiple" /\ x \notin touch
  \/ level.kind[x] \in {"relay", "auto"} /\ (x \in killed \/ kind[x] = "free")

OnceFor(x) ==
  /\ Alone(stack, x) /\ fired[x] <= 1
  /\ AtUse(stack, x) => fired[x] = 0
  /\ level.kind[x] = "counter" /\ (Busy(stack, x) \/ fired[x] > 0) => left[x] <= 0
  /\ fired[x] > 0 => Busy(stack, x) \/ Done(x)

LineFor(x) == \E S \in SUBSET Ents : Beyond(level, x, S) /\ Above(stack, x, S)

Lines == Named(stack) /\ \A x \in OnceRelays : LineFor(x)
Fresh == \A x \in Onces : OnceFor(x)

LEMMA OnceKind ==
  ASSUME Inv, NEW x \in Onces
  PROVE  /\ x \in Ents /\ level.kind[x] \in {"multiple", "counter", "relay", "auto"}
         /\ of[x] = x /\ kind[x] \in {level.kind[x], "free"}
         /\ level.kind[x] \in {"relay", "auto"} => Flag(x, "once")
         /\ kind[x] \in {"multiple", "counter"} => ~(Wait(x) > 0)
<1>1. x \in Ents /\ OneShot(x)
  BY DEF Onces
<1>2. level.kind[x] \in {"multiple", "counter", "relay", "auto"}
  BY <1>1 DEF OneShot
<1>3. of[x] = x /\ kind[x] \in {level.kind[x], "free"}
  BY <1>1, <1>2, FixedKind
<1>4. level.kind[x] \in {"relay", "auto"} => Flag(x, "once")
  BY <1>1, <1>3 DEF OneShot, Flag
<1>5. kind[x] \in {"multiple", "counter"} => ~(Wait(x) > 0)
  BY <1>1, <1>3 DEF OneShot, Wait, Never
<1> QED BY <1>1, <1>2, <1>3, <1>4, <1>5

\* What keeps x from being fired again lasts.
Lasts(x) ==
  /\ level' = level /\ (x \in touch' => x \in touch)
  /\ kind[x] = "free" => kind'[x] = "free"
  /\ x \in killed => x \in killed' \/ kind'[x] = "free"
  /\ level.kind[x] = "counter" /\ left[x] <= 0 => left'[x] <= 0

LEMMA AsideLasts ==
  ASSUME Aside, Inv, NEW x \in Onces, x \in touch' => x \in touch,
         level.kind[x] = "counter" /\ left[x] <= 0 => left'[x] <= 0
  PROVE  Lasts(x)
<1>1. x \in Ents /\ level.kind[x] # "free"
  BY OnceKind
<1> QED BY <1>1 DEF Aside, Lasts

LEMMA KeepOnce ==
  ASSUME NEW x, OnceFor(x), Lasts(x), NEW st, st = stack', SameFrames(st, stack, x),
         fired'[x] = fired[x]
  PROVE  OnceFor(x)'
<1>1. /\ Busy(stack, x)' <=> Busy(stack, x)
      /\ AtUse(stack, x)' <=> AtUse(stack, x)
      /\ Alone(stack, x)' <=> Alone(stack, x)
  <2>1. /\ Busy(stack, x)' <=> Busy(st, x)
        /\ AtUse(stack, x)' <=> AtUse(st, x)
        /\ Alone(stack, x)' <=> Alone(st, x)
    BY DEF Busy, AtUse, Alone
  <2> QED BY <2>1 DEF SameFrames
<1>2. Done(x) => Done(x)'
  BY DEF Done, Lasts
<1>3. level' = level /\ (level.kind[x] = "counter" /\ left[x] <= 0 => left'[x] <= 0)
  BY DEF Lasts
<1> QED BY <1>1, <1>2, <1>3 DEF OnceFor

\* A call of x, when there is none and it has not fired.
LEMMA StartOnce ==
  ASSUME NEW x, NEW f \in Frames, f.by = x, f.do = "use", NEW r \in Seq(Frames),
         stack' = <<f>> \o r, ~Busy(r, x), fired[x] = 0, fired'[x] = fired[x],
         level' = level, level.kind[x] = "counter" => left'[x] <= 0
  PROVE  OnceFor(x)'
<1>1. PICK st : st = stack'
  OBVIOUS
<1>2. Alone(r, x)
  BY DEF Alone, Busy
<1>3. PICK S : S = {}
  OBVIOUS
<1>4. Alone(st, x) <=> Alone(r, x) /\ (f.by = x => ~Busy(r, x))
  BY <1>1, ConsOnce
<1>5. Alone(stack, x)'
  BY <1>1, <1>2, <1>4 DEF Alone
<1> QED BY <1>5 DEF OnceFor

\* x starts what it calls only before it has fired.
LEMMA Unfired ==
  ASSUME Inv, NEW x \in Onces, OnceFor(x), ~Busy(stack, x), ~Done(x) PROVE fired[x] = 0
<1>1. fired[x] \in 0 .. 2
  BY OnceKind DEF Inv, TypeOK
<1> QED BY <1>1 DEF OnceFor

LEMMA ManagerLoopFresh ==
  ASSUME Inv, ManagerLoop, NEW x \in Onces, OnceFor(x) PROVE OnceFor(x)'
<1>1. stack # <<>> /\ Top.do = "run" /\ UNCHANGED <<touch, left, fired>>
  BY DEF ManagerLoop, history
<1>2. PICK e \in Ents : e = Top.by
  BY <1>1, TopFrame
<1>3. e \in Running /\ stack \in Seq(Frames)
  BY <1>1, <1>2, TopFrame DEF Fits, Inv, TypeOK
<1>4. e # x
  BY <1>3, OnceKind DEF Running
<1>5. Lasts(x)
  BY <1>1, ManagerLoopAside, AsideLasts
<1>6. PICK st : st = stack'
  OBVIOUS
<1>7. SameFrames(st, stack, x)
  <2>1. CASE left[e] <= Len(list[e]) /\ list[e][left[e]].delay <= age[e]
    <3>1. PICK f \in Frames : f = FireFrame(e, list[e][left[e]].name, "next") /\ f.by = e
      BY <1>3, <2>1, RunningList, FireFrameType
    <3>2. st = <<f>> \o stack
      BY <1>2, <1>6, <2>1, <3>1 DEF ManagerLoop
    <3>3. PICK S : S = {}
      OBVIOUS
    <3>4. /\ Busy(st, x) <=> f.by = x \/ Busy(stack, x)
          /\ AtUse(st, x) <=> (f.by = x /\ f.do = "use") \/ AtUse(stack, x)
          /\ Alone(st, x) <=> Alone(stack, x) /\ (f.by = x => ~Busy(stack, x))
      BY <1>3, <3>2, ConsOnce
    <3> QED BY <1>4, <3>1, <3>4 DEF SameFrames
  <2>2. CASE ~(left[e] <= Len(list[e]) /\ list[e][left[e]].delay <= age[e])
    <3>1. st = Tail(stack)
      BY <1>2, <1>6, <2>2 DEF ManagerLoop
    <3>2. PICK S : S = {}
      OBVIOUS
    <3>3. /\ Busy(stack, x) <=> Top.by = x \/ Busy(st, x)
          /\ AtUse(stack, x) <=> (Top.by = x /\ Top.do = "use") \/ AtUse(st, x)
          /\ Alone(stack, x) <=> Alone(st, x) /\ (Top.by = x => ~Busy(st, x))
      BY <1>1, <3>1, TopOnce
    <3> QED BY <1>2, <1>4, <3>3 DEF SameFrames
  <2> QED BY <2>1, <2>2
<1> QED BY <1>1, <1>5, <1>6, <1>7, KeepOnce

LEMMA UseTargetsFresh ==
  ASSUME Inv, UseTargets, NEW x \in Onces, OnceFor(x) PROVE OnceFor(x)'
<1>1. stack # <<>> /\ Top.do = "use" /\ UNCHANGED <<touch, left>>
  BY Zenon DEF UseTargets
<1>2. PICK e \in Ents : e = Top.by
  BY <1>1, TopFrame
<1>3. /\ Top \in Frames /\ Top.then \in {"none", "once", "trigger", "next", "return", "rest", "delayed"}
      /\ x \in Ents /\ of[x] = x /\ fired \in [Ents -> 0 .. 2]
  BY <1>1, TopFrame, OnceKind DEF Inv, TypeOK, Frames
<1>4. fired' = [fired EXCEPT ![e] = IF of[e] = e /\ @ < 2 THEN @ + 1 ELSE @]
  BY <1>2, Zenon DEF UseTargets
<1>5. Lasts(x)
  BY <1>1, UseTargetsAside, AsideLasts
<1>6. PICK r : r = Tail(stack)
  OBVIOUS
<1>7. PICK g \in Frames : g.do = "fire" /\ g.by = e /\ stack' = <<g>> \o r
  <2>1. Target(e) \in Names
    BY LevelType DEF Inv
  <2>2. PICK h \in Frames : h = Frame("fire", e, Top.then) /\ h.do = "fire" /\ h.by = e
    BY <1>3, FrameType
  <2>3. PICK h2 \in Frames : h2 = FireFrame(e, Target(e), Top.then) /\ h2.do = "fire" /\ h2.by = e
    BY <1>3, <2>1, FireFrameType
  <2>4. stack' = <<h>> \o r \/ stack' = <<h2>> \o r
    BY <1>2, <1>6, <2>2, <2>3, Zenon DEF UseTargets
  <2> QED BY <2>2, <2>3, <2>4
<1>8. PICK S : S = {}
  OBVIOUS
<1>9. PICK st : st = stack'
  OBVIOUS
<1>10. /\ r \in Seq(Frames)
       /\ Busy(stack, x) <=> e = x \/ Busy(r, x)
       /\ AtUse(stack, x) <=> (e = x /\ Top.do = "use") \/ AtUse(r, x)
       /\ Alone(stack, x) <=> Alone(r, x) /\ (e = x => ~Busy(r, x))
       /\ AtUse(r, x) => Busy(r, x)
  BY <1>1, <1>2, <1>6, TopOnce
<1>11. /\ Busy(st, x) <=> e = x \/ Busy(r, x)
       /\ AtUse(st, x) <=> AtUse(r, x)
       /\ Alone(st, x) <=> Alone(r, x) /\ (e = x => ~Busy(r, x))
  BY <1>7, <1>9, <1>10, ConsOnce
<1>12. CASE e # x
  <2>1. fired'[x] = fired[x]
    BY <1>3, <1>4, <1>12
  <2>2. SameFrames(st, stack, x)
    BY <1>10, <1>11, <1>12 DEF SameFrames
  <2> QED BY <1>5, <1>9, <2>1, <2>2, KeepOnce
<1>13. CASE e = x
  <2>1. AtUse(stack, x) /\ Busy(stack, x)
    BY <1>1, <1>10, <1>13
  <2>2. Alone(st, x) /\ ~AtUse(st, x) /\ Busy(st, x)
    BY <1>10, <1>11, <1>13 DEF OnceFor
  <2>3. fired'[x] = 1
    <3>1. fired[x] = 0 /\ of[e] = e
      BY <1>3, <1>13, <2>1 DEF OnceFor
    <3>2. fired'[x] = fired[x] + 1
      BY <1>3, <1>4, <1>13, <3>1
    <3> QED BY <3>1, <3>2
  <2>4. level' = level /\ (level.kind[x] = "counter" => left'[x] <= 0)
    BY <1>1, <1>5, <2>1 DEF OnceFor, Lasts
  <2>5. Alone(stack, x)' /\ ~AtUse(stack, x)' /\ Busy(stack, x)'
    BY <1>9, <2>2 DEF Alone, AtUse, Busy
  <2> QED BY <2>3, <2>4, <2>5 DEF OnceFor
<1> QED BY <1>12, <1>13

\* The stack while an entity that is named is used.
LEMMA BelowOnce ==
  ASSUME Inv, stack # <<>>, Ahead # {}, NEW below,
         below = <<[Top EXCEPT !.at = First(Ahead)]>> \o Tail(stack), NEW x, NEW S
  PROVE  /\ below \in Seq(Frames) /\ SameFrames(below, stack, x)
         /\ Above(below, x, S) <=> Above(stack, x, S)
         /\ Named(below) <=> Named(stack)
<1>1. PICK g \in Frames : g = [Top EXCEPT !.at = First(Ahead)]
  BY NextAhead
<1>2. Top \in Frames
  BY TopFrame
<1>3. g.by = Top.by /\ g.do = Top.do /\ g.name = Top.name /\ g.only = Top.only
  BY <1>1, <1>2 DEF Frames
<1>4. NameFits(g) <=> NameFits(Top)
  BY <1>3 DEF NameFits
<1>5. PICK r : r = Tail(stack)
  OBVIOUS
<1>6. /\ r \in Seq(Frames)
      /\ Busy(stack, x) <=> Top.by = x \/ Busy(r, x)
      /\ AtUse(stack, x) <=> (Top.by = x /\ Top.do = "use") \/ AtUse(r, x)
      /\ Alone(stack, x) <=> Alone(r, x) /\ (Top.by = x => ~Busy(r, x))
      /\ Above(stack, x, S) <=> Above(r, x, S) /\ (Busy(r, x) => Top.by \in S)
      /\ Named(stack) <=> Named(r) /\ NameFits(Top)
  BY <1>5, TopOnce
<1>7. below = <<g>> \o r
  BY <1>1, <1>5
<1>8. /\ Busy(below, x) <=> g.by = x \/ Busy(r, x)
      /\ AtUse(below, x) <=> (g.by = x /\ g.do = "use") \/ AtUse(r, x)
      /\ Alone(below, x) <=> Alone(r, x) /\ (g.by = x => ~Busy(r, x))
      /\ Above(below, x, S) <=> Above(r, x, S) /\ (Busy(r, x) => g.by \in S)
      /\ Named(below) <=> Named(r) /\ NameFits(g)
  BY <1>6, <1>7, ConsOnce
<1>9. below \in Seq(Frames)
  BY NextAhead
<1> QED BY <1>3, <1>4, <1>6, <1>8, <1>9 DEF SameFrames

LEMMA PopOnce ==
  ASSUME Inv, stack # <<>>, NEW r, r = Tail(stack), NEW x, Top.by # x
  PROVE  r \in Seq(Frames) /\ SameFrames(r, stack, x)
<1>1. PICK S : S = {}
  OBVIOUS
<1>2. /\ r \in Seq(Frames)
      /\ Busy(stack, x) <=> Top.by = x \/ Busy(r, x)
      /\ AtUse(stack, x) <=> (Top.by = x /\ Top.do = "use") \/ AtUse(r, x)
      /\ Alone(stack, x) <=> Alone(r, x) /\ (Top.by = x => ~Busy(r, x))
  BY TopOnce
<1> QED BY <1>2 DEF SameFrames

\* Another caller on top leaves the frames of x.
LEMMA PushOnce ==
  ASSUME NEW f \in Frames, NEW s \in Seq(Frames), NEW st, st = <<f>> \o s, NEW x, f.by # x
  PROVE  SameFrames(st, s, x)
<1>1. PICK S : S = {}
  OBVIOUS
<1>2. /\ Busy(st, x) <=> f.by = x \/ Busy(s, x)
      /\ AtUse(st, x) <=> (f.by = x /\ f.do = "use") \/ AtUse(s, x)
      /\ Alone(st, x) <=> Alone(s, x) /\ (f.by = x => ~Busy(s, x))
  BY ConsOnce
<1> QED BY <1>2 DEF SameFrames

LEMMA CallerKind ==
  ASSUME Inv, NEW t \in Ents, kind[t] \in Callers
  PROVE  level.kind[t] = kind[t] /\ of[t] = t /\ Name(t) = level.name[t]
<1>1. kind[t] \notin {"free", "clone", "delayed"}
  BY DEF Callers
<1>2. level.kind[t] = kind[t] /\ of[t] = t
  BY <1>1 DEF Inv, KindsFit
<1> QED BY <1>1, <1>2 DEF Name

\* What is called within a call of x is one of those that x sets off.
LEMMA FiresBeyond ==
  ASSUME Inv, Named(stack), stack # <<>>, Top.do = "fire", NEW x \in Ents,
         level.kind[x] \in Callers, NEW S, Beyond(level, x, S), Above(stack, x, S),
         Busy(stack, x), NEW t \in Ents, t \in Ahead, kind[t] \in Callers
  PROVE  t \in S
<1>1. PICK r : r = Tail(stack)
  OBVIOUS
<1>2. /\ Busy(stack, x) <=> Top.by = x \/ Busy(r, x)
      /\ Above(stack, x, S) <=> Above(r, x, S) /\ (Busy(r, x) => Top.by \in S)
      /\ Named(stack) <=> Named(r) /\ NameFits(Top)
  BY <1>1, TopOnce
<1>3. PICK y : y = Top.by
  OBVIOUS
<1>4. y \in S \cup {x} /\ NameFits(Top)
  BY <1>2, <1>3
<1>5. level.kind[y] \in Callers
  BY <1>4 DEF Beyond
<1>6. t \in NamedAs(Top.name) /\ (Top.only => kind[t] = "multisource")
  BY DEF Ahead
<1>7. Top.name # "" /\ Name(t) = Top.name
  BY <1>6 DEF NamedAs
<1>8. level.kind[t] = kind[t] /\ level.name[t] = Top.name
  BY <1>7, CallerKind
<1>9. /\ Top.name = level.target[y]
      /\ level.delay[y] = 0 \/ level.kind[y] = "multisource" \/ Top.only
  BY <1>3, <1>4, <1>5, <1>7 DEF NameFits
<1>10. level.delay[y] = 0 \/ "multisource" \in {level.kind[t], level.kind[y]}
  BY <1>6, <1>8, <1>9
<1> QED BY <1>4, <1>7, <1>8, <1>9, <1>10 DEF Beyond

\* A relay that fires once is used when no call of it is in progress.
LEMMA NotBusy ==
  ASSUME Inv, Lines, stack # <<>>, Top.do = "fire", NEW x \in OnceRelays, x \in Ahead,
         kind[x] = "relay"
  PROVE  ~Busy(stack, x)
<1>1. x \in Ents /\ level.kind[x] = "relay" /\ Named(stack)
  BY DEF OnceRelays, Lines
<1>2. PICK S : Beyond(level, x, S) /\ Above(stack, x, S)
  BY DEF Lines, LineFor
<1>3. "relay" \in Callers
  BY DEF Callers
<1>4. x \notin S
  BY <1>2 DEF Beyond
<1> QED BY <1>1, <1>2, <1>3, <1>4, FiresBeyond

LEMMA FireNextFresh ==
  ASSUME Inv, Lines, FireNext, NEW x \in Onces, OnceFor(x) PROVE OnceFor(x)'
<1>1. stack # <<>> /\ Ahead # {} /\ Top.do = "fire"
  BY DEF FireNext
<1>2. PICK t \in Ents : t = First(Ahead) /\ t \in Ahead
  BY <1>1, NextAhead
<1>3. PICK below : below = <<[Top EXCEPT !.at = t]>> \o Tail(stack)
  OBVIOUS
<1>4. below \in Seq(Frames) /\ SameFrames(below, stack, x)
  BY <1>1, <1>2, <1>3, BelowOnce
<1>5. /\ x \in Ents /\ level.kind[x] \in {"multiple", "counter", "relay", "auto"}
      /\ kind[x] \in {level.kind[x], "free"}
      /\ fired' = fired /\ left \in [Ents -> Int] /\ Aside
  BY OnceKind, FireNextAside DEF FireNext, Inv, TypeOK
<1>6. PICK st : st = stack'
  OBVIOUS
<1>7. level' = level
  BY <1>5 DEF Aside
<1>8. ASSUME SameFrames(st, below, x), x \in touch' => x \in touch,
             level.kind[x] = "counter" /\ left[x] <= 0 => left'[x] <= 0
      PROVE  OnceFor(x)'
  <2>1. Lasts(x)
    BY <1>5, <1>8, AsideLasts
  <2>2. SameFrames(st, stack, x)
    BY <1>4, <1>8 DEF SameFrames
  <2> QED BY <1>5, <1>6, <2>1, <2>2, KeepOnce
<1>9. stack' = below => SameFrames(st, below, x)
  BY <1>6 DEF SameFrames
<1>10. ASSUME NEW k \in {"once", "trigger", "none"}, t # x, stack' = <<Call(t, k)>> \o below
       PROVE  SameFrames(st, below, x)
  <2>1. PICK f \in Frames : f = Call(t, k) /\ f.by = t
    BY CallTold
  <2> QED BY <1>4, <1>6, <1>10, <2>1, PushOnce
<1>11. ASSUME NEW k \in {"once", "trigger"}, t = x, stack' = <<Call(t, k)>> \o below,
              ~Busy(stack, x), fired[x] = 0, level.kind[x] = "counter" => left'[x] <= 0
       PROVE  OnceFor(x)'
  <2>1. PICK f \in Frames : f = Call(t, k) /\ f.by = t /\ f.do = "use"
    BY CallTold
  <2>2. ~Busy(below, x)
    BY <1>4, <1>11 DEF SameFrames
  <2> QED BY <1>4, <1>5, <1>7, <1>11, <2>1, <2>2, StartOnce
<1>12. CASE /\ kind[t] = "relay" /\ stack' = <<Call(t, "once")>> \o below
            /\ UNCHANGED <<touch, left>>
  <2>1. CASE t # x
    BY <1>8, <1>10, <1>12, <2>1
  <2>2. CASE t = x
    <3>1. level.kind[x] = "relay" /\ x \in OnceRelays
      BY <1>5, <1>12, <2>2 DEF Onces, OneShot, OnceRelays
    <3>2. ~Busy(stack, x)
      BY <1>1, <1>2, <1>12, <2>2, <3>1, NotBusy
    <3>3. ~Done(x)
      <4>1. Live(x)
        BY <1>2, <2>2 DEF Ahead, NamedAs
      <4> QED BY <3>1, <4>1 DEF Done, Live
    <3> QED BY <1>11, <1>12, <2>2, <3>1, <3>2, <3>3, Unfired
  <2> QED BY <2>1, <2>2
<1>13. CASE kind[t] = "counter" /\ CounterUse(t, below) /\ UNCHANGED touch
  <2>1. /\ left' = [left EXCEPT ![t] = IF @ < 0 THEN @ ELSE @ - 1]
        /\ \/ stack' = below
           \/ left[t] = 1 /\ stack' = <<Call(t, "trigger")>> \o below
    BY <1>13 DEF CounterUse
  <2>2. left[x] <= 0 => left'[x] <= 0
    <3>1. left[x] \in Int /\ left[t] \in Int
      BY <1>5
    <3>2. left'[x] = left[x] \/ left'[x] = left[x] - 1
      BY <1>5, <2>1
    <3> QED BY <3>1, <3>2
  <2>3. CASE t # x
    BY <1>8, <1>9, <1>10, <1>13, <2>1, <2>2, <2>3
  <2>4. CASE t = x /\ stack' = below
    BY <1>8, <1>9, <1>13, <2>2, <2>4
  <2>5. CASE t = x /\ left[t] = 1 /\ stack' = <<Call(t, "trigger")>> \o below
    <3>1. level.kind[x] = "counter" /\ left[x] = 1
      BY <1>5, <1>13, <2>5
    <3>2. ~Busy(stack, x) /\ ~(fired[x] > 0)
      BY <3>1 DEF OnceFor
    <3>3. fired[x] = 0
      <4>1. fired[x] \in 0 .. 2
        BY <1>5 DEF Inv, TypeOK
      <4> QED BY <3>2, <4>1
    <3>4. left'[x] = 0
      BY <1>5, <2>1, <2>5, <3>1
    <3> QED BY <1>11, <2>5, <3>2, <3>3, <3>4
  <2> QED BY <2>1, <2>3, <2>4, <2>5
<1>14. CASE kind[t] \in {"manager", "clone"} /\ ManagerUse(t, below) /\ UNCHANGED touch
  <2>1. stack' = below /\ t # x
    BY <1>5, <1>14 DEF ManagerUse
  <2>2. left'[x] = left[x]
    <3>1. ASSUME NEW y \in Ents, y # x, Started(y) PROVE left'[x] = left[x]
      BY <1>5, <3>1 DEF Started
    <3>2. CASE kind[t] = "manager" /\ Flag(t, "thread")
      <4>1. FreeSlots # {} /\ Started(First(FreeSlots))
        BY <1>14, <3>2 DEF ManagerUse, Cloned
      <4>2. PICK y \in Ents : y = First(FreeSlots) /\ level.kind[y] = "free"
        BY <4>1, FreeSlot
      <4>3. y # x
        BY <1>5, <4>2
      <4> QED BY <3>1, <4>1, <4>2, <4>3
    <3>3. CASE ~(kind[t] = "manager" /\ Flag(t, "thread"))
      <4>1. Started(t) \/ UNCHANGED <<mode, left, age, due>>
        BY <1>14, <3>3 DEF ManagerUse
      <4> QED BY <2>1, <3>1, <4>1
    <3> QED BY <3>2, <3>3
  <2> QED BY <1>8, <1>9, <1>14, <2>1, <2>2
<1>15. CASE kind[t] = "multisource" /\ MultisourceUse(t, Top.by, below) /\ UNCHANGED <<touch, left>>
  <2>1. stack' = below \/ stack' = <<Call(t, "none")>> \o below
    BY <1>1, <1>4, <1>15, TopFrame, MultisourceUseTypes DEF Inv
  <2>2. t # x
    BY <1>5, <1>15
  <2> QED BY <1>8, <1>9, <1>10, <1>15, <2>1, <2>2
<1>16. CASE kind[t] = "button" /\ ButtonUse(t, below) /\ UNCHANGED left
  <2>1. Tells(t, below, touch) /\ t # x
    BY <1>4, <1>5, <1>16, ButtonUseTells
  <2>2. stack' \in Seq(Frames) /\ OnTop(stack', Told(t), below) /\ touch' \subseteq touch \cup {t}
    BY <2>1 DEF Tells
  <2>3. \A f \in Told(t) : f.by # x
    BY <2>1 DEF Told
  <2>4. SameFrames(st, below, x)
    BY <1>4, <1>6, <2>2, <2>3, OthersOnce
  <2> QED BY <1>8, <1>16, <2>1, <2>2, <2>4
<1>17. CASE stack' = below /\ UNCHANGED <<touch, left>>
  BY <1>8, <1>9, <1>17
<1> QED BY <1>2, <1>3, <1>12, <1>13, <1>14, <1>15, <1>16, <1>17 DEF FireNext

LEMMA FireDoneFresh ==
  ASSUME Inv, FireDone, NEW x \in Onces, OnceFor(x) PROVE OnceFor(x)'
<1>1. stack # <<>> /\ Top.do = "fire" /\ fired' = fired /\ Aside
  BY FireDoneAside DEF FireDone, history
<1>2. PICK e \in Ents : e = Top.by
  BY <1>1, TopFrame
<1>3. /\ Fits("fire", e, Top.then) /\ left \in [Ents -> Int]
      /\ Top.then \in {"none", "once", "trigger", "next", "return", "rest", "delayed"}
  BY <1>1, <1>2, TopFrame DEF Inv, TypeOK, Frames
<1>4. PICK r : r = Tail(stack)
  OBVIOUS
<1>5. /\ x \in Ents /\ level.kind[x] \in {"multiple", "counter", "relay", "auto"}
      /\ kind[x] \in {level.kind[x], "free"}
      /\ level.kind[x] \in {"relay", "auto"} => Flag(x, "once")
      /\ kind[x] \in {"multiple", "counter"} => ~(Wait(x) > 0)
  BY OnceKind
<1>6. PICK st : st = stack'
  OBVIOUS
<1>7. /\ Top.then = "trigger" => TriggerFired(e) /\ stack' = r /\ left' = left
      /\ Top.then = "next" => left' = [left EXCEPT ![e] = @ + 1] /\ stack' = r /\ touch' = touch
      /\ Top.then = "return" => ButtonReturn(e, r, touch) /\ left' = left
      /\ Top.then = "rest" =>
           /\ touch' = IF Flag(e, "touch") THEN touch \cup {e} ELSE touch \ {e}
           /\ stack' = r /\ left' = left
      /\ Top.then \in {"none", "once", "delayed"} => stack' = r /\ touch' = touch /\ left' = left
  <2>1. CASE Top.then = "trigger"
    BY <1>2, <1>4, <2>1 DEF FireDone
  <2>2. CASE Top.then = "next"
    BY <1>2, <1>4, <2>2 DEF FireDone
  <2>3. CASE Top.then = "return"
    BY <1>2, <1>4, <2>3 DEF FireDone
  <2>4. CASE Top.then = "rest"
    BY <1>2, <1>4, <2>4 DEF FireDone
  <2>5. CASE Top.then \in {"none", "once", "delayed"}
    BY <1>2, <1>4, <2>5 DEF FireDone
  <2> QED BY <1>3, <2>1, <2>2, <2>3, <2>4, <2>5
<1>8. CASE e # x
  <2>1. r \in Seq(Frames) /\ SameFrames(r, stack, x)
    BY <1>1, <1>2, <1>4, <1>8, PopOnce
  <2>2. left'[x] = left[x]
    BY <1>3, <1>5, <1>7, <1>8
  <2>3. CASE Top.then # "return"
    <3>1. stack' = r /\ (x \in touch' => x \in touch)
      BY <1>3, <1>7, <1>8, <2>3 DEF TriggerFired
    <3> QED BY <1>1, <2>1, <2>2, <3>1, AsideLasts, KeepOnce
  <2>4. CASE Top.then = "return"
    <3>1. Tells(e, r, touch)
      BY <1>7, <2>1, <2>4, ButtonReturnTells
    <3>2. stack' \in Seq(Frames) /\ OnTop(stack', Told(e), r) /\ touch' \subseteq touch \cup {e}
      BY <3>1 DEF Tells
    <3>3. \A f \in Told(e) : f.by # x
      BY <1>8 DEF Told
    <3>4. SameFrames(st, r, x)
      BY <1>6, <2>1, <3>2, <3>3, OthersOnce
    <3>5. SameFrames(st, stack, x)
      BY <2>1, <3>4 DEF SameFrames
    <3>6. Lasts(x)
      BY <1>1, <1>8, <2>2, <3>2, AsideLasts
    <3> QED BY <1>1, <1>6, <3>5, <3>6, KeepOnce
  <2> QED BY <2>3, <2>4
<1>9. CASE e = x
  <2>1. /\ kind[x] = level.kind[x]
        /\ \/ Top.then = "once" /\ kind[x] \in {"relay", "auto"}
           \/ Top.then = "trigger" /\ kind[x] \in {"multiple", "counter"}
    <3>1. kind[x] \in KindsFor(Top.then)
      BY <1>3, <1>9 DEF Fits
    <3>2. kind[x] \in {"multiple", "counter", "relay", "auto", "free"}
      BY <1>5
    <3>3. \/ Top.then = "once" /\ kind[x] \in {"relay", "auto"}
          \/ Top.then = "trigger" /\ kind[x] \in {"multiple", "counter"}
      BY <1>3, <3>1, <3>2 DEF KindsFor
    <3> QED BY <1>5, <3>3
  <2>2. stack' = r /\ left' = left
    BY <1>7, <2>1
  <2>3. Done(x)'
    <3>1. level' = level
      BY <1>1 DEF Aside
    <3>2. CASE Top.then = "once" /\ kind[x] \in {"relay", "auto"}
      <4>1. killed' = killed \cup {x}
        BY <1>2, <1>5, <1>9, <2>1, <3>2 DEF FireDone
      <4> QED BY <2>1, <3>1, <3>2, <4>1 DEF Done
    <3>3. CASE Top.then = "trigger" /\ kind[x] \in {"multiple", "counter"}
      <4>1. touch' = touch \ {x}
        BY <1>5, <1>7, <1>9, <3>3 DEF TriggerFired
      <4> QED BY <2>1, <3>1, <3>3, <4>1 DEF Done
    <3> QED BY <2>1, <3>2, <3>3
  <2>4. PICK S : S = {}
    OBVIOUS
  <2>5. /\ Busy(stack, x) <=> Top.by = x \/ Busy(r, x)
        /\ AtUse(stack, x) <=> (Top.by = x /\ Top.do = "use") \/ AtUse(r, x)
        /\ Alone(stack, x) <=> Alone(r, x) /\ (Top.by = x => ~Busy(r, x))
    BY <1>1, <1>4, TopOnce
  <2>6. Alone(r, x) /\ (AtUse(r, x) => fired[x] = 0) /\ fired[x] <= 1
    BY <2>5 DEF OnceFor
  <2>7. level.kind[x] = "counter" => left[x] <= 0
    BY <1>2, <1>9, <2>5 DEF OnceFor
  <2>8. Alone(stack, x)' /\ (AtUse(stack, x)' => fired[x] = 0)
    BY <2>2, <2>6 DEF Alone, AtUse
  <2>9. level' = level
    BY <1>1 DEF Aside
  <2> QED BY <1>1, <2>2, <2>3, <2>6, <2>7, <2>8, <2>9 DEF OnceFor
<1> QED BY <1>8, <1>9

\* The engine calls others, or nothing.
LEMMA EngineFresh ==
  ASSUME Inv, Idle, NEW x \in Onces, OnceFor(x), Lasts(x), fired' = fired,
         \/ stack' = <<>> \/ stack' = stack
         \/ \E f \in Frames : f.by # x /\ stack' = <<f>>
         \/ \E e \in Ents : e # x /\ \E touched : Tells(e, <<>>, touched)
  PROVE  OnceFor(x)'
<1>1. stack = <<>> /\ <<>> \in Seq(Frames)
  BY DEF Idle
<1>2. PICK r \in Seq(Frames) : r = stack
  BY <1>1
<1>3. PICK st : st = stack'
  OBVIOUS
<1>4. CASE stack' = <<>> \/ stack' = stack
  <2>1. SameFrames(st, stack, x)
    BY <1>1, <1>3, <1>4 DEF SameFrames
  <2> QED BY <1>3, <2>1, KeepOnce
<1>5. ASSUME NEW f \in Frames, f.by # x, stack' = <<f>> PROVE OnceFor(x)'
  <2>1. <<f>> \o r = <<f>>
    <3>1. <<f>> \in Seq(Frames)
      OBVIOUS
    <3> QED BY <1>1, <1>2, <3>1, ConcatEmptySeq
  <2>2. st = <<f>> \o r
    BY <1>3, <1>5, <2>1
  <2>3. SameFrames(st, r, x)
    BY <1>5, <2>2, PushOnce
  <2> QED BY <1>2, <1>3, <2>3, KeepOnce
<1>6. ASSUME NEW e \in Ents, e # x, NEW touched, Tells(e, <<>>, touched) PROVE OnceFor(x)'
  <2>1. stack' \in Seq(Frames) /\ OnTop(stack', Told(e), r)
    BY <1>1, <1>2, <1>6 DEF Tells
  <2>2. \A f \in Told(e) : f.by # x
    BY <1>6 DEF Told
  <2>3. SameFrames(st, r, x)
    BY <1>3, <2>1, <2>2, OthersOnce
  <2> QED BY <1>2, <1>3, <2>3, KeepOnce
<1> QED BY <1>4, <1>5, <1>6

\* The engine calls x.
LEMMA EngineStarts ==
  ASSUME Inv, Idle, NEW x \in Onces, OnceFor(x), NEW k \in {"once", "trigger"},
         stack' = <<Call(x, k)>>, ~Done(x), fired' = fired, level' = level
  PROVE  OnceFor(x)'
<1>1. x \in Ents /\ stack = <<>>
  BY OnceKind DEF Idle
<1>2. PICK f \in Frames : f = Call(x, k) /\ f.by = x /\ f.do = "use"
  BY <1>1, CallTold
<1>3. PICK r \in Seq(Frames) : r = stack
  BY DEF Inv, TypeOK
<1>4. ~Busy(r, x)
  <2>1. PICK S : S = {}
    OBVIOUS
  <2> QED BY <1>1, <1>3, EmptyOnce
<1>5. <<f>> \o r = <<f>>
  <2>1. <<f>> \in Seq(Frames)
    OBVIOUS
  <2> QED BY <1>1, <1>3, <2>1, ConcatEmptySeq
<1>6. fired[x] = 0
  BY <1>3, <1>4, Unfired
<1>7. level.kind[x] # "counter"
  BY DEF Done
<1>8. stack' = <<f>> \o r
  BY <1>2, <1>5
<1> QED BY <1>2, <1>4, <1>6, <1>7, <1>8, StartOnce

LEMMA PlayerFresh ==
  ASSUME Inv, NEW e \in Ents, Player(e), NEW x \in Onces, OnceFor(x) PROVE OnceFor(x)'
<1>1. /\ Idle /\ fired' = fired /\ left' = left /\ Aside /\ <<>> \in Seq(Frames)
  BY PlayerAside DEF Player, MultiTouch, ButtonTouch, PlayerUse, ButtonShot, history
<1>2. /\ x \in Ents /\ level.kind[x] \in {"multiple", "counter", "relay", "auto"}
      /\ kind[x] \in {level.kind[x], "free"}
  BY OnceKind
<1>3. ASSUME NEW k \in {"trigger", "return"}, stack' = <<Call(e, k)>>, e # x,
             touch' \subseteq touch
      PROVE  OnceFor(x)'
  <2>1. PICK f \in Frames : f = Call(e, k) /\ f.by = e
    BY CallTold
  <2>2. Lasts(x)
    BY <1>1, <1>3, AsideLasts
  <2> QED BY <1>1, <1>3, <2>1, <2>2, EngineFresh
<1>4. ASSUME e # x, NEW touched, touched \subseteq touch, Tells(e, <<>>, touched)
      PROVE  OnceFor(x)'
  <2>1. touch' \subseteq touch \cup {e}
    BY <1>4 DEF Tells
  <2>2. Lasts(x)
    BY <1>1, <1>4, <2>1, AsideLasts
  <2> QED BY <1>1, <1>4, <2>2, EngineFresh
<1>5. CASE MultiTouch(e)
  <2>1. stack' = <<Call(e, "trigger")>> /\ touch' = touch /\ e \in touch /\ kind[e] = "multiple"
    BY <1>5 DEF MultiTouch
  <2>2. CASE e = x
    <3>1. ~Done(x) /\ level' = level
      BY <1>1, <1>2, <2>1, <2>2 DEF Done, Aside
    <3> QED BY <1>1, <2>1, <2>2, <3>1, EngineStarts
  <2> QED BY <1>3, <2>1, <2>2
<1>6. CASE ButtonTouch(e)
  <2>1. /\ e # x
        /\ \/ ButtonActivate(e, <<>>, touch \ {e})
           \/ stack' = <<Call(e, "return")>> /\ touch' = touch \ {e}
    BY <1>2, <1>6 DEF ButtonTouch
  <2> QED BY <1>1, <1>3, <1>4, <2>1, ButtonActivateTells
<1>7. CASE PlayerUse(e)
  <2>1. e # x /\ ButtonUse(e, <<>>)
    BY <1>2, <1>7 DEF PlayerUse
  <2> QED BY <1>1, <1>4, <2>1, ButtonUseTells
<1>8. CASE ButtonShot(e)
  <2>1. e # x /\ \/ ButtonActivate(e, <<>>, touch \ {e})
                 \/ ButtonReturn(e, <<>>, touch \ {e})
    BY <1>2, <1>8 DEF ButtonShot
  <2> QED BY <1>1, <1>4, <2>1, ButtonActivateTells, ButtonReturnTells
<1> QED BY <1>5, <1>6, <1>7, <1>8 DEF Player

LEMMA ThinkFresh ==
  ASSUME Inv, NEW e \in Ents, Think(e), NEW x \in Onces, OnceFor(x) PROVE OnceFor(x)'
<1>1. Idle /\ fired' = fired /\ left' = left /\ <<>> \in Seq(Frames)
  BY DEF Think, TriggerThink, CallThink, Register, ButtonThink, ThinkTime, history
<1>2. /\ x \in Ents /\ level.kind[x] \in {"multiple", "counter", "relay", "auto"}
      /\ kind[x] \in {level.kind[x], "free"}
  BY OnceKind
<1>3. ASSUME ~Register(e), touch' \subseteq touch \cup {e}, e # x \/ touch' = touch PROVE Lasts(x)
  BY <1>1, <1>3, ThinkAside, AsideLasts
<1>4. CASE Register(e)
  <2>1. UNCHANGED <<level, kind, killed, touch, stack>>
    BY <1>4 DEF Register, fields
  <2>2. Lasts(x)
    BY <1>1, <2>1 DEF Lasts
  <2> QED BY <1>1, <2>1, <2>2, EngineFresh
<1>5. CASE TriggerThink(e)
  <2>1. stack' = stack /\ touch' = touch /\ ~Register(e)
    BY <1>5 DEF TriggerThink, Register
  <2> QED BY <1>1, <1>3, <2>1, EngineFresh
<1>6. CASE CallThink(e)
  <2>1. touch' = touch /\ ~Register(e) /\ level' = level /\ Live(e)
    BY <1>6 DEF CallThink, Register, fields, ThinkTime
  <2>2. Lasts(x)
    BY <1>3, <2>1
  <2>3. \/ stack' = <<>>
        \/ kind[e] = "auto" /\ stack' = <<Call(e, "once")>>
        \/ /\ kind[e] \in {"manager", "clone", "delayed"}
           /\ \/ stack' = <<Frame("run", e, "none")>> \/ stack' = <<Frame("use", e, "delayed")>>
    BY <1>6 DEF CallThink, Call
  <2>4. ASSUME NEW d \in {"use", "run"}, NEW k \in {"once", "none", "delayed"},
               stack' = <<Frame(d, e, k)>>, e # x
        PROVE  OnceFor(x)'
    <3>1. PICK f \in Frames : f = Frame(d, e, k) /\ f.by = e
      BY FrameType
    <3> QED BY <1>1, <2>2, <2>4, <3>1, EngineFresh
  <2>5. CASE e = x /\ kind[e] = "auto" /\ stack' = <<Call(e, "once")>>
    <3>1. ~Done(x)
      BY <1>2, <2>1, <2>5 DEF Done, Live
    <3> QED BY <1>1, <2>1, <2>5, <3>1, EngineStarts
  <2>6. kind[e] \in {"manager", "clone", "delayed"} => e # x
    BY <1>2
  <2>7. CASE stack' = <<>>
    BY <1>1, <2>2, <2>7, EngineFresh
  <2> QED BY <2>3, <2>4, <2>5, <2>6, <2>7 DEF Call
<1>7. CASE ButtonThink(e)
  <2>1. /\ e # x /\ ~Register(e)
        /\ \/ TriggerAndWait(e, <<>>, touch)
           \/ ButtonReturn(e, <<>>, touch)
           \/ ButtonBackHome(e, <<>>, touch)
    BY <1>2, <1>7 DEF ButtonThink, Register
  <2>2. Tells(e, <<>>, touch)
    BY <1>1, <2>1, TriggerAndWaitTells, ButtonReturnTells, ButtonBackHomeTells
  <2>3. Lasts(x)
    BY <1>3, <2>1, <2>2 DEF Tells
  <2> QED BY <1>1, <2>1, <2>2, <2>3, EngineFresh
<1> QED BY <1>4, <1>5, <1>6, <1>7 DEF Think

LEMMA OtherFresh ==
  ASSUME Inv, Tick \/ Load \/ \E e \in Ents : Reap(e), NEW x \in Onces, OnceFor(x)
  PROVE  OnceFor(x)'
<1>1. Idle /\ UNCHANGED <<fired, left, touch, stack>> /\ Aside
  BY OtherAside DEF Tick, Load, Reap, history
<1>2. Lasts(x)
  BY <1>1, AsideLasts
<1> QED BY <1>1, <1>2, EngineFresh

\* A part of the stack, and who may be called on it.
Within(s) ==
  /\ s \in Seq(Frames) /\ Named(s)
  /\ \A x \in OnceRelays : \A S : Above(stack, x, S) => Above(s, x, S)
Into(s, e) ==
  \A x \in OnceRelays : \A S : Beyond(level, x, S) /\ Above(stack, x, S) /\ Busy(s, x) => e \in S

LEMMA LinesKeep == ASSUME Lines, level' = level, NEW s, Within(s), stack' = s PROVE Lines'
<1>1. Named(stack)'
  <2>1. Named(s)
    BY DEF Within
  <2> QED BY <2>1 DEF Named, NameFits
<1>2. OnceRelays' = OnceRelays
  BY DEF OnceRelays
<1>3. ASSUME NEW x \in OnceRelays PROVE LineFor(x)'
  <2>1. PICK S \in SUBSET Ents : Beyond(level, x, S) /\ Above(stack, x, S)
    BY DEF Lines, LineFor
  <2>2. Above(s, x, S)
    BY <2>1 DEF Within
  <2>3. Beyond(level, x, S)' /\ Above(stack, x, S)'
    BY <2>1, <2>2 DEF Above
  <2> QED BY <2>3 DEF LineFor
<1> QED BY <1>1, <1>2, <1>3 DEF Lines

LEMMA LinesPush ==
  ASSUME Lines, level' = level, NEW s, Within(s), NEW f \in Frames, NameFits(f), Into(s, f.by),
         stack' = <<f>> \o s
  PROVE  Lines'
<1>1. PICK st : st = stack'
  OBVIOUS
<1>2. s \in Seq(Frames) /\ Named(s)
  BY DEF Within
<1>3. \A x, S : /\ Above(st, x, S) <=> Above(s, x, S) /\ (Busy(s, x) => f.by \in S)
                /\ Named(st) <=> Named(s) /\ NameFits(f)
  BY <1>1, <1>2, ConsOnce
<1>4. Named(stack)'
  <2>1. Named(st)
    BY <1>2, <1>3
  <2> QED BY <1>1, <2>1 DEF Named, NameFits
<1>5. OnceRelays' = OnceRelays
  BY DEF OnceRelays
<1>6. ASSUME NEW x \in OnceRelays PROVE LineFor(x)'
  <2>1. PICK S \in SUBSET Ents : Beyond(level, x, S) /\ Above(stack, x, S)
    BY DEF Lines, LineFor
  <2>2. Above(st, x, S)
    <3>1. Above(s, x, S)
      BY <2>1 DEF Within
    <3>2. Busy(s, x) => f.by \in S
      BY <2>1 DEF Into
    <3> QED BY <1>3, <3>1, <3>2
  <2>3. Beyond(level, x, S)' /\ Above(stack, x, S)'
    BY <1>1, <2>1, <2>2 DEF Above
  <2> QED BY <2>3 DEF LineFor
<1> QED BY <1>4, <1>5, <1>6 DEF Lines

LEMMA LinesTold ==
  ASSUME Lines, level' = level, NEW s, Within(s), NEW b, b \notin OnceRelays, Into(s, b),
         NEW touched, Tells(b, s, touched)
  PROVE  Lines'
<1>1. PICK st : st = stack'
  OBVIOUS
<1>2. s \in Seq(Frames) /\ Named(s) /\ st \in Seq(Frames) /\ OnTop(st, Told(b), s)
  BY <1>1 DEF Within, Tells
<1>3. PICK F : F = Told(b)
  OBVIOUS
<1>4. \A f \in F : f.by = b /\ NameFits(f)
  BY <1>3 DEF Told
<1>5. Named(stack)'
  <2>1. Named(st)
    BY <1>2, <1>3, <1>4, OthersOnce
  <2> QED BY <1>1, <2>1 DEF Named, NameFits
<1>6. OnceRelays' = OnceRelays
  BY DEF OnceRelays
<1>7. ASSUME NEW x \in OnceRelays PROVE LineFor(x)'
  <2>1. PICK S \in SUBSET Ents : Beyond(level, x, S) /\ Above(stack, x, S)
    BY DEF Lines, LineFor
  <2>2. Above(st, x, S)
    <3>1. Above(s, x, S)
      BY <2>1 DEF Within
    <3>2. Busy(s, x) => \A f \in F : f.by \in S
      BY <1>4, <2>1 DEF Into
    <3>3. \A f \in F : f.by # x
      BY <1>4
    <3> QED BY <1>2, <1>3, <3>1, <3>2, <3>3, OthersOnce
  <2>3. Beyond(level, x, S)' /\ Above(stack, x, S)'
    BY <1>1, <2>1, <2>2 DEF Above
  <2> QED BY <2>3 DEF LineFor
<1> QED BY <1>5, <1>6, <1>7 DEF Lines

LEMMA WithinStack == ASSUME Inv, Lines PROVE Within(stack)
BY DEF Within, Lines, Inv, TypeOK

LEMMA WithinEmpty == Within(<<>>) /\ \A e : Into(<<>>, e)
<1>1. <<>> \in Seq(Frames)
  OBVIOUS
<1>2. \A x, S : ~Busy(<<>>, x) /\ Above(<<>>, x, S) /\ Named(<<>>)
  BY EmptyOnce
<1>3. PICK st : st = <<>>
  OBVIOUS
<1>4. Within(st)
  BY <1>1, <1>2, <1>3 DEF Within
<1>5. \A e : Into(st, e)
  BY <1>2, <1>3 DEF Into
<1> QED BY <1>3, <1>4, <1>5

LEMMA WithinTail ==
  ASSUME Inv, Lines, stack # <<>>
  PROVE  Within(Tail(stack)) /\ Into(Tail(stack), Top.by) /\ NameFits(Top)
<1>1. PICK r : r = Tail(stack)
  OBVIOUS
<1>2. \A x, S : /\ r \in Seq(Frames)
                /\ Above(stack, x, S) <=> Above(r, x, S) /\ (Busy(r, x) => Top.by \in S)
                /\ Named(stack) <=> Named(r) /\ NameFits(Top)
  BY <1>1, TopOnce
<1>3. Named(stack)
  BY DEF Lines
<1>4. Within(r)
  BY <1>2, <1>3 DEF Within
<1>5. Into(r, Top.by) /\ NameFits(Top)
  BY <1>2, <1>3 DEF Into
<1> QED BY <1>1, <1>4, <1>5

LEMMA WithinBelow ==
  ASSUME Inv, Lines, stack # <<>>, Top.do = "fire", Ahead # {}, NEW below,
         below = <<[Top EXCEPT !.at = First(Ahead)]>> \o Tail(stack)
  PROVE  Within(below) /\ \A t \in Ahead : kind[t] \in Callers => Into(below, t)
<1>1. \A x, S : /\ below \in Seq(Frames) /\ SameFrames(below, stack, x)
                /\ Above(below, x, S) <=> Above(stack, x, S)
                /\ Named(below) <=> Named(stack)
  BY BelowOnce
<1>2. Named(stack)
  BY DEF Lines
<1>3. Within(below)
  BY <1>1, <1>2 DEF Within
<1>4. ASSUME NEW t \in Ahead, kind[t] \in Callers, NEW x \in OnceRelays, NEW S,
             Beyond(level, x, S), Above(stack, x, S), Busy(below, x)
      PROVE  t \in S
  <2>1. Busy(stack, x)
    BY <1>1, <1>4 DEF SameFrames
  <2>2. x \in Ents /\ level.kind[x] \in Callers
    BY DEF OnceRelays, Callers
  <2>3. t \in Ents
    BY DEF Ahead, NamedAs
  <2> QED BY <1>2, <1>4, <2>1, <2>2, <2>3, FiresBeyond
<1> QED BY <1>3, <1>4 DEF Into

LEMMA ManagerLoopLines == ASSUME Inv, Lines, ManagerLoop PROVE Lines'
<1>1. stack # <<>> /\ Top.do = "run" /\ level' = level
  BY DEF ManagerLoop, fields
<1>2. PICK e \in Ents : e = Top.by
  BY <1>1, TopFrame
<1>3. e \in Running /\ Len(stack) = 1 /\ Top = stack[1]
  BY <1>1, <1>2, TopFrame DEF Fits
<1>4. level.kind[e] \notin Callers
  BY <1>3, FixedKind DEF Running, Callers
<1>5. CASE left[e] <= Len(list[e]) /\ list[e][left[e]].delay <= age[e]
  <2>1. PICK n \in Names : n = list[e][left[e]].name
    BY <1>3, <1>5, RunningList
  <2>2. PICK f \in Frames : f = FireFrame(e, n, "next") /\ f.by = e
    BY FireFrameType
  <2>3. NameFits(f)
    BY <1>4, <2>2 DEF NameFits
  <2>4. stack' = <<f>> \o stack
    BY <1>2, <1>5, <2>1, <2>2 DEF ManagerLoop
  <2>5. Into(stack, e)
    <3>1. ASSUME NEW x \in OnceRelays, Busy(stack, x) PROVE FALSE
      <4>1. \A i \in 1 .. 1 : i = 1
        OBVIOUS
      <4>2. x = e
        BY <1>2, <1>3, <3>1, <4>1 DEF Busy
      <4> QED BY <1>4, <4>2 DEF OnceRelays, Callers
    <3> QED BY <3>1 DEF Into
  <2> QED BY <1>1, <2>2, <2>3, <2>4, <2>5, WithinStack, LinesPush
<1>6. CASE ~(left[e] <= Len(list[e]) /\ list[e][left[e]].delay <= age[e])
  <2>1. stack' = Tail(stack)
    BY <1>2, <1>6 DEF ManagerLoop
  <2> QED BY <1>1, <2>1, WithinTail, LinesKeep
<1> QED BY <1>5, <1>6

LEMMA UseTargetsLines == ASSUME Inv, Lines, UseTargets PROVE Lines'
<1>1. stack # <<>> /\ Top.do = "use" /\ level' = level
  BY Zenon DEF UseTargets
<1>2. PICK e \in Ents : e = Top.by
  BY <1>1, TopFrame
<1>3. /\ Top \in Frames
      /\ Top.then \in {"none", "once", "trigger", "next", "return", "rest", "delayed"}
  BY <1>1, TopFrame DEF Frames
<1>4. PICK r : r = Tail(stack)
  OBVIOUS
<1>5. PICK n \in Names : n = Target(e)
  BY LevelType DEF Inv
<1>6. /\ level.kind[e] \in Callers => n = level.target[e]
      /\ level.kind[e] \in Callers /\ Delay(e) = 0
         => level.delay[e] = 0 \/ level.kind[e] = "multisource"
  BY <1>5, FixedKind DEF Callers, Target, Delay
<1>7. PICK h \in Frames : h = Frame("fire", e, Top.then) /\ h.by = e /\ h.name = ""
  <2>1. PICK h \in Frames : h = Frame("fire", e, Top.then) /\ h.by = e
    BY <1>3, FrameType
  <2> QED BY <2>1 DEF Frame
<1>8. PICK g \in Frames : g = FireFrame(e, n, Top.then) /\ g.by = e /\ g.name = n
  <2>1. PICK g \in Frames : g = FireFrame(e, n, Top.then) /\ g.by = e
    BY <1>3, FireFrameType
  <2> QED BY <2>1 DEF FireFrame, Frame
<1>9. stack' = <<h>> \o r \/ (stack' = <<g>> \o r /\ (Delay(e) = 0 \/ n = ""))
  BY <1>2, <1>4, <1>5, <1>7, <1>8, Zenon DEF UseTargets
<1>10. NameFits(h) /\ (Delay(e) = 0 \/ n = "" => NameFits(g))
  BY <1>6, <1>7, <1>8 DEF NameFits
<1>11. Within(r) /\ Into(r, e)
  BY <1>1, <1>2, <1>4, WithinTail
<1> QED BY <1>1, <1>7, <1>8, <1>9, <1>10, <1>11, LinesPush

LEMMA FireNextLines == ASSUME Inv, Lines, FireNext PROVE Lines'
<1>1. stack # <<>> /\ Ahead # {} /\ Top.do = "fire" /\ level' = level
  BY FireNextAside DEF FireNext, Aside
<1>2. PICK t \in Ents : t = First(Ahead) /\ t \in Ahead
  BY <1>1, NextAhead
<1>3. PICK below : below = <<[Top EXCEPT !.at = t]>> \o Tail(stack)
  OBVIOUS
<1>4. Within(below) /\ (kind[t] \in Callers => Into(below, t))
  BY <1>1, <1>2, <1>3, WithinBelow
<1>5. CASE stack' = below
  BY <1>1, <1>4, <1>5, LinesKeep
<1>6. ASSUME kind[t] \in Callers, NEW k \in {"once", "trigger", "none"},
             stack' = <<Call(t, k)>> \o below
      PROVE  Lines'
  <2>1. PICK f \in Frames : f = Call(t, k) /\ f.by = t /\ f \in Told(t)
    BY CallTold
  <2>2. NameFits(f)
    BY <2>1 DEF Told
  <2> QED BY <1>1, <1>4, <1>6, <2>1, <2>2, LinesPush
<1>7. CASE kind[t] = "relay" /\ stack' = <<Call(t, "once")>> \o below
  BY <1>6, <1>7 DEF Callers
<1>8. CASE kind[t] = "counter" /\ CounterUse(t, below)
  <2>1. stack' = below \/ stack' = <<Call(t, "trigger")>> \o below
    BY <1>8 DEF CounterUse
  <2> QED BY <1>5, <1>6, <1>8, <2>1 DEF Callers
<1>9. CASE kind[t] \in {"manager", "clone"} /\ ManagerUse(t, below)
  BY <1>5, <1>9 DEF ManagerUse
<1>10. CASE kind[t] = "multisource" /\ MultisourceUse(t, Top.by, below)
  <2>1. below \in Seq(Frames)
    BY <1>4 DEF Within
  <2>2. stack' = below \/ stack' = <<Call(t, "none")>> \o below
    BY <1>1, <1>10, <2>1, TopFrame, MultisourceUseTypes DEF Inv
  <2> QED BY <1>5, <1>6, <1>10, <2>2 DEF Callers
<1>11. CASE kind[t] = "button" /\ ButtonUse(t, below)
  <2>1. Tells(t, below, touch)
    BY <1>4, <1>11, ButtonUseTells DEF Within
  <2>2. t \notin OnceRelays /\ kind[t] \in Callers
    BY <1>11, CallerKind DEF Callers, OnceRelays
  <2> QED BY <1>1, <1>4, <2>1, <2>2, LinesTold
<1> QED BY <1>2, <1>3, <1>5, <1>7, <1>8, <1>9, <1>10, <1>11 DEF FireNext

LEMMA FireDoneLines == ASSUME Inv, Lines, FireDone PROVE Lines'
<1>1. stack # <<>> /\ Top.do = "fire" /\ level' = level
  BY DEF FireDone
<1>2. PICK e \in Ents : e = Top.by
  BY <1>1, TopFrame
<1>3. PICK r : r = Tail(stack)
  OBVIOUS
<1>4. Within(r) /\ Into(r, e)
  BY <1>1, <1>2, <1>3, WithinTail
<1>5. stack' = r \/ (Top.then = "return" /\ ButtonReturn(e, r, touch))
  BY <1>2, <1>3 DEF FireDone
<1>6. CASE stack' = r
  BY <1>1, <1>4, <1>6, LinesKeep
<1>7. CASE Top.then = "return" /\ ButtonReturn(e, r, touch)
  <2>1. Tells(e, r, touch)
    BY <1>4, <1>7, ButtonReturnTells DEF Within
  <2>2. e \notin OnceRelays
    <3>1. kind[e] \in KindsFor("return")
      BY <1>1, <1>2, <1>7, TopFrame DEF Fits
    <3> QED BY <3>1, FixedKind DEF KindsFor, OnceRelays
  <2> QED BY <1>1, <1>4, <2>1, <2>2, LinesTold
<1> QED BY <1>5, <1>6, <1>7

\* The engine calls a button, another or nothing.
LEMMA EngineLines ==
  ASSUME Inv, Lines, Idle, level' = level,
         \/ stack' = <<>> \/ stack' = stack
         \/ \E f \in Frames : f.do # "fire" /\ stack' = <<f>>
         \/ \E e \in Ents : kind[e] = "button" /\ \E touched : Tells(e, <<>>, touched)
  PROVE  Lines'
<1>1. stack = <<>>
  BY DEF Idle
<1>2. CASE stack' = <<>> \/ stack' = stack
  BY <1>1, <1>2, WithinEmpty, LinesKeep
<1>3. ASSUME NEW f \in Frames, f.do # "fire", stack' = <<f>> PROVE Lines'
  <2>1. <<f>> \o <<>> = <<f>>
    <3>1. <<f>> \in Seq(Frames)
      OBVIOUS
    <3> QED BY <3>1, ConcatEmptySeq
  <2>2. NameFits(f)
    BY <1>3 DEF NameFits
  <2> QED BY <1>3, <2>1, <2>2, WithinEmpty, LinesPush
<1>4. ASSUME NEW e \in Ents, kind[e] = "button", NEW touched, Tells(e, <<>>, touched)
      PROVE  Lines'
  <2>1. e \notin OnceRelays
    BY <1>4, CallerKind DEF Callers, OnceRelays
  <2> QED BY <1>4, <2>1, WithinEmpty, LinesTold
<1> QED BY <1>2, <1>3, <1>4

LEMMA PlayerLines == ASSUME Inv, Lines, NEW e \in Ents, Player(e) PROVE Lines'
<1>1. Idle /\ level' = level /\ <<>> \in Seq(Frames)
  BY DEF Player, MultiTouch, ButtonTouch, PlayerUse, ButtonShot, fields
<1>2. ASSUME NEW k \in {"trigger", "return"}, stack' = <<Call(e, k)>> PROVE Lines'
  <2>1. PICK f \in Frames : f = Call(e, k) /\ f.do # "fire"
    BY CallTold
  <2> QED BY <1>1, <1>2, <2>1, EngineLines
<1>3. CASE MultiTouch(e)
  BY <1>2, <1>3 DEF MultiTouch
<1>4. CASE ButtonTouch(e)
  <2>1. kind[e] = "button" /\ \/ ButtonActivate(e, <<>>, touch \ {e})
                              \/ stack' = <<Call(e, "return")>>
    BY <1>4 DEF ButtonTouch
  <2> QED BY <1>1, <1>2, <2>1, ButtonActivateTells, EngineLines
<1>5. CASE PlayerUse(e)
  <2>1. kind[e] = "button" /\ ButtonUse(e, <<>>)
    BY <1>5 DEF PlayerUse
  <2> QED BY <1>1, <2>1, ButtonUseTells, EngineLines
<1>6. CASE ButtonShot(e)
  <2>1. kind[e] = "button" /\ \/ ButtonActivate(e, <<>>, touch \ {e})
                              \/ ButtonReturn(e, <<>>, touch \ {e})
    BY <1>6 DEF ButtonShot
  <2> QED BY <1>1, <2>1, ButtonActivateTells, ButtonReturnTells, EngineLines
<1> QED BY <1>3, <1>4, <1>5, <1>6 DEF Player

LEMMA ThinkLines == ASSUME Inv, Lines, NEW e \in Ents, Think(e) PROVE Lines'
<1>1. Idle /\ level' = level /\ <<>> \in Seq(Frames)
  BY DEF Think, TriggerThink, CallThink, Register, ButtonThink, ThinkTime, fields
<1>2. ASSUME NEW d \in {"use", "run"}, NEW k \in {"once", "none", "delayed"},
             stack' = <<Frame(d, e, k)>>
      PROVE  Lines'
  <2>1. PICK f \in Frames : f = Frame(d, e, k) /\ f.do = d
    BY FrameType
  <2> QED BY <1>1, <1>2, <2>1, EngineLines
<1>3. CASE TriggerThink(e) \/ Register(e)
  <2>1. stack' = stack
    BY <1>3 DEF TriggerThink, Register
  <2> QED BY <1>1, <2>1, EngineLines
<1>4. CASE CallThink(e)
  <2>1. \/ stack' = <<>>
        \/ stack' = <<Frame("use", e, "once")>>
        \/ stack' = <<Frame("run", e, "none")>> \/ stack' = <<Frame("use", e, "delayed")>>
    BY <1>4 DEF CallThink, Call
  <2>2. CASE stack' = <<>>
    BY <1>1, <2>2, EngineLines
  <2> QED BY <1>2, <2>1, <2>2
<1>5. CASE ButtonThink(e)
  <2>1. /\ kind[e] = "button"
        /\ \/ TriggerAndWait(e, <<>>, touch)
           \/ ButtonReturn(e, <<>>, touch)
           \/ ButtonBackHome(e, <<>>, touch)
    BY <1>5 DEF ButtonThink
  <2>2. Tells(e, <<>>, touch)
    BY <1>1, <2>1, TriggerAndWaitTells, ButtonReturnTells, ButtonBackHomeTells
  <2> QED BY <1>1, <2>1, <2>2, EngineLines
<1> QED BY <1>3, <1>4, <1>5 DEF Think

LEMMA StepLines == ASSUME Inv, Lines, [Next]_vars PROVE Lines'
<1>1. CASE Tick \/ Load \/ \E e \in Ents : Reap(e)
  <2>1. Idle /\ stack' = stack /\ level' = level
    BY <1>1 DEF Tick, Load, Reap, fields
  <2> QED BY <2>1, EngineLines
<1>2. CASE UNCHANGED vars
  <2>1. stack' = stack /\ level' = level
    BY <1>2 DEF vars
  <2> QED BY <2>1, WithinStack, LinesKeep
<1>3. CASE Calls
  BY <1>3, ManagerLoopLines, UseTargetsLines, FireNextLines, FireDoneLines DEF Calls
<1>4. ASSUME NEW e \in Ents, Player(e) \/ Think(e) PROVE Lines'
  BY <1>4, PlayerLines, ThinkLines
<1> QED BY <1>1, <1>2, <1>3, <1>4 DEF Next

LEMMA StepFresh == ASSUME Inv, Lines, Fresh, [Next]_vars PROVE Fresh'
<1>1. level' = level
  <2>1. CASE Tick \/ Load \/ \E e \in Ents : Reap(e)
    BY <2>1 DEF Tick, Load, Reap, fields
  <2>2. CASE Calls
    BY <2>2, ManagerLoopAside, UseTargetsAside, FireNextAside, FireDoneAside DEF Calls, Aside
  <2>3. ASSUME NEW e \in Ents, Player(e) PROVE level' = level
    BY <2>3, PlayerAside DEF Aside
  <2>4. ASSUME NEW e \in Ents, Think(e) PROVE level' = level
    BY <2>4 DEF Think, TriggerThink, CallThink, Register, ButtonThink, fields
  <2>5. CASE UNCHANGED vars
    BY <2>5 DEF vars
  <2> QED BY <2>1, <2>2, <2>3, <2>4, <2>5 DEF Next
<1>2. Onces' = Onces
  BY <1>1 DEF Onces, OneShot
<1>3. ASSUME NEW x \in Onces PROVE OnceFor(x)'
  <2>1. OnceFor(x)
    BY DEF Fresh
  <2>2. CASE Calls
    BY <2>1, <2>2, ManagerLoopFresh, UseTargetsFresh, FireNextFresh, FireDoneFresh DEF Calls
  <2>3. ASSUME NEW e \in Ents, Player(e) \/ Think(e) PROVE OnceFor(x)'
    BY <2>1, <2>3, PlayerFresh, ThinkFresh
  <2>4. CASE Tick \/ Load \/ \E e \in Ents : Reap(e)
    BY <2>1, <2>4, OtherFresh
  <2>5. CASE UNCHANGED vars
    BY <2>1, <2>5 DEF vars, OnceFor, Done, Busy, AtUse, Alone
  <2> QED BY <2>2, <2>3, <2>4, <2>5 DEF Next
<1> QED BY <1>2, <1>3 DEF Fresh

LEMMA InitOnce == ASSUME NoReturn, Init PROVE Lines /\ Fresh
<1>1. stack = <<>> /\ fired = [e \in Ents |-> 0] /\ level \in Levels
  BY Zenon DEF Init
<1>2. PICK st : st = stack
  OBVIOUS
<1>3. \A x, S : ~Busy(st, x) /\ ~AtUse(st, x) /\ Alone(st, x) /\ Above(st, x, S) /\ Named(st)
  BY <1>1, <1>2, EmptyOnce
<1>4. ASSUME NEW x \in OnceRelays PROVE LineFor(x)
  <2>1. x \in Ents /\ level.kind[x] = "relay" /\ "once" \in level.flags[x]
    BY DEF OnceRelays
  <2>2. PICK S \in SUBSET Ents : Beyond(level, x, S)
    BY <1>1, <2>1 DEF NoReturn
  <2> QED BY <1>2, <1>3, <2>2 DEF LineFor
<1>5. ASSUME NEW x \in Onces PROVE OnceFor(x)
  <2>1. fired[x] = 0
    BY <1>1 DEF Onces
  <2> QED BY <1>2, <1>3, <2>1 DEF OnceFor
<1> QED BY <1>2, <1>3, <1>4, <1>5 DEF Lines, Fresh

\* In every map where no relay that fires once is used again by what it sets off itself,
\* what is meant to fire once does so once at most: neither touches, uses, loads nor calls
\* that nest in any way before it is removed make it fire again.
THEOREM FiresOnce == ASSUME NoReturn PROVE Spec => []OnceFires
<1>1. Inv /\ Timely /\ Lines /\ Fresh /\ [Next]_vars => (Inv /\ Timely /\ Lines /\ Fresh)'
  BY StepInv, StepTimely, StepLines, StepFresh
<1>2. Fresh => OnceFires
  BY DEF Fresh, OnceFires, OnceFor, Onces
<1>3. Init => Inv /\ Timely /\ Lines /\ Fresh
  BY NoReturn, InitInv, InitOnce
<1> QED BY <1>1, <1>2, <1>3, PTL DEF Spec

=============================================================================
