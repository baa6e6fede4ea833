-------------------------- MODULE WebPortal_proofs --------------------------
(***************************************************************************)
(* Theorems about WebPortal, for any number of acts, reloads, expansions   *)
(* and moves by others on a visit: the types, what a button is offered     *)
(* for, the end of the skeletons, and that a page comes to rest showing    *)
(* what is in the database, in whatever order calls are served, fail and   *)
(* land.  The tables of the pages, the routes and the statuses enter the   *)
(* proofs only through PagesFit and the assumptions of WebTables, which    *)
(* TLC evaluates.                                                          *)
(***************************************************************************)
EXTENDS WebPortal, WebTables, SequenceTheorems, FiniteSetTheorems, TLAPS

(***************************************************************************)
(* Sequences of async functions.                                           *)
(***************************************************************************)

\* Taking one element out moves up those behind it.
LEMMA RemoveAtElements ==
  ASSUME NEW S, NEW s \in Seq(S), NEW i \in 1..Len(s)
  PROVE  /\ RemoveAt(s, i) \in Seq(S)
         /\ Len(RemoveAt(s, i)) = Len(s) - 1
         /\ \A k \in 1..(Len(s) - 1) : RemoveAt(s, i)[k] = s[IF k < i THEN k ELSE k + 1]
<1> DEFINE a == SubSeq(s, 1, i - 1)
           b == SubSeq(s, i + 1, Len(s))
<1>1. /\ a \in Seq(S) /\ Len(a) = i - 1 /\ \A k \in 1..(i - 1) : a[k] = s[k]
      /\ b \in Seq(S) /\ Len(b) = Len(s) - i /\ \A k \in 1..(Len(s) - i) : b[k] = s[k + i]
  BY SubSeqProperties
<1> HIDE DEF a, b
<1>2. /\ a \o b \in Seq(S) /\ Len(a \o b) = Len(a) + Len(b)
      /\ \A k \in 1..(Len(a) + Len(b)) :
           (a \o b)[k] = IF k <= Len(a) THEN a[k] ELSE b[k - Len(a)]
  BY <1>1, ConcatProperties
<1>3. RemoveAt(s, i) = a \o b
  BY DEF RemoveAt, a, b
<1>4. i \in Nat /\ Len(s) \in Nat /\ i <= Len(s) /\ i >= 1
  OBVIOUS
<1>5. ASSUME NEW k \in 1..(Len(s) - 1)
      PROVE  (a \o b)[k] = s[IF k < i THEN k ELSE k + 1]
  <2>1. CASE k < i
    BY <1>1, <1>2, <1>4, <2>1
  <2>2. CASE ~(k < i)
    <3>1. k - Len(a) \in 1..(Len(s) - i) /\ k \in 1..(Len(a) + Len(b)) /\ ~(k <= Len(a))
      BY <1>1, <1>4, <2>2
    <3>2. (a \o b)[k] = b[k - Len(a)]
      BY <1>2, <3>1
    <3>3. b[k - Len(a)] = s[(k - Len(a)) + i]
      BY <1>1, <3>1
    <3>4. (k - Len(a)) + i = k + 1
      BY <1>1, <1>4
    <3> QED BY <2>2, <3>2, <3>3, <3>4
  <2> QED BY <2>1, <2>2
<1>6. Len(a) + Len(b) = Len(s) - 1
  BY <1>1, <1>4
<1> HIDE DEF a, b
<1> QED BY <1>2, <1>3, <1>5, <1>6

\* A set of positions can be listed in increasing order by counting.
LEMMA InOrderOfPosition ==
  ASSUME NEW n \in Nat, NEW K \in SUBSET (1..n)
  PROVE  /\ Cardinality(K) \in Nat
         /\ \A k \in 1..Cardinality(K) : Nth(K, k) \in K
         /\ \A k, m \in 1..Cardinality(K) : k < m => Nth(K, k) < Nth(K, m)
         /\ \A i \in K : \E k \in 1..Cardinality(K) : Nth(K, k) = i
<1> DEFINE upto(i) == {j \in K : j <= i}
           rank == [i \in K |-> Cardinality(upto(i))]
<1>0. \A i \in K : i \in Int
  OBVIOUS
<1>1. IsFiniteSet(K) /\ Cardinality(K) \in Nat
  <2>1. IsFiniteSet(1..n)
    BY FS_Interval
  <2> QED BY <2>1, FS_Subset, FS_CardinalityType
<1>2. ASSUME NEW i \in K, NEW j \in K, i < j
      PROVE  Cardinality(upto(i)) < Cardinality(upto(j))
  <2>1. /\ IsFiniteSet(upto(j)) /\ Cardinality(upto(j)) \in Nat
    BY <1>1, FS_Subset, FS_CardinalityType
  <2>2. upto(i) \in SUBSET upto(j)
    <3>1. \A k \in K : k <= i => k <= j
      BY <1>0, <1>2
    <3> QED BY <3>1
  <2>3. upto(i) # upto(j)
    <3>1. j \in upto(j) /\ j \notin upto(i)
      BY <1>0, <1>2
    <3> QED BY <3>1
  <2>4. Cardinality(upto(i)) \in Nat
    BY <1>1, FS_Subset, FS_CardinalityType
  <2>5. /\ Cardinality(upto(i)) <= Cardinality(upto(j))
        /\ Cardinality(upto(j)) = Cardinality(upto(i)) => upto(j) = upto(i)
    BY <2>1, <2>2, FS_Subset
  <2> HIDE DEF upto
  <2> QED BY <2>1, <2>3, <2>4, <2>5
<1>3. \A i \in K : Cardinality(upto(i)) \in 1..Cardinality(K)
  <2> SUFFICES ASSUME NEW i \in K PROVE Cardinality(upto(i)) \in 1..Cardinality(K)
    OBVIOUS
  <2>1. /\ IsFiniteSet(upto(i)) /\ Cardinality(upto(i)) \in Nat
        /\ Cardinality(upto(i)) <= Cardinality(K)
    BY <1>1, FS_Subset, FS_CardinalityType
  <2>2. upto(i) # {}
    OBVIOUS
  <2>3. Cardinality(upto(i)) # 0
    BY <2>1, <2>2, FS_EmptySet
  <2> HIDE DEF upto
  <2> QED BY <1>1, <2>1, <2>3
<1>4. rank \in Injection(K, 1..Cardinality(K))
  <2>1. rank \in [K -> 1..Cardinality(K)]
    BY <1>3
  <2>2. ASSUME NEW i \in K, NEW j \in K, i # j PROVE rank[i] # rank[j]
    <3>1. i \in Int /\ j \in Int
      OBVIOUS
    <3>2. Cardinality(upto(i)) \in Nat /\ Cardinality(upto(j)) \in Nat
      BY <1>3, <1>1
    <3>3. i < j \/ j < i
      BY <3>1, <2>2
    <3> HIDE DEF upto
    <3>4. Cardinality(upto(i)) # Cardinality(upto(j))
      BY <1>2, <3>2, <3>3
    <3> QED BY <3>4
  <2> HIDE DEF rank
  <2> QED BY <2>1, <2>2 DEF Injection, IsInjective
<1>5. rank \in Surjection(K, 1..Cardinality(K))
  <2>1. IsFiniteSet(1..Cardinality(K)) /\ Cardinality(1..Cardinality(K)) = Cardinality(K)
    BY <1>1, FS_Interval
  <2> HIDE DEF rank
  <2> QED BY <1>4, <2>1, FS_Injection
<1>6. \A k \in 1..Cardinality(K) : Nth(K, k) \in K /\ Cardinality(upto(Nth(K, k))) = k
  <2> TAKE k \in 1..Cardinality(K)
  <2>1. PICK i \in K : rank[i] = k
    <3> HIDE DEF rank
    <3> QED BY <1>5 DEF Surjection
  <2>2. Cardinality(upto(i)) = k
    BY <2>1
  <2> QED BY <2>2 DEF Nth
<1>7. ASSUME NEW k \in 1..Cardinality(K), NEW m \in 1..Cardinality(K), k < m
      PROVE  Nth(K, k) < Nth(K, m)
  <2>1. Nth(K, k) \in K /\ Nth(K, m) \in K /\ Nth(K, k) \in Int /\ Nth(K, m) \in Int
    BY <1>6, <1>0
  <2>2. Nth(K, k) # Nth(K, m)
    <3> HIDE DEF upto
    <3> QED BY <1>1, <1>6, <1>7
  <2>3. ~(Nth(K, m) < Nth(K, k))
    <3>1. ASSUME Nth(K, m) < Nth(K, k) PROVE m < k
      <4>1. Cardinality(upto(Nth(K, m))) < Cardinality(upto(Nth(K, k)))
        BY <1>2, <2>1, <3>1
      <4> HIDE DEF upto
      <4> QED BY <4>1, <1>6
    <3> QED BY <3>1, <1>7
  <2> QED BY <2>1, <2>2, <2>3
<1>8. ASSUME NEW i \in K PROVE \E k \in 1..Cardinality(K) : Nth(K, k) = i
  <2> DEFINE k == Cardinality(upto(i))
  <2>1. k \in 1..Cardinality(K)
    BY <1>3
  <2>2. Nth(K, k) \in K /\ Cardinality(upto(Nth(K, k))) = k
    BY <1>6, <2>1
  <2>3. Nth(K, k) \in Int /\ i \in Int
    BY <2>2, <1>0
  <2>4. Nth(K, k) = i
    <3>1. Nth(K, k) < i => Cardinality(upto(Nth(K, k))) < Cardinality(upto(i))
      BY <1>2, <2>2
    <3>2. i < Nth(K, k) => Cardinality(upto(i)) < Cardinality(upto(Nth(K, k)))
      BY <1>2, <2>2
    <3> HIDE DEF upto
    <3>3. k \in Nat
      BY <1>1, <2>1
    <3>4. ~(Nth(K, k) < i) /\ ~(i < Nth(K, k))
      BY <2>2, <3>1, <3>2, <3>3
    <3> HIDE DEF k
    <3> QED BY <3>4, <2>3
  <2> QED BY <2>1, <2>4
<1> QED BY <1>1, <1>6, <1>7, <1>8
(***************************************************************************)
(* Async functions as records.                                             *)
(***************************************************************************)
Stages   == Seq(SUBSET DOMAIN Api)
Answers  == UNION {[D -> {"fresh", "stale"}] : D \in SUBSET DOMAIN Api}
Choice   == 0..1
Text     == STRING \cup {""}
Instance ==
  [act : Text, load : Stages, left : Stages, got : Answers, snap : AnyStatus,
   filter : Choice, busy : Text, saw : AnyStatus, wrote : BOOLEAN, stray : BOOLEAN]

LEMMA NoAnswersYet == NoAnswers \in Answers /\ DOMAIN NoAnswers = {}
<1>1. NoAnswers \in [{} -> {"fresh", "stale"}] /\ DOMAIN NoAnswers = {}
  BY DEF NoAnswers
<1> QED BY <1>1 DEF Answers

LEMMA NoneIsAStatus == "none" \in AnyStatus
BY DEF AnyStatus

\* What an async function is does not change while it runs.
Became(x, y, left, got, snap, wrote, stray) ==
  /\ y \in Instance
  /\ y.act = x.act /\ y.load = x.load /\ y.filter = x.filter /\ y.saw = x.saw
  /\ y.left = left /\ y.got = got /\ y.snap = snap /\ y.wrote = wrote /\ y.stray = stray

IsLoad(x, l, left, f) ==
  /\ x \in Instance
  /\ x.act = "" /\ x.load = l /\ x.left = left /\ x.got = NoAnswers /\ x.snap = "none"
  /\ x.filter = f /\ x.wrote = FALSE /\ x.stray = FALSE

LEMMA LoadIsInstance ==
  ASSUME NEW l \in Stages, NEW b \in Text, NEW f \in Choice
  PROVE  IsLoad(Load(l, b, f), l, l, f)
BY NoAnswersYet, NoneIsAStatus DEF Load, Instance, Text, IsLoad

LEMMA ShortenedLoad ==
  ASSUME NEW l \in Stages, NEW b \in Text, NEW f \in Choice, NEW left \in Stages
  PROVE  IsLoad([Load(l, b, f) EXCEPT !.left = left], l, left, f)
BY NoAnswersYet, NoneIsAStatus DEF Load, Instance, Text, IsLoad

LEMMA Answered ==
  ASSUME NEW x \in Instance, NEW got \in Answers, NEW snap \in AnyStatus
  PROVE  Became(x, [x EXCEPT !.got = got, !.snap = snap], x.left, got, snap, x.wrote, x.stray)
BY DEF Instance, Became

LEMMA Revised ==
  ASSUME NEW x \in Instance, NEW got \in Answers
  PROVE  Became(x, [x EXCEPT !.got = got], x.left, got, x.snap, x.wrote, x.stray)
BY DEF Instance, Became

LEMMA StageOver ==
  ASSUME NEW x \in Instance, NEW left \in Stages
  PROVE  Became(x, [x EXCEPT !.left = left, !.got = NoAnswers], left, NoAnswers, x.snap,
                x.wrote, x.stray)
BY NoAnswersYet DEF Instance, Became

LEMMA CallDone ==
  ASSUME NEW x \in Instance, NEW left \in Stages
  PROVE  Became(x, [x EXCEPT !.left = left, !.wrote = TRUE], left, x.got, x.snap, TRUE, x.stray)
BY DEF Instance, Became

LEMMA Overtaken ==
  ASSUME NEW x \in Instance
  PROVE  Became(x, [x EXCEPT !.stray = TRUE], x.left, x.got, x.snap, x.wrote, TRUE)
BY DEF Instance, Became

LEMMA Deserted ==
  ASSUME NEW x \in Instance
  PROVE  Became(x, [x EXCEPT !.stray = TRUE, !.busy = ""], x.left, x.got, x.snap, x.wrote, TRUE)
BY DEF Instance, Became, Text

LEMMA AnswersOf ==
  ASSUME NEW x \in Instance
  PROVE  /\ DOMAIN x.got \subseteq DOMAIN Api
         /\ \A d \in DOMAIN x.got : x.got[d] \in {"fresh", "stale"}
<1>1. x.got \in Answers
  BY DEF Instance
<1> QED BY <1>1 DEF Answers

(***************************************************************************)
(* Async functions of a page.                                              *)
(***************************************************************************)

\* An act has the calls of its button left, and works on a row that showed it.
ActFor(x, p) ==
  /\ x.act \in DOMAIN p.acts /\ DOMAIN x.got = {}
  /\ Reading(x.left) \subseteq Reading(p.acts[x.act].does)
  /\ p.acts[x.act].at = "form" \/ x.saw \in p.acts[x.act].on

\* A load of the page; what acts can put out of date is still to come with its
\* last stage, and nothing else is ever out of date.
LoadFor(x, p) ==
  /\ x.load \in LoadsOf(p) /\ Reading(x.left) \subseteq Reading(x.load)
  /\ Len(x.left) <= Len(x.load)
  /\ \A d \in DOMAIN x.got : x.got[d] = "stale" => d \in Touched(p)
  /\ \A d \in Reading(x.load) \cap Touched(p) :
       d \in x.left[Len(x.left)] /\ \A n \in 1..(Len(x.left) - 1) : d \notin x.left[n]

\* A page without a filter has but one.
Filters(p) == IF p.filter THEN Choice ELSE {0}

Fits(x, p) ==
  /\ x.left # <<>> /\ DOMAIN x.got \subseteq Head(x.left)
  /\ x.snap \in Rows(p.kind) \cup {"none"} /\ x.filter \in Filters(p)
  /\ IF x.act = "" THEN LoadFor(x, p) ELSE ActFor(x, p)

AllFit(seq, p) == seq \in Seq(Instance) /\ \A i \in 1..Len(seq) : Fits(seq[i], p)

ViewFits(view, p) ==
  /\ view \in [CallsOf(p) -> {"nothing", "fresh", "stale"}]
  /\ \A d \in CallsOf(p) : view[d] = "stale" => d \in Touched(p)

LEMMA StagesOf ==
  ASSUME NEW s \in Stages, s # <<>>
  PROVE  /\ Len(s) \in Nat \ {0} /\ DOMAIN s = 1..Len(s)
         /\ Head(s) = s[1] /\ Head(s) \subseteq Reading(s) /\ Head(s) \subseteq DOMAIN Api
         /\ Tail(s) \in Stages /\ Len(Tail(s)) = Len(s) - 1
         /\ \A n \in 1..(Len(s) - 1) : Tail(s)[n] = s[n + 1]
         /\ Reading(Tail(s)) \subseteq Reading(s)
         /\ Len(s) > 1 => Tail(s) # <<>>
<1>1. /\ Len(s) \in Nat \ {0} /\ DOMAIN s = 1..Len(s) /\ Head(s) = s[1]
      /\ Tail(s) \in Stages /\ Len(Tail(s)) = Len(s) - 1 /\ DOMAIN Tail(s) = 1..Len(Tail(s))
      /\ \A n \in 1..(Len(s) - 1) : Tail(s)[n] = s[n + 1]
  BY HeadTailProperties DEF Stages
<1>2. Head(s) \subseteq Reading(s)
  BY <1>1 DEF Reading
<1>5. Head(s) \subseteq DOMAIN Api
  BY <1>1 DEF Stages
<1>3. ASSUME NEW c \in Reading(Tail(s)) PROVE c \in Reading(s)
  <2>1. PICK n \in 1..(Len(s) - 1) : c \in s[n + 1]
    BY <1>1, <1>3 DEF Reading
  <2>2. n + 1 \in DOMAIN s
    BY <1>1
  <2> QED BY <2>1, <2>2 DEF Reading
<1>4. Len(s) > 1 => Tail(s) # <<>>
  BY <1>1
<1> QED BY <1>1, <1>2, <1>3, <1>4, <1>5

LEMMA CallsOfLoads ==
  ASSUME NEW p, NEW l \in LoadsOf(p)
  PROVE  Reading(l) \subseteq CallsOf(p)
BY DEF LoadsOf, CallsOf

LEMMA FilterFacts ==
  ASSUME NEW p
  PROVE  /\ 0 \in Filters(p) /\ Filters(p) \subseteq Choice
         /\ p.filter => \A f \in Filters(p) : 1 - f \in Filters(p)
BY DEF Filters, Choice

\* A load that starts fits, whichever of its calls are left out.
LEMMA NewLoadFits ==
  ASSUME NEW p, PageFits(p), NEW l \in LoadsOf(p), NEW b \in Text, NEW f \in Filters(p)
  PROVE  Load(l, b, f) \in Instance /\ Fits(Load(l, b, f), p)
<1>1. l \in Stages /\ l # <<>>
  BY DEF PageFits, LoadsFit, Stages, NoLoad
<1> DEFINE x == Load(l, b, f)
<1>2. IsLoad(x, l, l, f)
  BY <1>1, FilterFacts, LoadIsInstance
<1> HIDE DEF x
<1>3. DOMAIN x.got = {}
  BY <1>2, NoAnswersYet DEF IsLoad
<1>6. Len(l) <= Len(l)
  <2>1. Len(l) \in Nat
    BY <1>1, StagesOf
  <2> QED BY ONLY <2>1
<1>4. LoadFor(x, p)
  BY <1>2, <1>3, <1>6 DEF IsLoad, LoadFor, PageFits, TouchedFits
<1>5. Fits(x, p)
  BY <1>1, <1>2, <1>3, <1>4 DEF IsLoad, Fits
<1> QED BY <1>2, <1>5 DEF IsLoad, x

LEMMA StartedLoads ==
  ASSUME NEW p, PageFits(p), NEW loads \in SUBSET LoadsOf(p), IsFiniteSet(loads), NEW b \in Text
  PROVE  /\ AllFit(Started(loads, b), p) /\ Len(Started(loads, b)) = Cardinality(loads)
         /\ \A k \in 1..Len(Started(loads, b)) :
              \E l \in loads : Started(loads, b)[k] = Load(l, b, 0)
         /\ \A l \in loads : \E k \in 1..Len(Started(loads, b)) :
              Started(loads, b)[k] = Load(l, b, 0)
<1> DEFINE n == Cardinality(loads)
           order == SetToSeq(loads)
           new == Started(loads, b)
<1>1. n \in Nat /\ ExistsBijection(1..n, loads)
  BY FS_CardinalityType
<1>2. PICK g : g \in Bijection(1..n, loads)
  BY <1>1 DEF ExistsBijection
<1>3. g \in [1..n -> loads] /\ IsInjective(g)
  BY <1>2 DEF Bijection, Injection, IsInjective
<1>4. order \in [1..n -> loads] /\ IsInjective(order)
  BY <1>3 DEF SetToSeq
<1>5. order \in Surjection(1..n, loads)
  <2>1. order \in Injection(1..n, loads)
    BY <1>4 DEF Injection, IsInjective
  <2>2. Cardinality(1..n) = Cardinality(loads)
    BY <1>1, FS_Interval
  <2> HIDE DEF order
  <2> QED BY <2>1, <2>2, FS_Injection
<1>6. new = [k \in 1..n |-> Load(order[k], b, 0)]
  BY <1>4 DEF Started
<1>7. \A l \in LoadsOf(p) : Load(l, b, 0) \in Instance /\ Fits(Load(l, b, 0), p)
  <2>1. 0 \in Filters(p)
    BY FilterFacts
  <2> QED BY <2>1, NewLoadFits
<1> HIDE DEF order, new, n
<1>8. new \in Seq(Instance) /\ Len(new) = n
  <2>1. \A k \in 1..n : Load(order[k], b, 0) \in Instance
    BY <1>4, <1>7
  <2> QED BY <1>1, <1>6, <2>1
<1>9. AllFit(new, p)
  BY <1>4, <1>6, <1>7, <1>8 DEF AllFit
<1>10. \A k \in 1..n : order[k] \in loads /\ new[k] = Load(order[k], b, 0)
  BY <1>4, <1>6
<1>11. \A l \in loads : \E k \in 1..n : order[k] = l
  BY <1>5 DEF Surjection
<1> QED BY <1>8, <1>9, <1>10, <1>11 DEF new, n

\* What becomes of an async function of a page, which still fits the page.
Turned(p, x, y, left, got, snap, wrote, stray) ==
  Became(x, y, left, got, snap, wrote, stray) /\ Fits(y, p)

\* An answer arrives.
LEMMA AnsweredFits ==
  ASSUME NEW p, PageFits(p), NEW x \in Instance, Fits(x, p), x.act = "",
         NEW c \in Head(x.left), NEW snap \in Rows(p.kind) \cup {"none"}, NEW got
  PROVE  got = [d \in DOMAIN x.got \cup {c} |-> IF d = c THEN "fresh" ELSE x.got[d]] =>
         Turned(p, x, [x EXCEPT !.got = got, !.snap = snap], x.left, got, snap, x.wrote, x.stray)
<1>0. HAVE got = [d \in DOMAIN x.got \cup {c} |-> IF d = c THEN "fresh" ELSE x.got[d]]
<1>1. x.left \in Stages /\ x.left # <<>>
  BY DEF Instance, Fits
<1>2. Head(x.left) \subseteq DOMAIN Api
  BY <1>1, StagesOf
<1>3. got \in Answers
  <2> DEFINE D == DOMAIN x.got \cup {c}
  <2>1. D \in SUBSET DOMAIN Api
    BY <1>2, AnswersOf
  <2>2. got \in [D -> {"fresh", "stale"}]
    BY <1>0, AnswersOf
  <2> QED BY <2>1, <2>2 DEF Answers
<1>4. snap \in AnyStatus
  BY NoneIsAStatus DEF PageFits, RowsFit
<1> DEFINE y == [x EXCEPT !.got = got, !.snap = snap]
<1>5. Became(x, y, x.left, got, snap, x.wrote, x.stray)
  BY <1>3, <1>4, Answered
<1> HIDE DEF y
<1>6. \A d \in DOMAIN got : got[d] = "stale" => d \in Touched(p)
  BY <1>0 DEF Fits, LoadFor
<1>7. DOMAIN got \subseteq Head(x.left)
  BY <1>0 DEF Fits
<1>8. LoadFor(y, p)
  BY <1>5, <1>6 DEF Became, Fits, LoadFor
<1>9. Fits(y, p)
  BY <1>5, <1>7, <1>8 DEF Became, Fits
<1> QED BY <1>5, <1>9 DEF Turned, y

\* A call of an act puts answers out of date.
LEMMA RevisedFits ==
  ASSUME NEW p, PageFits(p), NEW x \in Instance, Fits(x, p),
         NEW a \in DOMAIN p.acts, NEW c \in Reading(p.acts[a].does), NEW got
  PROVE  got = [d \in DOMAIN x.got |-> IF Touches(c, d) THEN "stale" ELSE x.got[d]] =>
         Turned(p, x, [x EXCEPT !.got = got], x.left, got, x.snap, x.wrote, x.stray)
<1>0. HAVE got = [d \in DOMAIN x.got |-> IF Touches(c, d) THEN "stale" ELSE x.got[d]]
<1>1. got \in Answers
  BY <1>0, AnswersOf DEF Answers
<1> DEFINE y == [x EXCEPT !.got = got]
<1>2. Became(x, y, x.left, got, x.snap, x.wrote, x.stray)
  BY <1>1, Revised
<1> HIDE DEF y
<1>3. DOMAIN got = DOMAIN x.got
  BY <1>0
<1>4. ASSUME x.act = "" PROVE LoadFor(y, p)
  <2>1. x.left \in Stages
    BY DEF Instance
  <2>2. DOMAIN x.got \subseteq CallsOf(p)
    BY <1>4, <2>1, StagesOf, CallsOfLoads DEF Fits, LoadFor
  <2>3. \A d \in DOMAIN got : Touches(c, d) => d \in Touched(p)
    BY <1>3, <2>2 DEF Touched, TouchedBy
  <2>4. \A d \in DOMAIN got : got[d] = "stale" => d \in Touched(p)
    BY <1>0, <2>3, <1>4 DEF Fits, LoadFor
  <2> QED BY <1>2, <1>4, <2>4 DEF Became, Fits, LoadFor
<1>5. ASSUME x.act # "" PROVE ActFor(y, p)
  BY <1>2, <1>3, <1>5 DEF Became, Fits, ActFor
<1>6. Fits(y, p)
  BY <1>2, <1>3, <1>4, <1>5 DEF Became, Fits
<1> QED BY <1>2, <1>6 DEF Turned, y

\* A stage of a load has landed and another one is left.
LEMMA StageOverFits ==
  ASSUME NEW p, NEW x \in Instance, Fits(x, p), x.act = "", Len(x.left) > 1
  PROVE  Turned(p, x, [x EXCEPT !.left = Tail(x.left), !.got = NoAnswers],
                Tail(x.left), NoAnswers, x.snap, x.wrote, x.stray)
<1>1. x.left \in Stages /\ x.left # <<>>
  BY DEF Instance, Fits
<1> DEFINE left == Tail(x.left)
           y == [x EXCEPT !.left = left, !.got = NoAnswers]
<1>2. /\ left \in Stages /\ left # <<>> /\ Len(left) = Len(x.left) - 1 /\ Len(x.left) \in Nat
      /\ Reading(left) \subseteq Reading(x.left)
      /\ \A n \in 1..Len(left) : left[n] = x.left[n + 1]
  BY <1>1, StagesOf
<1> DEFINE m == Len(x.left)
           k == Len(left)
<1>a. m \in Nat /\ m > 1 /\ k = m - 1
  BY <1>2
<1> HIDE DEF left, m, k
<1>3. Became(x, y, left, NoAnswers, x.snap, x.wrote, x.stray)
  BY <1>2, StageOver
<1> HIDE DEF y
<1>4. ASSUME NEW d \in Reading(x.load) \cap Touched(p)
      PROVE  d \in left[k] /\ \A n \in 1..(k - 1) : d \notin left[n]
  <2>1. d \in x.left[m] /\ \A n \in 1..(m - 1) : d \notin x.left[n]
    BY DEF Fits, LoadFor, m
  <2>2. \A n \in 1..k : left[n] = x.left[n + 1]
    BY <1>2 DEF k
  <2>3. k \in Nat /\ k \in 1..k /\ k + 1 = m
    BY ONLY <1>a
  <2>4. \A n \in 1..(k - 1) : n \in 1..k /\ n + 1 \in 1..(m - 1)
    BY ONLY <1>a
  <2> QED BY <2>1, <2>2, <2>3, <2>4
<1>5. DOMAIN NoAnswers = {}
  BY NoAnswersYet
<1>8. k <= Len(x.load)
  <2>1. x.load \in Stages /\ m <= Len(x.load)
    BY DEF Instance, Fits, LoadFor, m
  <2>2. Len(x.load) \in Nat
    BY ONLY <2>1 DEF Stages
  <2> QED BY ONLY <1>a, <2>1, <2>2
<1>6. LoadFor(y, p)
  BY <1>2, <1>3, <1>4, <1>5, <1>8 DEF Became, Fits, LoadFor, k
<1>7. Fits(y, p)
  BY <1>2, <1>3, <1>5, <1>6 DEF Became, Fits
<1> QED BY <1>3, <1>7 DEF Turned, y, left

\* A call of an act has taken effect and another one is left.
LEMMA CallDoneFits ==
  ASSUME NEW p, NEW x \in Instance, Fits(x, p), x.act # "", Len(x.left) > 1
  PROVE  Turned(p, x, [x EXCEPT !.left = Tail(x.left), !.wrote = TRUE],
                Tail(x.left), x.got, x.snap, TRUE, x.stray)
<1>1. x.left \in Stages /\ x.left # <<>>
  BY DEF Instance, Fits
<1> DEFINE left == Tail(x.left)
           y == [x EXCEPT !.left = left, !.wrote = TRUE]
<1>2. left \in Stages /\ left # <<>> /\ Reading(left) \subseteq Reading(x.left)
  BY <1>1, StagesOf
<1> HIDE DEF left
<1>3. Became(x, y, left, x.got, x.snap, TRUE, x.stray)
  BY <1>2, CallDone
<1> HIDE DEF y
<1>4. Fits(y, p)
  BY <1>2, <1>3 DEF Became, Fits, ActFor
<1> QED BY <1>3, <1>4 DEF Turned, y, left

\* Nothing but the marks of an async function has changed.
LEMMA MarkedFits ==
  ASSUME NEW p, NEW x, NEW y, Fits(x, p), NEW wrote, NEW stray,
         Became(x, y, x.left, x.got, x.snap, wrote, stray)
  PROVE  Turned(p, x, y, x.left, x.got, x.snap, wrote, stray)
BY DEF Turned, Became, Fits, LoadFor, ActFor

(***************************************************************************)
(* Sequences of async functions of a page.                                 *)
(***************************************************************************)

LEMMA NoneFits == \A p : AllFit(<<>>, p)
<1>1. <<>> \in Seq(Instance) /\ Len(<<>>) = 0
  OBVIOUS
<1> QED BY <1>1 DEF AllFit

LEMMA NothingStarted ==
  <<>> \in Seq(Instance) /\ Len(<<>>) = 0 /\ 1..Len(<<>>) = {} /\ \A k \in 1..Len(<<>>) : DOMAIN <<>>[k].got = {}
<1>1. <<>> \in Seq(Instance) /\ Len(<<>>) = 0 /\ 1..0 = {}
  OBVIOUS
<1> QED BY <1>1

LEMMA OneOfAll ==
  ASSUME NEW p, NEW s, AllFit(s, p), NEW i \in 1..Len(s)
  PROVE  s[i] \in Instance /\ Fits(s[i], p)
BY DEF AllFit

LEMMA AppendedFits ==
  ASSUME NEW p, NEW s, AllFit(s, p), NEW x \in Instance, Fits(x, p)
  PROVE  AllFit(Append(s, x), p)
<1>1. s \in Seq(Instance) /\ Len(s) \in Nat
  BY DEF AllFit
<1>2. /\ Append(s, x) \in Seq(Instance) /\ Len(Append(s, x)) = Len(s) + 1
      /\ \A i \in 1..Len(s) : Append(s, x)[i] = s[i]
      /\ Append(s, x)[Len(s) + 1] = x
  BY <1>1, AppendProperties
<1>3. \A i \in 1..(Len(s) + 1) : i \in 1..Len(s) \/ i = Len(s) + 1
  BY <1>1
<1> QED BY <1>2, <1>3 DEF AllFit

LEMMA JoinedFits ==
  ASSUME NEW p, NEW s, AllFit(s, p), NEW t, AllFit(t, p)
  PROVE  AllFit(s \o t, p)
<1>1. s \in Seq(Instance) /\ t \in Seq(Instance) /\ Len(s) \in Nat /\ Len(t) \in Nat
  BY DEF AllFit
<1>2. /\ s \o t \in Seq(Instance) /\ Len(s \o t) = Len(s) + Len(t)
      /\ \A i \in 1..(Len(s) + Len(t)) :
           (s \o t)[i] = IF i <= Len(s) THEN s[i] ELSE t[i - Len(s)]
  BY <1>1, ConcatProperties
<1>3. \A i \in 1..(Len(s) + Len(t)) :
        IF i <= Len(s) THEN i \in 1..Len(s) ELSE i - Len(s) \in 1..Len(t)
  BY <1>1
<1> QED BY <1>2, <1>3 DEF AllFit

LEMMA ChangedFits ==
  ASSUME NEW p, NEW s, AllFit(s, p), NEW t, DOMAIN t = 1..Len(s),
         t = [i \in 1..Len(s) |-> t[i]],
         \A i \in 1..Len(s) : t[i] \in Instance /\ Fits(t[i], p)
  PROVE  AllFit(t, p) /\ Len(t) = Len(s)
<1>1. Len(s) \in Nat
  BY DEF AllFit
<1>2. t \in Seq(Instance) /\ Len(t) = Len(s)
  BY <1>1
<1> QED BY <1>2 DEF AllFit

\* Survivors(old, new, h): every async function of new is one of old, in the same
\* order; h tells which.
Survivors(old, new, h) ==
  /\ h \in [1..Len(new) -> 1..Len(old)]
  /\ \A k, m \in 1..Len(new) : k < m => h[k] < h[m]
  /\ \A k \in 1..Len(new) :
       /\ Became(old[h[k]], new[k], old[h[k]].left, old[h[k]].got, old[h[k]].snap,
                 old[h[k]].wrote, new[k].stray)
       /\ old[h[k]].act = "" => new[k].stray = old[h[k]].stray

Removal(old, new, i, h) ==
  /\ Survivors(old, new, h)
  /\ \A j \in 1..Len(old) \ {i} : \E k \in 1..Len(new) : h[k] = j
  /\ \A k \in 1..Len(new) : h[k] # i /\ new[k] = old[h[k]]

LEMMA RemoveKeepsOrder ==
  ASSUME NEW s \in Seq(Instance), NEW i \in 1..Len(s)
  PROVE  \E h : Removal(s, RemoveAt(s, i), i, h)
<1> DEFINE new == RemoveAt(s, i)
           h   == [k \in 1..Len(new) |-> IF k < i THEN k ELSE k + 1]
<1>1. s \in Seq(Instance) /\ Len(s) \in Nat /\ i \in Nat /\ i >= 1 /\ i <= Len(s)
  OBVIOUS
<1>2. /\ new \in Seq(Instance) /\ Len(new) = Len(s) - 1
      /\ \A k \in 1..(Len(s) - 1) : new[k] = s[IF k < i THEN k ELSE k + 1]
  BY <1>1, RemoveAtElements
<1> HIDE DEF new
<1>3. h \in [1..Len(new) -> 1..Len(s)]
  BY <1>1, <1>2
<1>4. \A k, m \in 1..Len(new) : k < m => h[k] < h[m]
  BY <1>1, <1>2
<1>5. \A k \in 1..Len(new) : h[k] # i
  BY <1>1, <1>2
<1>6. \A k \in 1..Len(new) : new[k] = s[h[k]]
  BY <1>2
<1>7. ASSUME NEW j \in 1..Len(s) \ {i} PROVE \E k \in 1..Len(new) : h[k] = j
  <2>1. CASE j < i
    <3>1. j \in 1..Len(new) /\ h[j] = j
      BY <1>1, <1>2, <2>1
    <3> QED BY <3>1
  <2>2. CASE ~(j < i)
    <3>1. j - 1 \in 1..Len(new) /\ ~(j - 1 < i) /\ (j - 1) + 1 = j
      BY <1>1, <1>2, <2>2
    <3> QED BY <3>1
  <2> QED BY <2>1, <2>2
<1> HIDE DEF h
<1>8. \A k \in 1..Len(new) : s[h[k]] \in Instance
  BY <1>1, <1>3
<1>9. Survivors(s, new, h)
  BY <1>3, <1>4, <1>6, <1>8 DEF Survivors, Became
<1>10. Removal(s, new, i, h)
  BY <1>5, <1>6, <1>7, <1>9 DEF Removal
<1> QED BY <1>10 DEF new

LEMMA RemovedFits ==
  ASSUME NEW p, NEW s, AllFit(s, p), NEW i \in 1..Len(s)
  PROVE  AllFit(RemoveAt(s, i), p)
<1>1. s \in Seq(Instance)
  BY DEF AllFit
<1>2. PICK h : Removal(s, RemoveAt(s, i), i, h)
  BY <1>1, RemoveKeepsOrder
<1>3. RemoveAt(s, i) \in Seq(Instance)
  BY <1>1, RemoveAtElements
<1> QED BY <1>2, <1>3 DEF AllFit, Survivors, Removal

\* The loads of the details are forgotten, everything else goes on.
Details(x) == x.act = "" /\ x.load \in page.details
Unmounting(old, new, h) ==
  /\ Survivors(old, new, h)
  /\ \A i \in 1..Len(old) : ~Details(old[i]) => \E k \in 1..Len(new) : h[k] = i
  /\ \A k \in 1..Len(new) : ~Details(new[k])

LEMMA UnmountKeepsOthers ==
  ASSUME NEW s, AllFit(s, page)
  PROVE  AllFit(Unmount(s), page) /\ \E h : Unmounting(s, Unmount(s), h)
<1> DEFINE kept == {i \in DOMAIN s : s[i].act # "" \/ s[i].load \notin page.details}
           h == [k \in 1..Cardinality(kept) |-> Nth(kept, k)]
           Turn(x) == IF x.act # "" /\ page.acts[x.act].at = "detail"
                      THEN [x EXCEPT !.stray = TRUE, !.busy = ""] ELSE x
           new == Unmount(s)
           n == Cardinality(kept)
<1>1. s \in Seq(Instance) /\ Len(s) \in Nat /\ DOMAIN s = 1..Len(s)
  BY DEF AllFit
<1>2. kept \in SUBSET (1..Len(s))
  BY <1>1
<1>3. /\ n \in Nat /\ h \in [1..n -> kept]
      /\ \A k, m \in 1..n : k < m => h[k] < h[m]
      /\ \A i \in kept : \E k \in 1..n : h[k] = i
  <2> HIDE DEF kept
  <2> QED BY <1>1, <1>2, InOrderOfPosition
<1>4. new = [k \in 1..n |-> Turn(s[h[k]])]
  BY DEF Unmount
<1>5. \A i \in kept : s[i] \in Instance /\ Fits(s[i], page)
  <2> HIDE DEF kept
  <2> QED BY <1>1, <1>2 DEF AllFit
<1>6. ASSUME NEW x \in Instance, Fits(x, page)
      PROVE  /\ Turned(page, x, Turn(x), x.left, x.got, x.snap, x.wrote, Turn(x).stray)
             /\ x.act = "" => Turn(x).stray = x.stray
  <2>1. CASE x.act # "" /\ page.acts[x.act].at = "detail"
    <3>1. Became(x, Turn(x), x.left, x.got, x.snap, x.wrote, TRUE)
      BY <2>1, Deserted
    <3> HIDE DEF Turn
    <3> QED BY <1>6, <2>1, <3>1, MarkedFits DEF Became
  <2>2. CASE ~(x.act # "" /\ page.acts[x.act].at = "detail")
    BY <1>6, <2>2 DEF Turned, Became
  <2> QED BY <2>1, <2>2
<1> HIDE DEF new, h, n, Turn
<1>7. \A k \in 1..n : h[k] \in kept /\ new[k] = Turn(s[h[k]])
  BY <1>3, <1>4
<1>8. \A k \in 1..n :
         /\ Turned(page, s[h[k]], new[k], s[h[k]].left, s[h[k]].got, s[h[k]].snap,
                   s[h[k]].wrote, new[k].stray)
         /\ s[h[k]].act = "" => new[k].stray = s[h[k]].stray
  BY <1>5, <1>6, <1>7
<1>9. new \in Seq(Instance) /\ Len(new) = n
  <2>1. \A k \in 1..n : new[k] \in Instance
    BY <1>8 DEF Turned, Became
  <2>2. n \in Nat /\ new = [k \in 1..n |-> new[k]]
    BY <1>3, <1>4
  <2> QED BY ONLY <2>1, <2>2
<1>10. AllFit(new, page)
  BY <1>8, <1>9 DEF AllFit, Turned
<1>11. Survivors(s, new, h)
  <2>1. h \in [1..Len(new) -> 1..Len(s)]
    BY <1>2, <1>3, <1>9
  <2> HIDE DEF kept
  <2> QED BY <1>3, <1>8, <1>9, <2>1 DEF Survivors, Turned
<1>12. \A i \in 1..Len(s) : ~Details(s[i]) => \E k \in 1..Len(new) : h[k] = i
  BY <1>1, <1>3, <1>9 DEF Details
<1>13. \A k \in 1..Len(new) : ~Details(new[k])
  BY <1>7, <1>8, <1>9 DEF Details, Turned, Became
<1>14. Unmounting(s, new, h)
  BY <1>11, <1>12, <1>13 DEF Unmounting
<1> QED BY <1>10, <1>14 DEF new

(***************************************************************************)
(* What every step of the portal is made of.                               *)
(***************************************************************************)

\* The dialog belongs to a button the row had when it was opened.
DialogFits ==
  \/ dialog = NoDialog
  \/ /\ dialog \in [act : DOMAIN page.acts, saw : AnyStatus, progress : BOOLEAN]
     /\ page.acts[dialog.act].at \in {"dialog", "bar"}
     /\ dialog.saw \in page.acts[dialog.act].on
     /\ dialog.progress => page.acts[dialog.act].follow

Base ==
  /\ role \in Role /\ \E q \in DOMAIN Pages : page = Pages[q]
  /\ row \in Rows(page.kind) /\ shownRow \in Rows(page.kind) \cup {"none"}
  /\ filter \in Filters(page) /\ shownFilter \in Filters(page)
  /\ hidden \in BOOLEAN /\ expanded \in BOOLEAN /\ disturbed \in BOOLEAN
  /\ events \in 0..MaxEvents
  /\ ViewFits(shown, page) /\ AllFit(running, page) /\ DialogFits

LEMMA PageOfThePortal == Base => PageFits(page)
BY PagesFit DEF Base

LEMMA ListIsALoad ==
  ASSUME NEW p, p.list # NoLoad
  PROVE  p.list \in LoadsOf(p)
BY DEF LoadsOf

\* A reload of the list, with or without what is kept.
LEMMA AgainFits ==
  ASSUME PageFits(page), page.list # NoLoad, NEW b \in Text, NEW f \in Filters(page)
  PROVE  /\ Fits(Again(page.list, b, f), page)
         /\ IsLoad(Again(page.list, b, f), page.list, Again(page.list, b, f).left, f)
         /\ \A d \in Reading(page.list) \cap Touched(page) :
              d \in Reading(Again(page.list, b, f).left)
<1> DEFINE l    == page.list
           kept == {c \in page.once : shown[c] # "nothing"}
           left == [n \in DOMAIN l |-> l[n] \ kept]
           x    == Again(l, b, f)
<1>1. l \in LoadsOf(page)
  BY ListIsALoad
<1>2. l \in Stages /\ l # <<>>
  BY <1>1 DEF PageFits, LoadsFit, Stages, NoLoad
<1>3. Len(l) \in Nat \ {0} /\ DOMAIN l = 1..Len(l)
  BY <1>2, StagesOf
<1>4. left \in Stages /\ Len(left) = Len(l) /\ DOMAIN left = 1..Len(l)
  <2>1. \A n \in 1..Len(l) : l[n] \ kept \in SUBSET DOMAIN Api
    BY <1>2, <1>3 DEF Stages
  <2> HIDE DEF kept
  <2> QED BY <1>3, <2>1 DEF Stages
<1>5. x = [Load(l, b, f) EXCEPT !.left = left]
  BY DEF Again
<1>6. \A n \in 1..Len(l) : left[n] = l[n] \ kept
  BY <1>3
<1>7. Touched(page) \cap kept = {}
  BY DEF PageFits, TouchedFits
<1> HIDE DEF left, x, kept, l
<1>8. IsLoad(x, l, left, f)
  BY <1>2, <1>4, <1>5, FilterFacts, ShortenedLoad
<1>9. x.left = left /\ left # <<>>
  BY <1>3, <1>4, <1>8 DEF IsLoad
<1>10. Reading(left) \subseteq Reading(l)
  BY <1>3, <1>4, <1>6 DEF Reading
<1>11. ASSUME NEW d \in Reading(l) \cap Touched(page)
       PROVE  d \in left[Len(left)] /\ \A n \in 1..(Len(left) - 1) : d \notin left[n]
  <2>1. d \in l[Len(l)] /\ \A n \in 1..(Len(l) - 1) : d \notin l[n]
    BY <1>1 DEF PageFits, TouchedFits
  <2>2. Len(l) \in 1..Len(l) /\ \A n \in 1..(Len(l) - 1) : n \in 1..Len(l)
    BY <1>3
  <2>3. d \notin kept
    BY <1>7
  <2> QED BY <1>4, <1>6, <2>1, <2>2, <2>3
<1>15. Len(left) <= Len(l)
  BY ONLY <1>3, <1>4
<1>12. LoadFor(x, page)
  BY <1>1, <1>8, <1>10, <1>11, <1>15, NoAnswersYet DEF IsLoad, LoadFor
<1>13. Fits(x, page)
  BY <1>8, <1>9, <1>12, NoAnswersYet DEF IsLoad, Fits
<1>14. \A d \in Reading(l) \cap Touched(page) : d \in Reading(left)
  <2>1. Len(left) \in DOMAIN left
    BY <1>3, <1>4
  <2> QED BY <1>11, <2>1 DEF Reading
<1> QED BY <1>8, <1>9, <1>13, <1>14 DEF x, l

LEMMA ForgottenView ==
  ASSUME NEW view, ViewFits(view, page)
  PROVE  ViewFits(Forget(view), page)
BY DEF ViewFits, Forget

LEMMA StartListFits ==
  ASSUME PageFits(page), page.list # NoLoad, NEW seq, AllFit(seq, page),
         NEW view, ViewFits(view, page), NEW b \in Text, NEW f \in Filters(page), NEW hide,
         StartList(seq, view, b, f, hide)
  PROVE  AllFit(running', page) /\ ViewFits(shown', page) /\ hidden' \in BOOLEAN
<1> DEFINE x   == Again(page.list, b, f)
           all == Append(seq, x)
<1>1. x \in Instance /\ Fits(x, page)
  BY AgainFits DEF IsLoad
<1> HIDE DEF x
<1>2. AllFit(all, page)
  BY <1>1, AppendedFits
<1>3. AllFit(Unmount(all), page)
  BY <1>2, UnmountKeepsOthers
<1>4. /\ hidden' = (hidden \/ hide)
      /\ running' = IF hide THEN Unmount(all) ELSE all
      /\ shown' = IF hide THEN Forget(view) ELSE view
  BY DEF StartList, x
<1> HIDE DEF all
<1> QED BY <1>2, <1>3, <1>4, ForgottenView

LEMMA MountedFits ==
  ASSUME PageFits(page)
  PROVE  AllFit(MountDetails, page)
<1>1. page.details \in SUBSET LoadsOf(page) /\ IsFiniteSet(page.details) /\ "" \in Text
  BY DEF PageFits, LoadsFit, LoadsOf, Text
<1> QED BY <1>1, StartedLoads DEF MountDetails

LEMMA ShowListFits ==
  ASSUME PageFits(page), NEW seq, AllFit(seq, page), ShowList(seq)
  PROVE  AllFit(running', page) /\ hidden' = FALSE
BY MountedFits, JoinedFits DEF ShowList

\* The end of an act that has reached its last call, or its catch.
\* An act starts the loads of `then' at its end, those of `recover', or none.
EndingLoads(a) == {{}, page.acts[a].then, page.acts[a].recover}

LEMMA EndingLoadsFit ==
  ASSUME PageFits(page), NEW a \in DOMAIN page.acts, NEW loads \in EndingLoads(a)
  PROVE  /\ loads \in SUBSET LoadsOf(page) /\ IsFiniteSet(loads)
         /\ page.list \in loads => loads = {page.list}
<1>1. CASE loads = {}
  BY <1>1, FS_EmptySet
<1>2. CASE loads \in {page.acts[a].then, page.acts[a].recover}
  BY <1>2 DEF PageFits, ActFits
<1> QED BY <1>1, <1>2 DEF EndingLoads

LEMMA ReloadsAreEndingLoads ==
  ASSUME NEW i
  PROVE  /\ Reloads(i) \in EndingLoads(running[i].act)
         /\ page.acts[running[i].act].recover \in EndingLoads(running[i].act)
BY DEF Reloads, EndingLoads

LEMMA EndFits ==
  ASSUME Base, NEW i \in 1..Len(running), running[i].act # "",
         NEW seq, AllFit(seq, page), Len(seq) = Len(running),
         NEW view, ViewFits(view, page),
         NEW loads \in EndingLoads(running[i].act),
         End(seq, view, i, loads)
  PROVE  AllFit(running', page) /\ ViewFits(shown', page) /\ hidden' \in BOOLEAN
<1> DEFINE act  == page.acts[running[i].act]
           busy == IF act.awaits THEN running[i].busy ELSE ""
           rest == RemoveAt(seq, i)
<1>1. PageFits(page) /\ running[i] \in Instance /\ running[i].act \in DOMAIN page.acts
  <2>1. running[i] \in Instance /\ Fits(running[i], page)
    BY OneOfAll DEF Base
  <2> QED BY <2>1, PageOfThePortal DEF Fits, ActFor
<1>2. busy \in Text
  BY <1>1 DEF Instance, Text
<1>3. loads \in SUBSET LoadsOf(page) /\ IsFiniteSet(loads)
  <2>1. loads \in EndingLoads(running[i].act)
    OBVIOUS
  <2> QED BY ONLY <1>1, <2>1, EndingLoadsFit
<1>4. AllFit(rest, page)
  BY RemovedFits
<1>5. running[i].filter \in Filters(page)
  BY OneOfAll DEF Base, Fits
<1> HIDE DEF busy, rest
<1>6. CASE page.list \in loads /\ page.list # NoLoad
  <2>1. StartList(rest, view, busy, running[i].filter, page.hides)
    BY <1>6 DEF End, rest, busy
  <2> QED BY <1>1, <1>2, <1>4, <1>5, <1>6, <2>1, StartListFits
<1>7. CASE ~(page.list \in loads /\ page.list # NoLoad)
  <2>1. /\ running' = rest \o IF running[i].stray THEN <<>> ELSE Started(loads, busy)
        /\ shown' = view /\ hidden' = hidden
    BY <1>7 DEF End, rest, busy
  <2>2. AllFit(<<>>, page) /\ AllFit(Started(loads, busy), page)
    BY <1>1, <1>2, <1>3, NoneFits, StartedLoads
  <2>3. AllFit(running', page)
    BY <1>4, <2>1, <2>2, JoinedFits
  <2> QED BY <2>1, <2>3 DEF Base
<1> QED BY <1>6, <1>7

\* Answers under way and on the screen go out of date.
LEMMA OutdatedFits ==
  ASSUME PageFits(page), AllFit(running, page), NEW a \in DOMAIN page.acts,
         NEW c \in Reading(page.acts[a].does)
  PROVE  /\ AllFit(Outdated(c), page) /\ Len(Outdated(c)) = Len(running)
         /\ \A j \in 1..Len(running) :
              Became(running[j], Outdated(c)[j], running[j].left,
                     [d \in DOMAIN running[j].got |->
                        IF Touches(c, d) THEN "stale" ELSE running[j].got[d]],
                     running[j].snap, running[j].wrote, running[j].stray)
<1>1. DOMAIN running = 1..Len(running) /\ Outdated(c) = [j \in 1..Len(running) |-> Outdated(c)[j]]
  BY DEF AllFit, Outdated
<1>2. ASSUME NEW j \in 1..Len(running)
      PROVE  Turned(page, running[j], Outdated(c)[j], running[j].left,
                    [d \in DOMAIN running[j].got |->
                        IF Touches(c, d) THEN "stale" ELSE running[j].got[d]],
                    running[j].snap, running[j].wrote, running[j].stray)
  <2>1. running[j] \in Instance /\ Fits(running[j], page)
    BY DEF AllFit
  <2> DEFINE got == [d \in DOMAIN running[j].got |->
                        IF Touches(c, d) THEN "stale" ELSE running[j].got[d]]
  <2>2. Turned(page, running[j], [running[j] EXCEPT !.got = got], running[j].left, got,
               running[j].snap, running[j].wrote, running[j].stray)
    <3> HIDE DEF got
    <3>1. got = [d \in DOMAIN running[j].got |->
                        IF Touches(c, d) THEN "stale" ELSE running[j].got[d]]
      BY DEF got
    <3> QED BY <2>1, <3>1, RevisedFits
  <2>3. Outdated(c)[j] = [running[j] EXCEPT !.got = got]
    BY <1>1 DEF Outdated
  <2> QED BY <2>2, <2>3
<1>3. AllFit(Outdated(c), page) /\ Len(Outdated(c)) = Len(running)
  <2>1. \A j \in 1..Len(running) : Outdated(c)[j] \in Instance /\ Fits(Outdated(c)[j], page)
    BY <1>2 DEF Turned, Became
  <2> QED BY <1>1, <2>1, ChangedFits
<1> QED BY <1>2, <1>3 DEF Turned

LEMMA OverwrittenFits ==
  ASSUME AllFit(running, page), ViewFits(shown, page), NEW i \in 1..Len(running),
         running[i].act # "", NEW c \in Reading(page.acts[running[i].act].does)
  PROVE  ViewFits(Overwritten(i, c), page)
<1>1. running[i].act \in DOMAIN page.acts
  BY DEF AllFit, Fits, ActFor
<1>2. \A d \in CallsOf(page) : Touches(c, d) => d \in Touched(page)
  <2> TAKE d \in CallsOf(page)
  <2>1. Touches(c, d) => d \in TouchedBy(page, running[i].act)
    BY DEF TouchedBy
  <2> QED BY <1>1, <2>1 DEF Touched
<1> QED BY <1>2 DEF ViewFits, Overwritten

(***************************************************************************)
(* Type correctness.                                                       *)
(***************************************************************************)

LEMMA StayOnPage ==
  ASSUME Base, role' = role, page' = page,
         row' \in Rows(page.kind), shownRow' \in Rows(page.kind) \cup {"none"},
         filter' \in Filters(page), shownFilter' \in Filters(page),
         hidden' \in BOOLEAN, expanded' \in BOOLEAN, disturbed' \in BOOLEAN,
         events' \in 0..MaxEvents, DialogFits',
         AllFit(running', page), ViewFits(shown', page)
  PROVE  Base'
BY DEF Base

LEMMA OpeningIsFinite ==
  ASSUME NEW q \in DOMAIN Pages
  PROVE  Opening(Pages[q]) \in SUBSET LoadsOf(Pages[q]) /\ IsFiniteSet(Opening(Pages[q]))
<1>1. PageFits(Pages[q])
  BY PagesFit
<1>2. Opening(Pages[q]) \in SUBSET LoadsOf(Pages[q])
  BY DEF Opening, LoadsOf
<1>3. IsFiniteSet(Opening(Pages[q]))
  <2>1. IsFiniteSet(Pages[q].others)
    BY <1>1 DEF PageFits, LoadsFit
  <2>2. PICK x : Opening(Pages[q]) = Pages[q].others \cup ({x} \ {NoLoad})
    BY DEF Opening
  <2>3. IsFiniteSet({x} \ {NoLoad})
    <3>1. IsFiniteSet({x}) /\ {x} \ {NoLoad} \in SUBSET {x}
      BY FS_Singleton
    <3> QED BY <3>1, FS_Subset
  <2>4. IsFiniteSet(Pages[q].others \cup ({x} \ {NoLoad}))
    BY <2>1, <2>3, FS_Union
  <2> QED BY <2>2, <2>4
<1> QED BY <1>2, <1>3

LEMMA BlankFits ==
  ASSUME NEW q \in DOMAIN Pages, NEW r
  PROVE  /\ Blank(q, r).page = Pages[q] /\ Blank(q, r).row = r
         /\ AllFit(Blank(q, r).running, Pages[q])
         /\ ViewFits(Blank(q, r).shown, Pages[q])
         /\ Blank(q, r).hidden \in BOOLEAN
<1>1. PageFits(Pages[q])
  BY PagesFit
<1>3. Opening(Pages[q]) \in SUBSET LoadsOf(Pages[q]) /\ IsFiniteSet(Opening(Pages[q]))
  BY OpeningIsFinite
<1>4. AllFit(Started(Opening(Pages[q]), ""), Pages[q])
  BY <1>1, <1>3, StartedLoads DEF Text
<1>5. AllFit(Blank(q, r).running, Pages[q])
  BY <1>4, NoneFits DEF Blank
<1>6. ViewFits(Blank(q, r).shown, Pages[q])
  BY DEF Blank, ViewFits
<1> QED BY <1>5, <1>6 DEF Blank

LEMMA InitBase == Init => Base
<1> SUFFICES ASSUME Init PROVE Base
  OBVIOUS
<1>0. PICK q \in DOMAIN Pages : \E r \in Rows(Pages[q].kind) :
        /\ page = Blank(q, r).page /\ row = Blank(q, r).row /\ shown = Blank(q, r).shown
        /\ hidden = Blank(q, r).hidden /\ running = Blank(q, r).running
        /\ expanded = Pages[q].spread
  BY DEF Init
<1>1. PICK r \in Rows(Pages[q].kind) :
        /\ page = Blank(q, r).page /\ row = Blank(q, r).row /\ shown = Blank(q, r).shown
        /\ hidden = Blank(q, r).hidden /\ running = Blank(q, r).running
        /\ expanded = Pages[q].spread
  BY <1>0
<1>2. PageFits(Pages[q])
  BY PagesFit
<1>3. /\ page = Pages[q] /\ row = r /\ AllFit(running, page) /\ ViewFits(shown, page)
      /\ hidden \in BOOLEAN
  BY <1>1, BlankFits
<1>4. expanded \in BOOLEAN
  BY <1>1, <1>2 DEF PageFits, LoadsFit
<1>5. 0 \in 0..MaxEvents /\ 0 \in Filters(page)
  BY BoundsAssumption, FilterFacts
<1> QED BY <1>3, <1>4, <1>5 DEF Init, Base, DialogFits

LEMMA ArriveBase ==
  ASSUME Base, NEW q, Arrive(q)
  PROVE  Base'
<1>1. PICK r \in Rows(Pages[q].kind) :
        /\ page' = Blank(q, r).page /\ row' = Blank(q, r).row /\ shown' = Blank(q, r).shown
        /\ hidden' = Blank(q, r).hidden /\ running' = Blank(q, r).running
  BY DEF Arrive
<1>2. q \in DOMAIN Pages /\ PageFits(Pages[q])
  BY PagesFit DEF Arrive
<1>3. /\ page' = Pages[q] /\ row' = r /\ AllFit(running', Pages[q])
      /\ ViewFits(shown', Pages[q]) /\ hidden' \in BOOLEAN
  BY <1>1, <1>2, BlankFits
<1>4. expanded' \in BOOLEAN
  BY <1>2 DEF Arrive, PageFits, LoadsFit
<1>5. 0 \in 0..MaxEvents /\ 0 \in Filters(Pages[q])
  BY BoundsAssumption, FilterFacts
<1>6. /\ role' = role /\ shownRow' = "none" /\ filter' = 0 /\ shownFilter' = 0
      /\ dialog' = NoDialog /\ disturbed' = FALSE /\ events' = 0
  BY DEF Arrive
<1> QED BY <1>2, <1>3, <1>4, <1>5, <1>6 DEF Base, DialogFits

\* An act that starts on a row which shows its button.
LEMMA NewAct ==
  ASSUME Base, NEW a \in DOMAIN page.acts, NEW saw \in AnyStatus,
         page.acts[a].at = "form" \/ saw \in page.acts[a].on
  PROVE  /\ ActOn(a, saw) \in Instance /\ Fits(ActOn(a, saw), page)
         /\ ActOn(a, saw).act = a /\ ActOn(a, saw).wrote = FALSE
         /\ ActOn(a, saw).filter = filter
<1> DEFINE does == page.acts[a].does
           busy == page.acts[a].busy
           x == ActOn(a, saw)
<1>1. /\ does \in Stages /\ does # <<>> /\ busy \in Text
      /\ a \in Text /\ a # "" /\ filter \in Choice /\ filter \in Filters(page)
  BY PageOfThePortal, FilterFacts DEF PageFits, ActFits, Stages, Text, Base
<1>2. x = [Load(does, busy, filter) EXCEPT !.act = a, !.saw = saw]
  BY DEF ActOn
<1> HIDE DEF x, does, busy
<1>3. /\ x \in Instance /\ x.act = a /\ x.left = does /\ x.got = NoAnswers /\ x.snap = "none"
      /\ x.saw = saw /\ x.wrote = FALSE /\ x.filter = filter
  BY <1>1, <1>2, NoAnswersYet, NoneIsAStatus DEF Load, Instance
<1>4. Fits(x, page)
  BY <1>1, <1>3, NoAnswersYet DEF Fits, ActFor, does
<1> QED BY <1>3, <1>4 DEF x

LEMMA ShownStatus ==
  ASSUME Base
  PROVE  row \in AnyStatus /\ shownRow \in AnyStatus /\ Rows(page.kind) \subseteq AnyStatus
BY PageOfThePortal, NoneIsAStatus DEF Base, PageFits, RowsFit

LEMMA OpenDialogBase ==
  ASSUME Base, NEW a \in DOMAIN page.acts, OpenDialog(a)
  PROVE  Base'
<1>1. DialogFits'
  BY ShownStatus DEF OpenDialog, DialogFits, NoDialog
<1> QED BY <1>1 DEF OpenDialog, Base

LEMMA CloseDialogBase ==
  ASSUME Base, CloseDialog
  PROVE  Base'
<1>1. DialogFits'
  BY DEF CloseDialog, DialogFits
<1> QED BY <1>1 DEF CloseDialog, Base

LEMMA EventCounted ==
  ASSUME Base, events < MaxEvents
  PROVE  events + 1 \in 0..MaxEvents
BY BoundsAssumption DEF Base

\* A dialog that shows the progress of an act is going to reload the list.
LEMMA FollowedList ==
  ASSUME Base, dialog.progress
  PROVE  /\ PageFits(page) /\ page.list # NoLoad /\ ~Painted(page)
         /\ dialog.act \in DOMAIN page.acts /\ page.acts[dialog.act].follow
         /\ page.acts[dialog.act].then = {page.list}
<1>1. /\ dialog.act \in DOMAIN page.acts /\ page.acts[dialog.act].follow
      /\ page.acts[dialog.act].at \in {"dialog", "bar"}
  <2>1. DialogFits
    BY DEF Base
  <2>2. dialog # NoDialog
    <3>1. ~NoDialog.progress
      BY DEF NoDialog
    <3>2. dialog.progress
      OBVIOUS
    <3> QED BY ONLY <3>1, <3>2
  <2>3. dialog \in [act : DOMAIN page.acts, saw : AnyStatus, progress : BOOLEAN]
    BY <2>1, <2>2 DEF DialogFits
  <2>4. /\ page.acts[dialog.act].at \in {"dialog", "bar"}
        /\ dialog.progress => page.acts[dialog.act].follow
    BY <2>1, <2>2 DEF DialogFits
  <2>5. dialog.act \in DOMAIN page.acts
    BY ONLY <2>3
  <2> QED BY <2>4, <2>5
<1>2. PageFits(page) /\ page.acts[dialog.act].then = {page.list}
  BY <1>1, PageOfThePortal DEF PageFits, ActFits
<1>3. ~Painted(page)
  BY <1>1, <1>2 DEF PageFits, PaintsFit
<1>4. page.list \in LoadsOf(page) /\ NoLoad \notin LoadsOf(page)
  BY <1>1, <1>2 DEF PageFits, ActFits, LoadsFit, LoadsOf
<1> QED BY <1>1, <1>2, <1>3, <1>4

LEMMA ConfirmBase ==
  ASSUME Base, Confirm
  PROVE  Base'
<1>1. /\ dialog.act \in DOMAIN page.acts
      /\ dialog.saw \in page.acts[dialog.act].on \cap AnyStatus
      /\ page.acts[dialog.act].follow \in BOOLEAN
  BY PageOfThePortal DEF Base, DialogFits, Confirm, PageFits, ActFits
<1>2. AllFit(running', page)
  <2>1. /\ ActOn(dialog.act, dialog.saw) \in Instance
        /\ Fits(ActOn(dialog.act, dialog.saw), page)
    BY <1>1, NewAct
  <2> QED BY <2>1, AppendedFits DEF Confirm, Base
<1>3. events' \in 0..MaxEvents
  BY EventCounted DEF Confirm
<1>4. DialogFits'
  BY <1>1 DEF Base, DialogFits, Confirm
<1> QED BY <1>2, <1>3, <1>4 DEF Confirm, Base

LEMMA PressBase ==
  ASSUME Base, NEW a \in DOMAIN page.acts, Press(a)
  PROVE  Base'
<1>1. page.acts[a].at = "form" \/ shownRow \in page.acts[a].on
  BY DEF Press
<1>2. AllFit(running', page)
  <2>1. ActOn(a, shownRow) \in Instance /\ Fits(ActOn(a, shownRow), page)
    BY <1>1, ShownStatus, NewAct
  <2> QED BY <2>1, AppendedFits DEF Press, Base
<1>3. events' \in 0..MaxEvents
  BY EventCounted DEF Press, Click
<1>4. DialogFits'
  BY DEF Base, DialogFits, Press, Click
<1>5. ViewFits(shown', page)
  BY DEF Press, Paint, ViewFits, Base
<1> QED BY <1>2, <1>3, <1>4, <1>5 DEF Press, Click, Base

LEMMA RefreshBase ==
  ASSUME Base, Refresh
  PROVE  Base'
<1>1. PageFits(page) /\ page.list # NoLoad
  BY PageOfThePortal DEF PageFits, LoadsFit, Refresh
<1>2. AllFit(running', page) /\ ViewFits(shown', page) /\ hidden' \in BOOLEAN
  <2>1. filter \in Filters(page) /\ "" \in Text /\ AllFit(running, page) /\ ViewFits(shown, page)
    BY DEF Base, Text
  <2>2. StartList(running, shown, "", filter, page.hides)
    BY DEF Refresh
  <2> QED BY <1>1, <2>1, <2>2, StartListFits
<1>3. events' \in 0..MaxEvents
  BY EventCounted DEF Refresh, Click
<1>4. DialogFits'
  BY DEF Base, DialogFits, Refresh, Click
<1> QED BY <1>2, <1>3, <1>4 DEF Refresh, Click, Base

LEMMA CloseProgressBase ==
  ASSUME Base, CloseProgress
  PROVE  Base'
<1>1. PageFits(page) /\ page.list # NoLoad
  BY FollowedList DEF CloseProgress
<1>2. AllFit(running', page) /\ ViewFits(shown', page) /\ hidden' \in BOOLEAN
  <2>1. filter \in Filters(page) /\ "" \in Text /\ AllFit(running, page) /\ ViewFits(shown, page)
    BY DEF Base, Text
  <2>2. StartList(running, shown, "", filter, page.hides)
    BY DEF CloseProgress
  <2> QED BY <1>1, <2>1, <2>2, StartListFits
<1>3. DialogFits'
  BY DEF DialogFits, CloseProgress
<1> QED BY <1>2, <1>3 DEF CloseProgress, Base

LEMMA ChangeFilterBase ==
  ASSUME Base, ChangeFilter
  PROVE  Base'
<1>1. PageFits(page) /\ page.list # NoLoad
  BY PageOfThePortal DEF PageFits, LoadsFit, ChangeFilter
<1>0. filter' \in Filters(page) /\ 1 - filter \in Filters(page)
  <2>1. \A f \in Filters(page) : 1 - f \in Filters(page)
    BY FilterFacts DEF ChangeFilter
  <2>2. filter \in Filters(page) /\ filter' = 1 - filter
    BY DEF Base, ChangeFilter
  <2> QED BY <2>1, <2>2
<1>2. AllFit(running', page) /\ ViewFits(shown', page) /\ hidden' \in BOOLEAN
  <2>1. "" \in Text /\ AllFit(running, page) /\ ViewFits(shown, page)
    BY DEF Base, Text
  <2>2. StartList(running, shown, "", 1 - filter, TRUE)
    BY DEF ChangeFilter
  <2> QED BY <1>0, <1>1, <2>1, <2>2, StartListFits
<1>3. events' \in 0..MaxEvents
  BY EventCounted DEF ChangeFilter, Click
<1>4. DialogFits'
  BY DEF Base, DialogFits, ChangeFilter, Click
<1> QED BY <1>0, <1>2, <1>3, <1>4 DEF ChangeFilter, Click, Base

LEMMA ToggleBase ==
  ASSUME Base, Toggle
  PROVE  Base'
<1>1. AllFit(running', page) /\ ViewFits(shown', page)
  <2>1. AllFit(running, page) /\ ViewFits(shown, page)
    BY DEF Base
  <2>2. CASE expanded
    BY <2>1, <2>2, UnmountKeepsOthers, ForgottenView DEF Toggle
  <2>3. CASE ~expanded
    BY <2>1, <2>3, PageOfThePortal, MountedFits, JoinedFits DEF Toggle
  <2> QED BY <2>2, <2>3
<1>3. events' \in 0..MaxEvents
  BY EventCounted DEF Toggle, Click
<1>4. DialogFits'
  BY DEF Base, DialogFits, Toggle, Click
<1> QED BY <1>1, <1>3, <1>4 DEF Toggle, Click, Base

LEMMA OthersMoveBase ==
  ASSUME Base, NEW c \in DOMAIN Moves, OthersMove(c)
  PROVE  Base'
<1>1. row' \in Rows(page.kind)
  <2>1. page.kind # "none"
    BY DEF OthersMove, Base, Rows
  <2>2. Moves[c].to # Unchanged /\ row' = Moves[c].to
    BY DEF OthersMove, After
  <2> QED BY <2>1, <2>2 DEF OthersMove, Rows
<1>2. events' \in 0..MaxEvents
  BY EventCounted DEF OthersMove
<1>3. DialogFits'
  BY DEF Base, DialogFits, OthersMove
<1> QED BY <1>1, <1>2, <1>3 DEF OthersMove, Base

\* The position of an async function, the function and the call it waits for.
LEMMA Waiting ==
  ASSUME Base, NEW i \in DOMAIN running
  PROVE  /\ i \in 1..Len(running) /\ DOMAIN running = 1..Len(running)
         /\ running[i] \in Instance /\ Fits(running[i], page)
         /\ running[i].left \in Stages /\ running[i].left # <<>>
         /\ running[i].act # "" => running[i].act \in DOMAIN page.acts
         /\ \A c \in Head(running[i].left) :
              /\ c \in Reading(running[i].left)
              /\ running[i].act # "" => c \in Reading(page.acts[running[i].act].does)
<1>1. i \in 1..Len(running) /\ DOMAIN running = 1..Len(running)
  BY DEF Base, AllFit
<1>2. running[i] \in Instance /\ Fits(running[i], page)
  BY <1>1, OneOfAll DEF Base
<1>3. running[i].left \in Stages /\ running[i].left # <<>>
  BY <1>2 DEF Instance, Fits
<1>4. Head(running[i].left) \subseteq Reading(running[i].left)
  BY <1>3, StagesOf
<1> QED BY <1>1, <1>2, <1>3, <1>4 DEF Fits, ActFor

LEMMA MovedRow ==
  ASSUME Base, NEW a \in DOMAIN page.acts, NEW c \in Reading(page.acts[a].does)
  PROVE  After(c, row) \in Rows(page.kind)
BY PageOfThePortal DEF Base, PageFits, RowsFit

LEMMA ReplacedFits ==
  ASSUME NEW p, NEW s, AllFit(s, p), NEW i \in 1..Len(s), NEW y \in Instance, Fits(y, p)
  PROVE  AllFit([s EXCEPT ![i] = y], p)
<1> DEFINE t == [s EXCEPT ![i] = y]
<1>1. s \in Seq(Instance) /\ DOMAIN s = 1..Len(s)
  BY DEF AllFit
<1>2. \A k \in 1..Len(s) : t[k] = IF k = i THEN y ELSE s[k]
  BY <1>1
<1>3. DOMAIN t = 1..Len(s) /\ t = [k \in 1..Len(s) |-> t[k]]
  BY <1>1
<1> HIDE DEF t
<1>4. AllFit(t, p)
  BY <1>1, <1>2, <1>3, ChangedFits DEF AllFit
<1> QED BY <1>4 DEF t

LEMMA ServeReadBase ==
  ASSUME Base, NEW i \in DOMAIN running, NEW c \in Head(running[i].left), ServeRead(i, c)
  PROVE  Base'
<1> DEFINE x    == running[i]
           got  == [d \in DOMAIN x.got \cup {c} |-> IF d = c THEN "fresh" ELSE x.got[d]]
           snap == IF ShowsRow(c) THEN row ELSE x.snap
<1>1. PageFits(page) /\ x \in Instance /\ Fits(x, page) /\ x.act = "" /\ i \in 1..Len(running)
  BY PageOfThePortal, Waiting DEF ServeRead
<1>2. snap \in Rows(page.kind) \cup {"none"}
  BY <1>1 DEF Base, Fits
<1>3. WithAnswer(x, c) = [x EXCEPT !.got = got, !.snap = snap]
  BY DEF WithAnswer
<1>4. WithAnswer(x, c) \in Instance /\ Fits(WithAnswer(x, c), page)
  <2> HIDE DEF snap
  <2>1. Turned(page, x, [x EXCEPT !.got = got, !.snap = snap], x.left, got, snap,
               x.wrote, x.stray)
    BY <1>1, <1>2, AnsweredFits
  <2> QED BY <1>3, <2>1 DEF Turned, Became
<1>5. AllFit(running', page)
  BY <1>1, <1>4, ReplacedFits DEF ServeRead, Base
<1>6. DialogFits'
  BY DEF Base, DialogFits, ServeRead, Unmoved
<1> QED BY <1>5, <1>6 DEF ServeRead, Unmoved, Base

LEMMA ServeStepBase ==
  ASSUME Base, NEW i \in DOMAIN running, NEW c \in Head(running[i].left), ServeStep(i, c)
  PROVE  Base'
<1> DEFINE x == running[i]
           y == Outdated(c)[i]
<1>1. /\ PageFits(page) /\ x \in Instance /\ Fits(x, page) /\ x.act # "" /\ i \in 1..Len(running)
      /\ x.act \in DOMAIN page.acts /\ c \in Reading(page.acts[x.act].does) /\ Len(x.left) > 1
  BY PageOfThePortal, Waiting DEF ServeStep, Served
<1>2. /\ AllFit(Outdated(c), page) /\ Len(Outdated(c)) = Len(running)
      /\ y \in Instance /\ y.act = x.act /\ y.left = x.left
  BY <1>1, OutdatedFits DEF Base, Became
<1>3. WithCallDone(y) = [y EXCEPT !.left = Tail(y.left), !.wrote = TRUE]
  BY DEF WithCallDone
<1>4. Fits(y, page) /\ y.act # "" /\ Len(y.left) > 1
  BY <1>1, <1>2 DEF AllFit
<1> HIDE DEF y
<1>5. WithCallDone(y) \in Instance /\ Fits(WithCallDone(y), page)
  <2>1. Turned(page, y, [y EXCEPT !.left = Tail(y.left), !.wrote = TRUE],
               Tail(y.left), y.got, y.snap, TRUE, y.stray)
    BY <1>2, <1>4, CallDoneFits
  <2> QED BY <1>3, <2>1 DEF Turned, Became
<1>6. AllFit(running', page)
  BY <1>1, <1>2, <1>5, ReplacedFits DEF ServeStep, y
<1>7. ViewFits(shown', page)
  BY <1>1, OverwrittenFits DEF ServeStep, Base
<1>8. row' \in Rows(page.kind)
  BY <1>1, MovedRow DEF ServeStep
<1>9. DialogFits'
  BY DEF Base, DialogFits, ServeStep, Unmoved
<1> QED BY <1>6, <1>7, <1>8, <1>9 DEF ServeStep, Unmoved, Base

LEMMA SucceedBase ==
  ASSUME Base, NEW i \in DOMAIN running, NEW c \in Head(running[i].left), Succeed(i, c)
  PROVE  Base'
<1> DEFINE x == running[i]
<1>1. /\ PageFits(page) /\ x.act # "" /\ i \in 1..Len(running)
      /\ x.act \in DOMAIN page.acts /\ c \in Reading(page.acts[x.act].does)
  BY PageOfThePortal, Waiting DEF Succeed, Served
<1>2. AllFit(Outdated(c), page) /\ Len(Outdated(c)) = Len(running)
  BY <1>1, OutdatedFits DEF Base
<1>3. ViewFits(Overwritten(i, c), page)
  BY <1>1, OverwrittenFits DEF Base
<1>4. AllFit(running', page) /\ ViewFits(shown', page) /\ hidden' \in BOOLEAN
  BY <1>1, <1>2, <1>3, EndFits, ReloadsAreEndingLoads DEF Succeed
<1>5. row' \in Rows(page.kind)
  BY <1>1, MovedRow DEF Succeed
<1>6. DialogFits'
  BY DEF Base, DialogFits, Succeed, Unmoved
<1>7. disturbed' \in BOOLEAN
  BY DEF Succeed
<1> QED BY <1>4, <1>5, <1>6, <1>7 DEF Succeed, Unmoved, Base

LEMMA FailActBase ==
  ASSUME Base, NEW i \in DOMAIN running, FailAct(i)
  PROVE  Base'
<1>1. i \in 1..Len(running) /\ AllFit(running, page) /\ ViewFits(shown, page)
  BY Waiting DEF Base
<1>2. AllFit(running', page) /\ ViewFits(shown', page) /\ hidden' \in BOOLEAN
  BY <1>1, EndFits, ReloadsAreEndingLoads DEF FailAct
<1>3. DialogFits'
  BY DEF Base, DialogFits, FailAct, Unmoved
<1> QED BY <1>2, <1>3 DEF FailAct, Unmoved, Base

LEMMA LoseAnswerBase ==
  ASSUME Base, NEW i \in DOMAIN running, NEW c \in Head(running[i].left), LoseAnswer(i, c)
  PROVE  Base'
<1> DEFINE x == running[i]
<1>1. /\ PageFits(page) /\ x.act # "" /\ i \in 1..Len(running)
      /\ x.act \in DOMAIN page.acts /\ c \in Reading(page.acts[x.act].does)
  BY PageOfThePortal, Waiting DEF LoseAnswer, Served
<1>2. AllFit(Outdated(c), page) /\ Len(Outdated(c)) = Len(running)
  BY <1>1, OutdatedFits DEF Base
<1>3. ViewFits(Overwritten(i, c), page)
  BY <1>1, OverwrittenFits DEF Base
<1>4. AllFit(running', page) /\ ViewFits(shown', page) /\ hidden' \in BOOLEAN
  BY <1>1, <1>2, <1>3, EndFits, ReloadsAreEndingLoads DEF LoseAnswer
<1>5. row' \in Rows(page.kind)
  BY <1>1, MovedRow DEF LoseAnswer
<1>6. DialogFits'
  BY DEF Base, DialogFits, LoseAnswer, Unmoved
<1> QED BY <1>4, <1>5, <1>6 DEF LoseAnswer, Unmoved, Base

LEMMA FailLoadBase ==
  ASSUME Base, NEW i \in DOMAIN running, FailLoad(i)
  PROVE  Base'
<1>1. PageFits(page) /\ AllFit(RemoveAt(running, i), page)
  BY PageOfThePortal, Waiting, RemovedFits DEF Base
<1>2. AllFit(running', page) /\ hidden' \in BOOLEAN
  BY <1>1, ShowListFits DEF FailLoad, Base
<1>3. DialogFits'
  BY DEF Base, DialogFits, FailLoad, Unmoved
<1> QED BY <1>2, <1>3 DEF FailLoad, Unmoved, Base

LEMMA LandEmptyBase ==
  ASSUME Base, NEW i \in DOMAIN running, LandEmpty(i)
  PROVE  Base'
<1>1. AllFit(RemoveAt(running, i), page)
  BY Waiting, RemovedFits DEF Base
<1>2. DialogFits'
  BY DEF Base, DialogFits, LandEmpty, Unmoved
<1> QED BY <1>1, <1>2 DEF LandEmpty, Unmoved, Base

LEMMA EndEarlyBase ==
  ASSUME Base, NEW i \in DOMAIN running, EndEarly(i)
  PROVE  Base'
<1>1. PageFits(page) /\ AllFit(RemoveAt(running, i), page)
  BY PageOfThePortal, Waiting, RemovedFits DEF Base
<1>2. AllFit(running', page) /\ hidden' \in BOOLEAN
  BY <1>1, ShowListFits DEF EndEarly
<1>3. DialogFits'
  BY DEF Base, DialogFits, EndEarly, Unmoved
<1> QED BY <1>2, <1>3 DEF EndEarly, Unmoved, Base

\* A load whose stage has landed is removed when it was the last one; the older
\* ones of its kind have been overtaken.
LEMMA LandedFits ==
  ASSUME Base, NEW i \in DOMAIN running, running[i].act = ""
  PROVE  /\ Len(Landed(i)) = Len(running) /\ Landed(i) \in Seq(Instance)
         /\ \A j \in 1..Len(running) : j # i =>
              /\ Fits(Landed(i)[j], page)
              /\ Became(running[j], Landed(i)[j], running[j].left, running[j].got,
                        running[j].snap, running[j].wrote, Landed(i)[j].stray)
              /\ Landed(i)[j].stray = IF j \in Older(i) THEN TRUE ELSE running[j].stray
         /\ Became(running[i], Landed(i)[i], Tail(running[i].left), NoAnswers, running[i].snap,
                   running[i].wrote, running[i].stray)
         /\ Len(running[i].left) > 1 => AllFit(Landed(i), page)
<1> DEFINE x == running[i]
           t == Landed(i)
<1>1. /\ running \in Seq(Instance) /\ DOMAIN running = 1..Len(running) /\ Len(running) \in Nat
      /\ i \in 1..Len(running) /\ x \in Instance /\ Fits(x, page)
      /\ x.left \in Stages /\ x.left # <<>>
  <2>1. /\ DOMAIN running = 1..Len(running) /\ i \in 1..Len(running)
        /\ x \in Instance /\ Fits(x, page) /\ x.left \in Stages /\ x.left # <<>>
    BY Waiting
  <2>2. running \in Seq(Instance)
    BY DEF Base, AllFit
  <2>3. Len(running) \in Nat
    BY ONLY <2>2
  <2> QED BY <2>1, <2>2, <2>3
<1>2. i \notin Older(i)
  <2>1. i \in Int
    BY ONLY <1>1
  <2>2. i \notin 1..(i - 1)
    BY ONLY <2>1
  <2> QED BY <2>2 DEF Older
<1>3. /\ DOMAIN t = 1..Len(running) /\ t = [j \in 1..Len(running) |-> t[j]]
      /\ t[i] = [x EXCEPT !.left = Tail(x.left), !.got = NoAnswers]
      /\ \A j \in 1..Len(running) : j # i =>
           t[j] = IF j \in Older(i) THEN [running[j] EXCEPT !.stray = TRUE] ELSE running[j]
  BY <1>1, <1>2 DEF Landed
<1>4. Became(x, t[i], Tail(x.left), NoAnswers, x.snap, x.wrote, x.stray)
  <2>1. Tail(x.left) \in Stages
    BY <1>1, StagesOf
  <2>2. Became(x, [x EXCEPT !.left = Tail(x.left), !.got = NoAnswers], Tail(x.left), NoAnswers,
               x.snap, x.wrote, x.stray)
    BY <1>1, <2>1, StageOver
  <2> QED BY <1>3, <2>2
<1>5. Len(x.left) > 1 => Fits(t[i], page)
  <2> SUFFICES ASSUME Len(x.left) > 1 PROVE Fits(t[i], page)
    OBVIOUS
  <2>1. Turned(page, x, [x EXCEPT !.left = Tail(x.left), !.got = NoAnswers],
               Tail(x.left), NoAnswers, x.snap, x.wrote, x.stray)
    BY <1>1, StageOverFits
  <2> QED BY <1>3, <2>1 DEF Turned
<1> HIDE DEF t
<1>6. ASSUME NEW j \in 1..Len(running), j # i
      PROVE  /\ Became(running[j], t[j], running[j].left, running[j].got, running[j].snap,
                       running[j].wrote, t[j].stray)
             /\ Fits(t[j], page)
             /\ t[j].stray = IF j \in Older(i) THEN TRUE ELSE running[j].stray
  <2>1. running[j] \in Instance /\ Fits(running[j], page)
    BY <1>1, OneOfAll DEF Base
  <2>2. CASE j \in Older(i)
    <3>1. Became(running[j], t[j], running[j].left, running[j].got, running[j].snap,
                 running[j].wrote, TRUE)
      BY <1>3, <1>6, <2>1, <2>2, Overtaken
    <3>2. Fits(t[j], page)
      BY <2>1, <3>1, MarkedFits DEF Turned
    <3> QED BY <2>2, <3>1, <3>2 DEF Became
  <2>3. CASE j \notin Older(i)
    <3>1. t[j] = running[j]
      BY <1>3, <1>6, <2>3
    <3> QED BY <2>1, <2>3, <3>1 DEF Became
  <2> QED BY <2>2, <2>3
<1>7. t \in Seq(Instance) /\ Len(t) = Len(running)
  <2>1. \A j \in 1..Len(running) : t[j] \in Instance
    BY <1>4, <1>6 DEF Became
  <2> QED BY ONLY <1>1, <1>3, <2>1
<1>8. Len(x.left) > 1 => AllFit(t, page)
  BY <1>5, <1>6, <1>7 DEF AllFit
<1> QED BY <1>4, <1>6, <1>7, <1>8 DEF t

\* The loads that go on after load i is over.
LEMMA LeftAfterLanding ==
  ASSUME Base, NEW i \in DOMAIN running, running[i].act = ""
  PROVE  /\ AllFit(RemoveAt(Landed(i), i), page)
         /\ Len(RemoveAt(Landed(i), i)) = Len(running) - 1
         /\ \A k \in 1..(Len(running) - 1) :
              RemoveAt(Landed(i), i)[k] = Landed(i)[IF k < i THEN k ELSE k + 1]
<1> DEFINE rest == RemoveAt(Landed(i), i)
<1>1. i \in 1..Len(running) /\ Len(running) \in Nat
  <2>1. i \in 1..Len(running)
    BY Waiting
  <2>2. running \in Seq(Instance)
    BY DEF Base, AllFit
  <2> QED BY ONLY <2>1, <2>2
<1>2. /\ rest \in Seq(Instance) /\ Len(rest) = Len(running) - 1
      /\ \A k \in 1..(Len(running) - 1) : rest[k] = Landed(i)[IF k < i THEN k ELSE k + 1]
  <2>1. Landed(i) \in Seq(Instance) /\ Len(Landed(i)) = Len(running)
    BY LandedFits
  <2> QED BY <1>1, <2>1, RemoveAtElements
<1>3. \A k \in 1..(Len(running) - 1) :
        (IF k < i THEN k ELSE k + 1) \in 1..Len(running) /\ (IF k < i THEN k ELSE k + 1) # i
  BY ONLY <1>1
<1> HIDE DEF rest
<1>4. \A k \in 1..Len(rest) : Fits(rest[k], page)
  BY <1>2, <1>3, LandedFits
<1> QED BY <1>2, <1>4 DEF AllFit, rest

LEMMA LandBase ==
  ASSUME Base, NEW i \in DOMAIN running, Land(i)
  PROVE  Base'
<1> DEFINE x == running[i]
           rest == RemoveAt(Landed(i), i)
<1>1. /\ PageFits(page) /\ x \in Instance /\ Fits(x, page) /\ x.act = ""
      /\ x.left \in Stages /\ x.left # <<>>
  BY PageOfThePortal, Waiting DEF Land
<1>2. ViewFits(shown', page)
  <2>1. \A d \in DOMAIN x.got :
          x.got[d] \in {"fresh", "stale"} /\ (x.got[d] = "stale" => d \in Touched(page))
    BY <1>1, AnswersOf DEF Fits, LoadFor
  <2>2. shown' = [c \in DOMAIN shown |-> IF c \in DOMAIN x.got THEN x.got[c] ELSE shown[c]]
    BY DEF Land
  <2> HIDE DEF x
  <2> QED BY <2>1, <2>2 DEF ViewFits, Base
<1>3. shownRow' \in Rows(page.kind) \cup {"none"}
  BY <1>1 DEF Land, Base, Fits
<1>4. shownFilter' \in Filters(page)
  BY <1>1 DEF Land, Base, Fits
<1>5. AllFit(running', page) /\ hidden' \in BOOLEAN
  <2>1. CASE Len(x.left) > 1
    <3>1. running' = Landed(i) /\ hidden' = hidden
      BY <2>1 DEF Land
    <3> QED BY <1>1, <2>1, <3>1, LandedFits DEF Base
  <2>2. CASE ~(Len(x.left) > 1)
    <3>1. AllFit(rest, page)
      BY <1>1, LeftAfterLanding
    <3> HIDE DEF rest
    <3>2. CASE IsList(i)
      <4>1. ShowList(rest)
        BY <2>2, <3>2 DEF Land, rest
      <4> QED BY <1>1, <3>1, <4>1, ShowListFits
    <3>3. CASE ~IsList(i) /\ page.first # NoLoad /\ x.load = page.first
      <4>1. running' = Append(rest, Load(page.list, "", filter)) /\ hidden' = hidden
        BY <2>2, <3>3 DEF Land, rest
      <4>2. page.list \in LoadsOf(page) /\ "" \in Text /\ filter \in Filters(page)
        BY <1>1, <3>3, ListIsALoad DEF PageFits, LoadsFit, Text, Base
      <4>3. Load(page.list, "", filter) \in Instance /\ Fits(Load(page.list, "", filter), page)
        BY <1>1, <4>2, NewLoadFits
      <4> QED BY <3>1, <4>1, <4>3, AppendedFits DEF Base
    <3>4. CASE ~IsList(i) /\ ~(page.first # NoLoad /\ x.load = page.first)
      <4>1. running' = rest /\ hidden' = hidden
        BY <2>2, <3>4 DEF Land, rest
      <4> QED BY <3>1, <4>1 DEF Base
    <3> QED BY <3>2, <3>3, <3>4
  <2> QED BY <2>1, <2>2
<1>6. DialogFits'
  BY DEF Base, DialogFits, Land, Unmoved
<1>7. disturbed' \in BOOLEAN
  BY <1>1 DEF Land, Base, Instance
<1> QED BY <1>2, <1>3, <1>4, <1>5, <1>6, <1>7 DEF Land, Unmoved, Base

\* A step is one of the actions.
LEMMA StepBase ==
  ASSUME Base, [Next]_vars
  PROVE  Base'
<1>1. CASE UNCHANGED vars
  <2>1. DialogFits'
    BY <1>1 DEF vars, Base, DialogFits
  <2> QED BY <1>1, <2>1 DEF vars, Base
<1>2. CASE FollowLink \/ OpenResult
  BY <1>2, ArriveBase DEF FollowLink, OpenResult
<1>3. ASSUME NEW a \in DOMAIN page.acts, OpenDialog(a) \/ Press(a) PROVE Base'
  BY <1>3, OpenDialogBase, PressBase
<1>4. CASE CloseDialog \/ Confirm \/ CloseProgress \/ Refresh \/ ChangeFilter \/ Toggle
  BY <1>4, CloseDialogBase, ConfirmBase, CloseProgressBase, RefreshBase, ChangeFilterBase,
     ToggleBase
<1>5. ASSUME NEW i \in DOMAIN running,
             FailAct(i) \/ FailLoad(i) \/ Land(i) \/ LandEmpty(i) \/ EndEarly(i)
      PROVE  Base'
  BY <1>5, FailActBase, FailLoadBase, LandBase, LandEmptyBase, EndEarlyBase
<1>6. ASSUME NEW i \in DOMAIN running, NEW c \in Head(running[i].left),
             ServeRead(i, c) \/ ServeStep(i, c) \/ Succeed(i, c) \/ LoseAnswer(i, c)
      PROVE  Base'
  BY <1>6, ServeReadBase, ServeStepBase, SucceedBase, LoseAnswerBase
<1>7. ASSUME NEW c \in DOMAIN Moves, OthersMove(c) PROVE Base'
  BY <1>7, OthersMoveBase
<1> QED BY <1>1, <1>2, <1>3, <1>4, <1>5, <1>6, <1>7 DEF Next

\* The inductive invariant all others rest on: every async function under way is
\* one the page on the screen may have started, in a state it may have reached.
THEOREM PortalBase == Spec => []Base
<1>1. Base /\ [Next]_vars => Base'
  BY StepBase
<1> QED BY <1>1, InitBase, PTL DEF Spec

LEMMA BaseImpliesTypeOK == Base => TypeOK
<1> SUFFICES ASSUME Base PROVE TypeOK
  OBVIOUS
<1>1. ASSUME NEW i \in DOMAIN running
      PROVE  /\ running[i].act \in {""} \cup DOMAIN page.acts
             /\ running[i].left # <<>>
             /\ DOMAIN running[i].got \subseteq Head(running[i].left)
  BY Waiting DEF Fits
<1>2. dialog = NoDialog \/ dialog.act \in DOMAIN page.acts
  BY DEF Base, DialogFits
<1>3. filter \in 0..1 /\ shownFilter \in 0..1
  BY FilterFacts DEF Base, Choice
<1> QED BY <1>1, <1>2, <1>3 DEF Base, TypeOK, ViewFits

\* Every variable of the portal keeps its type on every page, whatever the user
\* presses and in whatever order the answers land.
THEOREM PortalTypeOK == Spec => []TypeOK
BY PortalBase, BaseImpliesTypeOK, PTL

LEMMA BaseImpliesOffersFit == Base => OffersFit
<1> SUFFICES ASSUME Base, NEW i \in DOMAIN running, running[i].act # "", running[i].saw = row,
                    NEW c \in Head(running[i].left)
             PROVE  Permits(c, row) \/ c \in BulkCalls
  BY DEF OffersFit
<1>1. /\ running[i].act \in DOMAIN page.acts /\ Fits(running[i], page)
      /\ c \in Reading(page.acts[running[i].act].does)
  BY Waiting
<1>2. page.acts[running[i].act].at = "form" \/ row \in page.acts[running[i].act].on
  BY <1>1 DEF Fits, ActFor
<1> QED BY <1>1, <1>2, PageOfThePortal DEF PageFits, RowsFit, Base

\* What a button asks for is accepted, unless somebody moved the row since the
\* button was offered: an act keeps the status its dialog was opened on.
THEOREM PortalOffersFit == Spec => []OffersFit
BY PortalBase, BaseImpliesOffersFit, PTL

(***************************************************************************)
(* What the tables alone promise: routes, links and rows.                  *)
(***************************************************************************)

\* A call under way is one of the page on the screen.
LEMMA CallsUnderWay ==
  ASSUME Base, NEW i \in DOMAIN running, NEW c \in Head(running[i].left)
  PROVE  c \in CallsBehind(page)
<1>1. CASE running[i].act # ""
  <2>1. /\ running[i].act \in DOMAIN page.acts
        /\ c \in Reading(page.acts[running[i].act].does)
    BY <1>1, Waiting
  <2> QED BY <2>1 DEF CallsBehind
<1>2. CASE running[i].act = ""
  <2>1. c \in Reading(running[i].left) /\ Fits(running[i], page)
    BY Waiting
  <2>2. running[i].load \in LoadsOf(page) /\ c \in Reading(running[i].load)
    BY <1>2, <2>1 DEF Fits, LoadFor
  <2> QED BY <2>2, CallsOfLoads DEF CallsBehind
<1> QED BY <1>1, <1>2

LEMMA BaseImpliesCallsAdmitted == Base => CallsAdmitted
<1> SUFFICES ASSUME Base, role \in page.roles,
                    NEW i \in DOMAIN running, NEW c \in Head(running[i].left)
             PROVE  Admits(Api[c], role) \/ c \in KnownRefusals(role)
  BY DEF CallsAdmitted
<1>1. c \in CallsBehind(page)
  BY CallsUnderWay
<1> QED BY <1>1, RoutesFit DEF Base

\* The gateway refuses a signed-in user nothing the user's pages start, in whatever
\* order acts, reloads and expanded details put their calls under way.
THEOREM PortalCallsAdmitted == Spec => []CallsAdmitted
BY PortalBase, BaseImpliesCallsAdmitted, PTL

LEMMA BaseImpliesNobodyStuck == Base => NobodyStuck
BY RowsCared DEF Base, NobodyStuck

\* Wherever the acts of the user and the moves of others take a row, its status is
\* final or some role finds a button that takes it further, but for the two cases
\* of Stranded.
THEOREM PortalNobodyStuck == Spec => []NobodyStuck
BY PortalBase, BaseImpliesNobodyStuck, PTL

LEMMA LinkLeads ==
  ASSUME Base, FollowLink
  PROVE  role \in page'.roles
<1>1. PICK p \in ShellLinks(role) \cup page.links : Arrive(p)
  BY DEF FollowLink
<1>2. role \in page.roles /\ p \in DOMAIN Pages
  BY <1>1 DEF FollowLink, Arrive
<1>3. page' = Pages[p]
  BY <1>1 DEF Arrive, Blank
<1>4. role \in Pages[p].roles
  BY <1>2, LinksFit DEF Base
<1> QED BY <1>3, <1>4

\* No link of the menu or of a page leads a user to a page that turns the user away.
THEOREM PortalLinksLead == Spec => LinksLead
<1>1. Base /\ [Next]_vars => [FollowLink => role \in page'.roles]_vars
  BY LinkLeads
<1> QED BY <1>1, PortalBase, PTL DEF Spec, LinksLead

(***************************************************************************)
(* A skeleton on the screen is about to go.                                *)
(***************************************************************************)
ListLoad(x)  == x.act = "" /\ x.load = page.list
HasList(seq) == \E i \in 1..Len(seq) : ListLoad(seq[i])

LEMMA AppendedHasList ==
  ASSUME NEW seq, AllFit(seq, page), NEW x \in Instance,
         HasList(seq) \/ ListLoad(x)
  PROVE  HasList(Append(seq, x))
<1>1. seq \in Seq(Instance) /\ Len(seq) \in Nat
  BY DEF AllFit
<1>2. /\ Len(Append(seq, x)) = Len(seq) + 1
      /\ \A i \in 1..Len(seq) : Append(seq, x)[i] = seq[i]
      /\ Append(seq, x)[Len(seq) + 1] = x
  BY <1>1, AppendProperties
<1>3. Len(seq) + 1 \in 1..(Len(seq) + 1) /\ \A i \in 1..Len(seq) : i \in 1..(Len(seq) + 1)
  BY ONLY <1>1
<1> QED BY <1>2, <1>3 DEF HasList

LEMMA JoinedHasList ==
  ASSUME NEW s, AllFit(s, page), NEW t, AllFit(t, page), HasList(s) \/ HasList(t)
  PROVE  HasList(s \o t)
<1>1. s \in Seq(Instance) /\ t \in Seq(Instance) /\ Len(s) \in Nat /\ Len(t) \in Nat
  BY DEF AllFit
<1>2. /\ Len(s \o t) = Len(s) + Len(t)
      /\ \A i \in 1..(Len(s) + Len(t)) :
           (s \o t)[i] = IF i <= Len(s) THEN s[i] ELSE t[i - Len(s)]
  BY <1>1, ConcatProperties
<1>3. ASSUME NEW i \in 1..Len(s) PROVE i \in 1..Len(s \o t) /\ (s \o t)[i] = s[i]
  BY <1>1, <1>2
<1>4. ASSUME NEW i \in 1..Len(t)
      PROVE  Len(s) + i \in 1..Len(s \o t) /\ (s \o t)[Len(s) + i] = t[i]
  <2>1. Len(s) + i \in 1..(Len(s) + Len(t)) /\ ~(Len(s) + i <= Len(s))
        /\ (Len(s) + i) - Len(s) = i
    BY ONLY <1>1
  <2> QED BY <1>2, <2>1
<1> QED BY <1>3, <1>4 DEF HasList

LEMMA RemovedHasList ==
  ASSUME NEW seq \in Seq(Instance), HasList(seq), NEW i \in 1..Len(seq),
         ~ListLoad(seq[i])
  PROVE  HasList(RemoveAt(seq, i))
<1>1. PICK h : Removal(seq, RemoveAt(seq, i), i, h)
  BY RemoveKeepsOrder
<1>2. PICK j \in 1..Len(seq) : ListLoad(seq[j])
  BY DEF HasList
<1>3. PICK k \in 1..Len(RemoveAt(seq, i)) : h[k] = j
  BY <1>1, <1>2 DEF Removal
<1> QED BY <1>1, <1>2, <1>3 DEF HasList, Removal

LEMMA UnmountedHasList ==
  ASSUME PageFits(page), NEW seq, AllFit(seq, page), HasList(seq)
  PROVE  HasList(Unmount(seq))
<1>1. PICK h : Unmounting(seq, Unmount(seq), h)
  BY UnmountKeepsOthers
<1>2. PICK j \in 1..Len(seq) : ListLoad(seq[j])
  BY DEF HasList
<1>3. ~Details(seq[j])
  BY <1>2 DEF ListLoad, Details, PageFits, LoadsFit
<1>4. PICK k \in 1..Len(Unmount(seq)) : h[k] = j
  BY <1>1, <1>3 DEF Unmounting
<1> QED BY <1>1, <1>2, <1>4 DEF HasList, ListLoad, Unmounting, Survivors, Became

\* A list that is started is under way.
LEMMA StartListHasList ==
  ASSUME PageFits(page), page.list # NoLoad, NEW seq, AllFit(seq, page), NEW view,
         NEW b \in Text, NEW f \in Filters(page), NEW hide, StartList(seq, view, b, f, hide)
  PROVE  HasList(running')
<1> DEFINE x   == Again(page.list, b, f)
           all == Append(seq, x)
<1>1. x \in Instance /\ Fits(x, page) /\ ListLoad(x)
  BY AgainFits DEF IsLoad, ListLoad
<1> HIDE DEF x
<1>2. AllFit(all, page) /\ HasList(all)
  BY <1>1, AppendedFits, AppendedHasList
<1>3. running' = IF hide THEN Unmount(all) ELSE all
  BY DEF StartList, x
<1> HIDE DEF all
<1>4. hide => HasList(Unmount(all))
  BY <1>2, UnmountedHasList
<1> QED BY <1>2, <1>3, <1>4

\* Nothing that has not been shown yet is shown by forgetting or overwriting.
LEMMA StartListView ==
  ASSUME NEW seq, NEW view, ViewFits(view, page), NEW b, NEW f, NEW hide,
         StartList(seq, view, b, f, hide), NEW c \in CallsOf(page), view[c] = "nothing"
  PROVE  shown'[c] = "nothing"
BY DEF StartList, Forget, ViewFits

Awaited == HasList(running) \/ \E c \in Reading(page.first) : shown[c] = "nothing"

LEMMA FirstCalls ==
  ASSUME PageFits(page)
  PROVE  /\ Reading(page.first) \subseteq CallsOf(page)
         /\ Reading(page.first) # {} => page.first # NoLoad /\ ~Painted(page)
<1>1. Reading(page.first) \subseteq CallsOf(page)
  BY DEF CallsOf
<1>2. Reading(NoLoad) = {}
  BY DEF Reading, NoLoad
<1> QED BY <1>1, <1>2 DEF PageFits, FirstFits

LEMMA ListKept ==
  ASSUME page' = page, HasList(running')
  PROVE  HasList(running)'
BY DEF HasList, ListLoad

LEMMA EndAwaited ==
  ASSUME Base, NEW i \in 1..Len(running), running[i].act # "",
         NEW seq, AllFit(seq, page), Len(seq) = Len(running), seq[i].act = running[i].act,
         NEW view, ViewFits(view, page),
         NEW loads \in EndingLoads(running[i].act),
         End(seq, view, i, loads), page' = page
  PROVE  /\ HasList(seq) \/ (\E c \in Reading(page.first) : view[c] = "nothing") => Awaited'
         /\ hidden' => hidden \/ Awaited'
<1> DEFINE act  == page.acts[running[i].act]
           busy == IF act.awaits THEN running[i].busy ELSE ""
           rest == RemoveAt(seq, i)
<1>1. PageFits(page) /\ running[i] \in Instance /\ running[i].act \in DOMAIN page.acts
  <2>1. running[i] \in Instance /\ Fits(running[i], page)
    BY OneOfAll DEF Base
  <2> QED BY <2>1, PageOfThePortal DEF Fits, ActFor
<1>2. busy \in Text
  BY <1>1 DEF Instance, Text
<1>3. loads \in SUBSET LoadsOf(page) /\ IsFiniteSet(loads)
  <2>1. loads \in EndingLoads(running[i].act)
    OBVIOUS
  <2> QED BY ONLY <1>1, <2>1, EndingLoadsFit
<1>4. AllFit(rest, page)
  BY RemovedFits
<1>5. running[i].filter \in Filters(page)
  BY OneOfAll DEF Base, Fits
<1>6. HasList(seq) => HasList(rest)
  <2>1. seq \in Seq(Instance)
    BY DEF AllFit
  <2>2. i \in 1..Len(seq) /\ ~ListLoad(seq[i])
    BY DEF ListLoad
  <2> QED BY <2>1, <2>2, RemovedHasList
<1> HIDE DEF busy, rest
<1>7. CASE page.list \in loads /\ page.list # NoLoad
  <2>1. StartList(rest, view, busy, running[i].filter, page.hides)
    BY <1>7 DEF End, rest, busy
  <2>2. HasList(running')
    BY <1>1, <1>2, <1>4, <1>5, <1>7, <2>1, StartListHasList
  <2> QED BY <2>2, ListKept DEF Awaited
<1>8. CASE ~(page.list \in loads /\ page.list # NoLoad)
  <2>1. /\ running' = rest \o IF running[i].stray THEN <<>> ELSE Started(loads, busy)
        /\ shown' = view /\ hidden' = hidden
    BY <1>8 DEF End, rest, busy
  <2>2. AllFit(<<>>, page) /\ AllFit(Started(loads, busy), page)
    BY <1>1, <1>2, <1>3, NoneFits, StartedLoads
  <2>3. HasList(rest) => HasList(running')
    BY <1>4, <2>1, <2>2, JoinedHasList
  <2> QED BY <1>6, <2>1, <2>3, ListKept DEF Awaited
<1> QED BY <1>7, <1>8

\* The skeleton of a page the role may see: its list is under way, or about to be
\* asked for once the first answer has come.
SkeletonOK == hidden /\ role \in page.roles => Awaited

LEMMA SameAsBefore ==
  ASSUME SkeletonOK, hidden' = hidden, page' = page, role' = role,
         HasList(running) => HasList(running'),
         \A c \in Reading(page.first) : shown[c] = "nothing" => shown'[c] = "nothing"
  PROVE  SkeletonOK'
<1>1. Awaited => Awaited'
  BY ListKept DEF Awaited
<1> QED BY <1>1 DEF SkeletonOK

LEMMA InView ==
  ASSUME hidden' = FALSE
  PROVE  SkeletonOK'
BY DEF SkeletonOK

\* A page that opens with a skeleton has started its list, or what the list waits for.
ListStarted(p, seq) == \E k \in 1..Len(seq) : seq[k].act = "" /\ seq[k].load = p.list

LEMMA OpeningStarts ==
  ASSUME NEW p, PageFits(p), p.list # NoLoad, p.first = NoLoad
  PROVE  ListStarted(p, Started(Opening(p), ""))
<1>1. Opening(p) = p.others \cup {p.list}
  BY DEF Opening
<1>2. IsFiniteSet(Opening(p))
  <2>1. IsFiniteSet(p.others) /\ IsFiniteSet({p.list})
    BY FS_Singleton DEF PageFits, LoadsFit
  <2> QED BY <1>1, <2>1, FS_Union
<1>3. Opening(p) \in SUBSET LoadsOf(p) /\ p.list \in Opening(p)
  BY <1>1 DEF LoadsOf
<1>4. "" \in Text
  BY DEF Text
<1>7. \A l \in Opening(p) : \E k \in 1..Len(Started(Opening(p), "")) :
         Started(Opening(p), "")[k] = Load(l, "", 0)
  BY <1>2, <1>3, <1>4, StartedLoads
<1>5. PICK k \in 1..Len(Started(Opening(p), "")) :
         Started(Opening(p), "")[k] = Load(p.list, "", 0)
  BY <1>3, <1>7
<1>6. Load(p.list, "", 0).act = "" /\ Load(p.list, "", 0).load = p.list
  BY DEF Load
<1> QED BY <1>5, <1>6 DEF ListStarted

LEMMA BlankStarts ==
  ASSUME NEW q \in DOMAIN Pages, NEW r, Blank(q, r).hidden, role \in Pages[q].roles
  PROVE  \/ ListStarted(Pages[q], Blank(q, r).running)
         \/ \E c \in Reading(Pages[q].first) : Blank(q, r).shown[c] = "nothing"
<1>1. /\ PageFits(Pages[q]) /\ Pages[q].list # NoLoad
      /\ Blank(q, r).running = Started(Opening(Pages[q]), "")
  BY PagesFit DEF Blank
<1>2. CASE Pages[q].first = NoLoad
  BY <1>1, <1>2, OpeningStarts
<1>3. CASE Pages[q].first # NoLoad
  <2>1. PICK c : c \in Reading(Pages[q].first)
    BY <1>1, <1>3 DEF PageFits, FirstFits
  <2>2. c \in CallsOf(Pages[q])
    BY <2>1 DEF CallsOf
  <2>3. Blank(q, r).shown[c] = "nothing"
    BY <2>2 DEF Blank
  <2> QED BY <2>1, <2>3
<1> QED BY <1>2, <1>3

LEMMA InitSkeleton == Init => SkeletonOK
<1> SUFFICES ASSUME Init, hidden, role \in page.roles PROVE Awaited
  BY DEF SkeletonOK
<1>1. PICK q \in DOMAIN Pages : \E r \in Rows(Pages[q].kind) :
        /\ page = Blank(q, r).page /\ row = Blank(q, r).row /\ shown = Blank(q, r).shown
        /\ hidden = Blank(q, r).hidden /\ running = Blank(q, r).running
        /\ expanded = Pages[q].spread
  BY DEF Init
<1>2. PICK r \in Rows(Pages[q].kind) :
        /\ page = Blank(q, r).page /\ row = Blank(q, r).row /\ shown = Blank(q, r).shown
        /\ hidden = Blank(q, r).hidden /\ running = Blank(q, r).running
        /\ expanded = Pages[q].spread
  BY <1>1
<1>3. page = Pages[q]
  BY <1>2, BlankFits
<1>4. \/ ListStarted(page, running)
      \/ \E c \in Reading(page.first) : shown[c] = "nothing"
  BY <1>2, <1>3, BlankStarts
<1> QED BY <1>4 DEF Awaited, HasList, ListLoad, ListStarted

LEMMA ArriveSkeleton ==
  ASSUME NEW q, Arrive(q)
  PROVE  SkeletonOK'
<1>1. q \in DOMAIN Pages /\ role' = role
  BY DEF Arrive
<1>2. PICK r \in Rows(Pages[q].kind) :
        /\ page' = Blank(q, r).page /\ row' = Blank(q, r).row /\ shown' = Blank(q, r).shown
        /\ hidden' = Blank(q, r).hidden /\ running' = Blank(q, r).running
  BY DEF Arrive
<1>3. page' = Pages[q]
  BY <1>1, <1>2, BlankFits
<1> SUFFICES ASSUME hidden', role' \in page'.roles PROVE Awaited'
  BY DEF SkeletonOK
<1>4. \/ ListStarted(Pages[q], running')
      \/ \E c \in Reading(Pages[q].first) : shown'[c] = "nothing"
  BY <1>1, <1>2, <1>3, BlankStarts
<1> QED BY <1>3, <1>4 DEF Awaited, HasList, ListLoad, ListStarted

\* The acts of a page that waits for a first answer paint nothing.
LEMMA FirstUnpainted ==
  ASSUME Base, NEW a \in DOMAIN page.acts, NEW c \in Reading(page.first)
  PROVE  page.acts[a].paints = {} /\ c \in CallsOf(page)
BY PageOfThePortal, FirstCalls DEF Painted

LEMMA UserSkeleton ==
  ASSUME Base, SkeletonOK,
         \/ \E a \in DOMAIN page.acts : OpenDialog(a) \/ Press(a)
         \/ CloseDialog \/ Confirm \/ CloseProgress \/ Refresh \/ ChangeFilter \/ Toggle
  PROVE  SkeletonOK'
<1>0. PageFits(page) /\ AllFit(running, page) /\ ViewFits(shown, page) /\ "" \in Text
  BY PageOfThePortal DEF Base, Text
<1>1. ASSUME NEW a \in DOMAIN page.acts, OpenDialog(a) PROVE SkeletonOK'
  BY <1>1, SameAsBefore DEF OpenDialog
<1>2. ASSUME NEW a \in DOMAIN page.acts, Press(a) PROVE SkeletonOK'
  <2>1. ActOn(a, shownRow) \in Instance
    BY <1>2, ShownStatus, NewAct DEF Press
  <2>2. HasList(running) => HasList(running')
    BY <1>0, <1>2, <2>1, AppendedHasList DEF Press
  <2>3. \A c \in Reading(page.first) : shown[c] = "nothing" => shown'[c] = "nothing"
    BY <1>2, FirstUnpainted DEF Press, Paint, Base, ViewFits
  <2> QED BY <1>2, <2>2, <2>3, SameAsBefore DEF Press, Click
<1>3. CASE CloseDialog
  BY <1>3, SameAsBefore DEF CloseDialog
<1>4. CASE Confirm
  <2>1. ActOn(dialog.act, dialog.saw) \in Instance
    <3>1. /\ dialog.act \in DOMAIN page.acts
          /\ dialog.saw \in page.acts[dialog.act].on \cap AnyStatus
      BY <1>4 DEF Base, DialogFits, Confirm
    <3> QED BY <3>1, NewAct
  <2>2. HasList(running) => HasList(running')
    BY <1>0, <1>4, <2>1, AppendedHasList DEF Confirm
  <2> QED BY <1>4, <2>2, SameAsBefore DEF Confirm
<1>5. CASE Refresh
  <2>1. StartList(running, shown, "", filter, page.hides) /\ page.list # NoLoad /\ page' = page
    BY <1>0, <1>5 DEF Refresh, Click, PageFits, LoadsFit
  <2>2. HasList(running')
    BY <1>0, <2>1, StartListHasList DEF Base
  <2> QED BY <2>1, <2>2, ListKept DEF SkeletonOK, Awaited
<1>8. CASE CloseProgress
  <2>1. StartList(running, shown, "", filter, page.hides) /\ page.list # NoLoad /\ page' = page
    BY <1>8, FollowedList DEF CloseProgress
  <2>2. HasList(running')
    BY <1>0, <2>1, StartListHasList DEF Base
  <2> QED BY <2>1, <2>2, ListKept DEF SkeletonOK, Awaited
<1>6. CASE ChangeFilter
  <2>1. /\ StartList(running, shown, "", 1 - filter, TRUE) /\ page.list # NoLoad
        /\ page' = page /\ filter' = 1 - filter
    BY <1>0, <1>6 DEF ChangeFilter, Click, PageFits, LoadsFit
  <2>2. 1 - filter \in Filters(page)
    BY <1>6, <2>1, ChangeFilterBase DEF Base
  <2>3. HasList(running')
    BY <1>0, <2>1, <2>2, StartListHasList
  <2> QED BY <2>1, <2>3, ListKept DEF SkeletonOK, Awaited
<1>7. CASE Toggle
  <2>1. HasList(running) => HasList(running')
    <3>1. CASE expanded
      BY <1>0, <1>7, <3>1, UnmountedHasList DEF Toggle
    <3>2. CASE ~expanded
      BY <1>0, <1>7, <3>2, MountedFits, JoinedHasList DEF Toggle
    <3> QED BY <3>1, <3>2
  <2>2. \A c \in Reading(page.first) : shown[c] = "nothing" => shown'[c] = "nothing"
    BY <1>0, <1>7, FirstCalls DEF Toggle, Forget, ViewFits
  <2> QED BY <1>7, <2>1, <2>2, SameAsBefore DEF Toggle, Click
<1> QED BY <1>1, <1>2, <1>3, <1>4, <1>5, <1>6, <1>7, <1>8

LEMMA KeptList ==
  ASSUME NEW old, NEW new, Len(new) = Len(old),
         \A j \in 1..Len(old) : new[j].act = old[j].act /\ new[j].load = old[j].load
  PROVE  HasList(old) => HasList(new)
BY DEF HasList, ListLoad

LEMMA OverwrittenView ==
  ASSUME Base, NEW i, NEW c, NEW d \in CallsOf(page), shown[d] = "nothing"
  PROVE  Overwritten(i, c)[d] = "nothing"
BY DEF Overwritten, Base, ViewFits

LEMMA OutdatedList ==
  ASSUME Base, NEW i \in DOMAIN running, running[i].act # "", NEW c \in Head(running[i].left)
  PROVE  /\ AllFit(Outdated(c), page) /\ Len(Outdated(c)) = Len(running)
         /\ \A j \in 1..Len(running) :
              Outdated(c)[j].act = running[j].act /\ Outdated(c)[j].load = running[j].load
         /\ ViewFits(Overwritten(i, c), page)
         /\ HasList(running) => HasList(Outdated(c))
<1>1. /\ PageFits(page) /\ i \in 1..Len(running) /\ running[i].act \in DOMAIN page.acts
      /\ c \in Reading(page.acts[running[i].act].does)
      /\ AllFit(running, page) /\ ViewFits(shown, page)
  BY PageOfThePortal, Waiting DEF Base
<1>2. /\ AllFit(Outdated(c), page) /\ Len(Outdated(c)) = Len(running)
      /\ \A j \in 1..Len(running) :
           Outdated(c)[j].act = running[j].act /\ Outdated(c)[j].load = running[j].load
  BY <1>1, OutdatedFits DEF Became
<1> QED BY <1>1, <1>2, OverwrittenFits, KeptList

LEMMA ReplacedList ==
  ASSUME NEW s, DOMAIN s = 1..Len(s), NEW i \in 1..Len(s), NEW y, Len([s EXCEPT ![i] = y]) = Len(s),
         y.act = s[i].act, y.load = s[i].load
  PROVE  HasList(s) => HasList([s EXCEPT ![i] = y])
BY DEF HasList, ListLoad

LEMMA ServerSkeleton ==
  ASSUME Base, SkeletonOK, NEW i \in DOMAIN running,
         \/ FailAct(i) \/ FailLoad(i) \/ LandEmpty(i) \/ EndEarly(i)
         \/ \E c \in Head(running[i].left) :
              ServeRead(i, c) \/ ServeStep(i, c) \/ Succeed(i, c) \/ LoseAnswer(i, c)
  PROVE  SkeletonOK'
<1>0. /\ PageFits(page) /\ AllFit(running, page) /\ ViewFits(shown, page)
      /\ running \in Seq(Instance) /\ i \in 1..Len(running)
      /\ DOMAIN running = 1..Len(running)
      /\ running[i] \in Instance /\ Fits(running[i], page)
  BY PageOfThePortal, Waiting DEF Base, AllFit
<1>1. ASSUME Awaited, NEW c \in Head(running[i].left), running[i].act # ""
      PROVE  HasList(Outdated(c)) \/ \E d \in Reading(page.first) : Overwritten(i, c)[d] = "nothing"
  <2>1. CASE HasList(running)
    BY <1>0, <1>1, <2>1, OutdatedList
  <2>2. CASE \E d \in Reading(page.first) : shown[d] = "nothing"
    <3>1. PICK d \in Reading(page.first) : shown[d] = "nothing"
      BY <2>2
    <3>2. d \in CallsOf(page)
      BY <1>0, FirstCalls
    <3>3. Overwritten(i, c)[d] = "nothing"
      BY <3>1, <3>2, OverwrittenView
    <3> QED BY <3>1, <3>3
  <2> QED BY <1>1, <2>1, <2>2 DEF Awaited
<1>2. CASE FailAct(i)
  <2>1. Awaited => Awaited'
    BY <1>0, <1>2, EndAwaited, ReloadsAreEndingLoads DEF FailAct, Unmoved, Awaited
  <2>2. hidden' => hidden \/ Awaited'
    BY <1>0, <1>2, EndAwaited, ReloadsAreEndingLoads DEF FailAct, Unmoved, Awaited
  <2> QED BY <1>2, <2>1, <2>2 DEF SkeletonOK, FailAct, Unmoved
<1>3. CASE FailLoad(i)
  <2>1. CASE IsList(i)
    BY <1>3, <2>1, InView DEF FailLoad, ShowList
  <2>2. CASE ~IsList(i)
    <3>1. HasList(running) => HasList(RemoveAt(running, i))
      BY <1>0, <2>2, RemovedHasList DEF IsList, ListLoad
    <3> QED BY <1>3, <2>2, <3>1, SameAsBefore DEF FailLoad, Unmoved
  <2> QED BY <2>1, <2>2
<1>4. CASE EndEarly(i)
  BY <1>4, InView DEF EndEarly, ShowList
<1>5. ASSUME NEW c \in Head(running[i].left), ServeRead(i, c) PROVE SkeletonOK'
  <2> DEFINE y == WithAnswer(running[i], c)
  <2>1. y.act = running[i].act /\ y.load = running[i].load
    BY <1>0 DEF WithAnswer, Instance
  <2>2. running' = [running EXCEPT ![i] = y]
    BY <1>5 DEF ServeRead
  <2> HIDE DEF y
  <2>4. Len(running') = Len(running)
    BY <1>0, <2>2
  <2>3. HasList(running) => HasList(running')
    BY <1>0, <2>1, <2>2, <2>4, ReplacedList
  <2> QED BY <1>5, <2>3, SameAsBefore DEF ServeRead, Unmoved
<1>6. ASSUME NEW c \in Head(running[i].left), ServeStep(i, c) PROVE SkeletonOK'
  <2> DEFINE s == Outdated(c)
             y == WithCallDone(s[i])
  <2>1. running[i].act # ""
    BY <1>6 DEF ServeStep, Served
  <2>2. /\ AllFit(s, page) /\ Len(s) = Len(running)
        /\ (HasList(running) => HasList(s))
    BY <2>1, OutdatedList
  <2>3. s[i] \in Instance /\ s \in Seq(Instance) /\ DOMAIN s = 1..Len(s)
    BY <1>0, <2>2 DEF AllFit
  <2>4. y.act = s[i].act /\ y.load = s[i].load
    BY <2>3 DEF WithCallDone, Instance
  <2>5. running' = [s EXCEPT ![i] = y]
    BY <1>6 DEF ServeStep
  <2> HIDE DEF y, s
  <2>6. Len(running') = Len(s)
    BY <2>3, <2>5
  <2>7. HasList(s) => HasList(running')
    BY <1>0, <2>2, <2>3, <2>4, <2>5, <2>6, ReplacedList
  <2>8. \A d \in Reading(page.first) : shown[d] = "nothing" => shown'[d] = "nothing"
    BY <1>0, <1>6, OverwrittenView, FirstCalls DEF ServeStep
  <2> QED BY <1>6, <2>2, <2>7, <2>8, SameAsBefore DEF ServeStep, Unmoved
<1>7. ASSUME NEW c \in Head(running[i].left), Succeed(i, c) \/ LoseAnswer(i, c) PROVE SkeletonOK'
  <2>1. running[i].act # "" /\ page' = page /\ role' = role
    BY <1>7 DEF Succeed, LoseAnswer, Served, Unmoved
  <2>2. PICK loads \in EndingLoads(running[i].act) :
          End(Outdated(c), Overwritten(i, c), i, loads)
    BY <1>7, ReloadsAreEndingLoads DEF Succeed, LoseAnswer
  <2>5. /\ AllFit(Outdated(c), page) /\ Len(Outdated(c)) = Len(running)
        /\ Outdated(c)[i].act = running[i].act /\ ViewFits(Overwritten(i, c), page)
    BY <1>0, <2>1, OutdatedList
  <2>6. /\ (HasList(Outdated(c)) \/ \E d \in Reading(page.first) : Overwritten(i, c)[d] = "nothing")
              => Awaited'
        /\ hidden' => hidden \/ Awaited'
    BY <1>0, <2>1, <2>2, <2>5, EndAwaited
  <2>3. Awaited => Awaited'
    BY <1>1, <2>1, <2>6
  <2>4. hidden' => hidden \/ Awaited'
    BY <2>6
  <2> QED BY <2>1, <2>3, <2>4 DEF SkeletonOK
<1>8. CASE LandEmpty(i)
  <2>1. page.first # NoLoad /\ running[i].load = page.first /\ running[i].act = ""
    BY <1>8 DEF LandEmpty
  <2>2. ~ListLoad(running[i])
    BY <1>0, <2>1 DEF ListLoad, PageFits, LoadsFit
  <2>3. HasList(running) => HasList(RemoveAt(running, i))
    BY <1>0, <2>2, RemovedHasList
  <2> QED BY <1>8, <2>3, SameAsBefore DEF LandEmpty, Unmoved
<1> QED BY <1>2, <1>3, <1>4, <1>5, <1>6, <1>7, <1>8

LEMMA LandSkeleton ==
  ASSUME Base, SkeletonOK, NEW i \in DOMAIN running, Land(i)
  PROVE  SkeletonOK'
<1> DEFINE x == running[i]
           rest == RemoveAt(Landed(i), i)
<1>1. /\ PageFits(page) /\ i \in 1..Len(running) /\ x \in Instance /\ Fits(x, page) /\ x.act = ""
      /\ x.left \in Stages /\ x.left # <<>> /\ ViewFits(shown, page)
  BY PageOfThePortal, Waiting DEF Land, Base
<1>2. /\ Len(Landed(i)) = Len(running) /\ Landed(i) \in Seq(Instance)
      /\ Landed(i)[i].act = x.act /\ Landed(i)[i].load = x.load
      /\ (HasList(running) => HasList(Landed(i)))
  <2>1. /\ Len(Landed(i)) = Len(running) /\ Landed(i) \in Seq(Instance)
        /\ \A j \in 1..Len(running) :
             Landed(i)[j].act = running[j].act /\ Landed(i)[j].load = running[j].load
    BY <1>1, LandedFits DEF Became
  <2> QED BY <1>1, <2>1, KeptList
<1>3. role' = role /\ page' = page
  BY DEF Land, Unmoved
<1>4. CASE IsList(i) /\ ~(Len(x.left) > 1)
  BY <1>4, InView DEF Land, ShowList
<1>5. CASE x.load = page.first /\ page.first # NoLoad /\ ~IsList(i)
  <2>1. ~(Len(x.left) > 1)
    <3>1. Len(x.left) <= Len(x.load) /\ x.load \in LoadsOf(page)
      BY <1>1 DEF Fits, LoadFor
    <3>2. Len(x.load) = 1
      BY <1>1, <1>5, <3>1 DEF IsList, PageFits, LoadsFit
    <3>3. Len(x.left) \in Nat
      BY <1>1, StagesOf
    <3> QED BY ONLY <3>1, <3>2, <3>3
  <2>2. running' = Append(rest, Load(page.list, "", filter))
    BY <1>5, <2>1 DEF Land
  <2>3. AllFit(rest, page)
    BY <1>1, LeftAfterLanding
  <2>4. Load(page.list, "", filter) \in Instance /\ ListLoad(Load(page.list, "", filter))
    <3>1. page.list \in LoadsOf(page) /\ "" \in Text /\ filter \in Filters(page)
      BY <1>1, <1>5, ListIsALoad DEF PageFits, LoadsFit, Text, Base
    <3> QED BY <1>1, <3>1, NewLoadFits DEF Load, ListLoad
  <2> HIDE DEF rest
  <2>5. HasList(running')
    BY <2>2, <2>3, <2>4, AppendedHasList
  <2> QED BY <1>3, <2>5, ListKept DEF SkeletonOK, Awaited
<1>6. CASE ~(IsList(i) /\ ~(Len(x.left) > 1)) /\ ~(x.load = page.first /\ page.first # NoLoad /\ ~IsList(i))
  <2>1. HasList(running) => HasList(running')
    <3>1. CASE Len(x.left) > 1
      BY <1>2, <3>1 DEF Land
    <3>2. CASE ~(Len(x.left) > 1)
      <4>1. running' = rest /\ ~ListLoad(Landed(i)[i]) /\ i \in 1..Len(Landed(i))
        BY <1>1, <1>2, <1>6, <3>2 DEF Land, IsList, ListLoad
      <4> QED BY <1>2, <4>1, RemovedHasList
    <3> QED BY <3>1, <3>2
  <2>2. hidden' = hidden
    BY <1>6 DEF Land
  <2>3. ASSUME NEW d \in Reading(page.first), shown[d] = "nothing" PROVE shown'[d] = "nothing"
    <3>1. page.first # NoLoad /\ d \in CallsOf(page)
      BY <1>1, FirstCalls
    <3>2. DOMAIN x.got \subseteq Reading(x.load) /\ x.load \in LoadsOf(page)
      BY <1>1, StagesOf DEF Fits, LoadFor
    <3>3. x.load = page.first => IsList(i)
      BY <1>6, <3>1
    <3>4. x.load # page.first
      BY <1>1, <3>1, <3>3 DEF IsList, PageFits, LoadsFit
    <3>5. d \notin DOMAIN x.got
      BY <1>1, <3>1, <3>2, <3>4 DEF PageFits, FirstFits
    <3> QED BY <2>3, <3>1, <3>5, <1>1 DEF Land, ViewFits
  <2> QED BY <1>3, <2>1, <2>2, <2>3, SameAsBefore
<1> QED BY <1>4, <1>5, <1>6

LEMMA StepSkeleton ==
  ASSUME Base, SkeletonOK, [Next]_vars
  PROVE  SkeletonOK'
<1>1. CASE UNCHANGED vars
  BY <1>1, SameAsBefore DEF vars
<1>2. CASE FollowLink \/ OpenResult
  BY <1>2, ArriveSkeleton DEF FollowLink, OpenResult
<1>3. CASE \/ \E a \in DOMAIN page.acts : OpenDialog(a) \/ Press(a)
           \/ CloseDialog \/ Confirm \/ CloseProgress \/ Refresh \/ ChangeFilter \/ Toggle
  BY <1>3, UserSkeleton
<1>4. ASSUME NEW i \in DOMAIN running,
             \/ FailAct(i) \/ FailLoad(i) \/ LandEmpty(i) \/ EndEarly(i)
             \/ \E c \in Head(running[i].left) :
                  ServeRead(i, c) \/ ServeStep(i, c) \/ Succeed(i, c) \/ LoseAnswer(i, c)
      PROVE  SkeletonOK'
  BY <1>4, ServerSkeleton
<1>5. ASSUME NEW i \in DOMAIN running, Land(i) PROVE SkeletonOK'
  BY <1>5, LandSkeleton
<1>6. ASSUME NEW c \in DOMAIN Moves, OthersMove(c) PROVE SkeletonOK'
  BY <1>6, SameAsBefore DEF OthersMove
<1> QED BY <1>1, <1>2, <1>3, <1>4, <1>5, <1>6 DEF Next

LEMMA SkeletonOKImplies == Base /\ SkeletonOK => SkeletonEnds
<1> SUFFICES ASSUME Base, SkeletonOK PROVE SkeletonEnds
  OBVIOUS
<1>1. HasList(running) => \E i \in DOMAIN running : IsList(i)
  <2>1. DOMAIN running = 1..Len(running)
    BY DEF Base, AllFit
  <2> QED BY <2>1 DEF HasList, ListLoad, IsList
<1> QED BY <1>1 DEF SkeletonEnds, SkeletonOK, Awaited, Ready

\* A skeleton on the screen is always about to go.
THEOREM PortalSkeletonEnds == Spec => []SkeletonEnds
<1>1. Base /\ SkeletonOK /\ [Next]_vars => Base' /\ SkeletonOK'
  BY StepBase, StepSkeleton
<1> QED BY <1>1, InitBase, InitSkeleton, SkeletonOKImplies, PTL DEF Spec

(***************************************************************************)
(* The page comes to rest right: for every call whose answer does not lag  *)
(* behind, whatever is out of date is about to be replaced.                *)
(***************************************************************************)
Due == {d \in CallsOf(page) : <<page, d>> \notin Lagging}

\* x is a load that asks for d; its answer, if it is there, is still right.
Brings(x, d) ==
  /\ x.act = "" /\ ~x.stray /\ d \in Reading(x.load)
  /\ d \in DOMAIN x.got => x.got[d] = "fresh"
\* x is an act that has changed what d shows and asks for it at its end.
Mends(x, d) == x.act # "" /\ x.wrote /\ HealedBy(page, x.act, d)
\* x is a load that is going to show an answer to d which is out of date.
Belated(x, d) == x.act = "" /\ ~x.stray /\ d \in DOMAIN x.got /\ x.got[d] = "stale"

\* Of the functions of seq at the positions L.
CurrentOn(seq, view, d, L) ==
  /\ view[d] = "stale" => \E j \in L : Brings(seq[j], d) \/ Mends(seq[j], d)
  /\ \A i \in L : Belated(seq[i], d) =>
       \E j \in L : (j > i /\ Brings(seq[j], d)) \/ Mends(seq[j], d)
Current(seq, view, d) == CurrentOn(seq, view, d, 1..Len(seq))

\* The dialog dlg shows the progress of an act; closing it asks for d.
Promised(dlg, d) == dlg.progress /\ HealedBy(page, dlg.act, d)

LEMMA SameRole ==
  ASSUME NEW x, NEW y, NEW stray, NEW d,
         Became(x, y, x.left, x.got, x.snap, x.wrote, stray), x.act = "" => stray = x.stray
  PROVE  /\ Brings(x, d) <=> Brings(y, d)
         /\ Mends(x, d) <=> Mends(y, d)
         /\ Belated(x, d) <=> Belated(y, d)
BY DEF Became, Brings, Mends, Belated

\* Survivors are as current as they were among the others.
LEMMA ReindexedCurrent ==
  ASSUME NEW old, NEW new, NEW h, Survivors(old, new, h), NEW view, NEW d,
         CurrentOn(old, view, d, {h[k] : k \in 1..Len(new)})
  PROVE  Current(new, view, d)
<1> DEFINE K == 1..Len(new)
           L == {h[k] : k \in K}
<1>1. /\ h \in [K -> 1..Len(old)] /\ \A k, m \in K : k < m => h[k] < h[m]
      /\ \A k \in K :
           /\ Became(old[h[k]], new[k], old[h[k]].left, old[h[k]].got, old[h[k]].snap,
                     old[h[k]].wrote, new[k].stray)
           /\ old[h[k]].act = "" => new[k].stray = old[h[k]].stray
  BY DEF Survivors
<1>2. \A k \in K : /\ Brings(old[h[k]], d) <=> Brings(new[k], d)
                   /\ Mends(old[h[k]], d) <=> Mends(new[k], d)
                   /\ Belated(old[h[k]], d) <=> Belated(new[k], d)
  BY <1>1, SameRole
<1>3. \A k, m \in K : h[k] > h[m] => k > m
  <2> TAKE k, m \in K
  <2>3. h \in [K -> 1..Len(old)] /\ k \in K /\ m \in K
    BY <1>1
  <2>1. k \in Int /\ m \in Int /\ h[k] \in Int /\ h[m] \in Int
    BY ONLY <2>3
  <2>2. k < m => h[k] < h[m]
    BY <1>1
  <2> QED BY ONLY <2>1, <2>2
<1>4. /\ view[d] = "stale" => \E j \in L : Brings(old[j], d) \/ Mends(old[j], d)
      /\ \A i \in L : Belated(old[i], d) =>
           \E j \in L : (j > i /\ Brings(old[j], d)) \/ Mends(old[j], d)
  BY DEF CurrentOn
<1> HIDE DEF K
<1>5. view[d] = "stale" => \E k \in K : Brings(new[k], d) \/ Mends(new[k], d)
  BY <1>2, <1>4
<1>6. ASSUME NEW k \in K, Belated(new[k], d)
      PROVE  \E m \in K : (m > k /\ Brings(new[m], d)) \/ Mends(new[m], d)
  <2>1. PICK j \in L : (j > h[k] /\ Brings(old[j], d)) \/ Mends(old[j], d)
    BY <1>2, <1>4, <1>6
  <2>2. PICK m \in K : j = h[m]
    OBVIOUS
  <2> QED BY <1>2, <1>3, <2>1, <2>2
<1> QED BY <1>5, <1>6 DEF Current, CurrentOn, K

LEMMA RemovedCurrent ==
  ASSUME NEW seq \in Seq(Instance), NEW i \in 1..Len(seq), NEW view, NEW d,
         CurrentOn(seq, view, d, 1..Len(seq) \ {i})
  PROVE  Current(RemoveAt(seq, i), view, d)
<1>1. PICK h : Removal(seq, RemoveAt(seq, i), i, h)
  BY RemoveKeepsOrder
<1>2. {h[k] : k \in 1..Len(RemoveAt(seq, i))} = 1..Len(seq) \ {i}
  <2>1. \A k \in 1..Len(RemoveAt(seq, i)) : h[k] \in 1..Len(seq) \ {i}
    BY <1>1 DEF Removal, Survivors
  <2>2. \A j \in 1..Len(seq) \ {i} : \E k \in 1..Len(RemoveAt(seq, i)) : h[k] = j
    BY <1>1 DEF Removal
  <2> QED BY <2>1, <2>2
<1>3. Survivors(seq, RemoveAt(seq, i), h)
  BY <1>1 DEF Removal
<1> QED BY <1>2, <1>3, ReindexedCurrent

\* An act that mends nothing of d may end.
LEMMA ActGoneCurrent ==
  ASSUME NEW seq \in Seq(Instance), NEW i \in 1..Len(seq), NEW view, NEW d,
         Current(seq, view, d), seq[i].act # "", ~Mends(seq[i], d)
  PROVE  Current(RemoveAt(seq, i), view, d)
<1>1. ~Brings(seq[i], d)
  BY DEF Brings
<1>2. CurrentOn(seq, view, d, 1..Len(seq) \ {i})
  BY <1>1 DEF Current, CurrentOn
<1> QED BY <1>2, RemovedCurrent

\* What the details show leaves the screen with them, and nothing else asks for it.
LEMMA TouchedByOneLoad ==
  ASSUME PageFits(page), NEW l \in LoadsOf(page), NEW m \in LoadsOf(page), NEW d \in Touched(page),
         d \in Reading(l), d \in Reading(m)
  PROVE  l = m
BY DEF PageFits, TouchedFits

LEMMA BelatedIsTouched ==
  ASSUME NEW x \in Instance, Fits(x, page), NEW d, Belated(x, d)
  PROVE  /\ d \in Touched(page) /\ x.load \in LoadsOf(page) /\ d \in Reading(x.load)
         /\ d \in Head(x.left)
<1>1. x.left \in Stages /\ x.left # <<>>
  BY DEF Instance, Fits
<1> QED BY <1>1, StagesOf DEF Belated, Fits, LoadFor

DetailCall(d) == \E l \in page.details : d \in Reading(l)

LEMMA UnmountedCurrent ==
  ASSUME PageFits(page), NEW seq, AllFit(seq, page), NEW view, ViewFits(view, page),
         NEW d \in CallsOf(page), Current(seq, view, d) \/ DetailCall(d)
  PROVE  Current(Unmount(seq), Forget(view), d)
<1> DEFINE L == {i \in 1..Len(seq) : ~Details(seq[i])}
<1>1. PICK h : Unmounting(seq, Unmount(seq), h)
  BY UnmountKeepsOthers
<1>2. {h[k] : k \in 1..Len(Unmount(seq))} = L
  <2>1. ASSUME NEW k \in 1..Len(Unmount(seq)) PROVE h[k] \in L
    <3>1. /\ h[k] \in 1..Len(seq) /\ ~Details(Unmount(seq)[k])
          /\ Unmount(seq)[k].act = seq[h[k]].act /\ Unmount(seq)[k].load = seq[h[k]].load
      BY <1>1 DEF Unmounting, Survivors, Became
    <3> QED BY <3>1 DEF Details
  <2>2. \A j \in L : \E k \in 1..Len(Unmount(seq)) : h[k] = j
    BY <1>1 DEF Unmounting
  <2> QED BY <2>1, <2>2
<1>3. CurrentOn(seq, Forget(view), d, L)
  <2>1. CASE DetailCall(d)
    <3>1. Forget(view)[d] = "nothing"
      BY <2>1 DEF DetailCall, Forget, ViewFits
    <3>2. ASSUME NEW i \in L, Belated(seq[i], d) PROVE FALSE
      <4>1. seq[i] \in Instance /\ Fits(seq[i], page)
        BY DEF AllFit
      <4>2. d \in Touched(page) /\ seq[i].load \in LoadsOf(page) /\ d \in Reading(seq[i].load)
        BY <3>2, <4>1, BelatedIsTouched
      <4>3. PICK l \in page.details : d \in Reading(l)
        BY <2>1 DEF DetailCall
      <4>4. l \in LoadsOf(page)
        BY DEF LoadsOf
      <4>5. l = seq[i].load
        BY <4>2, <4>3, <4>4, TouchedByOneLoad
      <4> QED BY <3>2, <4>5 DEF Belated, Details
    <3> QED BY <3>1, <3>2 DEF CurrentOn
  <2>2. CASE ~DetailCall(d)
    <3>1. Forget(view)[d] = view[d]
      BY <2>2 DEF DetailCall, Forget, ViewFits
    <3>2. \A j \in 1..Len(seq) : Brings(seq[j], d) \/ Mends(seq[j], d) => j \in L
      BY <2>2 DEF DetailCall, Details, Brings, Mends
    <3>3. /\ view[d] = "stale" => \E j \in 1..Len(seq) : Brings(seq[j], d) \/ Mends(seq[j], d)
          /\ \A i \in 1..Len(seq) : Belated(seq[i], d) =>
               \E j \in 1..Len(seq) : (j > i /\ Brings(seq[j], d)) \/ Mends(seq[j], d)
      BY <2>2 DEF Current, CurrentOn
    <3>4. L \subseteq 1..Len(seq)
      OBVIOUS
    <3> HIDE DEF L
    <3> QED BY <3>1, <3>2, <3>3, <3>4 DEF CurrentOn
  <2> QED BY <2>1, <2>2
<1>4. Survivors(seq, Unmount(seq), h)
  BY <1>1 DEF Unmounting
<1> QED BY <1>2, <1>3, <1>4, ReindexedCurrent

\* New loads behind the others: they replace what they ask for and spoil nothing.
LEMMA JoinedCurrent ==
  ASSUME NEW s \in Seq(Instance), NEW t \in Seq(Instance), NEW view, NEW d,
         \A k \in 1..Len(t) : DOMAIN t[k].got = {},
         Current(s, view, d) \/ \E k \in 1..Len(t) : Brings(t[k], d)
  PROVE  Current(s \o t, view, d)
<1> DEFINE n == Len(s)
           m == Len(t)
           new == s \o t
<1>1. n \in Nat /\ m \in Nat /\ Len(new) = n + m
      /\ \A i \in 1..(n + m) : new[i] = IF i <= n THEN s[i] ELSE t[i - n]
  BY ConcatProperties
<1> HIDE DEF n, m, new
<1>2. ASSUME NEW i \in 1..n PROVE i \in 1..(n + m) /\ new[i] = s[i]
  <2>1. i \in 1..(n + m) /\ i <= n
    BY ONLY <1>1
  <2> QED BY <1>1, <2>1
<1>3. ASSUME NEW k \in 1..m
      PROVE  n + k \in 1..(n + m) /\ new[n + k] = t[k] /\ \A i \in 1..n : n + k > i
  <2>1. n + k \in 1..(n + m) /\ ~(n + k <= n) /\ (n + k) - n = k /\ \A i \in 1..n : n + k > i
    BY ONLY <1>1
  <2> QED BY <1>1, <2>1
<1>4. ASSUME NEW i \in 1..(n + m), Belated(new[i], d) PROVE i \in 1..n /\ Belated(s[i], d)
  <2>1. CASE i <= n
    <3>1. i \in 1..n
      BY ONLY <1>1, <2>1
    <3> QED BY <1>2, <1>4, <3>1
  <2>2. CASE ~(i <= n)
    <3>1. i - n \in 1..m
      BY ONLY <1>1, <2>2
    <3>2. new[i] = t[i - n]
      BY <1>1, <2>2
    <3>3. DOMAIN t[i - n].got = {}
      BY <3>1 DEF m
    <3> QED BY <1>4, <3>2, <3>3 DEF Belated
  <2> QED BY <2>1, <2>2
<1>5. CASE Current(s, view, d)
  <2>1. view[d] = "stale" => \E j \in 1..(n + m) : Brings(new[j], d) \/ Mends(new[j], d)
    <3>1. view[d] = "stale" => \E j \in 1..n : Brings(s[j], d) \/ Mends(s[j], d)
      BY <1>5 DEF Current, CurrentOn, n
    <3> QED BY <1>2, <3>1
  <2>2. ASSUME NEW i \in 1..(n + m), Belated(new[i], d)
        PROVE  \E j \in 1..(n + m) : (j > i /\ Brings(new[j], d)) \/ Mends(new[j], d)
    <3>1. i \in 1..n /\ Belated(s[i], d)
      BY <1>4, <2>2
    <3>2. PICK j \in 1..n : (j > i /\ Brings(s[j], d)) \/ Mends(s[j], d)
      BY <1>5, <3>1 DEF Current, CurrentOn, n
    <3> QED BY <1>2, <3>2
  <2> QED BY <1>1, <2>1, <2>2 DEF Current, CurrentOn, new
<1>6. CASE \E k \in 1..m : Brings(t[k], d)
  <2>1. PICK k \in 1..m : Brings(t[k], d)
    BY <1>6
  <2>2. n + k \in 1..(n + m) /\ Brings(new[n + k], d) /\ \A i \in 1..n : n + k > i
    BY <1>3, <2>1
  <2>3. \A i \in 1..(n + m) : Belated(new[i], d) => n + k > i
    BY <1>4, <2>2
  <2> QED BY <1>1, <2>2, <2>3 DEF Current, CurrentOn, new
<1> QED BY <1>5, <1>6 DEF m

LEMMA AppendedCurrent ==
  ASSUME NEW s \in Seq(Instance), NEW x \in Instance, NEW view, NEW d, DOMAIN x.got = {},
         Current(s, view, d) \/ Brings(x, d)
  PROVE  Current(Append(s, x), view, d)
<1>1. <<x>> \in Seq(Instance) /\ Len(<<x>>) = 1 /\ <<x>>[1] = x
  OBVIOUS
<1>2. \A k \in 1..Len(<<x>>) : DOMAIN <<x>>[k].got = {}
  BY <1>1
<1>3. Brings(x, d) => \E k \in 1..Len(<<x>>) : Brings(<<x>>[k], d)
  BY <1>1
<1>4. Current(s \o <<x>>, view, d)
  BY <1>1, <1>2, <1>3, JoinedCurrent
<1> QED BY <1>4, AppendIsConcat

\* A view that is no worse.
LEMMA BetterView ==
  ASSUME NEW seq, NEW view, NEW better, NEW d, Current(seq, view, d),
         better[d] = "stale" => view[d] = "stale"
  PROVE  Current(seq, better, d)
BY DEF Current, CurrentOn

LEMMA StartListCurrent ==
  ASSUME PageFits(page), page.list # NoLoad, NEW seq, AllFit(seq, page),
         NEW view, ViewFits(view, page), NEW b \in Text, NEW f \in Filters(page), NEW hide,
         StartList(seq, view, b, f, hide), NEW d \in CallsOf(page),
         Current(seq, view, d) \/ d \in Reading(page.list) \/ (hide /\ DetailCall(d))
  PROVE  Current(running', shown', d)
<1> DEFINE x   == Again(page.list, b, f)
           all == Append(seq, x)
<1>1. /\ x \in Instance /\ Fits(x, page) /\ DOMAIN x.got = {}
      /\ d \in Reading(page.list) => Brings(x, d)
  BY AgainFits, NoAnswersYet DEF IsLoad, Brings
<1>2. /\ running' = IF hide THEN Unmount(all) ELSE all
      /\ shown' = IF hide THEN Forget(view) ELSE view
  BY DEF StartList
<1> HIDE DEF x
<1>3. AllFit(all, page) /\ seq \in Seq(Instance)
  BY <1>1, AppendedFits DEF AllFit
<1>4. Current(seq, view, d) \/ d \in Reading(page.list) => Current(all, view, d)
  BY <1>1, <1>3, AppendedCurrent
<1> HIDE DEF all
<1>5. CASE hide
  BY <1>2, <1>3, <1>4, <1>5, UnmountedCurrent
<1>6. CASE ~hide
  BY <1>2, <1>4, <1>6
<1> QED BY <1>5, <1>6

LEMMA StartedCurrent ==
  ASSUME PageFits(page), NEW seq \in Seq(Instance), NEW loads \in SUBSET LoadsOf(page),
         IsFiniteSet(loads), NEW b \in Text, NEW view, NEW d,
         Current(seq, view, d) \/ \E l \in loads : d \in Reading(l)
  PROVE  Current(seq \o Started(loads, b), view, d)
<1> DEFINE t == Started(loads, b)
<1>1. /\ AllFit(t, page)
      /\ \A k \in 1..Len(t) : \E l \in loads : t[k] = Load(l, b, 0)
      /\ \A l \in loads : \E k \in 1..Len(t) : t[k] = Load(l, b, 0)
  BY StartedLoads
<1>2. \A l : /\ DOMAIN Load(l, b, 0).got = {}
             /\ d \in Reading(l) => Brings(Load(l, b, 0), d)
  BY NoAnswersYet DEF Load, Brings
<1> HIDE DEF t
<1>3. \A k \in 1..Len(t) : DOMAIN t[k].got = {}
  BY <1>1, <1>2
<1>4. (\E l \in loads : d \in Reading(l)) => \E k \in 1..Len(t) : Brings(t[k], d)
  BY <1>1, <1>2
<1>5. t \in Seq(Instance)
  BY <1>1 DEF AllFit
<1>6. Current(seq \o t, view, d)
  BY <1>3, <1>4, <1>5, JoinedCurrent
<1> QED BY <1>6 DEF t

\* The loads an act starts at its end bring what it put out of date.
Restarts(loads, d) ==
  \/ \E l \in loads : d \in Reading(l)
  \/ page.list \in loads /\ page.hides /\ DetailCall(d)

LEMMA EndCurrent ==
  ASSUME Base, NEW i \in 1..Len(running), running[i].act # "",
         NEW seq, AllFit(seq, page), Len(seq) = Len(running), seq[i].act = running[i].act,
         NEW view, ViewFits(view, page),
         NEW loads \in EndingLoads(running[i].act),
         End(seq, view, i, loads), NEW d \in CallsOf(page),
         \/ Current(seq, view, d) /\ ~Mends(seq[i], d)
         \/ ~running[i].stray /\ Restarts(loads, d)
  PROVE  Current(running', shown', d)
<1> DEFINE act  == page.acts[running[i].act]
           busy == IF act.awaits THEN running[i].busy ELSE ""
           rest == RemoveAt(seq, i)
<1>1. PageFits(page) /\ running[i] \in Instance /\ running[i].act \in DOMAIN page.acts
  <2>1. running[i] \in Instance /\ Fits(running[i], page)
    BY OneOfAll DEF Base
  <2> QED BY <2>1, PageOfThePortal DEF Fits, ActFor
<1>2. busy \in Text
  BY <1>1 DEF Instance, Text
<1>3. /\ loads \in SUBSET LoadsOf(page) /\ IsFiniteSet(loads)
      /\ page.list \in loads => loads = {page.list}
  BY <1>1, EndingLoadsFit
<1>4. AllFit(rest, page) /\ rest \in Seq(Instance)
  BY RemovedFits DEF AllFit
<1>5. running[i].filter \in Filters(page)
  BY OneOfAll DEF Base, Fits
<1>6. Current(seq, view, d) /\ ~Mends(seq[i], d) => Current(rest, view, d)
  <2>1. seq \in Seq(Instance) /\ i \in 1..Len(seq) /\ seq[i].act # ""
    BY DEF AllFit
  <2> QED BY <2>1, ActGoneCurrent
<1>7. page.list \in loads => page.list # NoLoad
  BY <1>1, <1>3 DEF PageFits, LoadsFit
<1> HIDE DEF busy, rest
<1>8. CASE page.list \in loads
  <2>1. StartList(rest, view, busy, running[i].filter, page.hides)
    BY <1>7, <1>8 DEF End, rest, busy
  <2>2. Restarts(loads, d) => d \in Reading(page.list) \/ (page.hides /\ DetailCall(d))
    <3>1. loads = {page.list}
      BY <1>3, <1>8
    <3> QED BY <3>1 DEF Restarts
  <2>3. Current(rest, view, d) \/ d \in Reading(page.list) \/ (page.hides /\ DetailCall(d))
    BY <1>6, <2>2
  <2> QED BY <1>1, <1>2, <1>4, <1>5, <1>7, <1>8, <2>1, <2>3, StartListCurrent
<1>9. CASE page.list \notin loads
  <2>1. /\ running' = rest \o IF running[i].stray THEN <<>> ELSE Started(loads, busy)
        /\ shown' = view
    BY <1>9 DEF End, rest, busy
  <2>2. CASE running[i].stray
    <3>2. Current(rest \o <<>>, view, d)
      BY <1>4, <1>6, <2>2, NothingStarted, JoinedCurrent
    <3> QED BY <2>1, <2>2, <3>2
  <2>3. CASE ~running[i].stray
    <3>1. Restarts(loads, d) => \E l \in loads : d \in Reading(l)
      BY <1>9 DEF Restarts
    <3>2. Current(rest \o Started(loads, busy), view, d)
      BY <1>1, <1>2, <1>3, <1>4, <1>6, <3>1, StartedCurrent
    <3> QED BY <2>1, <2>3, <3>2
  <2> QED BY <2>2, <2>3
<1> QED BY <1>8, <1>9

(***************************************************************************)
(* What the servers do keeps a page current.                               *)
(***************************************************************************)

\* Calls an act does not touch stay as they were.
LEMMA OutdatedCurrent ==
  ASSUME PageFits(page), AllFit(running, page), ViewFits(shown, page),
         NEW i \in 1..Len(running), running[i].act # "",
         NEW c \in Reading(page.acts[running[i].act].does), NEW d \in CallsOf(page), ~Touches(c, d)
  PROVE  /\ Current(running, shown, d) => Current(Outdated(c), Overwritten(i, c), d)
         /\ Mends(Outdated(c)[i], d) <=> Mends(running[i], d)
<1> DEFINE n == Len(running)
           got(j) == [e \in DOMAIN running[j].got |->
                        IF Touches(c, e) THEN "stale" ELSE running[j].got[e]]
<1>1. running[i].act \in DOMAIN page.acts
  BY DEF AllFit, Fits, ActFor
<1>2. /\ Len(Outdated(c)) = n
      /\ \A j \in 1..n :
           Became(running[j], Outdated(c)[j], running[j].left, got(j),
                  running[j].snap, running[j].wrote, running[j].stray)
  BY <1>1, OutdatedFits
<1>3. \A j \in 1..n :
        /\ d \in DOMAIN got(j) <=> d \in DOMAIN running[j].got
        /\ d \in DOMAIN running[j].got => got(j)[d] = running[j].got[d]
  OBVIOUS
<1> HIDE DEF got
<1>4. ASSUME NEW j \in 1..n
      PROVE  /\ Brings(running[j], d) <=> Brings(Outdated(c)[j], d)
             /\ Mends(running[j], d) <=> Mends(Outdated(c)[j], d)
             /\ Belated(running[j], d) <=> Belated(Outdated(c)[j], d)
  BY <1>2, <1>3 DEF Became, Brings, Mends, Belated
<1>5. Overwritten(i, c)[d] = shown[d]
  BY DEF Overwritten, ViewFits
<1> HIDE DEF n
<1>6. i \in 1..n
  BY DEF n
<1>7. Current(running, shown, d) => Current(Outdated(c), Overwritten(i, c), d)
  <2> SUFFICES ASSUME Current(running, shown, d)
               PROVE  Current(Outdated(c), Overwritten(i, c), d)
    OBVIOUS
  <2>1. /\ shown[d] = "stale" => \E j \in 1..n : Brings(running[j], d) \/ Mends(running[j], d)
        /\ \A k \in 1..n : Belated(running[k], d) =>
             \E j \in 1..n : (j > k /\ Brings(running[j], d)) \/ Mends(running[j], d)
    BY DEF Current, CurrentOn, n
  <2> QED BY <1>2, <1>4, <1>5, <2>1 DEF Current, CurrentOn
<1> QED BY <1>4, <1>6, <1>7

\* What an act puts out of date without painting it, it asks for at its end.
LEMMA TouchedIsHealed ==
  ASSUME PageFits(page), NEW a \in DOMAIN page.acts, NEW c \in Reading(page.acts[a].does),
         NEW d \in Due, Touches(c, d), ~Painted(page)
  PROVE  HealedBy(page, a, d)
<1>1. d \in TouchedBy(page, a)
  BY DEF Due, TouchedBy
<1>2. page.acts[a].paints = {}
  BY DEF Painted
<1> QED BY <1>1, <1>2 DEF PageFits, ActFits, Due

LEMMA HealedRestarts ==
  ASSUME NEW a, NEW d
  PROVE  HealedBy(page, a, d) <=> Restarts(page.acts[a].then, d)
BY DEF HealedBy, Restarts, DetailCall

\* A painted page has no loads while an act is under way, and shows nothing stale.
PaintOK ==
  Painted(page) => \A i \in 1..Len(running) : running[i].act = "" => hidden /\ Len(running) = 1

LEMMA NoLoadsCurrent ==
  ASSUME NEW seq, NEW view, NEW d, \A j \in 1..Len(seq) : seq[j].act # "", view[d] # "stale"
  PROVE  Current(seq, view, d)
BY DEF Current, CurrentOn, Belated

LEMMA PaintedIsFresh ==
  ASSUME Base, PaintOK, Painted(page), NEW i \in 1..Len(running), running[i].act # "",
         NEW d, Current(running, shown, d)
  PROVE  /\ \A j \in 1..Len(running) : running[j].act # ""
         /\ shown[d] # "stale"
<1>1. PageFits(page)
  BY PageOfThePortal
<1>2. \A j \in 1..Len(running) : running[j].act # ""
  <2> SUFFICES ASSUME NEW j \in 1..Len(running), running[j].act = "" PROVE FALSE
    OBVIOUS
  <2>1. Len(running) = 1
    BY DEF PaintOK
  <2>2. i = j
    BY ONLY <2>1, i \in 1..Len(running), j \in 1..Len(running)
  <2> QED BY <2>2
<1>3. \A j \in 1..Len(running) : ~Brings(running[j], d) /\ ~Mends(running[j], d)
  <2> TAKE j \in 1..Len(running)
  <2>1. running[j].act \in DOMAIN page.acts
    BY <1>2 DEF Base, AllFit, Fits, ActFor
  <2>2. ~HealedBy(page, running[j].act, d)
    BY <1>1, <2>1 DEF PageFits, PaintsFit, HealedBy
  <2> QED BY <1>2, <2>2 DEF Brings, Mends
<1>4. shown[d] # "stale"
  BY <1>3 DEF Current, CurrentOn
<1> QED BY <1>2, <1>4

\* A painted call is not overwritten, and no other call of a painted page is due.
LEMMA PaintedStays ==
  ASSUME PageFits(page), Painted(page), ViewFits(shown, page), NEW i,
         running[i].act \in DOMAIN page.acts, NEW c \in Reading(page.acts[running[i].act].does),
         NEW d \in Due, shown[d] # "stale"
  PROVE  Overwritten(i, c)[d] # "stale"
<1>1. ~HealedBy(page, running[i].act, d)
  BY DEF PageFits, PaintsFit, HealedBy
<1>2. Touches(c, d) => d \in page.acts[running[i].act].paints
  <2>1. Touches(c, d) => d \in TouchedBy(page, running[i].act)
    BY DEF TouchedBy, Due
  <2> QED BY <1>1, <2>1 DEF PageFits, ActFits, Due
<1> QED BY <1>2 DEF Overwritten, ViewFits, Due

NoWorse(x, y, d) ==
  /\ Brings(x, d) => Brings(y, d)
  /\ Mends(x, d) => Mends(y, d)
  /\ Belated(y, d) => Belated(x, d)
Improved(s, t, d) == Len(t) = Len(s) /\ \A j \in 1..Len(s) : NoWorse(s[j], t[j], d)

LEMMA NoWorseThanItself == \A x, d : NoWorse(x, x, d)
BY DEF NoWorse

LEMMA ImprovedCurrent ==
  ASSUME NEW s, NEW t, NEW view, NEW d, Current(s, view, d), Improved(s, t, d)
  PROVE  Current(t, view, d)
<1>1. /\ view[d] = "stale" => \E j \in 1..Len(s) : Brings(s[j], d) \/ Mends(s[j], d)
      /\ \A k \in 1..Len(s) : Belated(s[k], d) =>
           \E j \in 1..Len(s) : (j > k /\ Brings(s[j], d)) \/ Mends(s[j], d)
  BY DEF Current, CurrentOn
<1> QED BY <1>1 DEF Current, CurrentOn, Improved, NoWorse

LEMMA ReplacedImproved ==
  ASSUME NEW s \in Seq(Instance), NEW i \in 1..Len(s), NEW y, NEW d, NoWorse(s[i], y, d)
  PROVE  Improved(s, [s EXCEPT ![i] = y], d)
<1>1. DOMAIN s = 1..Len(s) /\ Len(s) \in Nat
  OBVIOUS
<1>2. Len([s EXCEPT ![i] = y]) = Len(s)
  BY <1>1
<1>3. \A j \in 1..Len(s) : [s EXCEPT ![i] = y][j] = IF j = i THEN y ELSE s[j]
  BY <1>1
<1> QED BY <1>2, <1>3, NoWorseThanItself DEF Improved

LEMMA MendedCurrent ==
  ASSUME NEW seq, NEW view, NEW d, NEW i \in 1..Len(seq), Mends(seq[i], d)
  PROVE  Current(seq, view, d)
BY DEF Current, CurrentOn

LEMMA ServeReadCurrent ==
  ASSUME Base, NEW i \in DOMAIN running, NEW c \in Head(running[i].left), ServeRead(i, c),
         NEW d, Current(running, shown, d)
  PROVE  Current(running', shown', d)
<1> DEFINE x == running[i]
           y == WithAnswer(x, c)
<1>1. /\ x \in Instance /\ running' = [running EXCEPT ![i] = y] /\ shown' = shown
      /\ c \notin DOMAIN x.got /\ DOMAIN running = 1..Len(running) /\ running \in Seq(Instance)
      /\ i \in 1..Len(running)
  BY Waiting DEF ServeRead, Serving, Base, AllFit
<1>2. /\ y.act = x.act /\ y.load = x.load /\ y.stray = x.stray /\ y.wrote = x.wrote
      /\ DOMAIN y.got = DOMAIN x.got \cup {c}
      /\ \A e \in DOMAIN y.got : y.got[e] = IF e = c THEN "fresh" ELSE x.got[e]
  BY <1>1 DEF WithAnswer, Instance
<1> HIDE DEF x, y
<1>3. NoWorse(x, y, d)
  BY <1>1, <1>2 DEF Brings, Mends, Belated, NoWorse
<1>5. Improved(running, running', d)
  BY <1>1, <1>3, ReplacedImproved DEF x
<1>6. Current(running', shown, d)
  BY <1>5, ImprovedCurrent
<1> QED BY <1>1, <1>6

LEMMA ServeStepCurrent ==
  ASSUME Base, PaintOK, NEW i \in DOMAIN running, NEW c \in Head(running[i].left), ServeStep(i, c),
         NEW d \in Due, Current(running, shown, d)
  PROVE  Current(running', shown', d)
<1> DEFINE s == Outdated(c)
           y == WithCallDone(s[i])
           a == running[i].act
<1>1. /\ PageFits(page) /\ AllFit(running, page) /\ ViewFits(shown, page) /\ i \in 1..Len(running)
      /\ a # "" /\ a \in DOMAIN page.acts /\ c \in Reading(page.acts[a].does)
      /\ d \in CallsOf(page)
  BY PageOfThePortal, Waiting DEF ServeStep, Served, Base, Due
<1>2. /\ AllFit(s, page) /\ Len(s) = Len(running)
      /\ \A j \in 1..Len(running) : s[j].act = running[j].act
  BY <1>1, OutdatedFits DEF Became
<1>3. s \in Seq(Instance) /\ i \in 1..Len(s) /\ s[i] \in Instance
  <2>1. s \in Seq(Instance)
    BY <1>2 DEF AllFit
  <2>2. i \in 1..Len(s)
    BY <1>1, <1>2
  <2> QED BY ONLY <2>1, <2>2
<1>4. y.act = a /\ y.wrote = TRUE
  BY <1>1, <1>2, <1>3 DEF WithCallDone, Instance
<1>5. running' = [s EXCEPT ![i] = y] /\ shown' = Overwritten(i, c)
  BY DEF ServeStep
<1> HIDE DEF s, y
<1>6. /\ Len(running') = Len(s) /\ i \in 1..Len(running')
      /\ \A j \in 1..Len(s) : running'[j] = IF j = i THEN y ELSE s[j]
  BY ONLY <1>3, <1>5
<1>7. CASE ~Touches(c, d)
  <2>1. Current(s, Overwritten(i, c), d)
    BY <1>1, <1>7, OutdatedCurrent DEF s
  <2>2. NoWorse(s[i], y, d)
    BY <1>1, <1>2, <1>4 DEF Brings, Mends, Belated, NoWorse
  <2>3. Improved(s, running', d)
    BY <1>3, <1>5, <2>2, ReplacedImproved
  <2>4. Current(running', Overwritten(i, c), d)
    BY <2>1, <2>3, ImprovedCurrent
  <2> QED BY <1>5, <2>4
<1>8. CASE Touches(c, d) /\ ~Painted(page)
  <2>1. HealedBy(page, a, d)
    BY <1>1, <1>8, TouchedIsHealed
  <2>2. Mends(running'[i], d)
    BY <1>1, <1>2, <1>4, <1>6, <2>1 DEF Mends
  <2> QED BY <1>6, <2>2, MendedCurrent
<1>9. CASE Painted(page)
  <2>1. /\ \A j \in 1..Len(running) : running[j].act # ""
        /\ shown[d] # "stale"
    BY <1>1, <1>9, PaintedIsFresh
  <2>2. Overwritten(i, c)[d] # "stale"
    BY <1>1, <1>9, <2>1, PaintedStays
  <2>3. \A j \in 1..Len(running') : running'[j].act # ""
    BY <1>1, <1>2, <1>4, <1>6, <2>1
  <2> QED BY <1>5, <2>2, <2>3, NoLoadsCurrent
<1> QED BY <1>7, <1>8, <1>9

LEMMA SucceedCurrent ==
  ASSUME Base, PaintOK, NEW i \in DOMAIN running, NEW c \in Head(running[i].left), Succeed(i, c),
         ~disturbed', NEW d \in Due, Current(running, shown, d)
  PROVE  Current(running', shown', d) \/ Promised(dialog', d)
<1> DEFINE s == Outdated(c)
           v == Overwritten(i, c)
           a == running[i].act
<1>1. /\ PageFits(page) /\ AllFit(running, page) /\ ViewFits(shown, page) /\ i \in 1..Len(running)
      /\ a # "" /\ a \in DOMAIN page.acts /\ c \in Reading(page.acts[a].does)
      /\ d \in CallsOf(page)
  BY PageOfThePortal, Waiting DEF Succeed, Served, Base, Due
<1>2. /\ AllFit(s, page) /\ Len(s) = Len(running)
      /\ \A j \in 1..Len(running) : s[j].act = running[j].act
  BY <1>1, OutdatedFits DEF Became
<1>3. ViewFits(v, page)
  BY <1>1, OverwrittenFits
<1>4. /\ ~running[i].stray /\ End(s, v, i, Reloads(i)) /\ ~Unwatched(i)
      /\ Reloads(i) \in EndingLoads(a)
  BY ReloadsAreEndingLoads DEF Succeed
<1> HIDE DEF s, v
<1>5. CASE HealedBy(page, a, d)
  <2>1. CASE page.acts[a].follow
    <3>1. dialog.progress /\ dialog.act = a
      BY <1>4, <2>1 DEF Unwatched
    <3>2. dialog' = dialog
      BY <2>1 DEF Succeed
    <3> QED BY <1>5, <3>1, <3>2 DEF Promised
  <2>2. CASE ~page.acts[a].follow
    <3>1. Restarts(Reloads(i), d)
      BY <1>5, <2>2, HealedRestarts DEF Reloads
    <3> QED BY <1>1, <1>2, <1>3, <1>4, <3>1, EndCurrent
  <2> QED BY <2>1, <2>2
<1>6. CASE ~HealedBy(page, a, d)
  <2>1. ~Mends(s[i], d)
    BY <1>1, <1>2, <1>6 DEF Mends
  <2>2. Current(s, v, d)
    <3>1. CASE ~Painted(page)
      <4>1. ~Touches(c, d)
        BY <1>1, <1>6, <3>1, TouchedIsHealed
      <4> QED BY <1>1, <4>1, OutdatedCurrent DEF s, v
    <3>2. CASE Painted(page)
      <4>1. /\ \A j \in 1..Len(running) : running[j].act # ""
            /\ shown[d] # "stale"
        BY <1>1, <3>2, PaintedIsFresh
      <4>2. v[d] # "stale"
        BY <1>1, <3>2, <4>1, PaintedStays DEF v
      <4> QED BY <1>2, <4>1, <4>2, NoLoadsCurrent
    <3> QED BY <3>1, <3>2
  <2> QED BY <1>1, <1>2, <1>3, <1>4, <2>1, <2>2, EndCurrent
<1> QED BY <1>5, <1>6

LEMMA FailActCurrent ==
  ASSUME Base, NEW i \in DOMAIN running, FailAct(i), ~disturbed',
         NEW d \in CallsOf(page), Current(running, shown, d)
  PROVE  Current(running', shown', d)
<1>1. /\ AllFit(running, page) /\ ViewFits(shown, page) /\ i \in 1..Len(running)
      /\ running[i].act # "" /\ ~running[i].wrote
      /\ End(running, shown, i, page.acts[running[i].act].recover)
  BY Waiting DEF FailAct, Base
<1>2. ~Mends(running[i], d)
  BY <1>1 DEF Mends
<1> QED BY <1>1, <1>2, EndCurrent, ReloadsAreEndingLoads

\* A stage of load i lands: what it shows is right, or somebody asks for it again.
\* The load itself goes on only if it has another stage.
Shows(x, view) == [c \in DOMAIN view |-> IF c \in DOMAIN x.got THEN x.got[c] ELSE view[c]]
LEMMA LandedCurrent ==
  ASSUME Base, NEW i \in DOMAIN running, running[i].act = "", ~running[i].stray,
         Head(running[i].left) \subseteq DOMAIN running[i].got,
         NEW d \in CallsOf(page), Current(running, shown, d)
  PROVE  CurrentOn(Landed(i), Shows(running[i], shown), d,
                   1..Len(running) \ {k \in {i} : ~(Len(running[i].left) > 1)})
<1> DEFINE x == running[i]
           t == Landed(i)
           n == Len(running)
           L == 1..n \ {k \in {i} : ~(Len(x.left) > 1)}
           view == Shows(x, shown)
           Over(j) == j = i \/ j \in Older(i)
<1>1. /\ PageFits(page) /\ ViewFits(shown, page) /\ x \in Instance /\ Fits(x, page)
      /\ x.left \in Stages /\ x.left # <<>> /\ i \in 1..n
      /\ \A j \in 1..n : running[j] \in Instance /\ Fits(running[j], page)
  BY PageOfThePortal, Waiting DEF Base, AllFit
<1>2. /\ \A j \in 1..n : j # i =>
           /\ Became(running[j], t[j], running[j].left, running[j].got, running[j].snap,
                     running[j].wrote, t[j].stray)
           /\ t[j].stray = IF j \in Older(i) THEN TRUE ELSE running[j].stray
      /\ t[i].act = "" /\ t[i].load = x.load /\ t[i].got = NoAnswers /\ ~t[i].stray
  BY LandedFits DEF Became
<1>3. \A j \in Older(i) : j < i /\ running[j].act = "" /\ running[j].load = x.load
  <2>1. i \in Int
    BY ONLY <1>1
  <2>2. \A j \in 1..(i - 1) : j < i
    BY ONLY <2>1
  <2> QED BY <2>2 DEF Older
<1>4. \A j \in 1..n : j < i /\ running[j].act = "" /\ running[j].load = x.load => j \in Older(i)
  <2>1. i \in Int
    BY ONLY <1>1
  <2>2. \A j \in 1..n : j < i => j \in 1..(i - 1)
    BY ONLY <2>1
  <2> QED BY <2>2 DEF Older
<1>5. ASSUME NEW j \in 1..n, ~Over(j)
      PROVE  /\ Brings(running[j], d) <=> Brings(t[j], d)
             /\ Mends(running[j], d) <=> Mends(t[j], d)
             /\ Belated(running[j], d) <=> Belated(t[j], d)
  BY <1>2, <1>5, SameRole
<1>6. \A j \in 1..n : Mends(running[j], d) => ~Over(j)
  BY <1>3 DEF Mends
<1>7. ASSUME NEW j \in 1..n, Belated(t[j], d) PROVE ~Over(j)
  BY <1>2, <1>7, NoAnswersYet DEF Belated
<1>8. Brings(t[i], d) <=> d \in Reading(x.load)
  BY <1>2, NoAnswersYet DEF Brings
<1>9. \A j \in 1..n : Over(j) /\ Brings(running[j], d) => d \in Reading(x.load)
  BY <1>3 DEF Brings
<1>10. ASSUME d \in Touched(page), d \in Reading(x.load), ~(Len(x.left) > 1)
       PROVE  d \in DOMAIN x.got
  <2>1. d \in x.left[Len(x.left)]
    BY <1>1, <1>10 DEF Fits, LoadFor
  <2>2. Len(x.left) = 1
    <3> DEFINE m == Len(x.left)
    <3>1. m \in Nat \ {0} /\ ~(m > 1)
      BY <1>1, <1>10, StagesOf
    <3> HIDE DEF m
    <3>2. m = 1
      BY ONLY <3>1
    <3> QED BY <3>2 DEF m
  <2>3. Head(x.left) = x.left[1]
    BY <1>1, StagesOf
  <2> QED BY <2>1, <2>2, <2>3
<1>11. \A j \in 1..n : ~Over(j) => j \in L
  OBVIOUS
<1>12. Len(x.left) > 1 => i \in L
  BY <1>1
<1>13. /\ shown[d] = "stale" => \E j \in 1..n : Brings(running[j], d) \/ Mends(running[j], d)
       /\ \A k \in 1..n : Belated(running[k], d) =>
            \E j \in 1..n : (j > k /\ Brings(running[j], d)) \/ Mends(running[j], d)
  BY DEF Current, CurrentOn
<1>14. L \subseteq 1..n
  OBVIOUS
<1>15. view[d] = IF d \in DOMAIN x.got THEN x.got[d] ELSE shown[d]
  BY <1>1 DEF Shows, ViewFits
<1>16. i \in Int /\ \A j \in 1..n : j \in Int
  BY ONLY <1>1
<1> HIDE DEF L, t, n, view
<1>17. ASSUME view[d] = "stale"
       PROVE  \E j \in L : Brings(t[j], d) \/ Mends(t[j], d)
  <2>1. CASE d \in DOMAIN x.got
    <3>1. Belated(x, d)
      BY <1>15, <1>17, <2>1 DEF Belated
    <3>2. PICK j \in 1..n : (j > i /\ Brings(running[j], d)) \/ Mends(running[j], d)
      BY <1>1, <1>13, <3>1
    <3>3. j > i => ~Over(j)
      <4>1. \A k \in Older(i) : k < i
        BY <1>3
      <4> SUFFICES ASSUME j > i, Over(j) PROVE FALSE
        OBVIOUS
      <4>2. j < i \/ j = i
        BY <4>1
      <4>3. j > i
        OBVIOUS
      <4> QED BY ONLY <1>16, <4>2, <4>3, j \in 1..n
    <3>4. ~Over(j)
      BY <1>6, <3>2, <3>3
    <3> QED BY <1>5, <1>11, <3>2, <3>4
  <2>2. CASE d \notin DOMAIN x.got
    <3>1. d \in Touched(page) /\ shown[d] = "stale"
      BY <1>1, <1>15, <1>17, <2>2 DEF ViewFits
    <3>2. PICK j \in 1..n : Brings(running[j], d) \/ Mends(running[j], d)
      BY <1>13, <3>1
    <3>3. CASE ~Over(j)
      BY <1>5, <1>11, <3>2, <3>3
    <3>4. CASE Over(j)
      <4>1. d \in Reading(x.load)
        BY <1>6, <1>9, <3>2, <3>4
      <4>2. Len(x.left) > 1
        BY <1>10, <2>2, <3>1, <4>1
      <4> QED BY <1>8, <1>12, <4>1, <4>2
    <3> QED BY <3>3, <3>4
  <2> QED BY <2>1, <2>2
<1>18. ASSUME NEW k \in L, Belated(t[k], d)
       PROVE  \E j \in L : (j > k /\ Brings(t[j], d)) \/ Mends(t[j], d)
  <2>1. k \in 1..n /\ ~Over(k) /\ Belated(running[k], d)
    BY <1>5, <1>7, <1>14, <1>18
  <2>2. PICK j \in 1..n : (j > k /\ Brings(running[j], d)) \/ Mends(running[j], d)
    BY <1>13, <2>1
  <2>3. CASE ~Over(j)
    BY <1>5, <1>11, <2>2, <2>3
  <2>4. CASE Over(j)
    <3>1. j > k /\ Brings(running[j], d) /\ d \in Reading(x.load)
      BY <1>6, <1>9, <2>2, <2>4
    <3>2. /\ d \in Touched(page) /\ running[k].load \in LoadsOf(page)
          /\ d \in Reading(running[k].load) /\ running[k].act = ""
      BY <1>1, <2>1, BelatedIsTouched DEF Belated
    <3>3. x.load \in LoadsOf(page)
      BY <1>1 DEF Fits, LoadFor
    <3>4. running[k].load = x.load
      BY <1>1, <3>1, <3>2, <3>3, TouchedByOneLoad
    <3>5. k < i
      <4>1. j < i \/ j = i
        BY <1>3, <2>4
      <4>2. j > k
        BY <3>1
      <4> QED BY ONLY <1>16, <4>1, <4>2, <2>1, j \in 1..n
    <3>6. k \in Older(i)
      BY <1>4, <2>1, <3>2, <3>4, <3>5
    <3> QED BY <2>1, <3>6
  <2> QED BY <2>3, <2>4
<1> QED BY <1>17, <1>18 DEF CurrentOn, L, n, t, view

LEMMA DetailsBack ==
  ASSUME PageFits(page), NEW seq \in Seq(Instance), NEW view, NEW d, Current(seq, view, d),
         ShowList(seq)
  PROVE  Current(running', view, d)
<1>1. page.details \in SUBSET LoadsOf(page) /\ IsFiniteSet(page.details) /\ "" \in Text
  BY DEF PageFits, LoadsFit, LoadsOf, Text
<1>2. Current(seq \o MountDetails, view, d)
  BY <1>1, StartedCurrent DEF MountDetails
<1> QED BY <1>2 DEF ShowList

LEMMA LandCurrent ==
  ASSUME Base, NEW i \in DOMAIN running, Land(i), ~disturbed',
         NEW d \in CallsOf(page), Current(running, shown, d)
  PROVE  Current(running', shown', d)
<1> DEFINE x == running[i]
           rest == RemoveAt(Landed(i), i)
           view == Shows(x, shown)
<1>1. /\ PageFits(page) /\ x \in Instance /\ Fits(x, page) /\ i \in 1..Len(running)
      /\ x.act = "" /\ ~x.stray /\ Head(x.left) \subseteq DOMAIN x.got /\ shown' = view
  BY PageOfThePortal, Waiting DEF Land, Shows
<1>2. Landed(i) \in Seq(Instance) /\ Len(Landed(i)) = Len(running)
  BY <1>1, LandedFits
<1>3. CASE Len(x.left) > 1
  <2>1. 1..Len(running) \ {k \in {i} : ~(Len(x.left) > 1)} = 1..Len(running)
    BY <1>3
  <2>2. CurrentOn(Landed(i), view, d, 1..Len(running))
    BY <1>1, <2>1, LandedCurrent
  <2>3. running' = Landed(i)
    BY <1>3 DEF Land
  <2> QED BY <1>1, <1>2, <2>2, <2>3 DEF Current
<1>4. CASE ~(Len(x.left) > 1)
  <2>1. 1..Len(running) \ {k \in {i} : ~(Len(x.left) > 1)} = 1..Len(running) \ {i}
    BY <1>4
  <2>2. CurrentOn(Landed(i), view, d, 1..Len(running) \ {i})
    BY <1>1, <2>1, LandedCurrent
  <2>3. Current(rest, view, d)
    BY <1>1, <1>2, <2>2, RemovedCurrent
  <2>4. rest \in Seq(Instance)
    BY <1>1, <1>2, RemoveAtElements
  <2> HIDE DEF rest, view
  <2>5. CASE IsList(i)
    <3>1. ShowList(rest)
      BY <1>4, <2>5 DEF Land, rest
    <3> QED BY <1>1, <2>3, <2>4, <3>1, DetailsBack
  <2>6. CASE ~IsList(i) /\ page.first # NoLoad /\ x.load = page.first
    <3>1. running' = Append(rest, Load(page.list, "", filter))
      BY <1>4, <2>6 DEF Land, rest
    <3>2. Load(page.list, "", filter) \in Instance /\ DOMAIN Load(page.list, "", filter).got = {}
      <4>1. page.list \in LoadsOf(page) /\ "" \in Text /\ filter \in Filters(page)
        BY <1>1, <2>6, ListIsALoad DEF PageFits, LoadsFit, Text, Base
      <4> QED BY <1>1, <4>1, NewLoadFits, NoAnswersYet DEF Load
    <3> QED BY <1>1, <2>3, <2>4, <3>1, <3>2, AppendedCurrent
  <2>7. CASE ~IsList(i) /\ ~(page.first # NoLoad /\ x.load = page.first)
    BY <1>1, <1>4, <2>3, <2>7 DEF Land, rest
  <2> QED BY <2>5, <2>6, <2>7
<1> QED BY <1>3, <1>4

\* The list ends early only when nothing it would still bring is on the screen or
\* in an answer under way.
LEMMA EndEarlyCurrent ==
  ASSUME Base, NEW i \in DOMAIN running, EndEarly(i), NEW d \in CallsOf(page),
         Current(running, shown, d)
  PROVE  Current(running', shown', d)
<1> DEFINE x == running[i]
           n == Len(running)
<1>1. /\ PageFits(page) /\ ViewFits(shown, page) /\ x \in Instance /\ Fits(x, page)
      /\ x.left \in Stages /\ x.left # <<>> /\ i \in 1..n /\ DOMAIN running = 1..n
      /\ running \in Seq(Instance)
      /\ \A j \in 1..n : running[j] \in Instance /\ Fits(running[j], page)
  BY PageOfThePortal, Waiting DEF Base, AllFit
<1>2. /\ x.act = "" /\ Len(x.left) > 1 /\ shown' = shown /\ ShowList(RemoveAt(running, i))
      /\ \A c \in Reading(Tail(x.left)) :
           shown[c] = "nothing" /\ \A j \in DOMAIN running : c \notin Head(running[j].left)
  BY DEF EndEarly
<1>3. ASSUME d \in Touched(page), Brings(x, d) PROVE d \in Reading(Tail(x.left))
  <2>1. d \in x.left[Len(x.left)]
    BY <1>1, <1>2, <1>3 DEF Brings, Fits, LoadFor
  <2> DEFINE m == Len(x.left)
  <2>2. /\ m \in Nat /\ m > 1 /\ Len(Tail(x.left)) = m - 1 /\ Tail(x.left) \in Stages
        /\ \A k \in 1..(m - 1) : Tail(x.left)[k] = x.left[k + 1]
        /\ Tail(x.left) # <<>>
    BY <1>1, <1>2, StagesOf
  <2>3. DOMAIN Tail(x.left) = 1..(m - 1)
    BY <2>2, StagesOf
  <2> HIDE DEF m
  <2>4. m - 1 \in 1..(m - 1) /\ (m - 1) + 1 = m
    BY ONLY <2>2
  <2>5. d \in Tail(x.left)[m - 1] /\ m - 1 \in DOMAIN Tail(x.left)
    BY <2>1, <2>2, <2>3, <2>4 DEF m
  <2> QED BY <2>5 DEF Reading
<1>4. /\ shown[d] = "stale" => \E j \in 1..n : Brings(running[j], d) \/ Mends(running[j], d)
      /\ \A k \in 1..n : Belated(running[k], d) =>
           \E j \in 1..n : (j > k /\ Brings(running[j], d)) \/ Mends(running[j], d)
  BY DEF Current, CurrentOn
<1>5. ~Mends(x, d)
  BY <1>2 DEF Mends
<1>6. CurrentOn(running, shown, d, 1..n \ {i})
  <2>1. CASE ~Brings(x, d)
    BY <1>4, <1>5, <2>1 DEF CurrentOn
  <2>2. CASE Brings(x, d)
    <3>1. shown[d] # "stale"
      BY <1>1, <1>2, <1>3, <2>2 DEF ViewFits
    <3>2. ASSUME NEW k \in 1..n, Belated(running[k], d) PROVE FALSE
      <4>1. d \in Touched(page) /\ d \in Head(running[k].left)
        BY <1>1, <3>2, BelatedIsTouched
      <4> QED BY <1>1, <1>2, <1>3, <2>2, <4>1
    <3> QED BY <3>1, <3>2 DEF CurrentOn
  <2> QED BY <2>1, <2>2
<1>7. Current(RemoveAt(running, i), shown, d) /\ RemoveAt(running, i) \in Seq(Instance)
  BY <1>1, <1>6, RemovedCurrent, RemoveAtElements
<1> QED BY <1>1, <1>2, <1>7, DetailsBack

(***************************************************************************)
(* The filter of the list shown.                                           *)
(***************************************************************************)

\* A reload of the list under the filter f, that nothing has overtaken.
Fresh(x, f) == ListLoad(x) /\ ~x.stray /\ x.filter = f
Other(x, f) == ListLoad(x) /\ ~x.stray /\ x.filter # f

\* The list shown has the filter f, or a reload under f lands behind all others.
FilteredOn(seq, sf, f, L) ==
  /\ sf # f => \E j \in L : Fresh(seq[j], f)
  /\ \A i \in L : Other(seq[i], f) => \E j \in L : j > i /\ Fresh(seq[j], f)
Filtered(seq, sf, f) == FilteredOn(seq, sf, f, 1..Len(seq))

LEMMA SameList ==
  ASSUME NEW x, NEW y, NEW stray, NEW f,
         Became(x, y, x.left, x.got, x.snap, x.wrote, stray), x.act = "" => stray = x.stray
  PROVE  (Fresh(x, f) <=> Fresh(y, f)) /\ (Other(x, f) <=> Other(y, f))
BY DEF Became, Fresh, Other, ListLoad

LEMMA ReindexedFiltered ==
  ASSUME NEW old, NEW new, NEW h, Survivors(old, new, h), NEW sf, NEW f,
         FilteredOn(old, sf, f, {h[k] : k \in 1..Len(new)})
  PROVE  Filtered(new, sf, f)
<1> DEFINE K == 1..Len(new)
           L == {h[k] : k \in K}
<1>1. /\ h \in [K -> 1..Len(old)] /\ \A k, m \in K : k < m => h[k] < h[m]
      /\ \A k \in K :
           /\ Became(old[h[k]], new[k], old[h[k]].left, old[h[k]].got, old[h[k]].snap,
                     old[h[k]].wrote, new[k].stray)
           /\ old[h[k]].act = "" => new[k].stray = old[h[k]].stray
  BY DEF Survivors
<1>2. \A k \in K : /\ Fresh(old[h[k]], f) <=> Fresh(new[k], f)
                   /\ Other(old[h[k]], f) <=> Other(new[k], f)
  BY <1>1, SameList
<1>3. \A k, m \in K : h[k] > h[m] => k > m
  <2> TAKE k, m \in K
  <2>3. h \in [K -> 1..Len(old)] /\ k \in K /\ m \in K
    BY <1>1
  <2>1. k \in Int /\ m \in Int /\ h[k] \in Int /\ h[m] \in Int
    BY ONLY <2>3
  <2>2. k < m => h[k] < h[m]
    BY <1>1
  <2> QED BY ONLY <2>1, <2>2
<1>4. /\ sf # f => \E j \in L : Fresh(old[j], f)
      /\ \A i \in L : Other(old[i], f) => \E j \in L : j > i /\ Fresh(old[j], f)
  BY DEF FilteredOn
<1> HIDE DEF K
<1>5. sf # f => \E k \in K : Fresh(new[k], f)
  BY <1>2, <1>4
<1>6. ASSUME NEW k \in K, Other(new[k], f)
      PROVE  \E m \in K : m > k /\ Fresh(new[m], f)
  <2>1. PICK j \in L : j > h[k] /\ Fresh(old[j], f)
    BY <1>2, <1>4, <1>6
  <2>2. PICK m \in K : j = h[m]
    OBVIOUS
  <2> QED BY <1>2, <1>3, <2>1, <2>2
<1> QED BY <1>5, <1>6 DEF Filtered, FilteredOn, K

LEMMA RemovedFiltered ==
  ASSUME NEW seq \in Seq(Instance), NEW i \in 1..Len(seq), NEW sf, NEW f,
         FilteredOn(seq, sf, f, 1..Len(seq) \ {i})
  PROVE  Filtered(RemoveAt(seq, i), sf, f)
<1>1. PICK h : Removal(seq, RemoveAt(seq, i), i, h)
  BY RemoveKeepsOrder
<1>2. {h[k] : k \in 1..Len(RemoveAt(seq, i))} = 1..Len(seq) \ {i}
  <2>1. \A k \in 1..Len(RemoveAt(seq, i)) : h[k] \in 1..Len(seq) \ {i}
    BY <1>1 DEF Removal, Survivors
  <2>2. \A j \in 1..Len(seq) \ {i} : \E k \in 1..Len(RemoveAt(seq, i)) : h[k] = j
    BY <1>1 DEF Removal
  <2> QED BY <2>1, <2>2
<1>3. Survivors(seq, RemoveAt(seq, i), h)
  BY <1>1 DEF Removal
<1> QED BY <1>2, <1>3, ReindexedFiltered

\* Anything but the list may go.
LEMMA GoneFiltered ==
  ASSUME NEW seq \in Seq(Instance), NEW i \in 1..Len(seq), NEW sf, NEW f,
         Filtered(seq, sf, f), ~ListLoad(seq[i])
  PROVE  Filtered(RemoveAt(seq, i), sf, f)
<1>1. ~Fresh(seq[i], f)
  BY DEF Fresh
<1>2. FilteredOn(seq, sf, f, 1..Len(seq) \ {i})
  BY <1>1 DEF Filtered, FilteredOn
<1> QED BY <1>2, RemovedFiltered

LEMMA UnmountedFiltered ==
  ASSUME PageFits(page), NEW seq, AllFit(seq, page), NEW sf, NEW f, Filtered(seq, sf, f)
  PROVE  Filtered(Unmount(seq), sf, f)
<1> DEFINE L == {i \in 1..Len(seq) : ~Details(seq[i])}
<1>1. PICK h : Unmounting(seq, Unmount(seq), h)
  BY UnmountKeepsOthers
<1>2. {h[k] : k \in 1..Len(Unmount(seq))} = L
  <2>1. ASSUME NEW k \in 1..Len(Unmount(seq)) PROVE h[k] \in L
    <3>1. /\ h[k] \in 1..Len(seq) /\ ~Details(Unmount(seq)[k])
          /\ Unmount(seq)[k].act = seq[h[k]].act /\ Unmount(seq)[k].load = seq[h[k]].load
      BY <1>1 DEF Unmounting, Survivors, Became
    <3> QED BY <3>1 DEF Details
  <2>2. \A j \in L : \E k \in 1..Len(Unmount(seq)) : h[k] = j
    BY <1>1 DEF Unmounting
  <2> QED BY <2>1, <2>2
<1>3. FilteredOn(seq, sf, f, L)
  <2>1. page.list \notin page.details
    BY DEF PageFits, LoadsFit
  <2>2. \A j \in 1..Len(seq) : Fresh(seq[j], f) => j \in L
    BY <2>1 DEF Fresh, ListLoad, Details
  <2>3. /\ sf # f => \E j \in 1..Len(seq) : Fresh(seq[j], f)
        /\ \A i \in 1..Len(seq) : Other(seq[i], f) =>
             \E j \in 1..Len(seq) : j > i /\ Fresh(seq[j], f)
    BY DEF Filtered, FilteredOn
  <2>4. L \subseteq 1..Len(seq)
    OBVIOUS
  <2> HIDE DEF L
  <2> QED BY <2>2, <2>3, <2>4 DEF FilteredOn
<1>4. Survivors(seq, Unmount(seq), h)
  BY <1>1 DEF Unmounting
<1> QED BY <1>2, <1>3, <1>4, ReindexedFiltered

\* What starts behind the others is no list, or one under the filter f.
LEMMA JoinedFiltered ==
  ASSUME NEW s \in Seq(Instance), NEW t \in Seq(Instance), NEW sf, NEW f,
         \A k \in 1..Len(t) : ~Other(t[k], f),
         Filtered(s, sf, f) \/ \E k \in 1..Len(t) : Fresh(t[k], f)
  PROVE  Filtered(s \o t, sf, f)
<1> DEFINE n == Len(s)
           m == Len(t)
           new == s \o t
<1>1. n \in Nat /\ m \in Nat /\ Len(new) = n + m
      /\ \A i \in 1..(n + m) : new[i] = IF i <= n THEN s[i] ELSE t[i - n]
  BY ConcatProperties
<1> HIDE DEF n, m, new
<1>2. ASSUME NEW i \in 1..n PROVE i \in 1..(n + m) /\ new[i] = s[i]
  <2>1. i \in 1..(n + m) /\ i <= n
    BY ONLY <1>1
  <2> QED BY <1>1, <2>1
<1>3. ASSUME NEW k \in 1..m
      PROVE  n + k \in 1..(n + m) /\ new[n + k] = t[k] /\ \A i \in 1..n : n + k > i
  <2>1. n + k \in 1..(n + m) /\ ~(n + k <= n) /\ (n + k) - n = k /\ \A i \in 1..n : n + k > i
    BY ONLY <1>1
  <2> QED BY <1>1, <2>1
<1>4. ASSUME NEW i \in 1..(n + m), Other(new[i], f) PROVE i \in 1..n /\ Other(s[i], f)
  <2>1. CASE i <= n
    <3>1. i \in 1..n
      BY ONLY <1>1, <2>1
    <3> QED BY <1>2, <1>4, <3>1
  <2>2. CASE ~(i <= n)
    <3>1. i - n \in 1..m
      BY ONLY <1>1, <2>2
    <3>2. new[i] = t[i - n]
      BY <1>1, <2>2
    <3>3. ~Other(t[i - n], f)
      BY <3>1 DEF m
    <3> QED BY <1>4, <3>2, <3>3
  <2> QED BY <2>1, <2>2
<1>5. CASE Filtered(s, sf, f)
  <2>1. sf # f => \E j \in 1..(n + m) : Fresh(new[j], f)
    <3>1. sf # f => \E j \in 1..n : Fresh(s[j], f)
      BY <1>5 DEF Filtered, FilteredOn, n
    <3> QED BY <1>2, <3>1
  <2>2. ASSUME NEW i \in 1..(n + m), Other(new[i], f)
        PROVE  \E j \in 1..(n + m) : j > i /\ Fresh(new[j], f)
    <3>1. i \in 1..n /\ Other(s[i], f)
      BY <1>4, <2>2
    <3>2. PICK j \in 1..n : j > i /\ Fresh(s[j], f)
      BY <1>5, <3>1 DEF Filtered, FilteredOn, n
    <3> QED BY <1>2, <3>2
  <2> QED BY <1>1, <2>1, <2>2 DEF Filtered, FilteredOn, new
<1>6. CASE \E k \in 1..m : Fresh(t[k], f)
  <2>1. PICK k \in 1..m : Fresh(t[k], f)
    BY <1>6
  <2>2. n + k \in 1..(n + m) /\ Fresh(new[n + k], f) /\ \A i \in 1..n : n + k > i
    BY <1>3, <2>1
  <2>3. \A i \in 1..(n + m) : Other(new[i], f) => n + k > i
    BY <1>4, <2>2
  <2> QED BY <1>1, <2>2, <2>3 DEF Filtered, FilteredOn, new
<1> QED BY <1>5, <1>6 DEF m

LEMMA AppendedFiltered ==
  ASSUME NEW s \in Seq(Instance), NEW x \in Instance, NEW sf, NEW f,
         (Filtered(s, sf, f) /\ ~Other(x, f)) \/ Fresh(x, f)
  PROVE  Filtered(Append(s, x), sf, f)
<1>1. <<x>> \in Seq(Instance) /\ Len(<<x>>) = 1 /\ <<x>>[1] = x
  OBVIOUS
<1>2. \A k \in 1..Len(<<x>>) : ~Other(<<x>>[k], f)
  <2>1. ~Other(x, f)
    BY DEF Fresh, Other
  <2> QED BY <1>1, <2>1
<1>3. Fresh(x, f) => \E k \in 1..Len(<<x>>) : Fresh(<<x>>[k], f)
  BY <1>1
<1>4. Filtered(s \o <<x>>, sf, f)
  BY <1>1, <1>2, <1>3, JoinedFiltered
<1> QED BY <1>4, AppendIsConcat

LEMMA StartListFiltered ==
  ASSUME PageFits(page), page.list # NoLoad, NEW seq, AllFit(seq, page),
         NEW view, NEW b \in Text, NEW f \in Filters(page), NEW hide,
         StartList(seq, view, b, f, hide), NEW sf
  PROVE  Filtered(running', sf, f)
<1> DEFINE x   == Again(page.list, b, f)
           all == Append(seq, x)
<1>1. x \in Instance /\ Fits(x, page) /\ Fresh(x, f)
  BY AgainFits DEF IsLoad, Fresh, ListLoad
<1>2. running' = IF hide THEN Unmount(all) ELSE all
  BY DEF StartList
<1> HIDE DEF x
<1>3. AllFit(all, page) /\ seq \in Seq(Instance)
  BY <1>1, AppendedFits DEF AllFit
<1>4. Filtered(all, sf, f)
  BY <1>1, <1>3, AppendedFiltered
<1> HIDE DEF all
<1> QED BY <1>2, <1>3, <1>4, UnmountedFiltered

LEMMA StartedFiltered ==
  ASSUME PageFits(page), NEW seq \in Seq(Instance), NEW loads \in SUBSET LoadsOf(page),
         IsFiniteSet(loads), page.list \notin loads, NEW b \in Text, NEW sf, NEW f,
         Filtered(seq, sf, f)
  PROVE  Filtered(seq \o Started(loads, b), sf, f)
<1> DEFINE t == Started(loads, b)
<1>1. AllFit(t, page) /\ \A k \in 1..Len(t) : \E l \in loads : t[k] = Load(l, b, 0)
  BY StartedLoads
<1>2. \A l \in loads : ~Other(Load(l, b, 0), f)
  BY DEF Load, Other, ListLoad
<1> HIDE DEF t
<1>3. \A k \in 1..Len(t) : ~Other(t[k], f)
  BY <1>1, <1>2
<1>4. t \in Seq(Instance)
  BY <1>1 DEF AllFit
<1>5. Filtered(seq \o t, sf, f)
  BY <1>3, <1>4, JoinedFiltered
<1> QED BY <1>5 DEF t

LEMMA EndFiltered ==
  ASSUME Base, NEW i \in 1..Len(running), running[i].act # "",
         NEW seq, AllFit(seq, page), Len(seq) = Len(running), seq[i].act = running[i].act,
         NEW view, NEW loads \in EndingLoads(running[i].act),
         End(seq, view, i, loads), NEW sf, Filtered(seq, sf, filter),
         page.list \in loads => running[i].filter = filter
  PROVE  Filtered(running', sf, filter)
<1> DEFINE act  == page.acts[running[i].act]
           busy == IF act.awaits THEN running[i].busy ELSE ""
           rest == RemoveAt(seq, i)
<1>1. PageFits(page) /\ running[i] \in Instance /\ running[i].act \in DOMAIN page.acts
  <2>1. running[i] \in Instance /\ Fits(running[i], page)
    BY OneOfAll DEF Base
  <2> QED BY <2>1, PageOfThePortal DEF Fits, ActFor
<1>2. busy \in Text
  BY <1>1 DEF Instance, Text
<1>3. loads \in SUBSET LoadsOf(page) /\ IsFiniteSet(loads)
  <2>1. loads \in EndingLoads(running[i].act)
    OBVIOUS
  <2> QED BY ONLY <1>1, <2>1, EndingLoadsFit
<1>4. AllFit(rest, page) /\ rest \in Seq(Instance)
  BY RemovedFits DEF AllFit
<1>5. running[i].filter \in Filters(page)
  BY OneOfAll DEF Base, Fits
<1>6. Filtered(rest, sf, filter)
  <2>1. seq \in Seq(Instance) /\ i \in 1..Len(seq) /\ ~ListLoad(seq[i])
    BY DEF AllFit, ListLoad
  <2> QED BY <2>1, GoneFiltered
<1>7. page.list \in loads => page.list # NoLoad
  BY <1>1, <1>3 DEF PageFits, LoadsFit
<1> HIDE DEF busy, rest
<1>8. CASE page.list \in loads
  <2>1. StartList(rest, view, busy, filter, page.hides) /\ filter \in Filters(page)
    BY <1>5, <1>7, <1>8 DEF End, rest, busy
  <2> QED BY <1>1, <1>2, <1>4, <1>7, <1>8, <2>1, StartListFiltered
<1>9. CASE page.list \notin loads
  <2>1. running' = rest \o IF running[i].stray THEN <<>> ELSE Started(loads, busy)
    BY <1>9 DEF End, rest, busy
  <2>2. CASE running[i].stray
    <3>1. \A k \in 1..Len(<<>>) : ~Other(<<>>[k], filter)
      BY NothingStarted
    <3>2. Filtered(rest \o <<>>, sf, filter)
      BY <1>4, <1>6, <3>1, NothingStarted, JoinedFiltered
    <3> QED BY <2>1, <2>2, <3>2
  <2>3. CASE ~running[i].stray
    <3>1. Filtered(rest \o Started(loads, busy), sf, filter)
      BY <1>1, <1>2, <1>3, <1>4, <1>6, <1>9, StartedFiltered
    <3> QED BY <2>1, <2>3, <3>1
  <2> QED BY <2>2, <2>3
<1> QED BY <1>8, <1>9

SameLists(s, t, f) ==
  /\ Len(t) = Len(s)
  /\ \A j \in 1..Len(s) : (Fresh(s[j], f) <=> Fresh(t[j], f)) /\ (Other(s[j], f) <=> Other(t[j], f))

LEMMA SameFiltered ==
  ASSUME NEW s, NEW t, NEW sf, NEW f, SameLists(s, t, f), Filtered(s, sf, f)
  PROVE  Filtered(t, sf, f)
<1>1. /\ sf # f => \E j \in 1..Len(s) : Fresh(s[j], f)
      /\ \A i \in 1..Len(s) : Other(s[i], f) => \E j \in 1..Len(s) : j > i /\ Fresh(s[j], f)
  BY DEF Filtered, FilteredOn
<1> QED BY <1>1 DEF Filtered, FilteredOn, SameLists

LEMMA OutdatedFiltered ==
  ASSUME Base, NEW i \in DOMAIN running, running[i].act # "", NEW c \in Head(running[i].left),
         NEW sf, NEW f, Filtered(running, sf, f)
  PROVE  Filtered(Outdated(c), sf, f)
<1>1. /\ PageFits(page) /\ i \in 1..Len(running) /\ running[i].act \in DOMAIN page.acts
      /\ c \in Reading(page.acts[running[i].act].does) /\ AllFit(running, page)
  BY PageOfThePortal, Waiting DEF Base
<1>2. /\ Len(Outdated(c)) = Len(running)
      /\ \A j \in 1..Len(running) :
           /\ Outdated(c)[j].act = running[j].act /\ Outdated(c)[j].load = running[j].load
           /\ Outdated(c)[j].stray = running[j].stray /\ Outdated(c)[j].filter = running[j].filter
  BY <1>1, OutdatedFits DEF Became
<1>3. SameLists(running, Outdated(c), f)
  BY <1>2 DEF SameLists, Fresh, Other, ListLoad
<1> QED BY <1>3, SameFiltered

LEMMA ReplacedFiltered ==
  ASSUME NEW s \in Seq(Instance), NEW i \in 1..Len(s), NEW y, NEW sf, NEW f, Filtered(s, sf, f),
         y.act = s[i].act, y.load = s[i].load, y.stray = s[i].stray, y.filter = s[i].filter
  PROVE  Filtered([s EXCEPT ![i] = y], sf, f)
<1>1. DOMAIN s = 1..Len(s) /\ Len(s) \in Nat
  OBVIOUS
<1> DEFINE t == [s EXCEPT ![i] = y]
<1>2. Len(t) = Len(s)
  BY <1>1
<1>3. \A j \in 1..Len(s) : t[j] = IF j = i THEN y ELSE s[j]
  BY <1>1
<1> HIDE DEF t
<1>4. SameLists(s, t, f)
  BY <1>2, <1>3 DEF SameLists, Fresh, Other, ListLoad
<1>5. Filtered(t, sf, f)
  BY <1>4, SameFiltered
<1> QED BY <1>5 DEF t

\* A list that lands replaces the filter shown, and overtakes the older ones.
LEMMA LandedFiltered ==
  ASSUME Base, NEW i \in DOMAIN running, running[i].act = "", ~running[i].stray,
         Filtered(running, shownFilter, filter)
  PROVE  FilteredOn(Landed(i), IF IsList(i) THEN running[i].filter ELSE shownFilter, filter,
                    1..Len(running) \ {k \in {i} : ~(Len(running[i].left) > 1)})
<1> DEFINE x == running[i]
           t == Landed(i)
           n == Len(running)
           L == 1..n \ {k \in {i} : ~(Len(x.left) > 1)}
           sf == IF IsList(i) THEN x.filter ELSE shownFilter
           Over(j) == j = i \/ j \in Older(i)
<1>1. i \in 1..n
  BY Waiting
<1>2. /\ \A j \in 1..n : j # i =>
           /\ t[j].act = running[j].act /\ t[j].load = running[j].load
           /\ t[j].filter = running[j].filter
           /\ t[j].stray = IF j \in Older(i) THEN TRUE ELSE running[j].stray
      /\ t[i].act = "" /\ t[i].load = x.load /\ t[i].filter = x.filter /\ ~t[i].stray
  BY LandedFits DEF Became
<1>3. \A j \in Older(i) : j < i /\ running[j].act = "" /\ running[j].load = x.load
  <2>1. i \in Int
    BY ONLY <1>1
  <2>2. \A j \in 1..(i - 1) : j < i
    BY ONLY <2>1
  <2> QED BY <2>2 DEF Older
<1>4. \A j \in 1..n : j < i /\ running[j].act = "" /\ running[j].load = x.load => j \in Older(i)
  <2>1. i \in Int
    BY ONLY <1>1
  <2>2. \A j \in 1..n : j < i => j \in 1..(i - 1)
    BY ONLY <2>1
  <2> QED BY <2>2 DEF Older
<1>5. i \notin Older(i)
  <2>1. i \in Int
    BY ONLY <1>1
  <2>2. ~(i < i)
    BY ONLY <2>1
  <2> QED BY <1>3, <2>2
<1>6. \A j \in 1..n : j \notin Older(i) =>
        (Fresh(running[j], filter) <=> Fresh(t[j], filter))
          /\ (Other(running[j], filter) <=> Other(t[j], filter))
  BY <1>2 DEF Fresh, Other, ListLoad
<1>7. \A j \in 1..n : j \in Older(i) => ~Other(t[j], filter)
  BY <1>2, <1>5 DEF Other
<1>8. \A j \in 1..n : ~Over(j) => j \in L
  OBVIOUS
<1>9. /\ shownFilter # filter => \E j \in 1..n : Fresh(running[j], filter)
      /\ \A k \in 1..n : Other(running[k], filter) =>
           \E j \in 1..n : j > k /\ Fresh(running[j], filter)
  BY DEF Filtered, FilteredOn
<1>10. L \subseteq 1..n
  OBVIOUS
<1>11. i \in Int /\ \A j \in 1..n : j \in Int
  BY ONLY <1>1
<1>12. IsList(i) <=> ListLoad(x)
  BY DEF IsList, ListLoad
<1>13. ~ListLoad(x) => \A j \in 1..n : Over(j) => ~Fresh(running[j], filter)
  BY <1>3 DEF ListLoad, Fresh
<1> HIDE DEF L, t, n
<1>14. ASSUME sf # filter
       PROVE  \E j \in L : Fresh(t[j], filter)
  <2>1. CASE IsList(i)
    <3>1. Other(x, filter)
      BY <1>12, <1>14, <2>1 DEF Other
    <3>2. PICK j \in 1..n : j > i /\ Fresh(running[j], filter)
      BY <1>1, <1>9, <3>1
    <3>3. ~Over(j)
      <4> SUFFICES ASSUME Over(j) PROVE FALSE
        OBVIOUS
      <4>1. j < i \/ j = i
        BY <1>3
      <4>2. j > i
        BY <3>2
      <4> QED BY ONLY <1>11, <4>1, <4>2, j \in 1..n
    <3> QED BY <1>6, <1>8, <3>2, <3>3
  <2>2. CASE ~IsList(i)
    <3>1. PICK j \in 1..n : Fresh(running[j], filter)
      BY <1>9, <1>14, <2>2
    <3>2. ~Over(j)
      BY <1>12, <1>13, <2>2, <3>1
    <3> QED BY <1>6, <1>8, <3>1, <3>2
  <2> QED BY <2>1, <2>2
<1>15. ASSUME NEW k \in L, Other(t[k], filter)
       PROVE  \E j \in L : j > k /\ Fresh(t[j], filter)
  <2>1. k \in 1..n /\ k \notin Older(i) /\ Other(running[k], filter)
    BY <1>6, <1>7, <1>10, <1>15
  <2>2. PICK j \in 1..n : j > k /\ Fresh(running[j], filter)
    BY <1>9, <2>1
  <2>3. CASE ~Over(j)
    BY <1>6, <1>8, <2>2, <2>3
  <2>4. CASE Over(j)
    <3>1. ListLoad(x)
      BY <1>13, <2>2, <2>4
    <3>2. k < i
      <4>1. j < i \/ j = i
        BY <1>3, <2>4
      <4>2. j > k
        BY <2>2
      <4> QED BY ONLY <1>11, <4>1, <4>2, <2>1, j \in 1..n
    <3>3. k \in Older(i)
      BY <1>4, <2>1, <3>1, <3>2 DEF Other, ListLoad
    <3> QED BY <2>1, <3>3
  <2> QED BY <2>3, <2>4
<1> QED BY <1>14, <1>15 DEF FilteredOn, L, n, t

LEMMA DetailsFiltered ==
  ASSUME PageFits(page), NEW seq \in Seq(Instance), NEW sf, NEW f, Filtered(seq, sf, f),
         ShowList(seq)
  PROVE  Filtered(running', sf, f)
<1>1. /\ page.details \in SUBSET LoadsOf(page) /\ IsFiniteSet(page.details) /\ "" \in Text
      /\ page.list \notin page.details
  BY DEF PageFits, LoadsFit, LoadsOf, Text
<1>2. Filtered(seq \o MountDetails, sf, f)
  BY <1>1, StartedFiltered DEF MountDetails
<1> QED BY <1>2 DEF ShowList

LEMMA LandFiltered ==
  ASSUME Base, NEW i \in DOMAIN running, Land(i), ~disturbed',
         Filtered(running, shownFilter, filter)
  PROVE  Filtered(running', shownFilter', filter)
<1> DEFINE x == running[i]
           rest == RemoveAt(Landed(i), i)
           sf == IF IsList(i) THEN running[i].filter ELSE shownFilter
<1>1. /\ PageFits(page) /\ x \in Instance /\ i \in 1..Len(running)
      /\ x.act = "" /\ ~x.stray /\ shownFilter' = sf
  BY PageOfThePortal, Waiting DEF Land
<1>2. Landed(i) \in Seq(Instance) /\ Len(Landed(i)) = Len(running)
  BY <1>1, LandedFits
<1>3. CASE Len(x.left) > 1
  <2>1. 1..Len(running) \ {k \in {i} : ~(Len(x.left) > 1)} = 1..Len(running)
    BY <1>3
  <2>2. FilteredOn(Landed(i), sf, filter, 1..Len(running))
    BY <1>1, <2>1, LandedFiltered
  <2>3. running' = Landed(i)
    BY <1>3 DEF Land
  <2> QED BY <1>1, <1>2, <2>2, <2>3 DEF Filtered
<1>4. CASE ~(Len(x.left) > 1)
  <2>1. 1..Len(running) \ {k \in {i} : ~(Len(x.left) > 1)} = 1..Len(running) \ {i}
    BY <1>4
  <2>2. FilteredOn(Landed(i), sf, filter, 1..Len(running) \ {i})
    BY <1>1, <2>1, LandedFiltered
  <2> HIDE DEF sf
  <2>3. Filtered(rest, sf, filter)
    BY <1>1, <1>2, <2>2, RemovedFiltered
  <2>4. rest \in Seq(Instance)
    BY <1>1, <1>2, RemoveAtElements
  <2> HIDE DEF rest
  <2>5. CASE IsList(i)
    <3>1. ShowList(rest)
      BY <1>4, <2>5 DEF Land, rest
    <3> QED BY <1>1, <2>3, <2>4, <3>1, DetailsFiltered
  <2>6. CASE ~IsList(i) /\ page.first # NoLoad /\ x.load = page.first
    <3> DEFINE y == Load(page.list, "", filter)
    <3>1. running' = Append(rest, y)
      BY <1>4, <2>6 DEF Land, rest
    <3>2. y \in Instance /\ Fresh(y, filter)
      <4>1. page.list \in LoadsOf(page) /\ "" \in Text /\ filter \in Filters(page)
        BY <1>1, <2>6, ListIsALoad DEF PageFits, LoadsFit, Text, Base
      <4> QED BY <1>1, <4>1, NewLoadFits DEF Load, Fresh, ListLoad
    <3> HIDE DEF y
    <3> QED BY <1>1, <2>3, <2>4, <3>1, <3>2, AppendedFiltered
  <2>7. CASE ~IsList(i) /\ ~(page.first # NoLoad /\ x.load = page.first)
    BY <1>1, <1>4, <2>3, <2>7 DEF Land, rest
  <2> QED BY <2>5, <2>6, <2>7
<1> QED BY <1>3, <1>4

\* A page without a filter has but one filter to show.
LEMMA UnfilteredFiltered ==
  ASSUME Base', page' = page, ~page.filter
  PROVE  Filtered(running', shownFilter', filter')
<1>1. /\ filter' = 0 /\ shownFilter' = 0 /\ AllFit(running', page)
  BY DEF Base, Filters
<1>2. \A j \in 1..Len(running') : running'[j].filter = 0
  BY <1>1 DEF AllFit, Fits, Filters
<1> QED BY <1>1, <1>2 DEF Filtered, FilteredOn, Other

LEMMA EndEarlyFiltered ==
  ASSUME Base, NEW i \in DOMAIN running, EndEarly(i)
  PROVE  Filtered(running', shownFilter', filter')
<1>1. /\ PageFits(page) /\ running[i] \in Instance /\ Fits(running[i], page)
      /\ running[i].act = "" /\ Len(running[i].left) > 1 /\ page' = page
      /\ running[i].left \in Stages /\ running[i].left # <<>>
  BY PageOfThePortal, Waiting DEF EndEarly, Unmoved
<1> DEFINE m == Len(running[i].left)
           n == Len(running[i].load)
<1>2. m <= n /\ running[i].load \in LoadsOf(page)
  BY <1>1 DEF Fits, LoadFor
<1>3. n \in Nat /\ m \in Nat
  <2>1. running[i].load \in Stages /\ running[i].left \in Stages
    BY <1>1 DEF Instance
  <2> QED BY <2>1 DEF Stages
<1> HIDE DEF m, n
<1>4. m > 1
  BY <1>1 DEF m
<1>5. n # 1
  BY ONLY <1>2, <1>3, <1>4
<1>6. ~page.filter
  BY <1>1, <1>2, <1>5 DEF PageFits, LoadsFit, n
<1>7. Base'
  BY EndEarlyBase
<1> QED BY <1>1, <1>6, <1>7, UnfilteredFiltered

\* No other step of the servers touches a reload of the list.
LEMMA ServerFiltered ==
  ASSUME Base, NEW i \in DOMAIN running, Filtered(running, shownFilter, filter), ~disturbed',
         \/ FailAct(i)
         \/ \E c \in Head(running[i].left) : ServeRead(i, c) \/ ServeStep(i, c) \/ Succeed(i, c)
  PROVE  Filtered(running', shownFilter', filter)
<1>0. /\ PageFits(page) /\ i \in 1..Len(running) /\ running \in Seq(Instance)
      /\ AllFit(running, page)
      /\ running[i].act # "" => running[i].act \in DOMAIN page.acts
  BY PageOfThePortal, Waiting DEF Base, AllFit
<1>1. CASE FailAct(i)
  <2>1. /\ running[i].act # "" /\ shownFilter' = shownFilter
        /\ End(running, shown, i, page.acts[running[i].act].recover)
    BY <1>1 DEF FailAct
  <2>2. page.list \notin page.acts[running[i].act].recover
    BY <1>0, <1>1, <2>1 DEF FailAct, PageFits, ActFits
  <2> QED BY <1>0, <2>1, <2>2, EndFiltered, ReloadsAreEndingLoads
<1>2. ASSUME NEW c \in Head(running[i].left), ServeRead(i, c)
      PROVE  Filtered(running', shownFilter', filter)
  <2> DEFINE y == WithAnswer(running[i], c)
  <2>1. running' = [running EXCEPT ![i] = y] /\ shownFilter' = shownFilter
    BY <1>2 DEF ServeRead
  <2>2. /\ y.act = running[i].act /\ y.load = running[i].load
        /\ y.stray = running[i].stray /\ y.filter = running[i].filter
    <3>1. running[i] \in Instance
      BY <1>0, OneOfAll
    <3> QED BY <3>1 DEF WithAnswer, Instance
  <2> HIDE DEF y
  <2> QED BY <1>0, <2>1, <2>2, ReplacedFiltered
<1>3. ASSUME NEW c \in Head(running[i].left), ServeStep(i, c)
      PROVE  Filtered(running', shownFilter', filter)
  <2> DEFINE s == Outdated(c)
             y == WithCallDone(s[i])
  <2>1. running[i].act # "" /\ c \in Reading(page.acts[running[i].act].does)
    BY <1>3, Waiting DEF ServeStep, Served
  <2>2. s \in Seq(Instance) /\ Len(s) = Len(running) /\ Filtered(s, shownFilter, filter)
    BY <1>0, <2>1, OutdatedFits, OutdatedFiltered DEF AllFit
  <2>3. running' = [s EXCEPT ![i] = y] /\ shownFilter' = shownFilter
    BY <1>3 DEF ServeStep
  <2> HIDE DEF s
  <2>4. y.act = s[i].act /\ y.load = s[i].load /\ y.stray = s[i].stray /\ y.filter = s[i].filter
    <3>1. i \in 1..Len(s) /\ s \in Seq(Instance)
      BY <1>0, <2>2
    <3>2. s[i] \in Instance
      BY ONLY <3>1
    <3> QED BY <3>2 DEF WithCallDone, Instance
  <2> HIDE DEF y
  <2> QED BY <1>0, <2>2, <2>3, <2>4, ReplacedFiltered
<1>4. ASSUME NEW c \in Head(running[i].left), Succeed(i, c)
      PROVE  Filtered(running', shownFilter', filter)
  <2> DEFINE s == Outdated(c)
  <2>1. running[i].act # "" /\ c \in Reading(page.acts[running[i].act].does)
    BY <1>4, Waiting DEF Succeed, Served
  <2>2. /\ AllFit(s, page) /\ Len(s) = Len(running) /\ s[i].act = running[i].act
        /\ Filtered(s, shownFilter, filter)
    BY <1>0, <2>1, OutdatedFits, OutdatedFiltered DEF Became
  <2>3. /\ End(s, Overwritten(i, c), i, Reloads(i))
        /\ page.list \in Reloads(i) => running[i].filter = filter
        /\ shownFilter' = shownFilter
    BY <1>4 DEF Succeed
  <2> HIDE DEF s
  <2> QED BY <1>0, <2>1, <2>2, <2>3, EndFiltered, ReloadsAreEndingLoads
<1> QED BY <1>1, <1>2, <1>3, <1>4

(***************************************************************************)
(* Every step keeps the page settled.                                      *)
(***************************************************************************)

\* Everything due is current, and so is the filter of the list.
UpToDate(seq, view, sf, f) ==
  /\ \A d \in Due : Current(seq, view, d)
  /\ Filtered(seq, sf, f)

\* Nearly so: closing the dialog dlg puts the rest right.
NearlyUpToDate(seq, view, sf, f, dlg) ==
  /\ \A d \in Due : Current(seq, view, d) \/ Promised(dlg, d)
  /\ Filtered(seq, sf, f)

Settled ==
  ~disturbed => PaintOK /\ NearlyUpToDate(running, shown, shownFilter, filter, dialog)

LEMMA WithoutProgress ==
  ASSUME NEW seq, NEW view, NEW sf, NEW f, NEW dlg
  PROVE  /\ UpToDate(seq, view, sf, f) => NearlyUpToDate(seq, view, sf, f, dlg)
         /\ NearlyUpToDate(seq, view, sf, f, dlg) /\ ~dlg.progress => UpToDate(seq, view, sf, f)
BY DEF UpToDate, NearlyUpToDate, Promised

LEMMA SettledAgain ==
  ASSUME page' = page,
         ~disturbed' =>
           PaintOK' /\ NearlyUpToDate(running', shown', shownFilter', filter', dialog')
  PROVE  Settled'
<1>1. Due' = Due
  BY DEF Due
<1>2. ASSUME NEW d, Current(running', shown', d) PROVE Current(running, shown, d)'
  BY <1>2 DEF Current, CurrentOn, Brings, Mends, Belated, HealedBy
<1>3. ASSUME Filtered(running', shownFilter', filter')
      PROVE  Filtered(running, shownFilter, filter)'
  BY <1>3 DEF Filtered, FilteredOn, Fresh, Other, ListLoad
<1>4. ASSUME NEW d, Promised(dialog', d) PROVE Promised(dialog, d)'
  BY <1>4 DEF Promised, HealedBy
<1> QED BY <1>1, <1>2, <1>3, <1>4 DEF Settled, NearlyUpToDate

\* A page without loads is painted well.
LEMMA PaintedAgain ==
  ASSUME page' = page,
         Painted(page) => \/ \A j \in 1..Len(running') : running'[j].act # ""
                          \/ Len(running') = 1 /\ hidden'
                          \/ 1..Len(running') = {}
  PROVE  PaintOK'
BY DEF PaintOK

LEMMA NewActUpToDate ==
  ASSUME Base, NEW a \in DOMAIN page.acts, NEW saw \in AnyStatus,
         page.acts[a].at = "form" \/ saw \in page.acts[a].on,
         NEW view, NEW sf, NEW f, UpToDate(running, view, sf, f)
  PROVE  UpToDate(Append(running, ActOn(a, saw)), view, sf, f)
<1> DEFINE x == ActOn(a, saw)
<1>1. x \in Instance /\ x.act = a /\ a # "" /\ running \in Seq(Instance)
  BY NewAct, PageOfThePortal DEF PageFits, ActFits, Base, AllFit
<1>2. DOMAIN x.got = {}
  BY NoAnswersYet, <1>1, NewAct DEF Fits, ActFor
<1>3. ~Other(x, f)
  BY <1>1 DEF Other, ListLoad
<1> HIDE DEF x
<1>4. Filtered(Append(running, x), sf, f)
  <2>1. Filtered(running, sf, f)
    BY DEF UpToDate
  <2> QED BY <1>1, <1>3, <2>1, AppendedFiltered
<1>5. ASSUME NEW d \in Due PROVE Current(Append(running, x), view, d)
  <2>1. Current(running, view, d)
    BY DEF UpToDate
  <2> QED BY <1>1, <1>2, <2>1, AppendedCurrent
<1>6. UpToDate(Append(running, x), view, sf, f)
  BY <1>4, <1>5 DEF UpToDate
<1> QED BY <1>6 DEF x

LEMMA DueIsShown == Due \subseteq CallsOf(page)
BY DEF Due

LEMMA StartListUpToDate ==
  ASSUME Base, page.list # NoLoad, NEW f \in Filters(page), NEW hide,
         StartList(running, shown, "", f, hide), NEW sf, NEW g, UpToDate(running, shown, sf, g)
  PROVE  UpToDate(running', shown', sf, f)
<1>1. PageFits(page) /\ "" \in Text /\ AllFit(running, page) /\ ViewFits(shown, page)
  BY PageOfThePortal DEF Base, Text
<1>2. Filtered(running', sf, f)
  BY <1>1, StartListFiltered
<1>3. ASSUME NEW d \in Due PROVE Current(running', shown', d)
  <2>1. Current(running, shown, d) /\ d \in CallsOf(page)
    BY DueIsShown DEF UpToDate
  <2> QED BY <1>1, <2>1, StartListCurrent
<1> QED BY <1>2, <1>3 DEF UpToDate

LEMMA ToggleUpToDate ==
  ASSUME Base, Toggle, UpToDate(running, shown, shownFilter, filter)
  PROVE  UpToDate(running', shown', shownFilter', filter')
<1>1. /\ PageFits(page) /\ AllFit(running, page) /\ ViewFits(shown, page)
      /\ running \in Seq(Instance) /\ "" \in Text
      /\ page.details \in SUBSET LoadsOf(page) /\ IsFiniteSet(page.details)
      /\ page.list \notin page.details
  BY PageOfThePortal DEF Base, AllFit, Text, PageFits, LoadsFit, LoadsOf
<1>2. shownFilter' = shownFilter /\ filter' = filter
  BY DEF Toggle, Click
<1>3. CASE expanded
  <2>1. running' = Unmount(running) /\ shown' = Forget(shown)
    BY <1>3 DEF Toggle
  <2>2. ASSUME NEW d \in Due PROVE Current(Unmount(running), Forget(shown), d)
    BY <1>1, DueIsShown, UnmountedCurrent DEF UpToDate
  <2>3. Filtered(Unmount(running), shownFilter, filter)
    BY <1>1, UnmountedFiltered DEF UpToDate
  <2> QED BY <1>2, <2>1, <2>2, <2>3 DEF UpToDate
<1>4. CASE ~expanded
  <2>1. running' = running \o Started(page.details, "") /\ shown' = shown
    BY <1>4 DEF Toggle, MountDetails
  <2>2. ASSUME NEW d \in Due PROVE Current(running \o Started(page.details, ""), shown, d)
    BY <1>1, StartedCurrent DEF UpToDate
  <2>3. Filtered(running \o Started(page.details, ""), shownFilter, filter)
    BY <1>1, StartedFiltered DEF UpToDate
  <2> QED BY <1>2, <2>1, <2>2, <2>3 DEF UpToDate
<1> QED BY <1>3, <1>4

\* Closing the dialog of an act keeps what it promised.
LEMMA CloseProgressSettled ==
  ASSUME Base, Settled, CloseProgress
  PROVE  Settled'
<1>1. /\ PageFits(page) /\ page.list # NoLoad /\ ~Painted(page)
      /\ page.acts[dialog.act].then = {page.list}
  BY FollowedList DEF CloseProgress
<1>2. /\ StartList(running, shown, "", filter, page.hides) /\ page' = page
      /\ shownFilter' = shownFilter /\ filter' = filter /\ disturbed' = disturbed
      /\ filter \in Filters(page) /\ "" \in Text /\ AllFit(running, page) /\ ViewFits(shown, page)
  BY DEF CloseProgress, Base, Text
<1> SUFFICES ASSUME NearlyUpToDate(running, shown, shownFilter, filter, dialog)
             PROVE  PaintOK' /\ UpToDate(running', shown', shownFilter', filter')
  BY <1>2, SettledAgain, WithoutProgress DEF Settled
<1>3. PaintOK'
  BY <1>1, <1>2, PaintedAgain
<1>4. Filtered(running', shownFilter, filter)
  BY <1>1, <1>2, StartListFiltered
<1>5. ASSUME NEW d \in Due PROVE Current(running', shown', d)
  <2>1. (Current(running, shown, d) \/ Promised(dialog, d)) /\ d \in CallsOf(page)
    BY DueIsShown DEF NearlyUpToDate
  <2>2. Promised(dialog, d) => d \in Reading(page.list) \/ (page.hides /\ DetailCall(d))
    BY <1>1 DEF Promised, HealedBy, DetailCall
  <2>3. Current(running, shown, d) \/ d \in Reading(page.list) \/ (page.hides /\ DetailCall(d))
    BY <2>1, <2>2
  <2> QED BY <1>1, <1>2, <2>1, <2>3, StartListCurrent
<1> QED BY <1>2, <1>3, <1>4, <1>5 DEF UpToDate

\* Whatever the user does elsewhere, no such dialog is open.
LEMMA UserSettled ==
  ASSUME Base, Settled,
         \/ \E a \in DOMAIN page.acts : OpenDialog(a) \/ Press(a)
         \/ CloseDialog \/ Confirm \/ Refresh \/ ChangeFilter \/ Toggle
  PROVE  Settled'
<1>1. page' = page /\ disturbed' = disturbed /\ ~dialog.progress
  <2>1. page' = page /\ disturbed' = disturbed
    BY DEF OpenDialog, Press, CloseDialog, Confirm, Refresh, ChangeFilter, Toggle, Click
  <2>2. dialog = NoDialog \/ ~dialog.progress
    BY DEF OpenDialog, Press, CloseDialog, Confirm, Refresh, ChangeFilter, Toggle, Click,
           Selecting
  <2>3. ~NoDialog.progress
    BY DEF NoDialog
  <2> QED BY <2>1, <2>2, <2>3
<1> SUFFICES ASSUME PaintOK, UpToDate(running, shown, shownFilter, filter)
             PROVE  PaintOK' /\ UpToDate(running', shown', shownFilter', filter')
  BY <1>1, SettledAgain, WithoutProgress DEF Settled
<1>2. PageFits(page) /\ running \in Seq(Instance)
  BY PageOfThePortal DEF Base, AllFit
<1>3. ASSUME Painted(page), NEW a \in DOMAIN page.acts
      PROVE  page.acts[a].at = "row" /\ page.details = {} /\ ~page.refresh /\ ~page.filter
  BY <1>2, <1>3 DEF PageFits, PaintsFit
<1>4. CASE CloseDialog \/ \E a \in DOMAIN page.acts : OpenDialog(a)
  <2>1. /\ running' = running /\ shown' = shown /\ shownFilter' = shownFilter
        /\ filter' = filter /\ hidden' = hidden
    BY <1>4 DEF OpenDialog, CloseDialog
  <2> QED BY <1>1, <2>1 DEF PaintOK
<1>5. ASSUME NEW a \in DOMAIN page.acts, Press(a)
      PROVE  PaintOK' /\ UpToDate(running', shown', shownFilter', filter')
  <2>1. /\ running' = Append(running, ActOn(a, shownRow))
        /\ shownFilter' = shownFilter /\ filter' = filter
        /\ page.acts[a].at = "form" \/ shownRow \in page.acts[a].on
    BY <1>5 DEF Press, Click
  <2>2. UpToDate(running, shown', shownFilter, filter)
    <3>1. ASSUME NEW d \in Due PROVE shown'[d] = "stale" => shown[d] = "stale"
      BY <1>5, DueIsShown DEF Press, Paint, Base, ViewFits
    <3> QED BY <3>1, BetterView DEF UpToDate
  <2>3. UpToDate(running', shown', shownFilter', filter')
    BY <2>1, <2>2, ShownStatus, NewActUpToDate
  <2>4. ASSUME Painted(page) PROVE \A j \in 1..Len(running') : running'[j].act # ""
    <3>1. ~hidden
      BY <1>3, <1>5, <2>4 DEF Press, OnScreen, Listed
    <3>2. \A j \in 1..Len(running) : running[j].act # ""
      BY <2>4, <3>1 DEF PaintOK
    <3>3. ActOn(a, shownRow).act # "" /\ ActOn(a, shownRow) \in Instance
      BY <1>2, <2>1, ShownStatus, NewAct DEF PageFits, ActFits
    <3> DEFINE x == ActOn(a, shownRow)
    <3> HIDE DEF x
    <3>4. \A j \in 1..(Len(running) + 1) :
            Append(running, x)[j] = IF j \in 1..Len(running) THEN running[j] ELSE x
      BY <1>2
    <3>5. Len(Append(running, x)) = Len(running) + 1
      BY <1>2
    <3> QED BY <2>1, <3>2, <3>3, <3>4, <3>5 DEF x
  <2> QED BY <1>1, <2>3, <2>4, PaintedAgain
<1>6. CASE Confirm
  <2>1. /\ running' = Append(running, ActOn(dialog.act, dialog.saw)) /\ shown' = shown
        /\ shownFilter' = shownFilter /\ filter' = filter
        /\ dialog.act \in DOMAIN page.acts /\ page.acts[dialog.act].at \in {"dialog", "bar"}
        /\ dialog.saw \in page.acts[dialog.act].on \cap AnyStatus
    BY <1>6 DEF Confirm, Base, DialogFits
  <2>2. ~Painted(page)
    BY <1>3, <2>1
  <2> QED BY <1>1, <2>1, <2>2, NewActUpToDate, PaintedAgain
<1>7. CASE Refresh
  <2>1. /\ StartList(running, shown, "", filter, page.hides) /\ page.refresh /\ page.list # NoLoad
        /\ shownFilter' = shownFilter /\ filter' = filter /\ filter \in Filters(page)
    BY <1>2, <1>7 DEF Refresh, Click, PageFits, LoadsFit, Base
  <2>2. ~Painted(page)
    BY <1>2, <2>1 DEF PageFits, PaintsFit
  <2> QED BY <1>1, <2>1, <2>2, StartListUpToDate, PaintedAgain
<1>8. CASE ChangeFilter
  <2>1. /\ StartList(running, shown, "", 1 - filter, TRUE) /\ page.filter /\ page.list # NoLoad
        /\ shownFilter' = shownFilter /\ filter' = 1 - filter /\ filter \in Filters(page)
    BY <1>2, <1>8 DEF ChangeFilter, Click, PageFits, LoadsFit, Base
  <2>2. ~Painted(page)
    BY <1>2, <2>1 DEF PageFits, PaintsFit
  <2>3. filter' \in Filters(page)
    BY <2>1, FilterFacts
  <2>4. StartList(running, shown, "", filter', TRUE)
    BY <2>1
  <2> QED BY <1>1, <2>1, <2>2, <2>3, <2>4, StartListUpToDate, PaintedAgain
<1>9. CASE Toggle
  <2>1. ~Painted(page)
    BY <1>2, <1>9 DEF Toggle, PageFits, PaintsFit
  <2> QED BY <1>1, <1>9, <2>1, ToggleUpToDate, PaintedAgain
<1> QED BY <1>4, <1>5, <1>6, <1>7, <1>8, <1>9

LEMMA PaintedActs ==
  ASSUME Base, PaintOK, Painted(page), NEW i \in 1..Len(running), running[i].act # ""
  PROVE  \A j \in 1..Len(running) : running[j].act # ""
<1> SUFFICES ASSUME NEW j \in 1..Len(running), running[j].act = "" PROVE FALSE
  OBVIOUS
<1>1. Len(running) = 1
  BY DEF PaintOK
<1>2. i \in 1..1 /\ j \in 1..1
  BY <1>1
<1>3. i = j
  BY ONLY <1>2
<1> QED BY <1>3

\* On a painted page an act ends without starting anything.
LEMMA PaintedEnd ==
  ASSUME Base, PaintOK, Painted(page), NEW i \in 1..Len(running), running[i].act # "",
         NEW seq, AllFit(seq, page), Len(seq) = Len(running),
         \A j \in 1..Len(running) : seq[j].act = running[j].act,
         NEW view, End(seq, view, i, {})
  PROVE  \A j \in 1..Len(running') : running'[j].act # ""
<1> DEFINE a == running[i].act
           rest == RemoveAt(seq, i)
           busy == IF page.acts[a].awaits THEN running[i].busy ELSE ""
           t == IF running[i].stray THEN <<>> ELSE Started({}, busy)
<1>1. PageFits(page) /\ running[i] \in Instance /\ a \in DOMAIN page.acts
  <2>1. running[i] \in Instance /\ Fits(running[i], page)
    BY OneOfAll DEF Base
  <2> QED BY <2>1, PageOfThePortal DEF Fits, ActFor
<1>2. busy \in Text
  BY <1>1 DEF Instance, Text
<1>3. running' = rest \o t
  BY <1>1 DEF End
<1> HIDE DEF busy
<1>4. t \in Seq(Instance) /\ Len(t) = 0
  <2>1. {} \in SUBSET LoadsOf(page) /\ IsFiniteSet({}) /\ Cardinality({}) = 0
    BY FS_EmptySet
  <2>2. AllFit(Started({}, busy), page) /\ Len(Started({}, busy)) = 0
    BY <1>1, <1>2, <2>1, StartedLoads
  <2>3. <<>> \in Seq(Instance) /\ Len(<<>>) = 0
    BY NothingStarted
  <2> QED BY <2>2, <2>3 DEF AllFit
<1> HIDE DEF t
<1>5. /\ seq \in Seq(Instance) /\ rest \in Seq(Instance) /\ Len(rest) = Len(seq) - 1
      /\ \A k \in 1..(Len(seq) - 1) : rest[k] = seq[IF k < i THEN k ELSE k + 1]
  BY RemoveAtElements DEF AllFit
<1>6. \A k \in 1..(Len(seq) - 1) : (IF k < i THEN k ELSE k + 1) \in 1..Len(seq)
  <2>1. seq \in Seq(Instance) /\ i \in 1..Len(seq)
    BY <1>5
  <2>2. Len(seq) \in Nat
    BY ONLY <2>1
  <2> QED BY ONLY <2>1, <2>2
<1>7. \A j \in 1..Len(seq) : seq[j].act # ""
  BY PaintedActs
<1> HIDE DEF rest
<1>8. \A k \in 1..Len(rest) : rest[k].act # ""
  BY <1>5, <1>6, <1>7
<1>9. Len(rest \o t) = Len(rest) /\ \A k \in 1..Len(rest) : (rest \o t)[k] = rest[k]
  <2>1. rest \in Seq(Instance) /\ t \in Seq(Instance) /\ Len(t) = 0
    BY <1>4, <1>5
  <2> QED BY ONLY <2>1
<1> QED BY <1>3, <1>8, <1>9

LEMMA ReplacedLength ==
  ASSUME NEW s \in Seq(Instance), NEW i, NEW y
  PROVE  Len([s EXCEPT ![i] = y]) = Len(s)
<1>1. DOMAIN s = 1..Len(s) /\ Len(s) \in Nat
  OBVIOUS
<1> QED BY <1>1

LEMMA ServerPaint ==
  ASSUME Base, PaintOK, NEW i \in DOMAIN running, ~disturbed', page' = page,
         \/ FailAct(i)
         \/ \E c \in Head(running[i].left) : ServeRead(i, c) \/ ServeStep(i, c) \/ Succeed(i, c)
  PROVE  PaintOK'
<1> SUFFICES ASSUME Painted(page)
             PROVE  \/ \A j \in 1..Len(running') : running'[j].act # ""
                    \/ Len(running') = 1 /\ hidden'
                    \/ 1..Len(running') = {}
  BY PaintedAgain
<1>1. /\ PageFits(page) /\ i \in 1..Len(running) /\ running \in Seq(Instance)
      /\ AllFit(running, page) /\ DOMAIN running = 1..Len(running)
      /\ running[i].act # "" => running[i].act \in DOMAIN page.acts
  BY PageOfThePortal, Waiting DEF Base, AllFit
<1>2. CASE FailAct(i)
  BY <1>1, <1>2 DEF FailAct, PageFits, PaintsFit
<1>3. ASSUME NEW c \in Head(running[i].left), ServeRead(i, c)
      PROVE  Len(running') = 1 /\ hidden'
  <2>1. running[i].act = "" /\ running' = [running EXCEPT ![i] = WithAnswer(@, c)] /\ hidden' = hidden
    BY <1>3 DEF ServeRead
  <2>2. Len(running) = 1 /\ hidden
    BY <1>1, <2>1 DEF PaintOK
  <2>3. Len(running') = Len(running)
    BY <1>1, <2>1, ReplacedLength
  <2> QED BY <2>1, <2>2, <2>3
<1>4. ASSUME NEW c \in Head(running[i].left), ServeStep(i, c)
      PROVE  \A j \in 1..Len(running') : running'[j].act # ""
  <2> DEFINE s == Outdated(c)
             y == WithCallDone(s[i])
  <2>1. running[i].act # "" /\ c \in Reading(page.acts[running[i].act].does)
    BY <1>4, Waiting DEF ServeStep, Served
  <2>2. /\ s \in Seq(Instance) /\ Len(s) = Len(running)
        /\ \A j \in 1..Len(running) : s[j].act = running[j].act
    BY <1>1, <2>1, OutdatedFits DEF AllFit, Became
  <2>3. running' = [s EXCEPT ![i] = y]
    BY <1>4 DEF ServeStep
  <2>4. \A j \in 1..Len(running) : s[j].act # ""
    BY <1>1, <2>1, <2>2, PaintedActs
  <2> HIDE DEF s
  <2>5. y.act = s[i].act
    <3>1. i \in 1..Len(s) /\ s \in Seq(Instance)
      BY <1>1, <2>2
    <3>2. s[i] \in Instance
      BY ONLY <3>1
    <3> QED BY <3>2 DEF WithCallDone, Instance
  <2> HIDE DEF y
  <2>6. DOMAIN s = 1..Len(s)
    BY <2>2
  <2>7. Len([s EXCEPT ![i] = y]) = Len(s)
    BY <2>2, ReplacedLength
  <2> QED BY <1>1, <2>2, <2>3, <2>4, <2>5, <2>6, <2>7
<1>5. ASSUME NEW c \in Head(running[i].left), Succeed(i, c)
      PROVE  \A j \in 1..Len(running') : running'[j].act # ""
  <2>1. /\ running[i].act # "" /\ c \in Reading(page.acts[running[i].act].does)
        /\ End(Outdated(c), Overwritten(i, c), i, {})
    <3>1. running[i].act \in DOMAIN page.acts /\ Reloads(i) = {}
      BY <1>1, <1>5 DEF Succeed, Served, Reloads, PageFits, PaintsFit
    <3> QED BY <1>5, <3>1, Waiting DEF Succeed, Served
  <2>2. /\ AllFit(Outdated(c), page) /\ Len(Outdated(c)) = Len(running)
        /\ \A j \in 1..Len(running) : Outdated(c)[j].act = running[j].act
    BY <1>1, <2>1, OutdatedFits DEF Became
  <2> QED BY <1>1, <2>1, <2>2, PaintedEnd
<1> QED BY <1>2, <1>3, <1>4, <1>5

\* The list of a painted page lands, or comes to its end: nothing is left running.
LEMMA PaintedShow ==
  ASSUME PageFits(page), Painted(page), NEW seq \in Seq(Instance), Len(seq) = 0, ShowList(seq)
  PROVE  1..Len(running') = {}
<1>1. /\ page.details = {} /\ {} \in SUBSET LoadsOf(page) /\ IsFiniteSet({}) /\ Cardinality({}) = 0
      /\ "" \in Text
  BY FS_EmptySet DEF PageFits, PaintsFit, Text
<1>2. AllFit(MountDetails, page) /\ Len(MountDetails) = 0
  BY <1>1, StartedLoads DEF MountDetails
<1>3. MountDetails \in Seq(Instance)
  BY <1>2 DEF AllFit
<1>4. Len(seq \o MountDetails) = 0
  BY <1>2, <1>3
<1>5. Len(running') = 0
  BY <1>4 DEF ShowList
<1> QED BY <1>5

LEMMA OneRemoved ==
  ASSUME NEW s \in Seq(Instance), Len(s) = 1, NEW i \in 1..Len(s)
  PROVE  RemoveAt(s, i) \in Seq(Instance) /\ Len(RemoveAt(s, i)) = 0
<1>1. RemoveAt(s, i) \in Seq(Instance) /\ Len(RemoveAt(s, i)) = Len(s) - 1
  BY RemoveAtElements
<1>2. Len(s) - 1 = 0
  OBVIOUS
<1> QED BY <1>1, <1>2

LEMMA LandPaint ==
  ASSUME Base, PaintOK, NEW i \in DOMAIN running, page' = page, Land(i) \/ EndEarly(i)
  PROVE  PaintOK'
<1> SUFFICES ASSUME Painted(page) PROVE (Len(running') = 1 /\ hidden') \/ 1..Len(running') = {}
  BY PaintedAgain
<1>1. /\ PageFits(page) /\ i \in 1..Len(running) /\ running \in Seq(Instance)
      /\ running[i].act = "" /\ page.first = NoLoad
  BY PageOfThePortal, Waiting DEF Base, AllFit, PageFits, FirstFits, Land, EndEarly
<1>2. Len(running) = 1 /\ hidden
  BY <1>1 DEF PaintOK
<1>3. CASE EndEarly(i)
  <2>1. RemoveAt(running, i) \in Seq(Instance) /\ Len(RemoveAt(running, i)) = 0
    BY <1>1, <1>2, OneRemoved
  <2>2. ShowList(RemoveAt(running, i))
    BY <1>3 DEF EndEarly
  <2> QED BY <1>1, <2>1, <2>2, PaintedShow
<1>4. CASE Land(i)
  <2>1. Landed(i) \in Seq(Instance) /\ Len(Landed(i)) = Len(running)
    BY <1>1, LandedFits
  <2>2. RemoveAt(Landed(i), i) \in Seq(Instance) /\ Len(RemoveAt(Landed(i), i)) = 0
    BY <1>1, <1>2, <2>1, OneRemoved
  <2>3. \/ running' = Landed(i) /\ hidden' = hidden
        \/ ShowList(RemoveAt(Landed(i), i))
        \/ running' = RemoveAt(Landed(i), i)
    BY <1>1, <1>4 DEF Land
  <2>4. Len(running') = 0 => 1..Len(running') = {}
    OBVIOUS
  <2> QED BY <1>1, <1>2, <2>1, <2>2, <2>3, <2>4, PaintedShow
<1> QED BY <1>3, <1>4

\* The first load of a page is not what anything due waits for.
LEMMA LandEmptySettled ==
  ASSUME Base, NEW i \in DOMAIN running, LandEmpty(i), NEW d \in CallsOf(page)
  PROVE  /\ Current(running, shown, d) => Current(running', shown', d)
         /\ Filtered(running, shownFilter, filter) => Filtered(running', shownFilter', filter)
         /\ page' = page => PaintOK'
<1> DEFINE x == running[i]
           n == Len(running)
<1>1. /\ PageFits(page) /\ ViewFits(shown, page) /\ running \in Seq(Instance) /\ i \in 1..n
      /\ \A j \in 1..n : running[j] \in Instance /\ Fits(running[j], page)
  BY PageOfThePortal, Waiting DEF Base, AllFit
<1>2. /\ x.act = "" /\ page.first # NoLoad /\ x.load = page.first
      /\ running' = RemoveAt(running, i) /\ shown' = shown /\ shownFilter' = shownFilter
      /\ \A c \in Reading(page.first) : shown[c] = "nothing"
  BY DEF LandEmpty
<1>3. /\ ~Painted(page) /\ Reading(page.first) \cap Touched(page) = {}
      /\ page.first # page.list
  BY <1>1, <1>2 DEF PageFits, FirstFits, LoadsFit
<1>4. ASSUME Current(running, shown, d) PROVE Current(running', shown', d)
  <2>1. /\ shown[d] = "stale" => \E j \in 1..n : Brings(running[j], d) \/ Mends(running[j], d)
        /\ \A k \in 1..n : Belated(running[k], d) =>
             \E j \in 1..n : (j > k /\ Brings(running[j], d)) \/ Mends(running[j], d)
    BY <1>4 DEF Current, CurrentOn
  <2>2. ~Mends(x, d)
    BY <1>2 DEF Mends
  <2>3. CurrentOn(running, shown, d, 1..n \ {i})
    <3>1. CASE ~Brings(x, d)
      BY <2>1, <2>2, <3>1 DEF CurrentOn
    <3>2. CASE Brings(x, d)
      <4>1. d \in Reading(page.first)
        BY <1>2, <3>2 DEF Brings
      <4>2. shown[d] # "stale"
        BY <1>2, <4>1
      <4>3. ASSUME NEW k \in 1..n, Belated(running[k], d) PROVE FALSE
        <5>1. d \in Touched(page)
          BY <1>1, <4>3, BelatedIsTouched
        <5> QED BY <1>3, <4>1, <5>1
      <4> QED BY <4>2, <4>3 DEF CurrentOn
    <3> QED BY <3>1, <3>2
  <2> QED BY <1>1, <1>2, <2>3, RemovedCurrent
<1>5. ASSUME Filtered(running, shownFilter, filter) PROVE Filtered(running', shownFilter', filter)
  <2>1. ~ListLoad(x)
    BY <1>2, <1>3 DEF ListLoad
  <2> QED BY <1>1, <1>2, <1>5, <2>1, GoneFiltered
<1>6. page' = page => PaintOK'
  BY <1>3, PaintedAgain
<1> QED BY <1>4, <1>5, <1>6

LEMMA ServerSettled ==
  ASSUME Base, Settled, NEW i \in DOMAIN running,
         \/ FailAct(i) \/ FailLoad(i) \/ Land(i) \/ LandEmpty(i) \/ EndEarly(i)
         \/ \E c \in Head(running[i].left) :
              ServeRead(i, c) \/ ServeStep(i, c) \/ Succeed(i, c) \/ LoseAnswer(i, c)
  PROVE  Settled'
<1>1. /\ page' = page /\ filter' = filter /\ (disturbed => disturbed')
      /\ disturbed \in BOOLEAN
  BY DEF FailAct, FailLoad, Land, LandEmpty, EndEarly, ServeRead, ServeStep, Succeed, LoseAnswer,
         Unmoved, Base
<1>0. dialog.progress => dialog' = dialog
  BY FollowedList DEF FailAct, FailLoad, Land, LandEmpty, EndEarly, ServeRead, ServeStep, Succeed,
     LoseAnswer
<1> SUFFICES ASSUME ~disturbed', PaintOK,
                    NearlyUpToDate(running, shown, shownFilter, filter, dialog)
             PROVE  PaintOK' /\ NearlyUpToDate(running', shown', shownFilter', filter, dialog')
  BY <1>1, SettledAgain DEF Settled
<1>2. Filtered(running, shownFilter, filter)
  BY DEF NearlyUpToDate
<1>3. ASSUME NEW d \in Due
      PROVE  /\ Current(running, shown, d) \/ Promised(dialog', d)
             /\ d \in CallsOf(page)
  BY <1>0, DueIsShown DEF NearlyUpToDate, Promised
<1>4. CASE FailAct(i)
  <2>1. PaintOK' /\ Filtered(running', shownFilter', filter)
    BY <1>1, <1>2, <1>4, ServerFiltered, ServerPaint
  <2>2. ASSUME NEW d \in Due PROVE Current(running', shown', d) \/ Promised(dialog', d)
    BY <1>3, <1>4, FailActCurrent
  <2> QED BY <2>1, <2>2 DEF NearlyUpToDate
<1>5. CASE FailLoad(i)
  BY <1>5 DEF FailLoad
<1>6. CASE Land(i)
  <2>1. PaintOK' /\ Filtered(running', shownFilter', filter)
    BY <1>1, <1>2, <1>6, LandFiltered, LandPaint
  <2>2. ASSUME NEW d \in Due PROVE Current(running', shown', d) \/ Promised(dialog', d)
    BY <1>3, <1>6, LandCurrent
  <2> QED BY <2>1, <2>2 DEF NearlyUpToDate
<1>7. CASE EndEarly(i)
  <2>1. PaintOK' /\ Filtered(running', shownFilter', filter)
    BY <1>1, <1>2, <1>7, EndEarlyFiltered, LandPaint
  <2>2. ASSUME NEW d \in Due PROVE Current(running', shown', d) \/ Promised(dialog', d)
    BY <1>3, <1>7, EndEarlyCurrent
  <2> QED BY <2>1, <2>2 DEF NearlyUpToDate
<1>11. CASE LandEmpty(i)
  <2>1. CallsOf(page) # {}
    BY <1>11, PageOfThePortal, FirstCalls DEF LandEmpty, PageFits, FirstFits
  <2>2. PaintOK' /\ Filtered(running', shownFilter', filter)
    BY <1>1, <1>2, <1>11, <2>1, LandEmptySettled
  <2>3. ASSUME NEW d \in Due PROVE Current(running', shown', d) \/ Promised(dialog', d)
    BY <1>3, <1>11, LandEmptySettled
  <2> QED BY <2>2, <2>3 DEF NearlyUpToDate
<1>8. ASSUME NEW c \in Head(running[i].left),
             ServeRead(i, c) \/ ServeStep(i, c) \/ Succeed(i, c)
      PROVE  PaintOK' /\ NearlyUpToDate(running', shown', shownFilter', filter, dialog')
  <2>1. PaintOK' /\ Filtered(running', shownFilter', filter)
    BY <1>1, <1>2, <1>8, ServerFiltered, ServerPaint
  <2>2. ASSUME NEW d \in Due PROVE Current(running', shown', d) \/ Promised(dialog', d)
    BY <1>3, <1>8, ServeReadCurrent, ServeStepCurrent, SucceedCurrent
  <2> QED BY <2>1, <2>2 DEF NearlyUpToDate
<1>9. ASSUME NEW c \in Head(running[i].left), LoseAnswer(i, c) PROVE FALSE
  BY <1>9 DEF LoseAnswer
<1> QED BY <1>4, <1>5, <1>6, <1>7, <1>8, <1>9, <1>11

\* A step that leaves the screen and what is under way alone.
LEMMA IdleSettled ==
  ASSUME Settled, UNCHANGED vars \/ \E c \in DOMAIN Moves : OthersMove(c)
  PROVE  Settled'
<1>1. /\ page' = page /\ disturbed' = disturbed /\ running' = running /\ shown' = shown
      /\ shownFilter' = shownFilter /\ filter' = filter /\ hidden' = hidden /\ dialog' = dialog
  BY DEF OthersMove, vars
<1> QED BY <1>1, SettledAgain DEF Settled, PaintOK

\* A page that opens shows nothing, and has asked for what it is going to show.
NothingYet(p, seq, view, hid) ==
  /\ \A k \in 1..Len(seq) : DOMAIN seq[k].got = {} /\ seq[k].filter = 0
  /\ \A d \in CallsOf(p) : view[d] = "nothing"
  /\ Painted(p) => 1..Len(seq) = {} \/ (Len(seq) = 1 /\ hid)

Unanswered(seq) == \A k \in 1..Len(seq) : DOMAIN seq[k].got = {} /\ seq[k].filter = 0

LEMMA StartedUnanswered ==
  ASSUME NEW p, PageFits(p), NEW loads \in SUBSET LoadsOf(p), IsFiniteSet(loads), NEW b \in Text
  PROVE  Unanswered(Started(loads, b))
<1> DEFINE t == Started(loads, b)
<1>1. \A k \in 1..Len(t) : \E l \in loads : t[k] = Load(l, b, 0)
  BY StartedLoads
<1>2. \A l : DOMAIN Load(l, b, 0).got = {} /\ Load(l, b, 0).filter = 0
  BY NoAnswersYet DEF Load
<1> HIDE DEF t
<1>3. Unanswered(t)
  BY <1>1, <1>2 DEF Unanswered
<1> QED BY <1>3 DEF t

LEMMA BlankIsNothingYet ==
  ASSUME NEW q \in DOMAIN Pages, NEW r
  PROVE  NothingYet(Pages[q], Blank(q, r).running, Blank(q, r).shown, Blank(q, r).hidden)
<1> DEFINE p == Pages[q]
           seq == Blank(q, r).running
           all == Started(Opening(p), "")
<1>1. PageFits(p)
  BY PagesFit
<1>2. Opening(p) \in SUBSET LoadsOf(p) /\ IsFiniteSet(Opening(p)) /\ "" \in Text
  BY OpeningIsFinite DEF Text
<1>4. seq = all \/ seq = <<>>
  BY DEF Blank
<1>5. Blank(q, r).shown = [c \in CallsOf(p) |-> "nothing"] /\ Blank(q, r).hidden = (p.list # NoLoad)
  BY DEF Blank
<1> HIDE DEF p, seq
<1>3. Unanswered(all) /\ Len(all) = Cardinality(Opening(p))
  <2> DEFINE loads == Opening(p)
  <2>1. loads \in SUBSET LoadsOf(p) /\ IsFiniteSet(loads)
    BY <1>2
  <2> HIDE DEF loads
  <2>2. Unanswered(Started(loads, "")) /\ Len(Started(loads, "")) = Cardinality(loads)
    BY <1>1, <1>2, <2>1, StartedLoads, StartedUnanswered
  <2> QED BY <2>2 DEF loads
<1> HIDE DEF all
<1>6. \A k \in 1..Len(all) : DOMAIN all[k].got = {} /\ all[k].filter = 0
  BY <1>3 DEF Unanswered
<1>7. Painted(p) => 1..Len(all) = {} \/ (Len(all) = 1 /\ p.list # NoLoad)
  <2> SUFFICES ASSUME Painted(p) PROVE 1..Len(all) = {} \/ (Len(all) = 1 /\ p.list # NoLoad)
    OBVIOUS
  <2>1. p.others = {} /\ p.first = NoLoad
    BY <1>1 DEF PageFits, PaintsFit, FirstFits
  <2>2. CASE p.list = NoLoad
    <3>1. Opening(p) = {} /\ Cardinality({}) = 0
      BY <2>1, <2>2, FS_EmptySet DEF Opening
    <3>2. Len(all) = 0
      BY <1>3, <3>1
    <3> QED BY <3>2
  <2>3. CASE p.list # NoLoad
    <3>1. Opening(p) = {p.list}
      BY <2>1, <2>3 DEF Opening
    <3>2. Cardinality({p.list}) = 1
      BY FS_Singleton
    <3> QED BY <1>3, <2>3, <3>1, <3>2
  <2> QED BY <2>2, <2>3
<1>8. /\ \A k \in 1..Len(seq) : DOMAIN seq[k].got = {} /\ seq[k].filter = 0
      /\ Painted(p) => 1..Len(seq) = {} \/ (Len(seq) = 1 /\ p.list # NoLoad)
  BY <1>4, <1>6, <1>7, NothingStarted
<1>9. NothingYet(p, seq, Blank(q, r).shown, Blank(q, r).hidden)
  BY <1>5, <1>8 DEF NothingYet
<1> QED BY <1>9 DEF seq, p

LEMMA InitSettled == Init => Settled
<1> SUFFICES ASSUME Init PROVE Settled
  OBVIOUS
<1>1. PICK q \in DOMAIN Pages : \E r \in Rows(Pages[q].kind) :
        /\ page = Blank(q, r).page /\ row = Blank(q, r).row /\ shown = Blank(q, r).shown
        /\ hidden = Blank(q, r).hidden /\ running = Blank(q, r).running
        /\ expanded = Pages[q].spread
  BY DEF Init
<1>2. PICK r \in Rows(Pages[q].kind) :
        /\ page = Blank(q, r).page /\ row = Blank(q, r).row /\ shown = Blank(q, r).shown
        /\ hidden = Blank(q, r).hidden /\ running = Blank(q, r).running
        /\ expanded = Pages[q].spread
  BY <1>1
<1>3. NothingYet(page, running, shown, hidden)
  BY <1>2, BlankFits, BlankIsNothingYet
<1>4. filter = 0 /\ shownFilter = 0
  BY DEF Init
<1>5. PaintOK
  BY <1>3 DEF PaintOK, NothingYet
<1>6. ASSUME NEW d \in Due PROVE Current(running, shown, d)
  BY <1>3, DueIsShown DEF NothingYet, Current, CurrentOn, Belated
<1>7. Filtered(running, shownFilter, filter)
  BY <1>3, <1>4 DEF NothingYet, Filtered, FilteredOn, Other
<1> QED BY <1>5, <1>6, <1>7 DEF Settled, NearlyUpToDate

LEMMA ArriveSettled ==
  ASSUME NEW q, Arrive(q)
  PROVE  Settled'
<1>1. q \in DOMAIN Pages
  BY DEF Arrive
<1>2. PICK r \in Rows(Pages[q].kind) :
        /\ page' = Blank(q, r).page /\ row' = Blank(q, r).row /\ shown' = Blank(q, r).shown
        /\ hidden' = Blank(q, r).hidden /\ running' = Blank(q, r).running
  BY DEF Arrive
<1>3. NothingYet(page', running', shown', hidden')
  BY <1>1, <1>2, BlankFits, BlankIsNothingYet
<1>4. filter' = 0 /\ shownFilter' = 0
  BY DEF Arrive
<1>5. PaintOK'
  BY <1>3 DEF PaintOK, NothingYet
<1>6. \A d \in Due' : Current(running, shown, d)'
  BY <1>3 DEF NothingYet, Current, CurrentOn, Belated, Due
<1>7. Filtered(running, shownFilter, filter)'
  BY <1>3, <1>4 DEF NothingYet, Filtered, FilteredOn, Other
<1> QED BY <1>5, <1>6, <1>7 DEF Settled, NearlyUpToDate

LEMMA StepSettled ==
  ASSUME Base, Settled, [Next]_vars
  PROVE  Settled'
<1>1. CASE FollowLink \/ OpenResult
  BY <1>1, ArriveSettled DEF FollowLink, OpenResult
<1>2. CASE \/ \E a \in DOMAIN page.acts : OpenDialog(a) \/ Press(a)
           \/ CloseDialog \/ Confirm \/ Refresh \/ ChangeFilter \/ Toggle
  BY <1>2, UserSettled
<1>4. CASE CloseProgress
  BY <1>4, CloseProgressSettled
<1>5. CASE UNCHANGED vars \/ \E c \in DOMAIN Moves : OthersMove(c)
  BY <1>5, IdleSettled
<1>3. ASSUME NEW i \in DOMAIN running,
             \/ FailAct(i) \/ FailLoad(i) \/ Land(i) \/ LandEmpty(i) \/ EndEarly(i)
             \/ \E c \in Head(running[i].left) :
                  ServeRead(i, c) \/ ServeStep(i, c) \/ Succeed(i, c) \/ LoseAnswer(i, c)
      PROVE  Settled'
  BY <1>3, ServerSettled
<1> QED BY <1>1, <1>2, <1>3, <1>4, <1>5 DEF Next

\* When nothing is under way any more, nothing due can be out of date.
LEMMA SettledImplies == Base /\ Settled => PageSettles
<1> SUFFICES ASSUME Base, Settled, Quiet, ~disturbed, ~dialog.progress
             PROVE  /\ shownFilter = filter
                    /\ \A c \in DOMAIN shown : shown[c] = "stale" => <<page, c>> \in Lagging
  BY DEF PageSettles
<1>1. 1..Len(running) = {}
  BY NothingStarted DEF Quiet
<1>2. UpToDate(running, shown, shownFilter, filter) /\ DOMAIN shown = CallsOf(page)
  BY WithoutProgress DEF Settled, Base, ViewFits
<1>3. \A d \in Due : shown[d] # "stale"
  BY <1>1, <1>2 DEF UpToDate, Current, CurrentOn
<1>4. shownFilter = filter
  BY <1>1, <1>2 DEF UpToDate, Filtered, FilteredOn
<1> QED BY <1>2, <1>3, <1>4 DEF Due

\* However the user's acts, the reloads they start and the answers interleave, a
\* page comes to rest showing what the acts left, under the filter chosen.
THEOREM PortalPageSettles == Spec => []PageSettles
<1>1. Base /\ Settled /\ [Next]_vars => Base' /\ Settled'
  BY StepBase, StepSettled
<1> QED BY <1>1, InitBase, InitSettled, SettledImplies, PTL DEF Spec
=============================================================================
