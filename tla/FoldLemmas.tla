----------------------------- MODULE FoldLemmas -----------------------------
(***************************************************************************)
(* Lemmas about numbers, folds and lists. The library states induction     *)
(* with an operator as a parameter; here a set stands for the predicate,   *)
(* so a proof can use it, and a fold over a list (FoldLeft, which is the   *)
(* MapThenFoldSet of Folds) can be proved about for every list.            *)
(***************************************************************************)
EXTENDS Naturals, SequencesExt, WellFoundedInduction, TLAPS

\* Each set of numbers that is not empty has a least member.
LEMMA Least ==
  ASSUME NEW T \in SUBSET Nat, T # {}
  PROVE  \E x \in T : \A y \in T : x <= y
<1> DEFINE R == {ss \in Nat \X Nat : ss[1] < ss[2]}
<1>1. IsWellFoundedOn(R, Nat)
  BY NatLessThanWellFounded DEF OpToRel
<1> HIDE DEF R
<1>2. PICK x \in T : \A y \in T : ~(<<y, x>> \in R)
  BY <1>1, WFMin
<1>3. ASSUME NEW y \in T PROVE x <= y
  <2>1. ~(<<y, x>> \in {ss \in Nat \X Nat : ss[1] < ss[2]})
    BY <1>2, <1>3 DEF R
  <2> QED
    BY <2>1
<1> QED
  BY <1>3

\* Induction, with a set in place of the predicate.
LEMMA SetInduction ==
  ASSUME NEW S, 0 \in S, \A n \in Nat : n \in S => n + 1 \in S
  PROVE  Nat \subseteq S
<1> DEFINE T == {n \in Nat : n \notin S}
<1>1. SUFFICES ASSUME T # {} PROVE FALSE
  OBVIOUS
<1>2. PICK x \in T : \A y \in T : x <= y
  BY <1>1, Least
<1>3. x # 0 /\ x - 1 \in Nat /\ x - 1 \notin T
  BY <1>2
<1> QED
  BY <1>2, <1>3

\* Each set of some of 1 .. n that is not empty has a greatest member.
LEMMA Greatest ==
  ASSUME NEW n \in Nat, NEW s \in SUBSET (1 .. n), s # {}
  PROVE  Max(s) \in s /\ \A y \in s : y <= Max(s)
<1> DEFINE T == {m \in Nat : \A y \in s : y <= m}
<1>1. n \in T
  OBVIOUS
<1>2. PICK x \in T : \A y \in T : x <= y
  BY <1>1, Least
<1>3. x \in s
  <2> SUFFICES ASSUME x \notin s PROVE FALSE
    OBVIOUS
  <2>1. \A y \in s : y <= x - 1 /\ y \in Nat /\ y >= 1
    BY <1>2
  <2>2. x \in Nat /\ x >= 1
    <3>1. PICK y \in s : TRUE
      OBVIOUS
    <3>2. y <= x /\ y >= 1 /\ y \in Nat /\ x \in Nat
      BY <1>2
    <3> QED
      BY <3>2
  <2>3. x - 1 \in Nat /\ x - 1 \in T
    BY <2>1, <2>2
  <2> QED
    BY <1>2, <2>2, <2>3
<1>4. \E z \in s : \A y \in s : z >= y
  BY <1>2, <1>3
<1>5. Max(s) \in s /\ \A y \in s : Max(s) >= y
  BY <1>4 DEF Max
<1> QED
  BY <1>5

\* The greatest of the first k numbers is k.
LEMMA GreatestOfPrefix ==
  ASSUME NEW k \in Nat, k # 0
  PROVE  Max(1 .. k) = k /\ (1 .. k) \ {Max(1 .. k)} = 1 .. k - 1
<1>1. k \in 1 .. k
  OBVIOUS
<1>2. Max(1 .. k) \in 1 .. k /\ \A y \in 1 .. k : y <= Max(1 .. k)
  BY <1>1, Greatest
<1>3. Max(1 .. k) = k
  BY <1>1, <1>2
<1> QED
  BY <1>3

\* A set that holds the next number has it as its greatest.
LEMMA GreatestNext ==
  ASSUME NEW m \in Nat, NEW s \in SUBSET (1 .. m + 1), m + 1 \in s
  PROVE  Max(s) = m + 1
<1> DEFINE k == m + 1
<1>1. k \in Nat /\ s \in SUBSET (1 .. k) /\ k \in s
  OBVIOUS
<1> HIDE DEF k
<1>2. Max(s) \in s /\ \A y \in s : y <= Max(s)
  BY <1>1, Greatest
<1>3. Max(s) = k
  <2>1. k <= Max(s) /\ Max(s) \in 1 .. k
    BY <1>1, <1>2
  <2> QED
    BY <1>1, <2>1
<1> QED
  BY <1>3 DEF k

\* g folds n items from base, the last of a set of them first.
IsFold(g, n, base, step) ==
    g = [s \in SUBSET (1 .. n) |-> IF s = {} THEN base ELSE step[<<Max(s), g[s \ {Max(s)}]>>]]

\* A function that folds n items with a step of B exists.
LEMMA FoldExists ==
  ASSUME NEW B, NEW base \in B, NEW n \in Nat, NEW step \in [(1 .. n) \X B -> B]
  PROVE  \E g \in [SUBSET (1 .. n) -> B] : IsFold(g, n, base, step)
<1> DEFINE Folds(m, g) ==
             \A s \in SUBSET (1 .. m) : g[s] = IF s = {} THEN base ELSE step[<<Max(s), g[s \ {Max(s)}]>>]
           Found(m) == \E g \in [SUBSET (1 .. m) -> B] : Folds(m, g)
           Has == {m \in Nat : m <= n => Found(m)}
<1>1. 0 \in Has
  <2>1. SUBSET (1 .. 0) = {{}}
    OBVIOUS
  <2>2. [s \in SUBSET (1 .. 0) |-> base] \in [SUBSET (1 .. 0) -> B] /\ Folds(0, [s \in SUBSET (1 .. 0) |-> base])
    BY <2>1
  <2> QED
    BY <2>2
<1>2. ASSUME NEW m \in Nat, m \in Has PROVE m + 1 \in Has
  <2> SUFFICES ASSUME m + 1 <= n PROVE Found(m + 1)
    <3> HIDE DEF Found
    <3> QED
      OBVIOUS
  <2>0. Found(m)
    <3> HIDE DEF Found
    <3> QED
      BY <1>2
  <2>1. PICK f \in [SUBSET (1 .. m) -> B] : Folds(m, f)
    BY <2>0
  <2> DEFINE g == [s \in SUBSET (1 .. m + 1) |-> IF m + 1 \in s THEN step[<<m + 1, f[s \ {m + 1}]>>] ELSE f[s]]
  <2>2. ASSUME NEW s \in SUBSET (1 .. m + 1) PROVE s \ {m + 1} \in SUBSET (1 .. m) /\ (m + 1 \notin s => s \in SUBSET (1 .. m))
    OBVIOUS
  <2>3. g \in [SUBSET (1 .. m + 1) -> B]
    <3>1. ASSUME NEW s \in SUBSET (1 .. m + 1) PROVE (IF m + 1 \in s THEN step[<<m + 1, f[s \ {m + 1}]>>] ELSE f[s]) \in B
      <4>1. s \ {m + 1} \in SUBSET (1 .. m) /\ (m + 1 \notin s => s \in SUBSET (1 .. m))
        BY <2>2
      <4>2. f[s \ {m + 1}] \in B /\ (m + 1 \notin s => f[s] \in B)
        BY <4>1
      <4>3. <<m + 1, f[s \ {m + 1}]>> \in (1 .. n) \X B
        BY <4>2
      <4> QED
        BY <4>2, <4>3
    <3> QED
      BY <3>1
  <2>4. ASSUME NEW s \in SUBSET (1 .. m + 1)
        PROVE  g[s] = IF s = {} THEN base ELSE step[<<Max(s), g[s \ {Max(s)}]>>]
    <3>1. CASE m + 1 \in s
      <4>2. Max(s) = m + 1
        BY <3>1, GreatestNext
      <4>3. g[s \ {m + 1}] = f[s \ {m + 1}]
        OBVIOUS
      <4>4. g[s] = step[<<m + 1, f[s \ {m + 1}]>>]
        BY <3>1
      <4> QED
        BY <3>1, <4>2, <4>3, <4>4
    <3>2. CASE m + 1 \notin s
      <4>1. s \in SUBSET (1 .. m) /\ g[s] = f[s]
        BY <2>2, <3>2
      <4>2. f[s] = IF s = {} THEN base ELSE step[<<Max(s), f[s \ {Max(s)}]>>]
        BY <2>1, <4>1
      <4>3. g[s \ {Max(s)}] = f[s \ {Max(s)}]
        BY <3>2
      <4> QED
        BY <4>1, <4>2, <4>3
    <3> QED
      BY <3>1, <3>2
  <2> QED
    BY <2>3, <2>4
<1>3. n \in Has
  <2> HIDE DEF Has
  <2> QED
    BY <1>1, <1>2, SetInduction
<1>4. Found(n)
  <2> HIDE DEF Found
  <2> QED
    BY <1>3
<1>5. PICK g \in [SUBSET (1 .. n) -> B] : Folds(n, g)
  BY <1>4
<1>6. IsFold(g, n, base, step)
  BY <1>5 DEF IsFold
<1> QED
  BY <1>6

\* A fold whose every step keeps to B keeps to B.
LEMMA FoldIn ==
  ASSUME NEW n \in Nat, NEW B, NEW g, g[{}] \in B,
         \A s \in SUBSET (1 .. n) : s # {} /\ g[s \ {Max(s)}] \in B => g[s] \in B
  PROVE  g[1 .. n] \in B
<1> DEFINE Has == {m \in Nat : m <= n => g[1 .. m] \in B}
<1>1. 0 \in Has
  <2>1. 1 .. 0 = {}
    OBVIOUS
  <2> QED
    BY <2>1
<1>2. ASSUME NEW m \in Nat, m \in Has PROVE m + 1 \in Has
  <2> SUFFICES ASSUME m + 1 <= n PROVE g[1 .. m + 1] \in B
    OBVIOUS
  <2>1. g[1 .. m] \in B
    BY <1>2
  <2>2. (1 .. m + 1) \ {Max(1 .. m + 1)} = 1 .. m
    BY GreatestOfPrefix
  <2>3. 1 .. m + 1 \in SUBSET (1 .. n) /\ m + 1 \in 1 .. m + 1
    OBVIOUS
  <2> QED
    BY <2>1, <2>2, <2>3
<1>3. n \in Has
  <2> HIDE DEF Has
  <2> QED
    BY <1>1, <1>2, SetInduction
<1> QED
  BY <1>3

\* it folds with a step wherever it keeps to B, and h holds the stages of a fold: h[m] folds the first m items.
Follows(it, n, B, base, step) ==
    /\ it[{}] = base
    /\ \A s \in SUBSET (1 .. n) : s # {} /\ it[s \ {Max(s)}] \in B => it[s] = step[<<Max(s), it[s \ {Max(s)}]>>]
StagesOf(h, n, B, base, step) ==
    h \in [0 .. n -> B] /\ h[0] = base /\ \A m \in 1 .. n : h[m] = step[<<m, h[m - 1]>>]
Staged(it, n, B, base, step) == \E h : StagesOf(h, n, B, base, step) /\ h[n] = it[1 .. n]

\* A fold goes through n stages.
LEMMA FoldStages ==
  ASSUME NEW B, NEW base \in B, NEW n \in Nat, NEW step \in [(1 .. n) \X B -> B],
         NEW it, Follows(it, n, B, base, step)
  PROVE  Staged(it, n, B, base, step)
<1>0. /\ it[{}] = base
      /\ \A s \in SUBSET (1 .. n) : s # {} /\ it[s \ {Max(s)}] \in B => it[s] = step[<<Max(s), it[s \ {Max(s)}]>>]
  BY DEF Follows
<1> DEFINE Has == {m \in Nat : m <= n => it[1 .. m] \in B}
<1>1. 0 \in Has
  <2>1. 1 .. 0 = {}
    OBVIOUS
  <2> QED
    BY <1>0, <2>1
<1>2. ASSUME NEW m \in Nat, m + 1 <= n, it[1 .. m] \in B
      PROVE  it[1 .. m + 1] = step[<<m + 1, it[1 .. m]>>] /\ it[1 .. m + 1] \in B
  <2> DEFINE s == 1 .. m + 1
  <2>1. s \in SUBSET (1 .. n) /\ m + 1 \in s /\ m + 1 \in 1 .. n
    BY <1>2
  <2>2. Max(s) = m + 1 /\ s \ {Max(s)} = 1 .. m
    BY GreatestOfPrefix
  <2> HIDE DEF s
  <2>3. it[s] = step[<<m + 1, it[1 .. m]>>]
    BY <1>0, <1>2, <2>1, <2>2
  <2>4. <<m + 1, it[1 .. m]>> \in (1 .. n) \X B
    BY <1>2, <2>1
  <2> QED
    BY <2>3, <2>4 DEF s
<1>3. ASSUME NEW m \in Nat, m \in Has PROVE m + 1 \in Has
  <2> SUFFICES ASSUME m + 1 <= n PROVE it[1 .. m + 1] \in B
    OBVIOUS
  <2>1. it[1 .. m] \in B
    BY <1>3
  <2> QED
    BY <1>2, <2>1
<1>4. Nat \subseteq Has
  <2> HIDE DEF Has
  <2> QED
    BY <1>1, <1>3, SetInduction
<1>5. ASSUME NEW m \in 0 .. n PROVE it[1 .. m] \in B
  BY <1>4
<1> DEFINE h == [m \in 0 .. n |-> it[1 .. m]]
<1>6. h \in [0 .. n -> B] /\ h[n] = it[1 .. n]
  BY <1>5
<1>7. h[0] = base
  <2>1. 1 .. 0 = {}
    OBVIOUS
  <2> QED
    BY <1>0, <2>1
<1>8. ASSUME NEW m \in 1 .. n PROVE h[m] = step[<<m, h[m - 1]>>]
  <2>1. m - 1 \in Nat /\ m - 1 \in 0 .. n /\ (m - 1) + 1 = m /\ m - 1 + 1 <= n
    OBVIOUS
  <2>2. it[1 .. m - 1] \in B
    BY <1>5, <2>1
  <2>3. it[1 .. m] = step[<<m, it[1 .. m - 1]>>]
    BY <1>2, <2>1, <2>2
  <2> QED
    BY <2>1, <2>3
<1> QED
  BY <1>6, <1>7, <1>8 DEF StagesOf, Staged

\* What a stage leaves and no later one takes away was left by none, if it is not there in the end.
LEMMA Marked ==
  ASSUME NEW n \in Nat, NEW h, NEW bad,
         \A m \in 1 .. n : h[m - 1] # <<>> \/ m \in bad => h[m] # <<>>
  PROVE  h[n] = <<>> => h[0] = <<>> /\ \A m \in 1 .. n : m \notin bad
<1> DEFINE Has == {m \in Nat : m <= n /\ h[m] = <<>> => h[0] = <<>> /\ \A i \in 1 .. m : i \notin bad}
<1>1. 0 \in Has
  OBVIOUS
<1>2. ASSUME NEW m \in Nat, m \in Has PROVE m + 1 \in Has
  <2> SUFFICES ASSUME m + 1 <= n, h[m + 1] = <<>> PROVE h[0] = <<>> /\ \A i \in 1 .. m + 1 : i \notin bad
    OBVIOUS
  <2>1. m + 1 \in 1 .. n /\ (m + 1) - 1 = m
    OBVIOUS
  <2>2. h[m] = <<>> /\ m + 1 \notin bad
    BY <2>1
  <2> QED
    BY <1>2, <2>2
<1>3. n \in Has
  <2> HIDE DEF Has
  <2> QED
    BY <1>1, <1>2, SetInduction
<1> QED
  BY <1>3

-----------------------------------------------------------------------------
\* A sequence of something.
IsSeq(s) == s \in Seq(Range(s))

\* A list has a length, and its places are the numbers up to it.
LEMMA SeqOfRange ==
  ASSUME NEW w, IsSeq(w)
  PROVE  Len(w) \in Nat /\ DOMAIN w = 1 .. Len(w)
BY DEF IsSeq

\* A place of a list holds a member of its range.
LEMMA InRange ==
  ASSUME NEW w, NEW i \in DOMAIN w
  PROVE  w[i] \in Range(w)
BY DEF Range

\* A list of one member at most.
LEMMA AtMostOne ==
  ASSUME NEW S, NEW r, NEW x \in {<<>>, <<r>>}, Range(x) \subseteq S
  PROVE  x \in Seq(S)
<1>1. CASE x = <<>>
  BY <1>1
<1>2. CASE x = <<r>>
  <2>1. 1 \in DOMAIN <<r>> /\ <<r>>[1] = r
    OBVIOUS
  <2>2. r \in S
    BY <1>2, <2>1 DEF Range
  <2> QED
    BY <1>2, <2>2
<1> QED
  BY <1>1, <1>2

\* A list with one more member is a list.
LEMMA AppendIn == ASSUME NEW P, NEW o \in Seq(P), NEW p \in P PROVE Append(o, p) \in Seq(P)
OBVIOUS

\* The members of a list that grew by one.
LEMMA RangeOfAppend ==
  ASSUME NEW S, NEW o \in Seq(S), NEW p \in S
  PROVE  Range(Append(o, p)) = Range(o) \cup {p}
<1>1. /\ Append(o, p) \in Seq(S) /\ Len(o) \in Nat /\ DOMAIN o = 1 .. Len(o) /\ DOMAIN Append(o, p) = 1 .. Len(o) + 1
      /\ Append(o, p)[Len(o) + 1] = p /\ \A i \in 1 .. Len(o) : Append(o, p)[i] = o[i]
  OBVIOUS
<1>2. 1 .. Len(o) + 1 = (1 .. Len(o)) \cup {Len(o) + 1}
  BY <1>1
<1> QED
  BY <1>1, <1>2 DEF Range

\* A list of one is not the empty one.
LEMMA OneIsSome == ASSUME NEW a PROVE <<a>> # <<>>
OBVIOUS

\* The members of two lists in one.
LEMMA RangeOfConcat ==
  ASSUME NEW S, NEW s \in Seq(S), NEW t \in Seq(S)
  PROVE  s \o t \in Seq(S) /\ Range(s \o t) = Range(s) \cup Range(t)
<1>1. /\ s \o t \in Seq(S) /\ DOMAIN (s \o t) = 1 .. Len(s) + Len(t) /\ Len(s) \in Nat /\ Len(t) \in Nat
      /\ DOMAIN s = 1 .. Len(s) /\ DOMAIN t = 1 .. Len(t)
      /\ \A i \in 1 .. Len(s) + Len(t) : (s \o t)[i] = IF i <= Len(s) THEN s[i] ELSE t[i - Len(s)]
  OBVIOUS
<1>2. ASSUME NEW x \in Range(s) PROVE x \in Range(s \o t)
  BY <1>1 DEF Range
<1>3. ASSUME NEW x \in Range(t) PROVE x \in Range(s \o t)
  <2>1. PICK i \in 1 .. Len(t) : x = t[i]
    BY <1>1 DEF Range
  <2>2. i + Len(s) \in 1 .. Len(s) + Len(t) /\ (s \o t)[i + Len(s)] = x
    BY <1>1, <2>1
  <2> QED
    BY <1>1, <2>2 DEF Range
<1>4. ASSUME NEW x \in Range(s \o t) PROVE x \in Range(s) \cup Range(t)
  BY <1>1 DEF Range
<1> QED
  BY <1>1, <1>2, <1>3, <1>4

\* The members of a list are its head and those of its tail.
LEMMA RangeOfHead ==
  ASSUME NEW S, NEW s \in Seq(S), s # <<>>
  PROVE  Tail(s) \in Seq(S) /\ Head(s) \in Range(s) /\ Range(s) = {Head(s)} \cup Range(Tail(s))
<1>1. /\ Tail(s) \in Seq(S) /\ Len(s) \in Nat /\ Len(s) >= 1 /\ DOMAIN s = 1 .. Len(s) /\ Head(s) = s[1]
      /\ DOMAIN Tail(s) = 1 .. Len(s) - 1 /\ \A i \in 1 .. Len(s) - 1 : Tail(s)[i] = s[i + 1]
  OBVIOUS
<1>2. ASSUME NEW x \in Range(s) PROVE x \in {Head(s)} \cup Range(Tail(s))
  <2>1. PICK i \in 1 .. Len(s) : x = s[i]
    BY <1>1 DEF Range
  <2>2. CASE i = 1
    BY <1>1, <2>1, <2>2
  <2>3. CASE i # 1
    <3>1. i - 1 \in 1 .. Len(s) - 1 /\ Tail(s)[i - 1] = x
      BY <1>1, <2>1, <2>3
    <3> QED
      BY <1>1, <3>1 DEF Range
  <2> QED
    BY <2>2, <2>3
<1>3. Head(s) \in Range(s)
  BY <1>1 DEF Range
<1>4. ASSUME NEW x \in Range(Tail(s)) PROVE x \in Range(s)
  <2>1. PICK i \in 1 .. Len(s) - 1 : x = Tail(s)[i]
    BY <1>1, <1>4 DEF Range
  <2>2. i + 1 \in 1 .. Len(s) /\ x = s[i + 1]
    BY <1>1, <2>1
  <2> QED
    BY <1>1, <2>2 DEF Range
<1> QED
  BY <1>1, <1>2, <1>3, <1>4

\* The members of four lists in one.
LEMMA RangeOfFour ==
  ASSUME NEW S, NEW a \in Seq(S), NEW b \in Seq(S), NEW c \in Seq(S), NEW d \in Seq(S)
  PROVE  /\ a \o b \o c \o d \in Seq(S)
         /\ Range(a \o b \o c \o d) = Range(a) \cup Range(b) \cup Range(c) \cup Range(d)
<1> DEFINE ab == a \o b
           abc == ab \o c
<1>1. ab \in Seq(S) /\ Range(ab) = Range(a) \cup Range(b)
  BY RangeOfConcat
<1> HIDE DEF ab
<1>2. abc \in Seq(S) /\ Range(abc) = Range(ab) \cup Range(c)
  BY <1>1, RangeOfConcat
<1> HIDE DEF abc
<1>3. abc \o d \in Seq(S) /\ Range(abc \o d) = Range(abc) \cup Range(d)
  BY <1>2, RangeOfConcat
<1> QED
  BY <1>1, <1>2, <1>3 DEF ab, abc

\* The members of a list of one, and of none.
LEMMA RangeOfOne ==
  ASSUME NEW S, NEW x \in S
  PROVE  <<x>> \in Seq(S) /\ Range(<<x>>) = {x} /\ <<>> \in Seq(S) /\ Range(<<>>) = {}
BY DEF Range
=============================================================================
