------------------------- MODULE DevelopmentProofs --------------------------
(***************************************************************************)
(* Proofs about what a developer runs over the files of an application: the*)
(* commands of Tree, for any slices, names, shapes and styles and any      *)
(* number of commands, edits and deaths; and the development loop, for     *)
(* every scene, every number of pages and every size of a reload channel.  *)
(*                                                                         *)
(* Formed says what every file and every command keep.  On top of it each  *)
(* property of Tree has an inductive invariant: RefusedInv, UIInv, KeepInv,*)
(* SliceInv and CheckInv.  SafeShape is the one of the loop.               *)
(***************************************************************************)
EXTENDS DevLoop, Tree, FoldLemmas

-----------------------------------------------------------------------------
(* Texts: the stages of Only, and where a word stands in a text. *)

\* One word, kept if it is among the given ones.
Keep(kept, w, words) == IF w \in words THEN Append(kept, w) ELSE kept

\* The fold that Only is.
OnlyFold(g, text, words, n) ==
    g = [s \in SUBSET (1 .. n) |-> IF s = {} THEN <<>> ELSE Keep(g[s \ {Max(s)}], text[Max(s)], words)]

\* Only is its fold, without the recursion of FoldLeft.
LEMMA OnlyIs ==
  ASSUME NEW text, NEW words, NEW n \in Nat, DOMAIN text = 1 .. n
  PROVE  Only(text, words) = (CHOOSE g : OnlyFold(g, text, words, n))[1 .. n]
BY DEF Only, FoldLeft, MapThenFoldSet, OnlyFold, Keep

\* The stages of Only: h[m] holds what the first m words leave.
OnlyStages(h, text, words) ==
    /\ h[0] = <<>> /\ h[Len(text)] = Only(text, words)
    /\ \A m \in 1 .. Len(text) : h[m] = IF text[m] \in words THEN Append(h[m - 1], text[m]) ELSE h[m - 1]

\* Every text has the stages of Only.
LEMMA OnlyStaged ==
  ASSUME NEW A, NEW text \in Seq(A), NEW words
  PROVE  \E h \in [0 .. Len(text) -> Seq(A)] : OnlyStages(h, text, words)
<1> DEFINE n == Len(text)
           B == Seq(A)
           step == [ib \in (1 .. n) \X B |-> Keep(ib[2], text[ib[1]], words)]
           it == CHOOSE g : OnlyFold(g, text, words, n)
<1>1. n \in Nat /\ DOMAIN text = 1 .. n /\ \A i \in 1 .. n : text[i] \in A
  OBVIOUS
<1>2. <<>> \in B
  OBVIOUS
<1>3. ASSUME NEW b \in B, NEW i \in 1 .. n PROVE Keep(b, text[i], words) \in B
  BY <1>1 DEF Keep
<1> HIDE DEF n, B
<1>4. step \in [(1 .. n) \X B -> B]
  BY <1>3
<1>5. \A i \in 1 .. n, b \in B : step[<<i, b>>] = Keep(b, text[i], words)
  OBVIOUS
<1> HIDE DEF step
<1>6. PICK g \in [SUBSET (1 .. n) -> B] : IsFold(g, n, <<>>, step)
  BY <1>1, <1>2, <1>4, FoldExists
<1>7. \A s \in SUBSET (1 .. n) : s # {} => Max(s) \in 1 .. n
  BY <1>1, Greatest
<1>8. ASSUME NEW s \in SUBSET (1 .. n), s # {}
      PROVE  step[<<Max(s), g[s \ {Max(s)}]>>] = Keep(g[s \ {Max(s)}], text[Max(s)], words)
  BY <1>5, <1>6, <1>7, <1>8
<1>9. OnlyFold(g, text, words, n)
  BY <1>6, <1>8 DEF OnlyFold, IsFold
<1>10. OnlyFold(it, text, words, n)
  BY <1>9
<1> HIDE DEF it
<1>11. it[{}] = <<>>
  BY <1>10 DEF OnlyFold
<1>12. ASSUME NEW s \in SUBSET (1 .. n), s # {}, it[s \ {Max(s)}] \in B
       PROVE  it[s] = step[<<Max(s), it[s \ {Max(s)}]>>]
  BY <1>5, <1>7, <1>10, <1>12 DEF OnlyFold
<1>13. n \in Nat /\ Follows(it, n, B, <<>>, step)
  BY <1>1, <1>11, <1>12 DEF Follows
<1>14. Staged(it, n, B, <<>>, step)
  BY <1>2, <1>4, <1>13, FoldStages
<1>15. PICK h : StagesOf(h, n, B, <<>>, step) /\ h[n] = it[1 .. n]
  BY <1>14 DEF Staged
<1>16. h \in [0 .. n -> B] /\ h[0] = <<>> /\ \A m \in 1 .. n : h[m] = step[<<m, h[m - 1]>>]
  BY <1>15 DEF StagesOf
<1>17. ASSUME NEW m \in 1 .. n PROVE h[m] = Keep(h[m - 1], text[m], words)
  <2>1. m - 1 \in 0 .. n
    BY <1>1
  <2> QED
    BY <1>5, <1>16, <2>1
<1>18. Only(text, words) = h[n]
  BY <1>1, <1>15, OnlyIs DEF it
<1> QED
  BY <1>16, <1>17, <1>18 DEF OnlyStages, Keep, n, B

\* Only keeps words, and those that it should.
LEMMA OnlyIn ==
  ASSUME NEW A, NEW text \in Seq(A), NEW words
  PROVE  Only(text, words) \in Seq(A) /\ ToSet(Only(text, words)) = ToSet(text) \cap words
<1> DEFINE n == Len(text)
<1>1. PICK h \in [0 .. n -> Seq(A)] : OnlyStages(h, text, words)
  BY OnlyStaged
<1>2. n \in Nat /\ DOMAIN text = 1 .. n /\ \A i \in 1 .. n : text[i] \in A
  OBVIOUS
<1>3. /\ h[0] = <<>> /\ h[n] = Only(text, words)
      /\ \A m \in 1 .. n : h[m] = IF text[m] \in words THEN Append(h[m - 1], text[m]) ELSE h[m - 1]
  BY <1>1 DEF OnlyStages
<1> HIDE DEF n
<1> DEFINE First(m) == {text[i] : i \in 1 .. m} \cap words
           Kept == {m \in Nat : m <= n => ToSet(h[m]) = First(m)}
<1>4. 0 \in Kept
  BY <1>3 DEF ToSet
<1>5. ASSUME NEW m \in Nat, m \in Kept PROVE m + 1 \in Kept
  <2> SUFFICES ASSUME m + 1 <= n PROVE ToSet(h[m + 1]) = First(m + 1)
    OBVIOUS
  <2>0. m \in 0 .. n /\ m + 1 \in 1 .. n /\ (m + 1) - 1 = m
    BY <1>2
  <2>1. ToSet(h[m]) = First(m)
    <3> HIDE DEF First
    <3> QED
      BY <1>5, <2>0
  <2>2. h[m + 1] = IF text[m + 1] \in words THEN Append(h[m], text[m + 1]) ELSE h[m]
    BY <1>3, <2>0
  <2>3. h[m] \in Seq(A)
    BY <1>1, <2>0
  <2>4. {text[i] : i \in 1 .. m + 1} = {text[i] : i \in 1 .. m} \cup {text[m + 1]}
    <3>1. 1 .. m + 1 = (1 .. m) \cup {m + 1}
      OBVIOUS
    <3> QED
      BY <3>1
  <2>5. ASSUME NEW x PROVE ToSet(Append(h[m], x)) = ToSet(h[m]) \cup {x}
    <3>1. /\ DOMAIN Append(h[m], x) = 1 .. Len(h[m]) + 1 /\ Append(h[m], x)[Len(h[m]) + 1] = x
          /\ \A i \in 1 .. Len(h[m]) : Append(h[m], x)[i] = h[m][i]
          /\ DOMAIN h[m] = 1 .. Len(h[m]) /\ Len(h[m]) \in Nat
      BY <2>3
    <3>2. 1 .. Len(h[m]) + 1 = (1 .. Len(h[m])) \cup {Len(h[m]) + 1}
      BY <3>1
    <3> QED
      BY <3>1, <3>2 DEF ToSet
  <2> QED
    BY <2>1, <2>2, <2>4, <2>5
<1>6. n \in Kept
  <2> HIDE DEF Kept
  <2> QED
    BY <1>2, <1>4, <1>5, SetInduction
<1>7. ToSet(text) = {text[i] : i \in 1 .. n}
  BY <1>2 DEF ToSet
<1> QED
  BY <1>1, <1>2, <1>3, <1>6, <1>7

\* Two sequences of stages that agree end alike: a text and itself with one word more that is not kept.
LEMMA OnlyAll ==
  ASSUME NEW A, NEW text \in Seq(A), NEW words, ToSet(text) \subseteq words
  PROVE  Only(text, words) = text
<1> DEFINE n == Len(text)
<1>1. PICK h \in [0 .. n -> Seq(A)] : OnlyStages(h, text, words)
  BY OnlyStaged
<1>2. n \in Nat /\ DOMAIN text = 1 .. n /\ \A i \in 1 .. n : text[i] \in A /\ text[i] \in words
  BY DEF ToSet
<1>3. /\ h[0] = <<>> /\ h[n] = Only(text, words)
      /\ \A m \in 1 .. n : h[m] = Append(h[m - 1], text[m])
  BY <1>1, <1>2 DEF OnlyStages
<1> HIDE DEF n
<1> DEFINE Kept == {m \in Nat : m <= n => Len(h[m]) = m /\ \A i \in 1 .. m : h[m][i] = text[i]}
<1>4. 0 \in Kept
  BY <1>3
<1>5. ASSUME NEW m \in Nat, m \in Kept PROVE m + 1 \in Kept
  <2> SUFFICES ASSUME m + 1 <= n PROVE Len(h[m + 1]) = m + 1 /\ \A i \in 1 .. m + 1 : h[m + 1][i] = text[i]
    OBVIOUS
  <2>1. m \in 0 .. n /\ m + 1 \in 1 .. n /\ (m + 1) - 1 = m /\ Len(h[m]) = m /\ \A i \in 1 .. m : h[m][i] = text[i]
    BY <1>2, <1>5
  <2>2. h[m + 1] = Append(h[m], text[m + 1])
    BY <1>3, <2>1
  <2>3. h[m] \in Seq(A)
    BY <1>1, <2>1
  <2> QED
    BY <2>1, <2>2, <2>3
<1>6. n \in Kept
  <2> HIDE DEF Kept
  <2> QED
    BY <1>2, <1>4, <1>5, SetInduction
<1>7. Only(text, words) \in Seq(A) /\ Len(Only(text, words)) = n /\ \A i \in 1 .. n : Only(text, words)[i] = text[i]
  BY <1>2, <1>3, <1>6, OnlyIn
<1> QED
  BY <1>2, <1>7

\* more is the text with the word at place i.
HasWord(more, text, i, word) ==
    /\ Len(more) = Len(text) + 1
    /\ \A j \in 1 .. Len(text) + 1 : more[j] = IF j < i THEN text[j] ELSE IF j = i THEN word ELSE text[j - 1]

\* A text with one word more at a place.
LEMMA InsertIs ==
  ASSUME NEW A, NEW text \in Seq(A), NEW word \in A, NEW i \in 1 .. Len(text) + 1
  PROVE  InsertAt(text, i, word) \in Seq(A) /\ HasWord(InsertAt(text, i, word), text, i, word)
<1> DEFINE n == Len(text)
           a == SubSeq(text, 1, i - 1)
           b == SubSeq(text, i, n)
           ab == a \o <<word>>
<1>1. n \in Nat /\ i \in Nat /\ i >= 1 /\ i <= n + 1 /\ DOMAIN text = 1 .. n /\ \A j \in 1 .. n : text[j] \in A
  OBVIOUS
<1>2. a \in Seq(A) /\ Len(a) = i - 1 /\ \A j \in 1 .. i - 1 : a[j] = text[j]
  <2>1. CASE i = 1
    BY <2>1
  <2>2. CASE i # 1
    BY <1>1, <2>2
  <2> QED
    BY <2>1, <2>2
<1>3. b \in Seq(A) /\ Len(b) = n - i + 1 /\ \A j \in 1 .. n - i + 1 : b[j] = text[i + j - 1]
  <2>1. CASE i = n + 1
    BY <1>1, <2>1
  <2>2. CASE i # n + 1
    BY <1>1, <2>2
  <2> QED
    BY <2>1, <2>2
<1> HIDE DEF n, a, b
<1>4. ab \in Seq(A) /\ Len(ab) = i /\ \A j \in 1 .. i : ab[j] = IF j < i THEN text[j] ELSE word
  BY <1>1, <1>2
<1> HIDE DEF ab
<1>5. /\ ab \o b \in Seq(A) /\ Len(ab \o b) = n + 1
      /\ \A j \in 1 .. n + 1 : (j <= i => (ab \o b)[j] = ab[j]) /\ (~(j <= i) => (ab \o b)[j] = b[j - i])
  <2>0. ab \in Seq(A) /\ b \in Seq(A)
    BY <1>3, <1>4
  <2>1. ab \o b \in Seq(A) /\ Len(ab \o b) = Len(ab) + Len(b)
    BY <2>0
  <2>2. Len(ab) + Len(b) = n + 1
    BY <1>1, <1>3, <1>4
  <2>3. ASSUME NEW j \in 1 .. n + 1, j <= i PROVE (ab \o b)[j] = ab[j]
    BY <1>3, <1>4, <2>2, <2>3
  <2>4. ASSUME NEW j \in 1 .. n + 1, ~(j <= i) PROVE (ab \o b)[j] = b[j - i]
    BY <1>1, <1>3, <1>4, <2>2, <2>4
  <2> QED
    BY <2>1, <2>2, <2>3, <2>4
<1>6. InsertAt(text, i, word) = ab \o b
  BY DEF InsertAt, ab, a, b, n
<1>7. ASSUME NEW j \in 1 .. n + 1
      PROVE  (ab \o b)[j] = IF j < i THEN text[j] ELSE IF j = i THEN word ELSE text[j - 1]
  <2>0. j \in Int /\ i \in Int /\ (j < i \/ j = i \/ j > i)
    BY <1>1
  <2>1. CASE j < i \/ j = i
    <3>1. j \in 1 .. i /\ j <= i
      BY <1>1, <2>1
    <3>2. (ab \o b)[j] = ab[j] /\ ab[j] = IF j < i THEN text[j] ELSE word
      BY <1>4, <1>5, <3>1
    <3> QED
      BY <2>0, <2>1, <3>2
  <2>2. CASE j > i
    <3>1. j - i \in 1 .. n - i + 1 /\ i + (j - i) - 1 = j - 1
      BY <1>1, <2>2
    <3>2. b[j - i] = text[i + (j - i) - 1]
      BY <1>3, <3>1
    <3> QED
      BY <1>1, <1>5, <2>2, <3>1, <3>2
  <2> QED
    BY <2>0, <2>1, <2>2
<1> QED
  BY <1>5, <1>6, <1>7 DEF n, HasWord

\* A word that is not kept leaves no trace.
LEMMA OnlyInsert ==
  ASSUME NEW A, NEW text \in Seq(A), NEW word \in A, NEW i \in 1 .. Len(text) + 1, NEW words, word \notin words
  PROVE  Only(InsertAt(text, i, word), words) = Only(text, words)
<1> DEFINE n == Len(text)
           more == InsertAt(text, i, word)
<1>1. n \in Nat /\ i \in Nat /\ i >= 1 /\ i <= n + 1 /\ DOMAIN text = 1 .. n
  OBVIOUS
<1>0. more \in Seq(A) /\ HasWord(more, text, i, word)
  BY InsertIs
<1>2. /\ more \in Seq(A) /\ Len(more) = n + 1
      /\ \A j \in 1 .. n + 1 : more[j] = IF j < i THEN text[j] ELSE IF j = i THEN word ELSE text[j - 1]
  <2> HIDE DEF more
  <2> QED
    BY <1>0 DEF HasWord
<1> HIDE DEF more
<1>3. PICK h \in [0 .. n -> Seq(A)] : OnlyStages(h, text, words)
  BY OnlyStaged
<1>4. PICK k \in [0 .. Len(more) -> Seq(A)] : OnlyStages(k, more, words)
  BY <1>2, OnlyStaged
<1>5. /\ h[0] = <<>> /\ h[n] = Only(text, words)
      /\ \A m \in 1 .. n : h[m] = IF text[m] \in words THEN Append(h[m - 1], text[m]) ELSE h[m - 1]
  BY <1>3 DEF OnlyStages
<1>6. /\ k[0] = <<>> /\ k[n + 1] = Only(more, words)
      /\ \A m \in 1 .. n + 1 : k[m] = IF more[m] \in words THEN Append(k[m - 1], more[m]) ELSE k[m - 1]
  BY <1>2, <1>4 DEF OnlyStages
<1> HIDE DEF n
<1> DEFINE Same(m) == k[m] = IF m < i THEN h[m] ELSE h[m - 1]
           Kept == {m \in Nat : m <= n + 1 => Same(m)}
<1>7. 0 \in Kept
  BY <1>1, <1>5, <1>6
<1>8. ASSUME NEW m \in Nat, m \in Kept PROVE m + 1 \in Kept
  <2> SUFFICES ASSUME m + 1 <= n + 1 PROVE Same(m + 1)
    OBVIOUS
  <2>1. m + 1 \in 1 .. n + 1 /\ (m + 1) - 1 = m
    BY <1>1
  <2>2. Same(m)
    <3> HIDE DEF Same
    <3> QED
      BY <1>1, <1>8, <2>1
  <2>3. k[m + 1] = IF more[m + 1] \in words THEN Append(k[m], more[m + 1]) ELSE k[m]
    BY <1>6, <2>1
  <2>4. CASE m + 1 < i
    <3>1. more[m + 1] = text[m + 1] /\ m + 1 \in 1 .. n /\ m < i
      BY <1>1, <1>2, <2>1, <2>4
    <3> QED
      BY <1>5, <2>1, <2>2, <2>3, <2>4, <3>1
  <2>5. CASE m + 1 = i
    <3>1. more[m + 1] = word /\ m < i
      BY <1>1, <1>2, <2>1, <2>5
    <3> QED
      BY <2>1, <2>2, <2>3, <2>5, <3>1
  <2>6. CASE m + 1 > i
    <3>0. m \in 1 .. n /\ m + 1 \in 1 .. n + 1 /\ ~(m < i) /\ ~(m + 1 < i) /\ (m + 1) - 1 = m /\ m + 1 # i
      BY <1>1, <2>1, <2>6
    <3>1. more[m + 1] = text[m] /\ m \in 1 .. n /\ ~(m < i) /\ ~(m + 1 < i)
      BY <1>2, <3>0
    <3>2. h[m] = IF text[m] \in words THEN Append(h[m - 1], text[m]) ELSE h[m - 1]
      BY <1>5, <3>1
    <3> QED
      BY <2>1, <2>2, <2>3, <3>1, <3>2
  <2> QED
    BY <1>1, <2>1, <2>4, <2>5, <2>6
<1>9. n + 1 \in Kept
  <2> HIDE DEF Kept
  <2>1. n + 1 \in Nat
    BY <1>1
  <2> QED
    BY <1>7, <1>8, <2>1, SetInduction
<1>10. Same(n + 1)
  <2> HIDE DEF Same
  <2> QED
    BY <1>1, <1>9
<1> QED
  BY <1>1, <1>5, <1>6, <1>10 DEF more

\* Two sets with the same words of a text keep the same.
LEMMA OnlySame ==
  ASSUME NEW A, NEW text \in Seq(A), NEW words, NEW others, \A i \in DOMAIN text : text[i] \in words <=> text[i] \in others
  PROVE  Only(text, words) = Only(text, others)
<1> DEFINE n == Len(text)
<1>1. PICK h \in [0 .. n -> Seq(A)] : OnlyStages(h, text, words)
  BY OnlyStaged
<1>2. PICK k \in [0 .. n -> Seq(A)] : OnlyStages(k, text, others)
  BY OnlyStaged
<1>3. n \in Nat /\ \A m \in 1 .. n : text[m] \in words <=> text[m] \in others
  OBVIOUS
<1>4. /\ h[0] = <<>> /\ h[n] = Only(text, words)
      /\ \A m \in 1 .. n : h[m] = IF text[m] \in words THEN Append(h[m - 1], text[m]) ELSE h[m - 1]
  BY <1>1 DEF OnlyStages
<1>5. /\ k[0] = <<>> /\ k[n] = Only(text, others)
      /\ \A m \in 1 .. n : k[m] = IF text[m] \in words THEN Append(k[m - 1], text[m]) ELSE k[m - 1]
  BY <1>2, <1>3 DEF OnlyStages
<1> HIDE DEF n
<1> DEFINE Same == {m \in Nat : m <= n => h[m] = k[m]}
<1>6. 0 \in Same
  BY <1>4, <1>5
<1>7. ASSUME NEW m \in Nat, m \in Same PROVE m + 1 \in Same
  <2> SUFFICES ASSUME m + 1 <= n PROVE h[m + 1] = k[m + 1]
    OBVIOUS
  <2>1. m + 1 \in 1 .. n /\ (m + 1) - 1 = m /\ h[m] = k[m]
    BY <1>3, <1>7
  <2> QED
    BY <1>4, <1>5, <2>1
<1>8. n \in Same
  <2> HIDE DEF Same
  <2> QED
    BY <1>3, <1>6, <1>7, SetInduction
<1> QED
  BY <1>3, <1>4, <1>5, <1>8

\* So a text keeps its words when a new one comes between them.
LEMMA InsertKeeps ==
  ASSUME NEW A, NEW text \in Seq(A), NEW word \in A, NEW i \in 1 .. Len(text) + 1, word \notin ToSet(text)
  PROVE  Only(InsertAt(text, i, word), ToSet(text)) = text
BY OnlyInsert, OnlyAll

\* A word that stands at one place is counted once.
LEMMA OnlyOne ==
  ASSUME NEW A, NEW text \in Seq(A), NEW i \in DOMAIN text, \A j \in DOMAIN text : text[j] = text[i] => j = i
  PROVE  Only(text, {text[i]}) = <<text[i]>>
<1> DEFINE n == Len(text)
           words == {text[i]}
<1>1. PICK h \in [0 .. n -> Seq(A)] : OnlyStages(h, text, words)
  BY OnlyStaged
<1>2. n \in Nat /\ DOMAIN text = 1 .. n /\ i \in 1 .. n /\ \A j \in 1 .. n : text[j] \in words <=> j = i
  OBVIOUS
<1>3. /\ h[0] = <<>> /\ h[n] = Only(text, words)
      /\ \A m \in 1 .. n : h[m] = IF m = i THEN Append(h[m - 1], text[m]) ELSE h[m - 1]
  BY <1>1, <1>2 DEF OnlyStages
<1> HIDE DEF n
<1> DEFINE Kept == {m \in Nat : m <= n => h[m] = IF m < i THEN <<>> ELSE <<text[i]>>}
<1>4. 0 \in Kept
  BY <1>2, <1>3
<1>5. ASSUME NEW m \in Nat, m \in Kept PROVE m + 1 \in Kept
  <2> SUFFICES ASSUME m + 1 <= n PROVE h[m + 1] = IF m + 1 < i THEN <<>> ELSE <<text[i]>>
    OBVIOUS
  <2>1. m + 1 \in 1 .. n /\ (m + 1) - 1 = m /\ i \in Nat /\ h[m] = IF m < i THEN <<>> ELSE <<text[i]>>
    BY <1>2, <1>5
  <2>2. h[m + 1] = IF m + 1 = i THEN Append(h[m], text[m + 1]) ELSE h[m]
    BY <1>3, <2>1
  <2>3. CASE m + 1 = i
    BY <2>1, <2>2, <2>3
  <2>4. CASE m + 1 # i
    BY <2>1, <2>2, <2>4
  <2> QED
    BY <2>3, <2>4
<1>6. n \in Kept
  <2> HIDE DEF Kept
  <2> QED
    BY <1>2, <1>4, <1>5, SetInduction
<1> QED
  BY <1>2, <1>3, <1>6

-----------------------------------------------------------------------------
(* The place of a word, and a word that is put at a place. *)

\* A word stands in a text one time at most.
AtMostOnce(text, word) == \A i, j \in DOMAIN text : text[i] = word /\ text[j] = word => i = j
\* Each place of a word comes after one of another word.
After(text, word, first) == \A i \in DOMAIN text : text[i] = word => \E j \in DOMAIN text : j < i /\ text[j] = first

\* The first place of a word.
LEMMA PlaceIs ==
  ASSUME NEW A, NEW text \in Seq(A), NEW word
  PROVE  /\ Contains(text, word) => /\ Place(text, word) \in DOMAIN text /\ text[Place(text, word)] = word
                                    /\ \A j \in DOMAIN text : text[j] = word => Place(text, word) <= j
         /\ ~Contains(text, word) => Place(text, word) = 0
<1> DEFINE I == {i \in 1 .. Len(text) : text[i] = word}
<1>1. Place(text, word) = IF I # {} THEN Min(I) ELSE 0
  BY DEF Place, SelectInSeq
<1>2. DOMAIN text = 1 .. Len(text) /\ I \in SUBSET Nat
  OBVIOUS
<1>3. ASSUME I # {} PROVE Min(I) \in I /\ \A j \in I : Min(I) <= j
  <2>1. PICK x \in I : \A y \in I : x <= y
    BY <1>2, <1>3, Least
  <2> QED
    BY <2>1 DEF Min
<1>4. Contains(text, word) <=> I # {}
  BY <1>2 DEF Contains
<1> QED
  BY <1>1, <1>2, <1>3, <1>4

\* Contains and ToSet say the same.
LEMMA ContainsIs ==
  ASSUME NEW A, NEW text \in Seq(A), NEW word
  PROVE  Contains(text, word) <=> word \in ToSet(text)
BY DEF Contains, ToSet

\* The words of a text with one word more.
LEMMA InsertSet ==
  ASSUME NEW A, NEW text \in Seq(A), NEW word \in A, NEW i \in 1 .. Len(text) + 1
  PROVE  ToSet(InsertAt(text, i, word)) = ToSet(text) \cup {word}
<1> DEFINE more == InsertAt(text, i, word)
           n == Len(text)
<1>1. n \in Nat /\ DOMAIN text = 1 .. n /\ i \in Nat /\ i >= 1 /\ i <= n + 1
  OBVIOUS
<1>2. more \in Seq(A) /\ HasWord(more, text, i, word)
  BY InsertIs
<1> HIDE DEF more
<1>3. DOMAIN more = 1 .. n + 1 /\
      \A j \in 1 .. n + 1 : more[j] = IF j < i THEN text[j] ELSE IF j = i THEN word ELSE text[j - 1]
  BY <1>2 DEF HasWord
<1> HIDE DEF n
<1>4. ASSUME NEW w \in ToSet(more) PROVE w \in ToSet(text) \cup {word}
  <2>1. PICK j \in 1 .. n + 1 : w = more[j]
    BY <1>3 DEF ToSet
  <2>2. CASE j < i
    BY <1>1, <1>3, <2>1, <2>2 DEF ToSet
  <2>3. CASE j = i
    BY <1>3, <2>1, <2>3
  <2>4. CASE j > i
    <3>1. j - 1 \in 1 .. n /\ ~(j < i) /\ j # i
      BY <1>1, <2>4
    <3> QED
      BY <1>1, <1>3, <2>1, <3>1 DEF ToSet
  <2> QED
    BY <1>1, <2>2, <2>3, <2>4
<1>5. word \in ToSet(more)
  BY <1>1, <1>3 DEF ToSet
<1>6. ASSUME NEW w \in ToSet(text) PROVE w \in ToSet(more)
  <2>1. PICK j \in 1 .. n : w = text[j]
    BY <1>1 DEF ToSet
  <2>2. CASE j < i
    <3>1. j \in 1 .. n + 1 /\ more[j] = text[j]
      BY <1>1, <1>3, <2>2
    <3> QED
      BY <1>3, <2>1, <3>1 DEF ToSet
  <2>3. CASE ~(j < i)
    <3>1. j + 1 \in 1 .. n + 1 /\ ~(j + 1 < i) /\ j + 1 # i /\ (j + 1) - 1 = j
      BY <1>1, <2>3
    <3>2. more[j + 1] = text[j]
      BY <1>3, <3>1
    <3> QED
      BY <1>3, <2>1, <3>1, <3>2 DEF ToSet
  <2> QED
    BY <2>2, <2>3
<1> QED
  BY <1>4, <1>5, <1>6 DEF more

\* A word that comes into a text that lacks it stands once, and every other one as often as before.
LEMMA InsertOnce ==
  ASSUME NEW A, NEW text \in Seq(A), NEW word \in A, NEW i \in 1 .. Len(text) + 1, NEW w,
         word \notin ToSet(text), AtMostOnce(text, w)
  PROVE  AtMostOnce(InsertAt(text, i, word), w)
<1> DEFINE more == InsertAt(text, i, word)
           n == Len(text)
<1>1. n \in Nat /\ DOMAIN text = 1 .. n /\ i \in Nat /\ i >= 1 /\ i <= n + 1
  OBVIOUS
<1>2. more \in Seq(A) /\ HasWord(more, text, i, word)
  BY InsertIs
<1> HIDE DEF more
<1>3. DOMAIN more = 1 .. n + 1 /\
      \A j \in 1 .. n + 1 : more[j] = IF j < i THEN text[j] ELSE IF j = i THEN word ELSE text[j - 1]
  BY <1>2 DEF HasWord
<1> HIDE DEF n
<1> DEFINE old(j) == IF j < i THEN j ELSE j - 1
<1>4. \A j \in 1 .. n + 1 : j # i => old(j) \in 1 .. n /\ more[j] = text[old(j)]
  BY <1>1, <1>3
<1>5. \A j, k \in 1 .. n + 1 : j # i /\ k # i /\ old(j) = old(k) => j = k
  BY <1>1
<1>6. \A j \in 1 .. n : text[j] # word
  BY <1>1 DEF ToSet
<1>7. more[i] = word
  BY <1>1, <1>3
<1> HIDE DEF old
<1>8. ASSUME NEW j \in 1 .. n + 1, NEW k \in 1 .. n + 1, more[j] = w, more[k] = w PROVE j = k
  <2>1. CASE w = word
    BY <1>4, <1>6, <1>8, <2>1
  <2>2. CASE w # word
    BY <1>1, <1>4, <1>5, <1>7, <1>8, <2>2 DEF AtMostOnce
  <2> QED
    BY <2>1, <2>2
<1> QED
  BY <1>3, <1>8 DEF AtMostOnce, more

\* What comes after a word still does.
LEMMA InsertAfter ==
  ASSUME NEW A, NEW text \in Seq(A), NEW word \in A, NEW i \in 1 .. Len(text) + 1, NEW w, NEW first, first # word,
         After(text, w, first),
         w = word => \E j \in DOMAIN text : j < i /\ text[j] = first
  PROVE  After(InsertAt(text, i, word), w, first)
<1> DEFINE more == InsertAt(text, i, word)
           n == Len(text)
<1>1. n \in Nat /\ DOMAIN text = 1 .. n /\ i \in Nat /\ i >= 1 /\ i <= n + 1
  OBVIOUS
<1>2. more \in Seq(A) /\ HasWord(more, text, i, word)
  BY InsertIs
<1> HIDE DEF more
<1>3. DOMAIN more = 1 .. n + 1 /\
      \A j \in 1 .. n + 1 : more[j] = IF j < i THEN text[j] ELSE IF j = i THEN word ELSE text[j - 1]
  BY <1>2 DEF HasWord
<1> HIDE DEF n
<1>4. ASSUME NEW k \in 1 .. n + 1, more[k] = w PROVE \E j \in 1 .. n + 1 : j < k /\ more[j] = first
  <2>1. CASE k = i
    <3>1. PICK j \in 1 .. n : j < i /\ text[j] = first
      BY <1>1, <1>3, <1>4, <2>1
    <3>2. j \in 1 .. n + 1 /\ more[j] = first
      BY <1>1, <1>3, <3>1
    <3> QED
      BY <2>1, <3>1, <3>2
  <2>2. CASE k < i
    <3>1. k \in 1 .. n /\ text[k] = w
      BY <1>1, <1>3, <1>4, <2>2
    <3>2. PICK j \in 1 .. n : j < k /\ text[j] = first
      BY <1>1, <3>1 DEF After
    <3>3. j \in 1 .. n + 1 /\ more[j] = first
      BY <1>1, <1>3, <2>2, <3>2
    <3> QED
      BY <3>2, <3>3
  <2>3. CASE k > i
    <3>1. k - 1 \in 1 .. n /\ text[k - 1] = w
      BY <1>1, <1>3, <1>4, <2>3
    <3>2. PICK j \in 1 .. n : j < k - 1 /\ text[j] = first
      BY <1>1, <3>1 DEF After
    <3>3. CASE j < i
      <4>1. j \in 1 .. n + 1 /\ more[j] = first /\ j < k
        BY <1>1, <1>3, <3>2, <3>3
      <4> QED
        BY <4>1
    <3>4. CASE ~(j < i)
      <4>1. j + 1 \in 1 .. n + 1 /\ ~(j + 1 < i) /\ j + 1 # i /\ (j + 1) - 1 = j /\ j + 1 < k
        BY <1>1, <3>2, <3>4
      <4>2. more[j + 1] = first
        BY <1>3, <3>2, <4>1
      <4> QED
        BY <4>1, <4>2
    <3> QED
      BY <3>3, <3>4
  <2> QED
    BY <1>1, <2>1, <2>2, <2>3
<1> QED
  BY <1>3, <1>4 DEF After, more

-----------------------------------------------------------------------------
(* The form of the tree and of a command: the plans, and what each step does to the record. *)

\* A text is a sequence of words.
IsText(text) == text \in Seq(ToSet(text))
\* What each file holds, whoever wrote it: a person may write anything but a doubled line.
Fine(f, text) ==
    /\ Persons(f) => IsText(text)
    /\ f = App("drel.yaml") => \A w : AtMostOnce(text, w)
    /\ f = App("app.css") => \A w \in Styles : AtMostOnce(text, w) /\ After(text, w, "tailwindcss")
    /\ f = App("app.js") => AtMostOnce(text, "all.min.js") /\ After(text, "all.min.js", "datastar")

\* A command runs, or has not failed.
Running == run.code = "running"
Alive(cmd) == run.cmd = cmd /\ run.code # "failed"
\* The steps that a step put before the next one of the plan.
Pending == ToSet(run.extra)
Inner == {"write", "install", "frontEnd", "nodeTool"}
\* The steps that put others.
Adders == {"scaffold", "slice", "codegen", "clients", "describe"}

\* What may be put before the next step of a plan, after a step of it.
Due(x, op) == /\ x.op \in Inner
              /\ x.op # "write" => op = "describe"
              /\ x.op = "write" => Fine(x.file, x.text)

\* Where a command stands, and what it is due to do.
Placed ==
    /\ run.code \in {"ok", "running", "failed"}
    /\ run.fault = "none" \/ run.code = "failed"
    /\ run.cmd \in DOMAIN Plans \cup {"none"}
    /\ Running => run.cmd # "none"
    /\ run.cmd # "none" =>
          /\ run.arg \in Args[run.cmd]
          /\ run.next \in 1 .. Len(Plans[run.cmd]) + 1
          /\ Running /\ run.extra = <<>> => run.next <= Len(Plans[run.cmd])
          /\ run.code = "ok" => run.next = Len(Plans[run.cmd]) + 1
    /\ ~Running => run.extra = <<>>
    /\ run.extra # <<>> => run.next > 1 /\ Plans[run.cmd][run.next - 1] \in Adders
    /\ \A x \in Pending : Due(x, Plans[run.cmd][run.next - 1])

\* Every file is fine.
FineTree == tree = [f \in DOMAIN tree |-> tree[f]] /\ \A f \in DOMAIN tree : Fine(f, tree[f])
\* run is a record of the fields that Idle gives it.
Recorded == run \in [cmd : {run.cmd}, arg : {run.arg}, next : Nat, extra : Seq(ToSet(run.extra)), code : {run.code},
                fault : {run.fault}, at : {run.at}, told : BOOLEAN, dirty : BOOLEAN]
\* The tree and the command are in form.
Formed == FineTree /\ Recorded /\ Placed

\* The lengths of the plans.
LEMMA PlanLengths ==
  Len(New) = 10 /\ Len(Slice) = 7 /\ Len(Generate) = 6 /\ Len(UI) = 9 /\ Len(AssetsInit) = 4
<1>1. Len(New) = 10
  BY DEF New
<1>2. Len(Slice) = 7
  BY DEF Slice
<1>3. Len(Generate) = 6
  BY DEF Generate
<1>4. Len(UI) = 9
  BY DEF UI
<1>5. Len(AssetsInit) = 4
  BY DEF AssetsInit
<1> QED
  BY <1>1, <1>2, <1>3, <1>4, <1>5

\* What stands at each place of two texts in a row.
LEMMA ConcatIs ==
  ASSUME NEW S, NEW s \in Seq(S), NEW t \in Seq(S)
  PROVE  /\ s \o t \in Seq(S) /\ Len(s \o t) = Len(s) + Len(t)
         /\ \A i \in 1 .. Len(s) + Len(t) : (s \o t)[i] = IF i <= Len(s) THEN s[i] ELSE t[i - Len(s)]
OBVIOUS

\* A build runs the steps of a generate first.
BuildRest == <<"install", "assets", "compile">>

\* The plan of `avero build`: the steps of generate, and three of its own.
LEMMA BuildPlan ==
  /\ Len(Generate \o BuildRest) = 9
  /\ \A i \in 1 .. 9 : (Generate \o BuildRest)[i] = IF i <= 6 THEN Generate[i] ELSE BuildRest[i - 6]
<1> DEFINE words == {"project", "drel", "templ", "codegen", "clients", "describe", "install", "assets", "compile"}
<1>1. BuildRest \in Seq(words) /\ Len(BuildRest) = 3
  BY DEF BuildRest
<1>2. Generate \in Seq(words)
  BY DEF Generate
<1> HIDE DEF words
<1>3. Len(Generate \o BuildRest) = Len(Generate) + Len(BuildRest)
  BY <1>1, <1>2, ConcatIs
<1>4. \A i \in 1 .. Len(Generate) + Len(BuildRest) :
         (Generate \o BuildRest)[i] = IF i <= Len(Generate) THEN Generate[i] ELSE BuildRest[i - Len(Generate)]
  BY <1>1, <1>2, ConcatIs
<1> QED
  BY <1>1, <1>3, <1>4, PlanLengths

\* The plan of each command.
LEMMA PlansAre ==
  /\ DOMAIN Plans = {"new", "slice", "generate", "build", "ui", "assets"}
  /\ Plans["new"] = New /\ Plans["slice"] = Slice /\ Plans["generate"] = Generate /\ Plans["ui"] = UI
  /\ Plans["assets"] = AssetsInit
  /\ Plans["build"] = Generate \o BuildRest
BY DEF Plans, BuildRest

\* What each command with an argument may be asked for.
LEMMA ArgsAre ==
  /\ Args["new"] = Shapes /\ Args["slice"] = Names /\ Args["ui"] = Styles
BY DEF Args

\* How many steps a plan has.
Lengths == [new |-> 10, slice |-> 7, generate |-> 6, build |-> 9, ui |-> 9, assets |-> 4]

\* How many steps each plan holds.
LEMMA LengthsAre ==
  ASSUME NEW c \in DOMAIN Plans
  PROVE  Len(Plans[c]) = Lengths[c] /\ Lengths[c] \in 3 .. 10
<1>1. c \in {"new", "slice", "generate", "build", "ui", "assets"}
  BY PlansAre
<1>2. /\ Lengths["new"] = 10 /\ Lengths["slice"] = 7 /\ Lengths["generate"] = 6 /\ Lengths["build"] = 9
      /\ Lengths["ui"] = 9 /\ Lengths["assets"] = 4
  BY DEF Lengths
<1>3. Len(Plans["build"]) = 9
  BY PlansAre, BuildPlan
<1>4. ASSUME NEW p, NEW n \in 3 .. 10, Plans[c] = p, Len(p) = n, Lengths[c] = n
      PROVE  Len(Plans[c]) = Lengths[c] /\ Lengths[c] \in 3 .. 10
  BY <1>4
<1>5. CASE c = "new"
  BY <1>2, <1>4, <1>5, PlansAre, PlanLengths
<1>6. CASE c = "slice"
  BY <1>2, <1>4, <1>6, PlansAre, PlanLengths
<1>7. CASE c = "generate"
  BY <1>2, <1>4, <1>7, PlansAre, PlanLengths
<1>8. CASE c = "build"
  <2>1. Len(Plans[c]) = 9 /\ Lengths[c] = 9
    BY <1>2, <1>3, <1>8
  <2> QED
    BY <1>4, <2>1
<1>9. CASE c = "ui"
  BY <1>2, <1>4, <1>9, PlansAre, PlanLengths
<1>10. CASE c = "assets"
  BY <1>2, <1>4, <1>10, PlansAre, PlanLengths
<1> QED
  BY <1>1, <1>5, <1>6, <1>7, <1>8, <1>9, <1>10

\* The steps of each plan.
LEMMA OpsAre ==
  /\ \A i \in 1 .. 10 : Plans["new"][i] = New[i]
  /\ \A i \in 1 .. 7 : Plans["slice"][i] = Slice[i]
  /\ \A i \in 1 .. 6 : Plans["generate"][i] = Generate[i] /\ Plans["build"][i] = Generate[i]
  /\ Plans["build"][7] = "install" /\ Plans["build"][8] = "assets" /\ Plans["build"][9] = "compile"
  /\ \A i \in 1 .. 9 : Plans["ui"][i] = UI[i]
  /\ \A i \in 1 .. 4 : Plans["assets"][i] = AssetsInit[i]
BY PlansAre, BuildPlan DEF BuildRest

\* The fields that a step leaves alone.
SameCommand == run'.cmd = run.cmd /\ run'.arg = run.arg
\* A step that fails, one that another step put there, one of the plan.
FailsWith(fault) ==
    /\ SameCommand /\ run'.next = run.next /\ run'.told = run.told /\ run'.dirty = run.dirty
    /\ run'.extra = <<>> /\ run'.code = "failed" /\ run'.fault = fault
\* What a step that does not fail does to the tree and to the command.
Carries(out) ==
    /\ out.fault = "none" /\ tree' = Over(out.writes, tree)
    /\ SameCommand /\ run'.fault = run.fault
    /\ run'.told = (run.told \/ out.told)
    /\ run'.dirty = (run.dirty \/ Over(out.writes, tree) # tree)
    /\ run'.code = IF run'.extra = <<>> /\ run'.next = Len(Plans[run.cmd]) + 1 THEN "ok" ELSE "running"
\* The step that another one put there is over.
Inside(out) == /\ run.extra # <<>> /\ Carries(out)
               /\ run'.next = run.next /\ run'.extra = Tail(run.extra)
\* The step of the plan is over.
Onward(out) == /\ run.extra = <<>> /\ Carries(out)
               /\ run'.next = (IF out.last THEN Len(Plans[run.cmd]) + 1 ELSE run.next + 1) /\ run'.extra = out.more

\* A record of the fields of a command.
Shaped(r) ==
  /\ r = [cmd |-> r.cmd, arg |-> r.arg, next |-> r.next, extra |-> r.extra, code |-> r.code,
          fault |-> r.fault, at |-> r.at, told |-> r.told, dirty |-> r.dirty]
  /\ r.told \in BOOLEAN /\ r.dirty \in BOOLEAN

\* A step fails and changes no file, runs a step that another one put there, or goes on in its plan.
LEMMA StepIs ==
  ASSUME Recorded, Step
  PROVE  LET out == Outcome(tree, run) IN
         /\ \/ out.fault # "none" /\ tree' = tree /\ FailsWith(out.fault)
            \/ Inside(out) \/ Onward(out)
         /\ Shaped(run')
<1> DEFINE out == Outcome(tree, run)
           inner == run.extra # <<>>
           end == Len(Plans[run.cmd]) + 1
           extra == IF inner THEN Tail(run.extra) ELSE out.more
           next == IF inner THEN run.next ELSE IF out.last THEN end ELSE run.next + 1
           after == Over(out.writes, tree)
           bad == [run EXCEPT !.extra = <<>>, !.code = "failed", !.fault = out.fault, !.at = out.at]
           good == [run EXCEPT !.extra = extra, !.next = next,
                                       !.code = IF extra = <<>> /\ next = end THEN "ok" ELSE "running",
                                       !.told = @ \/ out.told, !.dirty = @ \/ after # tree]
<1>1. IF out.fault # "none" THEN run' = bad /\ UNCHANGED tree ELSE tree' = after /\ run' = good
  BY Zenon DEF Step
<1> HIDE DEF out, end, inner
<1>2. CASE out.fault # "none"
  <2>1. run' = bad
    BY <1>1, <1>2
  <2>2. FailsWith(out.fault)
    BY <2>1 DEF FailsWith, SameCommand, Recorded
  <2>3. Shaped(run')
    BY <2>1 DEF Shaped, Recorded
  <2> QED
    BY <1>1, <1>2, <2>2, <2>3 DEF out
<1>3. CASE ~(out.fault # "none")
  <2>1. run' = good /\ tree' = after
    BY <1>1, <1>3
  <2> HIDE DEF extra, next, after
  <2>2. /\ run'.extra = extra /\ run'.next = next /\ run'.cmd = run.cmd /\ run'.arg = run.arg /\ run'.fault = run.fault
        /\ run'.code = IF extra = <<>> /\ next = end THEN "ok" ELSE "running"
        /\ run'.told = (run.told \/ out.told) /\ run'.dirty = (run.dirty \/ after # tree)
    BY <2>1 DEF Recorded
  <2>3. Carries(out)
    BY <1>3, <2>1, <2>2 DEF Carries, SameCommand, end, after
  <2>4. Shaped(run')
    BY <2>1 DEF Shaped, Recorded
  <2> QED
    BY <2>2, <2>3, <2>4 DEF Inside, Onward, extra, next, inner, out, end
<1> QED
  BY <1>2, <1>3

-----------------------------------------------------------------------------
(* The results of a step, breaks and edits, and the texts that they write. *)

\* What a step may do is one of these.
LEMMA NothingIs ==
  Nothing.fault = "none" /\ Nothing.writes = <<>> /\ Nothing.more = <<>> /\ ~Nothing.last /\ ~Nothing.told
BY DEF Nothing, Does

\* A result that writes.
LEMMA WritesIs ==
  ASSUME NEW w
  PROVE  /\ Writes(w).fault = "none" /\ Writes(w).writes = w /\ Writes(w).more = <<>>
         /\ ~Writes(w).last /\ ~Writes(w).told
BY DEF Does, Writes

\* A result that puts steps before the rest.
LEMMA ThenIs ==
  ASSUME NEW more
  PROVE  /\ Then(more).fault = "none" /\ Then(more).writes = <<>> /\ Then(more).more = more
         /\ ~Then(more).last /\ ~Then(more).told
BY DEF Does, Then

\* A result that fails.
LEMMA FaultIs ==
  ASSUME NEW kind, NEW f
  PROVE  /\ Fault(kind, f).fault = kind /\ Fault(kind, f).writes = <<>> /\ Fault(kind, f).more = <<>>
         /\ ~Fault(kind, f).told /\ ~Fault(kind, f).last
BY DEF Does, Fault

\* A result that refuses.
LEMMA RefuseIs ==
  /\ Refuse.fault = "refused" /\ Refuse.writes = <<>> /\ Refuse.more = <<>>
  /\ ~Refuse.told /\ ~Refuse.last
BY DEF Refuse, Fault, Does

\* A result that prints what a person must do, or does nothing at all.
LEMMA ToldIs ==
  ASSUME NEW b \in BOOLEAN
  PROVE  LET out == [Nothing EXCEPT !.told = b]
         IN out.fault = "none" /\ out.writes = <<>> /\ out.more = <<>> /\ ~out.last /\ (out.told <=> b)
BY DEF Nothing, Does

\* A result that leaves the rest of the plan out.
LEMMA LastIs ==
  LET out == [Nothing EXCEPT !.last = TRUE]
  IN out.fault = "none" /\ out.writes = <<>> /\ out.more = <<>> /\ out.last /\ ~out.told
BY DEF Nothing, Does

\* What a write leaves of a tree.
LEMMA OverIs ==
  ASSUME NEW w, NEW t
  PROVE  /\ DOMAIN Over(w, t) = DOMAIN w \cup DOMAIN t
         /\ \A f \in DOMAIN w : Over(w, t)[f] = w[f]
         /\ \A f \in DOMAIN t \ DOMAIN w : Over(w, t)[f] = t[f]
         /\ Over(w, t) = [f \in DOMAIN Over(w, t) |-> Over(w, t)[f]]
BY DEF Over

\* No write changes nothing.
LEMMA OverNothing ==
  ASSUME NEW t, t = [f \in DOMAIN t |-> t[f]]
  PROVE  Over(<<>>, t) = t
BY DEF Over

\* The tool behind each step.
LEMMA OutcomeOf ==
  ASSUME NEW t, NEW r
  PROVE  /\ Now(r).op = "write" => Outcome(t, r) = Writes(File(Now(r).file, Now(r).text))
         /\ Now(r).op = "empty" => Outcome(t, r) = EnsureEmpty(t)
         /\ Now(r).op = "scaffold" => Outcome(t, r) = Then(Scaffold(r.arg))
         /\ Now(r).op = "tidy" => Outcome(t, r) = Nothing
         /\ Now(r).op = "vendor" => Outcome(t, r) = Vendor(r.arg)
         /\ Now(r).op = "project" => Outcome(t, r) = LoadProject(t)
         /\ Now(r).op = "drel" => Outcome(t, r) = Drel(t)
         /\ Now(r).op = "migration" => Outcome(t, r) = Migration(t, Target(r))
         /\ Now(r).op = "templ" => Outcome(t, r) = Templ(t)
         /\ Now(r).op = "codegen" => Outcome(t, r) = Build(t, Codegen)
         /\ Now(r).op = "clients" => Outcome(t, r) = Build(t, Client)
         /\ Now(r).op = "describe" => Outcome(t, r) = Describe(t)
         /\ Now(r).op = "install" => Outcome(t, r) = Install(t)
         /\ Now(r).op = "frontEnd" => Outcome(t, r) = ClientOf(t)
         /\ Now(r).op = "assets" => Outcome(t, r) = BuildAssets(t)
         /\ Now(r).op = "compile" => Outcome(t, r) = Compile(t)
         /\ Now(r).op = "drelTool" => Outcome(t, r) = proveDrelTool(t)
         /\ Now(r).op = "slice" => Outcome(t, r) = WriteSlice(t, r.arg)
         /\ Now(r).op = "register" => Outcome(t, r) = RegisterSlice(t, Target(r))
         /\ Now(r).op = "ssr" => Outcome(t, r) = CheckShape(t)
         /\ Now(r).op = "followsCSS" => Outcome(t, r) = checkFollows(t, App("app.css"))
         /\ Now(r).op = "followsJS" => Outcome(t, r) = checkFollows(t, App("app.js"))
         /\ Now(r).op = "package" => Outcome(t, r) = Writes(File(App("basecoat"), <<"basecoat">>))
         /\ Now(r).op = "css" => Outcome(t, r) = addLine(t, App("app.css"), r.arg)
         /\ Now(r).op = "js" => Outcome(t, r) = addLine(t, App("app.js"), "all.min.js")
         /\ Now(r).op = "toaster" => Outcome(t, r) = writeAbsent(t, App("toaster.templ"))
         /\ Now(r).op = "toasterTest" => Outcome(t, r) = writeAbsent(t, App("toaster_test.go"))
         /\ Now(r).op = "layout" => Outcome(t, r) = patchLayout(t)
         /\ Now(r).op = "init" => Outcome(t, r) = PackageInit(t)
         /\ Now(r).op = "save" => Outcome(t, r) = SaveTier(t)
         /\ Now(r).op = "nodeTool" => Outcome(t, r) = NodeTool(t)
BY DEF Outcome

\* A step that another one put there, and a step of the plan.
LEMMA NowIs ==
  /\ run.extra # <<>> => Now(run) = Head(run.extra)
  /\ run.extra = <<>> => Now(run).op = Plans[run.cmd][run.next]
BY DEF Now, Op

\* A start, a failure and an edit, field by field.
LEMMA StartIs ==
  ASSUME NEW cmd, NEW arg, Start(cmd, arg)
  PROVE  /\ run'.cmd = cmd /\ run'.arg = arg /\ run'.next = 1 /\ run'.extra = <<>> /\ run'.code = "running"
         /\ run'.fault = "none" /\ ~run'.told /\ ~run'.dirty /\ tree' = tree
         /\ run' = [cmd |-> cmd, arg |-> arg, next |-> 1, extra |-> <<>>, code |-> "running",
                    fault |-> "none", at |-> None,
                    told |-> FALSE, dirty |-> FALSE]
BY DEF Start, Idle

\* A command that breaks leaves the files as they were, or one file of its step empty.
LEMMA BreakIs ==
  ASSUME Recorded, Break
  PROVE  /\ FailsWith("broken") /\ Running
         /\ \/ tree' = tree
            \/ \E f \in DOMAIN Outcome(tree, run).writes : tree' = Over(File(f, <<>>), tree)
<1>1. FailsWith("broken")
  BY DEF Break, FailsWith, SameCommand, Recorded
<1> QED
  BY <1>1 DEF Break, Running

\* After an edit no command stands there.
LEMMA EditIs ==
  ASSUME Edit
  PROVE  /\ run'.cmd = "none" /\ run'.next = 1 /\ run'.extra = <<>> /\ run'.code = "ok" /\ run'.fault = "none"
         /\ ~run'.told /\ ~run'.dirty /\ Edits
         /\ run' = [cmd |-> "none", arg |-> "", next |-> 1, extra |-> <<>>, code |-> "ok", fault |-> "none", at |-> None,
                    told |-> FALSE, dirty |-> FALSE]
BY DEF Edit, Idle

\* Texts.
LEMMA SeqIsText ==
  ASSUME NEW A, NEW text \in Seq(A)
  PROVE  IsText(text)
<1>1. DOMAIN text = 1 .. Len(text) /\ Len(text) \in Nat /\ text = [i \in 1 .. Len(text) |-> text[i]]
  OBVIOUS
<1>2. text \in [1 .. Len(text) -> ToSet(text)]
  BY <1>1 DEF ToSet
<1> QED
  BY <1>1, <1>2 DEF IsText

\* The text of a file that was emptied.
LEMMA EmptyText == IsText(<<>>)
<1>1. <<>> \in Seq({})
  OBVIOUS
<1> QED
  BY <1>1, SeqIsText

\* A text of one word.
LEMMA OneText ==
  ASSUME NEW a
  PROVE  IsText(<<a>>) /\ ToSet(<<a>>) = {a}
<1>1. <<a>> \in Seq({a})
  OBVIOUS
<1>2. ToSet(<<a>>) = {a}
  BY DEF ToSet
<1>3. IsText(<<a>>)
  BY <1>1, SeqIsText
<1> QED
  BY <1>2, <1>3

\* A text of two words.
LEMMA TwoText ==
  ASSUME NEW a, NEW b
  PROVE  IsText(<<a, b>>) /\ ToSet(<<a, b>>) = {a, b}
<1>1. <<a, b>> \in Seq({a, b})
  OBVIOUS
<1>2. ToSet(<<a, b>>) = {a, b}
  BY DEF ToSet
<1>3. IsText(<<a, b>>)
  BY <1>1, SeqIsText
<1> QED
  BY <1>2, <1>3

\* Two texts in a row are a text.
LEMMA ConcatText ==
  ASSUME NEW a, NEW b, IsText(a), IsText(b)
  PROVE  IsText(a \o b)
<1>1. a \in Seq(ToSet(a) \cup ToSet(b)) /\ b \in Seq(ToSet(a) \cup ToSet(b))
  BY DEF IsText
<1> QED
  BY <1>1, ConcatIs, SeqIsText

\* Two texts in a row hold the words of both.
LEMMA ConcatSet ==
  ASSUME NEW a, NEW b, IsText(a), IsText(b)
  PROVE  IsText(a \o b) /\ ToSet(a \o b) = ToSet(a) \cup ToSet(b)
<1>1. a \in Seq(ToSet(a) \cup ToSet(b)) /\ b \in Seq(ToSet(a) \cup ToSet(b))
  BY DEF IsText
<1>2. Range(a \o b) = Range(a) \cup Range(b)
  BY <1>1, RangeOfConcat
<1> QED
  BY <1>2, ConcatText DEF Range, ToSet

\* No word stands in an empty text.
LEMMA EmptySet == ToSet(<<>>) = {}
BY DEF ToSet

\* A step that another one put there: the first of them, and the rest.
LEMMA HeadTail ==
  ASSUME NEW s, IsText(s), s # <<>>
  PROVE  /\ Head(s) \in ToSet(s) /\ ToSet(s) = {Head(s)} \cup ToSet(Tail(s))
         /\ IsText(Tail(s)) /\ Tail(s) \in Seq(ToSet(Tail(s)))
<1>1. s \in Seq(ToSet(s))
  BY DEF IsText
<1>2. Tail(s) \in Seq(ToSet(s)) /\ Head(s) \in Range(s) /\ Range(s) = {Head(s)} \cup Range(Tail(s))
  BY <1>1, RangeOfHead
<1>3. IsText(Tail(s))
  BY <1>2, SeqIsText
<1> QED
  BY <1>2, <1>3 DEF Range, ToSet, IsText

-----------------------------------------------------------------------------
(* The generators, drel, templ and the description write fine texts. *)

\* The directories with an input of a generator, the file that it makes of one, and a tree that it reads to the end.
Given(t, own) == {d \in ToSet(Dirs) : HasInput(t, d, own)}
Output(t, own, d) == Write(<<d, own>>, Emit(t, d, own))
Readable(t, own) == Broken(t, own) = {} /\ Tagged(t, own) = {}

\* A generator reads everything, and then writes a file for each directory that has an input.
LEMMA BuildIs ==
  ASSUME NEW t, NEW own
  PROVE  LET out == Build(t, own) IN
         /\ out.writes = <<>> /\ ~out.told /\ ~out.last
         /\ ~Readable(t, own) => out.fault = "code" /\ out.more = <<>>
         /\ Readable(t, own) => /\ out.fault = "none" /\ IsText(out.more)
                                /\ ToSet(out.more) = {Output(t, own, d) : d \in Given(t, own)}
<1> DEFINE with == Only(Dirs, {d \in ToSet(Dirs) : HasInput(t, d, own)})
           more == [i \in DOMAIN with |-> Write(<<with[i], own>>, Emit(t, with[i], own))]
<1>1. CASE ~Readable(t, own)
  <2>1. PICK f : Build(t, own) = Fault("code", f)
    BY <1>1 DEF Readable, Build
  <2> QED
    BY <1>1, <2>1, FaultIs
<1>2. CASE Readable(t, own)
  <2>1. Build(t, own) = Then(more)
    BY <1>2 DEF Readable, Build
  <2>2. Dirs \in Seq({"payments"} \cup ToSet(Slices))
    BY TreeAssumption DEF Dirs
  <2>3. with \in Seq({"payments"} \cup ToSet(Slices)) /\ ToSet(with) = ToSet(Dirs) \cap Given(t, own)
    BY <2>2, OnlyIn DEF Given
  <2>4. ToSet(with) = Given(t, own)
    BY <2>3 DEF Given
  <2> HIDE DEF with
  <2>5. ToSet(more) = {Output(t, own, d) : d \in Given(t, own)}
    BY <2>4 DEF ToSet, Output
  <2>6. IsText(more)
    <3>1. DOMAIN with = 1 .. Len(with) /\ Len(with) \in Nat
      BY <2>3
    <3>2. more \in Seq(ToSet(more))
      <4>1. more = [i \in 1 .. Len(with) |-> more[i]] /\ \A i \in 1 .. Len(with) : more[i] \in ToSet(more)
        BY <3>1 DEF ToSet
      <4> HIDE DEF more
      <4> QED
        BY <3>1, <4>1
    <3> QED
      BY <3>2 DEF IsText
  <2> HIDE DEF more
  <2> QED
    BY <1>2, <2>1, <2>5, <2>6, ThenIs
<1> QED
  BY <1>1, <1>2

\* What is generated is fine whatever it says.
LEMMA FineGenerated ==
  ASSUME NEW f, NEW text, ~Persons(f)
  PROVE  Fine(f, text)
BY DEF Fine, Persons, Generated, App

\* Only three files have a text that a command relies on.
LEMMA FineText ==
  ASSUME NEW f, NEW text, IsText(text), f[2] \notin {"drel.yaml", "app.css", "app.js"}
  PROVE  Fine(f, text)
BY DEF Fine, App

\* A file that was emptied is fine.
LEMMA FineEmpty ==
  ASSUME NEW f
  PROVE  Fine(f, <<>>)
BY EmptyText DEF Fine, AtMostOnce, After

\* A text of the tree, if the file is there.
LEMMA TextIs ==
  ASSUME FineTree, NEW f, Persons(f)
  PROVE  IsText(Text(tree, f)) /\ Fine(f, Text(tree, f))
BY FineEmpty, EmptyText DEF FineTree, Text, Has, Fine

\* A step of a command in a tree whose texts are fine writes fine texts.
Sound(out, op) ==
  /\ out.fault \in {"none", "refused", "anchor", "tool", "code", "manager", "format"}
  /\ IsText(out.more)
  /\ out.more # <<>> => op \in Adders /\ ~out.last
  /\ \A x \in ToSet(out.more) : Due(x, op)
  /\ \A f \in DOMAIN out.writes : Fine(f, out.writes[f])

\* A step that puts no other step anywhere.
LEMMA SoundPlain ==
  ASSUME NEW out, NEW op, out.more = <<>>, out.fault \in {"none", "refused", "anchor", "tool", "code", "manager", "format"},
         \A f \in DOMAIN out.writes : Fine(f, out.writes[f])
  PROVE  Sound(out, op)
<1>1. ToSet(out.more) = {}
  BY DEF ToSet
<1>2. IsText(out.more)
  BY EmptyText
<1> QED
  BY <1>1, <1>2 DEF Sound

\* A result that writes nothing and puts no step is sound.
LEMMA SoundNothing ==
  ASSUME NEW out, NEW op, out.writes = <<>>, out.more = <<>>,
         out.fault \in {"none", "refused", "anchor", "tool", "code", "manager", "format"}
  PROVE  Sound(out, op)
<1>1. DOMAIN out.writes = {}
  OBVIOUS
<1> QED
  BY <1>1, SoundPlain

\* A refusal, a fault and a step with nothing to do are sound.
LEMMA SoundFault ==
  ASSUME NEW op
  PROVE  /\ Sound(Refuse, op) /\ Sound(Nothing, op)
         /\ \A f : \A kind \in {"refused", "anchor", "tool", "code", "manager", "format"} : Sound(Fault(kind, f), op)
<1>1. Sound(Nothing, op)
  BY NothingIs, SoundNothing
<1>2. Sound(Refuse, op)
  BY RefuseIs, SoundNothing
<1>3. ASSUME NEW f, NEW kind \in {"refused", "anchor", "tool", "code", "manager", "format"} PROVE Sound(Fault(kind, f), op)
  BY FaultIs, SoundNothing
<1> QED
  BY <1>1, <1>2, <1>3

\* Fine writes are sound.
LEMMA SoundWrites ==
  ASSUME NEW w, NEW op, \A f \in DOMAIN w : Fine(f, w[f])
  PROVE  Sound(Writes(w), op)
<1>1. Writes(w).fault = "none" /\ Writes(w).writes = w /\ Writes(w).more = <<>>
  BY WritesIs
<1>2. \A f \in DOMAIN Writes(w).writes : Fine(f, Writes(w).writes[f])
  BY <1>1
<1> QED
  BY <1>1, <1>2, SoundPlain

\* One fine write is sound.
LEMMA SoundWrite ==
  ASSUME NEW f, NEW text, NEW op, Fine(f, text)
  PROVE  Sound(Writes(File(f, text)), op)
<1>1. \A g \in DOMAIN File(f, text) : Fine(g, File(f, text)[g])
  BY DEF File
<1> QED
  BY <1>1, SoundWrites

\* The steps that an adder puts are sound when they are due to it.
LEMMA SoundThen ==
  ASSUME NEW more, NEW op \in Adders, IsText(more), \A x \in ToSet(more) : Due(x, op)
  PROVE  Sound(Then(more), op)
<1>1. Then(more).fault = "none" /\ Then(more).writes = <<>> /\ Then(more).more = more /\ ~Then(more).last
  BY ThenIs
<1>2. DOMAIN Then(more).writes = {}
  BY <1>1
<1> QED
  BY <1>1, <1>2 DEF Sound

\* The steps that read, and those that write what is generated.
LEMMA SoundDrel ==
  ASSUME NEW t, NEW op
  PROVE  Sound(Drel(t), op)
<1> DEFINE entries == ToSet(Modules(t))
           broken == {s \in entries : ~Parses(Text(t, <<s, "model">>))}
           a == [f \in {<<s, "columns">> : s \in entries} |-> t[<<f[1], "model">>]]
           b == [f \in {<<s, "set">> : s \in {s \in entries : Embeds(t, s)}} |-> t[<<f[1], "migration">>]]
           w == Over(a, Over(b, File(App("db"), Modules(t))))
<1>1. \/ Drel(t) = Nothing \/ \E f : Drel(t) = Fault("tool", f)
      \/ Drel(t) = Writes(w)
  BY DEF Drel
<1>2. \A f \in DOMAIN w : f[2] \in {"columns", "set", "db"}
  <2> HIDE DEF a, b
  <2>1. DOMAIN w = DOMAIN a \cup (DOMAIN b \cup {App("db")})
    BY DEF Over, File
  <2> QED
    BY <2>1 DEF App, a, b
<1> HIDE DEF w
<1>3. \A f \in DOMAIN w : Fine(f, w[f])
  BY <1>2, FineGenerated DEF Persons, Generated
<1>4. Sound(Writes(w), op)
  BY <1>3, SoundWrites
<1> QED
  BY <1>1, <1>4, SoundFault

\* templ writes Go files only.
LEMMA SoundTempl ==
  ASSUME NEW t, NEW op
  PROVE  Sound(Templ(t), op)
<1> DEFINE present == {f \in Templates : Has(t, f)}
           w == [g \in {GoOf(f) : f \in present} |-> t[CHOOSE f \in present : GoOf(f) = g]]
<1>1. (\E f : Templ(t) = Fault("tool", f)) \/ Templ(t) = Writes(w)
  BY DEF Templ
<1>2. \A f \in DOMAIN w : ~Persons(f)
  BY DEF GoOf, App, Persons, Generated
<1> HIDE DEF w
<1>3. \A f \in DOMAIN w : Fine(f, w[f])
  BY <1>2, FineGenerated
<1>4. Sound(Writes(w), op)
  BY <1>3, SoundWrites
<1> QED
  BY <1>1, <1>4, SoundFault

\* A generator puts writes of its own present only.
LEMMA SoundBuild ==
  ASSUME NEW t, NEW own \in {Codegen, Client}, NEW op \in Adders
  PROVE  Sound(Build(t, own), op)
<1> DEFINE out == Build(t, own)
<1>1. /\ out.writes = <<>> /\ ~out.told /\ ~out.last
      /\ ~Readable(t, own) => out.fault = "code" /\ out.more = <<>>
      /\ Readable(t, own) => /\ out.fault = "none" /\ IsText(out.more)
                             /\ ToSet(out.more) = {Output(t, own, d) : d \in Given(t, own)}
  BY BuildIs
<1> HIDE DEF out
<1>2. CASE ~Readable(t, own)
  BY <1>1, <1>2, SoundNothing DEF out
<1>3. CASE Readable(t, own)
  <2>1. ASSUME NEW d PROVE Due(Output(t, own, d), op)
    BY FineGenerated DEF Due, Output, Write, Inner, Persons, Generated, Codegen, Client
  <2>2. \A x \in ToSet(out.more) : Due(x, op)
    BY <1>1, <1>3, <2>1
  <2>3. DOMAIN out.writes = {}
    BY <1>1
  <2>4. Sound(out, op)
    BY <1>1, <1>3, <2>2, <2>3 DEF Sound
  <2> QED
    BY <2>4 DEF out
<1> QED
  BY <1>2, <1>3

\* What the description puts before the next step.
Described(t) == Write(App("openapi.json"), Describes(t))

\* The description is not wanted, needs a build that fails, or is put as a write and, for an external front end,
\* two steps.
LEMMA DescribeIs ==
  ASSUME NEW t
  PROVE  \/ ~WantsDescription(t) /\ Describe(t) = Nothing
         \/ WantsDescription(t) /\ ~Compiles(t) /\ Describe(t) = Fault("tool", App("wire.go"))
         \/ /\ WantsDescription(t) /\ Compiles(t)
            /\ \E more : /\ Describe(t) = Then(more) /\ IsText(more) /\ Described(t) \in ToSet(more)
                         /\ ToSet(more) \subseteq {Described(t), Op("nodeTool"), Op("install"), Op("frontEnd")}
<1> DEFINE x == <<Described(t), Op("nodeTool")>>
           y == <<Op("install"), Op("frontEnd")>>
           with == x \o y
           alone == x \o <<>>
<1>1. \/ ~WantsDescription(t) /\ Describe(t) = Nothing
      \/ WantsDescription(t) /\ ~Compiles(t) /\ Describe(t) = Fault("tool", App("wire.go"))
      \/ WantsDescription(t) /\ Compiles(t) /\ (Describe(t) = Then(with) \/ Describe(t) = Then(alone))
  BY DEF Describe, Described
<1>2. IsText(x) /\ IsText(y) /\ ToSet(x) = {Described(t), Op("nodeTool")}
  BY TwoText
<1>3. ToSet(y) = {Op("install"), Op("frontEnd")}
  BY TwoText
<1> HIDE DEF x, y
<1>4. IsText(with) /\ ToSet(with) = ToSet(x) \cup ToSet(y) /\ IsText(alone) /\ ToSet(alone) = ToSet(x) \cup ToSet(<<>>)
  BY <1>2, ConcatSet, EmptyText
<1> HIDE DEF with, alone
<1> QED
  BY <1>1, <1>2, <1>3, <1>4, EmptySet

\* The steps that the description puts are due to it.
LEMMA SoundDescribe ==
  ASSUME NEW t
  PROVE  Sound(Describe(t), "describe")
<1>1. /\ Due(Described(t), "describe") /\ Due(Op("nodeTool"), "describe")
      /\ Due(Op("install"), "describe") /\ Due(Op("frontEnd"), "describe")
  BY FineGenerated DEF Due, Described, Write, Op, Inner, Persons, Generated, App
<1>2. "describe" \in Adders
  BY DEF Adders
<1>3. ASSUME NEW more, IsText(more),
             ToSet(more) \subseteq {Described(t), Op("nodeTool"), Op("install"), Op("frontEnd")}
      PROVE  Sound(Then(more), "describe")
  BY <1>1, <1>2, <1>3, SoundThen
<1> QED
  BY <1>3, DescribeIs, SoundFault

-----------------------------------------------------------------------------
(* The writes of a scaffold, each file once. *)

\* No file of a person is due to be written two times.
Once(s) == \A i, j \in DOMAIN s : s[i].op = "write" /\ Persons(s[i].file) /\ s[i].file = s[j].file => i = j

\* Two lists of writes to different files, each to a file once, make one.
LEMMA OnceConcat ==
  ASSUME NEW a, NEW b, IsText(a), IsText(b), Once(a), Once(b), \A x \in ToSet(a), y \in ToSet(b) : x.file # y.file
  PROVE  Once(a \o b)
<1> DEFINE S == ToSet(a) \cup ToSet(b)
           c == a \o b
           n == Len(a)
           m == Len(b)
<1>1. a \in Seq(S) /\ b \in Seq(S)
  BY DEF IsText
<1> HIDE DEF S
<1>2. /\ DOMAIN a = 1 .. n /\ DOMAIN b = 1 .. m /\ n \in Nat /\ m \in Nat
      /\ DOMAIN c = 1 .. n + m /\ \A i \in 1 .. n + m : c[i] = IF i <= n THEN a[i] ELSE b[i - n]
  BY <1>1, ConcatIs
<1> HIDE DEF c, n, m
<1>3. \A i \in 1 .. n + m : i <= n => i \in 1 .. n /\ c[i] = a[i] /\ a[i] \in ToSet(a)
  BY <1>2 DEF ToSet
<1>4. \A i \in 1 .. n + m : ~(i <= n) => i - n \in 1 .. m /\ c[i] = b[i - n] /\ b[i - n] \in ToSet(b)
  BY <1>2 DEF ToSet
<1>5. ASSUME NEW i \in 1 .. n + m, NEW j \in 1 .. n + m, c[i].op = "write", Persons(c[i].file), c[i].file = c[j].file
      PROVE  i = j
  <2>1. CASE i <= n /\ j <= n
    BY <1>2, <1>3, <1>5, <2>1 DEF Once
  <2>2. CASE ~(i <= n) /\ ~(j <= n)
    <3>1. i - n = j - n
      BY <1>2, <1>4, <1>5, <2>2 DEF Once
    <3> QED
      BY <1>2, <3>1
  <2>3. CASE i <= n /\ ~(j <= n)
    BY <1>3, <1>4, <1>5, <2>3
  <2>4. CASE ~(i <= n) /\ j <= n
    BY <1>3, <1>4, <1>5, <2>4
  <2> QED
    BY <2>1, <2>2, <2>3, <2>4
<1> QED
  BY <1>2, <1>5 DEF Once, c

\* A list of writes, joined with another one.
Listed(s, S) == IsText(s) /\ Once(s) /\ ToSet(s) = S

\* A list of the writes of two sets, from a list of each.
LEMMA Joined ==
  ASSUME NEW a, NEW b, NEW A, NEW B, Listed(a, A), Listed(b, B), \A x \in A, y \in B : x.file # y.file
  PROVE  Listed(a \o b, A \cup B)
BY OnceConcat, ConcatSet DEF Listed

\* A list of one write.
LEMMA OneListed ==
  ASSUME NEW x
  PROVE  Listed(<<x>>, {x})
<1>1. Once(<<x>>)
  BY DEF Once
<1> QED
  BY <1>1, OneText DEF Listed

\* A list of two writes.
LEMMA TwoListed ==
  ASSUME NEW x, NEW y, x.file # y.file
  PROVE  Listed(<<x, y>>, {x, y})
<1>1. Once(<<x, y>>)
  BY DEF Once
<1> QED
  BY <1>1, TwoText DEF Listed

\* A list of three writes.
LEMMA ThreeListed ==
  ASSUME NEW x, NEW y, NEW z, x.file # y.file, y.file # z.file, x.file # z.file
  PROVE  Listed(<<x, y, z>>, {x, y, z})
<1>1. <<x, y, z>> \in Seq({x, y, z}) /\ ToSet(<<x, y, z>>) = {x, y, z}
  BY DEF ToSet
<1>2. Once(<<x, y, z>>)
  BY DEF Once
<1> QED
  BY <1>1, <1>2, SeqIsText DEF Listed

\* A list of no write.
LEMMA EmptyListed == Listed(<<>>, {})
BY EmptyText, EmptySet DEF Listed, Once

\* A step that writes one file.
LEMMA WriteIs ==
  ASSUME NEW f, NEW text
  PROVE  Write(f, text).op = "write" /\ Write(f, text).file = f /\ Write(f, text).text = text
BY DEF Write

\* The files of a slice.
FeatureSet(s) == {Write(<<s, k>>, Source(s)) : k \in {"handlers", "model", "module"}}

\* The files of a feature slice are written once each.
LEMMA FeatureListed ==
  ASSUME NEW s
  PROVE  Listed(Feature(s), FeatureSet(s))
<1> DEFINE w(k) == Write(<<s, k>>, Source(s))
<1>1. Listed(<<w("handlers"), w("model"), w("module")>>, {w("handlers"), w("model"), w("module")})
  BY ThreeListed, WriteIs
<1>2. FeatureSet(s) = {w("handlers"), w("model"), w("module")}
  BY DEF FeatureSet
<1> QED
  BY <1>1, <1>2 DEF Feature

\* The writes of each part of a scaffold.
Basis(shape) == {Write(App("avero.json"), Members(shape)), Write(App("drel.yaml"), <<"modules:", FirstSlice(shape)>>)}
Wire(shape) == {Write(App("wire.go"), <<"avero.Modules", FirstSlice(shape)>>)}
StarterSet == {Write(App("dist"), <<"starter">>)}
ModFile == {Write(App("go.mod"), <<"module", "drel">>)}
Styling == {Write(App("app.css"), <<"tailwindcss", "body">>), Write(App("app.js"), <<"datastar">>)}
Layout == {Write(App("layout.templ"), <<"scaffold">>)}
FrontWrites == {Write(Web("openapi-ts.config.ts"), <<"config">>), Write(Web("package.json"), <<"build", "api">>)}
Payments == {Write(<<"payments", "client">>, <<"v1">>)}

\* The files of a new application.
ScaffoldSet(shape) ==
  ModFile \cup Basis(shape) \cup Wire(shape) \cup FeatureSet(FirstSlice(shape))
  \cup (IF shape = "ssr" THEN Styling \cup Layout \cup StarterSet
        ELSE IF shape = "spa" THEN FrontWrites \cup StarterSet ELSE Payments)

\* The files of a scaffold are written once each.
LEMMA ScaffoldListed ==
  ASSUME NEW shape \in Shapes
  PROVE  Listed(Scaffold(shape), ScaffoldSet(shape))
<1> DEFINE mod == <<Write(App("go.mod"), <<"module", "drel">>)>>
           project == <<Write(App("avero.json"), Members(shape)), Write(App("drel.yaml"), <<"modules:", FirstSlice(shape)>>)>>
           wire == <<Write(App("wire.go"), <<"avero.Modules", FirstSlice(shape)>>)>>
           styling == <<Write(App("app.css"), <<"tailwindcss", "body">>), Write(App("app.js"), <<"datastar">>)>>
           layout == <<Write(App("layout.templ"), <<"scaffold">>)>>
           front == <<Write(Web("openapi-ts.config.ts"), <<"config">>), Write(Web("package.json"), <<"build", "api">>)>>
           payments == <<Write(<<"payments", "client">>, <<"v1">>)>>
<1>1. Listed(mod, ModFile) /\ Listed(wire, Wire(shape)) /\ Listed(layout, Layout) /\ Listed(payments, Payments)
      /\ Listed(Starter, StarterSet)
  BY OneListed DEF ModFile, Wire, Layout, Payments, Starter, StarterSet
<1>2. Listed(project, Basis(shape)) /\ Listed(styling, Styling) /\ Listed(front, FrontWrites)
  BY TwoListed, WriteIs DEF Basis, Styling, FrontWrites, App, Web
<1>3. \A s : Listed(Feature(s), FeatureSet(s))
  BY FeatureListed
<1>4. /\ shape = "ssr" => Scaffold(shape) = mod \o (styling \o project \o Feature("posts") \o layout \o wire \o Starter)
      /\ shape = "spa" => Scaffold(shape) = mod \o (project \o Feature("tasks") \o front \o wire \o Starter)
      /\ shape = "api" => Scaffold(shape) = mod \o (project \o payments \o Feature("posts") \o wire)
  BY DEF Scaffold
<1>5. /\ shape = "spa" => FirstSlice(shape) = "tasks"
      /\ shape # "spa" => FirstSlice(shape) = "posts"
  BY DEF FirstSlice
<1> HIDE DEF mod, project, wire, styling, layout, front, payments
\* The kind of each file.
<1>6. /\ \A x \in ModFile : x.file[2] = "go.mod"
      /\ \A x \in Wire(shape) : x.file[2] = "wire.go"
      /\ \A x \in Layout : x.file[2] = "layout.templ"
      /\ \A x \in Payments : x.file[2] = "client"
      /\ \A x \in StarterSet : x.file[2] = "dist"
      /\ \A x \in Basis(shape) : x.file[2] \in {"avero.json", "drel.yaml"}
      /\ \A x \in Styling : x.file[2] \in {"app.css", "app.js"}
      /\ \A x \in FrontWrites : x.file[2] \in {"openapi-ts.config.ts", "package.json"}
      /\ \A s : \A x \in FeatureSet(s) : x.file[2] \in {"handlers", "model", "module"}
  BY WriteIs DEF ModFile, Wire, Layout, Payments, StarterSet, Basis, Styling, FrontWrites, FeatureSet, App, Web
<1>7. CASE shape = "ssr"
  <2>1. Listed(styling \o project, Styling \cup Basis(shape))
    BY <1>2, <1>6, Joined
  <2>2. Listed(styling \o project \o Feature("posts"), Styling \cup Basis(shape) \cup FeatureSet("posts"))
    BY <1>3, <1>6, <2>1, Joined
  <2>3. Listed(styling \o project \o Feature("posts") \o layout,
               Styling \cup Basis(shape) \cup FeatureSet("posts") \cup Layout)
    BY <1>1, <1>6, <2>2, Joined
  <2>4. Listed(styling \o project \o Feature("posts") \o layout \o wire,
               Styling \cup Basis(shape) \cup FeatureSet("posts") \cup Layout \cup Wire(shape))
    BY <1>1, <1>6, <2>3, Joined
  <2>5. Listed(styling \o project \o Feature("posts") \o layout \o wire \o Starter,
               Styling \cup Basis(shape) \cup FeatureSet("posts") \cup Layout \cup Wire(shape) \cup StarterSet)
    BY <1>1, <1>6, <2>4, Joined
  <2>6. Listed(Scaffold(shape), ModFile \cup (Styling \cup Basis(shape) \cup FeatureSet("posts") \cup Layout
                                              \cup Wire(shape) \cup StarterSet))
    <3> DEFINE rest == styling \o project \o Feature("posts") \o layout \o wire \o Starter
               S == Styling \cup Basis(shape) \cup FeatureSet("posts") \cup Layout \cup Wire(shape) \cup StarterSet
    <3>1. \A x \in ModFile, y \in S : x.file # y.file
      BY <1>6
    <3>2. Listed(rest, S)
      BY <2>5
    <3>3. Scaffold(shape) = mod \o rest
      BY <1>4, <1>7
    <3> HIDE DEF rest, S
    <3>4. Listed(mod \o rest, ModFile \cup S)
      BY <1>1, <3>1, <3>2, Joined
    <3> QED
      BY <3>3, <3>4 DEF S
  <2> QED
    BY <1>5, <1>7, <2>6 DEF ScaffoldSet, Listed
<1>8. CASE shape = "spa"
  <2>1. Listed(project \o Feature("tasks"), Basis(shape) \cup FeatureSet("tasks"))
    BY <1>2, <1>3, <1>6, Joined
  <2>2. Listed(project \o Feature("tasks") \o front, Basis(shape) \cup FeatureSet("tasks") \cup FrontWrites)
    BY <1>2, <1>6, <2>1, Joined
  <2>3. Listed(project \o Feature("tasks") \o front \o wire,
               Basis(shape) \cup FeatureSet("tasks") \cup FrontWrites \cup Wire(shape))
    BY <1>1, <1>6, <2>2, Joined
  <2>4. Listed(project \o Feature("tasks") \o front \o wire \o Starter,
               Basis(shape) \cup FeatureSet("tasks") \cup FrontWrites \cup Wire(shape) \cup StarterSet)
    BY <1>1, <1>6, <2>3, Joined
  <2>5. Listed(Scaffold(shape),
               ModFile \cup (Basis(shape) \cup FeatureSet("tasks") \cup FrontWrites \cup Wire(shape) \cup StarterSet))
    <3> DEFINE rest == project \o Feature("tasks") \o front \o wire \o Starter
               S == Basis(shape) \cup FeatureSet("tasks") \cup FrontWrites \cup Wire(shape) \cup StarterSet
    <3>1. \A x \in ModFile, y \in S : x.file # y.file
      BY <1>6
    <3>2. Listed(rest, S)
      BY <2>4
    <3>3. Scaffold(shape) = mod \o rest
      BY <1>4, <1>8
    <3> HIDE DEF rest, S
    <3>4. Listed(mod \o rest, ModFile \cup S)
      BY <1>1, <3>1, <3>2, Joined
    <3> QED
      BY <3>3, <3>4 DEF S
  <2> QED
    BY <1>5, <1>8, <2>5 DEF ScaffoldSet, Listed
<1>9. CASE shape = "api"
  <2>1. Listed(project \o payments, Basis(shape) \cup Payments)
    BY <1>1, <1>2, <1>6, Joined
  <2>2. Listed(project \o payments \o Feature("posts"), Basis(shape) \cup Payments \cup FeatureSet("posts"))
    BY <1>3, <1>6, <2>1, Joined
  <2>3. Listed(project \o payments \o Feature("posts") \o wire,
               Basis(shape) \cup Payments \cup FeatureSet("posts") \cup Wire(shape))
    BY <1>1, <1>6, <2>2, Joined
  <2>4. Listed(Scaffold(shape), ModFile \cup (Basis(shape) \cup Payments \cup FeatureSet("posts") \cup Wire(shape)))
    <3> DEFINE rest == project \o payments \o Feature("posts") \o wire
               S == Basis(shape) \cup Payments \cup FeatureSet("posts") \cup Wire(shape)
    <3>1. \A x \in ModFile, y \in S : x.file # y.file
      BY <1>6
    <3>2. Listed(rest, S)
      BY <2>3
    <3>3. Scaffold(shape) = mod \o rest
      BY <1>4, <1>9
    <3> HIDE DEF rest, S
    <3>4. Listed(mod \o rest, ModFile \cup S)
      BY <1>1, <3>1, <3>2, Joined
    <3> QED
      BY <3>3, <3>4 DEF S
  <2> QED
    BY <1>5, <1>9, <2>4 DEF ScaffoldSet, Listed
<1> QED
  BY <1>7, <1>8, <1>9, TreeAssumption

-----------------------------------------------------------------------------
(* The entry in drel.yaml, the wiring and the lines of `avero ui add`. *)

\* What Contains says of a text of the tree.
LEMMA TextContains ==
  ASSUME NEW text, IsText(text), NEW word
  PROVE  Contains(text, word) <=> word \in ToSet(text)
BY ContainsIs DEF IsText

\* A literal holds only its own words.
LEMMA LiteralFine ==
  ASSUME NEW f, NEW a, f[2] \notin {"drel.yaml", "app.css", "app.js"}
  PROVE  Fine(f, <<a>>)
BY OneText, FineText

\* In a text of two different words each stands once.
LEMMA OnceInPair ==
  ASSUME NEW a, NEW b, a # b, NEW w
  PROVE  AtMostOnce(<<a, b>>, w)
BY DEF AtMostOnce

\* The new application.
LEMMA SoundScaffold ==
  ASSUME NEW shape \in Shapes
  PROVE  Sound(Then(Scaffold(shape)), "scaffold")
<1>1. Listed(Scaffold(shape), ScaffoldSet(shape))
  BY ScaffoldListed
<1>2. FirstSlice(shape) \in {"tasks", "posts"}
  BY DEF FirstSlice
<1>3. ASSUME NEW f, NEW text, Fine(f, text) PROVE Due(Write(f, text), "scaffold")
  BY <1>3, WriteIs DEF Due, Inner
<1>4. Fine(App("drel.yaml"), <<"modules:", FirstSlice(shape)>>)
  <2>1. \A w : AtMostOnce(<<"modules:", FirstSlice(shape)>>, w)
    BY <1>2, OnceInPair
  <2> QED
    BY <2>1, TwoText DEF Fine, App
<1>5. Fine(App("app.css"), <<"tailwindcss", "body">>)
  <2>1. ASSUME NEW w \in Styles
        PROVE  AtMostOnce(<<"tailwindcss", "body">>, w) /\ After(<<"tailwindcss", "body">>, w, "tailwindcss")
    BY TreeAssumption DEF AtMostOnce, After
  <2> QED
    BY <2>1, TwoText DEF Fine, App
<1>6. Fine(App("app.js"), <<"datastar">>)
  <2>1. AtMostOnce(<<"datastar">>, "all.min.js") /\ After(<<"datastar">>, "all.min.js", "datastar")
    BY DEF AtMostOnce, After
  <2> QED
    BY <2>1, OneText DEF Fine, App
<1>7a. IsText(Members(shape))
  BY OneText, TwoText DEF Members
<1>7. /\ Fine(App("avero.json"), Members(shape)) /\ Fine(App("wire.go"), <<"avero.Modules", FirstSlice(shape)>>)
      /\ Fine(App("dist"), <<"starter">>) /\ Fine(App("go.mod"), <<"module", "drel">>)
      /\ Fine(App("layout.templ"), <<"scaffold">>) /\ Fine(Web("openapi-ts.config.ts"), <<"config">>)
      /\ Fine(Web("package.json"), <<"build", "api">>) /\ Fine(<<"payments", "client">>, <<"v1">>)
      /\ \A s : \A k \in {"handlers", "model", "module"} : Fine(<<s, k>>, Source(s))
  BY <1>7a, OneText, TwoText, FineText DEF App, Web, Source
<1>8. \A x \in ModFile \cup Wire(shape) \cup Layout \cup Payments \cup StarterSet \cup FrontWrites : Due(x, "scaffold")
  BY <1>3, <1>7 DEF ModFile, Wire, Layout, Payments, StarterSet, FrontWrites
<1>9. \A s : \A x \in FeatureSet(s) : Due(x, "scaffold")
  BY <1>3, <1>7 DEF FeatureSet
<1>10. \A x \in Basis(shape) \cup Styling : Due(x, "scaffold")
  BY <1>3, <1>4, <1>5, <1>6, <1>7 DEF Basis, Styling
<1>11. \A x \in ScaffoldSet(shape) : Due(x, "scaffold")
  BY <1>8, <1>9, <1>10 DEF ScaffoldSet
<1>12. "scaffold" \in Adders
  BY DEF Adders
<1> QED
  BY <1>1, <1>11, <1>12, SoundThen DEF Listed

\* The entry of a slice, in a configuration that has a place for it.
LEMMA EntryIs ==
  ASSUME NEW config, IsText(config), Block(config) # 0, NEW s, s \notin ToSet(config)
  PROVE  LET text == InsertAt(config, Block(config) + 1, s) IN
         /\ IsText(text) /\ ToSet(text) = ToSet(config) \cup {s}
         /\ Only(text, ToSet(config)) = config
         /\ \A w : AtMostOnce(config, w) => AtMostOnce(text, w)
<1> DEFINE A == ToSet(config) \cup {s}
           i == Block(config) + 1
<1>1. config \in Seq(A) /\ s \in A
  BY DEF IsText
<1>2. Block(config) \in DOMAIN config
  BY <1>1, PlaceIs DEF Block
<1>3. i \in 1 .. Len(config) + 1
  BY <1>1, <1>2
<1> HIDE DEF A, i
<1>4. InsertAt(config, i, s) \in Seq(A)
  BY <1>1, <1>3, InsertIs
<1>5. IsText(InsertAt(config, i, s))
  BY <1>4, SeqIsText
<1>6. ToSet(InsertAt(config, i, s)) = ToSet(config) \cup {s}
  BY <1>1, <1>3, InsertSet
<1>7. Only(InsertAt(config, i, s), ToSet(config)) = config
  BY <1>1, <1>3, InsertKeeps
<1>8. \A w : AtMostOnce(config, w) => AtMostOnce(InsertAt(config, i, s), w)
  BY <1>1, <1>3, InsertOnce
<1> QED
  BY <1>5, <1>6, <1>7, <1>8 DEF i

\* The configuration of the modules as slice reads it.
LEMMA ConfigIs ==
  ASSUME FineTree
  PROVE  IsText(SliceConfig(tree)) /\ \A w : AtMostOnce(SliceConfig(tree), w)
<1>1. CASE Has(tree, App("drel.yaml"))
  <2>1. Fine(App("drel.yaml"), tree[App("drel.yaml")]) /\ Persons(App("drel.yaml"))
    BY <1>1 DEF FineTree, Has, Persons, Generated, App
  <2> QED
    BY <1>1, <2>1 DEF SliceConfig, Fine
<1>2. CASE ~Has(tree, App("drel.yaml"))
  BY <1>2, OneText DEF SliceConfig, AtMostOnce
<1> QED
  BY <1>1, <1>2

\* What slice puts before the next step: the files of the slice, and its entry when the configuration has none.
EntrySet(config, s) ==
  IF Contains(config, s) THEN {} ELSE {Write(App("drel.yaml"), InsertAt(config, Block(config) + 1, s))}

\* The files of a slice and its entry in drel.yaml are written once each.
LEMMA SliceListed ==
  ASSUME NEW config, NEW s
  PROVE  Listed(Feature(s) \o Entry(config, s), FeatureSet(s) \cup EntrySet(config, s))
<1>1. Listed(Entry(config, s), EntrySet(config, s))
  BY OneListed, EmptyListed DEF Entry, EntrySet
<1>2. \A x \in FeatureSet(s), y \in EntrySet(config, s) : x.file # y.file
  BY WriteIs DEF FeatureSet, EntrySet, App
<1> QED
  BY <1>1, <1>2, FeatureListed, Joined

\* `avero slice` puts the files of the slice and a drel.yaml that is fine.
LEMMA SoundSlice ==
  ASSUME FineTree, NEW name
  PROVE  Sound(WriteSlice(tree, name), "slice")
<1> DEFINE s == packageOf(name)
           config == SliceConfig(tree)
<1>1. WriteSlice(tree, name) = Refuse \/
      (Block(config) # 0 /\ WriteSlice(tree, name) = Then(Feature(s) \o Entry(config, s)))
  BY DEF WriteSlice
<1>2. IsText(config) /\ \A w : AtMostOnce(config, w)
  BY ConfigIs
<1> HIDE DEF s, config
<1>3. ASSUME NEW f, NEW text, Fine(f, text) PROVE Due(Write(f, text), "slice")
  BY <1>3, WriteIs DEF Due, Inner
<1>4. \A x \in FeatureSet(s) : Due(x, "slice")
  <2>1. \A k \in {"handlers", "model", "module"} : Fine(<<s, k>>, Source(s))
    BY LiteralFine DEF Source
  <2> QED
    BY <1>3, <2>1 DEF FeatureSet
<1>5. ASSUME Block(config) # 0, NEW x \in EntrySet(config, s) PROVE Due(x, "slice")
  <2> DEFINE text == InsertAt(config, Block(config) + 1, s)
  <2>1. ~Contains(config, s) /\ x = Write(App("drel.yaml"), text)
    BY DEF EntrySet
  <2>2. s \notin ToSet(config)
    BY <1>2, <2>1, TextContains
  <2>3. IsText(text) /\ \A w : AtMostOnce(text, w)
    BY <1>2, <1>5, <2>2, EntryIs
  <2> HIDE DEF text
  <2>4. Fine(App("drel.yaml"), text)
    BY <2>3 DEF Fine, App
  <2> QED
    BY <1>3, <2>1, <2>4
<1>6. "slice" \in Adders
  BY DEF Adders
<1>7. Listed(Feature(s) \o Entry(config, s), FeatureSet(s) \cup EntrySet(config, s))
  BY SliceListed
<1>8. Block(config) # 0 => Sound(Then(Feature(s) \o Entry(config, s)), "slice")
  BY <1>4, <1>5, <1>6, <1>7, SoundThen DEF Listed
<1> QED
  BY <1>1, <1>8, SoundFault

\* The wiring with one module more.
LEMMA RegisterIs ==
  ASSUME FineTree, NEW s
  PROVE  LET wire == Text(tree, App("wire.go"))
             text == InsertAt(wire, 2, s)
         IN \/ RegisterSlice(tree, s) = [Nothing EXCEPT !.told = TRUE]
            \/ RegisterSlice(tree, s) = Fault("format", App("wire.go"))
            \/ /\ RegisterSlice(tree, s) = Writes(File(App("wire.go"), text))
               /\ Has(tree, App("wire.go")) /\ wire = tree[App("wire.go")] /\ s \notin ToSet(wire)
               /\ IsText(text) /\ ToSet(text) = ToSet(wire) \cup {s} /\ Only(text, ToSet(wire)) = wire
               /\ Times(text, s) = 1
<1> DEFINE wire == Text(tree, App("wire.go"))
           A == ToSet(wire) \cup {s}
<1>1. CASE Contains(wire, s) \/ ~Contains(wire, "avero.Modules") \/ Registered(tree) = <<>>
  BY <1>1 DEF RegisterSlice
<1>3. CASE s \in Digits \/ ~Parses(wire)
  BY <1>1, <1>3 DEF RegisterSlice
<1>2. CASE /\ ~(Contains(wire, s) \/ ~Contains(wire, "avero.Modules") \/ Registered(tree) = <<>>)
           /\ ~(s \in Digits \/ ~Parses(wire))
  <2>1. RegisterSlice(tree, s) = Writes(File(App("wire.go"), InsertAt(wire, 2, s)))
    BY <1>2 DEF RegisterSlice
  <2>2. IsText(wire)
    BY TextIs DEF Persons, Generated, App
  <2>3. s \notin ToSet(wire) /\ "avero.Modules" \in ToSet(wire)
    BY <1>2, <2>2, TextContains
  <2>4. Has(tree, App("wire.go")) /\ wire = tree[App("wire.go")]
    BY <2>3, EmptySet DEF Text
  <2> HIDE DEF wire
  <2>5. wire \in Seq(A) /\ s \in A
    BY <2>2 DEF IsText
  <2> HIDE DEF A
  <2>6. DOMAIN wire = 1 .. Len(wire) /\ Len(wire) \in Nat
    BY <2>5
  <2>7. 2 \in 1 .. Len(wire) + 1
    BY <2>3, <2>6 DEF ToSet
  <2>8. InsertAt(wire, 2, s) \in Seq(A) /\ HasWord(InsertAt(wire, 2, s), wire, 2, s)
    BY <2>5, <2>7, InsertIs
  <2>9. ToSet(InsertAt(wire, 2, s)) = ToSet(wire) \cup {s}
    BY <2>5, <2>7, InsertSet
  <2>10. Only(InsertAt(wire, 2, s), ToSet(wire)) = wire
    BY <2>3, <2>5, <2>7, InsertKeeps
  <2>11. Times(InsertAt(wire, 2, s), s) = 1
    <3> DEFINE text == InsertAt(wire, 2, s)
    <3>1. text \in Seq(A) /\ AtMostOnce(text, s)
      <4>1. AtMostOnce(wire, s)
        BY <2>3 DEF AtMostOnce, ToSet
      <4> QED
        BY <2>3, <2>5, <2>7, <2>8, <4>1, InsertOnce
    <3>2. s \in ToSet(text)
      BY <2>9
    <3> HIDE DEF text
    <3>3. PICK k \in DOMAIN text : text[k] = s
      BY <3>2 DEF ToSet
    <3>4. Only(text, {text[k]}) = <<text[k]>>
      BY <3>1, <3>3, OnlyOne DEF AtMostOnce
    <3>5. Times(text, s) = 1
      BY <3>3, <3>4 DEF Times
    <3> QED
      BY <3>5 DEF text
  <2>12. IsText(InsertAt(wire, 2, s))
    BY <2>8, SeqIsText
  <2> QED
    BY <2>1, <2>3, <2>4, <2>9, <2>10, <2>11, <2>12 DEF wire
<1> QED
  BY <1>1, <1>2, <1>3

\* The wiring gets the module or stays, and nothing relies on its text.
LEMMA SoundRegister ==
  ASSUME FineTree, NEW s, NEW op
  PROVE  Sound(RegisterSlice(tree, s), op)
<1> DEFINE text == InsertAt(Text(tree, App("wire.go")), 2, s)
<1>1. RegisterSlice(tree, s) = [Nothing EXCEPT !.told = TRUE]
      \/ RegisterSlice(tree, s) = Fault("format", App("wire.go"))
      \/ (RegisterSlice(tree, s) = Writes(File(App("wire.go"), text)) /\ IsText(text))
  BY RegisterIs
<1>2. Sound([Nothing EXCEPT !.told = TRUE], op)
  BY ToldIs, SoundNothing
<1> HIDE DEF text
<1>3. IsText(text) => Fine(App("wire.go"), text)
  BY FineText DEF App
<1> QED
  BY <1>1, <1>2, <1>3, SoundFault, SoundWrite

\* A line that comes into a file, after its anchor.
LEMMA LineIs ==
  ASSUME FineTree, NEW f \in {App("app.css"), App("app.js")},
         NEW line, f = App("app.css") => line \in Styles, f = App("app.js") => line = "all.min.js"
  PROVE  LET text == InsertAt(tree[f], Place(tree[f], Anchor(f)) + 1, line)
         IN \/ addLine(tree, f, line) = Nothing /\ Contains(Text(tree, f), line)
            \/ addLine(tree, f, line) = Fault("anchor", f) /\ ~Contains(Text(tree, f), Anchor(f))
            \/ /\ addLine(tree, f, line) = Writes(File(f, text)) /\ Has(tree, f)
               /\ line \notin ToSet(tree[f]) /\ Fine(f, text) /\ ToSet(text) = ToSet(tree[f]) \cup {line}
               /\ Only(text, ToSet(tree[f])) = tree[f]
<1> DEFINE old == tree[f]
           A == ToSet(old) \cup {line}
           i == Place(old, Anchor(f)) + 1
<1>1. CASE Contains(Text(tree, f), line) \/ ~Contains(Text(tree, f), Anchor(f))
  BY <1>1 DEF addLine
<1>2. CASE ~Contains(Text(tree, f), line) /\ Contains(Text(tree, f), Anchor(f))
  <2>1. addLine(tree, f, line) = Writes(File(f, InsertAt(old, i, line)))
    BY <1>2 DEF addLine
  <2>2. Persons(f)
    BY DEF Persons, Generated, App
  <2>3. IsText(Text(tree, f))
    BY <2>2, TextIs
  <2>4. line \notin ToSet(Text(tree, f)) /\ Anchor(f) \in ToSet(Text(tree, f))
    BY <1>2, <2>3, TextContains
  <2>5. Has(tree, f) /\ Text(tree, f) = old
    BY <2>4, EmptySet DEF Text
  <2>6. Fine(f, old)
    BY <2>5 DEF FineTree, Has
  <2> HIDE DEF old
  <2>7. old \in Seq(A) /\ line \in A
    BY <2>3, <2>5 DEF IsText
  <2> HIDE DEF A
  <2>8. Place(old, Anchor(f)) \in DOMAIN old /\ old[Place(old, Anchor(f))] = Anchor(f)
    BY <1>2, <2>5, <2>7, PlaceIs
  <2>9. i \in 1 .. Len(old) + 1 /\ Place(old, Anchor(f)) < i
    BY <2>7, <2>8
  <2> HIDE DEF i
  <2>10. InsertAt(old, i, line) \in Seq(A) /\ ToSet(InsertAt(old, i, line)) = ToSet(old) \cup {line}
    BY <2>7, <2>9, InsertIs, InsertSet
  <2>11. Only(InsertAt(old, i, line), ToSet(old)) = old
    BY <2>4, <2>5, <2>7, <2>9, InsertKeeps
  <2>12. \A w : AtMostOnce(old, w) => AtMostOnce(InsertAt(old, i, line), w)
    BY <2>4, <2>5, <2>7, <2>9, InsertOnce
  <2>13. Anchor(f) # line
    BY TreeAssumption DEF Anchor, App
  <2>14. \A w : After(old, w, Anchor(f)) => After(InsertAt(old, i, line), w, Anchor(f))
    <3>1. \E j \in DOMAIN old : j < i /\ old[j] = Anchor(f)
      BY <2>8, <2>9
    <3> QED
      BY <2>7, <2>9, <2>13, <3>1, InsertAfter
  <2>15. IsText(InsertAt(old, i, line))
    BY <2>10, SeqIsText
  <2>16. Fine(f, InsertAt(old, i, line))
    BY <2>6, <2>12, <2>14, <2>15 DEF Fine, App, Anchor
  <2> QED
    BY <2>1, <2>4, <2>5, <2>10, <2>11, <2>16 DEF old, i
<1> QED
  BY <1>1, <1>2

\* `avero ui add` adds its line once, after the anchor.
LEMMA SoundLine ==
  ASSUME FineTree, NEW f \in {App("app.css"), App("app.js")}, NEW op,
         NEW line, f = App("app.css") => line \in Styles, f = App("app.js") => line = "all.min.js"
  PROVE  Sound(addLine(tree, f, line), op)
<1> DEFINE text == InsertAt(tree[f], Place(tree[f], Anchor(f)) + 1, line)
<1>1. addLine(tree, f, line) = Nothing \/ addLine(tree, f, line) = Fault("anchor", f)
      \/ (addLine(tree, f, line) = Writes(File(f, text)) /\ Fine(f, text))
  BY LineIs
<1> QED
  BY <1>1, SoundFault, SoundWrite

-----------------------------------------------------------------------------
(* Where each command stands in its plan. *)

\* The steps, plan by plan.
LEMMA NewOps ==
  /\ New[1] = "empty" /\ New[2] = "scaffold" /\ New[3] = "tidy" /\ New[4] = "drel" /\ New[5] = "migration"
  /\ New[6] = "drel" /\ New[7] = "templ" /\ New[8] = "vendor" /\ New[9] = "codegen" /\ New[10] = "clients"
BY DEF New

\* The steps of `avero slice`.
LEMMA SliceOps ==
  /\ Slice[1] = "drelTool" /\ Slice[2] = "slice" /\ Slice[3] = "register" /\ Slice[4] = "drel"
  /\ Slice[5] = "migration" /\ Slice[6] = "drel" /\ Slice[7] = "codegen"
BY DEF Slice

\* The steps of `avero generate`.
LEMMA GenerateOps ==
  /\ Generate[1] = "project" /\ Generate[2] = "drel" /\ Generate[3] = "templ" /\ Generate[4] = "codegen"
  /\ Generate[5] = "clients" /\ Generate[6] = "describe"
BY DEF Generate

\* The steps of `avero ui add`.
LEMMA UIOps ==
  /\ UI[1] = "ssr" /\ UI[2] = "followsCSS" /\ UI[3] = "followsJS" /\ UI[4] = "package" /\ UI[5] = "css"
  /\ UI[6] = "js" /\ UI[7] = "toaster" /\ UI[8] = "toasterTest" /\ UI[9] = "layout"
BY DEF UI

\* The steps of `avero assets init`.
LEMMA AssetsOps ==
  AssetsInit[1] = "project" /\ AssetsInit[2] = "init" /\ AssetsInit[3] = "save" /\ AssetsInit[4] = "nodeTool"
BY DEF AssetsInit

\* Where a command stands.
At(cmd, i, op) == run.cmd = cmd /\ run.next = i /\ Plans[run.cmd][run.next] = op

\* Where `avero new` stands.
LEMMA WhereNew ==
  ASSUME Placed, run.cmd = "new", run.next <= 10
  PROVE  \/ At("new", 1, "empty") \/ At("new", 2, "scaffold") \/ At("new", 3, "tidy") \/ At("new", 4, "drel")
         \/ At("new", 5, "migration") \/ At("new", 6, "drel") \/ At("new", 7, "templ") \/ At("new", 8, "vendor")
         \/ At("new", 9, "codegen") \/ At("new", 10, "clients")
<1>1. run.next \in 1 .. 10
  BY DEF Placed
<1>2. run.next \in {1, 2, 3, 4, 5, 6, 7, 8, 9, 10}
  BY <1>1
<1>3. \A i \in 1 .. 10 : Plans["new"][i] = New[i]
  BY OpsAre
<1>4. Plans[run.cmd][run.next] = New[run.next]
  BY <1>1, <1>3
<1> QED
  BY <1>2, <1>4, NewOps DEF At

\* Where `avero slice` stands.
LEMMA WhereSlice ==
  ASSUME Placed, run.cmd = "slice", run.next <= 7
  PROVE  \/ At("slice", 1, "drelTool") \/ At("slice", 2, "slice") \/ At("slice", 3, "register") \/ At("slice", 4, "drel")
         \/ At("slice", 5, "migration") \/ At("slice", 6, "drel") \/ At("slice", 7, "codegen")
<1>1. run.next \in 1 .. 7
  BY DEF Placed
<1>2. run.next \in {1, 2, 3, 4, 5, 6, 7}
  BY <1>1
<1>3. \A i \in 1 .. 7 : Plans["slice"][i] = Slice[i]
  BY OpsAre
<1>4. Plans[run.cmd][run.next] = Slice[run.next]
  BY <1>1, <1>3
<1> QED
  BY <1>2, <1>4, SliceOps DEF At

\* Where `avero generate` or `avero build` stands.
LEMMA WhereGenerate ==
  ASSUME Placed, NEW cmd \in {"generate", "build"}, run.cmd = cmd, run.next <= (IF cmd = "build" THEN 9 ELSE 6)
  PROVE  \/ At(cmd, 1, "project") \/ At(cmd, 2, "drel") \/ At(cmd, 3, "templ") \/ At(cmd, 4, "codegen")
         \/ At(cmd, 5, "clients") \/ At(cmd, 6, "describe")
         \/ cmd = "build" /\ (At(cmd, 7, "install") \/ At(cmd, 8, "assets") \/ At(cmd, 9, "compile"))
<1>0. run.next \in Nat /\ run.next >= 1 /\ run.next <= 9 /\ (cmd # "build" => run.next <= 6)
  BY DEF Placed
<1>1. run.next \in {1, 2, 3, 4, 5, 6} \/ (cmd = "build" /\ run.next \in {7, 8, 9})
  BY <1>0
<1>2. CASE run.next \in {1, 2, 3, 4, 5, 6}
  <2>1. \A i \in 1 .. 6 : Plans["generate"][i] = Generate[i] /\ Plans["build"][i] = Generate[i]
    BY OpsAre
  <2>2. Plans[run.cmd][run.next] = Generate[run.next]
    BY <1>2, <2>1
  <2> QED
    BY <1>2, <2>2, GenerateOps DEF At
<1>3. CASE cmd = "build" /\ run.next \in {7, 8, 9}
  <2>1. Plans["build"][7] = "install" /\ Plans["build"][8] = "assets" /\ Plans["build"][9] = "compile"
    BY OpsAre
  <2> QED
    BY <1>3, <2>1 DEF At
<1> QED
  BY <1>1, <1>2, <1>3

\* Where `avero ui add` stands.
LEMMA WhereUI ==
  ASSUME Placed, run.cmd = "ui", run.next <= 9
  PROVE  \/ At("ui", 1, "ssr") \/ At("ui", 2, "followsCSS") \/ At("ui", 3, "followsJS") \/ At("ui", 4, "package")
         \/ At("ui", 5, "css") \/ At("ui", 6, "js") \/ At("ui", 7, "toaster") \/ At("ui", 8, "toasterTest")
         \/ At("ui", 9, "layout")
<1>1. run.next \in 1 .. 9
  BY DEF Placed
<1>2. run.next \in {1, 2, 3, 4, 5, 6, 7, 8, 9}
  BY <1>1
<1>3. \A i \in 1 .. 9 : Plans["ui"][i] = UI[i]
  BY OpsAre
<1>4. Plans[run.cmd][run.next] = UI[run.next]
  BY <1>1, <1>3
<1> QED
  BY <1>2, <1>4, UIOps DEF At

\* Where `avero assets init` stands.
LEMMA WhereAssets ==
  ASSUME Placed, run.cmd = "assets", run.next <= 4
  PROVE  \/ At("assets", 1, "project") \/ At("assets", 2, "init") \/ At("assets", 3, "save")
         \/ At("assets", 4, "nodeTool")
<1>1. run.next \in 1 .. 4
  BY DEF Placed
<1>2. run.next \in {1, 2, 3, 4}
  BY <1>1
<1>3. \A i \in 1 .. 4 : Plans["assets"][i] = AssetsInit[i]
  BY OpsAre
<1>4. Plans[run.cmd][run.next] = AssetsInit[run.next]
  BY <1>1, <1>3
<1> QED
  BY <1>2, <1>4, AssetsOps DEF At

\* Every command that runs stands at one of them.
Reading == {"empty", "tidy", "drelTool", "project", "ssr", "followsCSS", "followsJS", "nodeTool"}
Writing == {"drel", "migration", "templ", "install", "assets", "compile", "register", "package", "js", "vendor",
            "toaster", "toasterTest", "layout", "init", "save"}

\* The kinds of the steps that stand in a plan.
LEMMA WhereIs ==
  ASSUME Placed, Running, run.extra = <<>>
  PROVE  LET op == Plans[run.cmd][run.next] IN
         \/ op \in Reading \/ op \in Writing
         \/ op = "scaffold" /\ run.cmd = "new" /\ run.arg \in Shapes
         \/ op = "slice" \/ op \in {"codegen", "clients"} \/ op = "describe"
         \/ op = "css" /\ run.cmd = "ui" /\ run.arg \in Styles
<1>1. run.cmd \in DOMAIN Plans /\ run.next \in 1 .. Len(Plans[run.cmd]) /\ run.arg \in Args[run.cmd]
  BY DEF Placed, Running
<1>2. Len(Plans[run.cmd]) = Lengths[run.cmd]
  BY <1>1, LengthsAre
<1>3. run.cmd \in {"new", "slice", "generate", "build", "ui", "assets"}
  BY <1>1, PlansAre
<1>4. run.next <= Lengths[run.cmd]
  BY <1>1, <1>2, LengthsAre
<1>5. CASE run.cmd = "new"
  <2>1. run.next <= 10
    BY <1>4, <1>5 DEF Lengths
  <2> QED
    BY <1>1, <1>5, <2>1, WhereNew, ArgsAre DEF At, Reading, Writing
<1>6. CASE run.cmd = "slice"
  <2>1. run.next <= 7
    BY <1>4, <1>6 DEF Lengths
  <2> QED
    BY <1>6, <2>1, WhereSlice DEF At, Reading, Writing
<1>7. CASE run.cmd \in {"generate", "build"}
  <2>1. run.next <= (IF run.cmd = "build" THEN 9 ELSE 6)
    BY <1>4, <1>7 DEF Lengths
  <2> QED
    BY <1>7, <2>1, WhereGenerate DEF At, Reading, Writing
<1>8. CASE run.cmd = "ui"
  <2>1. run.next <= 9
    BY <1>4, <1>8 DEF Lengths
  <2> QED
    BY <1>1, <1>8, <2>1, WhereUI, ArgsAre DEF At, Reading, Writing
<1>9. CASE run.cmd = "assets"
  <2>1. run.next <= 4
    BY <1>4, <1>9 DEF Lengths
  <2> QED
    BY <1>9, <2>1, WhereAssets DEF At, Reading, Writing
<1> QED
  BY <1>3, <1>5, <1>6, <1>7, <1>8, <1>9

\* avero.json is read, or is the file that a write left empty.
LEMMA ProjectIs ==
  ASSUME NEW t
  PROVE  LoadProject(t) = Nothing \/ LoadProject(t) = Fault("tool", App("avero.json"))
BY DEF LoadProject

\* The package manager of avero.json is known, or ends the command.
LEMMA NodeToolIs ==
  ASSUME NEW t
  PROVE  NodeTool(t) = Nothing \/ NodeTool(t) = Fault("manager", App("avero.json"))
BY DEF NodeTool

\* The layout is patched when it is the one of the scaffold, and told of when it is the person's.
LEMMA LayoutIs ==
  ASSUME NEW t
  PROVE  LET f == App("layout.templ")
             out == patchLayout(t)
         IN \/ out = Writes(File(f, <<"patched">>)) /\ Has(t, f) /\ t[f] = <<"scaffold">>
            \/ /\ out.fault = "none" /\ out.writes = <<>> /\ out.more = <<>> /\ ~out.last
               /\ Text(t, f) # <<"scaffold">> /\ (out.told <=> Has(t, f) /\ t[f] # <<"patched">>)
<1> DEFINE f == App("layout.templ")
           out == patchLayout(t)
<1>1. CASE ~Has(t, f)
  BY <1>1, NothingIs DEF patchLayout, Text
<1>2. CASE Has(t, f) /\ t[f] = <<"scaffold">>
  BY <1>2 DEF patchLayout
<1>3. CASE Has(t, f) /\ t[f] # <<"scaffold">>
  BY <1>3 DEF patchLayout, Text, Nothing, Does
<1> QED
  BY <1>1, <1>2, <1>3

\* A step that reads writes nothing.
LEMMA ReadingIs ==
  ASSUME NEW op \in Reading, Now(run).op = op
  PROVE  LET out == Outcome(tree, run) IN
         out.writes = <<>> /\ out.more = <<>> /\ ~out.last /\ ~out.told /\ out.fault \in {"none", "refused", "tool", "manager"}
<1>1. Outcome(tree, run) \in {Nothing, Refuse, Fault("tool", App("avero.json")), Fault("manager", App("avero.json"))}
  <2>1. CASE op \in {"empty", "tidy", "drelTool"}
    BY <2>1, OutcomeOf DEF EnsureEmpty, proveDrelTool
  <2>2. CASE op \in {"project", "ssr"}
    BY <2>2, OutcomeOf, ProjectIs DEF CheckShape
  <2>3. CASE op \in {"followsCSS", "followsJS"}
    BY <2>3, OutcomeOf DEF checkFollows
  <2>4. CASE op = "nodeTool"
    BY <2>4, OutcomeOf, NodeToolIs
  <2> QED
    BY <2>1, <2>2, <2>3, <2>4 DEF Reading
<1> QED
  BY <1>1, NothingIs, RefuseIs, FaultIs

\* avero.json is a text, and so are the members of it that Avero declares.
LEMMA ProjectKept ==
  ASSUME FineTree
  PROVE  /\ IsText(Project(tree)) /\ IsText(Only(Project(tree), Declared))
         /\ ToSet(Only(Project(tree), Declared)) = ToSet(Project(tree)) \cap Declared
<1>1. IsText(Project(tree))
  BY TwoText DEF FineTree, Has, Fine, Persons, Generated, App, Project
<1>2. Only(Project(tree), Declared) \in Seq(ToSet(Project(tree)))
      /\ ToSet(Only(Project(tree), Declared)) = ToSet(Project(tree)) \cap Declared
  BY <1>1, OnlyIn DEF IsText
<1> QED
  BY <1>1, <1>2, SeqIsText

\* Each step that writes by itself is sound.
LEMMA SoundWriting ==
  ASSUME FineTree, NEW op \in Writing, Now(run).op = op
  PROVE  Sound(Outcome(tree, run), op)
<1>1. CASE op = "drel"
  BY <1>1, OutcomeOf, SoundDrel
<1>2. CASE op = "migration"
  <2> DEFINE s == Target(run)
  <2>1. Outcome(tree, run) = Migration(tree, s)
    BY <1>2, OutcomeOf
  <2>2. Migration(tree, s) = Nothing \/ Migration(tree, s) = Fault("tool", App("drel.yaml"))
        \/ Migration(tree, s) = Writes(File(<<s, "migration">>, Text(tree, <<s, "model">>)))
    BY DEF Migration
  <2>3. Fine(<<s, "migration">>, Text(tree, <<s, "model">>))
    <3>1. IsText(Text(tree, <<s, "model">>))
      BY TextIs DEF Persons, Generated
    <3> QED
      BY <3>1, FineText
  <2> QED
    BY <2>1, <2>2, <2>3, SoundFault, SoundWrite
<1>3. CASE op = "templ"
  BY <1>3, OutcomeOf, SoundTempl
<1>4. CASE op \in {"install", "assets", "compile", "package"}
  <2>1. ~Persons(Web("node_modules")) /\ ~Persons(App("dist")) /\ ~Persons(App("bin")) /\ ~Persons(App("basecoat"))
    BY DEF Persons, Generated, App, Web
  <2>2. \A text : /\ Fine(Web("node_modules"), text) /\ Fine(App("dist"), text)
                  /\ Fine(App("bin"), text) /\ Fine(App("basecoat"), text)
    BY <2>1, FineGenerated
  <2>3. CASE op = "install"
    BY <2>2, <2>3, OutcomeOf, NodeToolIs, SoundFault, SoundWrite DEF Install
  <2>4. CASE op = "assets"
    BY <2>2, <2>4, OutcomeOf, NodeToolIs, SoundFault, SoundWrite DEF BuildAssets
  <2>5. CASE op = "compile"
    BY <2>2, <2>5, OutcomeOf, SoundFault, SoundWrite DEF Compile
  <2>6. CASE op = "package"
    BY <2>2, <2>6, OutcomeOf, SoundFault, SoundWrite
  <2> QED
    BY <1>4, <2>3, <2>4, <2>5, <2>6
<1>5. CASE op = "register"
  BY <1>5, OutcomeOf, SoundRegister
<1>6. CASE op = "js"
  <2>1. App("app.js") # App("app.css")
    BY DEF App
  <2> QED
    BY <1>6, <2>1, OutcomeOf, SoundLine
<1>7. CASE op \in {"vendor", "toaster", "toasterTest"}
  <2>1. /\ Fine(App("datastar"), <<"v1.0.3">>) /\ Fine(App("toaster.templ"), <<"toaster">>)
        /\ Fine(App("toaster_test.go"), <<"toaster">>)
    BY LiteralFine DEF App
  <2>2. CASE op = "vendor"
    <3>1. Outcome(tree, run) = Nothing \/ Outcome(tree, run) = Writes(File(App("datastar"), <<"v1.0.3">>))
      <4>1. Outcome(tree, run) = Vendor(run.arg)
        BY <2>2, OutcomeOf
      <4> QED
        BY <4>1 DEF Vendor
    <3> QED
      BY <2>1, <3>1, SoundFault, SoundWrite
  <2>3. CASE op = "toaster"
    BY <2>1, <2>3, OutcomeOf, SoundFault, SoundWrite DEF writeAbsent
  <2>4. CASE op = "toasterTest"
    BY <2>1, <2>4, OutcomeOf, SoundFault, SoundWrite DEF writeAbsent
  <2> QED
    BY <1>7, <2>2, <2>3, <2>4
<1>8. CASE op = "layout"
  <2>1. Fine(App("layout.templ"), <<"patched">>)
    BY LiteralFine DEF App
  <2>2. Sound(patchLayout(tree), op)
    BY <2>1, LayoutIs, SoundNothing, SoundWrite
  <2> QED
    BY <1>8, <2>2, OutcomeOf
<1>9. CASE op = "init"
  <2>1. Fine(App("package.json"), <<"private">>)
    BY LiteralFine DEF App
  <2>2. Sound([Nothing EXCEPT !.last = TRUE], op)
    BY LastIs, SoundNothing
  <2>3. PackageInit(tree) = [Nothing EXCEPT !.last = TRUE] \/
        PackageInit(tree) = Writes(File(App("package.json"), <<"private">>))
    BY DEF PackageInit
  <2> QED
    <3>1. Outcome(tree, run) = PackageInit(tree)
      BY <1>9, OutcomeOf
    <3>2. Sound(Writes(File(App("package.json"), <<"private">>)), op)
      BY <2>1, SoundWrite
    <3> QED
      BY <2>2, <2>3, <3>1, <3>2
<1>10. CASE op = "save"
  <2> DEFINE old == Only(Project(tree), Declared)
  <2>1. IsText(old)
    BY ProjectKept
  <2> HIDE DEF old
  <2>2. IsText(old \o <<"node">>)
    BY <2>1, OneText, ConcatText
  <2>3. Fine(App("avero.json"), old \o <<"node">>)
    BY <2>2, FineText DEF App
  <2>4. Outcome(tree, run) = Writes(File(App("avero.json"), old \o <<"node">>))
    BY <1>10, OutcomeOf DEF SaveTier, old
  <2> QED
    BY <2>3, <2>4, SoundWrite
<1> QED
  BY <1>1, <1>2, <1>3, <1>4, <1>5, <1>6, <1>7, <1>8, <1>9, <1>10 DEF Writing

\* A step that another one put there puts nothing itself.
LEMMA SoundInner ==
  ASSUME NEW op, Due(Now(run), op)
  PROVE  Sound(Outcome(tree, run), Now(run).op) /\ Outcome(tree, run).more = <<>>
<1> DEFINE x == Now(run)
<1>1. CASE x.op = "write"
  <2>1. Outcome(tree, run) = Writes(File(x.file, x.text)) /\ Fine(x.file, x.text)
    BY <1>1, OutcomeOf DEF Due
  <2> QED
    BY <2>1, SoundWrite, WritesIs
<1>2. CASE x.op = "install"
  <2>1. Fine(Web("node_modules"), <<"read">>)
    BY FineGenerated DEF Persons, Generated, Web
  <2>2. \/ Outcome(tree, run) = Nothing \/ Outcome(tree, run) = Writes(File(Web("node_modules"), <<"read">>))
        \/ Outcome(tree, run) = Fault("manager", App("avero.json"))
    BY <1>2, OutcomeOf, NodeToolIs DEF Install
  <2>3. /\ Sound(Nothing, x.op) /\ Nothing.more = <<>>
        /\ Sound(Fault("manager", App("avero.json")), x.op) /\ Fault("manager", App("avero.json")).more = <<>>
    BY SoundFault, NothingIs, FaultIs
  <2>4. /\ Sound(Writes(File(Web("node_modules"), <<"read">>)), x.op)
        /\ Writes(File(Web("node_modules"), <<"read">>)).more = <<>>
    BY <2>1, SoundWrite, WritesIs
  <2> QED
    BY <2>2, <2>3, <2>4
<1>3. CASE x.op = "frontEnd"
  <2>1. Fine(Web("sdk"), tree[App("openapi.json")])
    BY FineGenerated DEF Persons, Generated, Web
  <2>2. \/ Outcome(tree, run) = Fault("tool", Web("node_modules"))
        \/ Outcome(tree, run) = Writes(File(Web("sdk"), tree[App("openapi.json")]))
    BY <1>3, OutcomeOf DEF ClientOf
  <2> QED
    BY <2>1, <2>2, SoundFault, SoundWrite, WritesIs, FaultIs
<1>4. CASE x.op = "nodeTool"
  <2>1. Outcome(tree, run) = Nothing \/ Outcome(tree, run) = Fault("manager", App("avero.json"))
    BY <1>4, OutcomeOf, NodeToolIs
  <2>2. /\ Sound(Nothing, x.op) /\ Nothing.more = <<>>
        /\ Sound(Fault("manager", App("avero.json")), x.op) /\ Fault("manager", App("avero.json")).more = <<>>
    BY SoundFault, NothingIs, FaultIs
  <2> QED
    BY <2>1, <2>2
<1> QED
  BY <1>1, <1>2, <1>3, <1>4 DEF Due, Inner

\* So every step of every command is sound.
LEMMA SoundStep ==
  ASSUME Formed, Running
  PROVE  Sound(Outcome(tree, run), Now(run).op)
<1>0. FineTree /\ Recorded /\ Placed
  BY DEF Formed
<1>1. CASE run.extra = <<>>
  <2> DEFINE op == Plans[run.cmd][run.next]
  <2>1. Now(run).op = op
    BY <1>1, NowIs
  <2>2. \/ op \in Reading \/ op \in Writing
        \/ op = "scaffold" /\ run.cmd = "new" /\ run.arg \in Shapes
        \/ op = "slice" \/ op \in {"codegen", "clients"} \/ op = "describe"
        \/ op = "css" /\ run.cmd = "ui" /\ run.arg \in Styles
    BY <1>1, <1>0, WhereIs
  <2> HIDE DEF op
  <2>3. CASE op \in Reading
    BY <2>1, <2>3, ReadingIs, SoundNothing
  <2>4. CASE op \in Writing
    BY <2>1, <2>4, <1>0, SoundWriting
  <2>5. CASE op = "scaffold" /\ run.arg \in Shapes
    BY <2>1, <2>5, OutcomeOf, SoundScaffold
  <2>6. CASE op = "slice"
    BY <2>1, <2>6, OutcomeOf, <1>0, SoundSlice
  <2>7. CASE op \in {"codegen", "clients"}
    BY <2>1, <2>7, OutcomeOf, SoundBuild DEF Adders
  <2>8. CASE op = "describe"
    BY <2>1, <2>8, OutcomeOf, SoundDescribe
  <2>9. CASE op = "css" /\ run.arg \in Styles
    <3>1. App("app.js") # App("app.css")
      BY DEF App
    <3> QED
      BY <2>1, <2>9, <3>1, <1>0, OutcomeOf, SoundLine
  <2> QED
    BY <2>2, <2>3, <2>4, <2>5, <2>6, <2>7, <2>8, <2>9
<1>2. CASE run.extra # <<>>
  <2>1. Now(run) = Head(run.extra)
    BY <1>2, NowIs
  <2>2. Head(run.extra) \in Pending
    BY <1>0, <1>2, HeadTail DEF Recorded, IsText, Pending
  <2>3. Due(Now(run), Plans[run.cmd][run.next - 1])
    BY <1>0, <2>1, <2>2 DEF Placed
  <2> QED
    BY <2>3, SoundInner
<1> QED
  BY <1>1, <1>2

-----------------------------------------------------------------------------
(* Formed is inductive: a step, a break and an edit. *)

\* A tree over which fine texts are written is fine.
LEMMA FineOver ==
  ASSUME FineTree, NEW w, \A f \in DOMAIN w : Fine(f, w[f]), tree' = Over(w, tree)
  PROVE  FineTree'
<1>1. /\ DOMAIN tree' = DOMAIN w \cup DOMAIN tree
      /\ \A f \in DOMAIN w : tree'[f] = w[f]
      /\ \A f \in DOMAIN tree \ DOMAIN w : tree'[f] = tree[f]
      /\ tree' = [f \in DOMAIN tree' |-> tree'[f]]
  BY OverIs
<1>2. \A f \in DOMAIN tree' : Fine(f, tree'[f])
  BY <1>1 DEF FineTree
<1> QED
  BY <1>1, <1>2 DEF FineTree

\* A step of a command.
LEMMA FormedStep ==
  ASSUME Formed, Step
  PROVE  Formed'
<1> DEFINE out == Outcome(tree, run)
<1>0. FineTree /\ Recorded /\ Placed /\ Running
  BY DEF Formed, Step, Running
<1>1. Sound(out, Now(run).op)
  BY <1>0, SoundStep
<1>2. \/ out.fault # "none" /\ tree' = tree /\ FailsWith(out.fault)
      \/ Inside(out) \/ Onward(out)
  BY <1>0, StepIs
<1>3. run.cmd \in DOMAIN Plans /\ run.arg \in Args[run.cmd] /\ run.next \in 1 .. Len(Plans[run.cmd]) + 1
      /\ run.fault = "none" /\ (run.extra = <<>> => run.next <= Len(Plans[run.cmd]))
      /\ Len(Plans[run.cmd]) \in Nat
  BY <1>0, LengthsAre DEF Placed, Running
<1>4. Shaped(run')
  BY <1>0, StepIs
<1>5. ASSUME IsText(run'.extra), run'.next \in Nat PROVE Recorded'
  <2>1. run'.extra \in Seq(ToSet(run'.extra))
    BY <1>5 DEF IsText
  <2> QED
    BY <1>4, <1>5, <2>1 DEF Recorded, Shaped
<1> HIDE DEF out
<1>6. CASE out.fault # "none" /\ tree' = tree /\ FailsWith(out.fault)
  <2>1. FineTree'
    BY <1>0, <1>6 DEF FineTree
  <2>2. Recorded'
    BY <1>3, <1>5, <1>6, EmptyText DEF FailsWith
  <2>3. Placed'
    BY <1>3, <1>6, EmptySet DEF FailsWith, SameCommand, Placed, Running, Pending
  <2> QED
    BY <2>1, <2>2, <2>3 DEF Formed
<1>7. CASE Inside(out)
  <2>1. FineTree'
    BY <1>0, <1>1, <1>7, FineOver DEF Sound, Inside, Carries
  <2>2. IsText(run.extra) /\ run.extra # <<>> /\ run'.extra = Tail(run.extra) /\ run'.next = run.next
    BY <1>0, <1>7 DEF Recorded, IsText, Inside
  <2>3. IsText(run'.extra) /\ ToSet(run'.extra) \subseteq ToSet(run.extra)
    BY <2>2, HeadTail
  <2>4. Recorded'
    BY <1>3, <1>5, <2>2, <2>3
  <2>5. /\ run'.cmd = run.cmd /\ run'.arg = run.arg /\ run'.fault = "none"
        /\ run'.code = IF run'.extra = <<>> /\ run'.next = Len(Plans[run.cmd]) + 1 THEN "ok" ELSE "running"
    BY <1>3, <1>7 DEF Inside, Carries, SameCommand
  <2>6. run.next > 1 /\ Plans[run.cmd][run.next - 1] \in Adders
        /\ \A x \in ToSet(run.extra) : Due(x, Plans[run.cmd][run.next - 1])
    BY <1>0, <2>2 DEF Placed, Pending
  <2>7. run.cmd # "none"
    BY <1>0 DEF Placed
  <2>8. Placed'
    BY <1>3, <2>2, <2>3, <2>5, <2>6, <2>7 DEF Placed, Running, Pending
  <2> QED
    BY <2>1, <2>4, <2>8 DEF Formed
<1>8. CASE Onward(out)
  <2>1. FineTree'
    BY <1>0, <1>1, <1>8, FineOver DEF Sound, Onward, Carries
  <2>2. run.extra = <<>> /\ run'.extra = out.more
        /\ run'.next = IF out.last THEN Len(Plans[run.cmd]) + 1 ELSE run.next + 1
    BY <1>8 DEF Onward
  <2>3. Now(run).op = Plans[run.cmd][run.next]
    BY <2>2, NowIs
  <2>4. IsText(out.more) /\ (out.more # <<>> => Plans[run.cmd][run.next] \in Adders)
        /\ \A x \in ToSet(out.more) : Due(x, Plans[run.cmd][run.next])
    BY <1>1, <2>3 DEF Sound
  <2>5. out.last => out.more = <<>>
    BY <1>1 DEF Sound
  <2>6. run'.next \in 1 .. Len(Plans[run.cmd]) + 1 /\ (run'.extra # <<>> => run'.next = run.next + 1)
    BY <1>3, <2>2, <2>5
  <2>7. Recorded'
    BY <1>5, <2>2, <2>4, <2>6
  <2>8. /\ run'.cmd = run.cmd /\ run'.arg = run.arg /\ run'.fault = "none"
        /\ run'.code = IF run'.extra = <<>> /\ run'.next = Len(Plans[run.cmd]) + 1 THEN "ok" ELSE "running"
    BY <1>3, <1>8 DEF Onward, Carries, SameCommand
  <2>9. run.cmd # "none"
    BY <1>0 DEF Placed
  <2>10. run'.extra # <<>> => run'.next - 1 = run.next /\ run'.next > 1
    BY <1>3, <2>6
  <2>11. \A x \in ToSet(run'.extra) : Due(x, Plans[run.cmd][run'.next - 1])
    <3>1. CASE run'.extra = <<>>
      BY <3>1, EmptySet
    <3>2. CASE run'.extra # <<>>
      BY <2>2, <2>4, <2>10, <3>2
    <3> QED
      BY <3>1, <3>2
  <2>12. Placed'
    BY <1>3, <2>2, <2>4, <2>6, <2>8, <2>9, <2>10, <2>11 DEF Placed, Running, Pending
  <2> QED
    BY <2>1, <2>7, <2>12 DEF Formed
<1> QED
  BY <1>2, <1>6, <1>7, <1>8
\* A start, a break, an edit.
LEMMA FormedStart ==
  ASSUME Formed, NEW cmd \in DOMAIN Plans, NEW arg \in Args[cmd], Start(cmd, arg)
  PROVE  Formed'
<1>0. FineTree /\ Recorded /\ Placed
  BY DEF Formed
<1>1. /\ run'.cmd = cmd /\ run'.arg = arg /\ run'.next = 1 /\ run'.extra = <<>> /\ run'.code = "running"
      /\ run'.fault = "none" /\ tree' = tree
  BY StartIs
<1>7. run' = [cmd |-> cmd, arg |-> arg, next |-> 1, extra |-> <<>>, code |-> "running", fault |-> "none", at |-> None,
                    told |-> FALSE, dirty |-> FALSE]
  BY StartIs
<1>2. FineTree'
  BY <1>0, <1>1 DEF FineTree
<1>3. IsText(run'.extra) /\ ToSet(run'.extra) = {}
  BY <1>1, EmptyText, EmptySet
<1>4. Recorded'
  BY <1>1, <1>3, <1>7 DEF Recorded, IsText
<1>5. cmd # "none" /\ Len(Plans[cmd]) \in 3 .. 10
  BY PlansAre, LengthsAre
<1>6. Placed'
  <2>1. run'.next \in 1 .. Len(Plans[cmd]) + 1 /\ run'.next <= Len(Plans[cmd])
    <3>1. ASSUME NEW n \in 3 .. 10 PROVE 1 \in 1 .. n + 1 /\ 1 <= n
      OBVIOUS
    <3>2. run'.next = 1
      BY <1>1
    <3> QED
      BY <1>5, <3>1, <3>2
  <2>2. run'.code = "running" /\ run'.cmd \in DOMAIN Plans \cup {"none"} /\
        run'.cmd # "none" /\ run'.arg \in Args[run'.cmd]
    BY <1>1, <1>5
  <2> QED
    BY <1>1, <1>3, <2>1, <2>2 DEF Placed, Running, Pending
<1> QED
  BY <1>2, <1>4, <1>6 DEF Formed

\* A command that breaks leaves the tree and itself in form.
LEMMA FormedBreak ==
  ASSUME Formed, Break
  PROVE  Formed'
<1>0. FineTree /\ Recorded /\ Placed
  BY DEF Formed
<1>1. /\ FailsWith("broken") /\ Running
      /\ \/ tree' = tree
         \/ \E f \in DOMAIN Outcome(tree, run).writes : tree' = Over(File(f, <<>>), tree)
  BY <1>0, BreakIs
<1>2. FineTree'
  <2>1. CASE tree' = tree
    BY <1>0, <2>1 DEF FineTree
  <2>2. ASSUME NEW f, tree' = Over(File(f, <<>>), tree) PROVE FineTree'
    <3>1. \A g \in DOMAIN File(f, <<>>) : Fine(g, File(f, <<>>)[g])
      BY FineEmpty DEF File
    <3> QED
      BY <1>0, <2>2, <3>1, FineOver
  <2> QED
    BY <1>1, <2>1, <2>2
<1>3. IsText(run'.extra) /\ ToSet(run'.extra) = {}
  BY <1>1, EmptyText, EmptySet DEF FailsWith
<1>4. Shaped(run')
  BY <1>0 DEF Break, Shaped, Recorded
<1>5. run'.next \in Nat
  BY <1>0, <1>1 DEF FailsWith, Recorded
<1>6. Recorded'
  BY <1>3, <1>4, <1>5 DEF Recorded, IsText, Shaped
<1>7. Placed'
  BY <1>0, <1>1, <1>3 DEF Placed, Running, Pending, FailsWith, SameCommand
<1> QED
  BY <1>2, <1>6, <1>7 DEF Formed

\* A word of a person's at the end of a file disturbs no line of a command.
LEMMA AppendFine ==
  ASSUME NEW f \in {App("app.css"), App("app.js")}, NEW text, IsText(text), Fine(f, text)
  PROVE  Fine(f, Append(text, "own"))
<1> DEFINE more == Append(text, "own")
           n == Len(text)
<1>1. text \in Seq(ToSet(text))
  BY DEF IsText
<1>2. /\ DOMAIN text = 1 .. n /\ n \in Nat /\ DOMAIN more = 1 .. n + 1
      /\ more[n + 1] = "own" /\ \A i \in 1 .. n : more[i] = text[i]
  BY <1>1
<1>3. IsText(more)
  <2>1. text \in Seq(ToSet(text) \cup {"own"})
    BY <1>1
  <2>2. more \in Seq(ToSet(text) \cup {"own"})
    BY <2>1, AppendIn
  <2> QED
    BY <2>2, SeqIsText
<1> HIDE DEF more, n
<1>4. ASSUME NEW w, w # "own", AtMostOnce(text, w) PROVE AtMostOnce(more, w)
  BY <1>2, <1>4 DEF AtMostOnce
<1>5. ASSUME NEW w, NEW first, w # "own", After(text, w, first) PROVE After(more, w, first)
  BY <1>2, <1>5 DEF After
<1>6. \A w \in Styles : w # "own"
  BY TreeAssumption
<1>7. Fine(f, more)
  BY <1>3, <1>4, <1>5, <1>6 DEF Fine, App
<1> QED
  BY <1>7 DEF more

\* What a person writes is fine.
LEMMA FineEdit ==
  ASSUME FineTree, Edits
  PROVE  FineTree'
<1>1. ASSUME NEW f, NEW text, Fine(f, text), tree' = Over(File(f, text), tree)
      PROVE  FineTree'
  <2>1. \A g \in DOMAIN File(f, text) : Fine(g, File(f, text)[g])
    BY <1>1 DEF File
  <2> QED
    BY <1>1, <2>1, FineOver
<1>2. ASSUME NEW f, NEW v PROVE AtMostOnce(<<v>>, f)
  BY DEF AtMostOnce
<1>3. ASSUME NEW f, NEW v, f[2] \notin {"drel.yaml", "app.css", "app.js"}, tree' = Over(File(f, <<v>>), tree)
      PROVE  FineTree'
  <2>1. Fine(f, <<v>>)
    BY <1>3, LiteralFine
  <2> QED
    BY <1>1, <1>3, <2>1
<1>4. ASSUME NEW f \in {App("drel.yaml"), App("app.css")}, tree' = Over(File(f, <<"own">>), tree)
      PROVE  FineTree'
  <2>1. \A w \in Styles : After(<<"own">>, w, "tailwindcss")
    BY TreeAssumption DEF After
  <2>2. \A w : AtMostOnce(<<"own">>, w)
    BY DEF AtMostOnce
  <2>3. Fine(f, <<"own">>)
    BY <2>1, <2>2, OneText DEF Fine, App
  <2> QED
    BY <1>1, <1>4, <2>3
<1>5. ASSUME NEW f \in DOMAIN tree \cap {App("app.css"), App("app.js")},
             tree' = Over(File(f, Append(tree[f], "own")), tree)
      PROVE  FineTree'
  <2> DEFINE old == tree[f]
  <2>1. Fine(f, old) /\ Persons(f)
    BY DEF FineTree, Persons, Generated, App
  <2>2. IsText(old)
    BY <2>1 DEF Fine
  <2> HIDE DEF old
  <2>3. Fine(f, Append(old, "own"))
    BY <2>1, <2>2, AppendFine
  <2> QED
    BY <1>1, <1>5, <2>3 DEF old
<1>14. ASSUME NEW f \in DOMAIN tree \cap {App("avero.json"), App("wire.go")}, NEW w,
              tree' = Over(File(f, Append(tree[f], w)), tree)
       PROVE  FineTree'
  <2>1. f[2] \notin {"drel.yaml", "app.css", "app.js"} /\ Persons(f)
    BY DEF App, Persons, Generated
  <2>2. IsText(tree[f])
    BY <2>1 DEF FineTree, Fine
  <2>3. Append(tree[f], w) \in Seq(ToSet(tree[f]) \cup {w})
    <3>1. tree[f] \in Seq(ToSet(tree[f]) \cup {w})
      BY <2>2 DEF IsText
    <3> QED
      BY <3>1, AppendIn
  <2>4. Fine(f, Append(tree[f], w))
    BY <2>1, <2>3, SeqIsText, FineText
  <2> QED
    BY <1>1, <1>14, <2>4
<1>6. ASSUME NEW g, tree' = [f \in DOMAIN tree \ {g} |-> tree[f]]
      PROVE  FineTree'
  BY <1>6 DEF FineTree
<1>7. ASSUME NEW f \in {App(name) : name \in {"layout.templ", "toaster.templ", "wire.go", "drel.yaml", "app.css"}},
             Changes(f, <<"own">>)
      PROVE  FineTree'
  BY <1>3, <1>4, <1>7 DEF App, Changes
<1>8. CASE Has(tree, App("go.mod")) /\ Changes(App("openapi.json"), <<"own">>)
  BY <1>3, <1>8 DEF App, Changes
<1>9. CASE Changes(App("notes"), <<"own">>)
  BY <1>3, <1>9 DEF App, Changes
<1>10. ASSUME NEW f \in DOMAIN tree, f[2] = "handlers", NEW v, Changes(f, <<v>>)
       PROVE  FineTree'
  BY <1>3, <1>10 DEF Changes
<1>11. ASSUME NEW f \in DOMAIN tree, f[2] \in {"model", "client"}, Changes(f, <<"v2">>)
       PROVE  FineTree'
  BY <1>3, <1>11 DEF Changes
<1>12. ASSUME NEW f \in DOMAIN tree, f \in {App("app.css"), App("app.js"), App("avero.json")}, tree[f] # <<>>,
              Changes(f, Append(tree[f], "own"))
       PROVE  FineTree'
  BY <1>5, <1>12, <1>14 DEF Changes
<1>13. ASSUME NEW f \in DOMAIN tree, f = App("go.mod"), Changes(f, <<"module">>)
       PROVE  FineTree'
  BY <1>3, <1>13 DEF Changes, App
<1>15. ASSUME NEW f \in DOMAIN tree, f \in {App("avero.json"), App("wire.go")}, NEW w, Changes(f, Append(tree[f], w))
       PROVE  FineTree'
  BY <1>14, <1>15 DEF Changes
<1> QED
  BY <1>6, <1>7, <1>8, <1>9, <1>10, <1>11, <1>12, <1>13, <1>15 DEF Edits

\* An edit leaves the tree in form.
LEMMA FormedEdit ==
  ASSUME Formed, Edit
  PROVE  Formed'
<1>1. /\ run'.cmd = "none" /\ run'.next = 1 /\ run'.extra = <<>> /\ run'.code = "ok" /\ run'.fault = "none"
      /\ Edits
  BY EditIs
<1>2. run' = [cmd |-> "none", arg |-> "", next |-> 1, extra |-> <<>>, code |-> "ok", fault |-> "none", at |-> None,
              told |-> FALSE, dirty |-> FALSE]
  BY EditIs
<1>3. FineTree'
  BY <1>1, FineEdit DEF Formed
<1>4. IsText(run'.extra) /\ ToSet(run'.extra) = {}
  BY <1>1, EmptyText, EmptySet
<1>5. Recorded'
  BY <1>1, <1>2, <1>4 DEF Recorded, IsText
<1>6. Placed'
  BY <1>1, <1>4 DEF Placed, Running, Pending
<1> QED
  BY <1>3, <1>5, <1>6 DEF Formed

\* The empty directory is in form.
LEMMA FormedInit ==
  ASSUME Init
  PROVE  Formed
<1>1. FineTree
  BY DEF Init, FineTree
<1>2. Recorded
  <2>1. IsText(<<>>)
    BY EmptyText
  <2> QED
    BY <2>1 DEF Init, Idle, Recorded, IsText
<1>3. Placed
  BY EmptySet DEF Init, Idle, Placed, Running, Pending
<1> QED
  BY <1>1, <1>2, <1>3 DEF Formed

\* Every step keeps the tree and the command in form.
LEMMA FormedNext ==
  ASSUME Formed, [Next]_vars
  PROVE  Formed'
<1>1. CASE UNCHANGED vars
  BY <1>1 DEF vars, Formed, FineTree, Recorded, Placed, Running, Pending
<1>2. CASE \E cmd \in DOMAIN Plans : \E arg \in Args[cmd] : Start(cmd, arg)
  BY <1>2, FormedStart
<1>3. CASE Step
  BY <1>3, FormedStep
<1>4. CASE Break
  BY <1>4, FormedBreak
<1>5. CASE Edit
  BY <1>5, FormedEdit
<1> QED
  BY <1>1, <1>2, <1>3, <1>4, <1>5 DEF Next

-----------------------------------------------------------------------------
(* What is due, and where. *)

\* Where steps of other steps may be due.
LEMMA PendingAt ==
  ASSUME Placed, run.extra # <<>>
  PROVE  \/ run.cmd = "new" /\ run.next \in {3, 10, 11}
         \/ run.cmd = "slice" /\ run.next \in {3, 8}
         \/ run.cmd \in {"generate", "build"} /\ run.next \in {5, 6, 7}
<1>1. Running /\ run.cmd \in DOMAIN Plans /\ run.next \in 1 .. Len(Plans[run.cmd]) + 1 /\ run.next > 1
      /\ Plans[run.cmd][run.next - 1] \in Adders
  BY DEF Placed, Running
<1>2. Len(Plans[run.cmd]) = Lengths[run.cmd] /\ Lengths[run.cmd] \in 3 .. 10
  BY <1>1, LengthsAre
<1>3. run.cmd \in {"new", "slice", "generate", "build", "ui", "assets"}
  BY <1>1, PlansAre
<1> DEFINE i == run.next - 1
<1>4. i \in 1 .. Lengths[run.cmd] /\ run.next = i + 1
  BY <1>1, <1>2
<1>5. Plans[run.cmd][i] \in Adders
  BY <1>1
<1> HIDE DEF i
<1>6. CASE run.cmd = "new"
  <2>1. i \in {1, 2, 3, 4, 5, 6, 7, 8, 9, 10}
    BY <1>4, <1>6 DEF Lengths
  <2>2. New[i] \in Adders
    BY <1>4, <1>5, <1>6, OpsAre DEF Lengths
  <2>3. i \in {2, 9, 10}
    BY <2>1, <2>2, NewOps DEF Adders
  <2> QED
    BY <1>4, <1>6, <2>3
<1>7. CASE run.cmd = "slice"
  <2>1. i \in {1, 2, 3, 4, 5, 6, 7}
    BY <1>4, <1>7 DEF Lengths
  <2>2. Slice[i] \in Adders
    BY <1>4, <1>5, <1>7, OpsAre DEF Lengths
  <2>3. i \in {2, 7}
    BY <2>1, <2>2, SliceOps DEF Adders
  <2> QED
    BY <1>4, <1>7, <2>3
<1>8. CASE run.cmd \in {"generate", "build"}
  <2>1. i \in {1, 2, 3, 4, 5, 6} \/ (run.cmd = "build" /\ i \in {7, 8, 9})
    BY <1>4, <1>8 DEF Lengths
  <2>2. CASE i \in {1, 2, 3, 4, 5, 6}
    <3>1. \A k \in 1 .. 6 : Plans["generate"][k] = Generate[k] /\ Plans["build"][k] = Generate[k]
      BY OpsAre
    <3>2. Generate[i] \in Adders
      BY <1>5, <1>8, <2>2, <3>1
    <3>3. i \in {4, 5, 6}
      BY <2>2, <3>2, GenerateOps DEF Adders
    <3> QED
      BY <1>4, <1>8, <3>3
  <2>3. CASE run.cmd = "build" /\ i \in {7, 8, 9}
    <3>1. Plans["build"][7] = "install" /\ Plans["build"][8] = "assets" /\ Plans["build"][9] = "compile"
      BY OpsAre
    <3> QED
      BY <1>5, <2>3, <3>1 DEF Adders
  <2> QED
    BY <2>1, <2>2, <2>3
<1>9. CASE run.cmd = "ui"
  <2>1. i \in {1, 2, 3, 4, 5, 6, 7, 8, 9}
    BY <1>4, <1>9 DEF Lengths
  <2>2. UI[i] \in Adders
    BY <1>4, <1>5, <1>9, OpsAre DEF Lengths
  <2> QED
    BY <2>1, <2>2, UIOps DEF Adders
<1>10. CASE run.cmd = "assets"
  <2>1. i \in {1, 2, 3, 4}
    BY <1>4, <1>10 DEF Lengths
  <2>2. AssetsInit[i] \in Adders
    BY <1>4, <1>5, <1>10, OpsAre DEF Lengths
  <2> QED
    BY <2>1, <2>2, AssetsOps DEF Adders
<1> QED
  BY <1>3, <1>6, <1>7, <1>8, <1>9, <1>10

\* The bounds of a command that runs.
LEMMA RunsWithin ==
  ASSUME Placed, Running, run.extra = <<>>
  PROVE  /\ run.cmd = "new" => run.next <= 10
         /\ run.cmd = "slice" => run.next <= 7
         /\ run.cmd \in {"generate", "build"} => run.next <= (IF run.cmd = "build" THEN 9 ELSE 6)
         /\ run.cmd = "ui" => run.next <= 9
         /\ run.cmd = "assets" => run.next <= 4
<1>1. run.cmd \in DOMAIN Plans /\ run.next <= Len(Plans[run.cmd])
  BY DEF Placed, Running
<1>2. Len(Plans[run.cmd]) = Lengths[run.cmd]
  BY <1>1, LengthsAre
<1> QED
  BY <1>1, <1>2 DEF Lengths

\* A step that does not fail goes inside the steps of another one, or onward in the plan.
LEMMA Going ==
  ASSUME Formed, Step, run'.code # "failed"
  PROVE  LET out == Outcome(tree, run) IN
         /\ Running /\ out.fault = "none" /\ Sound(out, Now(run).op)
         /\ run.fault = "none" /\ run.code = "running"
         /\ \/ Inside(out) /\ run.extra # <<>>
            \/ /\ Onward(out) /\ run.extra = <<>> /\ run'.next > run.next /\ Now(run).op = Plans[run.cmd][run.next]
               /\ ~out.last => run'.next = run.next + 1
<1> DEFINE out == Outcome(tree, run)
<1>0. FineTree /\ Recorded /\ Placed /\ Running
  BY DEF Formed, Step, Running
<1>1. (out.fault # "none" /\ FailsWith(out.fault)) \/ Inside(out) \/ Onward(out)
  BY <1>0, StepIs
<1>2. Sound(out, Now(run).op)
  BY <1>0, SoundStep
<1>3. run.extra = <<>> => Now(run).op = Plans[run.cmd][run.next]
  BY NowIs
<1> HIDE DEF out
<1>4. Inside(out) \/ Onward(out)
  BY <1>1 DEF FailsWith
<1>5. run.fault = "none" /\ run.code = "running" /\ run.next \in Nat /\ run.cmd \in DOMAIN Plans
      /\ (run.extra = <<>> => run.next <= Len(Plans[run.cmd]))
  BY <1>0 DEF Placed, Running, Recorded
<1>6. Len(Plans[run.cmd]) \in Nat
  BY <1>5, LengthsAre
<1>7. CASE Inside(out)
  BY <1>0, <1>2, <1>5, <1>7 DEF Inside, Carries, out
<1>8. CASE Onward(out)
  <2>1. run.extra = <<>> /\ run'.next = (IF out.last THEN Len(Plans[run.cmd]) + 1 ELSE run.next + 1)
    BY <1>8 DEF Onward
  <2>2. run'.next > run.next
    BY <1>5, <1>6, <2>1
  <2>3. out.fault = "none"
    BY <1>8 DEF Onward, Carries
  <2>4. ~out.last => run'.next = run.next + 1
    BY <2>1
  <2> QED
    BY <1>0, <1>2, <1>3, <1>5, <1>8, <2>1, <2>2, <2>3, <2>4 DEF out
<1> QED
  BY <1>4, <1>7, <1>8

\* A step that reads leaves the tree and what the command has changed.
LEMMA ReadsOnly ==
  ASSUME Formed, Onward(Outcome(tree, run)), Plans[run.cmd][run.next] \in Reading
  PROVE  tree' = tree /\ (run'.dirty <=> run.dirty) /\ ~Outcome(tree, run).last /\ run'.extra = <<>>
<1> DEFINE out == Outcome(tree, run)
<1>1. Now(run).op \in Reading
  BY NowIs DEF Onward
<1>2. out.writes = <<>> /\ ~out.last /\ out.more = <<>>
  BY <1>1, ReadingIs
<1>3. Over(<<>>, tree) = tree
  BY OverNothing DEF Formed, FineTree
<1> HIDE DEF out
<1>4. tree' = tree /\ run'.extra = <<>> /\ run'.dirty = (run.dirty \/ tree # tree)
  BY <1>2, <1>3 DEF Onward, Carries, out
<1>5. run.dirty \in BOOLEAN
  BY DEF Formed, Recorded
<1> QED
  BY <1>2, <1>4, <1>5 DEF out

\* The files after a write.
LEMMA OverNow ==
  ASSUME NEW w, tree' = Over(w, tree)
  PROVE  /\ DOMAIN tree' = DOMAIN w \cup DOMAIN tree
         /\ \A f \in DOMAIN w : tree'[f] = w[f]
         /\ \A f \in DOMAIN tree \ DOMAIN w : tree'[f] = tree[f]
BY DEF Over

\* A write of one file leaves the others.
LEMMA Elsewhere ==
  ASSUME NEW f, NEW text, tree' = Over(File(f, text), tree), NEW g, g # f
  PROVE  Text(tree, g)' = Text(tree, g) /\ Has(tree, g)' = Has(tree, g)
<1>1. DOMAIN tree' = {f} \cup DOMAIN tree /\ (g \in DOMAIN tree => tree'[g] = tree[g])
  BY DEF Over, File
<1> QED
  BY <1>1 DEF Text, Has

\* The file that was written holds its text.
LEMMA Here ==
  ASSUME NEW f, NEW text, tree' = Over(File(f, text), tree)
  PROVE  Has(tree, f)' /\ tree'[f] = text /\ Text(tree, f)' = text
<1>1. DOMAIN tree' = {f} \cup DOMAIN tree /\ tree'[f] = text
  BY DEF Over, File
<1> QED
  BY <1>1 DEF Text, Has

-----------------------------------------------------------------------------
(* A command that refuses leaves no mark. *)

\* A command has changed nothing when it comes to a step that may refuse, or has proved that the step will not.
Proving ==
    Running =>
       /\ run.cmd = "new" /\ run.next = 1 => ~run.dirty
       /\ run.cmd = "slice" /\ run.next <= 2 => ~run.dirty
       /\ run.cmd = "ui" => /\ run.next <= 4 => ~run.dirty
                            /\ run.next \in 3 .. 5 => Contains(Text(tree, App("app.css")), "tailwindcss")
                            /\ run.next \in 4 .. 6 => Contains(Text(tree, App("app.js")), "datastar")

\* The tool behind the step that comes now.
LEMMA OutcomeNow ==
  /\ Now(run).op = "write" => Outcome(tree, run) = Writes(File(Now(run).file, Now(run).text))
  /\ Now(run).op = "empty" => Outcome(tree, run) = EnsureEmpty(tree)
  /\ Now(run).op = "scaffold" => Outcome(tree, run) = Then(Scaffold(run.arg))
  /\ Now(run).op = "tidy" => Outcome(tree, run) = Nothing
  /\ Now(run).op = "vendor" => Outcome(tree, run) = Vendor(run.arg)
  /\ Now(run).op = "project" => Outcome(tree, run) = LoadProject(tree)
  /\ Now(run).op = "drel" => Outcome(tree, run) = Drel(tree)
  /\ Now(run).op = "migration" => Outcome(tree, run) = Migration(tree, Target(run))
  /\ Now(run).op = "templ" => Outcome(tree, run) = Templ(tree)
  /\ Now(run).op = "codegen" => Outcome(tree, run) = Build(tree, Codegen)
  /\ Now(run).op = "clients" => Outcome(tree, run) = Build(tree, Client)
  /\ Now(run).op = "describe" => Outcome(tree, run) = Describe(tree)
  /\ Now(run).op = "install" => Outcome(tree, run) = Install(tree)
  /\ Now(run).op = "frontEnd" => Outcome(tree, run) = ClientOf(tree)
  /\ Now(run).op = "assets" => Outcome(tree, run) = BuildAssets(tree)
  /\ Now(run).op = "compile" => Outcome(tree, run) = Compile(tree)
  /\ Now(run).op = "drelTool" => Outcome(tree, run) = proveDrelTool(tree)
  /\ Now(run).op = "slice" => Outcome(tree, run) = WriteSlice(tree, run.arg)
  /\ Now(run).op = "register" => Outcome(tree, run) = RegisterSlice(tree, Target(run))
  /\ Now(run).op = "ssr" => Outcome(tree, run) = CheckShape(tree)
  /\ Now(run).op = "followsCSS" => Outcome(tree, run) = checkFollows(tree, App("app.css"))
  /\ Now(run).op = "followsJS" => Outcome(tree, run) = checkFollows(tree, App("app.js"))
  /\ Now(run).op = "package" => Outcome(tree, run) = Writes(File(App("basecoat"), <<"basecoat">>))
  /\ Now(run).op = "css" => Outcome(tree, run) = addLine(tree, App("app.css"), run.arg)
  /\ Now(run).op = "js" => Outcome(tree, run) = addLine(tree, App("app.js"), "all.min.js")
  /\ Now(run).op = "toaster" => Outcome(tree, run) = writeAbsent(tree, App("toaster.templ"))
  /\ Now(run).op = "toasterTest" => Outcome(tree, run) = writeAbsent(tree, App("toaster_test.go"))
  /\ Now(run).op = "layout" => Outcome(tree, run) = patchLayout(tree)
  /\ Now(run).op = "init" => Outcome(tree, run) = PackageInit(tree)
  /\ Now(run).op = "save" => Outcome(tree, run) = SaveTier(tree)
  /\ Now(run).op = "nodeTool" => Outcome(tree, run) = NodeTool(tree)
BY DEF Outcome

\* The steps that may refuse.
LEMMA Refusals ==
  ASSUME Formed, Running, Outcome(tree, run).fault \in {"refused", "anchor"}
  PROVE  /\ run.extra = <<>>
         /\ \/ At("new", 1, "empty") \/ At("slice", 1, "drelTool") \/ At("slice", 2, "slice")
            \/ At("ui", 1, "ssr") \/ At("ui", 2, "followsCSS") \/ At("ui", 3, "followsJS")
            \/ At("ui", 5, "css") /\ ~Contains(Text(tree, App("app.css")), "tailwindcss")
            \/ At("ui", 6, "js") /\ ~Contains(Text(tree, App("app.js")), "datastar")
<1> DEFINE out == Outcome(tree, run)
           op == Now(run).op
<1>0. FineTree /\ Placed /\ Recorded
  BY DEF Formed
<1>1. op = "write" => out.fault = "none"
  BY OutcomeNow, WritesIs
<1>2. op \in {"install", "nodeTool"} => out.fault \in {"none", "manager"}
  BY OutcomeNow, WritesIs, NothingIs, FaultIs, NodeToolIs DEF Install
<1>3. op = "frontEnd" => out.fault \in {"none", "tool"}
  BY OutcomeNow, WritesIs, FaultIs DEF ClientOf
<1>4. op \in {"codegen", "clients"} => out.fault \in {"none", "code"}
  <2>1. \A own : Build(tree, own).fault \in {"none", "code"}
    BY BuildIs
  <2> QED
    BY <2>1, OutcomeNow
<1>5. op = "describe" => out.fault \in {"none", "tool"}
  <2>1. Describe(tree) = Nothing \/ Describe(tree) = Fault("tool", App("wire.go")) \/
        \E more : Describe(tree) = Then(more)
    BY DescribeIs
  <2>2. Describe(tree).fault \in {"none", "tool"}
    BY <2>1, NothingIs, FaultIs, ThenIs
  <2> QED
    BY <2>2, OutcomeNow
<1>6. op = "drel" => out.fault \in {"none", "tool"}
  <2>1. Drel(tree) = Nothing \/ (\E f : Drel(tree) = Fault("tool", f)) \/ \E w : Drel(tree) = Writes(w)
    BY DEF Drel
  <2>2. Drel(tree).fault \in {"none", "tool"}
    BY <2>1, NothingIs, FaultIs, WritesIs
  <2> QED
    BY <2>2, OutcomeNow
<1>7. op = "templ" => out.fault \in {"none", "tool"}
  BY OutcomeNow, FaultIs, WritesIs DEF Templ
<1>8. op = "migration" => out.fault \in {"none", "tool"}
  BY OutcomeNow, FaultIs, WritesIs, NothingIs DEF Migration
<1>9. op = "assets" => out.fault \in {"none", "manager", "tool"}
  BY OutcomeNow, WritesIs, NothingIs, FaultIs, NodeToolIs DEF BuildAssets
<1>10. op = "compile" => out.fault \in {"none", "tool"}
  BY OutcomeNow, FaultIs, WritesIs DEF Compile
<1>11. op = "register" => out.fault \in {"none", "format"}
  <2>1. ASSUME NEW s PROVE RegisterSlice(tree, s).fault \in {"none", "format"}
    <3>1. \/ RegisterSlice(tree, s) = [Nothing EXCEPT !.told = TRUE] \/ \E w : RegisterSlice(tree, s) = Writes(w)
          \/ RegisterSlice(tree, s) = Fault("format", App("wire.go"))
      BY DEF RegisterSlice
    <3>2. [Nothing EXCEPT !.told = TRUE].fault = "none"
      BY DEF Nothing, Does
    <3>3. Fault("format", App("wire.go")).fault = "format"
      BY FaultIs
    <3>4. \A w : Writes(w).fault = "none"
      BY WritesIs
    <3> QED
      BY <3>1, <3>2, <3>3, <3>4
  <2> QED
    BY <2>1, OutcomeNow
<1>12. op \in {"toaster", "toasterTest"} => out.fault = "none"
  BY OutcomeNow, WritesIs, NothingIs DEF writeAbsent
<1>13. op = "vendor" => out.fault = "none"
  BY OutcomeNow, WritesIs, NothingIs DEF Vendor
<1>14. op = "layout" => out.fault = "none"
  BY OutcomeNow, LayoutIs, WritesIs
<1>15. op = "init" => out.fault = "none"
  BY OutcomeNow, LastIs, WritesIs DEF PackageInit
<1>16. op = "save" => out.fault = "none"
  BY OutcomeNow, WritesIs DEF SaveTier
<1>17. op = "package" => out.fault = "none"
  BY OutcomeNow, WritesIs
<1>18. op = "scaffold" => out.fault = "none"
  BY OutcomeNow, ThenIs
<1>19. op = "tidy" => out.fault = "none"
  BY OutcomeNow, NothingIs
<1>20. op = "project" => out.fault \in {"none", "tool"}
  BY OutcomeNow, ProjectIs, NothingIs, FaultIs
<1>21. App("app.js") # App("app.css")
  BY DEF App
<1>22. op = "css" /\ run.arg \in Styles => out.fault = "none" \/ ~Contains(Text(tree, App("app.css")), "tailwindcss")
  BY <1>0, <1>21, OutcomeNow, LineIs, NothingIs, WritesIs DEF Anchor
<1>23. op = "js" => out.fault = "none" \/ ~Contains(Text(tree, App("app.js")), "datastar")
  BY <1>0, <1>21, OutcomeNow, LineIs, NothingIs, WritesIs DEF Anchor
<1>24. run.extra = <<>>
  <2>1. ASSUME run.extra # <<>> PROVE op \in Inner
    <3>1. Now(run) \in Pending
      BY <1>0, <2>1, HeadTail, NowIs DEF Recorded, IsText, Pending
    <3> QED
      BY <1>0, <3>1 DEF Placed, Due
  <2> QED
    BY <2>1, <1>1, <1>2, <1>3 DEF Inner
<1>25. op = Plans[run.cmd][run.next]
  BY <1>24, NowIs
<1>26. op \in {"empty", "drelTool", "slice", "ssr", "followsCSS", "followsJS", "css", "js"}
  <2>1. run.cmd \in {"new", "slice", "generate", "build", "ui", "assets"}
    BY <1>0, PlansAre DEF Placed
  <2>2. \/ op \in Reading \/ op \in Writing
        \/ op = "scaffold" \/ op = "slice" \/ op \in {"codegen", "clients"} \/ op = "describe" \/ op = "css"
    BY <1>0, <1>24, <1>25, WhereIs
  <2> HIDE DEF op, out
  <2>3. out.fault \notin {"none", "tool", "code", "manager", "format"}
    BY DEF out
  <2>4. /\ op \notin {"codegen", "clients", "describe", "drel", "templ", "migration", "assets", "compile", "register"}
        /\ op \notin {"toaster", "toasterTest", "vendor", "layout", "init", "save", "package", "scaffold", "tidy"}
        /\ op # "project" /\ op # "install" /\ op # "nodeTool"
    BY <2>3, <1>2, <1>4, <1>5, <1>6, <1>7, <1>8, <1>9, <1>10, <1>11, <1>12, <1>13, <1>14, <1>15, <1>16, <1>17, <1>18,
       <1>19, <1>20
  <2> QED
    BY <2>2, <2>4 DEF Reading, Writing
<1> HIDE DEF op, out
<1>27. run.cmd \in {"new", "slice", "generate", "build", "ui", "assets"} /\ run.arg \in Args[run.cmd]
  BY <1>0, PlansAre DEF Placed
<1>28. CASE run.cmd = "new"
  BY <1>0, <1>24, <1>25, <1>26, <1>28, RunsWithin, WhereNew DEF At
<1>29. CASE run.cmd = "slice"
  BY <1>0, <1>24, <1>25, <1>26, <1>29, RunsWithin, WhereSlice DEF At
<1>30. CASE run.cmd \in {"generate", "build"}
  BY <1>0, <1>24, <1>25, <1>26, <1>30, RunsWithin, WhereGenerate DEF At
<1>31. CASE run.cmd = "ui"
  <2>1. run.arg \in Styles
    BY <1>27, <1>31, ArgsAre
  <2>2. \/ At("ui", 1, "ssr") \/ At("ui", 2, "followsCSS") \/ At("ui", 3, "followsJS")
        \/ At("ui", 5, "css") \/ At("ui", 6, "js")
    BY <1>0, <1>24, <1>25, <1>26, <1>31, RunsWithin, WhereUI DEF At
  <2>3. out.fault # "none"
    BY DEF out
  <2>4. At("ui", 5, "css") => op = "css"
    BY <1>25 DEF At
  <2>5. At("ui", 6, "js") => op = "js"
    BY <1>25 DEF At
  <2> QED
    BY <1>22, <1>23, <1>24, <2>1, <2>2, <2>3, <2>4, <2>5
<1>32. CASE run.cmd = "assets"
  BY <1>0, <1>24, <1>25, <1>26, <1>32, RunsWithin, WhereAssets DEF At
<1> QED
  BY <1>27, <1>28, <1>29, <1>30, <1>31, <1>32

\* A step of a command.
LEMMA ProvingStep ==
  ASSUME Formed, Proving, Step
  PROVE  Proving'
<1> DEFINE out == Outcome(tree, run)
<1>1. SUFFICES ASSUME Running' PROVE Proving'
  BY DEF Proving
<1>2. run'.code # "failed"
  BY <1>1 DEF Running
<1>3. /\ Running /\ out.fault = "none"
      /\ \/ Inside(out) /\ run.extra # <<>>
         \/ /\ Onward(out) /\ run.extra = <<>> /\ run'.next > run.next /\ Now(run).op = Plans[run.cmd][run.next]
            /\ ~out.last => run'.next = run.next + 1
  BY <1>2, Going
<1>4. FineTree /\ Recorded /\ Placed
  BY DEF Formed
<1>5. run'.cmd = run.cmd /\ run'.arg = run.arg /\ run.next \in Nat /\ run'.next \in Nat /\ run.next >= 1
  <2>1. run'.next \in Nat
    BY FormedStep DEF Formed, Recorded
  <2>2. run.next \in Nat /\ run.next >= 1
    BY <1>3, <1>4 DEF Placed, Running, Recorded
  <2> QED
    BY <1>3, <2>1, <2>2 DEF Inside, Onward, Carries, SameCommand
<1>6. CASE Inside(out) /\ run.extra # <<>>
  <2>1. run'.next = run.next /\ run.next > 1
    BY <1>4, <1>6 DEF Inside, Placed
  <2>2. run.cmd # "ui" /\ (run.cmd = "slice" => run.next > 2)
    BY <1>4, <1>6, PendingAt
  <2> QED
    BY <1>5, <2>1, <2>2 DEF Proving
<1>7. CASE Onward(out) /\ run.extra = <<>> /\ run'.next > run.next
  <2> HIDE DEF out
  <2>1. CASE run.cmd = "new"
    BY <1>5, <1>7, <2>1 DEF Proving
  <2>2. CASE run.cmd = "slice"
    <3>1. CASE run.next = 1
      <4>1. At("slice", 1, "drelTool")
        BY <1>4, <2>2, <3>1, WhereSlice DEF At
      <4>2. run'.dirty <=> run.dirty
        BY <1>7, <4>1, ReadsOnly DEF At, Reading, out
      <4>3. ~run.dirty
        BY <1>3, <2>2, <3>1 DEF Proving
      <4> QED
        BY <1>5, <2>2, <4>2, <4>3 DEF Proving
    <3>2. CASE run.next # 1
      BY <1>5, <1>7, <2>2, <3>2 DEF Proving
    <3> QED
      BY <3>1, <3>2
  <2>3. CASE run.cmd = "ui"
    <3> DEFINE css == Contains(Text(tree, App("app.css")), "tailwindcss")
               js == Contains(Text(tree, App("app.js")), "datastar")
    <3>0. run.next <= 9 /\ run.next \in {1, 2, 3, 4, 5, 6, 7, 8, 9}
      BY <1>3, <1>4, <1>5, <1>7, <2>3, RunsWithin
    <3>1. /\ run.next <= 4 => ~run.dirty
          /\ run.next \in 3 .. 5 => css
          /\ run.next \in 4 .. 6 => js
      BY <1>3, <2>3 DEF Proving
    <3>2. \/ At("ui", 1, "ssr") \/ At("ui", 2, "followsCSS") \/ At("ui", 3, "followsJS") \/ At("ui", 4, "package")
          \/ At("ui", 5, "css") \/ run.next > 5
      BY <1>4, <1>5, <2>3, <3>0, WhereUI DEF At
    <3>3. SUFFICES /\ run'.next <= 4 => ~run'.dirty
                   /\ run'.next \in 3 .. 5 => css'
                   /\ run'.next \in 4 .. 6 => js'
      BY <1>5, <2>3 DEF Proving
    <3>4. ASSUME Plans[run.cmd][run.next] \in Reading
          PROVE  css' = css /\ js' = js /\ (run'.dirty <=> run.dirty) /\ run'.next = run.next + 1
      BY <1>3, <1>7, <3>4, ReadsOnly DEF out
    <3>5. CASE At("ui", 1, "ssr")
      <4>1. run'.next = 2 /\ ~run'.dirty
        BY <3>1, <3>4, <3>5 DEF At, Reading
      <4> QED
        BY <4>1
    <3>6. CASE At("ui", 2, "followsCSS")
      <4>1. run'.next = 3 /\ ~run'.dirty /\ (css' <=> css)
        BY <3>1, <3>4, <3>6 DEF At, Reading
      <4>2. css
        <5>1. out = checkFollows(tree, App("app.css"))
          BY <1>3, <1>7, <3>6, OutcomeNow, NowIs DEF At, out
        <5> QED
          BY <1>3, <5>1, RefuseIs DEF checkFollows, Anchor
      <4> HIDE DEF css, js
      <4> QED
        BY <4>1, <4>2
    <3>7. CASE At("ui", 3, "followsJS")
      <4>1. run'.next = 4 /\ ~run'.dirty /\ (css' <=> css) /\ (js' <=> js)
        BY <3>1, <3>4, <3>7 DEF At, Reading
      <4>2. js
        <5>1. out = checkFollows(tree, App("app.js"))
          BY <1>3, <1>7, <3>7, OutcomeNow, NowIs DEF At, out
        <5> QED
          BY <1>3, <5>1, RefuseIs DEF checkFollows, Anchor, App
      <4>3. css
        BY <3>1, <3>7 DEF At
      <4> HIDE DEF css, js
      <4> QED
        BY <4>1, <4>2, <4>3
    <3>8. CASE At("ui", 4, "package")
      <4>1. out = Writes(File(App("basecoat"), <<"basecoat">>))
        BY <1>3, <1>7, <3>8, OutcomeNow, NowIs DEF At, out
      <4>2. tree' = Over(File(App("basecoat"), <<"basecoat">>), tree) /\ ~out.last
        BY <1>7, <4>1, WritesIs DEF Onward, Carries
      <4>3. Text(tree, App("app.css"))' = Text(tree, App("app.css")) /\
            Text(tree, App("app.js"))' = Text(tree, App("app.js"))
        BY <4>2, Elsewhere DEF App
      <4>4. run'.next = 5
        BY <1>3, <1>7, <3>8, <4>2 DEF At
      <4>5. css /\ js
        BY <3>1, <3>8 DEF At
      <4>6. css' /\ js'
        BY <4>3, <4>5
      <4> HIDE DEF css, js
      <4> QED
        BY <4>4, <4>6
    <3>9. CASE At("ui", 5, "css")
      <4>1. out = addLine(tree, App("app.css"), run.arg)
        BY <1>3, <1>7, <3>9, OutcomeNow, NowIs DEF At, out
      <4>2. out = Nothing \/ \E text : out = Writes(File(App("app.css"), text))
        BY <1>3, <4>1, FaultIs DEF addLine
      <4>3. Text(tree, App("app.js"))' = Text(tree, App("app.js"))
        <5>1. CASE out = Nothing
          <6>1. tree' = tree
            BY <1>4, <1>7, <5>1, NothingIs, OverNothing DEF Onward, Carries, FineTree
          <6> QED
            BY <6>1
        <5>2. ASSUME NEW text, out = Writes(File(App("app.css"), text))
              PROVE Text(tree, App("app.js"))' = Text(tree, App("app.js"))
          <6>1. tree' = Over(File(App("app.css"), text), tree)
            BY <1>7, <5>2, WritesIs DEF Onward, Carries
          <6> QED
            BY <6>1, Elsewhere DEF App
        <5> QED
          BY <4>2, <5>1, <5>2
      <4>4. js /\ run'.next > 5
        BY <1>7, <3>1, <3>9 DEF At
      <4>5. js'
        BY <4>3, <4>4
      <4> HIDE DEF css, js
      <4> QED
        BY <1>5, <4>4, <4>5
    <3>10. CASE run.next > 5
      <4>1. run'.next > 6
        BY <1>5, <1>7, <3>10
      <4> QED
        BY <1>5, <4>1
    <3> QED
      BY <3>2, <3>5, <3>6, <3>7, <3>8, <3>9, <3>10
  <2> QED
    BY <1>5, <2>1, <2>2, <2>3 DEF Proving
<1> QED
  BY <1>3, <1>6, <1>7

\* A step that refuses refuses before the command has changed anything.
LEMMA RefusedStep ==
  ASSUME Formed, Proving, RefusedLeavesNoMark, Step
  PROVE  RefusedLeavesNoMark'
<1> DEFINE out == Outcome(tree, run)
<1>0. Recorded /\ Placed /\ Running
  BY DEF Formed, Step, Running
<1>1. \/ out.fault # "none" /\ FailsWith(out.fault)
      \/ Inside(out) \/ Onward(out)
  BY <1>0, StepIs
<1>2. run.fault = "none"
  BY <1>0 DEF Placed, Running
<1>3. CASE out.fault # "none" /\ FailsWith(out.fault)
  <2>1. run'.fault = out.fault /\ run'.dirty = run.dirty
    BY <1>3 DEF FailsWith
  <2>2. ASSUME out.fault \in {"refused", "anchor"} PROVE ~run.dirty
    <3>1. \/ At("new", 1, "empty") \/ At("slice", 1, "drelTool") \/ At("slice", 2, "slice")
          \/ At("ui", 1, "ssr") \/ At("ui", 2, "followsCSS") \/ At("ui", 3, "followsJS")
          \/ At("ui", 5, "css") /\ ~Contains(Text(tree, App("app.css")), "tailwindcss")
          \/ At("ui", 6, "js") /\ ~Contains(Text(tree, App("app.js")), "datastar")
      BY <1>0, <2>2, Refusals
    <3> QED
      BY <1>0, <3>1 DEF At, Proving
  <2> HIDE DEF out
  <2> QED
    BY <2>1, <2>2 DEF RefusedLeavesNoMark
<1>4. CASE Inside(out) \/ Onward(out)
  BY <1>2, <1>4 DEF Inside, Onward, Carries, RefusedLeavesNoMark
<1> QED
  BY <1>1, <1>3, <1>4

\* The inductive invariant of the refusals.
RefusedInv == Formed /\ Proving /\ RefusedLeavesNoMark

\* No command has refused in the empty directory.
LEMMA RefusedInit ==
  ASSUME Init
  PROVE  RefusedInv
<1>1. run.code = "ok" /\ run.fault = "none"
  BY DEF Init, Idle
<1> QED
  BY <1>1, FormedInit DEF RefusedInv, Proving, Running, RefusedLeavesNoMark

\* Every step keeps the refusals without a mark.
LEMMA RefusedNext ==
  ASSUME RefusedInv, [Next]_vars
  PROVE  RefusedInv'
<1>0. Formed /\ Proving /\ RefusedLeavesNoMark
  BY DEF RefusedInv
<1>1. Formed'
  BY <1>0, FormedNext
<1>2. Proving' /\ RefusedLeavesNoMark'
  <2>1. CASE UNCHANGED vars
    BY <1>0, <2>1 DEF vars, Proving, RefusedLeavesNoMark, Running
  <2>2. ASSUME NEW cmd \in DOMAIN Plans, NEW arg \in Args[cmd], Start(cmd, arg)
        PROVE  Proving' /\ RefusedLeavesNoMark'
    <3>1. ~run'.dirty /\ run'.next = 1 /\ run'.fault = "none"
      BY <2>2, StartIs
    <3> QED
      BY <3>1 DEF Proving, RefusedLeavesNoMark
  <2>3. CASE Step
    BY <1>0, <2>3, ProvingStep, RefusedStep
  <2>4. CASE Break
    <3>1. run'.code = "failed" /\ run'.fault = "broken"
      BY <1>0, <2>4, BreakIs DEF Formed, FailsWith
    <3> QED
      BY <3>1 DEF Proving, RefusedLeavesNoMark, Running
  <2>5. CASE Edit
    <3>1. run'.code = "ok" /\ run'.fault = "none"
      BY <2>5, EditIs
    <3> QED
      BY <3>1 DEF Proving, RefusedLeavesNoMark, Running
  <2> QED
    BY <2>1, <2>2, <2>3, <2>4, <2>5 DEF Next
<1> QED
  BY <1>1, <1>2 DEF RefusedInv

\* A command that ends at one of the faults that it looks for before its first write leaves the directory as it was,
\* and no later step of it meets one of these faults, for any slices, names, shapes and styles and any number of
\* commands, edits and deaths: RefusedLeavesNoMark.  The faults found after a write ("manager", "format", "tool",
\* "code") are not among them.
THEOREM RefusalsLeaveNoMark == Spec => []RefusedLeavesNoMark
<1>1. Init => RefusedInv
  BY RefusedInit
<1>2. RefusedInv /\ [Next]_vars => RefusedInv'
  BY RefusedNext
<1>3. RefusedInv => RefusedLeavesNoMark
  BY DEF RefusedInv
<1> QED
  BY <1>1, <1>2, <1>3, PTL DEF Spec

-----------------------------------------------------------------------------
(* `avero ui add` converges. *)

\* The lines of `ui add` stand, and its files.
Styled ==
    Alive("ui") =>
       /\ run.next > 4 => Text(tree, App("basecoat")) # <<>>
       /\ run.next > 5 => Contains(Text(tree, App("app.css")), run.arg)
       /\ run.next > 6 => Contains(Text(tree, App("app.js")), "all.min.js")
       /\ run.next > 7 => Has(tree, App("toaster.templ"))
       /\ run.next > 8 => Has(tree, App("toaster_test.go"))
       /\ run.next > 9 => /\ Text(tree, App("layout.templ")) # <<"scaffold">>
                          /\ Text(tree, App("layout.templ")) = <<"own">> => run.told

\* A step of the plan changes nothing but the file that it writes.
LEMMA OnwardWrites ==
  ASSUME Formed, Onward(Outcome(tree, run)), NEW f, NEW text, Outcome(tree, run) = Writes(File(f, text))
  PROVE  tree' = Over(File(f, text), tree) /\ ~Outcome(tree, run).last /\ run'.extra = <<>>
BY WritesIs DEF Onward, Carries

\* A step that writes nothing leaves the tree.
LEMMA OnwardNothing ==
  ASSUME Formed, Onward(Outcome(tree, run)), Outcome(tree, run).writes = <<>>
  PROVE  tree' = tree
<1>1. tree' = Over(<<>>, tree)
  BY DEF Onward, Carries
<1> QED
  BY <1>1, OverNothing DEF Formed, FineTree

\* A line that is added stands.
LEMMA LineStands ==
  ASSUME Formed, Onward(Outcome(tree, run)), NEW f \in {App("app.css"), App("app.js")},
         NEW line, f = App("app.css") => line \in Styles, f = App("app.js") => line = "all.min.js",
         Outcome(tree, run) = addLine(tree, f, line), Outcome(tree, run).fault = "none"
  PROVE  /\ Contains(Text(tree, f), line)' /\ ~Outcome(tree, run).last
         /\ \A g : g # f => Text(tree, g)' = Text(tree, g) /\ Has(tree, g)' = Has(tree, g)
<1> DEFINE text == InsertAt(tree[f], Place(tree[f], Anchor(f)) + 1, line)
           out == Outcome(tree, run)
<1>1. \/ out = Nothing /\ Contains(Text(tree, f), line)
      \/ out = Writes(File(f, text)) /\ Fine(f, text) /\ ToSet(text) = ToSet(tree[f]) \cup {line}
  <2>1. FineTree
    BY DEF Formed
  <2> QED
    BY <2>1, LineIs, FaultIs
<1> HIDE DEF text
<1>2. CASE out = Nothing /\ Contains(Text(tree, f), line)
  <2>1. tree' = tree /\ ~out.last
    BY <1>2, NothingIs, OnwardNothing
  <2> QED
    BY <1>2, <2>1
<1>3. CASE out = Writes(File(f, text)) /\ Fine(f, text) /\ ToSet(text) = ToSet(tree[f]) \cup {line}
  <2>1. tree' = Over(File(f, text), tree) /\ ~out.last
    BY <1>3, OnwardWrites
  <2>2. IsText(text) /\ line \in ToSet(text)
    BY <1>3 DEF Fine, Persons, Generated, App
  <2>3. Contains(text, line)
    BY <2>2, TextContains
  <2>4. Text(tree, f)' = text
    BY <2>1, Here
  <2>5. \A g : g # f => Text(tree, g)' = Text(tree, g) /\ Has(tree, g)' = Has(tree, g)
    BY <2>1, Elsewhere
  <2> QED
    BY <2>1, <2>3, <2>4, <2>5
<1> QED
  BY <1>1, <1>2, <1>3

\* The same for a file that the command writes if it is not there.
LEMMA AbsentWritten ==
  ASSUME Formed, Onward(Outcome(tree, run)), NEW f, Outcome(tree, run) = writeAbsent(tree, f)
  PROVE  /\ Has(tree, f)' /\ ~Outcome(tree, run).last
         /\ \A g : g # f => Text(tree, g)' = Text(tree, g) /\ Has(tree, g)' = Has(tree, g)
<1> DEFINE out == Outcome(tree, run)
<1>1. (out = Nothing /\ Has(tree, f)) \/ out = Writes(File(f, <<"toaster">>))
  BY DEF writeAbsent
<1>2. CASE out = Nothing /\ Has(tree, f)
  <2>1. tree' = tree /\ ~out.last
    BY <1>2, NothingIs, OnwardNothing
  <2> QED
    BY <1>2, <2>1
<1>3. CASE out = Writes(File(f, <<"toaster">>))
  <2>1. tree' = Over(File(f, <<"toaster">>), tree) /\ ~out.last
    BY <1>3, OnwardWrites
  <2> QED
    BY <2>1, Here, Elsewhere
<1> QED
  BY <1>1, <1>2, <1>3

\* A step of `avero ui add` keeps what the steps before it did.
LEMMA StyledStep ==
  ASSUME Formed, Styled, Step
  PROVE  Styled'
<1> DEFINE out == Outcome(tree, run)
           css == App("app.css")
           js == App("app.js")
           coat == App("basecoat")
           toaster == App("toaster.templ")
           test == App("toaster_test.go")
           layout == App("layout.templ")
<1>1. SUFFICES ASSUME run'.cmd = "ui", run'.code # "failed" PROVE Styled'
  BY DEF Styled, Alive
<1>2. /\ Running /\ out.fault = "none"
      /\ \/ Inside(out) /\ run.extra # <<>>
         \/ /\ Onward(out) /\ run.extra = <<>> /\ Now(run).op = Plans[run.cmd][run.next]
            /\ ~out.last => run'.next = run.next + 1
  BY <1>1, Going
<1>3. FineTree /\ Placed
  BY DEF Formed
<1>4. run.cmd = "ui" /\ run'.arg = run.arg
  BY <1>1, <1>2 DEF Inside, Onward, Carries, SameCommand
<1>5. Onward(out) /\ run.extra = <<>> /\ Now(run).op = Plans[run.cmd][run.next] /\ (~out.last => run'.next = run.next + 1)
  BY <1>2, <1>3, <1>4, PendingAt
<1>6. run.next <= 9
  BY <1>2, <1>3, <1>4, <1>5, RunsWithin
<1>7. \/ At("ui", 1, "ssr") \/ At("ui", 2, "followsCSS") \/ At("ui", 3, "followsJS") \/ At("ui", 4, "package")
      \/ At("ui", 5, "css") \/ At("ui", 6, "js") \/ At("ui", 7, "toaster") \/ At("ui", 8, "toasterTest")
      \/ At("ui", 9, "layout")
  BY <1>3, <1>4, <1>6, WhereUI
<1>8. Alive("ui") /\ run.arg \in Styles
  BY <1>2, <1>3, <1>4, ArgsAre DEF Alive, Running, Placed
<1>9. /\ run.next > 4 => Text(tree, coat) # <<>>
      /\ run.next > 5 => Contains(Text(tree, css), run.arg)
      /\ run.next > 6 => Contains(Text(tree, js), "all.min.js")
      /\ run.next > 7 => Has(tree, toaster)
      /\ run.next > 8 => Has(tree, test)
  BY <1>8 DEF Styled
<1>10. SUFFICES /\ run'.next > 4 => (Text(tree, coat) # <<>>)'
                /\ run'.next > 5 => Contains(Text(tree, css), run.arg)'
                /\ run'.next > 6 => Contains(Text(tree, js), "all.min.js")'
                /\ run'.next > 7 => Has(tree, toaster)'
                /\ run'.next > 8 => Has(tree, test)'
                /\ run'.next > 9 => /\ Text(tree, layout)' # <<"scaffold">>
                                    /\ Text(tree, layout)' = <<"own">> => run'.told
  BY <1>4 DEF Styled
<1>11. /\ css # js /\ css # coat /\ css # toaster /\ css # test /\ js # coat /\ js # toaster /\ js # test
       /\ coat # toaster /\ coat # test /\ toaster # test
       /\ layout # css /\ layout # js /\ layout # coat /\ layout # toaster /\ layout # test
  BY DEF App
<1>12. css \in {App("app.css"), App("app.js")} /\ js \in {App("app.css"), App("app.js")}
  OBVIOUS
<1>13. CASE Plans[run.cmd][run.next] \in Reading
  <2>1. tree' = tree /\ run'.next = run.next + 1
    BY <1>5, <1>13, ReadsOnly
  <2>2. run.next \in {1, 2, 3}
    BY <1>7, <1>13 DEF At, Reading
  <2> QED
    BY <2>1, <2>2
<1> HIDE DEF out
<1>14. CASE At("ui", 4, "package")
  <2>1. out = Writes(File(coat, <<"basecoat">>))
    BY <1>5, <1>14, OutcomeNow DEF At, out
  <2>2. tree' = Over(File(coat, <<"basecoat">>), tree) /\ ~out.last
    BY <1>5, <2>1, OnwardWrites DEF out
  <2>3. (Text(tree, coat) # <<>>)' /\ run'.next = 5
    BY <1>5, <1>14, <2>2, Here DEF At
  <2> QED
    BY <2>3
<1>15. CASE At("ui", 5, "css")
  <2>1. out = addLine(tree, css, run.arg)
    BY <1>5, <1>15, OutcomeNow DEF At, out
  <2>2. /\ Contains(Text(tree, css), run.arg)' /\ ~out.last
        /\ \A g : g # css => Text(tree, g)' = Text(tree, g) /\ Has(tree, g)' = Has(tree, g)
    BY <1>2, <1>4, <1>5, <1>8, <1>11, <1>12, <2>1, LineStands DEF out
  <2>3. run'.next = 6
    BY <1>5, <1>15, <2>2 DEF At
  <2>4. Text(tree, coat) # <<>>
    BY <1>9, <1>15 DEF At
  <2>5. (Text(tree, coat) # <<>>)'
    BY <1>11, <2>2, <2>4
  <2> QED
    BY <2>2, <2>3, <2>5
<1>16. CASE At("ui", 6, "js")
  <2>1. out = addLine(tree, js, "all.min.js")
    BY <1>5, <1>16, OutcomeNow DEF At, out
  <2>2. /\ Contains(Text(tree, js), "all.min.js")' /\ ~out.last
        /\ \A g : g # js => Text(tree, g)' = Text(tree, g) /\ Has(tree, g)' = Has(tree, g)
    BY <1>2, <1>5, <1>11, <1>12, <2>1, LineStands DEF out
  <2>3. run'.next = 7
    BY <1>5, <1>16, <2>2 DEF At
  <2>4. Text(tree, coat) # <<>> /\ Contains(Text(tree, css), run.arg)
    BY <1>9, <1>16 DEF At
  <2>5. (Text(tree, coat) # <<>>)' /\ Contains(Text(tree, css), run.arg)'
    BY <1>4, <1>11, <2>2, <2>4
  <2> QED
    BY <2>2, <2>3, <2>5
<1>17. CASE At("ui", 7, "toaster")
  <2>1. out = writeAbsent(tree, toaster)
    BY <1>5, <1>17, OutcomeNow DEF At, out
  <2>2. /\ Has(tree, toaster)' /\ ~out.last
        /\ \A g : g # toaster => Text(tree, g)' = Text(tree, g) /\ Has(tree, g)' = Has(tree, g)
    BY <1>5, <2>1, AbsentWritten DEF out
  <2>3. run'.next = 8
    BY <1>5, <1>17, <2>2 DEF At
  <2>4. Text(tree, coat) # <<>> /\ Contains(Text(tree, css), run.arg) /\ Contains(Text(tree, js), "all.min.js")
    BY <1>9, <1>17 DEF At
  <2>5. (Text(tree, coat) # <<>>)' /\ Contains(Text(tree, css), run.arg)' /\ Contains(Text(tree, js), "all.min.js")'
    BY <1>4, <1>11, <2>2, <2>4
  <2> QED
    BY <2>2, <2>3, <2>5
<1>18. CASE At("ui", 8, "toasterTest")
  <2>1. out = writeAbsent(tree, test)
    BY <1>5, <1>18, OutcomeNow DEF At, out
  <2>2. /\ Has(tree, test)' /\ ~out.last
        /\ \A g : g # test => Text(tree, g)' = Text(tree, g) /\ Has(tree, g)' = Has(tree, g)
    BY <1>5, <2>1, AbsentWritten DEF out
  <2>3. run'.next = 9
    BY <1>5, <1>18, <2>2 DEF At
  <2>4. /\ Text(tree, coat) # <<>> /\ Contains(Text(tree, css), run.arg) /\ Contains(Text(tree, js), "all.min.js")
        /\ Has(tree, toaster)
    BY <1>9, <1>18 DEF At
  <2>5. /\ (Text(tree, coat) # <<>>)' /\ Contains(Text(tree, css), run.arg)' /\ Contains(Text(tree, js), "all.min.js")'
        /\ Has(tree, toaster)'
    BY <1>4, <1>11, <2>2, <2>4
  <2> QED
    BY <2>2, <2>3, <2>5
<1>19. CASE At("ui", 9, "layout")
  <2>1. out = patchLayout(tree)
    BY <1>5, <1>19, OutcomeNow DEF At, out
  <2>2. /\ Text(tree, coat) # <<>> /\ Contains(Text(tree, css), run.arg) /\ Contains(Text(tree, js), "all.min.js")
        /\ Has(tree, toaster) /\ Has(tree, test)
    BY <1>9, <1>19 DEF At
  <2>3. CASE out = Writes(File(layout, <<"patched">>))
    <3>1. tree' = Over(File(layout, <<"patched">>), tree)
      BY <1>5, <2>3, OnwardWrites DEF out
    <3>2. Text(tree, layout)' = <<"patched">>
      BY <3>1, Here
    <3>3. \A g : g # layout => Text(tree, g)' = Text(tree, g) /\ Has(tree, g)' = Has(tree, g)
      BY <3>1, Elsewhere
    <3>4. /\ (Text(tree, coat) # <<>>)' /\ Contains(Text(tree, css), run.arg)' /\ Contains(Text(tree, js), "all.min.js")'
          /\ Has(tree, toaster)' /\ Has(tree, test)'
      BY <1>4, <1>11, <2>2, <3>3
    <3>5. <<"patched">> # <<"scaffold">> /\ <<"patched">> # <<"own">>
      OBVIOUS
    <3> QED
      BY <3>2, <3>4, <3>5
  <2>4. CASE out.writes = <<>> /\ Text(tree, layout) # <<"scaffold">> /\
             (out.told <=> Has(tree, layout) /\ tree[layout] # <<"patched">>)
    <3>1. tree' = tree
      BY <1>5, <2>4, OnwardNothing DEF out
    <3>2. run'.told = (run.told \/ out.told)
      BY <1>5 DEF Onward, Carries
    <3>3. ASSUME Text(tree, layout) = <<"own">> PROVE run'.told
      <4>1. Has(tree, layout) /\ tree[layout] # <<"patched">>
        BY <3>3 DEF Text
      <4> QED
        BY <2>4, <3>2, <4>1
    <3> QED
      BY <1>4, <2>2, <2>4, <3>1, <3>3
  <2> QED
    BY <2>1, <2>3, <2>4, LayoutIs
<1> QED
  BY <1>7, <1>13, <1>14, <1>15, <1>16, <1>17, <1>18, <1>19 DEF At, Reading

\* So the lines stand one time, after their anchors.
LEMMA StandsOnce ==
  ASSUME NEW text, IsText(text), NEW line, NEW first,
         Contains(text, line), AtMostOnce(text, line), After(text, line, first)
  PROVE  Times(text, line) = 1 /\ Place(text, line) > Place(text, first)
<1> DEFINE A == ToSet(text)
<1>1. text \in Seq(A)
  BY DEF IsText
<1> HIDE DEF A
<1>2. DOMAIN text = 1 .. Len(text) /\ Len(text) \in Nat
  BY <1>1
<1>3. Place(text, line) \in DOMAIN text /\ text[Place(text, line)] = line
  BY <1>1, PlaceIs
<1> DEFINE i == Place(text, line)
<1>4. Only(text, {text[i]}) = <<text[i]>>
  BY <1>1, <1>3, OnlyOne DEF AtMostOnce
<1>5. PICK j \in DOMAIN text : j < i /\ text[j] = first
  BY <1>3 DEF After
<1>6. Contains(text, first)
  BY <1>2, <1>5 DEF Contains
<1>7. Place(text, first) \in DOMAIN text /\ Place(text, first) <= j
  BY <1>1, <1>5, <1>6, PlaceIs
<1>8. Place(text, line) > Place(text, first)
  BY <1>2, <1>3, <1>5, <1>7
<1>9. Len(<<text[i]>>) = 1
  OBVIOUS
<1> QED
  BY <1>3, <1>4, <1>8, <1>9 DEF Times

\* The gate names each of its steps that fails, and no other.
LEMMA GateIs ==
  ASSUME NEW t
  PROVE  /\ IsText(Gate(t)) /\ \A step : Contains(Gate(t), step) <=> step \in ToSet(Gate(t))
         /\ \A step : step \in ToSet(Gate(t)) <=> step \in {"vet", "generate", "build"} /\ ~Holds(t, step)
<1> DEFINE steps == {"vet", "generate", "build"}
           failing == {step \in ToSet(GateSteps) : ~Holds(t, step)}
<1>1. GateSteps \in Seq(steps) /\ ToSet(GateSteps) = steps
  BY DEF GateSteps, ToSet
<1>2. Gate(t) = Only(GateSteps, failing)
  BY DEF Gate
<1> HIDE DEF steps, failing
<1>3. Gate(t) \in Seq(steps) /\ ToSet(Gate(t)) = steps \cap failing
  BY <1>1, <1>2, OnlyIn
<1>4. IsText(Gate(t))
  BY <1>3, SeqIsText
<1> QED
  BY <1>1, <1>3, <1>4, TextContains DEF steps, failing

\* At the end of its plan `avero ui add` did all of it.
LEMMA StyledConverges ==
  ASSUME Formed, Styled
  PROVE  UIConverges
<1> SUFFICES
      ASSUME Succeeded("ui")
      PROVE  /\ \A fl \in {<<App("app.css"), run.arg>>, <<App("app.js"), "all.min.js">>} :
                   LET text == tree[fl[1]]
                   IN  Times(text, fl[2]) = 1 /\ Place(text, fl[2]) > Place(text, Anchor(fl[1]))
             /\ \A f \in {"basecoat", "toaster.templ", "toaster_test.go"} : Has(tree, App(f))
             /\ tree[App("basecoat")] # <<>>
             /\ tree[App("toaster.templ")] = <<>> => Templ(tree).fault = "tool"
             /\ tree[App("toaster_test.go")] = <<>> => Contains(Gate(tree), "vet")
             /\ Text(tree, App("layout.templ")) # <<"scaffold">>
             /\ Text(tree, App("layout.templ")) = <<"own">> => run.told
  BY DEF UIConverges
<1>1. run.cmd = "ui" /\ run.code = "ok"
  BY DEF Succeeded
<1>2. FineTree /\ Placed
  BY DEF Formed
<1>3. run.next = Len(Plans["ui"]) + 1 /\ run.arg \in Styles
  BY <1>1, <1>2, ArgsAre DEF Placed
<1>4. run.next = 10
  BY <1>3, PlansAre, PlanLengths
<1>5. Alive("ui")
  BY <1>1 DEF Alive
<1>6. /\ Text(tree, App("basecoat")) # <<>> /\ Contains(Text(tree, App("app.css")), run.arg)
      /\ Contains(Text(tree, App("app.js")), "all.min.js")
      /\ Has(tree, App("toaster.templ")) /\ Has(tree, App("toaster_test.go"))
      /\ Text(tree, App("layout.templ")) # <<"scaffold">>
      /\ Text(tree, App("layout.templ")) = <<"own">> => run.told
  BY <1>4, <1>5 DEF Styled
<1>7. ASSUME NEW f \in {App("app.css"), App("app.js")}, NEW line, Contains(Text(tree, f), line),
             Fine(f, Text(tree, f)) => AtMostOnce(Text(tree, f), line) /\ After(Text(tree, f), line, Anchor(f))
      PROVE  Times(tree[f], line) = 1 /\ Place(tree[f], line) > Place(tree[f], Anchor(f))
  <2>1. Persons(f)
    BY DEF Persons, Generated, App
  <2>2. IsText(Text(tree, f)) /\ Fine(f, Text(tree, f))
    BY <1>2, <2>1, TextIs
  <2>3. line \in ToSet(Text(tree, f))
    BY <1>7, <2>2, TextContains
  <2>4. Text(tree, f) = tree[f]
    BY <2>3, EmptySet DEF Text
  <2> QED
    BY <1>7, <2>2, <2>4, StandsOnce
<1>8. Times(tree[App("app.css")], run.arg) = 1
      /\ Place(tree[App("app.css")], run.arg) > Place(tree[App("app.css")], Anchor(App("app.css")))
  <2>1. Fine(App("app.css"), Text(tree, App("app.css"))) =>
           AtMostOnce(Text(tree, App("app.css")), run.arg) /\
           After(Text(tree, App("app.css")), run.arg, Anchor(App("app.css")))
    BY <1>3 DEF Fine, Anchor
  <2> QED
    BY <1>6, <1>7, <2>1
<1>9. Times(tree[App("app.js")], "all.min.js") = 1
      /\ Place(tree[App("app.js")], "all.min.js") > Place(tree[App("app.js")], Anchor(App("app.js")))
  <2>1. Fine(App("app.js"), Text(tree, App("app.js"))) =>
           /\ AtMostOnce(Text(tree, App("app.js")), "all.min.js")
           /\ After(Text(tree, App("app.js")), "all.min.js", Anchor(App("app.js")))
    BY DEF Fine, Anchor, App
  <2> QED
    BY <1>6, <1>7, <2>1
<1>10. Has(tree, App("basecoat")) /\ tree[App("basecoat")] # <<>>
  BY <1>6 DEF Text
<1>11. ASSUME tree[App("toaster.templ")] = <<>> PROVE Templ(tree).fault = "tool"
  <2>1. App("toaster.templ") \in {f \in {f \in Templates : Has(tree, f)} : tree[f] = <<>>}
    BY <1>6, <1>11 DEF Templates
  <2>2. \E f : Templ(tree) = Fault("tool", f)
    BY <2>1 DEF Templ
  <2> QED
    BY <2>2, FaultIs
<1>12. ASSUME tree[App("toaster_test.go")] = <<>> PROVE Contains(Gate(tree), "vet")
  <2>1. App("toaster_test.go") \in Tests(tree)
    BY <1>6 DEF Tests, Has, App
  <2>2. ~Vets(tree)
    BY <1>12, <2>1 DEF Vets, Stands, Parses
  <2>3. ~Holds(tree, "vet")
    BY <2>2 DEF Holds
  <2> QED
    BY <2>3, GateIs
<1> QED
  BY <1>6, <1>8, <1>9, <1>10, <1>11, <1>12

\* The inductive invariant of `avero ui add`.
UIInv == Formed /\ Styled

\* Every step keeps what `avero ui add` did so far.
LEMMA StyledNext ==
  ASSUME UIInv, [Next]_vars
  PROVE  UIInv'
<1>0. Formed /\ Styled
  BY DEF UIInv
<1>1. Formed'
  BY <1>0, FormedNext
<1>2. Styled'
  <2>1. CASE UNCHANGED vars
    BY <1>0, <2>1 DEF vars, Styled, Alive
  <2>2. ASSUME NEW cmd \in DOMAIN Plans, NEW arg \in Args[cmd], Start(cmd, arg) PROVE Styled'
    <3>1. run'.next = 1
      BY <2>2, StartIs
    <3> QED
      BY <3>1 DEF Styled
  <2>3. CASE Step
    BY <1>0, <2>3, StyledStep
  <2>4. CASE Break
    <3>1. run'.code = "failed"
      BY <1>0, <2>4, BreakIs DEF Formed, FailsWith
    <3> QED
      BY <3>1 DEF Styled, Alive
  <2>5. CASE Edit
    <3>1. run'.cmd = "none"
      BY <2>5, EditIs
    <3> QED
      BY <3>1 DEF Styled, Alive
  <2> QED
    BY <2>1, <2>2, <2>3, <2>4, <2>5 DEF Next
<1> QED
  BY <1>1, <1>2 DEF UIInv

\* `avero ui add` run again after a failure or a death ends with its lines once and in place, the package written, the
\* layout patched or told of, and the component and its test there, for any styles and any number of commands, edits
\* and deaths: UIConverges.  A component or a test that a death emptied is not written again; then templ fails, or the
\* gate at its vet step.
THEOREM StylesConverge == Spec => []UIConverges
<1>1. Init => UIInv
  <2>1. ASSUME Init PROVE run.cmd = "none"
    BY <2>1 DEF Init, Idle
  <2> QED
    BY <2>1, FormedInit DEF UIInv, Styled, Alive
<1>2. UIInv /\ [Next]_vars => UIInv'
  BY StyledNext
<1>3. UIInv => UIConverges
  BY StyledConverges DEF UIInv
<1> QED
  BY <1>1, <1>2, <1>3, PTL DEF Spec

\* The steps that there are.
LEMMA OpsInUse ==
  ASSUME Formed, Running
  PROVE  LET op == Now(run).op IN
         \/ op \in Reading \/ op \in Writing
         \/ op \in {"scaffold", "slice", "codegen", "clients", "describe", "write", "frontEnd"}
         \/ op = "css" /\ run.arg \in Styles
<1>0. Recorded /\ Placed
  BY DEF Formed
<1>1. CASE run.extra = <<>>
  BY <1>0, <1>1, NowIs, WhereIs
<1>2. CASE run.extra # <<>>
  <2>1. Now(run) \in Pending
    BY <1>0, <1>2, HeadTail, NowIs DEF Recorded, IsText, Pending
  <2>2. Now(run).op \in Inner
    BY <1>0, <2>1 DEF Placed, Due
  <2> QED
    BY <2>2 DEF Inner, Writing, Reading
<1> QED
  BY <1>1, <1>2

\* The files of a person that a step may write, and the tool that writes each.
LEMMA Touched ==
  ASSUME Formed, Running, NEW f \in DOMAIN Outcome(tree, run).writes, Persons(f)
  PROVE  LET op == Now(run).op IN
         \/ op = "write" /\ f = Now(run).file
         \/ op = "migration" /\ f = <<Target(run), "migration">>
         \/ op = "register" /\ f = App("wire.go")
         \/ op = "css" /\ f = App("app.css") /\ run.arg \in Styles
         \/ op = "js" /\ f = App("app.js")
         \/ op = "vendor" /\ f = App("datastar")
         \/ op = "toaster" /\ f = App("toaster.templ")
         \/ op = "toasterTest" /\ f = App("toaster_test.go")
         \/ op = "layout" /\ f = App("layout.templ")
         \/ op = "init" /\ f = App("package.json")
         \/ op = "save" /\ f = App("avero.json")
<1> DEFINE op == Now(run).op
           out == Outcome(tree, run)
<1>0. FineTree
  BY DEF Formed
<1>1. \/ op \in Reading \/ op \in Writing
      \/ op \in {"scaffold", "slice", "codegen", "clients", "describe", "write", "frontEnd"}
      \/ op = "css" /\ run.arg \in Styles
  BY OpsInUse
<1>2. DOMAIN out.writes # {} /\ out.writes # <<>>
  OBVIOUS
<1>3. op \notin Reading
  BY <1>2, ReadingIs
<1>4. op # "scaffold"
  BY <1>2, OutcomeNow, ThenIs
<1>5. op # "slice"
  BY <1>2, OutcomeNow, ThenIs, RefuseIs DEF WriteSlice
<1>6. op \notin {"codegen", "clients"}
  <2>1. \A own : Build(tree, own).writes = <<>>
    BY BuildIs
  <2> QED
    BY <1>2, <2>1, OutcomeNow
<1>7. op # "describe"
  <2>1. Describe(tree) = Nothing \/ Describe(tree) = Fault("tool", App("wire.go")) \/
        \E more : Describe(tree) = Then(more)
    BY DescribeIs
  <2>2. Describe(tree).writes = <<>>
    BY <2>1, NothingIs, FaultIs, ThenIs
  <2> QED
    BY <1>2, <2>2, OutcomeNow
<1>8. ASSUME NEW g, NEW text, out = Writes(File(g, text)) PROVE f = g
  <2>1. DOMAIN out.writes = {g}
    <3>1. out.writes = File(g, text)
      BY <1>8, WritesIs
    <3>2. DOMAIN File(g, text) = {g}
      BY DEF File
    <3> QED
      BY <3>1, <3>2
  <2> QED
    BY <2>1
<1>9. out # Nothing /\ (\A kind, g : out # Fault(kind, g))
  BY <1>2, NothingIs, FaultIs
<1>10. op # "frontEnd"
  <2>1. op = "frontEnd" => out = Writes(File(Web("sdk"), tree[App("openapi.json")]))
    BY <1>9, OutcomeNow DEF ClientOf
  <2> QED
    BY <1>8, <2>1 DEF Persons, Generated, Web
<1>11. op # "install"
  <2>1. op = "install" => out = Writes(File(Web("node_modules"), <<"read">>))
    BY <1>9, OutcomeNow, NodeToolIs DEF Install
  <2> QED
    BY <1>8, <2>1 DEF Persons, Generated, Web
<1>12. op # "assets"
  <2>1. op = "assets" => \E text : out = Writes(File(App("dist"), text))
    BY <1>9, OutcomeNow, NodeToolIs DEF BuildAssets
  <2> QED
    BY <1>8, <2>1 DEF Persons, Generated, App
<1>13. op # "compile"
  <2>1. op = "compile" => out = Writes(File(App("bin"), Describes(tree)))
    BY <1>9, OutcomeNow DEF Compile
  <2> QED
    BY <1>8, <2>1 DEF Persons, Generated, App
<1>14. op # "package"
  <2>1. op = "package" => out = Writes(File(App("basecoat"), <<"basecoat">>))
    BY OutcomeNow
  <2> QED
    BY <1>8, <2>1 DEF Persons, Generated, App
<1>15. op # "drel"
  <2> DEFINE entries == ToSet(Modules(tree))
             a == [g \in {<<s, "columns">> : s \in entries} |-> tree[<<g[1], "model">>]]
             b == [g \in {<<s, "set">> : s \in {s \in entries : Embeds(tree, s)}} |-> tree[<<g[1], "migration">>]]
             w == Over(a, Over(b, File(App("db"), Modules(tree))))
  <2>1. op = "drel" => out = Nothing \/ (\E g : out = Fault("tool", g)) \/ out = Writes(w)
    <3>1. Drel(tree) = Nothing \/ (\E g : Drel(tree) = Fault("tool", g)) \/ Drel(tree) = Writes(w)
      BY DEF Drel
    <3> HIDE DEF w
    <3> QED
      BY <3>1, OutcomeNow
  <2>2. \A g \in DOMAIN w : ~Persons(g)
    <3> HIDE DEF a, b
    <3>1. DOMAIN w = DOMAIN a \cup (DOMAIN b \cup {App("db")})
      BY DEF Over, File
    <3> QED
      BY <3>1 DEF App, a, b, Persons, Generated
  <2> HIDE DEF w
  <2>3. op = "drel" => out = Writes(w)
    BY <1>9, <2>1
  <2> QED
    BY <2>2, <2>3, WritesIs
<1>16. op # "templ"
  <2> DEFINE present == {g \in Templates : Has(tree, g)}
             w == [g \in {GoOf(h) : h \in present} |-> tree[CHOOSE h \in present : GoOf(h) = g]]
  <2>1. (\E g : Templ(tree) = Fault("tool", g)) \/ Templ(tree) = Writes(w)
    BY DEF Templ
  <2>2. \A g \in DOMAIN w : ~Persons(g)
    BY DEF GoOf, App, Persons, Generated
  <2> HIDE DEF w
  <2>3. op = "templ" => out = Writes(w)
    BY <1>9, <2>1, OutcomeNow
  <2> QED
    BY <2>2, <2>3, WritesIs
<1>17. op = "write" => f = Now(run).file
  BY <1>8, OutcomeNow
<1>18. op = "migration" => f = <<Target(run), "migration">>
  <2>1. op = "migration" => out = Writes(File(<<Target(run), "migration">>, Text(tree, <<Target(run), "model">>)))
    BY <1>9, OutcomeNow DEF Migration
  <2> QED
    BY <1>8, <2>1
<1>19. op = "register" => f = App("wire.go")
  <2>1. RegisterSlice(tree, Target(run)) = [Nothing EXCEPT !.told = TRUE]
        \/ RegisterSlice(tree, Target(run)) = Fault("format", App("wire.go"))
        \/ \E text : RegisterSlice(tree, Target(run)) = Writes(File(App("wire.go"), text))
    BY DEF RegisterSlice
  <2>2. [Nothing EXCEPT !.told = TRUE].writes = <<>>
    BY DEF Nothing, Does
  <2>3. op = "register" => \E text : out = Writes(File(App("wire.go"), text))
    BY <1>2, <1>9, <2>1, <2>2, OutcomeNow
  <2> QED
    BY <1>8, <2>3
<1>20. op = "css" => f = App("app.css")
  <2>1. op = "css" => \E text : out = Writes(File(App("app.css"), text))
    BY <1>9, OutcomeNow DEF addLine
  <2> QED
    BY <1>8, <2>1
<1>21. op = "js" => f = App("app.js")
  <2>1. op = "js" => \E text : out = Writes(File(App("app.js"), text))
    BY <1>9, OutcomeNow DEF addLine
  <2> QED
    BY <1>8, <2>1
<1>22. op = "vendor" => f = App("datastar")
  <2>1. op = "vendor" => \E text : out = Writes(File(App("datastar"), text))
    BY <1>9, OutcomeNow DEF Vendor
  <2> QED
    BY <1>8, <2>1
<1>23. /\ op = "toaster" => f = App("toaster.templ")
       /\ op = "toasterTest" => f = App("toaster_test.go")
  <2>1. /\ op = "toaster" => \E text : out = Writes(File(App("toaster.templ"), text))
        /\ op = "toasterTest" => \E text : out = Writes(File(App("toaster_test.go"), text))
    BY <1>9, OutcomeNow DEF writeAbsent
  <2> QED
    BY <1>8, <2>1
<1>24. op = "layout" => f = App("layout.templ")
  <2>1. op = "layout" => \E text : out = Writes(File(App("layout.templ"), text))
    BY <1>2, OutcomeNow, LayoutIs
  <2> QED
    BY <1>8, <2>1
<1>25. op = "init" => f = App("package.json")
  <2>1. [Nothing EXCEPT !.last = TRUE].writes = <<>>
    BY DEF Nothing, Does
  <2>2. op = "init" => \E text : out = Writes(File(App("package.json"), text))
    BY <1>2, <2>1, OutcomeNow DEF PackageInit
  <2> QED
    BY <1>8, <2>2
<1>26. op = "save" => f = App("avero.json")
  <2>1. op = "save" => \E text : out = Writes(File(App("avero.json"), text))
    BY OutcomeNow DEF SaveTier
  <2> QED
    BY <1>8, <2>1
<1> HIDE DEF op, out
<1>27. \/ op \in {"write", "migration", "register", "js", "vendor", "toaster", "toasterTest", "layout", "init", "save"}
       \/ op = "css" /\ run.arg \in Styles
  BY <1>1, <1>3, <1>4, <1>5, <1>6, <1>7, <1>10, <1>11, <1>12, <1>13, <1>14, <1>15, <1>16 DEF Writing
<1>28. \/ op = "write" /\ f = Now(run).file
       \/ op = "migration" /\ f = <<Target(run), "migration">>
       \/ op = "register" /\ f = App("wire.go")
       \/ op = "css" /\ f = App("app.css") /\ run.arg \in Styles
       \/ op = "js" /\ f = App("app.js")
       \/ op = "vendor" /\ f = App("datastar")
       \/ op = "toaster" /\ f = App("toaster.templ")
       \/ op = "toasterTest" /\ f = App("toaster_test.go")
       \/ op = "layout" /\ f = App("layout.templ")
       \/ op = "init" /\ f = App("package.json")
       \/ op = "save" /\ f = App("avero.json")
  BY <1>17, <1>18, <1>19, <1>20, <1>21, <1>22, <1>23, <1>24, <1>25, <1>26, <1>27
<1> QED
  BY <1>28 DEF op

\* A text keeps its words when a new one comes after them.
LEMMA AppendKeeps ==
  ASSUME NEW old, IsText(old), NEW w, w \notin ToSet(old)
  PROVE  Only(old \o <<w>>, ToSet(old)) = old
<1> DEFINE A == ToSet(old) \cup {w}
           n == Len(old)
           one == <<w>>
<1>1. old \in Seq(A) /\ one \in Seq(A) /\ Len(one) = 1 /\ one[1] = w /\ w \in A
  BY DEF IsText
<1> HIDE DEF A, one
<1>2. n \in Nat /\ n + 1 \in 1 .. n + 1 /\ DOMAIN old = 1 .. n
  BY <1>1
<1>3. InsertAt(old, n + 1, w) \in Seq(A) /\ HasWord(InsertAt(old, n + 1, w), old, n + 1, w)
  BY <1>1, <1>2, InsertIs
<1>4. old \o one \in Seq(A) /\ Len(old \o one) = n + 1
      /\ \A i \in 1 .. n + 1 : (old \o one)[i] = IF i <= n THEN old[i] ELSE one[i - n]
  <2>1. /\ old \o one \in Seq(A) /\ Len(old \o one) = Len(old) + Len(one)
        /\ \A i \in 1 .. Len(old) + Len(one) :
              (old \o one)[i] = IF i <= Len(old) THEN old[i] ELSE one[i - Len(old)]
    BY <1>1, ConcatIs
  <2> QED
    BY <1>1, <2>1
<1> DEFINE ins == InsertAt(old, n + 1, w)
           cat == old \o one
<1>5. Len(ins) = n + 1 /\ \A i \in 1 .. n + 1 : ins[i] = IF i < n + 1 THEN old[i] ELSE IF i = n + 1 THEN w ELSE old[i - 1]
  BY <1>3 DEF HasWord
<1> HIDE DEF ins, cat, n
<1>6. ASSUME NEW i \in 1 .. n + 1 PROVE ins[i] = cat[i]
  <2>1. CASE i <= n
    BY <1>2, <1>4, <1>5, <2>1 DEF cat
  <2>2. CASE ~(i <= n)
    <3>1. i = n + 1 /\ i - n = 1
      BY <1>2, <2>2
    <3> QED
      BY <1>1, <1>2, <1>4, <1>5, <2>2, <3>1 DEF cat
  <2> QED
    BY <2>1, <2>2
<1>7. ins \in Seq(A) /\ cat \in Seq(A) /\ Len(cat) = n + 1
  BY <1>3, <1>4 DEF ins, cat
<1>8. ins = cat
  BY <1>2, <1>5, <1>6, <1>7
<1>9. Only(ins, ToSet(old)) = old
  BY <1>1, <1>2, InsertKeeps DEF ins, n
<1> QED
  BY <1>8, <1>9 DEF cat, one

\* The first of the steps that are due, and the rest, write different files of a person.
LEMMA HeadOnce ==
  ASSUME NEW s, IsText(s), s # <<>>, Once(s)
  PROVE  /\ Once(Tail(s))
         /\ \A y \in ToSet(Tail(s)) : y.op = "write" /\ Persons(y.file) => y.file # Head(s).file
<1> DEFINE A == ToSet(s)
           n == Len(s)
           t == Tail(s)
<1>1. s \in Seq(A)
  BY DEF IsText
<1> HIDE DEF A
<1>2. n \in Nat /\ n >= 1 /\ DOMAIN s = 1 .. n /\ DOMAIN t = 1 .. n - 1 /\
      Head(s) = s[1] /\ \A i \in 1 .. n - 1 : t[i] = s[i + 1]
  BY <1>1
<1> HIDE DEF n, t
<1>3. ASSUME NEW i \in 1 .. n - 1, NEW j \in 1 .. n - 1, t[i].op = "write", Persons(t[i].file), t[i].file = t[j].file
      PROVE  i = j
  <2>1. i + 1 \in DOMAIN s /\ j + 1 \in DOMAIN s /\ t[i] = s[i + 1] /\ t[j] = s[j + 1]
    BY <1>2
  <2>2. i + 1 = j + 1
    BY <1>3, <2>1 DEF Once
  <2> QED
    BY <1>2, <2>2
<1>4. ASSUME NEW i \in 1 .. n - 1, t[i].op = "write", Persons(t[i].file) PROVE t[i].file # s[1].file
  <2>1. i + 1 \in DOMAIN s /\ 1 \in DOMAIN s /\ t[i] = s[i + 1] /\ i + 1 # 1
    BY <1>2
  <2> QED
    BY <1>4, <2>1 DEF Once
<1> QED
  BY <1>2, <1>3, <1>4 DEF Once, ToSet, t

-----------------------------------------------------------------------------
(* No command takes a person's words away. *)

\* What a person has of a file: all of it, but of avero.json the members that Avero declares, without the tier.
Kept(f) == IF f = App("avero.json") THEN Only(tree[f], Declared) ELSE tree[f]
\* A write that is due takes no word of a person away.
Keeps(f, text) == Persons(f) /\ f \in DOMAIN tree => Only(text, ToSet(Kept(f))) = Kept(f)
\* The slice that the next migration is the first one of.
Unmigrated == <<Target(run), "migration">> \notin DOMAIN tree
\* What is due to be written.
Harmless(x) ==
    x.op = "write" => Keeps(x.file, x.text) /\ x.file[2] # "migration" /\ x.file # App("datastar")
\* A file that a command is going to write for the first time is not there.
Fresh ==
    Running =>
          /\ run.cmd = "new" => /\ run.next = 2 => DOMAIN tree = {}
                                /\ run.next \in 2 .. 5 => Unmigrated
                                /\ run.next \in 2 .. 8 => ~Has(tree, App("datastar"))
          /\ run.cmd = "slice" /\ run.next \in 3 .. 5 => Unmigrated

\* What the texts of the person rest on.
Keeping == (\A x \in Pending : Harmless(x)) /\ Once(run.extra) /\ Fresh

\* Where the step of a command comes from, and where a plan holds the steps that a text of a person depends on.
LEMMA InPlan ==
  ASSUME Formed, Running
  PROVE  /\ run.extra # <<>> => Now(run).op \in Inner /\ Now(run) \in Pending
         /\ Now(run).op = "write" => Now(run) \in Pending
         /\ Now(run).op = "migration" => run.cmd \in {"new", "slice"} /\ run.next = 5
         /\ Now(run).op = "vendor" => run.cmd = "new" /\ run.next = 8
         /\ Now(run).op = "save" => run.cmd = "assets" /\ run.next = 3
<1>0. Placed /\ Recorded
  BY DEF Formed
<1>1. ASSUME run.extra # <<>> PROVE Now(run).op \in Inner /\ Now(run) \in Pending
  <2>1. Now(run) \in Pending
    BY <1>0, <1>1, HeadTail, NowIs DEF Recorded, IsText, Pending
  <2> QED
    BY <1>0, <2>1 DEF Placed, Due
<1>2. CASE run.extra # <<>>
  BY <1>1, <1>2 DEF Inner
<1>3. CASE run.extra = <<>>
  <2> DEFINE op == Plans[run.cmd][run.next]
  <2>1. Now(run).op = op
    BY <1>3, NowIs
  <2>2. run.cmd \in {"new", "slice", "generate", "build", "ui", "assets"}
    BY <1>0, PlansAre DEF Placed
  <2>3. /\ op # "write"
        /\ op = "migration" => run.cmd \in {"new", "slice"} /\ run.next = 5
        /\ op = "vendor" => run.cmd = "new" /\ run.next = 8
        /\ op = "save" => run.cmd = "assets" /\ run.next = 3
    <3>1. CASE run.cmd = "new"
      BY <1>0, <1>3, <3>1, RunsWithin, WhereNew DEF At
    <3>2. CASE run.cmd = "slice"
      BY <1>0, <1>3, <3>2, RunsWithin, WhereSlice DEF At
    <3>3. CASE run.cmd \in {"generate", "build"}
      BY <1>0, <1>3, <3>3, RunsWithin, WhereGenerate DEF At
    <3>4. CASE run.cmd = "ui"
      BY <1>0, <1>3, <3>4, RunsWithin, WhereUI DEF At
    <3>5. CASE run.cmd = "assets"
      BY <1>0, <1>3, <3>5, RunsWithin, WhereAssets DEF At
    <3> QED
      BY <2>2, <3>1, <3>2, <3>3, <3>4, <3>5
  <2> QED
    BY <1>3, <2>1, <2>3
<1> QED
  BY <1>2, <1>3

\* What a step writes over a file of a person keeps its words.
LEMMA WritesKeep ==
  ASSUME Formed, Keeping, Running, Outcome(tree, run).fault = "none",
         NEW f \in DOMAIN Outcome(tree, run).writes, Persons(f), f \in DOMAIN tree
  PROVE  \/ Only(Outcome(tree, run).writes[f], ToSet(Kept(f))) = Kept(f)
         \/ f = App("layout.templ") /\ tree[f] = <<"scaffold">>
<1> DEFINE op == Now(run).op
           out == Outcome(tree, run)
           kept == Only(out.writes[f], ToSet(Kept(f))) = Kept(f)
<1>0. FineTree /\ Placed /\ Recorded /\ Fresh
  BY DEF Formed, Keeping
<1>1. \/ op = "write" /\ f = Now(run).file
      \/ op = "migration" /\ f = <<Target(run), "migration">>
      \/ op = "register" /\ f = App("wire.go")
      \/ op = "css" /\ f = App("app.css") /\ run.arg \in Styles
      \/ op = "js" /\ f = App("app.js")
      \/ op = "vendor" /\ f = App("datastar")
      \/ op = "toaster" /\ f = App("toaster.templ")
      \/ op = "toasterTest" /\ f = App("toaster_test.go")
      \/ op = "layout" /\ f = App("layout.templ")
      \/ op = "init" /\ f = App("package.json")
      \/ op = "save" /\ f = App("avero.json")
  BY Touched
<1>2. ASSUME NEW text, out = Writes(File(f, text)), Only(text, ToSet(Kept(f))) = Kept(f) PROVE kept
  <2>1. out.writes = File(f, text)
    BY <1>2, WritesIs
  <2>2. File(f, text)[f] = text
    BY DEF File
  <2> QED
    BY <1>2, <2>1, <2>2
<1> HIDE DEF kept
<1>3. DOMAIN out.writes # {} /\ out.writes # <<>>
  OBVIOUS
<1>4. out # Nothing /\ (\A kind, g : out # Fault(kind, g))
  BY <1>3, NothingIs, FaultIs
<1>7. CASE op = "write" /\ f = Now(run).file
  <2>2. Now(run) \in Pending
    BY <1>7, InPlan
  <2>3. Only(Now(run).text, ToSet(Kept(f))) = Kept(f)
    BY <1>7, <2>2 DEF Keeping, Harmless, Keeps
  <2>4. out = Writes(File(f, Now(run).text))
    BY <1>7, OutcomeNow
  <2>5. kept
    BY <1>2, <2>3, <2>4
  <2> QED
    BY <2>5 DEF kept
<1>8. CASE op = "migration" /\ f = <<Target(run), "migration">>
  <2>2. run.cmd \in {"new", "slice"} /\ run.next = 5
    BY <1>8, InPlan
  <2>3. Unmigrated
    BY <1>0, <2>2 DEF Fresh
  <2> QED
    BY <1>8, <2>3 DEF Unmigrated
<1>9. CASE op = "register" /\ f = App("wire.go")
  <2> DEFINE wire == Text(tree, App("wire.go"))
             text == InsertAt(wire, 2, Target(run))
  <2>1. out = RegisterSlice(tree, Target(run))
    BY <1>9, OutcomeNow
  <2>2. [Nothing EXCEPT !.told = TRUE].writes = <<>>
    BY DEF Nothing, Does
  <2>3. /\ RegisterSlice(tree, Target(run)) = Writes(File(App("wire.go"), text))
        /\ wire = tree[App("wire.go")] /\ Only(text, ToSet(wire)) = wire
    <3>1. \/ RegisterSlice(tree, Target(run)) = [Nothing EXCEPT !.told = TRUE]
          \/ RegisterSlice(tree, Target(run)) = Fault("format", App("wire.go"))
          \/ /\ RegisterSlice(tree, Target(run)) = Writes(File(App("wire.go"), text))
             /\ wire = tree[App("wire.go")] /\ Only(text, ToSet(wire)) = wire
      BY <1>0, RegisterIs
    <3> HIDE DEF text, wire
    <3> QED
      BY <1>3, <1>4, <2>1, <2>2, <3>1
  <2>4. Kept(f) = tree[f]
    BY <1>9 DEF Kept, App
  <2> HIDE DEF text
  <2>5. kept
    BY <1>2, <1>9, <2>1, <2>3, <2>4
  <2> QED
    BY <2>5 DEF kept
<1>10. CASE (op = "css" /\ f = App("app.css") /\ run.arg \in Styles) \/ (op = "js" /\ f = App("app.js"))
  <2> DEFINE line == IF op = "css" THEN run.arg ELSE "all.min.js"
             text == InsertAt(tree[f], Place(tree[f], Anchor(f)) + 1, line)
  <2>1. out = addLine(tree, f, line)
    BY <1>10, OutcomeNow
  <2>2. /\ f \in {App("app.css"), App("app.js")}
        /\ f = App("app.css") => line \in Styles
        /\ f = App("app.js") => line = "all.min.js"
    BY <1>10 DEF App
  <2> HIDE DEF line
  <2>3. out = Writes(File(f, text)) /\ Only(text, ToSet(tree[f])) = tree[f]
    <3>1. \/ addLine(tree, f, line) = Nothing \/ addLine(tree, f, line) = Fault("anchor", f)
          \/ addLine(tree, f, line) = Writes(File(f, text)) /\ Only(text, ToSet(tree[f])) = tree[f]
      BY <1>0, <2>2, LineIs
    <3> HIDE DEF text
    <3> QED
      BY <1>4, <2>1, <3>1
  <2>4. Kept(f) = tree[f]
    BY <2>2 DEF Kept, App
  <2>5. kept
    BY <1>2, <2>3, <2>4
  <2> QED
    BY <2>5 DEF kept
<1>11. CASE op = "vendor" /\ f = App("datastar")
  <2>2. run.cmd = "new" /\ run.next = 8
    BY <1>11, InPlan
  <2>3. ~Has(tree, App("datastar"))
    BY <1>0, <2>2 DEF Fresh
  <2> QED
    BY <1>11, <2>3 DEF Has
<1>12. CASE (op = "toaster" /\ f = App("toaster.templ")) \/ (op = "toasterTest" /\ f = App("toaster_test.go"))
  <2>1. out = writeAbsent(tree, f)
    BY <1>12, OutcomeNow
  <2>2. ~Has(tree, f)
    BY <1>4, <2>1 DEF writeAbsent
  <2> QED
    BY <2>2 DEF Has
<1>13. CASE op = "layout" /\ f = App("layout.templ")
  <2>1. out = patchLayout(tree)
    BY <1>13, OutcomeNow
  <2>2. tree[App("layout.templ")] = <<"scaffold">>
    BY <1>3, <2>1, LayoutIs
  <2> QED
    BY <1>13, <2>2
<1>14. CASE op = "init" /\ f = App("package.json")
  <2>1. out = PackageInit(tree)
    BY <1>14, OutcomeNow
  <2>2. [Nothing EXCEPT !.last = TRUE].writes = <<>>
    BY DEF Nothing, Does
  <2>3. ~Has(tree, App("package.json"))
    BY <1>3, <2>1, <2>2 DEF PackageInit
  <2> QED
    BY <1>14, <2>3 DEF Has
<1>15. CASE op = "save" /\ f = App("avero.json")
  <2> DEFINE old == Only(Project(tree), Declared)
             text == old \o <<"node">>
  <2>1. out = Writes(File(f, text))
    BY <1>15, OutcomeNow DEF SaveTier
  <2>2. IsText(old) /\ ToSet(old) \subseteq Declared
    BY <1>0, ProjectKept
  <2>3. Kept(f) = old
    BY <1>15 DEF Kept, Project, Has
  <2> HIDE DEF old
  <2>4. "node" \notin ToSet(old)
    BY <2>2 DEF Declared
  <2>5. Only(text, ToSet(old)) = old
    BY <2>2, <2>4, AppendKeeps
  <2> HIDE DEF text
  <2>6. kept
    BY <1>2, <2>1, <2>3, <2>5
  <2> QED
    BY <2>6 DEF kept
<1> QED
  BY <1>1, <1>7, <1>8, <1>9, <1>10, <1>11, <1>12, <1>13, <1>14, <1>15

\* A file of a person that a step creates is one that the step may write.
LEMMA Created ==
  ASSUME Formed, Running, tree' = Over(Outcome(tree, run).writes, tree)
  PROVE  /\ DOMAIN tree \subseteq DOMAIN tree'
         /\ \A f \in DOMAIN tree' : (f \in DOMAIN tree /\ tree'[f] = tree[f]) \/ f \in DOMAIN Outcome(tree, run).writes
         /\ \A f \in DOMAIN Outcome(tree, run).writes : tree'[f] = Outcome(tree, run).writes[f]
<1> QED
  BY OverNow

\* The directory of a slice, and what a front end vendors, stay without what no step of this kind writes.
LEMMA StaysAbsent ==
  ASSUME Formed, Keeping, Running, tree' = Over(Outcome(tree, run).writes, tree), SameCommand
  PROVE  /\ Unmigrated /\ Now(run).op # "migration" => Unmigrated'
         /\ ~Has(tree, App("datastar")) /\ Now(run).op # "vendor" => ~Has(tree, App("datastar"))'
<1> DEFINE out == Outcome(tree, run)
<1>0. \A x \in Pending : Harmless(x)
  BY DEF Keeping
<1>1. Target(run)' = Target(run)
  BY DEF Target, SameCommand
<1>2. Now(run).op = "write" => Now(run).file[2] # "migration" /\ Now(run).file # App("datastar")
  BY <1>0, InPlan DEF Harmless
<1>3. ASSUME NEW f, f \notin DOMAIN tree, f \in DOMAIN tree' PROVE f \in DOMAIN out.writes
  BY <1>3, Created
<1>4. ASSUME Unmigrated, Now(run).op # "migration", ~Unmigrated' PROVE FALSE
  <2> DEFINE f == <<Target(run), "migration">>
  <2>1. f \in DOMAIN out.writes
    BY <1>1, <1>3, <1>4 DEF Unmigrated
  <2>2. Persons(f)
    BY DEF Persons, Generated
  <2>3. f[2] = "migration" /\ f # App("wire.go") /\ f # App("app.css") /\ f # App("app.js") /\ f # App("datastar")
        /\ f # App("toaster.templ") /\ f # App("toaster_test.go") /\ f # App("layout.templ") /\ f # App("package.json")
        /\ f # App("avero.json")
    BY DEF App
  <2> HIDE DEF f
  <2> QED
    BY <1>2, <1>4, <2>1, <2>2, <2>3, Touched
<1>5. ASSUME ~Has(tree, App("datastar")), Now(run).op # "vendor", Has(tree, App("datastar"))' PROVE FALSE
  <2> DEFINE f == App("datastar")
  <2>1. f \in DOMAIN out.writes
    BY <1>3, <1>5 DEF Has
  <2>2. Persons(f)
    BY DEF Persons, Generated, App
  <2>3. f[2] # "migration" /\ f # App("wire.go") /\ f # App("app.css") /\ f # App("app.js") /\ f = App("datastar")
        /\ f # App("toaster.templ") /\ f # App("toaster_test.go") /\ f # App("layout.templ") /\ f # App("package.json")
        /\ f # App("avero.json")
    BY DEF App
  <2>4. f # <<Target(run), "migration">>
    BY <2>3
  <2> HIDE DEF f
  <2> QED
    BY <1>2, <1>5, <2>1, <2>2, <2>3, <2>4, Touched
<1> QED
  BY <1>4, <1>5

\* What a generator is going to write is not of a person.
LEMMA GeneratedHarmless ==
  ASSUME NEW x, ~Persons(x.file)
  PROVE  Harmless(x)'
<1>1. x.file[2] # "migration" /\ x.file # App("datastar")
  BY DEF Persons, Generated, App
<1> QED
  BY <1>1 DEF Harmless, Keeps

\* What is due stays harmless while one of it is done.
LEMMA HarmlessInside ==
  ASSUME Formed, Keeping, Running, Inside(Outcome(tree, run))
  PROVE  (\A x \in Pending : Harmless(x))' /\ Once(run.extra)'
<1> DEFINE out == Outcome(tree, run)
<1>0. (\A x \in Pending : Harmless(x)) /\ Once(run.extra) /\ Recorded
  BY DEF Formed, Keeping
<1>1. run.extra # <<>> /\ run'.extra = Tail(run.extra) /\ tree' = Over(out.writes, tree)
  BY DEF Inside, Carries
<1>2. IsText(run.extra) /\ Now(run) = Head(run.extra)
  BY <1>0, <1>1, NowIs DEF Recorded, IsText
<1>3. Once(run.extra)'
  BY <1>0, <1>1, <1>2, HeadOnce
<1>4. Now(run).op \in Inner
  BY <1>1, InPlan
<1>5. ASSUME NEW x \in Pending' PROVE Harmless(x)'
  <2>1. x \in ToSet(Tail(run.extra)) /\ x \in Pending
    BY <1>1, <1>2, <1>5, HeadTail DEF Pending
  <2>2. Harmless(x)
    BY <1>0, <2>1
  <2>3. ASSUME x.op = "write", Persons(x.file), x.file \in DOMAIN tree'
        PROVE x.file \in DOMAIN tree /\ tree'[x.file] = tree[x.file] /\ Kept(x.file)' = Kept(x.file)
    <3>1. x.file # Head(run.extra).file
      BY <1>0, <1>1, <1>2, <2>1, <2>3, HeadOnce
    <3>2. x.file \notin DOMAIN out.writes
      BY <1>2, <1>4, <2>3, <3>1, Touched DEF Inner
    <3> QED
      BY <1>1, <2>3, <3>2, Created DEF Kept
  <2> QED
    BY <2>2, <2>3 DEF Harmless, Keeps
<1> QED
  BY <1>3, <1>5

\* In an empty directory the writes of a scaffold take nothing from a person.
LEMMA HarmlessScaffold ==
  ASSUME NEW shape \in Shapes, DOMAIN tree' = {}, NEW x \in ScaffoldSet(shape)
  PROVE  Harmless(x)'
<1>1. Keeps(x.file, x.text)'
  BY DEF Keeps
<1>2. \/ x \in ModFile \cup Basis(shape) \cup Wire(shape) \cup FeatureSet(FirstSlice(shape))
      \/ x \in Styling \cup Layout \cup StarterSet \cup FrontWrites \cup Payments
  BY DEF ScaffoldSet
<1>3. x.file[2] # "migration" /\ x.file # App("datastar")
  <2>1. CASE x \in ModFile \cup Basis(shape) \cup Wire(shape) \cup FeatureSet(FirstSlice(shape))
    BY <2>1, WriteIs DEF ModFile, Basis, Wire, FeatureSet, App
  <2>2. CASE x \in Styling \cup Layout \cup StarterSet \cup FrontWrites \cup Payments
    BY <2>2, WriteIs DEF Styling, Layout, StarterSet, FrontWrites, Payments, App, Web
  <2> QED
    BY <1>2, <2>1, <2>2
<1> QED
  BY <1>1, <1>3 DEF Harmless

\* In a place where no slice stands the writes of `avero slice` take nothing from a person.
LEMMA HarmlessSlice ==
  ASSUME FineTree, tree' = tree, NEW name, Outcome(tree, run) = WriteSlice(tree, name), Outcome(tree, run).fault = "none"
  PROVE  /\ \A x \in ToSet(Outcome(tree, run).more) : Harmless(x)'
         /\ Once(Outcome(tree, run).more)
         /\ <<packageOf(name), "migration">> \notin DOMAIN tree
<1> DEFINE out == Outcome(tree, run)
           s == packageOf(name)
           config == SliceConfig(tree)
<1>1. /\ validName(name) /\ ~Exists(tree, s) /\ Block(config) # 0 /\ out = Then(Feature(s) \o Entry(config, s))
  <2>1. \/ out = Refuse
        \/ /\ validName(name) /\ ~Exists(tree, s) /\ Block(config) # 0 /\ out = Then(Feature(s) \o Entry(config, s))
    BY DEF WriteSlice
  <2> QED
    BY <2>1, RefuseIs
<1>2. out.more = Feature(s) \o Entry(config, s)
  BY <1>1, ThenIs
<1>3. Once(out.more) /\ ToSet(out.more) = FeatureSet(s) \cup EntrySet(config, s)
  BY <1>2, SliceListed DEF Listed
<1>4. \A k : <<s, k>> \notin DOMAIN tree
  BY <1>1 DEF Exists
<1>5. ASSUME NEW x \in FeatureSet(s) PROVE Harmless(x)'
  <2>1. x.file \in {<<s, "handlers">>, <<s, "model">>, <<s, "module">>}
    BY <1>5, WriteIs DEF FeatureSet
  <2>2. x.file \notin DOMAIN tree
    BY <1>4, <2>1
  <2>3. x.file[2] # "migration" /\ x.file # App("datastar")
    BY <2>1 DEF App
  <2> QED
    BY <2>2, <2>3 DEF Harmless, Keeps
<1>6. ASSUME NEW x \in EntrySet(config, s) PROVE Harmless(x)'
  <2> DEFINE text == InsertAt(config, Block(config) + 1, s)
  <2>1. ~Contains(config, s) /\ x = Write(App("drel.yaml"), text)
    BY <1>6 DEF EntrySet
  <2>2. IsText(config)
    BY ConfigIs
  <2>3. s \notin ToSet(config)
    BY <2>1, <2>2, TextContains
  <2>4. Only(text, ToSet(config)) = config
    BY <1>1, <2>2, <2>3, EntryIs
  <2>5. x.file = App("drel.yaml") /\ x.text = text
    BY <2>1, WriteIs
  <2>6. App("drel.yaml") \in DOMAIN tree => config = tree[App("drel.yaml")]
    BY DEF SliceConfig, Has
  <2> HIDE DEF text, config
  <2>7. Keeps(x.file, x.text)'
    <3>1. App("drel.yaml") # App("avero.json")
      BY DEF App
    <3> QED
      BY <2>4, <2>5, <2>6, <3>1 DEF Keeps, Kept
  <2>8. x.file[2] # "migration" /\ x.file # App("datastar")
    BY <2>5 DEF App
  <2> QED
    BY <2>7, <2>8 DEF Harmless
<1> QED
  BY <1>3, <1>4, <1>5, <1>6

\* Writes to generated files meet no file of a person twice.
LEMMA OnceGenerated ==
  ASSUME NEW s, \A x \in ToSet(s) : x.op = "write" => ~Persons(x.file)
  PROVE  Once(s)
BY DEF Once, ToSet

\* What a step of the plan puts before the next one is harmless.
LEMMA HarmlessOnward ==
  ASSUME Formed, Keeping, Running, Onward(Outcome(tree, run))
  PROVE  (\A x \in Pending : Harmless(x))' /\ Once(run.extra)'
<1> DEFINE out == Outcome(tree, run)
           op == Now(run).op
<1>0. FineTree /\ Placed /\ Recorded /\ Fresh
  BY DEF Formed, Keeping
<1>1. run.extra = <<>> /\ run'.extra = out.more /\ out.fault = "none"
  BY DEF Onward, Carries
<1>2. SUFFICES (\A x \in ToSet(out.more) : Harmless(x)') /\ Once(out.more)
  BY <1>1 DEF Pending
<1>3. op = Plans[run.cmd][run.next]
  BY <1>1, NowIs
<1>4. Sound(out, op)
  BY SoundStep
<1>5. CASE out.more = <<>>
  <2>1. ToSet(out.more) = {} /\ Once(out.more)
    BY <1>5, EmptySet, EmptyListed DEF Listed
  <2> QED
    BY <2>1
<1>6. CASE op = "scaffold"
  <2>1. run.cmd = "new" /\ run.next = 2 /\ run.arg \in Shapes
    <3>1. run.cmd = "new" /\ run.arg \in Shapes
      BY <1>0, <1>1, <1>3, <1>6, WhereIs DEF Reading, Writing
    <3> QED
      BY <1>0, <1>1, <1>3, <1>6, <3>1, RunsWithin, WhereNew DEF At
  <2>2. out = Then(Scaffold(run.arg))
    BY <1>6, OutcomeNow
  <2>3. tree' = tree
    BY <2>2, ThenIs, OnwardNothing
  <2>4. DOMAIN tree' = {}
    BY <1>0, <2>1, <2>3 DEF Fresh
  <2>5. Listed(out.more, ScaffoldSet(run.arg))
    BY <2>1, <2>2, ThenIs, ScaffoldListed
  <2>6. ToSet(out.more) = ScaffoldSet(run.arg) /\ Once(out.more)
    BY <2>5 DEF Listed
  <2> QED
    BY <2>1, <2>4, <2>6, HarmlessScaffold
<1>7. CASE op = "slice"
  <2>1. out = WriteSlice(tree, run.arg)
    BY <1>7, OutcomeNow
  <2>2. out.writes = <<>>
    BY <2>1, RefuseIs, ThenIs DEF WriteSlice
  <2>3. tree' = tree
    BY <2>2, OnwardNothing
  <2> QED
    BY <1>0, <1>1, <2>1, <2>3, HarmlessSlice
<1>8. ASSUME \A x \in ToSet(out.more) : x.op = "write" => ~Persons(x.file)
      PROVE  (\A x \in ToSet(out.more) : Harmless(x)') /\ Once(out.more)
  <2>1. ASSUME NEW x \in ToSet(out.more) PROVE Harmless(x)'
    <3>1. CASE x.op = "write"
      BY <1>8, <3>1, GeneratedHarmless
    <3>2. CASE x.op # "write"
      BY <3>2 DEF Harmless
    <3> QED
      BY <3>1, <3>2
  <2> QED
    BY <1>8, <2>1, OnceGenerated
<1>9. CASE op \in {"codegen", "clients"}
  <2>1. PICK own \in {Codegen, Client} : out = Build(tree, own)
    BY <1>9, OutcomeNow
  <2>2. out.more # <<>> => ToSet(out.more) = {Output(tree, own, d) : d \in Given(tree, own)}
    BY <2>1, BuildIs
  <2>3. \A d : Output(tree, own, d).file = <<d, own>>
    BY WriteIs DEF Output
  <2>4. \A d : ~Persons(<<d, own>>)
    BY DEF Persons, Generated, Codegen, Client
  <2>5. \A x \in ToSet(out.more) : ~Persons(x.file)
    BY <2>2, <2>3, <2>4, EmptySet
  <2> QED
    BY <1>8, <2>5
<1>10. CASE op = "describe"
  <2>1. out = Describe(tree)
    BY <1>10, OutcomeNow
  <2>2. ToSet(out.more) \subseteq {Described(tree), Op("nodeTool"), Op("install"), Op("frontEnd")}
    <3>1. out.more = <<>> \/ ToSet(out.more) \subseteq {Described(tree), Op("nodeTool"), Op("install"), Op("frontEnd")}
      BY <2>1, DescribeIs, NothingIs, FaultIs, ThenIs
    <3> QED
      BY <3>1, EmptySet
  <2>3. /\ Described(tree).file = App("openapi.json") /\ Op("nodeTool").op = "nodeTool"
        /\ Op("install").op = "install" /\ Op("frontEnd").op = "frontEnd"
    BY WriteIs DEF Described, Op
  <2>4. ~Persons(App("openapi.json"))
    BY DEF Persons, Generated, App
  <2> QED
    BY <1>8, <2>2, <2>3, <2>4
<1>11. out.more # <<>> => op \in Adders
  BY <1>4 DEF Sound
<1> QED
  BY <1>5, <1>6, <1>7, <1>9, <1>10, <1>11 DEF Adders

\* A step keeps the migration of a new slice absent until the command writes it.
LEMMA FreshStep ==
  ASSUME Formed, Keeping, Step
  PROVE  Fresh'
<1> DEFINE out == Outcome(tree, run)
<1>0. Placed /\ Recorded /\ Fresh
  BY DEF Formed, Keeping
<1>1. SUFFICES ASSUME Running' PROVE Fresh'
  BY DEF Fresh
<1>2. run'.code # "failed"
  BY <1>1 DEF Running
<1>3. /\ Running /\ out.fault = "none" /\ Sound(out, Now(run).op)
      /\ \/ Inside(out) /\ run.extra # <<>>
         \/ /\ Onward(out) /\ run.extra = <<>> /\ run'.next > run.next /\ Now(run).op = Plans[run.cmd][run.next]
            /\ ~out.last => run'.next = run.next + 1
  BY <1>2, Going
<1>4. tree' = Over(out.writes, tree) /\ SameCommand
  BY <1>3 DEF Inside, Onward, Carries
<1>5. /\ Unmigrated /\ Now(run).op # "migration" => Unmigrated'
      /\ ~Has(tree, App("datastar")) /\ Now(run).op # "vendor" => ~Has(tree, App("datastar"))'
  BY <1>3, <1>4, StaysAbsent
<1>6. run'.cmd = run.cmd
  BY <1>4 DEF SameCommand
<1>7. CASE Inside(out) /\ run.extra # <<>>
  <2>1. run'.next = run.next /\ Now(run).op \in Inner
    BY <1>3, <1>7, InPlan DEF Inside
  <2>2. Unmigrated => Unmigrated'
    BY <1>5, <2>1 DEF Inner
  <2>3. ~Has(tree, App("datastar")) => ~Has(tree, App("datastar"))'
    BY <1>5, <2>1 DEF Inner
  <2>4. (run.cmd = "new" /\ run.next \in {3, 10, 11}) \/ run.cmd \notin {"new", "assets"}
    BY <1>0, <1>7, PendingAt
  <2> QED
    BY <1>0, <1>3, <1>6, <2>1, <2>2, <2>3, <2>4 DEF Fresh
<1>8. CASE Onward(out) /\ run.extra = <<>>
  <2>1. /\ Now(run).op = Plans[run.cmd][run.next]
        /\ ~out.last => run'.next = run.next + 1
        /\ out.last => run'.next = Len(Plans[run.cmd]) + 1
    BY <1>3, <1>8 DEF Onward
  <2>2. ASSUME run.cmd = "new"
        PROVE  /\ run'.next = 2 => DOMAIN tree' = {}
               /\ run'.next \in 2 .. 5 => Unmigrated'
               /\ run'.next \in 2 .. 8 => ~Has(tree, App("datastar"))'
    <3>1. out.last => run'.next = 11
      BY <2>1, <2>2, PlansAre, PlanLengths
    <3>2. \/ At("new", 1, "empty") \/ At("new", 2, "scaffold") \/ At("new", 3, "tidy") \/ At("new", 4, "drel")
          \/ At("new", 5, "migration") \/ At("new", 6, "drel") \/ At("new", 7, "templ") \/ At("new", 8, "vendor")
          \/ At("new", 9, "codegen") \/ At("new", 10, "clients")
      BY <1>0, <1>3, <1>8, <2>2, RunsWithin, WhereNew
    <3>3. run.next \in {1, 2, 3, 4, 5, 6, 7, 8, 9, 10}
      BY <3>2 DEF At
    <3>4. CASE run.next = 1
      <4>1. out = EnsureEmpty(tree)
        BY <2>1, <3>2, <3>4, OutcomeNow DEF At
      <4>2. tree = <<>> /\ out = Nothing
        BY <1>3, <4>1, RefuseIs DEF EnsureEmpty
      <4>3. tree' = tree
        BY <1>8, <4>2, NothingIs, OnwardNothing
      <4>4. DOMAIN tree' = {}
        BY <4>2, <4>3
      <4> QED
        BY <4>4 DEF Unmigrated, Has
    <3>5. CASE run.next # 1
      <4>1. run'.next \in 2 .. 8 => run.next \in 2 .. 7
        BY <2>1, <3>1, <3>3, <3>5
      <4>2. run'.next # 2
        BY <2>1, <3>1, <3>3, <3>5
      <4>3. run'.next \in 2 .. 5 => run.next \in 2 .. 4
        BY <2>1, <3>1, <3>3, <3>5
      <4>4. run.next \in 2 .. 4 => Unmigrated /\ Now(run).op # "migration"
        BY <1>0, <1>3, <2>1, <2>2, <3>2 DEF Fresh, At
      <4>5. run.next \in 2 .. 7 => ~Has(tree, App("datastar")) /\ Now(run).op # "vendor"
        BY <1>0, <1>3, <2>1, <2>2, <3>2 DEF Fresh, At
      <4> QED
        BY <1>5, <4>1, <4>2, <4>3, <4>4, <4>5
    <3> QED
      BY <3>4, <3>5
  <2>3. ASSUME run.cmd = "slice", run'.next \in 3 .. 5
        PROVE  Unmigrated'
    <3>1. out.last => run'.next = 8
      BY <2>1, <2>3, PlansAre, PlanLengths
    <3>2. \/ At("slice", 1, "drelTool") \/ At("slice", 2, "slice") \/ At("slice", 3, "register") \/ At("slice", 4, "drel")
          \/ At("slice", 5, "migration") \/ At("slice", 6, "drel") \/ At("slice", 7, "codegen")
      BY <1>0, <1>3, <1>8, <2>3, RunsWithin, WhereSlice
    <3>3. run.next \in {1, 2, 3, 4, 5, 6, 7}
      BY <3>2 DEF At
    <3>4. run.next \in {2, 3, 4}
      BY <2>1, <2>3, <3>1, <3>3
    <3>5. CASE run.next = 2
      <4>1. out = WriteSlice(tree, run.arg)
        BY <2>1, <3>2, <3>5, OutcomeNow DEF At
      <4>2. out.writes = <<>>
        BY <4>1, RefuseIs, ThenIs DEF WriteSlice
      <4>3. tree' = tree
        BY <1>8, <4>2, OnwardNothing
      <4>4. <<packageOf(run.arg), "migration">> \notin DOMAIN tree
        BY <1>3, <4>1, <4>3, HarmlessSlice DEF Formed
      <4>5. Target(run)' = packageOf(run.arg)
        BY <1>4, <2>3 DEF Target, SameCommand
      <4> QED
        BY <4>3, <4>4, <4>5 DEF Unmigrated
    <3>6. CASE run.next \in {3, 4}
      <4>1. Unmigrated /\ Now(run).op # "migration"
        BY <1>0, <1>3, <2>1, <2>3, <3>2, <3>6 DEF Fresh, At
      <4> QED
        BY <1>5, <4>1
    <3> QED
      BY <3>4, <3>5, <3>6
  <2> QED
    BY <1>6, <2>2, <2>3 DEF Fresh
<1> QED
  BY <1>3, <1>7, <1>8

\* A step keeps what the texts of the person rest on.
LEMMA KeepingStep ==
  ASSUME Formed, Keeping, Step
  PROVE  Keeping'
<1>1. Fresh'
  BY FreshStep
<1>2. Running /\ Recorded
  BY DEF Step, Running, Formed
<1>3. (\A x \in Pending : Harmless(x))' /\ Once(run.extra)'
  <2>1. CASE FailsWith(Outcome(tree, run).fault)
    <3>1. run'.extra = <<>>
      BY <2>1 DEF FailsWith
    <3> QED
      BY <3>1, EmptySet, EmptyListed DEF Pending, Listed
  <2>2. CASE Inside(Outcome(tree, run))
    BY <1>2, <2>2, HarmlessInside
  <2>3. CASE Onward(Outcome(tree, run))
    BY <1>2, <2>3, HarmlessOnward
  <2> QED
    BY <1>2, <2>1, <2>2, <2>3, StepIs
<1> QED
  BY <1>1, <1>3 DEF Keeping

\* The inductive invariant of the person's texts.
KeepInv == Formed /\ Keeping

\* Every step keeps what the texts of the person rest on.
LEMMA KeepNext ==
  ASSUME KeepInv, [Next]_vars
  PROVE  KeepInv'
<1>0. Formed /\ Keeping
  BY DEF KeepInv
<1>1. Formed'
  BY <1>0, FormedNext
<1>2. ASSUME run'.extra = <<>>, Fresh' PROVE Keeping'
  BY <1>2, EmptySet, EmptyListed DEF Keeping, Pending, Listed
<1>3. Keeping'
  <2>1. CASE UNCHANGED vars
    BY <1>0, <2>1 DEF vars, Keeping, Pending, Harmless, Keeps, Kept, Once, Fresh, Running, Unmigrated, Target
  <2>2. ASSUME NEW cmd \in DOMAIN Plans, NEW arg \in Args[cmd], Start(cmd, arg) PROVE Keeping'
    <3>1. tree' = tree /\ run'.next = 1 /\ run'.extra = <<>>
      BY <2>2, StartIs
    <3>2. Fresh'
      BY <3>1 DEF Fresh
    <3> QED
      BY <1>2, <3>1, <3>2
  <2>3. CASE Step
    BY <1>0, <2>3, KeepingStep
  <2>4. CASE Break
    <3>1. run'.extra = <<>> /\ run'.code = "failed"
      BY <1>0, <2>4, BreakIs DEF Formed, FailsWith
    <3>2. Fresh'
      BY <3>1 DEF Fresh, Running
    <3> QED
      BY <1>2, <3>1, <3>2
  <2>5. CASE Edit
    <3>1. run'.cmd = "none" /\ run'.extra = <<>> /\ Edits
      BY <2>5, EditIs
    <3>2. Fresh'
      BY <3>1 DEF Fresh
    <3> QED
      BY <1>2, <3>1, <3>2
  <2> QED
    BY <2>1, <2>2, <2>3, <2>4, <2>5 DEF Next
<1> QED
  BY <1>1, <1>3 DEF KeepInv

\* What a step may do to the files of a person.
KeptStep ==
    run.code = "running" /\ run'.fault # "broken" =>
      \A f \in DOMAIN tree : Persons(f) =>
         /\ f \in DOMAIN tree'
         /\ \/ Only(tree'[f], ToSet(Kept(f))) = Kept(f)
            \/ f = App("layout.templ") /\ tree[f] = <<"scaffold">>

\* Every step of a command keeps the files and the words of the person.
LEMMA KeptNext ==
  ASSUME KeepInv, [Next]_vars
  PROVE  KeptStep
<1>0. Formed /\ Keeping
  BY DEF KeepInv
<1>1. SUFFICES ASSUME run.code = "running", run'.fault # "broken", NEW f \in DOMAIN tree, Persons(f)
               PROVE  /\ f \in DOMAIN tree'
                      /\ \/ Only(tree'[f], ToSet(Kept(f))) = Kept(f)
                         \/ f = App("layout.templ") /\ tree[f] = <<"scaffold">>
  BY DEF KeptStep
<1>2. Only(tree[f], ToSet(Kept(f))) = Kept(f)
  <2> DEFINE A == ToSet(tree[f])
             text == tree[f]
  <2>1. text \in Seq(A)
    BY <1>0, <1>1 DEF Formed, FineTree, Fine, IsText
  <2>2. CASE f = App("avero.json")
    <3>1. Kept(f) = Only(text, Declared) /\ ToSet(Only(text, Declared)) = A \cap Declared
      BY <2>1, <2>2, OnlyIn DEF Kept
    <3>2. \A i \in DOMAIN text : text[i] \in A \cap Declared <=> text[i] \in Declared
      BY DEF ToSet
    <3> HIDE DEF A, text
    <3>3. Only(text, A \cap Declared) = Only(text, Declared)
      BY <2>1, <3>2, OnlySame
    <3> QED
      BY <3>1, <3>3 DEF text
  <2>3. CASE f # App("avero.json")
    BY <2>1, <2>3, OnlyAll DEF Kept
  <2> QED
    BY <2>2, <2>3
<1>3. CASE tree' = tree
  BY <1>2, <1>3
<1>4. CASE Step
  <2> DEFINE out == Outcome(tree, run)
  <2>1. tree' = tree \/ (out.fault = "none" /\ tree' = Over(out.writes, tree))
    BY <1>0, <1>4, StepIs DEF Formed, Inside, Onward, Carries
  <2>2. ASSUME out.fault = "none", tree' = Over(out.writes, tree), f \in DOMAIN out.writes
        PROVE  \/ Only(tree'[f], ToSet(Kept(f))) = Kept(f)
               \/ f = App("layout.templ") /\ tree[f] = <<"scaffold">>
    <3>1. Running
      BY <1>1 DEF Running
    <3>2. tree'[f] = out.writes[f]
      BY <2>2, OverNow
    <3>3. \/ Only(out.writes[f], ToSet(Kept(f))) = Kept(f)
          \/ f = App("layout.templ") /\ tree[f] = <<"scaffold">>
      BY <1>0, <1>1, <2>2, <3>1, WritesKeep
    <3> QED
      BY <3>2, <3>3
  <2>3. ASSUME tree' = Over(out.writes, tree) PROVE f \in DOMAIN tree'
    BY <2>3, OverNow
  <2>4. ASSUME tree' = Over(out.writes, tree), f \notin DOMAIN out.writes PROVE tree'[f] = tree[f]
    BY <2>4, OverNow
  <2> QED
    BY <1>2, <1>3, <2>1, <2>2, <2>3, <2>4
<1>5. ~Break
  BY <1>0, <1>1, BreakIs DEF Formed, FailsWith
<1>6. ~Edit
  BY <1>1 DEF Edit
<1>7. \A cmd, arg : ~Start(cmd, arg)
  BY <1>1 DEF Start
<1> QED
  BY <1>3, <1>4, <1>5, <1>6, <1>7 DEF Next, vars

\* No step of a command takes away a file or a word that a person wrote, unless the write breaks in the middle; of
\* avero.json only the members that Avero declares are claimed, without the tier, which `assets init` replaces.  This
\* is PersonKeeps, for any slices, names, shapes and styles and any number of commands, edits and deaths.
THEOREM PersonsWordsStay == Spec => PersonKeeps
<1>1. Init => KeepInv
  <2>1. ASSUME Init PROVE Keeping
    <3>1. run.extra = <<>> /\ run.cmd = "none"
      BY <2>1 DEF Init, Idle
    <3> QED
      BY <3>1, EmptySet, EmptyListed DEF Keeping, Pending, Listed, Fresh
  <2> QED
    BY <2>1, FormedInit DEF KeepInv
<1>2. KeepInv /\ [Next]_vars => KeepInv'
  BY KeepNext
<1>3. KeepInv /\ [Next]_vars => KeptStep
  BY KeptNext
<1>4. [Next]_vars /\ KeepInv => [run.code = "running" /\ run'.fault # "broken" =>
         \A f \in DOMAIN tree : Persons(f) =>
            LET kept == IF f = App("avero.json") THEN Only(tree[f], Declared) ELSE tree[f]
            IN /\ f \in DOMAIN tree'
               /\ \/ Only(tree'[f], ToSet(kept)) = kept
                  \/ f = App("layout.templ") /\ tree[f] = <<"scaffold">>]_vars
  BY <1>3 DEF KeptStep, Kept
<1> QED
  BY <1>1, <1>2, <1>4, PTL DEF Spec, PersonKeeps

-----------------------------------------------------------------------------
(* A slice is written whole. *)

\* The files of a slice: each is there as it was written, or due.
Pieces == {"handlers", "model", "module"}
Fed(s) == \A k \in Pieces : Write(<<s, k>>, Source(s)) \in Pending \/ Text(tree, <<s, k>>) = Source(s)
\* The entry of the slice in drel.yaml is there, or due.
Entered(s) ==
    /\ \A x \in Pending : x.file = App("drel.yaml") => Contains(x.text, s)
    /\ (\A x \in Pending : x.file # App("drel.yaml")) => Contains(Text(tree, App("drel.yaml")), s)
\* Nothing but the slice is due.
Growing(s) == \A x \in Pending : /\ x.op = "write"
                                 /\ x.file = App("drel.yaml") \/ \E k \in Pieces : x = Write(<<s, k>>, Source(s))
\* The wiring holds the slice, or the command said so.
Wired(s) == run.told \/ Times(Text(tree, App("wire.go")), s) = 1
\* The migration holds the model.
Migrated(s) == Text(tree, <<s, "migration">>) = Source(s)
\* drel made the columns and the set of it.
Derived(s) == Text(tree, <<s, "columns">>) = Source(s) /\ Text(tree, <<s, "set">>) = Source(s)
\* A file that was due is written.
Done(x) == Has(tree, x.file) /\ tree[x.file] = x.text
\* The file of a generator stands, or is due.
Emitted(own, s) == Output(tree, own, s) \in Pending \/ Done(Output(tree, own, s))
\* Only files of the generator are due.
Emitting(own) == \A x \in Pending : \E d \in Given(tree, own) : x = Output(tree, own, d)

\* The files of the slice, its entry, its migration and what drel makes of both.
Grown ==
    Alive("slice") =>
       /\ run.next > 2 => Target(run) \in ToSet(Slices) /\ Fed(Target(run)) /\ Entered(Target(run))
       /\ run.next = 3 => Growing(Target(run))
       /\ run.next > 3 => Wired(Target(run))
       /\ run.next > 5 => Migrated(Target(run))
       /\ run.next > 6 => Derived(Target(run))
       /\ run.next > 7 => Target(run) \in Given(tree, Codegen) /\ Emitted(Codegen, Target(run))
       /\ run.next = 8 => Emitting(Codegen)

\* What a slice is written with is something, and declares handlers.
LEMMA SourceIs ==
  ASSUME NEW s
  PROVE  Source(s) # <<>> /\ Source(s) # <<"none">>
BY DEF Source

\* A file that a step does not write has the text that it had.
LEMMA TextStays ==
  ASSUME NEW w, tree' = Over(w, tree), NEW f, f \notin DOMAIN w
  PROVE  Text(tree, f)' = Text(tree, f) /\ Has(tree, f)' = Has(tree, f)
<1>1. f \in DOMAIN tree' <=> f \in DOMAIN tree
  BY OverNow
<1>2. f \in DOMAIN tree => tree'[f] = tree[f]
  BY OverNow
<1> QED
  BY <1>1, <1>2 DEF Text, Has

\* What drel makes of a slice that drel.yaml lists.
LEMMA DrelIs ==
  ASSUME NEW t, NEW s \in ToSet(Modules(t)), Drel(t).fault = "none"
  PROVE  LET w == Drel(t).writes IN
         /\ <<s, "columns">> \in DOMAIN w /\ w[<<s, "columns">>] = t[<<s, "model">>]
         /\ Has(t, <<s, "migration">>) => <<s, "set">> \in DOMAIN w /\ w[<<s, "set">>] = t[<<s, "migration">>]
<1> DEFINE entries == ToSet(Modules(t))
           broken == {e \in entries : ~Parses(Text(t, <<e, "model">>))}
           a == [g \in {<<e, "columns">> : e \in entries} |-> t[<<g[1], "model">>]]
           b == [g \in {<<e, "set">> : e \in {e \in entries : Embeds(t, e)}} |-> t[<<g[1], "migration">>]]
           c == File(App("db"), Modules(t))
           w == Over(a, Over(b, c))
           where == <<CHOOSE e \in broken : TRUE, "model">>
<1>1. entries # {}
  OBVIOUS
<1>2. (Drel(t) = Nothing /\ entries = {}) \/ Drel(t) = Fault("tool", where) \/ Drel(t) = Writes(w)
  BY DEF Drel
<1> HIDE DEF entries, broken, w, where
<1>3. Drel(t).writes = w
  BY <1>1, <1>2, FaultIs, WritesIs
<1>4. <<s, "columns">> \in DOMAIN a /\ a[<<s, "columns">>] = t[<<s, "model">>]
  BY DEF entries
<1>5. Has(t, <<s, "migration">>) => <<s, "set">> \in DOMAIN b /\ b[<<s, "set">>] = t[<<s, "migration">>]
  BY DEF entries, Embeds
<1>6. <<s, "set">> \notin DOMAIN a
  OBVIOUS
<1> HIDE DEF a, b, c
<1>7. /\ \A g \in DOMAIN a : g \in DOMAIN w /\ w[g] = a[g]
      /\ \A g \in DOMAIN b \ DOMAIN a : g \in DOMAIN w /\ w[g] = b[g]
  BY DEF w, Over
<1> QED
  BY <1>3, <1>4, <1>5, <1>6, <1>7

\* The modules that drel reads are the slices that drel.yaml names.
LEMMA ModulesAre ==
  ASSUME FineTree
  PROVE  ToSet(Modules(tree)) = ToSet(Text(tree, App("drel.yaml"))) \cap ToSet(Slices)
<1>1. Persons(App("drel.yaml"))
  BY DEF Persons, Generated, App
<1>2. IsText(Text(tree, App("drel.yaml")))
  BY <1>1, TextIs
<1> QED
  BY <1>2, OnlyIn DEF Modules, IsText

\* The slice is written, and its entry is one.
LEMMA GrownSlice ==
  ASSUME Formed, tree' = tree, Outcome(tree, run) = WriteSlice(tree, run.arg),
         Outcome(tree, run).fault = "none", run'.extra = Outcome(tree, run).more,
         NEW s, s = packageOf(run.arg)
  PROVE  s \in ToSet(Slices) /\ Fed(s)' /\ Entered(s)' /\ Growing(s)'
<1> DEFINE out == Outcome(tree, run)
           config == SliceConfig(tree)
           text == InsertAt(config, Block(config) + 1, s)
           yaml == App("drel.yaml")
<1>0. FineTree
  BY DEF Formed
<1>1. validName(run.arg) /\ Block(config) # 0 /\ out = Then(Feature(s) \o Entry(config, s))
  <2>1. out = Refuse \/ (validName(run.arg) /\ Block(config) # 0 /\ out = Then(Feature(s) \o Entry(config, s)))
    BY DEF WriteSlice
  <2> QED
    BY <2>1, RefuseIs
<1>2. s \in ToSet(Slices)
  BY <1>1 DEF validName
<1>3. Pending' = FeatureSet(s) \cup EntrySet(config, s)
  BY <1>1, ThenIs, SliceListed DEF Listed, Pending
<1>4. FeatureSet(s) = {Write(<<s, k>>, Source(s)) : k \in Pieces}
  BY DEF FeatureSet, Pieces
<1>5. \A x \in FeatureSet(s) : x.op = "write" /\ x.file # yaml
  BY <1>4, WriteIs DEF Pieces, App
<1>6. CASE Contains(config, s)
  <2>1. Pending' = FeatureSet(s)
    BY <1>3, <1>6 DEF EntrySet
  <2>2. Has(tree, yaml) /\ Text(tree, yaml) = config
    <3>1. config = <<"modules:">> => ~Contains(config, s)
      BY <1>2, TreeAssumption DEF Contains
    <3> QED
      BY <1>6, <3>1 DEF SliceConfig, Text
  <2>3. Fed(s)' /\ Growing(s)'
    BY <1>4, <1>5, <2>1 DEF Fed, Growing
  <2>4. Text(tree, yaml)' = config
    BY <2>2
  <2>5. Entered(s)'
    BY <1>5, <1>6, <2>1, <2>4 DEF Entered
  <2> QED
    BY <1>2, <2>3, <2>5
<1>7. CASE ~Contains(config, s)
  <2> DEFINE entry == Write(yaml, text)
  <2>1. Pending' = FeatureSet(s) \cup {entry}
    BY <1>3, <1>7 DEF EntrySet
  <2>2. entry.op = "write" /\ entry.file = yaml /\ entry.text = text
    BY WriteIs
  <2>3. Contains(text, s)
    <3>1. IsText(config)
      BY <1>0, ConfigIs
    <3>2. s \notin ToSet(config)
      BY <1>7, <3>1, TextContains
    <3>3. IsText(text) /\ s \in ToSet(text)
      BY <1>1, <3>1, <3>2, EntryIs
    <3> HIDE DEF text
    <3> QED
      BY <3>3, TextContains
  <2> HIDE DEF entry, text
  <2>4. Fed(s)'
    BY <1>4, <2>1 DEF Fed
  <2>5. Growing(s)'
    BY <1>4, <1>5, <2>1, <2>2 DEF Growing
  <2>6. Entered(s)'
    BY <1>5, <2>1, <2>2, <2>3 DEF Entered
  <2> QED
    BY <1>2, <2>4, <2>5, <2>6
<1> QED
  BY <1>6, <1>7

\* One of the writes of the slice is done.
LEMMA GrownInside ==
  ASSUME Formed, Inside(Outcome(tree, run)), NEW s, Fed(s), Entered(s), Growing(s)
  PROVE  Fed(s)' /\ Entered(s)' /\ Growing(s)'
<1> DEFINE x == Head(run.extra)
           yaml == App("drel.yaml")
<1>1. run.extra # <<>> /\ run'.extra = Tail(run.extra) /\ tree' = Over(Outcome(tree, run).writes, tree)
  BY DEF Inside, Carries
<1>2. IsText(run.extra) /\ Now(run) = x
  BY <1>1, NowIs DEF Formed, Recorded, IsText
<1>3. Pending = {x} \cup Pending' /\ x \in Pending
  BY <1>1, <1>2, HeadTail DEF Pending
<1> HIDE DEF x
<1>4. x.op = "write" /\ (x.file = yaml \/ \E k \in Pieces : x = Write(<<s, k>>, Source(s)))
  BY <1>3 DEF Growing
<1>5. tree' = Over(File(x.file, x.text), tree)
  BY <1>1, <1>2, <1>4, OutcomeNow, WritesIs
<1>6. Growing(s)'
  BY <1>3 DEF Growing
<1>7. \A k \in Pieces : <<s, k>> # yaml
  BY DEF Pieces, App
<1>8. ASSUME NEW k \in Pieces, Write(<<s, k>>, Source(s)) \notin Pending' PROVE Text(tree, <<s, k>>)' = Source(s)
  <2> DEFINE f == <<s, k>>
  <2>1. CASE x.file = f
    <3>1. PICK j \in Pieces : x = Write(<<s, j>>, Source(s))
      BY <1>4, <1>7, <2>1
    <3>2. x.text = Source(s)
      BY <3>1, WriteIs
    <3> QED
      BY <1>5, <2>1, <3>2, Here
  <2>2. CASE x.file # f
    <3>1. x # Write(f, Source(s))
      BY <2>2, WriteIs
    <3>2. Text(tree, f) = Source(s)
      BY <1>3, <1>8, <3>1 DEF Fed
    <3> QED
      BY <1>5, <2>2, <3>2, Elsewhere
  <2> QED
    BY <2>1, <2>2
<1>9. Fed(s)'
  BY <1>8 DEF Fed
<1>10. \A y \in Pending' : y.file = yaml => Contains(y.text, s)
  BY <1>3 DEF Entered
<1>11. ASSUME \A y \in Pending' : y.file # yaml PROVE Contains(Text(tree, yaml)', s)
  <2>1. CASE x.file = yaml
    <3>1. Contains(x.text, s)
      BY <1>3, <2>1 DEF Entered
    <3>2. Text(tree, yaml)' = x.text
      BY <1>5, <2>1, Here
    <3> QED
      BY <3>1, <3>2
  <2>2. CASE x.file # yaml
    <3>1. Contains(Text(tree, yaml), s)
      BY <1>3, <1>11, <2>2 DEF Entered
    <3>2. Text(tree, yaml)' = Text(tree, yaml)
      BY <1>5, <2>2, Elsewhere
    <3> QED
      BY <3>1, <3>2
  <2> QED
    BY <2>1, <2>2
<1>12. Entered(s)'
  BY <1>10, <1>11 DEF Entered
<1> QED
  BY <1>6, <1>9, <1>12

\* What a generator reads, and what it writes, do not depend on its own files.
LEMMA SameInputs ==
  ASSUME NEW own \in {Codegen, Client},
         \A f : f[2] # own => Text(tree, f)' = Text(tree, f) /\ Has(tree, f)' = Has(tree, f)
  PROVE  /\ Given(tree, own)' = Given(tree, own)
         /\ \A d \in Given(tree, own) : Output(tree, own, d)' = Output(tree, own, d)
<1>1. InputOf(own) # own /\ "model" # own
  BY DEF InputOf, Codegen, Client
<1>2. \A d : <<d, InputOf(own)>>[2] = InputOf(own) /\ <<d, "model">>[2] = "model"
  OBVIOUS
<1>3. \A d : /\ Text(tree, <<d, InputOf(own)>>)' = Text(tree, <<d, InputOf(own)>>)
             /\ Has(tree, <<d, InputOf(own)>>)' = Has(tree, <<d, InputOf(own)>>)
             /\ Text(tree, <<d, "model">>)' = Text(tree, <<d, "model">>)
  BY <1>1, <1>2
<1>4. \A d : HasInput(tree, d, own)' = HasInput(tree, d, own)
  BY <1>3 DEF HasInput
<1>5. Given(tree, own)' = Given(tree, own)
  BY <1>4 DEF Given
<1>6. ASSUME NEW d \in Given(tree, own) PROVE Output(tree, own, d)' = Output(tree, own, d)
  <2> DEFINE f == <<d, InputOf(own)>>
  <2>1. Text(tree, f) # <<>>
    BY DEF Given, HasInput
  <2>2. Has(tree, f) /\ Has(tree, f)'
    BY <1>3, <2>1 DEF Text
  <2>3. tree'[f] = tree[f]
    BY <1>3, <2>2 DEF Text
  <2>4. Emit(tree, d, own)' = Emit(tree, d, own)
    BY <1>3, <2>3 DEF Emit
  <2> QED
    BY <2>4 DEF Output
<1> QED
  BY <1>5, <1>6

\* One of the files that a generator writes is done.
LEMMA EmittingInside ==
  ASSUME Formed, Inside(Outcome(tree, run)), NEW own \in {Codegen, Client}, Emitting(own)
  PROVE  /\ \A f : f[2] # own => Text(tree, f)' = Text(tree, f) /\ Has(tree, f)' = Has(tree, f)
         /\ Emitting(own)'
         /\ \A d \in Given(tree, own) : Emitted(own, d) => Emitted(own, d)'
<1> DEFINE x == Head(run.extra)
<1>1. run.extra # <<>> /\ run'.extra = Tail(run.extra) /\ tree' = Over(Outcome(tree, run).writes, tree)
  BY DEF Inside, Carries
<1>2. IsText(run.extra) /\ Now(run) = x
  BY <1>1, NowIs DEF Formed, Recorded, IsText
<1>3. Pending = {x} \cup Pending' /\ x \in Pending
  BY <1>1, <1>2, HeadTail DEF Pending
<1> HIDE DEF x
<1>4. PICK e \in Given(tree, own) : x = Output(tree, own, e)
  BY <1>3 DEF Emitting
<1>5. x.op = "write" /\ x.file = <<e, own>>
  BY <1>4, WriteIs DEF Output
<1>6. tree' = Over(File(x.file, x.text), tree)
  BY <1>1, <1>2, <1>5, OutcomeNow, WritesIs
<1>7. \A f : f[2] # own => Text(tree, f)' = Text(tree, f) /\ Has(tree, f)' = Has(tree, f)
  <2>1. ASSUME NEW f, f[2] # own PROVE f # x.file
    BY <1>5, <2>1
  <2> QED
    BY <1>6, <2>1, Elsewhere
<1>8. Given(tree, own)' = Given(tree, own) /\ \A d \in Given(tree, own) : Output(tree, own, d)' = Output(tree, own, d)
  BY <1>7, SameInputs
<1>9. Emitting(own)'
  BY <1>3, <1>8 DEF Emitting
<1>10. ASSUME NEW d \in Given(tree, own), Emitted(own, d), Output(tree, own, d) \notin Pending'
       PROVE Done(Output(tree, own, d))'
  <2>0. PICK y : y = Output(tree, own, d)
    OBVIOUS
  <2>1. Output(tree, own, d)' = y /\ y.file = <<d, own>>
    BY <1>8, <2>0, WriteIs DEF Output
  <2>2. CASE y.file = x.file
    <3>1. e = d
      BY <1>5, <2>1, <2>2
    <3>2. x = y
      BY <1>4, <2>0, <3>1
    <3>3. PICK f, text : f = y.file /\ text = y.text /\ tree' = Over(File(f, text), tree)
      BY <1>6, <3>2
    <3>4. Has(tree', y.file) /\ tree'[y.file] = y.text
      BY <3>3, Here DEF Has
    <3> QED
      BY <2>1, <3>4 DEF Done
  <2>3. CASE y.file # x.file
    <3>1. y \notin Pending
      BY <1>3, <1>10, <2>0, <2>3
    <3>2. Has(tree, y.file) /\ tree[y.file] = y.text
      BY <1>10, <2>0, <3>1 DEF Emitted, Done
    <3>3. y.file \in DOMAIN tree' /\ tree'[y.file] = tree[y.file]
      <4>1. DOMAIN File(x.file, x.text) = {x.file}
        BY DEF File
      <4> QED
        BY <1>6, <2>3, <3>2, <4>1, OverNow DEF Has
    <3>4. Has(tree', y.file) /\ tree'[y.file] = y.text
      BY <3>2, <3>3 DEF Has
    <3> QED
      BY <2>1, <3>4 DEF Done
  <2> QED
    BY <2>2, <2>3
<1>11. \A d \in Given(tree, own) : Emitted(own, d) => Emitted(own, d)'
  BY <1>8, <1>10 DEF Emitted
<1> QED
  BY <1>7, <1>9, <1>11

\* A generator that ends well has a file of each package due.
LEMMA EmittingOnward ==
  ASSUME Formed, Onward(Outcome(tree, run)), NEW own \in {Codegen, Client}, Outcome(tree, run) = Build(tree, own)
  PROVE  /\ tree' = tree /\ Readable(tree, own) /\ Emitting(own)'
         /\ \A d \in Given(tree, own) : Emitted(own, d)'
         /\ ~Outcome(tree, run).last
<1> DEFINE out == Outcome(tree, run)
<1>1. out.fault = "none" /\ run'.extra = out.more
  BY DEF Onward, Carries
<1>2. tree' = tree
  BY BuildIs, OnwardNothing
<1>3. Readable(tree, own) /\ ToSet(out.more) = {Output(tree, own, d) : d \in Given(tree, own)} /\ ~out.last
  <2>1. "none" # "code"
    OBVIOUS
  <2> QED
    BY <1>1, <2>1, BuildIs
<1>4. Pending' = {Output(tree, own, d) : d \in Given(tree, own)}
  BY <1>1, <1>3 DEF Pending
<1>5. Given(tree, own)' = Given(tree, own) /\ \A d : Output(tree, own, d)' = Output(tree, own, d)
  BY <1>2
<1>6. Emitting(own)'
  BY <1>4, <1>5 DEF Emitting
<1>7. \A d \in Given(tree, own) : Emitted(own, d)'
  BY <1>4, <1>5 DEF Emitted
<1> QED
  BY <1>2, <1>3, <1>6, <1>7

\* A step that creates only generated files leaves those of a person.
LEMMA PersonsStay ==
  ASSUME Formed, Running, tree' = Over(Outcome(tree, run).writes, tree), NEW f, Persons(f),
         f \in DOMAIN Outcome(tree, run).writes => Now(run).op # "write" /\ Now(run).op \notin Writing \ {"drel", "templ"}
                                                   /\ Now(run).op # "css"
  PROVE  Text(tree, f)' = Text(tree, f) /\ Has(tree, f)' = Has(tree, f)
<1>1. f \notin DOMAIN Outcome(tree, run).writes
  BY Touched DEF Writing
<1> QED
  BY <1>1, TextStays

\* A wiring that stays keeps a module registered.
LEMMA WiredStays ==
  ASSUME NEW s, Wired(s), run.told => run'.told, Text(tree, App("wire.go"))' = Text(tree, App("wire.go"))
  PROVE  Wired(s)'
<1>1. CASE run.told
  BY <1>1 DEF Wired
<1>2. CASE Times(Text(tree, App("wire.go")), s) = 1
  <2>1. Times(Text(tree, App("wire.go"))', s) = 1
    BY <1>2
  <2> QED
    BY <2>1 DEF Wired
<1> QED
  BY <1>1, <1>2 DEF Wired

\* A step of `avero slice` keeps what the steps before it made.
LEMMA GrownStep ==
  ASSUME Formed, Grown, Step
  PROVE  Grown'
<1> DEFINE out == Outcome(tree, run)
           yaml == App("drel.yaml")
           wire == App("wire.go")
           zz == Codegen
<1>1. SUFFICES ASSUME run'.cmd = "slice", run'.code # "failed" PROVE Grown'
  BY DEF Grown, Alive
<1>2. /\ Running /\ out.fault = "none"
      /\ \/ Inside(out) /\ run.extra # <<>>
         \/ /\ Onward(out) /\ run.extra = <<>> /\ Now(run).op = Plans[run.cmd][run.next]
            /\ ~out.last => run'.next = run.next + 1
  BY <1>1, Going
<1>3. FineTree /\ Placed
  BY DEF Formed
<1>4. /\ run.cmd = "slice" /\ run'.arg = run.arg /\ tree' = Over(out.writes, tree)
      /\ run'.told = (run.told \/ out.told) /\ run'.cmd = run.cmd
  BY <1>1, <1>2 DEF Inside, Onward, Carries, SameCommand
<1>14. run.told => run'.told
  BY <1>4
<1>5. PICK s : s = packageOf(run.arg)
  OBVIOUS
<1>6. Target(run) = s /\ Target(run)' = s
  BY <1>4, <1>5 DEF Target
<1>7. Alive("slice")
  BY <1>2, <1>4 DEF Alive, Running
<1>8. /\ run.next > 2 => s \in ToSet(Slices) /\ Fed(s) /\ Entered(s)
      /\ run.next = 3 => Growing(s)
      /\ run.next > 3 => Wired(s)
      /\ run.next > 5 => Migrated(s)
      /\ run.next > 6 => Derived(s)
      /\ run.next > 7 => s \in Given(tree, zz) /\ Emitted(zz, s)
      /\ run.next = 8 => Emitting(zz)
  BY <1>6, <1>7 DEF Grown
<1>9. SUFFICES /\ run'.next > 2 => s \in ToSet(Slices) /\ Fed(s)' /\ Entered(s)'
               /\ run'.next = 3 => Growing(s)'
               /\ run'.next > 3 => Wired(s)'
               /\ run'.next > 5 => Migrated(s)'
               /\ run'.next > 6 => Derived(s)'
               /\ run'.next > 7 => s \in Given(tree, zz)' /\ Emitted(zz, s)'
               /\ run'.next = 8 => Emitting(zz)'
  BY <1>6 DEF Grown
<1>10. Persons(yaml) /\ Persons(wire) /\ Persons(<<s, "migration">>) /\ (\A k \in Pieces : Persons(<<s, k>>))
  BY DEF Persons, Generated, App, Pieces
<1>11. /\ \A k \in Pieces : <<s, k>> # yaml /\ <<s, k>> # wire /\ <<s, k>> # <<s, "migration">>
       /\ yaml # wire /\ yaml # <<s, "migration">> /\ wire # <<s, "migration">>
  BY DEF App, Pieces
<1> HIDE DEF out, yaml, wire
<1>12. CASE Inside(out) /\ run.extra # <<>>
  <2>1. run'.next = run.next /\ run.next \in {3, 8}
    BY <1>3, <1>4, <1>12, PendingAt DEF Inside
  <2>2. CASE run.next = 3
    <3>1. Fed(s)' /\ Entered(s)' /\ Growing(s)'
      BY <1>8, <1>12, <2>2, GrownInside DEF out
    <3> QED
      BY <1>8, <2>1, <2>2, <3>1
  <2>3. CASE run.next = 8
    <3>1. zz \in {Codegen, Client} /\ zz = "zz_generated.go"
      BY DEF Codegen
    <3>2. /\ \A f : f[2] # zz => Text(tree, f)' = Text(tree, f) /\ Has(tree, f)' = Has(tree, f)
          /\ Emitting(zz)' /\ Emitted(zz, s)'
      BY <1>8, <1>12, <2>3, <3>1, EmittingInside DEF out
    <3> HIDE DEF zz
    <3>3. Given(tree, zz)' = Given(tree, zz)
      BY <3>1, <3>2, SameInputs
    <3>4. /\ \A k : <<s, k>>[2] = k
          /\ yaml[2] # zz /\ wire[2] # zz
      BY <3>1 DEF yaml, wire, App
    <3>5. /\ \A k \in Pieces : Text(tree, <<s, k>>)' = Text(tree, <<s, k>>)
          /\ Text(tree, yaml)' = Text(tree, yaml) /\ Text(tree, wire)' = Text(tree, wire)
          /\ \A k \in {"migration", "columns", "set"} : Text(tree, <<s, k>>)' = Text(tree, <<s, k>>)
      BY <3>1, <3>2, <3>4 DEF Pieces
    <3>6. /\ \A x \in Pending : x.op = "write" /\ x.file[2] = zz
      <4>1. \A d : Output(tree, zz, d).op = "write" /\ Output(tree, zz, d).file = <<d, zz>>
        BY WriteIs DEF Output
      <4> QED
        BY <1>8, <2>3, <4>1 DEF Emitting, zz
    <3>7. /\ \A k \in Pieces : Write(<<s, k>>, Source(s)) \notin Pending
          /\ \A x \in Pending : x.file # yaml
      BY <3>1, <3>4, <3>6, WriteIs DEF Pieces
    <3>8. /\ \A k \in Pieces : Text(tree, <<s, k>>) = Source(s)
          /\ Contains(Text(tree, yaml), s)
      BY <1>8, <2>3, <3>7 DEF Fed, Entered, yaml
    <3>9. \A x \in Pending' : x \in Pending
      <4>1. run'.extra = Tail(run.extra) /\ IsText(run.extra)
        BY <1>12 DEF Inside, Formed, Recorded, IsText
      <4> QED
        BY <1>12, <4>1, HeadTail DEF Pending
    <3>10. Fed(s)' /\ Entered(s)'
      BY <3>5, <3>7, <3>8, <3>9 DEF Fed, Entered, yaml
    <3>11. Wired(s)' /\ Migrated(s)' /\ Derived(s)'
      <4>1. Wired(s) /\ Migrated(s) /\ Derived(s)
        BY <1>8, <2>3
      <4>2. Wired(s)'
        BY <1>14, <3>5, <4>1, WiredStays DEF wire
      <4> QED
        BY <3>5, <4>1, <4>2 DEF Migrated, Derived
    <3> QED
      BY <1>8, <2>1, <2>3, <3>2, <3>3, <3>10, <3>11
  <2> QED
    BY <2>1, <2>2, <2>3
<1>13. CASE Onward(out) /\ run.extra = <<>>
  <2>1. /\ Now(run).op = Plans[run.cmd][run.next]
        /\ ~out.last => run'.next = run.next + 1
    BY <1>2, <1>13
  <2>2. \/ At("slice", 1, "drelTool") \/ At("slice", 2, "slice") \/ At("slice", 3, "register") \/ At("slice", 4, "drel")
        \/ At("slice", 5, "migration") \/ At("slice", 6, "drel") \/ At("slice", 7, "codegen")
    BY <1>2, <1>3, <1>4, <1>13, RunsWithin, WhereSlice
  <2>3. Pending = {} /\ run'.extra = out.more
    BY <1>13, EmptySet DEF Pending, Onward
  <2>4. CASE At("slice", 1, "drelTool")
    <3>1. run'.next = 2
      BY <1>13, <2>1, <2>4, ReadsOnly DEF At, Reading, out
    <3> QED
      BY <3>1
  <2>5. CASE At("slice", 2, "slice")
    <3>1. out = WriteSlice(tree, run.arg)
      BY <2>1, <2>5, OutcomeNow DEF At, out
    <3>2. out.writes = <<>> /\ ~out.last
      BY <3>1, RefuseIs, ThenIs DEF WriteSlice
    <3>3. tree' = tree /\ run'.next = 3
      BY <1>13, <2>1, <2>5, <3>2, OnwardNothing DEF At, out
    <3>4. s \in ToSet(Slices) /\ Fed(s)' /\ Entered(s)' /\ Growing(s)'
      BY <1>2, <1>5, <2>3, <3>1, <3>3, GrownSlice DEF out
    <3> QED
      BY <3>3, <3>4
  <2>6. ASSUME run.next \in 3 .. 7
        PROVE  /\ \A k \in Pieces : Text(tree, <<s, k>>) = Source(s)
               /\ Contains(Text(tree, yaml), s) /\ Has(tree, yaml) /\ s \in ToSet(Slices)
               /\ s \in ToSet(Modules(tree))
    <3>1. run.next > 2
      BY <2>6
    <3>2. (\A k \in Pieces : Text(tree, <<s, k>>) = Source(s)) /\ Contains(Text(tree, yaml), s) /\ s \in ToSet(Slices)
      BY <1>8, <2>3, <3>1 DEF Fed, Entered, yaml
    <3>3. Has(tree, yaml)
      BY <3>2 DEF Text, Contains
    <3>4. IsText(Text(tree, yaml))
      BY <1>3, <1>10, TextIs
    <3>5. s \in ToSet(Text(tree, yaml))
      BY <3>2, <3>4, TextContains
    <3> QED
      BY <1>3, <3>2, <3>3, <3>5, ModulesAre DEF yaml
  <2>7. ASSUME run'.extra = <<>>, Text(tree, yaml)' = Text(tree, yaml),
               \A k \in Pieces : Text(tree, <<s, k>>)' = Text(tree, <<s, k>>), run.next \in 3 .. 7
        PROVE  Fed(s)' /\ Entered(s)' /\ s \in ToSet(Slices)
    <3>1. Pending' = {}
      BY <2>7, EmptySet DEF Pending
    <3> QED
      BY <2>6, <2>7, <3>1 DEF Fed, Entered, yaml
  <2>8. CASE At("slice", 3, "register")
    <3>1. out = RegisterSlice(tree, s) /\ run.next = 3
      BY <1>6, <2>1, <2>8, OutcomeNow DEF At, out
    <3>2. PICK text : out = [Nothing EXCEPT !.told = TRUE] \/ (out = Writes(File(wire, text)) /\ Times(text, s) = 1)
      <4>1. out # Fault("format", App("wire.go"))
        BY <1>2, FaultIs
      <4> QED
        BY <1>3, <3>1, <4>1, RegisterIs DEF wire
    <3>3. CASE out = [Nothing EXCEPT !.told = TRUE]
      <4>1. out.writes = <<>> /\ out.more = <<>> /\ ~out.last /\ out.told
        BY <3>3, ToldIs
      <4>2. tree' = tree /\ run'.next = 4 /\ run'.extra = <<>>
        BY <1>13, <2>1, <2>3, <3>1, <4>1, OnwardNothing DEF out
      <4>5. run'.told
        BY <1>4, <4>1
      <4>3. Fed(s)' /\ Entered(s)' /\ s \in ToSet(Slices)
        BY <2>7, <3>1, <4>2
      <4> QED
        BY <4>2, <4>3, <4>5 DEF Wired
    <3>4. CASE out = Writes(File(wire, text)) /\ Times(text, s) = 1
      <4>1. tree' = Over(File(wire, text), tree) /\ ~out.last /\ run'.extra = <<>>
        BY <1>13, <3>4, OnwardWrites DEF out, wire
      <4>2. run'.next = 4
        BY <2>1, <3>1, <4>1
      <4>3. PICK f : f = wire
        OBVIOUS
      <4>4. Text(tree, f)' = text
        BY <4>1, <4>3, Here DEF wire
      <4>5. Wired(s)'
        BY <3>4, <4>3, <4>4 DEF Wired, wire
      <4>6. Text(tree, yaml)' = Text(tree, yaml) /\ \A k \in Pieces : Text(tree, <<s, k>>)' = Text(tree, <<s, k>>)
        BY <1>11, <4>1, Elsewhere DEF wire, yaml
      <4>7. Fed(s)' /\ Entered(s)' /\ s \in ToSet(Slices)
        BY <2>7, <3>1, <4>1, <4>6
      <4> QED
        BY <4>2, <4>5, <4>7
    <3> QED
      BY <3>2, <3>3, <3>4
  <2>9. ASSUME run.next \in {4, 6}, Now(run).op = "drel"
        PROVE  /\ run'.next = run.next + 1 /\ Fed(s)' /\ Entered(s)' /\ Wired(s)' /\ s \in ToSet(Slices)
               /\ Migrated(s) => Migrated(s)' /\ Derived(s)'
    <3>1. out = Drel(tree)
      BY <2>9, OutcomeNow DEF out
    <3>2. ~out.last /\ out.more = <<>>
      <4>1. out = Nothing \/ (\E f : out = Fault("tool", f)) \/ \E w : out = Writes(w)
        BY <3>1 DEF Drel
      <4> QED
        BY <4>1, NothingIs, WritesIs, FaultIs
    <3>3. \A f : Persons(f) => Text(tree, f)' = Text(tree, f)
      BY <1>2, <1>4, <2>9, PersonsStay DEF out, Writing
    <3>4. Fed(s)' /\ Entered(s)' /\ s \in ToSet(Slices)
      BY <1>10, <2>3, <2>7, <2>9, <3>2, <3>3 DEF yaml
    <3>5. Wired(s)'
      <4>1. Wired(s)
        BY <1>8, <2>9
      <4> QED
        BY <1>10, <1>14, <3>3, <4>1, WiredStays DEF wire
    <3>6. ASSUME Migrated(s) PROVE Migrated(s)' /\ Derived(s)'
      <4>1. Migrated(s)'
        BY <1>10, <3>3, <3>6 DEF Migrated
      <4>2. s \in ToSet(Modules(tree)) /\ Text(tree, <<s, "model">>) = Source(s)
        BY <2>6, <2>9 DEF Pieces
      <4>3. Has(tree, <<s, "migration">>) /\ tree[<<s, "migration">>] = Source(s) /\ tree[<<s, "model">>] = Source(s)
        BY <3>6, <4>2, SourceIs DEF Migrated, Text
      <4>4. /\ <<s, "columns">> \in DOMAIN out.writes /\ out.writes[<<s, "columns">>] = Source(s)
            /\ <<s, "set">> \in DOMAIN out.writes /\ out.writes[<<s, "set">>] = Source(s)
        BY <1>2, <3>1, <4>2, <4>3, DrelIs
      <4>5. /\ <<s, "columns">> \in DOMAIN tree' /\ tree'[<<s, "columns">>] = Source(s)
            /\ <<s, "set">> \in DOMAIN tree' /\ tree'[<<s, "set">>] = Source(s)
        BY <1>4, <4>4, OverNow
      <4> QED
        BY <4>1, <4>5 DEF Derived, Text, Has
    <3> QED
      BY <2>1, <3>2, <3>4, <3>5, <3>6
  <2>10. CASE At("slice", 4, "drel")
    <3>1. run.next = 4 /\ Now(run).op = "drel"
      BY <2>1, <2>10 DEF At
    <3> QED
      BY <2>9, <3>1
  <2>11. CASE At("slice", 5, "migration")
    <3>1. out = Migration(tree, s) /\ run.next = 5
      BY <1>6, <2>1, <2>11, OutcomeNow DEF At, out
    <3>2. Has(tree, yaml) /\ Text(tree, <<s, "model">>) = Source(s)
      BY <2>6, <3>1 DEF Pieces
    <3>3. out = Writes(File(<<s, "migration">>, Source(s)))
      <4>1. out = Fault("tool", yaml) \/ out = Writes(File(<<s, "migration">>, Source(s)))
        BY <3>1, <3>2 DEF Migration, yaml
      <4> QED
        BY <1>2, <4>1, FaultIs
    <3>4. tree' = Over(File(<<s, "migration">>, Source(s)), tree) /\ ~out.last /\ run'.extra = <<>>
      BY <1>13, <3>3, OnwardWrites DEF out
    <3>5. Migrated(s)'
      BY <3>4, Here DEF Migrated
    <3>6. /\ Text(tree, yaml)' = Text(tree, yaml) /\ Text(tree, wire)' = Text(tree, wire)
          /\ \A k \in Pieces : Text(tree, <<s, k>>)' = Text(tree, <<s, k>>)
      BY <1>11, <3>4, Elsewhere DEF wire, yaml
    <3>7. Fed(s)' /\ Entered(s)' /\ s \in ToSet(Slices)
      BY <2>7, <3>1, <3>4, <3>6
    <3>8. Wired(s)'
      <4>1. Wired(s)
        BY <1>8, <3>1
      <4> QED
        BY <1>14, <3>6, <4>1, WiredStays DEF wire
    <3>9. run'.next = 6
      BY <2>1, <3>1, <3>4
    <3> QED
      BY <3>5, <3>7, <3>8, <3>9
  <2>12. CASE At("slice", 6, "drel")
    <3>1. run.next = 6 /\ Now(run).op = "drel"
      BY <2>1, <2>12 DEF At
    <3>2. Migrated(s)
      BY <1>8, <3>1
    <3>3. run'.next = 7
      BY <2>9, <3>1
    <3> QED
      BY <2>9, <3>1, <3>2, <3>3
  <2>13. CASE At("slice", 7, "codegen")
    <3>1. out = Build(tree, Codegen) /\ run.next = 7
      BY <2>1, <2>13, OutcomeNow DEF At, out
    <3>2. tree' = tree /\ Emitting(Codegen)' /\ (\A d \in Given(tree, Codegen) : Emitted(Codegen, d)') /\ ~out.last
      BY <1>13, <3>1, EmittingOnward DEF out
    <3>3. run'.next = 8
      BY <2>1, <3>1, <3>2
    <3>4. Text(tree, <<s, "handlers">>) = Source(s)
      BY <2>6, <3>1 DEF Pieces
    <3>5. HasInput(tree, s, Codegen)
      <4>1. Source(s) # <<>> /\ Source(s) # <<"none">>
        BY SourceIs
      <4> QED
        BY <3>4, <4>1 DEF HasInput, InputOf, Codegen
    <3>6. s \in ToSet(Dirs)
      <4>1. IsText(Slices)
        BY TreeAssumption DEF IsText
      <4>2. ToSet(Dirs) = ToSet(<<"payments">>) \cup ToSet(Slices)
        BY <4>1, OneText, ConcatSet DEF Dirs
      <4> QED
        BY <2>6, <3>1, <4>2
    <3>7. s \in Given(tree, Codegen) /\ Given(tree, Codegen)' = Given(tree, Codegen)
      BY <3>2, <3>5, <3>6 DEF Given
    <3>8. Wired(s)' /\ Migrated(s)' /\ Derived(s)'
      <4>1. Wired(s) /\ Migrated(s) /\ Derived(s)
        BY <1>8, <3>1
      <4>2. Wired(s)'
        BY <1>14, <3>2, <4>1, WiredStays
      <4> QED
        BY <3>2, <4>1, <4>2 DEF Migrated, Derived
    <3>9. \A k \in Pieces : Text(tree, <<s, k>>)' = Source(s)
      BY <2>6, <3>1, <3>2
    <3>10. Contains(Text(tree, yaml)', s)
      BY <2>6, <3>1, <3>2 DEF yaml
    <3>11. \A x \in Pending' : x.file # yaml
      <4>1. \A d : Output(tree, Codegen, d)'.file = <<d, Codegen>>
        BY WriteIs DEF Output
      <4>2. \A d : <<d, Codegen>> # yaml
        BY DEF Codegen, yaml, App
      <4> QED
        BY <3>2, <4>1, <4>2 DEF Emitting
    <3>12. Fed(s)' /\ Entered(s)'
      BY <3>9, <3>10, <3>11 DEF Fed, Entered, yaml
    <3> QED
      BY <2>6, <3>1, <3>2, <3>3, <3>7, <3>8, <3>12
  <2> QED
    BY <2>2, <2>4, <2>5, <2>8, <2>10, <2>11, <2>12, <2>13
<1> QED
  BY <1>2, <1>12, <1>13

\* A word that stands, and stands once, is counted once.
LEMMA CountedOnce ==
  ASSUME NEW text, IsText(text), NEW w, Contains(text, w), AtMostOnce(text, w)
  PROVE  Times(text, w) = 1
<1> DEFINE A == ToSet(text)
<1>1. text \in Seq(A)
  BY DEF IsText
<1> HIDE DEF A
<1>2. Place(text, w) \in DOMAIN text /\ text[Place(text, w)] = w
  BY <1>1, PlaceIs
<1> DEFINE i == Place(text, w)
<1>3. Only(text, {text[i]}) = <<text[i]>>
  BY <1>1, <1>2, OnlyOne DEF AtMostOnce
<1>4. Len(<<text[i]>>) = 1
  OBVIOUS
<1> QED
  BY <1>2, <1>3, <1>4 DEF Times

\* At the end of its plan `avero slice` made the whole slice.
LEMMA GrownWhole ==
  ASSUME Formed, Grown
  PROVE  SliceIsWhole
<1> DEFINE s == Target(run)
           yaml == App("drel.yaml")
<1> SUFFICES
      ASSUME Succeeded("slice")
      PROVE  /\ \A k \in {"handlers", "model", "module"} : Has(tree, <<s, k>>)
             /\ Has(tree, yaml) /\ Times(tree[yaml], s) = 1
             /\ \A k \in {"columns", "migration", "set"} : Text(tree, <<s, k>>) = tree[<<s, "model">>]
             /\ Text(tree, <<s, Codegen>>) = Emit(tree, s, Codegen)
             /\ run.told \/ Times(Text(tree, App("wire.go")), s) = 1
  BY DEF SliceIsWhole
<1>1. run.cmd = "slice" /\ run.code = "ok"
  BY DEF Succeeded
<1>2. FineTree /\ Placed
  BY DEF Formed
<1>3. run.next = 8 /\ run.extra = <<>>
  <2>1. run.next = Len(Plans["slice"]) + 1
    BY <1>1, <1>2 DEF Placed
  <2> QED
    BY <1>1, <1>2, <2>1, PlansAre, PlanLengths DEF Placed, Running
<1>4. Alive("slice") /\ Pending = {}
  BY <1>1, <1>3, EmptySet DEF Alive, Pending
<1>5. Fed(s) /\ Entered(s) /\ Wired(s) /\ Migrated(s) /\ Derived(s) /\ Emitted(Codegen, s)
  BY <1>3, <1>4 DEF Grown
<1> HIDE DEF s
<1>6. \A k \in Pieces : Text(tree, <<s, k>>) = Source(s)
  BY <1>4, <1>5 DEF Fed
<1>7. \A k \in Pieces : Has(tree, <<s, k>>) /\ tree[<<s, k>>] = Source(s)
  BY <1>6, SourceIs DEF Text
<1>8. Has(tree, yaml) /\ Times(tree[yaml], s) = 1
  <2>1. Contains(Text(tree, yaml), s)
    BY <1>4, <1>5 DEF Entered
  <2>2. Has(tree, yaml) /\ Text(tree, yaml) = tree[yaml]
    BY <2>1 DEF Text, Contains
  <2>3. Persons(yaml)
    BY DEF Persons, Generated, App
  <2>4. IsText(tree[yaml]) /\ AtMostOnce(tree[yaml], s)
    BY <1>2, <2>2, <2>3 DEF FineTree, Fine, Has
  <2> QED
    BY <2>1, <2>2, <2>4, CountedOnce
<1>9. Text(tree, <<s, Codegen>>) = Emit(tree, s, Codegen)
  <2>1. Done(Output(tree, Codegen, s))
    BY <1>4, <1>5 DEF Emitted
  <2>2. Output(tree, Codegen, s).file = <<s, Codegen>> /\ Output(tree, Codegen, s).text = Emit(tree, s, Codegen)
    BY WriteIs DEF Output
  <2> QED
    BY <2>1, <2>2 DEF Done, Text
<1>10. \A k \in {"columns", "migration", "set"} : Text(tree, <<s, k>>) = tree[<<s, "model">>]
  BY <1>5, <1>7 DEF Migrated, Derived, Pieces
<1> QED
  BY <1>5, <1>7, <1>8, <1>9, <1>10 DEF Wired, Pieces

\* The inductive invariant of `avero slice`.
SliceInv == Formed /\ Grown

\* Every step keeps what `avero slice` made so far.
LEMMA GrownNext ==
  ASSUME SliceInv, [Next]_vars
  PROVE  SliceInv'
<1>0. Formed /\ Grown
  BY DEF SliceInv
<1>1. Formed'
  BY <1>0, FormedNext
<1>2. Grown'
  <2>1. CASE UNCHANGED vars
    BY <1>0, <2>1 DEF vars, Grown, Alive, Target, Fed, Entered, Growing, Wired, Migrated, Derived, Emitted,
       Emitting, Pending,
                      Given, Output, Done, HasInput, Emit
  <2>2. ASSUME NEW cmd \in DOMAIN Plans, NEW arg \in Args[cmd], Start(cmd, arg) PROVE Grown'
    <3>1. run'.next = 1
      BY <2>2, StartIs
    <3> QED
      BY <3>1 DEF Grown
  <2>3. CASE Step
    BY <1>0, <2>3, GrownStep
  <2>4. CASE Break
    <3>1. run'.code = "failed"
      BY <1>0, <2>4, BreakIs DEF Formed, FailsWith
    <3> QED
      BY <3>1 DEF Grown, Alive
  <2>5. CASE Edit
    <3>1. run'.cmd = "none"
      BY <2>5, EditIs
    <3> QED
      BY <3>1 DEF Grown, Alive
  <2> QED
    BY <2>1, <2>2, <2>3, <2>4, <2>5 DEF Next
<1> QED
  BY <1>1, <1>2 DEF SliceInv

\* A slice that `avero slice` wrote is written whole, whatever tree it began in: SliceIsWhole, for any slices
\* and names and any number of commands, edits and deaths.
THEOREM SlicesAreWhole == Spec => []SliceIsWhole
<1>1. Init => SliceInv
  <2>1. ASSUME Init PROVE run.cmd = "none"
    BY <2>1 DEF Init, Idle
  <2> QED
    BY <2>1, FormedInit DEF SliceInv, Grown, Alive
<1>2. SliceInv /\ [Next]_vars => SliceInv'
  BY GrownNext
<1>3. SliceInv => SliceIsWhole
  BY GrownWhole DEF SliceInv
<1> QED
  BY <1>1, <1>2, <1>3, PTL DEF Spec

-----------------------------------------------------------------------------
(* What is generated passes its check. *)

\* The files that the generated ones are made of.
Inputs == {"handlers", "client", "model"}
\* What no generator and no compiler reads.
Products == {App("openapi.json"), Web("sdk"), Web("node_modules"), App("dist"), App("bin")}
Unread == {"openapi.json", "sdk", "node_modules", "dist", "bin"}
\* A generator reads everything, and each of its files stands or is due.
Settled(own) == Readable(tree, own) /\ \A d \in Given(tree, own) : Emitted(own, d)
\* The description stands or is due, when it is wanted.
DescribedWhole ==
    WantsDescription(tree) => /\ Compiles(tree)
                              /\ Described(tree) \in Pending \/ Done(Described(tree))
\* Nothing but the description and the steps after it are due.
Describing == \A x \in Pending : /\ x \in {Described(tree), Op("nodeTool"), Op("install"), Op("frontEnd")}
                                 /\ x = Described(tree) => WantsDescription(tree)

\* While no input of a generator changes, it writes the same files with the same texts.
LEMMA SameGiven ==
  ASSUME NEW own \in {Codegen, Client},
         \A d : \A k \in Inputs :
             Text(tree, <<d, k>>)' = Text(tree, <<d, k>>) /\ Has(tree, <<d, k>>)' = Has(tree, <<d, k>>)
  PROVE  /\ Given(tree, own)' = Given(tree, own)
         /\ \A d \in Given(tree, own) : Output(tree, own, d)' = Output(tree, own, d)
<1>1. InputOf(own) \in Inputs /\ "model" \in Inputs
  BY DEF InputOf, Codegen, Client, Inputs
<1>3. \A d : /\ Text(tree, <<d, InputOf(own)>>)' = Text(tree, <<d, InputOf(own)>>)
             /\ Has(tree, <<d, InputOf(own)>>)' = Has(tree, <<d, InputOf(own)>>)
             /\ Text(tree, <<d, "model">>)' = Text(tree, <<d, "model">>)
  BY <1>1
<1>4. \A d : HasInput(tree, d, own)' = HasInput(tree, d, own)
  BY <1>3 DEF HasInput
<1>5. Given(tree, own)' = Given(tree, own)
  BY <1>4 DEF Given
<1>6. ASSUME NEW d \in Given(tree, own) PROVE Output(tree, own, d)' = Output(tree, own, d)
  <2> DEFINE f == <<d, InputOf(own)>>
  <2>1. Text(tree, f) # <<>>
    BY DEF Given, HasInput
  <2>2. Has(tree, f) /\ Has(tree, f)'
    BY <1>3, <2>1 DEF Text
  <2>3. tree'[f] = tree[f]
    BY <1>3, <2>2 DEF Text
  <2>4. Emit(tree, d, own)' = Emit(tree, d, own)
    BY <1>3, <2>3 DEF Emit
  <2> QED
    BY <2>4 DEF Output
<1> QED
  BY <1>5, <1>6

\* A file that no one reads is written.
LEMMA UnreadWritten ==
  ASSUME NEW f \in Products, NEW text, tree' = Over(File(f, text), tree)
  PROVE  /\ \A g : g # f => Text(tree, g)' = Text(tree, g) /\ Has(tree, g)' = Has(tree, g)
         /\ \A g : g[2] \notin Unread => g # f
         /\ GoFiles(tree)' = GoFiles(tree)
         /\ \A g \in GoFiles(tree) : tree'[g] = tree[g]
<1>1. \A g : g # f => Text(tree, g)' = Text(tree, g) /\ Has(tree, g)' = Has(tree, g)
  BY Elsewhere
<1>2. f[2] \in Unread
  BY DEF Products, Unread, App, Web
<1>3. \A g : g[2] \notin Unread => g # f
  BY <1>2
<1>4. GoKinds \cap Unread = {}
  BY DEF GoKinds, Unread
<1>5. /\ DOMAIN tree' = {f} \cup DOMAIN tree
      /\ \A g \in DOMAIN tree : g # f => tree'[g] = tree[g]
  <2>1. DOMAIN File(f, text) = {f}
    BY DEF File
  <2> QED
    BY <2>1, OverNow
<1>6. GoFiles(tree)' = GoFiles(tree)
  BY <1>2, <1>4, <1>5 DEF GoFiles
<1>7. \A g \in GoFiles(tree) : g \in DOMAIN tree /\ g # f
  BY <1>2, <1>4 DEF GoFiles
<1> QED
  BY <1>1, <1>3, <1>5, <1>6, <1>7

\* So the generators read the same, and the compiler does.
LEMMA UnreadSame ==
  ASSUME NEW f \in Products, NEW text, tree' = Over(File(f, text), tree)
  PROVE  /\ \A own : Readable(tree, own)' = Readable(tree, own)
         /\ Compiles(tree)' = Compiles(tree)
         /\ Describes(tree)' = Describes(tree)
         /\ LoadProject(tree)' = LoadProject(tree)
         /\ Project(tree)' = Project(tree)
<1>1. \A g : g # f => Text(tree, g)' = Text(tree, g) /\ Has(tree, g)' = Has(tree, g)
  BY UnreadWritten
<1>2. \A g : g[2] \notin Unread => g # f
  BY UnreadWritten
<1>3. GoFiles(tree)' = GoFiles(tree) /\ \A g \in GoFiles(tree) : tree'[g] = tree[g]
  BY UnreadWritten
<1>4. ASSUME NEW own PROVE Readable(tree, own)' = Readable(tree, own)
  <2>1. Parsed(tree, own)' = Parsed(tree, own)
    BY <1>3 DEF Parsed
  <2>2. \A g \in Parsed(tree, own) : tree'[g] = tree[g]
    BY <1>3 DEF Parsed
  <2>3. Broken(tree, own)' = Broken(tree, own) /\ Tagged(tree, own)' = Tagged(tree, own)
    BY <2>1, <2>2 DEF Broken, Tagged
  <2> QED
    BY <2>3 DEF Readable
<1>5. \A d : \A k \in {"handlers", "model", "module", "columns", "set", Codegen} :
          Text(tree, <<d, k>>)' = Text(tree, <<d, k>>) /\ Has(tree, <<d, k>>)' = Has(tree, <<d, k>>)
  <2>1. ASSUME NEW d, NEW k \in {"handlers", "model", "module", "columns", "set", Codegen} PROVE <<d, k>> # f
    <3>1. <<d, k>>[2] = k /\ k \notin Unread
      BY DEF Unread, Codegen
    <3> QED
      BY <1>2, <3>1
  <2> QED
    BY <1>1, <2>1
<1>6. \A k \in {"wire.go", "go.mod", "layout.templ", "layout_templ.go", "toaster_templ.go", "avero.json"} :
          Text(tree, App(k))' = Text(tree, App(k)) /\ Has(tree, App(k))' = Has(tree, App(k))
  <2>1. ASSUME NEW k \in {"wire.go", "go.mod", "layout.templ", "layout_templ.go", "toaster_templ.go", "avero.json"}
        PROVE App(k) # f
    <3>1. App(k)[2] = k /\ k \notin Unread
      BY DEF Unread, App
    <3> QED
      BY <1>2, <3>1
  <2> QED
    BY <1>1, <2>1
<1>7. Registered(tree)' = Registered(tree)
  BY <1>6 DEF Registered
<1>8. Describes(tree)' = Describes(tree)
  BY <1>5, <1>7 DEF Describes
<1>9. App("avero.json") \in DOMAIN tree => tree'[App("avero.json")] = tree[App("avero.json")]
  BY <1>6 DEF Text, Has
<1>10. Project(tree)' = Project(tree)
  BY <1>6, <1>9 DEF Project, Has
<1>11. LoadProject(tree)' = LoadProject(tree)
  BY <1>6, <1>9 DEF LoadProject, Has
<1>12. Compiles(tree)' = Compiles(tree)
  <2>1. \A s : Whole(tree, s)' = Whole(tree, s)
    <3>1. \A s : HasInput(tree, s, Codegen)' = HasInput(tree, s, Codegen)
      BY <1>5 DEF HasInput, InputOf, Codegen
    <3> QED
      BY <1>5, <3>1 DEF Whole
  <2>2. Toasts(tree)' = Toasts(tree)
    BY <1>6 DEF Toasts
  <2>3. \A g : Imported(tree, g)' = Imported(tree, g)
    BY <1>7 DEF Imported
  <2>4. /\ Has(tree, App("go.mod"))' = Has(tree, App("go.mod")) /\ Has(tree, App("wire.go"))' = Has(tree, App("wire.go"))
        /\ Has(tree, App("layout.templ"))' = Has(tree, App("layout.templ"))
        /\ Has(tree, App("layout_templ.go"))' = Has(tree, App("layout_templ.go"))
    BY <1>6
  <2> QED
    BY <1>3, <1>7, <2>1, <2>2, <2>3, <2>4 DEF Compiles
<1> QED
  BY <1>4, <1>8, <1>10, <1>11, <1>12

\* The files of a generator stand while a command writes others.
LEMMA SettledStays ==
  ASSUME NEW own \in {Codegen, Client}, Settled(own), Readable(tree, own)',
         \A d : \A k \in Inputs \cup {own} :
             Text(tree, <<d, k>>)' = Text(tree, <<d, k>>) /\ Has(tree, <<d, k>>)' = Has(tree, <<d, k>>),
         \A x \in Pending : x.op = "write" => x.file[2] # own
  PROVE  Settled(own)' /\ \A d \in Given(tree, own) : Done(Output(tree, own, d)) /\ Done(Output(tree, own, d))'
<1>1. Given(tree, own)' = Given(tree, own) /\ \A d \in Given(tree, own) : Output(tree, own, d)' = Output(tree, own, d)
  BY SameGiven
<1>2. ASSUME NEW d \in Given(tree, own) PROVE Done(Output(tree, own, d)) /\ Done(Output(tree, own, d))'
  <2>0. PICK y : y = Output(tree, own, d)
    OBVIOUS
  <2>1. y.op = "write" /\ y.file = <<d, own>>
    BY <2>0, WriteIs DEF Output
  <2>2. y \notin Pending
    BY <2>1
  <2>3. Done(y)
    BY <2>0, <2>2 DEF Settled, Emitted
  <2>4. Text(tree, <<d, own>>)' = Text(tree, <<d, own>>) /\ Has(tree, <<d, own>>)' = Has(tree, <<d, own>>)
    OBVIOUS
  <2>5. <<d, own>> \in DOMAIN tree' /\ tree'[<<d, own>>] = y.text
    BY <2>1, <2>3, <2>4 DEF Done, Text, Has
  <2>6. Has(tree', y.file) /\ tree'[y.file] = y.text
    BY <2>1, <2>5 DEF Has
  <2> QED
    BY <1>1, <2>0, <2>3, <2>6 DEF Done
<1>3. Settled(own)'
  BY <1>1, <1>2 DEF Settled, Emitted
<1> QED
  BY <1>2, <1>3

\* A generator still reads what it read once one of its own files is written.
LEMMA OwnReadable ==
  ASSUME FineTree, NEW own, NEW f, NEW text, f[2] = own, tree' = Over(File(f, text), tree), Readable(tree, own)
  PROVE  Readable(tree, own)'
<1>1. /\ DOMAIN tree' = {f} \cup DOMAIN tree
      /\ \A g \in DOMAIN tree : g # f => tree'[g] = tree[g]
  <2>1. DOMAIN File(f, text) = {f}
    BY DEF File
  <2> QED
    BY <2>1, OverNow
<1>2. Parsed(tree, own)' = Parsed(tree, own)
  BY <1>1 DEF Parsed, GoFiles, IsSource
<1>3. \A g \in Parsed(tree, own) : g # f /\ g \in DOMAIN tree
  BY DEF Parsed, GoFiles, IsSource
<1>4. Broken(tree, own)' = Broken(tree, own) /\ Tagged(tree, own)' = Tagged(tree, own)
  BY <1>1, <1>2, <1>3 DEF Broken, Tagged
<1> QED
  BY <1>4 DEF Readable

\* And once a file of the other one is written that parses.
LEMMA OtherReadable ==
  ASSUME FineTree, NEW own, NEW f, NEW text, Parses(text), f[2] # InputOf(own),
         tree' = Over(File(f, text), tree), Readable(tree, own)
  PROVE  Readable(tree, own)'
<1>1. /\ DOMAIN tree' = {f} \cup DOMAIN tree
      /\ tree'[f] = text
      /\ \A g \in DOMAIN tree : g # f => tree'[g] = tree[g]
  <2>1. DOMAIN File(f, text) = {f} /\ File(f, text)[f] = text
    BY DEF File
  <2>2. PICK w : w = File(f, text)
    OBVIOUS
  <2>3. /\ DOMAIN tree' = DOMAIN w \cup DOMAIN tree
        /\ \A g \in DOMAIN w : tree'[g] = w[g]
        /\ \A g \in DOMAIN tree : g \notin DOMAIN w => tree'[g] = tree[g]
    BY <2>2, OverNow
  <2> QED
    BY <2>1, <2>2, <2>3
<1>2. ASSUME NEW g \in Broken(tree, own)' PROVE g \in Broken(tree, own)
  <2>1. g \in Parsed(tree, own)' /\ ~Parses(tree'[g])
    BY <1>2 DEF Broken
  <2>2. g # f
    BY <1>1, <2>1
  <2>3. g \in Parsed(tree, own) /\ tree'[g] = tree[g]
    BY <1>1, <2>1, <2>2 DEF Parsed, GoFiles, IsSource
  <2> QED
    BY <2>1, <2>3 DEF Broken
<1>3. ASSUME NEW g \in Tagged(tree, own)' PROVE g \in Tagged(tree, own)
  <2>1. g \in Parsed(tree, own)' /\ g[2] = InputOf(own) /\ tree'[g] = <<"fault">>
    BY <1>3 DEF Tagged
  <2>2. g # f
    BY <2>1
  <2>3. g \in Parsed(tree, own) /\ tree'[g] = tree[g]
    BY <1>1, <2>1, <2>2 DEF Parsed, GoFiles, IsSource
  <2> QED
    BY <2>1, <2>3 DEF Tagged
<1> QED
  BY <1>2, <1>3 DEF Readable

\* A generator of which a file is written.
LEMMA SettledInside ==
  ASSUME Formed, Inside(Outcome(tree, run)), NEW own \in {Codegen, Client}, Emitting(own), Settled(own)
  PROVE  Settled(own)'
<1>1. run.extra # <<>> /\ tree' = Over(Outcome(tree, run).writes, tree)
  BY DEF Inside, Carries
<1>2. IsText(run.extra) /\ Now(run) = Head(run.extra)
  BY <1>1, NowIs DEF Formed, Recorded, IsText
<1>3. Head(run.extra) \in Pending
  BY <1>1, <1>2, HeadTail DEF Pending
<1>4. PICK f, text : f[2] = own /\ tree' = Over(File(f, text), tree)
  <2>1. PICK e \in Given(tree, own) : Head(run.extra) = Output(tree, own, e)
    BY <1>3 DEF Emitting
  <2>2. Now(run).op = "write" /\ Now(run).file = <<e, own>>
    BY <1>2, <2>1, WriteIs DEF Output
  <2>3. tree' = Over(File(Now(run).file, Now(run).text), tree)
    BY <1>1, <2>2, OutcomeNow, WritesIs
  <2>4. Now(run).file[2] = own
    BY <2>2
  <2> QED
    BY <2>3, <2>4
<1>5. Readable(tree, own)'
  BY <1>4, OwnReadable DEF Formed, Settled
<1>6. /\ \A f1 : f1[2] # own => Text(tree, f1)' = Text(tree, f1) /\ Has(tree, f1)' = Has(tree, f1)
      /\ \A d \in Given(tree, own) : Emitted(own, d) => Emitted(own, d)'
  BY EmittingInside
<1>7. Given(tree, own)' = Given(tree, own)
  BY <1>6, SameInputs
<1> QED
  BY <1>5, <1>6, <1>7 DEF Settled

\* A file that no one reads is written, and no generator has a file due.
LEMMA UnreadSettled ==
  ASSUME Formed, NEW f \in Products, NEW text, tree' = Over(File(f, text), tree),
         NEW own \in {Codegen, Client}, Settled(own),
         \A x \in Pending : x.op = "write" => x.file[2] # own
  PROVE  Settled(own)'
<1>1. \A g : g[2] \notin Unread => Text(tree, g)' = Text(tree, g) /\ Has(tree, g)' = Has(tree, g)
  BY UnreadWritten
<1>2. \A d : \A k \in Inputs \cup {own} : <<d, k>>[2] = k /\ k \notin Unread
  BY DEF Inputs, Unread, Codegen, Client
<1>3. \A d : \A k \in Inputs \cup {own} :
          Text(tree, <<d, k>>)' = Text(tree, <<d, k>>) /\ Has(tree, <<d, k>>)' = Has(tree, <<d, k>>)
  BY <1>1, <1>2
<1>4. Readable(tree, own)'
  BY UnreadSame DEF Settled
<1> QED
  BY <1>3, <1>4, SettledStays

\* The description stands, or is due, while what no one reads is written, and a description is written as it is.
LEMMA DescribedStays ==
  ASSUME NEW f \in Products, NEW text, tree' = Over(File(f, text), tree),
         f = App("openapi.json") => text = Describes(tree) /\ WantsDescription(tree),
         DescribedWhole, \A x \in Pending : x \in Pending' \/ f = App("openapi.json") \/ x # Described(tree)
  PROVE  DescribedWhole' /\ Described(tree)' = Described(tree) /\ (WantsDescription(tree) => WantsDescription(tree)')
<1> DEFINE api == App("openapi.json")
<1>1. /\ Describes(tree)' = Describes(tree) /\ Compiles(tree)' = Compiles(tree) /\ External(tree)' = External(tree)
      /\ (NodeTool(tree) = Nothing)' = (NodeTool(tree) = Nothing)
  BY UnreadSame DEF External, NodeTool
<1>2. Described(tree)' = Described(tree)
  BY <1>1 DEF Described
<1>3. /\ \A g : g # f => Text(tree, g)' = Text(tree, g) /\ Has(tree, g)' = Has(tree, g)
      /\ Web("openapi-ts.config.ts") # f /\ Web("package.json") # f
  <2>1. Web("openapi-ts.config.ts")[2] \notin Unread /\ Web("package.json")[2] \notin Unread
    BY DEF Unread, Web
  <2> QED
    BY <2>1, UnreadWritten
<1>4. HasScript(tree)' = HasScript(tree) /\
      Has(tree, Web("openapi-ts.config.ts"))' = Has(tree, Web("openapi-ts.config.ts"))
  BY <1>3 DEF HasScript
<1>5. Described(tree).file = api /\ Described(tree).text = Describes(tree)
  BY WriteIs DEF Described
<1>6. CASE f = api
  <2>1. Has(tree, api)' /\ tree'[api] = Describes(tree)
    <3>1. PICK t : t = text /\ t = Describes(tree)
      BY <1>6
    <3> QED
      BY <1>6, <3>1, Here
  <2>2. WantsDescription(tree)' /\ WantsDescription(tree)
    BY <1>6, <2>1 DEF WantsDescription
  <2>3. Done(Described(tree))'
    BY <1>1, <1>2, <1>5, <2>1 DEF Done, Has
  <2> QED
    BY <1>1, <1>2, <2>2, <2>3 DEF DescribedWhole
<1>7. CASE f # api
  <2>1. Has(tree, api)' = Has(tree, api) /\ Text(tree, api)' = Text(tree, api)
    BY <1>3, <1>7
  <2>2. WantsDescription(tree)' = WantsDescription(tree)
    BY <1>1, <1>4, <2>1 DEF WantsDescription
  <2>3. Done(Described(tree)) => Done(Described(tree))'
    <3>1. ASSUME Has(tree, api), tree[api] = Describes(tree) PROVE Has(tree, api)' /\ tree'[api] = Describes(tree)
      BY <2>1, <3>1 DEF Text, Has
    <3> QED
      BY <1>1, <1>2, <1>5, <3>1 DEF Done, Has
  <2>4. Described(tree) \in Pending => Described(tree)' \in Pending'
    BY <1>2, <1>7
  <2> QED
    BY <1>1, <1>2, <2>2, <2>3, <2>4 DEF DescribedWhole
<1> QED
  BY <1>6, <1>7

\* `avero generate` or `avero build` runs or ended well.
Making == run.cmd \in {"generate", "build"} /\ run.code # "failed"
\* Each generator has read everything, its files stand or are due, and the description after them.
Generating ==
    Making =>
       /\ run.next > 1 => LoadProject(tree) = Nothing
       /\ run.next > 4 => Settled(Codegen)
       /\ run.next > 5 => Settled(Client)
       /\ run.next > 6 => DescribedWhole
       /\ run.next > 9 => Compiles(tree)
       /\ run.next = 5 => Emitting(Codegen)
       /\ run.next = 6 => Emitting(Client)
       /\ run.next = 7 => Describing

\* The client that is written parses, as the interface that it is written from does.
LEMMA EmitFull ==
  ASSUME FineTree, Readable(tree, Client), NEW d \in Given(tree, Client)
  PROVE  Parses(Emit(tree, d, Client))
<1> DEFINE f == <<d, "client">>
           text == tree[f]
<1>1. InputOf(Client) = "client" /\ Client # "zz_generated.go"
  BY DEF InputOf, Client
<1>2. Text(tree, f) # <<>>
  BY <1>1 DEF Given, HasInput
<1>3. f \in DOMAIN tree
  BY <1>2 DEF Text, Has
<1>4. Persons(f)
  BY DEF Persons, Generated
<1>5. IsText(text) /\ Parses(text)
  <2>1. f \in Parsed(tree, Client)
    BY <1>3 DEF Parsed, GoFiles, GoKinds, IsSource, Client
  <2> QED
    BY <1>3, <1>4, <2>1 DEF FineTree, Fine, Readable, Broken
<1>6. Emit(tree, d, Client) = text \o <<>>
  BY <1>1 DEF Emit
<1> HIDE DEF text
<1>7. text \o <<>> = text
  <2> DEFINE A == ToSet(text)
             cat == text \o <<>>
  <2>1. text \in Seq(A) /\ <<>> \in Seq(A)
    BY <1>5 DEF IsText
  <2> HIDE DEF A
  <2>2. cat \in Seq(A) /\ Len(cat) = Len(text) /\ \A i \in 1 .. Len(text) : cat[i] = text[i]
    BY <2>1, ConcatIs
  <2> HIDE DEF cat
  <2>3. cat = text
    BY <2>1, <2>2
  <2> QED
    BY <2>3 DEF cat
<1> QED
  BY <1>5, <1>6, <1>7

\* One of the steps that are due is done.
LEMMA GeneratingInside ==
  ASSUME Formed, Running, Making, Generating, Inside(Outcome(tree, run)), Outcome(tree, run).fault = "none"
  PROVE  Generating'
<1> DEFINE out == Outcome(tree, run)
           x == Head(run.extra)
<1>1. /\ run.extra # <<>> /\ run'.extra = Tail(run.extra) /\ tree' = Over(out.writes, tree)
      /\ run'.next = run.next /\ run'.cmd = run.cmd
  BY DEF Inside, Carries, SameCommand
<1>2. IsText(run.extra) /\ Now(run) = x /\ FineTree /\ Placed
  BY <1>1, NowIs DEF Formed, Recorded, IsText
<1>3. Pending = {x} \cup Pending' /\ x \in Pending
  BY <1>1, <1>2, HeadTail DEF Pending
<1>4. run.next \in {5, 6, 7}
  BY <1>1, <1>2, PendingAt DEF Making
<1>5. LoadProject(tree) = Nothing /\ Settled(Codegen)
  BY <1>4 DEF Generating
<1>6. Codegen \in {Codegen, Client} /\ Client \in {Codegen, Client} /\ Codegen # Client
  BY DEF Codegen, Client
<1> HIDE DEF x, out
<1>7. ASSUME NEW own \in {Codegen, Client}, Emitting(own) PROVE Emitting(own)' /\ LoadProject(tree)' = Nothing
  <2>1. Emitting(own)' /\ \A f : f[2] # own => Text(tree, f)' = Text(tree, f) /\ Has(tree, f)' = Has(tree, f)
    BY <1>7, EmittingInside
  <2>2. App("avero.json")[2] # own
    BY DEF App, Codegen, Client
  <2>3. Text(tree, App("avero.json"))' = Text(tree, App("avero.json")) /\
        Has(tree, App("avero.json"))' = Has(tree, App("avero.json"))
    BY <2>1, <2>2
  <2>4. LoadProject(tree)' = LoadProject(tree)
    BY <2>3 DEF LoadProject, Text, Has
  <2> QED
    BY <1>5, <2>1, <2>4
<1>8. CASE run.next = 5
  <2>1. Emitting(Codegen)
    BY <1>8 DEF Generating
  <2>2. Settled(Codegen)'
    BY <1>5, <2>1, SettledInside
  <2> QED
    BY <1>1, <1>6, <1>7, <1>8, <2>1, <2>2 DEF Generating
<1>9. CASE run.next = 6
  <2>1. Emitting(Client) /\ Settled(Client)
    BY <1>9 DEF Generating
  <2>2. Settled(Client)'
    BY <2>1, SettledInside
  <2>3. PICK e \in Given(tree, Client) : x = Output(tree, Client, e)
    BY <1>3, <2>1 DEF Emitting
  <2>4. x.op = "write" /\ x.file = <<e, Client>> /\ Parses(x.text)
    BY <1>2, <2>1, <2>3, WriteIs, EmitFull DEF Output, Settled
  <2>5. PICK f, text : f[2] = Client /\ Parses(text) /\ tree' = Over(File(f, text), tree)
    <3>1. tree' = Over(File(x.file, x.text), tree)
      BY <1>1, <1>2, <2>4, OutcomeNow, WritesIs DEF out
    <3>2. x.file[2] = Client
      BY <2>4
    <3> QED
      BY <2>4, <3>1, <3>2
  <2>6. Readable(tree, Codegen)'
    <3>1. Client # InputOf(Codegen)
      BY DEF Codegen, Client, InputOf
    <3> QED
      BY <1>2, <1>5, <2>5, <3>1, OtherReadable DEF Settled
  <2>7. \A d : \A k \in Inputs \cup {Codegen} :
            Text(tree, <<d, k>>)' = Text(tree, <<d, k>>) /\ Has(tree, <<d, k>>)' = Has(tree, <<d, k>>)
    <3>1. \A f1 : f1[2] # Client => Text(tree, f1)' = Text(tree, f1) /\ Has(tree, f1)' = Has(tree, f1)
      BY <1>6, <2>1, EmittingInside
    <3>2. \A d : \A k \in Inputs \cup {Codegen} : <<d, k>>[2] = k /\ k # Client
      BY DEF Inputs, Codegen, Client
    <3> QED
      BY <3>1, <3>2
  <2>8. \A y \in Pending : y.file[2] # Codegen
    <3>1. \A d : Output(tree, Client, d).file = <<d, Client>>
      BY WriteIs DEF Output
    <3>2. \A d : <<d, Client>>[2] # Codegen
      BY <1>6
    <3> QED
      BY <2>1, <3>1, <3>2 DEF Emitting
  <2>9. Settled(Codegen)'
    BY <1>5, <1>6, <2>6, <2>7, <2>8, SettledStays
  <2> QED
    BY <1>1, <1>6, <1>7, <1>9, <2>1, <2>2, <2>9 DEF Generating
<1>10. CASE run.next = 7
  <2>1. Settled(Client) /\ DescribedWhole /\ Describing
    BY <1>10 DEF Generating
  <2>2. Described(tree).file = App("openapi.json") /\ Described(tree).text = Describes(tree) /\
        Described(tree).op = "write"
    BY WriteIs DEF Described
  <2>3. Op("nodeTool").op = "nodeTool" /\ Op("install").op = "install" /\ Op("frontEnd").op = "frontEnd"
    BY DEF Op
  <2>4. App("openapi.json")[2] # Codegen /\ App("openapi.json")[2] # Client
    BY DEF App, Codegen, Client
  <2>5. \A y \in Pending : y.op = "write" => y.file[2] # Codegen /\ y.file[2] # Client
    BY <2>1, <2>2, <2>3, <2>4 DEF Describing
  <2>6. x = Described(tree) \/ x.op \in {"nodeTool", "install", "frontEnd"}
    BY <1>3, <2>1, <2>3 DEF Describing
  <2>7. \/ tree' = tree /\ x.op # "write"
        \/ \E f \in Products : \E text : /\ tree' = Over(File(f, text), tree)
                                         /\ f = App("openapi.json") => text = Describes(tree) /\ WantsDescription(tree)
                                         /\ f # App("openapi.json") => x.op # "write"
    <3>1. CASE x = Described(tree)
      <4>1. WantsDescription(tree)
        BY <1>3, <2>1, <3>1 DEF Describing
      <4>2. tree' = Over(File(App("openapi.json"), Describes(tree)), tree)
        BY <1>1, <1>2, <2>2, <3>1, OutcomeNow, WritesIs DEF out
      <4> QED
        BY <4>1, <4>2 DEF Products
    <3>2. CASE x.op = "install"
      <4>1. out = Nothing \/ out = Writes(File(Web("node_modules"), <<"read">>))
        BY <1>2, <3>2, OutcomeNow, NodeToolIs, FaultIs DEF Install, out
      <4>2. out = Nothing => tree' = tree
        BY <1>1, <1>2, NothingIs, OverNothing DEF FineTree
      <4>3. out = Writes(File(Web("node_modules"), <<"read">>)) =>
            tree' = Over(File(Web("node_modules"), <<"read">>), tree)
        BY <1>1, WritesIs
      <4>4. Web("node_modules") \in Products /\ Web("node_modules") # App("openapi.json")
        BY DEF Products, Web, App
      <4> QED
        BY <3>2, <4>1, <4>2, <4>3, <4>4
    <3>3. CASE x.op = "frontEnd"
      <4>1. PICK text : out = Fault("tool", Web("node_modules")) \/ out = Writes(File(Web("sdk"), text))
        BY <1>2, <3>3, OutcomeNow DEF ClientOf, out
      <4>2. tree' = Over(File(Web("sdk"), text), tree)
        <5>1. out.fault = "none"
          BY DEF out
        <5> QED
          BY <1>1, <4>1, <5>1, FaultIs, WritesIs
      <4>3. Web("sdk") \in Products /\ Web("sdk") # App("openapi.json")
        BY DEF Products, Web, App
      <4> QED
        BY <3>3, <4>2, <4>3
    <3>4. CASE x.op = "nodeTool"
      <4>1. out = Nothing
        BY <1>2, <3>4, OutcomeNow, NodeToolIs, FaultIs DEF out
      <4>2. tree' = tree
        BY <1>1, <1>2, <4>1, NothingIs, OverNothing DEF FineTree
      <4> QED
        BY <3>4, <4>2
    <3> QED
      BY <2>6, <3>1, <3>2, <3>3, <3>4
  <2>8. CASE tree' = tree /\ x.op # "write"
    <3>1. Settled(Codegen)' /\ Settled(Client)'
      <4>1. ASSUME NEW own \in {Codegen, Client}, Settled(own) PROVE Settled(own)'
        <5>1. \A d : Output(tree, own, d)' = Output(tree, own, d)
          BY <2>8
        <5>2. \A d : Output(tree, own, d).op = "write"
          BY WriteIs DEF Output
        <5>3. \A d : Output(tree, own, d) \in Pending => Output(tree, own, d) \in Pending'
          BY <1>3, <2>8, <5>2
        <5>4. Given(tree, own)' = Given(tree, own) /\ Readable(tree, own)' = Readable(tree, own)
              /\ \A d : Done(Output(tree, own, d))' = Done(Output(tree, own, d))
          BY <2>8 DEF Done
        <5> QED
          BY <4>1, <5>1, <5>3, <5>4 DEF Settled, Emitted
      <4> QED
        BY <1>5, <1>6, <2>1, <4>1
    <3>2. Described(tree) \in Pending => Described(tree)' \in Pending'
      BY <1>3, <2>2, <2>8
    <3>3. DescribedWhole' /\ Describing'
      BY <1>3, <2>1, <2>8, <3>2 DEF DescribedWhole, Describing, Done
    <3>4. LoadProject(tree)' = Nothing
      BY <1>5, <2>8
    <3> QED
      BY <1>1, <1>10, <3>1, <3>3, <3>4 DEF Generating
  <2>9. ASSUME NEW f \in Products, NEW text, tree' = Over(File(f, text), tree),
               f = App("openapi.json") => text = Describes(tree) /\ WantsDescription(tree),
               f # App("openapi.json") => x.op # "write"
        PROVE  Generating'
    <3>1. Settled(Codegen)' /\ Settled(Client)'
      BY <1>5, <1>6, <2>1, <2>5, <2>9, UnreadSettled
    <3>2. DescribedWhole' /\ Described(tree)' = Described(tree) /\ (WantsDescription(tree) => WantsDescription(tree)')
      <4>1. \A y \in Pending : y \in Pending' \/ f = App("openapi.json") \/ y # Described(tree)
        BY <1>3, <2>2, <2>9
      <4> QED
        BY <2>1, <2>9, <4>1, DescribedStays
    <3>3. Describing'
      BY <1>3, <2>1, <3>2 DEF Describing
    <3>4. LoadProject(tree)' = Nothing
      BY <1>5, <2>9, UnreadSame
    <3> QED
      BY <1>1, <1>10, <3>1, <3>2, <3>3, <3>4 DEF Generating
  <2> QED
    BY <2>7, <2>8, <2>9
<1> QED
  BY <1>4, <1>8, <1>9, <1>10

\* No step of the plan takes back what the steps before it made.
LEMMA GeneratingOnward ==
  ASSUME Formed, Running, Making, Generating, Onward(Outcome(tree, run)), Outcome(tree, run).fault = "none"
  PROVE  Generating'
<1> DEFINE out == Outcome(tree, run)
           op == Now(run).op
           json == App("avero.json")
<1>1. /\ run.extra = <<>> /\ run'.extra = out.more /\ tree' = Over(out.writes, tree)
      /\ run'.cmd = run.cmd /\ out.fault = "none"
      /\ run'.next = (IF out.last THEN Len(Plans[run.cmd]) + 1 ELSE run.next + 1)
  BY DEF Onward, Carries, SameCommand
<1>2. FineTree /\ Placed /\ Pending = {}
  BY <1>1, EmptySet DEF Formed, Pending
<1>3. PICK cmd \in {"generate", "build"} : run.cmd = cmd
  BY DEF Making
<1>4. \/ At(cmd, 1, "project") \/ At(cmd, 2, "drel") \/ At(cmd, 3, "templ") \/ At(cmd, 4, "codegen")
      \/ At(cmd, 5, "clients") \/ At(cmd, 6, "describe")
      \/ cmd = "build" /\ (At(cmd, 7, "install") \/ At(cmd, 8, "assets") \/ At(cmd, 9, "compile"))
  BY <1>1, <1>2, <1>3, RunsWithin, WhereGenerate
<1>5. op = Plans[run.cmd][run.next]
  BY <1>1, NowIs
<1>6. Codegen \in {Codegen, Client} /\ Client \in {Codegen, Client}
  OBVIOUS
<1>7. ASSUME NEW own \in {Codegen, Client}, Settled(own), tree' = tree PROVE Settled(own)'
  <2>1. \A d \in Given(tree, own) : Done(Output(tree, own, d))
    BY <1>2, <1>7 DEF Settled, Emitted
  <2>2. /\ Given(tree, own)' = Given(tree, own) /\ Readable(tree, own)' = Readable(tree, own)
        /\ \A d : Done(Output(tree, own, d))' = Done(Output(tree, own, d))
    BY <1>7 DEF Done
  <2> QED
    BY <1>7, <2>1, <2>2 DEF Settled, Emitted
<1> HIDE DEF out, op
<1>8. CASE At(cmd, 1, "project")
  <2>1. out = LoadProject(tree) /\ op = "project"
    BY <1>5, <1>8, OutcomeNow DEF At, out, op
  <2>2. out = Nothing
    BY <1>1, <2>1, ProjectIs, FaultIs
  <2>3. tree' = tree /\ run'.next = 2
    BY <1>1, <1>2, <1>8, <2>2, NothingIs, OverNothing DEF At, FineTree
  <2>4. LoadProject(tree) = Nothing
    BY <2>1, <2>2
  <2>5. LoadProject(tree)' = Nothing
    BY <2>3, <2>4
  <2> QED
    BY <2>3, <2>5 DEF Generating
<1>9. ASSUME op \in {"drel", "templ"} PROVE LoadProject(tree)' = LoadProject(tree) /\ ~out.last
  <2>1. Persons(json)
    BY DEF Persons, Generated, App
  <2>2. Text(tree, json)' = Text(tree, json) /\ Has(tree, json)' = Has(tree, json)
    BY <1>1, <1>9, <2>1, PersonsStay DEF out, op, Writing
  <2>3. LoadProject(tree)' = LoadProject(tree)
    BY <2>2 DEF LoadProject, Text, Has
  <2>4. ~out.last
    <3>1. op = "drel" => out = Nothing \/ (\E f : out = Fault("tool", f)) \/ \E w : out = Writes(w)
      BY OutcomeNow DEF Drel, out, op
    <3>2. op = "templ" => (\E f : out = Fault("tool", f)) \/ \E w : out = Writes(w)
      BY OutcomeNow DEF Templ, out, op
    <3> QED
      BY <1>9, <3>1, <3>2, NothingIs, FaultIs, WritesIs
  <2> QED
    BY <2>3, <2>4
<1>10. CASE At(cmd, 2, "drel") \/ At(cmd, 3, "templ")
  <2>1. run.next \in {2, 3} /\ op \in {"drel", "templ"}
    BY <1>5, <1>10 DEF At
  <2>2. LoadProject(tree) = Nothing
    BY <2>1 DEF Generating
  <2>3. run'.next \in {3, 4}
    BY <1>1, <1>9, <2>1
  <2> QED
    BY <1>9, <2>1, <2>2, <2>3 DEF Generating
<1>11. CASE At(cmd, 4, "codegen")
  <2>1. out = Build(tree, Codegen) /\ run.next = 4
    BY <1>5, <1>11, OutcomeNow DEF At, out, op
  <2>2. tree' = tree /\ Readable(tree, Codegen) /\ Emitting(Codegen)' /\
        (\A d \in Given(tree, Codegen) : Emitted(Codegen, d)') /\ ~out.last
    BY <1>6, <2>1, EmittingOnward DEF out
  <2>3. Settled(Codegen)'
    BY <2>2 DEF Settled
  <2>4. LoadProject(tree)' = Nothing
    BY <2>1, <2>2 DEF Generating
  <2>5. run'.next = 5
    BY <1>1, <2>1, <2>2
  <2> QED
    BY <2>2, <2>3, <2>4, <2>5 DEF Generating
<1>12. CASE At(cmd, 5, "clients")
  <2>1. out = Build(tree, Client) /\ run.next = 5
    BY <1>5, <1>12, OutcomeNow DEF At, out, op
  <2>2. tree' = tree /\ Readable(tree, Client) /\ Emitting(Client)' /\
        (\A d \in Given(tree, Client) : Emitted(Client, d)') /\ ~out.last
    BY <1>6, <2>1, EmittingOnward DEF out
  <2>3. Settled(Client)'
    BY <2>2 DEF Settled
  <2>4. LoadProject(tree)' = Nothing /\ Settled(Codegen)'
    BY <1>6, <1>7, <2>1, <2>2 DEF Generating
  <2>5. run'.next = 6
    BY <1>1, <2>1, <2>2
  <2> QED
    BY <2>2, <2>3, <2>4, <2>5 DEF Generating
<1>13. CASE At(cmd, 6, "describe")
  <2>1. out = Describe(tree) /\ run.next = 6
    BY <1>5, <1>13, OutcomeNow DEF At, out, op
  <2>2. \/ ~WantsDescription(tree) /\ out = Nothing
        \/ /\ WantsDescription(tree) /\ Compiles(tree)
           /\ \E more : /\ out = Then(more) /\ IsText(more) /\ Described(tree) \in ToSet(more)
                        /\ ToSet(more) \subseteq {Described(tree), Op("nodeTool"), Op("install"), Op("frontEnd")}
    <3>1. out # Fault("tool", App("wire.go"))
      BY <1>1, FaultIs
    <3> QED
      BY <2>1, <3>1, DescribeIs
  <2>3. out.writes = <<>> /\ ~out.last
    BY <2>2, NothingIs, ThenIs
  <2>4. tree' = tree /\ run'.next = 7
    BY <1>1, <1>2, <2>1, <2>3, OverNothing DEF FineTree
  <2>5. LoadProject(tree)' = Nothing /\ Settled(Codegen)' /\ Settled(Client)'
    BY <1>6, <1>7, <2>1, <2>4 DEF Generating
  <2>6. Pending' = ToSet(out.more)
    BY <1>1 DEF Pending
  <2>7. DescribedWhole' /\ Describing'
    <3>1. CASE ~WantsDescription(tree) /\ out = Nothing
      <4>1. Pending' = {}
        BY <2>6, <3>1, NothingIs, EmptySet
      <4> QED
        BY <2>4, <3>1, <4>1 DEF DescribedWhole, Describing
    <3>2. CASE ~(~WantsDescription(tree) /\ out = Nothing)
      <4>1. /\ WantsDescription(tree) /\ Compiles(tree) /\ Described(tree) \in Pending'
            /\ Pending' \subseteq {Described(tree), Op("nodeTool"), Op("install"), Op("frontEnd")}
        BY <2>2, <2>6, <3>2, ThenIs
      <4> QED
        BY <2>4, <4>1 DEF DescribedWhole, Describing
    <3> QED
      BY <3>1, <3>2
  <2> QED
    BY <2>4, <2>5, <2>7 DEF Generating
<1>14. ASSUME run.next \in {7, 8, 9}, run'.next = run.next + 1, run'.extra = <<>>,
              tree' = tree \/ \E f \in Products : \E text : f # App("openapi.json") /\ tree' = Over(File(f, text), tree),
              run'.next > 9 => Compiles(tree)
       PROVE  Generating'
  <2>1. LoadProject(tree) = Nothing /\ Settled(Codegen) /\ Settled(Client) /\ DescribedWhole
    BY <1>14 DEF Generating
  <2>2. Pending' = {} /\ run'.next > 7
    BY <1>14, EmptySet DEF Pending
  <2>3. CASE tree' = tree
    <3>1. Settled(Codegen)' /\ Settled(Client)' /\ LoadProject(tree)' = Nothing
      BY <1>6, <1>7, <2>1, <2>3
    <3>2. DescribedWhole'
      BY <1>2, <2>1, <2>3 DEF DescribedWhole, Done
    <3>3. Compiles(tree)' = Compiles(tree)
      BY <2>3
    <3> QED
      BY <1>14, <2>2, <3>1, <3>2, <3>3 DEF Generating
  <2>4. ASSUME NEW f \in Products, NEW text, f # App("openapi.json"), tree' = Over(File(f, text), tree) PROVE Generating'
    <3>1. Settled(Codegen)' /\ Settled(Client)'
      BY <1>2, <1>6, <2>1, <2>4, UnreadSettled
    <3>2. DescribedWhole'
      BY <1>2, <2>1, <2>4, DescribedStays
    <3>3. LoadProject(tree)' = Nothing /\ Compiles(tree)' = Compiles(tree)
      BY <2>1, <2>4, UnreadSame
    <3> QED
      BY <1>14, <2>2, <3>1, <3>2, <3>3 DEF Generating
  <2> QED
    BY <1>14, <2>3, <2>4
<1>15. ASSUME run.next \in {7, 8, 9}, run.next = 9 => Compiles(tree),
              out = Nothing \/ \E f \in Products : \E text : f # App("openapi.json") /\ out = Writes(File(f, text))
       PROVE  Generating'
  <2>1. ~out.last /\ out.more = <<>>
    BY <1>15, NothingIs, WritesIs
  <2>2. run'.next = run.next + 1 /\ run'.extra = <<>>
    BY <1>1, <2>1
  <2>3. tree' = tree \/ \E f \in Products : \E text : f # App("openapi.json") /\ tree' = Over(File(f, text), tree)
    BY <1>1, <1>2, <1>15, NothingIs, WritesIs, OverNothing DEF FineTree
  <2> QED
    BY <1>14, <1>15, <2>2, <2>3
<1>16. CASE At(cmd, 7, "install")
  <2>1. out = Install(tree) /\ run.next = 7
    BY <1>5, <1>16, OutcomeNow DEF At, out, op
  <2>2. Web("node_modules") \in Products /\ Web("node_modules") # App("openapi.json")
    BY DEF Products, Web, App
  <2>3. out = Nothing \/ out = Writes(File(Web("node_modules"), <<"read">>))
    BY <1>1, <2>1, NodeToolIs, FaultIs DEF Install
  <2> QED
    BY <1>15, <2>1, <2>2, <2>3
<1>17. CASE At(cmd, 8, "assets")
  <2>1. out = BuildAssets(tree) /\ run.next = 8
    BY <1>5, <1>17, OutcomeNow DEF At, out, op
  <2>2. App("dist") \in Products /\ App("dist") # App("openapi.json")
    BY DEF Products, App
  <2>3. out = Nothing \/ \E text : out = Writes(File(App("dist"), text))
    BY <1>1, <2>1, NodeToolIs, FaultIs DEF BuildAssets
  <2> QED
    BY <1>15, <2>1, <2>2, <2>3
<1>18. CASE At(cmd, 9, "compile")
  <2>1. out = Compile(tree) /\ run.next = 9
    BY <1>5, <1>18, OutcomeNow DEF At, out, op
  <2>2. App("bin") \in Products /\ App("bin") # App("openapi.json")
    BY DEF Products, App
  <2>3. Compiles(tree) /\ out = Writes(File(App("bin"), Describes(tree)))
    BY <1>1, <2>1, FaultIs DEF Compile
  <2> QED
    BY <1>15, <2>1, <2>2, <2>3
<1> QED
  BY <1>4, <1>8, <1>10, <1>11, <1>12, <1>13, <1>16, <1>17, <1>18

\* A step of `avero generate` or `avero build` keeps what the steps before it made.
LEMMA GeneratingStep ==
  ASSUME Formed, Generating, Step
  PROVE  Generating'
<1> SUFFICES ASSUME Making' PROVE Generating'
  BY DEF Generating
<1>1. run'.code # "failed" /\ run'.cmd \in {"generate", "build"}
  BY DEF Making
<1>2. /\ Running /\ Outcome(tree, run).fault = "none"
      /\ Inside(Outcome(tree, run)) \/ Onward(Outcome(tree, run))
  BY <1>1, Going
<1>3. Making
  BY <1>1, <1>2 DEF Making, Running, Inside, Onward, Carries, SameCommand
<1> QED
  BY <1>2, <1>3, GeneratingInside, GeneratingOnward

\* The file of a generator that settled is not stale.
LEMMA NotStale ==
  ASSUME NEW own, Settled(own), Pending = {}
  PROVE  ~Stale(tree, own)
<1> DEFINE b == Build(tree, own)
<1>1. b.fault = "none" /\ ToSet(b.more) = {Output(tree, own, d) : d \in Given(tree, own)}
  BY BuildIs DEF Settled
<1>2. \A x \in ToSet(b.more) : Done(x)
  BY <1>1 DEF Settled, Emitted
<1> HIDE DEF b
<1>3. \A i \in DOMAIN b.more : Has(tree, b.more[i].file) /\ tree[b.more[i].file] = b.more[i].text
  BY <1>2 DEF ToSet, Done
<1> QED
  BY <1>1, <1>3 DEF Stale, b

\* When the generated files are whole and the application compiles, only what the root does not import can fail.
LEMMA GateIsClean ==
  ASSUME GenerateCheck(tree), Compiles(tree)
  PROVE  /\ ~Contains(Gate(tree), "generate")
         /\ Gate(tree) # <<>> => \E f \in {g \in GoFiles(tree) : ~Imported(tree, g)} \cup Tests(tree) : ~Stands(tree, f)
<1>1. Holds(tree, "generate") /\ (Holds(tree, "build") <=> Builds(tree)) /\ (Holds(tree, "vet") <=> Vets(tree))
  BY DEF Holds
<1>2. ~Contains(Gate(tree), "generate")
  BY <1>1, GateIs
<1>3. ASSUME Gate(tree) # <<>> PROVE ~Vets(tree)
  <2>1. PICK step \in ToSet(Gate(tree)) : TRUE
    <3> DEFINE g == Gate(tree)
    <3>1. IsText(g) /\ g # <<>>
      BY <1>3, GateIs
    <3> HIDE DEF g
    <3>2. g[1] \in ToSet(g)
      BY <3>1 DEF IsText, ToSet
    <3> QED
      BY <3>2 DEF g
  <2>2. step \in {"vet", "build"} /\ ~Holds(tree, step)
    BY <1>1, <2>1, GateIs
  <2> QED
    BY <1>1, <2>2 DEF Vets
<1>4. ASSUME NEW f \in GoFiles(tree), Imported(tree, f) PROVE Stands(tree, f)
  <2>1. Parses(tree[f])
    BY <1>4 DEF Compiles
  <2>2. f[1] \in ToSet(Registered(tree)) \/ f[1] = "app"
    BY <1>4 DEF Imported, App
  <2>3. f[1] \in ToSet(Slices) => f[1] \in ToSet(Registered(tree))
    BY <2>2, TreeAssumption
  <2> QED
    BY <2>1, <2>3 DEF Compiles, Stands
<1>5. ASSUME ~Vets(tree) PROVE \E f \in {g \in GoFiles(tree) : ~Imported(tree, g)} \cup Tests(tree) : ~Stands(tree, f)
  <2>1. PICK f \in GoFiles(tree) \cup Tests(tree) : ~Stands(tree, f)
    BY <1>5 DEF Vets, Builds
  <2> QED
    BY <1>4, <2>1
<1> QED
  BY <1>2, <1>3, <1>5

\* At the end of its plan the command left what the check proves.
LEMMA GeneratedPasses ==
  ASSUME Formed, Generating
  PROVE  CheckAfterGenerate
<1>1. FineTree /\ Placed
  BY DEF Formed
<1>2. ASSUME NEW cmd \in {"generate", "build"}, Succeeded(cmd)
      PROVE  CheckPasses(tree) /\ (cmd = "build" => GenerateCheck(tree) /\ Compiles(tree))
  <2>1. run.cmd = cmd /\ run.code = "ok"
    BY <1>2 DEF Succeeded
  <2>2. Making /\ Pending = {}
    BY <1>1, <2>1, EmptySet DEF Making, Placed, Running, Pending
  <2>3. run.next = IF cmd = "build" THEN 10 ELSE 7
    <3>1. Len(Plans[cmd]) = IF cmd = "build" THEN 9 ELSE 6
      BY <1>2, PlansAre, LengthsAre DEF Lengths
    <3> QED
      BY <1>1, <1>2, <2>1, <3>1 DEF Placed
  <2>4. /\ LoadProject(tree) = Nothing /\ Settled(Codegen) /\ Settled(Client) /\ DescribedWhole
        /\ cmd = "build" => Compiles(tree)
    BY <2>2, <2>3 DEF Generating
  <2>5. GenerateCheck(tree)
    BY <2>2, <2>4, NotStale DEF GenerateCheck
  <2>6. CheckDescription(tree)
    <3>1. Described(tree).file = App("openapi.json") /\ Described(tree).text = Describes(tree)
      BY WriteIs DEF Described
    <3> QED
      BY <2>2, <2>4, <3>1 DEF DescribedWhole, CheckDescription, Done
  <2> QED
    BY <2>4, <2>5, <2>6 DEF CheckPasses
<1>3. ASSUME GenerateCheck(tree), Compiles(tree)
      PROVE  /\ ~Contains(Gate(tree), "generate")
             /\ Gate(tree) # <<>> => \E f \in {g \in GoFiles(tree) : ~Imported(tree, g)} \cup Tests(tree) : ~Stands(tree, f)
  BY <1>3, GateIsClean
<1> QED
  BY <1>2, <1>3 DEF CheckAfterGenerate

\* The inductive invariant of `avero generate` and `avero build`.
CheckInv == Formed /\ Generating

\* Every step keeps what `avero generate` or `avero build` made so far.
LEMMA GeneratingNext ==
  ASSUME CheckInv, [Next]_vars
  PROVE  CheckInv'
<1>0. Formed /\ Generating
  BY DEF CheckInv
<1>1. Formed'
  BY <1>0, FormedNext
<1>2. Generating'
  <2>1. CASE UNCHANGED vars
    BY <1>0, <2>1 DEF vars, Generating, Making, Settled, Emitted, Emitting, Pending, DescribedWhole, Describing, Done
  <2>2. ASSUME NEW cmd \in DOMAIN Plans, NEW arg \in Args[cmd], Start(cmd, arg) PROVE Generating'
    <3>1. run'.next = 1
      BY <2>2, StartIs
    <3> QED
      BY <3>1 DEF Generating
  <2>3. CASE Step
    BY <1>0, <2>3, GeneratingStep
  <2>4. CASE Break
    <3>1. run'.code = "failed"
      BY <1>0, <2>4, BreakIs DEF Formed, FailsWith
    <3> QED
      BY <3>1 DEF Generating, Making
  <2>5. CASE Edit
    <3>1. run'.cmd = "none"
      BY <2>5, EditIs
    <3> QED
      BY <3>1 DEF Generating, Making
  <2> QED
    BY <2>1, <2>2, <2>3, <2>4, <2>5 DEF Next
<1> QED
  BY <1>1, <1>2 DEF CheckInv

\* What `avero generate` and `avero build` leave behind when they end well is what `avero generate --check` proves,
\* from whatever tree they began in; and after a build the gate fails at most over a package or a test that the root
\* does not import.  This is CheckAfterGenerate, for any slices and any number of commands, edits and deaths.
THEOREM GeneratedIsChecked == Spec => []CheckAfterGenerate
<1>1. Init => CheckInv
  <2>1. ASSUME Init PROVE run.cmd = "none"
    BY <2>1 DEF Init, Idle
  <2> QED
    BY <2>1, FormedInit DEF CheckInv, Generating, Making
<1>2. CheckInv /\ [Next]_vars => CheckInv'
  BY GeneratingNext
<1>3. CheckInv => CheckAfterGenerate
  BY GeneratedPasses DEF CheckInv
<1> QED
  BY <1>1, <1>2, <1>3, PTL DEF Spec

-----------------------------------------------------------------------------
(* The requests that the development loop holds. *)

\* While a request counts as let through by a healthy restart, that restart's
\* child is up, the loop is not about to start another one, and the request is
\* on its way to the child, inside it or answered.
SafeShape ==
  /\ DOMAIN tab = Tabs
  /\ safe \subseteq Tabs
  /\ \A t \in safe : tab[t] \in {"through", "inside", "current"}
  /\ safe # {} => child = "up" /\ ~booting /\ loop \notin {"launch", "health"}

\* The watcher and the tree leave the requests alone.
LEMMA WatchStepSafe ==
  ASSUME SafeShape, NEW k, Deafen \/ Save(k) \/ Drain(k)
  PROVE  SafeShape'
BY DEF SafeShape, Deafen, Save, Drain, loopVars, pageVars

\* A step of the loop ends the child only with the requests in it, and starts
\* one only when none counts.
LEMMA LoopStepSafe ==
  ASSUME SafeShape, LoopStep
  PROVE  SafeShape'
<1> USE DEF SafeShape, loopVars, pageVars
<1>1. CASE NextWakes \/ Take \/ Stamp \/ Read \/ Sweep \/ AssetsRead
  BY <1>1 DEF NextWakes, Take, Stamp, Read, Sweep, AssetsRead
<1>2. CASE Built
  BY <1>2 DEF Built
<1>3. CASE BuildFails
  BY <1>3 DEF BuildFails, Fails, Release
<1>4. CASE Stop
  BY <1>4 DEF Stop, ChildEnds
<1>5. CASE Launch
  BY <1>5 DEF Launch
<1>6. CASE StartFails
  BY <1>6 DEF StartFails, Fails, Release
<1>7. CASE Healthy
  <2>1. safe' = {t \in Tabs : tab[t] = "waiting"} /\ child' = "up" /\ ~booting' /\ loop' \notin {"launch", "health"}
    BY <1>7 DEF Healthy
  <2>2. tab' = [t \in Tabs |-> IF tab[t] = "waiting" THEN "through" ELSE tab[t]]
    BY <1>7 DEF Healthy, Release
  <2> QED
    BY <2>1, <2>2
<1>8. CASE Announce \/ AssetsBuilt \/ AssetsFail
  BY <1>8 DEF Announce, AssetsBuilt, AssetsFail, Fails
<1> HIDE DEF SafeShape
<1> QED
  BY <1>1, <1>2, <1>3, <1>4, <1>5, <1>6, <1>7, <1>8 DEF LoopStep

\* A page that asks anew counts no more, and a request on its way to a child
\* that is up gets into it.
LEMMA PageStepSafe ==
  ASSUME SafeShape, NEW t \in Tabs, Load(t) \/ WaitEnds(t) \/ Disconnect(t) \/ PageStep(t)
  PROVE  SafeShape'
<1> USE DEF SafeShape, loopVars
<1>1. ASSUME Ask(t), UNCHANGED <<loop, booting, child>>
      PROVE  SafeShape'
  BY <1>1 DEF Ask
<1>2. CASE Load(t)
  BY <1>1, <1>2 DEF Load, LoadAnew
<1>3. CASE WaitEnds(t) \/ PassGate(t)
  BY <1>3 DEF WaitEnds, PassGate
<1>4. CASE Disconnect(t) \/ Connect(t)
  BY <1>4 DEF Disconnect, Connect
<1>5. CASE Forward(t)
  BY <1>5 DEF Forward
<1>6. CASE Answer(t)
  BY <1>6 DEF Answer
<1>7. CASE Receive(t)
  <2>1. UNCHANGED <<loop, booting, child>> /\ (Ask(t) \/ UNCHANGED <<tab, safe>>)
    BY <1>7 DEF Receive, LoadAnew
  <2>2. CASE UNCHANGED <<tab, safe>>
    BY <2>1, <2>2
  <2> QED
    BY <1>1, <2>1, <2>2
<1> HIDE DEF SafeShape
<1> QED
  BY <1>2, <1>3, <1>4, <1>5, <1>6, <1>7 DEF PageStep, Request

\* A request that a healthy restart lets go on from the gate reaches the child
\* that came up, as long as that child lives, whatever the loop, the timers and
\* the other pages do.
THEOREM HeldRequestsAreAnswered == DevSpec => []HeldRequestsAnswered
<1>1. DevInit => SafeShape
  BY DEF DevInit, SafeShape
<1>2. SafeShape /\ [DevNext]_devVars => SafeShape'
  <2> SUFFICES ASSUME SafeShape, [DevNext]_devVars PROVE SafeShape'
    OBVIOUS
  <2>1. CASE ChildAnswers
    BY <2>1 DEF ChildAnswers, SafeShape, loopVars, pageVars
  <2>2. CASE ChildDies
    BY <2>2 DEF ChildDies, ChildEnds, SafeShape, loopVars
  <2>3. CASE UNCHANGED devVars
    BY <2>3 DEF devVars, SafeShape, loopVars, pageVars
  <2> QED
    BY <2>1, <2>2, <2>3, WatchStepSafe, LoopStepSafe, PageStepSafe DEF DevNext
<1>3. SafeShape => HeldRequestsAnswered
  BY DEF SafeShape, HeldRequestsAnswered
<1> QED
  BY <1>1, <1>2, <1>3, PTL DEF DevSpec
=============================================================================
