----------------------- MODULE HuggingFaceServerProofs ------------------------
(***************************************************************************)
(* Theorems about the completions, for any requests and any length of the  *)
(* context. By the transformers library: what a client is given, at once   *)
(* or as a stream, belongs to its own request. By the vLLM engine: a       *)
(* stream adds up to the answer that is not streamed.                      *)
(***************************************************************************)
EXTENDS HuggingFaceServer, SequenceTheorems, FunctionTheorems, FiniteSetTheorems, TLAPS

-----------------------------------------------------------------------------
(* Parts of an output.                                                     *)

\* The tokens of a text: what it is made of is not of interest here.
LEMMA PartOfNone ==
  ASSUME NEW s, NEW a \in Int
  PROVE  IsPart(s, <<>>, a, a)
BY DEF IsPart

LEMMA PartsJoin ==
  ASSUME NEW S, NEW s, NEW x \in Seq(S), NEW y \in Seq(S),
         NEW a \in Int, NEW b \in Int, NEW c \in Int,
         IsPart(s, x, a, b), IsPart(s, y, b, c)
  PROVE  IsPart(s, x \o y, a, c)
<1>1. /\ Len(x) \in Nat /\ Len(y) \in Nat /\ Len(x \o y) = Len(x) + Len(y)
      /\ \A i \in 1..(Len(x) + Len(y)) :
           (x \o y)[i] = IF i <= Len(x) THEN x[i] ELSE y[i - Len(x)]
  BY ConcatProperties, LenProperties
<1>2. Len(x \o y) = c - a
  BY <1>1 DEF IsPart
<1>3. ASSUME NEW i \in 1..Len(x \o y)
      PROVE  (x \o y)[i] = TokenAt(s, a + i)
  <2>1. CASE i <= Len(x)
    BY <1>1, <2>1 DEF IsPart
  <2>2. CASE i > Len(x)
    <3>1. i - Len(x) \in 1..Len(y) /\ b + (i - Len(x)) = a + i
      BY <1>1, <2>2 DEF IsPart
    <3>2. y[i - Len(x)] = TokenAt(s, b + (i - Len(x)))
      BY <3>1 DEF IsPart
    <3>3. (x \o y)[i] = y[i - Len(x)]
      BY <1>1, <2>2
    <3> QED
      BY <3>1, <3>2, <3>3
  <2> QED
    BY <1>1, <2>1, <2>2
<1> QED
  BY <1>2, <1>3 DEF IsPart

\* A text that is cut in two.
LEMMA PartSplits ==
  ASSUME NEW S, NEW s, NEW x \in Seq(S), NEW a \in Int, NEW b \in Int,
         IsPart(s, x, a, b), NEW k \in 0..Len(x)
  PROVE  /\ SubSeq(x, 1, k) \in Seq(S) /\ SubSeq(x, k + 1, Len(x)) \in Seq(S)
         /\ IsPart(s, SubSeq(x, 1, k), a, a + k)
         /\ IsPart(s, SubSeq(x, k + 1, Len(x)), a + k, b)
<1> DEFINE l == SubSeq(x, 1, k)
           r == SubSeq(x, k + 1, Len(x))
<1>1. Len(x) \in Nat /\ Len(x) = b - a /\ \A i \in 1..Len(x) : x[i] = TokenAt(s, a + i)
  BY LenProperties DEF IsPart
<1>2. /\ l \in Seq(S) /\ Len(l) = k
      /\ \A i \in 1..k : l[i] = x[i]
  <2>1. \A i \in 1..k : x[i] \in S
    BY <1>1, ElementOfSeq
  <2> QED
    BY <1>1, <2>1
<1>3. /\ r \in Seq(S) /\ Len(r) = Len(x) - k
      /\ \A i \in 1..(Len(x) - k) : r[i] = x[k + i]
  <2>1. \A i \in (k + 1)..Len(x) : x[i] \in S
    BY <1>1, ElementOfSeq
  <2> QED
    BY <1>1, <2>1
<1> HIDE DEF l, r
<1>4. IsPart(s, l, a, a + k)
  BY <1>1, <1>2 DEF IsPart
<1>5. IsPart(s, r, a + k, b)
  <2>1. Len(r) = b - (a + k)
    BY <1>1, <1>3
  <2>2. ASSUME NEW i \in 1..Len(r)
        PROVE  r[i] = TokenAt(s, (a + k) + i)
    <3>1. k + i \in 1..Len(x) /\ a + (k + i) = (a + k) + i
      BY <1>1, <1>3
    <3> QED
      BY <1>1, <1>3, <3>1
  <2> QED
    BY <2>1, <2>2 DEF IsPart
<1> QED
  BY <1>2, <1>3, <1>4, <1>5 DEF l, r

-----------------------------------------------------------------------------
(* Items on their way.                                                     *)

\* What a list of items may be: texts and, at the end, None.
Items == Seq(Texts \cup {None})

LEMMA NoneIsNoText ==
  /\ None \notin Texts
  /\ \A x \in Texts \cup {None} : x # None => x \in Texts
<1>1. \A x \in Texts : x \in Seq(Nat)
  BY GenerativeModelAssumption DEF Texts
<1> QED
  BY <1>1, GenerativeModelAssumption

\* Nothing is on its way of an output that has not begun.
LEMMA NothingContinues ==
  ASSUME NEW s
  PROVE  Continues(s, <<>>, <<>>, <<>>, 0)
<1> DEFINE cut == [i \in 1..1 |-> 0]
<1>1. cut \in [1..(Len(<<>>) + 1) -> 0..0]
  OBVIOUS
<1>2. CutAt(s, <<>>, <<>>, <<>>, 0, cut)
  BY PartOfNone DEF CutAt
<1> QED
  BY <1>1, <1>2 DEF Continues

\* What a client has is the beginning of the output.
LEMMA ContinuesText ==
  ASSUME NEW s, NEW x \in Texts, NEW q \in Items, NEW y \in Texts, NEW e \in Nat,
         Continues(s, x, q, y, e)
  PROVE  IsPart(s, x, 0, Len(x)) /\ Len(x) <= e
<1>1. PICK cut \in [1..(Len(q) + 1) -> 0..e] : CutAt(s, x, q, y, e, cut)
  BY DEF Continues
<1>2. Len(q) \in Nat /\ Len(x) \in Nat
  BY LenProperties DEF Items, Texts
<1>3. cut[1] \in 0..e
  BY <1>2
<1>4. Len(x) = cut[1] /\ IsPart(s, x, 0, Len(x))
  BY <1>1, <1>2, <1>3 DEF CutAt, IsPart
<1> QED
  BY <1>3, <1>4

\* When only the end is on its way and nothing is kept back, it is all of it.
LEMMA ContinuesWhole ==
  ASSUME NEW s, NEW x \in Texts, NEW q \in Items, NEW e \in Nat,
         Continues(s, x, q, <<>>, e),
         q # <<>>, Head(q) = None
  PROVE  Len(x) = e
<1>1. PICK cut \in [1..(Len(q) + 1) -> 0..e] : CutAt(s, x, q, <<>>, e, cut)
  BY DEF Continues
<1>2. Len(q) \in Nat /\ Len(q) >= 1 /\ q[1] = None
  BY EmptySeq, LenProperties DEF Items
<1>3. 1 = Len(q) /\ cut[2] = cut[1]
  <2>1. 1 \in 1..Len(q)
    BY <1>2
  <2>2. IF q[1] = None THEN 1 = Len(q) /\ cut[1 + 1] = cut[1]
        ELSE IsPart(s, q[1], cut[1], cut[1 + 1])
    BY <1>1, <2>1 DEF CutAt
  <2> QED
    BY <1>2, <2>2
<1>4. Len(q) + 1 = 2
  <2>1. Len(q) = 1
    BY <1>3
  <2> QED
    BY <2>1, Z3
<1>5. cut[1] \in 0..e /\ cut[2] \in 0..e
  BY <1>4
<1>6. Len(x) = cut[1]
  BY <1>1, <1>5 DEF CutAt, IsPart
<1>7. 0 = e - cut[2]
  <2>1. IsPart(s, <<>>, cut[2], e)
    BY <1>1, <1>4 DEF CutAt
  <2> QED
    BY <2>1 DEF IsPart
<1> QED
  BY <1>3, <1>5, <1>6, <1>7

\* The streamer is given tokens up to e2 and puts the first k of the text it then
\* has.
LEMMA ContinuesPut ==
  ASSUME NEW s, NEW x \in Texts, NEW q \in Items, NEW y \in Texts, NEW e \in Nat,
         Continues(s, x, q, y, e),
         \A i \in 1..Len(q) : q[i] # None,
         NEW t \in Texts, NEW e2 \in Nat, e <= e2,
         \A a \in Int : IsPart(s, y, a, e) => IsPart(s, t, a, e2),
         NEW k \in 0..Len(t)
  PROVE  Continues(s, x, Append(q, SubSeq(t, 1, k)), SubSeq(t, k + 1, Len(t)), e2)
<1> DEFINE n == Len(q)
           l == SubSeq(t, 1, k)
           r == SubSeq(t, k + 1, Len(t))
           new == Append(q, l)
<1>1. PICK cut \in [1..(n + 1) -> 0..e] : CutAt(s, x, q, y, e, cut)
  BY DEF Continues
<1>2. n \in Nat /\ Len(t) \in Nat
  BY LenProperties DEF Items, Texts
<1>3. \A i \in 1..(n + 1) : cut[i] \in 0..e
  OBVIOUS
<1>4. IsPart(s, t, cut[n + 1], e2)
  BY <1>1, <1>2, <1>3 DEF CutAt
<1>5. /\ l \in Texts
      /\ IsPart(s, l, cut[n + 1], cut[n + 1] + k)
      /\ IsPart(s, r, cut[n + 1] + k, e2)
  <2>1. t \in Seq(0..MaxLength) /\ cut[n + 1] \in Int /\ e2 \in Int
    BY <1>2, <1>3 DEF Texts
  <2> QED
    BY <1>4, <2>1, PartSplits DEF Texts
<1>6. Len(t) = e2 - cut[n + 1]
  BY <1>4 DEF IsPart
<1> HIDE DEF l, r
<1>7. /\ Len(new) = n + 1
      /\ \A i \in 1..n : new[i] = q[i]
      /\ new[n + 1] = l
  BY <1>2, <1>5, AppendProperties DEF Items
<1> DEFINE cut2 == [i \in 1..(n + 2) |-> IF i = n + 2 THEN cut[n + 1] + k ELSE cut[i]]
<1> HIDE DEF n, new
<1>8. /\ cut2 \in [1..(n + 2) -> 0..e2]
      /\ \A i \in 1..(n + 1) : cut2[i] = cut[i]
      /\ cut2[n + 2] = cut[n + 1] + k
  BY <1>2, <1>3, <1>6
<1> HIDE DEF cut2
<1>9. CutAt(s, x, new, r, e2, cut2)
  <2>1. IsPart(s, x, 0, cut2[1])
    BY <1>1, <1>2, <1>8 DEF CutAt
  <2>2. ASSUME NEW i \in 1..n
        PROVE  new[i] # None /\ IsPart(s, new[i], cut2[i], cut2[i + 1])
    <3>1. q[i] # None /\ cut2[i] = cut[i] /\ cut2[i + 1] = cut[i + 1] /\ new[i] = q[i]
      BY <1>2, <1>7, <1>8 DEF n
    <3> QED
      BY <1>1, <3>1 DEF CutAt, n
  <2>3. new[n + 1] # None /\ IsPart(s, new[n + 1], cut2[n + 1], cut2[n + 2])
    BY <1>2, <1>5, <1>7, <1>8, NoneIsNoText
  <2>4. IsPart(s, r, cut2[Len(new) + 1], e2)
    BY <1>2, <1>5, <1>7, <1>8
  <2>5. \A i \in 1..Len(new) : i \in 1..n \/ i = n + 1
    BY <1>2, <1>7
  <2>6. (n + 1) + 1 = n + 2
    BY <1>2
  <2> QED
    BY <2>1, <2>2, <2>3, <2>4, <2>5, <2>6 DEF CutAt
<1> QED
  BY <1>2, <1>7, <1>8, <1>9 DEF Continues, l, r, new

\* The streamer puts what it kept back, and the end.
LEMMA ContinuesEnd ==
  ASSUME NEW s, NEW x \in Texts, NEW q \in Items, NEW y \in Texts, NEW e \in Nat,
         Continues(s, x, q, y, e),
         \A i \in 1..Len(q) : q[i] # None
  PROVE  Continues(s, x, q \o <<y, None>>, <<>>, e)
<1> DEFINE n == Len(q)
           new == q \o <<y, None>>
<1>1. PICK cut \in [1..(n + 1) -> 0..e] : CutAt(s, x, q, y, e, cut)
  BY DEF Continues
<1>2. n \in Nat /\ y # None
  BY NoneIsNoText, LenProperties DEF Items
<1>3. \A i \in 1..(n + 1) : cut[i] \in 0..e
  OBVIOUS
<1>4. IsPart(s, y, cut[n + 1], e)
  BY <1>1 DEF CutAt
<1>5. /\ Len(new) = n + 2
      /\ \A i \in 1..n : new[i] = q[i]
      /\ new[n + 1] = y /\ new[n + 2] = None
  <2>1. <<y, None>> \in Items
    BY DEF Items
  <2> QED
    BY <1>2, <2>1 DEF Items
<1> DEFINE cut2 == [i \in 1..(n + 3) |-> IF i > n + 1 THEN e ELSE cut[i]]
<1> HIDE DEF n, new
<1>6. /\ cut2 \in [1..(n + 3) -> 0..e]
      /\ \A i \in 1..(n + 1) : cut2[i] = cut[i]
      /\ cut2[n + 2] = e /\ cut2[n + 3] = e
  BY <1>2, <1>3
<1> HIDE DEF cut2
<1>7. CutAt(s, x, new, <<>>, e, cut2)
  <2>1. IsPart(s, x, 0, cut2[1])
    BY <1>1, <1>2, <1>6 DEF CutAt
  <2>2. ASSUME NEW i \in 1..n
        PROVE  new[i] # None /\ IsPart(s, new[i], cut2[i], cut2[i + 1])
    <3>1. q[i] # None /\ cut2[i] = cut[i] /\ cut2[i + 1] = cut[i + 1] /\ new[i] = q[i]
      BY <1>2, <1>5, <1>6 DEF n
    <3> QED
      BY <1>1, <3>1 DEF CutAt, n
  <2>3. new[n + 1] # None /\ IsPart(s, new[n + 1], cut2[n + 1], cut2[n + 2])
    BY <1>2, <1>4, <1>5, <1>6
  <2>4. IsPart(s, <<>>, cut2[n + 3], e)
    BY <1>6, PartOfNone
  <2>5. \A i \in 1..Len(new) : i \in 1..n \/ i = n + 1 \/ i = n + 2
    BY <1>2, <1>5
  <2>6. (n + 1) + 1 = n + 2 /\ (n + 2) + 1 = n + 3
    BY <1>2
  <2>7. new[n + 2] = None /\ n + 2 = Len(new) /\ cut2[n + 3] = cut2[n + 2]
    BY <1>5, <1>6
  <2> QED
    BY <2>1, <2>2, <2>3, <2>4, <2>5, <2>6, <2>7 DEF CutAt
<1>8. Len(new) + 1 = n + 3
  BY <1>2, <1>5
<1> QED
  BY <1>6, <1>7, <1>8 DEF Continues, new

\* The client takes the first item, which is a text.
LEMMA ContinuesTail ==
  ASSUME NEW s, NEW x \in Texts, NEW q \in Items, NEW y \in Texts, NEW e \in Nat,
         Continues(s, x, q, y, e),
         q # <<>>, Head(q) # None
  PROVE  Continues(s, x \o Head(q), Tail(q), y, e)
<1> DEFINE n == Len(q)
           h == Head(q)
           t == Tail(q)
<1>1. PICK cut \in [1..(n + 1) -> 0..e] : CutAt(s, x, q, y, e, cut)
  BY DEF Continues
<1>2. /\ n \in Nat \ {0} /\ h = q[1] /\ Len(t) = n - 1
      /\ \A i \in 1..(n - 1) : t[i] = q[i + 1]
  BY HeadTailProperties, LenProperties, EmptySeq DEF Items
<1>3. h \in Texts
  BY NoneIsNoText, HeadTailProperties DEF Items
<1>4. IsPart(s, x, 0, cut[1]) /\ IsPart(s, h, cut[1], cut[2])
  <2>1. 1 \in 1..n
    BY <1>2
  <2>2. IF q[1] = None THEN 1 = n /\ cut[1 + 1] = cut[1] ELSE IsPart(s, q[1], cut[1], cut[1 + 1])
    BY <1>1, <2>1 DEF CutAt
  <2>3. q[1] # None
    BY <1>2
  <2>4. IsPart(s, q[1], cut[1], cut[2])
    BY <2>2, <2>3
  <2>5. IsPart(s, x, 0, cut[1])
    BY <1>1 DEF CutAt
  <2> QED
    BY <1>2, <2>4, <2>5
<1>5. \A i \in 1..(n + 1) : cut[i] \in 0..e
  OBVIOUS
<1> DEFINE cut2 == [i \in 1..n |-> cut[i + 1]]
<1>6. cut2 \in [1..n -> 0..e] /\ \A i \in 1..n : cut2[i] = cut[i + 1]
  BY <1>2, <1>5
<1> HIDE DEF cut2, h, t
<1>7. IsPart(s, x \o h, 0, cut2[1])
  <2>1. cut[1] \in Int /\ cut[2] \in Int /\ cut2[1] = cut[2]
    BY <1>2, <1>5, <1>6
  <2>2. x \in Seq(0..MaxLength) /\ h \in Seq(0..MaxLength)
    BY <1>3 DEF Texts
  <2> QED
    BY <1>4, <2>1, <2>2, PartsJoin
<1>8. CutAt(s, x \o h, t, y, e, cut2)
  <2>1. ASSUME NEW i \in 1..Len(t)
        PROVE  IF t[i] = None THEN i = Len(t) /\ cut2[i + 1] = cut2[i]
               ELSE IsPart(s, t[i], cut2[i], cut2[i + 1])
    <3>1. i + 1 \in 1..n /\ t[i] = q[i + 1] /\ cut2[i] = cut[i + 1]
          /\ cut2[i + 1] = cut[(i + 1) + 1]
      BY <1>2, <1>6
    <3>2. IF q[i + 1] = None THEN i + 1 = n /\ cut[(i + 1) + 1] = cut[i + 1]
          ELSE IsPart(s, q[i + 1], cut[i + 1], cut[(i + 1) + 1])
      BY <1>1, <3>1 DEF CutAt
    <3>3. i + 1 = n => i = Len(t)
      BY <1>2
    <3> QED
      BY <3>1, <3>2, <3>3
  <2>2. IsPart(s, y, cut2[Len(t) + 1], e)
    <3>1. Len(t) + 1 = n /\ cut2[n] = cut[n + 1]
      BY <1>2, <1>6
    <3> QED
      BY <1>1, <3>1 DEF CutAt
  <2> QED
    BY <1>7, <2>1, <2>2 DEF CutAt
<1>9. Len(t) + 1 = n
  BY <1>2
<1> QED
  BY <1>6, <1>8, <1>9 DEF Continues, h, t

\* An empty text between two lists of items is not missed.
LEMMA ContinuesWithout ==
  ASSUME NEW s, NEW x \in Texts, NEW p \in Items, NEW q \in Items, NEW y \in Texts,
         NEW e \in Nat,
         Continues(s, x, p \o q, y, e),
         q # <<>>, Head(q) = <<>>
  PROVE  Continues(s, x, p \o Tail(q), y, e)
<1> DEFINE k == Len(p)
           n == Len(q)
           old == p \o q
           new == p \o Tail(q)
<1>1. /\ k \in Nat /\ n \in Nat \ {0}
      /\ Len(old) = k + n /\ Len(new) = k + n - 1
      /\ \A i \in 1..k : new[i] = old[i]
      /\ old[k + 1] = <<>>
      /\ \A i \in (k + 1)..(k + n - 1) : new[i] = old[i + 1]
  <2>1. k \in Nat /\ n \in Nat \ {0} /\ Head(q) = q[1]
    BY HeadTailProperties, LenProperties, EmptySeq DEF Items
  <2>2. /\ Tail(q) \in Items /\ Len(Tail(q)) = n - 1
        /\ \A i \in 1..(n - 1) : Tail(q)[i] = q[i + 1]
    BY HeadTailProperties DEF Items
  <2>3. /\ Len(old) = k + n
        /\ \A i \in 1..(k + n) : old[i] = IF i <= k THEN p[i] ELSE q[i - k]
    BY ConcatProperties DEF Items
  <2>4. /\ Len(new) = k + (n - 1)
        /\ \A i \in 1..(k + (n - 1)) : new[i] = IF i <= k THEN p[i] ELSE Tail(q)[i - k]
    BY <2>2, ConcatProperties DEF Items
  <2> HIDE DEF k, n, old, new
  <2>5. old[k + 1] = <<>>
    <3>1. k + 1 \in 1..(k + n) /\ (k + 1) - k = 1
      BY <2>1
    <3> QED
      BY <2>1, <2>3, <3>1
  <2>6. ASSUME NEW i \in (k + 1)..(k + n - 1)
        PROVE  new[i] = old[i + 1]
    <3>1. /\ i \in 1..(k + (n - 1)) /\ ~(i <= k) /\ i - k \in 1..(n - 1)
          /\ i + 1 \in 1..(k + n) /\ ~(i + 1 <= k) /\ (i + 1) - k = (i - k) + 1
      BY <2>1
    <3> QED
      BY <2>2, <2>3, <2>4, <3>1
  <2> QED
    BY <2>1, <2>3, <2>4, <2>5, <2>6
<1>2. PICK cut \in [1..(k + n + 1) -> 0..e] : CutAt(s, x, old, y, e, cut)
  BY <1>1 DEF Continues
<1>3. \A i \in 1..(k + n + 1) : cut[i] \in 0..e
  OBVIOUS
<1> DEFINE cut2 == [i \in 1..(k + n) |-> IF i <= k + 1 THEN cut[i] ELSE cut[i + 1]]
<1> HIDE DEF k, n, old, new
<1>4. \A i \in 1..(k + n) :
        IF old[i] = None THEN i = k + n /\ cut[i + 1] = cut[i]
        ELSE IsPart(s, old[i], cut[i], cut[i + 1])
  BY <1>1, <1>2 DEF CutAt
<1>5. cut[k + 2] = cut[k + 1]
  <2>1. <<>> # None /\ Len(<<>>) = 0
    BY NoneIsNoText, EmptySeq DEF Texts
  <2>2. k + 1 \in 1..(k + n) /\ (k + 1) + 1 = k + 2
    BY <1>1
  <2>3. IsPart(s, <<>>, cut[k + 1], cut[k + 2])
    BY <1>1, <1>4, <2>1, <2>2
  <2>4. cut[k + 1] \in Int /\ cut[k + 2] \in Int
    BY <1>1, <1>3
  <2> QED
    BY <2>1, <2>3, <2>4 DEF IsPart
<1>6. /\ cut2 \in [1..(k + n) -> 0..e]
      /\ \A i \in 1..(k + 1) : cut2[i] = cut[i]
      /\ \A i \in (k + 1)..(k + n) : cut2[i] = cut[i + 1]
  <2>1. \A i \in 1..(k + n) : cut[i] \in 0..e /\ cut[i + 1] \in 0..e
    BY <1>1, <1>3
  <2>2. cut2 \in [1..(k + n) -> 0..e]
    BY <2>1
  <2>3. \A i \in 1..(k + 1) : cut2[i] = cut[i]
    BY <1>1
  <2>4. ASSUME NEW i \in (k + 1)..(k + n)
        PROVE  cut2[i] = cut[i + 1]
    <3>1. CASE i = k + 1
      <4>1. i + 1 = k + 2 /\ i \in 1..(k + 1)
        BY <1>1, <3>1
      <4>2. cut2[i] = cut[i]
        BY <2>3, <4>1
      <4> QED
        BY <1>5, <3>1, <4>1, <4>2
    <3>2. CASE i # k + 1
      <4>1. i \in 1..(k + n) /\ ~(i <= k + 1)
        BY <1>1, <3>2
      <4> QED
        BY <4>1
    <3> QED
      BY <3>1, <3>2
  <2> QED
    BY <2>2, <2>3, <2>4
<1> HIDE DEF cut2
<1>7. CutAt(s, x, new, y, e, cut2)
  <2>1. IsPart(s, x, 0, cut2[1])
    BY <1>1, <1>2, <1>6 DEF CutAt
  <2>2. ASSUME NEW i \in 1..Len(new)
        PROVE  IF new[i] = None THEN i = Len(new) /\ cut2[i + 1] = cut2[i]
               ELSE IsPart(s, new[i], cut2[i], cut2[i + 1])
    <3>1. CASE i <= k
      <4>1. i \in 1..k /\ i + 1 \in 1..(k + 1) /\ i \in 1..(k + n) /\ i # k + n
        BY <1>1, <3>1
      <4>2. new[i] = old[i] /\ cut2[i] = cut[i] /\ cut2[i + 1] = cut[i + 1]
        BY <1>1, <1>6, <4>1
      <4> QED
        BY <1>4, <4>1, <4>2
    <3>2. CASE i > k
      <4>1. /\ i \in (k + 1)..(k + n - 1) /\ i + 1 \in (k + 1)..(k + n)
            /\ i \in (k + 1)..(k + n) /\ i + 1 \in 1..(k + n)
        BY <1>1, <3>2
      <4>2. new[i] = old[i + 1] /\ cut2[i] = cut[i + 1] /\ cut2[i + 1] = cut[(i + 1) + 1]
        BY <1>1, <1>6, <4>1
      <4>3. i + 1 = k + n => i = Len(new)
        BY <1>1
      <4> QED
        BY <1>4, <4>1, <4>2, <4>3
    <3> QED
      BY <1>1, <3>1, <3>2
  <2>3. IsPart(s, y, cut2[Len(new) + 1], e)
    <3>1. Len(new) + 1 = k + n /\ Len(old) + 1 = (k + n) + 1 /\ k + n \in (k + 1)..(k + n)
      BY <1>1
    <3> QED
      BY <1>2, <1>6, <3>1 DEF CutAt
  <2> QED
    BY <2>1, <2>2, <2>3 DEF CutAt
<1>8. Len(new) + 1 = k + n
  BY <1>1
<1> QED
  BY <1>6, <1>7, <1>8 DEF Continues, new

\* Lists of items: the first of the second is moved behind the first list, or is
\* taken from the front of both.
LEMMA ItemsAppend ==
  ASSUME NEW S, NEW p \in Seq(S), NEW q \in Seq(S), NEW x \in S
  PROVE  p \o Append(q, x) = Append(p \o q, x)
<1>1. /\ <<x>> \in Seq(S) /\ Append(q, x) = q \o <<x>> /\ p \o q \in Seq(S)
      /\ Append(p \o q, x) = (p \o q) \o <<x>>
  BY AppendIsConcat, ConcatProperties
<1> QED
  BY <1>1, ConcatAssociative

LEMMA ItemsMove ==
  ASSUME NEW S, NEW p \in Seq(S), NEW q \in Seq(S), q # <<>>
  PROVE  Append(p, Head(q)) \o Tail(q) = p \o q
<1>1. Head(q) \in S /\ Tail(q) \in Seq(S) /\ <<Head(q)>> \in Seq(S)
  BY HeadTailProperties
<1>2. Append(p, Head(q)) = p \o <<Head(q)>>
  BY <1>1, AppendIsConcat
<1>3. <<Head(q)>> \o Tail(q) = q
  BY <1>1
<1> QED
  BY <1>1, <1>2, <1>3, ConcatAssociative

LEMMA ItemsTaken ==
  ASSUME NEW S, NEW p \in Seq(S), NEW q \in Seq(S), p # <<>>
  PROVE  /\ p \o q \in Seq(S) /\ p \o q # <<>>
         /\ Head(p \o q) = Head(p) /\ Tail(p \o q) = Tail(p) \o q
<1>1. p \o q \in Seq(S)
  BY ConcatProperties
<1> QED
  BY <1>1

-----------------------------------------------------------------------------
(* The requests that a step leaves alone.                                  *)

CallStates ==
  [pc : {"new", "refused", "waiting", "gone", "done"}, params : AllParams, max : Int,
   text : Texts, reason : {"none", "stop", "length"}, usage : Nat]

Types(r) ==
  /\ call[r] \in CallStates
  /\ P(r) \in AllParams
  /\ P(r).rows \in Nat \ {0} /\ P(r).prompt \in Nat \ {0}
  /\ thread[r] \in [pc : {"none", "start", "decode", "judge", "over", "ended", "raised"},
                    tokens : 0..MaxLength, met : BOOLEAN]
  /\ triggered[r] \in BOOLEAN /\ stats[r] \in Nat
  /\ held[r] \in Texts /\ streamer[r] \in Items /\ responses[r] \in Items
  /\ Shown(r) \in Nat /\ OutputLen(r) \in Nat /\ Streamed(r) \in Nat
  /\ Streamed(r) <= OutputLen(r)

LEMMA TypesHold ==
  ASSUME GenerativeTypeOK, NEW r \in Requests
  PROVE  Types(r)
<1>1. call[r].params \in AllParams /\ thread[r].tokens \in Nat
  <2>1. /\ call \in [Requests -> [pc : {"new", "refused", "waiting", "gone", "done"},
                                  params : AllParams, max : Int, text : Texts,
                                  reason : {"none", "stop", "length"}, usage : Nat]]
        /\ thread \in [Requests -> [pc : {"none", "start", "decode", "judge", "over", "ended", "raised"},
                                    tokens : 0..MaxLength, met : BOOLEAN]]
    BY DEF GenerativeTypeOK
  <2>2. call[r].params \in AllParams /\ thread[r].tokens \in 0..MaxLength
    BY <2>1
  <2> QED
    BY <2>2, GenerativeModelAssumption
<1>2. Shown(r) \in Nat /\ OutputLen(r) \in Nat
  BY <1>1 DEF Shown, OutputLen, P, AllParams
<1>3. Streamed(r) \in Nat /\ Streamed(r) <= OutputLen(r)
  BY <1>2 DEF Streamed
<1>4. P(r).rows \in Nat \ {0} /\ P(r).prompt \in Nat \ {0}
  BY <1>1 DEF P, AllParams
<1> QED
  BY <1>1, <1>2, <1>3, <1>4 DEF GenerativeTypeOK, Types, CallStates, P, Items

\* What is known of a request depends on what is its own, and on whether the
\* background thread works on it.
Alone(r) ==
  /\ is_encoder_decoder' = is_encoder_decoder
  /\ call'[r] = call[r] /\ thread'[r] = thread[r] /\ triggered'[r] = triggered[r]
  /\ stats'[r] = stats[r] /\ held'[r] = held[r]
  /\ streamer'[r] = streamer[r] /\ responses'[r] = responses[r]

LEMMA AloneRight ==
  ASSUME NEW r \in Requests, RequestRight(r), Alone(r),
         At(r)' => At(r), (At(r) /\ Works("put"))' => At(r) /\ Works("put")
  PROVE  RequestRight(r)'
<1>1. /\ P(r)' = P(r) /\ Shown(r)' = Shown(r) /\ OutputLen(r)' = OutputLen(r)
      /\ Streamed(r)' = Streamed(r) /\ StatsRight(r)' = StatsRight(r)
  BY DEF Alone, P, Shown, OutputLen, Streamed, StatsRight
<1>2. CallRight(r)'
  BY <1>1 DEF Alone, CallRight, RequestRight
<1>3. CASE P(r).stream
  <2>1. StreamRight(r)
    BY <1>3 DEF RequestRight
  <2>2. StreamRight(r)'
    BY <1>1, <2>1 DEF Alone, StreamRight
  <2> QED
    BY <1>1, <1>2, <1>3, <2>2 DEF RequestRight
<1>4. CASE ~P(r).stream
  <2>1. PlainRight(r)
    BY <1>4 DEF RequestRight
  <2>2. PlainRight(r)'
    BY <1>1, <2>1 DEF Alone, PlainRight
  <2> QED
    BY <1>1, <1>2, <1>4, <2>2 DEF RequestRight
<1> QED
  BY <1>3, <1>4

\* While the background thread, the threads of the streams and what is asked of
\* them stay, so does what is known of them.
LEMMA SameWorker ==
  ASSUME WorkerRight, SeedIsOwn,
         UNCHANGED <<worker, thread, loop, ready, seed>>,
         \A r \in Requests : P(r)' = P(r),
         \A r \in Requests : call'[r].pc = "waiting" => call[r].pc = "waiting"
  PROVE  WorkerRight' /\ SeedIsOwn'
<1>1. \A r \in Requests : Decoding(r)' = Decoding(r) /\ At(r)' = At(r)
  BY DEF Decoding, Works, At
<1>2. WorkerRight'
  BY <1>1 DEF WorkerRight, Works
<1>3. SeedIsOwn'
  BY <1>1 DEF SeedIsOwn
<1> QED
  BY <1>2, <1>3

LEMMA SameQueue ==
  ASSUME QueueRight, UNCHANGED <<queue, ready, thread>>,
         \A r \in Requests : call[r].pc \in {"waiting", "gone"} =>
           call'[r].pc \in {"waiting", "gone"} \/ thread[r].pc # "none",
         GenerativeTypeOK
  PROVE  QueueRight'
<1>1. ASSUME NEW i \in 1..Len(queue), queue[i] # None
      PROVE  queue[i] \in Requests
  BY <1>1, ElementOfSeq DEF GenerativeTypeOK
<1> QED
  BY <1>1 DEF QueueRight

-----------------------------------------------------------------------------
(* The initial state.                                                      *)

LEMMA InitGenerative == Init => GenerativeIInv
<1> SUFFICES ASSUME Init PROVE GenerativeIInv
  OBVIOUS
<1>1. NoParams \in AllParams
  BY DEF NoParams, AllParams
<1>2. GenerativeTypeOK
  <2>1. <<>> \in Texts /\ 0 \in 0..MaxLength
    BY GenerativeModelAssumption DEF Texts
  <2> QED
    BY <1>1, <2>1 DEF Init, GenerativeTypeOK
<1>3. QueueRight
  BY DEF Init, QueueRight
<1>4. \A r \in Requests : ~Decoding(r) /\ ~At(r)
  BY GenerativeModelAssumption DEF Init, Decoding, At, Works, P, NoParams
<1>5. WorkerRight /\ SeedIsOwn
  BY <1>4 DEF Init, WorkerRight, SeedIsOwn
<1>6. ASSUME NEW r \in Requests
      PROVE  RequestRight(r)
  <2>1. IsPart(Shown(r), <<>>, 0, 0)
    BY PartOfNone
  <2>2. Types(r)
    BY <1>2, TypesHold
  <2>3. CallRight(r)
    <3>1. call[r].text = <<>> /\ Len(<<>>) = 0 /\ thread[r].tokens = 0 /\ call[r].pc = "new"
      BY DEF Init
    <3>2. IsPart(Shown(r), call[r].text, 0, Len(call[r].text)) /\ Len(call[r].text) <= OutputLen(r)
      BY <2>1, <2>2, <3>1 DEF Types
    <3>3. /\ responses[r] = <<>> /\ streamer[r] = <<>> /\ held[r] = <<>>
          /\ thread[r].pc = "none" /\ ~thread[r].met /\ ~triggered[r] /\ call[r].reason = "none"
      BY DEF Init
    <3> QED
      BY <3>1, <3>2, <3>3 DEF CallRight
  <2>4. PlainRight(r)
    BY <1>4 DEF Init, PlainRight
  <2> QED
    BY <2>3, <2>4 DEF RequestRight, Init, P, NoParams
<1> QED
  BY <1>2, <1>3, <1>5, <1>6 DEF GenerativeIInv

-----------------------------------------------------------------------------
(* The calls.                                                              *)

\* An action that touches one request and no thread keeps what is known of the
\* others.
LEMMA OthersAlone ==
  ASSUME GenerativeIInv, NEW r \in Requests,
         \A s \in Requests \ {r} : Alone(s),
         UNCHANGED worker
  PROVE  \A s \in Requests \ {r} : RequestRight(s)'
<1>1. ASSUME NEW s \in Requests \ {r}
      PROVE  RequestRight(s)'
  BY AloneRight DEF GenerativeIInv, At, Works
<1> QED
  BY <1>1

LEMMA CreateCompletionGenerative ==
  ASSUME GenerativeIInv, NEW r \in Requests, NEW p \in Params, CreateCompletion(r, p)
  PROVE  GenerativeIInv'
<1> DEFINE max == IF p.max_tokens = None THEN MaxLength - p.prompt ELSE p.max_tokens
           refused == TooLong(p, max) \/ (p.echo /\ is_encoder_decoder) \/ max <= 0
           status == IF refused THEN "refused" ELSE "waiting"
<1>1. /\ call[r].pc = "new" /\ ready
      /\ call' = [call EXCEPT ![r].pc = status, ![r].params = p, ![r].max = max]
      /\ queue' = IF refused THEN queue ELSE Append(queue, r)
      /\ UNCHANGED <<is_encoder_decoder, ready, loop, worker, genVars, stats, responses, seed>>
  BY DEF CreateCompletion
<1>0. (refused => status = "refused") /\ (~refused => status = "waiting")
  OBVIOUS
<1>2. GenerativeTypeOK /\ Types(r) /\ CallRight(r)
  BY TypesHold DEF GenerativeIInv, RequestRight
<1>3. thread[r].pc = "none" /\ call[r].text = <<>> /\ call[r].reason # "stop"
  BY <1>1, <1>2 DEF CallRight
<1>4. p \in AllParams /\ max \in Int
  BY GenerativeModelAssumption DEF AllParams
<1>5. ~refused => max > 0 /\ p.prompt + max <= MaxLength
  BY <1>4, GenerativeModelAssumption DEF TooLong, AllParams
<1> HIDE DEF max, status, refused
<1>6. /\ call' \in [Requests -> CallStates]
      /\ call'[r].pc = status
      /\ call'[r].params = p /\ call'[r].max = max /\ call'[r].text = <<>>
      /\ call'[r].reason = call[r].reason
      /\ \A s \in Requests \ {r} : call'[s] = call[s]
  <2>1. status \in {"new", "refused", "waiting", "gone", "done"}
    BY <1>0
  <2> DEFINE c == [call[r] EXCEPT !.pc = status, !.params = p, !.max = max]
  <2>2. call \in [Requests -> CallStates] /\ call[r] \in CallStates
    BY <1>2 DEF GenerativeTypeOK, CallStates
  <2>3. /\ c \in CallStates /\ c.pc = status /\ c.params = p /\ c.max = max
        /\ c.text = call[r].text /\ c.reason = call[r].reason
    BY <1>4, <2>1, <2>2 DEF CallStates
  <2>4. call' = [call EXCEPT ![r] = c]
    BY <1>1
  <2> HIDE DEF c
  <2> QED
    BY <1>3, <2>2, <2>3, <2>4
<1>7. /\ \A i \in 1..Len(queue) : queue[i] # None /\ queue[i] # r
      /\ Len(queue) \in Nat
  <2>1. ASSUME NEW i \in 1..Len(queue), queue[i] # None
        PROVE  queue[i] # r
    BY <1>1, <2>1 DEF GenerativeIInv, QueueRight
  <2>2. Len(queue) \in Nat
    BY <1>2, LenProperties DEF GenerativeTypeOK
  <2> QED
    BY <1>1, <2>1, <2>2 DEF GenerativeIInv, QueueRight
<1>8. r # None
  BY GenerativeModelAssumption
<1>9. /\ queue' \in Seq(Requests \cup {None})
      /\ \A i \in 1..Len(queue) : queue'[i] = queue[i]
      /\ refused => Len(queue') = Len(queue)
      /\ ~refused => Len(queue') = Len(queue) + 1 /\ queue'[Len(queue) + 1] = r
  BY <1>1, <1>2, AppendProperties DEF GenerativeTypeOK
<1>10. QueueRight'
  <2>1. \A i \in 1..Len(queue') : i \in 1..Len(queue) \/ (~refused /\ i = Len(queue) + 1)
    BY <1>7, <1>9
  <2>2. ASSUME NEW i \in 1..Len(queue')
        PROVE  /\ queue'[i] # None
               /\ call'[queue'[i]].pc \in {"waiting", "gone"}
               /\ thread'[queue'[i]].pc = "none"
    <3>1. CASE i \in 1..Len(queue)
      <4>1. queue'[i] = queue[i] /\ queue[i] # None /\ queue[i] \in Requests \ {r}
        <5>1. queue[i] \in Requests \cup {None}
          BY <1>2, <3>1, ElementOfSeq DEF GenerativeTypeOK
        <5> QED
          BY <1>7, <1>9, <3>1, <5>1
      <4>2. call[queue[i]].pc \in {"waiting", "gone"} /\ thread[queue[i]].pc = "none"
        BY <3>1, <4>1 DEF GenerativeIInv, QueueRight
      <4> QED
        BY <1>1, <1>6, <4>1, <4>2 DEF genVars
    <3>2. CASE ~refused /\ i = Len(queue) + 1
      BY <1>0, <1>1, <1>3, <1>6, <1>8, <1>9, <3>2 DEF genVars
    <3> QED
      BY <2>1, <3>1, <3>2
  <2>3. \A i, j \in 1..Len(queue') : queue'[i] = queue'[j] => i = j
    BY <1>7, <1>9, <2>1 DEF GenerativeIInv, QueueRight
  <2> QED
    BY <2>2, <2>3 DEF QueueRight
<1>11. GenerativeTypeOK'
  <2>1. \A i \in DOMAIN queue' : queue'[i] # None
    <3>1. \A i \in 1..Len(queue') : i \in 1..Len(queue) \/ (~refused /\ i = Len(queue) + 1)
      BY <1>7, <1>9
    <3> QED
      BY <1>7, <1>8, <1>9, <3>1, LenProperties
  <2> QED
    BY <1>1, <1>2, <1>6, <1>9, <2>1 DEF GenerativeTypeOK, CallStates, genVars
<1>12. ~Decoding(r) /\ ~At(r)
  BY <1>3 DEF GenerativeIInv, WorkerRight, Decoding
<1>13. \A s \in Requests : Decoding(s)' => Decoding(s) /\ s # r /\ P(s)' = P(s)
  <2>1. \A s \in Requests \ {r} : P(s)' = P(s) /\ Decoding(s)' = Decoding(s)
    BY <1>1, <1>6 DEF Decoding, P, Works, At, genVars
  <2>2. ~Decoding(r)'
    BY <1>1, <1>3, <1>12 DEF Decoding, At, genVars
  <2> QED
    BY <2>1, <2>2
<1>14. WorkerRight'
  <2>1. /\ worker' = worker /\ thread' = thread /\ loop' = loop /\ ready' = ready /\ loop
    BY <1>1 DEF genVars, GenerativeIInv, WorkerRight
  <2>2. ASSUME NEW s \in Requests, At(s)'
        PROVE  At(s) /\ P(s)' = P(s)
    BY <1>6, <1>12, <2>1, <2>2 DEF At, P
  <2> QED
    BY <1>13, <2>1, <2>2 DEF GenerativeIInv, WorkerRight, Works, At
<1>15. SeedIsOwn'
  BY <1>1, <1>13 DEF GenerativeIInv, SeedIsOwn
<1>16. RequestRight(r)'
  <2>1. /\ thread'[r] = thread[r] /\ triggered'[r] = triggered[r] /\ held'[r] = held[r]
        /\ streamer'[r] = streamer[r] /\ responses'[r] = responses[r] /\ ~At(r)'
    BY <1>1, <1>12 DEF genVars, At
  <2>2. /\ thread[r].tokens = 0 /\ ~thread[r].met /\ ~triggered[r]
        /\ responses[r] = <<>> /\ streamer[r] = <<>> /\ held[r] = <<>>
    BY <1>2, <1>3 DEF CallRight
  <2>3. P(r)' = p /\ Shown(r)' \in Nat /\ OutputLen(r)' \in Nat /\ Streamed(r)' = 0
    BY <1>1, <1>3, <1>4, <1>6, <2>1, <2>2
    DEF P, Shown, OutputLen, Streamed, AllParams
  <2>4. CallRight(r)'
    <3>1. IsPart(Shown(r)', call'[r].text, 0, Len(call'[r].text))
          /\ Len(call'[r].text) <= OutputLen(r)'
      BY <1>6, <2>3, PartOfNone
    <3>2. refused => call'[r].pc = "refused"
      BY <1>0, <1>6
    <3>3. ~refused => call'[r].pc = "waiting"
      BY <1>0, <1>6
    <3> QED
      BY <1>3, <1>5, <1>6, <2>1, <2>2, <2>3, <3>1, <3>2, <3>3 DEF CallRight
  <2>5. StreamRight(r)'
    <3>1. responses'[r] \o streamer'[r] = <<>>
      BY <2>1, <2>2
    <3>2. Continues(Shown(r)', <<>>, <<>>, <<>>, 0)
      BY NothingContinues
    <3>3. Len(<<>>) = 0
      OBVIOUS
    <3> QED
      BY <1>3, <1>6, <2>1, <2>2, <2>3, <3>1, <3>2, <3>3 DEF StreamRight
  <2>6. PlainRight(r)'
    BY <1>0, <1>3, <1>6, <2>1, <2>2 DEF PlainRight
  <2> QED
    BY <2>4, <2>5, <2>6 DEF RequestRight
<1>17. \A s \in Requests \ {r} : Alone(s)
  BY <1>1, <1>6 DEF Alone, genVars
<1> QED
  BY <1>1, <1>10, <1>11, <1>14, <1>15, <1>16, <1>17, OthersAlone DEF GenerativeIInv

\* A call that waits gets on: what is not its own stays.
LEMMA CallGoesOn ==
  ASSUME GenerativeIInv, NEW r \in Requests, NEW c \in CallStates, NEW items \in Items,
         call[r].pc = "waiting", c.params = P(r),
         c.pc \in {"waiting", "gone"} \/ thread[r].pc # "none",
         call' = [call EXCEPT ![r] = c],
         responses' = [responses EXCEPT ![r] = items],
         UNCHANGED <<is_encoder_decoder, ready, loop, queue, worker, genVars, stats, seed>>,
         RequestRight(r)'
  PROVE  GenerativeIInv'
<1>1. GenerativeTypeOK /\ QueueRight /\ WorkerRight /\ SeedIsOwn
  BY DEF GenerativeIInv
<1>2. call \in [Requests -> CallStates] /\ responses \in [Requests -> Items]
  BY <1>1 DEF GenerativeTypeOK, CallStates, Items
<1>3. /\ call' \in [Requests -> CallStates] /\ responses' \in [Requests -> Items]
      /\ call'[r] = c
      /\ \A s \in Requests \ {r} : call'[s] = call[s] /\ responses'[s] = responses[s]
  BY <1>2
<1>4. GenerativeTypeOK'
  BY <1>1, <1>3 DEF GenerativeTypeOK, CallStates, Items, genVars
<1>5. QueueRight'
  BY <1>1, <1>3, SameQueue DEF genVars
<1>6. \A s \in Requests : P(s)' = P(s)
  BY <1>3 DEF P
<1>7. \A s \in Requests : call'[s].pc = "waiting" => call[s].pc = "waiting"
  BY <1>3
<1>8. WorkerRight' /\ SeedIsOwn'
  BY <1>1, <1>6, <1>7, SameWorker DEF genVars
<1>9. \A s \in Requests \ {r} : Alone(s)
  BY <1>3 DEF Alone, genVars
<1> QED
  BY <1>4, <1>5, <1>8, <1>9, OthersAlone DEF GenerativeIInv

LEMMA ConsumePlain ==
  ASSUME GenerativeIInv, NEW r \in Requests, Consume(r), ~P(r).stream
  PROVE  GenerativeIInv'
<1> DEFINE item == Head(responses[r])
           c == [call[r] EXCEPT !.pc = "done", !.text = item, !.reason = Reason(r),
                                !.usage = stats[r]]
<1>1. /\ call[r].pc = "waiting" /\ responses[r] # <<>>
      /\ responses' = [responses EXCEPT ![r] = Tail(responses[r])]
      /\ UNCHANGED <<is_encoder_decoder, ready, loop, queue, worker, genVars, stats, seed>>
  BY DEF Consume
<1>2. call' = [call EXCEPT ![r] = c]
  BY DEF Consume
<1>3. Types(r) /\ CallRight(r) /\ PlainRight(r)
  BY TypesHold DEF GenerativeIInv, RequestRight
<1>4. /\ Len(responses[r]) = 1 /\ thread[r].pc = "ended" /\ item = responses[r][1]
      /\ item # None /\ IsPart(Shown(r), item, 0, OutputLen(r)) /\ StatsRight(r)
  BY <1>1, <1>3 DEF PlainRight
<1>5. item \in Texts /\ Tail(responses[r]) = <<>> /\ ~At(r)
  <2>1. item \in Texts \cup {None} /\ Tail(responses[r]) \in Items
        /\ Len(Tail(responses[r])) = 0
    BY <1>1, <1>3, <1>4, HeadTailProperties DEF Types, Items
  <2> QED
    BY <1>1, <1>3, <1>4, <2>1, NoneIsNoText, EmptySeq DEF PlainRight, Items
<1>6. Reason(r) \in {"stop", "length"} /\ (Reason(r) = "stop" <=> thread[r].met)
  BY <1>3 DEF Reason, CallRight
<1> HIDE DEF item
<1>7. /\ c \in CallStates /\ c.pc = "done" /\ c.text = item /\ c.reason = Reason(r)
      /\ c.usage = stats[r] /\ c.params = P(r) /\ c.max = call[r].max
  BY <1>3, <1>5, <1>6 DEF Types, CallStates, P
<1> HIDE DEF c
<1>8. call'[r] = c /\ responses'[r] = <<>>
  BY <1>1, <1>2, <1>5 DEF GenerativeIInv, GenerativeTypeOK
<1>9. /\ P(r)' = P(r) /\ Shown(r)' = Shown(r) /\ OutputLen(r)' = OutputLen(r)
      /\ thread'[r] = thread[r] /\ triggered'[r] = triggered[r] /\ stats'[r] = stats[r]
      /\ ~At(r)' /\ StatsRight(r)' = StatsRight(r)
  BY <1>1, <1>5, <1>7, <1>8 DEF P, Shown, OutputLen, StatsRight, At, genVars
<1>10. Len(item) = OutputLen(r)
  BY <1>3, <1>4 DEF IsPart, Types
<1>11. CallRight(r)'
  <2>1. IsPart(Shown(r), c.text, 0, Len(c.text)) /\ Len(c.text) <= OutputLen(r)
    BY <1>3, <1>4, <1>7, <1>10 DEF Types
  <2> QED
    BY <1>1, <1>3, <1>4, <1>6, <1>7, <1>8, <1>9, <1>10, <2>1 DEF CallRight
<1>12. PlainRight(r)'
  <2>1. ~is_encoder_decoder => stats[r] = P(r).rows * thread[r].tokens
    BY <1>4 DEF StatsRight
  <2> QED
    BY <1>1, <1>4, <1>6, <1>7, <1>8, <1>9, <2>1 DEF PlainRight
<1>13. RequestRight(r)'
  BY <1>9, <1>11, <1>12 DEF RequestRight
<1>14. <<>> \in Items
  BY EmptySeq DEF Items
<1> QED
  BY <1>1, <1>2, <1>4, <1>5, <1>7, <1>13, <1>14, CallGoesOn

LEMMA ConsumeStream ==
  ASSUME GenerativeIInv, NEW r \in Requests, Consume(r), P(r).stream
  PROVE  GenerativeIInv'
<1> DEFINE item == Head(responses[r])
           c == IF item = None THEN [call[r] EXCEPT !.pc = "done"]
                ELSE [call[r] EXCEPT !.text = call[r].text \o item, !.reason = Reason(r)]
           rest == responses[r] \o streamer[r]
<1>1. /\ call[r].pc = "waiting" /\ responses[r] # <<>>
      /\ responses' = [responses EXCEPT ![r] = Tail(responses[r])]
      /\ UNCHANGED <<is_encoder_decoder, ready, loop, queue, worker, genVars, stats, seed>>
  BY DEF Consume
<1>2. call' = [call EXCEPT ![r] = c]
  <2>1. CASE item = None
    BY <2>1 DEF Consume
  <2>2. CASE item # None
    BY <2>2 DEF Consume
  <2> QED
    BY <2>1, <2>2
<1>3. Types(r) /\ CallRight(r) /\ StreamRight(r)
  BY TypesHold DEF GenerativeIInv, RequestRight
<1>4. call[r].text \in Texts /\ held[r] \in Texts /\ streamer[r] \in Items
      /\ responses[r] \in Items /\ Streamed(r) \in Nat /\ OutputLen(r) \in Nat
      /\ Streamed(r) <= OutputLen(r)
  BY <1>3 DEF Types, CallStates
<1>5. /\ thread[r].pc \notin {"none", "start"}
      /\ Continues(Shown(r), call[r].text, rest, held[r], Streamed(r))
  BY <1>1, <1>3 DEF CallRight, StreamRight
<1>6. /\ Tail(responses[r]) \in Items /\ item \in Texts \cup {None}
      /\ item = responses[r][1] /\ 1 \in 1..Len(responses[r])
      /\ \A i \in 1..Len(Tail(responses[r])) :
           i + 1 \in 1..Len(responses[r]) /\ Tail(responses[r])[i] = responses[r][i + 1]
  BY <1>1, <1>4, HeadTailProperties, LenProperties, EmptySeq DEF Items
<1>7. /\ rest \in Items /\ rest # <<>> /\ Head(rest) = item
      /\ Tail(rest) = Tail(responses[r]) \o streamer[r]
  <2>1. /\ None \in Texts \cup {None}
        /\ responses[r] \in Seq(Texts \cup {None}) /\ streamer[r] \in Seq(Texts \cup {None})
    BY <1>4 DEF Items
  <2> DEFINE front == responses[r]
             back == streamer[r]
  <2>2. front # <<>>
    BY <1>1
  <2> HIDE DEF front, back
  <2>3. /\ front \o back \in Seq(Texts \cup {None}) /\ front \o back # <<>>
        /\ Head(front \o back) = Head(front) /\ Tail(front \o back) = Tail(front) \o back
    BY <2>1, <2>2, ItemsTaken DEF front, back
  <2> QED
    BY <2>3 DEF Items, front, back
<1>8. Reason(r) \in {"stop", "length"} /\ (Reason(r) = "stop" => thread[r].met)
  BY <1>3 DEF Reason, CallRight
<1>9. item # None => item \in Texts /\ call[r].text \o item \in Texts
  BY <1>4, <1>6, NoneIsNoText, ConcatProperties DEF Texts
<1> HIDE DEF item, rest
<1>10. /\ c \in CallStates /\ c.params = P(r) /\ c.max = call[r].max
       /\ item = None => c.pc = "done" /\ c.text = call[r].text /\ c.reason = call[r].reason
       /\ item # None => /\ c.pc = "waiting" /\ c.text = call[r].text \o item
                         /\ c.reason = Reason(r)
  <2>1. call[r] \in CallStates
    BY <1>3 DEF Types
  <2>2. CASE item = None
    BY <2>1, <2>2 DEF CallStates, P
  <2>3. CASE item # None
    BY <1>1, <1>8, <1>9, <2>1, <2>3 DEF CallStates, P
  <2> QED
    BY <2>2, <2>3
<1> HIDE DEF c
<1>11. call'[r] = c /\ responses'[r] = Tail(responses[r])
  BY <1>1, <1>2 DEF GenerativeIInv, GenerativeTypeOK
<1>12. /\ P(r)' = P(r) /\ Shown(r)' = Shown(r) /\ OutputLen(r)' = OutputLen(r)
       /\ thread'[r] = thread[r] /\ triggered'[r] = triggered[r] /\ held'[r] = held[r]
       /\ streamer'[r] = streamer[r] /\ Streamed(r)' = Streamed(r)
  BY <1>1, <1>10, <1>11 DEF P, Shown, OutputLen, Streamed, genVars
<1>13. item = None => /\ thread[r].pc = "ended" /\ held[r] = <<>>
                      /\ Streamed(r) = OutputLen(r)
                      /\ Len(call[r].text) = OutputLen(r)
  <2> SUFFICES ASSUME item = None
               PROVE  /\ thread[r].pc = "ended" /\ held[r] = <<>>
                      /\ Streamed(r) = OutputLen(r) /\ Len(call[r].text) = OutputLen(r)
    OBVIOUS
  <2>1. thread[r].pc = "ended" /\ held[r] = <<>> /\ P(r).rows = 1
    BY <1>3, <1>6 DEF StreamRight
  <2>2. Streamed(r) = OutputLen(r)
    BY <2>1 DEF Streamed
  <2>3. Len(call[r].text) = Streamed(r)
    <3>1. rest \in Items /\ rest # <<>> /\ Head(rest) = None
      BY <1>7
    <3>2. call[r].text \in Texts /\ held[r] \in Texts /\ Streamed(r) \in Nat
      BY <1>4
    <3>3. Continues(Shown(r), call[r].text, rest, held[r], Streamed(r))
      BY <1>5
    <3> HIDE DEF rest
    <3> QED
      BY <2>1, <3>1, <3>2, <3>3, ContinuesWhole
  <2> QED
    BY <2>1, <2>2, <2>3
<1>14. item # None => Continues(Shown(r), c.text, Tail(rest), held[r], Streamed(r))
  BY <1>4, <1>5, <1>7, <1>10, ContinuesTail
<1>15. IsPart(Shown(r), c.text, 0, Len(c.text)) /\ Len(c.text) <= OutputLen(r)
  <2>1. CASE item = None
    BY <1>3, <1>10, <2>1 DEF CallRight
  <2>2. CASE item # None
    <3>1. c.text \in Texts /\ Tail(rest) \in Items
      BY <1>7, <1>9, <1>10, <2>2, HeadTailProperties DEF Items
    <3>2. IsPart(Shown(r), c.text, 0, Len(c.text)) /\ Len(c.text) <= Streamed(r)
      BY <1>4, <1>14, <2>2, <3>1, ContinuesText
    <3>3. Len(c.text) \in Nat
      BY <3>1, LenProperties DEF Texts
    <3> QED
      BY <1>4, <3>2, <3>3
  <2> QED
    BY <2>1, <2>2
<1>16. CallRight(r)'
  <2>1. c.pc \in {"waiting", "done"} /\ (c.pc = "done" => item = None)
    BY <1>10
  <2>2. c.reason = "stop" => thread[r].met
    BY <1>3, <1>8, <1>10 DEF CallRight
  <2>3. c.pc = "done" => Len(c.text) = OutputLen(r) /\ thread[r].pc = "ended"
    BY <1>10, <1>13, <2>1
  <2>4. call'[r].max > 0 /\ P(r).prompt + call'[r].max <= MaxLength
    BY <1>1, <1>3, <1>10, <1>11 DEF CallRight
  <2>5. /\ thread[r].tokens > 0 => thread[r].tokens <= c.max
        /\ thread[r].pc = "decode" => thread[r].tokens < c.max
        /\ triggered[r] <=> thread[r].met
        /\ thread[r].met => P(r).stop
    BY <1>3, <1>10 DEF CallRight
  <2> QED
    BY <1>5, <1>11, <1>12, <1>15, <2>1, <2>2, <2>3, <2>4, <2>5 DEF CallRight
<1>17. StreamRight(r)'
  <2>1. call'[r].pc = "waiting" =>
          Continues(Shown(r), c.text, responses'[r] \o streamer[r], held[r], Streamed(r))
    BY <1>7, <1>10, <1>11, <1>14
  <2>2. \A i \in 1..Len(responses'[r]) : responses'[r][i] = None => thread[r].pc = "ended"
    BY <1>3, <1>6, <1>11 DEF StreamRight
  <2> QED
    BY <1>3, <1>11, <1>12, <2>1, <2>2 DEF StreamRight
<1>18. RequestRight(r)'
  BY <1>12, <1>16, <1>17 DEF RequestRight
<1> QED
  BY <1>1, <1>2, <1>5, <1>6, <1>10, <1>18, CallGoesOn

LEMMA DisconnectGenerative ==
  ASSUME GenerativeIInv, NEW r \in Requests, Disconnect(r)
  PROVE  GenerativeIInv'
<1> DEFINE c == [call[r] EXCEPT !.pc = "gone"]
<1>1. /\ call[r].pc = "waiting" /\ P(r).stream /\ call' = [call EXCEPT ![r] = c]
      /\ UNCHANGED <<is_encoder_decoder, ready, loop, queue, worker, genVars, stats, responses,
                     seed>>
  BY DEF Disconnect
<1>2. Types(r) /\ CallRight(r) /\ StreamRight(r)
  BY <1>1, TypesHold DEF GenerativeIInv, RequestRight
<1>3. /\ c \in CallStates /\ c.pc = "gone" /\ c.params = P(r) /\ c.max = call[r].max
      /\ c.text = call[r].text /\ c.reason = call[r].reason
  BY <1>2 DEF Types, CallStates, P
<1> HIDE DEF c
<1>4. call'[r] = c
  BY <1>1 DEF GenerativeIInv, GenerativeTypeOK
<1>5. /\ P(r)' = P(r) /\ Shown(r)' = Shown(r) /\ OutputLen(r)' = OutputLen(r)
      /\ thread'[r] = thread[r] /\ triggered'[r] = triggered[r] /\ held'[r] = held[r]
      /\ streamer'[r] = streamer[r] /\ responses'[r] = responses[r]
  BY <1>1, <1>3, <1>4 DEF P, Shown, OutputLen, genVars
<1>6. CallRight(r)'
  BY <1>1, <1>2, <1>3, <1>4, <1>5 DEF CallRight
<1>7. StreamRight(r)'
  BY <1>2, <1>3, <1>4, <1>5 DEF StreamRight
<1>8. RequestRight(r)'
  BY <1>1, <1>5, <1>6, <1>7 DEF RequestRight
<1>9. responses[r] \in Items /\ responses' = [responses EXCEPT ![r] = responses[r]]
  BY <1>1, <1>2 DEF Types, GenerativeIInv, GenerativeTypeOK
<1> QED
  BY <1>1, <1>3, <1>8, <1>9, CallGoesOn

LEMMA StopGenerative ==
  ASSUME GenerativeIInv, Stop
  PROVE  GenerativeIInv'
<1>1. /\ ready /\ queue' = Append(queue, None) /\ ready' = FALSE
      /\ UNCHANGED <<is_encoder_decoder, loop, call, worker, genVars, stats, responses, seed>>
  BY DEF Stop
<1>2. GenerativeTypeOK /\ QueueRight /\ WorkerRight /\ SeedIsOwn
  BY DEF GenerativeIInv
<1>3. /\ queue' \in Seq(Requests \cup {None}) /\ Len(queue) \in Nat
      /\ Len(queue') = Len(queue) + 1
      /\ \A i \in 1..Len(queue) : queue'[i] = queue[i] /\ queue[i] # None
      /\ queue'[Len(queue) + 1] = None
  BY <1>1, <1>2, AppendProperties, LenProperties DEF GenerativeTypeOK, QueueRight
<1>4. \A i \in 1..Len(queue') : i \in 1..Len(queue) \/ i = Len(queue')
  BY <1>3
<1>5. GenerativeTypeOK'
  <2>1. \A i \in DOMAIN queue' : queue'[i] = None => i = Len(queue')
    BY <1>3, <1>4, LenProperties
  <2> QED
    BY <1>1, <1>2, <1>3, <2>1 DEF GenerativeTypeOK, genVars
<1>6. QueueRight'
  BY <1>1, <1>2, <1>3, <1>4 DEF QueueRight, genVars
<1>7. \A s \in Requests : Decoding(s)' = Decoding(s) /\ At(s)' = At(s) /\ P(s)' = P(s)
  BY <1>1 DEF Decoding, P, At, Works, genVars
<1>8. WorkerRight'
  BY <1>1, <1>2, <1>7 DEF WorkerRight, Works, genVars
<1>9. SeedIsOwn'
  BY <1>1, <1>2, <1>7 DEF SeedIsOwn
<1>10. ASSUME NEW s \in Requests
       PROVE  RequestRight(s)'
  <2>1. Alone(s)
    BY <1>1 DEF Alone, genVars
  <2> QED
    BY <1>1, <2>1, AloneRight DEF GenerativeIInv, At, Works
<1> QED
  BY <1>5, <1>6, <1>8, <1>9, <1>10 DEF GenerativeIInv

LEMMA LoopClosesGenerative ==
  ASSUME GenerativeIInv, LoopCloses
  PROVE  GenerativeIInv'
<1>1. /\ ~ready /\ ~loop' /\ \A r \in Requests : call[r].pc # "waiting"
      /\ UNCHANGED <<is_encoder_decoder, ready, call, queue, worker, genVars, stats, responses,
                     seed>>
  BY DEF LoopCloses
<1>2. GenerativeTypeOK /\ QueueRight /\ WorkerRight /\ SeedIsOwn
  BY DEF GenerativeIInv
<1>3. GenerativeTypeOK'
  BY <1>1, <1>2 DEF GenerativeTypeOK, LoopCloses, genVars
<1>4. QueueRight'
  BY <1>1, <1>2 DEF QueueRight, genVars
<1>5. \A s \in Requests : Decoding(s)' = Decoding(s) /\ At(s)' = At(s) /\ P(s)' = P(s)
  BY <1>1 DEF Decoding, P, At, Works, genVars
<1>6. WorkerRight'
  BY <1>1, <1>2, <1>5 DEF WorkerRight, Works, genVars
<1>7. SeedIsOwn'
  BY <1>1, <1>2, <1>5 DEF SeedIsOwn
<1>8. ASSUME NEW s \in Requests
       PROVE  RequestRight(s)'
  <2>1. Alone(s)
    BY <1>1 DEF Alone, genVars
  <2> QED
    BY <1>1, <2>1, AloneRight DEF GenerativeIInv, At, Works
<1> QED
  BY <1>3, <1>4, <1>6, <1>7, <1>8 DEF GenerativeIInv

-----------------------------------------------------------------------------
(* The background thread.                                                  *)

\* When the background thread takes a request, no other one draws from the
\* random numbers: the last one has made its last token.
LEMMA TakeGenerative ==
  ASSUME GenerativeIInv, Take
  PROVE  GenerativeIInv'
<1> DEFINE h == Head(queue)
           t == Tail(queue)
<1>1. /\ worker.pc = "get" /\ queue # <<>> /\ queue' = t
      /\ UNCHANGED <<is_encoder_decoder, callVars, triggered, held, streamer, stats, responses>>
  BY DEF Take, Works
<1>2. GenerativeTypeOK /\ QueueRight /\ WorkerRight /\ SeedIsOwn
  BY DEF GenerativeIInv
<1>3. /\ h \in Requests \cup {None} /\ h = queue[1] /\ t \in Seq(Requests \cup {None})
      /\ Len(queue) \in Nat \ {0} /\ Len(t) = Len(queue) - 1 /\ DOMAIN t = 1..Len(t)
      /\ \A i \in 1..Len(t) : t[i] = queue[i + 1] /\ i + 1 \in 1..Len(queue)
  <2>1. queue \in Seq(Requests \cup {None})
    BY <1>2 DEF GenerativeTypeOK
  <2>2. /\ h \in Requests \cup {None} /\ t \in Seq(Requests \cup {None})
        /\ Len(t) = Len(queue) - 1 /\ \A i \in 1..Len(t) : t[i] = queue[i + 1]
    BY <1>1, <2>1, HeadTailProperties
  <2>3. Len(queue) \in Nat \ {0} /\ h = queue[1] /\ DOMAIN t = 1..Len(t)
    BY <1>1, <2>1, <2>2, EmptySeq, LenProperties
  <2> QED
    BY <2>2, <2>3
<1>4. \A s \in Requests : ~At(s) /\ ~Decoding(s)
  BY <1>1, <1>2, GenerativeModelAssumption DEF WorkerRight, At
<1> HIDE DEF h, t
<1>5. /\ \A i \in 1..Len(t) : t[i] = None => i = Len(t)
      /\ \A i \in 1..Len(t) : t[i] # h
      /\ \A i, j \in 1..Len(t) : t[i] = t[j] => i = j
  <2>1. \A i \in 1..Len(t) : i + 1 # 1 /\ (i + 1 = Len(queue) => i = Len(t))
    BY <1>3
  <2>2. 1 \in 1..Len(queue)
    BY <1>3
  <2>3. \A i, j \in 1..Len(t) : i + 1 = j + 1 => i = j
    BY <1>3
  <2> QED
    BY <1>2, <1>3, <2>1, <2>2, <2>3 DEF QueueRight
<1>6. CASE h = None
  <2>1. /\ worker' = [pc |-> "stopped", at |-> None] /\ UNCHANGED <<seed, thread>>
    BY <1>6 DEF Take, h
  <2>2. GenerativeTypeOK'
    BY <1>1, <1>2, <1>3, <1>5, <2>1 DEF GenerativeTypeOK, callVars
  <2>3. QueueRight'
    BY <1>1, <1>2, <1>3, <1>5, <2>1 DEF QueueRight, callVars
  <2>4. \A s \in Requests : ~At(s)' /\ ~Decoding(s)'
    BY <1>1, <1>4, <2>1, GenerativeModelAssumption DEF At, Decoding, Works, P, callVars
  <2>5. WorkerRight' /\ SeedIsOwn'
    BY <1>1, <1>2, <2>1, <2>4 DEF WorkerRight, SeedIsOwn, callVars
  <2>6. ASSUME NEW s \in Requests
        PROVE  RequestRight(s)'
    <3>1. Alone(s)
      BY <1>1, <2>1 DEF Alone, callVars
    <3> QED
      BY <2>4, <3>1, AloneRight DEF GenerativeIInv
  <2> QED
    BY <2>2, <2>3, <2>5, <2>6 DEF GenerativeIInv
<1>7. ASSUME NEW r \in Requests, h = r
      PROVE  GenerativeIInv'
  <2> DEFINE does == IF P(r).stream THEN "stream" ELSE "generate"
             st == [thread[r] EXCEPT !.pc = "start"]
  <2>0. r # None
    BY GenerativeModelAssumption
  <2>1. /\ worker' = [pc |-> does, at |-> r]
        /\ seed' = IF P(r).seed THEN r ELSE seed
        /\ thread' = [thread EXCEPT ![r] = st]
    BY <1>7, <2>0 DEF Take, h
  <2>2. /\ P(r).stream => does = "stream"
        /\ ~P(r).stream => does = "generate"
    OBVIOUS
  <2>3. /\ r \in Requests /\ call[r].pc \in {"waiting", "gone"} /\ thread[r].pc = "none"
    <3>1. 1 \in 1..Len(queue)
      BY <1>3
    <3>2. queue[1] = r
      BY <1>3, <1>7
    <3> QED
      BY <1>2, <2>0, <3>1, <3>2 DEF QueueRight
  <2>4. Types(r) /\ CallRight(r)
    BY <2>3, TypesHold DEF GenerativeIInv, RequestRight
  <2>5. st.pc = "start" /\ st.tokens = thread[r].tokens /\ st.met = thread[r].met
        /\ st \in [pc : {"none", "start", "decode", "judge", "over", "ended", "raised"},
                   tokens : 0..MaxLength, met : BOOLEAN]
    BY <2>4 DEF Types
  <2> HIDE DEF does, st
  <2>6. /\ thread'[r] = st /\ \A s \in Requests \ {r} : thread'[s] = thread[s]
        /\ worker'.pc = does /\ worker'.at = r /\ does \in {"stream", "generate"}
    BY <1>2, <2>1, <2>2, <2>3 DEF GenerativeTypeOK
  <2>7. GenerativeTypeOK'
    <3>1. seed' \in Requests \cup {None}
      BY <1>2, <2>1, <2>3 DEF GenerativeTypeOK
    <3>2. thread' \in [Requests -> [pc : {"none", "start", "decode", "judge", "over", "ended",
                                         "raised"},
                                   tokens : 0..MaxLength, met : BOOLEAN]]
      BY <1>2, <2>1, <2>5 DEF GenerativeTypeOK
    <3> QED
      BY <1>1, <1>2, <1>3, <1>5, <2>1, <2>3, <2>6, <3>1, <3>2 DEF GenerativeTypeOK, callVars
  <2>8. QueueRight'
    <3>1. ASSUME NEW i \in 1..Len(t), t[i] # None
          PROVE  call'[t[i]].pc \in {"waiting", "gone"} /\ thread'[t[i]].pc = "none"
      <4>1. t[i] \in Requests \ {r}
        BY <1>3, <1>5, <1>7, <3>1, ElementOfSeq
      <4> QED
        BY <1>1, <1>2, <1>3, <2>6, <3>1, <4>1 DEF QueueRight, callVars
    <3>2. ASSUME NEW i \in 1..Len(t), t[i] = None
          PROVE  i = Len(t) /\ ~ready'
      BY <1>1, <1>2, <1>3, <1>5, <3>2 DEF QueueRight, callVars
    <3> QED
      BY <1>1, <1>5, <3>1, <3>2 DEF QueueRight
  <2>9. \A s \in Requests : At(s)' => s = r
    BY <2>6 DEF At
  <2>10. \A s \in Requests : Decoding(s)' => s = r
    <3>1. ASSUME NEW s \in Requests, s # r, Decoding(s)'
          PROVE  FALSE
      <4>1. P(s)' = P(s) /\ thread'[s] = thread[s] /\ ~At(s)'
        BY <1>1, <2>6, <2>9, <3>1 DEF P, callVars
      <4>2. P(s).stream /\ thread[s].pc \in {"start", "decode", "judge"}
        BY <3>1, <4>1 DEF Decoding
      <4> QED
        BY <1>4, <4>2 DEF Decoding
    <3> QED
      BY <3>1
  <2>11. P(r)' = P(r)
    BY <1>1 DEF P, callVars
  <2>12. WorkerRight'
    <3>1. /\ r # None /\ At(r)' /\ thread'[r].pc = "start"
          /\ Works("stream")' <=> P(r)'.stream
          /\ ~Works("stats")' /\ ~Works("put")'
      BY <2>0, <2>2, <2>5, <2>6, <2>11 DEF At, Works
    <3>2. worker'.at # None /\ worker'.pc \notin {"get", "stopped", "dead"}
      BY <2>0, <2>6
    <3>3. ~loop' => ~ready' /\ \A s \in Requests : call'[s].pc # "waiting"
      BY <1>1, <1>2 DEF WorkerRight, callVars
    <3> QED
      BY <2>9, <2>10, <3>1, <3>2, <3>3 DEF WorkerRight
  <2>13. SeedIsOwn'
    BY <2>1, <2>10, <2>11 DEF SeedIsOwn
  <2>14. ASSUME NEW s \in Requests, s # r
         PROVE  RequestRight(s)'
    <3>1. Alone(s)
      BY <1>1, <2>6, <2>14 DEF Alone, callVars
    <3> QED
      BY <2>9, <2>14, <3>1, AloneRight DEF GenerativeIInv
  <2>15. RequestRight(r)'
    <3>1. /\ thread[r].tokens = 0 /\ ~thread[r].met
          /\ responses[r] = <<>> /\ streamer[r] = <<>> /\ held[r] = <<>>
      BY <2>3, <2>4 DEF CallRight
    <3>2. /\ Shown(r)' = Shown(r) /\ OutputLen(r)' = OutputLen(r)
          /\ Streamed(r)' = 0 /\ Streamed(r) = 0
      BY <2>3, <2>5, <2>6, <2>11 DEF Shown, OutputLen, Streamed
    <3>3. CallRight(r)'
      BY <1>1, <2>3, <2>4, <2>5, <2>6, <2>11, <3>1, <3>2 DEF CallRight, callVars
    <3>4. CASE P(r).stream
      <4>1. StreamRight(r)
        BY <2>3, <3>4 DEF GenerativeIInv, RequestRight
      <4>2. StreamRight(r)'
        BY <1>1, <2>5, <2>6, <3>1, <3>2, <4>1 DEF StreamRight, callVars
      <4> QED
        BY <2>11, <3>3, <3>4, <4>2 DEF RequestRight
    <3>5. CASE ~P(r).stream
      <4>1. PlainRight(r)
        BY <2>3, <3>5 DEF GenerativeIInv, RequestRight
      <4>2. ~Works("put")'
        BY <2>6 DEF Works
      <4>3. PlainRight(r)'
        BY <1>1, <2>3, <2>5, <2>6, <3>1, <4>1, <4>2 DEF PlainRight, callVars
      <4> QED
        BY <2>11, <3>3, <3>5, <4>3 DEF RequestRight
    <3> QED
      BY <3>4, <3>5
  <2> QED
    BY <2>7, <2>8, <2>12, <2>13, <2>14, <2>15 DEF GenerativeIInv
<1> QED
  BY <1>3, <1>6, <1>7

\* The background thread gets on with its request: no other one is touched.
LEMMA WorkerGoesOn ==
  ASSUME GenerativeIInv, NEW r \in Requests, At(r),
         GenerativeTypeOK', RequestRight(r)',
         \A s \in Requests \ {r} : Alone(s),
         UNCHANGED <<is_encoder_decoder, callVars, queue, seed>>,
         worker'.at \in {r, None},
         worker'.at = None <=> worker'.pc \in {"get", "stopped", "dead"},
         thread'[r].pc # "none",
         worker'.at = r =>
           /\ worker'.pc = "stream" <=> P(r).stream
           /\ worker'.pc = "generate" => thread'[r].pc = "start"
           /\ worker'.pc \in {"stats", "put"} => thread'[r].pc = "ended",
         Decoding(r)' => Decoding(r) /\ worker'.pc \in {"dead", "stream", "generate"}
  PROVE  GenerativeIInv'
<1>1. GenerativeTypeOK /\ QueueRight /\ WorkerRight /\ SeedIsOwn /\ r # None
  BY GenerativeModelAssumption DEF GenerativeIInv
<1>2. thread[r].pc # "none" /\ worker.pc # "dead"
  BY <1>1 DEF WorkerRight, At
<1>3. \A s \in Requests : P(s)' = P(s) /\ (s # r => thread'[s] = thread[s])
  BY DEF P, Alone, callVars
<1>4. ASSUME NEW s \in Requests, At(s)'
      PROVE  s = r /\ worker'.at = r
  BY <1>4, GenerativeModelAssumption DEF At
<1>5. \A s \in Requests : Decoding(s) => s = r
  BY <1>1, <1>2 DEF WorkerRight, At
<1>6. \A s \in Requests : Decoding(s)' => s = r /\ Decoding(s)
  <2>1. ASSUME NEW s \in Requests, s # r, Decoding(s)'
        PROVE  FALSE
    <3>1. ~At(s)' /\ P(s)' = P(s) /\ thread'[s] = thread[s]
      BY <1>3, <1>4, <2>1
    <3>2. P(s).stream /\ thread[s].pc \in {"start", "decode", "judge"}
      BY <2>1, <3>1 DEF Decoding
    <3> QED
      BY <1>5, <2>1, <3>2 DEF Decoding
  <2> QED
    BY <2>1
<1>7. QueueRight'
  <2>1. ASSUME NEW i \in 1..Len(queue), queue[i] # None
        PROVE  thread'[queue[i]] = thread[queue[i]]
    <3>1. queue[i] \in Requests
      BY <1>1, <2>1, ElementOfSeq DEF GenerativeTypeOK
    <3>2. queue[i] # r
      BY <1>1, <1>2, <2>1 DEF QueueRight
    <3> QED
      BY <1>3, <3>1, <3>2
  <2> QED
    BY <1>1, <2>1 DEF QueueRight, callVars
<1>8. WorkerRight'
  <2>1. ASSUME NEW s \in Requests, Decoding(s)', worker'.pc # "dead"
        PROVE  At(s)'
    BY <1>6, <2>1 DEF At
  <2>2. ASSUME NEW s \in Requests, At(s)'
        PROVE  /\ thread'[s].pc # "none"
               /\ Works("stream")' <=> P(s)'.stream
               /\ Works("generate")' => thread'[s].pc = "start"
               /\ Works("stats")' \/ Works("put")' => thread'[s].pc = "ended"
    <3>1. s = r /\ worker'.at = r /\ P(r)' = P(r)
      BY <1>3, <1>4, <2>2
    <3> QED
      BY <3>1 DEF Works
  <2>3. ~loop' => ~ready' /\ \A s \in Requests : call'[s].pc # "waiting"
    BY <1>1 DEF WorkerRight, callVars
  <2> QED
    BY <2>1, <2>2, <2>3 DEF WorkerRight
<1>9. SeedIsOwn'
  BY <1>1, <1>3, <1>6 DEF SeedIsOwn
<1>10. ASSUME NEW s \in Requests, s # r
       PROVE  RequestRight(s)'
  BY <1>4, <1>10, AloneRight DEF GenerativeIInv
<1> QED
  BY <1>7, <1>8, <1>9, <1>10 DEF GenerativeIInv

ThreadStates ==
  [pc : {"none", "start", "decode", "judge", "over", "ended", "raised"},
   tokens : 0..MaxLength, met : BOOLEAN]

LEMMA GenerateGenerative ==
  ASSUME GenerativeIInv, NEW r \in Requests, Generate(r)
  PROVE  GenerativeIInv'
<1>1. /\ worker.pc = "generate" /\ worker.at = r /\ At(r)
      /\ UNCHANGED <<is_encoder_decoder, callVars, queue, held, streamer, stats, responses, seed>>
  BY DEF Generate, Works, At
<1>2. GenerativeTypeOK /\ WorkerRight /\ Types(r) /\ CallRight(r) /\ r # None
  BY TypesHold, GenerativeModelAssumption DEF GenerativeIInv, RequestRight
<1>3. thread[r].pc = "start" /\ ~P(r).stream
  BY <1>1, <1>2 DEF WorkerRight, Works
<1>4. PlainRight(r)
  BY <1>3 DEF GenerativeIInv, RequestRight
<1>5. /\ call[r].max > 0 /\ P(r).prompt + call[r].max <= MaxLength /\ call[r].max \in Int
      /\ call[r].pc # "done" /\ call[r].reason # "stop" /\ responses[r] = <<>>
      /\ ~thread[r].met /\ thread[r].tokens = 0 /\ ~triggered[r]
  BY <1>2, <1>3 DEF CallRight, Types, CallStates
<1>6. P(r)' = P(r) /\ Shown(r)' = Shown(r)
  BY <1>1 DEF P, Shown, callVars
<1>7. ASSUME NEW n \in 1..call[r].max, NEW t \in {FALSE, P(r).stop},
             thread' = [thread EXCEPT ![r] = [pc |-> "ended", tokens |-> n, met |-> t]],
             triggered' = [triggered EXCEPT ![r] = t],
             worker' = [worker EXCEPT !.pc = "stats"]
      PROVE  GenerativeIInv'
  <2>1. n \in 1..MaxLength /\ n \in Nat /\ t \in BOOLEAN
    <3>1. MaxLength \in Nat /\ P(r).prompt \in Nat
      BY <1>2, GenerativeModelAssumption DEF Types
    <3>2. n \in 1..MaxLength /\ n \in Nat
      BY <1>5, <3>1
    <3>3. P(r).stop \in BOOLEAN
      BY <1>2 DEF Types, AllParams
    <3> QED
      BY <3>2, <3>3
  <2>2. thread \in [Requests -> ThreadStates]
    BY <1>2 DEF GenerativeTypeOK, ThreadStates
  <2>3. /\ thread' \in [Requests -> ThreadStates]
        /\ thread'[r].pc = "ended" /\ thread'[r].tokens = n /\ thread'[r].met = t
        /\ \A s \in Requests \ {r} : thread'[s] = thread[s]
    <3>1. [pc |-> "ended", tokens |-> n, met |-> t] \in ThreadStates
      BY <2>1 DEF ThreadStates
    <3> QED
      BY <1>7, <2>2, <3>1
  <2>4. /\ triggered' \in [Requests -> BOOLEAN] /\ triggered'[r] = t
        /\ \A s \in Requests \ {r} : triggered'[s] = triggered[s]
    BY <1>2, <1>7, <2>1 DEF GenerativeTypeOK
  <2>5. worker' = [pc |-> "stats", at |-> r]
    BY <1>1, <1>2, <1>7 DEF GenerativeTypeOK
  <2>6. GenerativeTypeOK'
    BY <1>1, <1>2, <2>3, <2>4, <2>5 DEF GenerativeTypeOK, ThreadStates, callVars
  <2>7. \A s \in Requests \ {r} : Alone(s)
    BY <1>1, <2>3, <2>4 DEF Alone, callVars
  <2>8. OutputLen(r)' = Shown(r) + n /\ OutputLen(r) = Shown(r) /\ Shown(r) \in Nat
    BY <1>2, <1>5, <1>6, <2>3 DEF OutputLen, Types
  <2>9. CallRight(r)'
    <3>1. IsPart(Shown(r), call[r].text, 0, Len(call[r].text))
          /\ Len(call[r].text) <= Shown(r) + n
      <4>1. Len(call[r].text) \in Nat
        BY <1>2, LenProperties DEF Types, CallStates, Texts
      <4> QED
        BY <1>2, <2>1, <2>8, <4>1 DEF CallRight
    <3>2. t => P(r).stop
      OBVIOUS
    <3>3. call[r].pc \notin {"new", "refused"}
      BY <1>2, <1>3 DEF CallRight
    <3>4. call' = call
      BY <1>1 DEF callVars
    <3> QED
      BY <1>5, <1>6, <2>1, <2>3, <2>4, <2>8, <3>1, <3>2, <3>3, <3>4 DEF CallRight
  <2>10. PlainRight(r)'
    BY <1>1, <1>4, <1>5, <2>3, <2>5 DEF PlainRight, Works, callVars
  <2>11. RequestRight(r)'
    BY <1>3, <1>6, <2>9, <2>10 DEF RequestRight
  <2>12. ~Decoding(r)'
    BY <1>3, <1>6, <2>5 DEF Decoding, Works
  <2> QED
    BY <1>1, <1>2, <1>3, <2>3, <2>5, <2>6, <2>7, <2>11, <2>12, WorkerGoesOn
<1>8. ASSUME thread' = [thread EXCEPT ![r].pc = "raised"],
             worker' = [pc |-> "dead", at |-> None],
             UNCHANGED triggered
      PROVE  GenerativeIInv'
  <2> DEFINE st == [thread[r] EXCEPT !.pc = "raised"]
  <2>1. /\ st \in ThreadStates /\ st.pc = "raised" /\ st.tokens = 0 /\ st.met = thread[r].met
        /\ thread' = [thread EXCEPT ![r] = st] /\ thread \in [Requests -> ThreadStates]
    BY <1>2, <1>5, <1>8 DEF GenerativeTypeOK, Types, ThreadStates
  <2> HIDE DEF st
  <2>2. /\ thread' \in [Requests -> ThreadStates] /\ thread'[r] = st
        /\ \A s \in Requests \ {r} : thread'[s] = thread[s]
    BY <2>1
  <2>3. GenerativeTypeOK'
    BY <1>1, <1>2, <1>8, <2>2 DEF GenerativeTypeOK, ThreadStates, callVars
  <2>4. \A s \in Requests \ {r} : Alone(s)
    BY <1>1, <1>8, <2>2 DEF Alone, callVars
  <2>5. OutputLen(r)' = OutputLen(r)
    BY <1>5, <1>6, <2>1, <2>2 DEF OutputLen
  <2>6. CallRight(r)'
    BY <1>1, <1>2, <1>3, <1>5, <1>6, <1>8, <2>1, <2>2, <2>5 DEF CallRight, callVars
  <2>7. ~At(r)'
    BY <1>2, <1>8 DEF At
  <2>8. PlainRight(r)'
    BY <1>1, <1>4, <1>5, <2>1, <2>2, <2>7 DEF PlainRight, callVars
  <2>9. RequestRight(r)'
    BY <1>3, <1>6, <2>6, <2>8 DEF RequestRight
  <2>10. ~Decoding(r)'
    BY <1>3, <1>6, <2>7 DEF Decoding
  <2> QED
    BY <1>1, <1>2, <1>8, <2>1, <2>2, <2>3, <2>4, <2>9, <2>10, WorkerGoesOn
<1> QED
  BY <1>7, <1>8 DEF Generate

LEMMA Products ==
  \A a, b, c \in Nat : a * b \in Nat /\ (c + b) - c = b
OBVIOUS

LEMMA WriteStatsGenerative ==
  ASSUME GenerativeIInv, NEW r \in Requests, WriteStats(r)
  PROVE  GenerativeIInv'
<1> DEFINE made == IF is_encoder_decoder THEN Returned(r) ELSE Returned(r) - P(r).prompt
           count == P(r).rows * made
<1>1. /\ worker.pc = "stats" /\ worker.at = r /\ At(r) /\ Works("stats")
      /\ stats' = [stats EXCEPT ![r] = count]
      /\ worker' = [worker EXCEPT !.pc = "put"]
      /\ UNCHANGED <<is_encoder_decoder, callVars, queue, genVars, responses, seed>>
  BY DEF WriteStats, Works, At
<1>2. GenerativeTypeOK /\ WorkerRight /\ Types(r) /\ CallRight(r) /\ r # None
  BY TypesHold, GenerativeModelAssumption DEF GenerativeIInv, RequestRight
<1>3. thread[r].pc = "ended" /\ ~P(r).stream
  BY <1>1, <1>2 DEF WorkerRight, Works
<1>4. PlainRight(r)
  BY <1>3 DEF GenerativeIInv, RequestRight
<1>5. P(r).prompt \in Nat /\ P(r).rows \in Nat /\ thread[r].tokens \in Nat
  BY <1>2, GenerativeModelAssumption DEF Types
<1>6. ~is_encoder_decoder => made = thread[r].tokens
  <2>1. (P(r).prompt + thread[r].tokens) - P(r).prompt = thread[r].tokens
    BY <1>5, Products
  <2> QED
    BY <2>1 DEF Returned
<1>7. made \in Nat
  BY <1>5, <1>6 DEF Returned
<1> HIDE DEF made
<1>8. count \in Nat /\ (~is_encoder_decoder => count = P(r).rows * thread[r].tokens)
  BY <1>5, <1>6, <1>7, Products
<1> HIDE DEF count
<1>9. /\ stats' \in [Requests -> Nat] /\ stats'[r] = count
      /\ \A s \in Requests \ {r} : stats'[s] = stats[s]
  BY <1>1, <1>2, <1>8 DEF GenerativeTypeOK
<1>10. worker' = [pc |-> "put", at |-> r]
  BY <1>1, <1>2 DEF GenerativeTypeOK
<1>11. GenerativeTypeOK'
  BY <1>1, <1>2, <1>9, <1>10 DEF GenerativeTypeOK, genVars, callVars
<1>12. \A s \in Requests \ {r} : Alone(s)
  BY <1>1, <1>9 DEF Alone, genVars, callVars
<1>13. /\ P(r)' = P(r) /\ Shown(r)' = Shown(r) /\ OutputLen(r)' = OutputLen(r)
       /\ thread'[r] = thread[r] /\ call'[r] = call[r] /\ responses'[r] = responses[r]
  BY <1>1 DEF P, Shown, OutputLen, genVars, callVars
<1>14. CallRight(r)'
  BY <1>1, <1>2, <1>13 DEF CallRight, genVars
<1>15. PlainRight(r)'
  <2>1. StatsRight(r)'
    BY <1>1, <1>8, <1>9, <1>13 DEF StatsRight
  <2>2. responses[r] = <<>> /\ call[r].pc # "done"
    BY <1>1, <1>4 DEF PlainRight
  <2> QED
    BY <1>1, <1>4, <1>13, <2>1, <2>2 DEF PlainRight
<1>16. RequestRight(r)'
  BY <1>3, <1>13, <1>14, <1>15 DEF RequestRight
<1>17. ~Decoding(r)'
  BY <1>3, <1>10, <1>13 DEF Decoding, Works
<1> QED
  BY <1>1, <1>2, <1>3, <1>10, <1>11, <1>12, <1>13, <1>16, <1>17, WorkerGoesOn DEF genVars

\* The text of a plain answer.
LEMMA OutputIsPart ==
  ASSUME NEW r \in Requests, Types(r),
         P(r).echo => P(r).prompt <= MaxLength
  PROVE  Output(r) \in Texts /\ IsPart(Shown(r), Output(r), 0, OutputLen(r))
<1> DEFINE s == Shown(r)
           n == thread[r].tokens
           front == IF P(r).echo THEN Prompt(r) ELSE <<>>
<1>1. n \in 0..MaxLength /\ n \in Nat /\ s \in Nat /\ P(r).prompt \in Nat
      /\ MaxLength \in Nat
  BY GenerativeModelAssumption DEF Types
<1>2. front \in Texts /\ IsPart(s, front, 0, s)
  <2>1. CASE P(r).echo
    <3>1. Prompt(r) \in Texts /\ Len(Prompt(r)) = P(r).prompt
          /\ \A i \in 1..P(r).prompt : Prompt(r)[i] = 0
      BY <1>1 DEF Prompt, Texts
    <3>2. s = P(r).prompt /\ front = Prompt(r)
      BY <2>1 DEF Shown
    <3> HIDE DEF front, s
    <3> QED
      BY <1>1, <3>1, <3>2 DEF IsPart, TokenAt
  <2>2. CASE ~P(r).echo
    <3>1. s = 0 /\ front = <<>> /\ <<>> \in Texts
      BY <2>2, EmptySeq DEF Shown, Texts
    <3> HIDE DEF front, s
    <3> QED
      BY <3>1, PartOfNone
  <2> QED
    BY <2>1, <2>2
<1>3. Tokens(n) \in Texts /\ IsPart(s, Tokens(n), s, s + n)
  <2> HIDE DEF n, s
  <2>1. Tokens(n) \in [1..n -> 0..MaxLength]
    BY <1>1 DEF Tokens
  <2>2. Tokens(n) \in Texts /\ Len(Tokens(n)) = n /\ \A i \in 1..n : Tokens(n)[i] = i
    BY <1>1, <2>1 DEF Tokens, Texts
  <2>3. \A i \in 1..n : TokenAt(s, s + i) = i
    BY <1>1 DEF TokenAt
  <2> QED
    BY <1>1, <2>2, <2>3 DEF IsPart
<1>4. front \o Tokens(n) \in Texts /\ IsPart(s, front \o Tokens(n), 0, s + n)
  <2>1. front \in Seq(0..MaxLength) /\ Tokens(n) \in Seq(0..MaxLength)
    BY <1>2, <1>3 DEF Texts
  <2> HIDE DEF front, s, n
  <2>2. 0 \in Int /\ s \in Int /\ s + n \in Int
    BY <1>1
  <2> QED
    BY <1>2, <1>3, <2>1, <2>2, PartsJoin, ConcatProperties DEF Texts
<1> QED
  BY <1>4 DEF Output, OutputLen

LEMMA PutOutputGenerative ==
  ASSUME GenerativeIInv, NEW r \in Requests, PutOutput(r)
  PROVE  GenerativeIInv'
<1>1. /\ worker.pc = "put" /\ worker.at = r /\ At(r) /\ Works("put")
      /\ QueuePut(r, Output(r), "get")
      /\ UNCHANGED <<is_encoder_decoder, callVars, queue, genVars, stats, seed>>
  BY DEF PutOutput, Works, At
<1>2. GenerativeTypeOK /\ WorkerRight /\ Types(r) /\ CallRight(r) /\ r # None
  BY TypesHold, GenerativeModelAssumption DEF GenerativeIInv, RequestRight
<1>3. thread[r].pc = "ended" /\ ~P(r).stream
  BY <1>1, <1>2 DEF WorkerRight, Works
<1>4. PlainRight(r)
  BY <1>3 DEF GenerativeIInv, RequestRight
<1>5. responses[r] = <<>> /\ call[r].pc # "done" /\ StatsRight(r)
  BY <1>1, <1>4 DEF PlainRight
<1>6. Output(r) \in Texts /\ IsPart(Shown(r), Output(r), 0, OutputLen(r)) /\ Output(r) # None
  <2>1. call[r].max > 0 /\ P(r).prompt + call[r].max <= MaxLength /\ call[r].max \in Int
        /\ P(r).prompt \in Nat /\ MaxLength \in Nat
    BY <1>2, <1>3, GenerativeModelAssumption DEF CallRight, Types, CallStates
  <2>2. P(r).prompt <= MaxLength
    BY <2>1
  <2> QED
    BY <1>2, <2>2, OutputIsPart, NoneIsNoText
<1>7. /\ responses' \in [Requests -> Items]
      /\ \A s \in Requests \ {r} : responses'[s] = responses[s]
      /\ responses'[r] = <<>> \/ responses'[r] = <<Output(r)>>
      /\ worker' \in {[pc |-> "get", at |-> None], [pc |-> "dead", at |-> None]}
  <2>1. responses \in [Requests -> Items] /\ <<Output(r)>> \in Items
    BY <1>2, <1>6 DEF GenerativeTypeOK, Items
  <2>2. CASE loop
    <3>1. /\ responses' = [responses EXCEPT ![r] = Append(responses[r], Output(r))]
          /\ worker' = [pc |-> "get", at |-> None]
      BY <1>1, <2>2 DEF QueuePut
    <3>2. Append(responses[r], Output(r)) = <<Output(r)>>
      BY <1>5
    <3> QED
      BY <2>1, <3>1, <3>2
  <2>3. CASE ~loop
    BY <1>1, <1>5, <2>1, <2>3 DEF QueuePut
  <2> QED
    BY <2>2, <2>3
<1>8. worker'.at = None /\ worker'.pc \in {"get", "dead"}
  BY <1>7
<1>9. GenerativeTypeOK'
  <2>1. worker' \in [pc : {"get", "generate", "stats", "put", "stream", "stopped", "dead"},
                     at : Requests \cup {None}]
    BY <1>7
  <2> QED
    BY <1>1, <1>2, <1>7, <2>1 DEF GenerativeTypeOK, Items, genVars, callVars
<1>10. \A s \in Requests \ {r} : Alone(s)
  BY <1>1, <1>7 DEF Alone, genVars, callVars
<1>11. /\ P(r)' = P(r) /\ Shown(r)' = Shown(r) /\ OutputLen(r)' = OutputLen(r)
       /\ thread'[r] = thread[r] /\ call'[r] = call[r] /\ StatsRight(r)' = StatsRight(r)
       /\ ~At(r)'
  BY <1>1, <1>2, <1>8 DEF P, Shown, OutputLen, StatsRight, At, genVars, callVars
<1>12. CallRight(r)'
  BY <1>1, <1>2, <1>3, <1>11 DEF CallRight, genVars
<1>13. PlainRight(r)'
  <2>1. Len(<<Output(r)>>) = 1 /\ <<Output(r)>>[1] = Output(r)
    OBVIOUS
  <2>2. responses'[r] # <<>> =>
          /\ Len(responses'[r]) = 1 /\ responses'[r][1] # None
          /\ IsPart(Shown(r), responses'[r][1], 0, OutputLen(r))
    BY <1>6, <1>7, <2>1
  <2> QED
    BY <1>3, <1>4, <1>5, <1>11, <2>2 DEF PlainRight
<1>14. RequestRight(r)'
  BY <1>3, <1>11, <1>12, <1>13 DEF RequestRight
<1>15. ~Decoding(r)'
  BY <1>3, <1>11 DEF Decoding
<1> QED
  BY <1>1, <1>2, <1>3, <1>8, <1>9, <1>10, <1>11, <1>14, <1>15, WorkerGoesOn DEF genVars

\* What the streamer hands out goes to the client of the same request; an empty
\* text is no loss, and the end comes after the last text.
LEMMA MoveGenerative ==
  ASSUME GenerativeIInv, NEW r \in Requests, Move(r)
  PROVE  GenerativeIInv'
<1> DEFINE item == Head(streamer[r])
           rest == Tail(streamer[r])
           get == [pc |-> "get", at |-> None]
           stream == [pc |-> "stream", at |-> r]
           dead == [pc |-> "dead", at |-> None]
<1>1. /\ worker.pc = "stream" /\ worker.at = r /\ At(r) /\ streamer[r] # <<>>
      /\ streamer' = [streamer EXCEPT ![r] = rest]
      /\ UNCHANGED <<is_encoder_decoder, callVars, queue, thread, triggered, held, stats, seed>>
  BY DEF Move, Works, At
<1>2. GenerativeTypeOK /\ WorkerRight /\ Types(r) /\ CallRight(r) /\ r # None
  BY TypesHold, GenerativeModelAssumption DEF GenerativeIInv, RequestRight
<1>3. P(r).stream /\ thread[r].pc # "none"
  BY <1>1, <1>2 DEF WorkerRight, Works
<1>4. StreamRight(r)
  BY <1>3 DEF GenerativeIInv, RequestRight
<1>5. /\ responses[r] \in Items /\ streamer[r] \in Items /\ rest \in Items
      /\ item \in Texts \cup {None} /\ 1 \in 1..Len(streamer[r]) /\ item = streamer[r][1]
      /\ \A i \in 1..Len(rest) : rest[i] = streamer[r][i + 1] /\ i + 1 \in 1..Len(streamer[r])
      /\ Append(responses[r], item) \in Items
      /\ \A i \in 1..Len(Append(responses[r], item)) :
           \/ i \in 1..Len(responses[r]) /\ Append(responses[r], item)[i] = responses[r][i]
           \/ Append(responses[r], item)[i] = item
  <2>1. responses[r] \in Items /\ streamer[r] \in Items
    BY <1>2 DEF Types
  <2>2. /\ rest \in Items /\ item \in Texts \cup {None} /\ 1 \in 1..Len(streamer[r])
        /\ item = streamer[r][1]
        /\ \A i \in 1..Len(rest) : rest[i] = streamer[r][i + 1] /\ i + 1 \in 1..Len(streamer[r])
    BY <1>1, <2>1, HeadTailProperties, LenProperties, EmptySeq DEF Items
  <2> DEFINE new == Append(responses[r], item)
  <2>3. /\ new \in Items /\ Len(new) = Len(responses[r]) + 1 /\ Len(responses[r]) \in Nat
        /\ \A i \in 1..Len(responses[r]) : new[i] = responses[r][i]
        /\ new[Len(responses[r]) + 1] = item
    BY <2>1, <2>2, AppendProperties, LenProperties DEF Items
  <2> HIDE DEF new
  <2>4. \A i \in 1..Len(new) : i \in 1..Len(responses[r]) \/ i = Len(responses[r]) + 1
    BY <2>3
  <2> QED
    BY <2>1, <2>2, <2>3, <2>4 DEF new
<1>6. item = None => thread[r].pc = "ended"
  BY <1>4, <1>5 DEF StreamRight
<1>7. \/ item = None /\ loop /\ worker' = get
         /\ responses' = [responses EXCEPT ![r] = Append(responses[r], item)]
      \/ item = <<>> /\ item # None /\ UNCHANGED <<worker, responses>>
      \/ item # None /\ item # <<>> /\ loop /\ worker' = stream
         /\ responses' = [responses EXCEPT ![r] = Append(responses[r], item)]
      \/ ~loop /\ worker' = dead /\ UNCHANGED responses
  <2>1. None # <<>>
    BY NoneIsNoText, EmptySeq DEF Texts
  <2>2. CASE item = None
    <3>1. QueuePut(r, None, "get")
      BY <2>1, <2>2 DEF Move
    <3>2. CASE loop
      BY <2>2, <3>1, <3>2 DEF QueuePut
    <3>3. CASE ~loop
      BY <3>1, <3>3 DEF QueuePut
    <3> QED
      BY <3>2, <3>3
  <2>3. CASE item = <<>>
    BY <2>1, <2>3 DEF Move
  <2>4. CASE item # None /\ item # <<>>
    <3>1. QueuePut(r, item, "stream")
      BY <2>4 DEF Move
    <3>2. CASE loop
      BY <2>4, <3>1, <3>2 DEF QueuePut
    <3>3. CASE ~loop
      BY <3>1, <3>3 DEF QueuePut
    <3> QED
      BY <3>2, <3>3
  <2> QED
    BY <2>2, <2>3, <2>4
<1> HIDE DEF item, rest
<1>8. /\ worker' \in {get, stream, dead}
      /\ worker' = get => thread[r].pc = "ended"
  <2>1. worker = stream
    BY <1>1, <1>2 DEF GenerativeTypeOK
  <2>2. get.pc = "get" /\ stream.pc = "stream" /\ dead.pc = "dead"
    OBVIOUS
  <2> HIDE DEF get, stream, dead
  <2> QED
    BY <1>6, <1>7, <2>1, <2>2
<1>9. /\ worker'.at \in {r, None}
      /\ worker'.at = None <=> worker'.pc \in {"get", "stopped", "dead"}
      /\ worker'.pc \in {"get", "stream", "dead"}
      /\ worker'.pc = "get" => thread[r].pc = "ended"
      /\ worker' \in [pc : {"get", "generate", "stats", "put", "stream", "stopped", "dead"},
                      at : Requests \cup {None}]
  <2>1. CASE worker' = get
    BY <1>2, <1>8, <2>1
  <2>2. CASE worker' = stream
    BY <1>2, <2>2
  <2>3. CASE worker' = dead
    BY <1>2, <2>3
  <2> QED
    BY <1>8, <2>1, <2>2, <2>3
<1> HIDE DEF get, stream, dead
<1>10. /\ streamer' \in [Requests -> Items] /\ streamer'[r] = rest
       /\ \A s \in Requests \ {r} : streamer'[s] = streamer[s]
  <2>1. streamer \in [Requests -> Items]
    BY <1>2 DEF GenerativeTypeOK, Items
  <2> QED
    BY <1>1, <1>5, <2>1
<1>11. /\ responses' \in [Requests -> Items]
       /\ \A s \in Requests \ {r} : responses'[s] = responses[s]
       /\ \/ loop /\ responses'[r] = Append(responses[r], item)
          \/ item = <<>> /\ responses'[r] = responses[r]
          \/ ~loop /\ responses'[r] = responses[r]
  <2>1. responses \in [Requests -> Items]
    BY <1>2 DEF GenerativeTypeOK, Items
  <2> DEFINE new == Append(responses[r], item)
  <2>2. new \in Items
    BY <1>5
  <2> HIDE DEF new
  <2>3. CASE responses' = [responses EXCEPT ![r] = new] /\ loop
    BY <2>1, <2>2, <2>3 DEF new
  <2>4. CASE UNCHANGED responses /\ (item = <<>> \/ ~loop)
    BY <2>1, <2>4
  <2> QED
    BY <1>7, <2>3, <2>4 DEF new
<1>12. GenerativeTypeOK'
  BY <1>1, <1>2, <1>9, <1>10, <1>11 DEF GenerativeTypeOK, Items, callVars
<1>13. \A s \in Requests \ {r} : Alone(s)
  BY <1>1, <1>10, <1>11 DEF Alone, callVars
<1>14. /\ P(r)' = P(r) /\ Shown(r)' = Shown(r) /\ OutputLen(r)' = OutputLen(r)
       /\ thread'[r] = thread[r] /\ call'[r] = call[r] /\ Streamed(r)' = Streamed(r)
       /\ held'[r] = held[r]
  BY <1>1 DEF P, Shown, OutputLen, Streamed, callVars
<1>15. CallRight(r)'
  <2>1. thread[r].pc # "start"
    BY <1>1, <1>2 DEF CallRight
  <2> QED
    BY <1>1, <1>2, <1>3, <1>14, <2>1 DEF CallRight
<1>16. call[r].pc = "waiting" =>
         Continues(Shown(r), call[r].text, responses'[r] \o streamer'[r], held[r], Streamed(r))
  <2> SUFFICES ASSUME call[r].pc = "waiting"
               PROVE  Continues(Shown(r), call[r].text, responses'[r] \o streamer'[r], held[r],
                                Streamed(r))
    OBVIOUS
  <2> DEFINE front == responses[r]
             back == streamer[r]
  <2>1. loop
    BY <1>2 DEF WorkerRight
  <2>2. Continues(Shown(r), call[r].text, front \o back, held[r], Streamed(r))
    BY <1>4 DEF StreamRight
  <2>3. /\ call[r].text \in Texts /\ held[r] \in Texts /\ Streamed(r) \in Nat
        /\ front \in Items /\ back \in Items /\ back # <<>>
        /\ Head(back) = item /\ Tail(back) = rest
    BY <1>1, <1>2 DEF Types, CallStates, item, rest
  <2>4. \/ responses'[r] = Append(front, item)
        \/ item = <<>> /\ responses'[r] = front
    BY <1>11, <2>1
  <2> HIDE DEF front, back
  <2>5. CASE responses'[r] = Append(front, item)
    <3>1. Append(front, Head(back)) \o Tail(back) = front \o back
      BY <2>3, ItemsMove DEF Items
    <3> QED
      BY <1>10, <2>2, <2>3, <2>5, <3>1
  <2>6. CASE item = <<>> /\ responses'[r] = front
    <3>1. Continues(Shown(r), call[r].text, front \o Tail(back), held[r], Streamed(r))
      BY <2>2, <2>3, <2>6, ContinuesWithout
    <3> QED
      BY <1>10, <2>3, <2>6, <3>1
  <2> QED
    BY <2>4, <2>5, <2>6
<1>17. \A i \in 1..Len(streamer'[r]) : streamer'[r][i] = None => thread[r].pc = "ended"
  BY <1>4, <1>5, <1>10 DEF StreamRight
<1>18. \A i \in 1..Len(responses'[r]) : responses'[r][i] = None => thread[r].pc = "ended"
  <2>1. CASE responses'[r] = responses[r]
    BY <1>4, <2>1 DEF StreamRight
  <2>2. CASE responses'[r] = Append(responses[r], item)
    BY <1>4, <1>5, <1>6, <2>2 DEF StreamRight
  <2> QED
    BY <1>11, <2>1, <2>2
<1>19. StreamRight(r)'
  BY <1>4, <1>14, <1>16, <1>17, <1>18 DEF StreamRight
<1>20. RequestRight(r)'
  BY <1>3, <1>14, <1>15, <1>19 DEF RequestRight
<1>21. Decoding(r)' => Decoding(r) /\ worker'.pc \in {"dead", "stream", "generate"}
  BY <1>3, <1>9, <1>14 DEF Decoding
<1>22. worker'.at = r => worker'.pc = "stream"
  BY <1>2, <1>9
<1> QED
  BY <1>1, <1>3, <1>9, <1>12, <1>13, <1>14, <1>20, <1>21, <1>22, WorkerGoesOn

-----------------------------------------------------------------------------
(* The thread of a stream.                                                 *)

\* A stream makes its text: no other request is touched, nor the background
\* thread.
LEMMA ThreadGoesOn ==
  ASSUME GenerativeIInv, NEW r \in Requests, P(r).stream,
         thread[r].pc # "none",
         NEW st \in ThreadStates, st.pc # "none",
         thread' = [thread EXCEPT ![r] = st],
         st.pc \in {"start", "decode", "judge"} => thread[r].pc \in {"start", "decode", "judge"},
         NEW text \in Texts, held' = [held EXCEPT ![r] = text],
         NEW items \in Items, streamer' = [streamer EXCEPT ![r] = items],
         NEW met \in BOOLEAN, triggered' = [triggered EXCEPT ![r] = met],
         UNCHANGED <<is_encoder_decoder, callVars, queue, worker, stats, responses, seed>>,
         RequestRight(r)'
  PROVE  GenerativeIInv'
<1>1. GenerativeTypeOK /\ QueueRight /\ WorkerRight /\ SeedIsOwn
  BY DEF GenerativeIInv
<1>2. /\ thread' \in [Requests -> ThreadStates] /\ thread'[r] = st
      /\ held' \in [Requests -> Texts] /\ streamer' \in [Requests -> Items]
      /\ triggered' \in [Requests -> BOOLEAN]
      /\ \A s \in Requests \ {r} : thread'[s] = thread[s] /\ held'[s] = held[s]
           /\ streamer'[s] = streamer[s] /\ triggered'[s] = triggered[s]
  BY <1>1 DEF GenerativeTypeOK, ThreadStates, Items
<1>3. GenerativeTypeOK'
  BY <1>1, <1>2 DEF GenerativeTypeOK, ThreadStates, Items, callVars
<1>4. \A s \in Requests \ {r} : Alone(s)
  BY <1>2 DEF Alone, callVars
<1>5. QueueRight'
  <2>1. ASSUME NEW i \in 1..Len(queue), queue[i] # None
        PROVE  thread'[queue[i]] = thread[queue[i]]
    <3>1. queue[i] \in Requests
      BY <1>1, <2>1, ElementOfSeq DEF GenerativeTypeOK
    <3>2. queue[i] # r
      BY <1>1, <2>1 DEF QueueRight
    <3> QED
      BY <1>2, <3>1, <3>2
  <2> QED
    BY <1>1, <2>1 DEF QueueRight, callVars
<1>6. \A s \in Requests : P(s)' = P(s) /\ At(s)' = At(s) /\ (Decoding(s)' => Decoding(s))
  <2>1. \A s \in Requests : P(s)' = P(s) /\ At(s)' = At(s)
    BY DEF P, At, callVars
  <2>2. Decoding(r)' => Decoding(r)
    BY <1>2, <2>1 DEF Decoding
  <2>3. \A s \in Requests \ {r} : Decoding(s)' => Decoding(s)
    BY <1>2, <2>1 DEF Decoding, Works
  <2> QED
    BY <2>1, <2>2, <2>3
<1>7. WorkerRight'
  <2>1. ASSUME NEW s \in Requests, At(s)'
        PROVE  /\ thread'[s].pc # "none"
               /\ Works("stream")' <=> P(s)'.stream
               /\ Works("generate")' => thread'[s].pc = "start"
               /\ Works("stats")' \/ Works("put")' => thread'[s].pc = "ended"
    <3>1. At(s)
      BY <1>6, <2>1
    <3>2. CASE s = r
      <4>1. Works("stream")
        BY <1>1, <3>1, <3>2 DEF WorkerRight
      <4> QED
        BY <1>2, <1>6, <3>2, <4>1 DEF Works
    <3>3. CASE s # r
      BY <1>1, <1>2, <1>6, <3>1, <3>3 DEF WorkerRight, Works
    <3> QED
      BY <3>2, <3>3
  <2>2. /\ worker'.at = None <=> worker'.pc \in {"get", "stopped", "dead"}
        /\ \A s \in Requests : Decoding(s)' /\ worker'.pc # "dead" => At(s)'
        /\ ~loop' => ~ready' /\ \A s \in Requests : call'[s].pc # "waiting"
    BY <1>1, <1>6 DEF WorkerRight, callVars
  <2> QED
    BY <2>1, <2>2 DEF WorkerRight
<1>8. SeedIsOwn'
  BY <1>1, <1>6 DEF SeedIsOwn
<1> QED
  BY <1>3, <1>4, <1>5, <1>7, <1>8, OthersAlone DEF GenerativeIInv

\* The text of a request whose thread goes on: as long as the text that it makes
\* grows, what is known of its call stays.
LEMMA StreamGrows ==
  ASSUME GenerativeIInv, NEW r \in Requests, P(r).stream,
         thread[r].pc \notin {"none", "ended"},
         UNCHANGED <<is_encoder_decoder, callVars, responses>>,
         thread'[r] \in ThreadStates, thread'[r].pc \notin {"none", "start"},
         thread'[r].tokens >= thread[r].tokens,
         thread'[r].tokens > 0 => thread'[r].tokens <= call[r].max,
         thread'[r].pc = "decode" => thread'[r].tokens < call[r].max,
         triggered'[r] <=> thread'[r].met,
         thread'[r].met => P(r).stop,
         thread[r].met => thread'[r].met
  PROVE  CallRight(r)'
<1>1. Types(r) /\ CallRight(r)
  BY TypesHold DEF GenerativeIInv, RequestRight
<1>2. /\ P(r)' = P(r) /\ Shown(r)' = Shown(r) /\ call'[r] = call[r]
  BY DEF P, Shown, callVars
<1>3. Len(call[r].text) <= OutputLen(r)'
  <2>1. Len(call[r].text) \in Nat
    BY <1>1, LenProperties DEF Types, CallStates, Texts
  <2>2. Len(call[r].text) <= Shown(r) + thread[r].tokens
    BY <1>1 DEF CallRight, OutputLen
  <2>3. Shown(r) \in Nat /\ thread[r].tokens \in Int /\ thread'[r].tokens \in Int
    BY <1>1 DEF Types, ThreadStates
  <2>4. OutputLen(r)' = Shown(r) + thread'[r].tokens
    BY <1>2 DEF OutputLen
  <2> QED
    BY <2>1, <2>2, <2>3, <2>4
<1>4. call[r].pc # "done"
  BY <1>1 DEF CallRight
<1> QED
  BY <1>1, <1>2, <1>3, <1>4 DEF CallRight

\* No end is on its way before the thread has ended.
LEMMA NoEndYet ==
  ASSUME GenerativeIInv, NEW r \in Requests, P(r).stream, thread[r].pc # "ended"
  PROVE  /\ responses[r] \o streamer[r] \in Items
         /\ \A i \in 1..Len(responses[r] \o streamer[r]) :
              (responses[r] \o streamer[r])[i] # None
         /\ \A i \in 1..Len(streamer[r]) : streamer[r][i] # None
         /\ \A i \in 1..Len(responses[r]) : responses[r][i] # None
<1>1. StreamRight(r) /\ Types(r)
  BY TypesHold DEF GenerativeIInv, RequestRight
<1> DEFINE p == responses[r]
           q == streamer[r]
<1>2. /\ p \in Items /\ q \in Items
      /\ \A i \in 1..Len(p) : p[i] # None
      /\ \A i \in 1..Len(q) : q[i] # None
  BY <1>1 DEF StreamRight, Types
<1> HIDE DEF p, q
<1>3. /\ p \o q \in Items /\ Len(p \o q) = Len(p) + Len(q)
      /\ Len(p) \in Nat /\ Len(q) \in Nat
      /\ \A i \in 1..(Len(p) + Len(q)) : (p \o q)[i] = IF i <= Len(p) THEN p[i] ELSE q[i - Len(p)]
  BY <1>2, ConcatProperties, LenProperties DEF Items
<1>4. ASSUME NEW i \in 1..(Len(p) + Len(q))
      PROVE  (p \o q)[i] # None
  <2>1. CASE i <= Len(p)
    BY <1>2, <1>3, <2>1
  <2>2. CASE ~(i <= Len(p))
    <3>1. i - Len(p) \in 1..Len(q)
      BY <1>3, <2>2
    <3> QED
      BY <1>2, <1>3, <2>2, <3>1
  <2> QED
    BY <2>1, <2>2
<1> QED
  BY <1>2, <1>3, <1>4 DEF p, q

LEMMA TextSplits ==
  ASSUME NEW t \in Texts, NEW k \in 0..Len(t)
  PROVE  SubSeq(t, 1, k) \in Texts /\ SubSeq(t, k + 1, Len(t)) \in Texts
<1>1. Len(t) \in Nat /\ \A i \in 1..Len(t) : t[i] \in 0..MaxLength
  BY LenProperties, ElementOfSeq DEF Texts
<1> QED
  BY <1>1, SubSeqProperties DEF Texts

\* What is put into the streamer goes on where the text that is held back began.
LEMMA PutGoesOn ==
  ASSUME GenerativeIInv, NEW r \in Requests, P(r).stream, thread[r].pc # "ended",
         NEW t \in Texts, NEW k \in 0..Len(t), NEW e2 \in Nat, Streamed(r) <= e2,
         \A a \in Int : IsPart(Shown(r), held[r], a, Streamed(r)) => IsPart(Shown(r), t, a, e2)
  PROVE  /\ Append(streamer[r], SubSeq(t, 1, k)) \in Items
         /\ \A i \in 1..Len(Append(streamer[r], SubSeq(t, 1, k))) :
              Append(streamer[r], SubSeq(t, 1, k))[i] # None
         /\ call[r].pc = "waiting" =>
              Continues(Shown(r), call[r].text,
                        responses[r] \o Append(streamer[r], SubSeq(t, 1, k)),
                        SubSeq(t, k + 1, Len(t)), e2)
<1> DEFINE p == responses[r]
           q == streamer[r]
           l == SubSeq(t, 1, k)
<1>1. /\ p \in Items /\ q \in Items /\ p \o q \in Items
      /\ \A i \in 1..Len(p \o q) : (p \o q)[i] # None
      /\ \A i \in 1..Len(q) : q[i] # None
  BY NoEndYet, TypesHold DEF Types, GenerativeIInv
<1>2. call[r].text \in Texts /\ held[r] \in Texts /\ Streamed(r) \in Nat
  BY TypesHold DEF Types, CallStates, GenerativeIInv
<1>3. l \in Texts /\ l # None
  BY TextSplits, NoneIsNoText
<1>4. call[r].pc = "waiting" =>
        Continues(Shown(r), call[r].text, p \o q, held[r], Streamed(r))
  BY DEF GenerativeIInv, RequestRight, StreamRight
<1> HIDE DEF p, q
<1>5. call[r].pc = "waiting" =>
        Continues(Shown(r), call[r].text, Append(p \o q, l), SubSeq(t, k + 1, Len(t)), e2)
  BY <1>1, <1>2, <1>4, ContinuesPut
<1> HIDE DEF l
<1>6. p \o Append(q, l) = Append(p \o q, l)
  BY <1>1, <1>3, ItemsAppend DEF Items
<1>7. /\ Append(q, l) \in Items /\ Len(Append(q, l)) = Len(q) + 1 /\ Len(q) \in Nat
      /\ \A i \in 1..Len(q) : Append(q, l)[i] = q[i]
      /\ Append(q, l)[Len(q) + 1] = l
  BY <1>1, <1>3, AppendProperties, LenProperties DEF Items
<1>8. \A i \in 1..(Len(q) + 1) : Append(q, l)[i] # None
  <2>1. \A i \in 1..(Len(q) + 1) : i \in 1..Len(q) \/ i = Len(q) + 1
    BY <1>7
  <2> QED
    BY <1>1, <1>3, <1>7, <2>1
<1> QED
  BY <1>5, <1>6, <1>7, <1>8 DEF p, q, l

LEMMA BeginGenerative ==
  ASSUME GenerativeIInv, NEW r \in Requests, Begin(r)
  PROVE  GenerativeIInv'
<1>1. /\ P(r).stream /\ thread[r].pc = "start"
      /\ UNCHANGED <<is_encoder_decoder, callVars, queue, worker, triggered, stats, responses,
                     seed>>
  BY DEF Begin, Generates
<1>2. Types(r) /\ CallRight(r) /\ StreamRight(r)
  BY <1>1, TypesHold DEF GenerativeIInv, RequestRight
<1>3. /\ thread[r].tokens = 0 /\ ~thread[r].met /\ ~triggered[r] /\ call[r].max > 0
      /\ responses[r] = <<>> /\ streamer[r] = <<>> /\ held[r] = <<>>
      /\ thread[r] \in ThreadStates /\ triggered[r] \in BOOLEAN
      /\ held[r] \in Texts /\ streamer[r] \in Items
  BY <1>1, <1>2 DEF CallRight, Types, ThreadStates
<1>4. Streamed(r) = 0
  BY <1>1 DEF Streamed
<1>5. /\ P(r)' = P(r) /\ Shown(r)' = Shown(r) /\ call'[r] = call[r]
      /\ responses'[r] = responses[r] /\ Shown(r) \in Nat
      /\ triggered' = [triggered EXCEPT ![r] = triggered[r]]
  BY <1>1, <1>2 DEF P, Shown, callVars, GenerativeIInv, GenerativeTypeOK, Types
<1>6. thread \in [Requests -> ThreadStates]
  BY DEF GenerativeIInv, GenerativeTypeOK, ThreadStates
<1> DEFINE to(pc_) == [thread[r] EXCEPT !.pc = pc_]
<1>7. /\ to("decode") \in ThreadStates /\ to("raised") \in ThreadStates
      /\ to("decode").pc = "decode" /\ to("decode").tokens = 0
      /\ to("decode").met = thread[r].met
      /\ to("raised").pc = "raised" /\ to("raised").tokens = 0
      /\ to("raised").met = thread[r].met
  BY <1>3 DEF ThreadStates
<1>8. CASE /\ P(r).rows = 1
           /\ thread' = [thread EXCEPT ![r].pc = "decode"]
  <2> DEFINE st == to("decode")
  <2>1. thread' = [thread EXCEPT ![r] = st]
    BY <1>8
  <2>2. st \in ThreadStates /\ st.pc = "decode" /\ st.tokens = 0 /\ st.met = thread[r].met
    BY <1>7
  <2> HIDE DEF st
  <2>3. thread'[r] = st
    BY <1>6, <2>1
  <2>4. CallRight(r)'
    BY <1>1, <1>3, <2>2, <2>3, StreamGrows DEF callVars
  <2>5. OutputLen(r)' = Shown(r) /\ Streamed(r)' = Shown(r)
    <3>1. thread'[r].tokens = 0 /\ thread'[r].pc = "decode" /\ P(r)'.rows = 1
      BY <1>5, <1>8, <2>2, <2>3
    <3>2. OutputLen(r)' = Shown(r)
      BY <1>5, <3>1 DEF OutputLen
    <3> QED
      BY <3>1, <3>2 DEF Streamed
  <2>6. CASE P(r).echo /\ PutText(r, Prompt(r))
    <3> DEFINE t == Prompt(r)
    <3>1. PICK k \in 0..Len(t) :
            /\ streamer' = [streamer EXCEPT ![r] = Append(streamer[r], SubSeq(t, 1, k))]
            /\ held' = [held EXCEPT ![r] = SubSeq(t, k + 1, Len(t))]
      BY <2>6 DEF PutText
    <3>2. /\ t \in Texts /\ Len(t) = P(r).prompt /\ \A i \in 1..P(r).prompt : t[i] = 0
          /\ Shown(r) = P(r).prompt
      BY <1>2, <2>6, GenerativeModelAssumption DEF Prompt, Texts, Shown, Types
    <3>3. ASSUME NEW a \in Int, IsPart(Shown(r), held[r], a, Streamed(r))
          PROVE  IsPart(Shown(r), t, a, Shown(r))
      <4>1. a = 0
        BY <1>3, <1>4, <3>3 DEF IsPart
      <4> HIDE DEF t
      <4> QED
        BY <1>5, <3>2, <4>1 DEF IsPart, TokenAt
    <3> DEFINE items == Append(streamer[r], SubSeq(t, 1, k))
               kept == SubSeq(t, k + 1, Len(t))
    <3>4. kept \in Texts
      BY <3>2, TextSplits
    <3>5. /\ items \in Items /\ \A i \in 1..Len(items) : items[i] # None
          /\ call[r].pc = "waiting" =>
               Continues(Shown(r), call[r].text, responses[r] \o items, kept, Shown(r))
      BY <1>1, <1>4, <1>5, <3>2, <3>3, PutGoesOn
    <3> HIDE DEF items, kept, t
    <3>6. streamer'[r] = items /\ held'[r] = kept
      BY <3>1 DEF items, kept, GenerativeIInv, GenerativeTypeOK
    <3>7. StreamRight(r)'
      <4>1. thread'[r].pc = "decode" /\ P(r)'.rows = 1
        BY <1>5, <1>8, <2>2, <2>3
      <4>2. \A i \in 1..Len(responses[r]) : responses[r][i] = None => FALSE
        BY <1>3
      <4> QED
        BY <1>5, <2>5, <3>5, <3>6, <4>1, <4>2 DEF StreamRight
    <3>8. RequestRight(r)'
      BY <1>1, <1>5, <2>4, <3>7 DEF RequestRight
    <3>9. streamer' = [streamer EXCEPT ![r] = items] /\ held' = [held EXCEPT ![r] = kept]
      BY <3>1 DEF items, kept
    <3> QED
      BY <1>1, <1>3, <1>5, <2>1, <2>2, <3>4, <3>5, <3>8, <3>9, ThreadGoesOn
  <2>7. CASE ~P(r).echo /\ UNCHANGED <<streamer, held>>
    <3>1. Shown(r) = 0
      BY <2>7 DEF Shown
    <3>2. /\ streamer' = [streamer EXCEPT ![r] = streamer[r]] /\ streamer'[r] = streamer[r]
          /\ held' = [held EXCEPT ![r] = held[r]] /\ held'[r] = held[r]
      BY <2>7 DEF GenerativeIInv, GenerativeTypeOK
    <3>3. StreamRight(r)'
      BY <1>2, <1>3, <1>4, <1>5, <1>8, <2>2, <2>3, <2>5, <3>1, <3>2 DEF StreamRight
    <3>4. RequestRight(r)'
      BY <1>1, <1>5, <2>4, <3>3 DEF RequestRight
    <3> QED
      BY <1>1, <1>3, <1>5, <2>1, <2>2, <3>2, <3>4, ThreadGoesOn
  <2> QED
    BY <1>8, <2>2, <2>6, <2>7, <1>7, <1>1, <1>6 DEF Begin
<1>9. CASE /\ P(r).rows > 1
           /\ thread' = [thread EXCEPT ![r].pc = "raised"]
           /\ UNCHANGED <<streamer, held>>
  <2> DEFINE st == to("raised")
  <2>1. thread' = [thread EXCEPT ![r] = st]
    BY <1>9
  <2>2. st \in ThreadStates /\ st.pc = "raised" /\ st.tokens = 0 /\ st.met = thread[r].met
    BY <1>7
  <2> HIDE DEF st
  <2>3. thread'[r] = st
    BY <1>6, <2>1
  <2>4. CallRight(r)'
    BY <1>1, <1>3, <2>2, <2>3, StreamGrows DEF callVars
  <2>5. Streamed(r)' = 0
    BY <1>5, <1>9 DEF Streamed
  <2>6. /\ streamer' = [streamer EXCEPT ![r] = streamer[r]] /\ streamer'[r] = streamer[r]
        /\ held' = [held EXCEPT ![r] = held[r]] /\ held'[r] = held[r]
    BY <1>9 DEF GenerativeIInv, GenerativeTypeOK
  <2>7. StreamRight(r)'
    BY <1>2, <1>3, <1>4, <1>5, <2>2, <2>3, <2>5, <2>6 DEF StreamRight
  <2>8. RequestRight(r)'
    BY <1>1, <1>5, <2>4, <2>7 DEF RequestRight
  <2> QED
    BY <1>1, <1>3, <1>5, <2>1, <2>2, <2>6, <2>8, ThreadGoesOn
<1>10. \/ P(r).rows = 1 /\ thread' = [thread EXCEPT ![r].pc = "decode"]
       \/ /\ P(r).rows > 1 /\ thread' = [thread EXCEPT ![r].pc = "raised"]
          /\ UNCHANGED <<streamer, held>>
  BY DEF Begin
<1> QED
  BY <1>8, <1>9, <1>10

LEMMA DecodeGenerative ==
  ASSUME GenerativeIInv, NEW r \in Requests, Decode(r)
  PROVE  GenerativeIInv'
<1> DEFINE n == thread[r].tokens + 1
           t == Append(held[r], n)
           judge == [thread[r] EXCEPT !.pc = "judge", !.tokens = n]
           raised == [thread[r] EXCEPT !.pc = "raised"]
<1>1. /\ P(r).stream /\ thread[r].pc = "decode"
      /\ UNCHANGED <<is_encoder_decoder, callVars, queue, worker, triggered, stats, responses,
                     seed>>
  BY DEF Decode, Generates
<1>2. Types(r) /\ CallRight(r) /\ StreamRight(r)
  BY <1>1, TypesHold DEF GenerativeIInv, RequestRight
<1>3. /\ P(r).rows = 1 /\ (triggered[r] <=> thread[r].met) /\ (thread[r].met => P(r).stop)
      /\ thread[r].tokens < call[r].max
      /\ thread[r] \in ThreadStates /\ triggered[r] \in BOOLEAN
      /\ held[r] \in Texts /\ streamer[r] \in Items
      /\ thread[r].tokens \in Nat /\ n \in Nat /\ Shown(r) \in Nat /\ call[r].max \in Int
  BY <1>1, <1>2, GenerativeModelAssumption
  DEF CallRight, StreamRight, Types, ThreadStates, CallStates
<1>4. n \in 1..MaxLength /\ n <= call[r].max
  <2>1. call[r].pc \notin {"new", "refused"}
    BY <1>1, <1>2 DEF CallRight
  <2>2. P(r).prompt + call[r].max <= MaxLength /\ P(r).prompt \in Nat /\ MaxLength \in Nat
    BY <1>2, <2>1, GenerativeModelAssumption DEF CallRight, Types
  <2> QED
    BY <1>3, <2>2
<1>5. Streamed(r) = Shown(r) + thread[r].tokens /\ Streamed(r) \in Nat
  BY <1>1, <1>3 DEF Streamed, OutputLen
<1>6. /\ P(r)' = P(r) /\ Shown(r)' = Shown(r) /\ call'[r] = call[r]
      /\ responses'[r] = responses[r]
      /\ triggered' = [triggered EXCEPT ![r] = triggered[r]] /\ triggered'[r] = triggered[r]
  BY <1>1 DEF P, Shown, callVars, GenerativeIInv, GenerativeTypeOK
<1>7. thread \in [Requests -> ThreadStates]
  BY DEF GenerativeIInv, GenerativeTypeOK, ThreadStates
<1>8. /\ judge \in ThreadStates /\ judge.pc = "judge" /\ judge.tokens = n
      /\ judge.met = thread[r].met
      /\ raised \in ThreadStates /\ raised.pc = "raised"
      /\ raised.tokens = thread[r].tokens /\ raised.met = thread[r].met
  <2>1. n \in 0..MaxLength
    BY <1>4
  <2> HIDE DEF n
  <2> QED
    BY <1>3, <2>1 DEF ThreadStates
<1>9. ASSUME thread' = [thread EXCEPT ![r].pc = "judge", ![r].tokens = n],
             PutText(r, t)
      PROVE  GenerativeIInv'
  <2>1. thread' = [thread EXCEPT ![r] = judge]
    BY <1>9
  <2> HIDE DEF judge
  <2>2. thread'[r] = judge
    BY <1>7, <2>1
  <2>3. CallRight(r)'
    BY <1>1, <1>3, <1>4, <1>6, <1>8, <2>2, StreamGrows
  <2>4. OutputLen(r)' = Shown(r) + n /\ Streamed(r)' = Shown(r) + n
    <3>1. thread'[r].tokens = n /\ thread'[r].pc = "judge" /\ P(r)'.rows = 1
      BY <1>3, <1>6, <1>8, <2>2
    <3> HIDE DEF n
    <3>2. OutputLen(r)' = Shown(r) + n
      BY <1>6, <3>1 DEF OutputLen
    <3> QED
      BY <3>1, <3>2 DEF Streamed
  <2>5. PICK k \in 0..Len(t) :
          /\ streamer' = [streamer EXCEPT ![r] = Append(streamer[r], SubSeq(t, 1, k))]
          /\ held' = [held EXCEPT ![r] = SubSeq(t, k + 1, Len(t))]
    BY <1>9 DEF PutText
  <2>6. /\ t \in Texts /\ Len(t) = Len(held[r]) + 1 /\ Len(held[r]) \in Nat
        /\ \A i \in 1..Len(held[r]) : t[i] = held[r][i]
        /\ t[Len(held[r]) + 1] = n
    <3>1. n \in 0..MaxLength /\ held[r] \in Seq(0..MaxLength)
      BY <1>3, <1>4 DEF Texts
    <3> QED
      BY <3>1, AppendProperties, LenProperties DEF Texts
  <2>7. ASSUME NEW a \in Int, IsPart(Shown(r), held[r], a, Streamed(r))
        PROVE  IsPart(Shown(r), t, a, Shown(r) + n)
    <3>1. Len(held[r]) = (Shown(r) + thread[r].tokens) - a
      BY <1>5, <2>7 DEF IsPart
    <3>2. Len(t) = (Shown(r) + n) - a
      BY <1>3, <2>6, <3>1
    <3>3. ASSUME NEW i \in 1..Len(t)
          PROVE  t[i] = TokenAt(Shown(r), a + i)
      <4>1. CASE i <= Len(held[r])
        <5>1. i \in 1..Len(held[r])
          BY <2>6, <4>1
        <5> HIDE DEF t
        <5> QED
          BY <2>6, <2>7, <5>1 DEF IsPart
      <4>2. CASE i = Len(held[r]) + 1
        <5>1. a + i = Shown(r) + n
          <6>1. a + (Len(held[r]) + 1) = Shown(r) + (thread[r].tokens + 1)
            BY <1>3, <2>6, <3>1
          <6> QED
            BY <4>2, <6>1
        <5>2. TokenAt(Shown(r), Shown(r) + n) = n
          BY <1>3 DEF TokenAt
        <5> HIDE DEF n, t
        <5> QED
          BY <2>6, <4>2, <5>1, <5>2
      <4> QED
        BY <2>6, <4>1, <4>2
    <3> HIDE DEF n, t
    <3> QED
      BY <3>2, <3>3 DEF IsPart
  <2> DEFINE items == Append(streamer[r], SubSeq(t, 1, k))
             kept == SubSeq(t, k + 1, Len(t))
  <2>8. kept \in Texts
    BY <2>6, TextSplits
  <2>9. /\ items \in Items /\ \A i \in 1..Len(items) : items[i] # None
        /\ call[r].pc = "waiting" =>
             Continues(Shown(r), call[r].text, responses[r] \o items, kept, Shown(r) + n)
    <3>1. Shown(r) + n \in Nat /\ Streamed(r) <= Shown(r) + n
      BY <1>3, <1>5
    <3>2. thread[r].pc # "ended"
      BY <1>1
    <3>3. t \in Texts /\ k \in 0..Len(t)
      BY <2>6
    <3> HIDE DEF n, t
    <3> QED
      BY <1>1, <2>7, <3>1, <3>2, <3>3, PutGoesOn
  <2> HIDE DEF items, kept, t, n
  <2>10. streamer'[r] = items /\ held'[r] = kept
    BY <2>5 DEF items, kept, GenerativeIInv, GenerativeTypeOK
  <2>11. StreamRight(r)'
    <3>1. thread'[r].pc = "judge" /\ P(r)'.rows = 1
      BY <1>3, <1>6, <1>8, <2>2
    <3>2. \A i \in 1..Len(responses[r]) : responses[r][i] # None
      BY <1>1, NoEndYet
    <3> QED
      BY <1>6, <2>4, <2>9, <2>10, <3>1, <3>2 DEF StreamRight
  <2>12. RequestRight(r)'
    BY <1>1, <1>6, <2>3, <2>11 DEF RequestRight
  <2>13. streamer' = [streamer EXCEPT ![r] = items] /\ held' = [held EXCEPT ![r] = kept]
    BY <2>5 DEF items, kept
  <2> QED
    BY <1>1, <1>3, <1>6, <1>8, <2>1, <2>8, <2>9, <2>12, <2>13, ThreadGoesOn
<1>10. ASSUME thread' = [thread EXCEPT ![r].pc = "raised"], UNCHANGED <<streamer, held>>
       PROVE  GenerativeIInv'
  <2>1. thread' = [thread EXCEPT ![r] = raised]
    BY <1>10
  <2> HIDE DEF raised, n
  <2>2. thread'[r] = raised
    BY <1>7, <2>1
  <2>3. CallRight(r)'
    BY <1>1, <1>3, <1>6, <1>8, <2>2, StreamGrows
  <2>4. OutputLen(r)' = OutputLen(r) /\ Streamed(r)' = Streamed(r)
    BY <1>1, <1>3, <1>6, <1>8, <2>2 DEF OutputLen, Streamed
  <2>5. /\ streamer' = [streamer EXCEPT ![r] = streamer[r]] /\ streamer'[r] = streamer[r]
        /\ held' = [held EXCEPT ![r] = held[r]] /\ held'[r] = held[r]
    BY <1>10 DEF GenerativeIInv, GenerativeTypeOK
  <2>6. StreamRight(r)'
    <3>1. thread'[r].pc = "raised" /\ P(r)'.rows = 1
      BY <1>3, <1>6, <1>8, <2>2
    <3>2. /\ \A i \in 1..Len(responses[r]) : responses[r][i] # None
          /\ \A i \in 1..Len(streamer[r]) : streamer[r][i] # None
      BY <1>1, NoEndYet
    <3> QED
      BY <1>2, <1>6, <2>4, <2>5, <3>1, <3>2 DEF StreamRight
  <2>7. RequestRight(r)'
    BY <1>1, <1>6, <2>3, <2>6 DEF RequestRight
  <2> QED
    BY <1>1, <1>3, <1>6, <1>8, <2>1, <2>5, <2>7, ThreadGoesOn
<1> QED
  BY <1>9, <1>10 DEF Decode

LEMMA JudgeGenerative ==
  ASSUME GenerativeIInv, NEW r \in Requests, Judge(r)
  PROVE  GenerativeIInv'
<1> DEFINE stopped == [thread[r] EXCEPT !.pc = "over", !.met = TRUE]
           over == [thread[r] EXCEPT !.pc = "over"]
           decode == [thread[r] EXCEPT !.pc = "decode"]
<1>1. /\ P(r).stream /\ thread[r].pc = "judge"
      /\ UNCHANGED <<is_encoder_decoder, callVars, queue, worker, held, streamer, stats,
                     responses, seed>>
  BY DEF Judge, Generates
<1>2. Types(r) /\ CallRight(r) /\ StreamRight(r)
  BY <1>1, TypesHold DEF GenerativeIInv, RequestRight
<1>3. /\ P(r).rows = 1 /\ (triggered[r] <=> thread[r].met) /\ (thread[r].met => P(r).stop)
      /\ thread[r].tokens > 0 => thread[r].tokens <= call[r].max
      /\ thread[r] \in ThreadStates /\ triggered[r] \in BOOLEAN
      /\ held[r] \in Texts /\ streamer[r] \in Items
      /\ thread[r].tokens \in Nat /\ call[r].max \in Int
  BY <1>1, <1>2, GenerativeModelAssumption
  DEF CallRight, StreamRight, Types, ThreadStates, CallStates
<1>4. /\ P(r)' = P(r) /\ Shown(r)' = Shown(r) /\ call'[r] = call[r]
      /\ responses'[r] = responses[r] /\ streamer'[r] = streamer[r] /\ held'[r] = held[r]
      /\ streamer' = [streamer EXCEPT ![r] = streamer[r]]
      /\ held' = [held EXCEPT ![r] = held[r]]
  BY <1>1 DEF P, Shown, callVars, GenerativeIInv, GenerativeTypeOK
<1>5. thread \in [Requests -> ThreadStates] /\ triggered \in [Requests -> BOOLEAN]
  BY DEF GenerativeIInv, GenerativeTypeOK, ThreadStates
<1>6. /\ stopped \in ThreadStates /\ stopped.pc = "over" /\ stopped.met
      /\ stopped.tokens = thread[r].tokens
      /\ over \in ThreadStates /\ over.pc = "over" /\ over.met = thread[r].met
      /\ over.tokens = thread[r].tokens
      /\ decode \in ThreadStates /\ decode.pc = "decode" /\ decode.met = thread[r].met
      /\ decode.tokens = thread[r].tokens
  BY <1>3 DEF ThreadStates
<1>7. ASSUME NEW st \in ThreadStates, NEW met \in BOOLEAN,
             st.pc \in {"over", "decode"}, st.tokens = thread[r].tokens,
             st.pc = "decode" => thread[r].tokens < call[r].max,
             met <=> st.met, st.met => P(r).stop, thread[r].met => st.met,
             thread' = [thread EXCEPT ![r] = st],
             triggered' = [triggered EXCEPT ![r] = met]
      PROVE  GenerativeIInv'
  <2>1. thread'[r] = st /\ triggered'[r] = met
    BY <1>5, <1>7
  <2>2. CallRight(r)'
    BY <1>1, <1>3, <1>7, <2>1, StreamGrows
  <2>3. OutputLen(r)' = OutputLen(r) /\ Streamed(r)' = Streamed(r)
    BY <1>1, <1>3, <1>4, <1>7, <2>1 DEF OutputLen, Streamed
  <2>4. StreamRight(r)'
    <3>1. thread'[r].pc # "ended" /\ P(r)'.rows = 1
      BY <1>3, <1>4, <1>7, <2>1
    <3>2. /\ \A i \in 1..Len(responses[r]) : responses[r][i] # None
          /\ \A i \in 1..Len(streamer[r]) : streamer[r][i] # None
      BY <1>1, NoEndYet
    <3> QED
      BY <1>2, <1>4, <2>3, <3>1, <3>2 DEF StreamRight
  <2>5. RequestRight(r)'
    BY <1>1, <1>4, <2>2, <2>4 DEF RequestRight
  <2> QED
    BY <1>1, <1>3, <1>4, <1>7, <2>5, ThreadGoesOn
<1>8. CASE /\ P(r).stop /\ triggered' = [triggered EXCEPT ![r] = TRUE]
           /\ thread' = [thread EXCEPT ![r].pc = "over", ![r].met = TRUE]
  <2>1. thread' = [thread EXCEPT ![r] = stopped]
    BY <1>8
  <2> HIDE DEF stopped
  <2> QED
    BY <1>6, <1>7, <1>8, <2>1
<1>9. CASE thread' = [thread EXCEPT ![r].pc = "over"] /\ UNCHANGED triggered
  <2>1. thread' = [thread EXCEPT ![r] = over]
    BY <1>9
  <2>2. triggered' = [triggered EXCEPT ![r] = triggered[r]]
    BY <1>5, <1>9
  <2> HIDE DEF over
  <2> QED
    BY <1>3, <1>6, <1>7, <2>1, <2>2
<1>10. CASE /\ thread[r].tokens < call[r].max
            /\ thread' = [thread EXCEPT ![r].pc = "decode"] /\ UNCHANGED triggered
  <2>1. thread' = [thread EXCEPT ![r] = decode]
    BY <1>10
  <2>2. triggered' = [triggered EXCEPT ![r] = triggered[r]]
    BY <1>5, <1>10
  <2> HIDE DEF decode
  <2> QED
    BY <1>3, <1>6, <1>7, <1>10, <2>1, <2>2
<1> QED
  BY <1>8, <1>9, <1>10 DEF Judge

LEMMA EndTextGenerative ==
  ASSUME GenerativeIInv, NEW r \in Requests, EndText(r)
  PROVE  GenerativeIInv'
<1> DEFINE st == [thread[r] EXCEPT !.pc = "ended"]
           p == responses[r]
           q == streamer[r]
           last == <<held[r], None>>
<1>1. /\ P(r).stream /\ thread[r].pc = "over"
      /\ thread' = [thread EXCEPT ![r] = st]
      /\ streamer' = [streamer EXCEPT ![r] = q \o last]
      /\ held' = [held EXCEPT ![r] = <<>>]
      /\ UNCHANGED <<is_encoder_decoder, callVars, queue, worker, triggered, stats, responses,
                     seed>>
  BY DEF EndText, Generates
<1>2. Types(r) /\ CallRight(r) /\ StreamRight(r)
  BY <1>1, TypesHold DEF GenerativeIInv, RequestRight
<1>3. /\ P(r).rows = 1 /\ (triggered[r] <=> thread[r].met) /\ (thread[r].met => P(r).stop)
      /\ thread[r].tokens > 0 => thread[r].tokens <= call[r].max
      /\ thread[r] \in ThreadStates /\ triggered[r] \in BOOLEAN
      /\ held[r] \in Texts /\ p \in Items /\ q \in Items /\ last \in Items /\ <<>> \in Texts
      /\ thread[r].tokens \in Nat /\ Streamed(r) \in Nat /\ call[r].text \in Texts
  BY <1>1, <1>2, GenerativeModelAssumption
  DEF CallRight, StreamRight, Types, ThreadStates, CallStates, Items, Texts
<1>4. /\ P(r)' = P(r) /\ Shown(r)' = Shown(r) /\ call'[r] = call[r] /\ responses'[r] = p
      /\ triggered' = [triggered EXCEPT ![r] = triggered[r]] /\ triggered'[r] = triggered[r]
  BY <1>1 DEF P, Shown, callVars, GenerativeIInv, GenerativeTypeOK
<1>5. st \in ThreadStates /\ st.pc = "ended" /\ st.tokens = thread[r].tokens
      /\ st.met = thread[r].met
  BY <1>3 DEF ThreadStates
<1>6. q \o last \in Items /\ p \o (q \o last) = (p \o q) \o last
  <2>1. LET T == Seq(Texts \cup {None}) IN p \in T /\ q \in T /\ last \in T
    BY <1>3 DEF Items
  <2> HIDE DEF p, q, last
  <2>2. q \o last \in Items
    BY <2>1, ConcatProperties DEF Items
  <2>3. p \o (q \o last) = (p \o q) \o last
    BY <2>1, ConcatAssociative
  <2> QED
    BY <2>2, <2>3
<1>7. call[r].pc = "waiting" =>
        Continues(Shown(r), call[r].text, p \o (q \o last), <<>>, Streamed(r))
  <2> SUFFICES ASSUME call[r].pc = "waiting"
               PROVE  Continues(Shown(r), call[r].text, (p \o q) \o last, <<>>, Streamed(r))
    BY <1>6
  <2>1. Continues(Shown(r), call[r].text, p \o q, held[r], Streamed(r))
    BY <1>2 DEF StreamRight
  <2>2. /\ p \o q \in Items
        /\ \A i \in 1..Len(p \o q) : (p \o q)[i] # None
    BY <1>1, NoEndYet
  <2> HIDE DEF p, q
  <2> QED
    BY <1>3, <2>1, <2>2, ContinuesEnd
<1> HIDE DEF st, last, p, q
<1>8. thread'[r] = st /\ streamer'[r] = q \o last /\ held'[r] = <<>>
  BY <1>1 DEF GenerativeIInv, GenerativeTypeOK
<1>9. CallRight(r)'
  BY <1>1, <1>3, <1>4, <1>5, <1>8, StreamGrows DEF p
<1>10. Streamed(r)' = Streamed(r)
  BY <1>1, <1>3, <1>4, <1>5, <1>8 DEF OutputLen, Streamed
<1>11. StreamRight(r)'
  BY <1>3, <1>4, <1>5, <1>7, <1>8, <1>10 DEF StreamRight
<1>12. RequestRight(r)'
  BY <1>1, <1>4, <1>9, <1>11 DEF RequestRight
<1> QED
  BY <1>1, <1>3, <1>4, <1>5, <1>6, <1>12, ThreadGoesOn

-----------------------------------------------------------------------------
(* The invariant, and what it means for the client.                        *)

LEMMA GenerativeInvariant == Init /\ [][Next]_vars => []GenerativeIInv
<1>1. ASSUME GenerativeIInv, UNCHANGED vars
      PROVE  GenerativeIInv'
  <2>1. UNCHANGED <<is_encoder_decoder, ready, loop, call, queue, worker, thread, triggered,
                    held, streamer, stats, responses, seed>>
    BY <1>1 DEF vars, callVars, genVars
  <2>2. GenerativeTypeOK' /\ QueueRight'
    BY <1>1, <2>1 DEF GenerativeIInv, GenerativeTypeOK, QueueRight
  <2>3. \A s \in Requests : P(s)' = P(s) /\ Alone(s)
    BY <2>1 DEF P, Alone
  <2>4. WorkerRight' /\ SeedIsOwn'
    BY <1>1, <2>1, <2>3, SameWorker DEF GenerativeIInv
  <2>5. ASSUME NEW s \in Requests
        PROVE  RequestRight(s)'
    BY <1>1, <2>1, <2>3, AloneRight DEF GenerativeIInv, At, Works
  <2> QED
    BY <2>2, <2>4, <2>5 DEF GenerativeIInv
<1>2. ASSUME GenerativeIInv, NEW r \in Requests,
             Consume(r) \/ Disconnect(r) \/ Thread(r)
      PROVE  GenerativeIInv'
  BY <1>2, ConsumePlain, ConsumeStream, DisconnectGenerative, BeginGenerative,
     DecodeGenerative, JudgeGenerative, EndTextGenerative DEF Thread
<1>3. ASSUME GenerativeIInv, Work
      PROVE  GenerativeIInv'
  BY <1>3, TakeGenerative, GenerateGenerative, WriteStatsGenerative, PutOutputGenerative,
     MoveGenerative DEF Work
<1>4. GenerativeIInv /\ [Next]_vars => GenerativeIInv'
  BY <1>1, <1>2, <1>3, CreateCompletionGenerative, StopGenerative, LoopClosesGenerative
  DEF Next
<1> QED
  BY <1>4, InitGenerative, PTL

\* Two texts that are the same part of an output are the same.
LEMMA PartsAreOne ==
  ASSUME NEW s, NEW a \in Int, NEW b \in Int, NEW x \in Texts, NEW y \in Texts,
         IsPart(s, x, a, b), IsPart(s, y, a, b)
  PROVE  x = y
<1>1. Len(x) = Len(y) /\ \A i \in 1..Len(x) : x[i] = y[i]
  BY DEF IsPart
<1> QED
  BY <1>1, SeqEqual DEF Texts

LEMMA GenerativeMeans == GenerativeIInv => AnswersAreOwn
<1> SUFFICES ASSUME GenerativeIInv PROVE AnswersAreOwn
  OBVIOUS
<1>1. GenerativeTypeOK /\ SeedIsOwn
  BY DEF GenerativeIInv
<1>2. ASSUME NEW r \in Requests
      PROVE  /\ call[r].text # <<>> => IsPrefix(call[r].text, Output(r))
             /\ call[r].pc = "done" => call[r].text = Output(r)
  <2>1. Types(r) /\ CallRight(r)
    BY <1>1, TypesHold DEF GenerativeIInv, RequestRight
  <2> DEFINE x == call[r].text
             out == Output(r)
             s == Shown(r)
  <2>2. /\ x \in Texts /\ Len(x) \in Nat /\ IsPart(s, x, 0, Len(x))
        /\ Len(x) <= OutputLen(r) /\ OutputLen(r) \in Nat
        /\ call[r].pc = "done" => Len(x) = OutputLen(r)
        /\ call[r].pc = "done" => call[r].pc \notin {"new", "refused"}
        /\ x # <<>> => call[r].pc \notin {"new", "refused"}
    BY <2>1, LenProperties DEF CallRight, Types, CallStates, Texts
  <2>3. call[r].pc \notin {"new", "refused"} =>
          out \in Texts /\ IsPart(s, out, 0, OutputLen(r))
    <3>1. call[r].pc \notin {"new", "refused"} =>
            /\ call[r].max > 0 /\ P(r).prompt + call[r].max <= MaxLength
            /\ call[r].max \in Int /\ P(r).prompt \in Nat /\ MaxLength \in Nat
      BY <2>1, GenerativeModelAssumption DEF CallRight, Types, CallStates
    <3>2. call[r].pc \notin {"new", "refused"} => P(r).prompt <= MaxLength
      BY <3>1
    <3> QED
      BY <2>1, <3>2, OutputIsPart
  <2> HIDE DEF x, out, s
  <2>4. ASSUME call[r].pc \notin {"new", "refused"}
        PROVE  IsPrefix(x, out)
    <3>1. Len(out) = OutputLen(r)
      BY <2>2, <2>3, <2>4 DEF IsPart
    <3>2. \A i \in 1..Len(x) : x[i] = out[i]
      BY <2>2, <2>3, <2>4, <3>1 DEF IsPart
    <3>3. x \in Seq(0..MaxLength) /\ out \in Seq(0..MaxLength)
      BY <2>2, <2>3, <2>4 DEF Texts
    <3>4. SubSeq(x, 1, Len(x)) = x
      BY <3>3, SubSeqFull
    <3>5. SubSeq(out, 1, Len(x)) = x
      <4>1. \A i \in 1..Len(x) : out[i] \in 0..MaxLength
        <5>1. \A i \in 1..Len(x) : i \in 1..Len(out)
          BY <2>2, <3>1
        <5> QED
          BY <3>3, <5>1, ElementOfSeq
      <4>2. /\ SubSeq(out, 1, Len(x)) \in Seq(0..MaxLength)
            /\ Len(SubSeq(out, 1, Len(x))) = Len(x)
            /\ \A i \in 1..Len(x) : SubSeq(out, 1, Len(x))[i] = out[i]
        BY <2>2, <4>1
      <4> QED
        BY <3>2, <3>3, <4>2, SeqEqual
    <3> QED
      BY <2>2, <3>1, <3>4, <3>5 DEF IsPrefix
  <2>5. ASSUME call[r].pc = "done"
        PROVE  x = out
    <3>1. IsPart(s, x, 0, OutputLen(r)) /\ IsPart(s, out, 0, OutputLen(r)) /\ out \in Texts
      BY <2>2, <2>3, <2>5
    <3>2. 0 \in Int /\ OutputLen(r) \in Int
      BY <2>2
    <3> QED
      BY <2>2, <3>1, <3>2, PartsAreOne
  <2> QED
    BY <2>2, <2>4, <2>5 DEF x, out
<1>3. OutputIsOwn
  BY <1>2 DEF OutputIsOwn
<1>4. UsageIsOwn /\ ReasonIsTrue
  BY DEF UsageIsOwn, ReasonIsTrue, GenerativeIInv, RequestRight, PlainRight, CallRight
<1>5. ASSUME NEW r \in Requests, thread[r].tokens > 0
      PROVE  P(r).prompt + thread[r].tokens <= MaxLength
  <2>1. Types(r) /\ CallRight(r)
    BY <1>1, TypesHold DEF GenerativeIInv, RequestRight
  <2>2. /\ call[r].pc \notin {"new", "refused"} /\ thread[r].tokens <= call[r].max
        /\ P(r).prompt + call[r].max <= MaxLength
    <3>1. thread[r].pc # "none"
      BY <1>5, <2>1 DEF CallRight, Types
    <3> QED
      BY <1>5, <2>1, <3>1 DEF CallRight
  <2>3. thread[r].tokens \in Int /\ call[r].max \in Int /\ P(r).prompt \in Int
        /\ MaxLength \in Int
    BY <2>1, GenerativeModelAssumption DEF Types, CallStates
  <2> QED
    BY <2>2, <2>3
<1>6. TokensFit
  BY <1>5 DEF TokensFit
<1> QED
  BY <1>1, <1>3, <1>4, <1>6 DEF AnswersAreOwn

\* However the event loop, the background thread and the threads of the streams
\* take turns, and whatever the requests ask for: what a client of the
\* transformers library gets is the beginning of the text of its own request and,
\* when it is done, all of it, with its own usage and finish reason; one request
\* at a time draws random numbers; and no text outgrows the context.
THEOREM AnswersBelongToRequests == ServerSpec => []AnswersAreOwn
<1>1. ServerInit => Init
  BY DEF ServerInit
<1>2. [ServerNext]_serverVars => [Next]_vars
  BY DEF ServerNext, HuggingFaceStep, VllmStep, serverVars
<1> QED
  BY <1>1, <1>2, GenerativeInvariant, GenerativeMeans, PTL DEF ServerSpec

-----------------------------------------------------------------------------
(* The vLLM engine: the places of the choices.                             *)

\* The choices of the prompts are numbered one prompt after the other.
LEMMA PlaceOfChoice ==
  ASSUME NEW n \in Nat \ {0}, NEW m \in Nat, NEW k \in 1..m, NEW c \in 1..n,
         NEW i \in Int, i = c + (k - 1) * n
  PROVE  i \in 1..(n * m) /\ ((i - 1) \div n) + 1 = k /\ ((i - 1) % n) + 1 = c
<1>1. PICK a \in Nat : a = k - 1
  OBVIOUS
<1>2. PICK b \in Nat : b = c - 1
  OBVIOUS
<1>3. b < n /\ a < m
  BY <1>1, <1>2
<1>4. c + (k - 1) * n = (a * n + b) + 1
  BY <1>1, <1>2
<1>5. (a * n + b) \div n = a /\ (a * n + b) % n = b
  BY <1>3
<1>6. a * n \in Nat /\ a * n + n <= n * m
  <2>1. PICK d \in Nat : m = a + 1 + d
    <3>1. m - a - 1 \in Nat /\ m = a + 1 + (m - a - 1)
      BY <1>3
    <3> QED
      BY <3>1
  <2>2. n * m = a * n + n + d * n
    BY <2>1
  <2>3. d * n \in Nat /\ a * n \in Nat
    OBVIOUS
  <2> QED
    BY <2>2, <2>3
<1> QED
  <2>1. PICK x \in Nat : x = a * n
    BY <1>6
  <2>2. (x + b) + 1 \in 1..(n * m)
    BY <1>3, <1>6, <2>1
  <2>3. (x + b) + 1 - 1 = x + b
    OBVIOUS
  <2> QED
    BY <1>1, <1>2, <1>4, <1>5, <2>1, <2>2, <2>3

LEMMA ChoiceOfPlace ==
  ASSUME NEW n \in Nat \ {0}, NEW m \in Nat, NEW i \in 1..(n * m)
  PROVE  \E k \in 1..m, c \in 1..n : i = c + (k - 1) * n
<1>1. PICK a \in Nat : a = (i - 1) \div n
  OBVIOUS
<1>2. PICK b \in 0..(n - 1) : b = (i - 1) % n
  OBVIOUS
<1>3. i - 1 = a * n + b
  BY <1>1, <1>2
<1>4. a < m
  <2>1. SUFFICES ASSUME a >= m PROVE FALSE
    OBVIOUS
  <2>2. PICK d \in Nat : a = m + d
    BY <2>1
  <2>3. a * n = n * m + d * n /\ d * n \in Nat
    BY <2>2
  <2> QED
    BY <1>3, <2>3
<1>5. a + 1 \in 1..m /\ b + 1 \in 1..n /\ i = (b + 1) + ((a + 1) - 1) * n
  BY <1>3, <1>4
<1> QED
  BY <1>5

-----------------------------------------------------------------------------
(* Sums.                                                                   *)

\* What Total(f) counts.
Units(f) == UNION {{x} \X (1..f[x]) : x \in DOMAIN f}

LEMMA TotalIs ==
  ASSUME NEW f
  PROVE  Vllm!Total(f) = Cardinality(Units(f))
BY DEF Vllm!Total, Units, Vllm!Cardinality, Cardinality

LEMMA UnitsAre ==
  ASSUME NEW f
  PROVE  /\ \A x \in DOMAIN f : \A t \in 1..f[x] : <<x, t>> \in Units(f)
         /\ \A s \in Units(f) :
              s = <<s[1], s[2]>> /\ s[1] \in DOMAIN f /\ s[2] \in 1..f[s[1]]
BY DEF Units

LEMMA UnitsAreFinite ==
  ASSUME NEW f, IsFiniteSet(DOMAIN f), \A x \in DOMAIN f : f[x] \in Nat
  PROVE  IsFiniteSet(Units(f))
<1> DEFINE U == {{x} \X (1..f[x]) : x \in DOMAIN f}
           g == [x \in DOMAIN f |-> {x} \X (1..f[x])]
<1>1. IsFiniteSet(U)
  <2>1. g \in Surjection(DOMAIN f, U)
    BY Fun_IsSurj
  <2> QED
    BY <2>1, FS_Surjection
<1>2. ASSUME NEW T \in U
      PROVE  IsFiniteSet(T)
  <2>1. PICK x \in DOMAIN f : T = {x} \X (1..f[x])
    BY <1>2
  <2>2. IsFiniteSet({x}) /\ IsFiniteSet(1..f[x])
    <3>1. PICK m \in Int : m = f[x]
      OBVIOUS
    <3>2. IsFiniteSet(1..m)
      BY FS_Interval
    <3>3. IsFiniteSet({x})
      BY FS_Singleton
    <3> QED
      BY <3>1, <3>2, <3>3
  <2> QED
    BY <2>1, <2>2, FS_Product
<1> QED
  BY <1>1, <1>2, FS_UNION DEF Units

\* A sum does not change when its terms change places.
LEMMA TotalMoved ==
  ASSUME NEW f, NEW g, IsFiniteSet(DOMAIN f), \A x \in DOMAIN f : f[x] \in Nat,
         NEW b \in Bijection(DOMAIN f, DOMAIN g),
         \A x \in DOMAIN f : g[b[x]] = f[x]
  PROVE  Vllm!Total(g) = Vllm!Total(f)
<1> DEFINE h == [s \in Units(f) |-> <<b[s[1]], s[2]>>]
<1>1. /\ b \in [DOMAIN f -> DOMAIN g]
      /\ \A x, y \in DOMAIN f : b[x] = b[y] => x = y
      /\ \A y \in DOMAIN g : \E x \in DOMAIN f : b[x] = y
  BY Fun_BijectionProperties
<1>2. h \in [Units(f) -> Units(g)]
  <2>1. ASSUME NEW s \in Units(f)
        PROVE  <<b[s[1]], s[2]>> \in Units(g)
    <3>1. s[1] \in DOMAIN f /\ s[2] \in 1..f[s[1]]
      BY UnitsAre
    <3>2. b[s[1]] \in DOMAIN g /\ s[2] \in 1..g[b[s[1]]]
      BY <1>1, <3>1
    <3> QED
      BY <3>2, UnitsAre
  <2> QED
    BY <2>1
<1>3. ASSUME NEW s \in Units(f), NEW t \in Units(f), h[s] = h[t]
      PROVE  s = t
  <2>1. /\ s = <<s[1], s[2]>> /\ t = <<t[1], t[2]>>
        /\ s[1] \in DOMAIN f /\ t[1] \in DOMAIN f
    BY UnitsAre
  <2>2. <<b[s[1]], s[2]>> = <<b[t[1]], t[2]>>
    BY <1>3
  <2>3. b[s[1]] = b[t[1]] /\ s[2] = t[2]
    BY <2>2
  <2> QED
    BY <1>1, <2>1, <2>3
<1>4. ASSUME NEW u \in Units(g)
      PROVE  \E s \in Units(f) : h[s] = u
  <2>1. u = <<u[1], u[2]>> /\ u[1] \in DOMAIN g /\ u[2] \in 1..g[u[1]]
    BY UnitsAre
  <2>2. PICK x \in DOMAIN f : b[x] = u[1]
    BY <1>1, <2>1
  <2>3. u[2] \in 1..f[x]
    BY <2>1, <2>2
  <2>4. <<x, u[2]>> \in Units(f)
    BY <2>3, UnitsAre
  <2>5. h[<<x, u[2]>>] = u
    BY <2>1, <2>2, <2>4
  <2> QED
    BY <2>4, <2>5
<1>5. h \in Bijection(Units(f), Units(g))
  BY <1>2, <1>3, <1>4, Fun_IsBij
<1>6. ExistsBijection(Units(f), Units(g))
  BY <1>5 DEF ExistsBijection
<1>7. Cardinality(Units(g)) = Cardinality(Units(f))
  BY <1>6, UnitsAreFinite, FS_Bijection
<1> QED
  BY <1>7, TotalIs

\* A sum in which every term of another one is there n times.
LEMMA TotalTimes ==
  ASSUME NEW f, NEW g, NEW n \in Nat,
         IsFiniteSet(DOMAIN f), \A x \in DOMAIN f : f[x] \in Nat,
         NEW b \in Bijection((1..n) \X DOMAIN f, DOMAIN g),
         \A c \in 1..n, x \in DOMAIN f : g[b[<<c, x>>]] = f[x]
  PROVE  Vllm!Total(g) = n * Vllm!Total(f)
<1> DEFINE S == (1..n) \X Units(f)
           h == [s \in S |-> <<b[<<s[1], s[2][1]>>], s[2][2]>>]
<1>1. /\ b \in [(1..n) \X DOMAIN f -> DOMAIN g]
      /\ \A x, y \in (1..n) \X DOMAIN f : b[x] = b[y] => x = y
      /\ \A y \in DOMAIN g : \E x \in (1..n) \X DOMAIN f : b[x] = y
  BY Fun_BijectionProperties
<1>2. \A s \in S : /\ s = <<s[1], <<s[2][1], s[2][2]>>>> /\ s[1] \in 1..n
                   /\ s[2][1] \in DOMAIN f /\ s[2][2] \in 1..f[s[2][1]]
  <2> SUFFICES ASSUME NEW s \in S
               PROVE  /\ s = <<s[1], <<s[2][1], s[2][2]>>>> /\ s[1] \in 1..n
                      /\ s[2][1] \in DOMAIN f /\ s[2][2] \in 1..f[s[2][1]]
    OBVIOUS
  <2>1. s = <<s[1], s[2]>> /\ s[1] \in 1..n /\ s[2] \in Units(f)
    OBVIOUS
  <2>2. s[2] = <<s[2][1], s[2][2]>> /\ s[2][1] \in DOMAIN f /\ s[2][2] \in 1..f[s[2][1]]
    BY <2>1, UnitsAre
  <2>3. s = <<s[1], <<s[2][1], s[2][2]>>>>
    BY <2>1, <2>2, Zenon
  <2> QED
    BY <2>1, <2>2, <2>3
<1>3. h \in [S -> Units(g)]
  <2>1. ASSUME NEW s \in S
        PROVE  <<b[<<s[1], s[2][1]>>], s[2][2]>> \in Units(g)
    <3>1. s[1] \in 1..n /\ s[2][1] \in DOMAIN f /\ s[2][2] \in 1..f[s[2][1]]
      BY <1>2
    <3>2. /\ b[<<s[1], s[2][1]>>] \in DOMAIN g
          /\ s[2][2] \in 1..g[b[<<s[1], s[2][1]>>]]
      BY <1>1, <3>1
    <3> QED
      BY <3>2, UnitsAre
  <2> HIDE DEF S
  <2> QED
    BY <2>1
<1>4. ASSUME NEW s \in S, NEW t \in S, h[s] = h[t]
      PROVE  s = t
  <2>1. /\ s = <<s[1], <<s[2][1], s[2][2]>>>> /\ s[1] \in 1..n /\ s[2][1] \in DOMAIN f
        /\ t = <<t[1], <<t[2][1], t[2][2]>>>> /\ t[1] \in 1..n /\ t[2][1] \in DOMAIN f
    BY <1>2
  <2>2. <<b[<<s[1], s[2][1]>>], s[2][2]>> = <<b[<<t[1], t[2][1]>>], t[2][2]>>
    BY <1>4
  <2>3. b[<<s[1], s[2][1]>>] = b[<<t[1], t[2][1]>>] /\ s[2][2] = t[2][2]
    BY <2>2
  <2>4. <<s[1], s[2][1]>> = <<t[1], t[2][1]>>
    BY <1>1, <2>1, <2>3
  <2>5. s[1] = t[1] /\ s[2][1] = t[2][1]
    BY <2>4
  <2> QED
    BY <2>1, <2>3, <2>5, Zenon
<1>5. ASSUME NEW u \in Units(g)
      PROVE  \E s \in S : h[s] = u
  <2>1. u = <<u[1], u[2]>> /\ u[1] \in DOMAIN g /\ u[2] \in 1..g[u[1]]
    BY UnitsAre
  <2>2. PICK p \in (1..n) \X DOMAIN f : b[p] = u[1]
    BY <1>1, <2>1
  <2>3. p = <<p[1], p[2]>> /\ p[1] \in 1..n /\ p[2] \in DOMAIN f
    BY <2>2
  <2>4. u[2] \in 1..f[p[2]]
    BY <2>1, <2>2, <2>3
  <2> DEFINE s == <<p[1], <<p[2], u[2]>>>>
  <2>5. s \in S
    BY <2>3, <2>4, UnitsAre
  <2>6. h[s] = <<b[<<s[1], s[2][1]>>], s[2][2]>>
    BY <2>5
  <2>7. s[1] = p[1] /\ s[2][1] = p[2] /\ s[2][2] = u[2]
    OBVIOUS
  <2>8. h[s] = u
    BY <2>1, <2>2, <2>3, <2>6, <2>7
  <2> QED
    BY <2>5, <2>8
<1>6. h \in Bijection(S, Units(g))
  BY <1>3, <1>4, <1>5, Fun_IsBij
<1>7. ExistsBijection(S, Units(g))
  BY <1>6 DEF ExistsBijection
<1>8. /\ IsFiniteSet(1..n) /\ Cardinality(1..n) = n
      /\ IsFiniteSet(Units(f))
  <2>1. IsFiniteSet(1..n) /\ Cardinality(1..n) = IF 1 > n THEN 0 ELSE n - 1 + 1
    BY FS_Interval
  <2> QED
    BY <2>1, UnitsAreFinite
<1>9. IsFiniteSet(S) /\ Cardinality(S) = n * Cardinality(Units(f))
  BY <1>8, FS_Product
<1> HIDE DEF S
<1>10. Cardinality(Units(g)) = n * Cardinality(Units(f))
  BY <1>7, <1>9, FS_Bijection
<1> QED
  BY <1>10, TotalIs

-----------------------------------------------------------------------------
(* Texts.                                                                  *)

Tokens3 == Int \X Int \X Int

LEMMA PieceIs ==
  ASSUME NEW k \in Int, NEW c \in Int, NEW a \in Int, NEW b \in Int, a <= b
  PROVE  /\ Vllm!Piece(k, c, a, b) \in Seq(Tokens3)
         /\ Len(Vllm!Piece(k, c, a, b)) = b - a
         /\ \A j \in 1..(b - a) : Vllm!Piece(k, c, a, b)[j] = <<k, c, a + j>>
<1>1. b - a \in Nat
  OBVIOUS
<1>2. \A j \in 1..(b - a) : <<k, c, a + j>> \in Tokens3
  BY DEF Tokens3
<1> QED
  BY <1>1, <1>2 DEF Vllm!Piece

LEMMA WholePieceIs ==
  ASSUME NEW k \in Int, NEW c \in Int, NEW n \in Nat
  PROVE  /\ Vllm!Piece(k, c, 0, n) \in Seq(Tokens3)
         /\ Len(Vllm!Piece(k, c, 0, n)) = n
         /\ \A j \in 1..n : Vllm!Piece(k, c, 0, n)[j] = <<k, c, j>>
<1> DEFINE s == Vllm!Piece(k, c, 0, n)
<1>1. /\ s \in Seq(Tokens3)
      /\ Len(s) = n - 0 /\ \A j \in 1..(n - 0) : s[j] = <<k, c, 0 + j>>
  <2>1. n - 0 \in Nat /\ \A j \in 1..(n - 0) : <<k, c, 0 + j>> \in Tokens3
    BY DEF Tokens3
  <2> QED
    BY <2>1 DEF Vllm!Piece
<1>2. n - 0 = n /\ \A j \in 1..n : 0 + j = j
  OBVIOUS
<1> HIDE DEF s
<1>3. s \in Seq(Tokens3) /\ Len(s) = n /\ \A j \in 1..n : s[j] = <<k, c, j>>
  BY <1>1, <1>2
<1> QED
  BY <1>3 DEF s

\* A text grows by the difference.
LEMMA PiecesJoin ==
  ASSUME NEW k \in Int, NEW c \in Int, NEW a \in Nat, NEW b \in Nat, a <= b
  PROVE  Vllm!Piece(k, c, 0, a) \o Vllm!Piece(k, c, a, b) = Vllm!Piece(k, c, 0, b)
<1>1. PICK x \in Seq(Tokens3) : x = Vllm!Piece(k, c, 0, a)
  BY PieceIs
<1>2. PICK y \in Seq(Tokens3) : y = Vllm!Piece(k, c, a, b)
  BY PieceIs
<1>3. PICK z \in Seq(Tokens3) : z = Vllm!Piece(k, c, 0, b)
  BY PieceIs
<1>5. /\ Len(x) = a /\ \A j \in 1..a : x[j] = <<k, c, j>>
      /\ Len(z) = b /\ \A j \in 1..b : z[j] = <<k, c, j>>
  BY <1>1, <1>3, WholePieceIs
<1>6. Len(y) = b - a /\ \A j \in 1..(b - a) : y[j] = <<k, c, a + j>>
  <2>1. b - a \in Nat
    OBVIOUS
  <2> QED
    BY <1>2, <2>1 DEF Vllm!Piece
<1>7. /\ x \o y \in Seq(Tokens3) /\ Len(x \o y) = a + (b - a)
      /\ \A i \in 1..(a + (b - a)) : (x \o y)[i] = IF i <= a THEN x[i] ELSE y[i - a]
  BY <1>5, <1>6, ConcatProperties
<1>8. a + (b - a) = b
  OBVIOUS
<1>9. ASSUME NEW i \in 1..b
      PROVE  (x \o y)[i] = z[i]
  <2>1. CASE i <= a
    <3>1. i \in 1..a
      BY <2>1
    <3> QED
      BY <1>5, <1>6, <1>7, <1>8, <2>1, <3>1
  <2>2. CASE ~(i <= a)
    <3>1. i - a \in 1..(b - a) /\ a + (i - a) = i
      BY <2>2
    <3>2. (x \o y)[i] = y[i - a]
      BY <1>7, <1>8, <2>2
    <3> QED
      BY <1>5, <1>6, <3>1, <3>2
  <2> QED
    BY <2>1, <2>2
<1>10. x \o y = z
  BY <1>5, <1>6, <1>7, <1>8, <1>9, SeqEqual
<1> QED
  BY <1>1, <1>2, <1>3, <1>10

LEMMA TextsJoin ==
  \A x, y, z \in Seq(Tokens3) : (x \o y) \o z = x \o (y \o z)
BY ConcatAssociative

-----------------------------------------------------------------------------
(* What is known of a request.                                             *)

LEMMA RequestIs ==
  ASSUME Vllm!ValidationRight
  PROVE  /\ request.n \in Nat \ {0} /\ request.stream \in BOOLEAN /\ request.echo \in BOOLEAN
         /\ request.best_of \in Nat \cup {None} /\ request.max_tokens \in Nat \cup {None}
         /\ request.prompts \in Seq(Nat \ {0}) /\ Len(request.prompts) \in Nat
         /\ 1 \in 1..Len(request.prompts)
         /\ Vllm!Prompts = 1..Len(request.prompts)
         /\ DOMAIN request.prompts = 1..Len(request.prompts)
         /\ \A k \in Vllm!Prompts : request.prompts[k] \in Nat \ {0}
         /\ Vllm!Limit \in Int /\ Vllm!SamplingLimit \in Int /\ MaxLength \in Nat
         /\ 0 # None
<1>1. /\ request \in Vllm!AllParams /\ request.prompts # <<>>
  BY DEF Vllm!ValidationRight
<1>2. /\ request.n \in Nat \ {0} /\ request.stream \in BOOLEAN /\ request.echo \in BOOLEAN
      /\ request.best_of \in Nat \cup {None} /\ request.max_tokens \in Nat \cup {None}
      /\ request.prompts \in Seq(Nat \ {0})
  BY <1>1 DEF Vllm!AllParams
<1>3. /\ Len(request.prompts) \in Nat /\ 1 \in 1..Len(request.prompts)
      /\ DOMAIN request.prompts = 1..Len(request.prompts)
      /\ \A k \in 1..Len(request.prompts) : request.prompts[k] \in Nat \ {0}
  <2>1. Len(request.prompts) \in Nat /\ Len(request.prompts) # 0
    BY <1>1, <1>2, EmptySeq, LenProperties
  <2> QED
    BY <1>2, <2>1, ElementOfSeq, LenProperties
<1>4. MaxLength \in Nat /\ 0 # None
  BY GenerativeModelAssumption
<1>5. Vllm!Limit \in Int
  <2>1. request.prompts[1] \in Int
    BY <1>3
  <2> QED
    BY <1>2, <1>4, <2>1 DEF Vllm!Limit
<1> QED
  BY <1>2, <1>3, <1>4, <1>5 DEF Vllm!Prompts, Vllm!SamplingLimit

\* The limit of a request that was accepted is not negative, and one token is
\* generated when there is only the prompt to echo.
LEMMA AcceptedIs ==
  ASSUME Vllm!ValidationRight, pc \in {"running", "done"}
  PROVE  /\ max_tokens = Vllm!Limit /\ max_tokens \in Nat
         /\ max_tokens > 0 => Vllm!SamplingLimit = max_tokens
         /\ max_tokens = 0 => request.echo /\ Vllm!SamplingLimit = 1
         /\ Vllm!SamplingLimit \in Nat /\ Vllm!SamplingLimit >= 1
<1>1. max_tokens = Vllm!Limit /\ Vllm!SamplingLimit >= 1
  BY DEF Vllm!ValidationRight, Vllm!Samples
<1>2. Vllm!Limit \in Int /\ Vllm!SamplingLimit \in Int /\ request.echo \in BOOLEAN
  BY RequestIs
<1>3. Vllm!SamplingLimit = IF request.echo /\ Vllm!Limit = 0 THEN 1 ELSE Vllm!Limit
  BY DEF Vllm!SamplingLimit
<1> QED
  BY <1>1, <1>2, <1>3

\* A choice of a prompt has a place of its own.
LEMMA ChoiceIs ==
  ASSUME Vllm!ValidationRight,
         NEW k \in Vllm!Prompts, NEW c \in 1..request.n,
         NEW i, i = c + (k - 1) * request.n
  PROVE  /\ i \in 1..(request.n * Len(request.prompts))
         /\ ((i - 1) \div request.n) + 1 = k
         /\ ((i - 1) % request.n) + 1 = c
<1>1. request.n \in Nat \ {0} /\ Len(request.prompts) \in Nat /\ k \in 1..Len(request.prompts)
  BY RequestIs
<1>2. PICK n \in Nat \ {0}, m \in Nat : n = request.n /\ m = Len(request.prompts)
  BY <1>1
<1>3. k \in 1..m /\ c \in 1..n
  BY <1>1, <1>2
<1>4. PICK a \in Int : a = c + (k - 1) * n
  <2>1. c + (k - 1) * n \in Int
    BY <1>3
  <2> QED
    BY <2>1
<1>5. i = a
  BY <1>2, <1>4
<1>6. a \in 1..(n * m) /\ ((a - 1) \div n) + 1 = k /\ ((a - 1) % n) + 1 = c
  BY <1>3, <1>4, PlaceOfChoice
<1> QED
  BY <1>2, <1>5, <1>6

-----------------------------------------------------------------------------
(* What is sent.                                                           *)

LEMMA TextsAre ==
  ASSUME Vllm!ValidationRight, NEW k \in Vllm!Prompts, NEW o, Vllm!OutputRight(o)
  PROVE  /\ Vllm!PromptOf(k) \in Seq(Tokens3) /\ Len(Vllm!PromptOf(k)) = request.prompts[k]
         /\ Vllm!TextOf(k, o) \in Seq(Tokens3) /\ Len(Vllm!TextOf(k, o)) = o.text
         /\ Vllm!TokensOf(k, o) \in Seq(Tokens3) /\ Len(Vllm!TokensOf(k, o)) = o.tokens
<1>1. /\ k \in Int /\ request.prompts[k] \in Nat /\ o.index \in Int
      /\ o.text \in Nat /\ o.tokens \in Nat
  BY RequestIs DEF Vllm!OutputRight
<1>2. ASSUME NEW c \in Int, NEW b \in Nat
      PROVE  /\ Vllm!Piece(k, c, 0, b) \in Seq(Tokens3)
             /\ Len(Vllm!Piece(k, c, 0, b)) = b
  BY <1>1, WholePieceIs
<1>3. 0 \in Int
  OBVIOUS
<1> QED
  BY <1>1, <1>2, <1>3, Zenon DEF Vllm!PromptOf, Vllm!TextOf, Vllm!TokensOf

\* What the request shows of an output.
LEMMA ShownIs ==
  ASSUME NEW k, NEW o, max_tokens \in Nat
  PROVE  /\ request.echo /\ max_tokens = 0 =>
              Vllm!Shown(k, o) = [text |-> Vllm!PromptOf(k), tokens |-> Vllm!PromptOf(k)]
         /\ request.echo /\ max_tokens > 0 =>
              Vllm!Shown(k, o) = [text |-> Vllm!PromptOf(k) \o Vllm!TextOf(k, o),
                                  tokens |-> Vllm!PromptOf(k) \o Vllm!TokensOf(k, o)]
         /\ ~request.echo =>
              Vllm!Shown(k, o) = [text |-> Vllm!TextOf(k, o), tokens |-> Vllm!TokensOf(k, o)]
<1>1. max_tokens > 0 => max_tokens # 0
  OBVIOUS
<1> QED
  BY <1>1, Zenon DEF Vllm!Shown

\* What was sent of a choice and the difference are together all that there is.
LEMMA DeltaCompletes ==
  ASSUME Vllm!ValidationRight, pc = "running",
         NEW k \in Vllm!Prompts, NEW o, Vllm!OutputRight(o),
         NEW i, i = Vllm!Choice(k, o),
         \/ Vllm!Unsent(i)
         \/ /\ max_tokens > 0
            /\ \E old : /\ Vllm!OutputRight(old) /\ Vllm!SentWhole(i, k, old)
                        /\ old.index = o.index
                        /\ old.text <= o.text /\ old.tokens <= o.tokens
  PROVE  /\ sent[i].text \o Vllm!Delta(k, o).text = Vllm!Shown(k, o).text
         /\ sent[i].tokens \o Vllm!Delta(k, o).tokens = Vllm!Shown(k, o).tokens
<1> DEFINE p == Vllm!PromptOf(k)
           x == Vllm!TextOf(k, o)
           y == Vllm!TokensOf(k, o)
           d == Vllm!Delta(k, o)
           s == Vllm!Shown(k, o)
<1>1. p \in Seq(Tokens3) /\ x \in Seq(Tokens3) /\ y \in Seq(Tokens3)
  BY TextsAre
<1>2. /\ max_tokens \in Nat /\ request.echo \in BOOLEAN /\ (max_tokens = 0 => request.echo)
  BY AcceptedIs, RequestIs
<1>3. CASE Vllm!Unsent(i)
  <2>1. /\ sent[i].text = <<>> /\ sent[i].tokens = <<>>
        /\ previous[i].text = 0 /\ previous[i].tokens = 0 /\ ~has_echoed[i]
    BY <1>3 DEF Vllm!Unsent, Vllm!Nothing
  <2>2. d.text = s.text /\ d.tokens = s.tokens
    BY <1>2, <2>1 DEF Vllm!Delta, Vllm!Shown, Vllm!EchoesNow, Vllm!TextOf, Vllm!TokensOf
  <2>3. s.text \in Seq(Tokens3) /\ s.tokens \in Seq(Tokens3)
    BY <1>1, ConcatProperties DEF Vllm!Shown
  <2> QED
    BY <2>1, <2>2, <2>3, ConcatEmptySeq
<1>4. CASE /\ max_tokens > 0
           /\ \E old : /\ Vllm!OutputRight(old) /\ Vllm!SentWhole(i, k, old)
                       /\ old.index = o.index
                       /\ old.text <= o.text /\ old.tokens <= o.tokens
  <2>1. PICK old : /\ Vllm!OutputRight(old) /\ Vllm!SentWhole(i, k, old)
                   /\ old.index = o.index
                   /\ old.text <= o.text /\ old.tokens <= o.tokens
    BY <1>4
  <2> DEFINE x0 == Vllm!TextOf(k, old)
             y0 == Vllm!TokensOf(k, old)
             dx == Vllm!Piece(k, o.index, old.text, o.text)
             dy == Vllm!Piece(k, o.index, old.tokens, o.tokens)
  <2>2. /\ k \in Int /\ o.index \in Int
        /\ o.text \in Nat /\ o.tokens \in Nat /\ old.text \in Nat /\ old.tokens \in Nat
    BY <2>1, RequestIs DEF Vllm!OutputRight
  <2>3. x0 \in Seq(Tokens3) /\ y0 \in Seq(Tokens3)
    BY <2>1, TextsAre
  <2>4. dx \in Seq(Tokens3) /\ dy \in Seq(Tokens3)
    <3>1. o.text \in Int /\ o.tokens \in Int /\ old.text \in Int /\ old.tokens \in Int
      BY <2>2
    <3> QED
      BY <2>1, <2>2, <3>1, PieceIs, Zenon
  <2>5. x0 \o dx = x /\ y0 \o dy = y
    <3>1. ASSUME NEW c \in Int, NEW a \in Nat, NEW b \in Nat, a <= b
          PROVE  Vllm!Piece(k, c, 0, a) \o Vllm!Piece(k, c, a, b) = Vllm!Piece(k, c, 0, b)
      BY <2>2, <3>1, PiecesJoin
    <3>2. /\ x0 = Vllm!Piece(k, o.index, 0, old.text) /\ x = Vllm!Piece(k, o.index, 0, o.text)
          /\ y0 = Vllm!Piece(k, o.index, 0, old.tokens) /\ y = Vllm!Piece(k, o.index, 0, o.tokens)
      BY <2>1 DEF Vllm!TextOf, Vllm!TokensOf
    <3>3. /\ Vllm!Piece(k, o.index, 0, old.text) \o dx = Vllm!Piece(k, o.index, 0, o.text)
          /\ Vllm!Piece(k, o.index, 0, old.tokens) \o dy = Vllm!Piece(k, o.index, 0, o.tokens)
      BY <2>1, <2>2, <3>1, Zenon
    <3> HIDE DEF x, y, x0, y0, dx, dy
    <3> QED
      BY <3>2, <3>3
  <2>6. d.text = dx /\ d.tokens = dy
    BY <1>2, <1>4, <2>1 DEF Vllm!SentWhole, Vllm!Delta, Vllm!EchoesNow
  <2>7. CASE request.echo
    <3>1. /\ sent[i].text = p \o x0 /\ sent[i].tokens = p \o y0
          /\ s.text = p \o x /\ s.tokens = p \o y
      <4>1. /\ s = [text |-> p \o x, tokens |-> p \o y]
            /\ Vllm!Shown(k, old) = [text |-> p \o x0, tokens |-> p \o y0]
        BY <1>2, <1>4, <2>7, ShownIs
      <4>2. /\ sent[i].text = Vllm!Shown(k, old).text
            /\ sent[i].tokens = Vllm!Shown(k, old).tokens
        BY <2>1 DEF Vllm!SentWhole
      <4> HIDE DEF p, x, y, x0, y0, s
      <4> QED
        BY <4>1, <4>2
    <3> HIDE DEF p, x, y, x0, y0, dx, dy, d, s
    <3>2. (p \o x0) \o dx = p \o (x0 \o dx) /\ (p \o y0) \o dy = p \o (y0 \o dy)
      <4>1. p \in Seq(Tokens3)
        BY <1>1
      <4>2. x0 \in Seq(Tokens3) /\ y0 \in Seq(Tokens3)
        BY <2>3
      <4>3. dx \in Seq(Tokens3) /\ dy \in Seq(Tokens3)
        BY <2>4
      <4>4. (p \o x0) \o dx = p \o (x0 \o dx)
        BY <4>1, <4>2, <4>3, TextsJoin
      <4>5. (p \o y0) \o dy = p \o (y0 \o dy)
        BY <4>1, <4>2, <4>3, TextsJoin
      <4> QED
        BY <4>4, <4>5
    <3>3. sent[i].text \o d.text = s.text /\ sent[i].tokens \o d.tokens = s.tokens
      BY <2>5, <2>6, <3>1, <3>2
    <3> QED
      BY <3>3 DEF d, s
  <2>8. CASE ~request.echo
    <3>1. /\ sent[i].text = x0 /\ sent[i].tokens = y0
          /\ s.text = x /\ s.tokens = y
      BY <1>2, <1>4, <2>1, <2>8, ShownIs DEF Vllm!SentWhole
    <3> QED
      BY <2>5, <2>6, <3>1
  <2> QED
    BY <1>2, <2>7, <2>8
<1> QED
  BY <1>3, <1>4

-----------------------------------------------------------------------------
(* What the engine answers.                                                *)

\* The last output of a choice, if there is one.
LEMMA LastIs ==
  ASSUME Vllm!CompletionsIInv, NEW k \in Vllm!Prompts, NEW c \in 1..request.n
  PROVE  LET l == Vllm!Last(k, c) res == final_res_batch[k] IN
         /\ res = <<>> => l = [index |-> c, tokens |-> 0, text |-> 0, reason |-> None]
         /\ res # <<>> => \E j \in 1..request.n : l = res[j] /\ l.index = c
<1>1. CASE final_res_batch[k] = <<>>
  BY <1>1 DEF Vllm!Last, Vllm!Empty
<1>2. CASE final_res_batch[k] # <<>>
  <2> DEFINE res == final_res_batch[k]
             S == {res[j] : j \in DOMAIN res}
  <2>1. Vllm!GroupRight(res)
    BY <1>2 DEF Vllm!CompletionsIInv, Vllm!AnswersRight
  <2>2. \E o \in S : o.index = c
    BY <2>1 DEF Vllm!GroupRight
  <2>3. (CHOOSE o \in S : o.index = c) \in S /\ (CHOOSE o \in S : o.index = c).index = c
    <3> HIDE DEF S
    <3> QED
      BY <2>2
  <2>4. Vllm!Last(k, c) = CHOOSE o \in S : o.index = c
    BY <1>2 DEF Vllm!Last
  <2>5. DOMAIN res = 1..request.n
    BY <2>1 DEF Vllm!GroupRight
  <2> QED
    BY <1>2, <2>3, <2>4, <2>5
<1> QED
  BY <1>1, <1>2

\* The prompt alone is echoed once.
LEMMA EchoesOnce ==
  ASSUME Vllm!CompletionsIInv, pc = "running", NEW k \in Vllm!Prompts, ~Vllm!Over(k),
         final_res_batch[k] # <<>>
  PROVE  max_tokens > 0
<1>1. Vllm!ValidationRight /\ Vllm!GroupRight(final_res_batch[k])
  BY DEF Vllm!CompletionsIInv, Vllm!AnswersRight
<1>2. PICK j \in 1..request.n : final_res_batch[k][j].reason = None
  BY DEF Vllm!Over
<1>3. PICK o : o = final_res_batch[k][j]
  OBVIOUS
<1>4. Vllm!OutputRight(o) /\ o.reason = None
  BY <1>1, <1>2, <1>3 DEF Vllm!GroupRight
<1>5. /\ o.tokens \in Nat /\ 1 <= o.tokens
      /\ o.tokens <= Vllm!SamplingLimit /\ o.tokens # Vllm!SamplingLimit
  BY <1>4 DEF Vllm!OutputRight
<1>6. max_tokens \in Nat /\ (max_tokens = 0 => Vllm!SamplingLimit = 1)
  BY <1>1, AcceptedIs
<1> QED
  BY <1>5, <1>6

\* What comes next of a choice has the form of an output, and nothing of what was
\* there is taken back.
LEMMA ContinuationIs ==
  ASSUME Vllm!CompletionsIInv, pc = "running",
         NEW k \in Vllm!Prompts, NEW c \in 1..request.n,
         NEW o \in Vllm!Continuations(Vllm!Last(k, c))
  PROVE  /\ Vllm!OutputRight(o) /\ o.index = c
         /\ Vllm!Last(k, c).text <= o.text /\ Vllm!Last(k, c).tokens <= o.tokens
<1> DEFINE l == Vllm!Last(k, c)
<1>1. Vllm!ValidationRight
  BY DEF Vllm!CompletionsIInv
<1>2. PICK L \in Nat : L = Vllm!SamplingLimit /\ L >= 1
  BY <1>1, AcceptedIs
<1>3. None \notin {"length", "stop"}
  BY VllmCompletionsAssumption
<1>4. /\ l.index = c /\ l.tokens \in Nat /\ l.text \in Nat /\ l.text <= l.tokens
      /\ l.reason \in {None, "length", "stop"}
      /\ l.reason = None => l.tokens < L
      /\ l.reason # None => Vllm!OutputRight(l)
  <2>1. CASE final_res_batch[k] = <<>>
    <3>1. l = [index |-> c, tokens |-> 0, text |-> 0, reason |-> None]
      BY <2>1, LastIs
    <3> HIDE DEF l
    <3> QED
      BY <1>2, <3>1
  <2>2. CASE final_res_batch[k] # <<>>
    <3>1. l.index = c /\ Vllm!OutputRight(l)
      <4>1. PICK j \in 1..request.n : l = final_res_batch[k][j] /\ l.index = c
        BY <2>2, LastIs
      <4>2. Vllm!GroupRight(final_res_batch[k])
        BY <2>2 DEF Vllm!CompletionsIInv, Vllm!AnswersRight
      <4>3. Vllm!OutputRight(final_res_batch[k][j])
        BY <4>2 DEF Vllm!GroupRight
      <4> HIDE DEF l
      <4> QED
        BY <4>1, <4>3
    <3> HIDE DEF l
    <3> QED
      BY <1>2, <3>1 DEF Vllm!OutputRight
  <2> QED
    BY <2>1, <2>2
<1> HIDE DEF l
<1>5. CASE l.reason # None
  <2>1. o = l
    BY <1>5 DEF Vllm!Continuations, l
  <2> QED
    BY <1>4, <1>5, <2>1 DEF l
<1>6. CASE l.reason = None
  <2>1. PICK t \in l.text..(l.tokens + 1),
             r \in IF l.tokens + 1 = L THEN {"length", "stop"} ELSE {None, "stop"} :
          o = [index |-> l.index, tokens |-> l.tokens + 1, text |-> t, reason |-> r]
    BY <1>2, <1>6 DEF Vllm!Continuations, l
  <2>2. PICK a \in Nat, b \in Nat : a = l.text /\ b = l.tokens
    BY <1>4
  <2>3. /\ o.index = c /\ o.tokens = b + 1 /\ o.text = t /\ o.reason = r
        /\ t \in Nat /\ a <= t /\ t <= b + 1 /\ b < L
        /\ r \in {None, "length", "stop"} /\ (b + 1 = L => r # None)
    BY <1>3, <1>4, <1>6, <2>1, <2>2
  <2>4. o \in [index : 1..request.n, tokens : Nat, text : Nat, reason : {None, "length", "stop"}]
    <3>1. b + 1 \in Nat
      OBVIOUS
    <3>2. o = [index |-> c, tokens |-> b + 1, text |-> t, reason |-> r]
      BY <1>4, <2>1, <2>2
    <3> QED
      BY <2>3, <3>1, <3>2
  <2>5. Vllm!OutputRight(o)
    BY <1>2, <2>3, <2>4 DEF Vllm!OutputRight
  <2> QED
    BY <2>2, <2>3, <2>5 DEF l
<1> QED
  BY <1>5, <1>6

\* An answer has one output of every choice, each going on from the last one.
LEMMA AnswerIs ==
  ASSUME Vllm!CompletionsIInv, pc = "running",
         NEW k \in Vllm!Prompts, NEW res \in Vllm!Answers(k)
  PROVE  /\ Vllm!GroupRight(res)
         /\ \A j \in 1..request.n :
              res[j] \in Vllm!Continuations(Vllm!Last(k, res[j].index))
<1> DEFINE n == request.n
           next(c) == Vllm!Continuations(Vllm!Last(k, c))
<1>1. n \in Nat \ {0}
  BY RequestIs DEF Vllm!CompletionsIInv
<1>2. PICK o \in [1..n -> UNION {next(c) : c \in 1..n}],
           rank \in [1..n -> 1..n] :
        /\ \A c \in 1..n : o[c] \in next(c)
        /\ \A i, j \in 1..n : rank[i] = rank[j] => i = j
        /\ res = [j \in 1..n |-> o[rank[j]]]
  <2>1. PICK o \in Vllm!Turns(k), rank \in Vllm!Ranks : res = [j \in 1..n |-> o[rank[j]]]
    BY DEF Vllm!Answers
  <2>2. /\ o \in [1..n -> UNION {next(c) : c \in 1..n}] /\ \A c \in 1..n : o[c] \in next(c)
        /\ rank \in [1..n -> 1..n] /\ \A i, j \in 1..n : rank[i] = rank[j] => i = j
    BY DEF Vllm!Turns, Vllm!Ranks
  <2> QED
    BY <2>1, <2>2
<1>3. \A c \in 1..n : Vllm!OutputRight(o[c]) /\ o[c].index = c
  BY <1>2, ContinuationIs
<1> HIDE DEF next
<1>4. \A c \in 1..n : \E j \in 1..n : rank[j] = c
  <2>1. IsFiniteSet(1..n)
    BY <1>1, FS_Interval
  <2>2. rank \in Injection(1..n, 1..n)
    BY <1>2 DEF Injection, IsInjective
  <2>3. rank \in Surjection(1..n, 1..n)
    BY <2>1, <2>2, FS_Injection
  <2> QED
    BY <2>3 DEF Surjection
<1> HIDE DEF n
<1>5. \A j \in 1..n : rank[j] \in 1..n /\ res[j] = o[rank[j]] /\ res[j].index = rank[j]
  BY <1>2, <1>3
<1>6. DOMAIN res = 1..n
  BY <1>2
<1>7. /\ \A j \in 1..n : Vllm!OutputRight(res[j])
      /\ \A i, j \in 1..n : res[i].index = res[j].index => i = j
      /\ \A c \in 1..n : \E j \in 1..n : res[j].index = c
  <2>1. \A j \in 1..n : Vllm!OutputRight(res[j])
    BY <1>3, <1>5
  <2>2. ASSUME NEW i \in 1..n, NEW j \in 1..n, res[i].index = res[j].index
        PROVE  i = j
    <3>1. res[i].index = rank[i] /\ res[j].index = rank[j]
      BY <1>5
    <3>2. rank[i] = rank[j]
      BY <2>2, <3>1
    <3> QED
      BY <1>2, <3>2
  <2>3. ASSUME NEW c \in 1..n
        PROVE  \E j \in 1..n : res[j].index = c
    <3>1. PICK j \in 1..n : rank[j] = c
      BY <1>4
    <3>2. res[j].index = rank[j]
      BY <1>5
    <3> QED
      BY <3>1, <3>2
  <2> QED
    BY <2>1, <2>2, <2>3
<1>8. \A j \in 1..n : res[j] \in next(res[j].index)
  BY <1>2, <1>5
<1> QED
  BY <1>6, <1>7, <1>8 DEF Vllm!GroupRight, n, next

\* What a turn of the stream sends of an answer to the prompt k, and that it leaves
\* the choices of the other prompts alone.
LEMMA SendIs ==
  ASSUME Vllm!CompletionsIInv, NEW k \in Vllm!Prompts, NEW res, Vllm!GroupRight(res),
         Vllm!Send(k, res)
  PROVE  /\ \A j \in 1..request.n :
              LET o == res[j]
                  i == Vllm!Choice(k, o)
                  d == Vllm!Delta(k, o)
              IN  /\ sent'[i] = [text |-> sent[i].text \o d.text,
                                 tokens |-> sent[i].tokens \o d.tokens,
                                 reason |-> o.reason,
                                 usage |-> IF o.reason = None THEN None ELSE Vllm!Usage(k, o)]
                  /\ previous'[i] = [text |-> o.text, tokens |-> o.tokens]
                  /\ has_echoed'[i] = (has_echoed[i] \/ request.echo)
         /\ \A k2 \in Vllm!Prompts \ {k}, c \in 1..request.n :
              LET i == c + (k2 - 1) * request.n
              IN  sent'[i] = sent[i] /\ previous'[i] = previous[i]
                  /\ has_echoed'[i] = (has_echoed[i] \/ FALSE)
         /\ DOMAIN sent' = DOMAIN sent /\ DOMAIN previous' = DOMAIN previous
         /\ DOMAIN has_echoed' = DOMAIN has_echoed
<1> DEFINE S == {res[j] : j \in DOMAIN res}
           I == {Vllm!Choice(k, res[j]) : j \in DOMAIN res}
           of == [i \in I |-> CHOOSE o \in S : Vllm!Choice(k, o) = i]
<1>1. Vllm!ValidationRight /\ Vllm!SentRight
  BY DEF Vllm!CompletionsIInv
<1>2. /\ DOMAIN res = 1..request.n
      /\ \A j \in 1..request.n : res[j].index \in 1..request.n
      /\ \A i, j \in 1..request.n : res[i].index = res[j].index => i = j
  BY DEF Vllm!GroupRight, Vllm!OutputRight
<1>3. PICK D : D = 1..(request.n * Len(request.prompts))
  OBVIOUS
<1>4. DOMAIN sent = D /\ DOMAIN previous = D /\ DOMAIN has_echoed = D
  BY <1>1, <1>3 DEF Vllm!SentRight
<1>5. ASSUME NEW k2 \in Vllm!Prompts, NEW c \in 1..request.n,
             NEW i, i = c + (k2 - 1) * request.n
      PROVE  /\ i \in D
             /\ ((i - 1) \div request.n) + 1 = k2 /\ ((i - 1) % request.n) + 1 = c
  BY <1>1, <1>3, <1>5, ChoiceIs
<1>6. ASSUME NEW j \in 1..request.n, NEW i, i = Vllm!Choice(k, res[j])
      PROVE  /\ i \in D
             /\ ((i - 1) \div request.n) + 1 = k /\ ((i - 1) % request.n) + 1 = res[j].index
  <2>1. PICK c \in 1..request.n : c = res[j].index
    BY <1>2
  <2>2. i = c + (k - 1) * request.n
    BY <1>6, <2>1 DEF Vllm!Choice
  <2> QED
    BY <1>5, <2>1, <2>2
<1>7. ASSUME NEW j \in 1..request.n
      PROVE  /\ Vllm!Choice(k, res[j]) \in I
             /\ of[Vllm!Choice(k, res[j])] = res[j]
  <2> DEFINE i == Vllm!Choice(k, res[j])
             found == CHOOSE o \in S : Vllm!Choice(k, o) = i
  <2>1. i \in I /\ res[j] \in S
    BY <1>2
  <2>2. found \in S /\ Vllm!Choice(k, found) = i
    <3>1. \E o \in S : Vllm!Choice(k, o) = i
      BY <2>1
    <3> HIDE DEF S, i
    <3> QED
      BY <3>1
  <2>3. PICK j2 \in 1..request.n : found = res[j2]
    BY <1>2, <2>2
  <2>4. Vllm!Choice(k, res[j2]) = Vllm!Choice(k, res[j])
    BY <2>2, <2>3
  <2>5. res[j2].index = res[j].index
    <3>1. PICK a : a = Vllm!Choice(k, res[j]) /\ a = Vllm!Choice(k, res[j2])
      BY <2>4
    <3> QED
      BY <1>6, <3>1
  <2>6. found = res[j]
    BY <1>2, <2>3, <2>5
  <2>7. of[i] = found
    BY <2>1
  <2> QED
    BY <2>1, <2>6, <2>7
<1>8. ASSUME NEW k2 \in Vllm!Prompts \ {k}, NEW c \in 1..request.n
      PROVE  c + (k2 - 1) * request.n \notin I
  <2>1. SUFFICES ASSUME NEW j \in 1..request.n,
                        c + (k2 - 1) * request.n = Vllm!Choice(k, res[j])
                 PROVE  FALSE
    BY <1>2
  <2>2. k2 = k
    <3>1. PICK i : i = Vllm!Choice(k, res[j]) /\ i = c + (k2 - 1) * request.n
      BY <2>1
    <3>2. ((i - 1) \div request.n) + 1 = k2
      BY <1>5, <3>1
    <3>3. ((i - 1) \div request.n) + 1 = k
      BY <1>6, <3>1
    <3> QED
      BY <3>2, <3>3
  <2> QED
    BY <2>2
<1>9. DOMAIN of = I
  OBVIOUS
<1>10. /\ sent' = [i \in DOMAIN sent |->
             IF i \notin DOMAIN of THEN sent[i]
             ELSE LET d == Vllm!Delta(k, of[i]) IN
                  [text |-> sent[i].text \o d.text, tokens |-> sent[i].tokens \o d.tokens,
                   reason |-> of[i].reason,
                   usage |-> IF of[i].reason = None THEN None ELSE Vllm!Usage(k, of[i])]]
       /\ has_echoed' = [i \in DOMAIN has_echoed |->
             has_echoed[i] \/ (i \in DOMAIN of /\ request.echo)]
       /\ previous' = [i \in DOMAIN previous |->
             IF i \in DOMAIN of THEN [text |-> of[i].text, tokens |-> of[i].tokens]
             ELSE previous[i]]
  BY DEF Vllm!Send
<1> HIDE DEF S, I, of
<1>11. ASSUME NEW j \in 1..request.n
       PROVE  LET o == res[j]
                  i == Vllm!Choice(k, o)
                  d == Vllm!Delta(k, o)
              IN  /\ sent'[i] = [text |-> sent[i].text \o d.text,
                                 tokens |-> sent[i].tokens \o d.tokens,
                                 reason |-> o.reason,
                                 usage |-> IF o.reason = None THEN None ELSE Vllm!Usage(k, o)]
                  /\ previous'[i] = [text |-> o.text, tokens |-> o.tokens]
                  /\ has_echoed'[i] = (has_echoed[i] \/ request.echo)
  <2>1. PICK i : i = Vllm!Choice(k, res[j])
    OBVIOUS
  <2>2. i \in D /\ i \in DOMAIN of /\ of[i] = res[j]
    BY <1>6, <1>7, <1>9, <2>1
  <2>3. sent'[i] = LET d == Vllm!Delta(k, of[i]) IN
                   [text |-> sent[i].text \o d.text, tokens |-> sent[i].tokens \o d.tokens,
                    reason |-> of[i].reason,
                    usage |-> IF of[i].reason = None THEN None ELSE Vllm!Usage(k, of[i])]
    BY <1>4, <1>10, <2>2
  <2>4. previous'[i] = [text |-> of[i].text, tokens |-> of[i].tokens]
    BY <1>4, <1>10, <2>2
  <2>5. has_echoed'[i] = (has_echoed[i] \/ request.echo)
    BY <1>4, <1>10, <2>2
  <2> QED
    BY <2>1, <2>2, <2>3, <2>4, <2>5
<1>12. ASSUME NEW k2 \in Vllm!Prompts \ {k}, NEW c \in 1..request.n
       PROVE  LET i == c + (k2 - 1) * request.n
              IN  /\ sent'[i] = sent[i] /\ previous'[i] = previous[i]
                  /\ has_echoed'[i] = (has_echoed[i] \/ FALSE)
  <2>1. PICK i : i = c + (k2 - 1) * request.n
    OBVIOUS
  <2>2. i \in D /\ i \notin DOMAIN of
    BY <1>5, <1>8, <1>9, <2>1
  <2>3. /\ sent'[i] = sent[i] /\ previous'[i] = previous[i]
        /\ has_echoed'[i] = (has_echoed[i] \/ FALSE)
    BY <1>4, <1>10, <2>2
  <2> QED
    BY <2>1, <2>3
<1>13. DOMAIN sent' = DOMAIN sent /\ DOMAIN previous' = DOMAIN previous
       /\ DOMAIN has_echoed' = DOMAIN has_echoed
  BY <1>10
<1> QED
  BY <1>11, <1>12, <1>13

-----------------------------------------------------------------------------
(* The invariant.                                                          *)

LEMMA InitCompletions == Vllm!Init => Vllm!CompletionsIInv
<1> SUFFICES ASSUME Vllm!Init PROVE Vllm!CompletionsIInv
  OBVIOUS
<1>1. Vllm!ValidationRight
  <2>1. request \in VllmParams /\ pc = "new" /\ max_tokens = request.max_tokens
    BY DEF Vllm!Init
  <2>2. request \in Vllm!AllParams /\ request.prompts # <<>>
    BY <2>1, VllmCompletionsAssumption
  <2> QED
    BY <2>1, <2>2 DEF Vllm!ValidationRight
<1>2. Vllm!AnswersRight
  <2>1. pc = "new" /\ final_res_batch = [k \in DOMAIN request.prompts |-> <<>>]
    BY DEF Vllm!Init
  <2> QED
    BY <2>1 DEF Vllm!AnswersRight, Vllm!Prompts
<1>3. Vllm!SentRight
  <2>1. PICK D : D = 1..(request.n * Len(request.prompts))
    OBVIOUS
  <2>2. /\ previous = [i \in D |-> [text |-> 0, tokens |-> 0]]
        /\ has_echoed = [i \in D |-> FALSE]
        /\ sent = [i \in D |-> Vllm!Nothing]
        /\ final_res_batch = [k \in Vllm!Prompts |-> <<>>]
    BY <2>1 DEF Vllm!Init, Vllm!Prompts
  <2>3. DOMAIN sent = D /\ DOMAIN previous = D /\ DOMAIN has_echoed = D
    BY <2>2
  <2>4. \A i \in D : Vllm!Unsent(i)
    BY <2>2 DEF Vllm!Unsent
  <2>5. \A k \in Vllm!Prompts, c \in 1..request.n : c + (k - 1) * request.n \in D
    BY <1>1, <2>1, ChoiceIs
  <2>6. \A k \in Vllm!Prompts : final_res_batch[k] = <<>>
    BY <2>2
  <2> QED
    BY <2>1, <2>3, <2>4, <2>5, <2>6 DEF Vllm!SentRight
<1> QED
  BY <1>1, <1>2, <1>3 DEF Vllm!CompletionsIInv

\* What is shown of an output does not change while the request does not.
LEMMA ShownStays ==
  ASSUME UNCHANGED <<request, max_tokens>>, NEW k, NEW o
  PROVE  Vllm!Shown(k, o)' = Vllm!Shown(k, o) /\ Vllm!Usage(k, o)' = Vllm!Usage(k, o)
BY DEF Vllm!Shown, Vllm!PromptOf, Vllm!TextOf, Vllm!TokensOf, Vllm!Piece, Vllm!Usage

\* An answer to one prompt is taken, and sent on when the request is a stream.
LEMMA ReceiveCompletions ==
  ASSUME Vllm!CompletionsIInv, NEW k \in Vllm!Prompts, NEW res \in Vllm!Answers(k),
         Vllm!Receive(k, res)
  PROVE  Vllm!CompletionsIInv'
<1>1. /\ pc = "running" /\ pc' = "running" /\ ~Vllm!Over(k)
      /\ request' = request /\ max_tokens' = max_tokens
      /\ final_res_batch' = [final_res_batch EXCEPT ![k] = res]
  BY DEF Vllm!Receive
<1>2. Vllm!ValidationRight /\ Vllm!AnswersRight /\ Vllm!SentRight
  BY DEF Vllm!CompletionsIInv
<1>3. /\ Vllm!GroupRight(res)
      /\ \A j \in 1..request.n : res[j] \in Vllm!Continuations(Vllm!Last(k, res[j].index))
  BY <1>1, AnswerIs
<1>4. /\ request.n \in Nat \ {0} /\ request.stream \in BOOLEAN /\ request.echo \in BOOLEAN
  BY <1>2, RequestIs
<1>5. /\ DOMAIN final_res_batch = Vllm!Prompts /\ DOMAIN final_res_batch' = Vllm!Prompts
      /\ final_res_batch'[k] = res
      /\ \A k2 \in Vllm!Prompts \ {k} : final_res_batch'[k2] = final_res_batch[k2]
  BY <1>1, <1>2 DEF Vllm!AnswersRight
<1>6. Vllm!Prompts' = Vllm!Prompts /\ Vllm!Streams' = Vllm!Streams
  BY <1>1 DEF Vllm!Prompts, Vllm!Streams
<1>7. Vllm!ValidationRight'
  BY <1>1, <1>2 DEF Vllm!ValidationRight, Vllm!Limit, Vllm!Prompts, Vllm!Fits, Vllm!Samples,
     Vllm!SamplingLimit
<1>8. Vllm!AnswersRight'
  <2>1. ASSUME NEW k2 \in Vllm!Prompts, final_res_batch'[k2] # <<>>
        PROVE  Vllm!GroupRight(final_res_batch[k2])'
    <3>1. PICK r : r = final_res_batch'[k2]
      OBVIOUS
    <3>2. Vllm!GroupRight(r)
      BY <1>2, <1>3, <1>5, <2>1, <3>1 DEF Vllm!AnswersRight
    <3>3. Vllm!SamplingLimit' = Vllm!SamplingLimit
      BY <1>1 DEF Vllm!SamplingLimit, Vllm!Limit
    <3> QED
      BY <1>1, <3>1, <3>2, <3>3 DEF Vllm!GroupRight, Vllm!OutputRight
  <2> QED
    BY <1>1, <1>5, <1>6, <2>1 DEF Vllm!AnswersRight
<1>9. Vllm!SentRight'
  <2>1. CASE ~Vllm!Streams
    <3>1. UNCHANGED <<sent, has_echoed, previous>>
      BY <2>1 DEF Vllm!Receive
    <3>2. \A k2 \in Vllm!Prompts, c \in 1..request.n : Vllm!Unsent(c + (k2 - 1) * request.n)
      BY <1>2, <2>1 DEF Vllm!SentRight
    <3>3. \A i : Vllm!Unsent(i)' <=> Vllm!Unsent(i)
      BY <3>1 DEF Vllm!Unsent, Vllm!Nothing
    <3> QED
      BY <1>1, <1>2, <1>6, <2>1, <3>1, <3>2, <3>3 DEF Vllm!SentRight
  <2>2. CASE Vllm!Streams
    <3>1. Vllm!Send(k, res)
      BY <2>2 DEF Vllm!Receive
    <3>2. /\ DOMAIN sent' = 1..(request.n * Len(request.prompts))
          /\ DOMAIN previous' = DOMAIN sent' /\ DOMAIN has_echoed' = DOMAIN sent'
      BY <1>2, <1>3, <3>1, SendIs DEF Vllm!SentRight
    <3>3. ASSUME NEW j \in 1..request.n, NEW i, i = Vllm!Choice(k, res[j])
          PROVE  Vllm!SentWhole(i, k, res[j])'
      <4>1. PICK o : o = res[j]
        OBVIOUS
      <4>2. Vllm!OutputRight(o) /\ o.index \in 1..request.n
        BY <1>3, <4>1 DEF Vllm!GroupRight, Vllm!OutputRight
      <4>3. PICK c \in 1..request.n : c = o.index
        BY <4>2
      <4>4. i = c + (k - 1) * request.n
        BY <3>3, <4>1, <4>3 DEF Vllm!Choice
      <4>5. o \in Vllm!Continuations(Vllm!Last(k, c))
        BY <1>3, <4>1, <4>3
      <4>6. IF final_res_batch[k] = <<>> THEN Vllm!Unsent(i)
            ELSE \E l \in 1..request.n : /\ final_res_batch[k][l].index = c
                                         /\ Vllm!SentWhole(i, k, final_res_batch[k][l])
        BY <1>2, <2>2, <4>4 DEF Vllm!SentRight
      <4>7. \/ Vllm!Unsent(i)
            \/ /\ max_tokens > 0
               /\ \E old : /\ Vllm!OutputRight(old) /\ Vllm!SentWhole(i, k, old)
                           /\ old.index = o.index
                           /\ old.text <= o.text /\ old.tokens <= o.tokens
        <5>1. CASE final_res_batch[k] = <<>>
          BY <4>6, <5>1
        <5>2. CASE final_res_batch[k] # <<>>
          <6>1. max_tokens > 0
            BY <1>1, <5>2, EchoesOnce
          <6>2. PICK l \in 1..request.n : /\ final_res_batch[k][l].index = c
                                          /\ Vllm!SentWhole(i, k, final_res_batch[k][l])
            BY <4>6, <5>2
          <6>3. PICK l2 \in 1..request.n : /\ Vllm!Last(k, c) = final_res_batch[k][l2]
                                           /\ Vllm!Last(k, c).index = c
            BY <5>2, LastIs
          <6>4. Vllm!GroupRight(final_res_batch[k])
            BY <1>2, <5>2 DEF Vllm!AnswersRight
          <6>5. l = l2
            BY <6>2, <6>3, <6>4 DEF Vllm!GroupRight
          <6>6. PICK old : old = final_res_batch[k][l]
            OBVIOUS
          <6>7. /\ Vllm!OutputRight(old) /\ Vllm!SentWhole(i, k, old) /\ old.index = o.index
                /\ old = Vllm!Last(k, c)
            BY <4>3, <6>2, <6>3, <6>4, <6>5, <6>6 DEF Vllm!GroupRight
          <6>8. old.text <= o.text /\ old.tokens <= o.tokens
            BY <1>1, <4>5, <6>7, ContinuationIs
          <6> QED
            BY <6>1, <6>7, <6>8
        <5> QED
          BY <5>1, <5>2
      <4>8. /\ sent[i].text \o Vllm!Delta(k, o).text = Vllm!Shown(k, o).text
            /\ sent[i].tokens \o Vllm!Delta(k, o).tokens = Vllm!Shown(k, o).tokens
        BY <1>1, <1>2, <3>3, <4>1, <4>2, <4>7, DeltaCompletes
      <4>9. /\ sent'[i] = [text |-> sent[i].text \o Vllm!Delta(k, o).text,
                           tokens |-> sent[i].tokens \o Vllm!Delta(k, o).tokens,
                           reason |-> o.reason,
                           usage |-> IF o.reason = None THEN None ELSE Vllm!Usage(k, o)]
            /\ previous'[i] = [text |-> o.text, tokens |-> o.tokens]
            /\ has_echoed'[i] = (has_echoed[i] \/ request.echo)
        BY <1>3, <3>1, <3>3, <4>1, SendIs
      <4>10. has_echoed[i] = FALSE \/ has_echoed[i] = request.echo
        BY <4>7 DEF Vllm!Unsent, Vllm!SentWhole
      <4>11. has_echoed'[i] = request.echo
        BY <1>4, <4>9, <4>10
      <4>12. Vllm!Shown(k, o)' = Vllm!Shown(k, o) /\ Vllm!Usage(k, o)' = Vllm!Usage(k, o)
        BY <1>1, ShownStays
      <4> QED
        BY <1>1, <4>1, <4>8, <4>9, <4>11, <4>12 DEF Vllm!SentWhole
    <3>4. ASSUME NEW k2 \in Vllm!Prompts, NEW c \in 1..request.n,
                 NEW i, i = c + (k2 - 1) * request.n
          PROVE  IF final_res_batch'[k2] # <<>>
                 THEN \E j \in 1..request.n : /\ final_res_batch'[k2][j].index = c
                                              /\ Vllm!SentWhole(i, k2, final_res_batch[k2][j])'
                 ELSE Vllm!Unsent(i)'
      <4>1. CASE k2 = k
        <5>1. PICK j \in 1..request.n : res[j].index = c
          BY <1>3 DEF Vllm!GroupRight
        <5>2. i = Vllm!Choice(k, res[j])
          BY <3>4, <4>1, <5>1 DEF Vllm!Choice
        <5>3. Vllm!SentWhole(i, k, res[j])'
          BY <3>3, <5>2
        <5>4. DOMAIN res = 1..request.n
          BY <1>3 DEF Vllm!GroupRight
        <5>5. res # <<>>
          BY <1>4, <5>4
        <5> QED
          BY <1>5, <4>1, <5>1, <5>3, <5>5 DEF Vllm!SentWhole
      <4>2. CASE k2 # k
        <5>1. /\ sent'[i] = sent[i] /\ previous'[i] = previous[i]
              /\ has_echoed'[i] = (has_echoed[i] \/ FALSE)
          BY <1>3, <3>1, <3>4, <4>2, SendIs
        <5>2. final_res_batch'[k2] = final_res_batch[k2]
          BY <1>5, <4>2
        <5>3. IF final_res_batch[k2] # <<>>
              THEN \E j \in 1..request.n : /\ final_res_batch[k2][j].index = c
                                           /\ Vllm!SentWhole(i, k2, final_res_batch[k2][j])
              ELSE Vllm!Unsent(i)
          BY <1>2, <2>2, <3>4 DEF Vllm!SentRight
        <5>4. CASE final_res_batch[k2] = <<>>
          <6>1. Vllm!Unsent(i)
            BY <5>3, <5>4
          <6>2. Vllm!Unsent(i)'
            BY <5>1, <6>1 DEF Vllm!Unsent, Vllm!Nothing
          <6> QED
            BY <5>2, <5>4, <6>2
        <5>5. CASE final_res_batch[k2] # <<>>
          <6>1. PICK j \in 1..request.n : /\ final_res_batch[k2][j].index = c
                                          /\ Vllm!SentWhole(i, k2, final_res_batch[k2][j])
            BY <5>3, <5>5
          <6>2. PICK o : o = final_res_batch[k2][j]
            OBVIOUS
          <6>3. Vllm!Shown(k2, o)' = Vllm!Shown(k2, o) /\ Vllm!Usage(k2, o)' = Vllm!Usage(k2, o)
            BY <1>1, ShownStays
          <6>4. has_echoed'[i] = request.echo
            BY <1>4, <5>1, <6>1 DEF Vllm!SentWhole
          <6>5. Vllm!SentWhole(i, k2, o)'
            BY <1>1, <5>1, <6>1, <6>2, <6>3, <6>4 DEF Vllm!SentWhole
          <6>6. o = final_res_batch'[k2][j]
            BY <5>2, <6>2
          <6> QED
            BY <5>2, <5>5, <6>1, <6>5, <6>6 DEF Vllm!SentWhole
        <5> QED
          BY <5>4, <5>5
      <4> QED
        BY <4>1, <4>2
    <3> QED
      BY <1>1, <1>6, <2>2, <3>2, <3>4 DEF Vllm!SentRight
  <2> QED
    BY <2>1, <2>2
<1> QED
  BY <1>7, <1>8, <1>9 DEF Vllm!CompletionsIInv

\* The answers and what was sent of them stay what they are.
LEMMA RestStays ==
  ASSUME Vllm!AnswersRight, Vllm!SentRight,
         UNCHANGED <<request, final_res_batch, previous, has_echoed, sent>>,
         max_tokens' = max_tokens \/ \A k \in Vllm!Prompts : final_res_batch[k] = <<>>,
         pc' \in {"new", "refused"} => \A k \in Vllm!Prompts : final_res_batch[k] = <<>>,
         pc' = "done" => \A k \in Vllm!Prompts : Vllm!Over(k)
  PROVE  Vllm!AnswersRight' /\ Vllm!SentRight'
<1>1. Vllm!Prompts' = Vllm!Prompts /\ Vllm!Streams' = Vllm!Streams
  BY DEF Vllm!Prompts, Vllm!Streams
<1>2. Vllm!AnswersRight'
  <2>1. ASSUME NEW k \in Vllm!Prompts
        PROVE  /\ Vllm!GroupRight(final_res_batch[k])' <=> Vllm!GroupRight(final_res_batch[k])
               /\ Vllm!Over(k)' <=> Vllm!Over(k)
    <3>1. Vllm!SamplingLimit' = Vllm!SamplingLimit
      BY DEF Vllm!SamplingLimit, Vllm!Limit
    <3> QED
      BY <3>1 DEF Vllm!GroupRight, Vllm!OutputRight, Vllm!Over
  <2> QED
    BY <1>1, <2>1 DEF Vllm!AnswersRight
<1>3. ASSUME NEW k \in Vllm!Prompts, NEW c \in 1..request.n, NEW i,
             i = c + (k - 1) * request.n
      PROVE  IF Vllm!Streams /\ final_res_batch[k] # <<>>
             THEN \E j \in 1..request.n : /\ final_res_batch[k][j].index = c
                                          /\ Vllm!SentWhole(i, k, final_res_batch[k][j])'
             ELSE Vllm!Unsent(i)'
  <2>1. IF Vllm!Streams /\ final_res_batch[k] # <<>>
        THEN \E j \in 1..request.n : /\ final_res_batch[k][j].index = c
                                     /\ Vllm!SentWhole(i, k, final_res_batch[k][j])
        ELSE Vllm!Unsent(i)
    BY <1>3 DEF Vllm!SentRight
  <2>2. CASE Vllm!Streams /\ final_res_batch[k] # <<>>
    <3>1. PICK j \in 1..request.n : /\ final_res_batch[k][j].index = c
                                    /\ Vllm!SentWhole(i, k, final_res_batch[k][j])
      BY <2>1, <2>2
    <3>2. PICK o : o = final_res_batch[k][j]
      OBVIOUS
    <3>3. max_tokens' = max_tokens
      BY <2>2
    <3>4. Vllm!Shown(k, o)' = Vllm!Shown(k, o) /\ Vllm!Usage(k, o)' = Vllm!Usage(k, o)
      BY <3>3, ShownStays
    <3>5. Vllm!SentWhole(i, k, o)'
      BY <3>1, <3>2, <3>4 DEF Vllm!SentWhole
    <3> QED
      BY <2>2, <3>1, <3>2, <3>5 DEF Vllm!SentWhole
  <2>3. CASE ~(Vllm!Streams /\ final_res_batch[k] # <<>>)
    <3>1. Vllm!Unsent(i)
      BY <2>1, <2>3
    <3> QED
      BY <2>3, <3>1 DEF Vllm!Unsent, Vllm!Nothing
  <2> QED
    BY <2>2, <2>3
<1>4. /\ DOMAIN sent' = 1..(request'.n * Len(request'.prompts))
      /\ DOMAIN previous' = DOMAIN sent' /\ DOMAIN has_echoed' = DOMAIN sent'
  BY DEF Vllm!SentRight
<1> QED
  BY <1>1, <1>2, <1>3, <1>4 DEF Vllm!SentRight

LEMMA CompletionsInvariant ==
  ServerInit /\ [][ServerNext]_serverVars => []Vllm!CompletionsIInv
<1>1. ASSUME Vllm!CompletionsIInv, UNCHANGED vllmVars
      PROVE  Vllm!CompletionsIInv'
  <2>1. UNCHANGED <<pc, request, max_tokens, final_res_batch, previous, has_echoed, sent>>
    BY <1>1 DEF vllmVars
  <2>2. Vllm!ValidationRight /\ Vllm!AnswersRight /\ Vllm!SentRight
    BY <1>1 DEF Vllm!CompletionsIInv
  <2>3. Vllm!ValidationRight'
    BY <2>1, <2>2 DEF Vllm!ValidationRight, Vllm!Limit, Vllm!Prompts, Vllm!Fits, Vllm!Samples,
       Vllm!SamplingLimit
  <2>4. Vllm!AnswersRight' /\ Vllm!SentRight'
    <3>1. /\ pc' \in {"new", "refused"} => \A k \in Vllm!Prompts : final_res_batch[k] = <<>>
          /\ pc' = "done" => \A k \in Vllm!Prompts : Vllm!Over(k)
      BY <2>1, <2>2 DEF Vllm!AnswersRight
    <3> QED
      BY <2>1, <2>2, <3>1, RestStays
  <2> QED
    BY <2>3, <2>4 DEF Vllm!CompletionsIInv
<1>2. ASSUME Vllm!CompletionsIInv, Vllm!CreateCompletion
      PROVE  Vllm!CompletionsIInv'
  <2>1. Vllm!ValidationRight /\ Vllm!AnswersRight /\ Vllm!SentRight
    BY <1>2 DEF Vllm!CompletionsIInv
  <2>2. /\ pc = "new" /\ pc' \in {"running", "refused"}
        /\ UNCHANGED <<request, final_res_batch, previous, has_echoed, sent>>
        /\ max_tokens' = Vllm!Limit
        /\ pc' = IF (\A k \in Vllm!Prompts : Vllm!Fits(k)) /\ Vllm!Samples
                 THEN "running" ELSE "refused"
    BY <1>2 DEF Vllm!CreateCompletion
  <2>3. /\ Vllm!Limit' = Vllm!Limit /\ Vllm!Samples' = Vllm!Samples
        /\ Vllm!Prompts' = Vllm!Prompts /\ \A k : Vllm!Fits(k)' = Vllm!Fits(k)
    BY <2>2 DEF Vllm!Limit, Vllm!Samples, Vllm!SamplingLimit, Vllm!Prompts, Vllm!Fits
  <2>4. Vllm!ValidationRight'
    BY <2>1, <2>2, <2>3 DEF Vllm!ValidationRight
  <2>5. \A k \in Vllm!Prompts : final_res_batch[k] = <<>>
    BY <2>1, <2>2 DEF Vllm!AnswersRight
  <2>6. Vllm!AnswersRight' /\ Vllm!SentRight'
    BY <2>1, <2>2, <2>5, RestStays
  <2> QED
    BY <2>4, <2>6 DEF Vllm!CompletionsIInv
<1>3. ASSUME Vllm!CompletionsIInv, Vllm!Finish
      PROVE  Vllm!CompletionsIInv'
  <2>1. Vllm!ValidationRight /\ Vllm!AnswersRight /\ Vllm!SentRight
    BY <1>3 DEF Vllm!CompletionsIInv
  <2>2. /\ pc = "running" /\ pc' = "done" /\ \A k \in Vllm!Prompts : Vllm!Over(k)
        /\ UNCHANGED <<request, max_tokens, final_res_batch, previous, has_echoed, sent>>
    BY <1>3 DEF Vllm!Finish
  <2>3. Vllm!ValidationRight'
    BY <2>1, <2>2 DEF Vllm!ValidationRight, Vllm!Limit, Vllm!Prompts, Vllm!Fits, Vllm!Samples,
       Vllm!SamplingLimit
  <2>4. Vllm!AnswersRight' /\ Vllm!SentRight'
    BY <2>1, <2>2, RestStays
  <2> QED
    BY <2>3, <2>4 DEF Vllm!CompletionsIInv
<1>4. ASSUME Vllm!CompletionsIInv, Vllm!Next
      PROVE  Vllm!CompletionsIInv'
  <2>1. CASE Vllm!CreateCompletion
    BY <1>2, <1>4, <2>1
  <2>2. ASSUME NEW k \in Vllm!Prompts, NEW res \in Vllm!Answers(k), Vllm!Receive(k, res)
        PROVE  Vllm!CompletionsIInv'
    BY <1>4, <2>2, ReceiveCompletions
  <2>3. CASE Vllm!Finish
    BY <1>3, <1>4, <2>3
  <2>4. CASE Vllm!Ended
    BY <1>1, <1>4, <2>4 DEF Vllm!Ended, Vllm!vars, vllmVars
  <2> QED
    BY <1>4, <2>1, <2>2, <2>3, <2>4 DEF Vllm!Next
<1>5. ServerInit => Vllm!CompletionsIInv
  BY InitCompletions DEF ServerInit
<1>6. Vllm!CompletionsIInv /\ [ServerNext]_serverVars => Vllm!CompletionsIInv'
  BY <1>1, <1>4 DEF ServerNext, HuggingFaceStep, VllmStep, serverVars
<1> QED
  BY <1>5, <1>6, PTL

-----------------------------------------------------------------------------
(* What the invariant means for the client.                                *)

\* The place of a choice, and what was sent of it.
LEMMA PlaceIs ==
  ASSUME Vllm!CompletionsIInv, NEW i \in DOMAIN sent
  PROVE  \E k \in Vllm!Prompts, c \in 1..request.n :
           /\ i = c + (k - 1) * request.n
           /\ ((i - 1) \div request.n) + 1 = k
           /\ IF Vllm!Streams /\ final_res_batch[k] # <<>>
              THEN \E j \in 1..request.n : /\ final_res_batch[k][j].index = c
                                           /\ Vllm!SentWhole(i, k, final_res_batch[k][j])
              ELSE Vllm!Unsent(i)
<1>1. Vllm!ValidationRight /\ Vllm!SentRight
  BY DEF Vllm!CompletionsIInv
<1>2. /\ request.n \in Nat \ {0} /\ Len(request.prompts) \in Nat
      /\ Vllm!Prompts = 1..Len(request.prompts)
  BY <1>1, RequestIs
<1>3. PICK n \in Nat \ {0}, m \in Nat : n = request.n /\ m = Len(request.prompts)
  BY <1>2
<1>4. i \in 1..(n * m)
  BY <1>1, <1>3 DEF Vllm!SentRight
<1>5. PICK k \in 1..m, c \in 1..n : i = c + (k - 1) * n
  BY <1>4, ChoiceOfPlace
<1>6. k \in Vllm!Prompts /\ c \in 1..request.n /\ i = c + (k - 1) * request.n
  BY <1>2, <1>3, <1>5
<1>7. ((i - 1) \div request.n) + 1 = k
  BY <1>1, <1>6, ChoiceIs
<1>8. IF Vllm!Streams /\ final_res_batch[k] # <<>>
      THEN \E j \in 1..request.n : /\ final_res_batch[k][j].index = c
                                   /\ Vllm!SentWhole(i, k, final_res_batch[k][j])
      ELSE Vllm!Unsent(i)
  BY <1>1, <1>6 DEF Vllm!SentRight
<1> QED
  BY <1>6, <1>7, <1>8

\* What was sent of an output.
LEMMA SentIs ==
  ASSUME Vllm!CompletionsIInv, Vllm!Streams,
         NEW k \in Vllm!Prompts, final_res_batch[k] # <<>>, NEW j \in 1..request.n,
         NEW i, i = Vllm!Choice(k, final_res_batch[k][j])
  PROVE  /\ Vllm!SentWhole(i, k, final_res_batch[k][j])
         /\ i \in DOMAIN sent /\ ((i - 1) \div request.n) + 1 = k
         /\ ((i - 1) % request.n) + 1 = final_res_batch[k][j].index
<1>1. /\ Vllm!ValidationRight /\ Vllm!SentRight /\ Vllm!GroupRight(final_res_batch[k])
  BY DEF Vllm!CompletionsIInv, Vllm!AnswersRight
<1>2. PICK c \in 1..request.n : c = final_res_batch[k][j].index
  BY <1>1 DEF Vllm!GroupRight, Vllm!OutputRight
<1>3. i = c + (k - 1) * request.n
  BY <1>2 DEF Vllm!Choice
<1>4. PICK j2 \in 1..request.n : /\ final_res_batch[k][j2].index = c
                                 /\ Vllm!SentWhole(i, k, final_res_batch[k][j2])
  BY <1>1, <1>3 DEF Vllm!SentRight
<1>5. j2 = j
  BY <1>1, <1>2, <1>4 DEF Vllm!GroupRight
<1>6. /\ i \in DOMAIN sent /\ ((i - 1) \div request.n) + 1 = k
      /\ ((i - 1) % request.n) + 1 = c
  BY <1>1, <1>3, ChoiceIs DEF Vllm!SentRight
<1> QED
  BY <1>2, <1>4, <1>5, <1>6

\* There are answers only of a request that was accepted.
LEMMA AnsweredIs ==
  ASSUME Vllm!CompletionsIInv, NEW k \in Vllm!Prompts, final_res_batch[k] # <<>>
  PROVE  pc \in {"running", "done"} /\ Vllm!GroupRight(final_res_batch[k])
BY DEF Vllm!CompletionsIInv, Vllm!AnswersRight, Vllm!ValidationRight

LEMMA TypeMeans == Vllm!CompletionsIInv => Vllm!CompletionsTypeOK
<1> SUFFICES ASSUME Vllm!CompletionsIInv PROVE Vllm!CompletionsTypeOK
  OBVIOUS
<1>1. Vllm!ValidationRight
  BY DEF Vllm!CompletionsIInv
<1>2. /\ pc \in {"new", "refused", "running", "done"} /\ request \in Vllm!AllParams
      /\ max_tokens \in Int \cup {None}
  BY <1>1, RequestIs DEF Vllm!ValidationRight
<1>3. ASSUME NEW i \in DOMAIN sent, max_tokens # 0,
             NEW k, k = ((i - 1) \div request.n) + 1,
             NEW prompt, prompt = IF has_echoed[i] THEN request.prompts[k] ELSE 0
      PROVE  /\ Len(sent[i].text) = prompt + previous[i].text
             /\ Len(sent[i].tokens) = prompt + previous[i].tokens
  <2>1. PICK k2 \in Vllm!Prompts, c \in 1..request.n :
          /\ i = c + (k2 - 1) * request.n
          /\ ((i - 1) \div request.n) + 1 = k2
          /\ IF Vllm!Streams /\ final_res_batch[k2] # <<>>
             THEN \E j \in 1..request.n : /\ final_res_batch[k2][j].index = c
                                          /\ Vllm!SentWhole(i, k2, final_res_batch[k2][j])
             ELSE Vllm!Unsent(i)
    BY PlaceIs
  <2>2. k = k2
    BY <1>3, <2>1
  <2>3. CASE Vllm!Unsent(i)
    BY <1>3, <2>3 DEF Vllm!Unsent, Vllm!Nothing
  <2>4. CASE Vllm!Streams /\ final_res_batch[k] # <<>>
    <3>1. PICK j \in 1..request.n : Vllm!SentWhole(i, k, final_res_batch[k][j])
      BY <2>1, <2>2, <2>4
    <3>2. PICK o : o = final_res_batch[k][j]
      OBVIOUS
    <3>3. pc \in {"running", "done"} /\ Vllm!OutputRight(o) /\ k \in Vllm!Prompts
      BY <2>1, <2>2, <2>4, <3>2, AnsweredIs DEF Vllm!GroupRight
    <3>4. max_tokens \in Nat /\ max_tokens > 0 /\ request.echo \in BOOLEAN
      BY <1>1, <1>3, <3>3, AcceptedIs, RequestIs
    <3>5. /\ Vllm!PromptOf(k) \in Seq(Tokens3) /\ Len(Vllm!PromptOf(k)) = request.prompts[k]
          /\ Vllm!TextOf(k, o) \in Seq(Tokens3) /\ Len(Vllm!TextOf(k, o)) = o.text
          /\ Vllm!TokensOf(k, o) \in Seq(Tokens3) /\ Len(Vllm!TokensOf(k, o)) = o.tokens
      BY <1>1, <3>3, TextsAre
    <3>6. /\ sent[i].text = Vllm!Shown(k, o).text /\ sent[i].tokens = Vllm!Shown(k, o).tokens
          /\ previous[i].text = o.text /\ previous[i].tokens = o.tokens
          /\ has_echoed[i] = request.echo
      BY <3>1, <3>2 DEF Vllm!SentWhole
    <3>7. CASE request.echo
      <4>1. /\ sent[i].text = Vllm!PromptOf(k) \o Vllm!TextOf(k, o)
            /\ sent[i].tokens = Vllm!PromptOf(k) \o Vllm!TokensOf(k, o)
        BY <3>4, <3>6, <3>7, ShownIs
      <4>2. /\ Len(sent[i].text) = request.prompts[k] + o.text
            /\ Len(sent[i].tokens) = request.prompts[k] + o.tokens
        <5>1. ASSUME NEW x \in Seq(Tokens3), NEW y \in Seq(Tokens3)
              PROVE  Len(x \o y) = Len(x) + Len(y)
          BY ConcatProperties
        <5>2. /\ Len(Vllm!PromptOf(k) \o Vllm!TextOf(k, o)) = request.prompts[k] + o.text
              /\ Len(Vllm!PromptOf(k) \o Vllm!TokensOf(k, o)) = request.prompts[k] + o.tokens
          BY <3>5, <5>1
        <5> QED
          BY <4>1, <5>2
      <4> QED
        BY <1>3, <3>6, <3>7, <4>2
    <3>8. CASE ~request.echo
      <4>1. sent[i].text = Vllm!TextOf(k, o) /\ sent[i].tokens = Vllm!TokensOf(k, o)
        BY <3>4, <3>6, <3>8, ShownIs
      <4>2. o.text \in Nat /\ o.tokens \in Nat
        BY <3>3 DEF Vllm!OutputRight
      <4> QED
        BY <1>3, <3>5, <3>6, <3>8, <4>1, <4>2
    <3> QED
      BY <3>4, <3>7, <3>8
  <2> QED
    BY <2>1, <2>2, <2>3, <2>4
<1> QED
  BY <1>2, <1>3 DEF Vllm!CompletionsTypeOK, Vllm!AllChoices

LEMMA StreamMeans == Vllm!CompletionsIInv => Vllm!StreamIsWhole
<1> SUFFICES ASSUME Vllm!CompletionsIInv, Vllm!Streams,
                    NEW k \in Vllm!Prompts, NEW j \in DOMAIN final_res_batch[k],
                    NEW o, o = final_res_batch[k][j],
                    NEW s, s = sent[o.index + (k - 1) * request.n]
             PROVE  /\ [text |-> s.text, tokens |-> s.tokens] = Vllm!Shown(k, o)
                    /\ s.reason = o.reason
  BY DEF Vllm!StreamIsWhole
<1>1. final_res_batch[k] # <<>>
  <2>1. DOMAIN <<>> = {}
    OBVIOUS
  <2> QED
    BY <2>1
<1>2. /\ Vllm!GroupRight(final_res_batch[k]) /\ pc \in {"running", "done"}
      /\ Vllm!ValidationRight
  BY <1>1, AnsweredIs DEF Vllm!CompletionsIInv
<1>3. j \in 1..request.n
  BY <1>2 DEF Vllm!GroupRight
<1>4. PICK i : i = Vllm!Choice(k, o) /\ s = sent[i]
  BY DEF Vllm!Choice
<1>5. Vllm!SentWhole(i, k, o)
  BY <1>1, <1>3, <1>4, SentIs
<1>6. s.text = Vllm!Shown(k, o).text /\ s.tokens = Vllm!Shown(k, o).tokens /\ s.reason = o.reason
  BY <1>4, <1>5 DEF Vllm!SentWhole
<1>7. Vllm!Shown(k, o) = [text |-> Vllm!Shown(k, o).text, tokens |-> Vllm!Shown(k, o).tokens]
  <2>1. /\ max_tokens \in Nat /\ request.echo \in BOOLEAN
    BY <1>2, AcceptedIs, RequestIs
  <2> DEFINE r == Vllm!Shown(k, o)
  <2>2. CASE request.echo /\ max_tokens = 0
    <3>1. r = [text |-> Vllm!PromptOf(k), tokens |-> Vllm!PromptOf(k)]
      BY <2>1, <2>2, ShownIs
    <3> HIDE DEF r
    <3>2. r = [text |-> r.text, tokens |-> r.tokens]
      BY <3>1
    <3> QED
      BY <3>2 DEF r
  <2>3. CASE request.echo /\ max_tokens > 0
    <3>1. r = [text |-> Vllm!PromptOf(k) \o Vllm!TextOf(k, o),
               tokens |-> Vllm!PromptOf(k) \o Vllm!TokensOf(k, o)]
      BY <2>1, <2>3, ShownIs
    <3> HIDE DEF r
    <3>2. r = [text |-> r.text, tokens |-> r.tokens]
      BY <3>1
    <3> QED
      BY <3>2 DEF r
  <2>4. CASE ~request.echo
    <3>1. r = [text |-> Vllm!TextOf(k, o), tokens |-> Vllm!TokensOf(k, o)]
      BY <2>1, <2>4, ShownIs
    <3> HIDE DEF r
    <3>2. r = [text |-> r.text, tokens |-> r.tokens]
      BY <3>1
    <3> QED
      BY <3>2 DEF r
  <2> QED
    BY <2>1, <2>2, <2>3, <2>4
<1> QED
  BY <1>6, <1>7

LEMMA LimitsMean == Vllm!CompletionsIInv => Vllm!LimitsHold
<1> SUFFICES ASSUME Vllm!CompletionsIInv PROVE Vllm!LimitsHold
  OBVIOUS
<1>1. Vllm!ValidationRight
  BY DEF Vllm!CompletionsIInv
<1>2. ASSUME NEW k \in Vllm!Prompts, NEW j \in DOMAIN final_res_batch[k]
      PROVE  request.prompts[k] + final_res_batch[k][j].tokens
               <= MaxLength + (IF max_tokens = 0 THEN 1 ELSE 0)
  <2>1. final_res_batch[k] # <<>>
    <3>1. DOMAIN <<>> = {}
      OBVIOUS
    <3> QED
      BY <3>1
  <2>2. Vllm!GroupRight(final_res_batch[k]) /\ pc \in {"running", "done"}
    BY <2>1, AnsweredIs
  <2>3. PICK o : o = final_res_batch[k][j]
    OBVIOUS
  <2>4. o.tokens \in Nat /\ o.tokens <= Vllm!SamplingLimit
    BY <2>2, <2>3 DEF Vllm!GroupRight, Vllm!OutputRight
  <2>5. request.prompts[k] + Vllm!Limit <= MaxLength
    BY <1>1, <2>2 DEF Vllm!ValidationRight, Vllm!Fits
  <2>6. /\ max_tokens = Vllm!Limit /\ max_tokens \in Nat
        /\ max_tokens > 0 => Vllm!SamplingLimit = max_tokens
        /\ max_tokens = 0 => Vllm!SamplingLimit = 1
    BY <1>1, <2>2, AcceptedIs
  <2>7. request.prompts[k] \in Nat /\ MaxLength \in Nat
    BY <1>1, RequestIs
  <2> QED
    BY <2>3, <2>4, <2>5, <2>6, <2>7
<1>3. Vllm!RefusedForCause
  <2> SUFFICES ASSUME pc = "refused" PROVE Vllm!RefusedForCause
    BY DEF Vllm!RefusedForCause
  <2>1. (\E k \in Vllm!Prompts : ~Vllm!Fits(k)) \/ ~Vllm!Samples
    BY <1>1 DEF Vllm!ValidationRight
  <2>2. /\ request.best_of \in Nat \cup {None} /\ request.max_tokens \in Nat \cup {None}
        /\ request.n \in Nat /\ request.echo \in BOOLEAN
        /\ \A k \in Vllm!Prompts : request.prompts[k] \in Nat
        /\ request.prompts[1] \in Nat /\ MaxLength \in Nat /\ None # 0
    BY <1>1, RequestIs
  <2>3. ASSUME NEW k \in Vllm!Prompts, ~Vllm!Fits(k)
        PROVE  Vllm!RefusedForCause
    BY <2>2, <2>3 DEF Vllm!Fits, Vllm!Limit, Vllm!RefusedForCause
  <2>4. CASE ~Vllm!Samples
    BY <2>2, <2>4 DEF Vllm!Samples, Vllm!SamplingLimit, Vllm!Limit, Vllm!RefusedForCause
  <2> QED
    BY <2>1, <2>3, <2>4
<1> QED
  BY <1>2, <1>3 DEF Vllm!LimitsHold, Vllm!ContextIsEnough

\* The places of the choices of a prompt.
LEMMA PlacesOfPrompt ==
  ASSUME NEW n \in Nat \ {0}, NEW k \in Nat \ {0}, NEW i
  PROVE  i \in ((k - 1) * n + 1)..(k * n) <=> \E c \in 1..n : i = c + (k - 1) * n
<1>1. PICK a \in Int : a = (k - 1) * n
  <2>1. (k - 1) * n \in Int
    OBVIOUS
  <2> QED
    BY <2>1
<1>2. k * n = a + n
  BY <1>1
<1>3. i \in (a + 1)..(a + n) <=> \E c \in 1..n : i = c + a
  <2>1. ASSUME i \in (a + 1)..(a + n)
        PROVE  \E c \in 1..n : i = c + a
    <3>1. i - a \in 1..n /\ i = (i - a) + a
      BY <2>1
    <3> QED
      BY <3>1
  <2> QED
    BY <2>1
<1> QED
  BY <1>1, <1>2, <1>3

LEMMA ChoicesMean == Vllm!CompletionsIInv => Vllm!StreamChoicesAgree
<1> SUFFICES ASSUME Vllm!CompletionsIInv, Vllm!Streams, pc = "done", NEW k \in Vllm!Prompts,
                    NEW at, at = ((k - 1) * request.n + 1)..(k * request.n)
             PROVE  {[text |-> sent[i].text, tokens |-> sent[i].tokens,
                      reason |-> sent[i].reason] : i \in at} = {Vllm!Whole[i] : i \in at}
  BY DEF Vllm!StreamChoicesAgree
<1> DEFINE n == request.n
           res == final_res_batch[k]
           shown(o) == [text |-> Vllm!Shown(k, o).text, tokens |-> Vllm!Shown(k, o).tokens,
                        reason |-> o.reason]
           got(i) == [text |-> sent[i].text, tokens |-> sent[i].tokens, reason |-> sent[i].reason]
<1>1. Vllm!ValidationRight /\ Vllm!AnswersRight /\ Vllm!SentRight
  BY DEF Vllm!CompletionsIInv
<1>2. n \in Nat \ {0} /\ k \in Nat \ {0}
  BY <1>1, RequestIs
<1>3. res # <<>> /\ Vllm!GroupRight(res)
  BY <1>1 DEF Vllm!AnswersRight, Vllm!Over
<1>4. ASSUME NEW i
      PROVE  i \in at <=> \E c \in 1..n : i = c + (k - 1) * n
  BY <1>2, PlacesOfPrompt
<1>5. ASSUME NEW c \in 1..n, NEW i, i = c + (k - 1) * n
      PROVE  Vllm!Whole[i] = shown(res[c])
  <2>1. /\ i \in DOMAIN sent /\ ((i - 1) \div n) + 1 = k /\ ((i - 1) % n) + 1 = c
    BY <1>1, <1>5, ChoiceIs DEF Vllm!SentRight
  <2> HIDE DEF n
  <2>2. Vllm!Whole[i] =
          LET k2 == ((i - 1) \div n) + 1
              o == final_res_batch[k2][((i - 1) % n) + 1]
          IN  [text |-> Vllm!Shown(k2, o).text, tokens |-> Vllm!Shown(k2, o).tokens,
               reason |-> o.reason]
    BY <2>1 DEF Vllm!Whole, n
  <2> QED
    BY <2>1, <2>2
<1>6. ASSUME NEW j \in 1..n, NEW i, i = Vllm!Choice(k, res[j])
      PROVE  got(i) = shown(res[j]) /\ i \in at
  <2>1. Vllm!SentWhole(i, k, res[j])
    BY <1>3, <1>6, SentIs
  <2>2. PICK c \in 1..n : c = res[j].index
    BY <1>3 DEF Vllm!GroupRight, Vllm!OutputRight
  <2>3. i = c + (k - 1) * n
    BY <1>6, <2>2 DEF Vllm!Choice
  <2>4. i \in at
    BY <1>4, <2>3
  <2> QED
    BY <2>1, <2>4 DEF Vllm!SentWhole
<1>7. ASSUME NEW i \in at
      PROVE  \E i2 \in at : got(i) = Vllm!Whole[i2]
  <2>1. PICK c \in 1..n : i = c + (k - 1) * n
    BY <1>4
  <2>2. PICK j \in 1..n : res[j].index = c
    BY <1>3 DEF Vllm!GroupRight
  <2>3. i = Vllm!Choice(k, res[j])
    BY <2>1, <2>2 DEF Vllm!Choice
  <2>4. PICK i2 : i2 = j + (k - 1) * n
    OBVIOUS
  <2>5. i2 \in at /\ Vllm!Whole[i2] = shown(res[j])
    BY <1>4, <1>5, <2>4
  <2>6. got(i) = shown(res[j])
    BY <1>6, <2>3
  <2> HIDE DEF got, shown
  <2> QED
    BY <2>5, <2>6
<1>8. ASSUME NEW i \in at
      PROVE  \E i2 \in at : Vllm!Whole[i] = got(i2)
  <2>1. PICK c \in 1..n : i = c + (k - 1) * n
    BY <1>4
  <2>2. Vllm!Whole[i] = shown(res[c])
    BY <1>5, <2>1
  <2>3. PICK i2 : i2 = Vllm!Choice(k, res[c])
    OBVIOUS
  <2>4. got(i2) = shown(res[c]) /\ i2 \in at
    BY <1>6, <2>3
  <2> HIDE DEF got, shown
  <2> QED
    BY <2>2, <2>4
<1>9. {got(i) : i \in at} = {Vllm!Whole[i] : i \in at}
  <2> DEFINE whole(i) == Vllm!Whole[i]
  <2>1. \A i \in at : \E i2 \in at : got(i) = whole(i2)
    BY <1>7
  <2>2. \A i \in at : \E i2 \in at : whole(i) = got(i2)
    BY <1>8
  <2>3. {got(i) : i \in at} = {whole(i) : i \in at}
    <3> HIDE DEF got, whole
    <3> QED
      BY <2>1, <2>2
  <2> QED
    BY <2>3
<1> QED
  BY <1>9

LEMMA UsagesMean == Vllm!CompletionsIInv => Vllm!UsagesAgree
<1> SUFFICES ASSUME Vllm!CompletionsIInv, Vllm!Streams, pc = "done"
             PROVE  Vllm!UsagesAgree
  BY DEF Vllm!UsagesAgree
<1>1. Vllm!ValidationRight /\ Vllm!AnswersRight /\ Vllm!SentRight
  BY DEF Vllm!CompletionsIInv
<1>2. PICK n \in Nat \ {0} : n = request.n
  BY <1>1, RequestIs
<1>3. PICK K : K = Vllm!Prompts
  OBVIOUS
<1>4. /\ IsFiniteSet(K) /\ IsFiniteSet(1..n) /\ K = DOMAIN request.prompts
      /\ \A k \in K : request.prompts[k] \in Nat
  <2>1. K = 1..Len(request.prompts) /\ Len(request.prompts) \in Int
    BY <1>1, <1>3, RequestIs
  <2>2. IsFiniteSet(K) /\ IsFiniteSet(1..n)
    BY <2>1, FS_Interval
  <2> QED
    BY <1>1, <1>3, <2>2, RequestIs DEF Vllm!Prompts
<1>5. ASSUME NEW k \in K
      PROVE  /\ final_res_batch[k] # <<>> /\ Vllm!GroupRight(final_res_batch[k])
             /\ \A j \in 1..n : final_res_batch[k][j].reason # None
  BY <1>1, <1>2, <1>3 DEF Vllm!AnswersRight, Vllm!Over
<1>6. ASSUME NEW k \in K, NEW j \in 1..n, NEW i, i = Vllm!Choice(k, final_res_batch[k][j])
      PROVE  /\ i \in DOMAIN sent /\ ((i - 1) \div request.n) + 1 = k
             /\ ((i - 1) % request.n) + 1 = final_res_batch[k][j].index
             /\ sent[i].usage.completion = final_res_batch[k][j].tokens
             /\ sent[i].usage.prompt = request.prompts[k]
  <2>1. PICK o : o = final_res_batch[k][j]
    OBVIOUS
  <2>2. /\ Vllm!SentWhole(i, k, o) /\ o.reason # None
        /\ i \in DOMAIN sent /\ ((i - 1) \div request.n) + 1 = k
        /\ ((i - 1) % request.n) + 1 = o.index
    BY <1>2, <1>3, <1>5, <1>6, <2>1, SentIs
  <2>3. sent[i].usage = Vllm!Usage(k, o)
    BY <2>2 DEF Vllm!SentWhole
  <2> QED
    BY <2>1, <2>2, <2>3 DEF Vllm!Usage
<1>7. ASSUME NEW i \in DOMAIN sent
      PROVE  \E k \in K, j \in 1..n : i = Vllm!Choice(k, final_res_batch[k][j])
  <2>1. PICK k \in Vllm!Prompts, c \in 1..request.n : i = c + (k - 1) * request.n
    BY PlaceIs
  <2>2. PICK j \in 1..n : final_res_batch[k][j].index = c
    BY <1>2, <1>3, <1>5, <2>1 DEF Vllm!GroupRight
  <2>3. i = Vllm!Choice(k, final_res_batch[k][j])
    BY <2>1, <2>2 DEF Vllm!Choice
  <2> QED
    BY <1>3, <2>3
<1>8. Vllm!Total([i \in Vllm!AllChoices |-> sent[i].usage.completion]) = Vllm!WholeUsage.completion
  <2> DEFINE f == [at \in K \X (1..n) |-> final_res_batch[at[1]][at[2]].tokens]
             g == [i \in DOMAIN sent |-> sent[i].usage.completion]
             b == [at \in K \X (1..n) |->
                     Vllm!Choice(at[1], final_res_batch[at[1]][at[2]])]
  <2>1. IsFiniteSet(DOMAIN f) /\ DOMAIN f = K \X (1..n) /\ DOMAIN g = DOMAIN sent
    BY <1>4, FS_Product
  <2>2. ASSUME NEW at \in K \X (1..n)
        PROVE  f[at] \in Nat /\ b[at] \in DOMAIN sent /\ g[b[at]] = f[at]
    <3>1. PICK k \in K, j \in 1..n : at = <<k, j>>
      OBVIOUS
    <3>2. f[at] = final_res_batch[k][j].tokens /\ b[at] = Vllm!Choice(k, final_res_batch[k][j])
      BY <3>1
    <3>3. final_res_batch[k][j].tokens \in Nat
      BY <1>2, <1>5 DEF Vllm!GroupRight, Vllm!OutputRight
    <3>4. b[at] \in DOMAIN sent /\ sent[b[at]].usage.completion = f[at]
      BY <1>6, <3>2
    <3> HIDE DEF f, b
    <3> QED
      BY <3>2, <3>3, <3>4
  <2>3. ASSUME NEW x \in K \X (1..n), NEW y \in K \X (1..n), b[x] = b[y]
        PROVE  x = y
    <3>1. PICK k \in K, j \in 1..n : x = <<k, j>>
      OBVIOUS
    <3>2. PICK k2 \in K, j2 \in 1..n : y = <<k2, j2>>
      OBVIOUS
    <3>3. PICK i : i = Vllm!Choice(k, final_res_batch[k][j])
                   /\ i = Vllm!Choice(k2, final_res_batch[k2][j2])
      BY <2>3, <3>1, <3>2
    <3>4. /\ ((i - 1) \div request.n) + 1 = k
          /\ ((i - 1) % request.n) + 1 = final_res_batch[k][j].index
      <4>1. i = Vllm!Choice(k, final_res_batch[k][j])
        BY <3>3
      <4> QED
        BY <1>6, <4>1
    <3>5. /\ ((i - 1) \div request.n) + 1 = k2
          /\ ((i - 1) % request.n) + 1 = final_res_batch[k2][j2].index
      <4>1. i = Vllm!Choice(k2, final_res_batch[k2][j2])
        BY <3>3
      <4> QED
        BY <1>6, <4>1
    <3>6. k = k2
      BY <3>4, <3>5
    <3>7. final_res_batch[k][j].index = final_res_batch[k][j2].index
      BY <3>4, <3>5, <3>6
    <3>8. j = j2
      BY <1>2, <1>5, <3>7 DEF Vllm!GroupRight
    <3> QED
      BY <3>1, <3>2, <3>6, <3>8
  <2>4. ASSUME NEW i \in DOMAIN sent
        PROVE  \E at \in K \X (1..n) : b[at] = i
    <3>1. PICK k \in K, j \in 1..n : i = Vllm!Choice(k, final_res_batch[k][j])
      BY <1>7
    <3>2. <<k, j>> \in K \X (1..n) /\ b[<<k, j>>] = i
      BY <3>1
    <3> HIDE DEF b
    <3> QED
      BY <3>2
  <2>5. b \in Bijection(DOMAIN f, DOMAIN g)
    <3>1. b \in [K \X (1..n) -> DOMAIN sent]
      BY <2>2
    <3> HIDE DEF b
    <3> QED
      BY <2>1, <2>3, <2>4, <3>1, Fun_IsBij
  <2>6. /\ Vllm!AllChoices = DOMAIN sent
        /\ Vllm!WholeUsage.completion = Vllm!Total(f)
    BY <1>2, <1>3 DEF Vllm!AllChoices, Vllm!WholeUsage
  <2>7. Vllm!Total(g) = Vllm!Total(f)
    <3>1. \A x \in DOMAIN f : f[x] \in Nat /\ g[b[x]] = f[x]
      BY <2>1, <2>2
    <3> HIDE DEF f, g, b
    <3> QED
      BY <2>1, <2>5, <3>1, TotalMoved
  <2> QED
    BY <2>6, <2>7
<1>9. Vllm!Total([i \in Vllm!AllChoices |-> sent[i].usage.prompt]) = request.n * Vllm!WholeUsage.prompt
  <2> DEFINE f == request.prompts
             g == [i \in DOMAIN sent |-> sent[i].usage.prompt]
             place(c, k) == c + (k - 1) * request.n
             b == [at \in (1..n) \X K |-> place(at[1], at[2])]
  <2>1. ASSUME NEW c \in 1..n, NEW k \in K
        PROVE  /\ place(c, k) \in DOMAIN sent
               /\ ((place(c, k) - 1) \div request.n) + 1 = k
               /\ ((place(c, k) - 1) % request.n) + 1 = c
               /\ g[place(c, k)] = f[k] /\ b[<<c, k>>] = place(c, k)
    <3>0. PICK i : i = place(c, k)
      OBVIOUS
    <3>1. PICK j \in 1..n : final_res_batch[k][j].index = c
      BY <1>2, <1>5 DEF Vllm!GroupRight
    <3>2. i = Vllm!Choice(k, final_res_batch[k][j])
      BY <3>0, <3>1 DEF Vllm!Choice
    <3>3. /\ i \in DOMAIN sent /\ ((i - 1) \div request.n) + 1 = k
          /\ ((i - 1) % request.n) + 1 = c /\ sent[i].usage.prompt = request.prompts[k]
      BY <1>6, <3>1, <3>2
    <3>4. g[i] = f[k]
      BY <3>3
    <3>5. b[<<c, k>>] = i
      BY <3>0
    <3> HIDE DEF b, g, f, place
    <3> QED
      BY <3>0, <3>3, <3>4, <3>5
  <2>2. ASSUME NEW x \in (1..n) \X K, NEW y \in (1..n) \X K, b[x] = b[y]
        PROVE  x = y
    <3>1. PICK c \in 1..n, k \in K : x = <<c, k>>
      OBVIOUS
    <3>2. PICK c2 \in 1..n, k2 \in K : y = <<c2, k2>>
      OBVIOUS
    <3> HIDE DEF b, g, f, place
    <3>3. PICK i, i2 : i = place(c, k) /\ i2 = place(c2, k2)
      OBVIOUS
    <3>4. b[x] = i /\ ((i - 1) \div request.n) + 1 = k /\ ((i - 1) % request.n) + 1 = c
      BY <2>1, <3>1, <3>3
    <3>5. b[y] = i2 /\ ((i2 - 1) \div request.n) + 1 = k2 /\ ((i2 - 1) % request.n) + 1 = c2
      BY <2>1, <3>2, <3>3
    <3>6. i = i2
      BY <2>2, <3>4, <3>5
    <3>7. k = k2 /\ c = c2
      BY <3>4, <3>5, <3>6
    <3> QED
      BY <3>1, <3>2, <3>7
  <2>3. ASSUME NEW i \in DOMAIN sent
        PROVE  \E at \in (1..n) \X K : b[at] = i
    <3>1. PICK k \in Vllm!Prompts, c \in 1..request.n : i = c + (k - 1) * request.n
      BY PlaceIs
    <3>2. k \in K /\ c \in 1..n
      BY <1>2, <1>3, <3>1
    <3>3. b[<<c, k>>] = place(c, k) /\ <<c, k>> \in (1..n) \X K /\ i = place(c, k)
      BY <2>1, <3>1, <3>2
    <3> HIDE DEF b
    <3> QED
      BY <3>3
  <2>4. ASSUME NEW at \in (1..n) \X K
        PROVE  b[at] \in DOMAIN sent
    <3>1. PICK c \in 1..n, k \in K : at = <<c, k>>
      OBVIOUS
    <3> HIDE DEF b, g, f, place
    <3> QED
      BY <2>1, <3>1
  <2>5. b \in Bijection((1..n) \X DOMAIN f, DOMAIN g)
    <3>1. b \in [(1..n) \X K -> DOMAIN sent] /\ DOMAIN f = K /\ DOMAIN g = DOMAIN sent
      BY <1>4, <2>4
    <3> HIDE DEF b, f, g
    <3> QED
      BY <2>2, <2>3, <3>1, Fun_IsBij
  <2>6. \A c \in 1..n, k \in DOMAIN f : g[b[<<c, k>>]] = f[k]
    <3> SUFFICES ASSUME NEW c \in 1..n, NEW k \in K PROVE g[b[<<c, k>>]] = f[k]
      BY <1>4
    <3> HIDE DEF b, f, g, place
    <3> QED
      BY <2>1
  <2>7. Vllm!Total(g) = n * Vllm!Total(f)
    <3>1. IsFiniteSet(DOMAIN f) /\ \A x \in DOMAIN f : f[x] \in Nat
      BY <1>4
    <3> HIDE DEF f, g, b
    <3> QED
      BY <2>5, <2>6, <3>1, TotalTimes
  <2>8. Vllm!AllChoices = DOMAIN sent /\ Vllm!WholeUsage.prompt = Vllm!Total(f)
    BY DEF Vllm!AllChoices, Vllm!WholeUsage
  <2> QED
    BY <1>2, <2>7, <2>8
<1> QED
  BY <1>8, <1>9 DEF Vllm!UsagesAgree

\* Whatever a request asks of the engine, and in whatever order the engine answers
\* the prompts and ranks the choices: the pieces of a stream add up to the texts,
\* tokens, finish reasons and usage of the answer that is not streamed, and the
\* limit on the tokens keeps to the context and refuses nothing else.
THEOREM StreamsAddUp == ServerSpec => []CompletionsAgree
<1>1. Vllm!CompletionsIInv => CompletionsAgree
  BY TypeMeans, StreamMeans, ChoicesMean, UsagesMean, LimitsMean
  DEF CompletionsAgree, Vllm!StreamAgrees
<1> QED
  BY <1>1, CompletionsInvariant, PTL DEF ServerSpec
=============================================================================
