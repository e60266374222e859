---------------------------- MODULE SequenceFacts ----------------------------
(***************************************************************************)
(* What taking from the front of a sequence, joining sequences and cutting *)
(* them does, for sequences of any length: the arithmetic of the buffer of *)
(* a stream, for ReadStreamProofs and WriteStreamProofs.                   *)
(***************************************************************************)
EXTENDS Integers, Sequences, SequencesExt, SequenceTheorems, WellFoundedInduction, TLAPS

\* A set of numbers has a smallest one.
LEMMA Least ==
  ASSUME NEW H \in SUBSET Nat, H # {}
  PROVE  \E k \in H : \A l \in H : k <= l
<1>1. PICK k \in H : \A l \in H : ~(<<l, k>> \in OpToRel(<, Nat))
  BY NatLessThanWellFounded, WFMin
<1>2. \A l \in H : ~(l < k)
  BY <1>1 DEF OpToRel
<1>3. QED BY <1>2

\* Bytes in the order of their places in the stream, none twice.
Ascending(s) == \A i, j \in DOMAIN s : i < j => s[i] < s[j]

\* A sequence of elements of a set is one over that set.
LEMMA ElementsFacts ==
  ASSUME NEW S, NEW T, NEW s \in Seq(S), \A i \in 1..Len(s) : s[i] \in T
  PROVE  s \in Seq(T)
<1>1. Len(s) \in Nat /\ s \in [1..Len(s) -> S]
  BY LenProperties
<1>2. s \in [1..Len(s) -> T]
  BY <1>1
<1>3. QED BY <1>1, <1>2, SeqDef

\* What is left of a sequence behind its first o elements.
LEMMA RestFacts ==
  ASSUME NEW S, NEW b \in Seq(S), NEW o \in 0..Len(b)
  PROVE  /\ SubSeq(b, o + 1, Len(b)) \in Seq(S)
         /\ Len(SubSeq(b, o + 1, Len(b))) = Len(b) - o
         /\ \A i \in 1..Len(b) - o : SubSeq(b, o + 1, Len(b))[i] = b[o + i]
<1>1. Len(b) \in Nat
  BY LenProperties
<1>2. \A i \in o + 1 .. Len(b) : b[i] \in S
  BY <1>1, ElementOfSeq
<1> DEFINE m == o + 1
           n == Len(b)
<1>3. m \in Int /\ n \in Int /\ \A i \in m..n : b[i] \in S
  BY <1>1, <1>2
<1>4. n - m + 1 = Len(b) - o /\ (IF m <= n THEN n - m + 1 ELSE 0) = Len(b) - o
  BY <1>1
<1>5. \A i \in Int : m + i - 1 = o + i
  OBVIOUS
<1> HIDE DEF m, n
<1>6. /\ SubSeq(b, m, n) \in Seq(S)
      /\ Len(SubSeq(b, m, n)) = IF m <= n THEN n - m + 1 ELSE 0
      /\ \A i \in 1 .. n - m + 1 : SubSeq(b, m, n)[i] = b[m + i - 1]
  BY <1>3, SubSeqProperties
<1>7. SubSeq(b, m, n) \in Seq(S) /\ Len(SubSeq(b, m, n)) = Len(b) - o
  BY <1>4, <1>6
<1>8. ASSUME NEW i \in 1..Len(b) - o PROVE SubSeq(b, m, n)[i] = b[o + i]
  <2>1. i \in Int /\ i \in 1 .. n - m + 1
    BY <1>1, <1>4
  <2>2. SubSeq(b, m, n)[i] = b[m + i - 1]
    BY <1>6, <2>1
  <2>3. QED BY <1>5, <2>1, <2>2
<1>9. QED
  <2>1. \A i \in 1..Len(b) - o : SubSeq(b, m, n)[i] = b[o + i]
    BY <1>8
  <2>2. QED BY <1>7, <2>1 DEF m, n

\* The first k elements.
LEMMA TakeFacts ==
  ASSUME NEW S, NEW u \in Seq(S), NEW k \in 0..Len(u)
  PROVE  /\ SubSeq(u, 1, k) \in Seq(S)
         /\ Len(SubSeq(u, 1, k)) = k
         /\ \A i \in 1..k : SubSeq(u, 1, k)[i] = u[i]
<1>1. Len(u) \in Nat
  BY LenProperties
<1>2. \A i \in 1..k : u[i] \in S
  BY <1>1, ElementOfSeq
<1>3. /\ SubSeq(u, 1, k) \in Seq(S)
      /\ Len(SubSeq(u, 1, k)) = IF 1 <= k THEN k - 1 + 1 ELSE 0
      /\ \A i \in 1 .. k - 1 + 1 : SubSeq(u, 1, k)[i] = u[1 + i - 1]
  BY <1>1, <1>2, SubSeqProperties
<1>4. QED BY <1>1, <1>3

\* What is taken and what is left make up what there was.
LEMMA AdvanceFacts ==
  ASSUME NEW S, NEW b \in Seq(S), NEW o \in 0..Len(b), NEW k \in 0..Len(b) - o
  PROVE  SubSeq(SubSeq(b, o + 1, Len(b)), 1, k) \o SubSeq(b, o + k + 1, Len(b))
           = SubSeq(b, o + 1, Len(b))
<1> DEFINE u == SubSeq(b, o + 1, Len(b))
           f == SubSeq(u, 1, k)
           r == SubSeq(b, (o + k) + 1, Len(b))
<1>1. Len(b) \in Nat /\ o + k \in 0..Len(b)
  BY LenProperties
<1>2. u \in Seq(S) /\ Len(u) = Len(b) - o /\ \A i \in 1..Len(b) - o : u[i] = b[o + i]
  BY RestFacts
<1>3. r \in Seq(S) /\ Len(r) = Len(b) - (o + k) /\ \A i \in 1..Len(b) - (o + k) : r[i] = b[(o + k) + i]
  BY <1>1, RestFacts
<1> HIDE DEF u
<1>4. f \in Seq(S) /\ Len(f) = k /\ \A i \in 1..k : f[i] = u[i]
  BY <1>2, TakeFacts
<1> HIDE DEF f, r
<1>5. /\ f \o r \in Seq(S)
      /\ Len(f \o r) = Len(f) + Len(r)
      /\ \A i \in 1 .. Len(f) + Len(r) : (f \o r)[i] = IF i <= Len(f) THEN f[i] ELSE r[i - Len(f)]
  BY <1>3, <1>4, ConcatProperties
<1>6. Len(f \o r) = Len(u)
  BY <1>1, <1>2, <1>3, <1>4, <1>5
<1>7. ASSUME NEW i \in 1..Len(f \o r) PROVE (f \o r)[i] = u[i]
  <2>1. CASE i <= k
    BY <2>1, <1>1, <1>3, <1>4, <1>5
  <2>2. CASE i > k
    <3>1. (f \o r)[i] = r[i - k] /\ i - k \in 1..Len(b) - (o + k) /\ (o + k) + (i - k) = o + i
      BY <2>2, <1>1, <1>3, <1>4, <1>5
    <3>2. i \in 1..Len(b) - o
      BY <1>2, <1>6
    <3>3. QED BY <3>1, <3>2, <1>2, <1>3
  <2>3. QED BY <2>1, <2>2, <1>1, <1>3, <1>4, <1>5
<1>8. f \o r = u
  BY <1>2, <1>5, <1>6, <1>7, SeqEqual
<1>9. QED BY <1>8 DEF u, f, r

\* The elements of two sequences that are joined.
LEMMA JoinFacts ==
  ASSUME NEW S, NEW s \in Seq(S), NEW t \in Seq(S)
  PROVE  /\ s \o t \in Seq(S) /\ Len(s \o t) = Len(s) + Len(t)
         /\ \A i \in 1..Len(s) : (s \o t)[i] = s[i]
         /\ \A i \in 1..Len(t) : (s \o t)[Len(s) + i] = t[i]
         /\ ToSet(s \o t) = ToSet(s) \cup ToSet(t)
<1>1. Len(s) \in Nat /\ Len(t) \in Nat /\ DOMAIN s = 1..Len(s) /\ DOMAIN t = 1..Len(t)
  BY LenProperties
<1>2. /\ s \o t \in Seq(S) /\ Len(s \o t) = Len(s) + Len(t)
      /\ \A i \in 1 .. Len(s) + Len(t) : (s \o t)[i] = IF i <= Len(s) THEN s[i] ELSE t[i - Len(s)]
  BY ConcatProperties
<1>3. DOMAIN (s \o t) = 1 .. Len(s) + Len(t)
  BY <1>2, LenProperties
<1>4. \A i \in 1..Len(s) : i \in 1..Len(s) + Len(t) /\ (s \o t)[i] = s[i]
  BY <1>1, <1>2
<1>5. ASSUME NEW i \in 1..Len(t) PROVE Len(s) + i \in 1..Len(s) + Len(t) /\ (s \o t)[Len(s) + i] = t[i]
  <2>1. Len(s) + i \in 1..Len(s) + Len(t) /\ ~(Len(s) + i <= Len(s)) /\ (Len(s) + i) - Len(s) = i
    BY <1>1
  <2>2. QED BY <2>1, <1>2
<1>6. ASSUME NEW x \in ToSet(s \o t) PROVE x \in ToSet(s) \cup ToSet(t)
  <2>1. PICK i \in 1..Len(s) + Len(t) : (s \o t)[i] = x
    BY <1>3 DEF ToSet
  <2>2. CASE i <= Len(s)
    BY <2>1, <2>2, <1>1, <1>2 DEF ToSet
  <2>3. CASE i > Len(s)
    <3>1. i - Len(s) \in 1..Len(t) /\ x = t[i - Len(s)]
      BY <2>1, <2>3, <1>1, <1>2
    <3>2. QED BY <3>1, <1>1 DEF ToSet
  <2>4. QED BY <2>2, <2>3, <1>1
<1>7. ASSUME NEW x \in ToSet(s) \cup ToSet(t) PROVE x \in ToSet(s \o t)
  BY <1>1, <1>3, <1>4, <1>5 DEF ToSet
<1>8. QED BY <1>2, <1>4, <1>5, <1>6, <1>7

\* The elements of a concatenation are those of its two parts.
LEMMA JoinSet ==
  ASSUME NEW S, NEW s \in Seq(S), NEW t \in Seq(S)
  PROVE  ToSet(s \o t) = ToSet(s) \cup ToSet(t)
BY JoinFacts

\* The elements of an ascending sequence that is cut in two are on one side only.
LEMMA CutFacts ==
  ASSUME NEW n \in Nat, NEW s \in Seq(0..n), NEW t \in Seq(0..n), Ascending(s \o t)
  PROVE  Ascending(s) /\ Ascending(t) /\ ToSet(s) \cap ToSet(t) = {}
<1>1. Len(s) \in Nat /\ Len(t) \in Nat /\ DOMAIN s = 1..Len(s) /\ DOMAIN t = 1..Len(t)
  BY LenProperties
<1>2. /\ s \o t \in Seq(0..n) /\ Len(s \o t) = Len(s) + Len(t)
      /\ \A i \in 1..Len(s) : (s \o t)[i] = s[i]
      /\ \A i \in 1..Len(t) : (s \o t)[Len(s) + i] = t[i]
  BY JoinFacts
<1>3. DOMAIN (s \o t) = 1 .. Len(s) + Len(t)
  BY <1>2, LenProperties
<1>4. ASSUME NEW i \in DOMAIN s, NEW j \in DOMAIN s, i < j PROVE s[i] < s[j]
  <2>1. i \in DOMAIN (s \o t) /\ j \in DOMAIN (s \o t)
    BY <1>1, <1>3
  <2>2. (s \o t)[i] < (s \o t)[j]
    BY <2>1, <1>4 DEF Ascending
  <2>3. QED BY <2>2, <1>1, <1>2
<1>5. ASSUME NEW i \in 1..Len(s), NEW j \in 1..Len(t), s[i] = t[j] PROVE FALSE
  <2>1. i \in DOMAIN (s \o t) /\ Len(s) + j \in DOMAIN (s \o t) /\ i < Len(s) + j
    BY <1>1, <1>3
  <2>2. s[i] < t[j]
    BY <2>1, <1>2 DEF Ascending
  <2>3. s[i] \in 0..n
    BY ElementOfSeq
  <2>4. QED BY <2>2, <2>3, <1>5
<1>6. ASSUME NEW i \in DOMAIN t, NEW j \in DOMAIN t, i < j PROVE t[i] < t[j]
  <2>1. Len(s) + i \in DOMAIN (s \o t) /\ Len(s) + j \in DOMAIN (s \o t) /\ Len(s) + i < Len(s) + j
    BY <1>1, <1>3, <1>6
  <2>2. (s \o t)[Len(s) + i] < (s \o t)[Len(s) + j]
    BY <2>1 DEF Ascending
  <2>3. QED BY <2>2, <1>1, <1>2
<1>7. QED BY <1>1, <1>4, <1>5, <1>6 DEF ToSet, Ascending

\* InsertAt() makes a sequence one longer.
LEMMA InsertFacts ==
  ASSUME NEW S, NEW s \in Seq(S), NEW i \in 1..Len(s) + 1, NEW e \in S
  PROVE  InsertAt(s, i, e) \in Seq(S) /\ Len(InsertAt(s, i, e)) = Len(s) + 1
<1> DEFINE f == SubSeq(s, 1, i - 1)
           r == SubSeq(s, i, Len(s))
<1>1. Len(s) \in Nat
  BY LenProperties
<1>2. f \in Seq(S) /\ Len(f) = i - 1
  BY <1>1, TakeFacts
<1>3. r \in Seq(S) /\ Len(r) = Len(s) - (i - 1)
  <2>1. i - 1 \in 0..Len(s) /\ (i - 1) + 1 = i
    BY <1>1
  <2>2. QED BY <2>1, RestFacts
<1> HIDE DEF f, r
<1>4. <<e>> \in Seq(S) /\ Len(<<e>>) = 1
  OBVIOUS
<1> DEFINE fe == f \o <<e>>
<1>5. fe \in Seq(S) /\ Len(fe) = (i - 1) + 1
  BY <1>2, <1>4, ConcatProperties
<1> HIDE DEF fe
<1>6. fe \o r \in Seq(S) /\ Len(fe \o r) = Len(fe) + Len(r)
  BY <1>3, <1>5, ConcatProperties
<1>7. Len(fe \o r) = Len(s) + 1
  BY <1>1, <1>3, <1>5, <1>6
<1>8. InsertAt(s, i, e) = fe \o r
  BY DEF InsertAt, fe, f, r
<1>9. QED BY <1>6, <1>7, <1>8

\* What is joined to a sequence is joined to its rest.
LEMMA RestOfJoin ==
  ASSUME NEW S, NEW b \in Seq(S), NEW t \in Seq(S), NEW o \in 0..Len(b)
  PROVE  SubSeq(b \o t, o + 1, Len(b \o t)) = SubSeq(b, o + 1, Len(b)) \o t
<1> DEFINE bt == b \o t
           r  == SubSeq(bt, o + 1, Len(bt))
           u  == SubSeq(b, o + 1, Len(b))
           ut == u \o t
<1>1. Len(b) \in Nat /\ Len(t) \in Nat
  BY LenProperties
<1>2. /\ bt \in Seq(S) /\ Len(bt) = Len(b) + Len(t)
      /\ \A i \in 1..Len(b) : bt[i] = b[i]
      /\ \A i \in 1..Len(t) : bt[Len(b) + i] = t[i]
  BY JoinFacts
<1> HIDE DEF bt
<1>3. o \in 0..Len(bt)
  BY <1>1, <1>2
<1>4. /\ r \in Seq(S) /\ Len(r) = Len(bt) - o
      /\ \A i \in 1..Len(bt) - o : r[i] = bt[o + i]
  BY <1>2, <1>3, RestFacts
<1>5. /\ u \in Seq(S) /\ Len(u) = Len(b) - o
      /\ \A i \in 1..Len(b) - o : u[i] = b[o + i]
  BY RestFacts
<1> HIDE DEF r, u
<1>6. /\ ut \in Seq(S) /\ Len(ut) = Len(u) + Len(t)
      /\ \A i \in 1..Len(u) : ut[i] = u[i]
      /\ \A i \in 1..Len(t) : ut[Len(u) + i] = t[i]
  <2>1. ASSUME NEW x \in Seq(S)
        PROVE  /\ x \o t \in Seq(S) /\ Len(x \o t) = Len(x) + Len(t)
               /\ \A i \in 1..Len(x) : (x \o t)[i] = x[i]
               /\ \A i \in 1..Len(t) : (x \o t)[Len(x) + i] = t[i]
    BY JoinFacts
  <2>2. QED BY <1>5, <2>1
<1> HIDE DEF ut
<1>7. Len(r) = Len(ut)
  BY <1>1, <1>2, <1>4, <1>5, <1>6
<1>8. ASSUME NEW i \in 1..Len(r) PROVE r[i] = ut[i]
  <2>1. r[i] = bt[o + i] /\ i \in Nat \ {0} /\ i <= (Len(b) + Len(t)) - o
    BY <1>1, <1>2, <1>4
  <2>2. CASE i <= Len(b) - o
    <3>1. o + i \in 1..Len(b) /\ i \in 1..Len(b) - o
      BY <2>1, <2>2, <1>1
    <3>2. QED BY <3>1, <2>1, <1>2, <1>5, <1>6
  <2>3. CASE i > Len(b) - o
    <3>1. PICK j \in Int : j = i - (Len(b) - o)
      BY <1>1, <2>1
    <3>2. j \in 1..Len(t) /\ o + i = Len(b) + j /\ i = Len(u) + j
      BY <3>1, <2>1, <2>3, <1>1, <1>5
    <3>3. QED BY <3>2, <2>1, <1>2, <1>6
  <2>4. QED BY <2>1, <2>2, <2>3, <1>1
<1>9. r = ut
  BY <1>4, <1>6, <1>7, <1>8, SeqEqual
<1>10. QED BY <1>9 DEF r, ut, u, bt

\* A sequence continues to ascend with greater elements.
LEMMA AscendingJoin ==
  ASSUME NEW n \in Nat, NEW m \in Nat, NEW s \in Seq(0..m), NEW t \in Seq(0..m), Ascending(s),
         Ascending(t), \A x \in ToSet(s) : x <= n, \A x \in ToSet(t) : x > n
  PROVE  Ascending(s \o t)
<1>1. Len(s) \in Nat /\ Len(t) \in Nat /\ DOMAIN s = 1..Len(s) /\ DOMAIN t = 1..Len(t)
  BY LenProperties
<1>2. /\ s \o t \in Seq(0..m) /\ Len(s \o t) = Len(s) + Len(t)
      /\ \A i \in 1..Len(s) : (s \o t)[i] = s[i]
      /\ \A i \in 1..Len(t) : (s \o t)[Len(s) + i] = t[i]
  BY JoinFacts
<1>3. DOMAIN (s \o t) = 1 .. Len(s) + Len(t)
  BY <1>2, LenProperties
<1>4. SUFFICES ASSUME NEW i \in 1 .. Len(s) + Len(t), NEW j \in 1 .. Len(s) + Len(t), i < j
               PROVE  (s \o t)[i] < (s \o t)[j]
  BY <1>3 DEF Ascending
<1>5. CASE j <= Len(s)
  <2>1. i \in 1..Len(s) /\ j \in 1..Len(s)
    BY <1>4, <1>5, <1>1
  <2>2. QED BY <2>1, <1>1, <1>2, <1>4 DEF Ascending
<1>6. CASE i > Len(s)
  <2>0. i - Len(s) \in Int /\ j - Len(s) \in Int
    BY <1>1
  <2>1. PICK k \in Int, l \in Int : k = i - Len(s) /\ l = j - Len(s)
    BY <2>0, Zenon
  <2>2. k \in 1..Len(t) /\ l \in 1..Len(t) /\ k < l /\ i = Len(s) + k /\ j = Len(s) + l
    BY <2>1, <1>4, <1>6, <1>1
  <2>3. (s \o t)[i] = t[k] /\ (s \o t)[j] = t[l]
    BY <2>2, <1>2
  <2>4. QED BY <2>2, <2>3, <1>1 DEF Ascending
<1>7. CASE i <= Len(s) /\ j > Len(s)
  <2>0. j - Len(s) \in Int
    BY <1>1
  <2>1. PICK l \in Int : l = j - Len(s)
    BY <2>0, Zenon
  <2>2. i \in 1..Len(s) /\ l \in 1..Len(t) /\ j = Len(s) + l
    BY <2>1, <1>7, <1>1
  <2>3. (s \o t)[i] = s[i] /\ (s \o t)[j] = t[l]
    BY <2>2, <1>2
  <2>4. s[i] \in 0..m /\ t[l] \in 0..m
    BY <2>2, ElementOfSeq
  <2>5. s[i] <= n /\ t[l] > n
    BY <2>2, <1>1 DEF ToSet
  <2>6. QED BY <2>3, <2>4, <2>5
<1>8. QED BY <1>1, <1>5, <1>6, <1>7

\* A sequence without the part in its middle, and the elements that go with it.
LEMMA MiddleFacts ==
  ASSUME NEW n \in Nat, NEW s \in Seq(0..n), NEW t \in Seq(0..n), NEW u \in Seq(0..n),
         Ascending((s \o t) \o u)
  PROVE  /\ Ascending(s \o u)
         /\ ToSet(s \o u) = ToSet((s \o t) \o u) \ ToSet(t)
<1> DEFINE st  == s \o t
           su  == s \o u
           stu == st \o u
<1>0. \A x, y \in Seq(0..n) : /\ x \o y \in Seq(0..n) /\ Len(x \o y) = Len(x) + Len(y)
                              /\ \A i \in 1..Len(x) : (x \o y)[i] = x[i]
                              /\ \A i \in 1..Len(y) : (x \o y)[Len(x) + i] = y[i]
                              /\ ToSet(x \o y) = ToSet(x) \cup ToSet(y)
  BY JoinFacts
<1>1. /\ Len(s) \in Nat /\ Len(t) \in Nat /\ Len(u) \in Nat
      /\ DOMAIN s = 1..Len(s) /\ DOMAIN t = 1..Len(t) /\ DOMAIN u = 1..Len(u)
  BY LenProperties
<1>2. st \in Seq(0..n) /\ Len(st) = Len(s) + Len(t) /\ ToSet(st) = ToSet(s) \cup ToSet(t)
  BY <1>0
<1>3. su \in Seq(0..n) /\ Len(su) = Len(s) + Len(u) /\ ToSet(su) = ToSet(s) \cup ToSet(u)
  BY <1>0
<1>4. Ascending(st) /\ Ascending(u) /\ ToSet(st) \cap ToSet(u) = {}
  BY <1>2, CutFacts
<1>5. Ascending(s) /\ ToSet(s) \cap ToSet(t) = {}
  BY <1>4, CutFacts
<1>6. ToSet(stu) = (ToSet(s) \cup ToSet(t)) \cup ToSet(u)
  <2> HIDE DEF st
  <2>1. QED BY <1>0, <1>2
<1>7. ToSet(su) = ToSet(stu) \ ToSet(t)
  BY <1>2, <1>3, <1>4, <1>5, <1>6
<1>8. ASSUME NEW i \in 1..Len(s), NEW l \in 1..Len(u) PROVE s[i] < u[l]
  <2>1. i \in 1..Len(st) /\ st[i] = s[i]
    BY <1>0, <1>1, <1>2
  <2> HIDE DEF st
  <2>2. stu[i] = st[i] /\ stu[Len(st) + l] = u[l] /\ Len(stu) = Len(st) + Len(u) /\ stu \in Seq(0..n)
    BY <2>1, <1>0, <1>2
  <2>3. DOMAIN stu = 1..Len(stu)
    BY <2>2, LenProperties
  <2>4. i \in DOMAIN stu /\ Len(st) + l \in DOMAIN stu /\ i < Len(st) + l
    <3>1. Len(st) \in Nat
      BY <1>1, <1>2
    <3>2. DOMAIN stu = 1..Len(st) + Len(u)
      BY <2>2, <2>3
    <3> HIDE DEF stu
    <3>3. i \in 1..Len(st) + Len(u) /\ Len(st) + l \in 1..Len(st) + Len(u) /\ i < Len(st) + l
      BY <3>1, <2>1, <1>1
    <3>4. QED BY <3>2, <3>3
  <2>5. Ascending(stu)
    BY DEF st
  <2>6. stu[i] < stu[Len(st) + l]
    BY <2>4, <2>5 DEF Ascending
  <2>7. QED BY <2>1, <2>2, <2>6
<1>9. DOMAIN su = 1 .. Len(s) + Len(u)
  BY <1>3, LenProperties
<1>10. SUFFICES ASSUME NEW i \in 1 .. Len(s) + Len(u), NEW j \in 1 .. Len(s) + Len(u), i < j
                PROVE  su[i] < su[j]
  BY <1>7, <1>9 DEF Ascending
<1>11. CASE j <= Len(s)
  <2>1. i \in 1..Len(s) /\ j \in 1..Len(s)
    BY <1>10, <1>11, <1>1
  <2>2. su[i] = s[i] /\ su[j] = s[j]
    BY <2>1, <1>0
  <2>3. QED BY <2>1, <2>2, <1>1, <1>5, <1>10 DEF Ascending
<1>12. CASE i > Len(s)
  <2>1. i - Len(s) \in Int /\ j - Len(s) \in Int
    BY <1>1
  <2>2. PICK k \in Int, l \in Int : k = i - Len(s) /\ l = j - Len(s)
    BY <2>1, Zenon
  <2>3. k \in 1..Len(u) /\ l \in 1..Len(u) /\ k < l /\ i = Len(s) + k /\ j = Len(s) + l
    BY <2>2, <1>10, <1>12, <1>1
  <2>4. su[i] = u[k] /\ su[j] = u[l]
    BY <2>3, <1>0
  <2>5. QED BY <2>3, <2>4, <1>1, <1>4 DEF Ascending
<1>13. CASE i <= Len(s) /\ j > Len(s)
  <2>0. j - Len(s) \in Int
    BY <1>1
  <2>1. PICK l \in Int : l = j - Len(s)
    BY <2>0, Zenon
  <2>2. i \in 1..Len(s) /\ l \in 1..Len(u) /\ j = Len(s) + l
    BY <2>1, <1>10, <1>13, <1>1
  <2>3. su[i] = s[i] /\ su[j] = u[l]
    BY <2>2, <1>0
  <2>4. s[i] < u[l]
    BY <2>2, <1>8
  <2> HIDE DEF su
  <2>5. QED BY <2>3, <2>4
<1>14. QED BY <1>1, <1>11, <1>12, <1>13

\* A sequence is a prefix of what it is extended to.
LEMMA PrefixOfJoin ==
  ASSUME NEW S, NEW s \in Seq(S), NEW t \in Seq(S)
  PROVE  IsPrefix(s, s \o t)
<1> DEFINE st == s \o t
<1>1. Len(s) \in Nat /\ Len(t) \in Nat
  BY LenProperties
<1>2. /\ st \in Seq(S) /\ Len(st) = Len(s) + Len(t)
      /\ \A i \in 1..Len(s) : st[i] = s[i]
  BY JoinFacts
<1> HIDE DEF st
<1>3. Len(s) \in 0..Len(st) /\ Len(s) \in 0..Len(s) /\ Len(s) <= Len(st)
  BY <1>1, <1>2
<1>4. /\ SubSeq(st, 1, Len(s)) \in Seq(S) /\ Len(SubSeq(st, 1, Len(s))) = Len(s)
      /\ \A i \in 1..Len(s) : SubSeq(st, 1, Len(s))[i] = st[i]
  BY <1>2, <1>3, TakeFacts
<1>5. SubSeq(st, 1, Len(s)) = s
  BY <1>2, <1>4, SeqEqual
<1>6. SubSeq(s, 1, Len(s)) = s
  BY SubSeqFull
<1>7. IsPrefix(s, st)
  BY <1>3, <1>5, <1>6 DEF IsPrefix
<1>8. QED BY <1>7 DEF st

\* The first n bytes that are sent.
Sent(n) == [i \in 1..n |-> i]

LEMMA SentFacts ==
  ASSUME NEW n \in Nat
  PROVE  /\ Sent(n) \in Seq(1..n) /\ Len(Sent(n)) = n /\ DOMAIN Sent(n) = 1..n
         /\ \A i \in 1..n : Sent(n)[i] = i
         /\ ToSet(Sent(n)) = 1..n
         /\ n = 0 => Sent(n) = <<>>
<1>1. Sent(n) \in [1..n -> 1..n] /\ DOMAIN Sent(n) = 1..n /\ \A i \in 1..n : Sent(n)[i] = i
  BY DEF Sent
<1>2. Sent(n) \in Seq(1..n)
  BY <1>1, SeqDef
<1>3. Len(Sent(n)) = n
  BY <1>1, <1>2, LenProperties
<1>4. ToSet(Sent(n)) = 1..n
  BY <1>1 DEF ToSet
<1>5. n = 0 => Sent(n) = <<>>
  BY <1>2, <1>3, EmptySeq
<1>6. QED BY <1>1, <1>2, <1>3, <1>4, <1>5

\* More is sent behind what has been.
LEMMA SentGrows ==
  ASSUME NEW m \in Nat, NEW n \in Nat, m <= n
  PROVE  IsPrefix(Sent(m), Sent(n))
<1>1. /\ Sent(m) \in Seq(1..m) /\ Len(Sent(m)) = m /\ \A i \in 1..m : Sent(m)[i] = i
      /\ Sent(n) \in Seq(1..n) /\ Len(Sent(n)) = n /\ \A i \in 1..n : Sent(n)[i] = i
  BY SentFacts
<1>2. 1..m \subseteq 1..n /\ m \in 0..Len(Sent(n))
  BY <1>1
<1>3. Sent(m) \in Seq(1..n)
  BY <1>1, <1>2, SeqMonotonic
<1> DEFINE t == SubSeq(Sent(n), 1, m)
<1>4. t \in Seq(1..n) /\ Len(t) = m /\ \A i \in 1..m : t[i] = Sent(n)[i]
  BY <1>1, <1>2, TakeFacts
<1> HIDE DEF t
<1>5. \A i \in 1..m : t[i] = Sent(m)[i]
  BY <1>1, <1>2, <1>4
<1>6. t = Sent(m)
  BY <1>1, <1>3, <1>4, <1>5, SeqEqual
<1>7. SubSeq(Sent(m), 1, m) = Sent(m)
  BY <1>1, SubSeqFull
<1>8. QED BY <1>1, <1>6, <1>7 DEF IsPrefix, t

\* What has come out, d, is in order and without gaps, when the rest of what has gone in, u,
\* follows it, in order too, and nothing but what is in lost is missing.
LEMMA FaithfulFacts ==
  ASSUME NEW n \in Nat, NEW m \in 0..n, NEW d \in Seq(0..n), NEW u \in Seq(0..n), NEW lost,
         Ascending(d \o u), ToSet(d \o u) = 1..m \ lost
  PROVE  /\ ToSet(d) \subseteq ToSet(Sent(n)) \ lost
         /\ \A i, j \in DOMAIN d : i < j =>
              \E k, l \in DOMAIN Sent(n) : k < l /\ Sent(n)[k] = d[i] /\ Sent(n)[l] = d[j]
         /\ \A k, l \in DOMAIN Sent(n) : k < l /\ Sent(n)[l] \in ToSet(d) =>
              Sent(n)[k] \in ToSet(d) \cup lost
<1>1. /\ DOMAIN Sent(n) = 1..n /\ \A i \in 1..n : Sent(n)[i] = i
      /\ ToSet(Sent(n)) = 1..n
  BY SentFacts
<1>2. Ascending(d) /\ Ascending(u)
  BY CutFacts
<1>3. ToSet(d) \cup ToSet(u) = 1..m \ lost
  BY JoinFacts
<1>4. ToSet(d) \subseteq 1..n \ lost
  BY <1>3
<1>5. ASSUME NEW i \in DOMAIN d, NEW j \in DOMAIN d, i < j
      PROVE  \E k, l \in DOMAIN Sent(n) : k < l /\ Sent(n)[k] = d[i] /\ Sent(n)[l] = d[j]
  <2>1. d[i] \in 1..n /\ d[j] \in 1..n
    BY <1>4 DEF ToSet
  <2>2. d[i] < d[j]
    BY <1>2, <1>5 DEF Ascending
  <2>3. QED BY <2>1, <2>2, <1>1
<1>6. ASSUME NEW k \in 1..n, NEW l \in 1..n, k < l, l \in ToSet(d), k \notin lost
      PROVE  k \in ToSet(d)
  <2>1. k \in 1..m \ lost
    BY <1>3, <1>6
  <2>2. SUFFICES ASSUME k \in ToSet(u) PROVE FALSE
    BY <1>3, <2>1
  <2>3. PICK i \in DOMAIN d : d[i] = l
    BY <1>6 DEF ToSet
  <2>4. PICK j \in DOMAIN u : u[j] = k
    BY <2>2 DEF ToSet
  <2>5. /\ DOMAIN d = 1..Len(d) /\ DOMAIN u = 1..Len(u) /\ Len(d) \in Nat /\ Len(u) \in Nat
        /\ d \o u \in Seq(0..n) /\ Len(d \o u) = Len(d) + Len(u)
    BY LenProperties, JoinFacts
  <2>6. (d \o u)[i] = l /\ (d \o u)[Len(d) + j] = k
    BY <2>3, <2>4, <2>5, JoinFacts
  <2>7. DOMAIN (d \o u) = 1..Len(d) + Len(u)
    BY <2>5, LenProperties
  <2>8. i \in DOMAIN (d \o u) /\ Len(d) + j \in DOMAIN (d \o u) /\ i < Len(d) + j
    BY <2>5, <2>7
  <2>9. l < k
    BY <2>6, <2>8 DEF Ascending
  <2>10. QED BY <2>9, <1>6
<1>7. QED BY <1>1, <1>4, <1>5, <1>6
=============================================================================
