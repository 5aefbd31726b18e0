----------------------- MODULE ScrapeExecutionProofs ------------------------
(***************************************************************************)
(* Proofs about ScrapeExecution, for every list of accepted scrapers, any  *)
(* feed and anything a server or a model may reply.                        *)
(***************************************************************************)
EXTENDS ScrapeExecution, FiniteSetTheorems, FunctionTheorems, SequenceTheorems, TLAPS

-----------------------------------------------------------------------------
(* Lists.                                                                  *)
LEMMA ListIs ==
  ASSUME NEW s, IsList(s)
  PROVE  Len(s) \in Nat /\ DOMAIN s = 1 .. Len(s) /\ IsFiniteSet(DOMAIN s)
<1>1. Len(s) \in Nat /\ DOMAIN s = 1 .. Len(s)
  BY DEF IsList
<1> QED
  BY <1>1, FS_Interval

LEMMA MakesList ==
  ASSUME NEW n \in Nat, NEW S, NEW s \in [1 .. n -> S]
  PROVE  IsList(s) /\ Len(s) = n /\ ToSet(s) \subseteq S
<1>1. s \in Seq(S) /\ Len(s) = n
  BY SeqDef
<1>2. s \in [1 .. n -> ToSet(s)]
  BY DEF ToSet
<1>3. s \in Seq(ToSet(s))
  BY <1>2, SeqDef
<1> QED
  BY <1>1, <1>3 DEF IsList, ToSet

LEMMA UpTo ==
  ASSUME NEW n \in Nat
  PROVE  IsFiniteSet(1 .. n) /\ Cardinality(1 .. n) = n
<1>1. /\ IsFiniteSet(1 .. n)
      /\ Cardinality(1 .. n) = IF 1 > n THEN 0 ELSE n - 1 + 1
  BY FS_Interval
<1> QED
  BY <1>1

(* A list has at most as many elements as positions, and its elements at   *)
(* most as many words.                                                     *)
LEMMA ListCounts ==
  ASSUME NEW s, IsList(s)
  PROVE  IsFiniteSet(ToSet(s)) /\ Cardinality(ToSet(s)) \in Nat /\ Cardinality(ToSet(s)) <= Len(s)
<1>1. Len(s) \in Nat /\ DOMAIN s = 1 .. Len(s)
  BY ListIs
<1> DEFINE f == [i \in 1 .. Len(s) |-> s[i]]
<1>2. f \in [1 .. Len(s) -> ToSet(s)]
  BY <1>1 DEF ToSet
<1>3. \A x \in ToSet(s) : \E i \in 1 .. Len(s) : f[i] = x
  BY <1>1 DEF ToSet
<1> HIDE DEF f
<1>4. f \in Surjection(1 .. Len(s), ToSet(s))
  BY <1>2, <1>3, Fun_IsSurj
<1>5. IsFiniteSet(1 .. Len(s)) /\ Cardinality(1 .. Len(s)) = Len(s)
  BY <1>1, UpTo
<1> QED
  BY <1>4, <1>5, FS_Surjection, FS_CardinalityType

-----------------------------------------------------------------------------
(* Positions in order.                                                     *)
IsOrder(ahead) ==
  /\ IsFiniteSet(DOMAIN ahead)
  /\ \A i \in DOMAIN ahead : ahead[i] \subseteq DOMAIN ahead /\ i \notin ahead[i]
  /\ \A i, j \in DOMAIN ahead : i = j \/ i \in ahead[j] \/ j \in ahead[i]
  /\ \A i \in DOMAIN ahead : \A j \in ahead[i] : ahead[j] \subseteq ahead[i]

(* Each number has its position: the numbers of those ahead are different, *)
(* and there are as many positions as numbers.                             *)
LEMMA EachHasItsPlace ==
  ASSUME NEW ahead, IsOrder(ahead)
  PROVE  LET D == DOMAIN ahead IN
         /\ Cardinality(D) \in Nat
         /\ \A i \in D : Cardinality(ahead[i]) \in 0 .. Cardinality(D) - 1
         /\ \A k \in 1 .. Cardinality(D) : \E i \in D : Cardinality(ahead[i]) = k - 1
         /\ \A i, j \in D : Cardinality(ahead[i]) = Cardinality(ahead[j]) => i = j
<1> DEFINE D == DOMAIN ahead
           n == Cardinality(D)
           f == [i \in D |-> Cardinality(ahead[i]) + 1]
<1>1. IsFiniteSet(D) /\ n \in Nat
  BY FS_CardinalityType DEF IsOrder
<1>2. ASSUME NEW i \in D
      PROVE  IsFiniteSet(ahead[i]) /\ Cardinality(ahead[i]) \in Nat /\ Cardinality(ahead[i]) < n
  <2>1. ahead[i] \in SUBSET D /\ ahead[i] # D
    BY DEF IsOrder
  <2> QED
    BY <1>1, <2>1, FS_Subset, FS_CardinalityType
<1>3. ASSUME NEW i \in D, NEW j \in D, i \in ahead[j]
      PROVE  Cardinality(ahead[i]) < Cardinality(ahead[j])
  <2>1. ahead[i] \in SUBSET ahead[j] /\ ahead[i] # ahead[j]
    BY <1>3 DEF IsOrder
  <2> QED
    BY <1>2, <2>1, FS_Subset
<1>4. ASSUME NEW i \in D, NEW j \in D, Cardinality(ahead[i]) = Cardinality(ahead[j])
      PROVE  i = j
  <2>1. i = j \/ i \in ahead[j] \/ j \in ahead[i]
    BY DEF IsOrder
  <2> QED
    BY <1>2, <1>3, <1>4, <2>1
<1>5. f \in Injection(D, 1 .. n)
  <2>1. f \in [D -> 1 .. n]
    BY <1>1, <1>2
  <2>2. \A i, j \in D : f[i] = f[j] => i = j
    BY <1>2, <1>4
  <2> HIDE DEF f
  <2> QED
    BY <2>1, <2>2, Fun_IsInj
<1>6. IsFiniteSet(1 .. n) /\ Cardinality(1 .. n) = n
  BY <1>1, UpTo
<1>7. f \in Surjection(D, 1 .. n)
  <2> HIDE DEF f
  <2> QED BY <1>5, <1>6, FS_Injection
<1>8. \A k \in 1 .. n : \E i \in D : f[i] = k
  BY <1>7 DEF Surjection
<1>9. \A k \in 1 .. n : \E i \in D : Cardinality(ahead[i]) = k - 1
  BY <1>1, <1>2, <1>8
<1>10. \A i \in D : Cardinality(ahead[i]) \in 0 .. n - 1
  BY <1>1, <1>2
<1> QED
  BY <1>1, <1>4, <1>9, <1>10

LEMMA InOrderIs ==
  ASSUME NEW seq, NEW ahead, IsOrder(ahead)
  PROVE  /\ IsList(InOrder(seq, ahead))
         /\ Len(InOrder(seq, ahead)) = Cardinality(DOMAIN ahead)
         /\ ToSet(InOrder(seq, ahead)) = {seq[i] : i \in DOMAIN ahead}
<1> DEFINE n == Cardinality(DOMAIN ahead)
           place(k) == CHOOSE i \in DOMAIN ahead : Cardinality(ahead[i]) = k - 1
           S == {seq[i] : i \in DOMAIN ahead}
           r == InOrder(seq, ahead)
<1>1. n \in Nat
  BY EachHasItsPlace
<1>2. \A k \in 1 .. n : place(k) \in DOMAIN ahead /\ Cardinality(ahead[place(k)]) = k - 1
  BY EachHasItsPlace
<1>3. r = [k \in 1 .. n |-> seq[place(k)]]
  BY DEF InOrder
<1>4. r \in [1 .. n -> S]
  BY <1>2, <1>3
<1>5. IsList(r) /\ Len(r) = n /\ ToSet(r) \subseteq S
  <2> HIDE DEF r, S, n
  <2> QED BY <1>1, <1>4, MakesList
<1>6. ASSUME NEW i \in DOMAIN ahead PROVE seq[i] \in ToSet(r)
  <2>1. Cardinality(ahead[i]) \in 0 .. n - 1
    BY EachHasItsPlace
  <2>2. PICK k \in 1 .. n : Cardinality(ahead[i]) = k - 1
    BY <1>1, <2>1
  <2>3. place(k) = i
    BY <1>2, <2>2, EachHasItsPlace
  <2>4. r[k] = seq[i] /\ k \in DOMAIN r
    BY <1>3, <2>3
  <2> QED
    BY <2>4 DEF ToSet
<1>7. S \subseteq ToSet(r)
  BY <1>6
<1> QED
  BY <1>5, <1>7

LEMMA AtIs ==
  ASSUME NEW seq, NEW I, I \subseteq Int, IsFiniteSet(I)
  PROVE  IsList(At(seq, I)) /\ Len(At(seq, I)) = Cardinality(I) /\ ToSet(At(seq, I)) = {seq[i] : i \in I}
<1> DEFINE ahead == [i \in I |-> {j \in I : j < i}]
<1>1. /\ DOMAIN ahead = I
      /\ \A i, j \in I : j \in ahead[i] <=> j < i
      /\ \A i \in I : ahead[i] \subseteq I
  OBVIOUS
<1>2. At(seq, I) = InOrder(seq, ahead)
  BY DEF At
<1> HIDE DEF ahead
<1>3. \A i, j \in I : i = j \/ i \in ahead[j] \/ j \in ahead[i]
  BY <1>1
<1>4. ASSUME NEW i \in I, NEW j \in ahead[i], NEW k \in ahead[j] PROVE k \in ahead[i]
  <2>1. j \in I /\ k \in I
    BY <1>1
  <2> QED
    BY <1>1, <2>1
<1>5. \A i \in I : i \notin ahead[i]
  BY <1>1
<1>6. IsOrder(ahead)
  BY <1>1, <1>3, <1>4, <1>5 DEF IsOrder
<1> QED
  BY <1>1, <1>2, <1>6, InOrderIs

(* Some of the elements of a list.                                         *)
LEMMA SomeOfList ==
  ASSUME NEW s, IsList(s), NEW I, I \subseteq DOMAIN s
  PROVE  /\ IsList(At(s, I)) /\ Len(At(s, I)) <= Len(s)
         /\ ToSet(At(s, I)) = {s[i] : i \in I} /\ ToSet(At(s, I)) \subseteq ToSet(s)
<1>1. Len(s) \in Nat /\ DOMAIN s = 1 .. Len(s)
  BY ListIs
<1>2. I \in SUBSET (1 .. Len(s)) /\ IsFiniteSet(1 .. Len(s)) /\ Cardinality(1 .. Len(s)) = Len(s)
  BY <1>1, UpTo
<1>3. IsFiniteSet(I) /\ Cardinality(I) <= Len(s) /\ I \subseteq Int
  BY <1>2, FS_Subset
<1>4. {s[i] : i \in I} \subseteq ToSet(s)
  BY DEF ToSet
<1>5. /\ IsList(At(s, I)) /\ Len(At(s, I)) = Cardinality(I)
      /\ ToSet(At(s, I)) = {s[i] : i \in I}
  BY <1>3, AtIs
<1> QED
  BY <1>3, <1>4, <1>5

(* One list after another.                                                 *)
LEMMA JoinIs ==
  ASSUME NEW s, IsList(s), NEW t, IsList(t)
  PROVE  /\ IsList(s \o t) /\ Len(s \o t) = Len(s) + Len(t)
         /\ ToSet(s \o t) = ToSet(s) \cup ToSet(t)
<1> DEFINE S == ToSet(s) \cup ToSet(t)
           u == s \o t
<1>1. s \in Seq(S) /\ t \in Seq(S)
  <2>1. ToSet(s) \subseteq S /\ ToSet(t) \subseteq S
    OBVIOUS
  <2> HIDE DEF S
  <2> QED BY <2>1, SeqMonotonic DEF IsList
<1>2. Len(s) \in Nat /\ DOMAIN s = 1 .. Len(s) /\ Len(t) \in Nat /\ DOMAIN t = 1 .. Len(t)
  BY ListIs
<1>3. /\ u \in Seq(S) /\ Len(u) = Len(s) + Len(t)
      /\ \A i \in 1 .. Len(s) + Len(t) : u[i] = IF i <= Len(s) THEN s[i] ELSE t[i - Len(s)]
  <2> HIDE DEF S
  <2> QED BY <1>1, ConcatProperties
<1> HIDE DEF u
<1>4. u \in [1 .. Len(s) + Len(t) -> S]
  <2> HIDE DEF S
  <2> QED BY <1>3, LenProperties
<1>5. IsList(u) /\ ToSet(u) \subseteq S
  <2> HIDE DEF S
  <2>1. Len(s) + Len(t) \in Nat
    BY <1>2
  <2> QED BY <1>4, <2>1, MakesList
<1>6. ASSUME NEW x \in ToSet(s) PROVE x \in ToSet(u)
  <2>1. PICK i \in 1 .. Len(s) : s[i] = x
    BY <1>2 DEF ToSet
  <2>2. i \in DOMAIN u /\ u[i] = x
    BY <1>2, <1>3, <1>4, <2>1
  <2> QED
    BY <2>2 DEF ToSet
<1>7. ASSUME NEW x \in ToSet(t) PROVE x \in ToSet(u)
  <2>1. PICK i \in 1 .. Len(t) : t[i] = x
    BY <1>2 DEF ToSet
  <2>2. /\ Len(s) + i \in 1 .. Len(s) + Len(t) /\ ~(Len(s) + i <= Len(s))
        /\ (Len(s) + i) - Len(s) = i
    BY <1>2
  <2>3. Len(s) + i \in DOMAIN u /\ u[Len(s) + i] = x
    BY <1>3, <1>4, <2>1, <2>2
  <2> QED
    BY <2>3 DEF ToSet
<1> QED
  BY <1>3, <1>5, <1>6, <1>7 DEF u

(* One element for each position.                                          *)
LEMMA EachOfList ==
  ASSUME NEW s, IsList(s), NEW S, NEW f \in [DOMAIN s -> S]
  PROVE  IsList(f) /\ Len(f) = Len(s) /\ DOMAIN f = DOMAIN s /\ ToSet(f) \subseteq S
<1>1. Len(s) \in Nat /\ f \in [1 .. Len(s) -> S]
  BY ListIs
<1> QED
  BY <1>1, MakesList

LEMMA FirstIs ==
  ASSUME NEW s, IsList(s), NEW n \in Nat
  PROVE  /\ IsList(First(s, n)) /\ Len(First(s, n)) <= n /\ Len(First(s, n)) <= Len(s)
         /\ ToSet(First(s, n)) \subseteq ToSet(s)
         /\ \A i \in DOMAIN First(s, n) : First(s, n)[i] = s[i]
         /\ n > 0 /\ s # <<>> => First(s, n) # <<>>
<1> DEFINE m == Lesser(n, Len(s))
           r == First(s, n)
<1>1. Len(s) \in Nat /\ DOMAIN s = 1 .. Len(s)
  BY ListIs
<1>2. m \in Nat /\ m <= n /\ m <= Len(s)
  BY <1>1 DEF Lesser
<1>3. r = SubSeq(s, 1, m)
  BY DEF First
<1>4. \A i \in 1 .. m : s[i] \in ToSet(s)
  BY <1>1, <1>2 DEF ToSet
<1>5. /\ r \in Seq(ToSet(s))
      /\ Len(r) = IF 1 <= m THEN m - 1 + 1 ELSE 0
      /\ \A i \in 1 .. m - 1 + 1 : r[i] = s[1 + i - 1]
  <2> HIDE DEF m, r
  <2> QED BY <1>2, <1>3, <1>4, SubSeqProperties
<1>6. Len(r) = m /\ \A i \in 1 .. m : r[i] = s[i]
  <2> HIDE DEF r, m
  <2> QED BY <1>2, <1>5
<1>7. r \in [1 .. m -> ToSet(s)]
  <2> HIDE DEF r, m
  <2> QED BY <1>5, <1>6, LenProperties
<1>8. IsList(r) /\ ToSet(r) \subseteq ToSet(s)
  <2> HIDE DEF r, m
  <2> QED BY <1>2, <1>7, MakesList
<1>9. ASSUME n > 0, s # <<>> PROVE r # <<>>
  <2>1. Len(s) > 0
    BY <1>1, <1>9, EmptySeq DEF IsList
  <2>2. m > 0
    BY <1>1, <2>1, <1>9 DEF Lesser
  <2> HIDE DEF r, m
  <2> QED BY <1>6, <2>2, EmptySeq
<1>10. DOMAIN r = 1 .. m
  <2> HIDE DEF r, m
  <2> QED BY <1>7
<1> QED
  <2> HIDE DEF r, m
  <2>1. Len(r) <= n /\ Len(r) <= Len(s)
    BY <1>1, <1>2, <1>6
  <2> QED
  BY <2>1, <1>6, <1>8, <1>9, <1>10 DEF r

(* A stable sort keeps the elements.                                       *)
LEMMA ByScoreIs ==
  ASSUME NEW s, IsList(s), NEW score, \A x \in ToSet(s) : score[x] \in Int
  PROVE  /\ IsList(ByScore(s, score)) /\ Len(ByScore(s, score)) = Len(s)
         /\ ToSet(ByScore(s, score)) = ToSet(s)
<1> DEFINE D == DOMAIN s
           Ahead(i, j) == score[s[j]] > score[s[i]] \/ (score[s[j]] = score[s[i]] /\ j < i)
           ahead == [i \in D |-> {j \in D : Ahead(i, j)}]
<1>1. Len(s) \in Nat /\ D = 1 .. Len(s) /\ IsFiniteSet(D) /\ Cardinality(D) = Len(s)
  BY ListIs, UpTo
<1>2. \A i \in D : score[s[i]] \in Int /\ i \in Int
  BY <1>1 DEF ToSet
<1>3. ByScore(s, score) = InOrder(s, ahead)
  BY DEF ByScore
<1>4. DOMAIN ahead = D /\ \A i \in D : ahead[i] = {j \in D : Ahead(i, j)}
  OBVIOUS
<1> HIDE DEF ahead
<1>5. /\ \A i \in D : ~Ahead(i, i)
      /\ \A i, j \in D : i = j \/ Ahead(i, j) \/ Ahead(j, i)
      /\ \A i, j, k \in D : Ahead(i, j) /\ Ahead(j, k) => Ahead(i, k)
  BY <1>2
<1> HIDE DEF Ahead
<1>6. IsOrder(ahead)
  BY <1>1, <1>4, <1>5 DEF IsOrder
<1>7. ToSet(s) = {s[i] : i \in D}
  BY DEF ToSet
<1> QED
  BY <1>1, <1>3, <1>4, <1>6, <1>7, InOrderIs

LEMMA DedupedIs ==
  ASSUME NEW terms, IsList(terms)
  PROVE  /\ IsList(Deduped(terms)) /\ Len(Deduped(terms)) <= Len(terms)
         /\ ToSet(Deduped(terms)) \subseteq ToSet(terms)
<1> DEFINE I == {i \in DOMAIN terms : \A j \in 1 .. i - 1 : Word(terms[j]) # Word(terms[i])}
<1>1. I \subseteq DOMAIN terms
  OBVIOUS
<1>2. Deduped(terms) = At(terms, I)
  BY DEF Deduped
<1> HIDE DEF I
<1> QED
  BY <1>1, <1>2, SomeOfList

-----------------------------------------------------------------------------
(* Numbers.                                                                *)
LEMMA Least ==
  ASSUME NEW S, S \subseteq Nat, S # {}
  PROVE  Min(S) \in S /\ \A n \in S : Min(S) <= n
<1>1. IsWellFoundedOn(OpToRel(<, Nat), Nat)
  BY NatLessThanWellFounded
<1>2. PICK n \in S : \A m \in S : <<m, n>> \notin OpToRel(<, Nat)
  BY <1>1, WFMin
<1>3. \A m \in S : n <= m
  <2>1. \A m \in S : ~(m < n)
    BY <1>2 DEF OpToRel
  <2> QED
    BY <2>1
<1> QED
  BY <1>3 DEF Min

LEMMA EveryNumber ==
  ASSUME NEW S, 0 \in S, \A n \in Nat : n \in S => n + 1 \in S
  PROVE  Nat \subseteq S
<1> SUFFICES ASSUME Nat \ S # {} PROVE FALSE
  OBVIOUS
<1> DEFINE least == Min(Nat \ S)
<1>1. least \in Nat \ S /\ \A n \in Nat \ S : least <= n
  BY Least
<1> HIDE DEF least
<1>2. least - 1 \in Nat /\ least - 1 < least /\ (least - 1) + 1 = least
  BY <1>1
<1> QED
  BY <1>1, <1>2

(* The greatest is the least bound.                                        *)
LEMMA Greatest ==
  ASSUME NEW n \in Nat, NEW S, S \subseteq 1 .. n, S # {}
  PROVE  Max(S) \in S
<1> DEFINE bounds == {b \in Nat : \A m \in S : m <= b}
           b == Min(bounds)
<1>1. bounds \subseteq Nat /\ n \in bounds
  OBVIOUS
<1>2. b \in bounds /\ \A c \in bounds : b <= c
  <2> HIDE DEF bounds
  <2> QED BY <1>1, Least
<1>3. b \in Nat /\ \A m \in S : m <= b
  <2> HIDE DEF b
  <2> QED BY <1>2
<1>4. b \in S
  <2> SUFFICES ASSUME b \notin S PROVE FALSE
    OBVIOUS
  <2> HIDE DEF b
  <2>1. \A m \in S : m <= b - 1
    BY <1>3
  <2>2. b - 1 \in Nat
    <3>1. PICK m \in S : m \in 1 .. n
      OBVIOUS
    <3> QED
      BY <1>3, <2>1, <3>1
  <2>3. b - 1 \in bounds
    BY <2>1, <2>2
  <2>4. b <= b - 1
    <3> HIDE DEF bounds
    <3> QED BY <1>2, <2>3
  <2> QED
    BY <1>3, <2>4
<1> HIDE DEF b
<1>5. \A m \in S : b >= m
  BY <1>3
<1> QED
  BY <1>4, <1>5 DEF Max

(* The sum of a list of up to three numbers.                               *)
IsTotal(g, n, numbers) ==
  g = [k \in 0 .. n |-> IF k = 0 THEN 0 ELSE g[k - 1] + numbers[k]]

LEMMA TotalExists ==
  ASSUME NEW numbers, NEW n \in Nat
  PROVE  \E g : IsTotal(g, n, numbers)
<1> DEFINE S == {k \in Nat : \E g : IsTotal(g, k, numbers)}
<1>1. 0 \in S
  <2> DEFINE g == [k \in 0 .. 0 |-> 0]
  <2>1. IsTotal(g, 0, numbers)
    BY DEF IsTotal
  <2> QED
    BY <2>1
<1>2. ASSUME NEW k \in Nat, k \in S PROVE k + 1 \in S
  <2>1. PICK g : IsTotal(g, k, numbers)
    BY <1>2
  <2>2. \A i \in 0 .. k : g[i] = IF i = 0 THEN 0 ELSE g[i - 1] + numbers[i]
    BY <2>1 DEF IsTotal
  <2> DEFINE h == [i \in 0 .. k + 1 |-> IF i = k + 1 THEN g[k] + numbers[k + 1] ELSE g[i]]
  <2>3. \A i \in 0 .. k + 1 : h[i] = IF i = 0 THEN 0 ELSE h[i - 1] + numbers[i]
    <3> SUFFICES ASSUME NEW i \in 0 .. k + 1
                 PROVE  h[i] = IF i = 0 THEN 0 ELSE h[i - 1] + numbers[i]
      OBVIOUS
    <3>1. CASE i = k + 1
      <4>1. h[i] = g[k] + numbers[k + 1] /\ i # 0 /\ i - 1 = k /\ k \in 0 .. k + 1 /\ k # k + 1
        BY <3>1
      <4> QED
        BY <3>1, <4>1
    <3>2. CASE i # k + 1
      <4>1. i \in 0 .. k /\ h[i] = g[i]
        BY <3>2
      <4>2. i # 0 => i - 1 \in 0 .. k + 1 /\ i - 1 # k + 1
        BY <4>1
      <4> QED
        BY <2>2, <4>1, <4>2
    <3> QED
      BY <3>1, <3>2
  <2>4. IsTotal(h, k + 1, numbers)
    BY <2>3 DEF IsTotal
  <2> QED
    BY <2>4
<1>3. n \in S
  <2> HIDE DEF S
  <2> QED BY <1>1, <1>2, EveryNumber
<1> QED
  BY <1>3

LEMMA SumIs ==
  ASSUME NEW numbers \in Seq(Nat), Len(numbers) <= 3
  PROVE  /\ Sum(numbers) \in Nat
         /\ \A b \in Nat :
              (\A i \in DOMAIN numbers : numbers[i] <= b) => Sum(numbers) <= 3 * b
<1> DEFINE n == Len(numbers)
           g == CHOOSE f : IsTotal(f, n, numbers)
<1>1. Sum(numbers) = g[n]
  BY DEF Sum, IsTotal
<1>2. n \in 0 .. 3 /\ DOMAIN numbers = 1 .. n /\ \A i \in 1 .. n : numbers[i] \in Nat
  <2>1. n \in Nat /\ numbers \in [1 .. n -> Nat] /\ DOMAIN numbers = 1 .. n
    BY LenProperties
  <2> QED
    BY <2>1
<1>3. IsTotal(g, n, numbers)
  <2> HIDE DEF n
  <2> QED BY <1>2, TotalExists
<1> HIDE DEF g
<1>4. \A k \in 0 .. n : g[k] = IF k = 0 THEN 0 ELSE g[k - 1] + numbers[k]
  BY <1>3 DEF IsTotal
<1> HIDE DEF n
<1>5. /\ g[0] = 0
      /\ n >= 1 => g[1] = g[0] + numbers[1]
      /\ n >= 2 => g[2] = g[1] + numbers[2]
      /\ n >= 3 => g[3] = g[2] + numbers[3]
  BY <1>2, <1>4
<1>6. g[n] \in Nat
  BY <1>2, <1>5
<1>7. ASSUME NEW b \in Nat, \A i \in DOMAIN numbers : numbers[i] <= b
      PROVE  g[n] <= 3 * b
  BY <1>2, <1>5, <1>7
<1> QED
  BY <1>1, <1>6, <1>7

(* The range of a duration.                                                *)
LEMMA MaxDurationIs == MaxDuration \in Nat
<1> DEFINE k == Width - 1
           S == SUBSET (1 .. k)
<1>1. k \in Nat
  BY ScraperDefinitionAssumption
<1>2. IsFiniteSet(1 .. k) /\ Cardinality(1 .. k) = k
  BY <1>1, UpTo
<1>3. IsFiniteSet(S) /\ Cardinality(S) = 2^k
  <2> HIDE DEF k
  <2> QED BY <1>2, FS_SUBSET
<1>4. S # {} /\ Cardinality(S) \in Nat /\ Cardinality(S) # 0
  <2> HIDE DEF k
  <2> QED BY <1>3, FS_CardinalityType, FS_EmptySet
<1> QED
  BY <1>3, <1>4 DEF MaxDuration

LEMMA NotWrapped ==
  ASSUME NEW n \in Nat, n <= MaxDuration
  PROVE  Wrapped(n) = n
<1> DEFINE m == MaxDuration + 1
           q == 2 * m
           a == n + MaxDuration + 1
<1>1. m \in Nat /\ a = n + m /\ a \in Nat /\ q \in Nat /\ q > 0 /\ a < q
  BY MaxDurationIs
<1>2. a % q = a
  <2> HIDE DEF a, q
  <2> QED BY <1>1
<1>3. Wrapped(n) = (a % q) - MaxDuration - 1
  BY DEF Wrapped
<1> QED
  BY <1>2, <1>3, MaxDurationIs

-----------------------------------------------------------------------------
(* The options of a processor.                                             *)
Raw(d, name) == d.content_processor_configs.value[name]
IsRaw(raw) == \A key \in DOMAIN raw : Decoded(raw[key])

LEMMA GetIs ==
  ASSUME NEW raw, NEW kind, NEW fallback, NEW keys, DOMAIN keys \subseteq Nat
  PROVE  \/ Get(raw, kind, fallback, keys) = fallback
         \/ \E key \in DOMAIN raw :
              raw[key].kind = kind /\ Get(raw, kind, fallback, keys) = raw[key].value
<1> DEFINE given == {i \in DOMAIN keys : keys[i] \in DOMAIN raw /\ raw[keys[i]].kind = kind}
<1>1. Get(raw, kind, fallback, keys) = IF given = {} THEN fallback ELSE raw[keys[Min(given)]].value
  BY DEF Get
<1>2. given # {} => Min(given) \in given
  <2>1. given \subseteq Nat
    OBVIOUS
  <2> HIDE DEF given
  <2> QED BY <2>1, Least
<1> QED
  BY <1>1, <1>2

LEMMA GetInteger ==
  ASSUME NEW raw, IsRaw(raw), NEW fallback \in Int, NEW keys, DOMAIN keys \subseteq Nat
  PROVE  Get(raw, "integer", fallback, keys) \in Int
BY GetIs DEF IsRaw, Decoded

LEMMA GetList ==
  ASSUME NEW raw, IsRaw(raw), NEW keys, DOMAIN keys \subseteq Nat
  PROVE  IsList(Get(raw, "list", <<>>, keys))
<1>1. IsList(<<>>)
  BY EmptySeq DEF IsList
<1> QED
  BY <1>1, GetIs DEF IsRaw, Decoded

LEMMA KeysAreNumbered ==
  /\ \A a : DOMAIN <<a>> \subseteq Nat
  /\ \A a, b : DOMAIN <<a, b>> \subseteq Nat
OBVIOUS

LEMMA PriorityIs ==
  ASSUME NEW name \in Supported, NEW raw, IsRaw(raw)
  PROVE  Priority(Created(name, raw)) \in Int
<1>1. Get(raw, "integer", 100, <<"priority">>) \in Int
  BY GetInteger, KeysAreNumbered
<1>2. /\ ParseHTMLConfig(raw).priority = Get(raw, "integer", 100, <<"priority">>)
      /\ ParseBaseLLMConfig(raw).priority = Get(raw, "integer", 100, <<"priority">>)
  BY DEF ParseHTMLConfig, ParseBaseLLMConfig
<1>3. /\ ParseSummaryConfig(raw).base = ParseBaseLLMConfig(raw)
      /\ ParseKeywordsConfig(raw).base = ParseBaseLLMConfig(raw)
      /\ ParseTagsConfig(raw).base = ParseBaseLLMConfig(raw)
      /\ [base |-> ParseHTMLConfig(raw)].base = ParseHTMLConfig(raw)
  BY DEF ParseSummaryConfig, ParseKeywordsConfig, ParseTagsConfig
<1>4. Created(name, raw).config.base.priority = Get(raw, "integer", 100, <<"priority">>)
  BY <1>2, <1>3 DEF Created, Supported
<1> QED
  BY <1>1, <1>4 DEF Priority

(* Each processor of a pipeline is made of the options under its name.     *)
LEMMA PipelineIs ==
  ASSUME NEW d, IsDocument(d), Accepted(d)
  PROVE  /\ IsList(Pipeline(d))
         /\ \A p \in ToSet(Pipeline(d)) :
              /\ p.name \in Supported /\ p = Created(p.name, Raw(d, p.name))
              /\ Creatable(p.name, Raw(d, p.name)) /\ IsRaw(Raw(d, p.name))
<1> DEFINE names == OrderedProcessorNames(d)
           D == DOMAIN names
           made == [i \in D |-> Created(names[i], d.content_processor_configs.value[names[i]])]
           Ahead(i, j) == Priority(made[j]) < Priority(made[i])
                          \/ (Priority(made[j]) = Priority(made[i]) /\ j < i)
           ahead == [i \in D |-> {j \in D : Ahead(i, j)}]
<1>1. IsList(names) /\ ToSet(names) \subseteq Supported
  BY DEF IsDocument, Decoded, Accepted, Loadable, OrderedProcessorNames
<1>2. \A name \in ToSet(names) : Creatable(name, Raw(d, name)) /\ IsRaw(Raw(d, name))
  BY DEF IsDocument, IsRaw, Raw, Accepted, PipelineIsCreatable, OrderedProcessorNames
<1>3. IsFiniteSet(D) /\ Len(names) \in Nat /\ D = 1 .. Len(names)
  BY <1>1, ListIs
<1>4. \A i \in D : names[i] \in ToSet(names)
  BY DEF ToSet
<1>5. \A i \in D : made[i] = Created(names[i], Raw(d, names[i]))
  BY DEF Raw
<1>6. Pipeline(d) = InOrder(made, ahead)
  BY DEF Pipeline
<1>7. DOMAIN ahead = D /\ \A i \in D : ahead[i] = {j \in D : Ahead(i, j)}
  OBVIOUS
<1> HIDE DEF ahead, made
<1>8. \A i \in D : Priority(made[i]) \in Int
  BY <1>1, <1>2, <1>4, <1>5, PriorityIs
<1>9. /\ \A i \in D : ~Ahead(i, i)
      /\ \A i, j \in D : i = j \/ Ahead(i, j) \/ Ahead(j, i)
      /\ \A i, j, k \in D : Ahead(i, j) /\ Ahead(j, k) => Ahead(i, k)
  BY <1>3, <1>8
<1> HIDE DEF Ahead
<1>10. IsOrder(ahead)
  BY <1>3, <1>7, <1>9 DEF IsOrder
<1>11. IsList(Pipeline(d)) /\ ToSet(Pipeline(d)) = {made[i] : i \in D}
  BY <1>6, <1>7, <1>10, InOrderIs
<1>12. \A name, raw : Created(name, raw).name = name
  BY DEF Created
<1> QED
  BY <1>1, <1>2, <1>4, <1>5, <1>11, <1>12

(* A duration that has been validated does not overflow.                   *)
LEMMA SecondsFit ==
  ASSUME NEW value \in Int, ValidDuration(value, Second)
  PROVE  Wrapped(Second * value) > 0
<1>1. MaxDuration \in Nat /\ 0 < value /\ value <= MaxDuration \div 1000
  BY MaxDurationIs DEF ValidDuration, TooLong, Second
<1>2. 1000 * value \in Nat /\ 1000 * value <= MaxDuration /\ 1000 * value > 0
  BY <1>1
<1> QED
  BY <1>2, NotWrapped DEF Second

LEMMA MillisecondsFit ==
  ASSUME NEW value \in Int, ValidDuration(value, Millisecond)
  PROVE  Wrapped(Millisecond * value) > 0
<1>1. MaxDuration \in Nat /\ 0 < value /\ value <= MaxDuration \div 1
  BY MaxDurationIs DEF ValidDuration, TooLong, Millisecond
<1>2. 1 * value = value /\ value \in Nat /\ value <= MaxDuration /\ value > 0
  BY <1>1, MaxDurationIs
<1> QED
  BY <1>2, NotWrapped DEF Millisecond

LEMMA TimeoutsAre ==
  ASSUME NEW raw, IsRaw(raw)
  PROVE  Timeout(raw) \in Int /\ BrowserTimeout(raw) \in Int
BY GetInteger, KeysAreNumbered DEF Timeout, BrowserTimeout

LEMMA HTMLConfigIs ==
  ASSUME NEW raw, IsRaw(raw), ValidHTMLConfig(raw)
  PROVE  ParseHTMLConfig(raw).timeout > 0 /\ ParseHTMLConfig(raw).browserTimeout > 0
<1>1. ParseHTMLConfig(raw).timeout = Wrapped(Second * Timeout(raw))
  BY DEF ParseHTMLConfig
<1>2. ParseHTMLConfig(raw).browserTimeout = Wrapped(Millisecond * BrowserTimeout(raw))
  BY DEF ParseHTMLConfig
<1>3. ValidDuration(Timeout(raw), Second) /\ ValidDuration(BrowserTimeout(raw), Millisecond)
  BY DEF ValidHTMLConfig
<1> QED
  BY <1>1, <1>2, <1>3, TimeoutsAre, SecondsFit, MillisecondsFit

LEMMA BaseLLMConfigIs ==
  ASSUME NEW raw, IsRaw(raw), ValidBaseLLMConfig(raw)
  PROVE  ParseBaseLLMConfig(raw).timeout > 0 /\ ParseBaseLLMConfig(raw).retryTimes >= 1
<1> DEFINE n == Get(raw, "integer", 3, <<"retry_times">>)
<1>1. n \in Int
  BY GetInteger, KeysAreNumbered
<1>2. ParseBaseLLMConfig(raw).timeout = Wrapped(Second * Timeout(raw))
  BY DEF ParseBaseLLMConfig
<1>3. ParseBaseLLMConfig(raw).retryTimes = n
  BY DEF ParseBaseLLMConfig
<1>4. ValidDuration(Timeout(raw), Second) /\ ParseBaseLLMConfig(raw).retryTimes > 0
  BY DEF ValidBaseLLMConfig
<1> HIDE DEF n
<1> QED
  BY <1>1, <1>2, <1>3, <1>4, TimeoutsAre, SecondsFit

LEMMA SummaryConfigIs ==
  ASSUME NEW raw, IsRaw(raw), ValidSummaryConfig(raw)
  PROVE  ParseSummaryConfig(raw).maxSummaryLength \in Nat \ {0}
<1>1. ParseSummaryConfig(raw).maxSummaryLength = Get(raw, "integer", 200, <<"max_summary_length">>)
  BY DEF ParseSummaryConfig
<1>2. Get(raw, "integer", 200, <<"max_summary_length">>) \in Int
  BY GetInteger, KeysAreNumbered
<1>3. ParseSummaryConfig(raw).maxSummaryLength > 0
  BY DEF ValidSummaryConfig
<1> QED
  BY <1>1, <1>2, <1>3

LEMMA KeywordsConfigIs ==
  ASSUME NEW raw, IsRaw(raw), ValidKeywordsConfig(raw)
  PROVE  Limit(ParseKeywordsConfig(raw)) \in Nat \ {0}
<1> DEFINE m == Get(raw, "integer", 3, <<"keywords_count">>)
           n == Get(raw, "integer", 10, <<"max_keywords">>)
           cfg == ParseKeywordsConfig(raw)
<1>1. cfg.keywordsCount = m /\ cfg.maxKeywords = n
  BY DEF ParseKeywordsConfig
<1>2. m \in Int /\ n \in Int
  BY GetInteger, KeysAreNumbered
<1>3. cfg.keywordsCount > 0 /\ cfg.maxKeywords > 0
  BY DEF ValidKeywordsConfig
<1> HIDE DEF m, n, cfg
<1>4. Limit(cfg) \in Nat \ {0}
  BY <1>1, <1>2, <1>3 DEF Limit, Lesser
<1> QED
  BY <1>4 DEF cfg

LEMMA TagsConfigIs ==
  ASSUME NEW raw, IsRaw(raw), ValidTagsConfig(raw)
  PROVE  LET cfg == ParseTagsConfig(raw) IN
         cfg.maxTags \in Nat \ {0} /\ IsList(cfg.availableTags) /\ IsList(cfg.categories)
<1> DEFINE n == Get(raw, "integer", 5, <<"max_tags">>)
           tags == Get(raw, "list", <<>>, <<"available_tags">>)
           cfg == ParseTagsConfig(raw)
<1>1. cfg.maxTags = n /\ cfg.availableTags = tags /\ cfg.categories = Categories(raw)
  BY DEF ParseTagsConfig
<1>2. n \in Int /\ IsList(tags)
  BY GetInteger, GetList, KeysAreNumbered
<1>3. cfg.maxTags > 0 /\ ValidateConfigFields(raw, TagsFields)
  BY DEF ValidTagsConfig
<1>4. IsList(Categories(raw))
  <2>1. CASE "custom_categories" \notin DOMAIN raw
    BY <2>1, EmptySeq DEF Categories, IsList
  <2>2. CASE "custom_categories" \in DOMAIN raw
    <3> DEFINE c == raw["custom_categories"]
               f == [i \in DOMAIN c.keys |-> [name |-> c.keys[i], keywords |-> ToSet(c.value[c.keys[i]])]]
    <3>1. "custom_categories" \in DOMAIN TagsFields /\ TagsFields["custom_categories"] = "mapping"
      BY DEF TagsFields
    <3>2. c.kind = "mapping" /\ Decoded(c)
      BY <1>3, <2>2, <3>1 DEF ValidateConfigFields, Kinds, IsRaw
    <3>3. IsList(c.keys)
      BY <3>2 DEF Decoded
    <3>4. Categories(raw) = f
      BY <2>2 DEF Categories
    <3>5. f \in [DOMAIN c.keys -> {f[i] : i \in DOMAIN c.keys}]
      OBVIOUS
    <3> HIDE DEF f, c
    <3> QED
      BY <3>3, <3>4, <3>5, EachOfList
  <2> QED
    BY <2>1, <2>2
<1> HIDE DEF n, tags, cfg
<1>5. cfg.maxTags \in Nat \ {0}
  BY <1>1, <1>2, <1>3
<1> QED
  BY <1>1, <1>2, <1>4, <1>5 DEF cfg

(* What the validation of a scraper leaves of its processors' options.     *)
LEMMA ConfigIs ==
  ASSUME NEW d, IsDocument(d), Accepted(d), NEW p \in ToSet(Pipeline(d))
  PROVE  /\ p.config.base.timeout > 0
         /\ p.name = "html_content" => p.config.base.browserTimeout > 0
         /\ p.name # "html_content" => p.config.base.retryTimes >= 1
         /\ p.name = "llm_summary" => p.config.maxSummaryLength \in Nat \ {0}
         /\ p.name = "llm_keywords" => Limit(p.config) \in Nat \ {0}
         /\ p.name = "llm_tags" =>
              /\ p.config.maxTags \in Nat \ {0}
              /\ IsList(p.config.availableTags) /\ IsList(p.config.categories)
<1> DEFINE raw == Raw(d, p.name)
<1>1. p.name \in Supported /\ p = Created(p.name, raw) /\ Creatable(p.name, raw) /\ IsRaw(raw)
  BY PipelineIs
<1> HIDE DEF raw
<1>2. CASE p.name = "html_content"
  <2>1. ValidHTMLConfig(raw) /\ p.config.base = ParseHTMLConfig(raw)
    BY <1>1, <1>2 DEF Creatable, Created
  <2> QED
    BY <1>1, <1>2, <2>1, HTMLConfigIs
<1>3. CASE p.name = "llm_summary"
  <2>1. ValidSummaryConfig(raw) /\ p.config = ParseSummaryConfig(raw)
    BY <1>1, <1>3 DEF Creatable, Created
  <2>2. ValidBaseLLMConfig(raw) /\ p.config.base = ParseBaseLLMConfig(raw)
    BY <2>1 DEF ValidSummaryConfig, ParseSummaryConfig
  <2> QED
    BY <1>1, <1>3, <2>1, <2>2, SummaryConfigIs, BaseLLMConfigIs
<1>4. CASE p.name = "llm_keywords"
  <2>1. ValidKeywordsConfig(raw) /\ p.config = ParseKeywordsConfig(raw)
    BY <1>1, <1>4 DEF Creatable, Created
  <2>2. ValidBaseLLMConfig(raw) /\ p.config.base = ParseBaseLLMConfig(raw)
    BY <2>1 DEF ValidKeywordsConfig, ParseKeywordsConfig
  <2> QED
    BY <1>1, <1>4, <2>1, <2>2, KeywordsConfigIs, BaseLLMConfigIs
<1>5. CASE p.name = "llm_tags"
  <2>1. ValidTagsConfig(raw) /\ p.config = ParseTagsConfig(raw)
    BY <1>1, <1>5 DEF Creatable, Created
  <2>2. ValidBaseLLMConfig(raw) /\ p.config.base = ParseBaseLLMConfig(raw)
    BY <2>1 DEF ValidTagsConfig, ParseTagsConfig
  <2> QED
    BY <1>1, <1>5, <2>1, <2>2, TagsConfigIs, BaseLLMConfigIs
<1> QED
  BY <1>1, <1>2, <1>3, <1>4, <1>5 DEF Supported

-----------------------------------------------------------------------------
(* What StoredIsNormalized says of the fields of a content.                *)
TagsConform(cfg, tags) ==
  /\ cfg.availableTags # <<>> /\ ~cfg.allowNewTags =>
       \A i \in DOMAIN tags : tags[i].tag \in ToSet(cfg.availableTags)
  /\ Cardinality({Word(tags[i].tag) : i \in DOMAIN tags}) <= cfg.maxTags

KeywordsConform(cfg, keywords) ==
  /\ \A k \in keywords : Suitable(cfg, k)
  /\ IsFiniteSet(keywords) /\ Cardinality(keywords) <= Limit(cfg)

SummaryConforms(cfg, summary) ==
  /\ summary.by = "model" => summary.size <= cfg.maxSummaryLength
  /\ summary.by = "fallback" =>
       summary.size <= IF cfg.summaryStyle = "bullet_points"
                       THEN 3 * (1 + Greater(8, cfg.maxSummaryLength \div 3))
                       ELSE cfg.maxSummaryLength

FeedSummaryFits(summary) == summary.by = "feed" => summary.size <= SummaryMaxLength

(* Tags before they have categories.                                       *)
AreTags(cfg, tags) ==
  /\ IsList(tags) /\ Len(tags) <= cfg.maxTags
  /\ cfg.availableTags # <<>> /\ ~cfg.allowNewTags => ToSet(tags) \subseteq ToSet(cfg.availableTags)

LEMMA TagsAreWithinLimits ==
  ASSUME NEW cfg, cfg.maxTags \in Nat, NEW tags, AreTags(cfg, tags),
         NEW result, \A i \in DOMAIN result : result[i].tag \in ToSet(tags)
  PROVE  TagsConform(cfg, result)
<1> DEFINE words == [j \in DOMAIN tags |-> Word(tags[j])]
           W == {Word(result[i].tag) : i \in DOMAIN result}
<1>1. IsList(tags) /\ Len(tags) \in Nat /\ Len(tags) <= cfg.maxTags
  BY ListIs DEF AreTags
<1>2. words \in [DOMAIN tags -> {Word(tags[j]) : j \in DOMAIN tags}]
  OBVIOUS
<1>3. IsList(words) /\ Len(words) = Len(tags)
  <2> HIDE DEF words
  <2> QED BY <1>1, <1>2, EachOfList
<1>4. IsFiniteSet(ToSet(words)) /\ Cardinality(ToSet(words)) \in Nat /\ Cardinality(ToSet(words)) <= Len(tags)
  <2> HIDE DEF words
  <2> QED BY <1>3, ListCounts
<1>5. W \in SUBSET ToSet(words)
  <2> SUFFICES ASSUME NEW i \in DOMAIN result PROVE Word(result[i].tag) \in ToSet(words)
    OBVIOUS
  <2>1. PICK j \in DOMAIN tags : tags[j] = result[i].tag
    BY DEF ToSet
  <2> QED
    BY <2>1 DEF ToSet
<1>6. Cardinality(W) \in Nat /\ Cardinality(W) <= Cardinality(ToSet(words))
  <2> HIDE DEF W, words
  <2> QED BY <1>4, <1>5, FS_Subset, FS_CardinalityType
<1>7. Cardinality(W) <= cfg.maxTags
  <2> HIDE DEF W, words
  <2> QED BY <1>1, <1>4, <1>6
<1>8. cfg.availableTags # <<>> /\ ~cfg.allowNewTags =>
        \A i \in DOMAIN result : result[i].tag \in ToSet(cfg.availableTags)
  BY DEF AreTags
<1> QED
  BY <1>7, <1>8 DEF TagsConform

(* A tag in the spelling of the configuration.                             *)
LEMMA CanonicalIs ==
  ASSUME NEW cfg, IsList(cfg.availableTags), NEW tag, Word(tag) \in Words(cfg.availableTags)
  PROVE  Canonical(cfg, tag) \in ToSet(cfg.availableTags)
<1> DEFINE a == cfg.availableTags
           same == {i \in DOMAIN a : Word(a[i]) = Word(tag)}
<1>1. Len(a) \in Nat /\ DOMAIN a = 1 .. Len(a)
  BY ListIs
<1>2. same # {}
  BY DEF Words, ToSet
<1>3. Max(same) \in same
  <2>1. same \subseteq 1 .. Len(a)
    BY <1>1
  <2> HIDE DEF same
  <2> QED BY <1>1, <1>2, <2>1, Greatest
<1>4. Canonical(cfg, tag) = a[Max(same)]
  BY <1>2 DEF Canonical
<1>5. Max(same) \in DOMAIN a
  BY <1>3
<1> HIDE DEF same
<1> QED
  BY <1>4, <1>5 DEF ToSet

LEMMA ConfidenceIs ==
  ASSUME NEW cfg, NEW reply, \A t \in DOMAIN reply.confidence : reply.confidence[t] \in Int, NEW tag
  PROVE  Confidence(cfg, reply, tag) \in Int
BY DEF Confidence

LEMMA NormalizedTags ==
  ASSUME NEW cfg, IsList(cfg.availableTags), cfg.maxTags \in Nat,
         NEW reply, IsReply("llm_tags", reply), reply.ok
  PROVE  AreTags(cfg, NormalizeTags(cfg, reply))
<1> DEFINE scored == DOMAIN reply.confidence # {}
           I == {i \in DOMAIN reply.tags :
                  /\ Runes[Word(reply.tags[i])] <= 50
                  /\ Allowed(cfg, reply.tags[i])
                  /\ scored => Confidence(cfg, reply, reply.tags[i]) >= cfg.confidenceThreshold}
           kept == At(reply.tags, I)
           cleaned == [i \in DOMAIN kept |-> Canonical(cfg, kept[i])]
           score == [t \in ToSet(cleaned) |->
                      LET last == Max({i \in DOMAIN cleaned : cleaned[i] = t}) IN
                      Confidence(cfg, reply, kept[last])]
           tags == Deduped(cleaned)
           sorted == IF scored THEN ByScore(tags, score) ELSE tags
<1>1. IsList(reply.tags) /\ \A t \in DOMAIN reply.confidence : reply.confidence[t] \in Int
  BY DEF IsReply
<1>2. NormalizeTags(cfg, reply) = First(sorted, cfg.maxTags)
  BY DEF NormalizeTags
<1>3. IsList(kept) /\ ToSet(kept) = {reply.tags[i] : i \in I}
  <2>1. I \subseteq DOMAIN reply.tags
    OBVIOUS
  <2> HIDE DEF I
  <2> QED BY <1>1, <2>1, SomeOfList
<1>4. \A t \in ToSet(kept) : Allowed(cfg, t)
  <2> HIDE DEF kept
  <2> QED BY <1>3
<1> HIDE DEF I, kept
<1>5. \A t \in ToSet(cleaned) : score[t] \in Int
  BY <1>1, ConfidenceIs
<1> HIDE DEF score
<1>6. IsList(cleaned) /\ \A t \in ToSet(cleaned) : \E i \in DOMAIN kept : t = Canonical(cfg, kept[i])
  <2>1. cleaned \in [DOMAIN kept -> {Canonical(cfg, kept[i]) : i \in DOMAIN kept}]
    OBVIOUS
  <2> HIDE DEF cleaned
  <2>2. IsList(cleaned) /\ ToSet(cleaned) \subseteq {Canonical(cfg, kept[i]) : i \in DOMAIN kept}
    BY <1>3, <2>1, EachOfList
  <2> QED
    BY <2>2
<1> HIDE DEF cleaned
<1>7. cfg.availableTags # <<>> /\ ~cfg.allowNewTags => ToSet(cleaned) \subseteq ToSet(cfg.availableTags)
  <2> SUFFICES ASSUME cfg.availableTags # <<>>, ~cfg.allowNewTags, NEW t \in ToSet(cleaned)
               PROVE  t \in ToSet(cfg.availableTags)
    OBVIOUS
  <2>1. PICK i \in DOMAIN kept : t = Canonical(cfg, kept[i])
    BY <1>6
  <2>2. Allowed(cfg, kept[i])
    BY <1>4 DEF ToSet
  <2> QED
    BY <2>1, <2>2, CanonicalIs DEF Allowed
<1>8. IsList(tags) /\ ToSet(tags) \subseteq ToSet(cleaned)
  BY <1>6, DedupedIs
<1> HIDE DEF tags
<1>9. IsList(sorted) /\ ToSet(sorted) = ToSet(tags)
  BY <1>5, <1>8, ByScoreIs
<1> HIDE DEF sorted
<1>10. /\ IsList(First(sorted, cfg.maxTags)) /\ Len(First(sorted, cfg.maxTags)) <= cfg.maxTags
       /\ ToSet(First(sorted, cfg.maxTags)) \subseteq ToSet(sorted)
  BY <1>9, FirstIs
<1> QED
  BY <1>2, <1>7, <1>8, <1>9, <1>10 DEF AreTags

LEMMA FallbackTagsAre ==
  ASSUME NEW cfg, IsList(cfg.availableTags), cfg.maxTags \in Nat, NEW item
  PROVE  AreTags(cfg, FallbackTags(cfg, item))
<1> DEFINE I == {i \in DOMAIN cfg.availableTags : Word(cfg.availableTags[i]) \in Mentioned(item)}
           J == {i \in DOMAIN Heuristics : Heuristics[i].keywords \cap Mentioned(item) # {}}
           available == At(cfg.availableTags, I)
           topics == At(Heuristics, J)
           general == IF topics = <<>> THEN <<<<"general", 1>>>>
                      ELSE [i \in DOMAIN topics |-> topics[i].tag]
           tags == IF cfg.availableTags # <<>> THEN available ELSE general
<1>1. FallbackTags(cfg, item) = First(Deduped(tags), cfg.maxTags)
  BY DEF FallbackTags
<1>2. IsList(available) /\ ToSet(available) \subseteq ToSet(cfg.availableTags)
  <2>1. I \subseteq DOMAIN cfg.availableTags
    OBVIOUS
  <2> HIDE DEF I
  <2> QED BY <2>1, SomeOfList
<1> HIDE DEF available
<1>3. IsList(topics)
  <2>1. J \in SUBSET (1 .. 2)
    BY DEF Heuristics
  <2>2. IsFiniteSet(1 .. 2)
    BY UpTo
  <2>3. J \subseteq Int /\ IsFiniteSet(J)
    BY <2>1, <2>2, FS_Subset
  <2> HIDE DEF J
  <2> QED BY <2>3, AtIs
<1> HIDE DEF topics
<1>4. IsList(general)
  <2>1. ASSUME NEW t PROVE IsList(<<t>>)
    <3>1. <<t>> \in [1 .. 1 -> {t}]
      OBVIOUS
    <3> QED
      BY <3>1, MakesList
  <2>2. IsList([i \in DOMAIN topics |-> topics[i].tag])
    <3> DEFINE f == [i \in DOMAIN topics |-> topics[i].tag]
    <3>1. f \in [DOMAIN topics -> {topics[i].tag : i \in DOMAIN topics}]
      OBVIOUS
    <3> HIDE DEF f
    <3>2. IsList(f)
      BY <1>3, <3>1, EachOfList
    <3> QED
      BY <3>2 DEF f
  <2> QED
    BY <2>1, <2>2
<1> HIDE DEF general
<1>5. IsList(tags) /\ (cfg.availableTags # <<>> => ToSet(tags) \subseteq ToSet(cfg.availableTags))
  BY <1>2, <1>4
<1> HIDE DEF tags
<1>6. IsList(Deduped(tags)) /\ ToSet(Deduped(tags)) \subseteq ToSet(tags)
  BY <1>5, DedupedIs
<1>7. /\ IsList(First(Deduped(tags), cfg.maxTags))
      /\ Len(First(Deduped(tags), cfg.maxTags)) <= cfg.maxTags
      /\ ToSet(First(Deduped(tags), cfg.maxTags)) \subseteq ToSet(Deduped(tags))
  BY <1>6, FirstIs
<1> QED
  BY <1>1, <1>5, <1>6, <1>7 DEF AreTags

(* Each category's tags, and those without one, are of the given tags.     *)
LEMMA CategorizedTags ==
  ASSUME NEW cfg, IsList(cfg.categories), NEW tags, IsList(tags)
  PROVE  \A i \in DOMAIN Categorize(cfg, tags) : Categorize(cfg, tags)[i].tag \in ToSet(tags)
<1> DEFINE C == DOMAIN cfg.categories
           D == DOMAIN tags
           Under(i, j) == Word(tags[j]) \in cfg.categories[i].keywords
           Name(i) == IF cfg.categories[i].name = "general" THEN "" ELSE cfg.categories[i].name
           pairs == {p \in C \X D : Under(p[1], p[2])}
           found == [p \in pairs |-> [category |-> Name(p[1]), tag |-> tags[p[2]]]]
           J == {j \in D : \A i \in C : ~Under(i, j)}
           rest == At(tags, J)
           ahead == [p \in pairs |-> {q \in pairs : q[1] < p[1] \/ (q[1] = p[1] /\ q[2] < p[2])}]
           plain == [i \in DOMAIN rest |-> [category |-> "", tag |-> rest[i]]]
<1>1. Categorize(cfg, tags) = InOrder(found, ahead) \o plain
  BY DEF Categorize
<1>2. IsFiniteSet(C) /\ IsFiniteSet(D) /\ C \subseteq Int /\ D \subseteq Int
  BY ListIs
<1>3. IsFiniteSet(pairs) /\ \A p \in pairs : p \in C \X D
  <2>1. pairs \in SUBSET (C \X D)
    OBVIOUS
  <2> HIDE DEF pairs
  <2>2. IsFiniteSet(C \X D)
    BY <1>2, FS_Product
  <2> QED
    BY <2>1, <2>2, FS_Subset
<1>4. \A p \in pairs : found[p].tag \in ToSet(tags)
  <2> SUFFICES ASSUME NEW p \in pairs PROVE found[p].tag \in ToSet(tags)
    OBVIOUS
  <2>1. found[p].tag = tags[p[2]] /\ p[2] \in D
    BY <1>3
  <2> QED
    BY <2>1 DEF ToSet
<1>5. /\ DOMAIN ahead = pairs
      /\ \A p \in pairs : ahead[p] = {q \in pairs : q[1] < p[1] \/ (q[1] = p[1] /\ q[2] < p[2])}
  OBVIOUS
<1> HIDE DEF pairs, found, ahead
<1>6. IsOrder(ahead)
  <2>1. \A p \in pairs : p[1] \in Int /\ p[2] \in Int /\ p = <<p[1], p[2]>>
    BY <1>2, <1>3
  <2>2. \A p \in pairs : ahead[p] \subseteq pairs /\ p \notin ahead[p]
    BY <1>5, <2>1
  <2>3. ASSUME NEW p \in pairs, NEW q \in pairs
        PROVE  p = q \/ p \in ahead[q] \/ q \in ahead[p]
    <3>1. CASE p[1] = q[1] /\ p[2] = q[2]
      BY <2>1, <3>1
    <3>2. CASE ~(p[1] = q[1] /\ p[2] = q[2])
      BY <1>5, <2>1, <3>2
    <3> QED
      BY <3>1, <3>2
  <2>4. ASSUME NEW p \in pairs, NEW q \in ahead[p], NEW r \in ahead[q] PROVE r \in ahead[p]
    <3>1. q \in pairs /\ r \in pairs
      BY <2>2
    <3> QED
      BY <1>5, <2>1, <3>1
  <2> QED
    BY <1>3, <1>5, <2>2, <2>3, <2>4 DEF IsOrder
<1>7. /\ IsList(InOrder(found, ahead))
      /\ ToSet(InOrder(found, ahead)) = {found[p] : p \in pairs}
  BY <1>5, <1>6, InOrderIs
<1>8. IsList(rest) /\ ToSet(rest) \subseteq ToSet(tags)
  <2>1. J \subseteq D
    OBVIOUS
  <2> HIDE DEF J
  <2> QED BY <2>1, SomeOfList
<1> HIDE DEF rest
<1>9. /\ IsList(plain)
      /\ ToSet(plain) \subseteq {[category |-> "", tag |-> rest[i]] : i \in DOMAIN rest}
  <2>1. plain \in [DOMAIN rest -> {[category |-> "", tag |-> rest[i]] : i \in DOMAIN rest}]
    OBVIOUS
  <2> HIDE DEF plain
  <2> QED BY <1>8, <2>1, EachOfList
<1> HIDE DEF plain
<1>10. \A x \in ToSet(plain) : x.tag \in ToSet(tags)
  <2> SUFFICES ASSUME NEW x \in ToSet(plain) PROVE x.tag \in ToSet(tags)
    OBVIOUS
  <2>1. \A i \in DOMAIN rest : rest[i] \in ToSet(tags)
    BY <1>8 DEF ToSet
  <2>2. PICK i \in DOMAIN rest : x = [category |-> "", tag |-> rest[i]]
    BY <1>9
  <2>3. x.tag = rest[i]
    BY <2>2
  <2> QED
    BY <2>1, <2>3
<1> DEFINE all == InOrder(found, ahead) \o plain
<1>11. ToSet(all) = {found[p] : p \in pairs} \cup ToSet(plain)
  BY <1>7, <1>9, JoinIs
<1> HIDE DEF all
<1>12. \A x \in ToSet(all) : x.tag \in ToSet(tags)
  BY <1>4, <1>10, <1>11
<1>13. \A i \in DOMAIN all : all[i] \in ToSet(all)
  BY DEF ToSet
<1> QED
  BY <1>1, <1>12, <1>13 DEF all

(* A content, and what one step makes of one of its fields.                *)
ItemFields == {"id", "title", "page", "summary", "body", "published", "tags", "keywords"}

IsItem(c) ==
  /\ DOMAIN c = ItemFields
  /\ c.title \in Seq(Terms) /\ c.body \in Texts /\ IsList(c.keywords)

DiffersIn(c, item, field) ==
  DOMAIN c = DOMAIN item /\ \A f \in DOMAIN item \ {field} : c[f] = item[f]

LEMMA ExceptDiffers ==
  ASSUME NEW item, NEW field, NEW value
  PROVE  DiffersIn([item EXCEPT ![field] = value], item, field)
BY DEF DiffersIn

LEMMA TagsProcessed ==
  ASSUME NEW cfg, IsList(cfg.availableTags), IsList(cfg.categories), cfg.maxTags \in Nat,
         NEW item, IsItem(item), TagsConform(cfg, item.tags),
         NEW reply, IsReply("llm_tags", reply)
  PROVE  LET c == ProcessTags(cfg, item, reply).item IN
         DiffersIn(c, item, "tags") /\ TagsConform(cfg, c.tags)
<1> DEFINE tags == IF reply.ok THEN NormalizeTags(cfg, reply) ELSE <<>>
           fallback == FallbackTags(cfg, item)
           plain == [i \in DOMAIN fallback |-> [category |-> "", tag |-> fallback[i]]]
           c == ProcessTags(cfg, item, reply).item
<1> SUFFICES DiffersIn(c, item, "tags") /\ TagsConform(cfg, c.tags)
  OBVIOUS
<1>1. \/ c = item
      \/ tags # <<>> /\ c = [item EXCEPT !.tags = Categorize(cfg, tags)]
      \/ c = [item EXCEPT !.tags = plain]
  <2> HIDE DEF fallback
  <2>1. ProcessTags(cfg, item, reply) =
          IF item.body.runes < 10 THEN Done(item)
          ELSE IF tags # <<>> THEN Done([item EXCEPT !.tags = Categorize(cfg, tags)])
          ELSE IF cfg.base.enableFallback /\ fallback # <<>> THEN Done([item EXCEPT !.tags = plain])
          ELSE Failed(item)
    BY DEF ProcessTags, fallback
  <2> HIDE DEF tags, plain
  <2> QED BY <2>1 DEF Done, Failed
<1> HIDE DEF c
<1>2. "tags" \in DOMAIN item
  BY DEF IsItem, ItemFields
<1>3. CASE c = item
  BY <1>3 DEF DiffersIn
<1>4. CASE tags # <<>> /\ c = [item EXCEPT !.tags = Categorize(cfg, tags)]
  <2>1. AreTags(cfg, tags)
    BY <1>4, NormalizedTags
  <2> HIDE DEF tags
  <2>2. c.tags = Categorize(cfg, tags)
    BY <1>2, <1>4
  <2>3. \A i \in DOMAIN c.tags : c.tags[i].tag \in ToSet(tags)
    BY <2>1, <2>2, CategorizedTags DEF AreTags
  <2>4. TagsConform(cfg, c.tags)
    BY <2>1, <2>3, TagsAreWithinLimits
  <2>5. DiffersIn(c, item, "tags")
    BY <1>4 DEF DiffersIn
  <2> QED
    BY <2>4, <2>5
<1>5. CASE c = [item EXCEPT !.tags = plain]
  <2>1. AreTags(cfg, fallback)
    BY FallbackTagsAre
  <2>2. c.tags = plain
    BY <1>2, <1>5
  <2>3. \A i \in DOMAIN c.tags : c.tags[i].tag \in ToSet(fallback)
    <3> HIDE DEF fallback
    <3>1. DOMAIN plain = DOMAIN fallback /\ \A i \in DOMAIN fallback : plain[i].tag = fallback[i]
      OBVIOUS
    <3>2. \A i \in DOMAIN fallback : fallback[i] \in ToSet(fallback)
      BY DEF ToSet
    <3> HIDE DEF plain
    <3> QED
      BY <2>2, <3>1, <3>2
  <2> HIDE DEF fallback
  <2>4. TagsConform(cfg, c.tags)
    BY <2>1, <2>3, TagsAreWithinLimits
  <2>5. DiffersIn(c, item, "tags")
    BY <1>5 DEF DiffersIn
  <2> QED
    BY <2>4, <2>5
<1> QED
  BY <1>1, <1>3, <1>4, <1>5

-----------------------------------------------------------------------------
(* llm_keywords.                                                           *)
AreKeywords(cfg, keywords) ==
  /\ IsList(keywords) /\ Len(keywords) <= Limit(cfg)
  /\ \A k \in ToSet(keywords) : Suitable(cfg, k)

LEMMA NormalizedKeywords ==
  ASSUME NEW cfg, Limit(cfg) \in Nat, NEW reply, IsReply("llm_keywords", reply), reply.ok
  PROVE  AreKeywords(cfg, NormalizeKeywords(cfg, reply))
<1> DEFINE phrases == IF cfg.includePhrases THEN reply.phrases ELSE <<>>
           candidates == reply.keywords \o phrases
           scored == DOMAIN reply.scores # {}
           score == [k \in ToSet(candidates) |-> IF k \in DOMAIN reply.scores THEN reply.scores[k] ELSE 0]
           I == {i \in DOMAIN candidates :
                  /\ Suitable(cfg, candidates[i])
                  /\ scored => score[candidates[i]] >= cfg.minImportanceScore}
           some == At(candidates, I)
           kept == Deduped(some)
           sorted == IF scored THEN ByScore(kept, score) ELSE kept
<1>1. NormalizeKeywords(cfg, reply) = First(sorted, Limit(cfg))
  BY DEF NormalizeKeywords
<1>2. /\ IsList(reply.keywords) /\ IsList(reply.phrases)
      /\ \A k \in DOMAIN reply.scores : reply.scores[k] \in Int
  BY DEF IsReply
<1>3. IsList(candidates)
  <2>1. IsList(phrases)
    BY <1>2, EmptySeq DEF IsList
  <2> HIDE DEF phrases
  <2> QED BY <1>2, <2>1, JoinIs
<1> HIDE DEF phrases, candidates
<1>4. \A k \in ToSet(candidates) : score[k] \in Int
  BY <1>2
<1> HIDE DEF score
<1>5. /\ IsList(some) /\ ToSet(some) \subseteq ToSet(candidates)
      /\ \A k \in ToSet(some) : Suitable(cfg, k)
  <2>1. I \subseteq DOMAIN candidates /\ \A i \in I : Suitable(cfg, candidates[i])
    OBVIOUS
  <2> HIDE DEF I
  <2>2. /\ IsList(some) /\ ToSet(some) \subseteq ToSet(candidates)
        /\ ToSet(some) = {candidates[i] : i \in I}
    BY <1>3, <2>1, SomeOfList
  <2> QED
    BY <2>1, <2>2
<1> HIDE DEF some
<1>6. IsList(kept) /\ ToSet(kept) \subseteq ToSet(some)
  BY <1>5, DedupedIs
<1> HIDE DEF kept
<1>7. IsList(sorted) /\ ToSet(sorted) = ToSet(kept)
  BY <1>4, <1>5, <1>6, ByScoreIs
<1> HIDE DEF sorted
<1>8. /\ IsList(First(sorted, Limit(cfg))) /\ Len(First(sorted, Limit(cfg))) <= Limit(cfg)
      /\ ToSet(First(sorted, Limit(cfg))) \subseteq ToSet(sorted)
  BY <1>7, FirstIs
<1> QED
  BY <1>1, <1>5, <1>6, <1>7, <1>8 DEF AreKeywords

LEMMA FallbackKeywordsAre ==
  ASSUME NEW cfg, Limit(cfg) \in Nat, NEW item, IsItem(item)
  PROVE  AreKeywords(cfg, FallbackKeywords(cfg, item))
<1> DEFINE text == item.title \o item.body.terms
           I == {i \in DOMAIN TermOrder : TermOrder[i] \in ToSet(text) /\ Suitable(cfg, TermOrder[i])}
           found == At(TermOrder, I)
           count == [t \in ToSet(found) |-> Cardinality({i \in DOMAIN text : text[i] = t})]
           sorted == ByScore(found, count)
           some == First(sorted, Limit(cfg))
<1>1. FallbackKeywords(cfg, item) = Deduped(some)
  BY DEF FallbackKeywords
<1>2. IsFiniteSet(DOMAIN text)
  <2>1. item.title \in Seq(Terms) /\ item.body.terms \in Seq(Terms)
    BY DEF IsItem, Texts
  <2>2. text \in Seq(Terms)
    BY <2>1, ConcatProperties
  <2> HIDE DEF text
  <2>3. DOMAIN text = 1 .. Len(text) /\ Len(text) \in Nat
    BY <2>2, LenProperties
  <2> QED
    BY <2>3, UpTo
<1>3. IsList(found) /\ \A k \in ToSet(found) : Suitable(cfg, k)
  <2>1. I \subseteq DOMAIN TermOrder /\ \A i \in I : Suitable(cfg, TermOrder[i])
    OBVIOUS
  <2>2. IsList(TermOrder)
    BY ContentProcessingAssumption
  <2> HIDE DEF I
  <2>3. IsList(found) /\ ToSet(found) = {TermOrder[i] : i \in I}
    BY <2>1, <2>2, SomeOfList
  <2> QED
    BY <2>1, <2>3
<1> HIDE DEF found
<1>4. \A t \in ToSet(found) : count[t] \in Int
  <2> HIDE DEF text
  <2> SUFFICES ASSUME NEW t \in ToSet(found)
               PROVE  Cardinality({i \in DOMAIN text : text[i] = t}) \in Int
    OBVIOUS
  <2> DEFINE T == {i \in DOMAIN text : text[i] = t}
  <2>1. T \in SUBSET DOMAIN text
    OBVIOUS
  <2> HIDE DEF T
  <2>2. Cardinality(T) \in Nat
    BY <1>2, <2>1, FS_Subset, FS_CardinalityType
  <2> QED
    BY <2>2 DEF T
<1> HIDE DEF count
<1>5. IsList(sorted) /\ ToSet(sorted) = ToSet(found)
  BY <1>3, <1>4, ByScoreIs
<1> HIDE DEF sorted
<1>6. IsList(some) /\ Len(some) <= Limit(cfg) /\ ToSet(some) \subseteq ToSet(sorted)
  BY <1>5, FirstIs
<1> HIDE DEF some
<1>7. /\ IsList(Deduped(some)) /\ Len(Deduped(some)) <= Len(some)
      /\ ToSet(Deduped(some)) \subseteq ToSet(some)
  BY <1>6, DedupedIs
<1>8. Len(Deduped(some)) \in Nat /\ Len(some) \in Nat
  BY <1>6, <1>7, ListIs
<1> QED
  BY <1>1, <1>3, <1>5, <1>6, <1>7, <1>8 DEF AreKeywords

LEMMA KeywordsProcessed ==
  ASSUME NEW cfg, Limit(cfg) \in Nat, NEW others,
         NEW item, IsItem(item), KeywordsConform(cfg, ToSet(item.keywords) \ others),
         NEW reply, IsReply("llm_keywords", reply)
  PROVE  LET c == ProcessKeywords(cfg, item, reply).item IN
         /\ DiffersIn(c, item, "keywords") /\ IsList(c.keywords)
         /\ KeywordsConform(cfg, ToSet(c.keywords) \ others)
<1> DEFINE keywords == IF reply.ok THEN NormalizeKeywords(cfg, reply) ELSE <<>>
           fallback == FallbackKeywords(cfg, item)
           c == ProcessKeywords(cfg, item, reply).item
<1> SUFFICES /\ DiffersIn(c, item, "keywords") /\ IsList(c.keywords)
             /\ KeywordsConform(cfg, ToSet(c.keywords) \ others)
  OBVIOUS
<1>1. \/ c = item
      \/ keywords # <<>> /\ c = [item EXCEPT !.keywords = keywords]
      \/ c = [item EXCEPT !.keywords = fallback]
  <2> HIDE DEF fallback
  <2>1. ProcessKeywords(cfg, item, reply) =
          IF item.body.runes < 20 THEN Done(item)
          ELSE IF keywords # <<>> THEN Done([item EXCEPT !.keywords = keywords])
          ELSE IF cfg.base.enableFallback /\ fallback # <<>> THEN Done([item EXCEPT !.keywords = fallback])
          ELSE Failed(item)
    BY DEF ProcessKeywords, fallback
  <2> HIDE DEF keywords
  <2> QED BY <2>1 DEF Done, Failed
<1> HIDE DEF c
<1>2. "keywords" \in DOMAIN item
  BY DEF IsItem, ItemFields
<1>3. CASE c = item
  BY <1>3 DEF DiffersIn, IsItem
<1>4. ASSUME NEW some, AreKeywords(cfg, some), c = [item EXCEPT !.keywords = some]
      PROVE  /\ DiffersIn(c, item, "keywords") /\ IsList(c.keywords)
             /\ KeywordsConform(cfg, ToSet(c.keywords) \ others)
  <2>1. c.keywords = some /\ DiffersIn(c, item, "keywords")
    BY <1>2, <1>4 DEF DiffersIn
  <2>2. /\ IsList(some) /\ Len(some) \in Nat /\ Len(some) <= Limit(cfg)
        /\ \A k \in ToSet(some) : Suitable(cfg, k)
    BY <1>4, ListIs DEF AreKeywords
  <2>3. IsFiniteSet(ToSet(some)) /\ Cardinality(ToSet(some)) \in Nat /\ Cardinality(ToSet(some)) <= Len(some)
    BY <2>2, ListCounts
  <2> DEFINE rest == ToSet(some) \ others
  <2>4. rest \in SUBSET ToSet(some)
    OBVIOUS
  <2> HIDE DEF rest
  <2>5. IsFiniteSet(rest) /\ Cardinality(rest) \in Nat /\ Cardinality(rest) <= Cardinality(ToSet(some))
    BY <2>3, <2>4, FS_Subset, FS_CardinalityType
  <2>6. Cardinality(rest) <= Limit(cfg)
    BY <2>2, <2>3, <2>5
  <2>7. KeywordsConform(cfg, rest)
    BY <2>2, <2>4, <2>5, <2>6 DEF KeywordsConform
  <2> QED
    BY <2>1, <2>2, <2>7 DEF rest
<1>5. CASE keywords # <<>> /\ c = [item EXCEPT !.keywords = keywords]
  <2>1. AreKeywords(cfg, keywords)
    BY <1>5, NormalizedKeywords
  <2> HIDE DEF keywords
  <2> QED BY <1>4, <1>5, <2>1
<1>6. CASE c = [item EXCEPT !.keywords = fallback]
  <2>1. AreKeywords(cfg, fallback)
    BY FallbackKeywordsAre
  <2> HIDE DEF fallback
  <2> QED BY <1>4, <1>6, <2>1
<1> QED
  BY <1>1, <1>3, <1>5, <1>6

(* The scraper's own keywords come in addition.                            *)
LEMMA KeywordsMerged ==
  ASSUME NEW defaults, IsList(defaults), NEW item, IsItem(item)
  PROVE  LET keywords == MergeKeywords(defaults, item) IN
         IsList(keywords) /\ ToSet(keywords) \subseteq ToSet(defaults) \cup ToSet(item.keywords)
<1> DEFINE all == defaults \o item.keywords
           I == {i \in DOMAIN all : \A j \in 1 .. i - 1 : all[j] # all[i]}
<1>1. MergeKeywords(defaults, item) = At(all, I)
  BY DEF MergeKeywords
<1>2. IsList(all) /\ ToSet(all) = ToSet(defaults) \cup ToSet(item.keywords)
  BY JoinIs DEF IsItem
<1>3. I \subseteq DOMAIN all
  OBVIOUS
<1> HIDE DEF all, I
<1> QED
  BY <1>1, <1>2, <1>3, SomeOfList

-----------------------------------------------------------------------------
(* html_content.                                                           *)
LEMMA FirstNonBlankIs ==
  ASSUME NEW texts \in Seq(Texts)
  PROVE  FirstNonBlank(texts) \in Texts
<1> DEFINE given == {i \in DOMAIN texts : texts[i].runes > 0}
<1>1. texts \in [1 .. Len(texts) -> Texts] /\ Len(texts) \in Nat
  BY LenProperties
<1>2. given \subseteq Nat /\ given \subseteq DOMAIN texts
  BY <1>1
<1>3. FirstNonBlank(texts) = IF given = {} THEN Blank ELSE texts[Min(given)]
  BY DEF FirstNonBlank
<1>4. Blank \in Texts
  BY EmptySeq DEF Blank, Texts
<1> HIDE DEF given
<1>5. given # {} => Min(given) \in given
  BY <1>2, Least
<1>6. given # {} => texts[Min(given)] \in Texts
  BY <1>1, <1>2, <1>5
<1> QED
  BY <1>3, <1>4, <1>6

LEMMA HTMLProcessed ==
  ASSUME NEW cfg, NEW item, IsItem(item), NEW reply, IsReply("html_content", reply)
  PROVE  LET c == ProcessHTML(cfg, item, reply).item IN
         DiffersIn(c, item, "body") /\ c.body \in Texts
<1> DEFINE body == FirstNonBlank(Page(cfg, reply))
           c == ProcessHTML(cfg, item, reply).item
<1> SUFFICES DiffersIn(c, item, "body") /\ c.body \in Texts
  OBVIOUS
<1>1. Page(cfg, reply) \in Seq(Texts)
  BY DEF Page, IsReply
<1>2. body \in Texts
  BY <1>1, FirstNonBlankIs
<1>3. c = item \/ c = [item EXCEPT !.body = body]
  <2>1. ProcessHTML(cfg, item, reply) =
          IF body.runes = 0 THEN Failed(item) ELSE Done([item EXCEPT !.body = body])
    BY DEF ProcessHTML
  <2> HIDE DEF body
  <2> QED BY <2>1 DEF Failed, Done
<1> HIDE DEF c, body
<1>4. item.body \in Texts /\ "body" \in DOMAIN item
  BY DEF IsItem, ItemFields
<1> QED
  BY <1>2, <1>3, <1>4 DEF DiffersIn

-----------------------------------------------------------------------------
(* llm_summary.                                                            *)
LEMMA SequenceIsList ==
  ASSUME NEW S, NEW s \in Seq(S)
  PROVE  IsList(s) /\ ToSet(s) \subseteq S
<1>1. s \in [1 .. Len(s) -> S] /\ Len(s) \in Nat
  BY LenProperties
<1> QED
  BY <1>1, MakesList

LEMMA ListIsSequence ==
  ASSUME NEW S, NEW s, IsList(s), ToSet(s) \subseteq S
  PROVE  s \in Seq(S)
BY SeqMonotonic DEF IsList

SummaryBound(cfg) ==
  IF cfg.summaryStyle = "bullet_points" THEN 3 * (1 + Greater(8, cfg.maxSummaryLength \div 3))
  ELSE cfg.maxSummaryLength

LEMMA FallbackSummaryIs ==
  ASSUME NEW cfg, cfg.maxSummaryLength \in Nat \ {0}, NEW item, IsItem(item)
  PROVE  FallbackSummary(cfg, item) \in Nat /\ FallbackSummary(cfg, item) <= SummaryBound(cfg)
<1> DEFINE sentences == IF item.body.sentences # <<>> THEN First(item.body.sentences, 3)
                        ELSE IF item.title # <<>> THEN <<Len(item.title)>> ELSE <<>>
           limit == cfg.maxSummaryLength
           line == Greater(8, limit \div 3)
           lines == [i \in DOMAIN sentences |-> 1 + Lesser(sentences[i], line)]
<1>1. item.title \in Seq(Terms) /\ item.body.sentences \in Seq(Nat)
  BY DEF IsItem, Texts
<1>2. sentences \in Seq(Nat) /\ Len(sentences) <= 3
  <2>1. CASE item.body.sentences # <<>>
    <3> DEFINE s == item.body.sentences
    <3>1. IsList(s) /\ ToSet(s) \subseteq Nat
      BY <1>1, SequenceIsList
    <3>2. IsList(First(s, 3)) /\ Len(First(s, 3)) <= 3 /\ ToSet(First(s, 3)) \subseteq ToSet(s)
      BY <3>1, FirstIs
    <3>3. First(s, 3) \in Seq(Nat)
      BY <3>1, <3>2, ListIsSequence
    <3> QED
      BY <2>1, <3>2, <3>3
  <2>2. CASE item.body.sentences = <<>> /\ item.title # <<>>
    <3>1. Len(item.title) \in Nat
      BY <1>1, LenProperties
    <3> DEFINE n == Len(item.title)
    <3>2. <<n>> \in Seq(Nat) /\ Len(<<n>>) = 1
      <4> HIDE DEF n
      <4> QED BY <3>1 DEF n
    <3> QED
      BY <2>2, <3>2
  <2>3. CASE item.body.sentences = <<>> /\ item.title = <<>>
    <3>1. <<>> \in Seq(Nat) /\ Len(<<>>) = 0
      BY EmptySeq
    <3> QED
      BY <2>3, <3>1
  <2> QED
    BY <2>1, <2>2, <2>3
<1>3. limit \in Nat /\ line \in Nat /\ limit > 0
  BY DEF Greater
<1>4. /\ FallbackSummary(cfg, item) =
           CASE cfg.summaryStyle = "bullet_points" -> Sum(lines)
             [] cfg.summaryStyle = "detailed" -> Lesser(Sum(sentences), limit)
             [] cfg.summaryStyle = "executive" -> Lesser(Sum(First(sentences, 2)), limit)
             [] OTHER -> Lesser(Sum(First(sentences, 1)), limit)
      /\ SummaryBound(cfg) = IF cfg.summaryStyle = "bullet_points" THEN 3 * (1 + line) ELSE limit
  BY DEF FallbackSummary, SummaryBound
<1> HIDE DEF sentences, limit, line
<1>5. /\ IsList(sentences) /\ ToSet(sentences) \subseteq Nat
      /\ DOMAIN sentences = 1 .. Len(sentences) /\ Len(sentences) \in Nat
      /\ \A i \in DOMAIN sentences : sentences[i] \in Nat
  <2>1. IsList(sentences) /\ ToSet(sentences) \subseteq Nat
    BY <1>2, SequenceIsList
  <2>2. DOMAIN sentences = 1 .. Len(sentences) /\ Len(sentences) \in Nat
    BY <2>1, ListIs
  <2>3. \A i \in DOMAIN sentences : sentences[i] \in Nat
    BY <2>1 DEF ToSet
  <2> QED
    BY <2>1, <2>2, <2>3
<1>6. Sum(lines) \in Nat /\ Sum(lines) <= 3 * (1 + line)
  <2>1. lines \in [1 .. Len(sentences) -> Nat] /\ \A i \in 1 .. Len(sentences) : lines[i] <= 1 + line
    BY <1>3, <1>5 DEF Lesser
  <2> HIDE DEF lines
  <2>2. IsList(lines) /\ Len(lines) = Len(sentences) /\ ToSet(lines) \subseteq Nat
    BY <1>5, <2>1, MakesList
  <2>3. lines \in Seq(Nat) /\ Len(lines) <= 3
    BY <1>2, <2>2, ListIsSequence
  <2>4. 1 + line \in Nat /\ \A i \in DOMAIN lines : lines[i] <= 1 + line
    BY <1>3, <2>1
  <2> QED
    BY <2>3, <2>4, SumIs
<1> HIDE DEF lines
<1>7. Sum(sentences) \in Nat
  BY <1>2, SumIs
<1>8. ASSUME NEW n \in {1, 2} PROVE Sum(First(sentences, n)) \in Nat
  <2>1. /\ IsList(First(sentences, n)) /\ Len(First(sentences, n)) <= n
        /\ ToSet(First(sentences, n)) \subseteq ToSet(sentences)
    BY <1>5, FirstIs
  <2>2. First(sentences, n) \in Seq(Nat) /\ Len(First(sentences, n)) \in Nat
    BY <1>5, <2>1, ListIsSequence, ListIs
  <2>3. Len(First(sentences, n)) <= 3
    BY <2>1, <2>2
  <2> QED
    BY <2>2, <2>3, SumIs
<1>9. \A n \in Nat : Lesser(n, limit) \in Nat /\ Lesser(n, limit) <= limit
  BY <1>3 DEF Lesser
<1>10. CASE cfg.summaryStyle = "bullet_points"
  BY <1>4, <1>6, <1>10
<1>11. CASE cfg.summaryStyle # "bullet_points"
  BY <1>4, <1>7, <1>8, <1>9, <1>11
<1> QED
  BY <1>10, <1>11

LEMMA SummaryProcessed ==
  ASSUME NEW cfg, cfg.maxSummaryLength \in Nat \ {0},
         NEW item, IsItem(item), SummaryConforms(cfg, item.summary),
         NEW reply, IsReply("llm_summary", reply)
  PROVE  LET c == ProcessSummary(cfg, item, reply).item IN
         /\ DiffersIn(c, item, "summary") /\ SummaryConforms(cfg, c.summary)
         /\ c.summary = item.summary \/ c.summary.by \in {"model", "fallback"}
<1> DEFINE c == ProcessSummary(cfg, item, reply).item
           fallback == FallbackSummary(cfg, item)
           limit == cfg.maxSummaryLength
<1> DEFINE Goal == /\ DiffersIn(c, item, "summary") /\ SummaryConforms(cfg, c.summary)
                   /\ c.summary = item.summary \/ c.summary.by \in {"model", "fallback"}
<1> SUFFICES Goal
  OBVIOUS
<1>1. fallback \in Nat /\ fallback <= SummaryBound(cfg)
  BY FallbackSummaryIs
<1>2. limit \in Nat /\ SummaryBound(cfg) \in Nat /\ limit <= SummaryBound(cfg)
  BY DEF SummaryBound, Greater
<1>3. ASSUME NEW by \in {"model", "fallback"}, NEW size,
             size <= IF by = "model" THEN limit ELSE SummaryBound(cfg),
             c = [item EXCEPT !.summary = [by |-> by, size |-> size]]
      PROVE  Goal
  <2>1. c.summary = [by |-> by, size |-> size] /\ DiffersIn(c, item, "summary")
    BY <1>3 DEF IsItem, ItemFields, DiffersIn
  <2> QED
    BY <1>3, <2>1 DEF SummaryConforms, SummaryBound
<1>4. \/ c = item
      \/ c = [item EXCEPT !.summary = [by |-> "fallback", size |-> fallback]]
      \/ /\ reply.ok
         /\ c = [item EXCEPT !.summary = [by |-> "model", size |-> Lesser(reply.words, limit)]]
      \/ c = [item EXCEPT !.summary = [by |-> "model", size |-> Lesser(fallback, limit)]]
  <2> DEFINE few == item.body.words \notin 50 .. 5000
             some == reply.words > 0
             none == fallback = 0
  <2>1. ProcessSummary(cfg, item, reply) =
          IF few THEN IF none THEN Failed(item) ELSE Summarized(item, "fallback", fallback)
          ELSE IF reply.ok /\ some THEN Summarized(item, "model", Lesser(reply.words, limit))
          ELSE IF ~cfg.base.enableFallback THEN Failed(item)
          ELSE IF ~reply.ok THEN Summarized(item, "fallback", fallback)
          ELSE IF none THEN Failed(item)
          ELSE Summarized(item, "model", Lesser(fallback, limit))
    BY DEF ProcessSummary
  <2> HIDE DEF fallback, limit, few, some, none
  <2>2. \/ ProcessSummary(cfg, item, reply) = Failed(item)
        \/ ProcessSummary(cfg, item, reply) = Summarized(item, "fallback", fallback)
        \/ /\ reply.ok
           /\ ProcessSummary(cfg, item, reply) = Summarized(item, "model", Lesser(reply.words, limit))
        \/ ProcessSummary(cfg, item, reply) = Summarized(item, "model", Lesser(fallback, limit))
    <3>1. CASE reply.ok
      BY <2>1, <3>1
    <3>2. CASE ~reply.ok
      BY <2>1, <3>2
    <3> QED
      BY <3>1, <3>2
  <2>3. \A by, size : Summarized(item, by, size).item = [item EXCEPT !.summary = [by |-> by, size |-> size]]
    BY DEF Summarized, Done
  <2>4. Failed(item).item = item
    BY DEF Failed
  <2> QED
    BY <2>2, <2>3, <2>4
<1> HIDE DEF c, fallback, limit
<1>5. CASE c = item
  BY <1>5 DEF DiffersIn
<1>6. CASE c = [item EXCEPT !.summary = [by |-> "fallback", size |-> fallback]]
  BY <1>1, <1>3, <1>6
<1>7. CASE reply.ok /\ c = [item EXCEPT !.summary = [by |-> "model", size |-> Lesser(reply.words, limit)]]
  <2>1. reply.words \in Nat
    BY <1>7 DEF IsReply
  <2>2. Lesser(reply.words, limit) <= limit
    BY <1>2, <2>1 DEF Lesser
  <2> QED
    BY <1>3, <1>7, <2>2
<1>8. CASE c = [item EXCEPT !.summary = [by |-> "model", size |-> Lesser(fallback, limit)]]
  <2>1. Lesser(fallback, limit) <= limit
    BY <1>1, <1>2 DEF Lesser
  <2> QED
    BY <1>3, <1>8, <2>1
<1> QED
  BY <1>4, <1>5, <1>6, <1>7, <1>8

-----------------------------------------------------------------------------
(* The processors of a scraper, and what a content is as they leave it.    *)
Defaults(d) == ToSet(d.default_keywords.value)

Conforms(d, c) ==
  /\ FeedSummaryFits(c.summary)
  /\ \A p \in ToSet(Pipeline(d)) :
       /\ p.name = "llm_tags" => TagsConform(p.config, c.tags)
       /\ p.name = "llm_keywords" => KeywordsConform(p.config, ToSet(c.keywords) \ Defaults(d))
       /\ p.name = "llm_summary" => SummaryConforms(p.config, c.summary)

LEMMA SameFields ==
  ASSUME NEW item, IsItem(item), NEW field, NEW c, DiffersIn(c, item, field)
  PROVE  DOMAIN c = ItemFields /\ \A f \in ItemFields : f = field \/ c[f] = item[f]
BY DEF IsItem, DiffersIn

LEMMA ItemProcessed ==
  ASSUME NEW d, IsDocument(d), Accepted(d), NEW p \in ToSet(Pipeline(d)),
         NEW item, IsItem(item), Conforms(d, item), NEW reply, IsReply(p.name, reply)
  PROVE  LET c == ProcessOne(p, item, reply).item IN
         c.id = item.id /\ IsItem(c) /\ Conforms(d, c)
<1> DEFINE c == ProcessOne(p, item, reply).item
<1> SUFFICES c.id = item.id /\ IsItem(c) /\ Conforms(d, c)
  OBVIOUS
<1>1. p.name \in Supported /\ \A q \in ToSet(Pipeline(d)) : q.name = p.name => q = p
  BY PipelineIs
<1>2. /\ p.name = "llm_tags" => TagsConform(p.config, item.tags)
      /\ p.name = "llm_keywords" => KeywordsConform(p.config, ToSet(item.keywords) \ Defaults(d))
      /\ p.name = "llm_summary" => SummaryConforms(p.config, item.summary)
  BY DEF Conforms
<1>3. item.title \in Seq(Terms) /\ item.body \in Texts /\ IsList(item.keywords)
  BY DEF IsItem
<1>4. CASE p.name = "html_content"
  <2>1. c = ProcessHTML(p.config.base, item, reply).item
    BY <1>4 DEF ProcessOne
  <2> HIDE DEF c
  <2>2. DiffersIn(c, item, "body") /\ c.body \in Texts
    BY <1>4, <2>1, HTMLProcessed
  <2>3. DOMAIN c = ItemFields /\ \A f \in ItemFields : f = "body" \/ c[f] = item[f]
    BY <2>2, SameFields
  <2>4. /\ c.id = item.id /\ c.title = item.title /\ c.keywords = item.keywords
        /\ c.tags = item.tags /\ c.summary = item.summary
    BY <2>3 DEF ItemFields
  <2> QED
    BY <1>3, <2>2, <2>3, <2>4 DEF IsItem, Conforms
<1>5. CASE p.name = "llm_summary"
  <2>1. c = ProcessSummary(p.config, item, reply).item
    BY <1>5 DEF ProcessOne
  <2> HIDE DEF c
  <2>2. /\ DiffersIn(c, item, "summary") /\ SummaryConforms(p.config, c.summary)
        /\ c.summary = item.summary \/ c.summary.by \in {"model", "fallback"}
    BY <1>2, <1>5, <2>1, SummaryProcessed, ConfigIs
  <2>3. DOMAIN c = ItemFields /\ \A f \in ItemFields : f = "summary" \/ c[f] = item[f]
    BY <2>2, SameFields
  <2>4. /\ c.id = item.id /\ c.title = item.title /\ c.keywords = item.keywords
        /\ c.tags = item.tags /\ c.body = item.body
    BY <2>3 DEF ItemFields
  <2>5. IsItem(c)
    BY <1>3, <2>3, <2>4 DEF IsItem
  <2>6. FeedSummaryFits(c.summary)
    BY <2>2 DEF Conforms, FeedSummaryFits
  <2>7. Conforms(d, c)
    BY <1>1, <1>5, <2>2, <2>4, <2>6 DEF Conforms
  <2> QED
    BY <2>4, <2>5, <2>7
<1>6. CASE p.name = "llm_tags"
  <2>1. c = ProcessTags(p.config, item, reply).item
    BY <1>6 DEF ProcessOne
  <2> HIDE DEF c
  <2>2. DiffersIn(c, item, "tags") /\ TagsConform(p.config, c.tags)
    BY <1>2, <1>6, <2>1, TagsProcessed, ConfigIs
  <2>3. DOMAIN c = ItemFields /\ \A f \in ItemFields : f = "tags" \/ c[f] = item[f]
    BY <2>2, SameFields
  <2>4. /\ c.id = item.id /\ c.title = item.title /\ c.keywords = item.keywords
        /\ c.summary = item.summary /\ c.body = item.body
    BY <2>3 DEF ItemFields
  <2>5. IsItem(c)
    BY <1>3, <2>3, <2>4 DEF IsItem
  <2>6. Conforms(d, c)
    BY <1>1, <1>6, <2>2, <2>4 DEF Conforms
  <2> QED
    BY <2>4, <2>5, <2>6
<1>7. CASE p.name = "llm_keywords"
  <2>1. c = ProcessKeywords(p.config, item, reply).item
    BY <1>7 DEF ProcessOne
  <2> HIDE DEF c
  <2>2. /\ DiffersIn(c, item, "keywords") /\ IsList(c.keywords)
        /\ KeywordsConform(p.config, ToSet(c.keywords) \ Defaults(d))
    BY <1>2, <1>7, <2>1, KeywordsProcessed, ConfigIs
  <2>3. DOMAIN c = ItemFields /\ \A f \in ItemFields : f = "keywords" \/ c[f] = item[f]
    BY <2>2, SameFields
  <2>4. /\ c.id = item.id /\ c.title = item.title /\ c.tags = item.tags
        /\ c.summary = item.summary /\ c.body = item.body
    BY <2>3 DEF ItemFields
  <2>5. IsItem(c)
    BY <1>3, <2>2, <2>3, <2>4 DEF IsItem
  <2>6. Conforms(d, c)
    BY <1>1, <1>7, <2>2, <2>4 DEF Conforms
  <2> QED
    BY <2>4, <2>5, <2>6
<1> QED
  BY <1>1, <1>4, <1>5, <1>6, <1>7 DEF Supported

LEMMA ItemMerged ==
  ASSUME NEW d, IsDocument(d), Accepted(d), NEW item, IsItem(item), Conforms(d, item)
  PROVE  LET c == [item EXCEPT !.keywords = MergeKeywords(d.default_keywords.value, item)] IN
         c.id = item.id /\ IsItem(c) /\ Conforms(d, c)
<1> DEFINE keywords == MergeKeywords(d.default_keywords.value, item)
           c == [item EXCEPT !.keywords = keywords]
<1> SUFFICES c.id = item.id /\ IsItem(c) /\ Conforms(d, c)
  OBVIOUS
<1>1. IsList(d.default_keywords.value)
  BY DEF IsDocument, Decoded, Accepted, Loadable
<1>2. IsList(keywords) /\ ToSet(keywords) \subseteq Defaults(d) \cup ToSet(item.keywords)
  BY <1>1, KeywordsMerged DEF Defaults
<1>3. /\ DOMAIN item = ItemFields
      /\ item.title \in Seq(Terms) /\ item.body \in Texts /\ IsList(item.keywords)
  BY DEF IsItem
<1> HIDE DEF keywords
<1>4. /\ DOMAIN c = ItemFields /\ c.keywords = keywords
      /\ c.id = item.id /\ c.title = item.title /\ c.tags = item.tags
      /\ c.summary = item.summary /\ c.body = item.body
  BY <1>3 DEF ItemFields
<1> HIDE DEF c
<1>5. IsItem(c)
  BY <1>2, <1>3, <1>4 DEF IsItem
<1>6. ASSUME NEW cfg, Limit(cfg) \in Nat, KeywordsConform(cfg, ToSet(item.keywords) \ Defaults(d))
      PROVE  KeywordsConform(cfg, ToSet(keywords) \ Defaults(d))
  <2> DEFINE old == ToSet(item.keywords) \ Defaults(d)
             new == ToSet(keywords) \ Defaults(d)
  <2>1. new \in SUBSET old
    BY <1>2
  <2>2. /\ \A k \in old : Suitable(cfg, k)
        /\ IsFiniteSet(old) /\ Cardinality(old) <= Limit(cfg)
    BY <1>6 DEF KeywordsConform
  <2> HIDE DEF old, new
  <2>3. /\ IsFiniteSet(new) /\ Cardinality(new) \in Nat /\ Cardinality(old) \in Nat
        /\ Cardinality(new) <= Cardinality(old)
    BY <2>1, <2>2, FS_Subset, FS_CardinalityType
  <2>4. Cardinality(new) <= Limit(cfg)
    BY <1>6, <2>2, <2>3
  <2>5. KeywordsConform(cfg, new)
    BY <2>1, <2>2, <2>3, <2>4 DEF KeywordsConform
  <2> QED
    BY <2>5 DEF new
<1>7. Conforms(d, c)
  <2> SUFFICES ASSUME NEW p \in ToSet(Pipeline(d))
               PROVE  /\ p.name = "llm_tags" => TagsConform(p.config, c.tags)
                      /\ p.name = "llm_keywords" => KeywordsConform(p.config, ToSet(c.keywords) \ Defaults(d))
                      /\ p.name = "llm_summary" => SummaryConforms(p.config, c.summary)
    BY <1>4 DEF Conforms
  <2>1. p.name = "llm_keywords" => Limit(p.config) \in Nat
    BY ConfigIs
  <2> QED
    BY <1>4, <1>6, <2>1 DEF Conforms
<1> QED
  BY <1>4, <1>5, <1>7

-----------------------------------------------------------------------------
(* What a fetch yields.                                                    *)
LEMMA FilterQualityIs ==
  ASSUME NEW s, IsList(s)
  PROVE  /\ IsList(FilterQuality(s)) /\ ToSet(FilterQuality(s)) \subseteq ToSet(s)
         /\ \A c \in ToSet(FilterQuality(s)) : Complete(c)
         /\ \A c \in ToSet(s) : Complete(c) => \E e \in ToSet(FilterQuality(s)) : e.id = c.id
<1> DEFINE Same(i, j) == s[j].id = s[i].id /\ Complete(s[j])
           I == {i \in DOMAIN s : Complete(s[i]) /\ ~\E j \in 1 .. i - 1 : Same(i, j)}
<1>1. FilterQuality(s) = At(s, I)
  BY DEF FilterQuality
<1>2. DOMAIN s = 1 .. Len(s) /\ Len(s) \in Nat
  BY ListIs
<1>3. I \subseteq DOMAIN s /\ \A i \in I : Complete(s[i])
  OBVIOUS
<1>4. ASSUME NEW c \in ToSet(s), Complete(c)
      PROVE  \E i \in I : s[i].id = c.id
  <2>1. PICK k \in DOMAIN s : s[k] = c
    BY DEF ToSet
  <2> DEFINE J == {j \in DOMAIN s : Same(k, j)}
             first == Min(J)
  <2>2. J \subseteq Nat /\ k \in J
    BY <1>2, <1>4, <2>1
  <2>3. first \in J /\ \A j \in J : first <= j
    <3> HIDE DEF J
    <3> QED BY <2>2, Least
  <2>4. first \in DOMAIN s /\ s[first].id = c.id /\ Complete(s[first])
    <3> HIDE DEF first
    <3> QED BY <2>1, <2>3
  <2>5. ~\E j \in 1 .. first - 1 : Same(first, j)
    <3> SUFFICES ASSUME NEW j \in 1 .. first - 1, Same(first, j) PROVE FALSE
      OBVIOUS
    <3> HIDE DEF first
    <3>1. j \in DOMAIN s /\ j < first
      BY <1>2, <2>4
    <3>2. j \in J
      BY <2>1, <2>4, <3>1
    <3> HIDE DEF J
    <3> QED
      BY <1>2, <2>3, <2>4, <3>1, <3>2
  <2> HIDE DEF first, J
  <2>6. first \in I
    BY <2>4, <2>5
  <2> QED
    BY <2>4, <2>6
<1> HIDE DEF I
<1>5. /\ IsList(At(s, I)) /\ ToSet(At(s, I)) \subseteq ToSet(s)
      /\ ToSet(At(s, I)) = {s[i] : i \in I}
  BY <1>3, SomeOfList
<1>6. \A c \in ToSet(At(s, I)) : Complete(c)
  BY <1>3, <1>5
<1>7. \A c \in ToSet(s) : Complete(c) => \E e \in ToSet(At(s, I)) : e.id = c.id
  BY <1>4, <1>5
<1> QED
  BY <1>1, <1>5, <1>6, <1>7

LEMMA ContentsBuilt ==
  ASSUME NEW feed, IsFeed(feed), NEW d, IsDocument(d), Accepted(d)
  PROVE  /\ IsList(BuildContents(feed))
         /\ \A c \in ToSet(BuildContents(feed)) : IsItem(c) /\ Conforms(d, c)
<1> DEFINE built == BuildContents(feed)
           entries == feed.entries
           Item(entry) == [id |-> StableContentID(entry, PublishedText(feed.type, entry)),
                           title |-> entry.title,
                           page |-> entry.link.page,
                           summary |-> TruncateSummary(entry.description),
                           body |-> BestEffortContent(entry),
                           published |-> PublishedText(feed.type, entry),
                           tags |-> <<>>,
                           keywords |-> <<>>]
<1>1. built = [i \in DOMAIN entries |-> Item(entries[i])]
  BY DEF BuildContents
<1>2. IsList(entries)
  BY DEF IsFeed
<1>3. ASSUME NEW i \in DOMAIN entries PROVE IsItem(Item(entries[i])) /\ Conforms(d, Item(entries[i]))
  <2> DEFINE entry == entries[i]
             c == Item(entry)
  <2>1. /\ entry.title \in Seq(Terms)
        /\ entry.content \in Texts /\ entry.description \in Texts /\ entry.custom \in Texts
    BY DEF IsFeed
  <2>2. BestEffortContent(entry) \in Texts
    <3>1. <<entry.content, entry.description, entry.custom>> \in Seq(Texts)
      <4> DEFINE t == <<entry.content, entry.description, entry.custom>>
      <4>1. t \in [1 .. 3 -> Texts]
        BY <2>1
      <4> HIDE DEF t
      <4>2. IsList(t) /\ ToSet(t) \subseteq Texts
        BY <4>1, MakesList
      <4>3. t \in Seq(Texts)
        BY <4>2, ListIsSequence
      <4> QED
        BY <4>3 DEF t
    <3> QED
      BY <3>1, FirstNonBlankIs DEF BestEffortContent
  <2>3. /\ DOMAIN c = ItemFields
        /\ c.title = entry.title /\ c.body = BestEffortContent(entry)
        /\ c.summary = TruncateSummary(entry.description)
        /\ c.tags = <<>> /\ c.keywords = <<>>
    BY DEF ItemFields
  <2>4. c.summary.by \in {"none", "feed"} /\ FeedSummaryFits(c.summary)
    <3>1. entry.description.runes \in Nat /\ SummaryMaxLength \in Nat
      BY <2>1, ContentProcessingAssumption DEF Texts
    <3> QED
      BY <2>3, <3>1 DEF TruncateSummary, NoSummary, FeedSummaryFits, Lesser
  <2> HIDE DEF c
  <2>5. IsList(c.keywords) /\ ToSet(c.keywords) = {} /\ DOMAIN c.tags = {}
    BY <2>3, EmptySeq DEF IsList, ToSet
  <2>6. IsItem(c)
    BY <2>1, <2>2, <2>3, <2>5 DEF IsItem
  <2>7. Conforms(d, c)
    <3> SUFFICES ASSUME NEW p \in ToSet(Pipeline(d))
                 PROVE  /\ p.name = "llm_tags" => TagsConform(p.config, c.tags)
                        /\ p.name = "llm_keywords" => KeywordsConform(p.config, ToSet(c.keywords) \ Defaults(d))
                        /\ p.name = "llm_summary" => SummaryConforms(p.config, c.summary)
      BY <2>4 DEF Conforms
    <3>1. p.name = "llm_tags" => TagsConform(p.config, c.tags)
      <4>1. {Word(c.tags[k].tag) : k \in DOMAIN c.tags} = {}
        BY <2>5
      <4>2. p.name = "llm_tags" => p.config.maxTags \in Nat
        BY ConfigIs
      <4> QED
        BY <2>5, <4>1, <4>2, FS_EmptySet DEF TagsConform
    <3>2. p.name = "llm_keywords" => KeywordsConform(p.config, ToSet(c.keywords) \ Defaults(d))
      <4>1. ToSet(c.keywords) \ Defaults(d) = {}
        BY <2>5
      <4>2. p.name = "llm_keywords" => Limit(p.config) \in Nat
        BY ConfigIs
      <4>3. p.name = "llm_keywords" => KeywordsConform(p.config, {})
        BY <4>2, FS_EmptySet DEF KeywordsConform
      <4> QED
        BY <4>1, <4>3
    <3>3. SummaryConforms(p.config, c.summary)
      BY <2>4 DEF SummaryConforms
    <3> QED
      BY <3>1, <3>2, <3>3
  <2> QED
    BY <2>6, <2>7 DEF c
<1>4. /\ IsList(built)
      /\ \A c \in ToSet(built) : \E i \in DOMAIN entries : c = Item(entries[i])
  <2> HIDE DEF Item
  <2>1. built \in [DOMAIN entries -> {Item(entries[i]) : i \in DOMAIN entries}]
    BY <1>1
  <2> HIDE DEF built
  <2>2. IsList(built) /\ ToSet(built) \subseteq {Item(entries[i]) : i \in DOMAIN entries}
    BY <1>2, <2>1, EachOfList
  <2> QED
    BY <2>2
<1> HIDE DEF Item, built
<1>5. \A c \in ToSet(built) : IsItem(c) /\ Conforms(d, c)
  BY <1>3, <1>4
<1> QED
  BY <1>4, <1>5 DEF built

LEMMA FetchedIs ==
  ASSUME NEW feed, IsFeed(feed), NEW d, IsDocument(d), Accepted(d)
  PROVE  LET found == Fetched(feed, d) IN
         /\ IsList(found) /\ \A c \in ToSet(found) : IsItem(c) /\ Conforms(d, c) /\ Complete(c)
         /\ IsList(FilterQuality(found)) /\ ToSet(FilterQuality(found)) \subseteq ToSet(found)
         /\ \A c \in ToSet(found) : \E e \in ToSet(FilterQuality(found)) : e.id = c.id
<1> DEFINE built == BuildContents(feed)
           timely == FilterByTimeRange(built, d)
           I == {i \in DOMAIN built : /\ built[i].published > 0
                                      /\ 10 * built[i].published >= 10 * Now - FilterTenths(d)}
           found == Fetched(feed, d)
<1>1. IsList(built) /\ \A c \in ToSet(built) : IsItem(c) /\ Conforms(d, c)
  BY ContentsBuilt
<1> HIDE DEF built
<1>2. IsList(timely) /\ ToSet(timely) \subseteq ToSet(built)
  <2>1. timely = IF FilterIsOff(d) THEN built ELSE At(built, I)
    BY DEF FilterByTimeRange
  <2>2. I \subseteq DOMAIN built
    OBVIOUS
  <2> HIDE DEF I, timely
  <2>3. IsList(At(built, I)) /\ ToSet(At(built, I)) \subseteq ToSet(built)
    BY <1>1, <2>2, SomeOfList
  <2> QED
    BY <1>1, <2>1, <2>3
<1>3. found = FilterQuality(timely)
  BY DEF Fetched, built
<1> HIDE DEF timely, found
<1>4. /\ IsList(found) /\ ToSet(found) \subseteq ToSet(timely)
      /\ \A c \in ToSet(found) : Complete(c)
  BY <1>2, <1>3, FilterQualityIs
<1>5. /\ IsList(FilterQuality(found)) /\ ToSet(FilterQuality(found)) \subseteq ToSet(found)
      /\ \A c \in ToSet(found) : Complete(c) => \E e \in ToSet(FilterQuality(found)) : e.id = c.id
  BY <1>4, FilterQualityIs
<1>6. \A c \in ToSet(found) : IsItem(c) /\ Conforms(d, c)
  BY <1>1, <1>2, <1>4
<1> QED
  BY <1>4, <1>5, <1>6 DEF found

-----------------------------------------------------------------------------
(* The inductive invariant.  What the task has in its hands are contents   *)
(* of the feed, as the processors leave them, and from its fetch on none   *)
(* of the feed's is lost: it is in the task's hands or in the database.    *)
Ids(items) == {c.id : c \in ToSet(items)}

AreOf(d, found, items) ==
  /\ IsList(items)
  /\ \A c \in ToSet(items) : IsItem(c) /\ Conforms(d, c) /\ c.id \in Ids(found)

ExecTypeOK ==
  /\ job \in DOMAIN Jobs /\ Accepted(Definition)
  /\ stage \in Stages
  /\ outcome \in {"none", "success", "failed", "misconfigured"}

(* The two values that nobody validates.                                   *)
Unusable == ~RouteIsURL(Definition) \/ ~FilterIsValid(Definition)

NothingIsLost ==
  stage \notin {"idle", "fetching"} =>
    Ids(Candidates) \subseteq Ids(contents) \cup Ids(out) \cup DOMAIN stored

ExecInv ==
  /\ ExecTypeOK
  /\ AreOf(Definition, Candidates, contents) /\ AreOf(Definition, Candidates, out)
  /\ out # <<>> => stage = "processing" /\ at \in DOMAIN Processors
  /\ NothingIsLost
  /\ Executing => outcome = "none"
  /\ outcome = "none" \/ ctx = "done" => OfThisTask = {}
  /\ stage = "committing" => ctx # "done"
  /\ outcome = "success" => Ids(Candidates) \subseteq DOMAIN stored
  /\ outcome = "misconfigured" => Unusable
  /\ \A id \in OfThisTask : id \in Ids(Candidates) /\ Conforms(Definition, stored[id])

LEMMA TheJob ==
  ASSUME ExecTypeOK
  PROVE  IsDocument(Definition) /\ Accepted(Definition) /\ IsFeed(Jobs[job].feed)
BY ScrapeExecutionAssumption DEF Definition, ExecTypeOK

LEMMA SameJob ==
  ASSUME job' = job
  PROVE  /\ Definition' = Definition /\ Candidates' = Candidates /\ Processors' = Processors
         /\ Accepted(Definition)' = Accepted(Definition) /\ Unusable' = Unusable
<1>1. Definition' = Definition
  BY DEF Definition
<1>2. Candidates' = Candidates /\ Processors' = Processors
  BY <1>1 DEF Candidates, Processors
<1>3. Accepted(Definition)' = Accepted(Definition) /\ Unusable' = Unusable
  BY <1>1 DEF Unusable
<1> QED
  BY <1>1, <1>2, <1>3

LEMMA Nothing ==
  /\ \A d, found : AreOf(d, found, <<>>)
  /\ Ids(<<>>) = {}
<1>1. IsList(<<>>) /\ ToSet(<<>>) = {}
  BY EmptySeq DEF IsList, ToSet
<1> QED
  BY <1>1 DEF AreOf, Ids

LEMMA ExecInvInit ==
  ASSUME ExecInit PROVE ExecInv
<1>1. /\ job \in DOMAIN Jobs /\ stage = "idle" /\ out = <<>> /\ contents = <<>>
      /\ ctx = "live" /\ outcome = "none" /\ Accepted(Definition)
  BY DEF ExecInit, Definition
<1>2. OfThisTask = {}
  BY DEF ExecInit, OfThisTask, Existing
<1> QED
  BY <1>1, <1>2, Nothing DEF ExecInv, ExecTypeOK, NothingIsLost, Stages, Executing

LEMMA BeginKeeps ==
  ASSUME ExecInv, Begin PROVE ExecInv'
<1>1. /\ stage = "idle" /\ outcome = "none" /\ stage' = "fetching"
      /\ UNCHANGED <<job, at, out, contents, ctx, outcome, stored>>
  BY DEF Begin, Goto
<1>2. /\ Definition' = Definition /\ Candidates' = Candidates /\ Processors' = Processors
      /\ Accepted(Definition)' = Accepted(Definition) /\ Unusable' = Unusable
  BY <1>1, SameJob
<1>3. OfThisTask' = OfThisTask
  BY <1>1 DEF OfThisTask
<1> QED
  BY <1>1, <1>2, <1>3 DEF ExecInv, ExecTypeOK, NothingIsLost, Stages, Executing

(* Whoever ends the context.                                               *)
LEMMA ContextKeeps ==
  ASSUME ExecInv, Executing, ctx' = IF stage = "committing" THEN "late" ELSE "done",
         UNCHANGED <<job, stage, at, out, contents, outcome, stored>>
  PROVE  ExecInv'
<1>1. /\ Definition' = Definition /\ Candidates' = Candidates /\ Processors' = Processors
      /\ Accepted(Definition)' = Accepted(Definition) /\ Unusable' = Unusable
  BY SameJob
<1>2. OfThisTask' = OfThisTask
  BY DEF OfThisTask
<1> QED
  BY <1>1, <1>2 DEF ExecInv, ExecTypeOK, NothingIsLost, Executing

LEMMA StutterKeeps ==
  ASSUME ExecInv, UNCHANGED execVars PROVE ExecInv'
<1>1. UNCHANGED <<job, stage, at, out, contents, ctx, outcome, stored>>
  BY DEF execVars
<1>2. /\ Definition' = Definition /\ Candidates' = Candidates /\ Processors' = Processors
      /\ Accepted(Definition)' = Accepted(Definition) /\ Unusable' = Unusable
  BY <1>1, SameJob
<1>3. OfThisTask' = OfThisTask
  BY <1>1 DEF OfThisTask
<1> QED
  BY <1>1, <1>2, <1>3 DEF ExecInv, ExecTypeOK, NothingIsLost, Executing

LEMMA ReturnKeeps ==
  ASSUME ExecInv, Executing, NEW result \in {"success", "failed", "misconfigured"}, Returns(result),
         result = "success" => Ids(Candidates) \subseteq DOMAIN stored,
         result = "misconfigured" => Unusable
  PROVE  ExecInv'
<1>1. /\ stage' = "idle" /\ outcome' = result /\ out' = <<>> /\ contents' = <<>>
      /\ UNCHANGED <<job, ctx, stored>>
  BY DEF Returns
<1>2. /\ Definition' = Definition /\ Candidates' = Candidates /\ Processors' = Processors
      /\ Accepted(Definition)' = Accepted(Definition) /\ Unusable' = Unusable
  BY <1>1, SameJob
<1>3. OfThisTask' = OfThisTask /\ OfThisTask = {}
  BY <1>1 DEF OfThisTask, ExecInv
<1> QED
  BY <1>1, <1>2, <1>3, Nothing DEF ExecInv, ExecTypeOK, NothingIsLost, Stages, Executing

LEMMA AdvanceKeeps ==
  ASSUME ExecInv, Executing, out = <<>>,
         NEW where \in {"looking", "creating", "processing", "storing", "committing"}, Goto(where),
         AreOf(Definition, Candidates, contents'),
         Ids(Candidates) \subseteq Ids(contents') \cup DOMAIN stored,
         where = "committing" => ctx # "done"
  PROVE  ExecInv'
<1>1. stage' = where /\ UNCHANGED <<job, at, out, ctx, outcome, stored>>
  BY DEF Goto
<1>2. /\ Definition' = Definition /\ Candidates' = Candidates /\ Processors' = Processors
      /\ Accepted(Definition)' = Accepted(Definition) /\ Unusable' = Unusable
  BY <1>1, SameJob
<1>3. OfThisTask' = OfThisTask
  BY <1>1 DEF OfThisTask
<1>4. outcome = "none"
  BY DEF ExecInv
<1>5. Ids(Candidates) \subseteq Ids(contents') \cup Ids(out) \cup DOMAIN stored
  OBVIOUS
<1> QED
  BY <1>1, <1>2, <1>3, <1>4, <1>5 DEF ExecInv, ExecTypeOK, NothingIsLost, Stages, Executing

LEMMA FetchKeeps ==
  ASSUME ExecInv, Fetch, FilterIsValid(Definition) PROVE ExecInv'
<1>1. stage = "fetching" /\ contents' = FilterQuality(Candidates) /\ Goto("looking")
  BY DEF Fetch, Candidates
<1>2. IsDocument(Definition) /\ Accepted(Definition) /\ IsFeed(Jobs[job].feed)
  BY TheJob DEF ExecInv, ExecTypeOK
<1>3. /\ \A c \in ToSet(Candidates) : IsItem(c) /\ Conforms(Definition, c)
      /\ IsList(FilterQuality(Candidates)) /\ ToSet(FilterQuality(Candidates)) \subseteq ToSet(Candidates)
      /\ \A c \in ToSet(Candidates) : \E e \in ToSet(FilterQuality(Candidates)) : e.id = c.id
  BY <1>2, FetchedIs DEF Candidates
<1>4. AreOf(Definition, Candidates, contents')
  BY <1>1, <1>3 DEF AreOf, Ids
<1>5. Ids(Candidates) \subseteq Ids(contents')
  BY <1>1, <1>3 DEF Ids
<1>6. Executing /\ out = <<>>
  BY <1>1 DEF Executing, ExecInv
<1> QED
  BY <1>1, <1>4, <1>5, <1>6, AdvanceKeeps

LEMMA LookupKeeps ==
  ASSUME ExecInv, Lookup PROVE ExecInv'
<1> DEFINE I == {i \in DOMAIN contents : contents[i].id \notin DOMAIN stored}
<1>1. stage = "looking" /\ contents' = At(contents, I) /\ Goto("creating")
  BY DEF Lookup, Unknown
<1>2. /\ AreOf(Definition, Candidates, contents) /\ out = <<>>
      /\ Ids(Candidates) \subseteq Ids(contents) \cup DOMAIN stored
  BY <1>1, Nothing DEF ExecInv, NothingIsLost
<1>3. /\ IsList(At(contents, I)) /\ ToSet(At(contents, I)) \subseteq ToSet(contents)
      /\ ToSet(At(contents, I)) = {contents[i] : i \in I}
  <2>1. I \subseteq DOMAIN contents
    OBVIOUS
  <2> HIDE DEF I
  <2> QED BY <1>2, <2>1, SomeOfList DEF AreOf
<1>4. AreOf(Definition, Candidates, contents')
  BY <1>1, <1>2, <1>3 DEF AreOf
<1>5. ASSUME NEW c \in ToSet(contents), c.id \notin DOMAIN stored PROVE c \in ToSet(contents')
  <2>1. PICK i \in DOMAIN contents : contents[i] = c
    BY DEF ToSet
  <2>2. i \in I
    BY <1>5, <2>1
  <2> HIDE DEF I
  <2> QED BY <1>1, <1>3, <2>1, <2>2
<1>6. Ids(Candidates) \subseteq Ids(contents') \cup DOMAIN stored
  BY <1>2, <1>5 DEF Ids
<1>7. Executing
  BY <1>1 DEF Executing
<1> QED
  BY <1>1, <1>2, <1>4, <1>6, <1>7, AdvanceKeeps

LEMMA CreatePipelineKeeps ==
  ASSUME ExecInv, CreatePipeline PROVE ExecInv'
<1>1. PipelineIsCreatable(Definition)
  BY TheJob DEF ExecInv, ExecTypeOK, Accepted
<1>2. stage = "creating" /\ Goto("processing") /\ contents' = contents
  BY <1>1 DEF CreatePipeline
<1>3. /\ AreOf(Definition, Candidates, contents) /\ out = <<>> /\ Executing
      /\ Ids(Candidates) \subseteq Ids(contents) \cup DOMAIN stored
  BY <1>2, Nothing DEF ExecInv, NothingIsLost, Executing
<1>4. /\ AreOf(Definition, Candidates, contents')
      /\ Ids(Candidates) \subseteq Ids(contents') \cup DOMAIN stored
  BY <1>2, <1>3
<1> QED
  BY <1>2, <1>3, <1>4, AdvanceKeeps

(* The first content moves from those to be processed to the processed.    *)
LEMMA HeadAndTail ==
  ASSUME NEW s, IsList(s), s # <<>>
  PROVE  IsList(Tail(s)) /\ ToSet(s) = {Head(s)} \cup ToSet(Tail(s))
<1>1. DOMAIN s = 1 .. Len(s) /\ Len(s) \in Nat /\ Len(s) # 0
  BY ListIs, EmptySeq DEF IsList
<1>2. /\ Head(s) = s[1] /\ Tail(s) \in Seq(ToSet(s)) /\ Len(Tail(s)) = Len(s) - 1
      /\ \A i \in 1 .. Len(Tail(s)) : Tail(s)[i] = s[i + 1]
  BY HeadTailProperties DEF IsList
<1>3. IsList(Tail(s)) /\ ToSet(Tail(s)) \subseteq ToSet(s)
  BY <1>2, SequenceIsList
<1>4. DOMAIN Tail(s) = 1 .. Len(s) - 1
  BY <1>2, LenProperties
<1>5. ASSUME NEW x \in ToSet(s) PROVE x = Head(s) \/ x \in ToSet(Tail(s))
  <2>1. PICK i \in 1 .. Len(s) : s[i] = x
    BY <1>1 DEF ToSet
  <2>2. CASE i = 1
    BY <1>2, <2>1, <2>2
  <2>3. CASE i # 1
    <3>1. i - 1 \in 1 .. Len(Tail(s)) /\ (i - 1) + 1 = i
      BY <1>1, <1>2, <2>3
    <3>2. Tail(s)[i - 1] = x /\ i - 1 \in DOMAIN Tail(s)
      BY <1>2, <1>4, <2>1, <3>1
    <3> QED
      BY <3>2 DEF ToSet
  <2> QED
    BY <2>2, <2>3
<1>6. Head(s) \in ToSet(s)
  BY <1>1, <1>2 DEF ToSet
<1> QED
  BY <1>3, <1>5, <1>6

LEMMA ProcessItemKeeps ==
  ASSUME ExecInv, ProcessItem PROVE ExecInv'
<1>1. /\ stage = "processing" /\ at \in DOMAIN Processors /\ contents # <<>>
  BY DEF ProcessItem
<1>2. PICK reply \in ReplyTo(Processor.name) :
        LET result == ProcessOne(Processor, Head(contents), reply) IN
        IF ~result.ok /\ FailsFast(Processor)
        THEN Returns("failed")
        ELSE /\ out' = out \o Kept(result)
             /\ contents' = Tail(contents)
             /\ UNCHANGED <<job, stage, at, ctx, outcome, stored>>
  BY DEF ProcessItem
<1> DEFINE item == Head(contents)
           result == ProcessOne(Processor, item, reply)
           c == result.item
<1>3. IsDocument(Definition) /\ Accepted(Definition)
  BY TheJob DEF ExecInv, ExecTypeOK
<1>4. Processor \in ToSet(Pipeline(Definition)) /\ Processor.name \in Supported
  <2>1. Processor \in ToSet(Pipeline(Definition))
    BY <1>1 DEF Processor, Processors, ToSet
  <2> QED
    BY <1>3, <2>1, PipelineIs
<1>5. IsReply(Processor.name, reply)
  BY <1>4, ScrapeExecutionAssumption DEF ReplyTo
<1>6. /\ AreOf(Definition, Candidates, contents) /\ AreOf(Definition, Candidates, out)
      /\ Ids(Candidates) \subseteq Ids(contents) \cup Ids(out) \cup DOMAIN stored
  BY <1>1 DEF ExecInv, NothingIsLost
<1>7. IsList(Tail(contents)) /\ ToSet(contents) = {item} \cup ToSet(Tail(contents))
  BY <1>1, <1>6, HeadAndTail DEF AreOf
<1>8. IsItem(item) /\ Conforms(Definition, item) /\ item.id \in Ids(Candidates)
  BY <1>6, <1>7 DEF AreOf
<1>9. c.id = item.id /\ IsItem(c) /\ Conforms(Definition, c)
  BY <1>3, <1>4, <1>5, <1>8, ItemProcessed
<1>10. Executing
  BY <1>1 DEF Executing
<1> HIDE DEF item, result
<1>11. CASE ~result.ok /\ FailsFast(Processor)
  <2>1. Returns("failed")
    BY <1>2, <1>11 DEF result, item
  <2> QED
    BY <1>10, <2>1, ReturnKeeps
<1>12. CASE ~(~result.ok /\ FailsFast(Processor))
  <2>1. /\ out' = out \o <<c>> /\ contents' = Tail(contents)
        /\ UNCHANGED <<job, stage, at, ctx, outcome, stored>>
    BY <1>2, <1>12 DEF result, item, Kept
  <2> HIDE DEF c
  <2>2. IsList(<<c>>) /\ ToSet(<<c>>) = {c}
    <3>1. <<c>> \in Seq({c})
      OBVIOUS
    <3>2. IsList(<<c>>) /\ ToSet(<<c>>) \subseteq {c}
      BY <3>1, SequenceIsList
    <3>3. 1 \in DOMAIN <<c>> /\ <<c>>[1] = c
      OBVIOUS
    <3>4. c \in ToSet(<<c>>)
      BY <3>3 DEF ToSet
    <3> QED
      BY <3>2, <3>4
  <2>3. IsList(out') /\ ToSet(out') = ToSet(out) \cup {c}
    BY <1>6, <2>1, <2>2, JoinIs DEF AreOf
  <2>4. AreOf(Definition, Candidates, out') /\ AreOf(Definition, Candidates, contents')
    BY <1>6, <1>7, <1>8, <1>9, <2>1, <2>3 DEF AreOf
  <2>5. Ids(contents') \cup Ids(out') = Ids(contents) \cup Ids(out)
    BY <1>7, <1>9, <2>1, <2>3 DEF Ids
  <2>6. /\ Definition' = Definition /\ Candidates' = Candidates /\ Processors' = Processors
        /\ Accepted(Definition)' = Accepted(Definition) /\ Unusable' = Unusable
    BY <2>1, SameJob
  <2>7. OfThisTask' = OfThisTask
    BY <2>1 DEF OfThisTask
  <2>8. Ids(Candidates) \subseteq Ids(contents') \cup Ids(out') \cup DOMAIN stored
    BY <1>6, <2>5
  <2> QED
    BY <1>1, <2>1, <2>4, <2>6, <2>7, <2>8 DEF ExecInv, ExecTypeOK, NothingIsLost, Executing
<1> QED
  BY <1>11, <1>12

LEMMA NextProcessorKeeps ==
  ASSUME ExecInv, NextProcessor PROVE ExecInv'
<1>1. /\ stage = "processing" /\ contents = <<>>
      /\ contents' = out /\ out' = <<>>
      /\ UNCHANGED <<job, stage, ctx, outcome, stored>>
  BY DEF NextProcessor
<1>2. /\ Definition' = Definition /\ Candidates' = Candidates
      /\ Accepted(Definition)' = Accepted(Definition) /\ Unusable' = Unusable
  BY <1>1, SameJob
<1>3. OfThisTask' = OfThisTask
  BY <1>1 DEF OfThisTask
<1>4. /\ AreOf(Definition, Candidates, contents') /\ AreOf(Definition, Candidates, out')
      /\ Ids(Candidates) \subseteq Ids(contents') \cup Ids(out') \cup DOMAIN stored
  BY <1>1, Nothing DEF ExecInv, NothingIsLost
<1> QED
  BY <1>1, <1>2, <1>3, <1>4 DEF ExecInv, ExecTypeOK, NothingIsLost, Executing

LEMMA MergeKeeps ==
  ASSUME ExecInv, Merge PROVE ExecInv'
<1> DEFINE Merged(c) == [c EXCEPT !.keywords = MergeKeywords(DefaultKeywords, c)]
<1>1. /\ stage = "processing" /\ at \notin DOMAIN Processors /\ Goto("storing")
      /\ contents' = [i \in DOMAIN contents |-> Merged(contents[i])]
  BY DEF Merge
<1>2. IsDocument(Definition) /\ Accepted(Definition)
  BY TheJob DEF ExecInv, ExecTypeOK
<1>3. /\ AreOf(Definition, Candidates, contents) /\ out = <<>>
      /\ Ids(Candidates) \subseteq Ids(contents) \cup DOMAIN stored
  BY <1>1, Nothing DEF ExecInv, NothingIsLost
<1>4. ASSUME NEW c \in ToSet(contents)
      PROVE  /\ Merged(c).id = c.id /\ IsItem(Merged(c)) /\ Conforms(Definition, Merged(c))
             /\ Merged(c).id \in Ids(Candidates)
  <2>1. IsItem(c) /\ Conforms(Definition, c) /\ c.id \in Ids(Candidates)
    BY <1>3 DEF AreOf
  <2>2. Merged(c).id = c.id /\ IsItem(Merged(c)) /\ Conforms(Definition, Merged(c))
    BY <1>2, <2>1, ItemMerged DEF DefaultKeywords
  <2> HIDE DEF Merged
  <2> QED
    BY <2>1, <2>2
<1> HIDE DEF Merged
<1>5. \A i \in DOMAIN contents : contents[i] \in ToSet(contents)
  BY DEF ToSet
<1>6. IsList(contents') /\ ToSet(contents') \subseteq {Merged(c) : c \in ToSet(contents)}
  <2>1. contents' \in [DOMAIN contents -> {Merged(c) : c \in ToSet(contents)}]
    BY <1>1, <1>5
  <2>2. IsList(contents)
    BY <1>3 DEF AreOf
  <2> QED
    BY <2>1, <2>2, EachOfList
<1>7. AreOf(Definition, Candidates, contents')
  BY <1>4, <1>6 DEF AreOf
<1>8. ASSUME NEW c \in ToSet(contents) PROVE c.id \in Ids(contents')
  <2>1. PICK i \in DOMAIN contents : contents[i] = c
    BY DEF ToSet
  <2>2. i \in DOMAIN contents' /\ contents'[i] = Merged(c)
    BY <1>1, <2>1
  <2>3. Merged(c) \in ToSet(contents')
    BY <2>2 DEF ToSet
  <2> QED
    BY <1>4, <2>3 DEF Ids
<1>9. Ids(Candidates) \subseteq Ids(contents') \cup DOMAIN stored
  BY <1>3, <1>8 DEF Ids
<1>10. Executing
  BY <1>1 DEF Executing
<1> QED
  BY <1>1, <1>3, <1>7, <1>9, <1>10, AdvanceKeeps

LEMMA BeginStoreKeeps ==
  ASSUME ExecInv, BeginStore PROVE ExecInv'
<1>1. /\ stage = "storing" /\ Executing /\ out = <<>>
      /\ AreOf(Definition, Candidates, contents)
      /\ Ids(Candidates) \subseteq Ids(contents) \cup DOMAIN stored
  BY Nothing DEF BeginStore, Executing, ExecInv, NothingIsLost
<1>2. CASE contents = <<>>
  <2>1. Returns("success") /\ Ids(Candidates) \subseteq DOMAIN stored
    BY <1>1, <1>2, Nothing DEF BeginStore
  <2> QED
    BY <1>1, <2>1, ReturnKeeps
<1>3. CASE contents # <<>>
  <2>1. ctx = "live" /\ Goto("committing") /\ contents' = contents
    BY <1>3 DEF BeginStore
  <2>2. /\ AreOf(Definition, Candidates, contents')
        /\ Ids(Candidates) \subseteq Ids(contents') \cup DOMAIN stored
    BY <1>1, <2>1
  <2> QED
    BY <1>1, <2>1, <2>2, AdvanceKeeps
<1> QED
  BY <1>2, <1>3

LEMMA CommitKeeps ==
  ASSUME ExecInv, Commit PROVE ExecInv'
<1> DEFINE ids == {contents[i].id : i \in DOMAIN contents}
           Of(id) == CHOOSE c \in ToSet(contents) : c.id = id
<1>1. /\ stage = "committing" /\ stage' = "idle" /\ outcome' \in {"success", "failed"}
      /\ out' = <<>> /\ contents' = <<>>
      /\ UNCHANGED <<job, ctx>>
  BY DEF Commit
<1>2. stored' = [id \in DOMAIN stored \cup ids |->
                   IF id \in DOMAIN stored THEN stored[id] ELSE Fresh(Of(id))]
  BY DEF Commit, WithBatch
<1>3. /\ Definition' = Definition /\ Candidates' = Candidates /\ Processors' = Processors
      /\ Accepted(Definition)' = Accepted(Definition) /\ Unusable' = Unusable
  BY <1>1, SameJob
<1>4. /\ AreOf(Definition, Candidates, contents) /\ out = <<>> /\ ctx # "done"
      /\ Ids(Candidates) \subseteq Ids(contents) \cup DOMAIN stored
      /\ OfThisTask = {}
  BY <1>1, Nothing DEF ExecInv, NothingIsLost, Executing
<1>5. ids = Ids(contents)
  BY DEF Ids, ToSet
<1>6. Ids(Candidates) \subseteq DOMAIN stored'
  BY <1>2, <1>4, <1>5
<1>7. ASSUME NEW id \in OfThisTask'
      PROVE  id \in Ids(Candidates) /\ Conforms(Definition, stored'[id])
  <2>1. id \in DOMAIN stored' /\ stored'[id].from = "task"
    BY DEF OfThisTask
  <2>2. id \notin DOMAIN stored
    <3> SUFFICES ASSUME id \in DOMAIN stored PROVE FALSE
      OBVIOUS
    <3>1. stored'[id] = stored[id]
      BY <1>2
    <3> QED
      BY <1>4, <2>1, <3>1 DEF OfThisTask
  <2>3. id \in ids /\ stored'[id] = Fresh(Of(id))
    BY <1>2, <2>1, <2>2
  <2>4. Of(id) \in ToSet(contents) /\ Of(id).id = id
    <3>1. \E c \in ToSet(contents) : c.id = id
      BY <1>5, <2>3 DEF Ids
    <3> QED
      BY <3>1
  <2> DEFINE c == Of(id)
             s == stored'[id]
  <2>5. IsItem(c) /\ Conforms(Definition, c) /\ c.id \in Ids(Candidates)
    BY <1>4, <2>4 DEF AreOf
  <2>6. c.id = id
    BY <2>4
  <2>7. s.tags = c.tags /\ s.keywords = c.keywords /\ s.summary = c.summary
    BY <2>3 DEF Fresh
  <2> HIDE DEF c, s
  <2>8. Conforms(Definition, s)
    BY <2>5, <2>7 DEF Conforms
  <2> QED
    BY <2>5, <2>6, <2>8 DEF s
<1> HIDE DEF ids, Of
<1> QED
  BY <1>1, <1>3, <1>4, <1>6, <1>7, Nothing DEF ExecInv, ExecTypeOK, NothingIsLost, Stages, Executing

LEMMA ExecStepKeeps ==
  ASSUME ExecInv, ExecStep PROVE ExecInv'
<1>1. CASE FetchFails \/ LookupFails \/ StoreFails
  <2>1. Executing /\ Returns("failed")
    BY <1>1 DEF FetchFails, LookupFails, StoreFails, Executing
  <2> QED
    BY <2>1, ReturnKeeps
<1>2. CASE FetchIsRefused \/ (Fetch /\ ~FilterIsValid(Definition))
  <2>1. Executing /\ Returns("misconfigured") /\ Unusable
    BY <1>2 DEF FetchIsRefused, Fetch, Executing, Unusable
  <2> QED
    BY <2>1, ReturnKeeps
<1> QED
  BY <1>1, <1>2, FetchKeeps, LookupKeeps, CreatePipelineKeeps, ProcessItemKeeps, NextProcessorKeeps,
     MergeKeeps, BeginStoreKeeps, CommitKeeps DEF ExecStep

(* What the invariant says of the properties.                              *)
LEMMA ResultFollows ==
  ASSUME ExecInv PROVE ResultIsTrue
<1>1. \A i \in DOMAIN Candidates : Candidates[i].id \in Ids(Candidates)
  BY DEF Ids, ToSet
<1>2. \A id \in Ids(Candidates) : \E i \in DOMAIN Candidates : Candidates[i].id = id
  BY DEF Ids, ToSet
<1> QED
  BY <1>1, <1>2 DEF ExecInv, ResultIsTrue

LEMMA NormalizedFollows ==
  ASSUME ExecInv PROVE StoredIsNormalized
<1> SUFFICES ASSUME NEW id \in OfThisTask
             PROVE  LET c == stored[id]
                        keywords == ToSet(c.keywords) \ ToSet(DefaultKeywords) IN
                    /\ \A p \in ProcessorNamed("llm_tags") : TagsConform(p.config, c.tags)
                    /\ \A p \in ProcessorNamed("llm_keywords") : KeywordsConform(p.config, keywords)
                    /\ FeedSummaryFits(c.summary)
                    /\ \A p \in ProcessorNamed("llm_summary") : SummaryConforms(p.config, c.summary)
  BY DEF StoredIsNormalized, TagsConform, KeywordsConform, SummaryConforms, FeedSummaryFits
<1>1. Conforms(Definition, stored[id])
  BY DEF ExecInv
<1> QED
  BY <1>1 DEF Conforms, ProcessorNamed, Processors, DefaultKeywords, Defaults

LEMMA AcceptedFollows ==
  ASSUME ExecInv PROVE AcceptedRuns
<1>1. /\ outcome = "misconfigured" => ~RouteIsURL(Definition) \/ ~FilterIsValid(Definition)
      /\ IsDocument(Definition) /\ Accepted(Definition)
  BY TheJob DEF ExecInv, Unusable
<1>2. ASSUME NEW p \in ToSet(Processors)
      PROVE  LET base == p.config.base IN
             /\ base.timeout > 0
             /\ p.name = "html_content" => base.browserTimeout > 0
             /\ p.name # "html_content" => base.retryTimes >= 1
             /\ p.name = "llm_keywords" => Limit(p.config) >= 1
             /\ p.name = "llm_tags" => p.config.maxTags >= 1
  <2>1. p \in ToSet(Pipeline(Definition))
    BY DEF Processors
  <2> QED
    BY <1>1, <2>1, ConfigIs
<1> QED
  BY <1>1, <1>2 DEF AcceptedRuns
=============================================================================
