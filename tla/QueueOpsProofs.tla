--------------------------- MODULE QueueOpsProofs ---------------------------
(***************************************************************************)
(* What the queue operators return, for queues of every length.            *)
(***************************************************************************)
EXTENDS QueueOps, FiniteSetTheorems, SequenceTheorems, TLAPS

\* The k-th selected index exists and is unique: Rank is a bijection.
LEMMA RankBijective ==
  ASSUME NEW n \in Nat, NEW I \in SUBSET (1..n)
  PROVE  /\ IsFiniteSet(I)
         /\ Cardinality(I) \in Nat
         /\ \A k \in 1..Cardinality(I) : \E i \in I : Rank(I, i) = k
         /\ \A i \in I : Rank(I, i) \in 1..Cardinality(I)
         /\ \A i, j \in I : Rank(I, i) = Rank(I, j) => i = j
<1> DEFINE m == Cardinality(I)
           B(i) == {j \in I : j <= i}
           f == [i \in I |-> Cardinality(B(i))]
<1>1. IsFiniteSet(I) /\ m \in Nat
  <2>1. IsFiniteSet(1..n)
    BY FS_Interval
  <2>2. IsFiniteSet(I)
    BY <2>1, FS_Subset
  <2> QED
    BY <2>2, FS_CardinalityType
<1>2. ASSUME NEW i \in I
      PROVE  IsFiniteSet(B(i)) /\ Cardinality(B(i)) \in 1..m
  <2>1. B(i) \in SUBSET I
    OBVIOUS
  <2>2. IsFiniteSet(B(i)) /\ Cardinality(B(i)) <= m
    BY <1>1, <2>1, FS_Subset
  <2>3. Cardinality(B(i)) \in Nat
    BY <2>2, FS_CardinalityType
  <2>4. i \in B(i)
    OBVIOUS
  <2>5. Cardinality(B(i)) # 0
    BY <2>2, <2>4, FS_EmptySet
  <2> QED
    BY <1>1, <2>2, <2>3, <2>5
<1>3. ASSUME NEW i \in I, NEW j \in I, i < j
      PROVE  Cardinality(B(i)) # Cardinality(B(j))
  <2>0. i \in Int /\ j \in Int /\ \A k \in I : k \in Int
    OBVIOUS
  <2>1. B(i) \in SUBSET B(j) /\ j \in B(j) /\ j \notin B(i)
    <3>1. \A k \in I : k <= i => k <= j
      BY <1>3, <2>0
    <3>2. B(i) \subseteq B(j)
      BY <3>1
    <3>3. j <= j /\ ~(j <= i)
      BY <1>3, <2>0
    <3> QED
      BY <3>2, <3>3
  <2> QED
    BY <1>2, <2>1, FS_Subset
<1>4. \A i, j \in I : Cardinality(B(i)) = Cardinality(B(j)) => i = j
  <2> SUFFICES ASSUME NEW i \in I, NEW j \in I, Cardinality(B(i)) = Cardinality(B(j)), i # j
               PROVE  FALSE
    OBVIOUS
  <2>1. i < j \/ j < i
    OBVIOUS
  <2> QED
    BY <1>3, <2>1
<1>5. f \in Injection(I, 1..m)
  <2>1. f \in [I -> 1..m]
    BY <1>2
  <2>2. IsInjective(f)
    BY <1>4 DEF IsInjective
  <2> QED
    BY <2>1, <2>2 DEF Injection
<1>6. IsFiniteSet(1..m) /\ Cardinality(1..m) = m
  BY <1>1, FS_Interval
<1>7. f \in Surjection(I, 1..m)
  BY <1>5, <1>6, FS_Injection
<1>8. \A k \in 1..m : \E i \in I : f[i] = k
  BY <1>7 DEF Surjection
<1> QED
  BY <1>1, <1>2, <1>4, <1>8 DEF Rank

\* Keep(s, A) is made of the items of s that are in A, without repetitions if s has none.
LEMMA KeepProperties ==
  ASSUME NEW T, NEW s \in Seq(T), NEW A
  PROVE  /\ Keep(s, A) \in Seq(T)
         /\ Range(Keep(s, A)) = Range(s) \cap A
         /\ IsInjective(s) => IsInjective(Keep(s, A))
         /\ (\A i, j \in DOMAIN s : s[i] \in A /\ s[i] = s[j] => i = j)
              => IsInjective(Keep(s, A))
<1> DEFINE I == Selected(s, A)
           m == Cardinality(I)
           c(k) == CHOOSE i \in I : Rank(I, i) = k
<1>0. Len(s) \in Nat /\ DOMAIN s = 1..Len(s) /\ s \in [1..Len(s) -> T]
  BY LenProperties
<1>1. I \in SUBSET (1..Len(s))
  BY DEF Selected
<1>2. /\ m \in Nat
      /\ \A k \in 1..m : \E i \in I : Rank(I, i) = k
      /\ \A i \in I : Rank(I, i) \in 1..m
      /\ \A i, j \in I : Rank(I, i) = Rank(I, j) => i = j
  BY <1>0, <1>1, RankBijective
<1>3. \A k \in 1..m : c(k) \in I /\ Rank(I, c(k)) = k
  BY <1>2
<1>4. \A i \in I : c(Rank(I, i)) = i
  BY <1>2, <1>3
<1> HIDE DEF c
<1> DEFINE K == Keep(s, A)
<1>5. K = [k \in 1..m |-> s[c(k)]]
  BY DEF Keep, c
<1>6. K \in [1..m -> T]
  BY <1>0, <1>1, <1>3, <1>5
<1>7. K \in Seq(T)
  BY <1>2, <1>6, SeqDef
<1>8. DOMAIN K = 1..m
  BY <1>5
<1> HIDE DEF K, m
<1>9. Range(K) = Range(s) \cap A
  <2>1. ASSUME NEW k \in 1..m
        PROVE  K[k] \in Range(s) \cap A
    <3>1. c(k) \in I /\ K[k] = s[c(k)]
      BY <1>3, <1>5
    <3> QED
      BY <3>1, <1>0 DEF Range, Selected
  <2>2. ASSUME NEW x \in Range(s) \cap A
        PROVE  x \in Range(K)
    <3>1. PICK i \in 1..Len(s) : s[i] = x
      BY <1>0 DEF Range
    <3>2. i \in I
      BY <3>1 DEF Selected
    <3>3. Rank(I, i) \in 1..m
      BY <1>2, <3>2
    <3>4. K[Rank(I, i)] = x
      BY <1>4, <1>5, <3>1, <3>2, <3>3
    <3> QED
      BY <1>8, <3>3, <3>4 DEF Range
  <2> QED
    BY <1>8, <2>1, <2>2 DEF Range
<1>10. ASSUME \A i, j \in DOMAIN s : s[i] \in A /\ s[i] = s[j] => i = j,
              NEW a \in 1..m, NEW b \in 1..m, K[a] = K[b]
       PROVE  a = b
  <2>1. s[c(a)] = s[c(b)] /\ c(a) \in 1..Len(s) /\ c(b) \in 1..Len(s) /\ s[c(a)] \in A
    BY <1>1, <1>3, <1>5, <1>10 DEF Selected
  <2>2. c(a) = c(b)
    BY <1>0, <1>10, <2>1
  <2> QED
    BY <1>3, <2>2
<1>11. (\A i, j \in DOMAIN s : s[i] \in A /\ s[i] = s[j] => i = j) => IsInjective(K)
  BY <1>8, <1>10 DEF IsInjective
<1>12. IsInjective(s) => IsInjective(K)
  BY <1>11 DEF IsInjective
<1> QED
  BY <1>7, <1>9, <1>11, <1>12 DEF K

\* Without(s, x) loses x and nothing else.
LEMMA WithoutProperties ==
  ASSUME NEW T, NEW s \in Seq(T), IsInjective(s), NEW x \in Range(s)
  PROVE  /\ Pos(s, x) \in 1..Len(s) /\ s[Pos(s, x)] = x
         /\ Without(s, x) \in Seq(T)
         /\ Len(Without(s, x)) = Len(s) - 1
         /\ Range(Without(s, x)) = Range(s) \ {x}
         /\ IsInjective(Without(s, x))
<1> DEFINE n == Len(s)
           h == Pos(s, x)
           W == Without(s, x)
<1>0. n \in Nat /\ DOMAIN s = 1..n /\ s \in [1..n -> T]
  BY LenProperties
<1>1. h \in 1..n /\ s[h] = x
  <2>1. \E i \in 1..n : s[i] = x
    BY <1>0 DEF Range
  <2> QED
    BY <2>1 DEF Pos
<1>2. W = [j \in 1..(n - 1) |-> IF j < h THEN s[j] ELSE s[j + 1]]
  BY DEF Without
<1>3. W \in [1..(n - 1) -> T]
  BY <1>0, <1>1, <1>2
<1>4. n - 1 \in Nat
  BY <1>0, <1>1
<1>5. W \in Seq(T)
  BY <1>3, <1>4, SeqDef
<1>6. DOMAIN W = 1..(n - 1) /\ Len(W) = n - 1
  BY <1>3, <1>4, <1>5, LenProperties
<1> HIDE DEF h, W, n
<1>7. Range(W) = Range(s) \ {x}
  <2>1. ASSUME NEW j \in 1..(n - 1)
        PROVE  W[j] \in Range(s) \ {x}
    <3>1. CASE j < h
      BY <1>0, <1>1, <1>2, <3>1 DEF Range, IsInjective
    <3>2. CASE ~(j < h)
      <4>1. W[j] = s[j + 1] /\ j + 1 \in 1..n /\ j + 1 # h
        BY <1>0, <1>1, <1>2, <3>2
      <4> QED
        BY <4>1, <1>0, <1>1 DEF Range, IsInjective
    <3> QED
      BY <3>1, <3>2
  <2>2. ASSUME NEW y \in Range(s) \ {x}
        PROVE  y \in Range(W)
    <3>1. PICK i \in 1..n : s[i] = y
      BY <1>0 DEF Range
    <3>2. i # h
      BY <1>1, <3>1
    <3>3. CASE i < h
      <4>1. i \in 1..(n - 1) /\ W[i] = y
        BY <1>0, <1>1, <1>2, <3>1, <3>3
      <4> QED
        BY <4>1, <1>6 DEF Range
    <3>4. CASE i > h
      <4>1. i - 1 \in 1..(n - 1) /\ W[i - 1] = y
        BY <1>0, <1>1, <1>2, <3>1, <3>4
      <4> QED
        BY <4>1, <1>6 DEF Range
    <3> QED
      BY <1>0, <1>1, <3>2, <3>3, <3>4
  <2> QED
    BY <1>6, <2>1, <2>2 DEF Range
<1>8. ASSUME NEW a \in 1..(n - 1), NEW b \in 1..(n - 1), W[a] = W[b]
      PROVE  a = b
  <2> DEFINE g(j) == IF j < h THEN j ELSE j + 1
  <2>1. g(a) \in 1..n /\ g(b) \in 1..n /\ s[g(a)] = s[g(b)]
    BY <1>0, <1>1, <1>2, <1>8
  <2>2. g(a) = g(b)
    BY <1>0, <2>1 DEF IsInjective
  <2> QED
    BY <1>0, <1>1, <2>2
<1>9. IsInjective(W)
  BY <1>6, <1>8 DEF IsInjective
<1> QED
  BY <1>1, <1>5, <1>6, <1>7, <1>9 DEF h, W, n

\* Enqueueing a new item.
LEMMA AppendQueue ==
  ASSUME NEW T, NEW s \in Seq(T), NEW x \in T
  PROVE  /\ Append(s, x) \in Seq(T)
         /\ Range(Append(s, x)) = Range(s) \cup {x}
         /\ IsInjective(s) /\ x \notin Range(s) => IsInjective(Append(s, x))
<1>0. Len(s) \in Nat /\ DOMAIN s = 1..Len(s)
  BY LenProperties
<1>1. /\ Append(s, x) \in Seq(T)
      /\ DOMAIN Append(s, x) = 1..(Len(s) + 1)
      /\ \A i \in 1..Len(s) : Append(s, x)[i] = s[i]
      /\ Append(s, x)[Len(s) + 1] = x
  BY AppendProperties, LenProperties
<1>2. 1..(Len(s) + 1) = (1..Len(s)) \cup {Len(s) + 1}
  BY <1>0
<1>3. Range(Append(s, x)) = Range(s) \cup {x}
  BY <1>0, <1>1, <1>2 DEF Range
<1>4. ASSUME IsInjective(s), x \notin Range(s)
      PROVE  IsInjective(Append(s, x))
  BY <1>0, <1>1, <1>2, <1>4 DEF Range, IsInjective
<1> QED
  BY <1>1, <1>3, <1>4

\* Concatenating two queues that share no item.
LEMMA ConcatQueue ==
  ASSUME NEW T, NEW s \in Seq(T), NEW t \in Seq(T)
  PROVE  /\ s \o t \in Seq(T)
         /\ Range(s \o t) = Range(s) \cup Range(t)
         /\ IsInjective(s) /\ IsInjective(t) /\ Range(s) \cap Range(t) = {}
              => IsInjective(s \o t)
<1>0. Len(s) \in Nat /\ DOMAIN s = 1..Len(s) /\ Len(t) \in Nat /\ DOMAIN t = 1..Len(t)
  BY LenProperties
<1>1. /\ s \o t \in Seq(T)
      /\ DOMAIN (s \o t) = 1..(Len(s) + Len(t))
      /\ \A i \in 1..(Len(s) + Len(t)) :
           (s \o t)[i] = IF i <= Len(s) THEN s[i] ELSE t[i - Len(s)]
  BY ConcatProperties, LenProperties
<1>2. Range(s \o t) = Range(s) \cup Range(t)
  BY RangeConcatenation
<1>3. ASSUME IsInjective(s), IsInjective(t), Range(s) \cap Range(t) = {},
             NEW a \in 1..(Len(s) + Len(t)), NEW b \in 1..(Len(s) + Len(t)),
             (s \o t)[a] = (s \o t)[b]
      PROVE  a = b
  <2>1. CASE a <= Len(s) /\ b <= Len(s)
    <3>1. a \in 1..Len(s) /\ b \in 1..Len(s) /\ s[a] = s[b]
      BY <1>0, <1>1, <1>3, <2>1
    <3> QED
      BY <3>1, <1>0, <1>3 DEF IsInjective
  <2>2. CASE a > Len(s) /\ b > Len(s)
    <3>1. a - Len(s) \in 1..Len(t) /\ b - Len(s) \in 1..Len(t) /\ t[a - Len(s)] = t[b - Len(s)]
      BY <1>0, <1>1, <1>3, <2>2
    <3>2. a - Len(s) = b - Len(s)
      BY <3>1, <1>0, <1>3 DEF IsInjective
    <3> QED
      BY <1>0, <3>2
  <2>3. CASE a <= Len(s) /\ b > Len(s)
    <3>1. a \in 1..Len(s) /\ b - Len(s) \in 1..Len(t) /\ s[a] = t[b - Len(s)]
      BY <1>0, <1>1, <1>3, <2>3
    <3> QED
      BY <3>1, <1>0, <1>3 DEF Range
  <2>4. CASE a > Len(s) /\ b <= Len(s)
    <3>1. b \in 1..Len(s) /\ a - Len(s) \in 1..Len(t) /\ s[b] = t[a - Len(s)]
      BY <1>0, <1>1, <1>3, <2>4
    <3> QED
      BY <3>1, <1>0, <1>3 DEF Range
  <2> QED
    BY <1>0, <2>1, <2>2, <2>3, <2>4
<1> QED
  BY <1>1, <1>2, <1>3 DEF IsInjective

\* Dequeueing.
LEMMA TailQueue ==
  ASSUME NEW T, NEW s \in Seq(T), s # <<>>
  PROVE  /\ Head(s) \in Range(s) /\ Head(s) \in T
         /\ Tail(s) \in Seq(T)
         /\ IsInjective(s) => /\ Range(Tail(s)) = Range(s) \ {Head(s)}
                              /\ IsInjective(Tail(s))
<1>0. Len(s) \in Nat /\ DOMAIN s = 1..Len(s) /\ Len(s) # 0
  BY LenProperties, EmptySeq
<1>1. /\ Tail(s) \in Seq(T) /\ Head(s) \in T /\ Head(s) = s[1]
      /\ Len(Tail(s)) = Len(s) - 1
      /\ \A i \in 1..(Len(s) - 1) : Tail(s)[i] = s[i + 1]
  BY HeadTailProperties
<1>2. DOMAIN Tail(s) = 1..(Len(s) - 1)
  BY <1>1, LenProperties
<1>3. Head(s) \in Range(s)
  BY <1>0, <1>1 DEF Range
<1>4. ASSUME IsInjective(s)
      PROVE  Range(Tail(s)) = Range(s) \ {Head(s)}
  <2>1. ASSUME NEW i \in 1..(Len(s) - 1)
        PROVE  Tail(s)[i] \in Range(s) \ {Head(s)}
    <3>1. i + 1 \in 1..Len(s) /\ i + 1 # 1 /\ 1 \in 1..Len(s)
      BY <1>0
    <3> QED
      BY <1>0, <1>1, <1>4, <3>1 DEF Range, IsInjective
  <2>2. ASSUME NEW y \in Range(s) \ {Head(s)}
        PROVE  y \in Range(Tail(s))
    <3>1. PICK i \in 1..Len(s) : s[i] = y
      BY <1>0 DEF Range
    <3>2. i - 1 \in 1..(Len(s) - 1) /\ Tail(s)[i - 1] = y
      BY <1>0, <1>1, <3>1
    <3> QED
      BY <1>2, <3>2 DEF Range
  <2> QED
    BY <1>2, <2>1, <2>2 DEF Range
<1>5. ASSUME IsInjective(s), NEW a \in 1..(Len(s) - 1), NEW b \in 1..(Len(s) - 1),
             Tail(s)[a] = Tail(s)[b]
      PROVE  a = b
  <2>1. a + 1 \in 1..Len(s) /\ b + 1 \in 1..Len(s) /\ s[a + 1] = s[b + 1]
    BY <1>0, <1>1, <1>5
  <2>2. a + 1 = b + 1
    BY <1>0, <1>5, <2>1 DEF IsInjective
  <2> QED
    BY <1>0, <2>2
<1> QED
  BY <1>1, <1>2, <1>3, <1>4, <1>5 DEF IsInjective

\* One more item at the end of s comes last in Keep(s, A), if it is in A.
LEMMA KeepAppend ==
  ASSUME NEW T, NEW s \in Seq(T), NEW x \in T, NEW A
  PROVE  Keep(Append(s, x), A) = IF x \in A THEN Append(Keep(s, A), x) ELSE Keep(s, A)
<1> DEFINE n == Len(s)
           t == Append(s, x)
           I == Selected(s, A)
           J == Selected(t, A)
           m == Cardinality(I)
<1>0. /\ n \in Nat /\ t \in Seq(T) /\ Len(t) = n + 1 /\ t[n + 1] = x
      /\ \A i \in 1..n : t[i] = s[i]
  BY AppendProperties, LenProperties
<1>1. I \in SUBSET (1..n) /\ J = IF x \in A THEN I \cup {n + 1} ELSE I
  <2>1. 1..(n + 1) = (1..n) \cup {n + 1}
    BY <1>0
  <2> QED
    BY <1>0, <2>1 DEF Selected
<1>2. /\ IsFiniteSet(I) /\ m \in Nat
      /\ \A k \in 1..m : \E i \in I : Rank(I, i) = k
      /\ \A i \in I : Rank(I, i) \in 1..m
      /\ \A i, j \in I : Rank(I, i) = Rank(I, j) => i = j
  BY <1>0, <1>1, RankBijective
<1> DEFINE c(k) == CHOOSE i \in I : Rank(I, i) = k
<1>3. \A k \in 1..m : c(k) \in I /\ Rank(I, c(k)) = k
  BY <1>2
<1>4. Keep(s, A) = [k \in 1..m |-> s[c(k)]]
  BY DEF Keep
<1>5. Keep(s, A) \in Seq(T)
  BY KeepProperties
<1> HIDE DEF n, t, m, I, J, c
<1>6. CASE x \notin A
  <2>1. Keep(t, A) = [k \in 1..m |-> t[c(k)]]
    BY <1>1, <1>6 DEF Keep, J, I, m, c
  <2>2. \A k \in 1..m : t[c(k)] = s[c(k)]
    BY <1>0, <1>1, <1>3
  <2> QED
    BY <1>4, <1>6, <2>1, <2>2 DEF t
<1>7. CASE x \in A
  <2> DEFINE d(k) == CHOOSE i \in J : Rank(J, i) = k
  <2>1. n + 1 \notin I /\ J = I \cup {n + 1}
    BY <1>0, <1>1, <1>7
  <2>2. Cardinality(J) = m + 1
    BY <1>2, <2>1, FS_AddElement DEF m
  <2>3. ASSUME NEW i \in I
        PROVE  Rank(J, i) = Rank(I, i)
    <3>1. {j \in J : j <= i} = {j \in I : j <= i}
      BY <1>0, <1>1, <2>1
    <3> QED
      BY <3>1 DEF Rank
  <2>4. Rank(J, n + 1) = m + 1
    <3>1. {j \in J : j <= n + 1} = J
      <4>1. \A j \in J : j <= n + 1
        BY <1>0, <1>1, <2>1
      <4> QED
        BY <4>1
    <3> QED
      BY <2>2, <3>1 DEF Rank
  <2>5. ASSUME NEW k \in 1..m
        PROVE  d(k) = c(k)
    <3>1. c(k) \in J /\ Rank(J, c(k)) = k
      BY <1>3, <2>1, <2>3
    <3>2. d(k) \in J /\ Rank(J, d(k)) = k
      BY <3>1
    <3>3. d(k) # n + 1
      BY <1>2, <2>4, <3>2
    <3>4. d(k) \in I /\ Rank(I, d(k)) = k
      <4> HIDE DEF d
      <4>1. d(k) \in I
        BY <2>1, <3>2, <3>3
      <4> QED
        BY <2>3, <3>2, <4>1
    <3> QED
      BY <1>2, <1>3, <3>4
  <2>6. d(m + 1) = n + 1
    <3>1. d(m + 1) \in J /\ Rank(J, d(m + 1)) = m + 1
      BY <2>1, <2>4
    <3>2. d(m + 1) \notin I
      BY <1>2, <2>3, <3>1
    <3> HIDE DEF d
    <3> QED
      BY <2>1, <3>1, <3>2
  <2>7. Keep(t, A) = [k \in 1..(m + 1) |-> t[d(k)]]
    BY <2>2 DEF Keep, J
  <2> HIDE DEF d
  <2>8. Keep(t, A) \in Seq(T)
    BY <1>0, KeepProperties
  <2>9. Len(Keep(s, A)) = m /\ Len(Keep(t, A)) = m + 1
    <3>1. DOMAIN Keep(s, A) = 1..m /\ DOMAIN Keep(t, A) = 1..(m + 1)
      BY <1>4, <2>7
    <3> QED
      BY <1>2, <1>5, <2>8, <3>1, LenProperties
  <2>10. /\ Append(Keep(s, A), x) \in Seq(T) /\ Len(Append(Keep(s, A), x)) = m + 1
         /\ Append(Keep(s, A), x)[m + 1] = x
         /\ \A k \in 1..m : Append(Keep(s, A), x)[k] = Keep(s, A)[k]
    BY <1>5, <2>9, AppendProperties
  <2>11. ASSUME NEW k \in 1..(m + 1)
         PROVE  Keep(t, A)[k] = Append(Keep(s, A), x)[k]
    <3>1. CASE k = m + 1
      BY <1>0, <2>6, <2>7, <2>10, <3>1
    <3>2. CASE k # m + 1
      <4>1. k \in 1..m
        BY <1>2, <3>2
      <4>2. c(k) \in 1..n
        BY <1>1, <1>3, <4>1
      <4> QED
        <5>1. Keep(t, A)[k] = t[d(k)] /\ Keep(s, A)[k] = s[c(k)]
          BY <1>4, <2>7, <4>1
        <5>2. t[d(k)] = s[c(k)]
          BY <1>0, <2>5, <4>1, <4>2
        <5> QED
          BY <2>10, <4>1, <5>1, <5>2
    <3> QED
      BY <3>1, <3>2
  <2>12. Keep(t, A) = Append(Keep(s, A), x)
    BY <2>8, <2>9, <2>10, <2>11, SeqEqual
  <2> QED
    BY <1>7, <2>12 DEF t
<1> QED
  BY <1>6, <1>7
=============================================================================
