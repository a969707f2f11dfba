---------------------------- MODULE OrdersProofs ----------------------------
(***************************************************************************)
(* What the operators of Orders return.  InOrder lists a finite set by a   *)
(* strict order, because the ranks of its elements are 0, 1, 2 and so on;  *)
(* Ascending and Select follow.  That a set of numbers has a least one     *)
(* follows as well, and with it induction, recursion and what FlattenSeq   *)
(* makes of sequences.  They are stated over sets and functions, because   *)
(* the provers cannot instantiate a parameter that is an operator.         *)
(***************************************************************************)
EXTENDS Orders, FiniteSetTheorems, FunctionTheorems, TLAPS

-----------------------------------------------------------------------------
(* Orders.                                                                 *)

\* R puts the elements of S one after the other.
StrictOrder(S, R) ==
    /\ \A x \in S : <<x, x>> \notin R
    /\ \A x, y \in S : x # y => <<x, y>> \in R \/ <<y, x>> \in R
    /\ \A x, y, z \in S : <<x, y>> \in R /\ <<y, z>> \in R => <<x, z>> \in R

\* InOrder returns every element of a finite set once, each after those that come
\* before it: what ORDER BY promises.
LEMMA InOrderLists ==
    ASSUME NEW S, IsFiniteSet(S), NEW R, StrictOrder(S, R)
    PROVE  /\ Cardinality(S) \in Nat
           /\ InOrder(S, R) \in [1 .. Cardinality(S) -> S]
           /\ \A x \in S : \E n \in 1 .. Cardinality(S) : InOrder(S, R)[n] = x
           /\ \A m, n \in 1 .. Cardinality(S) :
                 m < n => <<InOrder(S, R)[m], InOrder(S, R)[n]>> \in R
<1> DEFINE before(x) == {y \in S : <<y, x>> \in R}
           rank == [x \in S |-> Cardinality(before(x))]
           size == Cardinality(S)
           seq == InOrder(S, R)
<1>1. size \in Nat
  BY FS_CardinalityType
<1>2. \A x \in S : IsFiniteSet(before(x))
  BY FS_Subset
<1>3. \A x \in S : rank[x] \in 0 .. size - 1
  <2> SUFFICES ASSUME NEW x \in S PROVE rank[x] \in 0 .. size - 1
    OBVIOUS
  <2>1. before(x) \in SUBSET (S \ {x})
    BY DEF StrictOrder
  <2>2. IsFiniteSet(S \ {x}) /\ Cardinality(S \ {x}) = size - 1
    BY FS_RemoveElement
  <2>3. Cardinality(before(x)) <= size - 1
    <3> HIDE DEF before, size
    <3> QED BY <2>1, <2>2, FS_Subset
  <2>4. Cardinality(before(x)) \in Nat
    BY <1>2, FS_CardinalityType
  <2>5. rank[x] = Cardinality(before(x))
    OBVIOUS
  <2> QED BY <1>1, <2>3, <2>4, <2>5
<1>4. \A x, y \in S : <<x, y>> \in R => rank[x] < rank[y]
  <2> SUFFICES ASSUME NEW x \in S, NEW y \in S, <<x, y>> \in R PROVE rank[x] < rank[y]
    OBVIOUS
  <2>1. x \notin before(x)
    BY DEF StrictOrder
  <2>2. IsFiniteSet(before(x) \cup {x}) /\ Cardinality(before(x) \cup {x}) = Cardinality(before(x)) + 1
    BY <1>2, <2>1, FS_AddElement
  <2>3. before(x) \cup {x} \in SUBSET before(y)
    BY DEF StrictOrder
  <2>4. Cardinality(before(x) \cup {x}) <= Cardinality(before(y))
    BY <1>2, <2>3, FS_Subset
  <2>5. rank[x] = Cardinality(before(x)) /\ rank[y] = Cardinality(before(y))
    OBVIOUS
  <2> HIDE DEF before, rank
  <2> QED BY <1>1, <1>3, <2>2, <2>4, <2>5
<1>5. \A x, y \in S : rank[x] = rank[y] => x = y
  <2> SUFFICES ASSUME NEW x \in S, NEW y \in S, x # y PROVE rank[x] # rank[y]
    OBVIOUS
  <2>1. <<x, y>> \in R \/ <<y, x>> \in R
    BY DEF StrictOrder
  <2>2. rank[x] < rank[y] \/ rank[y] < rank[x]
    BY <1>4, <2>1
  <2>3. rank[x] \in Int /\ rank[y] \in Int
    BY <1>1, <1>3
  <2> QED BY <2>2, <2>3
<1>6. \A n \in 0 .. size - 1 : \E x \in S : rank[x] = n
  <2>1. rank \in [S -> 0 .. size - 1]
    BY <1>3
  <2>2. rank \in Injection(S, 0 .. size - 1)
    BY <1>5, <2>1 DEF Injection, IsInjective
  <2>3. IsFiniteSet(0 .. size - 1) /\ Cardinality(0 .. size - 1) = size
    BY <1>1, FS_Interval
  <2>4. rank \in Surjection(S, 0 .. size - 1)
    BY <2>2, <2>3, FS_Injection
  <2> QED BY <2>4 DEF Surjection
<1>7. seq = [n \in 1 .. size |-> CHOOSE x \in S : rank[x] = n - 1]
  BY DEF InOrder
<1>8. \A n \in 1 .. size : seq[n] \in S /\ rank[seq[n]] = n - 1
  <2> SUFFICES ASSUME NEW n \in 1 .. size PROVE seq[n] \in S /\ rank[seq[n]] = n - 1
    OBVIOUS
  <2>1. n - 1 \in 0 .. size - 1
    BY <1>1
  <2>2. seq[n] = CHOOSE x \in S : rank[x] = n - 1
    BY <1>7
  <2> HIDE DEF rank, seq
  <2> QED BY <1>6, <2>1, <2>2
<1> HIDE DEF rank, seq, size
<1>9. seq \in [1 .. size -> S]
  BY <1>7, <1>8
<1>10. \A x \in S : \E n \in 1 .. size : seq[n] = x
  <2> SUFFICES ASSUME NEW x \in S PROVE \E n \in 1 .. size : seq[n] = x
    OBVIOUS
  <2>1. rank[x] \in Nat /\ rank[x] < size
    BY <1>1, <1>3
  <2>2. PICK n \in 1 .. size : n = rank[x] + 1
    BY <1>1, <2>1
  <2>3. seq[n] \in S /\ rank[seq[n]] = n - 1
    BY <1>8
  <2>4. rank[seq[n]] = rank[x]
    BY <2>1, <2>2, <2>3
  <2> QED BY <1>5, <2>3, <2>4
<1>11. \A m, n \in 1 .. size : m < n => <<seq[m], seq[n]>> \in R
  <2> SUFFICES ASSUME NEW m \in 1 .. size, NEW n \in 1 .. size, m < n
               PROVE  <<seq[m], seq[n]>> \in R
    OBVIOUS
  <2>1. seq[m] \in S /\ seq[n] \in S /\ rank[seq[m]] < rank[seq[n]]
    BY <1>1, <1>8
  <2>2. \/ seq[m] = seq[n] \/ <<seq[m], seq[n]>> \in R \/ <<seq[n], seq[m]>> \in R
    BY <2>1 DEF StrictOrder
  <2>3. rank[seq[m]] \in Int /\ rank[seq[n]] \in Int
    BY <1>1, <1>3, <2>1
  <2> QED BY <1>4, <2>1, <2>2, <2>3
<1> QED BY <1>1, <1>9, <1>10, <1>11 DEF seq, size

\* seq has every element of S, each of them once.
Lists(seq, S) ==
    /\ seq \in Seq(S)
    /\ \A x \in S : \E n \in DOMAIN seq : seq[n] = x
    /\ \A m, n \in DOMAIN seq : seq[m] = seq[n] => m = n

\* The same as InOrderLists, of a sequence.
LEMMA InOrderIsSorted ==
    ASSUME NEW S, IsFiniteSet(S), NEW R, StrictOrder(S, R)
    PROVE  /\ Lists(InOrder(S, R), S)
           /\ Cardinality(S) \in Nat
           /\ Len(InOrder(S, R)) = Cardinality(S)
           /\ \A m, n \in DOMAIN InOrder(S, R) :
                 m < n => <<InOrder(S, R)[m], InOrder(S, R)[n]>> \in R
<1> DEFINE seq == InOrder(S, R)
           size == Cardinality(S)
<1> HIDE DEF seq, size
<1>1. /\ size \in Nat
      /\ seq \in [1 .. size -> S]
      /\ \A x \in S : \E n \in 1 .. size : seq[n] = x
      /\ \A m, n \in 1 .. size : m < n => <<seq[m], seq[n]>> \in R
  BY InOrderLists DEF seq, size
<1>2. seq \in Seq(S) /\ Len(seq) = size /\ DOMAIN seq = 1 .. size
  BY <1>1
<1>3. \A m, n \in 1 .. size : seq[m] = seq[n] => m = n
  <2> SUFFICES ASSUME NEW m \in 1 .. size, NEW n \in 1 .. size, seq[m] = seq[n] PROVE m = n
    OBVIOUS
  <2>1. seq[m] \in S /\ <<seq[m], seq[m]>> \notin R
    BY <1>1 DEF StrictOrder
  <2>2. ~ (m < n) /\ ~ (n < m)
    BY <1>1, <2>1
  <2> QED BY <1>1, <2>2
<1> QED BY <1>1, <1>2, <1>3 DEF Lists, seq, size

\* Numbers are ordered by <.
LEMMA NumbersAreOrdered ==
    ASSUME NEW I \in SUBSET Int
    PROVE  StrictOrder(I, {e \in I \X I : e[1] < e[2]})
<1> DEFINE R == {e \in I \X I : e[1] < e[2]}
<1>1. \A x, y \in I : <<x, y>> \in R <=> x < y
  OBVIOUS
<1> HIDE DEF R
<1>2. \A x \in I : x \in Int
  OBVIOUS
<1>3. \A x \in I : <<x, x>> \notin R
  BY <1>1, <1>2
<1>4. \A x, y \in I : x # y => <<x, y>> \in R \/ <<y, x>> \in R
  BY <1>1, <1>2
<1>5. \A x, y, z \in I : <<x, y>> \in R /\ <<y, z>> \in R => <<x, z>> \in R
  BY <1>1, <1>2
<1> QED BY <1>3, <1>4, <1>5 DEF StrictOrder, R

\* Of numbers that are finitely many, one is the least.
LEMMA LeastOf ==
    ASSUME NEW I \in SUBSET Int, IsFiniteSet(I), I # {}
    PROVE  \E i \in I : \A j \in I : i <= j
<1> DEFINE R == {e \in I \X I : e[1] < e[2]}
           seq == InOrder(I, R)
<1>1. StrictOrder(I, R)
  BY NumbersAreOrdered
<1>2. \A x, y \in I : <<x, y>> \in R <=> x < y
  OBVIOUS
<1> HIDE DEF R
<1>3. /\ Lists(seq, I)
      /\ \A m, n \in DOMAIN seq : m < n => <<seq[m], seq[n]>> \in R
  BY <1>1, InOrderIsSorted
<1> HIDE DEF seq
<1>4. seq \in Seq(I) /\ \A x \in I : \E n \in DOMAIN seq : seq[n] = x
  BY <1>3 DEF Lists
<1>5. DOMAIN seq = 1 .. Len(seq) /\ Len(seq) \in Nat
  BY <1>4
<1>6. 1 \in DOMAIN seq
  <2>1. PICK x \in I : TRUE
    OBVIOUS
  <2>2. PICK n \in DOMAIN seq : seq[n] = x
    BY <1>4
  <2>3. n \in 1 .. Len(seq)
    BY <1>5
  <2> QED BY <1>5, <2>3
<1>7. seq[1] \in I
  BY <1>4, <1>5, <1>6
<1>8. ASSUME NEW j \in I PROVE seq[1] <= j
  <2>1. PICK n \in DOMAIN seq : seq[n] = j
    BY <1>4
  <2>2. CASE n = 1
    BY <1>7, <2>1, <2>2
  <2>3. CASE n # 1
    <3>1. 1 < n
      <4>1. n \in 1 .. Len(seq)
        BY <1>5
      <4> QED BY <1>5, <2>3, <4>1
    <3>2. <<seq[1], seq[n]>> \in R
      BY <1>3, <1>6, <3>1
    <3>3. <<seq[1], j>> \in R
      BY <2>1, <3>2
    <3>4. seq[1] < j
      BY <1>2, <1>7, <3>3
    <3>5. seq[1] \in Int /\ j \in Int
      BY <1>7
    <3> QED BY <3>4, <3>5
  <2> QED BY <2>2, <2>3
<1> QED BY <1>7, <1>8

-----------------------------------------------------------------------------
(* Numbers in ascending order.                                             *)

IsAscending(seq) == \A m, n \in DOMAIN seq : m < n => seq[m] < seq[n]

\* Ascending returns the numbers of a set, each once, the least first.
LEMMA AscendingLists ==
    ASSUME NEW I \in SUBSET Int, IsFiniteSet(I)
    PROVE  Lists(Ascending(I), I) /\ IsAscending(Ascending(I))
<1> DEFINE R == {e \in I \X I : e[1] < e[2]}
           at == InOrder(I, R)
<1>1. StrictOrder(I, R)
  BY NumbersAreOrdered
<1>2. \A x, y : <<x, y>> \in R => x < y
  OBVIOUS
<1> HIDE DEF R
<1>3. Lists(at, I) /\ \A m, n \in DOMAIN at : m < n => <<at[m], at[n]>> \in R
  BY <1>1, InOrderIsSorted
<1>4. Ascending(I) = at
  BY DEF Ascending, R
<1> HIDE DEF at
<1> QED BY <1>2, <1>3, <1>4 DEF IsAscending

\* Where two ascending lists agree so far, one goes on if the other does, and not
\* further than it.
LEMMA ListsGoOn ==
    ASSUME NEW I \in SUBSET Int, NEW a, NEW b, Lists(a, I), Lists(b, I), IsAscending(a),
           NEW n \in DOMAIN b, \A k \in 1 .. n - 1 : k \in DOMAIN a /\ a[k] = b[k]
    PROVE  n \in DOMAIN a /\ a[n] <= b[n]
<1>1. /\ a \in Seq(I) /\ b \in Seq(I)
      /\ \A x \in I : \E k \in DOMAIN a : a[k] = x
      /\ \A k, l \in DOMAIN b : b[k] = b[l] => k = l
  BY DEF Lists
<1>2. /\ DOMAIN a = 1 .. Len(a) /\ Len(a) \in Nat
      /\ DOMAIN b = 1 .. Len(b) /\ Len(b) \in Nat
      /\ \A k \in DOMAIN a : a[k] \in I
      /\ \A k \in DOMAIN b : b[k] \in I
  BY <1>1
<1>3. PICK m \in DOMAIN a : a[m] = b[n]
  BY <1>1, <1>2
<1>4. ~ m < n
  <2> SUFFICES ASSUME m < n PROVE FALSE
    OBVIOUS
  <2>1. m \in 1 .. n - 1 /\ m \in DOMAIN b
    BY <1>2
  <2>2. b[m] = b[n]
    BY <1>3, <2>1
  <2> QED BY <1>1, <2>1, <2>2
<1>5. n \in DOMAIN a /\ (n = m \/ n < m)
  BY <1>2, <1>4
<1>6. n = m \/ a[n] < a[m]
  BY <1>5 DEF IsAscending
<1>7. a[n] \in Int /\ a[m] \in Int
  BY <1>2, <1>5
<1> QED BY <1>3, <1>5, <1>6, <1>7

\* There is one ascending list of a set.
LEMMA AscendingIsUnique ==
    ASSUME NEW I \in SUBSET Int, IsFiniteSet(I), NEW a, Lists(a, I), IsAscending(a)
    PROVE  Ascending(I) = a
<1> DEFINE b == Ascending(I)
           Apart == {n \in DOMAIN a \cup DOMAIN b :
                       ~ (n \in DOMAIN a /\ n \in DOMAIN b /\ a[n] = b[n])}
<1>1. Lists(b, I) /\ IsAscending(b)
  BY AscendingLists
<1> HIDE DEF b
<1>2. a \in Seq(I) /\ b \in Seq(I)
  BY <1>1 DEF Lists
<1>3. DOMAIN a = 1 .. Len(a) /\ Len(a) \in Nat /\ DOMAIN b = 1 .. Len(b) /\ Len(b) \in Nat
  BY <1>2
<1>4. Apart = {}
  <2> SUFFICES ASSUME Apart # {} PROVE FALSE
    OBVIOUS
  <2>1. Apart \in SUBSET Int /\ IsFiniteSet(Apart)
    <3>1. IsFiniteSet(DOMAIN a) /\ IsFiniteSet(DOMAIN b)
      BY <1>3, FS_Interval
    <3>2. IsFiniteSet(DOMAIN a \cup DOMAIN b)
      BY <3>1, FS_Union
    <3>3. Apart \in SUBSET (DOMAIN a \cup DOMAIN b)
      OBVIOUS
    <3> HIDE DEF Apart
    <3>4. DOMAIN a \cup DOMAIN b \subseteq Int
      BY <1>3
    <3> QED BY <3>2, <3>3, <3>4, FS_Subset
  <2>2. PICK n \in Apart : \A k \in Apart : n <= k
    <3> HIDE DEF Apart
    <3> QED BY <2>1, LeastOf
  <2>3. n \in Int /\ n >= 1
    <3>1. n \in DOMAIN a \cup DOMAIN b
      OBVIOUS
    <3> HIDE DEF Apart
    <3> QED BY <1>3, <3>1
  <2>4. \A k \in 1 .. n - 1 : k \in DOMAIN a /\ k \in DOMAIN b /\ a[k] = b[k]
    <3> SUFFICES ASSUME NEW k \in 1 .. n - 1
                 PROVE  k \in DOMAIN a /\ k \in DOMAIN b /\ a[k] = b[k]
      OBVIOUS
    <3>1. ~ n <= k
      BY <2>3
    <3>2. k \notin Apart
      BY <2>2, <3>1
    <3>3. k \in DOMAIN a \cup DOMAIN b
      BY <1>3, <2>3
    <3> QED BY <3>2, <3>3
  <2>5. n \in DOMAIN a \/ n \in DOMAIN b
    OBVIOUS
  <2> HIDE DEF Apart
  <2>6. ASSUME n \in DOMAIN b PROVE n \in DOMAIN a /\ a[n] <= b[n]
    BY <1>1, <2>4, <2>6, ListsGoOn
  <2>7. ASSUME n \in DOMAIN a PROVE n \in DOMAIN b /\ b[n] <= a[n]
    BY <1>1, <2>4, <2>7, ListsGoOn
  <2>8. n \in DOMAIN a /\ n \in DOMAIN b
    BY <2>5, <2>6, <2>7
  <2>9. a[n] \in Int /\ b[n] \in Int
    <3>1. a[n] \in I /\ b[n] \in I
      BY <1>2, <2>8
    <3> QED BY <3>1
  <2>10. a[n] = b[n]
    BY <2>6, <2>7, <2>8, <2>9
  <2> QED BY <2>8, <2>10 DEF Apart
<1>5. DOMAIN a = DOMAIN b /\ \A n \in DOMAIN a : a[n] = b[n]
  BY <1>4
<1>6. a = b
  <2> HIDE DEF Apart
  <2> QED BY <1>2, <1>3, <1>5
<1> QED BY <1>6 DEF b

\* A number greater than all others comes last.
LEMMA AscendingAppends ==
    ASSUME NEW I \in SUBSET Int, IsFiniteSet(I), NEW k \in Int, \A j \in I : j < k
    PROVE  Ascending(I \cup {k}) = Append(Ascending(I), k)
<1> DEFINE at == Ascending(I)
           m == Len(at)
           a == Append(at, k)
           J == I \cup {k}
<1>1. Lists(at, I) /\ IsAscending(at)
  BY AscendingLists
<1> HIDE DEF at
<1>2. /\ at \in Seq(I)
      /\ \A x \in I : \E n \in DOMAIN at : at[n] = x
      /\ \A n, l \in DOMAIN at : at[n] = at[l] => n = l
  BY <1>1 DEF Lists
<1>3. at \in Seq(J) /\ m \in Nat /\ DOMAIN at = 1 .. m /\ \A n \in 1 .. m : at[n] \in I
  BY <1>2
<1>4. /\ a \in Seq(J) /\ DOMAIN a = 1 .. m + 1
      /\ a[m + 1] = k /\ \A n \in 1 .. m : a[n] = at[n]
  BY <1>3
<1> HIDE DEF a, m
<1>5. \A n \in 1 .. m + 1 :
         (n \in 1 .. m /\ a[n] = at[n] /\ a[n] \in I) \/ (n = m + 1 /\ a[n] = k)
  <2>1. \A n \in 1 .. m + 1 : n \in 1 .. m \/ n = m + 1
    BY <1>3
  <2> QED BY <1>3, <1>4, <2>1
<1>6. Lists(a, J)
  <2>1. \A x \in J : \E n \in DOMAIN a : a[n] = x
    <3>1. ASSUME NEW x \in I PROVE \E n \in DOMAIN a : a[n] = x
      <4>1. PICK n \in 1 .. m : at[n] = x
        BY <1>2, <1>3
      <4>2. n \in 1 .. m + 1
        BY <1>3
      <4> QED BY <1>4, <4>1, <4>2
    <3>2. m + 1 \in DOMAIN a
      BY <1>3, <1>4
    <3> QED BY <1>4, <3>1, <3>2
  <2>2. k \notin I
    OBVIOUS
  <2>3. \A n, l \in DOMAIN a : a[n] = a[l] => n = l
    BY <1>2, <1>3, <1>4, <1>5, <2>2
  <2> QED BY <1>4, <2>1, <2>3 DEF Lists
<1>7. IsAscending(a)
  <2> SUFFICES ASSUME NEW n \in 1 .. m + 1, NEW l \in 1 .. m + 1, n < l PROVE a[n] < a[l]
    BY <1>4 DEF IsAscending
  <2>1. n \in 1 .. m /\ a[n] = at[n] /\ at[n] \in I
    BY <1>3, <1>5
  <2>2. CASE l \in 1 .. m /\ a[l] = at[l]
    BY <1>1, <1>3, <2>1, <2>2 DEF IsAscending
  <2>3. CASE l = m + 1 /\ a[l] = k
    BY <2>1, <2>3
  <2> QED BY <1>5, <2>2, <2>3
<1>8. J \in SUBSET Int /\ IsFiniteSet(J)
  BY FS_AddElement
<1> HIDE DEF J
<1>9. Ascending(J) = a
  BY <1>6, <1>7, <1>8, AscendingIsUnique
<1> QED BY <1>9 DEF J, a, at

\* Select returns the elements at the given places, from the first to the last.
LEMMA SelectLists ==
    ASSUME NEW S, NEW seq \in Seq(S), NEW I \in SUBSET DOMAIN seq
    PROVE  \E at : /\ Lists(at, I)
                   /\ \A m, n \in DOMAIN at : m < n => at[m] < at[n]
                   /\ Select(seq, I) = [n \in DOMAIN at |-> seq[at[n]]]
<1>1. I \in SUBSET Int /\ IsFiniteSet(I)
  <2>1. DOMAIN seq = 1 .. Len(seq) /\ Len(seq) \in Nat
    OBVIOUS
  <2>2. IsFiniteSet(1 .. Len(seq))
    BY <2>1, FS_Interval
  <2>3. I \in SUBSET (1 .. Len(seq))
    BY <2>1
  <2> QED BY <2>1, <2>2, <2>3, FS_Subset
<1>2. Lists(Ascending(I), I) /\ IsAscending(Ascending(I))
  BY <1>1, AscendingLists
<1> QED BY <1>2 DEF IsAscending, Select

\* Selecting the first places cuts a sequence.
LEMMA SelectPrefix ==
    ASSUME NEW S, NEW seq \in Seq(S), NEW k \in 0 .. Len(seq)
    PROVE  Select(seq, 1 .. k) = [n \in 1 .. k |-> seq[n]]
<1> DEFINE a == [n \in 1 .. k |-> n]
<1>1. k \in Nat
  OBVIOUS
<1>2. 1 .. k \in SUBSET Int /\ IsFiniteSet(1 .. k)
  BY <1>1, FS_Interval
<1>3. Lists(a, 1 .. k) /\ IsAscending(a)
  <2>1. a \in Seq(1 .. k)
    BY <1>1
  <2> QED BY <2>1 DEF Lists, IsAscending
<1>4. Ascending(1 .. k) = a
  <2> HIDE DEF a
  <2> QED BY <1>2, <1>3, AscendingIsUnique
<1>5. Select(seq, 1 .. k) = [n \in DOMAIN a |-> seq[a[n]]]
  BY <1>4 DEF Select
<1> QED BY <1>5

\* Min and Max find the least and the greatest of numbers that are finitely many.
LEMMA LeastIsFound ==
    ASSUME NEW I \in SUBSET Int, IsFiniteSet(I), I # {}
    PROVE  Min(I) \in I /\ \A j \in I : Min(I) <= j
<1>1. \E i \in I : \A j \in I : i <= j
  BY LeastOf
<1> QED BY <1>1 DEF Min

LEMMA GreatestIsFound ==
    ASSUME NEW I \in SUBSET Int, IsFiniteSet(I), I # {}
    PROVE  Max(I) \in I /\ \A j \in I : j <= Max(I)
<1> DEFINE at == Ascending(I)
<1>1. Lists(at, I) /\ IsAscending(at)
  BY AscendingLists
<1> HIDE DEF at
<1>2. at \in Seq(I) /\ \A x \in I : \E n \in DOMAIN at : at[n] = x
  BY <1>1 DEF Lists
<1>3. DOMAIN at = 1 .. Len(at) /\ Len(at) \in Nat /\ \A n \in DOMAIN at : at[n] \in I
  BY <1>2
<1>4. Len(at) \in DOMAIN at
  <2>1. PICK x \in I : TRUE
    OBVIOUS
  <2>2. PICK n \in DOMAIN at : at[n] = x
    BY <1>2
  <2>3. n \in 1 .. Len(at)
    BY <1>3
  <2> QED BY <1>3, <2>3
<1>5. \A j \in I : at[Len(at)] >= j
  <2> SUFFICES ASSUME NEW j \in I PROVE at[Len(at)] >= j
    OBVIOUS
  <2>1. PICK n \in DOMAIN at : at[n] = j
    BY <1>2
  <2>2. n = Len(at) \/ n < Len(at)
    <3>1. n \in 1 .. Len(at)
      BY <1>3
    <3> QED BY <1>3, <3>1
  <2>3. n = Len(at) \/ at[n] < at[Len(at)]
    BY <1>1, <1>4, <2>2 DEF IsAscending
  <2>4. at[n] \in Int /\ at[Len(at)] \in Int
    BY <1>3, <1>4
  <2> QED BY <2>1, <2>3, <2>4
<1>6. at[Len(at)] \in I
  BY <1>3, <1>4
<1>7. \E x \in I : \A y \in I : x >= y
  BY <1>5, <1>6
<1>8. Max(I) \in I /\ \A y \in I : Max(I) >= y
  BY <1>7 DEF Max
<1> QED BY <1>8

\* A list of places, and the list of what is there.
LEMMA ListOfPlaces ==
    ASSUME NEW S, NEW seq, Lists(seq, S), NEW I \in SUBSET DOMAIN seq, NEW at, Lists(at, I)
    PROVE  Lists([n \in DOMAIN at |-> seq[at[n]]], {seq[i] : i \in I})
<1> DEFINE list == [n \in DOMAIN at |-> seq[at[n]]]
           T == {seq[i] : i \in I}
<1>1. /\ at \in Seq(I)
      /\ \A x \in I : \E n \in DOMAIN at : at[n] = x
      /\ \A m, n \in DOMAIN at : at[m] = at[n] => m = n
  BY DEF Lists
<1>2. \A m, n \in DOMAIN seq : seq[m] = seq[n] => m = n
  BY DEF Lists
<1>3. DOMAIN at = 1 .. Len(at) /\ Len(at) \in Nat /\ \A n \in DOMAIN at : at[n] \in I
  BY <1>1
<1>4. DOMAIN list = DOMAIN at /\ \A n \in DOMAIN at : list[n] = seq[at[n]]
  OBVIOUS
<1>5. list \in Seq(T)
  <2>1. \A n \in 1 .. Len(at) : seq[at[n]] \in T
    BY <1>3
  <2> HIDE DEF T
  <2>2. list = [n \in 1 .. Len(at) |-> seq[at[n]]]
    BY <1>3
  <2> QED BY <1>3, <2>1, <2>2
<1>6. \A x \in T : \E n \in DOMAIN list : list[n] = x
  <2> SUFFICES ASSUME NEW x \in T PROVE \E n \in DOMAIN list : list[n] = x
    OBVIOUS
  <2>1. PICK i \in I : x = seq[i]
    OBVIOUS
  <2>2. PICK n \in DOMAIN at : at[n] = i
    BY <1>1
  <2> QED BY <1>4, <2>1, <2>2
<1>7. \A m, n \in DOMAIN list : list[m] = list[n] => m = n
  BY <1>1, <1>2, <1>3, <1>4
<1> HIDE DEF list, T
<1> QED BY <1>5, <1>6, <1>7 DEF Lists, list, T

\* As many places of a list have a property as elements of the set have it.
LEMMA PlacesAreCounted ==
    ASSUME NEW S, NEW seq, Lists(seq, S), NEW I \in SUBSET DOMAIN seq, NEW J \in SUBSET S,
           \A n \in DOMAIN seq : n \in I <=> seq[n] \in J
    PROVE  Cardinality(I) = Cardinality(J) /\ IsFiniteSet(J)
<1>1. /\ seq \in Seq(S)
      /\ \A x \in S : \E n \in DOMAIN seq : seq[n] = x
      /\ \A m, n \in DOMAIN seq : seq[m] = seq[n] => m = n
  BY DEF Lists
<1>2. DOMAIN seq = 1 .. Len(seq) /\ Len(seq) \in Nat
  BY <1>1
<1>3. IsFiniteSet(I)
  <2>1. IsFiniteSet(1 .. Len(seq))
    BY <1>2, FS_Interval
  <2> QED BY <1>2, <2>1, FS_Subset
<1> DEFINE f == [n \in I |-> seq[n]]
<1>4. f \in [I -> J] /\ \A m, n \in I : f[m] = f[n] => m = n
  BY <1>1
<1>5. \A x \in J : \E n \in I : f[n] = x
  <2> SUFFICES ASSUME NEW x \in J PROVE \E n \in I : f[n] = x
    OBVIOUS
  <2>1. PICK n \in DOMAIN seq : seq[n] = x
    BY <1>1
  <2> QED BY <2>1
<1> HIDE DEF f
<1>6. f \in Bijection(I, J)
  BY <1>4, <1>5 DEF Bijection, Injection, IsInjective, Surjection
<1>7. ExistsBijection(I, J)
  BY <1>6 DEF ExistsBijection
<1> QED BY <1>3, <1>7, FS_Bijection

\* A list of the first n numbers is n long.
LEMMA ListsAreAsLong ==
    ASSUME NEW n \in Nat, NEW seq, Lists(seq, 1 .. n)
    PROVE  Len(seq) = n
<1>1. seq \in Seq(1 .. n)
  BY DEF Lists
<1>2. DOMAIN seq = 1 .. Len(seq) /\ Len(seq) \in Nat /\ \A k \in DOMAIN seq : seq[k] \in 1 .. n
  BY <1>1
<1> DEFINE I == 1 .. Len(seq)
           J == 1 .. n
<1>3. Lists(seq, J) /\ I \in SUBSET DOMAIN seq /\ J \in SUBSET J
      /\ \A k \in DOMAIN seq : k \in I <=> seq[k] \in J
  BY <1>2
<1> HIDE DEF I, J
<1>4. Cardinality(I) = Cardinality(J)
  BY <1>3, PlacesAreCounted
<1>5. Cardinality(I) = Len(seq)
  <2>1. PICK m \in Nat : m = Len(seq)
    BY <1>2
  <2>2. Cardinality(1 .. m) = IF 1 > m THEN 0 ELSE m - 1 + 1
    BY FS_Interval
  <2> QED BY <2>1, <2>2 DEF I
<1>6. Cardinality(J) = n
  <2>1. Cardinality(1 .. n) = IF 1 > n THEN 0 ELSE n - 1 + 1
    BY FS_Interval
  <2> QED BY <2>1 DEF J
<1> QED BY <1>4, <1>5, <1>6

-----------------------------------------------------------------------------
(* Induction and recursion.                                                *)

\* Counting up to n.
LEMMA Counting ==
    ASSUME NEW n \in Nat, NEW K, 0 \in K, \A k \in 1 .. n : k - 1 \in K => k \in K
    PROVE  \A k \in 0 .. n : k \in K
<1> DEFINE Missed == {k \in 0 .. n : k \notin K}
<1> SUFFICES ASSUME Missed # {} PROVE FALSE
  OBVIOUS
<1>1. Missed \in SUBSET Int /\ IsFiniteSet(Missed)
  <2>1. IsFiniteSet(0 .. n) /\ 0 .. n \subseteq Int /\ Missed \in SUBSET (0 .. n)
    BY FS_Interval
  <2> HIDE DEF Missed
  <2> QED BY <2>1, FS_Subset
<1>2. PICK k \in Missed : \A l \in Missed : k <= l
  <2> HIDE DEF Missed
  <2> QED BY <1>1, LeastOf
<1>3. k \in 1 .. n /\ k - 1 \in 0 .. n /\ ~ k <= k - 1
  OBVIOUS
<1>4. k - 1 \in K
  BY <1>2, <1>3
<1> QED BY <1>3, <1>4

\* What is so for 0, and for any other number if for its parent, a lower one, is so
\* for all.
LEMMA FromTheRoot ==
    ASSUME NEW n \in Nat, NEW parent, \A k \in 1 .. n : parent[k] \in 0 .. k - 1,
           NEW S, 0 \in S, \A k \in 1 .. n : parent[k] \in S => k \in S
    PROVE  \A k \in 0 .. n : k \in S
<1> DEFINE K == {k \in 0 .. n : \A j \in 0 .. k : j \in S}
<1>1. 0 \in K
  OBVIOUS
<1>2. ASSUME NEW k \in 1 .. n, k - 1 \in K PROVE k \in K
  <2>1. \A j \in 0 .. k - 1 : j \in S
    BY <1>2
  <2>2. k \in S
    BY <2>1
  <2>3. k \in 0 .. n /\ \A j \in 0 .. k : j \in 0 .. k - 1 \/ j = k
    OBVIOUS
  <2> QED BY <2>1, <2>2, <2>3
<1> HIDE DEF K
<1>3. \A k \in 1 .. n : k - 1 \in K => k \in K
  BY <1>2
<1>4. \A k \in 0 .. n : k \in K
  BY <1>1, <1>3, Counting
<1> SUFFICES ASSUME NEW k \in 0 .. n PROVE k \in S
  OBVIOUS
<1>5. k \in K /\ k \in 0 .. k
  BY <1>4
<1> QED BY <1>5 DEF K

\* What is so for a number if for all greater ones, is so for all.
LEMMA FromTheLeaves ==
    ASSUME NEW n \in Nat, NEW S, \A i \in 0 .. n : (\A k \in i + 1 .. n : k \in S) => i \in S
    PROVE  \A i \in 0 .. n : i \in S
<1> DEFINE K == {k \in 0 .. n : \A i \in n - k .. n : i \in S}
<1>1. 0 \in K
  <2>1. n \in 0 .. n /\ \A k \in n + 1 .. n : k \in S
    OBVIOUS
  <2>2. n \in S
    BY <2>1
  <2>3. 0 \in 0 .. n /\ \A i \in n - 0 .. n : i = n
    OBVIOUS
  <2> QED BY <2>2, <2>3
<1>2. ASSUME NEW k \in 1 .. n, k - 1 \in K PROVE k \in K
  <2>1. \A i \in n - (k - 1) .. n : i \in S
    BY <1>2
  <2>2. n - k \in 0 .. n /\ \A i \in (n - k) + 1 .. n : i \in n - (k - 1) .. n
    OBVIOUS
  <2>3. n - k \in S
    BY <2>1, <2>2
  <2>4. k \in 0 .. n /\ \A i \in n - k .. n : i = n - k \/ i \in n - (k - 1) .. n
    OBVIOUS
  <2> QED BY <2>1, <2>3, <2>4
<1> HIDE DEF K
<1>3. \A k \in 1 .. n : k - 1 \in K => k \in K
  BY <1>2
<1>4. \A k \in 0 .. n : k \in K
  BY <1>1, <1>3, Counting
<1> SUFFICES ASSUME NEW i \in 0 .. n PROVE i \in S
  OBVIOUS
<1>5. n \in 0 .. n /\ i \in n - n .. n
  OBVIOUS
<1>6. n \in K
  BY <1>4, <1>5
<1> QED BY <1>5, <1>6 DEF K

\* f has at each point what is made of its values at the points that this one needs.
Recurses(f, D, V, needs, made) ==
    \A i \in D : \E values \in Seq(V) :
        /\ DOMAIN values = DOMAIN needs[i]
        /\ \A c \in DOMAIN needs[i] : values[c] = f[needs[i][c]]
        /\ f[i] = made[<<i, values>>]

\* Such a function exists if every point needs only points of lower rank.
LEMMA Recursion ==
    ASSUME NEW D, NEW m \in Nat, NEW rank \in [D -> 0 .. m], NEW V, V # {},
           NEW needs \in [D -> Seq(D)],
           \A i \in D : \A c \in DOMAIN needs[i] : rank[needs[i][c]] < rank[i],
           NEW made \in [D \X Seq(V) -> V]
    PROVE  \E f \in [D -> V] : Recurses(f, D, V, needs, made)
<1> DEFINE made1(f, i) == made[<<i, [c \in DOMAIN needs[i] |-> f[needs[i][c]]]>>]
           right(f, k) == \A i \in D : rank[i] < k => f[i] = made1(f, i)
           K == {k \in 0 .. m + 1 : \E f \in [D -> V] : right(f, k)}
<1>1. ASSUME NEW f \in [D -> V], NEW i \in D
      PROVE  [c \in DOMAIN needs[i] |-> f[needs[i][c]]] \in Seq(V) /\ made1(f, i) \in V
  <2>1. needs[i] \in Seq(D)
    OBVIOUS
  <2>2. DOMAIN needs[i] = 1 .. Len(needs[i]) /\ Len(needs[i]) \in Nat
        /\ \A c \in DOMAIN needs[i] : needs[i][c] \in D
    BY <2>1
  <2>3. \A c \in DOMAIN needs[i] : f[needs[i][c]] \in V
    BY <2>2
  <2>4. [c \in DOMAIN needs[i] |-> f[needs[i][c]]] \in Seq(V)
    BY <2>2, <2>3
  <2> QED BY <2>4
<1>2. ASSUME NEW k \in 0 .. m + 1, k # 0, k - 1 \in K PROVE k \in K
  <2>1. PICK f \in [D -> V] : right(f, k - 1)
    BY <1>2
  <2> DEFINE g == [i \in D |-> IF rank[i] = k - 1 THEN made1(f, i) ELSE f[i]]
  <2>2. g \in [D -> V]
    <3> HIDE DEF made1
    <3> QED BY <1>1
  <2>3. ASSUME NEW i \in D, rank[i] < k PROVE g[i] = made1(g, i)
    <3>1. \A c \in DOMAIN needs[i] : needs[i][c] \in D
      <4>1. needs[i] \in Seq(D)
        OBVIOUS
      <4> QED BY <4>1
    <3>2. \A c \in DOMAIN needs[i] : rank[needs[i][c]] # k - 1
      <4> SUFFICES ASSUME NEW c \in DOMAIN needs[i] PROVE rank[needs[i][c]] # k - 1
        OBVIOUS
      <4>1. rank[needs[i][c]] < rank[i] /\ rank[needs[i][c]] \in Int /\ rank[i] \in Int
        BY <3>1
      <4> QED BY <2>3, <4>1
    <3>3. \A c \in DOMAIN needs[i] : g[needs[i][c]] = f[needs[i][c]]
      BY <3>1, <3>2
    <3>4. [c \in DOMAIN needs[i] |-> g[needs[i][c]]] = [c \in DOMAIN needs[i] |-> f[needs[i][c]]]
      <4> HIDE DEF g
      <4> QED BY <3>3
    <3>5. made1(g, i) = made1(f, i)
      <4> HIDE DEF g
      <4> QED BY <3>4
    <3>6. g[i] = made1(f, i)
      <4>1. CASE rank[i] = k - 1
        BY <4>1
      <4>2. CASE rank[i] # k - 1
        <5>1. rank[i] < k - 1
          <6>1. rank[i] \in Int
            OBVIOUS
          <6> QED BY <2>3, <4>2, <6>1
        <5>2. f[i] = made1(f, i)
          BY <2>1, <5>1
        <5> QED BY <4>2, <5>2
      <4> QED BY <4>1, <4>2
    <3> QED BY <3>5, <3>6
  <2>4. right(g, k)
    <3> HIDE DEF g, made1
    <3> QED BY <2>3
  <2> HIDE DEF g, right
  <2> QED BY <2>2, <2>4
<1>3. 0 \in K
  <2>1. PICK v \in V : TRUE
    OBVIOUS
  <2> DEFINE f == [i \in D |-> v]
  <2>2. f \in [D -> V]
    OBVIOUS
  <2>3. \A i \in D : ~ rank[i] < 0
    <3> SUFFICES ASSUME NEW i \in D PROVE ~ rank[i] < 0
      OBVIOUS
    <3>1. rank[i] \in 0 .. m
      OBVIOUS
    <3> QED BY <3>1
  <2>4. right(f, 0)
    <3> HIDE DEF f, made1
    <3> QED BY <2>3
  <2> HIDE DEF f, right
  <2> QED BY <2>2, <2>4
<1> HIDE DEF K
<1>4. \A k \in 0 .. m + 1 : k \in K
  <2>1. \A k \in 1 .. m + 1 : k - 1 \in K => k \in K
    BY <1>2
  <2>2. m + 1 \in Nat
    OBVIOUS
  <2> QED BY <1>3, <2>1, <2>2, Counting
<1>5. m + 1 \in K
  BY <1>4
<1>6. PICK f \in [D -> V] : right(f, m + 1)
  BY <1>5 DEF K
<1>7. \A i \in D : f[i] = made1(f, i)
  <2> SUFFICES ASSUME NEW i \in D PROVE f[i] = made1(f, i)
    OBVIOUS
  <2>1. rank[i] \in 0 .. m
    OBVIOUS
  <2>2. rank[i] < m + 1
    BY <2>1
  <2> QED BY <1>6, <2>2
<1>8. ASSUME NEW i \in D
      PROVE  \E values \in Seq(V) :
                 /\ DOMAIN values = DOMAIN needs[i]
                 /\ \A c \in DOMAIN needs[i] : values[c] = f[needs[i][c]]
                 /\ f[i] = made[<<i, values>>]
  <2> DEFINE values == [c \in DOMAIN needs[i] |-> f[needs[i][c]]]
  <2>1. values \in Seq(V)
    BY <1>1
  <2>2. DOMAIN values = DOMAIN needs[i] /\ \A c \in DOMAIN needs[i] : values[c] = f[needs[i][c]]
    OBVIOUS
  <2>3. f[i] = made[<<i, values>>]
    BY <1>7
  <2> HIDE DEF values
  <2> QED BY <2>1, <2>2, <2>3
<1> QED BY <1>8 DEF Recurses

\* f has at each number up to n what is made of its value at one lower number.
Descends(f, n, v, up, made) ==
    f[0] = v /\ \A k \in 1 .. n : f[k] = made[<<f[up[k]], k>>]

\* Such a function exists, too.
LEMMA Descent ==
    ASSUME NEW n \in Nat, NEW V, NEW v \in V, NEW up, \A k \in 1 .. n : up[k] \in 0 .. k - 1,
           NEW made \in [V \X (1 .. n) -> V]
    PROVE  \E f \in [0 .. n -> V] : Descends(f, n, v, up, made)
<1> DEFINE D == 0 .. n
           rank == [k \in D |-> k]
           needs == [k \in D |-> IF k = 0 THEN <<>> ELSE <<up[k]>>]
           made1 == [e \in D \X Seq(V) |->
                       IF e[1] = 0 \/ 1 \notin DOMAIN e[2] THEN v ELSE made[<<e[2][1], e[1]>>]]
<1>1. rank \in [D -> 0 .. n] /\ V # {}
  OBVIOUS
<1>2. ASSUME NEW k \in D
      PROVE  /\ needs[k] \in Seq(D)
             /\ \A c \in DOMAIN needs[k] : rank[needs[k][c]] < rank[k]
  <2>1. CASE k = 0
    <3>1. needs[k] = <<>>
      BY <2>1
    <3> HIDE DEF needs, rank, D
    <3> QED BY <3>1
  <2>2. CASE k # 0
    <3>1. needs[k] = <<up[k]>> /\ k \in 1 .. n /\ up[k] \in 0 .. k - 1
      BY <2>2
    <3>2. up[k] \in D /\ rank[up[k]] < rank[k]
      BY <3>1
    <3> HIDE DEF needs, rank, D
    <3> QED BY <3>1, <3>2
  <2> QED BY <2>1, <2>2
<1>3. needs \in [D -> Seq(D)]
  BY <1>2
<1>4. made1 \in [D \X Seq(V) -> V]
  <2> SUFFICES ASSUME NEW e \in D \X Seq(V) PROVE made1[e] \in V
    OBVIOUS
  <2>1. e[1] = 0 \/ e[1] \in 1 .. n
    OBVIOUS
  <2>2. e[2] \in Seq(V)
    OBVIOUS
  <2>3. 1 \in DOMAIN e[2] => e[2][1] \in V
    BY <2>2
  <2> QED BY <2>1, <2>3
<1>5. PICK f \in [D -> V] : Recurses(f, D, V, needs, made1)
  <2> HIDE DEF D, rank, needs, made1
  <2> QED BY <1>1, <1>2, <1>3, <1>4, Recursion
<1>6. ASSUME NEW k \in D
      PROVE  f[k] = IF k = 0 THEN v ELSE made[<<f[up[k]], k>>]
  <2>1. PICK values \in Seq(V) :
           /\ DOMAIN values = DOMAIN needs[k]
           /\ \A c \in DOMAIN needs[k] : values[c] = f[needs[k][c]]
           /\ f[k] = made1[<<k, values>>]
    BY <1>5 DEF Recurses
  <2>2. CASE k = 0
    BY <2>1, <2>2
  <2>3. CASE k # 0
    <3>1. needs[k] = <<up[k]>>
      BY <2>3
    <3>2. DOMAIN needs[k] = 1 .. 1 /\ needs[k][1] = up[k]
      <4> HIDE DEF needs
      <4> QED BY <3>1
    <3>3. values[1] = f[up[k]] /\ 1 \in DOMAIN values
      <4> HIDE DEF needs
      <4> QED BY <2>1, <3>2
    <3>4. f[k] = made[<<values[1], k>>]
      <4> HIDE DEF needs
      <4> QED BY <2>1, <2>3, <3>3
    <3> QED BY <2>3, <3>3, <3>4
  <2> QED BY <2>2, <2>3
<1>7. 0 \in D /\ \A k \in 1 .. n : k \in D /\ k # 0
  OBVIOUS
<1>8. f[0] = v /\ \A k \in 1 .. n : f[k] = made[<<f[up[k]], k>>]
  <2> HIDE DEF D
  <2> QED BY <1>6, <1>7
<1> QED BY <1>8 DEF Descends

-----------------------------------------------------------------------------
(* Sequences one after the other.                                          *)

\* FlattenSeq appends one sequence after the other.
LEMMA FlattenAppends ==
    ASSUME NEW T, NEW seqs \in Seq(Seq(T)), seqs # <<>>
    PROVE  \E f : /\ f[1] = seqs[1]
                  /\ \A i \in 2 .. Len(seqs) : f[i] = f[i - 1] \o seqs[i]
                  /\ FlattenSeq(seqs) = f[Len(seqs)]
<1> DEFINE n == Len(seqs)
           V == Seq(T)
           up == [i \in 1 .. n |-> i - 1]
           made == [e \in V \X (1 .. n) |-> e[1] \o seqs[e[2]]]
           f == CHOOSE f : f = [i \in 1 .. Len(seqs) |->
                                  IF i = 1 THEN seqs[i] ELSE f[i - 1] \o seqs[i]]
<1>1. n \in Nat /\ n # 0 /\ \A i \in 1 .. n : seqs[i] \in V
  OBVIOUS
<1>2. <<>> \in V
  OBVIOUS
<1>3. \A i \in 1 .. n : up[i] \in 0 .. i - 1
  BY <1>1
<1>4. made \in [V \X (1 .. n) -> V]
  <2> SUFFICES ASSUME NEW e \in V \X (1 .. n) PROVE made[e] \in V
    OBVIOUS
  <2>1. e[1] \in V /\ seqs[e[2]] \in V
    BY <1>1
  <2> QED BY <2>1
<1>5. PICK g \in [0 .. n -> V] : Descends(g, n, <<>>, up, made)
  <2> HIDE DEF n, V, up, made, f
  <2> QED BY <1>1, <1>2, <1>3, <1>4, Descent
<1>6. g[0] = <<>> /\ \A i \in 1 .. n : g[i] = g[i - 1] \o seqs[i]
  <2> SUFFICES ASSUME NEW i \in 1 .. n PROVE g[i] = g[i - 1] \o seqs[i]
    BY <1>5 DEF Descends
  <2>1. up[i] = i - 1 /\ i - 1 \in 0 .. n
    BY <1>1
  <2>2. g[i - 1] \in V
    BY <2>1
  <2>3. g[i] = made[<<g[i - 1], i>>]
    BY <1>5, <2>1 DEF Descends
  <2> HIDE DEF V
  <2> QED BY <2>2, <2>3
<1>7. \A i \in 1 .. n : g[i] = IF i = 1 THEN seqs[i] ELSE g[i - 1] \o seqs[i]
  <2>1. 1 \in 1 .. n /\ 1 - 1 = 0
    BY <1>1
  <2>2. g[1] = <<>> \o seqs[1]
    <3> HIDE DEF n
    <3> QED BY <1>6, <2>1
  <2>3. g[1] = seqs[1]
    BY <1>1, <2>1, <2>2
  <2> QED BY <1>6, <2>3
<1> DEFINE h == [i \in 1 .. Len(seqs) |-> g[i]]
<1>8. h = [i \in 1 .. Len(seqs) |-> IF i = 1 THEN seqs[i] ELSE h[i - 1] \o seqs[i]]
  <2>1. \A i \in 1 .. n : i # 1 => h[i - 1] = g[i - 1]
    BY <1>1
  <2> HIDE DEF V, made
  <2> QED BY <1>7, <2>1
<1>9. f = [i \in 1 .. Len(seqs) |-> IF i = 1 THEN seqs[i] ELSE f[i - 1] \o seqs[i]]
  <2> HIDE DEF h
  <2> QED BY <1>8
<1>10. FlattenSeq(seqs) = f[Len(seqs)]
  BY <1>1 DEF FlattenSeq
<1> HIDE DEF f
<1>11. \A i \in 1 .. Len(seqs) : f[i] = IF i = 1 THEN seqs[i] ELSE f[i - 1] \o seqs[i]
  BY <1>9
<1>12. 1 \in 1 .. Len(seqs) /\ \A i \in 2 .. Len(seqs) : i \in 1 .. Len(seqs) /\ i # 1
  BY <1>1
<1> QED BY <1>10, <1>11, <1>12

\* It returns a sequence of what was in the sequences.
LEMMA FlattenIsSequence ==
    ASSUME NEW T, NEW seqs \in Seq(Seq(T))
    PROVE  FlattenSeq(seqs) \in Seq(T)
<1>1. CASE seqs = <<>>
  <2>1. FlattenSeq(seqs) = <<>>
    BY <1>1 DEF FlattenSeq
  <2> QED BY <2>1
<1>2. CASE seqs # <<>>
  <2>1. PICK f : /\ f[1] = seqs[1]
                 /\ \A i \in 2 .. Len(seqs) : f[i] = f[i - 1] \o seqs[i]
                 /\ FlattenSeq(seqs) = f[Len(seqs)]
    BY <1>2, FlattenAppends
  <2> DEFINE K == {k \in 0 .. Len(seqs) : k = 0 \/ f[k] \in Seq(T)}
  <2>2. Len(seqs) \in Nat /\ Len(seqs) # 0 /\ \A k \in 1 .. Len(seqs) : seqs[k] \in Seq(T)
    BY <1>2
  <2>3. ASSUME NEW k \in 1 .. Len(seqs), k - 1 \in K PROVE k \in K
    <3>1. CASE k = 1
      <4>1. 1 \in 0 .. Len(seqs) /\ f[1] = seqs[1] /\ seqs[1] \in Seq(T)
        BY <2>1, <2>2, <3>1
      <4>2. f[k] \in Seq(T) /\ k \in 0 .. Len(seqs)
        BY <3>1, <4>1
      <4> QED BY <4>2
    <3>2. CASE k # 1
      <4>1. k \in 2 .. Len(seqs) /\ k - 1 # 0 /\ k \in 0 .. Len(seqs)
        BY <2>2, <3>2
      <4>2. f[k - 1] \in Seq(T) /\ seqs[k] \in Seq(T)
        BY <2>2, <2>3, <4>1
      <4>3. f[k] = f[k - 1] \o seqs[k]
        BY <2>1, <4>1
      <4>4. f[k] \in Seq(T)
        <5> HIDE DEF K
        <5> QED BY <4>2, <4>3
      <4> QED BY <4>1, <4>4
    <3> QED BY <3>1, <3>2
  <2>4. 0 \in K
    BY <2>2
  <2> HIDE DEF K
  <2>5. \A k \in 1 .. Len(seqs) : k - 1 \in K => k \in K
    BY <2>3
  <2>6. \A k \in 0 .. Len(seqs) : k \in K
    BY <2>2, <2>4, <2>5, Counting
  <2>7. Len(seqs) \in K
    BY <2>2, <2>6
  <2> QED BY <2>1, <2>2, <2>7 DEF K
<1> QED BY <1>1, <1>2

\* What is in either of two lists, in one.
LEMMA ListsConcat ==
    ASSUME NEW S, NEW T, S \cap T = {}, NEW a, NEW b, Lists(a, S), Lists(b, T)
    PROVE  Lists(a \o b, S \cup T)
<1> DEFINE ab == a \o b
           m == Len(a)
           n == Len(b)
<1>1. /\ a \in Seq(S)
      /\ \A x \in S : \E k \in DOMAIN a : a[k] = x
      /\ \A k, l \in DOMAIN a : a[k] = a[l] => k = l
  BY DEF Lists
<1>2. /\ b \in Seq(T)
      /\ \A x \in T : \E k \in DOMAIN b : b[k] = x
      /\ \A k, l \in DOMAIN b : b[k] = b[l] => k = l
  BY DEF Lists
<1>3. /\ DOMAIN a = 1 .. m /\ m \in Nat /\ \A k \in 1 .. m : a[k] \in S
      /\ DOMAIN b = 1 .. n /\ n \in Nat /\ \A k \in 1 .. n : b[k] \in T
  BY <1>1, <1>2
<1>4. /\ a \in Seq(S \cup T) /\ b \in Seq(S \cup T)
  BY <1>1, <1>2
<1>5. /\ ab \in Seq(S \cup T) /\ Len(ab) = m + n /\ DOMAIN ab = 1 .. m + n
      /\ \A k \in 1 .. m + n : ab[k] = IF k <= m THEN a[k] ELSE b[k - m]
  BY <1>4
<1> HIDE DEF ab, m, n
<1>6. \A k \in 1 .. m : k \in 1 .. m + n /\ ab[k] = a[k]
  BY <1>3, <1>5
<1>7. \A k \in 1 .. n : m + k \in 1 .. m + n /\ ab[m + k] = b[k]
  <2> SUFFICES ASSUME NEW k \in 1 .. n PROVE m + k \in 1 .. m + n /\ ab[m + k] = b[k]
    OBVIOUS
  <2>1. m + k \in 1 .. m + n /\ ~ m + k <= m /\ (m + k) - m = k
    BY <1>3
  <2> QED BY <1>5, <2>1
<1>8. \A x \in S \cup T : \E k \in DOMAIN ab : ab[k] = x
  <2>1. ASSUME NEW x \in S PROVE \E k \in DOMAIN ab : ab[k] = x
    <3>1. PICK k \in 1 .. m : a[k] = x
      BY <1>1, <1>3
    <3> QED BY <1>5, <1>6, <3>1
  <2>2. ASSUME NEW x \in T PROVE \E k \in DOMAIN ab : ab[k] = x
    <3>1. PICK k \in 1 .. n : b[k] = x
      BY <1>2, <1>3
    <3>2. m + k \in DOMAIN ab /\ ab[m + k] = x
      BY <1>5, <1>7, <3>1
    <3> QED BY <3>2
  <2> QED BY <2>1, <2>2
<1>9. \A k, l \in DOMAIN ab : ab[k] = ab[l] => k = l
  <2>1. ASSUME NEW k \in DOMAIN ab
        PROVE  \/ k \in 1 .. m /\ ab[k] = a[k]
               \/ k - m \in 1 .. n /\ ab[k] = b[k - m]
    <3>1. k \in 1 .. m + n /\ ab[k] = IF k <= m THEN a[k] ELSE b[k - m]
      BY <1>5
    <3>2. CASE k <= m
      BY <1>3, <3>1, <3>2
    <3>3. CASE ~ k <= m
      <4>1. k - m \in 1 .. n
        BY <1>3, <3>1, <3>3
      <4> QED BY <3>1, <3>3, <4>1
    <3> QED BY <3>2, <3>3
  <2> SUFFICES ASSUME NEW k \in DOMAIN ab, NEW l \in DOMAIN ab, ab[k] = ab[l] PROVE k = l
    OBVIOUS
  <2>2. CASE k \in 1 .. m /\ ab[k] = a[k]
    <3>1. CASE l \in 1 .. m /\ ab[l] = a[l]
      BY <1>1, <1>3, <2>2, <3>1
    <3>2. CASE l - m \in 1 .. n /\ ab[l] = b[l - m]
      BY <1>3, <2>2, <3>2
    <3> QED BY <2>1, <3>1, <3>2
  <2>3. CASE k - m \in 1 .. n /\ ab[k] = b[k - m]
    <3>1. CASE l \in 1 .. m /\ ab[l] = a[l]
      BY <1>3, <2>3, <3>1
    <3>2. CASE l - m \in 1 .. n /\ ab[l] = b[l - m]
      <4>1. k - m = l - m
        BY <1>2, <1>3, <2>3, <3>2
      <4>2. k \in Int /\ l \in Int
        BY <1>3, <1>5
      <4> QED BY <1>3, <4>1, <4>2
    <3> QED BY <2>1, <3>1, <3>2
  <2> QED BY <2>1, <2>2, <2>3
<1> QED BY <1>5, <1>8, <1>9 DEF Lists, ab

\* The numbers of two sets, each set in order.
LEMMA AscendingHalves ==
    ASSUME NEW n \in Nat, NEW S \in SUBSET (1 .. n), NEW T \in SUBSET (1 .. n), S \cap T = {}
    PROVE  Lists(Ascending(S) \o Ascending(T), S \cup T)
<1>1. 1 .. n \subseteq Int /\ IsFiniteSet(1 .. n)
  BY FS_Interval
<1>2. S \in SUBSET Int /\ IsFiniteSet(S) /\ T \in SUBSET Int /\ IsFiniteSet(T)
  BY <1>1, FS_Subset
<1>3. Lists(Ascending(S), S) /\ Lists(Ascending(T), T)
  BY <1>2, AscendingLists
<1> QED BY <1>3, ListsConcat, Zenon

\* What is in one of many sets, one for each of the sequences.
AllOf(sets, seqs) == UNION {sets[i] : i \in DOMAIN seqs}

\* What is in one of many lists, in one.
LEMMA FlattenLists ==
    ASSUME NEW T, NEW seqs \in Seq(Seq(T)), NEW sets,
           \A i \in DOMAIN seqs : Lists(seqs[i], sets[i]),
           \A i, j \in DOMAIN seqs : i # j => sets[i] \cap sets[j] = {}
    PROVE  Lists(FlattenSeq(seqs), AllOf(sets, seqs))
<1> USE DEF AllOf
<1> DEFINE n == Len(seqs)
           All(k) == UNION {sets[i] : i \in 1 .. k}
<1>1. n \in Nat /\ DOMAIN seqs = 1 .. n
  OBVIOUS
<1>2. CASE seqs = <<>>
  <2>1. FlattenSeq(seqs) = <<>>
    BY <1>2 DEF FlattenSeq
  <2>2. UNION {sets[i] : i \in DOMAIN seqs} = {}
    BY <1>2
  <2>3. Lists(<<>>, {})
    BY DEF Lists
  <2> QED BY <2>1, <2>2, <2>3
<1>3. CASE seqs # <<>>
  <2>1. PICK f : /\ f[1] = seqs[1]
                 /\ \A i \in 2 .. Len(seqs) : f[i] = f[i - 1] \o seqs[i]
                 /\ FlattenSeq(seqs) = f[Len(seqs)]
    BY <1>3, FlattenAppends
  <2> DEFINE K == {k \in 0 .. n : k = 0 \/ Lists(f[k], All(k))}
  <2>2. 0 \in K
    BY <1>1
  <2>3. ASSUME NEW k \in 1 .. n, k - 1 \in K PROVE k \in K
    <3>1. k \in DOMAIN seqs /\ k \in 0 .. n /\ Lists(seqs[k], sets[k])
      BY <1>1
    <3>2. CASE k = 1
      <4>1. All(1) = sets[1]
        OBVIOUS
      <4>2. Lists(f[k], All(k))
        <5> HIDE DEF All
        <5> QED BY <2>1, <3>1, <3>2, <4>1
      <4> QED BY <3>1, <4>2
    <3>3. CASE k # 1
      <4>1. k \in 2 .. n /\ k - 1 # 0 /\ k - 1 \in 1 .. n
        BY <1>1, <3>3
      <4>2. f[k] = f[k - 1] \o seqs[k]
        BY <2>1, <4>1
      <4>3. Lists(f[k - 1], All(k - 1))
        BY <2>3, <4>1
      <4>4. All(k) = All(k - 1) \cup sets[k]
        <5>1. \A i : i \in 1 .. k <=> i \in 1 .. k - 1 \/ i = k
          BY <1>1
        <5> QED BY <5>1
      <4>5. All(k - 1) \cap sets[k] = {}
        <5>1. \A i \in 1 .. k - 1 : i \in DOMAIN seqs /\ i # k
          BY <1>1
        <5>2. \A i \in 1 .. k - 1 : sets[i] \cap sets[k] = {}
          BY <3>1, <5>1
        <5> QED BY <5>2
      <4> HIDE DEF All
      <4>6. Lists(f[k - 1] \o seqs[k], All(k - 1) \cup sets[k])
        BY <3>1, <4>3, <4>5, ListsConcat, Zenon
      <4>7. Lists(f[k], All(k))
        BY <4>2, <4>4, <4>6, Zenon
      <4> QED BY <3>1, <4>7
    <3> QED BY <3>2, <3>3
  <2> HIDE DEF K
  <2>4. \A k \in 0 .. n : k \in K
    <3> HIDE DEF n
    <3> QED BY <1>1, <2>2, <2>3, Counting
  <2>5. n \in 0 .. n /\ n # 0
    BY <1>3
  <2>6. Lists(f[n], All(n))
    BY <2>4, <2>5 DEF K
  <2> HIDE DEF K
  <2> QED BY <1>1, <2>1, <2>6
<1> QED BY <1>2, <1>3
=============================================================================
