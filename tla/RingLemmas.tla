---------------------------- MODULE RingLemmas ------------------------------
(***************************************************************************)
(* Lemmas that the proofs about the rings of buffers share: what becomes   *)
(* of Selected(s, T) when an element is appended to s or taken from its    *)
(* head, and when T gains or loses one; and how far the buffers 0 .. N - 1 *)
(* are behind one of them, going round the ring.                           *)
(***************************************************************************)
EXTENDS Selection, TLAPS, FiniteSetTheorems

-----------------------------------------------------------------------------
(* Ranks *)

\* A rank is a number between 1 and the size of the set.
LEMMA RankRange ==
    ASSUME NEW S \in SUBSET Int, IsFiniteSet(S), NEW i \in S
    PROVE  Rank(S, i) \in 1 .. Cardinality(S)
<1> DEFINE L == {j \in S : j <= i}
<1>1. L \in SUBSET S /\ i \in L
  OBVIOUS
<1>2. IsFiniteSet(L) /\ Cardinality(L) <= Cardinality(S)
  BY <1>1, FS_Subset
<1>3. Cardinality(L) \in Nat /\ Cardinality(S) \in Nat
  BY <1>2, FS_CardinalityType
<1>4. Cardinality(L) # 0
  BY <1>1, <1>2, FS_EmptySet
<1> HIDE DEF L
<1>5. Cardinality(L) \in 1 .. Cardinality(S)
  BY <1>2, <1>3, <1>4
<1> QED
  BY <1>5 DEF Rank, L

\* A greater element has a greater rank.
LEMMA RankGrows ==
    ASSUME NEW S \in SUBSET Int, IsFiniteSet(S), NEW i \in S, NEW j \in S, i < j
    PROVE  Rank(S, i) < Rank(S, j)
<1> DEFINE L == {x \in S : x <= i}
<1> DEFINE M == {x \in S : x <= j}
<1>1. L \in SUBSET M /\ M \in SUBSET S /\ j \in M /\ j \notin L
  <2>1. \A x \in S : x <= i => x <= j
    OBVIOUS
  <2>2. j <= j /\ ~(j <= i)
    OBVIOUS
  <2> QED
    BY <2>1, <2>2, Zenon
<1>2. IsFiniteSet(M)
  BY <1>1, FS_Subset
<1>3. IsFiniteSet(L) /\ Cardinality(L) <= Cardinality(M) /\ Cardinality(M) # Cardinality(L)
  BY <1>1, <1>2, FS_Subset
<1>4. Cardinality(L) \in Nat /\ Cardinality(M) \in Nat
  BY <1>2, <1>3, FS_CardinalityType
<1> HIDE DEF L, M
<1>5. Cardinality(L) < Cardinality(M)
  BY <1>3, <1>4
<1> QED
  BY <1>5 DEF Rank, L, M

LEMMA RankInjective ==
    ASSUME NEW S \in SUBSET Int, IsFiniteSet(S), NEW i \in S, NEW j \in S,
           Rank(S, i) = Rank(S, j)
    PROVE  i = j
<1>1. Rank(S, i) \in Int /\ Rank(S, j) \in Int
  BY RankRange
<1>2. ~(Rank(S, i) < Rank(S, j)) /\ ~(Rank(S, j) < Rank(S, i))
  BY <1>1
<1>3. ~(i < j) /\ ~(j < i)
  BY <1>2, RankGrows
<1> QED
  BY <1>3

\* Every number up to the size of the set is a rank: the ranks are as many.
LEMMA NthExists ==
    ASSUME NEW S \in SUBSET Int, IsFiniteSet(S), NEW k \in 1 .. Cardinality(S)
    PROVE  Nth(S, k) \in S /\ Rank(S, Nth(S, k)) = k
<1> DEFINE N == 1 .. Cardinality(S)
<1> DEFINE f == [i \in S |-> Rank(S, i)]
<1>1. Cardinality(S) \in Nat
  BY FS_CardinalityType
<1>2. IsFiniteSet(N) /\ Cardinality(N) = Cardinality(S)
  BY <1>1, FS_Interval
<1>3. f \in [S -> N]
  BY RankRange
<1>4. \A i, j \in S : f[i] = f[j] => i = j
  BY RankInjective
<1>5. f \in Injection(S, N)
  BY <1>3, <1>4 DEF Injection, IsInjective
<1>6. f \in Surjection(S, N)
  BY <1>2, <1>5, FS_Injection
<1>7. \E i \in S : f[i] = k
  BY <1>6 DEF Surjection
<1> QED
  BY <1>7 DEF Nth

LEMMA NthUnique ==
    ASSUME NEW S \in SUBSET Int, IsFiniteSet(S), NEW i \in S
    PROVE  Nth(S, Rank(S, i)) = i
<1>1. Rank(S, i) \in 1 .. Cardinality(S)
  BY RankRange
<1>2. Nth(S, Rank(S, i)) \in S /\ Rank(S, Nth(S, Rank(S, i))) = Rank(S, i)
  BY <1>1, NthExists
<1> DEFINE n == Nth(S, Rank(S, i))
<1>3. n \in S /\ Rank(S, n) = Rank(S, i)
  BY <1>2
<1> HIDE DEF n
<1>4. n = i
  BY <1>3, RankInjective
<1> QED
  BY <1>4 DEF n

\* A set that gains an element greater than all others.
LEMMA NthOfGrown ==
    ASSUME NEW S \in SUBSET Int, IsFiniteSet(S), NEW x \in Int, \A i \in S : i < x
    PROVE  /\ IsFiniteSet(S \cup {x})
           /\ Cardinality(S \cup {x}) = Cardinality(S) + 1
           /\ \A k \in 1 .. Cardinality(S) : Nth(S \cup {x}, k) = Nth(S, k)
           /\ Nth(S \cup {x}, Cardinality(S) + 1) = x
<1> DEFINE U == S \cup {x}
<1>1. x \notin S /\ U \in SUBSET Int
  OBVIOUS
<1>2. IsFiniteSet(U) /\ Cardinality(U) = Cardinality(S) + 1
  BY <1>1, FS_AddElement
<1>3. \A i \in S : Rank(U, i) = Rank(S, i)
  <2>1. ASSUME NEW i \in S PROVE {j \in U : j <= i} = {j \in S : j <= i}
    OBVIOUS
  <2> QED
    BY <2>1 DEF Rank
<1>4. Rank(U, x) = Cardinality(S) + 1
  <2>1. \A j \in U : j <= x
    OBVIOUS
  <2>2. {j \in U : j <= x} = U
    BY <2>1, Zenon
  <2> QED
    BY <2>2, <1>2 DEF Rank
<1> HIDE DEF U
<1>5. ASSUME NEW k \in 1 .. Cardinality(S) PROVE Nth(U, k) = Nth(S, k)
  <2>1. Nth(S, k) \in S /\ Rank(S, Nth(S, k)) = k
    BY NthExists
  <2>2. Nth(S, k) \in U /\ Rank(U, Nth(S, k)) = k
    BY <2>1, <1>3 DEF U
  <2> QED
    BY <1>1, <1>2, <2>2, NthUnique
<1>6. Nth(U, Cardinality(S) + 1) = x
  <2>1. x \in U
    BY DEF U
  <2> QED
    BY <1>1, <1>2, <1>4, <2>1, NthUnique
<1> QED
  BY <1>2, <1>5, <1>6 DEF U

\* A set that loses its smallest element.
LEMMA NthOfShrunk ==
    ASSUME NEW S \in SUBSET Int, IsFiniteSet(S), NEW x \in S, \A i \in S : x <= i
    PROVE  /\ IsFiniteSet(S \ {x})
           /\ Cardinality(S \ {x}) = Cardinality(S) - 1
           /\ Cardinality(S) \in Nat \ {0}
           /\ \A k \in 1 .. Cardinality(S) - 1 : Nth(S \ {x}, k) = Nth(S, k + 1)
           /\ Nth(S, 1) = x
<1> DEFINE U == S \ {x}
<1>1. U \in SUBSET Int /\ IsFiniteSet(U) /\ Cardinality(U) = Cardinality(S) - 1
  BY FS_RemoveElement
<1>2. Cardinality(S) \in Nat \ {0}
  BY FS_CardinalityType, FS_EmptySet
<1>3. \A i \in U : Rank(U, i) = Rank(S, i) - 1
  <2> SUFFICES ASSUME NEW i \in U PROVE Rank(U, i) = Rank(S, i) - 1
    OBVIOUS
  <2> DEFINE L == {j \in S : j <= i}
  <2>1. {j \in U : j <= i} = L \ {x} /\ x \in L /\ L \in SUBSET S
    OBVIOUS
  <2>2. IsFiniteSet(L)
    BY <2>1, FS_Subset
  <2>3. Cardinality(L \ {x}) = Cardinality(L) - 1
    BY <2>1, <2>2, FS_RemoveElement
  <2> QED
    BY <2>1, <2>3 DEF Rank
<1>4. Rank(S, x) = 1
  <2>1. \A j \in S : j <= x <=> j = x
    OBVIOUS
  <2>2. {j \in S : j <= x} = {x}
    BY <2>1, Zenon
  <2> QED
    BY <2>2, FS_Singleton DEF Rank
<1>5. Nth(S, 1) = x
  BY <1>4, NthUnique
<1>6. ASSUME NEW k \in 1 .. Cardinality(S) - 1 PROVE Nth(U, k) = Nth(S, k + 1)
  <2> HIDE DEF U
  <2>1. Nth(U, k) \in U /\ Rank(U, Nth(U, k)) = k
    BY <1>1, NthExists
  <2> DEFINE n == Nth(U, k)
  <2>2. n \in S
    BY <2>1 DEF U
  <2> HIDE DEF n
  <2>3. Rank(S, n) \in Int
    BY <2>2, RankRange
  <2>4. Nth(U, k) \in S /\ Rank(S, Nth(U, k)) \in Int
    BY <2>2, <2>3 DEF n
  <2>5. Rank(S, Nth(U, k)) = k + 1
    BY <2>1, <2>4, <1>3
  <2> QED
    BY <2>4, <2>5, NthUnique
<1> QED
  BY <1>1, <1>2, <1>5, <1>6

\* A set of which every element is made smaller by one.
LEMMA NthOfShifted ==
    ASSUME NEW S \in SUBSET Int, IsFiniteSet(S), NEW U \in SUBSET Int,
           \A i \in Int : i \in U <=> i + 1 \in S
    PROVE  /\ IsFiniteSet(U) /\ Cardinality(U) = Cardinality(S)
           /\ \A k \in 1 .. Cardinality(S) : Nth(U, k) = Nth(S, k) - 1
<1>1. ASSUME NEW A \in SUBSET Int, IsFiniteSet(A), NEW B \in SUBSET Int,
             \A i \in Int : i \in B <=> i + 1 \in A
      PROVE  IsFiniteSet(B) /\ Cardinality(B) = Cardinality(A)
  <2> DEFINE f == [i \in A |-> i - 1]
  <2>1. \A i \in A : i - 1 \in B /\ i - 1 \in Int
    BY <1>1
  <2>2. f \in [A -> B] /\ \A i, j \in A : f[i] = f[j] => i = j
    BY <2>1
  <2>3. \A i \in B : i + 1 \in A /\ f[i + 1] = i
    BY <1>1
  <2>4. \A i \in B : \E j \in A : f[j] = i
    BY <2>3
  <2>5. f \in Bijection(A, B)
    BY <2>2, <2>4 DEF Bijection, Injection, IsInjective, Surjection
  <2>6. ExistsBijection(A, B)
    BY <2>5 DEF ExistsBijection
  <2> QED
    BY <1>1, <2>6, FS_Bijection
<1>2. IsFiniteSet(U) /\ Cardinality(U) = Cardinality(S)
  BY <1>1
<1>3. \A i \in U : Rank(U, i) = Rank(S, i + 1)
  <2> SUFFICES ASSUME NEW i \in U PROVE Rank(U, i) = Rank(S, i + 1)
    OBVIOUS
  <2> DEFINE A == {j \in S : j <= i + 1}
  <2> DEFINE B == {j \in U : j <= i}
  <2>1. A \in SUBSET S /\ A \in SUBSET Int /\ B \in SUBSET Int /\ i \in Int
    OBVIOUS
  <2>2. IsFiniteSet(A)
    BY <2>1, FS_Subset
  <2>3. \A j \in Int : j \in B <=> j + 1 \in A
    BY <2>1
  <2> HIDE DEF A, B
  <2>4. Cardinality(B) = Cardinality(A)
    BY <2>1, <2>2, <2>3, <1>1
  <2> QED
    BY <2>4 DEF Rank, A, B
<1>4. ASSUME NEW k \in 1 .. Cardinality(S) PROVE Nth(U, k) = Nth(S, k) - 1
  <2>1. Nth(U, k) \in U /\ Rank(U, Nth(U, k)) = k
    BY <1>2, NthExists
  <2>2. Nth(U, k) + 1 \in S /\ Rank(S, Nth(U, k) + 1) = k /\ Nth(U, k) \in Int
    BY <2>1, <1>3
  <2>3. Nth(S, k) = Nth(U, k) + 1
    BY <2>2, NthUnique
  <2> QED
    BY <2>2, <2>3
<1> QED
  BY <1>2, <1>4

-----------------------------------------------------------------------------
(* Selections *)

LEMMA PlacesFinite ==
    ASSUME NEW E, NEW s \in Seq(E), NEW T
    PROVE  /\ Places(s, T) \in SUBSET Int /\ IsFiniteSet(Places(s, T))
           /\ \A i \in Places(s, T) : i \in 1 .. Len(s) /\ s[i] \in T
<1>1. DOMAIN s = 1 .. Len(s) /\ Len(s) \in Nat
  OBVIOUS
<1>2. IsFiniteSet(1 .. Len(s))
  BY <1>1, FS_Interval
<1>3. Places(s, T) \in SUBSET (1 .. Len(s))
  BY <1>1 DEF Places
<1> QED
  BY <1>1, <1>2, <1>3, FS_Subset DEF Places

\* What is selected are elements of the sequence and of the set.
LEMMA SelectedType ==
    ASSUME NEW E, NEW s \in Seq(E), NEW T
    PROVE  /\ Selected(s, T) \in Seq(E)
           /\ Len(Selected(s, T)) = Cardinality(Places(s, T))
           /\ Cardinality(Places(s, T)) \in Nat
<1> DEFINE P == Places(s, T)
<1>1. P \in SUBSET Int /\ IsFiniteSet(P) /\ Cardinality(P) \in Nat
  BY PlacesFinite, FS_CardinalityType
<1>2. \A i \in P : s[i] \in E
  BY PlacesFinite
<1> HIDE DEF P
<1>3. \A k \in 1 .. Cardinality(P) : s[Nth(P, k)] \in E
  BY <1>1, <1>2, NthExists
<1>4. [k \in 1 .. Cardinality(P) |-> s[Nth(P, k)]] \in Seq(E)
  BY <1>1, <1>3
<1> QED
  BY <1>1, <1>4 DEF Selected, P

LEMMA NothingSelected ==
    ASSUME NEW s, NEW T, Places(s, T) = {}
    PROVE  Selected(s, T) = <<>>
  BY FS_EmptySet DEF Selected

\* A set that covers one more place, after all those covered before.
LEMMA SelectedGrows ==
    ASSUME NEW E, NEW s \in Seq(E), NEW T, NEW U, NEW i \in 1 .. Len(s),
           Places(s, U) = Places(s, T) \cup {i}, \A j \in Places(s, T) : j < i
    PROVE  Selected(s, U) = Append(Selected(s, T), s[i])
<1> DEFINE P == Places(s, T)
<1> DEFINE Q == P \cup {i}
<1> DEFINE n == Cardinality(P)
<1>1. P \in SUBSET Int /\ IsFiniteSet(P) /\ n \in Nat /\ i \in Int
  BY PlacesFinite, FS_CardinalityType
<1>2. Places(s, U) = Q /\ \A j \in P : j < i
  OBVIOUS
<1> HIDE DEF P, Q, n
<1>3. /\ Cardinality(Q) = n + 1 /\ Nth(Q, n + 1) = i
      /\ \A k \in 1 .. n : Nth(Q, k) = Nth(P, k)
  BY <1>1, <1>2, NthOfGrown DEF Q, n
<1>4. Selected(s, T) = [k \in 1 .. n |-> s[Nth(P, k)]]
  BY DEF Selected, P, n
<1>5. Selected(s, U) = [k \in 1 .. n + 1 |-> s[Nth(Q, k)]]
  BY <1>2, <1>3 DEF Selected
<1>6. Selected(s, T) \in Seq(E) /\ Len(Selected(s, T)) = n /\ s[i] \in E
  BY SelectedType DEF P, n
<1>7. Append(Selected(s, T), s[i]) = [k \in 1 .. n + 1 |-> IF k = n + 1 THEN s[i] ELSE s[Nth(P, k)]]
  BY <1>1, <1>4, <1>6
<1>8. \A k \in 1 .. n + 1 : s[Nth(Q, k)] = IF k = n + 1 THEN s[i] ELSE s[Nth(P, k)]
  BY <1>1, <1>3
<1> QED
  BY <1>5, <1>7, <1>8

LEMMA SelectedOfAppend ==
    ASSUME NEW E, NEW s \in Seq(E), NEW x \in E, NEW T
    PROVE  Selected(Append(s, x), T) = IF x \in T THEN Append(Selected(s, T), x) ELSE Selected(s, T)
<1> DEFINE t == Append(s, x)
<1> DEFINE n == Len(s)
<1>1. /\ t \in Seq(E) /\ Len(t) = n + 1 /\ n \in Nat /\ t[n + 1] = x
      /\ DOMAIN t = 1 .. n + 1 /\ DOMAIN s = 1 .. n
      /\ \A i \in 1 .. n : t[i] = s[i]
  OBVIOUS
<1> HIDE DEF t, n
<1> DEFINE P == Places(s, T)
<1>2. P \in SUBSET Int /\ IsFiniteSet(P) /\ \A i \in P : i \in 1 .. n
  BY PlacesFinite DEF n
<1>3. Cardinality(P) \in Nat /\ \A k \in 1 .. Cardinality(P) : Nth(P, k) \in 1 .. n
  BY <1>2, NthExists, FS_CardinalityType
<1>4. CASE x \notin T
  <2>1. Places(t, T) = P
    BY <1>1, <1>4 DEF Places
  <2>2. \A k \in 1 .. Cardinality(P) : t[Nth(P, k)] = s[Nth(P, k)]
    BY <1>1, <1>3
  <2> HIDE DEF P
  <2>3. Selected(t, T) = [k \in 1 .. Cardinality(P) |-> t[Nth(P, k)]]
    BY <2>1 DEF Selected
  <2>4. Selected(s, T) = [k \in 1 .. Cardinality(P) |-> s[Nth(P, k)]]
    BY DEF Selected, P
  <2>5. Selected(t, T) = Selected(s, T)
    BY <2>2, <2>3, <2>4
  <2> QED
    BY <1>4, <2>5 DEF t
<1>5. CASE x \in T
  <2>1. Places(t, T) = P \cup {n + 1}
    BY <1>1, <1>5 DEF Places
  <2> DEFINE Q == P \cup {n + 1}
  <2> DEFINE m == Cardinality(P)
  <2> HIDE DEF P
  <2>2. n + 1 \in Int /\ \A i \in P : i < n + 1
    BY <1>1, <1>2
  <2>3. /\ Cardinality(Q) = m + 1 /\ Nth(Q, m + 1) = n + 1
        /\ \A k \in 1 .. m : Nth(Q, k) = Nth(P, k)
    BY <1>2, <2>2, NthOfGrown
  <2>4. Selected(s, T) \in Seq(E) /\ Len(Selected(s, T)) = m
        /\ Selected(s, T) = [k \in 1 .. m |-> s[Nth(P, k)]]
    BY SelectedType DEF P, Selected
  <2> HIDE DEF Q, m
  <2>5. Selected(t, T) = [k \in 1 .. m + 1 |-> t[Nth(Q, k)]]
    BY <2>1, <2>3 DEF Selected, Q
  <2>6. m \in Nat /\ \A k \in 1 .. m : Nth(P, k) \in 1 .. n
    BY <1>3 DEF m, P
  <2>7. \A k \in 1 .. m + 1 : t[Nth(Q, k)] = IF k = m + 1 THEN x ELSE s[Nth(P, k)]
    BY <1>1, <2>3, <2>6
  <2>8. Append(Selected(s, T), x) = [k \in 1 .. m + 1 |-> IF k = m + 1 THEN x ELSE s[Nth(P, k)]]
    BY <2>4, <2>6
  <2> QED
    BY <1>5, <2>5, <2>7, <2>8 DEF t
<1> QED
  BY <1>4, <1>5

LEMMA SelectedOfTail ==
    ASSUME NEW E, NEW s \in Seq(E), s # <<>>, NEW T
    PROVE  /\ Head(s) \in T => /\ Selected(s, T) # <<>>
                               /\ Head(Selected(s, T)) = Head(s)
                               /\ Tail(Selected(s, T)) = Selected(Tail(s), T)
           /\ Head(s) \notin T => Selected(Tail(s), T) = Selected(s, T)
<1> DEFINE t == Tail(s)
<1> DEFINE n == Len(s)
<1>1. /\ t \in Seq(E) /\ Len(t) = n - 1 /\ n \in Nat \ {0} /\ s[1] = Head(s)
      /\ DOMAIN t = 1 .. n - 1 /\ DOMAIN s = 1 .. n
      /\ \A i \in 1 .. n - 1 : t[i] = s[i + 1]
  OBVIOUS
<1> HIDE DEF t, n
<1> DEFINE P == Places(s, T)
<1> DEFINE Q == Places(t, T)
<1>2. /\ P \in SUBSET Int /\ IsFiniteSet(P) /\ \A i \in P : i \in 1 .. n
      /\ Q \in SUBSET Int /\ IsFiniteSet(Q)
  BY <1>1, PlacesFinite DEF n
<1>3. \A i \in Int : i \in Q <=> i + 1 \in P /\ i # 0
  BY <1>1 DEF Places
<1>4. 1 \in P <=> Head(s) \in T
  BY <1>1 DEF Places
<1>5. Selected(s, T) = [k \in 1 .. Cardinality(P) |-> s[Nth(P, k)]]
      /\ Selected(t, T) = [k \in 1 .. Cardinality(Q) |-> t[Nth(Q, k)]]
  BY DEF Selected
<1>6. Selected(s, T) \in Seq(E) /\ Len(Selected(s, T)) = Cardinality(P)
      /\ Cardinality(P) \in Nat /\ Cardinality(Q) \in Nat
  BY <1>1, SelectedType
<1> HIDE DEF P, Q
<1>7. ASSUME NEW R \in SUBSET Int, IsFiniteSet(R), \A i \in Int : i \in Q <=> i + 1 \in R
      PROVE  /\ Cardinality(Q) = Cardinality(R)
             /\ \A k \in 1 .. Cardinality(R) : t[Nth(Q, k)] = s[Nth(R, k)]
  <2>1. Cardinality(Q) = Cardinality(R)
        /\ \A k \in 1 .. Cardinality(R) : Nth(Q, k) = Nth(R, k) - 1
    BY <1>2, <1>7, NthOfShifted
  <2>2. ASSUME NEW k \in 1 .. Cardinality(R) PROVE t[Nth(Q, k)] = s[Nth(R, k)]
    <3>1. Nth(Q, k) \in Q
      BY <1>2, <2>1, NthExists
    <3>2. Nth(Q, k) \in 1 .. n - 1
      BY <1>1, <3>1 DEF Q, Places
    <3>3. Nth(R, k) \in Int
      BY <1>7, NthExists
    <3>4. Nth(Q, k) = Nth(R, k) - 1
      BY <2>1
    <3>5. Nth(R, k) = Nth(Q, k) + 1
      BY <3>3, <3>4
    <3> QED
      BY <1>1, <3>2, <3>5
  <2> QED
    BY <2>1, <2>2
<1>8. CASE Head(s) \notin T
  <2>1. \A i \in Int : i \in Q <=> i + 1 \in P
    BY <1>3, <1>4, <1>8
  <2> QED
    BY <1>2, <1>5, <1>7, <1>8, <2>1 DEF t
<1>9. CASE Head(s) \in T
  <2> DEFINE R == P \ {1}
  <2>1. 1 \in P /\ \A i \in P : 1 <= i
    BY <1>2, <1>4, <1>9
  <2>2. /\ IsFiniteSet(R) /\ Cardinality(R) = Cardinality(P) - 1
        /\ Cardinality(P) \in Nat \ {0} /\ Nth(P, 1) = 1
        /\ \A k \in 1 .. Cardinality(P) - 1 : Nth(R, k) = Nth(P, k + 1)
    BY <1>2, <2>1, NthOfShrunk
  <2>3. R \in SUBSET Int /\ \A i \in Int : i \in Q <=> i + 1 \in R
    BY <1>2, <1>3
  <2> HIDE DEF R
  <2>4. /\ Cardinality(Q) = Cardinality(R)
        /\ \A k \in 1 .. Cardinality(R) : t[Nth(Q, k)] = s[Nth(R, k)]
    BY <1>7, <2>2, <2>3
  <2>5. Selected(s, T) # <<>> /\ Head(Selected(s, T)) = s[Nth(P, 1)]
    BY <1>5, <1>6, <2>2
  <2>6. Tail(Selected(s, T)) = [k \in 1 .. Cardinality(P) - 1 |-> s[Nth(P, k + 1)]]
    BY <1>5, <1>6, <2>2, <2>5
  <2>7. Tail(Selected(s, T)) = Selected(t, T)
    BY <1>5, <2>2, <2>4, <2>6
  <2> QED
    BY <1>1, <1>9, <2>2, <2>5, <2>7 DEF t
<1> QED
  BY <1>8, <1>9

-----------------------------------------------------------------------------
(* Distances in a ring of N buffers *)

\* How far buffer f is behind buffer n.
Behind(N, n, f) == IF n <= f THEN f - n ELSE f - n + N

LEMMA NextValue ==
    ASSUME NEW N \in Nat \ {0}, NEW f \in 0 .. N - 1
    PROVE  (f + 1) % N \in 0 .. N - 1 /\ (f + 1) % N = IF f = N - 1 THEN 0 ELSE f + 1
<1>1. CASE f + 1 = N
  <2>1. (f + 1) % N = 0
    BY <1>1
  <2> QED
    BY <2>1, <1>1
<1>2. CASE f + 1 < N
  <2>1. (f + 1) % N = f + 1
    BY <1>2
  <2> QED
    BY <2>1, <1>2
<1> QED
  BY <1>1, <1>2

LEMMA BehindRange ==
    ASSUME NEW N \in Nat \ {0}, NEW n \in 0 .. N - 1, NEW f \in 0 .. N - 1
    PROVE  Behind(N, n, f) \in 0 .. N - 1 /\ (Behind(N, n, f) = 0 <=> f = n)
  BY DEF Behind

LEMMA BehindInjective ==
    ASSUME NEW N \in Nat \ {0}, NEW n \in 0 .. N - 1, NEW f \in 0 .. N - 1, NEW g \in 0 .. N - 1,
           Behind(N, n, f) = Behind(N, n, g)
    PROVE  f = g
  BY DEF Behind

\* The buffer after f is one further behind, or n itself.
LEMMA BehindNext ==
    ASSUME NEW N \in Nat \ {0}, NEW n \in 0 .. N - 1, NEW f \in 0 .. N - 1
    PROVE  Behind(N, n, (f + 1) % N)
              = IF Behind(N, n, f) = N - 1 THEN 0 ELSE Behind(N, n, f) + 1
<1> DEFINE g == (f + 1) % N
<1>1. g = IF f = N - 1 THEN 0 ELSE f + 1
  BY NextValue
<1> HIDE DEF g
<1>2. Behind(N, n, g) = IF Behind(N, n, f) = N - 1 THEN 0 ELSE Behind(N, n, f) + 1
  BY <1>1 DEF Behind
<1> QED
  BY <1>2 DEF g

\* When the ring advances, every buffer is one nearer, and the one passed is the
\* last.
LEMMA BehindAdvanced ==
    ASSUME NEW N \in Nat \ {0}, NEW n \in 0 .. N - 1, NEW f \in 0 .. N - 1
    PROVE  Behind(N, (n + 1) % N, f) = IF f = n THEN N - 1 ELSE Behind(N, n, f) - 1
<1> DEFINE m == (n + 1) % N
<1>1. m = IF n = N - 1 THEN 0 ELSE n + 1
  BY NextValue
<1> HIDE DEF m
<1>2. Behind(N, m, f) = IF f = n THEN N - 1 ELSE Behind(N, n, f) - 1
  BY <1>1 DEF Behind
<1> QED
  BY <1>2 DEF m

\* The buffers from n on are listed by their distance.
RingFrom(N, n) == [i \in 1 .. N |-> (n + i - 1) % N]

LEMMA RingFromValue ==
    ASSUME NEW N \in Nat \ {0}, NEW n \in 0 .. N - 1
    PROVE  /\ RingFrom(N, n) \in Seq(0 .. N - 1) /\ Len(RingFrom(N, n)) = N
           /\ \A i \in 1 .. N : Behind(N, n, RingFrom(N, n)[i]) = i - 1
           /\ \A f \in 0 .. N - 1 : RingFrom(N, n)[Behind(N, n, f) + 1] = f
<1>1. ASSUME NEW i \in 1 .. N
      PROVE  (n + i - 1) % N = IF n + i - 1 < N THEN n + i - 1 ELSE n + i - 1 - N
  <2>1. CASE n + i - 1 < N
    BY <2>1
  <2>2. CASE ~(n + i - 1 < N)
    <3>1. n + i - 1 - N \in 0 .. N - 1
      BY <2>2
    <3> QED
      BY <2>2, <3>1
  <2> QED
    BY <2>1, <2>2
<1>2. \A i \in 1 .. N : RingFrom(N, n)[i] = (n + i - 1) % N
  BY DEF RingFrom
<1>3. \A i \in 1 .. N : RingFrom(N, n)[i] \in 0 .. N - 1 /\ Behind(N, n, RingFrom(N, n)[i]) = i - 1
  <2> SUFFICES ASSUME NEW i \in 1 .. N
               PROVE  RingFrom(N, n)[i] \in 0 .. N - 1 /\ Behind(N, n, RingFrom(N, n)[i]) = i - 1
    OBVIOUS
  <2> DEFINE r == RingFrom(N, n)[i]
  <2>1. r = IF n + i - 1 < N THEN n + i - 1 ELSE n + i - 1 - N
    BY <1>1, <1>2
  <2> HIDE DEF r
  <2>2. r \in 0 .. N - 1 /\ Behind(N, n, r) = i - 1
    BY <2>1 DEF Behind
  <2> QED
    BY <2>2 DEF r
<1>4. RingFrom(N, n) \in Seq(0 .. N - 1) /\ Len(RingFrom(N, n)) = N
  BY <1>3 DEF RingFrom
<1>5. ASSUME NEW f \in 0 .. N - 1 PROVE RingFrom(N, n)[Behind(N, n, f) + 1] = f
  <2>1. Behind(N, n, f) \in 0 .. N - 1
    BY BehindRange
  <2>2. PICK k \in 1 .. N : k = Behind(N, n, f) + 1
    BY <2>1
  <2>3. Behind(N, n, RingFrom(N, n)[k]) = Behind(N, n, f)
    BY <1>3, <2>1, <2>2
  <2>4. RingFrom(N, n)[k] = f
    BY <1>3, <2>3, BehindInjective
  <2> QED
    BY <2>2, <2>4
<1> QED
  BY <1>3, <1>4, <1>5

\* When the ring advances, its first buffer becomes the last.
LEMMA RingFromNext ==
    ASSUME NEW N \in Nat \ {0}, NEW n \in 0 .. N - 1
    PROVE  /\ RingFrom(N, n) # <<>> /\ Head(RingFrom(N, n)) = n
           /\ RingFrom(N, (n + 1) % N) = Append(Tail(RingFrom(N, n)), n)
           /\ \A i \in 1 .. N - 1 : Tail(RingFrom(N, n))[i] # n
<1> DEFINE s == RingFrom(N, n)
<1> DEFINE t == Tail(s)
<1> DEFINE m == (n + 1) % N
<1> DEFINE r == RingFrom(N, m)
<1>1. /\ s \in Seq(0 .. N - 1) /\ Len(s) = N
      /\ \A i \in 1 .. N : Behind(N, n, s[i]) = i - 1
      /\ m \in 0 .. N - 1
  BY RingFromValue, NextValue
<1>2. /\ r \in Seq(0 .. N - 1) /\ Len(r) = N
      /\ \A f \in 0 .. N - 1 : r[Behind(N, m, f) + 1] = f
  <2> HIDE DEF m
  <2> QED
    BY <1>1, RingFromValue
<1>3. \A f \in 0 .. N - 1 : Behind(N, m, f) = IF f = n THEN N - 1 ELSE Behind(N, n, f) - 1
  BY BehindAdvanced
<1> HIDE DEF s, m, r
<1>4. /\ t \in Seq(0 .. N - 1) /\ s # <<>> /\ Len(t) = N - 1 /\ Head(s) = s[1]
      /\ \A i \in 1 .. N : s[i] \in 0 .. N - 1
      /\ \A i \in 1 .. N - 1 : t[i] = s[i + 1]
  BY <1>1
<1> HIDE DEF t
<1>5. ASSUME NEW i \in 1 .. N - 1 PROVE t[i] \in 0 .. N - 1 /\ Behind(N, n, t[i]) = i
  <2>1. PICK j \in 1 .. N : j = i + 1
    OBVIOUS
  <2>2. t[i] = s[j] /\ s[j] \in 0 .. N - 1 /\ Behind(N, n, s[j]) = j - 1
    BY <1>1, <1>4, <2>1
  <2> QED
    BY <2>1, <2>2
<1>6. Head(s) = n /\ \A i \in 1 .. N - 1 : t[i] # n
  <2>1. s[1] \in 0 .. N - 1 /\ Behind(N, n, s[1]) = 0
    BY <1>1, <1>4
  <2>2. Behind(N, n, n) = 0
    BY BehindRange
  <2>3. s[1] = n
    BY <2>1, <2>2, BehindInjective
  <2>4. \A i \in 1 .. N - 1 : i # 0
    OBVIOUS
  <2> QED
    BY <1>4, <1>5, <2>2, <2>3, <2>4
<1>7. ASSUME NEW i \in 1 .. N - 1 PROVE r[i] = t[i]
  <2>1. t[i] \in 0 .. N - 1 /\ Behind(N, n, t[i]) = i /\ t[i] # n
    BY <1>5, <1>6
  <2>2. Behind(N, m, t[i]) + 1 = i
    BY <1>3, <2>1
  <2> QED
    BY <1>2, <2>1, <2>2
<1>8. r[N] = n
  <2>1. Behind(N, m, n) + 1 = N
    BY <1>3
  <2> QED
    BY <1>2, <2>1
<1> DEFINE u == Append(t, n)
<1>9. u \in Seq(0 .. N - 1) /\ Len(u) = N /\ \A i \in 1 .. N : r[i] = u[i]
  BY <1>4, <1>7, <1>8
<1> HIDE DEF u
<1>10. r = u
  BY <1>2, <1>9
<1> QED
  BY <1>4, <1>6, <1>10 DEF s, t, m, r, u
=============================================================================
