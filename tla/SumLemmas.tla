----------------------------- MODULE SumLemmas -----------------------------
(***************************************************************************)
(* Sums over finite sets.  The sum of MapThenSumSet is a recursion over    *)
(* the set; it is shown to count a set of tokens, f[x] of them for each x, *)
(* so that the facts about cardinalities give those about sums.            *)
(***************************************************************************)
EXTENDS Integers, FiniteSetsExt, FiniteSetTheorems, NatLemmas, TLAPS

Tokens(f, S) == UNION {{x} \X (1..f[x]) : x \in S}

\* The sum of f[x] for x in S.
Total(f, S) == Cardinality(Tokens(f, S))

\* f[x] tokens for one x.
LEMMA TokensOne ==
  ASSUME NEW n \in Nat, NEW x
  PROVE  IsFiniteSet({x} \X (1..n)) /\ Cardinality({x} \X (1..n)) = n
<1> DEFINE g == [i \in 1..n |-> <<x, i>>]
<1>1. g \in Bijection(1..n, {x} \X (1..n))
  BY DEF Bijection, Injection, Surjection, IsInjective
<1>2. IsFiniteSet(1..n) /\ Cardinality(1..n) = n
  BY FS_Interval
<1>3. ExistsBijection(1..n, {x} \X (1..n))
  BY <1>1 DEF ExistsBijection
<1> QED
  BY <1>2, <1>3, FS_Bijection

\* Sums over nothing, and over one element more.
LEMMA TotalAdd ==
  ASSUME NEW f, NEW S, NEW x, x \notin S, f[x] \in Nat, IsFiniteSet(Tokens(f, S)),
         NEW T, T = S \cup {x}
  PROVE  /\ IsFiniteSet(Tokens(f, T))
         /\ Total(f, T) = Total(f, S) + f[x]
<1>1. Tokens(f, T) = Tokens(f, S) \cup ({x} \X (1..f[x]))
  BY DEF Tokens
<1>2. Tokens(f, S) \cap ({x} \X (1..f[x])) = {}
  BY DEF Tokens
<1>3. IsFiniteSet({x} \X (1..f[x])) /\ Cardinality({x} \X (1..f[x])) = f[x]
  BY TokensOne
<1>4. Cardinality({}) = 0
  BY FS_EmptySet
<1>5. Cardinality(Tokens(f, S)) \in Nat
  BY FS_CardinalityType
<1>6. PICK A : A = Tokens(f, S)
  OBVIOUS
<1>7. PICK B : B = {x} \X (1..f[x])
  OBVIOUS
<1>8. IsFiniteSet(A) /\ IsFiniteSet(B)
  BY <1>3, <1>6, <1>7
<1>9. /\ IsFiniteSet(A \cup B)
      /\ Cardinality(A \cup B) = Cardinality(A) + Cardinality(B) - Cardinality(A \cap B)
  BY <1>8, FS_Union
<1>10. Cardinality(A) \in Nat /\ Cardinality(B) = f[x] /\ Cardinality(A \cap B) = 0
  BY <1>2, <1>3, <1>4, <1>5, <1>6, <1>7
<1>11. Cardinality(A \cup B) = Cardinality(A) + f[x]
  BY <1>9, <1>10
<1> QED
  BY <1>1, <1>6, <1>7, <1>9, <1>11 DEF Total

LEMMA TotalEmpty ==
  ASSUME NEW f
  PROVE  Tokens(f, {}) = {} /\ Total(f, {}) = 0
  BY FS_EmptySet DEF Tokens, Total

\* Sums over a finite set are numbers.
LEMMA TotalFinite ==
  ASSUME NEW f, NEW S, IsFiniteSet(S), \A x \in S : f[x] \in Nat
  PROVE  IsFiniteSet(Tokens(f, S)) /\ Total(f, S) \in Nat
<1> DEFINE B == {Cardinality(T) : T \in {U \in SUBSET S : ~IsFiniteSet(Tokens(f, U))}}
<1>1. ASSUME B # {}
      PROVE  FALSE
  <2>1. B \subseteq Nat
    BY FS_Subset, FS_CardinalityType
  <2>2. \E n \in B : \A m \in B : n <= m
    <3> HIDE DEF B
    <3> QED BY <1>1, <2>1, SmallestNat
  <2>3. PICK U \in SUBSET S : /\ ~IsFiniteSet(Tokens(f, U))
                              /\ \A m \in B : Cardinality(U) <= m
    BY <2>2
  <2>4. U # {}
    BY <2>3, TotalEmpty, FS_EmptySet
  <2>5. PICK x \in U : TRUE
    BY <2>4
  <2>6. PICK T : T = U \ {x}
    OBVIOUS
  <2>7. IsFiniteSet(U)
    BY FS_Subset
  <2>8. Cardinality(U) \in Nat /\ Cardinality(T) = Cardinality(U) - 1
    BY <2>6, <2>7, FS_RemoveElement, FS_CardinalityType
  <2>9. ~(Cardinality(T) \in B)
    <3> HIDE DEF B
    <3> QED BY <2>1, <2>3, <2>8
  <2>10. IsFiniteSet(Tokens(f, T))
    BY <2>6, <2>9
  <2>11. T \cup {x} = U /\ x \notin T /\ f[x] \in Nat
    BY <2>6
  <2>12. IsFiniteSet(Tokens(f, U))
    BY <2>10, <2>11, TotalAdd
  <2> QED
    BY <2>3, <2>12
<1>2. IsFiniteSet(Tokens(f, S))
  BY <1>1
<1> QED
  BY <1>2, FS_CardinalityType DEF Total

\* The equation that MapThenSumSet solves.
Solves(F, f, S) ==
  F = [T \in SUBSET S |->
         IF T = {} THEN 0
         ELSE f[CHOOSE x \in T : TRUE] + F[T \ {CHOOSE x \in T : TRUE}]]

\* One step of the recursion.
LEMMA TotalRemove ==
  ASSUME NEW f, NEW S, IsFiniteSet(S), \A x \in S : f[x] \in Nat, NEW T \in SUBSET S,
         NEW x \in T, NEW U, U = T \ {x}
  PROVE  /\ U \in SUBSET S
         /\ Cardinality(T) \in Nat /\ Cardinality(U) = Cardinality(T) - 1
         /\ Total(f, T) = f[x] + Total(f, U)
<1>1. f[x] \in Nat
  OBVIOUS
<1>2. IsFiniteSet(T) /\ IsFiniteSet(U)
  BY FS_Subset
<1>3. Cardinality(T) \in Nat /\ Cardinality(U) = Cardinality(T) - 1
  BY <1>1, <1>2, FS_RemoveElement, FS_CardinalityType
<1>4. IsFiniteSet(Tokens(f, U)) /\ Total(f, U) \in Nat
  BY <1>2, TotalFinite
<1>5. U \cup {x} = T /\ x \notin U
  BY <1>1
<1>6. Total(f, T) = Total(f, U) + f[x]
  BY <1>1, <1>4, <1>5, TotalAdd
<1> QED
  BY <1>1, <1>3, <1>4, <1>6

\* The sums solve its equation.
LEMMA TotalSolves ==
  ASSUME NEW f, NEW S, IsFiniteSet(S), \A x \in S : f[x] \in Nat,
         NEW G, G = [T \in SUBSET S |-> Total(f, T)]
  PROVE  Solves(G, f, S)
<1>1. ASSUME NEW T \in SUBSET S
      PROVE  G[T] = IF T = {} THEN 0
                    ELSE f[CHOOSE x \in T : TRUE] + G[T \ {CHOOSE x \in T : TRUE}]
  <2>1. CASE T = {}
    BY <2>1, TotalEmpty
  <2>2. CASE T # {}
    <3>1. PICK x : x = CHOOSE y \in T : TRUE
      OBVIOUS
    <3>2. PICK U : U = T \ {x}
      OBVIOUS
    <3>3. x \in T /\ U \in SUBSET S /\ Total(f, T) = f[x] + Total(f, U)
      <4>1. x \in T
        BY <2>2, <3>1
      <4> QED
        BY <3>2, <4>1, TotalRemove
    <3>4. G[T] = Total(f, T) /\ G[U] = Total(f, U)
      BY <3>3
    <3> QED
      BY <2>2, <3>1, <3>2, <3>3, <3>4
  <2> QED
    BY <2>1, <2>2
<1> QED
  BY <1>1 DEF Solves

\* Nothing else does.
LEMMA OnlyTotal ==
  ASSUME NEW f, NEW S, IsFiniteSet(S), \A x \in S : f[x] \in Nat,
         NEW F, Solves(F, f, S)
  PROVE  \A T \in SUBSET S : F[T] = Total(f, T)
<1> DEFINE B == {Cardinality(T) : T \in {U \in SUBSET S : F[U] # Total(f, U)}}
<1>1. SUFFICES ASSUME B # {}
               PROVE  FALSE
  OBVIOUS
<1>2. B \subseteq Nat
  BY FS_Subset, FS_CardinalityType
<1>3. \E n \in B : \A m \in B : n <= m
  <2> HIDE DEF B
  <2> QED BY <1>1, <1>2, SmallestNat
<1>4. PICK T \in SUBSET S : F[T] # Total(f, T) /\ \A m \in B : Cardinality(T) <= m
  BY <1>3
<1>5. F[T] = IF T = {} THEN 0
             ELSE f[CHOOSE x \in T : TRUE] + F[T \ {CHOOSE x \in T : TRUE}]
  BY DEF Solves
<1>6. T # {}
  BY <1>4, <1>5, TotalEmpty
<1>7. PICK x : x = CHOOSE y \in T : TRUE
  OBVIOUS
<1>8. PICK U : U = T \ {x}
  OBVIOUS
<1>9. /\ x \in T /\ U \in SUBSET S /\ Cardinality(T) \in Nat
      /\ Cardinality(U) = Cardinality(T) - 1
      /\ Total(f, T) = f[x] + Total(f, U)
  <2>1. x \in T
    BY <1>6, <1>7
  <2> QED
    BY <1>8, <2>1, TotalRemove
<1>10. Cardinality(U) \notin B
  <2> HIDE DEF B
  <2> QED BY <1>2, <1>4, <1>9
<1>11. F[U] = Total(f, U)
  BY <1>9, <1>10
<1> QED
  BY <1>4, <1>5, <1>6, <1>7, <1>8, <1>9, <1>11

\* Sums depend on the summands alone.
LEMMA TotalSame ==
  ASSUME NEW f, NEW g, NEW S, \A x \in S : f[x] = g[x]
  PROVE  Total(f, S) = Total(g, S)
<1>1. \A x \in S : {x} \X (1..f[x]) = {x} \X (1..g[x])
  OBVIOUS
<1>2. Tokens(f, S) = Tokens(g, S)
  BY <1>1 DEF Tokens
<1> QED
  BY <1>2 DEF Total

LEMMA TotalZero ==
  ASSUME NEW f, NEW S, \A x \in S : f[x] = 0
  PROVE  Total(f, S) = 0
<1>1. \A x \in S : {x} \X (1..f[x]) = {}
  OBVIOUS
<1>2. Tokens(f, S) = {}
  BY <1>1 DEF Tokens
<1> QED
  BY <1>2, FS_EmptySet DEF Total

\* The sum over two sets that share nothing.
LEMMA TotalUnion ==
  ASSUME NEW f, NEW S, NEW T, IsFiniteSet(S), IsFiniteSet(T), S \cap T = {},
         \A x \in S \cup T : f[x] \in Nat
  PROVE  Total(f, S \cup T) = Total(f, S) + Total(f, T)
<1>1. PICK A : A = Tokens(f, S)
  OBVIOUS
<1>2. PICK B : B = Tokens(f, T)
  OBVIOUS
<1>3. Tokens(f, S \cup T) = A \cup B
  BY <1>1, <1>2 DEF Tokens
<1>4. A \cap B = {}
  BY <1>1, <1>2 DEF Tokens
<1>5. IsFiniteSet(A) /\ IsFiniteSet(B)
  BY <1>1, <1>2, TotalFinite
<1>6. Cardinality(A \cup B) = Cardinality(A) + Cardinality(B) - Cardinality(A \cap B)
  BY <1>5, FS_Union
<1>7. Cardinality(A) \in Nat /\ Cardinality(B) \in Nat /\ Cardinality(A \cap B) = 0
  BY <1>4, <1>5, FS_CardinalityType, FS_EmptySet
<1>8. Cardinality(A \cup B) = Cardinality(A) + Cardinality(B)
  BY <1>6, <1>7
<1> QED
  BY <1>1, <1>2, <1>3, <1>8 DEF Total

\* The sum over some positions of a list without repetitions.
LEMMA TotalImage ==
  ASSUME NEW s, NEW g, NEW I, IsFiniteSet(I),
         \A i, j \in I : s[i] = s[j] => i = j,
         \A i \in I : g[s[i]] \in Nat
  PROVE  /\ IsFiniteSet({s[i] : i \in I})
         /\ MapThenSumSet(LAMBDA i : g[s[i]], I) = Total(g, {s[i] : i \in I})
<1>1. PICK f : f = [i \in I |-> g[s[i]]]
  OBVIOUS
<1>2. \A i \in I : f[i] = g[s[i]] /\ f[i] \in Nat
  BY <1>1
<1>3. MapThenSumSet(LAMBDA i : g[s[i]], I) = Total(f, I)
  <2> DEFINE E(F) == [T \in SUBSET I |->
                       IF T = {} THEN 0
                       ELSE g[s[CHOOSE x \in T : TRUE]] + F[T \ {CHOOSE x \in T : TRUE}]]
             H == CHOOSE F : F = E(F)
  <2>1. MapThenSumSet(LAMBDA i : g[s[i]], I) = H[I]
    BY DEF MapThenSumSet, MapThenFoldSet
  <2>2. \A F : F = E(F) <=> Solves(F, f, I)
    BY <1>2 DEF Solves
  <2>3. PICK G : G = [T \in SUBSET I |-> Total(f, T)]
    OBVIOUS
  <2>4. Solves(G, f, I)
    BY <1>2, <2>3, TotalSolves
  <2>5. G = E(G)
    BY <2>2, <2>4
  <2>6. H = E(H)
    BY <2>5
  <2>7. PICK F : F = H
    OBVIOUS
  <2>8. Solves(F, f, I)
    BY <2>2, <2>6, <2>7
  <2>9. F[I] = Total(f, I)
    BY <1>2, <2>8, OnlyTotal
  <2> QED
    BY <2>1, <2>7, <2>9
<1>5. PICK A : A = Tokens(f, I)
  OBVIOUS
<1>6. PICK J : J = {s[i] : i \in I}
  OBVIOUS
<1>7. PICK B : B = Tokens(g, J)
  OBVIOUS
<1>8. PICK h : h = [p \in A |-> <<s[p[1]], p[2]>>]
  OBVIOUS
<1>9. \A p : p \in A <=> \E i \in I : \E n \in 1..g[s[i]] : p = <<i, n>>
  BY <1>2, <1>5 DEF Tokens
<1>10. \A p : p \in B <=> \E i \in I : \E n \in 1..g[s[i]] : p = <<s[i], n>>
  BY <1>6, <1>7 DEF Tokens
<1>11. h \in Bijection(A, B)
  <2>1. \A p \in A : h[p] \in B
    BY <1>8, <1>9, <1>10
  <2>2. \A p, q \in A : h[p] = h[q] => p = q
    BY <1>8, <1>9
  <2>3. ASSUME NEW q \in B
        PROVE  \E p \in A : h[p] = q
    <3>1. PICK i \in I : \E n \in 1..g[s[i]] : q = <<s[i], n>>
      BY <1>10
    <3>2. PICK n \in 1..g[s[i]] : q = <<s[i], n>>
      BY <3>1
    <3>3. <<i, n>> \in A
      BY <1>9
    <3>4. h[<<i, n>>] = q
      BY <1>8, <3>2, <3>3
    <3> QED
      BY <3>3, <3>4
  <2>4. h \in [A -> B]
    BY <1>8, <2>1
  <2> QED
    BY <2>2, <2>3, <2>4 DEF Bijection, Injection, Surjection, IsInjective
<1>12. IsFiniteSet(A)
  BY <1>2, <1>5, TotalFinite
<1>13. ExistsBijection(A, B)
  BY <1>11 DEF ExistsBijection
<1>14. Cardinality(B) = Cardinality(A)
  BY <1>12, <1>13, FS_Bijection
<1>15. IsFiniteSet(J)
  <2>1. PICK e : e = [i \in I |-> s[i]]
    OBVIOUS
  <2>2. e \in Surjection(I, J)
    BY <1>6, <2>1 DEF Surjection
  <2> QED
    BY <2>2, FS_Surjection
<1> QED
  BY <1>3, <1>5, <1>6, <1>7, <1>14, <1>15 DEF Total

\* The sum over a set in which only the members of M count.
LEMMA TotalWhere ==
  ASSUME NEW f, NEW g, NEW S, IsFiniteSet(S), NEW M, M \subseteq S,
         \A x \in S : f[x] = IF x \in M THEN g[x] ELSE 0,
         \A x \in M : g[x] \in Nat
  PROVE  Total(f, S) = Total(g, M)
<1>1. Total(f, S \ M) = 0
  BY TotalZero
<1>2. Total(f, M) = Total(g, M)
  BY TotalSame
<1>3. M \cup (S \ M) = S /\ M \cap (S \ M) = {} /\ IsFiniteSet(M) /\ IsFiniteSet(S \ M)
  BY FS_Subset
<1>4. \A x \in M \cup (S \ M) : f[x] \in Nat
  OBVIOUS
<1>5. Total(f, M \cup (S \ M)) = Total(f, M) + Total(f, S \ M)
  BY <1>3, <1>4, TotalUnion
<1>6. Total(f, M) \in Nat
  BY <1>3, <1>4, TotalFinite
<1>7. Total(f, S) = Total(f, M) + Total(f, S \ M)
  BY <1>3, <1>5
<1> QED
  BY <1>1, <1>2, <1>6, <1>7
=============================================================================
