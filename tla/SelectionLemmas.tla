---------------------------- MODULE SelectionLemmas ----------------------------
(***************************************************************************)
(* What Selected returns, for any sequence and any set of places in it:    *)
(* the members at those places, each once, in the order they had.  And     *)
(* what a sequence begins with.                                            *)
(***************************************************************************)
EXTENDS Selection, FiniteSetTheorems, SequenceTheorems, TLAPS

LEMMA RankType ==
  ASSUME NEW P \in SUBSET Int, IsFiniteSet(P), NEW p \in P
  PROVE  Rank(P, p) \in 1 .. Cardinality(P)
<1> DEFINE U == {q \in P : q <= p}
<1>1. /\ IsFiniteSet(U) /\ Cardinality(U) <= Cardinality(P)
      /\ Cardinality(U) \in Nat /\ Cardinality(P) \in Nat
  BY FS_Subset, FS_CardinalityType
<1>2. U # {}
  OBVIOUS
<1>3. Cardinality(U) # 0
  BY <1>1, <1>2, FS_EmptySet
<1> QED
  BY <1>1, <1>3 DEF Rank

LEMMA RankGrows ==
  ASSUME NEW P \in SUBSET Int, IsFiniteSet(P), NEW p \in P, NEW q \in P, p < q
  PROVE  Rank(P, p) < Rank(P, q)
<1> DEFINE U == {x \in P : x <= p}
           V == {x \in P : x <= q}
<1>1. IsFiniteSet(V)
  BY FS_Subset
<1>2. U \subseteq V /\ q \in V /\ q \notin U
  <2>1. p \in Int /\ q \in Int
    OBVIOUS
  <2>2. q \in V /\ q \notin U
    BY <2>1
  <2>3. ASSUME NEW x \in P, x <= p PROVE x <= q
    <3>1. x \in Int
      OBVIOUS
    <3> QED
      BY <2>1, <2>3, <3>1
  <2> QED
    BY <2>2, <2>3
<1> HIDE DEF U, V
<1>3. /\ Cardinality(U) <= Cardinality(V) /\ Cardinality(U) # Cardinality(V)
      /\ IsFiniteSet(U)
  BY <1>1, <1>2, FS_Subset
<1>4. Cardinality(U) \in Nat /\ Cardinality(V) \in Nat
  BY <1>1, <1>3, FS_CardinalityType
<1> QED
  BY <1>3, <1>4 DEF Rank, U, V

\* Nth numbers the places, in their order.
LEMMA NthIsPlace ==
  ASSUME NEW P \in SUBSET Int, IsFiniteSet(P), NEW n \in 1 .. Cardinality(P)
  PROVE  Nth(P, n) \in P /\ Rank(P, Nth(P, n)) = n
<1> DEFINE rank == [p \in P |-> Rank(P, p)]
           N    == 1 .. Cardinality(P)
<1>1. Cardinality(P) \in Nat /\ IsFiniteSet(N) /\ Cardinality(N) = Cardinality(P)
  BY FS_CardinalityType, FS_Interval
<1>2. rank \in [P -> N]
  BY RankType
<1>3. \A p, q \in P : p # q => rank[p] # rank[q]
  <2> SUFFICES ASSUME NEW p \in P, NEW q \in P, p < q PROVE rank[p] # rank[q]
    OBVIOUS
  <2>1. Rank(P, p) < Rank(P, q)
    BY RankGrows
  <2>2. Rank(P, p) \in Int /\ Rank(P, q) \in Int
    BY <1>1, RankType
  <2> QED
    BY <2>1, <2>2
<1> HIDE DEF rank, N
<1>4. rank \in Injection(P, N)
  BY <1>2, <1>3 DEF Injection, IsInjective
<1>5. rank \in Surjection(P, N)
  BY <1>1, <1>4, FS_Injection
<1>6. \E p \in P : rank[p] = n
  BY <1>5 DEF Surjection, N
<1>7. \E p \in P : Rank(P, p) = n
  BY <1>6 DEF rank
<1> QED
  BY <1>7 DEF Nth

LEMMA NthGrows ==
  ASSUME NEW P \in SUBSET Int, IsFiniteSet(P),
         NEW m \in 1 .. Cardinality(P), NEW n \in 1 .. Cardinality(P), m < n
  PROVE  Nth(P, m) < Nth(P, n)
<1>1. /\ Nth(P, m) \in P /\ Rank(P, Nth(P, m)) = m
      /\ Nth(P, n) \in P /\ Rank(P, Nth(P, n)) = n
      /\ Cardinality(P) \in Nat
  BY NthIsPlace, FS_CardinalityType
<1>2. CASE Nth(P, n) < Nth(P, m)
  <2>1. n < m
    BY <1>1, <1>2, RankGrows
  <2> QED
    BY <1>1, <2>1
<1>3. CASE Nth(P, n) = Nth(P, m)
  BY <1>1, <1>3
<1>4. Nth(P, m) \in Int /\ Nth(P, n) \in Int
  BY <1>1
<1> QED
  BY <1>2, <1>3, <1>4

LEMMA NthOfRank ==
  ASSUME NEW P \in SUBSET Int, IsFiniteSet(P), NEW p \in P
  PROVE  Nth(P, Rank(P, p)) = p
<1> DEFINE q == Nth(P, Rank(P, p))
<1>1. q \in P /\ Rank(P, q) = Rank(P, p)
  BY RankType, NthIsPlace
<1>2. Rank(P, p) \in Nat
  BY RankType, FS_CardinalityType
<1> HIDE DEF q
<1>3. ~(q < p) /\ ~(p < q)
  <2>1. q < p => Rank(P, q) < Rank(P, p)
    BY <1>1, RankGrows
  <2>2. p < q => Rank(P, p) < Rank(P, q)
    BY <1>1, RankGrows
  <2> QED
    BY <1>1, <1>2, <2>1, <2>2
<1>4. p \in Int /\ q \in Int
  BY <1>1
<1>5. q = p
  BY <1>3, <1>4
<1> QED
  BY <1>5 DEF q

-----------------------------------------------------------------------------
(***************************************************************************)
(* The selected members.                                                   *)
(***************************************************************************)
LEMMA SelectedType ==
  ASSUME NEW S, NEW s \in Seq(S), NEW P \in SUBSET (DOMAIN s)
  PROVE  /\ IsFiniteSet(P) /\ Cardinality(P) \in Nat /\ P \subseteq Int
         /\ Selected(s, P) \in Seq({s[p] : p \in P})
         /\ Selected(s, P) \in Seq(S)
         /\ Len(Selected(s, P)) = Cardinality(P)
         /\ DOMAIN Selected(s, P) = 1 .. Cardinality(P)
<1>1. Len(s) \in Nat /\ DOMAIN s = 1 .. Len(s)
  BY LenProperties
<1>2. IsFiniteSet(P)
  <2>1. IsFiniteSet(1 .. Len(s))
    BY <1>1, FS_Interval
  <2> QED
    BY <1>1, <2>1, FS_Subset
<1>3. Cardinality(P) \in Nat
  BY <1>2, FS_CardinalityType
<1>4. \A n \in 1 .. Cardinality(P) : Nth(P, n) \in P
  BY <1>1, <1>2, NthIsPlace
<1>5. \A p \in P : s[p] \in S
  BY <1>1, ElementOfSeq
<1> QED
  BY <1>1, <1>2, <1>3, <1>4, <1>5 DEF Selected

\* Every selected member has a place, and the places grow.
LEMMA SelectedPlaces ==
  ASSUME NEW S, NEW s \in Seq(S), NEW P \in SUBSET (DOMAIN s)
  PROVE  \E f \in [1 .. Cardinality(P) -> P] :
           /\ \A n \in 1 .. Cardinality(P) : Selected(s, P)[n] = s[f[n]]
           /\ \A m, n \in 1 .. Cardinality(P) : m < n => f[m] < f[n]
           /\ \A p \in P : \E n \in 1 .. Cardinality(P) : f[n] = p
<1> DEFINE f == [n \in 1 .. Cardinality(P) |-> Nth(P, n)]
<1>1. IsFiniteSet(P) /\ Cardinality(P) \in Nat /\ P \subseteq Int
  BY SelectedType
<1>2. f \in [1 .. Cardinality(P) -> P]
  BY <1>1, NthIsPlace
<1>3. \A n \in 1 .. Cardinality(P) : Selected(s, P)[n] = s[f[n]]
  BY DEF Selected
<1>4. \A m, n \in 1 .. Cardinality(P) : m < n => f[m] < f[n]
  BY <1>1, NthGrows
<1>5. \A p \in P : \E n \in 1 .. Cardinality(P) : f[n] = p
  BY <1>1, RankType, NthOfRank
<1> HIDE DEF f
<1> QED
  BY <1>2, <1>3, <1>4, <1>5

\* What is selected, no more and no less.
LEMMA SelectedMembers ==
  ASSUME NEW S, NEW s \in Seq(S), NEW P \in SUBSET (DOMAIN s)
  PROVE  {Selected(s, P)[n] : n \in DOMAIN Selected(s, P)} = {s[p] : p \in P}
<1>1. DOMAIN Selected(s, P) = 1 .. Cardinality(P)
  BY SelectedType
<1>2. PICK f \in [1 .. Cardinality(P) -> P] :
         /\ \A n \in 1 .. Cardinality(P) : Selected(s, P)[n] = s[f[n]]
         /\ \A p \in P : \E n \in 1 .. Cardinality(P) : f[n] = p
  BY SelectedPlaces
<1> QED
  BY <1>1, <1>2

-----------------------------------------------------------------------------
(***************************************************************************)
(* Filtering by a set.                                                     *)
(***************************************************************************)
LEMMA AmongMembers ==
  ASSUME NEW S, NEW s \in Seq(S), NEW T
  PROVE  {Among(s, T)[n] : n \in DOMAIN Among(s, T)} = {s[i] : i \in DOMAIN s} \cap T
<1> DEFINE P == {i \in DOMAIN s : s[i] \in T}
<1>1. P \in SUBSET (DOMAIN s)
  OBVIOUS
<1> HIDE DEF P
<1>2. {Selected(s, P)[n] : n \in DOMAIN Selected(s, P)} = {s[p] : p \in P}
  BY <1>1, SelectedMembers
<1>3. {s[p] : p \in P} = {s[i] : i \in DOMAIN s} \cap T
  BY DEF P
<1> QED
  BY <1>2, <1>3 DEF Among, P

LEMMA AmongType ==
  ASSUME NEW S, NEW s \in Seq(S), NEW T
  PROVE  Among(s, T) \in Seq(S) /\ Among(s, T) \in Seq(T)
<1> DEFINE P == {i \in DOMAIN s : s[i] \in T}
<1>1. P \in SUBSET (DOMAIN s)
  OBVIOUS
<1> HIDE DEF P
<1>2. Selected(s, P) \in Seq({s[p] : p \in P}) /\ Selected(s, P) \in Seq(S)
  BY <1>1, SelectedType
<1>3. {s[p] : p \in P} \subseteq T
  BY DEF P
<1>4. Selected(s, P) \in Seq(T)
  BY <1>2, <1>3, SeqMonotonic
<1> QED
  BY <1>2, <1>4 DEF Among, P

\* An ascending enumeration of the places is Nth.
LEMMA NthIsUnique ==
  ASSUME NEW P \in SUBSET Int, NEW n \in Nat, NEW f \in [1 .. n -> P],
         \A i, j \in 1 .. n : i < j => f[i] < f[j],
         \A p \in P : \E i \in 1 .. n : f[i] = p
  PROVE  Cardinality(P) = n /\ \A i \in 1 .. n : Nth(P, i) = f[i]
<1>0. ASSUME NEW i \in 1 .. n, NEW j \in 1 .. n
      PROVE  (f[i] = f[j] => i = j) /\ (f[i] <= f[j] => i <= j)
  <2>1. f[i] \in Int /\ f[j] \in Int
    OBVIOUS
  <2>2. i < j \/ i = j \/ j < i
    OBVIOUS
  <2> QED
    BY <2>1, <2>2
<1>1. f \in Bijection(1 .. n, P)
  BY <1>0 DEF Bijection, Injection, Surjection, IsInjective
<1>2. Cardinality(P) = n
  BY <1>1, FS_CountingElements DEF ExistsBijection
<1>3. IsFiniteSet(P)
  BY <1>1, FS_Interval, FS_Bijection DEF ExistsBijection
<1>4. ASSUME NEW i \in 1 .. n PROVE Rank(P, f[i]) = i
  <2> DEFINE U == {q \in P : q <= f[i]}
             g == [j \in 1 .. i |-> f[j]]
  <2>1. \A j \in 1 .. i : f[j] \in U
    <3> SUFFICES ASSUME NEW j \in 1 .. i PROVE f[j] <= f[i]
      OBVIOUS
    <3>1. j \in 1 .. n
      OBVIOUS
    <3>3. f[j] \in Int /\ f[i] \in Int
      BY <3>1
    <3>2. j = i \/ j < i
      OBVIOUS
    <3> QED
      BY <3>1, <3>2, <3>3
  <2>2. \A q \in U : \E j \in 1 .. i : f[j] = q
    BY <1>0
  <2>3. i \in Nat /\ \A j \in 1 .. i : j \in 1 .. n
    OBVIOUS
  <2> HIDE DEF U
  <2>4. g \in Bijection(1 .. i, U)
    BY <1>0, <2>1, <2>2, <2>3 DEF Bijection, Injection, Surjection, IsInjective
  <2>5. Cardinality(U) = i
    BY <2>3, <2>4, FS_CountingElements DEF ExistsBijection
  <2> QED
    BY <2>5 DEF Rank, U
<1>5. ASSUME NEW i \in 1 .. n PROVE Nth(P, i) = f[i]
  <2>1. Rank(P, f[i]) = i /\ f[i] \in P
    BY <1>4
  <2>2. Nth(P, Rank(P, f[i])) = f[i]
    BY <1>3, <2>1, NthOfRank
  <2> QED
    BY <2>1, <2>2
<1> QED
  BY <1>2, <1>5

LEMMA LeastMember ==
  ASSUME NEW S \in SUBSET Nat, S # {}
  PROVE  \E i \in S : \A j \in S : i <= j
<1>1. PICK i \in S : \A j \in S : ~(<<j, i>> \in OpToRel(<, Nat))
  BY NatLessThanWellFounded, WFMin
<1>2. \A j \in S : ~(j < i)
  BY <1>1 DEF OpToRel
<1> QED
  BY <1>2

LEMMA AmongConcat ==
  ASSUME NEW S, NEW s \in Seq(S), NEW t \in Seq(S), NEW T
  PROVE  Among(s \o t, T) = Among(s, T) \o Among(t, T)
<1> DEFINE P == {i \in DOMAIN s : s[i] \in T}
           R == {i \in DOMAIN t : t[i] \in T}
           Q == {i \in DOMAIN (s \o t) : (s \o t)[i] \in T}
           a == Cardinality(P)
           b == Cardinality(R)
           f == [i \in 1 .. a + b |-> IF i <= a THEN Nth(P, i) ELSE Len(s) + Nth(R, i - a)]
<1>1. /\ Len(s) \in Nat /\ DOMAIN s = 1 .. Len(s)
      /\ Len(t) \in Nat /\ DOMAIN t = 1 .. Len(t)
  BY LenProperties
<1>2. /\ s \o t \in Seq(S) /\ DOMAIN (s \o t) = 1 .. Len(s) + Len(t)
      /\ \A i \in 1 .. Len(s) : (s \o t)[i] = s[i]
      /\ \A i \in 1 .. Len(t) : (s \o t)[Len(s) + i] = t[i]
  <2>1. /\ s \o t \in Seq(S) /\ Len(s \o t) = Len(s) + Len(t)
        /\ \A i \in 1 .. Len(s) + Len(t) :
             (s \o t)[i] = IF i <= Len(s) THEN s[i] ELSE t[i - Len(s)]
    BY ConcatProperties
  <2>2. DOMAIN (s \o t) = 1 .. Len(s) + Len(t)
    BY <2>1, LenProperties
  <2>3. ASSUME NEW i \in 1 .. Len(t) PROVE (s \o t)[Len(s) + i] = t[i]
    <3>1. /\ Len(s) + i \in 1 .. Len(s) + Len(t) /\ ~(Len(s) + i <= Len(s))
          /\ (Len(s) + i) - Len(s) = i
      BY <1>1
    <3> QED
      BY <2>1, <3>1
  <2> QED
    BY <1>1, <2>1, <2>2, <2>3
<1>3. P \in SUBSET (DOMAIN s) /\ R \in SUBSET (DOMAIN t)
  OBVIOUS
<1>4. \A i \in 1 .. Len(s) : i \in Q <=> i \in P
  BY <1>1, <1>2
<1>5. \A i \in 1 .. Len(t) : Len(s) + i \in Q <=> i \in R
  <2> SUFFICES ASSUME NEW i \in 1 .. Len(t) PROVE Len(s) + i \in Q <=> i \in R
    OBVIOUS
  <2>1. Len(s) + i \in DOMAIN (s \o t) /\ i \in DOMAIN t
    BY <1>1, <1>2
  <2> QED
    BY <1>2, <2>1
<1>6. Q \subseteq 1 .. Len(s) + Len(t) /\ P \subseteq 1 .. Len(s) /\ R \subseteq 1 .. Len(t)
  BY <1>1, <1>2
<1>7. Among(s \o t, T) = Selected(s \o t, Q) /\ Among(s, T) = Selected(s, P)
      /\ Among(t, T) = Selected(t, R)
  BY DEF Among
<1> HIDE DEF P, R, Q
<1>8. /\ IsFiniteSet(P) /\ a \in Nat /\ P \subseteq Int
      /\ IsFiniteSet(R) /\ b \in Nat /\ R \subseteq Int
  BY <1>3, SelectedType
<1>9. \A i \in 1 .. a : Nth(P, i) \in P /\ Nth(P, i) \in 1 .. Len(s)
  BY <1>6, <1>8, NthIsPlace
<1>10. \A i \in 1 .. b : Nth(R, i) \in R /\ Nth(R, i) \in 1 .. Len(t)
  BY <1>6, <1>8, NthIsPlace
<1> HIDE DEF a, b
<1>11. ASSUME NEW i \in 1 .. a + b, ~(i <= a) PROVE i - a \in 1 .. b
  BY <1>8, <1>11
<1>12. f \in [1 .. a + b -> Q]
  <2> SUFFICES ASSUME NEW i \in 1 .. a + b PROVE f[i] \in Q
    OBVIOUS
  <2>1. CASE i <= a
    BY <1>4, <1>8, <1>9, <2>1
  <2>2. CASE ~(i <= a)
    BY <1>5, <1>8, <1>10, <1>11, <2>2
  <2> QED
    BY <2>1, <2>2
<1>13. ASSUME NEW i \in 1 .. a + b, NEW j \in 1 .. a + b, i < j PROVE f[i] < f[j]
  <2>1. CASE j <= a
    <3>1. i \in 1 .. a /\ j \in 1 .. a
      BY <1>8, <1>13, <2>1
    <3> QED
      BY <1>8, <1>13, <2>1, <3>1, NthGrows DEF a
  <2>2. CASE i <= a /\ ~(j <= a)
    <3>1. i \in 1 .. a /\ j - a \in 1 .. b
      BY <1>8, <1>11, <2>2
    <3>2. Nth(P, i) \in 1 .. Len(s) /\ Nth(R, j - a) \in 1 .. Len(t)
      BY <1>9, <1>10, <3>1
    <3>3. Nth(P, i) < Len(s) + Nth(R, j - a)
      BY <1>1, <3>2
    <3> QED
      BY <2>2, <3>3
  <2>3. CASE ~(i <= a)
    <3>1. /\ i - a \in 1 .. b /\ j - a \in 1 .. b /\ i - a < j - a /\ ~(j <= a)
      BY <1>8, <1>11, <1>13, <2>3
    <3>2. Nth(R, i - a) < Nth(R, j - a)
      BY <1>8, <3>1, NthGrows DEF b
    <3>3. Nth(R, i - a) \in Int /\ Nth(R, j - a) \in Int
      BY <1>10, <3>1
    <3>4. Len(s) + Nth(R, i - a) < Len(s) + Nth(R, j - a)
      BY <1>1, <3>2, <3>3
    <3> QED
      BY <2>3, <3>1, <3>4
  <2> QED
    BY <1>8, <1>13, <2>1, <2>2, <2>3
<1>14. ASSUME NEW q \in Q PROVE \E i \in 1 .. a + b : f[i] = q
  <2>1. CASE q <= Len(s)
    <3>1. q \in P
      BY <1>1, <1>4, <1>6, <2>1
    <3>2. Rank(P, q) \in 1 .. a /\ Nth(P, Rank(P, q)) = q
      BY <1>8, <3>1, RankType, NthOfRank DEF a
    <3>3. Rank(P, q) \in 1 .. a + b /\ Rank(P, q) <= a
      BY <1>8, <3>2
    <3> QED
      BY <3>2, <3>3
  <2>2. CASE ~(q <= Len(s))
    <3> DEFINE r == q - Len(s)
    <3>1. r \in 1 .. Len(t) /\ Len(s) + r = q
      BY <1>1, <1>6, <2>2
    <3>2. r \in R
      BY <1>5, <3>1
    <3> HIDE DEF r
    <3>3. Rank(R, r) \in 1 .. b /\ Nth(R, Rank(R, r)) = r
      BY <1>8, <3>2, RankType, NthOfRank DEF b
    <3>4. /\ a + Rank(R, r) \in 1 .. a + b /\ ~(a + Rank(R, r) <= a)
          /\ (a + Rank(R, r)) - a = Rank(R, r)
      BY <1>8, <3>3
    <3>5. f[a + Rank(R, r)] = q
      BY <3>1, <3>3, <3>4
    <3> QED
      BY <3>4, <3>5
  <2> QED
    BY <2>1, <2>2
<1>15. a + b \in Nat /\ Q \in SUBSET Int
  BY <1>1, <1>6, <1>8
<1> HIDE DEF f
<1>16. Cardinality(Q) = a + b /\ \A i \in 1 .. a + b : Nth(Q, i) = f[i]
  BY <1>12, <1>13, <1>14, <1>15, NthIsUnique
<1>17. Q \in SUBSET (DOMAIN (s \o t))
  BY <1>1, <1>2, <1>6
<1>18. /\ Selected(s, P) \in Seq(S) /\ Len(Selected(s, P)) = a
       /\ Selected(t, R) \in Seq(S) /\ Len(Selected(t, R)) = b
       /\ Selected(s \o t, Q) \in Seq(S) /\ Len(Selected(s \o t, Q)) = a + b
  BY <1>2, <1>3, <1>16, <1>17, SelectedType DEF a, b
<1> DEFINE u == Selected(s, P) \o Selected(t, R)
<1>19. /\ u \in Seq(S) /\ Len(u) = a + b
       /\ \A i \in 1 .. a + b : u[i] = IF i <= a THEN Selected(s, P)[i] ELSE Selected(t, R)[i - a]
  BY <1>18, ConcatProperties
<1>20. ASSUME NEW i \in 1 .. a + b PROVE Selected(s \o t, Q)[i] = u[i]
  <2>1. Selected(s \o t, Q)[i] = (s \o t)[f[i]]
    BY <1>16 DEF Selected
  <2>2. CASE i <= a
    <3>1. i \in 1 .. a
      BY <1>8, <2>2
    <3>2. Selected(s, P)[i] = s[Nth(P, i)]
      BY <3>1 DEF Selected, a
    <3>3. (s \o t)[Nth(P, i)] = s[Nth(P, i)] /\ f[i] = Nth(P, i)
      BY <1>2, <1>9, <2>2, <3>1 DEF f
    <3> QED
      BY <1>19, <2>1, <2>2, <3>2, <3>3
  <2>3. CASE ~(i <= a)
    <3>1. i - a \in 1 .. b
      BY <1>11, <2>3
    <3>2. Selected(t, R)[i - a] = t[Nth(R, i - a)]
      BY <3>1 DEF Selected, b
    <3>3. (s \o t)[Len(s) + Nth(R, i - a)] = t[Nth(R, i - a)]
      BY <1>2, <1>10, <3>1
    <3>4. f[i] = Len(s) + Nth(R, i - a)
      BY <2>3 DEF f
    <3> QED
      BY <1>19, <2>1, <2>3, <3>2, <3>3, <3>4
  <2> QED
    BY <2>2, <2>3
<1> HIDE DEF u
<1>21. Selected(s \o t, Q) = u
  BY <1>18, <1>19, <1>20, SeqEqual
<1> QED
  BY <1>7, <1>21 DEF u

LEMMA AmongAll ==
  ASSUME NEW S, NEW s \in Seq(S), NEW T, \A i \in DOMAIN s : s[i] \in T
  PROVE  Among(s, T) = s
<1> DEFINE f == [i \in 1 .. Len(s) |-> i]
           P == {i \in DOMAIN s : s[i] \in T}
<1>1. Len(s) \in Nat /\ DOMAIN s = 1 .. Len(s)
  BY LenProperties
<1>2. P = 1 .. Len(s)
  BY <1>1
<1>3. Among(s, T) = Selected(s, P)
  BY DEF Among
<1> HIDE DEF P
<1>4. /\ P \in SUBSET Int /\ f \in [1 .. Len(s) -> P]
      /\ \A i, j \in 1 .. Len(s) : i < j => f[i] < f[j]
      /\ \A p \in P : \E i \in 1 .. Len(s) : f[i] = p
  BY <1>1, <1>2
<1>5. Cardinality(P) = Len(s) /\ \A i \in 1 .. Len(s) : Nth(P, i) = f[i]
  <2> HIDE DEF f
  <2> QED
    BY <1>1, <1>4, NthIsUnique
<1>6. Selected(s, P) \in Seq(S) /\ Len(Selected(s, P)) = Len(s)
  BY <1>1, <1>2, <1>5, SelectedType
<1>7. \A i \in 1 .. Len(s) : Selected(s, P)[i] = s[i]
  BY <1>5 DEF Selected
<1> QED
  BY <1>3, <1>6, <1>7, SeqEqual

LEMMA AmongDistinct ==
  ASSUME NEW S, NEW s \in Seq(S), NEW T,
         \A i, j \in DOMAIN s : s[i] = s[j] => i = j
  PROVE  \A i, j \in DOMAIN Among(s, T) : Among(s, T)[i] = Among(s, T)[j] => i = j
<1> DEFINE P == {i \in DOMAIN s : s[i] \in T}
<1>1. P \in SUBSET (DOMAIN s)
  OBVIOUS
<1>2. Among(s, T) = Selected(s, P)
  BY DEF Among
<1> HIDE DEF P
<1>3. PICK f \in [1 .. Cardinality(P) -> P] :
         /\ \A n \in 1 .. Cardinality(P) : Selected(s, P)[n] = s[f[n]]
         /\ \A m, n \in 1 .. Cardinality(P) : m < n => f[m] < f[n]
  BY <1>1, SelectedPlaces
<1>4. DOMAIN Selected(s, P) = 1 .. Cardinality(P) /\ Cardinality(P) \in Nat /\ P \subseteq Int
  BY <1>1, SelectedType
<1> SUFFICES ASSUME NEW i \in 1 .. Cardinality(P), NEW j \in 1 .. Cardinality(P),
                    Selected(s, P)[i] = Selected(s, P)[j]
             PROVE  i = j
  BY <1>2, <1>4
<1>5. f[i] = f[j] /\ f[i] \in Int /\ f[j] \in Int
  BY <1>1, <1>3, <1>4
<1>6. i < j \/ i = j \/ j < i
  BY <1>4
<1> QED
  BY <1>3, <1>5, <1>6

-----------------------------------------------------------------------------
\* s is the sequence a with some other after it.
Extends(S, s, a) == \E rest \in Seq(S) : s = a \o rest

LEMMA CutInTwo ==
  ASSUME NEW S, NEW s \in Seq(S), NEW n \in 0 .. Len(s)
  PROVE  /\ SubSeq(s, 1, n) \in Seq(S) /\ Len(SubSeq(s, 1, n)) = n
         /\ \A i \in 1 .. n : SubSeq(s, 1, n)[i] = s[i]
         /\ Extends(S, s, SubSeq(s, 1, n))
<1>1. Len(s) \in Nat /\ \A i \in 1 .. Len(s) : s[i] \in S
  BY LenProperties
<1> DEFINE a == SubSeq(s, 1, n)
           b == SubSeq(s, n + 1, Len(s))
<1>2. a \in Seq(S) /\ Len(a) = n /\ \A i \in 1 .. n : a[i] = s[i]
  <2>1. \A i \in 1 .. n : s[i] \in S
    BY <1>1
  <2>2. /\ a \in Seq(S) /\ Len(a) = (IF 1 <= n THEN n - 1 + 1 ELSE 0)
        /\ \A i \in 1 .. n - 1 + 1 : a[i] = s[1 + i - 1]
    BY <1>1, <2>1, SubSeqProperties
  <2> HIDE DEF a
  <2>3. \A i \in 1 .. n : i \in 1 .. n - 1 + 1 /\ 1 + i - 1 = i
    BY <1>1
  <2>4. ASSUME NEW i \in 1 .. n PROVE a[i] = s[i]
    <3>1. a[i] = s[1 + i - 1]
      BY <2>2, <2>3
    <3> QED
      BY <2>3, <3>1
  <2>5. Len(a) = n
    BY <1>1, <2>2
  <2> QED
    BY <2>2, <2>4, <2>5
<1>3. b \in Seq(S)
  <2>1. \A i \in n + 1 .. Len(s) : s[i] \in S
    BY <1>1
  <2> QED
    BY <1>1, <2>1, SubSeqProperties
<1>4. a \o b = SubSeq(s, 1, Len(s))
  <2>1. 1 \in 1 .. Len(s) + 1 /\ n \in 1 - 1 .. Len(s) /\ Len(s) \in n .. Len(s)
    BY <1>1
  <2> QED
    BY <2>1, ConcatAdjacentSubSeq
<1>5. SubSeq(s, 1, Len(s)) = s
  BY SubSeqFull
<1> QED
  BY <1>2, <1>3, <1>4, <1>5 DEF Extends

\* Of two sequences that a third begins with, the longer begins with the shorter.
LEMMA BothBegin ==
  ASSUME NEW S, NEW a \in Seq(S), NEW b \in Seq(S), NEW c \in Seq(S), NEW d \in Seq(S),
         a \o b = c \o d, Len(a) <= Len(c)
  PROVE  Extends(S, c, a)
<1> DEFINE n == Len(a)
<1>1. n \in 0 .. Len(c) /\ Len(c) \in Nat /\ Len(b) \in Nat /\ Len(d) \in Nat
  BY LenProperties
<1>2. /\ SubSeq(c, 1, n) \in Seq(S) /\ Len(SubSeq(c, 1, n)) = n
      /\ \A i \in 1 .. n : SubSeq(c, 1, n)[i] = c[i]
      /\ Extends(S, c, SubSeq(c, 1, n))
  BY <1>1, CutInTwo
<1>3. \A i \in 1 .. n : (a \o b)[i] = a[i]
  <2>1. \A i \in 1 .. Len(a) + Len(b) : (a \o b)[i] = IF i <= Len(a) THEN a[i] ELSE b[i - Len(a)]
    BY ConcatProperties
  <2> QED
    BY <1>1, <2>1
<1>4. \A i \in 1 .. n : (c \o d)[i] = c[i]
  <2>1. \A i \in 1 .. Len(c) + Len(d) : (c \o d)[i] = IF i <= Len(c) THEN c[i] ELSE d[i - Len(c)]
    BY ConcatProperties
  <2> QED
    BY <1>1, <2>1
<1>5. \A i \in 1 .. n : SubSeq(c, 1, n)[i] = a[i]
  BY <1>2, <1>3, <1>4
<1>6. SubSeq(c, 1, n) = a
  BY <1>2, <1>5, SeqEqual
<1> QED
  BY <1>2, <1>6

=============================================================================
