------------------------------ MODULE ListProofs ------------------------------
(* Facts about lists and recursive functions on the naturals that the      *)
(* proofs about several components use.                                    *)
EXTENDS Lists, SequenceTheorems, WellFoundedInduction, TLAPS

-----------------------------------------------------------------------------
(* Induction over the naturals, from their well-foundedness. *)

LEMMA LeastNatural ==
  ASSUME NEW T \in SUBSET Nat, T # {}
  PROVE  \E n \in T : \A m \in T : n <= m
<1>1. PICK n \in T : \A m \in T : <<m, n>> \notin OpToRel(<, Nat)
  BY WFMin, NatLessThanWellFounded
<1>2. \A m \in T : ~(m < n)
  BY <1>1, Zenon DEF OpToRel
<1>. QED
  BY <1>2

LEMMA Induction ==
  ASSUME NEW T, 0 \in T, \A n \in Nat : n \in T => n + 1 \in T
  PROVE  Nat \subseteq T
<1> SUFFICES ASSUME Nat \ T # {} PROVE FALSE
  OBVIOUS
<1>1. PICK n \in Nat \ T : \A m \in Nat \ T : n <= m
  BY LeastNatural
<1>2. n # 0 /\ n - 1 \in Nat
  BY <1>1
<1>3. n - 1 \in T
  BY <1>1, <1>2
<1>. QED
  BY <1>1, <1>2, <1>3

-----------------------------------------------------------------------------
(* The loop of the filtered lists. *)

(* What Sift has after n elements of s, given what it had after n - 1. *)
SiftStep(f, s, I, n) ==
  IF n = 0 THEN << >>
  ELSE IF n \in I THEN Append(f[n - 1], s[n]) ELSE f[n - 1]

IsSifting(f, s, I, N) == f = [n \in 0..N |-> SiftStep(f, s, I, n)]

LEMMA SiftingExists ==
  ASSUME NEW s, NEW I
  PROVE  \A N \in Nat : \E f : IsSifting(f, s, I, N)
<1> DEFINE T == {N \in Nat : \E f : IsSifting(f, s, I, N)}
<1>1. 0 \in T
  <2>1. IsSifting([n \in 0..0 |-> << >>], s, I, 0)
    BY DEF IsSifting, SiftStep
  <2>. QED
    BY <2>1
<1>2. ASSUME NEW N \in Nat, N \in T
      PROVE  N + 1 \in T
  <2>1. PICK f : IsSifting(f, s, I, N)
    BY <1>2
  <2> DEFINE g == [n \in 0..(N + 1) |-> IF n <= N THEN f[n] ELSE SiftStep(f, s, I, n)]
  <2>2. \A n \in 0..N : f[n] = SiftStep(f, s, I, n)
    BY <2>1 DEF IsSifting
  <2>3. \A n \in 0..(N + 1) : g[n] = SiftStep(g, s, I, n)
    <3> TAKE n \in 0..(N + 1)
    <3>1. g[n] = SiftStep(f, s, I, n)
      BY <2>2
    <3>2. CASE n = 0
      BY <3>1, <3>2 DEF SiftStep
    <3>3. CASE n # 0
      <4>1. n - 1 \in 0..N /\ g[n - 1] = f[n - 1]
        BY <3>3
      <4>. QED
        BY <3>1, <3>3, <4>1 DEF SiftStep
    <3>. QED
      BY <3>2, <3>3
  <2>4. g = [n \in 0..(N + 1) |-> g[n]]
    OBVIOUS
  <2> HIDE DEF g
  <2>5. IsSifting(g, s, I, N + 1)
    BY <2>3, <2>4 DEF IsSifting
  <2>. QED
    BY <2>5
<1>. QED
  BY <1>1, <1>2, Induction

(* Sift is the last of its steps. *)
LEMMA SiftUnfolds ==
  ASSUME NEW S, NEW s \in Seq(S), NEW I
  PROVE  \E f : IsSifting(f, s, I, Len(s)) /\ Sift(s, I) = f[Len(s)]
<1>0. Len(s) \in Nat
  BY LenProperties
<1> DEFINE f == CHOOSE f : f = [n \in 0..Len(s) |->
                   IF n = 0 THEN << >>
                   ELSE IF n \in I THEN Append(f[n - 1], s[n]) ELSE f[n - 1]]
<1>1. \E g : g = [n \in 0..Len(s) |->
                   IF n = 0 THEN << >>
                   ELSE IF n \in I THEN Append(g[n - 1], s[n]) ELSE g[n - 1]]
  <2>1. PICK g : IsSifting(g, s, I, Len(s))
    BY <1>0, SiftingExists
  <2>. QED
    BY <2>1 DEF IsSifting, SiftStep
<1>2. IsSifting(f, s, I, Len(s))
  BY <1>1 DEF IsSifting, SiftStep
<1>3. Sift(s, I) = f[Len(s)]
  BY DEF Sift
<1>. QED
  BY <1>2, <1>3

(* What is sifted are the elements at those places, in their order. *)
Places(at, t, s, I) ==
  /\ at \in [DOMAIN t -> I]
  /\ \A k \in DOMAIN t : t[k] = s[at[k]]
  /\ \A k, l \in DOMAIN t : k < l => at[k] < at[l]
  /\ \A i \in I : \E k \in DOMAIN t : at[k] = i

SiftedFrom(t, S, s, I) == t \in Seq(S) /\ \E at : Places(at, t, s, I)

LEMMA SiftFacts ==
  ASSUME NEW S, NEW s \in Seq(S), NEW I \in SUBSET (DOMAIN s)
  PROVE  /\ Sift(s, I) \in Seq(S)
         /\ \E at : Places(at, Sift(s, I), s, I)
<1>0. Len(s) \in Nat /\ DOMAIN s = 1..Len(s)
  BY LenProperties
<1>1. PICK f : IsSifting(f, s, I, Len(s)) /\ Sift(s, I) = f[Len(s)]
  BY SiftUnfolds
<1>2. \A n \in 0..Len(s) : f[n] = SiftStep(f, s, I, n)
  BY <1>1 DEF IsSifting
<1> DEFINE T == {n \in Nat : n <= Len(s) =>
                   SiftedFrom(f[n], S, s, I \cap (1..n))}
<1>3. 0 \in T
  <2>1. f[0] = << >>
    BY <1>0, <1>2 DEF SiftStep
  <2>2. Places(<< >>, << >>, s, I \cap (1..0))
    BY DEF Places
  <2>. QED
    BY <2>1, <2>2, EmptySeq DEF SiftedFrom
<1>4. ASSUME NEW n \in Nat, n \in T
      PROVE  n + 1 \in T
  <2> SUFFICES ASSUME n + 1 <= Len(s)
               PROVE  SiftedFrom(f[n + 1], S, s, I \cap (1..(n + 1)))
    OBVIOUS
  <2>0. n <= Len(s) /\ n + 1 \in 0..Len(s) /\ n + 1 # 0 /\ (n + 1) - 1 = n
    BY <1>0
  <2>1. PICK at : Places(at, f[n], s, I \cap (1..n))
    BY <1>4, <2>0 DEF SiftedFrom
  <2>2. f[n] \in Seq(S)
    BY <1>4, <2>0 DEF SiftedFrom
  <2>2a. f[n + 1] = IF n + 1 \in I THEN Append(f[n], s[n + 1]) ELSE f[n]
    BY <1>2, <2>0 DEF SiftStep
  <2>3. DOMAIN f[n] = 1..Len(f[n]) /\ Len(f[n]) \in Nat
    BY <2>2, LenProperties
  <2>4. CASE n + 1 \in I
    <3> DEFINE t == Append(f[n], s[n + 1])
               m == Len(f[n])
               bt == [k \in 1..(m + 1) |-> IF k <= m THEN at[k] ELSE n + 1]
    <3>1. f[n + 1] = t
      BY <2>2a, <2>4
    <3>2. /\ t \in Seq(S) /\ Len(t) = m + 1
          /\ \A k \in 1..m : t[k] = f[n][k]
          /\ t[m + 1] = s[n + 1]
      BY <1>0, <2>2, AppendProperties, ElementOfSeq
    <3>3. DOMAIN t = 1..(m + 1)
      BY <3>2, LenProperties
    <3> HIDE DEF t
    <3>4. \A k \in 1..m : at[k] \in I \cap (1..n) /\ f[n][k] = s[at[k]]
      BY <2>1, <2>3 DEF Places
    <3>5. \A k \in 1..m : bt[k] = at[k]
      BY <2>3
    <3>6. bt[m + 1] = n + 1
      BY <2>3
    <3>7. bt \in [DOMAIN t -> I \cap (1..(n + 1))]
      BY <2>3, <2>4, <3>3, <3>4
    <3>8. \A k \in DOMAIN t : t[k] = s[bt[k]]
      <4> TAKE k \in DOMAIN t
      <4>1. k \in 1..m \/ k = m + 1
        BY <2>3, <3>3
      <4>. QED
        BY <3>2, <3>4, <3>5, <3>6, <4>1
    <3>9. ASSUME NEW k \in DOMAIN t, NEW l \in DOMAIN t, k < l
          PROVE  bt[k] < bt[l]
      <4>1. k \in 1..m /\ (l \in 1..m \/ l = m + 1)
        BY <2>3, <3>3, <3>9
      <4>2. CASE l \in 1..m
        <5>1. at[k] < at[l]
          BY <2>1, <2>3, <3>9, <4>1, <4>2 DEF Places
        <5>. QED
          BY <3>5, <4>1, <4>2, <5>1
      <4>3. CASE l = m + 1
        BY <3>4, <3>5, <3>6, <4>1, <4>3
      <4>. QED
        BY <4>1, <4>2, <4>3
    <3>10. ASSUME NEW i \in I \cap (1..(n + 1))
           PROVE  \E k \in DOMAIN t : bt[k] = i
      <4>0. m + 1 \in DOMAIN t /\ \A k \in 1..m : k \in DOMAIN t
        BY <2>3, <3>3
      <4>1. CASE i = n + 1
        BY <3>6, <4>0, <4>1
      <4>2. CASE i # n + 1
        <5>1. i \in I \cap (1..n)
          BY <4>2
        <5>2. PICK k \in 1..m : at[k] = i
          BY <2>1, <2>3, <5>1 DEF Places
        <5>3. k \in DOMAIN t /\ bt[k] = i
          BY <3>5, <4>0, <5>2
        <5>. QED
          BY <5>3
      <4>. QED
        BY <4>1, <4>2
    <3> HIDE DEF bt
    <3>11. Places(bt, t, s, I \cap (1..(n + 1)))
      BY <3>7, <3>8, <3>9, <3>10 DEF Places
    <3>. QED
      BY <3>1, <3>2, <3>11 DEF SiftedFrom
  <2>5. CASE n + 1 \notin I
    <3>1. f[n + 1] = f[n]
      BY <2>2a, <2>5
    <3>2. I \cap (1..(n + 1)) = I \cap (1..n)
      BY <2>5
    <3>. QED
      BY <2>1, <2>2, <3>1, <3>2 DEF SiftedFrom
  <2>. QED
    BY <2>4, <2>5
<1>5. Len(s) \in T
  BY <1>0, <1>3, <1>4, Induction
<1>6. I \cap (1..Len(s)) = I
  BY <1>0
<1>7. SiftedFrom(f[Len(s)], S, s, I \cap (1..Len(s)))
  BY <1>0, <1>5
<1> HIDE DEF T
<1>. QED
  BY <1>1, <1>6, <1>7 DEF SiftedFrom

(* Taking out one element, or none when q is behind the last, moves those  *)
(* behind it up by one.                                                    *)
LEMMA SiftWithoutOne ==
  ASSUME NEW S, NEW s \in Seq(S), NEW q \in 1..(Len(s) + 1)
  PROVE  LET t == Sift(s, DOMAIN s \ {q})
         IN  /\ t \in Seq(S)
             /\ Len(t) = IF q = Len(s) + 1 THEN Len(s) ELSE Len(s) - 1
             /\ \A k \in 1..Len(t) : t[k] = IF k < q THEN s[k] ELSE s[k + 1]
<1> DEFINE I == DOMAIN s \ {q}
           Len1(n) == IF n < q THEN n ELSE n - 1
           Moved(t, n) == /\ t \in Seq(S) /\ Len(t) = Len1(n)
                          /\ \A k \in 1..Len1(n) : t[k] = IF k < q THEN s[k] ELSE s[k + 1]
<1>0. Len(s) \in Nat /\ DOMAIN s = 1..Len(s)
  BY LenProperties
<1>1. PICK f : IsSifting(f, s, I, Len(s)) /\ Sift(s, I) = f[Len(s)]
  BY SiftUnfolds
<1>2. \A n \in 0..Len(s) : f[n] = SiftStep(f, s, I, n)
  BY <1>1 DEF IsSifting
<1> DEFINE T == {n \in Nat : n <= Len(s) => Moved(f[n], n)}
<1>3. 0 \in T
  <2>1. f[0] = << >>
    BY <1>0, <1>2 DEF SiftStep
  <2>2. Len1(0) = 0 /\ << >> \in Seq(S) /\ Len(<< >>) = 0
    BY <1>0, EmptySeq
  <2> HIDE DEF Len1
  <2>3. \A k \in 1..Len1(0) : FALSE
    BY <2>2
  <2>. QED
    BY <2>1, <2>2, <2>3
<1>4. ASSUME NEW n \in Nat, n \in T
      PROVE  n + 1 \in T
  <2> SUFFICES ASSUME n + 1 <= Len(s)
               PROVE  Moved(f[n + 1], n + 1)
    OBVIOUS
  <2>1. n <= Len(s) /\ n + 1 \in 1..Len(s) /\ n + 1 # 0 /\ (n + 1) - 1 = n
    BY <1>0
  <2>2. Moved(f[n], n)
    BY <1>4, <2>1
  <2>3. f[n + 1] = IF n + 1 \in I THEN Append(f[n], s[n + 1]) ELSE f[n]
    BY <1>0, <1>2, <2>1 DEF SiftStep
  <2>4. CASE n + 1 = q
    <3>1. f[n + 1] = f[n] /\ Len1(n + 1) = Len1(n) /\ Len1(n) = n
      BY <2>3, <2>4
    <3>. QED
      BY <2>2, <3>1
  <2>5. CASE n + 1 # q
    <3>1. /\ n + 1 \in I /\ Len1(n + 1) = Len1(n) + 1 /\ Len1(n) \in Nat
          /\ n + 1 = IF Len1(n + 1) < q THEN Len1(n + 1) ELSE Len1(n + 1) + 1
      BY <1>0, <2>1, <2>5
    <3>2. PICK t : t = f[n]
      OBVIOUS
    <3>3. /\ t \in Seq(S) /\ Len(t) = Len1(n) /\ s[n + 1] \in S
          /\ \A k \in 1..Len1(n) : t[k] = IF k < q THEN s[k] ELSE s[k + 1]
      BY <1>0, <2>1, <2>2, <3>2, ElementOfSeq
    <3>4. PICK u \in Seq(S) :
            /\ u = Append(t, s[n + 1]) /\ Len(u) = Len(t) + 1
            /\ \A k \in 1..Len(t) : u[k] = t[k]
            /\ u[Len(t) + 1] = s[n + 1]
      <4> HIDE DEF Len1
      <4>1. t \in Seq(S) /\ s[n + 1] \in S
        BY <3>3
      <4>2. PICK e \in S : e = s[n + 1]
        BY <4>1
      <4>3. /\ Append(t, e) \in Seq(S) /\ Len(Append(t, e)) = Len(t) + 1
            /\ \A k \in 1..Len(t) : Append(t, e)[k] = t[k]
            /\ Append(t, e)[Len(t) + 1] = e
        BY <4>1, AppendProperties
      <4>. QED
        BY <4>2, <4>3
    <3>5. f[n + 1] = u
      BY <2>3, <3>1, <3>2, <3>4
    <3> HIDE DEF Len1
    <3>6. \A k \in 1..Len1(n + 1) :
            u[k] = IF k < q THEN s[k] ELSE s[k + 1]
      <4> TAKE k \in 1..Len1(n + 1)
      <4>1. CASE k = Len1(n + 1)
        BY <3>1, <3>3, <3>4, <4>1
      <4>2. CASE k # Len1(n + 1)
        BY <3>1, <3>3, <3>4, <4>2
      <4>. QED
        BY <4>1, <4>2
    <3>. QED
      BY <3>1, <3>3, <3>4, <3>5, <3>6
  <2>. QED
    BY <2>4, <2>5
<1>5. Len(s) \in T
  BY <1>0, <1>3, <1>4, Induction
<1>6. Moved(f[Len(s)], Len(s))
  BY <1>0, <1>5
<1>7. Len1(Len(s)) = IF q = Len(s) + 1 THEN Len(s) ELSE Len(s) - 1
  BY <1>0
<1>. QED
  BY <1>1, <1>6, <1>7

(* Nothing is taken out of a list that has nothing to take out.            *)
LEMMA SiftAll ==
  ASSUME NEW S, NEW s \in Seq(S)
  PROVE  Sift(s, DOMAIN s) = s
<1>1. Len(s) \in Nat /\ DOMAIN s = 1..Len(s)
  BY LenProperties
<1>2. PICK q \in 1..(Len(s) + 1) : q = Len(s) + 1
  BY <1>1
<1>3. DOMAIN s \ {q} = DOMAIN s
  BY <1>1, <1>2
<1>4. PICK t : t = Sift(s, DOMAIN s \ {q})
  OBVIOUS
<1>5. /\ t \in Seq(S) /\ Len(t) = IF q = Len(s) + 1 THEN Len(s) ELSE Len(s) - 1
      /\ \A k \in 1..Len(t) : t[k] = IF k < q THEN s[k] ELSE s[k + 1]
  BY <1>4, SiftWithoutOne
<1>6. Len(t) = Len(s) /\ \A k \in 1..Len(s) : t[k] = s[k]
  BY <1>1, <1>2, <1>5
<1>7. t = s
  BY <1>5, <1>6, SeqEqual
<1>. QED
  BY <1>3, <1>4, <1>7

-----------------------------------------------------------------------------
(* The values of a loop. *)

(* f is what a loop has after each of N rounds, when it begins with a and  *)
(* round n turns x into G[n, x].                                           *)
IsLoop(f, A, a, N, G) ==
  f \in [0..N -> A] /\ f[0] = a /\ \A n \in 1..N : f[n] = G[<<n, f[n - 1]>>]

LEMMA Recursion ==
  ASSUME NEW A, NEW a \in A, NEW N \in Nat, NEW G \in [(1..N) \X A -> A]
  PROVE  \E f : IsLoop(f, A, a, N, G)
<1> DEFINE Upto(m, f) == /\ f \in [0..m -> A] /\ f[0] = a
                         /\ \A n \in 1..m : f[n] = G[<<n, f[n - 1]>>]
           T == {m \in Nat : m <= N => \E f : Upto(m, f)}
<1>1. 0 \in T
  <2>1. Upto(0, [n \in 0..0 |-> a])
    OBVIOUS
  <2>. QED
    BY <2>1
<1>2. ASSUME NEW m \in Nat, m \in T
      PROVE  m + 1 \in T
  <2> SUFFICES ASSUME m + 1 <= N
               PROVE  \E f : Upto(m + 1, f)
    OBVIOUS
  <2>1. PICK f : Upto(m, f)
    BY <1>2
  <2> DEFINE g == [n \in 0..(m + 1) |-> IF n <= m THEN f[n] ELSE G[<<m + 1, f[m]>>]]
  <2>2. f[m] \in A /\ m + 1 \in 1..N
    BY <2>1
  <2>3. G[<<m + 1, f[m]>>] \in A
    BY <2>2
  <2>4. g \in [0..(m + 1) -> A] /\ g[0] = a
    BY <2>1, <2>3
  <2>5. ASSUME NEW n \in 1..(m + 1) PROVE g[n] = G[<<n, g[n - 1]>>]
    <3>1. g[n - 1] = f[n - 1]
      OBVIOUS
    <3>2. CASE n <= m
      <4>1. n \in 1..m /\ g[n] = f[n]
        BY <3>2
      <4>. QED
        BY <2>1, <3>1, <4>1
    <3>3. CASE n = m + 1
      <4>1. g[n] = G[<<m + 1, f[m]>>] /\ n - 1 = m
        BY <3>3
      <4>. QED
        BY <3>1, <3>3, <4>1
    <3>. QED
      BY <3>2, <3>3
  <2> HIDE DEF g
  <2>. QED
    BY <2>4, <2>5
<1>3. N \in T
  <2> HIDE DEF T
  <2>. QED
    BY <1>1, <1>2, Induction
<1>. QED
  BY <1>3 DEF IsLoop

=============================================================================
