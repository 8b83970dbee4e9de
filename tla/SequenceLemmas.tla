--------------------------- MODULE SequenceLemmas ---------------------------
(***************************************************************************)
(* Lemmas about data that the proofs of several components cite:           *)
(* induction over the naturals in the form of the least element of a set,  *)
(* what FlattenSeq returns for every sequence of sequences, the sequences  *)
(* that enumerate a set, and the sums of a function over finite sets.      *)
(***************************************************************************)
EXTENDS SequencesExt, FiniteSetTheorems, SequenceTheorems, WellFoundedInduction, TLAPS

----------------------------------------------------------------------------
(* Induction. *)

LEMMA LessWellFounded == IsWellFoundedOn({ss \in Nat \X Nat : ss[1] < ss[2]}, Nat)
BY NatLessThanWellFounded DEF OpToRel

\* A set of naturals that is not empty has a least element.
LEMMA LeastNat ==
    ASSUME NEW T \in SUBSET Nat, T # {}
    PROVE  \E m \in T : \A k \in T : m <= k
<1> DEFINE R == {ss \in Nat \X Nat : ss[1] < ss[2]}
<1>1. \A x, y \in Nat : <<y, x>> \in R <=> y < x
  OBVIOUS
<1>2. IsWellFoundedOn(R, Nat)
  BY LessWellFounded
<1> HIDE DEF R
<1>3. T \subseteq Nat
  OBVIOUS
<1>4. PICK m \in T : \A y \in T : ~(<<y, m>> \in R)
  BY <1>2, <1>3, WFMin
<1>5. ASSUME NEW k \in T PROVE m <= k
  <2>1. m \in Nat /\ k \in Nat /\ ~(k < m)
    BY <1>1, <1>3, <1>4
  <2> QED
    BY <2>1
<1> QED
  BY <1>5

\* Induction over the naturals up to a bound, for a set.
LEMMA UpTo ==
    ASSUME NEW n \in Nat, NEW T \in SUBSET Nat, 0 \in T,
           \A k \in 0..(n - 1) : k \in T => k + 1 \in T
    PROVE  0..n \subseteq T
<1> SUFFICES ASSUME (0..n) \ T # {} PROVE FALSE
  OBVIOUS
<1>0. (0..n) \ T \in SUBSET Nat
  OBVIOUS
<1>1. PICK m \in (0..n) \ T : \A k \in (0..n) \ T : m <= k
  BY <1>0, LeastNat
<1>2. m # 0 /\ m - 1 \in 0..(n - 1) /\ m - 1 \in T
  BY <1>1
<1> QED
  BY <1>1, <1>2
----------------------------------------------------------------------------
(* FlattenSeq. *)

\* The concatenations of the first 1, 2, .. sequences.
Joins(F, ss, n) ==
    \A i \in 1..n : F[i] = IF i = 1 THEN ss[1] ELSE F[i - 1] \o ss[i]

LEMMA JoinsExist ==
    ASSUME NEW S, NEW ss \in Seq(Seq(S))
    PROVE  \E F \in [1..Len(ss) -> Seq(S)] : Joins(F, ss, Len(ss))
<1> DEFINE T == {n \in Nat : n <= Len(ss) => \E F \in [1..n -> Seq(S)] : Joins(F, ss, n)}
<1>0. Len(ss) \in Nat /\ \A i \in 1..Len(ss) : ss[i] \in Seq(S)
  OBVIOUS
<1>1. 0 \in T
  <2>1. [i \in 1..0 |-> ss] \in [1..0 -> Seq(S)]
    OBVIOUS
  <2>2. Joins([i \in 1..0 |-> ss], ss, 0)
    BY DEF Joins
  <2> QED
    BY <2>1, <2>2
<1>2. ASSUME NEW k \in 0..(Len(ss) - 1), k \in T PROVE k + 1 \in T
  <2>1. PICK F \in [1..k -> Seq(S)] : Joins(F, ss, k)
    BY <1>0, <1>2
  <2> DEFINE next == IF k = 0 THEN ss[1] ELSE F[k] \o ss[k + 1]
             G == [i \in 1..(k + 1) |-> IF i = k + 1 THEN next ELSE F[i]]
  <2>2. next \in Seq(S)
    <3>1. CASE k = 0
      BY <1>0, <3>1
    <3>2. CASE k # 0
      <4>1. F[k] \in Seq(S) /\ ss[k + 1] \in Seq(S)
        BY <1>0, <3>2
      <4>2. F[k] \o ss[k + 1] \in Seq(S)
        BY <4>1, ConcatProperties
      <4> QED
        BY <3>2, <4>2
    <3> QED
      BY <3>1, <3>2
  <2>3. G \in [1..(k + 1) -> Seq(S)]
    BY <2>2
  <2>4. Joins(G, ss, k + 1)
    <3> SUFFICES ASSUME NEW i \in 1..(k + 1)
                 PROVE  G[i] = IF i = 1 THEN ss[1] ELSE G[i - 1] \o ss[i]
      BY DEF Joins
    <3>1. CASE i = k + 1
      BY <3>1
    <3>2. CASE i # k + 1
      <4>1. i \in 1..k /\ G[i] = F[i]
        BY <3>2
      <4>2. i # 1 => G[i - 1] = F[i - 1]
        BY <4>1
      <4>3. F[i] = IF i = 1 THEN ss[1] ELSE F[i - 1] \o ss[i]
        BY <2>1, <4>1 DEF Joins
      <4> HIDE DEF G
      <4> QED
        BY <4>1, <4>2, <4>3
    <3> QED
      BY <3>1, <3>2
  <2> HIDE DEF G
  <2>5. \E H \in [1..(k + 1) -> Seq(S)] : Joins(H, ss, k + 1)
    BY <2>3, <2>4
  <2> QED
    BY <2>5
<1>3. 0..Len(ss) \subseteq T
  <2> HIDE DEF T
  <2>1. T \in SUBSET Nat
    BY DEF T
  <2> QED
    BY <1>0, <1>1, <1>2, <2>1, UpTo
<1>4. Len(ss) \in T
  <2>1. Len(ss) \in 0..Len(ss)
    BY <1>0
  <2> HIDE DEF T
  <2> QED
    BY <1>3, <2>1
<1> QED
  BY <1>0, <1>4

\* FlattenSeq is the last of them.
LEMMA FlattenIsJoin ==
    ASSUME NEW S, NEW ss \in Seq(Seq(S)), ss # <<>>
    PROVE  \E F \in [1..Len(ss) -> Seq(S)] :
              Joins(F, ss, Len(ss)) /\ FlattenSeq(ss) = F[Len(ss)]
<1> DEFINE N == Len(ss)
           D(g) == [i \in 1..N |-> IF i = 1 THEN ss[i] ELSE g[i - 1] \o ss[i]]
           C == CHOOSE g : g = D(g)
<1>1. N \in Nat \ {0}
  BY EmptySeq
<1>2. PICK F \in [1..N -> Seq(S)] : Joins(F, ss, N)
  BY JoinsExist
<1>3. F = D(F)
  BY <1>2 DEF Joins
<1>4. C = D(C)
  BY <1>3
<1>5. FlattenSeq(ss) = C[N]
  BY <1>1 DEF FlattenSeq
<1> HIDE DEF C
<1>6. DOMAIN C = 1..N /\ \A i \in 1..N : C[i] = IF i = 1 THEN ss[i] ELSE C[i - 1] \o ss[i]
  BY <1>4
<1> DEFINE T == {n \in Nat : n \in 1..N => C[n] = F[n]}
<1>7. \A k \in 0..(N - 1) : k \in T => k + 1 \in T
  <2> SUFFICES ASSUME NEW k \in 0..(N - 1), k \in T PROVE k + 1 \in T
    OBVIOUS
  <2>1. PICK j \in 1..N : j = k + 1
    BY <1>1
  <2>2. k = 0 \/ k \in 1..N
    BY <1>1
  <2>3. C[j] = IF j = 1 THEN ss[j] ELSE C[j - 1] \o ss[j]
    BY <1>6
  <2>4. F[j] = IF j = 1 THEN ss[1] ELSE F[j - 1] \o ss[j]
    BY <1>2 DEF Joins
  <2>5. j - 1 = k /\ (j # 1 => C[j - 1] = F[j - 1])
    BY <2>1, <2>2
  <2>6. C[j] = F[j]
    BY <2>3, <2>4, <2>5
  <2> QED
    BY <2>1, <2>6
<1>8. 0..N \subseteq T
  <2>1. T \in SUBSET Nat /\ 0 \in T
    OBVIOUS
  <2> HIDE DEF T
  <2> QED
    BY <1>1, <1>7, <2>1, UpTo
<1>9. \A i \in 1..N : C[i] = F[i]
  BY <1>1, <1>8
<1>10. FlattenSeq(ss) = F[N]
  BY <1>1, <1>5, <1>9
<1> QED
  BY <1>2, <1>10

LEMMA FlattenEmpty == FlattenSeq(<<>>) = <<>>
BY DEF FlattenSeq

LEMMA FlattenType ==
    ASSUME NEW S, NEW ss \in Seq(Seq(S))
    PROVE  FlattenSeq(ss) \in Seq(S)
<1>1. CASE ss = <<>>
  <2>1. <<>> \in Seq(S)
    OBVIOUS
  <2> QED
    BY <1>1, <2>1, FlattenEmpty
<1>2. CASE ss # <<>>
  <2>1. Len(ss) \in 1..Len(ss)
    BY <1>2, EmptySeq
  <2>2. PICK F \in [1..Len(ss) -> Seq(S)] :
               Joins(F, ss, Len(ss)) /\ FlattenSeq(ss) = F[Len(ss)]
    BY <1>2, FlattenIsJoin
  <2> QED
    BY <2>1, <2>2
<1> QED
  BY <1>1, <1>2

\* The places where n pieces of a sequence end, and the pieces.
Cuts(s, n, cut) ==
    /\ cut \in [0..n -> 0..Len(s)] /\ cut[0] = 0 /\ cut[n] = Len(s)
    /\ \A k \in 1..n : cut[k - 1] <= cut[k]

Pieces(s, n, cut) == [k \in 1..n |-> SubSeq(s, cut[k - 1] + 1, cut[k])]

\* The pieces a sequence is cut into, put together again, are that sequence.
LEMMA FlattenPieces ==
    ASSUME NEW S, NEW s \in Seq(S), NEW n \in Nat \ {0}, NEW cut, Cuts(s, n, cut)
    PROVE  FlattenSeq(Pieces(s, n, cut)) = s
<1> USE DEF Cuts
<1> DEFINE ss == Pieces(s, n, cut)
<1>0. Len(s) \in Nat /\ \A k \in 0..n : cut[k] \in Nat /\ cut[k] <= Len(s)
  BY LenProperties
<1>1. ASSUME NEW k \in 1..n PROVE SubSeq(s, cut[k - 1] + 1, cut[k]) \in Seq(S)
  <2>1. k - 1 \in 0..n /\ k \in 0..n
    OBVIOUS
  <2>2. cut[k - 1] \in Nat /\ cut[k] \in Nat /\ cut[k] <= Len(s)
    BY <1>0, <2>1
  <2>3. \A i \in (cut[k - 1] + 1)..cut[k] : s[i] \in S
    <3>1. PICK a \in Nat : a = cut[k - 1]
      BY <2>2
    <3>2. PICK b \in Nat : b = cut[k] /\ b <= Len(s)
      BY <2>2
    <3>3. \A i \in (a + 1)..b : i \in 1..Len(s)
      BY <1>0, <3>2
    <3> QED
      BY <3>1, <3>2, <3>3
  <2>4. cut[k - 1] + 1 \in Int /\ cut[k] \in Int
    BY <2>2
  <2> QED
    BY <2>3, <2>4, SubSeqProperties
<1>2. ss \in [1..n -> Seq(S)]
  BY <1>1 DEF Pieces
<1>3. ss \in Seq(Seq(S)) /\ Len(ss) = n /\ ss # <<>>
  <2>1. ss \in Seq(Seq(S)) /\ Len(ss) = n
    <3>0. Seq(Seq(S)) = UNION {[1..m -> Seq(S)] : m \in Nat}
      BY SeqDef
    <3>1. ss \in Seq(Seq(S))
      BY <1>2, <3>0
    <3>2. DOMAIN ss = 1..n /\ DOMAIN ss = 1..Len(ss) /\ Len(ss) \in Nat
      BY <1>2, <3>1, LenProperties
    <3>3. Len(ss) = n
      BY <3>2
    <3> QED
      BY <3>1, <3>3
  <2> QED
    BY <2>1, EmptySeq
<1>4. PICK F \in [1..n -> Seq(S)] : Joins(F, ss, n) /\ FlattenSeq(ss) = F[n]
  BY <1>3, FlattenIsJoin
<1> DEFINE T == {k \in Nat : k \in 1..n => F[k] = SubSeq(s, 1, cut[k])}
<1>5. ASSUME NEW k \in 0..(n - 1), k \in T PROVE k + 1 \in T
  <2>1. PICK j \in 1..n : j = k + 1 /\ j - 1 = k
    OBVIOUS
  <2> SUFFICES F[j] = SubSeq(s, 1, cut[j])
    BY <2>1
  <2>2. ss[j] = SubSeq(s, cut[k] + 1, cut[j])
    BY <2>1 DEF Pieces
  <2>3. k \in 0..n /\ j \in 0..n /\ cut[k] <= cut[j]
    BY <2>1
  <2>4. F[j] = IF j = 1 THEN ss[1] ELSE F[j - 1] \o ss[j]
    BY <1>4, <2>1 DEF Joins
  <2>5. CASE k = 0
    <3>1. j = 1 /\ F[j] = ss[j]
      BY <2>1, <2>4, <2>5
    <3>2. cut[k] + 1 = 1
      BY <2>5
    <3> QED
      BY <2>2, <3>1, <3>2
  <2>6. CASE k # 0
    <3>0. k \in 1..n /\ j # 1
      BY <2>1, <2>6
    <3>4. F[k] = SubSeq(s, 1, cut[k])
      BY <1>5, <3>0
    <3>1. F[j] = SubSeq(s, 1, cut[k]) \o SubSeq(s, cut[k] + 1, cut[j])
      BY <2>1, <2>2, <2>4, <3>0, <3>4
    <3>2. 1 \in 1..(Len(s) + 1) /\ cut[k] \in (1 - 1)..Len(s) /\ cut[j] \in cut[k]..Len(s)
      BY <1>0, <2>3
    <3>3. SubSeq(s, 1, cut[k]) \o SubSeq(s, cut[k] + 1, cut[j]) = SubSeq(s, 1, cut[j])
      BY <3>2, ConcatAdjacentSubSeq
    <3> QED
      BY <3>1, <3>3
  <2> QED
    BY <2>5, <2>6
<1>6. 0..n \subseteq T
  <2>1. T \in SUBSET Nat /\ 0 \in T
    OBVIOUS
  <2> HIDE DEF T
  <2> QED
    BY <1>5, <2>1, UpTo
<1>7. F[n] = SubSeq(s, 1, Len(s))
  BY <1>6
<1> QED
  BY <1>4, <1>7, SubSeqFull

\* What FlattenSeq returns has the elements of all the sequences.
LEMMA FlattenRange ==
    ASSUME NEW S, NEW ss \in Seq(Seq(S))
    PROVE  Range(FlattenSeq(ss)) = UNION {Range(ss[i]) : i \in DOMAIN ss}
<1>0. \A i \in DOMAIN ss : ss[i] \in Seq(S)
  OBVIOUS
<1>1. CASE ss = <<>>
  BY <1>1, FlattenEmpty DEF Range
<1>2. CASE ss # <<>>
  <2> DEFINE N == Len(ss)
  <2>1. N \in Nat \ {0} /\ DOMAIN ss = 1..N
    BY <1>2, EmptySeq
  <2>2. PICK F \in [1..N -> Seq(S)] : Joins(F, ss, N) /\ FlattenSeq(ss) = F[N]
    BY <1>2, FlattenIsJoin
  <2> DEFINE T == {n \in Nat : n \in 1..N => Range(F[n]) = UNION {Range(ss[i]) : i \in 1..n}}
  <2>3. \A k \in 0..(N - 1) : k \in T => k + 1 \in T
    <3> SUFFICES ASSUME NEW k \in 0..(N - 1), k \in T PROVE k + 1 \in T
      OBVIOUS
    <3>1. PICK j \in 1..N : j = k + 1
      BY <2>1
    <3>2. F[j] = IF j = 1 THEN ss[1] ELSE F[j - 1] \o ss[j]
      BY <2>2 DEF Joins
    <3>3. CASE k = 0
      <4>1. F[1] = ss[1] /\ j = 1
        BY <3>1, <3>2, <3>3
      <4>2. UNION {Range(ss[i]) : i \in 1..1} = Range(ss[1])
        OBVIOUS
      <4> QED
        BY <3>1, <4>1, <4>2
    <3>4. CASE k # 0
      <4>0. k \in 1..N /\ j - 1 = k /\ j # 1
        BY <2>1, <3>1, <3>4
      <4>1. k \in 1..N /\ F[j] = F[k] \o ss[j] /\ F[k] \in Seq(S) /\ ss[j] \in Seq(S)
        BY <1>0, <2>1, <3>2, <4>0
      <4>2. Range(F[j]) = Range(F[k]) \cup Range(ss[j])
        BY <4>1, RangeConcatenation
      <4>3. Range(F[k]) = UNION {Range(ss[i]) : i \in 1..k}
        BY <4>1
      <4>4. 1..j = (1..k) \cup {j}
        BY <3>1
      <4>5. UNION {Range(ss[i]) : i \in 1..j}
            = (UNION {Range(ss[i]) : i \in 1..k}) \cup Range(ss[j])
        <5>1. \A A, B : A = B \cup {j} =>
                 UNION {Range(ss[i]) : i \in A}
                 = (UNION {Range(ss[i]) : i \in B}) \cup Range(ss[j])
          OBVIOUS
        <5> QED
          BY <4>4, <5>1
      <4>6. Range(F[j]) = UNION {Range(ss[i]) : i \in 1..j}
        <5> HIDE DEF N
        <5> QED
          BY <4>2, <4>3, <4>5
      <4>7. j \in T
        BY <2>1, <4>6
      <4> QED
        BY <3>1, <4>7
    <3> QED
      BY <3>3, <3>4
  <2>4. 0..N \subseteq T
    <3>1. T \in SUBSET Nat /\ 0 \in T
      OBVIOUS
    <3> HIDE DEF T
    <3> QED
      BY <2>1, <2>3, <3>1, UpTo
  <2>5. N \in 0..N /\ N \in 1..N
    BY <2>1
  <2>6. N \in T
    BY <2>4, <2>5
  <2>7. Range(F[N]) = UNION {Range(ss[i]) : i \in 1..N}
    BY <2>5, <2>6
  <2> QED
    BY <2>1, <2>2, <2>7
<1> QED
  BY <1>1, <1>2

\* Two sequences without repetition that share no element make one without repetition.
LEMMA ConcatInjective ==
    ASSUME NEW S, NEW s \in Seq(S), NEW t \in Seq(S), IsInjective(s), IsInjective(t),
           Range(s) \cap Range(t) = {}
    PROVE  IsInjective(s \o t)
<1> DEFINE u == s \o t
<1>1. Len(s) \in Nat /\ Len(t) \in Nat /\ DOMAIN s = 1..Len(s) /\ DOMAIN t = 1..Len(t)
  OBVIOUS
<1>2. u \in Seq(S) /\ Len(u) = Len(s) + Len(t)
      /\ \A i \in 1..(Len(s) + Len(t)) : u[i] = IF i <= Len(s) THEN s[i] ELSE t[i - Len(s)]
  BY ConcatProperties
<1>3. DOMAIN u = 1..(Len(s) + Len(t))
  BY <1>2
<1> HIDE DEF u
<1>4. ASSUME NEW a \in DOMAIN u, NEW b \in DOMAIN u, u[a] = u[b] PROVE a = b
  <2>0. a \in Nat /\ b \in Nat
    BY <1>1, <1>3
  <2>1. CASE a <= Len(s) /\ b <= Len(s)
    <3>1. a \in DOMAIN s /\ b \in DOMAIN s /\ s[a] = s[b]
      BY <1>1, <1>2, <1>3, <1>4, <2>1
    <3> QED
      BY <3>1 DEF IsInjective
  <2>2. CASE ~(a <= Len(s)) /\ ~(b <= Len(s))
    <3>1. a - Len(s) \in DOMAIN t /\ b - Len(s) \in DOMAIN t
          /\ t[a - Len(s)] = t[b - Len(s)]
      BY <1>1, <1>2, <1>3, <1>4, <2>2
    <3>2. a - Len(s) = b - Len(s)
      BY <3>1 DEF IsInjective
    <3> QED
      BY <1>1, <2>0, <3>2
  <2>3. ASSUME NEW c \in DOMAIN u, NEW d \in DOMAIN u, c <= Len(s), ~(d <= Len(s))
        PROVE  u[c] # u[d]
    <3>1. c \in DOMAIN s /\ d - Len(s) \in DOMAIN t /\ u[c] = s[c] /\ u[d] = t[d - Len(s)]
      BY <1>1, <1>2, <1>3, <2>3
    <3>2. u[c] \in Range(s) /\ u[d] \in Range(t)
      BY <3>1 DEF Range
    <3> QED
      BY <3>2
  <2> QED
    BY <1>4, <2>1, <2>2, <2>3
<1>5. IsInjective(u)
  BY <1>4 DEF IsInjective
<1> QED
  BY <1>5 DEF u

\* Sequences without repetition that share no element, flattened, repeat none.
LEMMA FlattenInjective ==
    ASSUME NEW S, NEW ss \in Seq(Seq(S)),
           \A i \in DOMAIN ss : IsInjective(ss[i]),
           \A i, j \in DOMAIN ss : i # j => Range(ss[i]) \cap Range(ss[j]) = {}
    PROVE  IsInjective(FlattenSeq(ss))
<1>0. \A i \in DOMAIN ss : ss[i] \in Seq(S)
  OBVIOUS
<1>1. CASE ss = <<>>
  BY <1>1, FlattenEmpty DEF IsInjective
<1>2. CASE ss # <<>>
  <2> DEFINE N == Len(ss)
  <2>1. N \in Nat \ {0} /\ DOMAIN ss = 1..N
    BY <1>2, EmptySeq
  <2>2. PICK F \in [1..N -> Seq(S)] : Joins(F, ss, N) /\ FlattenSeq(ss) = F[N]
    BY <1>2, FlattenIsJoin
  <2> DEFINE T == {n \in Nat : n \in 1..N =>
                     IsInjective(F[n]) /\ Range(F[n]) = UNION {Range(ss[i]) : i \in 1..n}}
  <2>3. \A k \in 0..(N - 1) : k \in T => k + 1 \in T
    <3> SUFFICES ASSUME NEW k \in 0..(N - 1), k \in T PROVE k + 1 \in T
      OBVIOUS
    <3>1. PICK j \in 1..N : j = k + 1
      BY <2>1
    <3>2. F[j] = IF j = 1 THEN ss[1] ELSE F[j - 1] \o ss[j]
      BY <2>2 DEF Joins
    <3>3. CASE k = 0
      <4>1. F[1] = ss[1] /\ j = 1
        BY <3>1, <3>2, <3>3
      <4>2. UNION {Range(ss[i]) : i \in 1..1} = Range(ss[1])
        OBVIOUS
      <4>3. IsInjective(F[1])
        BY <2>1, <3>1, <4>1
      <4> QED
        BY <3>1, <4>1, <4>2, <4>3
    <3>4. CASE k # 0
      <4>0. k \in 1..N /\ j - 1 = k /\ j # 1
        BY <2>1, <3>1, <3>4
      <4>1. k \in 1..N /\ F[j] = F[k] \o ss[j] /\ F[k] \in Seq(S) /\ ss[j] \in Seq(S)
        BY <1>0, <2>1, <3>2, <4>0
      <4>2. Range(F[j]) = Range(F[k]) \cup Range(ss[j])
        BY <4>1, RangeConcatenation
      <4>3. IsInjective(F[k]) /\ Range(F[k]) = UNION {Range(ss[i]) : i \in 1..k}
        BY <4>1
      <4>4. 1..j = (1..k) \cup {j}
        BY <3>1
      <4>5. UNION {Range(ss[i]) : i \in 1..j}
            = (UNION {Range(ss[i]) : i \in 1..k}) \cup Range(ss[j])
        <5>1. \A A, B : A = B \cup {j} =>
                 UNION {Range(ss[i]) : i \in A}
                 = (UNION {Range(ss[i]) : i \in B}) \cup Range(ss[j])
          OBVIOUS
        <5> QED
          BY <4>4, <5>1
      <4>6. \A i \in 1..k : Range(ss[i]) \cap Range(ss[j]) = {}
        <5> SUFFICES ASSUME NEW i \in 1..k PROVE Range(ss[i]) \cap Range(ss[j]) = {}
          OBVIOUS
        <5>1. i \in DOMAIN ss /\ j \in DOMAIN ss /\ i # j
          BY <2>1, <3>1
        <5> QED
          BY <5>1
      <4>7. IsInjective(F[j])
        <5>1. Range(F[k]) \cap Range(ss[j]) = {}
          BY <4>3, <4>6
        <5>2. IsInjective(ss[j])
          BY <2>1
        <5>3. IsInjective(F[k] \o ss[j])
          BY <4>1, <4>3, <5>1, <5>2, ConcatInjective
        <5> QED
          BY <4>1, <5>3
      <4>8. Range(F[j]) = UNION {Range(ss[i]) : i \in 1..j}
        BY <4>2, <4>3, <4>5
      <4>9. j \in T
        BY <2>1, <4>7, <4>8
      <4> QED
        BY <3>1, <4>9
    <3> QED
      BY <3>3, <3>4
  <2>4. 0..N \subseteq T
    <3>1. T \in SUBSET Nat /\ 0 \in T
      OBVIOUS
    <3> HIDE DEF T
    <3> QED
      BY <2>1, <2>3, <3>1, UpTo
  <2>5. N \in 0..N /\ N \in 1..N
    BY <2>1
  <2>6. N \in T
    BY <2>4, <2>5
  <2> QED
    BY <2>2, <2>5, <2>6
<1> QED
  BY <1>1, <1>2
----------------------------------------------------------------------------
(* Sequences without repetition. *)

LEMMA AppendDistinct ==
    ASSUME NEW S, NEW s \in Seq(S), IsInjective(s), NEW e \in S, e \notin Range(s)
    PROVE  IsInjective(Append(s, e)) /\ Range(Append(s, e)) = Range(s) \cup {e}
<1>1. /\ Len(s) \in Nat /\ DOMAIN s = 1..Len(s)
      /\ DOMAIN Append(s, e) = 1..(Len(s) + 1)
      /\ \A i \in 1..Len(s) : Append(s, e)[i] = s[i]
      /\ Append(s, e)[Len(s) + 1] = e
  BY AppendProperties
<1>2. Range(Append(s, e)) = Range(s) \cup {e}
  BY <1>1 DEF Range
<1>3. \A i \in 1..Len(s) : s[i] # e
  BY <1>1 DEF Range
<1>4. ASSUME NEW a \in 1..(Len(s) + 1), NEW b \in 1..(Len(s) + 1),
             Append(s, e)[a] = Append(s, e)[b]
      PROVE  a = b
  <2>1. CASE a \in 1..Len(s) /\ b \in 1..Len(s)
    BY <1>1, <1>4, <2>1 DEF IsInjective
  <2>2. CASE a = Len(s) + 1 \/ b = Len(s) + 1
    BY <1>1, <1>3, <1>4, <2>2
  <2> QED
    BY <1>1, <2>1, <2>2
<1> QED
  BY <1>1, <1>2, <1>4 DEF IsInjective

LEMMA TailDistinct ==
    ASSUME NEW S, NEW s \in Seq(S), s # <<>>, IsInjective(s)
    PROVE  /\ IsInjective(Tail(s)) /\ Range(Tail(s)) = Range(s) \ {Head(s)}
           /\ Head(s) \in Range(s)
<1>1. /\ Len(s) \in Nat \ {0} /\ DOMAIN s = 1..Len(s) /\ Head(s) = s[1]
      /\ Tail(s) \in Seq(S) /\ Len(Tail(s)) = Len(s) - 1
      /\ \A i \in 1..Len(Tail(s)) : Tail(s)[i] = s[i + 1]
  BY EmptySeq, HeadTailProperties
<1>2. DOMAIN Tail(s) = 1..(Len(s) - 1)
  BY <1>1
<1>3. \A i \in 1..(Len(s) - 1) : i + 1 \in 1..Len(s) /\ i + 1 # 1
  BY <1>1
<1>4. \A i \in 1..Len(s) : i # 1 => i - 1 \in 1..(Len(s) - 1) /\ Tail(s)[i - 1] = s[i]
  BY <1>1
<1>5. IsInjective(Tail(s))
  BY <1>1, <1>2, <1>3 DEF IsInjective
<1>6. Head(s) \in Range(s)
  BY <1>1 DEF Range
<1>7. ASSUME NEW i \in 1..(Len(s) - 1) PROVE Tail(s)[i] \in Range(s) \ {Head(s)}
  BY <1>1, <1>3 DEF IsInjective, Range
<1>8. ASSUME NEW i \in 1..Len(s), s[i] # Head(s) PROVE s[i] \in Range(Tail(s))
  <2>1. i # 1
    BY <1>1, <1>8
  <2> QED
    BY <1>2, <1>4, <2>1 DEF Range
<1>9. Range(Tail(s)) = Range(s) \ {Head(s)}
  BY <1>1, <1>2, <1>7, <1>8 DEF Range
<1> QED
  BY <1>5, <1>6, <1>9

LEMMA SubSeqDistinct ==
    ASSUME NEW S, NEW s \in Seq(S), IsInjective(s),
           NEW m \in Nat \ {0}, NEW n \in Nat, n <= Len(s)
    PROVE  /\ SubSeq(s, m, n) \in Seq(S)
           /\ Len(SubSeq(s, m, n)) = IF m <= n THEN n - m + 1 ELSE 0
           /\ \A i \in 1..(n - m + 1) : SubSeq(s, m, n)[i] = s[m + i - 1]
           /\ IsInjective(SubSeq(s, m, n))
           /\ Range(SubSeq(s, m, n)) = {s[i] : i \in m..n}
<1>1. Len(s) \in Nat /\ DOMAIN s = 1..Len(s) /\ m \in Int /\ n \in Int
      /\ \A i \in m..n : i \in 1..Len(s) /\ s[i] \in S
  OBVIOUS
<1>2. /\ SubSeq(s, m, n) \in Seq(S)
      /\ Len(SubSeq(s, m, n)) = IF m <= n THEN n - m + 1 ELSE 0
      /\ \A i \in 1..(n - m + 1) : SubSeq(s, m, n)[i] = s[m + i - 1]
  BY <1>1, SubSeqProperties
<1>3. DOMAIN SubSeq(s, m, n) = 1..(n - m + 1)
  BY <1>1, <1>2
<1>4. \A i \in 1..(n - m + 1) : m + i - 1 \in m..n
  BY <1>1
<1>5. IsInjective(SubSeq(s, m, n))
  BY <1>1, <1>2, <1>3, <1>4 DEF IsInjective
<1>6. \A i \in m..n : i - m + 1 \in 1..(n - m + 1) /\ SubSeq(s, m, n)[i - m + 1] = s[i]
  BY <1>1, <1>2
<1>7. Range(SubSeq(s, m, n)) = {s[i] : i \in m..n}
  <2>1. \A j \in 1..(n - m + 1) : SubSeq(s, m, n)[j] \in {s[i] : i \in m..n}
    BY <1>2, <1>4
  <2>2. \A i \in m..n : \E j \in 1..(n - m + 1) : SubSeq(s, m, n)[j] = s[i]
    BY <1>6
  <2> QED
    BY <1>3, <2>1, <2>2 DEF Range
<1> QED
  BY <1>2, <1>5, <1>7
----------------------------------------------------------------------------
(* The sequences that enumerate a set. *)

LEMMA FiniteRange ==
    ASSUME NEW f, IsFiniteSet(DOMAIN f), f = [x \in DOMAIN f |-> f[x]]
    PROVE  IsFiniteSet(Range(f))
<1>1. f \in Surjection(DOMAIN f, Range(f))
  BY DEF Surjection, Range
<1> QED
  BY <1>1, FS_Surjection

\* Every element of a finite set stands in one place.
LEMMA Enumerates ==
    ASSUME NEW S, IsFiniteSet(S), NEW f \in [1..Cardinality(S) -> S], IsInjective(f)
    PROVE  f \in Seq(S) /\ Len(f) = Cardinality(S) /\ Range(f) = S
<1> DEFINE N == Cardinality(S)
<1>1. N \in Nat /\ IsFiniteSet(1..N) /\ Cardinality(1..N) = N
  BY FS_CardinalityType, FS_Interval
<1>2. f \in Surjection(1..N, S)
  BY <1>1, FS_Injection DEF Injection, IsInjective
<1>3. f \in Seq(S) /\ Len(f) = N
  BY <1>1, SeqDef
<1> QED
  BY <1>2, <1>3 DEF Surjection, Range

\* SetToSeq
LEMMA SetAsSequence ==
    ASSUME NEW S, IsFiniteSet(S)
    PROVE  /\ SetToSeq(S) \in Seq(S) /\ Len(SetToSeq(S)) = Cardinality(S)
           /\ Range(SetToSeq(S)) = S /\ IsInjective(SetToSeq(S))
<1> DEFINE N == Cardinality(S)
<1>1. ExistsBijection(1..N, S)
  BY FS_CardinalityType
<1>2. PICK b : b \in Bijection(1..N, S)
  BY <1>1 DEF ExistsBijection
<1>3. b \in [1..N -> S] /\ IsInjective(b)
  BY <1>2 DEF Bijection, Injection, IsInjective
<1>4. SetToSeq(S) \in [1..N -> S] /\ IsInjective(SetToSeq(S))
  BY <1>3 DEF SetToSeq
<1> QED
  BY <1>4, Enumerates

\* SetToSeqs
LEMMA SetAsSequences ==
    ASSUME NEW S, IsFiniteSet(S), NEW f \in SetToSeqs(S)
    PROVE  f \in Seq(S) /\ Range(f) = S /\ IsInjective(f)
<1>1. f \in [1..Cardinality(S) -> S] /\ IsInjective(f)
  BY DEF SetToSeqs, IsInjective
<1> QED
  BY <1>1, Enumerates
----------------------------------------------------------------------------
(* FoldFunctionOnSet. *)

\* The sums of f over the sets of a set of sets that is closed under taking away.
Sums(g, f, sets) ==
    \A s \in sets :
        g[s] = IF s = {} THEN 0
               ELSE f[CHOOSE x \in s : TRUE] + g[s \ {CHOOSE x \in s : TRUE}]

LEMMA SumsExist ==
    ASSUME NEW S, IsFiniteSet(S), NEW f, \A x \in S : f[x] \in Nat
    PROVE  \E g \in [SUBSET S -> Nat] : Sums(g, f, SUBSET S)
<1> DEFINE Upto(k) == {s \in SUBSET S : Cardinality(s) <= k}
           T == {k \in Nat : \E g \in [Upto(k) -> Nat] : Sums(g, f, Upto(k))}
<1>0. \A s \in SUBSET S : IsFiniteSet(s) /\ Cardinality(s) \in Nat /\ Cardinality(s) <= Cardinality(S)
  BY FS_Subset, FS_CardinalityType
<1>1. ASSUME NEW s \in SUBSET S, s # {}
      PROVE  /\ (CHOOSE x \in s : TRUE) \in s
             /\ Cardinality(s \ {CHOOSE x \in s : TRUE}) = Cardinality(s) - 1
  <2>1. (CHOOSE x \in s : TRUE) \in s
    BY <1>1
  <2> QED
    BY <1>0, <2>1, FS_RemoveElement
<1>2. 0 \in T
  <2> DEFINE g == [s \in Upto(0) |-> 0]
  <2>1. g \in [Upto(0) -> Nat]
    OBVIOUS
  <2>2. \A s \in Upto(0) : s = {}
    BY <1>0, FS_EmptySet
  <2>3. Sums(g, f, Upto(0))
    BY <2>2 DEF Sums
  <2> QED
    BY <2>1, <2>3
<1>3. ASSUME NEW k \in Nat, k \in T PROVE k + 1 \in T
  <2>1. PICK g \in [Upto(k) -> Nat] : Sums(g, f, Upto(k))
    BY <1>3
  <2> DEFINE rest(s) == s \ {CHOOSE x \in s : TRUE}
             h == [s \in Upto(k + 1) |->
                     IF s = {} THEN 0 ELSE f[CHOOSE x \in s : TRUE] + g[rest(s)]]
  <2>2. ASSUME NEW s \in Upto(k + 1), s # {}
        PROVE  rest(s) \in Upto(k) /\ rest(s) \in Upto(k + 1) /\ f[CHOOSE x \in s : TRUE] \in Nat
    BY <1>0, <1>1, <2>2
  <2>3. h \in [Upto(k + 1) -> Nat]
    BY <2>1, <2>2
  <2>4. ASSUME NEW s \in Upto(k), s \in Upto(k + 1) PROVE h[s] = g[s]
    BY <2>1, <2>4 DEF Sums
  <2>5. Sums(h, f, Upto(k + 1))
    <3> SUFFICES ASSUME NEW s \in Upto(k + 1), s # {}
                 PROVE  h[s] = f[CHOOSE x \in s : TRUE] + h[rest(s)]
      BY <1>0 DEF Sums
    <3>1. h[s] = f[CHOOSE x \in s : TRUE] + g[rest(s)]
      OBVIOUS
    <3>2. h[rest(s)] = g[rest(s)]
      BY <2>2, <2>4
    <3> QED
      BY <3>1, <3>2
  <2> HIDE DEF h
  <2>6. \E e \in [Upto(k + 1) -> Nat] : Sums(e, f, Upto(k + 1))
    BY <2>3, <2>5
  <2> HIDE DEF Upto
  <2>7. k + 1 \in Nat
    OBVIOUS
  <2> QED
    BY <2>6, <2>7
<1>4. 0..Cardinality(S) \subseteq T
  <2>1. T \in SUBSET Nat /\ Cardinality(S) \in Nat
    BY <1>0
  <2> HIDE DEF T
  <2> QED
    BY <1>2, <1>3, <2>1, UpTo
<1>5. Cardinality(S) \in Nat /\ Cardinality(S) \in 0..Cardinality(S)
  BY <1>0
<1>6. \E g \in [Upto(Cardinality(S)) -> Nat] : Sums(g, f, Upto(Cardinality(S)))
  BY <1>4, <1>5
<1>7. Upto(Cardinality(S)) = SUBSET S
  BY <1>0
<1> QED
  BY <1>6, <1>7

\* A sum of naturals over a finite set is one.
LEMMA SumType ==
    ASSUME NEW S, IsFiniteSet(S), NEW f, \A x \in S : f[x] \in Nat
    PROVE  FoldFunctionOnSet(+, 0, f, S) \in Nat
<1> DEFINE D(g) == [s \in SUBSET S |->
                      IF s = {} THEN 0
                      ELSE f[CHOOSE x \in s : TRUE] + g[s \ {CHOOSE x \in s : TRUE}]]
           C == CHOOSE g : g = D(g)
<1>1. PICK g \in [SUBSET S -> Nat] : Sums(g, f, SUBSET S)
  BY SumsExist
<1>2. g = D(g)
  BY <1>1 DEF Sums
<1>3. C = D(C)
  BY <1>2
<1>4. FoldFunctionOnSet(+, 0, f, S) = C[S]
  BY DEF FoldFunctionOnSet, MapThenFoldSet
<1> HIDE DEF C
<1>5. \A s \in SUBSET S :
         C[s] = IF s = {} THEN 0
                ELSE f[CHOOSE x \in s : TRUE] + C[s \ {CHOOSE x \in s : TRUE}]
  BY <1>3
<1> DEFINE Wrong == {s \in SUBSET S : C[s] \notin Nat}
           T == {Cardinality(s) : s \in Wrong}
<1>6. SUFFICES ASSUME Wrong # {} PROVE FALSE
  BY <1>4
<1>7. \A s \in SUBSET S : IsFiniteSet(s) /\ Cardinality(s) \in Nat
  BY FS_Subset, FS_CardinalityType
<1>8. T \in SUBSET Nat /\ T # {}
  BY <1>6, <1>7
<1>9. PICK s \in Wrong : \A r \in Wrong : Cardinality(s) <= Cardinality(r)
  <2> HIDE DEF T, Wrong
  <2>1. PICK m \in T : \A k \in T : m <= k
    BY <1>8, LeastNat
  <2> QED
    BY <2>1 DEF T
<1>10. s # {}
  BY <1>5, <1>9
<1>11. PICK x : x = CHOOSE y \in s : TRUE
  OBVIOUS
<1>12. x \in s /\ x \in S
  BY <1>10, <1>11
<1>13. Cardinality(s \ {x}) = Cardinality(s) - 1
  BY <1>7, <1>12, FS_RemoveElement
<1>14. C[s] = f[x] + C[s \ {x}]
  BY <1>5, <1>10, <1>11
<1>15. C[s \ {x}] \in Nat
  BY <1>7, <1>9, <1>13
<1>16. C[s] \in Nat
  BY <1>12, <1>14, <1>15
<1> QED
  BY <1>9, <1>16
=============================================================================
