------------------------------ MODULE FoldFacts ------------------------------
(***************************************************************************)
(* Induction without operator parameters, and what it shows about sums over *)
(* finite sets (SumFunctionOnSet of the community modules).  The induction  *)
(* theorems of the library take the property as an operator; here it is a   *)
(* set, so that a proof can name the set of numbers, or of subsets, for      *)
(* which its claim holds.                                                   *)
(***************************************************************************)
EXTENDS Integers, FiniteSets, Functions, FiniteSetTheorems,
        WellFoundedInduction, TLAPS

Below == {ss \in Nat \X Nat : ss[1] < ss[2]}

\* Every set of numbers that is not empty has a least element.
LEMMA NatLeast ==
  ASSUME NEW T \in SUBSET Nat, T # {}
  PROVE  \E m \in T : \A n \in T : m <= n
<1>1. IsWellFoundedOn(Below, Nat)
  BY NatLessThanWellFounded, Zenon DEF OpToRel, Below
<1>2. PICK m \in T : \A n \in T : ~(<<n, m>> \in Below)
  BY <1>1, WFMin
<1>3. \A n \in T : m <= n
  <2> SUFFICES ASSUME NEW n \in T PROVE m <= n
    OBVIOUS
  <2>1. n \in Nat /\ m \in Nat
    OBVIOUS
  <2>2. ~(n < m)
    BY <1>2, <2>1 DEF Below
  <2> QED
    BY <2>1, <2>2
<1> QED
  BY <1>3

\* Induction: a set with 0 and every successor has every number.
LEMMA NatInd ==
  ASSUME NEW S, 0 \in S, \A n \in Nat : n \in S => n + 1 \in S
  PROVE  \A n \in Nat : n \in S
<1> SUFFICES ASSUME NEW k \in Nat, k \notin S PROVE FALSE
  OBVIOUS
<1> DEFINE T == {n \in Nat : n \notin S}
<1>1. T \in SUBSET Nat /\ T # {}
  OBVIOUS
<1>2. PICK m \in T : \A n \in T : m <= n
  BY <1>1, NatLeast
<1>3. m \in Nat /\ m # 0
  OBVIOUS
<1>4. m - 1 \in Nat /\ ~(m <= m - 1) /\ m - 1 + 1 = m
  BY <1>3
<1>5. m - 1 \in S
  BY <1>2, <1>4
<1> QED
  BY <1>4, <1>5

\* Induction over the subsets of a finite set, one element added at a time.
LEMMA FiniteInd ==
  ASSUME NEW U, IsFiniteSet(U), NEW P, {} \in P,
         \A T \in SUBSET U : \A x \in U \ T : T \in P => T \cup {x} \in P
  PROVE  \A T \in SUBSET U : T \in P
<1> DEFINE S == {n \in Nat : \A T \in SUBSET U : Cardinality(T) = n => T \in P}
<1>1. \A T \in SUBSET U : IsFiniteSet(T) /\ Cardinality(T) \in Nat
  BY FS_Subset, FS_CardinalityType
<1>2. 0 \in S
  <2> SUFFICES ASSUME NEW T \in SUBSET U, Cardinality(T) = 0 PROVE T \in P
    OBVIOUS
  <2> QED
    BY <1>1, FS_EmptySet
<1>3. ASSUME NEW n \in Nat, n \in S PROVE n + 1 \in S
  <2> SUFFICES ASSUME NEW T \in SUBSET U, Cardinality(T) = n + 1 PROVE T \in P
    OBVIOUS
  <2>1. T # {}
    BY FS_EmptySet
  <2>2. PICK x \in T : TRUE
    BY <2>1
  <2>3. Cardinality(T \ {x}) = n
    <3>1. Cardinality(T \ {x}) = Cardinality(T) - 1
      BY <1>1, <2>2, FS_RemoveElement
    <3> QED
      BY <3>1
  <2>4. T \ {x} \in SUBSET U /\ x \in U \ (T \ {x}) /\ (T \ {x}) \cup {x} = T
    BY <2>2
  <2>5. T \ {x} \in P
    BY <1>3, <2>3, <2>4
  <2> QED
    BY <2>4, <2>5
<1> HIDE DEF S
<1>4. \A n \in Nat : n \in S
  BY <1>2, <1>3, NatInd
<1> QED
  BY <1>1, <1>4 DEF S

-----------------------------------------------------------------------------
(***************************************************************************)
(* The recursive function behind a sum                                     *)
(***************************************************************************)
Pick(s) == CHOOSE y \in s : TRUE

Sums(f, S, it) ==
  it = [s \in SUBSET S |-> IF s = {} THEN 0 ELSE f[Pick(s)] + it[s \ {Pick(s)}]]

\* The part of it for sets of at most n elements.
SumsUpTo(f, S, it, n) ==
  it = [s \in {t \in SUBSET S : Cardinality(t) <= n} |->
          IF s = {} THEN 0 ELSE f[Pick(s)] + it[s \ {Pick(s)}]]

LEMMA PickIn ==
  ASSUME NEW s, s # {} PROVE Pick(s) \in s
  BY DEF Pick

LEMMA SumIsSums ==
  ASSUME NEW f, NEW S
  PROVE  SumFunctionOnSet(f, S) = (CHOOSE it : Sums(f, S, it))[S]
  BY DEF SumFunctionOnSet, FoldFunctionOnSet, MapThenFoldSet, Sums, Pick

LEMMA SumsExist ==
  ASSUME NEW f, NEW S, IsFiniteSet(S)
  PROVE  \E it : Sums(f, S, it)
<1> DEFINE N == {n \in Nat : \E it : SumsUpTo(f, S, it, n)}
<1>0. \A t \in SUBSET S : IsFiniteSet(t) /\ Cardinality(t) \in Nat
  BY FS_Subset, FS_CardinalityType
<1>1. 0 \in N
  <2> DEFINE it == [s \in {t \in SUBSET S : Cardinality(t) <= 0} |-> 0]
  <2>1. \A t \in SUBSET S : Cardinality(t) <= 0 => t = {}
    BY <1>0, FS_EmptySet
  <2>2. SumsUpTo(f, S, it, 0)
    BY <2>1 DEF SumsUpTo
  <2> QED
    BY <2>2
<1>2. ASSUME NEW n \in Nat, n \in N PROVE n + 1 \in N
  <2>1. PICK g : SumsUpTo(f, S, g, n)
    BY <1>2
  <2> DEFINE h == [s \in {t \in SUBSET S : Cardinality(t) <= n + 1} |->
                     IF s = {} THEN 0 ELSE f[Pick(s)] + g[s \ {Pick(s)}]]
  <2>2. ASSUME NEW s \in SUBSET S, Cardinality(s) <= n + 1, s # {}
        PROVE  h[s \ {Pick(s)}] = g[s \ {Pick(s)}]
    <3>1. PICK r : r = s \ {Pick(s)}
      OBVIOUS
    <3>2. Pick(s) \in s /\ r \in SUBSET S
      BY <2>2, <3>1, PickIn
    <3>3. Cardinality(r) = Cardinality(s) - 1
      BY <1>0, <3>1, <3>2, FS_RemoveElement
    <3>4. Cardinality(r) <= n /\ Cardinality(r) <= n + 1
      BY <1>0, <2>2, <3>3
    <3>5. g[r] = IF r = {} THEN 0 ELSE f[Pick(r)] + g[r \ {Pick(r)}]
      BY <2>1, <3>2, <3>4 DEF SumsUpTo
    <3>6. h[r] = IF r = {} THEN 0 ELSE f[Pick(r)] + g[r \ {Pick(r)}]
      BY <3>2, <3>4
    <3> QED
      BY <3>1, <3>5, <3>6
  <2>3. SumsUpTo(f, S, h, n + 1)
    <3> DEFINE k == [s \in {t \in SUBSET S : Cardinality(t) <= n + 1} |->
                     IF s = {} THEN 0 ELSE f[Pick(s)] + h[s \ {Pick(s)}]]
    <3>1. ASSUME NEW s \in {t \in SUBSET S : Cardinality(t) <= n + 1}
          PROVE  h[s] = k[s]
      <4>1. CASE s = {}
        BY <4>1
      <4>2. CASE s # {}
        <5>1. h[s \ {Pick(s)}] = g[s \ {Pick(s)}]
          BY <2>2, <4>2
        <5>2. h[s] = f[Pick(s)] + g[s \ {Pick(s)}]
          BY <4>2
        <5> HIDE DEF h
        <5>3. k[s] = f[Pick(s)] + h[s \ {Pick(s)}]
          BY <4>2
        <5> QED
          BY <5>1, <5>2, <5>3
      <4> QED
        BY <4>1, <4>2
    <3>2. h = k
      BY <3>1
    <3> HIDE DEF h
    <3> QED
      BY <3>2 DEF SumsUpTo
  <2> HIDE DEF h
  <2> QED
    BY <2>3
<1> HIDE DEF N
<1>3. Cardinality(S) \in N
  BY <1>0, <1>1, <1>2, NatInd
<1>4. PICK it : SumsUpTo(f, S, it, Cardinality(S))
  BY <1>3 DEF N
<1>5. {t \in SUBSET S : Cardinality(t) <= Cardinality(S)} = SUBSET S
  BY FS_Subset
<1> QED
  BY <1>4, <1>5 DEF SumsUpTo, Sums

\* What the function says of a set does not depend on the set it is defined
\* over.
LEMMA SumsAgree ==
  ASSUME NEW f, NEW S, IsFiniteSet(S), NEW R \in SUBSET S,
         NEW i, Sums(f, S, i), NEW k, Sums(f, R, k)
  PROVE  \A t \in SUBSET R : i[t] = k[t]
<1> DEFINE N == {n \in Nat : \A t \in SUBSET R : Cardinality(t) = n => i[t] = k[t]}
<1>0. \A t \in SUBSET S : IsFiniteSet(t) /\ Cardinality(t) \in Nat
  BY FS_Subset, FS_CardinalityType
<1>1. 0 \in N
  <2> SUFFICES ASSUME NEW t \in SUBSET R, Cardinality(t) = 0 PROVE i[t] = k[t]
    OBVIOUS
  <2>1. t = {}
    BY <1>0, FS_EmptySet
  <2> QED
    BY <2>1 DEF Sums
<1>2. ASSUME NEW n \in Nat, n \in N PROVE n + 1 \in N
  <2> SUFFICES ASSUME NEW t \in SUBSET R, Cardinality(t) = n + 1 PROVE i[t] = k[t]
    OBVIOUS
  <2>1. t # {} /\ Pick(t) \in t
    BY FS_EmptySet, PickIn
  <2>2. PICK r : r = t \ {Pick(t)}
    OBVIOUS
  <2>3. r \in SUBSET R /\ Cardinality(r) = n
    <3>1. IsFiniteSet(t) /\ r \in SUBSET R
      BY <1>0, <2>2
    <3>2. Pick(t) \in t /\ IsFiniteSet(t)
      BY <2>1, <3>1
    <3>3. Cardinality(r) = Cardinality(t) - 1
      BY <2>2, <3>2, FS_RemoveElement
    <3> QED
      BY <3>1, <3>3
  <2>4. i[r] = k[r]
    BY <1>2, <2>3
  <2>5. i[t] = f[Pick(t)] + i[r]
    BY <2>1, <2>2 DEF Sums
  <2>6. k[t] = f[Pick(t)] + k[r]
    BY <2>1, <2>2 DEF Sums
  <2> QED
    BY <2>4, <2>5, <2>6
<1> HIDE DEF N
<1>3. \A n \in Nat : n \in N
  BY <1>1, <1>2, NatInd
<1> QED
  BY <1>0, <1>3 DEF N

-----------------------------------------------------------------------------
(***************************************************************************)
(* Sums                                                                    *)
(***************************************************************************)
LEMMA SumEmpty ==
  ASSUME NEW f PROVE SumFunctionOnSet(f, {}) = 0
<1>1. \E it : Sums(f, {}, it)
  BY SumsExist, FS_EmptySet
<1>2. PICK it : it = (CHOOSE i : Sums(f, {}, i))
  OBVIOUS
<1>3. Sums(f, {}, it)
  BY <1>1, <1>2
<1>4. it[{}] = 0
  BY <1>3 DEF Sums
<1> QED
  BY <1>2, <1>4, SumIsSums

\* The recursive equation.
LEMMA SumPicked ==
  ASSUME NEW f, NEW S, IsFiniteSet(S), S # {}
  PROVE  SumFunctionOnSet(f, S) = f[Pick(S)] + SumFunctionOnSet(f, S \ {Pick(S)})
<1>1. PICK R : R = S \ {Pick(S)}
  OBVIOUS
<1>2. R \in SUBSET S /\ IsFiniteSet(R)
  BY <1>1, FS_Subset
<1>3. PICK i : i = (CHOOSE it : Sums(f, S, it))
  OBVIOUS
<1>4. PICK k : k = (CHOOSE it : Sums(f, R, it))
  OBVIOUS
<1>5. Sums(f, S, i) /\ Sums(f, R, k)
  BY <1>2, <1>3, <1>4, SumsExist
<1>6. i[R] = k[R]
  BY <1>2, <1>5, SumsAgree
<1>7. i[S] = f[Pick(S)] + i[R]
  BY <1>1, <1>5 DEF Sums
<1>8. SumFunctionOnSet(f, S) = i[S] /\ SumFunctionOnSet(f, R) = k[R]
  BY <1>3, <1>4, SumIsSums
<1> QED
  BY <1>1, <1>6, <1>7, <1>8

LEMMA SumInt ==
  ASSUME NEW S, IsFiniteSet(S), NEW f, \A s \in S : f[s] \in Int
  PROVE  SumFunctionOnSet(f, S) \in Int
<1> DEFINE N == {n \in Nat : \A t \in SUBSET S : Cardinality(t) = n => SumFunctionOnSet(f, t) \in Int}
<1>0. \A t \in SUBSET S : IsFiniteSet(t) /\ Cardinality(t) \in Nat
  BY FS_Subset, FS_CardinalityType
<1>1. 0 \in N
  BY <1>0, FS_EmptySet, SumEmpty
<1>2. ASSUME NEW n \in Nat, n \in N PROVE n + 1 \in N
  <2> SUFFICES ASSUME NEW t \in SUBSET S, Cardinality(t) = n + 1
               PROVE  SumFunctionOnSet(f, t) \in Int
    OBVIOUS
  <2>1. t # {} /\ Pick(t) \in t
    BY FS_EmptySet, PickIn
  <2>2. PICK r : r = t \ {Pick(t)}
    OBVIOUS
  <2>3. r \in SUBSET S /\ Cardinality(r) = n
    BY <1>0, <2>1, <2>2, FS_RemoveElement
  <2>4. SumFunctionOnSet(f, r) \in Int
    BY <1>2, <2>3
  <2>5. SumFunctionOnSet(f, t) = f[Pick(t)] + SumFunctionOnSet(f, r)
    BY <1>0, <2>1, <2>2, SumPicked
  <2> QED
    BY <2>1, <2>4, <2>5
<1> HIDE DEF N
<1>3. \A n \in Nat : n \in N
  BY <1>1, <1>2, NatInd
<1> QED
  BY <1>0, <1>3 DEF N

\* Any element may come first.
LEMMA SumAdd ==
  ASSUME NEW S, IsFiniteSet(S), NEW x, x \notin S, NEW f,
         \A s \in S \cup {x} : f[s] \in Int
  PROVE  SumFunctionOnSet(f, S \cup {x}) = f[x] + SumFunctionOnSet(f, S)
<1> DEFINE Claim(t, y) == SumFunctionOnSet(f, t \cup {y}) = f[y] + SumFunctionOnSet(f, t)
           U == S \cup {x}
           N == {n \in Nat : \A t \in SUBSET U : \A y \in U \ t :
                               Cardinality(t) = n => Claim(t, y)}
<1>0. IsFiniteSet(U) /\ \A t \in SUBSET U : /\ IsFiniteSet(t) /\ Cardinality(t) \in Nat
                                            /\ SumFunctionOnSet(f, t) \in Int
  <2>1. IsFiniteSet(U)
    BY FS_AddElement
  <2> QED
    BY <2>1, FS_Subset, FS_CardinalityType, SumInt
<1>1. ASSUME NEW t \in SUBSET U, NEW y \in U \ t,
             t # {} => \A r \in SUBSET U : \A z \in U \ r :
                         Cardinality(r) = Cardinality(t) - 1 => Claim(r, z)
      PROVE  Claim(t, y)
  <2>1. PICK T : T = t \cup {y}
    OBVIOUS
  <2>2. PICK z : z = Pick(T)
    OBVIOUS
  <2>3. T \in SUBSET U /\ T # {} /\ z \in T /\ IsFiniteSet(T)
    BY <1>0, <2>1, <2>2, PickIn
  <2>4. SumFunctionOnSet(f, T) = f[z] + SumFunctionOnSet(f, T \ {z})
    BY <2>2, <2>3, SumPicked
  <2>5. CASE z = y
    <3>1. T \ {z} = t
      BY <2>1, <2>5
    <3> QED
      BY <2>1, <2>4, <2>5, <3>1
  <2>6. CASE z # y
    <3>1. PICK r : r = t \ {z}
      OBVIOUS
    <3>2. z \in t /\ t # {} /\ r \in SUBSET U /\ y \in U \ r /\ z \in U \ r
      BY <2>1, <2>3, <2>6, <3>1
    <3>3. Cardinality(r) = Cardinality(t) - 1
      BY <1>0, <3>1, <3>2, FS_RemoveElement
    <3>4. Claim(r, y) /\ Claim(r, z)
      BY <1>1, <3>2, <3>3
    <3>5. T \ {z} = r \cup {y} /\ t = r \cup {z}
      BY <2>1, <2>6, <3>1, <3>2
    <3>6. SumFunctionOnSet(f, T) = f[z] + (f[y] + SumFunctionOnSet(f, r))
      BY <2>4, <3>4, <3>5
    <3>7. SumFunctionOnSet(f, t) = f[z] + SumFunctionOnSet(f, r)
      BY <3>4, <3>5
    <3>8. f[z] \in Int /\ f[y] \in Int /\ SumFunctionOnSet(f, r) \in Int
      BY <1>0, <3>2
    <3>9. SumFunctionOnSet(f, T) = f[y] + SumFunctionOnSet(f, t)
      BY <3>6, <3>7, <3>8
    <3> QED
      BY <2>1, <3>9
  <2> QED
    BY <2>5, <2>6
<1> HIDE DEF Claim
<1>2. 0 \in N
  <2> SUFFICES ASSUME NEW t \in SUBSET U, NEW y \in U \ t, Cardinality(t) = 0
               PROVE  Claim(t, y)
    OBVIOUS
  <2> QED
    BY <1>0, <1>1, FS_EmptySet
<1>3. ASSUME NEW n \in Nat, n \in N PROVE n + 1 \in N
  <2> SUFFICES ASSUME NEW t \in SUBSET U, NEW y \in U \ t, Cardinality(t) = n + 1
               PROVE  Claim(t, y)
    OBVIOUS
  <2>1. Cardinality(t) - 1 = n
    OBVIOUS
  <2> QED
    BY <1>1, <1>3, <2>1
<1> HIDE DEF N
<1>4. \A n \in Nat : n \in N
  BY <1>2, <1>3, NatInd
<1>5. Claim(S, x)
  BY <1>0, <1>4 DEF N
<1> QED
  BY <1>5 DEF Claim

LEMMA SumRemove ==
  ASSUME NEW S, IsFiniteSet(S), NEW x \in S, NEW f, \A s \in S : f[s] \in Int
  PROVE  SumFunctionOnSet(f, S) = f[x] + SumFunctionOnSet(f, S \ {x})
<1>1. PICK R : R = S \ {x}
  OBVIOUS
<1>2. IsFiniteSet(R) /\ x \notin R /\ S = R \cup {x}
  BY <1>1, FS_Subset
<1> QED
  BY <1>1, <1>2, SumAdd

\* A sum depends on the values over its set only ...
LEMMA SumSame ==
  ASSUME NEW S, IsFiniteSet(S), NEW f, NEW g, \A s \in S : f[s] = g[s] /\ f[s] \in Int
  PROVE  SumFunctionOnSet(f, S) = SumFunctionOnSet(g, S)
<1> DEFINE P == {T \in SUBSET S : SumFunctionOnSet(f, T) = SumFunctionOnSet(g, T)}
<1>1. {} \in P
  BY SumEmpty
<1>2. ASSUME NEW T \in SUBSET S, NEW x \in S \ T, T \in P PROVE T \cup {x} \in P
  <2>1. IsFiniteSet(T) /\ \A s \in T \cup {x} : f[s] \in Int /\ g[s] \in Int
    BY FS_Subset
  <2>2. /\ SumFunctionOnSet(f, T \cup {x}) = f[x] + SumFunctionOnSet(f, T)
        /\ SumFunctionOnSet(g, T \cup {x}) = g[x] + SumFunctionOnSet(g, T)
    BY <2>1, SumAdd
  <2> QED
    BY <1>2, <2>2
<1> HIDE DEF P
<1>3. S \in P
  BY <1>1, <1>2, FiniteInd
<1> QED
  BY <1>3 DEF P

\* ... and is monotone in them.
LEMMA SumLess ==
  ASSUME NEW S, IsFiniteSet(S), NEW f, NEW g,
         \A s \in S : f[s] \in Int /\ g[s] \in Int /\ f[s] <= g[s]
  PROVE  SumFunctionOnSet(f, S) <= SumFunctionOnSet(g, S)
<1> DEFINE P == {T \in SUBSET S : SumFunctionOnSet(f, T) <= SumFunctionOnSet(g, T)}
<1>1. {} \in P
  BY SumEmpty
<1>2. ASSUME NEW T \in SUBSET S, NEW x \in S \ T, T \in P PROVE T \cup {x} \in P
  <2>1. IsFiniteSet(T) /\ \A s \in T \cup {x} : f[s] \in Int /\ g[s] \in Int
    BY FS_Subset
  <2>2. /\ SumFunctionOnSet(f, T \cup {x}) = f[x] + SumFunctionOnSet(f, T)
        /\ SumFunctionOnSet(g, T \cup {x}) = g[x] + SumFunctionOnSet(g, T)
    BY <2>1, SumAdd
  <2>3. SumFunctionOnSet(f, T) \in Int /\ SumFunctionOnSet(g, T) \in Int
    BY <2>1, SumInt
  <2>4. SumFunctionOnSet(f, T) <= SumFunctionOnSet(g, T) /\ f[x] <= g[x]
        /\ f[x] \in Int /\ g[x] \in Int
    BY <1>2, <2>1
  <2>5. SumFunctionOnSet(f, T \cup {x}) <= SumFunctionOnSet(g, T \cup {x})
    BY <2>2, <2>3, <2>4
  <2> QED
    BY <2>5
<1> HIDE DEF P
<1>3. S \in P
  BY <1>1, <1>2, FiniteInd
<1> QED
  BY <1>3 DEF P

LEMMA SumZero ==
  ASSUME NEW S, IsFiniteSet(S), NEW f, \A s \in S : f[s] = 0
  PROVE  SumFunctionOnSet(f, S) = 0
<1> DEFINE P == {T \in SUBSET S : SumFunctionOnSet(f, T) = 0}
<1>1. {} \in P
  BY SumEmpty
<1>2. ASSUME NEW T \in SUBSET S, NEW x \in S \ T, T \in P PROVE T \cup {x} \in P
  <2>1. IsFiniteSet(T) /\ \A s \in T \cup {x} : f[s] \in Int
    BY FS_Subset
  <2>2. SumFunctionOnSet(f, T \cup {x}) = f[x] + SumFunctionOnSet(f, T)
    BY <2>1, SumAdd
  <2>3. SumFunctionOnSet(f, T \cup {x}) = 0
    BY <1>2, <2>2
  <2> QED
    BY <2>3
<1> HIDE DEF P
<1>3. S \in P
  BY <1>1, <1>2, FiniteInd
<1> QED
  BY <1>3 DEF P

LEMMA SumNat ==
  ASSUME NEW S, IsFiniteSet(S), NEW f, \A s \in S : f[s] \in Nat
  PROVE  SumFunctionOnSet(f, S) \in Nat
<1> DEFINE P == {T \in SUBSET S : SumFunctionOnSet(f, T) \in Nat}
<1>1. {} \in P
  BY SumEmpty
<1>2. ASSUME NEW T \in SUBSET S, NEW x \in S \ T, T \in P PROVE T \cup {x} \in P
  <2>1. IsFiniteSet(T) /\ \A s \in T \cup {x} : f[s] \in Int
    BY FS_Subset
  <2>2. SumFunctionOnSet(f, T \cup {x}) = f[x] + SumFunctionOnSet(f, T)
    BY <2>1, SumAdd
  <2>3. SumFunctionOnSet(f, T \cup {x}) \in Nat
    BY <1>2, <2>2
  <2> QED
    BY <2>3
<1> HIDE DEF P
<1>3. S \in P
  BY <1>1, <1>2, FiniteInd
<1> QED
  BY <1>3 DEF P

\* Elements that count nothing may be left out.
LEMMA SumOutside ==
  ASSUME NEW S, IsFiniteSet(S), NEW R \in SUBSET S, NEW f,
         \A s \in R : f[s] \in Int, \A s \in S \ R : f[s] = 0
  PROVE  SumFunctionOnSet(f, S) = SumFunctionOnSet(f, R)
<1> DEFINE P == {T \in SUBSET (S \ R) : SumFunctionOnSet(f, R \cup T) = SumFunctionOnSet(f, R)}
<1>0. IsFiniteSet(R) /\ IsFiniteSet(S \ R)
  BY FS_Subset
<1>1. {} \in P
  <2>1. R \cup {} = R
    OBVIOUS
  <2> QED
    BY <2>1
<1>2. ASSUME NEW T \in SUBSET (S \ R), NEW x \in (S \ R) \ T, T \in P PROVE T \cup {x} \in P
  <2>1. IsFiniteSet(R \cup T) /\ \A s \in (R \cup T) \cup {x} : f[s] \in Int
    BY FS_Subset
  <2>2. SumFunctionOnSet(f, (R \cup T) \cup {x}) = f[x] + SumFunctionOnSet(f, R \cup T)
    BY <2>1, SumAdd
  <2>3. R \cup (T \cup {x}) = (R \cup T) \cup {x} /\ f[x] = 0
    OBVIOUS
  <2>4. SumFunctionOnSet(f, R) \in Int
    BY <1>0, SumInt
  <2>5. SumFunctionOnSet(f, R \cup (T \cup {x})) = SumFunctionOnSet(f, R)
    BY <1>2, <2>2, <2>3, <2>4
  <2> QED
    BY <2>5
<1> HIDE DEF P
<1>3. S \ R \in P
  <2>1. PICK U : U = S \ R
    OBVIOUS
  <2>2. U \in SUBSET U /\ IsFiniteSet(U)
    BY <1>0, <2>1
  <2>3. \A T \in SUBSET U : \A x \in U \ T : T \in P => T \cup {x} \in P
    BY <1>2, <2>1
  <2>4. \A T \in SUBSET U : T \in P
    BY <1>1, <2>2, <2>3, FiniteInd
  <2> QED
    BY <2>1, <2>2, <2>4
<1>4. R \cup (S \ R) = S
  OBVIOUS
<1> QED
  BY <1>3, <1>4 DEF P

\* One value changes.
LEMMA SumChange ==
  ASSUME NEW S, IsFiniteSet(S), NEW x \in S, NEW f, NEW g,
         \A s \in S : f[s] \in Int /\ g[s] \in Int,
         \A s \in S : s # x => f[s] = g[s]
  PROVE  SumFunctionOnSet(g, S) - g[x] = SumFunctionOnSet(f, S) - f[x]
<1>1. PICK R : R = S \ {x}
  OBVIOUS
<1>2. IsFiniteSet(R) /\ \A s \in R : f[s] = g[s] /\ f[s] \in Int
  BY <1>1, FS_Subset
<1>3. SumFunctionOnSet(f, R) = SumFunctionOnSet(g, R) /\ SumFunctionOnSet(f, R) \in Int
  BY <1>2, SumSame, SumInt
<1>4. /\ SumFunctionOnSet(f, S) = f[x] + SumFunctionOnSet(f, R)
      /\ SumFunctionOnSet(g, S) = g[x] + SumFunctionOnSet(g, R)
  BY <1>1, SumRemove
<1> QED
  BY <1>3, <1>4

LEMMA SumAtLeast ==
  ASSUME NEW S, IsFiniteSet(S), NEW x \in S, NEW f, \A s \in S : f[s] \in Nat
  PROVE  f[x] <= SumFunctionOnSet(f, S)
<1>1. PICK R : R = S \ {x}
  OBVIOUS
<1>2. IsFiniteSet(R) /\ \A s \in R : f[s] \in Nat
  BY <1>1, FS_Subset
<1>3. SumFunctionOnSet(f, R) \in Nat
  BY <1>2, SumNat
<1>4. SumFunctionOnSet(f, S) = f[x] + SumFunctionOnSet(f, R)
  BY <1>1, SumRemove
<1> QED
  BY <1>3, <1>4

LEMMA SumAllSame ==
  ASSUME NEW S, IsFiniteSet(S), NEW c \in Int, NEW f, \A s \in S : f[s] = c
  PROVE  SumFunctionOnSet(f, S) = Cardinality(S) * c
<1> DEFINE P == {T \in SUBSET S : SumFunctionOnSet(f, T) = Cardinality(T) * c}
<1>1. {} \in P
  BY SumEmpty, FS_EmptySet
<1>2. ASSUME NEW T \in SUBSET S, NEW x \in S \ T, T \in P PROVE T \cup {x} \in P
  <2>1. IsFiniteSet(T) /\ \A s \in T \cup {x} : f[s] \in Int
    BY FS_Subset
  <2>2. SumFunctionOnSet(f, T \cup {x}) = f[x] + SumFunctionOnSet(f, T)
    BY <2>1, SumAdd
  <2>3. PICK n \in Nat : n = Cardinality(T)
    BY <2>1, FS_CardinalityType
  <2>4. Cardinality(T \cup {x}) = n + 1
    BY <2>1, <2>3, FS_AddElement
  <2>5. SumFunctionOnSet(f, T) = n * c
    BY <1>2, <2>3
  <2>6. c + n * c = (n + 1) * c
    OBVIOUS
  <2>7. f[x] = c
    OBVIOUS
  <2>8. SumFunctionOnSet(f, T \cup {x}) = Cardinality(T \cup {x}) * c
    BY <2>2, <2>4, <2>5, <2>6, <2>7
  <2> QED
    BY <2>8
<1> HIDE DEF P
<1>3. S \in P
  BY <1>1, <1>2, FiniteInd
<1> QED
  BY <1>3 DEF P

LEMMA SumPlus ==
  ASSUME NEW S, IsFiniteSet(S), NEW f, NEW g, NEW h,
         \A s \in S : f[s] \in Int /\ g[s] \in Int /\ h[s] = f[s] + g[s]
  PROVE  SumFunctionOnSet(h, S) = SumFunctionOnSet(f, S) + SumFunctionOnSet(g, S)
<1> DEFINE P == {T \in SUBSET S :
                   SumFunctionOnSet(h, T) = SumFunctionOnSet(f, T) + SumFunctionOnSet(g, T)}
<1>1. {} \in P
  BY SumEmpty
<1>2. ASSUME NEW T \in SUBSET S, NEW x \in S \ T, T \in P PROVE T \cup {x} \in P
  <2>1. IsFiniteSet(T)
    BY FS_Subset
  <2>2. \A s \in T \cup {x} : f[s] \in Int /\ g[s] \in Int /\ h[s] \in Int
    OBVIOUS
  <2>3. /\ SumFunctionOnSet(f, T \cup {x}) = f[x] + SumFunctionOnSet(f, T)
        /\ SumFunctionOnSet(g, T \cup {x}) = g[x] + SumFunctionOnSet(g, T)
        /\ SumFunctionOnSet(h, T \cup {x}) = h[x] + SumFunctionOnSet(h, T)
    BY <2>1, <2>2, SumAdd
  <2>4. SumFunctionOnSet(f, T) \in Int /\ SumFunctionOnSet(g, T) \in Int
    BY <2>1, <2>2, SumInt
  <2>5. h[x] = f[x] + g[x] /\ f[x] \in Int /\ g[x] \in Int
    OBVIOUS
  <2>6. SumFunctionOnSet(h, T) = SumFunctionOnSet(f, T) + SumFunctionOnSet(g, T)
    BY <1>2
  <2>7. SumFunctionOnSet(h, T \cup {x})
        = SumFunctionOnSet(f, T \cup {x}) + SumFunctionOnSet(g, T \cup {x})
    BY <2>3, <2>4, <2>5, <2>6
  <2> QED
    BY <2>7
<1> HIDE DEF P
<1>3. S \in P
  BY <1>1, <1>2, FiniteInd
<1> QED
  BY <1>3 DEF P

\* Renumbering: the sum over the places h names, plus the sum over the others.
Renames(h, S, T) == h \in [S -> T] /\ \A a, b \in S : h[a] = h[b] => a = b
Unnamed(h, S, T) == {t \in T : ~\E s \in S : h[s] = t}

LEMMA SumRenamed ==
  ASSUME NEW S, IsFiniteSet(S), NEW T, IsFiniteSet(T), NEW h, Renames(h, S, T),
         NEW f, \A t \in T : f[t] \in Int,
         NEW g, \A s \in S : g[s] = f[h[s]]
  PROVE  SumFunctionOnSet(g, S) + SumFunctionOnSet(f, Unnamed(h, S, T)) = SumFunctionOnSet(f, T)
<1>0. h \in [S -> T] /\ \A a, b \in S : h[a] = h[b] => a = b
  BY DEF Renames
<1> DEFINE Img(U) == {t \in T : \E s \in U : h[s] = t}
           P == {U \in SUBSET S : SumFunctionOnSet(g, U) + SumFunctionOnSet(f, T \ Img(U))
                                    = SumFunctionOnSet(f, T)}
<1>1. {} \in P
  <2>2. T \ Img({}) = T
    OBVIOUS
  <2> HIDE DEF Img
  <2>3. SumFunctionOnSet(g, {}) = 0
    BY SumEmpty
  <2>4. SumFunctionOnSet(f, T) \in Int
    BY SumInt
  <2>6. PICK n \in Int : n = SumFunctionOnSet(f, T)
    BY <2>4
  <2>7. SumFunctionOnSet(f, T \ Img({})) = n
    BY <2>2, <2>6
  <2>8. 0 + n = n
    OBVIOUS
  <2>5. SumFunctionOnSet(g, {}) + SumFunctionOnSet(f, T \ Img({})) = SumFunctionOnSet(f, T)
    BY <2>3, <2>6, <2>7, <2>8
  <2> QED
    BY <2>5
<1>2. ASSUME NEW U \in SUBSET S, NEW x \in S \ U, U \in P PROVE U \cup {x} \in P
  <2>1. PICK Rest : Rest = T \ Img(U)
    OBVIOUS
  <2>2. Rest \subseteq T /\ h[x] \in Rest
    BY <1>0, <2>1
  <2>3. T \ Img(U \cup {x}) = Rest \ {h[x]}
    BY <1>0, <2>1
  <2>4. SumFunctionOnSet(g, U) + SumFunctionOnSet(f, Rest) = SumFunctionOnSet(f, T)
    BY <1>2, <2>1
  <2> HIDE DEF Img
  <2>5. IsFiniteSet(U) /\ IsFiniteSet(Rest)
    BY <2>2, FS_Subset
  <2>6. SumFunctionOnSet(f, Rest) = f[h[x]] + SumFunctionOnSet(f, Rest \ {h[x]})
    BY <2>2, <2>5, SumRemove
  <2>7. \A s \in U \cup {x} : g[s] \in Int
    BY <1>0
  <2>8. SumFunctionOnSet(g, U \cup {x}) = g[x] + SumFunctionOnSet(g, U)
    BY <2>5, <2>7, SumAdd
  <2>9. g[x] = f[h[x]] /\ g[x] \in Int
    BY <1>0
  <2>10. IsFiniteSet(Rest \ {h[x]}) /\ \A s \in Rest \ {h[x]} : f[s] \in Int
    BY <2>2, <2>5, FS_RemoveElement
  <2>11. SumFunctionOnSet(g, U) \in Int /\ SumFunctionOnSet(f, Rest \ {h[x]}) \in Int
    BY <2>5, <2>7, <2>10, SumInt
  <2>12. SumFunctionOnSet(g, U \cup {x}) + SumFunctionOnSet(f, Rest \ {h[x]})
         = SumFunctionOnSet(f, T)
    BY <2>4, <2>6, <2>8, <2>9, <2>11
  <2>13. SumFunctionOnSet(g, U \cup {x}) + SumFunctionOnSet(f, T \ Img(U \cup {x}))
         = SumFunctionOnSet(f, T)
    BY <2>3, <2>12
  <2> QED
    BY <2>13
<1> HIDE DEF P
<1>3. S \in P
  BY <1>1, <1>2, FiniteInd
<1>4. SumFunctionOnSet(g, S) + SumFunctionOnSet(f, T \ Img(S)) = SumFunctionOnSet(f, T)
  BY <1>3 DEF P
<1>5. T \ Img(S) = Unnamed(h, S, T)
  BY DEF Unnamed
<1> HIDE DEF Img
<1> QED
  BY <1>4, <1>5

\* A union has at most as many elements as its members have in total.
LEMMA UnionBound ==
  ASSUME NEW S, IsFiniteSet(S), NEW A, NEW f,
         \A s \in S : IsFiniteSet(A[s]) /\ f[s] \in Int /\ Cardinality(A[s]) <= f[s]
  PROVE  /\ IsFiniteSet(UNION {A[s] : s \in S})
         /\ Cardinality(UNION {A[s] : s \in S}) <= SumFunctionOnSet(f, S)
<1> DEFINE All(T) == UNION {A[s] : s \in T}
           P == {T \in SUBSET S : IsFiniteSet(All(T)) /\ Cardinality(All(T)) <= SumFunctionOnSet(f, T)}
<1>1. {} \in P
  <2>1. All({}) = {}
    OBVIOUS
  <2>2. Cardinality({}) = 0 /\ IsFiniteSet({}) /\ SumFunctionOnSet(f, {}) = 0
    BY SumEmpty, FS_EmptySet
  <2>3. IsFiniteSet(All({})) /\ Cardinality(All({})) <= SumFunctionOnSet(f, {})
    BY <2>1, <2>2
  <2> HIDE DEF All
  <2> QED
    BY <2>3
<1>2. ASSUME NEW T \in SUBSET S, NEW x \in S \ T, T \in P PROVE T \cup {x} \in P
  <2>1. All(T \cup {x}) = All(T) \cup A[x]
    OBVIOUS
  <2>2. PICK B, C : B = All(T) /\ C = A[x]
    OBVIOUS
  <2>3. IsFiniteSet(B) /\ Cardinality(B) <= SumFunctionOnSet(f, T)
    BY <1>2, <2>2
  <2>4. IsFiniteSet(C) /\ Cardinality(C) <= f[x] /\ f[x] \in Int
    BY <2>2
  <2> HIDE DEF All
  <2>5. IsFiniteSet(T) /\ \A s \in T \cup {x} : f[s] \in Int
    BY FS_Subset
  <2>6. SumFunctionOnSet(f, T \cup {x}) = f[x] + SumFunctionOnSet(f, T)
    BY <2>5, SumAdd
  <2>7. /\ IsFiniteSet(B \cup C)
        /\ Cardinality(B \cup C) = Cardinality(B) + Cardinality(C) - Cardinality(B \cap C)
    BY <2>3, <2>4, FS_Union
  <2>8. IsFiniteSet(B \cap C)
    BY <2>3, FS_Intersection
  <2>9. Cardinality(B) \in Nat /\ Cardinality(C) \in Nat /\ Cardinality(B \cap C) \in Nat
    BY <2>3, <2>4, <2>8, FS_CardinalityType
  <2>10. SumFunctionOnSet(f, T) \in Int
    BY <2>5, SumInt
  <2>11. Cardinality(B \cup C) <= SumFunctionOnSet(f, T \cup {x})
    BY <2>3, <2>4, <2>6, <2>7, <2>9, <2>10
  <2>12. IsFiniteSet(All(T \cup {x})) /\ Cardinality(All(T \cup {x})) <= SumFunctionOnSet(f, T \cup {x})
    BY <2>1, <2>2, <2>7, <2>11
  <2> QED
    BY <2>12
<1> HIDE DEF P
<1>3. S \in P
  BY <1>1, <1>2, FiniteInd
<1> QED
  BY <1>3 DEF P
=============================================================================
