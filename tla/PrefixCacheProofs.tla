-------------------------- MODULE PrefixCacheProofs --------------------------
(***************************************************************************)
(* What the run checks of PrefixCache on two requests, proved for all       *)
(* requests, sizes, budgets and queue capacities.                           *)
(*                                                                         *)
(* First what the operators of CacheIndex and of the staging buffers        *)
(* compute: totals and sums, the index, eviction, the restore plan, the     *)
(* saves of a text.  Then Shapes, the inductive invariant of the types, and *)
(* on top of it one more invariant per property: RestoreOk follows a        *)
(* restore from the reader to the engine, Balanced the pages of staging,    *)
(* Listed the files.  What the budget evicts comes last.                    *)
(***************************************************************************)
EXTENDS PrefixCache, FoldFacts, SequenceTheorems

-----------------------------------------------------------------------------
(***************************************************************************)
(* Totals                                                                   *)
(***************************************************************************)
Maxes(q, S, it) ==
  it = [s \in SUBSET S |-> IF s = {} THEN 0 ELSE it[s \ {Max(s)}] + q[Max(s)]]

LEMMA TotalIsMaxes ==
  ASSUME NEW q
  PROVE  Total(q) = (CHOOSE it : Maxes(q, DOMAIN q, it))[DOMAIN q]
  BY DEF Total, FoldLeft, MapThenFoldSet, Maxes

LEMMA MaxIn ==
  ASSUME NEW n \in Nat, NEW s \in SUBSET (1 .. n), s # {}
  PROVE  Max(s) \in s
<1> DEFINE T == {k \in Nat : \A i \in s : i <= k}
<1>1. n \in T
  OBVIOUS
<1>2. PICK m \in T : \A k \in T : m <= k
  <2>1. T \in SUBSET Nat /\ T # {}
    BY <1>1
  <2> QED
    BY <2>1, NatLeast
<1>3. m \in s
  <2> SUFFICES ASSUME m \notin s PROVE FALSE
    OBVIOUS
  <2>1. \A i \in s : i \in Nat /\ i >= 1 /\ i <= m /\ i # m
    BY <1>2
  <2>2. PICK i \in s : TRUE
    OBVIOUS
  <2>3. m \in Nat /\ m - 1 \in Nat
    BY <1>2, <2>1, <2>2
  <2>4. \A k \in s : k <= m - 1
    BY <2>1, <2>3
  <2>5. m - 1 \in T
    BY <2>3, <2>4
  <2> QED
    BY <1>2, <2>3, <2>5
<1> QED
  BY <1>2, <1>3 DEF Max

LEMMA TotalIsSum ==
  ASSUME NEW q \in Seq(Int)
  PROVE  Total(q) = SumFunctionOnSet(q, DOMAIN q)
<1>1. PICK n \in Nat : DOMAIN q = 1 .. n /\ \A i \in 1 .. n : q[i] \in Int
  BY LenProperties
<1> DEFINE D == 1 .. n
<1>2. \A s \in SUBSET D : IsFiniteSet(s) /\ Cardinality(s) \in Nat
  <2>1. IsFiniteSet(D)
    BY FS_Interval
  <2> HIDE DEF D
  <2> QED
    BY <2>1, FS_Subset, FS_CardinalityType
<1> DEFINE sums == [s \in SUBSET D |-> SumFunctionOnSet(q, s)]
<1>3. Maxes(q, D, sums)
  <2>1. \A s \in SUBSET D : s = {} => SumFunctionOnSet(q, s) = 0
    BY SumEmpty
  <2>2. ASSUME NEW s \in SUBSET D, s # {}
        PROVE  SumFunctionOnSet(q, s) = sums[s \ {Max(s)}] + q[Max(s)]
    <3>1. PICK m \in s : m = Max(s)
      BY <1>1, <2>2, MaxIn
    <3>2. SumFunctionOnSet(q, s) = q[m] + SumFunctionOnSet(q, s \ {m})
      <4>1. \A i \in s : q[i] \in Int
        BY <1>1
      <4> QED
        BY <1>2, <3>1, <4>1, SumRemove
    <3>3. SumFunctionOnSet(q, s \ {m}) \in Int /\ q[m] \in Int
      <4>1. s \ {m} \in SUBSET D /\ IsFiniteSet(s \ {m}) /\ \A i \in s \ {m} : q[i] \in Int
        BY <1>1, <1>2
      <4> QED
        BY <1>1, <4>1, SumInt
    <3>4. sums[s \ {m}] = SumFunctionOnSet(q, s \ {m})
      OBVIOUS
    <3> QED
      BY <3>1, <3>2, <3>3, <3>4
  <2> QED
    BY <2>1, <2>2 DEF Maxes
<1>4. PICK it : it = (CHOOSE x : Maxes(q, D, x)) /\ Maxes(q, D, it)
  BY <1>3
<1> HIDE DEF sums
<1> DEFINE N == {k \in Nat : \A s \in SUBSET D : Cardinality(s) = k => it[s] = sums[s]}
<1>5. 0 \in N
  <2> SUFFICES ASSUME NEW s \in SUBSET D, Cardinality(s) = 0 PROVE it[s] = sums[s]
    OBVIOUS
  <2>1. s = {}
    BY <1>2, FS_EmptySet
  <2> QED
    BY <1>3, <1>4, <2>1 DEF Maxes
<1>6. ASSUME NEW k \in Nat, k \in N PROVE k + 1 \in N
  <2>0. k + 1 \in Nat
    OBVIOUS
  <2> SUFFICES ASSUME NEW s \in SUBSET D, Cardinality(s) = k + 1 PROVE it[s] = sums[s]
    BY <2>0, Zenon
  <2>1. s # {}
    <3>1. k + 1 # 0 /\ Cardinality({}) = 0
      BY FS_EmptySet
    <3> QED
      BY <3>1
  <2>2. PICK m \in s : m = Max(s)
    BY <1>1, <2>1, MaxIn
  <2>3. PICK u : u = s \ {m}
    OBVIOUS
  <2>4. u \in SUBSET D /\ Cardinality(u) = k
    <3>1. Cardinality(u) = Cardinality(s) - 1
      BY <1>2, <2>2, <2>3, FS_RemoveElement
    <3> QED
      BY <2>3, <3>1
  <2>5. it[u] = sums[u]
    BY <1>6, <2>4
  <2>6. it[s] = it[u] + q[m]
    BY <1>4, <2>1, <2>2, <2>3 DEF Maxes
  <2>7. sums[s] = sums[u] + q[m]
    BY <1>3, <2>1, <2>2, <2>3 DEF Maxes
  <2> QED
    BY <2>5, <2>6, <2>7
<1> HIDE DEF N
<1>7. \A k \in Nat : k \in N
  BY <1>5, <1>6, NatInd
<1>8. it[D] = sums[D]
  <2>1. D \in SUBSET D /\ Cardinality(D) \in Nat
    BY <1>2
  <2> QED
    BY <1>7, <2>1 DEF N
<1> QED
  BY <1>1, <1>4, <1>8, TotalIsMaxes DEF sums

LEMMA TotalInt ==
  ASSUME NEW q \in Seq(Int) PROVE Total(q) \in Int
<1>1. IsFiniteSet(DOMAIN q) /\ \A i \in DOMAIN q : q[i] \in Int
  <2>1. DOMAIN q = 1 .. Len(q) /\ Len(q) \in Nat /\ \A i \in 1 .. Len(q) : q[i] \in Int
    BY LenProperties
  <2> QED
    BY <2>1, FS_Interval
<1>2. SumFunctionOnSet(q, DOMAIN q) \in Int
  BY <1>1, SumInt
<1> QED
  BY <1>2, TotalIsSum

LEMMA TotalNat ==
  ASSUME NEW q \in Seq(Nat) PROVE Total(q) \in Nat
<1>1. IsFiniteSet(DOMAIN q) /\ \A i \in DOMAIN q : q[i] \in Nat
  <2>1. DOMAIN q = 1 .. Len(q) /\ Len(q) \in Nat /\ \A i \in 1 .. Len(q) : q[i] \in Nat
    BY LenProperties
  <2> QED
    BY <2>1, FS_Interval
<1>2. SumFunctionOnSet(q, DOMAIN q) \in Nat
  BY <1>1, SumNat
<1>3. q \in Seq(Int)
  OBVIOUS
<1> QED
  BY <1>2, <1>3, TotalIsSum

LEMMA TotalEmpty == Total(<< >>) = 0
<1>1. << >> \in Seq(Int) /\ DOMAIN << >> = {}
  OBVIOUS
<1>2. SumFunctionOnSet(<< >>, {}) = 0
  BY SumEmpty
<1>3. Total(<< >>) = SumFunctionOnSet(<< >>, DOMAIN << >>)
  BY <1>1, TotalIsSum
<1> QED
  BY <1>1, <1>2, <1>3

LEMMA TotalAppend ==
  ASSUME NEW q \in Seq(Int), NEW x \in Int
  PROVE  Total(Append(q, x)) = Total(q) + x
<1>1. PICK n \in Nat : n = Len(q) /\ DOMAIN q = 1 .. n /\ \A i \in 1 .. n : q[i] \in Int
  BY LenProperties
<1>2. PICK a : a = Append(q, x)
  OBVIOUS
<1>3. /\ a \in Seq(Int) /\ DOMAIN a = (1 .. n) \cup {n + 1}
      /\ a[n + 1] = x /\ \A i \in 1 .. n : a[i] = q[i]
  <2>1. a \in Seq(Int) /\ Len(a) = n + 1 /\ DOMAIN a = 1 .. Len(a)
    BY <1>1, <1>2, AppendProperties, LenProperties
  <2>2. a[n + 1] = x /\ \A i \in 1 .. n : a[i] = q[i]
    BY <1>1, <1>2, AppendProperties
  <2>3. 1 .. (n + 1) = (1 .. n) \cup {n + 1}
    BY <1>1
  <2> QED
    BY <2>1, <2>2, <2>3
<1>4. IsFiniteSet(1 .. n) /\ n + 1 \notin 1 .. n
  BY <1>1, FS_Interval
<1>5. \A i \in (1 .. n) \cup {n + 1} : a[i] \in Int
  BY <1>1, <1>3
<1>6. SumFunctionOnSet(a, (1 .. n) \cup {n + 1}) = a[n + 1] + SumFunctionOnSet(a, 1 .. n)
  BY <1>4, <1>5, SumAdd
<1>7. SumFunctionOnSet(a, 1 .. n) = SumFunctionOnSet(q, 1 .. n)
  <2>1. \A i \in 1 .. n : a[i] = q[i] /\ a[i] \in Int
    BY <1>3, <1>5
  <2> QED
    BY <1>4, <2>1, SumSame
<1>8. Total(a) = SumFunctionOnSet(a, DOMAIN a) /\ Total(q) = SumFunctionOnSet(q, DOMAIN q)
  BY <1>3, TotalIsSum
<1>9. Total(q) \in Int
  BY TotalInt
<1>10. Total(a) = x + Total(q)
  BY <1>1, <1>3, <1>6, <1>7, <1>8
<1> QED
  BY <1>2, <1>9, <1>10

\* Induction over sequences, one element appended at a time.
LEMMA SeqInd ==
  ASSUME NEW S, NEW P, << >> \in P, \A q \in Seq(S) : \A x \in S : q \in P => Append(q, x) \in P
  PROVE  \A q \in Seq(S) : q \in P
<1> DEFINE N == {n \in Nat : \A q \in Seq(S) : Len(q) = n => q \in P}
<1>1. 0 \in N
  <2> SUFFICES ASSUME NEW q \in Seq(S), Len(q) = 0 PROVE q \in P
    OBVIOUS
  <2>1. q = << >>
    BY EmptySeq
  <2> QED
    BY <2>1
<1>2. ASSUME NEW n \in Nat, n \in N PROVE n + 1 \in N
  <2>0. n + 1 \in Nat
    OBVIOUS
  <2> SUFFICES ASSUME NEW q \in Seq(S), Len(q) = n + 1 PROVE q \in P
    BY <2>0, Zenon
  <2>1. q # << >>
    BY EmptySeq
  <2>2. PICK u \in Seq(S) : \E x \in S : q = Append(u, x)
    BY <2>1, SequenceEmptyOrAppend
  <2>3. PICK x \in S : q = Append(u, x)
    BY <2>2
  <2>4. Len(u) = n
    <3>1. Len(q) = Len(u) + 1 /\ Len(u) \in Nat
      BY <2>3, AppendProperties, LenProperties
    <3> QED
      BY <3>1
  <2> QED
    BY <1>2, <2>3, <2>4
<1> HIDE DEF N
<1>3. \A n \in Nat : n \in N
  BY <1>1, <1>2, NatInd
<1> SUFFICES ASSUME NEW q \in Seq(S) PROVE q \in P
  OBVIOUS
<1>4. Len(q) \in Nat
  BY LenProperties
<1> QED
  BY <1>3, <1>4 DEF N

LEMMA TotalConcat ==
  ASSUME NEW p \in Seq(Int), NEW q \in Seq(Int)
  PROVE  Total(p \o q) = Total(p) + Total(q)
<1> DEFINE P == {t \in Seq(Int) : Total(p \o t) = Total(p) + Total(t)}
<1>1. << >> \in P
  <2>1. << >> \in Seq(Int) /\ p \o << >> = p
    BY EmptySeq, ConcatEmptySeq
  <2>2. Total(p) \in Int
    BY TotalInt
  <2> QED
    BY <2>1, <2>2, TotalEmpty
<1>2. ASSUME NEW u \in Seq(Int), NEW x \in Int, u \in P PROVE Append(u, x) \in P
  <2>1. p \o Append(u, x) = Append(p \o u, x)
    <3>1. Append(u, x) = u \o <<x>> /\ p \o u \in Seq(Int) /\ <<x>> \in Seq(Int)
      BY AppendIsConcat, ConcatProperties
    <3>2. Append(p \o u, x) = (p \o u) \o <<x>>
      BY <3>1, AppendIsConcat
    <3> QED
      BY <3>1, <3>2, ConcatAssociative
  <2>2. p \o u \in Seq(Int) /\ Append(u, x) \in Seq(Int)
    BY AppendProperties, ConcatProperties
  <2>3. Total(p \o Append(u, x)) = Total(p \o u) + x
    BY <2>1, <2>2, TotalAppend
  <2>4. Total(Append(u, x)) = Total(u) + x
    BY TotalAppend
  <2>5. Total(p) \in Int /\ Total(u) \in Int
    BY TotalInt
  <2> QED
    BY <1>2, <2>2, <2>3, <2>4, <2>5
<1> HIDE DEF P
<1>3. \A t \in Seq(Int) : t \in P
  BY <1>1, <1>2, SeqInd
<1> QED
  BY <1>3 DEF P

LEMMA TotalTail ==
  ASSUME NEW q \in Seq(Int), q # << >>
  PROVE  Total(q) = q[1] + Total(Tail(q))
<1>1. q[1] \in Int /\ Tail(q) \in Seq(Int) /\ <<q[1]>> \in Seq(Int)
  <2>1. Len(q) \in Nat \ {0}
    BY EmptySeq
  <2> QED
    BY <2>1, ElementOfSeq, HeadTailProperties
<1>2. q = <<q[1]>> \o Tail(q)
  <2>1. Len(q) \in Nat \ {0}
    BY EmptySeq
  <2>2. SubSeq(q, 1, Len(q)) = <<q[1]>> \o SubSeq(q, 1 + 1, Len(q))
    BY <2>1, SubSeqRecursiveFirst
  <2>3. SubSeq(q, 1, Len(q)) = q /\ Tail(q) = SubSeq(q, 2, Len(q))
    BY SubSeqFull, TailIsSubSeq
  <2> QED
    BY <2>2, <2>3
<1>3. Total(<<q[1]>>) = q[1]
  <2>1. << >> \in Seq(Int) /\ <<q[1]>> = Append(<< >>, q[1])
    BY <1>1
  <2>2. Total(Append(<< >>, q[1])) = Total(<< >>) + q[1]
    BY <1>1, <2>1, TotalAppend
  <2> QED
    BY <1>1, <2>1, <2>2, TotalEmpty
<1>4. Total(q) = Total(<<q[1]>>) + Total(Tail(q))
  BY <1>1, <1>2, TotalConcat
<1> QED
  BY <1>3, <1>4

LEMMA TotalSplit ==
  ASSUME NEW q \in Seq(Int), NEW k \in 0 .. Len(q)
  PROVE  /\ SubSeq(q, 1, k) \in Seq(Int) /\ SubSeq(q, k + 1, Len(q)) \in Seq(Int)
         /\ Total(q) = Total(SubSeq(q, 1, k)) + Total(SubSeq(q, k + 1, Len(q)))
<1>1. Len(q) \in Nat /\ \A i \in 1 .. Len(q) : q[i] \in Int
  BY LenProperties
<1>2. SubSeq(q, 1, k) \in Seq(Int) /\ SubSeq(q, k + 1, Len(q)) \in Seq(Int)
  <2>1. \A i \in 1 .. k : q[i] \in Int
    BY <1>1
  <2>2. \A i \in k + 1 .. Len(q) : q[i] \in Int
    BY <1>1
  <2>3. SubSeq(q, 1, k) \in Seq(Int)
    BY <2>1, SubSeqProperties
  <2>4. SubSeq(q, k + 1, Len(q)) \in Seq(Int)
    BY <1>1, <2>2, SubSeqProperties
  <2> QED
    BY <2>3, <2>4
<1>3. SubSeq(q, 1, k) \o SubSeq(q, k + 1, Len(q)) = q
  <2>1. 1 \in 1 .. Len(q) + 1 /\ k \in 1 - 1 .. Len(q) /\ Len(q) \in k .. Len(q)
    BY <1>1
  <2>2. SubSeq(q, 1, k) \o SubSeq(q, k + 1, Len(q)) = SubSeq(q, 1, Len(q))
    BY <2>1, ConcatAdjacentSubSeq
  <2> QED
    BY <2>2, SubSeqFull
<1> QED
  BY <1>2, <1>3, TotalConcat

-----------------------------------------------------------------------------
(***************************************************************************)
(* Staging                                                                  *)
(***************************************************************************)
StagingType == [budget : Nat, alloc : Int, free : Seq(Nat)]

\* What is allocated and not in a free buffer.
Out(s) == s.alloc - Total(s.free)

LEMMA SwapRemoved ==
  ASSUME NEW q \in Seq(Nat), NEW i \in DOMAIN q
  PROVE  /\ SwapRemove(q, i) \in Seq(Nat)
         /\ Total(SwapRemove(q, i)) = Total(q) - q[i]
<1>1. PICK n \in Nat : n + 1 = Len(q) /\ DOMAIN q = 1 .. n + 1 /\ \A k \in 1 .. n + 1 : q[k] \in Nat
  <2>1. DOMAIN q = 1 .. Len(q) /\ Len(q) \in Nat /\ \A k \in 1 .. Len(q) : q[k] \in Nat
    BY LenProperties
  <2>2. Len(q) - 1 \in Nat /\ Len(q) - 1 + 1 = Len(q)
    BY <2>1
  <2> QED
    BY <2>1, <2>2
<1>2. PICK u : u = SwapRemove(q, i)
  OBVIOUS
<1>3. /\ u \in Seq(Nat) /\ DOMAIN u = 1 .. n
      /\ \A k \in 1 .. n : u[k] = IF k = i THEN q[n + 1] ELSE q[k]
  <2>1. u = [k \in 1 .. n |-> IF k = i THEN q[n + 1] ELSE q[k]]
    <3>1. Len(q) - 1 = n
      BY <1>1
    <3> QED
      BY <1>1, <1>2, <3>1 DEF SwapRemove
  <2>2. \A k \in 1 .. n : u[k] \in Nat
    BY <1>1, <2>1
  <2>3. u \in [1 .. n -> Nat]
    BY <2>1, <2>2
  <2> QED
    BY <2>1, <2>3, SeqDef
<1>4. IsFiniteSet(1 .. n) /\ n + 1 \notin 1 .. n /\ 1 .. n + 1 = (1 .. n) \cup {n + 1}
  <2>1. IsFiniteSet(1 .. n)
    BY FS_Interval
  <2>2. n + 1 \notin 1 .. n /\ 1 .. n + 1 = (1 .. n) \cup {n + 1}
    OBVIOUS
  <2> QED
    BY <2>1, <2>2
<1>5. SumFunctionOnSet(q, 1 .. n + 1) = q[n + 1] + SumFunctionOnSet(q, 1 .. n)
  <2>1. \A k \in (1 .. n) \cup {n + 1} : q[k] \in Int
    BY <1>1, <1>4
  <2>2. SumFunctionOnSet(q, (1 .. n) \cup {n + 1}) = q[n + 1] + SumFunctionOnSet(q, 1 .. n)
    BY <1>4, <2>1, SumAdd
  <2> QED
    BY <1>4, <2>2
<1>6. SumFunctionOnSet(u, 1 .. n) = SumFunctionOnSet(q, 1 .. n + 1) - q[i]
  <2>1. SumFunctionOnSet(q, 1 .. n) \in Int /\ q[n + 1] \in Int /\ q[i] \in Int
    <3>1. \A k \in 1 .. n : q[k] \in Int
      BY <1>1
    <3> QED
      BY <1>1, <1>4, <3>1, SumInt
  <2>2. CASE i = n + 1
    <3>1. \A k \in 1 .. n : u[k] = q[k] /\ u[k] \in Int
      BY <1>1, <1>3, <2>2
    <3>2. SumFunctionOnSet(u, 1 .. n) = SumFunctionOnSet(q, 1 .. n)
      BY <1>4, <3>1, SumSame
    <3> QED
      BY <1>5, <2>1, <2>2, <3>2
  <2>3. CASE i # n + 1
    <3>1. i \in 1 .. n
      BY <1>1, <2>3
    <3>2. \A k \in 1 .. n : q[k] \in Int /\ u[k] \in Int
      BY <1>1, <1>3
    <3>3. \A k \in 1 .. n : k # i => q[k] = u[k]
      BY <1>3
    <3>4. SumFunctionOnSet(u, 1 .. n) - u[i] = SumFunctionOnSet(q, 1 .. n) - q[i]
      BY <1>4, <3>1, <3>2, <3>3, SumChange
    <3>5. u[i] = q[n + 1] /\ SumFunctionOnSet(u, 1 .. n) \in Int
      BY <1>3, <1>4, <3>1, <3>2, SumInt
    <3>6. SumFunctionOnSet(q, 1 .. n + 1) \in Int
      BY <1>5, <2>1
    <3>7. PICK a, b, c, x, y, z : /\ a = SumFunctionOnSet(u, 1 .. n) /\ b = SumFunctionOnSet(q, 1 .. n)
                                  /\ c = SumFunctionOnSet(q, 1 .. n + 1)
                                  /\ x = u[i] /\ y = q[i] /\ z = q[n + 1]
      OBVIOUS
    <3>8. a \in Int /\ b \in Int /\ c \in Int /\ y \in Int /\ z \in Int /\ x = z
      BY <2>1, <3>5, <3>6, <3>7
    <3>9. c = z + b /\ a - x = b - y
      BY <1>5, <3>4, <3>7
    <3>10. a = c - y
      BY <3>8, <3>9
    <3> QED
      BY <3>7, <3>10
  <2> QED
    BY <2>2, <2>3
<1>7. q \in Seq(Int) /\ u \in Seq(Int)
  BY <1>3, SeqMonotonic
<1>8. Total(q) = SumFunctionOnSet(q, 1 .. n + 1) /\ Total(u) = SumFunctionOnSet(u, 1 .. n)
  <2>1. Total(q) = SumFunctionOnSet(q, DOMAIN q) /\ Total(u) = SumFunctionOnSet(u, DOMAIN u)
    BY <1>7, TotalIsSum
  <2> QED
    BY <1>1, <1>3, <2>1
<1> QED
  BY <1>2, <1>3, <1>6, <1>8

\* The last k free buffers dropped.
DropFree(s, k) ==
  [s EXCEPT !.alloc = @ - Total(SubSeq(s.free, Len(s.free) - k + 1, Len(s.free))),
            !.free = SubSeq(@, 1, Len(s.free) - k)]

LEMMA FreeDropped ==
  ASSUME NEW s \in StagingType, NEW k \in 0 .. Len(s.free)
  PROVE  /\ DropFree(s, k) \in StagingType /\ Out(DropFree(s, k)) = Out(s)
         /\ DropFree(s, k).alloc <= s.alloc /\ DropFree(s, k).budget = s.budget
<1>1. s.alloc \in Int /\ s.free \in Seq(Nat) /\ s.free \in Seq(Int)
  BY SeqMonotonic DEF StagingType
<1>2. PICK n \in Nat : n = Len(s.free) /\ \A i \in 1 .. n : s.free[i] \in Nat
  BY <1>1, LenProperties
<1>3. PICK j \in 0 .. n : j = n - k
  <2>1. k \in 0 .. n
    BY <1>2
  <2>2. n - k \in 0 .. n
    BY <2>1
  <2> QED
    BY <2>2
<1>4. PICK a, b : a = SubSeq(s.free, 1, j) /\ b = SubSeq(s.free, j + 1, n)
  OBVIOUS
<1>5. a \in Seq(Nat) /\ b \in Seq(Nat) /\ a \in Seq(Int)
  <2>1. \A i \in 1 .. j : s.free[i] \in Nat
    BY <1>2
  <2>2. \A i \in j + 1 .. n : s.free[i] \in Nat
    BY <1>2
  <2>3. a \in Seq(Nat)
    BY <1>4, <2>1, SubSeqProperties
  <2>4. b \in Seq(Nat)
    BY <1>4, <2>2, SubSeqProperties
  <2> QED
    BY <2>3, <2>4, SeqMonotonic
<1>6. Total(s.free) = Total(a) + Total(b)
  BY <1>1, <1>2, <1>4, TotalSplit
<1>7. DropFree(s, k) = [s EXCEPT !.alloc = s.alloc - Total(b), !.free = a]
  <2>1. n - k + 1 = j + 1
    BY <1>2, <1>3
  <2> QED
    BY <1>2, <1>3, <1>4, <2>1 DEF DropFree
<1>8. Total(a) \in Nat /\ Total(b) \in Nat
  BY <1>5, TotalNat
<1>9. PICK n2 \in Int : n2 = s.alloc - Total(b)
  BY <1>1, <1>8
<1>10. PICK t : t = [s EXCEPT !.alloc = n2, !.free = a]
  OBVIOUS
<1>11. t \in StagingType /\ t.alloc = n2 /\ t.free = a /\ t.budget = s.budget
  BY <1>5, <1>10 DEF StagingType
<1>12. DropFree(s, k) = t
  BY <1>7, <1>9, <1>10
<1> QED
  BY <1>1, <1>6, <1>8, <1>9, <1>11, <1>12 DEF Out

LEMMA MinIn ==
  ASSUME NEW T \in SUBSET Nat, T # {} PROVE Min(T) \in T
<1>1. PICK m \in T : \A k \in T : m <= k
  BY NatLeast
<1> QED
  BY <1>1 DEF Min

LEMMA RoomMade ==
  ASSUME NEW s \in StagingType, NEW len \in Int
  PROVE  \E k \in 0 .. Len(s.free) : RoomFor(s, len) = DropFree(s, k)
<1>1. Len(s.free) \in Nat
  BY LenProperties DEF StagingType
<1> DEFINE K == {k \in 0 .. Len(s.free) : k = Len(s.free) \/ DropFree(s, k).alloc + len <= s.budget}
<1>2. K \in SUBSET Nat /\ Len(s.free) \in K
  BY <1>1
<1>3. Min(K) \in K
  BY <1>2, MinIn
<1>4. RoomFor(s, len) = DropFree(s, Min(K))
  BY DEF RoomFor, DropFree
<1> QED
  BY <1>3, <1>4

LEMMA TakenCases ==
  ASSUME NEW a, NEW n
  PROVE  Taken(a, n) =
           IF Reusable(a, n) # {} THEN Reused(a, Smallest(a, Reusable(a, n)))
           ELSE IF RoomFor(a, n).alloc + n <= a.budget THEN Allocated(RoomFor(a, n), n)
           ELSE Refused(RoomFor(a, n))
  BY Zenon DEF Taken

\* A buffer that is taken is out, and nothing else changes hands.
LEMMA TakenOut ==
  ASSUME NEW s \in StagingType, NEW len \in Nat, s.alloc <= s.budget
  PROVE  /\ Taken(s, len).st \in StagingType /\ Taken(s, len).cap \in Nat
         /\ Out(Taken(s, len).st) = Out(s) + Taken(s, len).cap
         /\ Taken(s, len).st.alloc <= Taken(s, len).st.budget
<1>1. s.alloc \in Int /\ s.budget \in Nat /\ s.free \in Seq(Nat) /\ Total(s.free) \in Nat
  BY TotalNat DEF StagingType
<1>2. PICK I : I = Reusable(s, len)
  OBVIOUS
<1>3. CASE I # {}
  <2>1. PICK i : i = Smallest(s, I)
    OBVIOUS
  <2>2. i \in DOMAIN s.free
    <3>1. I \in SUBSET (DOMAIN s.free) /\ DOMAIN s.free \in SUBSET Nat /\ \A k \in I : s.free[k] \in Nat
      BY <1>1, <1>2, LenProperties DEF Reusable
    <3> DEFINE sizes == {s.free[k] : k \in I}
    <3>2. sizes \in SUBSET Nat /\ sizes # {}
      BY <1>3, <3>1
    <3>3. PICK size \in sizes : \A x \in sizes : size <= x
      BY <3>2, NatLeast
    <3> DEFINE best == {k \in I : s.free[k] = size}
    <3>4. best \in SUBSET Nat /\ best # {}
      BY <3>1, <3>3
    <3>5. PICK b \in best : \A x \in best : b <= x
      BY <3>4, NatLeast
    <3>6. \A k \in I : s.free[b] < s.free[k] \/ (s.free[b] = s.free[k] /\ b <= k)
      BY <3>1, <3>2, <3>3, <3>5
    <3>7. i \in I
      BY <2>1, <3>5, <3>6 DEF Smallest
    <3> QED
      BY <3>1, <3>7
  <2>3. s.free[i] \in Nat
    BY <1>1, <2>2, LenProperties
  <2>4. PICK q \in Seq(Nat) : q = SwapRemove(s.free, i) /\ Total(q) = Total(s.free) - s.free[i]
    BY <1>1, <2>2, SwapRemoved
  <2>5. PICK t : t = [s EXCEPT !.free = q]
    OBVIOUS
  <2>6. t \in StagingType /\ t.budget = s.budget /\ t.alloc = s.alloc /\ t.free = q
    BY <2>5 DEF StagingType
  <2>7. Taken(s, len) = Reused(s, i)
    BY <1>2, <1>3, <2>1, TakenCases
  <2>8. Reused(s, i) = [cap |-> s.free[i], st |-> t]
    BY <2>4, <2>5 DEF Reused
  <2>9. Taken(s, len).cap = s.free[i] /\ Taken(s, len).st = t
    BY <2>7, <2>8
  <2>10. t.alloc - Total(t.free) = s.alloc - Total(s.free) + s.free[i]
    BY <1>1, <2>3, <2>4, <2>6
  <2>11. t.alloc <= t.budget
    BY <2>6
  <2> QED
    BY <2>3, <2>6, <2>9, <2>10, <2>11 DEF Out
<1>4. CASE I = {}
  <2>1. PICK x : x = RoomFor(s, len)
    OBVIOUS
  <2>2. x \in StagingType /\ Out(x) = Out(s) /\ x.alloc <= s.alloc /\ x.budget = s.budget
    <3>1. len \in Int
      OBVIOUS
    <3>2. PICK k \in 0 .. Len(s.free) : x = DropFree(s, k)
      BY <2>1, <3>1, RoomMade
    <3> QED
      BY <3>2, FreeDropped
  <2>4. x.alloc \in Int /\ x.free \in Seq(Nat) /\ Total(x.free) \in Nat
    BY <2>2, TotalNat DEF StagingType
  <2>5. CASE x.alloc + len <= s.budget
    <3>0. PICK n \in Int : n = x.alloc + len
      BY <2>4
    <3>1. PICK t : t = [x EXCEPT !.alloc = n]
      OBVIOUS
    <3>2. t \in StagingType /\ t.budget = x.budget /\ t.alloc = n /\ t.free = x.free
      BY <2>2, <3>1 DEF StagingType
    <3>3. Taken(s, len) = [cap |-> len, st |-> t]
      BY <1>2, <1>4, <2>1, <2>5, <3>0, <3>1, TakenCases DEF Allocated
    <3> QED
      BY <1>1, <2>2, <2>4, <2>5, <3>0, <3>2, <3>3 DEF Out
  <2>6. CASE ~(x.alloc + len <= s.budget)
    <3>1. Taken(s, len) = [cap |-> 0, st |-> x]
      BY <1>2, <1>4, <2>1, <2>6, TakenCases DEF Refused
    <3> QED
      BY <1>1, <2>2, <2>4, <3>1 DEF Out
  <2> QED
    BY <2>5, <2>6
<1> QED
  BY <1>3, <1>4

LEMMA GivenBack ==
  ASSUME NEW s \in StagingType, NEW cap \in Nat
  PROVE  /\ Given(s, cap) \in StagingType /\ Out(Given(s, cap)) = Out(s) - cap
         /\ Given(s, cap).alloc = s.alloc /\ Given(s, cap).budget = s.budget
<1>1. s.alloc \in Int /\ s.free \in Seq(Nat) /\ s.free \in Seq(Int) /\ Total(s.free) \in Nat
  BY TotalNat, SeqMonotonic DEF StagingType
<1>2. PICK q \in Seq(Nat) : q = Append(s.free, cap)
  BY <1>1, AppendProperties
<1>3. Total(q) = Total(s.free) + cap
  BY <1>1, <1>2, TotalAppend
<1>4. Given(s, cap) = [s EXCEPT !.free = q]
  BY <1>2 DEF Given
<1>5. /\ Given(s, cap) \in StagingType /\ Given(s, cap).alloc = s.alloc /\ Given(s, cap).free = q
      /\ Given(s, cap).budget = s.budget
  BY <1>4 DEF StagingType
<1> QED
  BY <1>1, <1>3, <1>5 DEF Out

\* What warm_staging holds on the way: every buffer it took is still out.
Warming(x) ==
  /\ x.st \in StagingType /\ x.st.alloc <= x.st.budget
  /\ x.caps \in Seq(Nat) /\ Out(x.st) = Total(x.caps)

LEMMA WarmedOut ==
  ASSUME NEW x, Warming(x), NEW n \in Nat
  PROVE  Warming(Warmed(x, n))
<1>1. PICK t : t = Taken(x.st, n)
  OBVIOUS
<1>2. t.st \in StagingType /\ t.cap \in Nat /\ Out(t.st) = Out(x.st) + t.cap /\ t.st.alloc <= t.st.budget
  <2>1. x.st \in StagingType /\ x.st.alloc <= x.st.budget
    BY DEF Warming
  <2> QED
    BY <1>1, <2>1, TakenOut
<1>3. PICK q : q = IF t.cap > 0 THEN Append(x.caps, t.cap) ELSE x.caps
  OBVIOUS
<1>4. x.caps \in Seq(Nat) /\ x.caps \in Seq(Int) /\ Total(x.caps) \in Nat /\ Out(x.st) = Total(x.caps)
  <2>1. x.caps \in Seq(Nat) /\ Out(x.st) = Total(x.caps)
    BY DEF Warming
  <2> QED
    BY <2>1, TotalNat, SeqMonotonic
<1>5. q \in Seq(Nat) /\ Total(q) = Total(x.caps) + t.cap
  <2>1. Append(x.caps, t.cap) \in Seq(Nat)
    BY <1>2, <1>4, AppendProperties
  <2>2. PICK c \in Int : c = t.cap
    BY <1>2
  <2>3. PICK p \in Seq(Int) : p = x.caps
    BY <1>4
  <2>4. Total(Append(p, c)) = Total(p) + c
    BY TotalAppend
  <2> QED
    BY <1>2, <1>3, <1>4, <2>1, <2>2, <2>3, <2>4
<1>6. Warmed(x, n) = [st |-> t.st, caps |-> q]
  BY <1>1, <1>3 DEF Warmed
<1> QED
  BY <1>2, <1>4, <1>5, <1>6 DEF Warming

LEMMA NewStagingOut ==
  ASSUME NEW m, NEW size \in Nat
  PROVE  /\ NewStaging(m, size) \in StagingType /\ Out(NewStaging(m, size)) = 0
         /\ NewStaging(m, size).alloc <= NewStaging(m, size).budget
<1>1. SnapBytes \in Nat /\ ChunkLen \in Nat
  BY SizesAssumption, ChunkAssumption
<1>2. /\ NoStaging(size) \in StagingType /\ Out(NoStaging(size)) = 0
      /\ NoStaging(size).alloc <= NoStaging(size).budget
  BY TotalEmpty DEF NoStaging, StagingType, Out
<1>3. PICK x : x = [st |-> NoStaging(size), caps |-> << >>]
  OBVIOUS
<1>4. Warming(x)
  BY <1>2, <1>3, TotalEmpty DEF Warming
<1>5. PICK y : y = WarmedBoth(WarmedBoth(x)) /\ Warming(y)
  <2>1. Warming(WarmedBoth(x))
    BY <1>1, <1>4, WarmedOut DEF WarmedBoth
  <2>2. Warming(WarmedBoth(WarmedBoth(x)))
    BY <1>1, <2>1, WarmedOut DEF WarmedBoth
  <2> QED
    BY <2>2
<1>6. NewStaging(m, size) = IF m = "serial" THEN NoStaging(size) ELSE [y.st EXCEPT !.free = @ \o y.caps]
  BY <1>3, <1>5 DEF NewStaging
<1>7. /\ y.st \in StagingType /\ y.st.alloc \in Int /\ y.st.alloc <= y.st.budget /\ y.caps \in Seq(Nat)
      /\ y.st.free \in Seq(Nat) /\ y.st.alloc - Total(y.st.free) = Total(y.caps)
  BY <1>5 DEF Warming, StagingType, Out
<1>8. PICK q \in Seq(Nat) : q = y.st.free \o y.caps
  BY <1>7, ConcatProperties
<1>9. Total(q) = Total(y.st.free) + Total(y.caps) /\ Total(y.st.free) \in Nat /\ Total(y.caps) \in Nat
  <2>1. y.st.free \in Seq(Int) /\ y.caps \in Seq(Int)
    BY <1>7, SeqMonotonic
  <2>2. Total(q) = Total(y.st.free) + Total(y.caps)
    BY <1>8, <2>1, TotalConcat
  <2> QED
    BY <1>7, <2>2, TotalNat
<1>10. PICK z : z = [y.st EXCEPT !.free = q]
  OBVIOUS
<1>11. z \in StagingType /\ z.budget = y.st.budget /\ z.alloc = y.st.alloc /\ z.free = q
  BY <1>7, <1>10 DEF StagingType
<1>12. z.alloc - Total(z.free) = 0
  BY <1>7, <1>9, <1>11
<1>13. NewStaging(m, size) = IF m = "serial" THEN NoStaging(size) ELSE z
  BY <1>6, <1>8, <1>10
<1> QED
  BY <1>2, <1>7, <1>11, <1>12, <1>13 DEF Out

-----------------------------------------------------------------------------
(***************************************************************************)
(* Recursive functions over 0 .. p: value 0 is given, the others are made    *)
(* of an earlier one.                                                       *)
(***************************************************************************)
Recurs(f, p, s0, prev, step) ==
  /\ f[0] = s0
  /\ \A n \in 1 .. p : f[n] = step[<<n, f[prev[n]]>>]

LEMMA Recursion ==
  ASSUME NEW p \in Nat, NEW S, NEW s0 \in S, NEW prev \in [1 .. p -> Nat],
         \A n \in 1 .. p : prev[n] < n, NEW step \in [(1 .. p) \X S -> S]
  PROVE  \E f \in [0 .. p -> S] : Recurs(f, p, s0, prev, step)
<1> DEFINE N == {k \in Nat : k <= p => \E f \in [0 .. k -> S] : Recurs(f, k, s0, prev, step)}
<1>1. 0 \in N
  <2>1. PICK f : f = [n \in 0 .. 0 |-> s0]
    OBVIOUS
  <2>2. f \in [0 .. 0 -> S] /\ f[0] = s0 /\ \A n \in 1 .. 0 : FALSE
    BY <2>1
  <2>3. Recurs(f, 0, s0, prev, step)
    BY <2>2 DEF Recurs
  <2> QED
    BY <2>2, <2>3
<1>2. ASSUME NEW k \in Nat, k \in N PROVE k + 1 \in N
  <2>0. k + 1 \in Nat
    OBVIOUS
  <2> SUFFICES ASSUME k + 1 <= p
               PROVE  \E f \in [0 .. k + 1 -> S] : Recurs(f, k + 1, s0, prev, step)
    BY <2>0, Zenon
  <2>1. PICK f \in [0 .. k -> S] : Recurs(f, k, s0, prev, step)
    BY <1>2
  <2>2. PICK j : j = k + 1
    OBVIOUS
  <2>3. j \in 1 .. p /\ prev[j] \in 0 .. k
    BY <2>2
  <2>4. PICK y \in S : y = step[<<j, f[prev[j]]>>]
    BY <2>1, <2>3
  <2>5. PICK g : g = [n \in 0 .. j |-> IF n = j THEN y ELSE f[n]]
    OBVIOUS
  <2>6. \A n \in 0 .. j : n = j \/ n \in 0 .. k
    BY <2>2
  <2>7. g \in [0 .. j -> S] /\ g[j] = y /\ \A n \in 0 .. k : g[n] = f[n]
    <3>1. \A n \in 0 .. k : n # j /\ n \in 0 .. j
      BY <2>2
    <3>2. j \in 0 .. j
      BY <2>3
    <3> QED
      BY <2>1, <2>4, <2>5, <2>6, <3>1, <3>2
  <2>8. ASSUME NEW n \in 1 .. j PROVE g[n] = step[<<n, g[prev[n]]>>]
    <3>1. CASE n = j
      BY <2>3, <2>4, <2>7, <3>1
    <3>2. CASE n # j
      <4>1. n \in 1 .. k /\ n \in 0 .. k /\ n \in 1 .. p /\ prev[n] \in 0 .. k
        BY <2>2, <2>3, <3>2
      <4>2. f[n] = step[<<n, f[prev[n]]>>]
        BY <2>1, <4>1 DEF Recurs
      <4> QED
        BY <2>7, <4>1, <4>2
    <3> QED
      BY <3>1, <3>2
  <2>9. g[0] = s0
    <3>1. 0 \in 0 .. k
      OBVIOUS
    <3> QED
      BY <2>1, <2>7, <3>1 DEF Recurs
  <2> QED
    BY <2>2, <2>7, <2>8, <2>9 DEF Recurs
<1> HIDE DEF N
<1>3. p \in N
  BY <1>1, <1>2, NatInd
<1> QED
  BY <1>3 DEF N

-----------------------------------------------------------------------------
(***************************************************************************)
(* Only                                                                     *)
(***************************************************************************)
Filters(f, q, T) ==
  f = [n \in 0 .. Len(q) |->
         IF n = 0 THEN << >> ELSE IF q[n] \in T THEN Append(f[n - 1], q[n]) ELSE f[n - 1]]

LEMMA OnlyFilters ==
  ASSUME NEW q, NEW T
  PROVE  Only(q, T) = (CHOOSE f : Filters(f, q, T))[Len(q)]
  BY DEF Only, Filters

\* What the function of Only is.
LEMMA OnlyFunction ==
  ASSUME NEW S, NEW q \in Seq(S), NEW T
  PROVE  \E f \in [0 .. Len(q) -> Seq(S)] :
           /\ Only(q, T) = f[Len(q)]
           /\ f[0] = << >>
           /\ \A n \in 1 .. Len(q) : f[n] = IF q[n] \in T THEN Append(f[n - 1], q[n]) ELSE f[n - 1]
<1>1. PICK p \in Nat : p = Len(q) /\ \A i \in 1 .. p : q[i] \in S
  BY LenProperties
<1>2. PICK prev : prev = [n \in 1 .. p |-> n - 1]
  OBVIOUS
<1>3. prev \in [1 .. p -> Nat] /\ \A n \in 1 .. p : prev[n] < n
  BY <1>2
<1>4. PICK step : step = [x \in (1 .. p) \X Seq(S) |-> IF q[x[1]] \in T THEN Append(x[2], q[x[1]]) ELSE x[2]]
  OBVIOUS
<1>5. step \in [(1 .. p) \X Seq(S) -> Seq(S)]
  <2>1. \A x \in (1 .. p) \X Seq(S) : (IF q[x[1]] \in T THEN Append(x[2], q[x[1]]) ELSE x[2]) \in Seq(S)
    <3> SUFFICES ASSUME NEW x \in (1 .. p) \X Seq(S)
                 PROVE  (IF q[x[1]] \in T THEN Append(x[2], q[x[1]]) ELSE x[2]) \in Seq(S)
      OBVIOUS
    <3>1. x[1] \in 1 .. p /\ x[2] \in Seq(S) /\ q[x[1]] \in S
      BY <1>1
    <3>2. Append(x[2], q[x[1]]) \in Seq(S)
      BY <3>1, AppendProperties
    <3> QED
      BY <3>1, <3>2
  <2> QED
    BY <1>4, <2>1
<1>6. PICK f \in [0 .. p -> Seq(S)] : Recurs(f, p, << >>, prev, step)
  <2>1. << >> \in Seq(S)
    OBVIOUS
  <2> QED
    BY <1>3, <1>5, <2>1, Recursion
<1>7. /\ f[0] = << >>
      /\ \A n \in 1 .. p : f[n] = IF q[n] \in T THEN Append(f[n - 1], q[n]) ELSE f[n - 1]
  <2>1. f[0] = << >> /\ \A n \in 1 .. p : f[n] = step[<<n, f[prev[n]]>>]
    BY <1>6 DEF Recurs
  <2> SUFFICES ASSUME NEW n \in 1 .. p
               PROVE  f[n] = IF q[n] \in T THEN Append(f[n - 1], q[n]) ELSE f[n - 1]
    BY <2>1
  <2>2. prev[n] = n - 1 /\ n - 1 \in 0 .. p
    BY <1>2
  <2>3. f[n - 1] \in Seq(S)
    BY <2>2
  <2>4. <<n, f[n - 1]>> \in (1 .. p) \X Seq(S)
    BY <2>3
  <2>5. f[n] = step[<<n, f[n - 1]>>]
    BY <2>1, <2>2
  <2> QED
    BY <1>4, <2>4, <2>5
<1>8. Filters(f, q, T)
  <2> DEFINE F(n) == IF n = 0 THEN << >> ELSE IF q[n] \in T THEN Append(f[n - 1], q[n]) ELSE f[n - 1]
  <2>1. \A n \in 0 .. p : f[n] = F(n)
    <3> SUFFICES ASSUME NEW n \in 0 .. p PROVE f[n] = F(n)
      OBVIOUS
    <3>1. n = 0 \/ n \in 1 .. p
      OBVIOUS
    <3> QED
      BY <1>7, <3>1
  <2>2. f = [n \in 0 .. p |-> F(n)]
    BY <2>1
  <2> QED
    BY <1>1, <2>2 DEF Filters
<1>9. PICK g : Filters(g, q, T) /\ Only(q, T) = g[p]
  BY <1>1, <1>8, OnlyFilters
<1> DEFINE N == {n \in Nat : n <= p => g[n] = f[n]}
<1>10. \A n \in 0 .. p : g[n] = IF n = 0 THEN << >> ELSE IF q[n] \in T THEN Append(g[n - 1], q[n]) ELSE g[n - 1]
  BY <1>1, <1>9 DEF Filters
<1>11. 0 \in N
  <2>1. 0 \in 0 .. p
    OBVIOUS
  <2> QED
    BY <1>7, <1>10, <2>1
<1>12. ASSUME NEW n \in Nat, n \in N PROVE n + 1 \in N
  <2>0. n + 1 \in Nat
    OBVIOUS
  <2> SUFFICES ASSUME n + 1 <= p PROVE g[n + 1] = f[n + 1]
    BY <2>0, Zenon
  <2>1. PICK m : m = n + 1
    OBVIOUS
  <2>2. m \in 1 .. p /\ m \in 0 .. p /\ m # 0 /\ m - 1 = n
    BY <2>1
  <2>3. g[n] = f[n]
    BY <1>12, <2>1, <2>2
  <2>4. g[m] = IF q[m] \in T THEN Append(g[n], q[m]) ELSE g[n]
    BY <1>10, <2>2
  <2>5. f[m] = IF q[m] \in T THEN Append(f[n], q[m]) ELSE f[n]
    BY <1>7, <2>2
  <2> QED
    BY <2>1, <2>3, <2>4, <2>5
<1> HIDE DEF N
<1>13. p \in N
  BY <1>11, <1>12, NatInd
<1>14. g[p] = f[p]
  BY <1>13 DEF N
<1> QED
  BY <1>1, <1>7, <1>9, <1>14

LEMMA OnlyEmpty ==
  ASSUME NEW T PROVE Only(<< >>, T) = << >>
<1>0. << >> \in Seq({}) /\ Len(<< >>) = 0
  OBVIOUS
<1>1. PICK q \in Seq({}) : q = << >> /\ Len(q) = 0
  BY <1>0
<1>2. PICK f \in [0 .. Len(q) -> Seq({})] : Only(q, T) = f[Len(q)] /\ f[0] = << >>
  BY OnlyFunction
<1> QED
  BY <1>1, <1>2

LEMMA OnlyAppend ==
  ASSUME NEW S, NEW q \in Seq(S), NEW x \in S, NEW T
  PROVE  Only(Append(q, x), T) = IF x \in T THEN Append(Only(q, T), x) ELSE Only(q, T)
<1>1. PICK p \in Nat : p = Len(q) /\ \A i \in 1 .. p : q[i] \in S
  BY LenProperties
<1>2. PICK a \in Seq(S) : a = Append(q, x) /\ Len(a) = p + 1 /\ a[p + 1] = x /\ \A i \in 1 .. p : a[i] = q[i]
  <2>1. Append(q, x) \in Seq(S) /\ Len(Append(q, x)) = Len(q) + 1
    BY AppendProperties
  <2>2. Append(q, x)[Len(q) + 1] = x /\ \A i \in 1 .. Len(q) : Append(q, x)[i] = q[i]
    BY AppendProperties
  <2> QED
    BY <1>1, <2>1, <2>2
<1>3. PICK f :
        /\ Only(q, T) = f[p]
        /\ f[0] = << >>
        /\ \A n \in 1 .. p : f[n] = IF q[n] \in T THEN Append(f[n - 1], q[n]) ELSE f[n - 1]
  <2>1. \E f \in [0 .. Len(q) -> Seq(S)] :
           /\ Only(q, T) = f[Len(q)]
           /\ f[0] = << >>
           /\ \A n \in 1 .. Len(q) : f[n] = IF q[n] \in T THEN Append(f[n - 1], q[n]) ELSE f[n - 1]
    BY OnlyFunction
  <2> QED
    BY <1>1, <2>1
<1>4. PICK g :
        /\ Only(a, T) = g[p + 1]
        /\ g[0] = << >>
        /\ \A n \in 1 .. p + 1 : g[n] = IF a[n] \in T THEN Append(g[n - 1], a[n]) ELSE g[n - 1]
  <2>1. \E g \in [0 .. Len(a) -> Seq(S)] :
           /\ Only(a, T) = g[Len(a)]
           /\ g[0] = << >>
           /\ \A n \in 1 .. Len(a) : g[n] = IF a[n] \in T THEN Append(g[n - 1], a[n]) ELSE g[n - 1]
    BY OnlyFunction
  <2> QED
    BY <1>2, <2>1
<1> DEFINE N == {n \in Nat : n <= p => g[n] = f[n]}
<1>5. 0 \in N
  BY <1>3, <1>4
<1>6. ASSUME NEW n \in Nat, n \in N PROVE n + 1 \in N
  <2>0. n + 1 \in Nat
    OBVIOUS
  <2> SUFFICES ASSUME n + 1 <= p PROVE g[n + 1] = f[n + 1]
    BY <2>0, Zenon
  <2>1. PICK m : m = n + 1
    OBVIOUS
  <2>2. m \in 1 .. p /\ m \in 1 .. p + 1 /\ m - 1 = n
    BY <2>1
  <2>3. g[n] = f[n]
    BY <1>6, <2>1, <2>2
  <2>4. g[m] = IF a[m] \in T THEN Append(g[n], a[m]) ELSE g[n]
    BY <1>4, <2>2
  <2>5. f[m] = IF q[m] \in T THEN Append(f[n], q[m]) ELSE f[n]
    BY <1>3, <2>2
  <2>6. a[m] = q[m]
    BY <1>2, <2>2
  <2> QED
    BY <2>1, <2>3, <2>4, <2>5, <2>6
<1> HIDE DEF N
<1>7. p \in N
  BY <1>5, <1>6, NatInd
<1>8. g[p] = f[p]
  BY <1>7 DEF N
<1>9. g[p + 1] = IF x \in T THEN Append(g[p], x) ELSE g[p]
  <2>1. PICK m : m = p + 1
    OBVIOUS
  <2>2. m \in 1 .. p + 1 /\ m - 1 = p
    BY <2>1
  <2>3. g[m] = IF a[m] \in T THEN Append(g[p], a[m]) ELSE g[p]
    BY <1>4, <2>2
  <2> QED
    BY <1>2, <2>1, <2>3
<1> QED
  BY <1>2, <1>3, <1>4, <1>8, <1>9

LEMMA SetOfAppend ==
  ASSUME NEW S, NEW q \in Seq(S), NEW x \in S
  PROVE  ToSet(Append(q, x)) = ToSet(q) \cup {x}
<1>1. PICK p \in Nat : p = Len(q) /\ DOMAIN q = 1 .. p
  BY LenProperties
<1>2. PICK a \in Seq(S) : a = Append(q, x) /\ DOMAIN a = 1 .. p + 1 /\ a[p + 1] = x /\ \A i \in 1 .. p : a[i] = q[i]
  <2>1. Append(q, x) \in Seq(S) /\ Len(Append(q, x)) = Len(q) + 1
    BY AppendProperties
  <2>2. Append(q, x)[Len(q) + 1] = x /\ \A i \in 1 .. Len(q) : Append(q, x)[i] = q[i]
    BY AppendProperties
  <2>3. DOMAIN Append(q, x) = 1 .. Len(Append(q, x))
    BY <2>1, LenProperties
  <2> QED
    BY <1>1, <2>1, <2>2, <2>3
<1>3. 1 .. p + 1 = (1 .. p) \cup {p + 1}
  OBVIOUS
<1> QED
  BY <1>1, <1>2, <1>3 DEF ToSet

LEMMA OnlySeq ==
  ASSUME NEW S, NEW q \in Seq(S), NEW T
  PROVE  Only(q, T) \in Seq(S) /\ ToSet(Only(q, T)) = ToSet(q) \cap T
<1> DEFINE P == {u \in Seq(S) : Only(u, T) \in Seq(S) /\ ToSet(Only(u, T)) = ToSet(u) \cap T}
<1>1. << >> \in P
  <2>1. Only(<< >>, T) = << >> /\ << >> \in Seq(S) /\ ToSet(<< >>) = {}
    BY OnlyEmpty DEF ToSet
  <2> QED
    BY <2>1
<1>2. ASSUME NEW u \in Seq(S), NEW x \in S, u \in P PROVE Append(u, x) \in P
  <2>1. Append(u, x) \in Seq(S) /\ ToSet(Append(u, x)) = ToSet(u) \cup {x}
    BY AppendProperties, SetOfAppend
  <2>2. PICK o \in Seq(S) : o = Only(u, T) /\ ToSet(o) = ToSet(u) \cap T
    BY <1>2
  <2>3. Append(o, x) \in Seq(S) /\ ToSet(Append(o, x)) = ToSet(o) \cup {x}
    BY AppendProperties, SetOfAppend
  <2>4. Only(Append(u, x), T) = IF x \in T THEN Append(o, x) ELSE o
    BY <2>2, OnlyAppend
  <2> QED
    BY <2>1, <2>2, <2>3, <2>4
<1> HIDE DEF P
<1>3. q \in P
  BY <1>1, <1>2, SeqInd
<1> QED
  BY <1>3 DEF P

LEMMA SizeEmpty == SizeOf(<< >>) = 0
<1>1. [i \in DOMAIN << >> |-> Footprint(<< >>[i])] = << >>
  OBVIOUS
<1> QED
  BY <1>1, TotalEmpty DEF SizeOf

LEMMA Appended ==
  ASSUME NEW S, NEW q \in Seq(S), NEW x \in S
  PROVE  /\ Append(q, x) \in Seq(S) /\ Len(q) \in Nat /\ Len(Append(q, x)) = Len(q) + 1
         /\ DOMAIN q = 1 .. Len(q)
         /\ DOMAIN Append(q, x) = (1 .. Len(q)) \cup {Len(q) + 1} /\ Len(q) + 1 \notin 1 .. Len(q)
         /\ Append(q, x)[Len(q) + 1] = x /\ \A i \in 1 .. Len(q) : Append(q, x)[i] = q[i]
<1>1. Append(q, x) \in Seq(S) /\ Len(Append(q, x)) = Len(q) + 1
  BY AppendProperties
<1>2. Append(q, x)[Len(q) + 1] = x /\ \A i \in 1 .. Len(q) : Append(q, x)[i] = q[i]
  BY AppendProperties
<1>3. DOMAIN Append(q, x) = 1 .. Len(Append(q, x)) /\ DOMAIN q = 1 .. Len(q) /\ Len(q) \in Nat
  BY <1>1, LenProperties
<1>4. 1 .. Len(q) + 1 = (1 .. Len(q)) \cup {Len(q) + 1} /\ Len(q) + 1 \notin 1 .. Len(q)
  BY <1>3
<1> QED
  BY <1>1, <1>2, <1>3, <1>4

LEMMA ConcatAppend ==
  ASSUME NEW S, NEW p \in Seq(S), NEW q \in Seq(S), NEW x \in S
  PROVE  p \o Append(q, x) = Append(p \o q, x)
<1>1. Append(q, x) = q \o <<x>> /\ p \o q \in Seq(S) /\ <<x>> \in Seq(S)
  BY AppendIsConcat, ConcatProperties
<1>2. Append(p \o q, x) = (p \o q) \o <<x>>
  BY <1>1, AppendIsConcat
<1> QED
  BY <1>1, <1>2, ConcatAssociative

LEMMA SetOfConcat ==
  ASSUME NEW S, NEW p \in Seq(S), NEW q \in Seq(S)
  PROVE  p \o q \in Seq(S) /\ ToSet(p \o q) = ToSet(p) \cup ToSet(q)
<1> DEFINE P == {u \in Seq(S) : p \o u \in Seq(S) /\ ToSet(p \o u) = ToSet(p) \cup ToSet(u)}
<1>1. << >> \in P
  <2>1. << >> \in Seq(S) /\ ToSet(<< >>) = {}
    BY DEF ToSet
  <2>2. p \o << >> = p
    BY ConcatEmptySeq
  <2> QED
    BY <2>1, <2>2
<1>2. ASSUME NEW u \in Seq(S), NEW x \in S, u \in P PROVE Append(u, x) \in P
  <2>1. Append(u, x) \in Seq(S) /\ ToSet(Append(u, x)) = ToSet(u) \cup {x}
    BY Appended, SetOfAppend
  <2>2. PICK o \in Seq(S) : o = p \o u /\ ToSet(o) = ToSet(p) \cup ToSet(u)
    BY <1>2
  <2>3. Append(o, x) \in Seq(S) /\ ToSet(Append(o, x)) = ToSet(o) \cup {x}
    BY Appended, SetOfAppend
  <2>4. p \o Append(u, x) = Append(o, x)
    BY <2>2, ConcatAppend
  <2> QED
    BY <2>1, <2>2, <2>3, <2>4
<1> HIDE DEF P
<1>3. q \in P
  BY <1>1, <1>2, SeqInd
<1> QED
  BY <1>3 DEF P

\* Filtering looks at the elements of the sequence only.
LEMMA OnlySame ==
  ASSUME NEW S, NEW q \in Seq(S), NEW T, NEW U, ToSet(q) \cap T = ToSet(q) \cap U
  PROVE  Only(q, T) = Only(q, U)
<1> DEFINE P == {u \in Seq(S) : ToSet(u) \cap T = ToSet(u) \cap U => Only(u, T) = Only(u, U)}
<1>1. << >> \in P
  <2>1. << >> \in Seq(S) /\ Only(<< >>, T) = << >> /\ Only(<< >>, U) = << >>
    BY OnlyEmpty
  <2> QED
    BY <2>1
<1>2. ASSUME NEW u \in Seq(S), NEW x \in S, u \in P PROVE Append(u, x) \in P
  <2>1. Append(u, x) \in Seq(S) /\ ToSet(Append(u, x)) = ToSet(u) \cup {x}
    BY Appended, SetOfAppend
  <2>2. Only(Append(u, x), T) = IF x \in T THEN Append(Only(u, T), x) ELSE Only(u, T)
    BY OnlyAppend
  <2>3. Only(Append(u, x), U) = IF x \in U THEN Append(Only(u, U), x) ELSE Only(u, U)
    BY OnlyAppend
  <2> SUFFICES ASSUME ToSet(Append(u, x)) \cap T = ToSet(Append(u, x)) \cap U
               PROVE  Only(Append(u, x), T) = Only(Append(u, x), U)
    BY <2>1
  <2>4. ToSet(u) \cap T = ToSet(u) \cap U /\ (x \in T <=> x \in U)
    BY <2>1
  <2>5. Only(u, T) = Only(u, U)
    BY <1>2, <2>4
  <2> QED
    BY <2>2, <2>3, <2>4, <2>5
<1> HIDE DEF P
<1>3. q \in P
  BY <1>1, <1>2, SeqInd
<1> QED
  BY <1>3 DEF P

\* The names of a sequence of objects, and their being different.
NamesOf(q) == {Name(o) : o \in ToSet(q)}
Apart(q) == \A i, j \in DOMAIN q : Name(q[i]) = Name(q[j]) => i = j

LEMMA ApartAppend ==
  ASSUME NEW S, NEW q \in Seq(S), NEW x \in S, Apart(q), Name(x) \notin NamesOf(q)
  PROVE  Apart(Append(q, x))
<1>1. PICK n \in Nat : n = Len(q) /\ DOMAIN q = 1 .. n
  BY LenProperties
<1>2. PICK a : /\ a = Append(q, x) /\ DOMAIN a = (1 .. n) \cup {n + 1} /\ n + 1 \notin 1 .. n
               /\ a[n + 1] = x /\ \A i \in 1 .. n : a[i] = q[i]
  <2>1. /\ DOMAIN Append(q, x) = (1 .. Len(q)) \cup {Len(q) + 1} /\ Len(q) + 1 \notin 1 .. Len(q)
        /\ Append(q, x)[Len(q) + 1] = x /\ \A i \in 1 .. Len(q) : Append(q, x)[i] = q[i]
    BY Appended
  <2> QED
    BY <1>1, <2>1
<1>3. \A i \in 1 .. n : Name(q[i]) # Name(x)
  BY <1>1 DEF NamesOf, ToSet
<1> SUFFICES ASSUME NEW i \in DOMAIN a, NEW j \in DOMAIN a, Name(a[i]) = Name(a[j]) PROVE i = j
  BY <1>2 DEF Apart
<1>4. CASE i \in 1 .. n /\ j \in 1 .. n
  BY <1>1, <1>2, <1>4 DEF Apart
<1>5. CASE i \in 1 .. n /\ j = n + 1
  BY <1>2, <1>3, <1>5
<1>6. CASE i = n + 1 /\ j \in 1 .. n
  BY <1>2, <1>3, <1>6
<1> QED
  BY <1>2, <1>4, <1>5, <1>6

LEMMA ApartBefore ==
  ASSUME NEW S, NEW q \in Seq(S), NEW x \in S, Apart(Append(q, x))
  PROVE  Apart(q) /\ Name(x) \notin NamesOf(q)
<1>1. PICK n \in Nat : n = Len(q) /\ DOMAIN q = 1 .. n
  BY LenProperties
<1>2. PICK a : /\ a = Append(q, x) /\ DOMAIN a = (1 .. n) \cup {n + 1} /\ n + 1 \notin 1 .. n
               /\ a[n + 1] = x /\ \A i \in 1 .. n : a[i] = q[i]
  <2>1. /\ DOMAIN Append(q, x) = (1 .. Len(q)) \cup {Len(q) + 1} /\ Len(q) + 1 \notin 1 .. Len(q)
        /\ Append(q, x)[Len(q) + 1] = x /\ \A i \in 1 .. Len(q) : Append(q, x)[i] = q[i]
    BY Appended
  <2> QED
    BY <1>1, <2>1
<1>3. \A i, j \in DOMAIN a : Name(a[i]) = Name(a[j]) => i = j
  BY <1>2 DEF Apart
<1>4. \A i, j \in 1 .. n : Name(q[i]) = Name(q[j]) => i = j
  BY <1>2, <1>3
<1>5. \A i \in 1 .. n : Name(q[i]) # Name(x)
  BY <1>2, <1>3
<1> QED
  BY <1>1, <1>4, <1>5 DEF Apart, NamesOf, ToSet

LEMMA OnlyApart ==
  ASSUME NEW S, NEW q \in Seq(S), NEW T, Apart(q)
  PROVE  Apart(Only(q, T))
<1> DEFINE P == {u \in Seq(S) : Apart(u) => Apart(Only(u, T))}
<1>1. << >> \in P
  <2>1. << >> \in Seq(S) /\ Only(<< >>, T) = << >>
    BY OnlyEmpty
  <2> QED
    BY <2>1
<1>2. ASSUME NEW u \in Seq(S), NEW x \in S, u \in P PROVE Append(u, x) \in P
  <2>1. Append(u, x) \in Seq(S)
    BY Appended
  <2> SUFFICES ASSUME Apart(Append(u, x)) PROVE Apart(Only(Append(u, x), T))
    BY <2>1
  <2>2. Apart(u) /\ Name(x) \notin NamesOf(u)
    BY ApartBefore
  <2>3. PICK o \in Seq(S) : o = Only(u, T) /\ ToSet(o) = ToSet(u) \cap T /\ Apart(o)
    BY <1>2, <2>2, OnlySeq
  <2>4. Name(x) \notin NamesOf(o)
    BY <2>2, <2>3 DEF NamesOf
  <2>5. Apart(Append(o, x))
    BY <2>3, <2>4, ApartAppend
  <2>6. Only(Append(u, x), T) = IF x \in T THEN Append(o, x) ELSE o
    BY <2>3, OnlyAppend
  <2> QED
    BY <2>3, <2>5, <2>6
<1> HIDE DEF P
<1>3. q \in P
  BY <1>1, <1>2, SeqInd
<1> QED
  BY <1>3 DEF P

LEMMA ApartConcat ==
  ASSUME NEW S, NEW p \in Seq(S), NEW q \in Seq(S), Apart(p), Apart(q), NamesOf(p) \cap NamesOf(q) = {}
  PROVE  Apart(p \o q)
<1> DEFINE P == {u \in Seq(S) : Apart(u) /\ NamesOf(p) \cap NamesOf(u) = {} => Apart(p \o u)}
<1>1. << >> \in P
  <2>1. << >> \in Seq(S) /\ p \o << >> = p
    BY ConcatEmptySeq
  <2> QED
    BY <2>1
<1>2. ASSUME NEW u \in Seq(S), NEW x \in S, u \in P PROVE Append(u, x) \in P
  <2>1. Append(u, x) \in Seq(S) /\ ToSet(Append(u, x)) = ToSet(u) \cup {x}
    BY Appended, SetOfAppend
  <2> SUFFICES ASSUME Apart(Append(u, x)), NamesOf(p) \cap NamesOf(Append(u, x)) = {}
               PROVE  Apart(p \o Append(u, x))
    BY <2>1
  <2>2. Apart(u) /\ Name(x) \notin NamesOf(u)
    BY ApartBefore
  <2>3. NamesOf(p) \cap NamesOf(u) = {} /\ Name(x) \notin NamesOf(p)
    BY <2>1 DEF NamesOf
  <2>4. PICK o \in Seq(S) : o = p \o u /\ ToSet(o) = ToSet(p) \cup ToSet(u) /\ Apart(o)
    <3>1. Apart(p \o u)
      BY <1>2, <2>2, <2>3
    <3>2. p \o u \in Seq(S) /\ ToSet(p \o u) = ToSet(p) \cup ToSet(u)
      BY SetOfConcat
    <3> QED
      BY <3>1, <3>2
  <2>5. Name(x) \notin NamesOf(o)
    BY <2>2, <2>3, <2>4 DEF NamesOf
  <2>6. Apart(Append(o, x))
    BY <2>4, <2>5, ApartAppend
  <2>7. p \o Append(u, x) = Append(p \o u, x)
    BY ConcatAppend
  <2> QED
    BY <2>4, <2>6, <2>7
<1> HIDE DEF P
<1>3. q \in P
  BY <1>1, <1>2, SeqInd
<1> QED
  BY <1>3 DEF P

Sized(S) == \A o \in S : Footprint(o) \in Nat

LEMMA SizesSeq ==
  ASSUME NEW S, Sized(S), NEW q \in Seq(S)
  PROVE  [i \in DOMAIN q |-> Footprint(q[i])] \in Seq(Nat) /\ SizeOf(q) \in Nat
<1>1. PICK n \in Nat : n = Len(q) /\ DOMAIN q = 1 .. n /\ \A i \in 1 .. n : q[i] \in S
  BY LenProperties
<1>2. PICK z : z = [i \in DOMAIN q |-> Footprint(q[i])]
  OBVIOUS
<1>3. z \in [1 .. n -> Nat]
  BY <1>1, <1>2 DEF Sized
<1>4. z \in Seq(Nat)
  BY <1>3, SeqDef
<1>5. Total(z) \in Nat
  BY <1>4, TotalNat
<1> QED
  BY <1>2, <1>4, <1>5 DEF SizeOf

LEMMA SizeAppend ==
  ASSUME NEW S, Sized(S), NEW q \in Seq(S), NEW x \in S
  PROVE  SizeOf(Append(q, x)) = SizeOf(q) + Footprint(x)
<1>1. PICK n \in Nat : n = Len(q) /\ DOMAIN q = 1 .. n
  BY LenProperties
<1>2. PICK a : a = Append(q, x)
  OBVIOUS
<1>3. /\ DOMAIN a = (1 .. n) \cup {n + 1} /\ n + 1 \notin 1 .. n
      /\ a[n + 1] = x /\ \A i \in 1 .. n : a[i] = q[i]
  <2>1. /\ DOMAIN Append(q, x) = (1 .. Len(q)) \cup {Len(q) + 1} /\ Len(q) + 1 \notin 1 .. Len(q)
        /\ Append(q, x)[Len(q) + 1] = x /\ \A i \in 1 .. Len(q) : Append(q, x)[i] = q[i]
    BY Appended
  <2> QED
    BY <1>1, <1>2, <2>1
<1>4. PICK z : z = [i \in DOMAIN q |-> Footprint(q[i])]
  OBVIOUS
<1>5. PICK y : y = [i \in DOMAIN a |-> Footprint(a[i])]
  OBVIOUS
<1>6. PICK c \in Nat : c = Footprint(x)
  BY DEF Sized
<1>7. z \in Seq(Nat) /\ z \in Seq(Int) /\ Len(z) = n /\ DOMAIN z = 1 .. n
  <2>1. z \in Seq(Nat)
    BY <1>4, SizesSeq
  <2>2. DOMAIN z = 1 .. n
    BY <1>1, <1>4
  <2>3. DOMAIN z = 1 .. Len(z) /\ Len(z) \in Nat
    BY <2>1, LenProperties
  <2>4. Len(z) = n
    BY <2>2, <2>3
  <2> QED
    BY <2>1, <2>2, <2>4, SeqMonotonic
<1>8. y = Append(z, c)
  <2>1. PICK b : b = Append(z, c)
    OBVIOUS
  <2>2. /\ b \in Seq(Nat) /\ DOMAIN b = (1 .. n) \cup {n + 1}
        /\ b[n + 1] = c /\ \A i \in 1 .. n : b[i] = z[i]
    <3>1. /\ Append(z, c) \in Seq(Nat) /\ DOMAIN Append(z, c) = (1 .. Len(z)) \cup {Len(z) + 1}
          /\ Append(z, c)[Len(z) + 1] = c /\ \A i \in 1 .. Len(z) : Append(z, c)[i] = z[i]
      BY <1>7, Appended
    <3> QED
      BY <1>7, <2>1, <3>1
  <2>3. \A i \in (1 .. n) \cup {n + 1} : b[i] = y[i]
    <3>1. \A i \in 1 .. n : b[i] = Footprint(q[i]) /\ y[i] = Footprint(a[i]) /\ a[i] = q[i]
      BY <1>1, <1>3, <1>4, <1>5, <2>2
    <3>2. b[n + 1] = y[n + 1]
      BY <1>3, <1>5, <1>6, <2>2
    <3> QED
      BY <3>1, <3>2
  <2>4. b = [i \in DOMAIN b |-> b[i]]
    <3>1. DOMAIN b = 1 .. Len(b) /\ Len(b) \in Nat /\ b \in [1 .. Len(b) -> Nat]
      BY <2>2, LenProperties
    <3> QED
      BY <3>1
  <2>5. y = [i \in DOMAIN b |-> y[i]]
    BY <1>3, <1>5, <2>2
  <2> QED
    BY <2>1, <2>2, <2>3, <2>4, <2>5
<1>9. Total(Append(z, c)) = Total(z) + c
  <2>1. c \in Int
    OBVIOUS
  <2> QED
    BY <1>7, <2>1, TotalAppend
<1> QED
  BY <1>2, <1>4, <1>5, <1>6, <1>8, <1>9 DEF SizeOf

LEMMA SizeConcat ==
  ASSUME NEW S, Sized(S), NEW p \in Seq(S), NEW q \in Seq(S)
  PROVE  SizeOf(p \o q) = SizeOf(p) + SizeOf(q)
<1> DEFINE P == {u \in Seq(S) : SizeOf(p \o u) = SizeOf(p) + SizeOf(u)}
<1>0. SizeOf(p) \in Nat
  BY SizesSeq
<1>1. << >> \in P
  <2>1. << >> \in Seq(S) /\ p \o << >> = p
    BY ConcatEmptySeq
  <2> QED
    BY <1>0, <2>1, SizeEmpty
<1>2. ASSUME NEW u \in Seq(S), NEW x \in S, u \in P PROVE Append(u, x) \in P
  <2>1. Append(u, x) \in Seq(S) /\ p \o u \in Seq(S)
    BY Appended, SetOfConcat
  <2>2. p \o Append(u, x) = Append(p \o u, x)
    BY ConcatAppend
  <2>3. SizeOf(Append(p \o u, x)) = SizeOf(p \o u) + Footprint(x)
    BY <2>1, SizeAppend
  <2>4. SizeOf(Append(u, x)) = SizeOf(u) + Footprint(x)
    BY SizeAppend
  <2>5. SizeOf(u) \in Nat /\ Footprint(x) \in Nat
    BY SizesSeq DEF Sized
  <2>6. SizeOf(p \o u) = SizeOf(p) + SizeOf(u)
    BY <1>2
  <2>7. SizeOf(p \o Append(u, x)) = SizeOf(p) + SizeOf(Append(u, x))
    <3>1. PICK a \in Nat, b \in Nat, c \in Nat : a = SizeOf(p) /\ b = SizeOf(u) /\ c = Footprint(x)
      BY <1>0, <2>5
    <3>2. SizeOf(p \o Append(u, x)) = (a + b) + c /\ SizeOf(Append(u, x)) = b + c
      BY <2>2, <2>3, <2>4, <2>6, <3>1
    <3> QED
      BY <3>1, <3>2
  <2> QED
    BY <2>1, <2>7
<1> HIDE DEF P
<1>3. q \in P
  BY <1>1, <1>2, SeqInd
<1> QED
  BY <1>3 DEF P

\* Filtering splits the size.
LEMMA SizeSplit ==
  ASSUME NEW S, Sized(S), NEW q \in Seq(S), NEW T
  PROVE  /\ SizeOf(Only(q, T)) \in Nat /\ SizeOf(Only(q, S \ T)) \in Nat
         /\ SizeOf(q) = SizeOf(Only(q, T)) + SizeOf(Only(q, S \ T))
<1> DEFINE P == {u \in Seq(S) : SizeOf(u) = SizeOf(Only(u, T)) + SizeOf(Only(u, S \ T))}
<1>1. << >> \in P
  <2>1. << >> \in Seq(S) /\ Only(<< >>, T) = << >> /\ Only(<< >>, S \ T) = << >>
    BY OnlyEmpty
  <2> QED
    BY <2>1, SizeEmpty
<1>2. ASSUME NEW u \in Seq(S), NEW x \in S, u \in P PROVE Append(u, x) \in P
  <2>1. Append(u, x) \in Seq(S)
    BY Appended
  <2>2. PICK a \in Seq(S), b \in Seq(S) : a = Only(u, T) /\ b = Only(u, S \ T)
    BY OnlySeq
  <2>3. Only(Append(u, x), T) = IF x \in T THEN Append(a, x) ELSE a
    BY <2>2, OnlyAppend
  <2>4. Only(Append(u, x), S \ T) = IF x \in S \ T THEN Append(b, x) ELSE b
    BY <2>2, OnlyAppend
  <2>5. /\ SizeOf(Append(u, x)) = SizeOf(u) + Footprint(x)
        /\ SizeOf(Append(a, x)) = SizeOf(a) + Footprint(x)
        /\ SizeOf(Append(b, x)) = SizeOf(b) + Footprint(x)
    BY SizeAppend
  <2>6. SizeOf(u) \in Nat /\ SizeOf(a) \in Nat /\ SizeOf(b) \in Nat /\ Footprint(x) \in Nat
    BY SizesSeq DEF Sized
  <2>7. SizeOf(u) = SizeOf(a) + SizeOf(b)
    BY <1>2, <2>2
  <2>8. SizeOf(Append(u, x)) = SizeOf(Only(Append(u, x), T)) + SizeOf(Only(Append(u, x), S \ T))
    <3>1. CASE x \in T
      <4>1. Only(Append(u, x), T) = Append(a, x) /\ Only(Append(u, x), S \ T) = b
        BY <2>3, <2>4, <3>1
      <4>2. PICK k \in Nat, m \in Nat, n \in Nat : k = SizeOf(a) /\ m = SizeOf(b) /\ n = Footprint(x)
        BY <2>6
      <4> QED
        BY <2>5, <2>7, <4>1, <4>2
    <3>2. CASE x \notin T
      <4>1. Only(Append(u, x), T) = a /\ Only(Append(u, x), S \ T) = Append(b, x)
        BY <2>3, <2>4, <3>2
      <4>2. PICK k \in Nat, m \in Nat, n \in Nat : k = SizeOf(a) /\ m = SizeOf(b) /\ n = Footprint(x)
        BY <2>6
      <4>3. SizeOf(Append(u, x)) = (k + m) + n /\ SizeOf(Append(b, x)) = m + n
        BY <2>5, <2>7, <4>2
      <4>4. SizeOf(Only(Append(u, x), S \ T)) = m + n /\ SizeOf(Only(Append(u, x), T)) = k
        BY <4>1, <4>2, <4>3
      <4>5. SizeOf(Append(u, x)) = k + (m + n)
        BY <4>3
      <4> QED
        BY <4>4, <4>5
    <3> QED
      BY <3>1, <3>2
  <2> QED
    BY <2>1, <2>8
<1> HIDE DEF P
<1>3. q \in P
  BY <1>1, <1>2, SeqInd
<1>4. Only(q, T) \in Seq(S) /\ Only(q, S \ T) \in Seq(S)
  BY OnlySeq
<1>5. SizeOf(Only(q, T)) \in Nat /\ SizeOf(Only(q, S \ T)) \in Nat
  BY <1>4, SizesSeq
<1> QED
  BY <1>3, <1>5 DEF P

-----------------------------------------------------------------------------
(***************************************************************************)
(* Objects                                                                  *)
(***************************************************************************)
LEMMA PrefixIs ==
  ASSUME NEW text \in Seq(Token), NEW n \in 0 .. Len(text)
  PROVE  /\ Prefix(text, n) \in Seq(Token) /\ Len(Prefix(text, n)) = n /\ n \in Nat
         /\ \A i \in 1 .. n : Prefix(text, n)[i] = text[i]
<1>1. Len(text) \in Nat /\ \A i \in 1 .. Len(text) : text[i] \in Token
  BY LenProperties
<1>2. \A i \in 1 .. n : text[i] \in Token
  BY <1>1
<1>3. SubSeq(text, 1, n) \in Seq(Token) /\ Len(SubSeq(text, 1, n)) = n
  <2>1. SubSeq(text, 1, n) \in Seq(Token)
    BY <1>2, SubSeqProperties
  <2>2. Len(SubSeq(text, 1, n)) = IF 1 <= n THEN n - 1 + 1 ELSE 0
    BY <1>1, <1>2, SubSeqProperties
  <2> QED
    BY <1>1, <2>1, <2>2
<1>4. \A i \in 1 .. n : SubSeq(text, 1, n)[i] = text[i]
  <2>1. \A i \in 1 .. n - 1 + 1 : SubSeq(text, 1, n)[i] = text[1 + i - 1]
    BY <1>1, <1>2, SubSeqProperties
  <2> SUFFICES ASSUME NEW i \in 1 .. n PROVE SubSeq(text, 1, n)[i] = text[i]
    OBVIOUS
  <2>2. i \in 1 .. n - 1 + 1 /\ 1 + i - 1 = i
    BY <1>1
  <2> QED
    BY <2>1, <2>2
<1> QED
  BY <1>1, <1>3, <1>4 DEF Prefix

LEMMA PrefixOfPrefix ==
  ASSUME NEW text \in Seq(Token), NEW n \in 0 .. Len(text), NEW k \in 0 .. n
  PROVE  Prefix(Prefix(text, n), k) = Prefix(text, k)
<1>1. Len(text) \in Nat /\ k \in 0 .. Len(text)
  BY LenProperties
<1>2. PICK a : a = Prefix(text, n)
  OBVIOUS
<1>3. a \in Seq(Token) /\ Len(a) = n /\ \A i \in 1 .. n : a[i] = text[i]
  BY <1>2, PrefixIs
<1>4. PICK b : b = Prefix(a, k)
  OBVIOUS
<1>5. b \in Seq(Token) /\ Len(b) = k /\ \A i \in 1 .. k : b[i] = a[i]
  <2>1. k \in 0 .. Len(a)
    BY <1>3
  <2> QED
    BY <1>3, <1>4, <2>1, PrefixIs
<1>6. PICK c : c = Prefix(text, k)
  OBVIOUS
<1>7. c \in Seq(Token) /\ Len(c) = k /\ \A i \in 1 .. k : c[i] = text[i]
  BY <1>1, <1>6, PrefixIs
<1>8. \A i \in 1 .. k : b[i] = c[i]
  BY <1>1, <1>3, <1>5, <1>7
<1>9. b = c
  BY <1>5, <1>7, <1>8, SeqEqual
<1> QED
  BY <1>2, <1>4, <1>6, <1>9

LEMMA RequestIs ==
  ASSUME NEW q \in ToSet(Requests)
  PROVE  /\ q \in [prompt : Seq(Token), full : Seq(Token)]
         /\ q.prompt \in Seq(Token) /\ q.full \in Seq(Token)
         /\ Len(q.prompt) \in 0 .. Len(q.full) /\ q.prompt = Prefix(q.full, Len(q.prompt))
<1>1. PICK all \in Seq([prompt : Seq(Token), full : Seq(Token)]) : all = Requests
  BY RequestsAssumption
<1>2. PICK i \in 1 .. Len(all) : q = all[i]
  <2>1. DOMAIN all = 1 .. Len(all)
    BY LenProperties
  <2> QED
    BY <1>1, <2>1 DEF ToSet
<1>3. q \in [prompt : Seq(Token), full : Seq(Token)]
  BY <1>2, ElementOfSeq
<1>4. q.prompt \in Seq(Token) /\ q.full \in Seq(Token)
  BY <1>3
<1>5. Len(q.prompt) \in Nat /\ Len(q.full) \in Nat
  BY <1>4, LenProperties
<1>6. Len(q.prompt) <= Len(q.full) /\ q.prompt = Prefix(q.full, Len(q.prompt))
  BY RequestsAssumption
<1> QED
  BY <1>3, <1>4, <1>5, <1>6

\* What an object of the requests is.
ObjectOf(o, text) ==
  /\ o.kind \in {"rows", "snapshot"}
  /\ o.text \in Seq(Token) /\ Len(o.text) \in 1 .. Len(text) /\ o.text = Prefix(text, Len(o.text))
  /\ o.kind = "rows" => o.start \in 0 .. Len(o.text) - 1
  /\ o.kind = "snapshot" => o.start = Len(o.text)
  /\ o.role = RoleOf[text[Len(o.text)]] /\ o.role \in Role

LEMMA ObjectIs ==
  ASSUME NEW o \in Objects
  PROVE  /\ \E q \in ToSet(Requests) : ObjectOf(o, q.full)
         /\ o.kind \in {"rows", "snapshot"} /\ o.text \in Seq(Token)
         /\ Len(o.text) \in Nat \ {0}
         /\ o.start \in Nat /\ (o.kind = "rows" => o.start < Len(o.text))
         /\ Bytes(o) \in Nat /\ Footprint(o) \in Nat /\ o.role \in Role
<1>1. PICK q \in ToSet(Requests) : o \in ObjectsOf(q.full)
  BY DEF Objects
<1>2. PICK text \in Seq(Token) : text = q.full
  <2>1. q \in [prompt : Seq(Token), full : Seq(Token)]
    BY RequestIs
  <2> QED
    BY <2>1
<1>3. Len(text) \in Nat /\ DOMAIN text = 1 .. Len(text) /\ \A i \in 1 .. Len(text) : text[i] \in Token
  BY LenProperties
<1>4. PICK n \in DOMAIN text : \/ \E s \in 0 .. n - 1 : o = Rows(Prefix(text, n), s, RoleOf[text[n]])
                               \/ o = Snapshot(Prefix(text, n), RoleOf[text[n]])
  BY <1>1, <1>2 DEF ObjectsOf
<1>5. n \in 1 .. Len(text) /\ n \in 0 .. Len(text) /\ RoleOf[text[n]] \in Role
  BY <1>3 DEF Role
<1>6. PICK p \in Seq(Token) : p = Prefix(text, n) /\ Len(p) = n
  BY <1>5, PrefixIs
<1>7. CASE o.kind = "rows"
  <2>1. PICK s \in 0 .. n - 1 : o = [kind |-> "rows", text |-> p, start |-> s, role |-> RoleOf[text[n]]]
    BY <1>4, <1>6, <1>7 DEF Rows, Snapshot
  <2>2. ObjectOf(o, text)
    BY <1>5, <1>6, <2>1 DEF ObjectOf
  <2>3. SnapBytes \in Nat /\ Bytes(o) = n - s
    BY <1>6, <1>7, <2>1, SizesAssumption DEF Bytes
  <2> QED
    BY <1>1, <1>2, <1>5, <1>6, <2>1, <2>2, <2>3 DEF Footprint
<1>8. CASE o.kind # "rows"
  <2>1. o = [kind |-> "snapshot", text |-> p, start |-> n, role |-> RoleOf[text[n]]]
    BY <1>4, <1>6, <1>8 DEF Rows, Snapshot
  <2>2. ObjectOf(o, text)
    BY <1>5, <1>6, <2>1 DEF ObjectOf
  <2>3. SnapBytes \in Nat /\ Bytes(o) = SnapBytes
    BY <1>8, SizesAssumption DEF Bytes
  <2> QED
    BY <1>1, <1>2, <1>5, <1>6, <2>1, <2>2, <2>3 DEF Footprint
<1> QED
  BY <1>7, <1>8

LEMMA ObjectsSized == Sized(Objects)
  BY ObjectIs DEF Sized

-----------------------------------------------------------------------------
(***************************************************************************)
(* The index                                                                *)
(***************************************************************************)
IndexType == [order : Seq(Objects), used : Int]

\* One entry of each name, counted with its size.
Counted(x) == x \in IndexType /\ Apart(x.order) /\ x.used = SizeOf(x.order)

LEMMA NamesIs ==
  ASSUME NEW x PROVE Names(x) = NamesOf(x.order)
  BY DEF Names, NamesOf

LEMMA OthersIs ==
  ASSUME NEW x \in IndexType, NEW T
  PROVE  /\ Others(x, T) = Only(x.order, Objects \ T)
         /\ Others(x, T) \in Seq(Objects) /\ ToSet(Others(x, T)) = ToSet(x.order) \ T
<1>1. PICK q \in Seq(Objects) : q = x.order
  BY DEF IndexType
<1>2. ToSet(q) \in SUBSET Objects
  BY LenProperties DEF ToSet
<1>3. ToSet(q) \cap (ToSet(q) \ T) = ToSet(q) \cap (Objects \ T)
  BY <1>2
<1>4. Only(q, ToSet(q) \ T) = Only(q, Objects \ T)
  BY <1>3, OnlySame
<1>5. Only(q, Objects \ T) \in Seq(Objects) /\ ToSet(Only(q, Objects \ T)) = ToSet(q) \cap (Objects \ T)
  BY OnlySeq
<1>6. Others(x, T) = Only(q, ToSet(q) \ T)
  BY <1>1 DEF Others
<1> QED
  BY <1>1, <1>2, <1>4, <1>5, <1>6

LEMMA DroppedIs ==
  ASSUME NEW x \in IndexType, NEW S
  PROVE  /\ Dropped(x, S) \in IndexType
         /\ ToSet(Dropped(x, S).order) = {o \in ToSet(x.order) : Name(o) \notin S}
         /\ Names(Dropped(x, S)) = Names(x) \ S
         /\ Counted(x) => Counted(Dropped(x, S))
<1>1. PICK q \in Seq(Objects) : q = x.order
  BY DEF IndexType
<1>2. PICK it : it = Named(x, S)
  OBVIOUS
<1>3. PICK a \in Seq(Objects) : a = Others(x, it) /\ a = Only(q, Objects \ it) /\ ToSet(a) = ToSet(q) \ it
  BY <1>1, OthersIs
<1>4. PICK b \in Seq(Objects) : b = Only(q, it)
  BY OnlySeq
<1>5. SizeOf(q) \in Nat /\ SizeOf(a) \in Nat /\ SizeOf(b) \in Nat /\ SizeOf(q) = SizeOf(b) + SizeOf(a)
  <2>1. SizeOf(Only(q, it)) \in Nat /\ SizeOf(Only(q, Objects \ it)) \in Nat
        /\ SizeOf(q) = SizeOf(Only(q, it)) + SizeOf(Only(q, Objects \ it))
    BY ObjectsSized, SizeSplit
  <2>2. SizeOf(q) \in Nat
    BY ObjectsSized, SizesSeq
  <2> QED
    BY <1>3, <1>4, <2>1, <2>2
<1>6. PICK y : y = Dropped(x, S)
  OBVIOUS
<1>7. y = [order |-> a, used |-> x.used - SizeOf(b)]
  BY <1>1, <1>2, <1>3, <1>4, <1>6 DEF Dropped
<1>8. y \in IndexType /\ y.order = a /\ y.used = x.used - SizeOf(b)
  BY <1>5, <1>7 DEF IndexType
<1>9. ToSet(a) = {o \in ToSet(q) : Name(o) \notin S}
  BY <1>1, <1>2, <1>3 DEF Named
<1>10. Names(y) = Names(x) \ S
  BY <1>1, <1>8, <1>9 DEF Names
<1>11. ASSUME Counted(x) PROVE Counted(y)
  <2>1. Apart(q) /\ x.used = SizeOf(q)
    BY <1>1, <1>11 DEF Counted
  <2>2. Apart(a)
    BY <1>3, <2>1, OnlyApart
  <2>3. y.used = SizeOf(a)
    BY <1>5, <1>8, <2>1
  <2> QED
    BY <1>8, <2>2, <2>3 DEF Counted
<1> QED
  BY <1>1, <1>6, <1>8, <1>9, <1>10, <1>11

LEMMA TouchedIs ==
  ASSUME NEW x \in IndexType, NEW name
  PROVE  /\ Touched(x, name) \in IndexType
         /\ ToSet(Touched(x, name).order) = ToSet(x.order)
         /\ Names(Touched(x, name)) = Names(x)
         /\ Touched(x, name).used = x.used
         /\ Counted(x) => Counted(Touched(x, name))
<1>1. PICK q \in Seq(Objects) : q = x.order
  BY DEF IndexType
<1>2. PICK it : it = Named(x, {name})
  OBVIOUS
<1>3. PICK a \in Seq(Objects) : a = Others(x, it) /\ a = Only(q, Objects \ it) /\ ToSet(a) = ToSet(q) \ it
  BY <1>1, OthersIs
<1>4. PICK b \in Seq(Objects) : b = Only(q, it) /\ ToSet(b) = ToSet(q) \cap it
  BY OnlySeq
<1>5. PICK z \in Seq(Objects) : z = a \o b /\ ToSet(z) = ToSet(q)
  <2>1. a \o b \in Seq(Objects) /\ ToSet(a \o b) = ToSet(a) \cup ToSet(b)
    BY SetOfConcat
  <2> QED
    BY <1>3, <1>4, <2>1
<1>6. PICK y : y = Touched(x, name)
  OBVIOUS
<1>7. y = [x EXCEPT !.order = z]
  BY <1>1, <1>2, <1>3, <1>4, <1>5, <1>6 DEF Touched
<1>8. y \in IndexType /\ y.order = z /\ y.used = x.used
  BY <1>7 DEF IndexType
<1>9. Names(y) = Names(x)
  BY <1>1, <1>5, <1>8 DEF Names
<1>10. ASSUME Counted(x) PROVE Counted(y)
  <2>1. Apart(q) /\ x.used = SizeOf(q)
    BY <1>1, <1>10 DEF Counted
  <2>2. Apart(a) /\ Apart(b)
    BY <1>3, <1>4, <2>1, OnlyApart
  <2>3. NamesOf(a) \cap NamesOf(b) = {}
    <3>1. \A o \in ToSet(a) : Name(o) # name
      BY <1>1, <1>2, <1>3 DEF Named
    <3>2. \A o \in ToSet(b) : Name(o) = name
      BY <1>2, <1>4 DEF Named
    <3> QED
      BY <3>1, <3>2 DEF NamesOf
  <2>4. Apart(z)
    BY <1>5, <2>2, <2>3, ApartConcat
  <2>5. SizeOf(z) = SizeOf(a) + SizeOf(b) /\ SizeOf(q) = SizeOf(b) + SizeOf(a)
        /\ SizeOf(a) \in Nat /\ SizeOf(b) \in Nat
    <3>1. SizeOf(Only(q, it)) \in Nat /\ SizeOf(Only(q, Objects \ it)) \in Nat
          /\ SizeOf(q) = SizeOf(Only(q, it)) + SizeOf(Only(q, Objects \ it))
      BY ObjectsSized, SizeSplit
    <3>2. SizeOf(a \o b) = SizeOf(a) + SizeOf(b)
      BY ObjectsSized, SizeConcat
    <3> QED
      BY <1>3, <1>4, <1>5, <3>1, <3>2
  <2>6. y.used = SizeOf(z)
    BY <1>8, <2>1, <2>5
  <2> QED
    BY <1>8, <2>4, <2>6 DEF Counted
<1> QED
  BY <1>1, <1>5, <1>6, <1>8, <1>9, <1>10

LEMMA InsertEntryIs ==
  ASSUME NEW x \in IndexType, NEW o \in Objects
  PROVE  /\ InsertEntry(x, o) \in IndexType
         /\ ToSet(InsertEntry(x, o).order) = ToSet(x.order) \cup {o}
         /\ Names(InsertEntry(x, o)) = Names(x) \cup {Name(o)}
         /\ Counted(x) /\ Name(o) \notin Names(x) => Counted(InsertEntry(x, o))
<1>1. PICK q \in Seq(Objects) : q = x.order
  BY DEF IndexType
<1>2. PICK a \in Seq(Objects) : a = Append(q, o) /\ ToSet(a) = ToSet(q) \cup {o}
  <2>1. Append(q, o) \in Seq(Objects)
    BY Appended
  <2>2. ToSet(Append(q, o)) = ToSet(q) \cup {o}
    BY SetOfAppend
  <2> QED
    BY <2>1, <2>2
<1>3. PICK y : y = InsertEntry(x, o)
  OBVIOUS
<1>4. y \in IndexType /\ y.order = a /\ y.used = x.used + Footprint(o)
  <2>1. y = [order |-> a, used |-> x.used + Footprint(o)]
    BY <1>1, <1>2, <1>3 DEF InsertEntry
  <2>2. Footprint(o) \in Nat /\ x.used \in Int
    BY ObjectIs DEF IndexType
  <2> QED
    BY <2>1, <2>2 DEF IndexType
<1>5. Names(y) = Names(x) \cup {Name(o)}
  BY <1>1, <1>2, <1>4 DEF Names
<1>6. ASSUME Counted(x), Name(o) \notin Names(x) PROVE Counted(y)
  <2>1. Apart(q) /\ x.used = SizeOf(q) /\ Name(o) \notin NamesOf(q)
    BY <1>1, <1>6 DEF Counted, Names, NamesOf
  <2>2. Apart(a)
    BY <1>2, <2>1, ApartAppend
  <2>3. SizeOf(a) = SizeOf(q) + Footprint(o)
    BY <1>2, ObjectsSized, SizeAppend
  <2> QED
    BY <1>4, <2>1, <2>2, <2>3 DEF Counted
<1> QED
  BY <1>1, <1>2, <1>3, <1>4, <1>5, <1>6

LEMMA SetOfSeq ==
  ASSUME NEW S, NEW q \in Seq(S) PROVE ToSet(q) \in SUBSET S
  BY LenProperties DEF ToSet

\* The size of a sequence without repetition is a sum over its elements.
LEMMA SizeSum ==
  ASSUME NEW S, Sized(S), NEW q \in Seq(S), Apart(q)
  PROVE  /\ IsFiniteSet(ToSet(q)) /\ ToSet(q) \in SUBSET S
         /\ SizeOf(q) = SumFunctionOnSet([o \in S |-> Footprint(o)], ToSet(q))
<1> DEFINE P == {u \in Seq(S) : /\ IsFiniteSet(ToSet(u)) /\ ToSet(u) \in SUBSET S
                                /\ Apart(u) => SizeOf(u) = SumFunctionOnSet([o \in S |-> Footprint(o)], ToSet(u))}
<1>0. PICK z : z = [o \in S |-> Footprint(o)]
  OBVIOUS
<1>1. << >> \in P
  <2>1. << >> \in Seq(S) /\ ToSet(<< >>) = {} /\ SizeOf(<< >>) = 0
    BY SizeEmpty DEF ToSet
  <2>2. SumFunctionOnSet([o \in S |-> Footprint(o)], {}) = 0 /\ IsFiniteSet({})
    BY SumEmpty, FS_EmptySet
  <2> QED
    BY <2>1, <2>2
<1>2. ASSUME NEW u \in Seq(S), NEW x \in S, u \in P PROVE Append(u, x) \in P
  <2>1. Append(u, x) \in Seq(S)
    BY Appended
  <2>2. PICK T : T = ToSet(u)
    OBVIOUS
  <2>3. ToSet(Append(u, x)) = T \cup {x}
    BY <2>2, SetOfAppend
  <2>4. IsFiniteSet(T) /\ T \in SUBSET S
    BY <1>2, <2>2
  <2>5. IsFiniteSet(T \cup {x}) /\ T \cup {x} \in SUBSET S
    BY <2>4, FS_AddElement
  <2>6. ASSUME Apart(Append(u, x))
        PROVE  SizeOf(Append(u, x)) = SumFunctionOnSet([o \in S |-> Footprint(o)], T \cup {x})
    <3>1. Apart(u) /\ Name(x) \notin NamesOf(u)
      BY <2>6, ApartBefore
    <3>2. x \notin T
      BY <2>2, <3>1 DEF NamesOf
    <3>3. SizeOf(u) = SumFunctionOnSet(z, T)
      BY <1>0, <1>2, <2>2, <3>1
    <3>4. \A o \in T \cup {x} : z[o] \in Int
      BY <1>0, <2>5 DEF Sized
    <3>5. SumFunctionOnSet(z, T \cup {x}) = z[x] + SumFunctionOnSet(z, T)
      BY <2>4, <3>2, <3>4, SumAdd
    <3>6. SizeOf(Append(u, x)) = SizeOf(u) + Footprint(x)
      BY SizeAppend
    <3>7. SizeOf(u) \in Nat /\ Footprint(x) \in Nat /\ z[x] = Footprint(x)
      BY <1>0, SizesSeq DEF Sized
    <3>8. SizeOf(Append(u, x)) = SumFunctionOnSet(z, T \cup {x})
      BY <3>3, <3>5, <3>6, <3>7
    <3> QED
      BY <1>0, <3>8
  <2> QED
    BY <2>1, <2>3, <2>5, <2>6
<1> HIDE DEF P
<1>3. q \in P
  BY <1>1, <1>2, SeqInd
<1> QED
  BY <1>3 DEF P

LEMMA SizeSame ==
  ASSUME NEW S, Sized(S), NEW p \in Seq(S), NEW q \in Seq(S), Apart(p), Apart(q), ToSet(p) = ToSet(q)
  PROVE  SizeOf(p) = SizeOf(q)
<1>1. SizeOf(p) = SumFunctionOnSet([o \in S |-> Footprint(o)], ToSet(p))
  BY SizeSum
<1>2. SizeOf(q) = SumFunctionOnSet([o \in S |-> Footprint(o)], ToSet(q))
  BY SizeSum
<1> QED
  BY <1>1, <1>2

Evicts(f, x) ==
  f = [t \in 0 .. 10 |->
         IF t = 0 THEN << >>
         ELSE f[t - 1] \o Only(x.order, {o \in ToSet(x.order) : Tier[o.role] = t - 1})]

LEMMA EvictionOrderChosen ==
  ASSUME NEW x
  PROVE  EvictionOrder(x) = (CHOOSE f : Evicts(f, x))[10]
  BY DEF EvictionOrder, Evicts

\* Eviction goes through all the entries.
LEMMA EvictionFunction ==
  ASSUME NEW x \in IndexType, Apart(x.order)
  PROVE  \E g : /\ EvictionOrder(x) = g[10] /\ g[0] = << >>
               /\ \A t \in 1 .. 10 :
                    g[t] = g[t - 1] \o Only(x.order, {o \in ToSet(x.order) : Tier[o.role] = t - 1})
<1>1. PICK q \in Seq(Objects) : q = x.order
  BY DEF IndexType
<1> DEFINE Of(t) == Only(q, {o \in ToSet(q) : Tier[o.role] = t - 1})
<1>2. \A t : /\ Of(t) \in Seq(Objects) /\ ToSet(Of(t)) = {o \in ToSet(q) : Tier[o.role] = t - 1}
             /\ Apart(Of(t))
  <2> SUFFICES ASSUME NEW t
               PROVE  /\ Of(t) \in Seq(Objects) /\ ToSet(Of(t)) = {o \in ToSet(q) : Tier[o.role] = t - 1}
                      /\ Apart(Of(t))
    OBVIOUS
  <2>1. PICK T : T = {o \in ToSet(q) : Tier[o.role] = t - 1}
    OBVIOUS
  <2>2. Only(q, T) \in Seq(Objects) /\ ToSet(Only(q, T)) = ToSet(q) \cap T
    BY OnlySeq
  <2>3. Apart(Only(q, T))
    BY <1>1, OnlyApart
  <2> QED
    BY <2>1, <2>2, <2>3
<1>3. PICK prev : prev = [t \in 1 .. 10 |-> t - 1]
  OBVIOUS
<1>4. prev \in [1 .. 10 -> Nat] /\ \A t \in 1 .. 10 : prev[t] < t
  BY <1>3
<1>5. PICK step : step = [z \in (1 .. 10) \X Seq(Objects) |-> z[2] \o Of(z[1])]
  OBVIOUS
<1> HIDE DEF Of
<1>6. step \in [(1 .. 10) \X Seq(Objects) -> Seq(Objects)]
  <2>1. \A z \in (1 .. 10) \X Seq(Objects) : z[2] \o Of(z[1]) \in Seq(Objects)
    BY <1>2, ConcatProperties
  <2> QED
    BY <1>5, <2>1
<1>7. PICK f \in [0 .. 10 -> Seq(Objects)] : Recurs(f, 10, << >>, prev, step)
  <2>1. << >> \in Seq(Objects) /\ 10 \in Nat
    OBVIOUS
  <2> QED
    BY <1>4, <1>6, <2>1, Recursion
<1>8. f[0] = << >> /\ \A t \in 1 .. 10 : f[t] = f[t - 1] \o Of(t)
  <2>1. f[0] = << >> /\ \A t \in 1 .. 10 : f[t] = step[<<t, f[prev[t]]>>]
    BY <1>7 DEF Recurs
  <2> SUFFICES ASSUME NEW t \in 1 .. 10 PROVE f[t] = f[t - 1] \o Of(t)
    BY <2>1
  <2>2. prev[t] = t - 1 /\ t - 1 \in 0 .. 10
    BY <1>3
  <2>3. <<t, f[t - 1]>> \in (1 .. 10) \X Seq(Objects)
    BY <2>2
  <2> QED
    BY <1>5, <2>1, <2>2, <2>3
<1>9. Evicts(f, x)
  <2> DEFINE F(t) == IF t = 0 THEN << >>
                     ELSE f[t - 1] \o Only(x.order, {o \in ToSet(x.order) : Tier[o.role] = t - 1})
  <2>1. \A t \in 0 .. 10 : f[t] = F(t)
    <3> SUFFICES ASSUME NEW t \in 0 .. 10 PROVE f[t] = F(t)
      OBVIOUS
    <3>1. t = 0 \/ t \in 1 .. 10
      OBVIOUS
    <3> QED
      BY <1>1, <1>8, <3>1 DEF Of
  <2>2. f = [t \in 0 .. 10 |-> F(t)]
    BY <2>1
  <2> QED
    BY <2>2 DEF Evicts
<1>10. PICK g : Evicts(g, x) /\ EvictionOrder(x) = g[10]
  BY <1>9, EvictionOrderChosen
<1>11. /\ g[0] = << >>
       /\ \A t \in 1 .. 10 : g[t] = g[t - 1] \o Of(t)
  <2>1. \A t \in 0 .. 10 : g[t] = IF t = 0 THEN << >>
                                  ELSE g[t - 1] \o Only(x.order, {o \in ToSet(x.order) : Tier[o.role] = t - 1})
    BY <1>10 DEF Evicts
  <2>2. 0 \in 0 .. 10 /\ \A t \in 1 .. 10 : t \in 0 .. 10 /\ t # 0
    OBVIOUS
  <2> QED
    BY <1>1, <2>1, <2>2 DEF Of
<1> QED
  BY <1>1, <1>10, <1>11 DEF Of

Ranked(q, k) == {o \in ToSet(q) : Tier[o.role] < k}

LEMMA TierIs ==
  ASSUME NEW q \in Seq(Objects), NEW o \in ToSet(q)
  PROVE  Tier[o.role] \in 0 .. 9
<1>1. o \in Objects
  BY SetOfSeq
<1>2. o.role \in Role
  BY <1>1, ObjectIs
<1> QED
  BY <1>2, TierAssumption

LEMMA NextRank ==
  ASSUME NEW q \in Seq(Objects), NEW k \in Nat
  PROVE  /\ Ranked(q, 0) = {} /\ Ranked(q, 10) = ToSet(q)
         /\ Ranked(q, k + 1) = Ranked(q, k) \cup {o \in ToSet(q) : Tier[o.role] = k}
         /\ Ranked(q, k) \cap {o \in ToSet(q) : Tier[o.role] = k} = {}
<1>1. \A o \in ToSet(q) : Tier[o.role] < k + 1 <=> (Tier[o.role] < k \/ Tier[o.role] = k)
  <2> SUFFICES ASSUME NEW o \in ToSet(q)
               PROVE  Tier[o.role] < k + 1 <=> (Tier[o.role] < k \/ Tier[o.role] = k)
    OBVIOUS
  <2>1. PICK n \in 0 .. 9 : n = Tier[o.role]
    BY TierIs
  <2>2. n < k + 1 <=> (n < k \/ n = k)
    OBVIOUS
  <2> QED
    BY <2>1, <2>2
<1>2. \A o \in ToSet(q) : ~(Tier[o.role] < 0) /\ Tier[o.role] < 10 /\ ~(Tier[o.role] < k /\ Tier[o.role] = k)
  <2> SUFFICES ASSUME NEW o \in ToSet(q)
               PROVE  ~(Tier[o.role] < 0) /\ Tier[o.role] < 10 /\ ~(Tier[o.role] < k /\ Tier[o.role] = k)
    OBVIOUS
  <2>1. PICK n \in 0 .. 9 : n = Tier[o.role]
    BY TierIs
  <2>2. ~(n < 0) /\ n < 10 /\ ~(n < k /\ n = k)
    OBVIOUS
  <2> QED
    BY <2>1, <2>2
<1> QED
  BY <1>1, <1>2 DEF Ranked

\* One tier after those below it.
LEMMA EvictionStep ==
  ASSUME NEW q \in Seq(Objects), Apart(q), NEW k \in Nat,
         NEW p \in Seq(Objects), Apart(p), ToSet(p) = Ranked(q, k)
  PROVE  LET z == p \o Only(q, {o \in ToSet(q) : Tier[o.role] = k})
         IN  z \in Seq(Objects) /\ Apart(z) /\ ToSet(z) = Ranked(q, k + 1)
<1>1. PICK T : T = {o \in ToSet(q) : Tier[o.role] = k}
  OBVIOUS
<1>2. PICK b \in Seq(Objects) : b = Only(q, T) /\ ToSet(b) = ToSet(q) \cap T
  BY OnlySeq
<1>3. Apart(b)
  BY <1>2, OnlyApart
<1>4. ToSet(b) = T
  BY <1>1, <1>2
<1>5. NamesOf(p) \cap NamesOf(b) = {}
  <2> SUFFICES ASSUME NEW o \in ToSet(p), NEW u \in ToSet(b), Name(o) = Name(u) PROVE FALSE
    BY DEF NamesOf
  <2>1. o \in ToSet(q) /\ u \in ToSet(q)
    BY <1>2 DEF Ranked
  <2>2. o = u
    BY <2>1 DEF Apart, ToSet
  <2>3. Ranked(q, k) \cap T = {}
    BY <1>1, NextRank
  <2> QED
    BY <1>4, <2>2, <2>3
<1>6. Apart(p \o b)
  BY <1>3, <1>5, ApartConcat
<1>7. p \o b \in Seq(Objects) /\ ToSet(p \o b) = ToSet(p) \cup ToSet(b)
  BY SetOfConcat
<1>8. ToSet(p \o b) = Ranked(q, k + 1)
  <2>1. Ranked(q, k + 1) = Ranked(q, k) \cup T
    BY <1>1, NextRank
  <2> QED
    BY <1>4, <1>7, <2>1
<1> QED
  BY <1>1, <1>2, <1>6, <1>7, <1>8

LEMMA EvictionOrderIs ==
  ASSUME NEW x \in IndexType, Apart(x.order)
  PROVE  /\ EvictionOrder(x) \in Seq(Objects) /\ ToSet(EvictionOrder(x)) = ToSet(x.order)
         /\ Apart(EvictionOrder(x))
<1>1. PICK q \in Seq(Objects) : q = x.order /\ Apart(q)
  BY DEF IndexType
<1>2. PICK g : /\ EvictionOrder(x) = g[10] /\ g[0] = << >>
               /\ \A t \in 1 .. 10 :
                    g[t] = g[t - 1] \o Only(q, {o \in ToSet(q) : Tier[o.role] = t - 1})
  BY <1>1, EvictionFunction, ZenonT(60)
<1> DEFINE Claim(k) == g[k] \in Seq(Objects) /\ Apart(g[k]) /\ ToSet(g[k]) = Ranked(q, k)
<1> DEFINE N == {k \in Nat : k <= 10 => Claim(k)}
<1>3. Claim(0)
  <2>1. << >> \in Seq(Objects) /\ Apart(<< >>) /\ ToSet(<< >>) = {}
    BY DEF Apart, ToSet
  <2>2. Ranked(q, 0) = {}
    BY NextRank
  <2> QED
    BY <1>2, <2>1, <2>2
<1>4. ASSUME NEW k \in Nat, k + 1 <= 10, Claim(k) PROVE Claim(k + 1)
  <2>1. PICK p \in Seq(Objects) : p = g[k] /\ Apart(p) /\ ToSet(p) = Ranked(q, k)
    BY <1>4
  <2>2. PICK m : m = k + 1
    OBVIOUS
  <2>3. m \in 1 .. 10 /\ m - 1 = k
    BY <1>4, <2>2
  <2>4. g[m] = p \o Only(q, {o \in ToSet(q) : Tier[o.role] = k})
    BY <1>2, <2>1, <2>3
  <2>5. g[m] \in Seq(Objects) /\ Apart(g[m]) /\ ToSet(g[m]) = Ranked(q, m)
    BY <1>1, <2>1, <2>2, <2>4, EvictionStep
  <2> QED
    BY <2>2, <2>5
<1> HIDE DEF Claim
<1>5. 0 \in N
  BY <1>3
<1>6. \A k \in Nat : k \in N => k + 1 \in N
  BY <1>4
<1> HIDE DEF N
<1>7. 10 \in N
  BY <1>5, <1>6, NatInd
<1>8. Claim(10)
  BY <1>7 DEF N
<1>9. Ranked(q, 10) = ToSet(q)
  BY NextRank
<1> QED
  BY <1>1, <1>2, <1>8, <1>9 DEF Claim

LEMMA FirstOf ==
  ASSUME NEW S, NEW q \in Seq(S), NEW k \in 0 .. Len(q)
  PROVE  /\ SubSeq(q, 1, k) \in Seq(S) /\ Len(SubSeq(q, 1, k)) = k
         /\ \A i \in 1 .. k : SubSeq(q, 1, k)[i] = q[i]
         /\ ToSet(SubSeq(q, 1, k)) = {q[i] : i \in 1 .. k}
         /\ Apart(q) => Apart(SubSeq(q, 1, k))
<1>1. PICK n \in Nat : n = Len(q) /\ DOMAIN q = 1 .. n /\ \A i \in 1 .. n : q[i] \in S
  BY LenProperties
<1>2. k \in 0 .. n /\ \A i \in 1 .. k : i \in 1 .. n
  BY <1>1
<1>3. \A i \in 1 .. k : q[i] \in S
  BY <1>1, <1>2
<1>4. PICK p : p = SubSeq(q, 1, k)
  OBVIOUS
<1>5. p \in Seq(S) /\ Len(p) = k /\ \A i \in 1 .. k : p[i] = q[i]
  <2>1. p \in Seq(S)
    BY <1>3, <1>4, SubSeqProperties
  <2>2. Len(p) = IF 1 <= k THEN k - 1 + 1 ELSE 0
    BY <1>2, <1>3, <1>4, SubSeqProperties
  <2>3. \A i \in 1 .. k - 1 + 1 : p[i] = q[1 + i - 1]
    BY <1>2, <1>3, <1>4, SubSeqProperties
  <2>4. \A i \in 1 .. k : p[i] = q[i]
    <3> SUFFICES ASSUME NEW i \in 1 .. k PROVE p[i] = q[i]
      OBVIOUS
    <3>1. i \in 1 .. k - 1 + 1 /\ 1 + i - 1 = i
      OBVIOUS
    <3> QED
      BY <2>3, <3>1
  <2>5. Len(p) = k
    BY <1>2, <2>2
  <2> QED
    BY <2>1, <2>4, <2>5
<1>6. DOMAIN p = 1 .. k
  <2>1. DOMAIN p = 1 .. Len(p)
    BY <1>5, LenProperties
  <2> QED
    BY <1>5, <2>1
<1>7. ToSet(p) = {q[i] : i \in 1 .. k}
  BY <1>5, <1>6 DEF ToSet
<1>8. Apart(q) => Apart(p)
  BY <1>1, <1>2, <1>5, <1>6 DEF Apart
<1> QED
  BY <1>4, <1>5, <1>7, <1>8

\* Eviction makes the index fit the budget, and only removes entries.
LEMMA EvictedIs ==
  ASSUME NEW x, Counted(x)
  PROVE  /\ Counted(Evicted(x)) /\ Evicted(x).used <= Budget
         /\ Names(Evicted(x)) \in SUBSET Names(x)
         /\ ToSet(Evicted(x).order) \in SUBSET ToSet(x.order)
<1>1. x \in IndexType /\ Apart(x.order) /\ x.used = SizeOf(x.order)
  BY DEF Counted
<1>2. PICK o \in Seq(Objects) : o = x.order /\ Apart(o)
  BY <1>1 DEF IndexType
<1>3. CASE x.used <= Budget
  BY <1>3 DEF Evicted
<1>4. CASE ~(x.used <= Budget)
  <2>1. PICK q \in Seq(Objects) : q = EvictionOrder(x) /\ ToSet(q) = ToSet(o) /\ Apart(q)
    BY <1>1, <1>2, EvictionOrderIs
  <2>2. Len(q) \in Nat
    BY LenProperties
  <2> DEFINE K == {k \in 0 .. Len(q) : k = Len(q) \/ x.used - SizeOf(SubSeq(q, 1, k)) <= Budget}
  <2>3. K \in SUBSET Nat /\ Len(q) \in K
    BY <2>2
  <2>4. PICK n \in K : n = Min(K)
    BY <2>3, MinIn
  <2>5. PICK S : S = {Name(q[i]) : i \in 1 .. n}
    OBVIOUS
  <2>6. Evicted(x) = Dropped(x, S)
    BY <1>4, <2>1, <2>4, <2>5 DEF Evicted
  <2>7. Counted(Dropped(x, S)) /\ Names(Dropped(x, S)) = Names(x) \ S
        /\ ToSet(Dropped(x, S).order) = {u \in ToSet(x.order) : Name(u) \notin S}
    BY <1>1, DroppedIs
  <2>8. PICK p \in Seq(Objects) : p = SubSeq(q, 1, n) /\ Apart(p) /\ ToSet(p) = {q[i] : i \in 1 .. n}
    <3>1. n \in 0 .. Len(q)
      OBVIOUS
    <3>2. /\ SubSeq(q, 1, n) \in Seq(Objects)
          /\ ToSet(SubSeq(q, 1, n)) = {q[i] : i \in 1 .. n}
          /\ Apart(q) => Apart(SubSeq(q, 1, n))
      BY <3>1, FirstOf
    <3> QED
      BY <2>1, <3>2
  <2>9. PICK it : it = Named(x, S)
    OBVIOUS
  <2>10. PICK b \in Seq(Objects) : b = Only(o, it) /\ ToSet(b) = ToSet(o) \cap it /\ Apart(b)
    <3>1. Only(o, it) \in Seq(Objects) /\ ToSet(Only(o, it)) = ToSet(o) \cap it
      BY OnlySeq
    <3>2. Apart(Only(o, it))
      BY <1>2, OnlyApart
    <3> QED
      BY <3>1, <3>2
  <2>11. ToSet(b) = ToSet(p)
    <3>1. ToSet(p) \in SUBSET ToSet(q)
      <4>1. n \in 0 .. Len(q) /\ DOMAIN q = 1 .. Len(q)
        BY LenProperties
      <4>2. PICK l \in Nat : l = Len(q)
        BY <2>2
      <4>3. \A i \in 1 .. n : i \in 1 .. l
        <5>1. n \in 0 .. l
          BY <4>1, <4>2
        <5> QED
          BY <5>1
      <4> QED
        BY <2>8, <4>1, <4>2, <4>3 DEF ToSet
    <3>2. ASSUME NEW u \in ToSet(o) PROVE u \in it <=> u \in ToSet(p)
      <4>1. u \in it <=> Name(u) \in S
        BY <1>2, <2>9, <3>2 DEF Named
      <4>2. ASSUME Name(u) \in S PROVE u \in ToSet(p)
        <5>1. PICK v \in ToSet(p) : Name(u) = Name(v)
          BY <2>5, <2>8, <4>2
        <5>2. v \in ToSet(o)
          BY <2>1, <3>1
        <5>3. u = v
          BY <1>2, <3>2, <5>1, <5>2 DEF Apart, ToSet
        <5> QED
          BY <5>3
      <4>3. ASSUME u \in ToSet(p) PROVE Name(u) \in S
        BY <2>5, <2>8, <4>3
      <4> QED
        BY <4>1, <4>2, <4>3
    <3> QED
      BY <2>1, <2>10, <3>1, <3>2
  <2>12. SizeOf(b) = SizeOf(p)
    BY <2>8, <2>10, <2>11, ObjectsSized, SizeSame
  <2>13. Dropped(x, S).used = x.used - SizeOf(p)
    BY <1>2, <2>9, <2>10, <2>12 DEF Dropped
  <2>14. x.used - SizeOf(p) <= Budget
    <3>1. CASE n = Len(q)
      <4>1. p = q
        BY <2>8, <3>1, SubSeqFull
      <4>2. SizeOf(q) = SizeOf(o)
        BY <1>2, <2>1, ObjectsSized, SizeSame
      <4>3. SizeOf(o) \in Nat /\ Budget \in Nat
        BY ObjectsSized, SizesSeq, SizesAssumption
      <4> QED
        BY <1>1, <1>2, <4>1, <4>2, <4>3
    <3>2. CASE n # Len(q)
      BY <2>8, <3>2
    <3> QED
      BY <3>1, <3>2
  <2> QED
    BY <2>6, <2>7, <2>13, <2>14
<1> QED
  BY <1>3, <1>4

LEMMA ExpiredIs ==
  ASSUME NEW x, NEW S
  PROVE  Expired(x, S) \in SUBSET Names(x)
  BY DEF Expired, Names

\* What a store does to the index.
LEMMA InsertedIs ==
  ASSUME NEW x, Counted(x), x.used <= Budget, NEW S, NEW o \in Objects
  PROVE  /\ Counted(Inserted(x, S, o)) /\ Inserted(x, S, o).used <= Budget
         /\ ToSet(Inserted(x, S, o).order) \in SUBSET (ToSet(x.order) \cup {o})
<1>1. x \in IndexType
  BY DEF Counted
<1>2. CASE Has(x, Name(o))
  <2>1. Inserted(x, S, o) = Touched(x, Name(o))
    BY <1>2 DEF Inserted
  <2> QED
    BY <1>1, <2>1, TouchedIs
<1>3. CASE ~Has(x, Name(o))
  <2>1. PICK y : y = InsertEntry(x, o)
    OBVIOUS
  <2>2. Counted(y) /\ y \in IndexType /\ ToSet(y.order) = ToSet(x.order) \cup {o}
    <3>1. Name(o) \notin Names(x)
      BY <1>3 DEF Has
    <3> QED
      BY <1>1, <2>1, <3>1, InsertEntryIs
  <2>3. PICK T : T = Expired(y, S \ {Name(o)})
    OBVIOUS
  <2>4. PICK z : z = Dropped(y, T)
    OBVIOUS
  <2>5. Counted(z) /\ ToSet(z.order) \in SUBSET ToSet(y.order)
    BY <2>2, <2>4, DroppedIs
  <2>6. Inserted(x, S, o) = Evicted(z)
    BY <1>3, <2>1, <2>3, <2>4 DEF Inserted
  <2> QED
    BY <2>2, <2>5, <2>6, EvictedIs
<1> QED
  BY <1>2, <1>3

-----------------------------------------------------------------------------
(***************************************************************************)
(* Restore plans                                                            *)
(***************************************************************************)
EndOf(q, i) == IF i = 0 THEN 0 ELSE Len(q[i].text)

\* Rows of text, each beginning where the one before it ends, up to n.
Tiles(q, text, n) ==
  /\ EndOf(q, Len(q)) = n
  /\ \A i \in DOMAIN q : /\ q[i].kind = "rows" /\ q[i].text = Prefix(text, Len(q[i].text))
                         /\ Len(q[i].text) \in 1 .. n
                         /\ q[i].start = EndOf(q, i - 1)

LEMMA EntryIs ==
  ASSUME NEW x \in IndexType, NEW kind, NEW text, Has(x, <<kind, text>>)
  PROVE  /\ Entry(x, <<kind, text>>) \in ToSet(x.order) /\ Entry(x, <<kind, text>>) \in Objects
         /\ Entry(x, <<kind, text>>).kind = kind /\ Entry(x, <<kind, text>>).text = text
<1>1. PICK o \in ToSet(x.order) : Name(o) = <<kind, text>>
  BY DEF Has, Names
<1>2. PICK z : z = Entry(x, <<kind, text>>) /\ z \in ToSet(x.order) /\ Name(z) = <<kind, text>>
  BY <1>1 DEF Entry
<1>3. z \in Objects
  <2>1. x.order \in Seq(Objects)
    BY DEF IndexType
  <2> QED
    BY <1>2, <2>1, SetOfSeq
<1>4. z.kind = kind /\ z.text = text
  BY <1>2 DEF Name
<1> QED
  BY <1>2, <1>3, <1>4

Chains(f, x, text, p) ==
  f = [n \in 0 .. p |->
         IF n = 0 THEN [ok |-> TRUE, rows |-> << >>]
         ELSE IF ~Has(x, <<"rows", Prefix(text, n)>>) THEN [ok |-> FALSE, rows |-> << >>]
         ELSE LET o == Entry(x, <<"rows", Prefix(text, n)>>)
              IN  [f[o.start] EXCEPT !.rows = Append(@, o)]]

LEMMA ChainChosen ==
  ASSUME NEW x, NEW text, NEW p
  PROVE  Chain(x, text, p) = (CHOOSE f : Chains(f, x, text, p))[p]
  BY DEF Chain, Chains

ChainValues(g, x, text, p) ==
  /\ Chain(x, text, p) = g[p] /\ g[0] = [ok |-> TRUE, rows |-> << >>]
  /\ \A n \in 1 .. p :
       g[n] = IF ~Has(x, <<"rows", Prefix(text, n)>>) THEN [ok |-> FALSE, rows |-> << >>]
              ELSE [g[Entry(x, <<"rows", Prefix(text, n)>>).start] EXCEPT
                      !.rows = Append(@, Entry(x, <<"rows", Prefix(text, n)>>))]

LEMMA ChainFunction ==
  ASSUME NEW x \in IndexType, NEW text \in Seq(Token), NEW p \in 0 .. Len(text)
  PROVE  \E g : ChainValues(g, x, text, p)
<1> DEFINE Key(n) == <<"rows", Prefix(text, n)>>
<1> DEFINE S == [ok : BOOLEAN, rows : Seq(Objects)]
<1>1. Len(text) \in Nat /\ p \in Nat
  BY LenProperties
<1>2. PICK prev : prev = [n \in 1 .. p |-> IF Has(x, Key(n)) THEN Entry(x, Key(n)).start ELSE 0]
  OBVIOUS
<1>3. ASSUME NEW n \in 1 .. p, Has(x, Key(n))
      PROVE  Entry(x, Key(n)) \in Objects /\ Entry(x, Key(n)).start \in 0 .. n - 1
  <2>1. PICK o : o = Entry(x, Key(n))
    OBVIOUS
  <2>2. o \in Objects /\ o.kind = "rows" /\ o.text = Prefix(text, n)
    BY <1>3, <2>1, EntryIs
  <2>3. n \in 0 .. Len(text)
    BY <1>1
  <2>4. Len(o.text) = n
    BY <2>2, <2>3, PrefixIs
  <2>5. o.start \in Nat /\ o.start < Len(o.text)
    BY <2>2, ObjectIs
  <2> QED
    BY <2>1, <2>2, <2>4, <2>5
<1>4. prev \in [1 .. p -> Nat] /\ \A n \in 1 .. p : prev[n] < n
  <2>1. \A n \in 1 .. p : prev[n] \in 0 .. n - 1
    BY <1>2, <1>3
  <2> QED
    BY <1>2, <2>1
<1>5. PICK step : step = [z \in (1 .. p) \X S |->
                            IF ~Has(x, Key(z[1])) THEN [ok |-> FALSE, rows |-> << >>]
                            ELSE [z[2] EXCEPT !.rows = Append(@, Entry(x, Key(z[1])))]]
  OBVIOUS
<1> HIDE DEF Key
<1>6. step \in [(1 .. p) \X S -> S]
  <2>1. ASSUME NEW z \in (1 .. p) \X S
        PROVE  (IF ~Has(x, Key(z[1])) THEN [ok |-> FALSE, rows |-> << >>]
                ELSE [z[2] EXCEPT !.rows = Append(@, Entry(x, Key(z[1])))]) \in S
    <3>1. CASE ~Has(x, Key(z[1]))
      BY <3>1
    <3>2. CASE Has(x, Key(z[1]))
      <4>1. PICK o \in Objects : o = Entry(x, Key(z[1]))
        BY <1>3, <3>2
      <4>2. z[2] \in S /\ z[2].rows \in Seq(Objects)
        OBVIOUS
      <4>3. PICK q \in Seq(Objects) : q = Append(z[2].rows, o)
        BY <4>2, Appended
      <4>4. [z[2] EXCEPT !.rows = q] \in S
        BY <4>2
      <4> QED
        BY <3>2, <4>1, <4>3, <4>4
    <3> QED
      BY <3>1, <3>2
  <2> QED
    BY <1>5, <2>1
<1> HIDE DEF S
<1>7. PICK f \in [0 .. p -> S] : Recurs(f, p, [ok |-> TRUE, rows |-> << >>], prev, step)
  <2>1. [ok |-> TRUE, rows |-> << >>] \in S
    BY DEF S
  <2> QED
    BY <1>1, <1>4, <1>6, <2>1, Recursion
<1> DEFINE Step(g, n) == IF ~Has(x, Key(n)) THEN [ok |-> FALSE, rows |-> << >>]
                         ELSE [g[Entry(x, Key(n)).start] EXCEPT !.rows = Append(@, Entry(x, Key(n)))]
<1>8. f[0] = [ok |-> TRUE, rows |-> << >>] /\ \A n \in 1 .. p : f[n] = Step(f, n)
  <2>1. f[0] = [ok |-> TRUE, rows |-> << >>] /\ \A n \in 1 .. p : f[n] = step[<<n, f[prev[n]]>>]
    BY <1>7 DEF Recurs
  <2> SUFFICES ASSUME NEW n \in 1 .. p PROVE f[n] = Step(f, n)
    BY <2>1
  <2>2. PICK m : m = prev[n]
    OBVIOUS
  <2>3. m \in 0 .. p
    BY <1>4, <2>2
  <2>4. <<n, f[m]>> \in (1 .. p) \X S
    BY <2>3
  <2>5. f[n] = IF ~Has(x, Key(n)) THEN [ok |-> FALSE, rows |-> << >>]
               ELSE [f[m] EXCEPT !.rows = Append(@, Entry(x, Key(n)))]
    BY <1>5, <2>1, <2>2, <2>4
  <2>6. Has(x, Key(n)) => m = Entry(x, Key(n)).start
    BY <1>2, <2>2
  <2> QED
    BY <2>5, <2>6
<1>9. Chains(f, x, text, p)
  <2> DEFINE F(n) == IF n = 0 THEN [ok |-> TRUE, rows |-> << >>] ELSE Step(f, n)
  <2>1. \A n \in 0 .. p : f[n] = F(n)
    <3> SUFFICES ASSUME NEW n \in 0 .. p PROVE f[n] = F(n)
      OBVIOUS
    <3>1. n = 0 \/ n \in 1 .. p
      BY <1>1
    <3> QED
      BY <1>8, <3>1
  <2>2. f = [n \in 0 .. p |-> F(n)]
    BY <2>1
  <2> QED
    BY <2>2 DEF Chains, Key
<1>10. PICK g : Chains(g, x, text, p) /\ Chain(x, text, p) = g[p]
  BY <1>9, ChainChosen
<1>11. /\ g[0] = [ok |-> TRUE, rows |-> << >>]
       /\ \A n \in 1 .. p : g[n] = Step(g, n)
  <2>1. \A n \in 0 .. p : g[n] = IF n = 0 THEN [ok |-> TRUE, rows |-> << >>] ELSE Step(g, n)
    BY <1>10 DEF Chains, Key
  <2>2. 0 \in 0 .. p /\ \A n \in 1 .. p : n \in 0 .. p /\ n # 0
    BY <1>1
  <2> QED
    BY <2>1, <2>2
<1> QED
  BY <1>10, <1>11 DEF Key, ChainValues

LEMMA TilesAppend ==
  ASSUME NEW text \in Seq(Token), NEW n \in 1 .. Len(text), NEW s \in 0 .. n - 1,
         NEW q \in Seq(Objects), Tiles(q, text, s), Apart(q),
         NEW o \in Objects, o.kind = "rows", o.text = Prefix(text, n), o.start = s
  PROVE  Tiles(Append(q, o), text, n) /\ Apart(Append(q, o))
<1>1. Len(text) \in Nat /\ n \in Nat /\ s \in Nat /\ s < n /\ n \in 0 .. Len(text)
  BY LenProperties
<1>2. Len(o.text) = n
  BY <1>1, PrefixIs
<1>3. PICK l \in Nat : l = Len(q) /\ DOMAIN q = 1 .. l
  BY LenProperties
<1>4. PICK a : a = Append(q, o)
  OBVIOUS
<1>5. /\ Len(a) = l + 1 /\ DOMAIN a = (1 .. l) \cup {l + 1}
      /\ a[l + 1] = o /\ \A i \in 1 .. l : a[i] = q[i]
  <2>1. /\ Len(Append(q, o)) = Len(q) + 1 /\ DOMAIN Append(q, o) = (1 .. Len(q)) \cup {Len(q) + 1}
        /\ Append(q, o)[Len(q) + 1] = o /\ \A i \in 1 .. Len(q) : Append(q, o)[i] = q[i]
    BY Appended
  <2> QED
    BY <1>3, <1>4, <2>1
<1>6. /\ EndOf(q, l) = s
      /\ \A i \in 1 .. l : /\ q[i].kind = "rows" /\ q[i].text = Prefix(text, Len(q[i].text))
                           /\ Len(q[i].text) \in 1 .. s /\ q[i].start = EndOf(q, i - 1)
  BY <1>3 DEF Tiles
<1>7. \A i \in 0 .. l : EndOf(a, i) = EndOf(q, i)
  BY <1>5 DEF EndOf
<1>8. EndOf(a, l + 1) = n
  <2>1. l + 1 # 0
    BY <1>3
  <2> QED
    BY <1>2, <1>5, <2>1 DEF EndOf
<1>9. ASSUME NEW i \in DOMAIN a
      PROVE  /\ a[i].kind = "rows" /\ a[i].text = Prefix(text, Len(a[i].text))
             /\ Len(a[i].text) \in 1 .. n /\ a[i].start = EndOf(a, i - 1)
  <2>1. CASE i \in 1 .. l
    <3>1. i - 1 \in 0 .. l
      BY <2>1
    <3>2. Len(q[i].text) \in 1 .. n
      BY <1>1, <1>6, <2>1
    <3> QED
      BY <1>5, <1>6, <1>7, <2>1, <3>1, <3>2
  <2>2. CASE i = l + 1
    <3>1. i - 1 = l /\ l \in 0 .. l
      BY <2>2
    <3>2. EndOf(a, i - 1) = s
      BY <1>6, <1>7, <3>1
    <3>3. n \in 1 .. n
      BY <1>1
    <3> QED
      BY <1>2, <1>5, <2>2, <3>2, <3>3
  <2> QED
    BY <1>5, <2>1, <2>2
<1>10. Tiles(a, text, n)
  BY <1>5, <1>8, <1>9 DEF Tiles
<1>11. Name(o) \notin NamesOf(q)
  <2> SUFFICES ASSUME NEW i \in 1 .. l, Name(o) = Name(q[i]) PROVE FALSE
    BY <1>3 DEF NamesOf, ToSet
  <2>1. o.text = q[i].text
    BY DEF Name
  <2>2. Len(q[i].text) \in 1 .. s
    BY <1>6
  <2> QED
    BY <1>1, <1>2, <2>1, <2>2
<1>12. Apart(a)
  BY <1>4, <1>11, ApartAppend
<1> QED
  BY <1>4, <1>10, <1>12

\* A chain is of entries of the index that tile the text up to its end.
ChainOf(v, x, text, n) ==
  /\ v \in [ok : BOOLEAN, rows : Seq(Objects)]
  /\ v.ok => ToSet(v.rows) \in SUBSET ToSet(x.order) /\ Apart(v.rows) /\ Tiles(v.rows, text, n)

LEMMA ChainIs ==
  ASSUME NEW x \in IndexType, NEW text \in Seq(Token), NEW p \in 0 .. Len(text)
  PROVE  ChainOf(Chain(x, text, p), x, text, p)
<1>0. Len(text) \in Nat /\ p \in Nat
  BY LenProperties
<1>g. PICK g : ChainValues(g, x, text, p)
  BY ChainFunction
<1>1. /\ Chain(x, text, p) = g[p] /\ g[0] = [ok |-> TRUE, rows |-> << >>]
      /\ \A n \in 1 .. p :
           g[n] = IF ~Has(x, <<"rows", Prefix(text, n)>>) THEN [ok |-> FALSE, rows |-> << >>]
                  ELSE [g[Entry(x, <<"rows", Prefix(text, n)>>).start] EXCEPT
                          !.rows = Append(@, Entry(x, <<"rows", Prefix(text, n)>>))]
  BY <1>g DEF ChainValues
<1> DEFINE N == {k \in Nat : \A n \in 0 .. k : n <= p => ChainOf(g[n], x, text, n)}
<1>2. ChainOf(g[0], x, text, 0)
  <2>1. << >> \in Seq(Objects) /\ ToSet(<< >>) = {} /\ Len(<< >>) = 0 /\ DOMAIN << >> = {}
    BY DEF ToSet
  <2>2. Tiles(<< >>, text, 0) /\ Apart(<< >>)
    BY <2>1 DEF Tiles, EndOf, Apart
  <2> QED
    BY <1>1, <2>1, <2>2 DEF ChainOf
<1>3. ASSUME NEW n \in 1 .. p, \A m \in 0 .. n - 1 : ChainOf(g[m], x, text, m)
      PROVE  ChainOf(g[n], x, text, n)
  <2>1. CASE ~Has(x, <<"rows", Prefix(text, n)>>)
    <3>1. g[n] = [ok |-> FALSE, rows |-> << >>]
      BY <1>1, <2>1
    <3> QED
      BY <3>1 DEF ChainOf
  <2>2. CASE Has(x, <<"rows", Prefix(text, n)>>)
    <3>1. PICK o : o = Entry(x, <<"rows", Prefix(text, n)>>)
      OBVIOUS
    <3>2. o \in Objects /\ o \in ToSet(x.order) /\ o.kind = "rows" /\ o.text = Prefix(text, n)
      BY <2>2, <3>1, EntryIs
    <3>3. n \in 0 .. Len(text) /\ n \in 1 .. Len(text) /\ n \in Nat
      BY <1>0
    <3>4. Len(o.text) = n
      BY <3>2, <3>3, PrefixIs
    <3>5. o.start \in 0 .. n - 1
      <4>1. o.start \in Nat /\ o.start < Len(o.text)
        BY <3>2, ObjectIs
      <4> QED
        BY <3>3, <3>4, <4>1
    <3>6. PICK v : v = g[o.start] /\ ChainOf(v, x, text, o.start)
      BY <1>3, <3>5
    <3>7. v \in [ok : BOOLEAN, rows : Seq(Objects)] /\ v.rows \in Seq(Objects)
      BY <3>6 DEF ChainOf
    <3>8. PICK q \in Seq(Objects) : q = Append(v.rows, o) /\ ToSet(q) = ToSet(v.rows) \cup {o}
      <4>1. Append(v.rows, o) \in Seq(Objects)
        BY <3>2, <3>7, Appended
      <4>2. ToSet(Append(v.rows, o)) = ToSet(v.rows) \cup {o}
        BY <3>2, <3>7, SetOfAppend
      <4> QED
        BY <4>1, <4>2
    <3>9. PICK y : y = [v EXCEPT !.rows = q]
      OBVIOUS
    <3>10. g[n] = y
      BY <1>1, <2>2, <3>1, <3>6, <3>8, <3>9
    <3>11. y \in [ok : BOOLEAN, rows : Seq(Objects)] /\ y.ok = v.ok /\ y.rows = q
      BY <3>7, <3>9
    <3>12. ASSUME v.ok PROVE ToSet(q) \in SUBSET ToSet(x.order) /\ Apart(q) /\ Tiles(q, text, n)
      <4>1. ToSet(v.rows) \in SUBSET ToSet(x.order) /\ Apart(v.rows) /\ Tiles(v.rows, text, o.start)
        BY <3>6, <3>12 DEF ChainOf
      <4>2. Tiles(q, text, n) /\ Apart(q)
        BY <3>2, <3>3, <3>5, <3>7, <3>8, <4>1, TilesAppend
      <4> QED
        BY <3>2, <3>8, <4>1, <4>2
    <3> QED
      BY <3>10, <3>11, <3>12 DEF ChainOf
  <2> QED
    BY <2>1, <2>2
<1>4. 0 \in N
  <2>1. \A n \in 0 .. 0 : n = 0
    OBVIOUS
  <2> QED
    BY <1>2, <2>1
<1>5. ASSUME NEW k \in Nat, k \in N PROVE k + 1 \in N
  <2>0. k + 1 \in Nat
    OBVIOUS
  <2> SUFFICES ASSUME NEW n \in 0 .. k + 1, n <= p PROVE ChainOf(g[n], x, text, n)
    BY <2>0, Zenon
  <2>1. \A m \in 0 .. k : m <= p => ChainOf(g[m], x, text, m)
    BY <1>5
  <2>2. CASE n \in 0 .. k
    BY <2>1, <2>2
  <2>3. CASE n = k + 1
    <3>1. n \in 1 .. p /\ \A m \in 0 .. n - 1 : m \in 0 .. k /\ m <= p
      BY <1>0, <2>3
    <3>2. \A m \in 0 .. n - 1 : ChainOf(g[m], x, text, m)
      BY <2>1, <3>1
    <3> QED
      BY <1>3, <3>1, <3>2
  <2>4. n \in 0 .. k \/ n = k + 1
    OBVIOUS
  <2> QED
    BY <2>2, <2>3, <2>4
<1> HIDE DEF N
<1>6. p \in N
  BY <1>0, <1>4, <1>5, NatInd
<1>7. ChainOf(g[p], x, text, p)
  <2>1. p \in 0 .. p /\ p <= p
    BY <1>0
  <2> QED
    BY <1>6, <2>1 DEF N
<1> QED
  BY <1>1, <1>7

\* A plan: rows that tile a prefix of the text, and the snapshot at its end.
PlanOf(plan, text) ==
  plan # << >> =>
    /\ EndOf(plan, Len(plan)) \in 1 .. Len(text)
    /\ plan[Len(plan)].kind = "snapshot"
    /\ EndOf(plan, Len(plan) - 1) = EndOf(plan, Len(plan))
    /\ \A i \in 1 .. Len(plan) - 1 :
         /\ plan[i].kind = "rows" /\ plan[i].start = EndOf(plan, i - 1)
         /\ EndOf(plan, i) \in 1 .. Len(text)

LEMMA PlanIs ==
  ASSUME NEW x \in IndexType, NEW text \in Seq(Token)
  PROVE  /\ Plan(x, text) \in Seq(Objects) /\ ToSet(Plan(x, text)) \in SUBSET ToSet(x.order)
         /\ Apart(Plan(x, text)) /\ PlanOf(Plan(x, text), text)
<1>0. Len(text) \in Nat
  BY LenProperties
<1>1. CASE RestorePoints(x, text) = {}
  <2>1. Plan(x, text) = << >>
    BY <1>1 DEF Plan
  <2>2. << >> \in Seq(Objects) /\ ToSet(<< >>) = {} /\ Apart(<< >>) /\ PlanOf(<< >>, text)
    BY DEF ToSet, Apart, PlanOf
  <2> QED
    BY <2>1, <2>2
<1>2. CASE RestorePoints(x, text) # {}
  <2>1. RestorePoints(x, text) \in SUBSET (1 .. Len(text))
    BY DEF RestorePoints
  <2>2. PICK p \in RestorePoints(x, text) : p = Max(RestorePoints(x, text))
    BY <1>0, <1>2, <2>1, MaxIn
  <2>3. p \in 1 .. Len(text) /\ Has(x, <<"snapshot", Prefix(text, p)>>) /\ Chain(x, text, p).ok
    BY DEF RestorePoints
  <2>4. p \in 0 .. Len(text) /\ p \in Nat
    BY <1>0, <2>3
  <2>5. PICK v : v = Chain(x, text, p) /\ ChainOf(v, x, text, p)
    BY <2>4, ChainIs
  <2>6. PICK q \in Seq(Objects) : /\ q = v.rows /\ ToSet(q) \in SUBSET ToSet(x.order)
                                  /\ Apart(q) /\ Tiles(q, text, p)
    BY <2>3, <2>5 DEF ChainOf
  <2>7. PICK o : o = Entry(x, <<"snapshot", Prefix(text, p)>>)
    OBVIOUS
  <2>8. o \in ToSet(x.order) /\ o \in Objects /\ o.kind = "snapshot" /\ o.text = Prefix(text, p)
    BY <2>3, <2>7, EntryIs
  <2>9. Len(o.text) = p
    BY <2>4, <2>8, PrefixIs
  <2>10. PICK l \in Nat : l = Len(q) /\ DOMAIN q = 1 .. l
    BY LenProperties
  <2>11. PICK a : a = Append(q, o)
    OBVIOUS
  <2>12. /\ a \in Seq(Objects) /\ Len(a) = l + 1 /\ a[l + 1] = o
         /\ \A i \in 1 .. l : a[i] = q[i]
    <3>1. /\ Append(q, o) \in Seq(Objects) /\ Len(Append(q, o)) = Len(q) + 1
          /\ Append(q, o)[Len(q) + 1] = o /\ \A i \in 1 .. Len(q) : Append(q, o)[i] = q[i]
      BY <2>8, Appended
    <3> QED
      BY <2>10, <2>11, <3>1
  <2>13. Plan(x, text) = a
    BY <1>2, <2>2, <2>5, <2>6, <2>7, <2>11 DEF Plan
  <2>14. ToSet(a) = ToSet(q) \cup {o}
    BY <2>8, <2>11, SetOfAppend
  <2>15. /\ EndOf(q, l) = p
         /\ \A i \in 1 .. l : q[i].kind = "rows" /\ Len(q[i].text) \in 1 .. p /\ q[i].start = EndOf(q, i - 1)
    BY <2>6, <2>10 DEF Tiles
  <2>16. Name(o) \notin NamesOf(q)
    <3> SUFFICES ASSUME NEW i \in 1 .. l, Name(o) = Name(q[i]) PROVE FALSE
      BY <2>10 DEF NamesOf, ToSet
    <3>1. q[i].kind = "snapshot"
      BY <2>8 DEF Name
    <3> QED
      BY <2>15, <3>1
  <2>17. Apart(a)
    BY <2>6, <2>8, <2>11, <2>16, ApartAppend
  <2>18. \A i \in 0 .. l : EndOf(a, i) = EndOf(q, i)
    BY <2>12 DEF EndOf
  <2>19. EndOf(a, l + 1) = p
    <3>1. l + 1 # 0
      BY <2>10
    <3> QED
      BY <2>9, <2>12, <3>1 DEF EndOf
  <2>20. ASSUME NEW i \in 1 .. l
         PROVE  a[i].kind = "rows" /\ a[i].start = EndOf(a, i - 1) /\ EndOf(a, i) \in 1 .. Len(text)
    <3>1. i - 1 \in 0 .. l /\ i \in 0 .. l /\ i # 0
      BY <2>10
    <3>2. EndOf(a, i) = Len(q[i].text)
      BY <2>18, <3>1 DEF EndOf
    <3>3. Len(q[i].text) \in 1 .. Len(text)
      BY <1>0, <2>3, <2>15
    <3> QED
      BY <2>12, <2>15, <2>18, <3>1, <3>2, <3>3
  <2>21. PlanOf(a, text)
    <3>1. Len(a) = l + 1 /\ Len(a) - 1 = l /\ l \in 0 .. l
      BY <2>10, <2>12
    <3>2. EndOf(a, l) = p
      BY <2>15, <2>18, <3>1
    <3> QED
      BY <2>3, <2>8, <2>12, <2>19, <2>20, <3>1, <3>2 DEF PlanOf
  <2> QED
    BY <2>6, <2>8, <2>12, <2>13, <2>14, <2>17, <2>21
<1> QED
  BY <1>1, <1>2

\* A hit moves the entries of a plan, and changes nothing else.
LEMMA HitIs ==
  ASSUME NEW x, Counted(x), NEW plan \in Seq(Objects), ToSet(plan) \in SUBSET ToSet(x.order), Apart(plan)
  PROVE  /\ Counted(Hit(x, plan)) /\ ToSet(Hit(x, plan).order) = ToSet(x.order)
         /\ Hit(x, plan).used = x.used /\ Names(Hit(x, plan)) = Names(x)
<1>1. x \in IndexType /\ Apart(x.order) /\ x.used = SizeOf(x.order)
  BY DEF Counted
<1>2. PICK q \in Seq(Objects) : q = x.order /\ Apart(q)
  BY <1>1 DEF IndexType
<1>3. PICK a \in Seq(Objects) : /\ a = Others(x, ToSet(plan)) /\ a = Only(q, Objects \ ToSet(plan))
                                /\ ToSet(a) = ToSet(q) \ ToSet(plan)
  BY <1>1, <1>2, OthersIs
<1>4. Apart(a)
  BY <1>2, <1>3, OnlyApart
<1>5. PICK z : z = a \o plan
  OBVIOUS
<1>6. z \in Seq(Objects) /\ ToSet(z) = ToSet(q)
  <2>1. z \in Seq(Objects) /\ ToSet(z) = ToSet(a) \cup ToSet(plan)
    BY <1>5, SetOfConcat
  <2> QED
    BY <1>2, <1>3, <2>1
<1>7. NamesOf(a) \cap NamesOf(plan) = {}
  <2> SUFFICES ASSUME NEW o \in ToSet(a), NEW u \in ToSet(plan), Name(o) = Name(u) PROVE FALSE
    BY DEF NamesOf
  <2>1. o \in ToSet(q) /\ u \in ToSet(q) /\ o \notin ToSet(plan)
    BY <1>2, <1>3
  <2>2. o = u
    BY <1>2, <2>1 DEF Apart, ToSet
  <2> QED
    BY <2>1, <2>2
<1>8. Apart(z)
  BY <1>4, <1>5, <1>7, ApartConcat
<1>9. SizeOf(z) = SizeOf(q)
  BY <1>2, <1>6, <1>8, ObjectsSized, SizeSame
<1>10. PICK y : y = [x EXCEPT !.order = z]
  OBVIOUS
<1>11. y \in IndexType /\ y.order = z /\ y.used = x.used
  BY <1>1, <1>6, <1>10 DEF IndexType
<1>12. Hit(x, plan) = y
  BY <1>3, <1>5, <1>10 DEF Hit
<1> QED
  BY <1>1, <1>2, <1>6, <1>8, <1>9, <1>11, <1>12 DEF Counted, Names

\* Sequences of names without repetition.
LEMMA OnlyInjective ==
  ASSUME NEW S, NEW q \in Seq(S), NEW T, IsInjective(q)
  PROVE  IsInjective(Only(q, T))
<1> DEFINE P == {u \in Seq(S) : IsInjective(u) => IsInjective(Only(u, T))}
<1>1. << >> \in P
  <2>1. << >> \in Seq(S) /\ Only(<< >>, T) = << >>
    BY OnlyEmpty
  <2> QED
    BY <2>1
<1>2. ASSUME NEW u \in Seq(S), NEW x \in S, u \in P PROVE Append(u, x) \in P
  <2>1. Append(u, x) \in Seq(S)
    BY Appended
  <2> SUFFICES ASSUME IsInjective(Append(u, x)) PROVE IsInjective(Only(Append(u, x), T))
    BY <2>1
  <2>2. PICK n \in Nat : n = Len(u) /\ DOMAIN u = 1 .. n
    BY LenProperties
  <2>3. PICK a : /\ a = Append(u, x) /\ DOMAIN a = (1 .. n) \cup {n + 1} /\ n + 1 \notin 1 .. n
                 /\ a[n + 1] = x /\ \A i \in 1 .. n : a[i] = u[i]
    <3>1. /\ DOMAIN Append(u, x) = (1 .. Len(u)) \cup {Len(u) + 1} /\ Len(u) + 1 \notin 1 .. Len(u)
          /\ Append(u, x)[Len(u) + 1] = x /\ \A i \in 1 .. Len(u) : Append(u, x)[i] = u[i]
      BY Appended
    <3> QED
      BY <2>2, <3>1
  <2>4. IsInjective(u) /\ x \notin ToSet(u)
    <3>1. \A i, j \in DOMAIN a : a[i] = a[j] => i = j
      BY <2>3 DEF IsInjective
    <3>2. \A i, j \in 1 .. n : u[i] = u[j] => i = j
      BY <2>3, <3>1
    <3>3. \A i \in 1 .. n : u[i] # x
      BY <2>3, <3>1
    <3> QED
      BY <2>2, <3>2, <3>3 DEF IsInjective, ToSet
  <2>5. PICK o \in Seq(S) : o = Only(u, T) /\ ToSet(o) = ToSet(u) \cap T /\ IsInjective(o)
    BY <1>2, <2>4, OnlySeq
  <2>6. PICK m \in Nat : m = Len(o) /\ DOMAIN o = 1 .. m
    BY LenProperties
  <2>7. PICK b : /\ b = Append(o, x) /\ DOMAIN b = (1 .. m) \cup {m + 1} /\ m + 1 \notin 1 .. m
                 /\ b[m + 1] = x /\ \A i \in 1 .. m : b[i] = o[i]
    <3>1. /\ DOMAIN Append(o, x) = (1 .. Len(o)) \cup {Len(o) + 1} /\ Len(o) + 1 \notin 1 .. Len(o)
          /\ Append(o, x)[Len(o) + 1] = x /\ \A i \in 1 .. Len(o) : Append(o, x)[i] = o[i]
      BY Appended
    <3> QED
      BY <2>6, <3>1
  <2>8. IsInjective(b)
    <3>1. \A i, j \in 1 .. m : o[i] = o[j] => i = j
      BY <2>5, <2>6 DEF IsInjective
    <3>2. \A i \in 1 .. m : o[i] # x
      BY <2>4, <2>5, <2>6 DEF ToSet
    <3> SUFFICES ASSUME NEW i \in DOMAIN b, NEW j \in DOMAIN b, b[i] = b[j] PROVE i = j
      BY DEF IsInjective
    <3>3. CASE i \in 1 .. m /\ j \in 1 .. m
      BY <2>7, <3>1, <3>3
    <3>4. CASE i \in 1 .. m /\ j = m + 1
      BY <2>7, <3>2, <3>4
    <3>5. CASE i = m + 1 /\ j \in 1 .. m
      BY <2>7, <3>2, <3>5
    <3> QED
      BY <2>7, <3>3, <3>4, <3>5
  <2>9. Only(Append(u, x), T) = IF x \in T THEN b ELSE o
    BY <2>5, <2>7, OnlyAppend
  <2> QED
    BY <2>5, <2>8, <2>9
<1> HIDE DEF P
<1>3. q \in P
  BY <1>1, <1>2, SeqInd
<1> QED
  BY <1>3 DEF P

\* A finite set of files, one of each name.
OneOfEach(F) ==
  /\ F \in SUBSET Objects /\ IsFiniteSet(F)
  /\ \A o, u \in F : Name(o) = Name(u) => o = u

LEMMA SetToSeqIs ==
  ASSUME NEW F, OneOfEach(F)
  PROVE  SetToSeq(F) \in Seq(Objects) /\ ToSet(SetToSeq(F)) = F /\ Apart(SetToSeq(F))
<1>1. PICK n \in Nat : n = Cardinality(F)
  BY FS_CardinalityType DEF OneOfEach
<1>2. \E f \in [1 .. n -> F] : IsInjective(f)
  <2>1. \E f \in Bijection(1 .. n, F) : TRUE
    BY <1>1, FS_NatBijection, FS_CountingElements DEF OneOfEach, ExistsBijection
  <2>2. PICK f \in Bijection(1 .. n, F) : TRUE
    BY <2>1
  <2>3. f \in [1 .. n -> F] /\ \A i, j \in 1 .. n : f[i] = f[j] => i = j
    BY <2>2 DEF Bijection, Injection, IsInjective
  <2> QED
    BY <2>3 DEF IsInjective
<1>3. PICK f \in [1 .. n -> F] : f = SetToSeq(F) /\ IsInjective(f)
  BY <1>1, <1>2 DEF SetToSeq
<1>4. f \in [1 .. n -> Objects]
  BY DEF OneOfEach
<1>5. f \in Seq(Objects)
  BY <1>4, SeqDef
<1>6. Apart(f)
  <2> SUFFICES ASSUME NEW i \in 1 .. n, NEW j \in 1 .. n, Name(f[i]) = Name(f[j]) PROVE i = j
    BY DEF Apart
  <2>1. f[i] = f[j]
    BY DEF OneOfEach
  <2> QED
    BY <1>3, <2>1 DEF IsInjective
<1>7. ToSet(f) = F
  <2>1. f \in Injection(1 .. n, F) /\ DOMAIN f = 1 .. n
    BY <1>3 DEF Injection
  <2>2. IsFiniteSet(F) /\ Cardinality(1 .. n) = Cardinality(F)
    <3>1. Cardinality(1 .. n) = n
      BY FS_Interval
    <3> QED
      BY <1>1, <3>1 DEF OneOfEach
  <2>3. f \in Surjection(1 .. n, F)
    BY <2>1, <2>2, FS_Injection
  <2>4. \A o \in F : \E i \in 1 .. n : f[i] = o
    BY <2>3 DEF Surjection
  <2> QED
    BY <2>1, <2>4 DEF ToSet
<1> QED
  BY <1>3, <1>5, <1>6, <1>7

AllNames == {Name(o) : o \in Objects}

\* What open_with finds, in its order.
KnownOf(F, q) == Only(q, {Name(o) : o \in F})
FileOf(F, name) == CHOOSE o \in F : Name(o) = name
Opens(F, q) ==
  SetToSeq({o \in F : Name(o) \notin ToSet(q)})
    \o [i \in DOMAIN KnownOf(F, q) |-> FileOf(F, KnownOf(F, q)[i])]

LEMMA OpensIs ==
  ASSUME NEW F, OneOfEach(F), NEW q \in Seq(AllNames), IsInjective(q)
  PROVE  Opens(F, q) \in Seq(Objects) /\ Apart(Opens(F, q)) /\ ToSet(Opens(F, q)) = F
<1>1. PICK G : G = {o \in F : Name(o) \notin ToSet(q)}
  OBVIOUS
<1>2. OneOfEach(G)
  <2>1. F \in SUBSET Objects /\ IsFiniteSet(F) /\ \A o, u \in F : Name(o) = Name(u) => o = u
    BY DEF OneOfEach
  <2>2. G \in SUBSET F
    BY <1>1
  <2>3. IsFiniteSet(G)
    BY <2>1, <2>2, FS_Subset
  <2> QED
    BY <2>1, <2>2, <2>3 DEF OneOfEach
<1>3. PICK a : a = SetToSeq(G) /\ a \in Seq(Objects) /\ ToSet(a) = G /\ Apart(a)
  BY <1>2, SetToSeqIs
<1>4. PICK T : T = {Name(o) : o \in F}
  OBVIOUS
<1>5. PICK known \in Seq(AllNames) : known = KnownOf(F, q) /\ known = Only(q, T) /\ ToSet(known) = ToSet(q) \cap T
  BY <1>4, OnlySeq DEF KnownOf
<1>6. IsInjective(known)
  BY <1>5, OnlyInjective
<1>7. PICK n \in Nat : n = Len(known) /\ DOMAIN known = 1 .. n
  BY LenProperties
<1>17. PICK b : b = [i \in DOMAIN known |-> FileOf(F, known[i])]
  OBVIOUS
<1>8. b = [i \in 1 .. n |-> FileOf(F, known[i])]
  BY <1>7, <1>17
<1>9. ASSUME NEW i \in 1 .. n PROVE b[i] \in F /\ Name(b[i]) = known[i] /\ known[i] \in ToSet(q)
  <2>1. known[i] \in ToSet(q) /\ known[i] \in T
    BY <1>5, <1>7 DEF ToSet
  <2>2. \E o \in F : Name(o) = known[i]
    BY <1>4, <2>1
  <2>3. b[i] = FileOf(F, known[i])
    BY <1>8
  <2> QED
    BY <2>1, <2>2, <2>3 DEF FileOf
<1>10. b \in Seq(Objects) /\ DOMAIN b = 1 .. n
  <2>1. b \in [1 .. n -> Objects]
    BY <1>8, <1>9 DEF OneOfEach
  <2> QED
    BY <2>1, SeqDef
<1>11. Apart(b)
  <2> SUFFICES ASSUME NEW i \in 1 .. n, NEW j \in 1 .. n, Name(b[i]) = Name(b[j]) PROVE i = j
    BY <1>10 DEF Apart
  <2>1. known[i] = known[j]
    BY <1>9
  <2> QED
    BY <1>6, <1>7, <2>1 DEF IsInjective
<1>12. ToSet(b) \in SUBSET F /\ \A o \in ToSet(b) : Name(o) \in ToSet(q)
  BY <1>9, <1>10 DEF ToSet
<1>18. ASSUME NEW o \in F, Name(o) \in ToSet(q) PROVE o \in ToSet(b)
  <2>1. Name(o) \in ToSet(known)
    BY <1>4, <1>5, <1>18
  <2>2. PICK i \in 1 .. n : known[i] = Name(o)
    BY <1>7, <2>1 DEF ToSet
  <2>3. b[i] \in F /\ Name(b[i]) = Name(o)
    BY <1>9, <2>2
  <2>4. b[i] = o
    BY <2>3 DEF OneOfEach
  <2> QED
    BY <1>10, <2>4 DEF ToSet
<1>13. NamesOf(a) \cap NamesOf(b) = {}
  BY <1>1, <1>3, <1>12 DEF NamesOf
<1>14. a \o b \in Seq(Objects) /\ ToSet(a \o b) = ToSet(a) \cup ToSet(b)
  BY <1>3, <1>10, SetOfConcat
<1>15. Apart(a \o b)
  BY <1>3, <1>10, <1>11, <1>13, ApartConcat
<1>16. Opens(F, q) = a \o b
  <2>1. Opens(F, q) = SetToSeq(G) \o [i \in DOMAIN known |-> FileOf(F, known[i])]
    BY <1>1, <1>5 DEF Opens
  <2> QED
    BY <1>3, <1>17, <2>1
<1>19. ToSet(a) \cup ToSet(b) = F
  <2>1. \A o \in F : o \in ToSet(a) \cup ToSet(b)
    BY <1>1, <1>3, <1>18
  <2>2. ToSet(a) \cup ToSet(b) \in SUBSET F
    BY <1>1, <1>3, <1>12
  <2> QED
    BY <2>1, <2>2
<1> QED
  BY <1>14, <1>15, <1>16, <1>19

LEMMA OpenedIs ==
  ASSUME NEW F, OneOfEach(F), NEW q \in Seq(AllNames), IsInjective(q), NEW S
  PROVE  /\ Counted(Opened(F, q, S)) /\ Opened(F, q, S).used <= Budget
         /\ ToSet(Opened(F, q, S).order) \in SUBSET F
<1>1. PICK z \in Seq(Objects) : z = Opens(F, q) /\ Apart(z) /\ ToSet(z) \in SUBSET F
  BY OpensIs
<1>2. PICK x : x = [order |-> z, used |-> SizeOf(z)]
  OBVIOUS
<1>3. Counted(x) /\ x \in IndexType /\ x.order = z
  <2>1. SizeOf(z) \in Nat
    BY ObjectsSized, SizesSeq
  <2> QED
    BY <1>1, <1>2, <2>1 DEF Counted, IndexType
<1>4. Opened(F, q, S) = Evicted(Dropped(x, Expired(x, S)))
  BY <1>1, <1>2 DEF Opened, Opens, KnownOf, FileOf
<1>5. PICK T : T = Expired(x, S)
  OBVIOUS
<1>6. PICK y : y = Dropped(x, T)
  OBVIOUS
<1>7. Counted(y) /\ ToSet(y.order) \in SUBSET ToSet(z)
  BY <1>3, <1>6, DroppedIs
<1>8. Counted(Evicted(y)) /\ Evicted(y).used <= Budget /\ ToSet(Evicted(y).order) \in SUBSET ToSet(y.order)
  BY <1>7, EvictedIs
<1> QED
  BY <1>1, <1>4, <1>5, <1>6, <1>7, <1>8

LEMMA InOrderIs ==
  ASSUME NEW n \in Nat, NEW S \in SUBSET (1 .. n)
  PROVE  /\ InOrder(S) \in Seq(Nat) /\ DOMAIN InOrder(S) = 1 .. Len(InOrder(S)) /\ Len(InOrder(S)) \in Nat
         /\ \A i \in DOMAIN InOrder(S) : InOrder(S)[i] \in S
<1>1. Max({0} \cup S) \in Nat
  <2>1. CASE S = {}
    <3>1. Max({0}) = 0
      <4>1. \E x \in {0} : \A y \in {0} : x >= y
        OBVIOUS
      <4> QED
        BY <4>1 DEF Max
    <3> QED
      BY <2>1, <3>1
  <2>2. CASE S # {}
    <3>1. Max(S) \in S
      BY <2>2, MaxIn
    <3>2. PICK m \in S : \A y \in S : y <= m
      <4> DEFINE T == {k \in Nat : \A i \in S : i <= k}
      <4>1. n \in T
        OBVIOUS
      <4>2. T \in SUBSET Nat /\ T # {}
        BY <4>1
      <4>3. PICK m \in T : \A k \in T : m <= k
        BY <4>2, NatLeast
      <4>4. m \in S
        <5> SUFFICES ASSUME m \notin S PROVE FALSE
          OBVIOUS
        <5>1. \A i \in S : i \in Nat /\ i >= 1 /\ i <= m /\ i # m
          BY <4>3
        <5>2. PICK i \in S : TRUE
          BY <2>2
        <5>3. m \in Nat /\ m - 1 \in Nat
          BY <4>3, <5>1, <5>2
        <5>4. \A k \in S : k <= m - 1
          BY <5>1, <5>3
        <5>5. m - 1 \in T
          BY <5>3, <5>4
        <5> QED
          BY <4>3, <5>3, <5>5
      <4> QED
        BY <4>3, <4>4
    <3>3. \E x \in {0} \cup S : \A y \in {0} \cup S : x >= y
      <4>1. m \in {0} \cup S /\ \A y \in {0} \cup S : m >= y
        BY <3>2
      <4> QED
        BY <4>1
    <3>4. PICK z : z = Max({0} \cup S)
      OBVIOUS
    <3>5. z \in {0} \cup S
      BY <3>3, <3>4 DEF Max
    <3> QED
      BY <3>4, <3>5
  <2> QED
    BY <2>1, <2>2
<1>2. PICK m \in Nat : m = Max({0} \cup S)
  BY <1>1
<1>3. PICK q : q = [i \in 1 .. m |-> i]
  OBVIOUS
<1>4. q \in Seq(Nat)
  <2>1. DOMAIN q = 1 .. m /\ \A i \in 1 .. m : q[i] \in Nat
    BY <1>3
  <2>2. q \in [1 .. m -> Nat]
    BY <1>3
  <2> QED
    BY <2>2, SeqDef
<1>5. PICK o : o = Only(q, S)
  OBVIOUS
<1>6. o \in Seq(Nat) /\ ToSet(o) = ToSet(q) \cap S
  BY <1>4, <1>5, OnlySeq
<1>7. InOrder(S) = o
  BY <1>2, <1>3, <1>5 DEF InOrder
<1>8. \A i \in DOMAIN o : o[i] \in S
  BY <1>6 DEF ToSet
<1>9. DOMAIN o = 1 .. Len(o) /\ Len(o) \in Nat
  BY <1>6, LenProperties
<1> QED
  BY <1>6, <1>7, <1>8, <1>9

\* A span of a text: the tokens in it have one role.
SpanOf(s, text) ==
  /\ s = <<s[1], s[2], s[3]>>
  /\ s[1] \in Nat /\ s[2] \in Nat /\ s[1] < s[2] /\ s[2] <= Len(text)
  /\ \A k \in s[1] + 1 .. s[2] : RoleOf[text[k]] = s[3]

LEMMA SpanIs ==
  ASSUME NEW text \in Seq(Token), NEW m, NEW s \in Spans(text, m)
  PROVE  SpanOf(s, text) /\ Border(text, m, s[1]) /\ Border(text, m, s[2])
<1>1. PICK n \in Nat : n = Len(text)
  BY LenProperties
<1>2. PICK x \in (0 .. n) \X (0 .. n) :
        /\ x[1] < x[2] /\ Border(text, m, x[1]) /\ Border(text, m, x[2])
        /\ \A z \in x[1] + 1 .. x[2] - 1 : ~Border(text, m, z)
        /\ s = <<x[1], x[2], RoleOf[text[x[1] + 1]]>>
  BY <1>1 DEF Spans
<1>3. PICK a \in Nat, b \in Nat : a = x[1] /\ b = x[2]
  BY <1>2
<1>4. a < b /\ b <= n
  BY <1>2, <1>3
<1>5. \A z \in a + 1 .. b - 1 : RoleOf[text[z]] = RoleOf[text[z + 1]]
  BY <1>2, <1>3 DEF Border
<1> DEFINE P == {k \in Nat : a + 1 + k <= b => RoleOf[text[a + 1 + k]] = RoleOf[text[a + 1]]}
<1>6. 0 \in P
  BY <1>3
<1>7. ASSUME NEW k \in Nat, k \in P PROVE k + 1 \in P
  <2> SUFFICES ASSUME a + 1 + (k + 1) <= b PROVE RoleOf[text[a + 1 + (k + 1)]] = RoleOf[text[a + 1]]
    BY <1>7
  <2>1. a + 1 + k \in a + 1 .. b - 1 /\ a + 1 + k + 1 = a + 1 + (k + 1)
    BY <1>3, <1>4
  <2>2. RoleOf[text[a + 1 + k]] = RoleOf[text[a + 1 + k + 1]]
    BY <1>5, <2>1
  <2>3. RoleOf[text[a + 1 + k]] = RoleOf[text[a + 1]]
    BY <1>7, <2>1, <1>3
  <2> QED
    BY <2>1, <2>2, <2>3
<1>8. \A k \in Nat : k \in P
  <2> HIDE DEF P
  <2> QED
    BY <1>6, <1>7, NatInd
<1>9. \A k \in a + 1 .. b : RoleOf[text[k]] = RoleOf[text[a + 1]]
  <2> SUFFICES ASSUME NEW k \in a + 1 .. b PROVE RoleOf[text[k]] = RoleOf[text[a + 1]]
    OBVIOUS
  <2>1. PICK j \in Nat : j = k - a - 1
    BY <1>3
  <2>2. k = a + 1 + j /\ a + 1 + j <= b
    BY <1>3, <2>1
  <2> QED
    BY <1>8, <2>2
<1>10. s = <<a, b, RoleOf[text[a + 1]]>> /\ s[1] = a /\ s[2] = b /\ s[3] = RoleOf[text[a + 1]]
  BY <1>2, <1>3
<1>11. SpanOf(s, text)
  BY <1>1, <1>4, <1>9, <1>10 DEF SpanOf
<1> QED
  BY <1>2, <1>3, <1>10, <1>11

\* What a chunk is: rows of one role that end inside the text.
LEMMA ChunkIs ==
  ASSUME NEW text \in Seq(Token), NEW m, NEW c \in Chunks(text, Spans(text, m))
  PROVE  /\ c[1] \in Nat /\ c[2] \in Nat /\ c[1] < c[2] /\ c[2] <= Len(text)
         /\ c[3] = RoleOf[text[c[2]]]
<1>1. PICK s \in Spans(text, m) : \E x \in s[1] .. s[2] - 1 :
         c = <<x, IF x + ChunkLen < s[2] THEN x + ChunkLen ELSE s[2], s[3]>>
  BY DEF Chunks, ChunkSpans
<1>2. SpanOf(s, text)
  BY SpanIs
<1>3. PICK a \in Nat, b \in Nat : a = s[1] /\ b = s[2]
  BY <1>2 DEF SpanOf
<1>4. Len(text) \in Nat /\ a < b /\ b <= Len(text) /\ \A k \in a + 1 .. b : RoleOf[text[k]] = s[3]
  BY <1>2, <1>3, LenProperties DEF SpanOf
<1>5. PICK x \in a .. b - 1 : c = <<x, IF x + ChunkLen < b THEN x + ChunkLen ELSE b, s[3]>>
  BY <1>1, <1>3
<1>6. PICK y \in Nat : y = IF x + ChunkLen < b THEN x + ChunkLen ELSE b
  BY <1>3, <1>5, ChunkAssumption
<1>7. x < y /\ y <= b /\ y \in a + 1 .. b /\ x \in Nat
  BY <1>3, <1>4, <1>5, <1>6, ChunkAssumption
<1>8. c[1] = x /\ c[2] = y /\ c[3] = s[3]
  BY <1>5, <1>6
<1> QED
  BY <1>4, <1>7, <1>8

\* The last span of a text ends with it.
LEMMA LastRoleIs ==
  ASSUME NEW text \in Seq(Token), Len(text) > 0, NEW m
  PROVE  LastRole(Spans(text, m), Len(text)) = RoleOf[text[Len(text)]]
<1>1. PICK n \in Nat : n = Len(text) /\ n > 0
  BY LenProperties
<1> DEFINE B == {i \in 0 .. n : Border(text, m, i)}
           T == {k \in Nat : n - 1 - k \in 0 .. n /\ Border(text, m, n - 1 - k)}
<1>2. Border(text, m, 0) /\ Border(text, m, n)
  BY <1>1 DEF Border
<1>3. PICK k \in T : \A j \in T : k <= j
  <2>1. n - 1 \in T
    BY <1>1, <1>2
  <2>2. T \in SUBSET Nat /\ T # {}
    BY <2>1
  <2> QED
    BY <2>2, NatLeast
<1>4. PICK b : b = n - 1 - k
  OBVIOUS
<1>5. b \in Nat /\ b < n /\ Border(text, m, b)
  BY <1>1, <1>3, <1>4
<1>6. \A i \in 0 .. n - 1 : Border(text, m, i) => i <= b
  <2> SUFFICES ASSUME NEW i \in 0 .. n - 1, Border(text, m, i) PROVE i <= b
    OBVIOUS
  <2>1. n - 1 - i \in Nat /\ n - 1 - (n - 1 - i) = i /\ i \in 0 .. n
    BY <1>1
  <2>2. n - 1 - i \in T
    BY <2>1
  <2>3. k <= n - 1 - i
    BY <1>3, <2>2
  <2> QED
    BY <1>1, <1>3, <1>4, <2>3
<1>7. <<b, n, RoleOf[text[b + 1]]>> \in Spans(text, m)
  <2>1. PICK x : x = <<b, n>>
    OBVIOUS
  <2>2. x \in (0 .. n) \X (0 .. n) /\ x[1] = b /\ x[2] = n
    BY <1>1, <1>5, <2>1
  <2>3. \A z \in b + 1 .. n - 1 : ~Border(text, m, z)
    BY <1>1, <1>5, <1>6
  <2>4. x[1] < x[2] /\ Border(text, m, x[1]) /\ Border(text, m, x[2])
    BY <1>2, <1>5, <2>2
  <2>5. \A z \in x[1] + 1 .. x[2] - 1 : ~Border(text, m, z)
    BY <2>2, <2>3
  <2>6. x \in {v \in (0 .. n) \X (0 .. n) :
             /\ v[1] < v[2] /\ Border(text, m, v[1]) /\ Border(text, m, v[2])
             /\ \A z \in v[1] + 1 .. v[2] - 1 : ~Border(text, m, z)}
    BY <2>2, <2>4, <2>5
  <2>7. <<x[1], x[2], RoleOf[text[x[1] + 1]]>> \in Spans(text, m)
    BY <1>1, <2>6 DEF Spans
  <2> QED
    BY <2>2, <2>7
<1> DEFINE Latest(s) == s[1] < n /\ \A t \in Spans(text, m) : t[1] < n => t[1] <= s[1]
<1>8. ASSUME NEW t \in Spans(text, m), t[1] < n PROVE t[1] \in 0 .. n - 1 /\ t[1] <= b
  <2>1. t[1] \in Nat /\ Border(text, m, t[1])
    BY SpanIs DEF SpanOf
  <2> QED
    BY <1>1, <1>6, <1>8, <2>1
<1>9. \E s \in Spans(text, m) : Latest(s)
  <2>1. PICK s \in Spans(text, m) : s[1] = b
    BY <1>7
  <2> QED
    BY <1>1, <1>5, <1>8, <2>1
<1>10. PICK s : s = CHOOSE x \in Spans(text, m) : Latest(x)
  OBVIOUS
<1>11. s \in Spans(text, m) /\ Latest(s)
  <2> HIDE DEF Latest
  <2> QED
    BY <1>9, <1>10
<1>12. LastRole(Spans(text, m), n) = s[3]
  BY <1>1, <1>10 DEF LastRole
<1>13. SpanOf(s, text) /\ Border(text, m, s[2])
  BY <1>11, SpanIs
<1>14. PICK a \in Nat, d \in Nat : a = s[1] /\ d = s[2] /\ a < d /\ d <= n
  BY <1>1, <1>13 DEF SpanOf
<1>15. b <= a
  <2>1. PICK t \in Spans(text, m) : t[1] = b
    BY <1>7
  <2> QED
    BY <1>5, <1>11, <1>14, <2>1
<1>16. d = n
  <2> SUFFICES ASSUME d # n PROVE FALSE
    OBVIOUS
  <2>1. d \in 0 .. n - 1 /\ Border(text, m, d)
    BY <1>1, <1>13, <1>14
  <2>2. d <= b
    BY <1>6, <2>1
  <2> QED
    BY <1>5, <1>14, <1>15, <2>2
<1>17. n \in a + 1 .. n
  BY <1>14, <1>16
<1>18. RoleOf[text[n]] = s[3]
  BY <1>13, <1>14, <1>16, <1>17 DEF SpanOf
<1> QED
  BY <1>1, <1>12, <1>18

LEMMA ObjectsOfPrefix ==
  ASSUME NEW text \in Seq(Token), NEW k \in 0 .. Len(text)
  PROVE  ObjectsOf(Prefix(text, k)) \in SUBSET ObjectsOf(text)
<1>1. PICK n \in Nat : n = Len(text) /\ DOMAIN text = 1 .. n
  BY LenProperties
<1>2. PICK p \in Seq(Token) : p = Prefix(text, k) /\ Len(p) = k /\ k \in Nat /\ \A i \in 1 .. k : p[i] = text[i]
  BY PrefixIs
<1>3. DOMAIN p = 1 .. k
  BY <1>2, LenProperties
<1> SUFFICES ASSUME NEW o \in ObjectsOf(p) PROVE o \in ObjectsOf(text)
  BY <1>2
<1>4. PICK i \in DOMAIN p : \/ \E s \in 0 .. i - 1 : o = Rows(Prefix(p, i), s, RoleOf[p[i]])
                            \/ o = Snapshot(Prefix(p, i), RoleOf[p[i]])
  BY DEF ObjectsOf
<1>5. i \in DOMAIN text /\ i \in 0 .. k /\ p[i] = text[i]
  BY <1>1, <1>2, <1>3
<1>6. Prefix(p, i) = Prefix(text, i)
  BY <1>2, <1>5, PrefixOfPrefix
<1>7. \/ \E s \in 0 .. i - 1 : o = Rows(Prefix(text, i), s, RoleOf[text[i]])
      \/ o = Snapshot(Prefix(text, i), RoleOf[text[i]])
  BY <1>4, <1>5, <1>6
<1> QED
  BY <1>5, <1>7 DEF ObjectsOf

LEMMA ObjectsOfMembers ==
  ASSUME NEW text \in Seq(Token), NEW n \in 1 .. Len(text)
  PROVE  /\ \A s \in 0 .. n - 1 : Rows(Prefix(text, n), s, RoleOf[text[n]]) \in ObjectsOf(text)
         /\ Snapshot(Prefix(text, n), RoleOf[text[n]]) \in ObjectsOf(text)
<1>1. n \in DOMAIN text
  BY LenProperties
<1> QED
  BY <1>1 DEF ObjectsOf

LEMMA ChunkRowsIs ==
  ASSUME NEW text \in Seq(Token), NEW m, NEW end \in {c[2] : c \in Chunks(text, Spans(text, m))}
  PROVE  /\ ChunkRows(text, Spans(text, m), end) \in ObjectsOf(text)
         /\ end \in 1 .. Len(text)
<1>1. PICK c : c = CHOOSE x \in Chunks(text, Spans(text, m)) : x[2] = end
  OBVIOUS
<1>2. c \in Chunks(text, Spans(text, m)) /\ c[2] = end
  BY <1>1
<1>3. PICK a \in Nat, b \in Nat : a = c[1] /\ b = c[2] /\ a < b /\ b <= Len(text) /\ c[3] = RoleOf[text[b]]
  BY <1>2, ChunkIs
<1>4. Len(text) \in Nat /\ b \in 1 .. Len(text) /\ a \in 0 .. b - 1
  BY <1>3, LenProperties
<1>5. Rows(Prefix(text, b), a, RoleOf[text[b]]) \in ObjectsOf(text)
  BY <1>4, ObjectsOfMembers
<1>6. ChunkRows(text, Spans(text, m), end) = Rows(Prefix(text, b), a, RoleOf[text[b]])
  BY <1>1, <1>3 DEF ChunkRows
<1> QED
  BY <1>2, <1>3, <1>4, <1>5, <1>6

\* A save stores objects of its text.
LEMMA SavedIs ==
  ASSUME NEW text \in Seq(Token), NEW m
  PROVE  SavedObjects(text, Spans(text, m)) \in Seq(ObjectsOf(text))
<1>1. PICK n \in Nat : n = Len(text)
  BY LenProperties
<1> DEFINE E == {c[2] : c \in Chunks(text, Spans(text, m))}
<1>2. E \in SUBSET (1 .. n)
  BY <1>1, ChunkRowsIs
<1>3. PICK q : q = InOrder(E)
  OBVIOUS
<1>4. DOMAIN q = 1 .. Len(q) /\ Len(q) \in Nat /\ \A i \in DOMAIN q : q[i] \in E
  BY <1>2, <1>3, InOrderIs
<1>5. \A x \in E : ChunkRows(text, Spans(text, m), x) \in ObjectsOf(text)
  BY ChunkRowsIs
<1>6. PICK rows : rows = [i \in DOMAIN q |-> ChunkRows(text, Spans(text, m), q[i])]
  OBVIOUS
<1>7. rows \in Seq(ObjectsOf(text))
  <2>1. rows \in [1 .. Len(q) -> ObjectsOf(text)]
    BY <1>4, <1>5, <1>6
  <2> QED
    BY <1>4, <2>1, SeqDef
<1>8. SavedRows(text, Spans(text, m)) = rows
  BY <1>3, <1>6 DEF SavedRows
<1>9. n > 0 => Append(rows, Snapshot(text, LastRole(Spans(text, m), n))) \in Seq(ObjectsOf(text))
  <2> SUFFICES ASSUME n > 0 PROVE Append(rows, Snapshot(text, LastRole(Spans(text, m), n))) \in Seq(ObjectsOf(text))
    OBVIOUS
  <2>1. n \in 1 .. Len(text)
    BY <1>1
  <2>2. Snapshot(Prefix(text, n), RoleOf[text[n]]) \in ObjectsOf(text)
    BY <2>1, ObjectsOfMembers
  <2>3. LastRole(Spans(text, m), n) = RoleOf[text[n]]
    BY <1>1, LastRoleIs
  <2>4. Prefix(text, n) = text
    <3>1. n \in 0 .. Len(text)
      BY <1>1
    <3>2. PICK p : p = Prefix(text, n)
      OBVIOUS
    <3>3. p \in Seq(Token) /\ Len(p) = n /\ \A i \in 1 .. n : p[i] = text[i]
      BY <3>1, <3>2, PrefixIs
    <3>4. p = text
      BY <1>1, <3>3, SeqEqual
    <3> QED
      BY <3>2, <3>4
  <2>5. PICK o \in ObjectsOf(text) : o = Snapshot(text, LastRole(Spans(text, m), n))
    BY <2>2, <2>3, <2>4
  <2>6. Append(rows, o) \in Seq(ObjectsOf(text))
    BY <1>7, AppendProperties
  <2> QED
    BY <2>5, <2>6
<1>10. SavedObjects(text, Spans(text, m)) =
         IF n > 0 /\ n <= PersistCut(Spans(text, m), n) THEN Append(rows, Snapshot(text, LastRole(Spans(text, m), n)))
         ELSE rows
  BY <1>1, <1>8 DEF SavedObjects
<1> QED
  BY <1>7, <1>9, <1>10

JobType == [object : Objects, flush : BOOLEAN]
SaveType == [waits : BOOLEAN, jobs : Seq(JobType)]

LEMMA JobsOfIs ==
  ASSUME NEW q \in Seq(Objects), NEW k \in Int
  PROVE  JobsOf(q, k) \in Seq(JobType)
<1>1. DOMAIN q = 1 .. Len(q) /\ Len(q) \in Nat /\ \A i \in 1 .. Len(q) : q[i] \in Objects
  BY LenProperties
<1>2. \A i \in 1 .. Len(q) : [object |-> q[i], flush |-> i >= k] \in JobType
  BY <1>1 DEF JobType
<1>3. PICK z : z = [i \in DOMAIN q |-> [object |-> q[i], flush |-> i >= k]]
  OBVIOUS
<1>4. z \in [1 .. Len(q) -> JobType]
  BY <1>1, <1>2, <1>3
<1> QED
  BY <1>1, <1>3, <1>4, SeqDef DEF JobsOf

\* The texts of a request have the request's objects.
LEMMA PrefixObjects ==
  ASSUME NEW q \in ToSet(Requests)
  PROVE  /\ ObjectsOf(q.full) \in SUBSET Objects
         /\ \A p \in 0 .. Len(q.prompt) :
              Prefix(q.prompt, p) \in Seq(Token) /\ ObjectsOf(Prefix(q.prompt, p)) \in SUBSET Objects
<1>1. ObjectsOf(q.full) \in SUBSET Objects
  BY DEF Objects
<1>2. PICK text \in Seq(Token), full \in Seq(Token) : text = q.prompt /\ full = q.full
  BY RequestIs
<1>3. Len(text) \in 0 .. Len(full) /\ text = Prefix(full, Len(text))
  BY <1>2, RequestIs
<1>4. ObjectsOf(text) \in SUBSET ObjectsOf(full)
  <2>1. PICK k \in 0 .. Len(full) : k = Len(text)
    BY <1>3
  <2>2. ObjectsOf(Prefix(full, k)) \in SUBSET ObjectsOf(full)
    BY ObjectsOfPrefix
  <2> QED
    BY <1>3, <2>1, <2>2
<1>5. \A p \in 0 .. Len(text) : Prefix(text, p) \in Seq(Token) /\ ObjectsOf(Prefix(text, p)) \in SUBSET ObjectsOf(text)
  BY ObjectsOfPrefix, PrefixIs
<1> QED
  BY <1>1, <1>2, <1>4, <1>5

LEMMA PointsIs ==
  ASSUME NEW q \in ToSet(Requests), NEW from
  PROVE  /\ Points(q, from) \in Seq(Nat) /\ DOMAIN Points(q, from) = 1 .. Len(Points(q, from))
         /\ Len(Points(q, from)) \in Nat
         /\ \A i \in DOMAIN Points(q, from) : Points(q, from)[i] \in 1 .. Len(q.prompt)
<1>1. PICK text \in Seq(Token) : text = q.prompt
  BY RequestIs
<1>2. PICK n \in Nat : n = Len(text)
  BY LenProperties
<1> DEFINE S == {p[1] : p \in SnapshotPoints(PromptSpans(text), from, n)}
<1>3. S \in SUBSET (1 .. n)
  <2> SUFFICES ASSUME NEW p \in SnapshotPoints(PromptSpans(text), from, n) PROVE p[1] \in 1 .. n
    OBVIOUS
  <2>1. PICK s \in Spans(text, 0) : p = <<s[2], s[3]>>
    BY DEF SnapshotPoints, PromptSpans
  <2>2. SpanOf(s, text)
    BY SpanIs
  <2>3. p[1] = s[2]
    BY <2>1
  <2> QED
    BY <1>2, <2>2, <2>3 DEF SpanOf
<1>4. Points(q, from) = InOrder(S)
  BY <1>1, <1>2 DEF Points
<1>5. PICK o : o = InOrder(S)
  OBVIOUS
<1>6. /\ o \in Seq(Nat) /\ DOMAIN o = 1 .. Len(o) /\ Len(o) \in Nat
      /\ \A i \in DOMAIN o : o[i] \in S
  BY <1>3, <1>5, InOrderIs
<1> QED
  BY <1>1, <1>2, <1>3, <1>4, <1>5, <1>6

\* The jobs of a save are about objects of the requests.
LEMMA ContinuousSavesIs ==
  ASSUME NEW q \in ToSet(Requests), NEW from
  PROVE  ContinuousSaves(q, from) \in Seq(SaveType)
<1>1. ASSUME NEW text \in Seq(Token), NEW m, ObjectsOf(text) \in SUBSET Objects
      PROVE  ReadySave(text, m) \in SaveType
  <2>1. PICK o : o = SavedObjects(text, Spans(text, m))
    OBVIOUS
  <2>2. o \in Seq(ObjectsOf(text))
    BY <2>1, SavedIs
  <2>3. o \in Seq(Objects)
    BY <1>1, <2>2, SeqMonotonic
  <2>4. JobsOf(o, 1) \in Seq(JobType)
    BY <2>3, JobsOfIs
  <2> QED
    BY <2>1, <2>4 DEF ReadySave, SaveType
<1>2. PICK p : p = Points(q, from)
  OBVIOUS
<1>3. DOMAIN p = 1 .. Len(p) /\ Len(p) \in Nat /\ \A i \in DOMAIN p : p[i] \in 1 .. Len(q.prompt)
  BY <1>2, PointsIs
<1>4. \A i \in DOMAIN p : ReadySave(Prefix(q.prompt, p[i]), 0) \in SaveType
  <2> SUFFICES ASSUME NEW i \in DOMAIN p PROVE ReadySave(Prefix(q.prompt, p[i]), 0) \in SaveType
    OBVIOUS
  <2>1. q.prompt \in Seq(Token)
    BY RequestIs
  <2>2. p[i] \in 0 .. Len(q.prompt)
    BY <1>3, <2>1, LenProperties
  <2>3. Prefix(q.prompt, p[i]) \in Seq(Token) /\ ObjectsOf(Prefix(q.prompt, p[i])) \in SUBSET Objects
    BY <2>2, PrefixObjects
  <2> QED
    BY <1>1, <2>3
<1>5. ReadySave(q.full, Len(q.prompt)) \in SaveType
  <2>1. q.full \in Seq(Token) /\ ObjectsOf(q.full) \in SUBSET Objects
    BY RequestIs, PrefixObjects
  <2> QED
    BY <1>1, <2>1
<1>6. PICK z : z = [i \in DOMAIN p |-> ReadySave(Prefix(q.prompt, p[i]), 0)]
  OBVIOUS
<1>7. z \in Seq(SaveType)
  <2>1. z \in [1 .. Len(p) -> SaveType]
    BY <1>3, <1>4, <1>6
  <2> QED
    BY <1>3, <2>1, SeqDef
<1>8. Append(z, ReadySave(q.full, Len(q.prompt))) \in Seq(SaveType)
  BY <1>5, <1>7, AppendProperties
<1> QED
  BY <1>2, <1>6, <1>8 DEF ContinuousSaves

LEMMA SerialSavesIs ==
  ASSUME NEW q \in ToSet(Requests), NEW from
  PROVE  SerialSaves(q, from) \in Seq(SaveType)
<1> DEFINE Save(i) ==
      [waits |-> FALSE,
       jobs  |-> << [object |-> Snapshot(Prefix(q.prompt, i), RoleOf[q.prompt[i]]), flush |-> FALSE] >>]
<1>1. ASSUME NEW i \in 1 .. Len(q.prompt) PROVE Save(i) \in SaveType
  <2>1. PICK text \in Seq(Token) : text = q.prompt
    BY RequestIs
  <2>2. Len(text) \in Nat /\ i \in 1 .. Len(text) /\ Len(text) \in 0 .. Len(text)
    BY <2>1, LenProperties
  <2>3. Snapshot(Prefix(text, i), RoleOf[text[i]]) \in ObjectsOf(text)
    BY <2>2, ObjectsOfMembers
  <2>4. Prefix(text, Len(text)) = text
    <3>1. PICK p : p = Prefix(text, Len(text))
      OBVIOUS
    <3>2. p \in Seq(Token) /\ Len(p) = Len(text) /\ \A k \in 1 .. Len(text) : p[k] = text[k]
      BY <2>2, <3>1, PrefixIs
    <3>3. p = text
      BY <3>2, SeqEqual
    <3> QED
      BY <3>1, <3>3
  <2>5. ObjectsOf(text) \in SUBSET Objects
    <3>1. ObjectsOf(Prefix(text, Len(text))) \in SUBSET Objects
      BY <2>1, <2>2, PrefixObjects
    <3> QED
      BY <2>4, <3>1
  <2>6. PICK o \in Objects : o = Snapshot(Prefix(text, i), RoleOf[text[i]])
    BY <2>3, <2>5
  <2>7. [object |-> o, flush |-> FALSE] \in JobType
    BY DEF JobType
  <2>8. << [object |-> o, flush |-> FALSE] >> \in Seq(JobType)
    BY <2>7
  <2>9. [waits |-> FALSE, jobs |-> << [object |-> o, flush |-> FALSE] >>] \in SaveType
    BY <2>8 DEF SaveType
  <2> QED
    BY <2>1, <2>6, <2>9
<1>2. PICK p : p = Points(q, from)
  OBVIOUS
<1>3. DOMAIN p = 1 .. Len(p) /\ Len(p) \in Nat /\ \A i \in DOMAIN p : p[i] \in 1 .. Len(q.prompt)
  BY <1>2, PointsIs
<1>4. PICK z : z = [i \in DOMAIN p |-> Save(p[i])]
  OBVIOUS
<1>5. z \in Seq(SaveType)
  <2>1. z \in [1 .. Len(p) -> SaveType]
    <3> HIDE DEF Save
    <3> QED
      BY <1>1, <1>3, <1>4
  <2> QED
    BY <1>3, <2>1, SeqDef
<1>6. PICK all : all = SavedObjects(q.full, Spans(q.full, Len(q.prompt)))
  OBVIOUS
<1>7. all \in Seq(Objects)
  <2>1. q.full \in Seq(Token) /\ ObjectsOf(q.full) \in SUBSET Objects
    BY RequestIs, PrefixObjects
  <2>2. all \in Seq(ObjectsOf(q.full))
    BY <1>6, <2>1, SavedIs
  <2> QED
    BY <2>1, <2>2, SeqMonotonic
<1>8. PICK k : k = Cardinality({i \in DOMAIN all : all[i].kind = "rows"})
  OBVIOUS
<1>9. k \in Int
  <2>1. IsFiniteSet(DOMAIN all)
    <3>1. DOMAIN all = 1 .. Len(all) /\ Len(all) \in Nat
      BY <1>7, LenProperties
    <3> QED
      BY <3>1, FS_Interval
  <2>2. IsFiniteSet({i \in DOMAIN all : all[i].kind = "rows"})
    BY <2>1, FS_Subset
  <2>3. k \in Nat
    BY <1>8, <2>2, FS_CardinalityType
  <2> QED
    BY <2>3
<1>10. PICK j : j = JobsOf(all, k)
  OBVIOUS
<1>11. j \in Seq(JobType)
  BY <1>7, <1>9, <1>10, JobsOfIs
<1>12. PICK s : s = [waits |-> TRUE, jobs |-> j]
  OBVIOUS
<1>13. s \in SaveType
  BY <1>11, <1>12 DEF SaveType
<1>14. Append(z, s) \in Seq(SaveType)
  BY <1>5, <1>13, AppendProperties
<1> QED
  BY <1>2, <1>4, <1>6, <1>8, <1>10, <1>12, <1>14 DEF SerialSaves

-----------------------------------------------------------------------------
(***************************************************************************)
(* The inductive invariant: what the parts of a state are.                  *)
(***************************************************************************)
EnginePc == {"idle", "lookup", "expire", "take", "get", "receive", "prefill", "has", "save", "send"}
ReaderPc == {"idle", "expire", "take", "get", "touch", "send", "forget", "delete", "error"}
WriterPc == {"idle", "rename", "insert", "delete", "flush"}
TaskType == [text : Seq(Token), live : BOOLEAN]
WriteType == [object : Objects, flush : BOOLEAN, cap : Nat]
MessageType == [object : Objects \cup {NoObject}, cap : Nat]
EngineType ==
  [pc : EnginePc, req : ToSet(Requests) \cup {NoRequest}, plan : Seq(Objects), at : Nat, buf : Nat,
   rows : SUBSET Nat, pos : Nat, names : SUBSET AllNames, saves : Seq(SaveType)]
ReaderType ==
  [pc : ReaderPc, task : TaskType, plan : Seq(Objects), at : Nat, buf : Nat, names : SUBSET AllNames]
WriterType == [pc : WriterPc, job : WriteType \cup {NoJob}, names : SUBSET AllNames]

IndexOk ==
  Counted(ix) /\ ix.used <= Budget /\ idle \in SUBSET Names(ix)
DiskOk ==
  OneOfEach(files) /\ stored \in Seq(AllNames) /\ IsInjective(stored)
StagingOk == st \in StagingType /\ st.alloc <= st.budget
SavesOk(q) == q \in Seq(SaveType) /\ \A i \in DOMAIN q : q[i].jobs # << >>
EngineShape(x) ==
  /\ x \in EngineType
  /\ x.pc \notin {"idle", "has", "save", "send"} => x.req \in ToSet(Requests)
  /\ PlanOf(x.plan, x.req.prompt) /\ (x.pc \in {"lookup", "expire"} => x.at = 1)
  /\ x.pc \in {"take", "get"} \/ (x.pc = "expire" /\ x.plan # << >>) => x.at \in DOMAIN x.plan
  /\ x.buf = 0 <=> x.pc \notin {"get", "send"}
  /\ x.pc \in {"has", "save", "send"} => x.saves # << >>
  /\ SavesOk(x.saves)
ReaderShape(x) ==
  /\ x \in ReaderType
  /\ PlanOf(x.plan, x.task.text)
  /\ x.pc \in {"take", "get", "touch", "send", "forget"} \/ (x.pc = "expire" /\ x.plan # << >>)
       => x.at \in DOMAIN x.plan
  /\ x.buf = 0 <=> x.pc \notin {"get", "touch", "send"}
WriterOk ==
  /\ w \in WriterType
  /\ IF w.pc = "idle" THEN w.job = NoJob ELSE w.job \in WriteType
WritesOk == wq \in Seq(WriteType) /\ Len(wq) <= WriterCap
TasksOk == rq \in Seq(TaskType) /\ Len(rq) <= ReaderCap
ChannelOk ==
  /\ ch \in [msgs : Seq(MessageType), open : BOOLEAN] /\ Len(ch.msgs) <= 1
  /\ \A i \in DOMAIN ch.msgs : ch.msgs[i].cap = 0 <=> ch.msgs[i].object = NoObject
Shapes ==
  /\ asked \in Nat /\ IndexOk /\ DiskOk /\ StagingOk
  /\ EngineShape(e) /\ ReaderShape(r) /\ WriterOk /\ WritesOk /\ TasksOk /\ ChannelOk

LEMMA NoObjectIs == NoObject \notin Objects
<1>1. \A o \in Objects : Len(o.text) # 0
  BY ObjectIs
<1>2. NoObject.text = << >> /\ Len(<< >>) = 0
  BY DEF NoObject, Snapshot
<1> QED
  BY <1>1, <1>2

LEMMA IdleIs ==
  /\ EngineShape(Idle) /\ ReaderShape(IdleReader)
  /\ Idle.pc = "idle" /\ Idle.req = NoRequest /\ Idle.plan = << >> /\ Idle.at = 1 /\ Idle.buf = 0
  /\ Idle.rows = {} /\ Idle.pos = 0 /\ Idle.names = {} /\ Idle.saves = << >> /\ Idle \in EngineType
  /\ IdleReader \in ReaderType
<1>1. Idle \in EngineType
  BY DEF Idle, EngineType, EnginePc
<1>2. IdleReader \in ReaderType
  BY DEF IdleReader, ReaderType, ReaderPc, TaskType, NoTask
<1>3. \A text : PlanOf(<< >>, text)
  BY DEF PlanOf
<1>4. SavesOk(<< >>)
  BY DEF SavesOk
<1>5. EngineShape(Idle)
  BY <1>1, <1>3, <1>4 DEF EngineShape, Idle
<1>6. ReaderShape(IdleReader)
  BY <1>2, <1>3 DEF ReaderShape, IdleReader
<1> QED
  BY <1>1, <1>2, <1>5, <1>6 DEF Idle

LEMMA NewRestoreIs ==
  ASSUME NEW q \in ToSet(Requests), NEW pc \in {"lookup", "receive", "prefill"}
  PROVE  /\ EngineShape(NewRestore(q, pc))
         /\ NewRestore(q, pc).pc = pc /\ NewRestore(q, pc).req = q /\ NewRestore(q, pc).rows = {}
         /\ NewRestore(q, pc).pos = 0 /\ NewRestore(q, pc).buf = 0 /\ NewRestore(q, pc).names = {}
         /\ NewRestore(q, pc).plan = << >> /\ NewRestore(q, pc).at = 1
<1>1. PICK x : x = NewRestore(q, pc)
  OBVIOUS
<1>2. /\ x \in EngineType /\ x.pc = pc /\ x.req = q /\ x.plan = << >> /\ x.at = 1 /\ x.buf = 0
      /\ x.rows = {} /\ x.pos = 0 /\ x.names = {} /\ x.saves = << >>
  BY <1>1, IdleIs DEF NewRestore, EngineType, EnginePc
<1>3. PlanOf(x.plan, x.req.prompt) /\ SavesOk(x.saves)
  BY <1>2 DEF PlanOf, SavesOk
<1>4. EngineShape(x)
  BY <1>2, <1>3 DEF EngineShape
<1> QED
  BY <1>1, <1>2, <1>4

LEMMA StoringIs ==
  ASSUME NEW q, SavesOk(q)
  PROVE  /\ EngineShape(Storing(q)) /\ Storing(q).pc \in {"idle", "has"}
         /\ Storing(q).buf = 0 /\ Storing(q).names = {}
<1>1. CASE q = << >>
  BY <1>1, IdleIs DEF Storing
<1>2. CASE q # << >>
  <2>1. PICK x : x = [Idle EXCEPT !.pc = "has", !.saves = q]
    OBVIOUS
  <2>2. /\ x \in EngineType /\ x.pc = "has" /\ x.req = NoRequest /\ x.plan = << >> /\ x.at = 1 /\ x.buf = 0
        /\ x.names = {} /\ x.saves = q
    BY <2>1, IdleIs DEF EngineType, EnginePc, SavesOk
  <2>3. PlanOf(x.plan, x.req.prompt)
    BY <2>2 DEF PlanOf
  <2>4. EngineShape(x)
    BY <1>2, <2>2, <2>3 DEF EngineShape
  <2>5. Storing(q) = x
    BY <1>2, <2>1 DEF Storing, Saving
  <2> QED
    BY <2>2, <2>4, <2>5
<1> QED
  BY <1>1, <1>2

LEMMA NeededIs ==
  ASSUME NEW q \in Seq(SaveType) PROVE SavesOk(Needed(q))
<1> DEFINE T == {s \in ToSet(q) : s.jobs # << >>}
<1>1. PICK z : z = Only(q, T)
  OBVIOUS
<1>2. z \in Seq(SaveType) /\ ToSet(z) = ToSet(q) \cap T
  BY <1>1, OnlySeq
<1>3. \A i \in DOMAIN z : z[i].jobs # << >>
  BY <1>2 DEF ToSet
<1> QED
  BY <1>1, <1>2, <1>3 DEF Needed, SavesOk

LEMMA TailIs ==
  ASSUME NEW S, NEW q \in Seq(S), q # << >>
  PROVE  /\ Tail(q) \in Seq(S) /\ Len(q) \in Nat /\ Len(q) >= 1 /\ Len(Tail(q)) = Len(q) - 1
         /\ q[1] \in S /\ 1 \in DOMAIN q /\ DOMAIN Tail(q) = 1 .. Len(q) - 1
         /\ \A i \in DOMAIN Tail(q) : Tail(q)[i] = q[i + 1] /\ i + 1 \in DOMAIN q
<1>1. Len(q) \in Nat /\ Len(q) # 0 /\ DOMAIN q = 1 .. Len(q) /\ \A i \in 1 .. Len(q) : q[i] \in S
  BY LenProperties, EmptySeq
<1>2. /\ Tail(q) \in Seq(S) /\ Len(Tail(q)) = Len(q) - 1
      /\ \A i \in 1 .. Len(Tail(q)) : Tail(q)[i] = q[i + 1]
  BY HeadTailProperties
<1>3. DOMAIN Tail(q) = 1 .. Len(Tail(q))
  BY <1>2, LenProperties
<1> QED
  BY <1>1, <1>2, <1>3

LEMMA RestIs ==
  ASSUME NEW q, SavesOk(q), q # << >>
  PROVE  SavesOk(Rest(q)) /\ SavesOk(Tail(q)) /\ q[1] \in SaveType /\ q[1].jobs[1] \in JobType
<1>1. q \in Seq(SaveType) /\ \A i \in DOMAIN q : q[i].jobs # << >>
  BY DEF SavesOk
<1>2. /\ Tail(q) \in Seq(SaveType) /\ q[1] \in SaveType /\ 1 \in DOMAIN q
      /\ \A i \in DOMAIN Tail(q) : Tail(q)[i] = q[i + 1] /\ i + 1 \in DOMAIN q
  BY <1>1, TailIs
<1>3. SavesOk(Tail(q))
  BY <1>1, <1>2 DEF SavesOk
<1>4. PICK j : j = q[1].jobs
  OBVIOUS
<1>5. j \in Seq(JobType) /\ j # << >>
  BY <1>1, <1>2, <1>4 DEF SaveType
<1>6. j[1] \in JobType /\ Tail(j) \in Seq(JobType) /\ Len(Tail(j)) = Len(j) - 1 /\ Len(j) \in Nat
  BY <1>5, TailIs
<1>7. ASSUME Len(j) > 1 PROVE SavesOk([q EXCEPT ![1].jobs = Tail(@)])
  <2>1. PICK t : t = Tail(j)
    OBVIOUS
  <2>2. t \in Seq(JobType) /\ t # << >>
    <3>1. t \in Seq(JobType) /\ Len(t) = Len(j) - 1
      BY <1>6, <2>1
    <3>2. Len(t) # 0
      BY <1>6, <1>7, <3>1
    <3>3. Len(<< >>) = 0
      OBVIOUS
    <3> QED
      BY <3>1, <3>2, <3>3
  <2>3. PICK s : s = [q[1] EXCEPT !.jobs = t]
    OBVIOUS
  <2>4. s \in SaveType /\ s.jobs = t
    BY <1>2, <2>2, <2>3 DEF SaveType
  <2>5. PICK z : z = [q EXCEPT ![1] = s]
    OBVIOUS
  <2>6. z = [q EXCEPT ![1].jobs = Tail(@)]
    BY <1>2, <1>4, <2>1, <2>3, <2>5
  <2>7. z \in Seq(SaveType)
    BY <1>1, <1>2, <2>4, <2>5, ExceptSeq
  <2>8. DOMAIN z = DOMAIN q /\ \A i \in DOMAIN q : z[i] = IF i = 1 THEN s ELSE q[i]
    BY <2>5
  <2>9. \A i \in DOMAIN z : z[i].jobs # << >>
    BY <1>1, <2>2, <2>4, <2>8
  <2> QED
    BY <2>6, <2>7, <2>9 DEF SavesOk
<1>8. SavesOk(Rest(q))
  <2>1. CASE Len(j) > 1
    BY <1>4, <1>7, <2>1 DEF Rest
  <2>2. CASE ~(Len(j) > 1)
    BY <1>3, <1>4, <2>2 DEF Rest
  <2> QED
    BY <2>1, <2>2
<1> QED
  BY <1>2, <1>3, <1>4, <1>6, <1>8

-----------------------------------------------------------------------------
(***************************************************************************)
(* What the steps do to the index and the disk.                             *)
(***************************************************************************)
LEMMA IndexSame == ASSUME IndexOk, UNCHANGED <<ix, idle>> PROVE IndexOk'
BY DEF IndexOk, Counted

LEMMA DiskSame == ASSUME DiskOk, UNCHANGED <<files, stored>> PROVE DiskOk'
BY DEF DiskOk, OneOfEach

LEMMA StagingSame == ASSUME StagingOk, UNCHANGED st PROVE StagingOk'
BY DEF StagingOk

LEMMA WriterSame == ASSUME WriterOk, UNCHANGED w PROVE WriterOk'
BY DEF WriterOk

LEMMA WritesSame == ASSUME WritesOk, UNCHANGED wq PROVE WritesOk'
BY DEF WritesOk

LEMMA TasksSame == ASSUME TasksOk, UNCHANGED rq PROVE TasksOk'
BY DEF TasksOk

LEMMA ChannelSame == ASSUME ChannelOk, UNCHANGED ch PROVE ChannelOk'
BY DEF ChannelOk

LEMMA NamesAll ==
  ASSUME NEW x \in IndexType PROVE Names(x) \in SUBSET AllNames
<1>1. x.order \in Seq(Objects)
  BY DEF IndexType
<1>2. ToSet(x.order) \in SUBSET Objects
  BY <1>1, SetOfSeq
<1> QED
  BY <1>2 DEF Names, AllNames

LEMMA DroppedLess ==
  ASSUME NEW x, Counted(x), NEW S
  PROVE  Counted(Dropped(x, S)) /\ Dropped(x, S).used <= x.used /\ Dropped(x, S).used \in Int /\ x.used \in Int
<1>1. x \in IndexType /\ x.used \in Int /\ x.order \in Seq(Objects)
  BY DEF Counted, IndexType
<1>2. Counted(Dropped(x, S))
  BY <1>1, DroppedIs
<1>3. PICK z : z = SizeOf(Only(x.order, Named(x, S)))
  OBVIOUS
<1>4. z \in Nat
  BY <1>1, <1>3, SizeSplit, ObjectsSized
<1>5. Dropped(x, S).used = x.used - z
  BY <1>3 DEF Dropped
<1> QED
  BY <1>1, <1>2, <1>4, <1>5

\* What best_restore finds.
LEMMA LookedUpIs ==
  ASSUME IndexOk, NEW text \in Seq(Token), LookedUp(text)
  PROVE  /\ IndexOk'
         /\ Looked(text).plan \in Seq(Objects) /\ PlanOf(Looked(text).plan, text)
         /\ Looked(text).gone \in SUBSET AllNames
         /\ Names(ix') = Names(ix) \ Looked(text).gone
<1>1. PICK gone : gone = Expired(ix, idle)
  OBVIOUS
<1>2. PICK x : x = Dropped(ix, gone)
  OBVIOUS
<1>3. PICK plan : plan = Plan(x, text)
  OBVIOUS
<1>4. Looked(text).gone = gone /\ Looked(text).plan = plan
  BY <1>1, <1>2, <1>3 DEF Looked
<1>5. ix' = Hit(x, plan) /\ idle' = (idle \ gone) \ {Name(o) : o \in ToSet(plan)}
  BY <1>2, <1>4 DEF LookedUp
<1>6. Counted(ix) /\ ix \in IndexType /\ ix.used <= Budget /\ idle \in SUBSET Names(ix)
  BY DEF IndexOk, Counted
<1>7. Counted(x) /\ x \in IndexType /\ x.used <= ix.used /\ x.used \in Int /\ ix.used \in Int
  BY <1>2, <1>6, DroppedLess DEF Counted
<1>8. Names(x) = Names(ix) \ gone
  BY <1>2, <1>6, DroppedIs
<1>9. /\ plan \in Seq(Objects) /\ ToSet(plan) \in SUBSET ToSet(x.order)
      /\ Apart(plan) /\ PlanOf(plan, text)
  BY <1>3, <1>7, PlanIs
<1>10. Counted(ix') /\ ix'.used = x.used /\ Names(ix') = Names(x)
  BY <1>5, <1>7, <1>9, HitIs
<1>11. gone \in SUBSET AllNames
  BY <1>1, <1>6, ExpiredIs, NamesAll
<1>12. ix'.used <= Budget
  BY <1>6, <1>7, <1>10, SizesAssumption
<1>13. idle' \in SUBSET Names(ix')
  BY <1>5, <1>6, <1>8, <1>10
<1> QED
  BY <1>4, <1>8, <1>9, <1>10, <1>11, <1>12, <1>13 DEF IndexOk

LEMMA TouchedNowIs ==
  ASSUME IndexOk, NEW o, TouchedNow(o)
  PROVE  IndexOk' /\ Names(ix') = Names(ix)
<1>1. Counted(ix) /\ ix \in IndexType /\ ix.used <= Budget /\ idle \in SUBSET Names(ix)
  BY DEF IndexOk, Counted
<1>2. ix' = Touched(ix, Name(o)) /\ idle' = idle \ {Name(o)}
  BY DEF TouchedNow
<1>3. Counted(ix') /\ ix'.used = ix.used /\ Names(ix') = Names(ix)
  BY <1>1, <1>2, TouchedIs
<1> QED
  BY <1>1, <1>2, <1>3 DEF IndexOk

LEMMA ForgottenIs ==
  ASSUME IndexOk, NEW o, Forgotten(o)
  PROVE  IndexOk' /\ Names(ix') = Names(ix) \ {Name(o)}
<1>1. Counted(ix) /\ ix \in IndexType /\ ix.used <= Budget /\ idle \in SUBSET Names(ix)
  BY DEF IndexOk, Counted
<1>2. ix' = Dropped(ix, {Name(o)}) /\ idle' = idle \ {Name(o)}
  BY DEF Forgotten
<1>3. Counted(ix') /\ ix'.used <= ix.used /\ ix'.used \in Int /\ ix.used \in Int
  BY <1>1, <1>2, DroppedLess
<1>4. Names(ix') = Names(ix) \ {Name(o)}
  BY <1>1, <1>2, DroppedIs
<1>5. ix'.used <= Budget
  BY <1>1, <1>3, SizesAssumption
<1> QED
  BY <1>1, <1>2, <1>3, <1>4, <1>5 DEF IndexOk

LEMMA FewerFiles ==
  ASSUME NEW F, OneOfEach(F), NEW G \in SUBSET F
  PROVE  OneOfEach(G)
<1>1. IsFiniteSet(G)
  BY FS_Subset DEF OneOfEach
<1> QED
  BY <1>1 DEF OneOfEach

LEMMA DeletedIs ==
  ASSUME DiskOk, NEW names, Deleted(names)
  PROVE  DiskOk' /\ files' \in SUBSET files /\ tmps' = tmps
<1>1. files' \in SUBSET files /\ stored' = stored /\ tmps' = tmps
  BY DEF Deleted, Without
<1>2. OneOfEach(files')
  BY <1>1, FewerFiles DEF DiskOk
<1> QED
  BY <1>1, <1>2 DEF DiskOk

-----------------------------------------------------------------------------
(***************************************************************************)
(* The engine's steps keep the shapes.                                      *)
(***************************************************************************)
LEMMA AskShapes == ASSUME Shapes, Ask PROVE Shapes'
<1>1. /\ asked \in Nat /\ asked < Len(Requests) /\ asked' = asked + 1
      /\ UNCHANGED <<ix, idle, files, stored, st, r, w, wq>>
  BY DEF Ask, Shapes, index, disk
<1>2. PICK q : q = Requests[asked + 1]
  OBVIOUS
<1>3. q \in ToSet(Requests)
  <2>1. Requests \in Seq([prompt : Seq(Token), full : Seq(Token)])
    BY RequestsAssumption
  <2>2. DOMAIN Requests = 1 .. Len(Requests) /\ Len(Requests) \in Nat
    BY <2>1, LenProperties
  <2>3. asked + 1 \in DOMAIN Requests
    BY <1>1, <2>2
  <2> QED
    BY <1>2, <2>3 DEF ToSet
<1>4. EngineShape(e')
  <2>1. e' = NewRestore(q, "lookup") \/ e' = NewRestore(q, "receive")
    BY <1>2 DEF Ask
  <2>2. EngineShape(NewRestore(q, "lookup")) /\ EngineShape(NewRestore(q, "receive"))
    BY <1>3, NewRestoreIs
  <2> QED
    BY <2>1, <2>2
<1>5. TasksOk'
  <2>1. rq \in Seq(TaskType) /\ Len(rq) <= ReaderCap /\ Len(rq) \in Nat /\ ReaderCap \in Nat
    BY BoundsAssumption, LenProperties DEF Shapes, TasksOk
  <2>2. PICK t : t = [text |-> q.prompt, live |-> TRUE]
    OBVIOUS
  <2>3. t \in TaskType
    BY <1>3, <2>2, RequestIs DEF TaskType
  <2>4. Append(rq, t) \in Seq(TaskType) /\ Len(Append(rq, t)) = Len(rq) + 1
    BY <2>1, <2>3, AppendProperties
  <2>5. rq' = rq \/ (Len(rq) < ReaderCap /\ rq' = Append(rq, t))
    BY <1>2, <2>2 DEF Ask
  <2> QED
    BY <2>1, <2>4, <2>5 DEF TasksOk
<1>6. ChannelOk'
  <2>1. ch' = [Closed EXCEPT !.open = TRUE] \/ ch' = Closed
    BY DEF Ask
  <2>2. ch' \in [msgs : Seq(MessageType), open : BOOLEAN] /\ ch'.msgs = << >>
    <3>1. PICK c : c = Closed
      OBVIOUS
    <3>2. c \in [msgs : Seq(MessageType), open : BOOLEAN] /\ c.msgs = << >>
      BY <3>1 DEF Closed
    <3>3. PICK b \in BOOLEAN : b = TRUE
      OBVIOUS
    <3>4. PICK d : d = [c EXCEPT !.open = b]
      OBVIOUS
    <3>5. d \in [msgs : Seq(MessageType), open : BOOLEAN] /\ d.msgs = << >>
      BY <3>2, <3>4
    <3>6. ch' = c \/ ch' = d
      BY <2>1, <3>1, <3>3, <3>4
    <3> QED
      BY <3>2, <3>5, <3>6
  <2>3. << >> \in Seq(MessageType) /\ DOMAIN << >> = {} /\ Len(<< >>) = 0
    OBVIOUS
  <2> QED
    BY <2>2, <2>3 DEF ChannelOk
<1>7. IndexOk' /\ DiskOk' /\ StagingOk' /\ WriterOk' /\ WritesOk' /\ ReaderShape(r')
  BY <1>1, IndexSame, DiskSame, StagingSame, WriterSame, WritesSame DEF Shapes
<1>8. asked' \in Nat
  BY <1>1
<1> QED
  BY <1>4, <1>5, <1>6, <1>7, <1>8 DEF Shapes

LEMMA LookupShapes == ASSUME Shapes, Lookup PROVE Shapes'
<1>1. /\ e.pc = "lookup" /\ LookedUp(e.req.prompt)
      /\ UNCHANGED <<asked, files, stored, st, ch, r, rq, w, wq>>
  BY DEF Lookup, run, disk, threads
<1>2. EngineShape(e) /\ IndexOk
  BY DEF Shapes
<1>3. e \in EngineType /\ e.at = 1 /\ e.buf = 0 /\ e.req \in ToSet(Requests) /\ SavesOk(e.saves)
  BY <1>1, <1>2 DEF EngineShape
<1>4. PICK text \in Seq(Token) : text = e.req.prompt
  BY <1>3, RequestIs
<1>5. PICK plan, gone : plan = Looked(text).plan /\ gone = Looked(text).gone
  OBVIOUS
<1>6. IndexOk' /\ plan \in Seq(Objects) /\ PlanOf(plan, text) /\ gone \in SUBSET AllNames
  BY <1>1, <1>2, <1>4, <1>5, LookedUpIs
<1>7. PICK pc \in {"expire", "prefill", "take"} :
        /\ e' = [e EXCEPT !.pc = pc, !.plan = plan, !.names = gone]
        /\ pc = "take" => plan # << >>
  BY <1>4, <1>5 DEF Lookup
<1>8. /\ e' \in EngineType /\ e'.pc = pc /\ e'.plan = plan /\ e'.at = 1 /\ e'.buf = 0 /\ e'.req = e.req
      /\ e'.saves = e.saves
  BY <1>3, <1>6, <1>7 DEF EngineType, EnginePc
<1>9. plan # << >> => 1 \in DOMAIN plan
  BY <1>6, TailIs
<1>10. EngineShape(e')
  BY <1>3, <1>4, <1>6, <1>7, <1>8, <1>9 DEF EngineShape
<1>11. DiskOk' /\ StagingOk' /\ WriterOk' /\ WritesOk' /\ TasksOk' /\ ChannelOk' /\ ReaderShape(r')
  BY <1>1, DiskSame, StagingSame, WriterSame, WritesSame, TasksSame, ChannelSame DEF Shapes
<1> QED
  BY <1>1, <1>6, <1>10, <1>11 DEF Shapes

LEMMA ExpireShapes == ASSUME Shapes, Expire PROVE Shapes'
<1>1. /\ e.pc = "expire" /\ Deleted(e.names)
      /\ UNCHANGED <<asked, ix, idle, st, ch, r, rq, w, wq>>
      /\ e' = [e EXCEPT !.pc = IF e.plan = << >> THEN "prefill" ELSE "take", !.names = {}]
  BY DEF Expire, run, index, threads
<1>2. EngineShape(e) /\ DiskOk
  BY DEF Shapes
<1>3. DiskOk'
  BY <1>1, <1>2, DeletedIs
<1>4. /\ e' \in EngineType /\ e'.pc \in {"prefill", "take"} /\ e'.plan = e.plan /\ e'.at = e.at
      /\ e'.buf = e.buf /\ e'.req = e.req /\ e'.saves = e.saves
      /\ e'.pc = "take" => e.plan # << >>
  BY <1>1, <1>2 DEF EngineShape, EngineType, EnginePc
<1>5. EngineShape(e')
  BY <1>1, <1>2, <1>4 DEF EngineShape
<1>6. IndexOk' /\ StagingOk' /\ WriterOk' /\ WritesOk' /\ TasksOk' /\ ChannelOk' /\ ReaderShape(r')
  BY <1>1, IndexSame, StagingSame, WriterSame, WritesSame, TasksSame, ChannelSame DEF Shapes
<1> QED
  BY <1>1, <1>3, <1>5, <1>6 DEF Shapes

\* A buffer is taken for an object.
LEMMA TakenFor ==
  ASSUME StagingOk, NEW o \in Objects, NEW q, q = Taken(st, Bytes(o)), st' = q.st
  PROVE  StagingOk' /\ q.cap \in Nat /\ Out(st') = Out(st) + q.cap
<1>1. Bytes(o) \in Nat
  BY ObjectIs
<1> QED
  BY <1>1, TakenOut DEF StagingOk

LEMMA GivenFor ==
  ASSUME StagingOk, NEW cap \in Nat, st' = Given(st, cap)
  PROVE  StagingOk' /\ Out(st') = Out(st) - cap
BY GivenBack DEF StagingOk

LEMMA TakeShapes == ASSUME Shapes, Take PROVE Shapes'
<1>1. PICK q : /\ q = Taken(st, Bytes(e.plan[e.at])) /\ st' = q.st
               /\ e' = IF q.cap = 0 THEN e ELSE [e EXCEPT !.pc = "get", !.buf = q.cap]
  BY DEF Take
<1>2. e.pc = "take" /\ UNCHANGED <<asked, ix, idle, files, stored, ch, r, rq, w, wq>>
  BY DEF Take, run, index, disk, threads
<1>3. EngineShape(e) /\ StagingOk
  BY DEF Shapes
<1>4. PICK o \in Objects : o = e.plan[e.at]
  <2>1. e.plan \in Seq(Objects) /\ e.at \in DOMAIN e.plan
    BY <1>2, <1>3 DEF EngineShape, EngineType
  <2> QED
    BY <2>1, LenProperties
<1>5. StagingOk' /\ q.cap \in Nat
  BY <1>1, <1>3, <1>4, TakenFor
<1>6. EngineShape(e')
  <2>1. CASE q.cap = 0
    BY <1>1, <1>3, <2>1
  <2>2. CASE q.cap # 0
    <3>1. PICK cap \in Nat \ {0} : cap = q.cap
      BY <1>5, <2>2
    <3>2. e' = [e EXCEPT !.pc = "get", !.buf = cap]
      BY <1>1, <3>1
    <3>3. /\ e' \in EngineType /\ e'.pc = "get" /\ e'.plan = e.plan /\ e'.at = e.at
          /\ e'.buf = cap /\ e'.req = e.req /\ e'.saves = e.saves
      BY <1>3, <3>2 DEF EngineShape, EngineType, EnginePc
    <3> QED
      BY <1>2, <1>3, <3>1, <3>3 DEF EngineShape
  <2> QED
    BY <2>1, <2>2
<1>7. IndexOk' /\ DiskOk' /\ WriterOk' /\ WritesOk' /\ TasksOk' /\ ChannelOk' /\ ReaderShape(r')
  BY <1>2, IndexSame, DiskSame, WriterSame, WritesSame, TasksSame, ChannelSame DEF Shapes
<1> QED
  BY <1>2, <1>5, <1>6, <1>7 DEF Shapes

LEMMA PlanAt ==
  ASSUME NEW plan \in Seq(Objects), NEW text, PlanOf(plan, text), NEW i \in DOMAIN plan
  PROVE  /\ plan[i] \in Objects /\ i \in Nat /\ i >= 1 /\ i <= Len(plan) /\ Len(plan) \in Nat
         /\ plan[i].kind = "rows" =>
              i + 1 \in DOMAIN plan /\ plan[i].start = EndOf(plan, i - 1)
         /\ plan[i].kind # "rows" =>
              i = Len(plan) /\ Len(plan[i].text) \in 1 .. Len(text) /\ EndOf(plan, i - 1) = Len(plan[i].text)
<1>1. PICK n \in Nat : n = Len(plan) /\ DOMAIN plan = 1 .. n
  BY LenProperties
<1>2. plan # << >> /\ n # 0
  BY <1>1
<1>3. /\ EndOf(plan, n) \in 1 .. Len(text) /\ plan[n].kind = "snapshot"
      /\ EndOf(plan, n - 1) = EndOf(plan, n)
      /\ \A k \in 1 .. n - 1 : plan[k].kind = "rows" /\ plan[k].start = EndOf(plan, k - 1)
  BY <1>1, <1>2 DEF PlanOf
<1>4. plan[i] \in Objects /\ i \in 1 .. n
  BY <1>1, LenProperties
<1>5. CASE i = n
  BY <1>1, <1>3, <1>4, <1>5 DEF EndOf
<1>6. CASE i # n
  <2>1. i \in 1 .. n - 1 /\ i + 1 \in 1 .. n
    BY <1>4, <1>6
  <2> QED
    BY <1>1, <1>3, <1>4, <2>1
<1> QED
  BY <1>5, <1>6

LEMMA ImportedIs ==
  ASSUME NEW x \in EngineType, NEW o \in Objects \cup {NoObject}
  PROVE  /\ Imported(x, o) \in EngineType
         /\ Imported(x, o).pc = x.pc /\ Imported(x, o).plan = x.plan /\ Imported(x, o).req = x.req
         /\ Imported(x, o).saves = x.saves /\ Imported(x, o).buf = x.buf /\ Imported(x, o).names = x.names
         /\ o.kind = "rows" =>
              /\ Imported(x, o).at = x.at + 1 /\ Imported(x, o).pos = x.pos
              /\ Imported(x, o).rows = x.rows \cup Positions(o)
         /\ o.kind # "rows" =>
              /\ Imported(x, o).at = x.at /\ Imported(x, o).pos = Len(o.text)
              /\ Imported(x, o).rows = x.rows
<1>1. CASE o.kind = "rows"
  <2>1. o # NoObject
    BY <1>1 DEF NoObject, Snapshot
  <2>2. o.start \in Nat /\ Len(o.text) \in Nat
    BY <2>1, ObjectIs
  <2>3. PICK P : P = Positions(o)
    OBVIOUS
  <2>4. P \in SUBSET Nat
    BY <2>2, <2>3 DEF Positions
  <2>5. x.rows \in SUBSET Nat /\ x.at \in Nat
    BY DEF EngineType
  <2>10. PICK R \in SUBSET Nat : R = x.rows \cup P
    BY <2>4, <2>5
  <2>11. PICK k \in Nat : k = x.at + 1
    BY <2>5
  <2>6. R = x.rows \cup P /\ k = x.at + 1
    BY <2>10, <2>11
  <2>7. Imported(x, o) = [x EXCEPT !.rows = R, !.at = k]
    BY <1>1, <2>3, <2>6 DEF Imported, EngineType
  <2>8. PICK y : y = [x EXCEPT !.rows = R, !.at = k]
    OBVIOUS
  <2>9. /\ y \in EngineType /\ y.pc = x.pc /\ y.plan = x.plan /\ y.req = x.req /\ y.saves = x.saves
        /\ y.buf = x.buf /\ y.names = x.names /\ y.at = k /\ y.pos = x.pos /\ y.rows = R
    BY <2>8 DEF EngineType
  <2> QED
    BY <1>1, <2>3, <2>6, <2>7, <2>8, <2>9
<1>2. CASE o.kind # "rows"
  <2>1. PICK n : n = Len(o.text)
    OBVIOUS
  <2>2. n \in Nat
    <3>1. NoObject.text = << >> /\ Len(<< >>) = 0
      BY DEF NoObject, Snapshot
    <3>2. o \in Objects => n \in Nat
      BY <2>1, ObjectIs
    <3> QED
      BY <2>1, <3>1, <3>2
  <2>3. Imported(x, o) = [x EXCEPT !.pos = n]
    BY <1>2, <2>1 DEF Imported
  <2> QED
    BY <1>2, <2>1, <2>2, <2>3 DEF EngineType
<1> QED
  BY <1>1, <1>2

LEMMA GetOkShapes == ASSUME Shapes, GetOk PROVE Shapes'
<1>1. /\ e.pc = "get" /\ TouchedNow(Object) /\ st' = Given(st, e.buf)
      /\ e' = [Imported(e, Object) EXCEPT !.pc = IF Object.kind = "rows" THEN "take" ELSE "prefill", !.buf = 0]
      /\ UNCHANGED <<asked, files, stored, ch, r, rq, w, wq>>
  BY DEF GetOk, run, disk, threads
<1>2. EngineShape(e) /\ IndexOk /\ StagingOk
  BY DEF Shapes
<1>3. /\ e \in EngineType /\ e.plan \in Seq(Objects) /\ e.at \in DOMAIN e.plan /\ PlanOf(e.plan, e.req.prompt)
      /\ e.buf \in Nat /\ e.req \in ToSet(Requests) /\ SavesOk(e.saves)
  BY <1>1, <1>2 DEF EngineShape, EngineType
<1>4. PICK o \in Objects : o = e.plan[e.at] /\ o = Object /\ (o.kind = "rows" => e.at + 1 \in DOMAIN e.plan)
  BY <1>3, PlanAt DEF Object
<1>5. PICK x \in EngineType :
        /\ x = Imported(e, o) /\ x.plan = e.plan /\ x.req = e.req /\ x.saves = e.saves
        /\ o.kind = "rows" => x.at = e.at + 1
  BY <1>3, <1>4, ImportedIs
<1>6. PICK pc \in {"take", "prefill"} : /\ pc = "take" <=> o.kind = "rows"
                                        /\ e' = [x EXCEPT !.pc = pc, !.buf = 0]
  BY <1>1, <1>4, <1>5
<1>7. /\ e' \in EngineType /\ e'.pc = pc /\ e'.plan = e.plan /\ e'.at = x.at
      /\ e'.buf = 0 /\ e'.req = e.req /\ e'.saves = e.saves
  BY <1>5, <1>6 DEF EngineType, EnginePc
<1>8. EngineShape(e')
  BY <1>3, <1>4, <1>5, <1>6, <1>7 DEF EngineShape
<1>9. IndexOk' /\ StagingOk'
  BY <1>1, <1>2, <1>3, TouchedNowIs, GivenFor
<1>10. DiskOk' /\ WriterOk' /\ WritesOk' /\ TasksOk' /\ ChannelOk' /\ ReaderShape(r')
  BY <1>1, DiskSame, WriterSame, WritesSame, TasksSame, ChannelSame DEF Shapes
<1> QED
  BY <1>1, <1>8, <1>9, <1>10 DEF Shapes

LEMMA GetFailsShapes == ASSUME Shapes, GetFails PROVE Shapes'
<1>1. /\ e.pc = "get" /\ Forgotten(Object) /\ st' = Given(st, e.buf)
      /\ e' = NewRestore(e.req, "prefill")
      /\ UNCHANGED <<asked, tmps, stored, ch, r, rq, w, wq>>
      /\ files' \in SUBSET files
  BY DEF GetFails, run, threads, Without
<1>2. EngineShape(e) /\ IndexOk /\ DiskOk /\ StagingOk
  BY DEF Shapes
<1>3. e.buf \in Nat /\ e.req \in ToSet(Requests)
  BY <1>1, <1>2 DEF EngineShape, EngineType
<1>4. EngineShape(e')
  BY <1>1, <1>3, NewRestoreIs
<1>5. IndexOk' /\ StagingOk'
  BY <1>1, <1>2, <1>3, ForgottenIs, GivenFor
<1>6. DiskOk'
  BY <1>1, <1>2, FewerFiles DEF DiskOk
<1>7. WriterOk' /\ WritesOk' /\ TasksOk' /\ ChannelOk' /\ ReaderShape(r')
  BY <1>1, WriterSame, WritesSame, TasksSame, ChannelSame DEF Shapes
<1> QED
  BY <1>1, <1>4, <1>5, <1>6, <1>7 DEF Shapes

LEMMA ClosedIs ==
  Closed \in [msgs : Seq(MessageType), open : BOOLEAN] /\ Closed.msgs = << >> /\ Closed.open = FALSE
BY DEF Closed

LEMMA ClosedOk == ASSUME ch' = Closed PROVE ChannelOk'
<1>1. ch' \in [msgs : Seq(MessageType), open : BOOLEAN] /\ ch'.msgs = << >>
  BY ClosedIs
<1>2. DOMAIN << >> = {} /\ Len(<< >>) = 0
  OBVIOUS
<1> QED
  BY <1>1, <1>2 DEF ChannelOk

LEMMA CancelledIs ==
  ASSUME NEW t \in TaskType
  PROVE  Cancelled(t) \in TaskType /\ Cancelled(t).text = t.text /\ Cancelled(t).live = FALSE
<1>1. PICK b \in BOOLEAN : b = FALSE
  OBVIOUS
<1>2. Cancelled(t) = [t EXCEPT !.live = b]
  BY <1>1 DEF Cancelled
<1> QED
  BY <1>1, <1>2 DEF TaskType

LEMMA MessageIs ==
  ASSUME ChannelOk, ch.msgs # << >>
  PROVE  /\ ch.msgs[1] \in MessageType /\ ch.msgs[1].cap \in Nat
         /\ ch.msgs[1].object \in Objects \cup {NoObject}
         /\ ch.msgs[1].cap = 0 <=> ch.msgs[1].object = NoObject
         /\ ch.msgs = << ch.msgs[1] >> /\ Len(ch.msgs) = 1
<1>1. PICK q \in Seq(MessageType) : q = ch.msgs
  BY DEF ChannelOk
<1>2. Len(q) = 1 /\ 1 \in DOMAIN q /\ q[1] \in MessageType
  <2>1. Len(q) <= 1
    BY <1>1 DEF ChannelOk
  <2>2. Len(q) \in Nat /\ Len(q) >= 1 /\ 1 \in DOMAIN q /\ q[1] \in MessageType
    BY <1>1, TailIs
  <2>3. PICK n \in Nat : n = Len(q) /\ n >= 1
    BY <2>2
  <2>4. n = 1
    BY <2>1, <2>3
  <2> QED
    BY <2>2, <2>3, <2>4
<1>3. q[1].cap = 0 <=> q[1].object = NoObject
  BY <1>1, <1>2 DEF ChannelOk
<1>4. q = << q[1] >>
  BY <1>2
<1> QED
  BY <1>1, <1>2, <1>3, <1>4 DEF MessageType

\* The receiver dropped.
LEMMA DropReceiverIs ==
  ASSUME Shapes, DropReceiver
  PROVE  /\ StagingOk' /\ ReaderShape(r') /\ TasksOk' /\ ChannelOk'
         /\ Out(st') = Out(st) - (IF ch.msgs = << >> THEN 0 ELSE ch.msgs[1].cap)
         /\ r' \in ReaderType /\ r'.pc = r.pc /\ r'.buf = r.buf /\ r'.names = r.names
         /\ r'.task.live = FALSE /\ ch' = Closed
         /\ DOMAIN rq' = DOMAIN rq /\ \A i \in DOMAIN rq : rq'[i].live = FALSE
<1>1. ChannelOk /\ StagingOk /\ ReaderShape(r) /\ TasksOk
  BY DEF Shapes
<1>2. ChannelOk' /\ ch' = Closed
  BY ClosedOk DEF DropReceiver
<1>3. StagingOk' /\ Out(st') = Out(st) - (IF ch.msgs = << >> THEN 0 ELSE ch.msgs[1].cap)
  <2>0. Out(st) \in Int
    BY <1>1, TotalNat DEF Out, StagingOk, StagingType
  <2>1. CASE ch.msgs # << >> /\ ch.msgs[1].cap > 0
    <3>1. PICK cap \in Nat : cap = ch.msgs[1].cap
      BY <1>1, <2>1, MessageIs
    <3>2. st' = Given(st, cap)
      BY <2>1, <3>1 DEF DropReceiver
    <3> QED
      BY <1>1, <2>1, <3>1, <3>2, GivenFor
  <2>2. CASE ~(ch.msgs # << >> /\ ch.msgs[1].cap > 0)
    <3>1. st' = st
      BY <2>2 DEF DropReceiver
    <3>2. ch.msgs # << >> => ch.msgs[1].cap = 0
      BY <1>1, <2>2, MessageIs
    <3> QED
      BY <1>1, <2>0, <3>1, <3>2, StagingSame
  <2> QED
    BY <2>1, <2>2
<1>4. r.task \in TaskType /\ r \in ReaderType
  BY <1>1 DEF ReaderShape, ReaderType
<1>5. PICK t \in TaskType : t = Cancelled(r.task) /\ t.text = r.task.text /\ t.live = FALSE
  BY <1>4, CancelledIs
<1>6. r' = [r EXCEPT !.task = t]
  BY <1>4, <1>5 DEF DropReceiver, ReaderType
<1>7. /\ r' \in ReaderType /\ r'.task = t /\ r'.pc = r.pc /\ r'.buf = r.buf /\ r'.plan = r.plan /\ r'.at = r.at
      /\ r'.names = r.names
  BY <1>4, <1>6 DEF ReaderType
<1>8. ReaderShape(r')
  BY <1>1, <1>5, <1>7 DEF ReaderShape
<1>9. TasksOk' /\ DOMAIN rq' = DOMAIN rq /\ \A i \in DOMAIN rq : rq'[i].live = FALSE
  <2>1. rq' = [i \in DOMAIN rq |-> Cancelled(rq[i])]
    BY DEF DropReceiver
  <2>2. DOMAIN rq = 1 .. Len(rq) /\ Len(rq) \in Nat /\ \A i \in 1 .. Len(rq) : rq[i] \in TaskType
    BY <1>1, LenProperties DEF TasksOk
  <2>3. \A i \in DOMAIN rq : Cancelled(rq[i]) \in TaskType /\ Cancelled(rq[i]).live = FALSE
    BY <2>2, CancelledIs
  <2>4. PICK q : q = rq'
    OBVIOUS
  <2>5. q \in [1 .. Len(rq) -> TaskType] /\ DOMAIN q = 1 .. Len(rq)
    BY <2>1, <2>2, <2>3, <2>4
  <2>6. q \in Seq(TaskType)
    BY <2>2, <2>5, SeqDef
  <2>7. Len(q) = Len(rq)
    BY <2>2, <2>5, <2>6, LenProperties
  <2>8. Len(q) <= ReaderCap
    BY <1>1, <2>7 DEF TasksOk
  <2> QED
    BY <2>1, <2>3, <2>4, <2>6, <2>8 DEF TasksOk
<1> QED
  BY <1>2, <1>3, <1>5, <1>7, <1>8, <1>9

LEMMA ReceiveShapes == ASSUME Shapes, Receive PROVE Shapes'
<1>1. PICK m : m = ch.msgs[1]
  OBVIOUS
<1>2. /\ e.pc = "receive" /\ ch.msgs # << >>
      /\ UNCHANGED <<asked, ix, idle, files, stored, w, wq>>
  BY DEF Receive, run, index, disk
<1>3. \/ e' = NewRestore(e.req, "prefill") /\ DropReceiver
      \/ /\ e' = [Imported(e, m.object) EXCEPT !.pc = IF m.object.kind = "rows" THEN "receive" ELSE "prefill"]
         /\ \/ ch' = [ch EXCEPT !.msgs = << >>] /\ st' = Given(st, m.cap) /\ UNCHANGED <<r, rq>>
            \/ DropReceiver
  BY <1>1 DEF Receive
<1>4. EngineShape(e) /\ StagingOk /\ ChannelOk /\ TasksOk /\ ReaderShape(r)
  BY DEF Shapes
<1>5. /\ e \in EngineType /\ e.req \in ToSet(Requests) /\ e.buf = 0 /\ SavesOk(e.saves)
      /\ PlanOf(e.plan, e.req.prompt)
  BY <1>2, <1>4 DEF EngineShape
<1>6. m.cap \in Nat /\ m.object \in Objects \cup {NoObject}
  BY <1>1, <1>2, <1>4, MessageIs
<1>7. EngineShape(e')
  <2>1. EngineShape(NewRestore(e.req, "prefill"))
    BY <1>5, NewRestoreIs
  <2>2. PICK x \in EngineType :
          x = Imported(e, m.object) /\ x.plan = e.plan /\ x.req = e.req /\ x.saves = e.saves /\ x.buf = e.buf
    BY <1>5, <1>6, ImportedIs
  <2>3. ASSUME NEW pc \in {"receive", "prefill"}, e' = [x EXCEPT !.pc = pc] PROVE EngineShape(e')
    <3>1. /\ e' \in EngineType /\ e'.pc = pc /\ e'.plan = e.plan /\ e'.req = e.req /\ e'.saves = e.saves
          /\ e'.buf = 0
      BY <1>5, <2>2, <2>3 DEF EngineType, EnginePc
    <3> QED
      BY <1>5, <3>1 DEF EngineShape
  <2> QED
    BY <1>3, <2>1, <2>2, <2>3
<1>8. StagingOk' /\ ChannelOk' /\ TasksOk' /\ ReaderShape(r')
  <2>1. CASE DropReceiver
    BY <2>1, DropReceiverIs
  <2>2. CASE ch' = [ch EXCEPT !.msgs = << >>] /\ st' = Given(st, m.cap) /\ UNCHANGED <<r, rq>>
    <3>1. StagingOk' /\ TasksOk' /\ ReaderShape(r')
      BY <1>4, <1>6, <2>2, GivenFor, TasksSame
    <3>2. ch' \in [msgs : Seq(MessageType), open : BOOLEAN] /\ ch'.msgs = << >>
      <4>1. ch \in [msgs : Seq(MessageType), open : BOOLEAN]
        BY <1>4 DEF ChannelOk
      <4>0. << >> \in Seq(MessageType)
        OBVIOUS
      <4>2. PICK z \in Seq(MessageType) : z = << >>
        BY <4>0
      <4>3. ch' = [ch EXCEPT !.msgs = z]
        BY <2>2, <4>2
      <4> QED
        BY <4>1, <4>2, <4>3
    <3>3. DOMAIN << >> = {} /\ Len(<< >>) = 0
      OBVIOUS
    <3>4. ChannelOk'
      BY <3>2, <3>3 DEF ChannelOk
    <3> QED
      BY <3>1, <3>4
  <2> QED
    BY <1>3, <2>1, <2>2
<1>9. IndexOk' /\ DiskOk' /\ WriterOk' /\ WritesOk'
  BY <1>2, IndexSame, DiskSame, WriterSame, WritesSame DEF Shapes
<1> QED
  BY <1>2, <1>7, <1>8, <1>9 DEF Shapes

LEMMA DisconnectedShapes == ASSUME Shapes, Disconnected PROVE Shapes'
<1>1. /\ e.pc = "receive" /\ e' = NewRestore(e.req, "prefill")
      /\ UNCHANGED <<asked, ix, idle, files, stored, st, ch, r, rq, w, wq>>
  BY DEF Disconnected, run, index, disk, threads
<1>2. e.req \in ToSet(Requests)
  BY <1>1 DEF Shapes, EngineShape
<1>3. EngineShape(e')
  BY <1>1, <1>2, NewRestoreIs
<1>4. /\ IndexOk' /\ DiskOk' /\ StagingOk' /\ WriterOk' /\ WritesOk' /\ TasksOk' /\ ChannelOk' /\ ReaderShape(r')
  BY <1>1, IndexSame, DiskSame, StagingSame, WriterSame, WritesSame, TasksSame, ChannelSame DEF Shapes
<1> QED
  BY <1>1, <1>3, <1>4 DEF Shapes

LEMMA CancelShapes == ASSUME Shapes, Cancel PROVE Shapes'
<1>1. e' = Idle /\ DropReceiver /\ UNCHANGED <<asked, ix, idle, files, stored, w, wq>>
  BY DEF Cancel, run, index, disk
<1>2. EngineShape(e')
  BY <1>1, IdleIs
<1>3. StagingOk' /\ ChannelOk' /\ TasksOk' /\ ReaderShape(r')
  BY <1>1, DropReceiverIs
<1>4. IndexOk' /\ DiskOk' /\ WriterOk' /\ WritesOk'
  BY <1>1, IndexSame, DiskSame, WriterSame, WritesSame DEF Shapes
<1> QED
  BY <1>1, <1>2, <1>3, <1>4 DEF Shapes

LEMMA GenerateShapes == ASSUME Shapes, Generate PROVE Shapes'
<1>1. PICK q : /\ q = IF mode = "serial" THEN SerialSaves(e.req, e.pos) ELSE ContinuousSaves(e.req, e.pos)
               /\ e' = Storing(Needed(q))
  BY DEF Generate
<1>2. /\ e.pc = "prefill" /\ UNCHANGED <<asked, ix, idle, files, stored, st, ch, r, rq, w, wq>>
  BY DEF Generate, run, index, disk, threads
<1>3. e.req \in ToSet(Requests)
  BY <1>2 DEF Shapes, EngineShape
<1>4. q \in Seq(SaveType)
  BY <1>1, <1>3, SerialSavesIs, ContinuousSavesIs
<1>5. EngineShape(e')
  <2>1. PICK z : z = Needed(q)
    OBVIOUS
  <2>2. SavesOk(z)
    BY <1>4, <2>1, NeededIs
  <2> QED
    BY <1>1, <2>1, <2>2, StoringIs
<1>6. /\ IndexOk' /\ DiskOk' /\ StagingOk' /\ WriterOk' /\ WritesOk' /\ TasksOk' /\ ChannelOk' /\ ReaderShape(r')
  BY <1>2, IndexSame, DiskSame, StagingSame, WriterSame, WritesSame, TasksSame, ChannelSame DEF Shapes
<1> QED
  BY <1>2, <1>5, <1>6 DEF Shapes

\* A save on its way: its job, and what follows it.
LEMMA JobIs ==
  ASSUME EngineShape(e), e.pc \in {"has", "save", "send"}
  PROVE  /\ Job \in JobType /\ Job.object \in Objects /\ Job.flush \in BOOLEAN
         /\ EngineShape(Kept) /\ Kept.buf = 0 /\ Kept.names = {} /\ Kept.pc \in {"idle", "has"}
         /\ EngineShape(GivenUp) /\ GivenUp.buf = 0 /\ GivenUp.names = {} /\ GivenUp.pc \in {"idle", "has"}
<1>1. PICK q : q = e.saves
  OBVIOUS
<1>2. SavesOk(q) /\ q # << >>
  BY <1>1 DEF EngineShape
<1>3. PICK z, y : z = Rest(q) /\ y = Tail(q)
  OBVIOUS
<1>4. SavesOk(z) /\ SavesOk(y) /\ q[1].jobs[1] \in JobType
  BY <1>2, <1>3, RestIs
<1>5. /\ EngineShape(Storing(z)) /\ Storing(z).buf = 0 /\ Storing(z).names = {} /\ Storing(z).pc \in {"idle", "has"}
      /\ EngineShape(Storing(y)) /\ Storing(y).buf = 0 /\ Storing(y).names = {} /\ Storing(y).pc \in {"idle", "has"}
  BY <1>4, StoringIs
<1>6. Job = q[1].jobs[1] /\ Kept = Storing(z) /\ GivenUp = Storing(y)
  BY <1>1, <1>3 DEF Job, Kept, GivenUp
<1> QED
  BY <1>4, <1>5, <1>6 DEF JobType

\* A step of a save in place.
LEMMA SaveMoves ==
  ASSUME EngineShape(e), e.pc \in {"has", "save"}, NEW pc \in {"save", "send"}, NEW n \in Nat,
         n = 0 <=> pc = "save", NEW x, x = [e EXCEPT !.pc = pc, !.buf = n]
  PROVE  EngineShape(x) /\ x.pc = pc /\ x.buf = n /\ x.names = e.names
<1>1. e \in EngineType /\ PlanOf(e.plan, e.req.prompt) /\ SavesOk(e.saves) /\ e.saves # << >>
  BY DEF EngineShape
<1>2. x \in EngineType /\ x.pc = pc /\ x.buf = n /\ x.plan = e.plan /\ x.req = e.req /\ x.saves = e.saves
      /\ x.names = e.names
  BY <1>1 DEF EngineType, EnginePc
<1> QED
  BY <1>1, <1>2 DEF EngineShape

LEMMA SaveHasShapes == ASSUME Shapes, SaveHas PROVE Shapes'
<1>1. /\ e.pc = "has" /\ UNCHANGED <<asked, ix, idle, files, stored, st, ch, r, rq, w, wq>>
      /\ e' = Kept \/ e' = [e EXCEPT !.pc = "save"] \/ e' = GivenUp
  BY DEF SaveHas, run, index, disk, threads
<1>2. EngineShape(e) /\ e \in EngineType /\ e.buf = 0
  BY <1>1 DEF Shapes, EngineShape
<1>3. EngineShape(Kept) /\ EngineShape(GivenUp)
  BY <1>1, <1>2, JobIs
<1>4. EngineShape([e EXCEPT !.pc = "save"])
  <2>0. PICK pc \in {"save", "send"}, n \in Nat : pc = "save" /\ n = 0
    OBVIOUS
  <2>1. PICK x : x = [e EXCEPT !.pc = pc, !.buf = n]
    OBVIOUS
  <2>2. EngineShape(x)
    <3>1. e.pc \in {"has", "save"} /\ (n = 0 <=> pc = "save")
      BY <1>1, <2>0
    <3> QED
      BY <1>2, <2>1, <3>1, SaveMoves
  <2>3. x = [e EXCEPT !.pc = "save"]
    BY <1>2, <2>0, <2>1 DEF EngineType
  <2> QED
    BY <2>2, <2>3
<1>5. EngineShape(e')
  BY <1>1, <1>3, <1>4
<1>6. /\ IndexOk' /\ DiskOk' /\ StagingOk' /\ WriterOk' /\ WritesOk' /\ TasksOk' /\ ChannelOk' /\ ReaderShape(r')
  BY <1>1, IndexSame, DiskSame, StagingSame, WriterSame, WritesSame, TasksSame, ChannelSame DEF Shapes
<1> QED
  BY <1>1, <1>5, <1>6 DEF Shapes

LEMMA SaveTakeShapes == ASSUME Shapes, SaveTake PROVE Shapes'
<1>1. \/ st' = st /\ e' = GivenUp
      \/ \E q : /\ q = Taken(st, Bytes(Job.object)) /\ st' = q.st
               /\ \/ q.cap > 0 /\ e' = [e EXCEPT !.pc = "send", !.buf = q.cap]
                  \/ e' = e \/ e' = GivenUp
  BY DEF SaveTake
<1>2. e.pc = "save" /\ UNCHANGED <<asked, ix, idle, files, stored, ch, r, rq, w, wq>>
  BY DEF SaveTake, run, index, disk, threads
<1>3. EngineShape(e) /\ StagingOk
  BY DEF Shapes
<1>4. Job.object \in Objects /\ EngineShape(GivenUp)
  BY <1>2, <1>3, JobIs
<1>5. ASSUME st' = st, e' = GivenUp PROVE StagingOk' /\ EngineShape(e')
  BY <1>3, <1>4, <1>5, StagingSame
<1>6. ASSUME NEW q, q = Taken(st, Bytes(Job.object)), st' = q.st,
             \/ q.cap > 0 /\ e' = [e EXCEPT !.pc = "send", !.buf = q.cap]
             \/ e' = e \/ e' = GivenUp
      PROVE  StagingOk' /\ EngineShape(e')
  <2>1. StagingOk' /\ q.cap \in Nat
    BY <1>3, <1>4, <1>6, TakenFor
  <2>2. CASE q.cap > 0 /\ e' = [e EXCEPT !.pc = "send", !.buf = q.cap]
    <3>1. PICK n \in Nat : n = q.cap /\ n # 0
      BY <2>1, <2>2
    <3> QED
      BY <1>2, <1>3, <2>1, <2>2, <3>1, SaveMoves
  <2> QED
    BY <1>3, <1>4, <1>6, <2>1, <2>2
<1>7. /\ IndexOk' /\ DiskOk' /\ WriterOk' /\ WritesOk' /\ TasksOk' /\ ChannelOk' /\ ReaderShape(r')
  BY <1>2, IndexSame, DiskSame, WriterSame, WritesSame, TasksSame, ChannelSame DEF Shapes
<1> QED
  BY <1>1, <1>2, <1>5, <1>6, <1>7 DEF Shapes

LEMMA SaveSendShapes == ASSUME Shapes, SaveSend PROVE Shapes'
<1>1. /\ e.pc = "send" /\ UNCHANGED <<asked, ix, idle, files, stored, ch, r, rq, w>>
      /\ \/ /\ Len(wq) < WriterCap /\ e' = Kept /\ st' = st
            /\ wq' = Append(wq, [object |-> Job.object, flush |-> Job.flush, cap |-> e.buf])
         \/ e' = GivenUp /\ st' = Given(st, e.buf) /\ wq' = wq
  BY DEF SaveSend, run, index, disk
<1>2. EngineShape(e) /\ StagingOk /\ WritesOk /\ e.buf \in Nat
  BY DEF Shapes, EngineShape, EngineType
<1>3. EngineShape(e')
  BY <1>1, <1>2, JobIs
<1>4. StagingOk'
  BY <1>1, <1>2, StagingSame, GivenFor
<1>5. WritesOk'
  <2>1. wq \in Seq(WriteType) /\ Len(wq) <= WriterCap /\ Len(wq) \in Nat /\ WriterCap \in Nat
    BY <1>2, BoundsAssumption, LenProperties DEF WritesOk
  <2>2. PICK t : t = [object |-> Job.object, flush |-> Job.flush, cap |-> e.buf]
    OBVIOUS
  <2>3. t \in WriteType
    <3>1. Job.object \in Objects /\ Job.flush \in BOOLEAN
      BY <1>1, <1>2, JobIs
    <3> QED
      BY <1>2, <2>2, <3>1 DEF WriteType
  <2>4. Append(wq, t) \in Seq(WriteType) /\ Len(Append(wq, t)) = Len(wq) + 1
    BY <2>1, <2>3, AppendProperties
  <2>5. wq' = wq \/ (Len(wq) < WriterCap /\ wq' = Append(wq, t))
    BY <1>1, <2>2
  <2> QED
    BY <2>1, <2>4, <2>5 DEF WritesOk
<1>6. /\ IndexOk' /\ DiskOk' /\ WriterOk' /\ TasksOk' /\ ChannelOk' /\ ReaderShape(r')
  BY <1>1, IndexSame, DiskSame, WriterSame, TasksSame, ChannelSame DEF Shapes
<1> QED
  BY <1>1, <1>3, <1>4, <1>5, <1>6 DEF Shapes

-----------------------------------------------------------------------------
(***************************************************************************)
(* The writer's steps keep the shapes.                                      *)
(***************************************************************************)
LEMMA AtWork ==
  ASSUME WriterOk, w.pc # "idle"
  PROVE  /\ w \in WriterType /\ w.job \in WriteType /\ w.job.object \in Objects
         /\ w.job.cap \in Nat /\ w.names \in SUBSET AllNames
BY DEF WriterOk, WriteType, WriterType

LEMMA WriterMoves ==
  ASSUME WriterOk, w.pc # "idle", NEW pc \in {"insert", "delete", "flush"}, NEW names \in SUBSET AllNames,
         w' = [w EXCEPT !.pc = pc, !.names = names]
  PROVE  WriterOk' /\ w'.pc = pc /\ w'.names = names /\ w'.job = w.job
<1>1. w \in WriterType /\ w.job \in WriteType
  BY AtWork
<1>2. w' \in WriterType /\ w'.pc = pc /\ w'.names = names /\ w'.job = w.job
  BY <1>1 DEF WriterType, WriterPc
<1> QED
  BY <1>1, <1>2 DEF WriterOk

LEMMA WritePutShapes == ASSUME Shapes, WritePut PROVE Shapes'
<1>1. PICK pc \in {"rename", "flush"} : w' = [pc |-> pc, job |-> wq[1], names |-> {}]
  BY DEF WritePut
<1>2. /\ w.pc = "idle" /\ wq # << >> /\ wq' = Tail(wq)
      /\ UNCHANGED <<asked, ix, idle, files, stored, st, e, ch, r, rq>>
  BY DEF WritePut, run, index
<1>3. PICK q \in Seq(WriteType) : q = wq
  BY DEF Shapes, WritesOk
<1>4. q # << >> /\ wq' = Tail(q) /\ Len(q) <= WriterCap /\ WriterCap \in Nat
  BY <1>2, <1>3, BoundsAssumption DEF Shapes, WritesOk
<1>5. PICK z : z = Tail(q)
  OBVIOUS
<1>6. z \in Seq(WriteType) /\ Len(q) \in Nat /\ Len(z) = Len(q) - 1 /\ q[1] \in WriteType
  BY <1>4, <1>5, TailIs
<1>7. WritesOk'
  BY <1>4, <1>5, <1>6 DEF WritesOk
<1>8. WriterOk'
  <2>1. w' \in WriterType /\ w'.pc = pc /\ w'.job = q[1]
    BY <1>1, <1>3, <1>6 DEF WriterType, WriterPc
  <2> QED
    BY <1>6, <2>1 DEF WriterOk
<1>9. IndexOk' /\ DiskOk' /\ StagingOk' /\ EngineShape(e') /\ TasksOk' /\ ChannelOk' /\ ReaderShape(r')
  BY <1>2, IndexSame, DiskSame, StagingSame, TasksSame, ChannelSame DEF Shapes
<1> QED
  BY <1>2, <1>7, <1>8, <1>9 DEF Shapes

LEMMA WriteRenameShapes == ASSUME Shapes, WriteRename PROVE Shapes'
<1>1. /\ w.pc = "rename" /\ UNCHANGED <<asked, ix, idle, stored, st, e, ch, r, rq, wq>>
      /\ \/ /\ w' = [w EXCEPT !.pc = "insert"]
            /\ files' = Without({Name(w.job.object)}) \cup {w.job.object}
         \/ w' = [w EXCEPT !.pc = "flush"] /\ files' = files
  BY DEF WriteRename, run, index
<1>2. WriterOk /\ w.pc # "idle" /\ DiskOk
  BY <1>1 DEF Shapes
<1>3. w \in WriterType /\ w.job.object \in Objects /\ w.names \in SUBSET AllNames
  BY <1>2, AtWork
<1>4. WriterOk'
  <2>1. PICK pc \in {"insert", "delete", "flush"} : w' = [w EXCEPT !.pc = pc]
    BY <1>1
  <2>2. w' = [w EXCEPT !.pc = pc, !.names = w.names]
    BY <1>3, <2>1 DEF WriterType
  <2> QED
    BY <1>2, <1>3, <2>2, WriterMoves
<1>5. DiskOk'
  <2>1. CASE files' = files
    BY <1>1, <1>2, <2>1, DiskSame
  <2>2. CASE files' = Without({Name(w.job.object)}) \cup {w.job.object}
    <3>1. PICK o \in Objects : o = w.job.object
      BY <1>3
    <3>2. PICK G : G = Without({Name(o)})
      OBVIOUS
    <3>3. G \in SUBSET files /\ \A f \in G : Name(f) # Name(o)
      BY <3>2 DEF Without
    <3>4. OneOfEach(G)
      BY <1>2, <3>3, FewerFiles DEF DiskOk
    <3>5. IsFiniteSet(G \cup {o})
      BY <3>4, FS_AddElement DEF OneOfEach
    <3>6. OneOfEach(G \cup {o})
      BY <3>3, <3>4, <3>5 DEF OneOfEach
    <3>7. files' = G \cup {o}
      BY <2>2, <3>1, <3>2
    <3> QED
      BY <1>1, <1>2, <3>6, <3>7 DEF DiskOk
  <2> QED
    BY <1>1, <2>1, <2>2
<1>6. IndexOk' /\ StagingOk' /\ EngineShape(e') /\ WritesOk' /\ TasksOk' /\ ChannelOk' /\ ReaderShape(r')
  BY <1>1, IndexSame, StagingSame, WritesSame, TasksSame, ChannelSame DEF Shapes
<1> QED
  BY <1>1, <1>4, <1>5, <1>6 DEF Shapes

LEMMA WriteInsertShapes == ASSUME Shapes, WriteInsert PROVE Shapes'
<1>1. PICK gone :
        /\ gone = (Names(ix) \cup {Name(w.job.object)}) \ Names(ix')
        /\ w' = [w EXCEPT !.pc = IF gone = {} THEN "flush" ELSE "delete", !.names = gone]
  BY DEF WriteInsert
<1>2. /\ w.pc = "insert" /\ ix' = Inserted(ix, idle, w.job.object)
      /\ idle' = (idle \ {Name(w.job.object)}) \cap Names(ix')
      /\ UNCHANGED <<asked, files, stored, st, e, ch, r, rq, wq>>
  BY DEF WriteInsert, run, disk
<1>3. WriterOk /\ IndexOk
  BY DEF Shapes
<1>4. PICK o \in Objects : o = w.job.object
  BY <1>2, <1>3, AtWork
<1>5. Counted(ix') /\ ix'.used <= Budget
  BY <1>2, <1>3, <1>4, InsertedIs DEF IndexOk
<1>6. IndexOk'
  BY <1>2, <1>5 DEF IndexOk
<1>7. gone \in SUBSET AllNames
  <2>1. Names(ix) \in SUBSET AllNames
    BY <1>3, NamesAll DEF IndexOk, Counted
  <2>2. Name(o) \in AllNames
    BY DEF AllNames
  <2> QED
    BY <1>1, <1>4, <2>1, <2>2
<1>8. WriterOk'
  <2>1. PICK pc \in {"insert", "delete", "flush"} : w' = [w EXCEPT !.pc = pc, !.names = gone]
    BY <1>1
  <2>2. w.pc # "idle"
    BY <1>2
  <2> QED
    BY <1>3, <1>7, <2>1, <2>2, WriterMoves
<1>9. DiskOk' /\ StagingOk' /\ EngineShape(e') /\ WritesOk' /\ TasksOk' /\ ChannelOk' /\ ReaderShape(r')
  BY <1>2, DiskSame, StagingSame, WritesSame, TasksSame, ChannelSame DEF Shapes
<1> QED
  BY <1>2, <1>6, <1>8, <1>9 DEF Shapes

LEMMA WriteDeleteShapes == ASSUME Shapes, WriteDelete PROVE Shapes'
<1>1. /\ w.pc = "delete" /\ w' = [w EXCEPT !.pc = "flush", !.names = {}] /\ Deleted(w.names)
      /\ UNCHANGED <<asked, ix, idle, st, e, ch, r, rq, wq>>
  BY DEF WriteDelete, run, index
<1>2. WriterOk /\ DiskOk /\ w.pc # "idle"
  BY <1>1 DEF Shapes
<1>3. DiskOk'
  BY <1>1, <1>2, DeletedIs
<1>4. WriterOk'
  <2>1. PICK pc \in {"insert", "delete", "flush"}, names \in SUBSET AllNames : pc = "flush" /\ names = {}
    OBVIOUS
  <2>2. w' = [w EXCEPT !.pc = pc, !.names = names]
    BY <1>1, <2>1
  <2> QED
    BY <1>2, <2>2, WriterMoves
<1>5. IndexOk' /\ StagingOk' /\ EngineShape(e') /\ WritesOk' /\ TasksOk' /\ ChannelOk' /\ ReaderShape(r')
  BY <1>1, IndexSame, StagingSame, WritesSame, TasksSame, ChannelSame DEF Shapes
<1> QED
  BY <1>1, <1>3, <1>4, <1>5 DEF Shapes

LEMMA IdleWriterIs ==
  /\ IdleWriter \in WriterType /\ IdleWriter.pc = "idle" /\ IdleWriter.job = NoJob /\ IdleWriter.names = {}
  /\ IdleWriter.job.cap = 0
BY DEF IdleWriter, WriterType, WriterPc, NoJob

\* The names of an index, in its order.
LEMMA NamesInOrder ==
  ASSUME NEW x, Counted(x), NEW q, q = [i \in DOMAIN x.order |-> Name(x.order[i])]
  PROVE  q \in Seq(AllNames) /\ IsInjective(q)
<1>1. x.order \in Seq(Objects) /\ Apart(x.order)
  BY DEF Counted, IndexType
<1>2. DOMAIN x.order = 1 .. Len(x.order) /\ Len(x.order) \in Nat /\ \A i \in DOMAIN x.order : x.order[i] \in Objects
  BY <1>1, LenProperties
<1>3. \A i \in DOMAIN x.order : Name(x.order[i]) \in AllNames
  BY <1>2 DEF AllNames
<1>4. q \in [1 .. Len(x.order) -> AllNames]
  BY <1>2, <1>3
<1>5. q \in Seq(AllNames)
  BY <1>2, <1>4, SeqDef
<1>6. \A i, j \in DOMAIN q : q[i] = q[j] => i = j
  BY <1>1, <1>2 DEF Apart
<1> QED
  BY <1>5, <1>6 DEF IsInjective

LEMMA WriteFlushShapes == ASSUME Shapes, WriteFlush PROVE Shapes'
<1>1. /\ w.pc = "flush" /\ w' = IdleWriter /\ st' = Given(st, w.job.cap)
      /\ stored' = [i \in DOMAIN ix.order |-> Name(ix.order[i])] \/ stored' = stored
      /\ UNCHANGED <<asked, ix, idle, files, e, ch, r, rq, wq>>
  BY DEF WriteFlush, Flushed, run, index
<1>2. WriterOk /\ DiskOk /\ IndexOk /\ StagingOk /\ w.pc # "idle"
  BY <1>1 DEF Shapes
<1>3. StagingOk'
  BY <1>1, <1>2, AtWork, GivenFor
<1>4. WriterOk'
  BY <1>1, IdleWriterIs DEF WriterOk
<1>5. DiskOk'
  <2>1. PICK q : q = [i \in DOMAIN ix.order |-> Name(ix.order[i])]
    OBVIOUS
  <2>2. q \in Seq(AllNames) /\ IsInjective(q)
    BY <1>2, <2>1, NamesInOrder DEF IndexOk
  <2> QED
    BY <1>1, <1>2, <2>1, <2>2 DEF DiskOk
<1>6. IndexOk' /\ EngineShape(e') /\ WritesOk' /\ TasksOk' /\ ChannelOk' /\ ReaderShape(r')
  BY <1>1, IndexSame, WritesSame, TasksSame, ChannelSame DEF Shapes
<1> QED
  BY <1>1, <1>3, <1>4, <1>5, <1>6 DEF Shapes

-----------------------------------------------------------------------------
(***************************************************************************)
(* The reader's steps keep the shapes.                                      *)
(***************************************************************************)
LEMMA ReadEndsIs ==
  ASSUME ChannelOk, NEW live, ReadEnds(live)
  PROVE  ReaderShape(r') /\ ChannelOk' /\ ch'.msgs = ch.msgs /\ r' = IdleReader
         /\ ch'.open = IF live THEN FALSE ELSE ch.open
<1>1. ReaderShape(r')
  BY IdleIs DEF ReadEnds
<1>2. ch \in [msgs : Seq(MessageType), open : BOOLEAN]
  BY DEF ChannelOk
<1>3. PICK b \in BOOLEAN : b = FALSE
  OBVIOUS
<1>4. /\ ch' \in [msgs : Seq(MessageType), open : BOOLEAN] /\ ch'.msgs = ch.msgs
      /\ ch'.open = IF live THEN b ELSE ch.open
  <2>1. PICK d : d = [ch EXCEPT !.open = b]
    OBVIOUS
  <2>2. d \in [msgs : Seq(MessageType), open : BOOLEAN] /\ d.msgs = ch.msgs /\ d.open = b
    BY <1>2, <2>1
  <2>3. ch' = IF live THEN d ELSE ch
    BY <1>3, <2>1 DEF ReadEnds
  <2> QED
    BY <1>2, <2>2, <2>3
<1>5. ChannelOk'
  BY <1>4 DEF ChannelOk
<1> QED
  BY <1>1, <1>3, <1>4, <1>5 DEF ReadEnds

\* A reader that goes on with its plan.
LEMMA ReaderMoves ==
  ASSUME ReaderShape(r), NEW pc \in ReaderPc, NEW n \in Nat, NEW names \in SUBSET AllNames,
         pc \in {"take", "get", "touch", "send", "forget"} => r.at \in DOMAIN r.plan,
         pc # "expire", n = 0 <=> pc \notin {"get", "touch", "send"},
         r' = [r EXCEPT !.pc = pc, !.buf = n, !.names = names]
  PROVE  /\ ReaderShape(r') /\ r'.pc = pc /\ r'.buf = n /\ r'.names = names
         /\ r'.task = r.task /\ r'.plan = r.plan /\ r'.at = r.at
<1>1. r \in ReaderType
  BY DEF ReaderShape
<1>2. /\ r' \in ReaderType /\ r'.pc = pc /\ r'.buf = n /\ r'.names = names
      /\ r'.task = r.task /\ r'.plan = r.plan /\ r'.at = r.at
  BY <1>1 DEF ReaderType
<1> QED
  BY <1>1, <1>2 DEF ReaderShape

LEMMA ReadLookupShapes == ASSUME Shapes, ReadLookup PROVE Shapes'
<1>1. /\ r.pc = "idle" /\ rq # << >> /\ rq' = Tail(rq) /\ LookedUp(rq[1].text)
      /\ UNCHANGED <<asked, files, stored, st, e, w, wq>>
  BY DEF ReadLookup, run, disk
<1>2. IndexOk /\ ChannelOk
  BY DEF Shapes
<1>3. PICK q \in Seq(TaskType) : q = rq /\ Len(q) <= ReaderCap
  BY DEF Shapes, TasksOk
<1>4. PICK z : z = Tail(q)
  OBVIOUS
<1>5. z \in Seq(TaskType) /\ Len(q) \in Nat /\ Len(z) = Len(q) - 1 /\ q[1] \in TaskType
  BY <1>1, <1>3, <1>4, TailIs
<1>6. TasksOk'
  <2>1. ReaderCap \in Nat
    BY BoundsAssumption
  <2> QED
    BY <1>1, <1>3, <1>4, <1>5, <2>1 DEF TasksOk
<1>7. PICK task \in TaskType, text \in Seq(Token) : task = rq[1] /\ text = task.text
  BY <1>3, <1>5 DEF TaskType
<1>8. PICK plan, gone : plan = Looked(text).plan /\ gone = Looked(text).gone
  OBVIOUS
<1>9. IndexOk' /\ plan \in Seq(Objects) /\ PlanOf(plan, text) /\ gone \in SUBSET AllNames
  BY <1>1, <1>2, <1>7, <1>8, LookedUpIs
<1>10. PICK t : t = [IdleReader EXCEPT !.task = task, !.plan = plan, !.names = gone]
  OBVIOUS
<1>11. /\ t \in ReaderType /\ t.task = task /\ t.plan = plan /\ t.names = gone /\ t.at = 1 /\ t.buf = 0
  <2>1. IdleReader \in ReaderType /\ IdleReader.at = 1 /\ IdleReader.buf = 0
    BY IdleIs DEF IdleReader
  <2> QED
    BY <1>9, <1>10, <2>1 DEF ReaderType
<1>12. \/ r' = [t EXCEPT !.pc = "expire"] /\ UNCHANGED ch
       \/ plan # << >> /\ r' = [t EXCEPT !.pc = "take"] /\ UNCHANGED ch
       \/ ReadEnds(rq[1].live)
  BY <1>7, <1>8, <1>10 DEF ReadLookup
<1>13. ReaderShape(r') /\ ChannelOk'
  <2>1. CASE ReadEnds(rq[1].live)
    BY <1>2, <2>1, ReadEndsIs
  <2>2. ASSUME NEW pc \in {"expire", "take"}, r' = [t EXCEPT !.pc = pc], pc = "take" => plan # << >>
        PROVE  ReaderShape(r')
    <3>1. /\ r' \in ReaderType /\ r'.pc = pc /\ r'.task = task /\ r'.plan = plan /\ r'.at = 1 /\ r'.buf = 0
      BY <1>11, <2>2 DEF ReaderType, ReaderPc
    <3>2. plan # << >> => 1 \in DOMAIN plan
      BY <1>9, TailIs
    <3> QED
      BY <1>7, <1>9, <2>2, <3>1, <3>2 DEF ReaderShape
  <2> QED
    BY <1>2, <1>12, <2>1, <2>2, ChannelSame
<1>14. DiskOk' /\ StagingOk' /\ EngineShape(e') /\ WriterOk' /\ WritesOk'
  BY <1>1, DiskSame, StagingSame, WriterSame, WritesSame DEF Shapes
<1> QED
  BY <1>1, <1>6, <1>9, <1>13, <1>14 DEF Shapes

LEMMA ReadExpireShapes == ASSUME Shapes, ReadExpire PROVE Shapes'
<1>1. /\ r.pc = "expire" /\ Deleted(r.names) /\ UNCHANGED <<asked, ix, idle, st, e, rq, w, wq>>
      /\ \/ ReadEnds(r.task.live)
         \/ r.plan # << >> /\ r' = [r EXCEPT !.pc = "take", !.names = {}] /\ UNCHANGED ch
  BY DEF ReadExpire, run, index
<1>2. DiskOk /\ ReaderShape(r) /\ ChannelOk
  BY DEF Shapes
<1>3. DiskOk'
  BY <1>1, <1>2, DeletedIs
<1>4. ReaderShape(r') /\ ChannelOk'
  <2>1. CASE ReadEnds(r.task.live)
    BY <1>2, <2>1, ReadEndsIs
  <2>2. CASE r.plan # << >> /\ r' = [r EXCEPT !.pc = "take", !.names = {}] /\ UNCHANGED ch
    <3>1. r \in ReaderType /\ r.buf = 0 /\ r.at \in DOMAIN r.plan
      BY <1>1, <1>2, <2>2 DEF ReaderShape
    <3>2. /\ r' \in ReaderType /\ r'.pc = "take" /\ r'.buf = 0 /\ r'.task = r.task /\ r'.plan = r.plan
          /\ r'.at = r.at
      BY <2>2, <3>1 DEF ReaderType, ReaderPc
    <3>3. ReaderShape(r')
      BY <1>2, <3>1, <3>2 DEF ReaderShape
    <3> QED
      BY <1>2, <2>2, <3>3, ChannelSame
  <2> QED
    BY <1>1, <2>1, <2>2
<1>5. IndexOk' /\ StagingOk' /\ EngineShape(e') /\ WriterOk' /\ WritesOk' /\ TasksOk'
  BY <1>1, IndexSame, StagingSame, WriterSame, WritesSame, TasksSame DEF Shapes
<1> QED
  BY <1>1, <1>3, <1>4, <1>5 DEF Shapes

LEMMA ReadTakeShapes == ASSUME Shapes, ReadTake PROVE Shapes'
<1>1. PICK q : \/ /\ q = Taken(st, Bytes(r.plan[r.at])) /\ st' = q.st
                  /\ r' = [r EXCEPT !.pc = IF q.cap > 0 THEN "get" ELSE "error", !.buf = q.cap]
               \/ q = Refused(st) /\ st' = st /\ r' = [r EXCEPT !.pc = "error"]
  BY DEF ReadTake
<1>2. r.pc = "take" /\ UNCHANGED <<asked, ix, idle, files, stored, e, ch, rq, w, wq>>
  BY DEF ReadTake, run, index, disk
<1>3. ReaderShape(r) /\ StagingOk
  BY DEF Shapes
<1>4. r \in ReaderType /\ r.plan \in Seq(Objects) /\ r.at \in DOMAIN r.plan /\ PlanOf(r.plan, r.task.text)
  BY <1>2, <1>3 DEF ReaderShape, ReaderType
<1>5. PICK o \in Objects : o = r.plan[r.at]
  BY <1>4, PlanAt
<1>6. StagingOk' /\ q.cap \in Nat
  <2>1. CASE q = Refused(st) /\ st' = st
    BY <1>3, <2>1, StagingSame DEF Refused
  <2> QED
    BY <1>1, <1>3, <1>5, <2>1, TakenFor
<1>7. PICK n \in Nat : n = q.cap
  BY <1>6
<1>8. PICK pc \in ReaderPc : /\ pc = IF n > 0 THEN "get" ELSE "error"
                             /\ r' = [r EXCEPT !.pc = pc, !.buf = n]
  <2>1. CASE q = Refused(st) /\ r' = [r EXCEPT !.pc = "error"]
    <3>1. n = 0 /\ r.buf = 0
      BY <1>2, <1>3, <1>7, <2>1 DEF Refused, ReaderShape
    <3>2. r' = [r EXCEPT !.pc = "error", !.buf = 0]
      BY <1>4, <2>1, <3>1 DEF ReaderType
    <3> QED
      BY <3>1, <3>2 DEF ReaderPc
  <2> QED
    BY <1>1, <1>7, <2>1 DEF ReaderPc
<1>9. /\ r' \in ReaderType /\ r'.pc = pc /\ r'.buf = n /\ r'.task = r.task /\ r'.plan = r.plan
      /\ r'.at = r.at
  BY <1>4, <1>8 DEF ReaderType
<1>10. ReaderShape(r')
  BY <1>4, <1>8, <1>9 DEF ReaderShape
<1>11. IndexOk' /\ DiskOk' /\ EngineShape(e') /\ WriterOk' /\ WritesOk' /\ TasksOk' /\ ChannelOk'
  BY <1>2, IndexSame, DiskSame, WriterSame, WritesSame, TasksSame, ChannelSame DEF Shapes
<1> QED
  BY <1>2, <1>6, <1>10, <1>11 DEF Shapes

\* The object that the reader is at.
LEMMA ReadingIs ==
  ASSUME ReaderShape(r), r.pc \in {"take", "get", "touch", "send", "forget"}
  PROVE  /\ r \in ReaderType /\ r.at \in DOMAIN r.plan /\ r.plan \in Seq(Objects) /\ r.buf \in Nat
         /\ r.plan[r.at] \in Objects /\ Name(r.plan[r.at]) \in AllNames
         /\ r.at \in Nat /\ r.at >= 1 /\ r.at <= Len(r.plan) /\ Len(r.plan) \in Nat
         /\ r.task \in TaskType /\ PlanOf(r.plan, r.task.text) /\ r.names \in SUBSET AllNames
<1>1. /\ r \in ReaderType /\ r.at \in DOMAIN r.plan /\ r.plan \in Seq(Objects) /\ r.buf \in Nat
      /\ r.task \in TaskType /\ PlanOf(r.plan, r.task.text) /\ r.names \in SUBSET AllNames
  BY DEF ReaderShape, ReaderType
<1>2. r.plan[r.at] \in Objects /\ r.at \in Nat /\ r.at >= 1 /\ r.at <= Len(r.plan) /\ Len(r.plan) \in Nat
  BY <1>1, PlanAt
<1> QED
  BY <1>1, <1>2 DEF AllNames

LEMMA ReadGetShapes == ASSUME Shapes, ReadGet PROVE Shapes'
<1>1. /\ r.pc = "get" /\ UNCHANGED <<asked, ix, idle, files, stored, e, ch, rq, w, wq>>
      /\ \/ r' = [r EXCEPT !.pc = "touch"] /\ st' = st
         \/ r' = [r EXCEPT !.pc = "forget", !.buf = 0] /\ st' = Given(st, r.buf)
  BY DEF ReadGet, run, index, disk
<1>2. ReaderShape(r) /\ StagingOk
  BY DEF Shapes
<1>3. r \in ReaderType /\ r.buf \in Nat /\ r.at \in DOMAIN r.plan
  BY <1>1, <1>2, ReadingIs
<1>4. StagingOk'
  BY <1>1, <1>2, <1>3, StagingSame, GivenFor
<1>5. ReaderShape(r')
  <2>1. \/ /\ r' \in ReaderType /\ r'.pc = "touch" /\ r'.buf = r.buf /\ r'.task = r.task /\ r'.plan = r.plan
           /\ r'.at = r.at
        \/ /\ r' \in ReaderType /\ r'.pc = "forget" /\ r'.buf = 0 /\ r'.task = r.task /\ r'.plan = r.plan
           /\ r'.at = r.at
    <3>1. CASE r' = [r EXCEPT !.pc = "touch"]
      BY <1>3, <3>1 DEF ReaderType, ReaderPc
    <3>2. CASE r' = [r EXCEPT !.pc = "forget", !.buf = 0]
      BY <1>3, <3>2 DEF ReaderType, ReaderPc
    <3> QED
      BY <1>1, <3>1, <3>2
  <2> QED
    BY <1>1, <1>2, <1>3, <2>1 DEF ReaderShape
<1>6. IndexOk' /\ DiskOk' /\ EngineShape(e') /\ WriterOk' /\ WritesOk' /\ TasksOk' /\ ChannelOk'
  BY <1>1, IndexSame, DiskSame, WriterSame, WritesSame, TasksSame, ChannelSame DEF Shapes
<1> QED
  BY <1>1, <1>4, <1>5, <1>6 DEF Shapes

LEMMA ReadTouchShapes == ASSUME Shapes, ReadTouch PROVE Shapes'
<1>1. /\ r.pc = "touch" /\ TouchedNow(r.plan[r.at]) /\ r' = [r EXCEPT !.pc = "send"]
      /\ UNCHANGED <<asked, files, stored, st, e, ch, rq, w, wq>>
  BY DEF ReadTouch, run, disk
<1>2. ReaderShape(r) /\ IndexOk
  BY DEF Shapes
<1>3. r \in ReaderType /\ r.at \in DOMAIN r.plan
  BY <1>1, <1>2, ReadingIs
<1>4. IndexOk'
  BY <1>1, <1>2, TouchedNowIs
<1>5. ReaderShape(r')
  <2>1. /\ r' \in ReaderType /\ r'.pc = "send" /\ r'.buf = r.buf /\ r'.task = r.task /\ r'.plan = r.plan
        /\ r'.at = r.at
    BY <1>1, <1>3 DEF ReaderType, ReaderPc
  <2> QED
    BY <1>1, <1>2, <1>3, <2>1 DEF ReaderShape
<1>6. DiskOk' /\ StagingOk' /\ EngineShape(e') /\ WriterOk' /\ WritesOk' /\ TasksOk' /\ ChannelOk'
  BY <1>1, DiskSame, StagingSame, WriterSame, WritesSame, TasksSame, ChannelSame DEF Shapes
<1> QED
  BY <1>1, <1>4, <1>5, <1>6 DEF Shapes

LEMMA OneMessage ==
  ASSUME NEW m \in MessageType, m.cap = 0 <=> m.object = NoObject, NEW b \in BOOLEAN,
         ch' = [msgs |-> << m >>, open |-> b]
  PROVE  ChannelOk' /\ ch'.msgs = << m >> /\ ch'.open = b /\ ch'.msgs[1] = m
<1>1. PICK q : q = << m >>
  OBVIOUS
<1>2. q \in Seq(MessageType) /\ Len(q) = 1 /\ DOMAIN q = {1} /\ q[1] = m
  BY <1>1
<1>3. ch' \in [msgs : Seq(MessageType), open : BOOLEAN] /\ ch'.msgs = q /\ ch'.open = b
  BY <1>1, <1>2
<1>4. ChannelOk'
  BY <1>2, <1>3 DEF ChannelOk
<1> QED
  BY <1>1, <1>2, <1>3, <1>4

LEMMA ReadSendShapes == ASSUME Shapes, ReadSend PROVE Shapes'
<1>1. /\ r.pc = "send" /\ UNCHANGED <<asked, ix, idle, files, stored, e, rq, w, wq>>
      /\ \/ /\ ch' = [msgs |-> << [object |-> r.plan[r.at], cap |-> r.buf] >>, open |-> r.at < Len(r.plan)]
            /\ r' = IF r.at < Len(r.plan) THEN [r EXCEPT !.pc = "take", !.at = @ + 1, !.buf = 0] ELSE IdleReader
            /\ st' = st
         \/ r' = IdleReader /\ st' = Given(st, r.buf) /\ ch' = ch
  BY DEF ReadSend, run, index, disk
<1>2. ReaderShape(r) /\ StagingOk /\ ChannelOk
  BY DEF Shapes
<1>3. /\ r \in ReaderType /\ r.at \in DOMAIN r.plan /\ r.buf \in Nat /\ r.plan[r.at] \in Objects /\ r.at \in Nat
      /\ Len(r.plan) \in Nat /\ r.at >= 1 /\ r.plan \in Seq(Objects)
  BY <1>1, <1>2, ReadingIs
<1>4. r.buf # 0
  BY <1>1, <1>2 DEF ReaderShape
<1>5. StagingOk'
  BY <1>1, <1>2, <1>3, StagingSame, GivenFor
<1>6. ChannelOk'
  <2>1. PICK m : m = [object |-> r.plan[r.at], cap |-> r.buf]
    OBVIOUS
  <2>2. m \in MessageType /\ (m.cap = 0 <=> m.object = NoObject)
    BY <1>3, <1>4, <2>1, NoObjectIs DEF MessageType
  <2>3. PICK b \in BOOLEAN : b = (r.at < Len(r.plan))
    <3>1. CASE r.at < Len(r.plan)
      <4>1. TRUE = (r.at < Len(r.plan))
        BY <3>1
      <4> QED
        BY <4>1, Zenon
    <3>2. CASE ~(r.at < Len(r.plan))
      <4>1. FALSE = (r.at < Len(r.plan))
        BY <3>2
      <4> QED
        BY <4>1, Zenon
    <3> QED
      BY <3>1, <3>2, Zenon
  <2>4. ch' = [msgs |-> << m >>, open |-> b] \/ ch' = ch
    BY <1>1, <2>1, <2>3
  <2> QED
    BY <1>2, <2>2, <2>4, OneMessage, ChannelSame
<1>7. ReaderShape(r')
  <2>1. CASE r' = IdleReader
    BY <2>1, IdleIs
  <2>2. CASE r.at < Len(r.plan) /\ r' = [r EXCEPT !.pc = "take", !.at = @ + 1, !.buf = 0]
    <3>1. PICK k \in Nat : k = r.at + 1
      BY <1>3
    <3>2. k \in DOMAIN r.plan
      BY <1>3, <2>2, <3>1, LenProperties
    <3>3. r' = [r EXCEPT !.pc = "take", !.at = k, !.buf = 0]
      BY <1>3, <2>2, <3>1 DEF ReaderType
    <3>4. /\ r' \in ReaderType /\ r'.pc = "take" /\ r'.buf = 0 /\ r'.task = r.task /\ r'.plan = r.plan
          /\ r'.at = k
      BY <1>3, <3>3 DEF ReaderType, ReaderPc
    <3> QED
      BY <1>2, <3>2, <3>4 DEF ReaderShape
  <2> QED
    BY <1>1, <2>1, <2>2
<1>8. IndexOk' /\ DiskOk' /\ EngineShape(e') /\ WriterOk' /\ WritesOk' /\ TasksOk'
  BY <1>1, IndexSame, DiskSame, WriterSame, WritesSame, TasksSame DEF Shapes
<1> QED
  BY <1>1, <1>5, <1>6, <1>7, <1>8 DEF Shapes

LEMMA ReadForgetShapes == ASSUME Shapes, ReadForget PROVE Shapes'
<1>1. /\ r.pc = "forget" /\ Forgotten(r.plan[r.at])
      /\ \/ r' = [r EXCEPT !.pc = "delete", !.names = {Name(r.plan[r.at])}]
         \/ r' = [r EXCEPT !.pc = "error"]
      /\ UNCHANGED <<asked, files, stored, st, e, ch, rq, w, wq>>
  BY DEF ReadForget, run, disk
<1>2. ReaderShape(r) /\ IndexOk
  BY DEF Shapes
<1>3. r \in ReaderType /\ r.at \in DOMAIN r.plan /\ Name(r.plan[r.at]) \in AllNames /\ r.buf = 0
  BY <1>1, <1>2, ReadingIs DEF ReaderShape
<1>4. IndexOk'
  BY <1>1, <1>2, ForgottenIs
<1>5. ReaderShape(r')
  <2>1. PICK names \in SUBSET AllNames : names = {Name(r.plan[r.at])}
    BY <1>3
  <2>2. /\ r' \in ReaderType /\ r'.pc \in {"delete", "error"} /\ r'.buf = 0 /\ r'.task = r.task /\ r'.plan = r.plan
        /\ r'.at = r.at
    BY <1>1, <1>3, <2>1 DEF ReaderType, ReaderPc
  <2> QED
    BY <1>2, <1>3, <2>2 DEF ReaderShape
<1>6. DiskOk' /\ StagingOk' /\ EngineShape(e') /\ WriterOk' /\ WritesOk' /\ TasksOk' /\ ChannelOk'
  BY <1>1, DiskSame, StagingSame, WriterSame, WritesSame, TasksSame, ChannelSame DEF Shapes
<1> QED
  BY <1>1, <1>4, <1>5, <1>6 DEF Shapes

LEMMA ReadDeleteShapes == ASSUME Shapes, ReadDelete PROVE Shapes'
<1>1. /\ r.pc = "delete" /\ Deleted(r.names) /\ r' = [r EXCEPT !.pc = "error", !.names = {}]
      /\ UNCHANGED <<asked, ix, idle, st, e, ch, rq, w, wq>>
  BY DEF ReadDelete, run, index
<1>2. ReaderShape(r) /\ DiskOk /\ r \in ReaderType /\ r.buf = 0
  BY <1>1 DEF Shapes, ReaderShape
<1>3. DiskOk'
  BY <1>1, <1>2, DeletedIs
<1>4. ReaderShape(r')
  <2>1. /\ r' \in ReaderType /\ r'.pc = "error" /\ r'.buf = 0 /\ r'.task = r.task /\ r'.plan = r.plan
    BY <1>1, <1>2 DEF ReaderType, ReaderPc
  <2> QED
    BY <1>2, <2>1 DEF ReaderShape
<1>5. IndexOk' /\ StagingOk' /\ EngineShape(e') /\ WriterOk' /\ WritesOk' /\ TasksOk' /\ ChannelOk'
  BY <1>1, IndexSame, StagingSame, WriterSame, WritesSame, TasksSame, ChannelSame DEF Shapes
<1> QED
  BY <1>1, <1>3, <1>4, <1>5 DEF Shapes

LEMMA ReadErrorShapes == ASSUME Shapes, ReadError PROVE Shapes'
<1>1. /\ r' = IdleReader
      /\ ch' = [msgs |-> << [object |-> NoObject, cap |-> 0] >>, open |-> FALSE] \/ ch' = ch
      /\ UNCHANGED <<asked, ix, idle, files, stored, st, e, rq, w, wq>>
  BY DEF ReadError, run, index, disk
<1>2. ReaderShape(r')
  BY <1>1, IdleIs
<1>3. ChannelOk'
  <2>1. PICK m : m = [object |-> NoObject, cap |-> 0]
    OBVIOUS
  <2>2. m \in MessageType /\ (m.cap = 0 <=> m.object = NoObject)
    BY <2>1 DEF MessageType
  <2>3. PICK b \in BOOLEAN : b = FALSE
    OBVIOUS
  <2>4. ch' = [msgs |-> << m >>, open |-> b] \/ ch' = ch
    BY <1>1, <2>1, <2>3
  <2>5. ChannelOk
    BY DEF Shapes
  <2> QED
    BY <2>2, <2>4, <2>5, OneMessage, ChannelSame
<1>4. IndexOk' /\ DiskOk' /\ StagingOk' /\ EngineShape(e') /\ WriterOk' /\ WritesOk' /\ TasksOk'
  BY <1>1, IndexSame, DiskSame, StagingSame, WriterSame, WritesSame, TasksSame DEF Shapes
<1> QED
  BY <1>1, <1>2, <1>3, <1>4 DEF Shapes

-----------------------------------------------------------------------------
(***************************************************************************)
(* Time and restarts; the inductive invariant.                              *)
(***************************************************************************)
LEMMA AgeShapes == ASSUME Shapes, Age PROVE Shapes'
<1>1. PICK o \in Ageing : idle' = idle \cup {Name(o)}
  BY DEF Age
<1>2. UNCHANGED <<asked, ix, files, stored, st, e, ch, r, rq, w, wq>>
  BY DEF Age, run, disk, threads
<1>3. Name(o) \in Names(ix)
  BY DEF Ageing, Names
<1>4. IndexOk'
  <2>1. Counted(ix) /\ ix.used <= Budget /\ idle \in SUBSET Names(ix) /\ ix' = ix
    BY <1>2 DEF Shapes, IndexOk
  <2>2. Counted(ix') /\ ix'.used <= Budget /\ Names(ix') = Names(ix)
    BY <2>1
  <2>3. idle' \in SUBSET Names(ix')
    BY <1>1, <1>3, <2>1, <2>2
  <2> QED
    BY <2>2, <2>3 DEF IndexOk
<1>5. /\ DiskOk' /\ StagingOk' /\ EngineShape(e') /\ WriterOk' /\ WritesOk' /\ TasksOk' /\ ChannelOk'
      /\ ReaderShape(r')
  BY <1>2, DiskSame, StagingSame, WriterSame, WritesSame, TasksSame, ChannelSame DEF Shapes
<1> QED
  BY <1>2, <1>4, <1>5 DEF Shapes

LEMMA StartShapes ==
  ASSUME Shapes, NEW q \in Seq(AllNames), IsInjective(q), Start(q) PROVE Shapes'
<1>1. PICK old : ix' = Opened(files, q, old) /\ idle' = old \cap Names(ix')
  BY DEF Start
<1>2. /\ files' = {o \in files : Name(o) \in Names(ix')} /\ stored' = q
      /\ e' = Idle /\ ch' = Closed /\ r' = IdleReader /\ rq' = << >> /\ w' = IdleWriter /\ wq' = << >>
      /\ asked' = asked /\ st' = NewStaging(mode, st.budget)
  BY DEF Start, run
<1>3. OneOfEach(files)
  BY DEF Shapes, DiskOk
<1>4. IndexOk'
  <2>1. Counted(ix') /\ ix'.used <= Budget
    BY <1>1, <1>3, OpenedIs
  <2> QED
    BY <1>1, <2>1 DEF IndexOk
<1>5. DiskOk'
  BY <1>2, <1>3, FewerFiles DEF DiskOk
<1>6. StagingOk'
  <2>1. st.budget \in Nat
    BY DEF Shapes, StagingOk, StagingType
  <2> QED
    BY <1>2, <2>1, NewStagingOut DEF StagingOk
<1>7. EngineShape(e') /\ ReaderShape(r')
  BY <1>2, IdleIs
<1>8. WriterOk'
  BY <1>2, IdleWriterIs DEF WriterOk
<1>9. ChannelOk'
  BY <1>2, ClosedOk
<1>10. WritesOk' /\ TasksOk'
  <2>1. << >> \in Seq(WriteType) /\ << >> \in Seq(TaskType) /\ Len(<< >>) = 0
    OBVIOUS
  <2>2. WriterCap \in Nat /\ ReaderCap \in Nat
    BY BoundsAssumption
  <2> QED
    BY <1>2, <2>1, <2>2 DEF WritesOk, TasksOk
<1> QED
  BY <1>2, <1>4, <1>5, <1>6, <1>7, <1>8, <1>9, <1>10 DEF Shapes

LEMMA CrashShapes == ASSUME Shapes, Crash PROVE Shapes'
<1>1. stored \in Seq(AllNames) /\ IsInjective(stored)
  BY DEF Shapes, DiskOk
<1> QED
  BY <1>1, StartShapes DEF Crash

LEMMA RestartShapes == ASSUME Shapes, Restart PROVE Shapes'
<1>1. PICK q : q = [i \in DOMAIN ix.order |-> Name(ix.order[i])]
  OBVIOUS
<1>2. q \in Seq(AllNames) /\ IsInjective(q)
  BY <1>1, NamesInOrder DEF Shapes, IndexOk
<1>3. Start(q)
  BY <1>1 DEF Restart
<1> QED
  BY <1>2, <1>3, StartShapes

LEMMA InitShapes == ASSUME Init PROVE Shapes
<1>1. /\ ix = EmptyIndex /\ idle = {} /\ files = {} /\ stored = << >>
      /\ e = Idle /\ ch = Closed /\ r = IdleReader /\ rq = << >> /\ w = IdleWriter /\ wq = << >> /\ asked = 0
      /\ \E size \in StagingSizes : st = NewStaging(mode, size)
  BY DEF Init
<1>2. IndexOk
  <2>1. ix \in IndexType /\ ix.order = << >> /\ ix.used = 0 /\ Apart(<< >>)
    BY <1>1 DEF EmptyIndex, IndexType, Apart
  <2>2. Counted(ix)
    BY <2>1, SizeEmpty DEF Counted
  <2>3. ix.used <= Budget
    BY <2>1, SizesAssumption
  <2> QED
    BY <1>1, <2>2, <2>3 DEF IndexOk
<1>3. DiskOk
  <2>1. OneOfEach({})
    BY FS_EmptySet DEF OneOfEach
  <2>2. << >> \in Seq(AllNames) /\ IsInjective(<< >>)
    BY DEF IsInjective
  <2> QED
    BY <1>1, <2>1, <2>2 DEF DiskOk
<1>4. StagingOk
  <2>1. PICK size \in Nat : st = NewStaging(mode, size)
    BY <1>1, StagingAssumption
  <2> QED
    BY <2>1, NewStagingOut DEF StagingOk
<1>5. EngineShape(e) /\ ReaderShape(r)
  BY <1>1, IdleIs
<1>6. WriterOk
  BY <1>1, IdleWriterIs DEF WriterOk
<1>7. ChannelOk
  <2>1. ch \in [msgs : Seq(MessageType), open : BOOLEAN] /\ ch.msgs = << >>
    BY <1>1, ClosedIs
  <2>2. DOMAIN << >> = {} /\ Len(<< >>) = 0
    OBVIOUS
  <2> QED
    BY <2>1, <2>2 DEF ChannelOk
<1>8. WritesOk /\ TasksOk
  <2>1. << >> \in Seq(WriteType) /\ << >> \in Seq(TaskType) /\ Len(<< >>) = 0
    OBVIOUS
  <2>2. WriterCap \in Nat /\ ReaderCap \in Nat
    BY BoundsAssumption
  <2> QED
    BY <1>1, <2>1, <2>2 DEF WritesOk, TasksOk
<1> QED
  BY <1>1, <1>2, <1>3, <1>4, <1>5, <1>6, <1>7, <1>8 DEF Shapes

LEMMA StutterShapes == ASSUME Shapes, UNCHANGED vars PROVE Shapes'
<1>1. UNCHANGED <<asked, ix, idle, files, stored, st, e, ch, r, rq, w, wq>>
  BY DEF vars
<1> QED
  BY <1>1, IndexSame, DiskSame, StagingSame, WriterSame, WritesSame, TasksSame, ChannelSame DEF Shapes

LEMMA NextShapes == ASSUME Shapes, [Next]_vars PROVE Shapes'
<1>1. CASE UNCHANGED vars
  BY <1>1, StutterShapes
<1>2. CASE Engine
  BY <1>2, LookupShapes, ExpireShapes, TakeShapes, GetOkShapes, GetFailsShapes, ReceiveShapes,
     DisconnectedShapes, GenerateShapes, SaveHasShapes, SaveTakeShapes, SaveSendShapes DEF Engine
<1>3. CASE Writer
  BY <1>3, WritePutShapes, WriteRenameShapes, WriteInsertShapes, WriteDeleteShapes, WriteFlushShapes DEF Writer
<1>4. CASE Reader
  BY <1>4, ReadLookupShapes, ReadExpireShapes, ReadTakeShapes, ReadGetShapes, ReadTouchShapes,
     ReadSendShapes, ReadForgetShapes, ReadDeleteShapes, ReadErrorShapes DEF Reader
<1>5. CASE Ask \/ Cancel \/ Age \/ Crash \/ Restart
  BY <1>5, AskShapes, CancelShapes, AgeShapes, CrashShapes, RestartShapes
<1> QED
  BY <1>1, <1>2, <1>3, <1>4, <1>5 DEF Next

\* The parts of a state keep their shapes, through every step of every thread,
\* every failure of the disk and every restart.
THEOREM ShapesHold == Spec => []Shapes
<1>1. Init => Shapes
  BY InitShapes
<1>2. Shapes /\ [Next]_vars => Shapes'
  BY NextShapes
<1> QED
  BY <1>1, <1>2, PTL DEF Spec

\* The index counts exactly the bytes of its objects and they fit the budget,
\* through insertions, evictions, expiry, forgetting and restarts (cache.rs:
\* insert_entry, remove, evict_to_budget).
THEOREM IndexKeepsBudget == Spec => []BudgetKept
<1>1. ASSUME Shapes PROVE BudgetKept
  <2>1. Counted(ix) /\ ix.used <= Budget
    BY <1>1 DEF Shapes, IndexOk
  <2>2. ix.order \in Seq(Objects) /\ Apart(ix.order) /\ ix.used = SizeOf(ix.order)
    BY <2>1 DEF Counted, IndexType
  <2>3. PICK U : U = ToSet(ix.order)
    OBVIOUS
  <2>4. PICK f, g : f = [o \in Objects |-> Footprint(o)] /\ g = [o \in U |-> Footprint(o)]
    OBVIOUS
  <2>5. IsFiniteSet(U) /\ U \in SUBSET Objects /\ SizeOf(ix.order) = SumFunctionOnSet(f, U)
    BY <2>2, <2>3, <2>4, SizeSum, ObjectsSized
  <2>6. \A o \in U : f[o] = g[o] /\ f[o] \in Int
    <3>1. \A o \in U : f[o] = Footprint(o) /\ g[o] = Footprint(o) /\ Footprint(o) \in Nat
      BY <2>4, <2>5, ObjectsSized DEF Sized
    <3> QED
      BY <3>1
  <2>7. SumFunctionOnSet(f, U) = SumFunctionOnSet(g, U)
    BY <2>5, <2>6, SumSame
  <2> QED
    BY <2>1, <2>2, <2>3, <2>4, <2>5, <2>7 DEF BudgetKept
<1> QED
  BY <1>1, ShapesHold, PTL

\* The index and the disk hold objects of the requests, one per name, and the
\* queues stay within their capacities.
THEOREM TypesHold == Spec => []TypeOK
<1>1. ASSUME Shapes PROVE TypeOK
  <2>1. Counted(ix) /\ idle \in SUBSET Names(ix) /\ OneOfEach(files)
    BY <1>1 DEF Shapes, IndexOk, DiskOk
  <2>2. ix.order \in Seq(Objects) /\ Apart(ix.order)
    BY <2>1 DEF Counted, IndexType
  <2>3. ToSet(ix.order) \in SUBSET Objects
    BY <2>2, SetOfSeq
  <2>4. IsInjective([i \in DOMAIN ix.order |-> Name(ix.order[i])])
    BY <2>1, NamesInOrder
  <2>5. Cardinality({Name(o) : o \in files}) = Cardinality(files)
    <3>1. IsFiniteSet(files) /\ \A o, u \in files : Name(o) = Name(u) => o = u
      BY <2>1 DEF OneOfEach
    <3>2. PICK f : f = [o \in files |-> Name(o)]
      OBVIOUS
    <3>3. f \in Bijection(files, {Name(o) : o \in files})
      BY <3>1, <3>2 DEF Bijection, Injection, Surjection, IsInjective
    <3> QED
      BY <3>1, <3>3, FS_Bijection DEF ExistsBijection
  <2>6. Len(wq) <= WriterCap /\ Len(rq) <= ReaderCap /\ Len(ch.msgs) <= 1
    BY <1>1 DEF Shapes, WritesOk, TasksOk, ChannelOk
  <2> QED
    BY <2>1, <2>3, <2>4, <2>5, <2>6 DEF TypeOK, OneOfEach
<1> QED
  BY <1>1, ShapesHold, PTL

-----------------------------------------------------------------------------
(***************************************************************************)
(* What is restored.                                                        *)
(***************************************************************************)
\* The tasks that are still wanted.
Wanted == {i \in DOMAIN rq : rq[i].live}

\* The engine's own part: while a plan is carried out, the rows are those of
\* the objects before.
RowsOk(x) ==
  /\ x.pc = "lookup" => x.rows = {} /\ x.pos = 0
  /\ x.pc \in {"expire", "take", "get"} => x.rows = 1 .. EndOf(x.plan, x.at - 1) /\ x.pos = 0
  /\ x.pc = "prefill" => x.rows = 1 .. x.pos /\ x.pos <= Len(x.req.prompt)

\* The reader's part: one task at most is wanted, the engine waits for it, and
\* rows, message and reader agree on how far the plan is.
RemoteOk ==
  /\ ch.open <=> r.task.live \/ Wanted # {}
  /\ r.task.live => Wanted = {}
  /\ \A i, j \in Wanted : i = j
  /\ ch.open \/ ch.msgs # << >> => e.pc = "receive"
  /\ r.task.live => r.pc # "idle" /\ r.task.text = e.req.prompt
  /\ \A i \in Wanted : rq[i].text = e.req.prompt
  /\ Wanted # {} => ch.msgs = << >> /\ e.rows = {}
  /\ r.task.live =>
       IF ch.msgs = << >> THEN e.rows = 1 .. EndOf(r.plan, r.at - 1)
       ELSE /\ r.at - 1 \in 1 .. Len(r.plan) - 1 /\ ch.msgs[1].object = r.plan[r.at - 1]
            /\ ch.msgs[1].cap # 0 /\ e.rows = 1 .. EndOf(r.plan, r.at - 2)
  /\ ~ch.open /\ ch.msgs # << >> /\ ch.msgs[1].cap # 0 =>
       /\ ch.msgs[1].object.kind = "snapshot"
       /\ e.rows = 1 .. Len(ch.msgs[1].object.text) /\ Len(ch.msgs[1].object.text) <= Len(e.req.prompt)

RestoreOk == RowsOk(e) /\ RemoteOk

LEMMA RemoteSame == ASSUME RemoteOk, UNCHANGED <<e, ch, r, rq>> PROVE RemoteOk'
BY DEF RemoteOk, Wanted

\* Nobody waits and nothing is wanted.
Quiet == ch.open = FALSE /\ ch.msgs = << >> /\ Wanted = {} /\ r.task.live = FALSE

LEMMA QuietNow == ASSUME RemoteOk, Shapes, e.pc # "receive" PROVE Quiet
<1>1. ~ch.open /\ ch.msgs = << >> /\ ~r.task.live /\ Wanted = {}
  BY DEF RemoteOk
<1>2. ch.open \in BOOLEAN /\ r.task.live \in BOOLEAN
  BY DEF Shapes, ChannelOk, ReaderShape, ReaderType, TaskType
<1> QED
  BY <1>1, <1>2 DEF Quiet

LEMMA QuietRemote == ASSUME Quiet' PROVE RemoteOk'
BY DEF Quiet, RemoteOk

LEMMA QuietSame == ASSUME RemoteOk, Shapes, e.pc # "receive", UNCHANGED <<ch, r, rq>> PROVE RemoteOk'
<1>1. Quiet
  BY QuietNow
<1>2. Quiet'
  BY <1>1 DEF Quiet, Wanted
<1> QED
  BY <1>2, QuietRemote

LEMMA NothingRestored ==
  ASSUME NEW q \in ToSet(Requests), NEW pc \in {"lookup", "receive", "prefill"}
  PROVE  RowsOk(NewRestore(q, pc))
<1>1. PICK x : x = NewRestore(q, pc)
  OBVIOUS
<1>2. x.pc = pc /\ x.req = q /\ x.rows = {} /\ x.pos = 0
  BY <1>1, NewRestoreIs
<1>3. Len(q.prompt) \in Nat /\ 1 .. 0 = {}
  BY RequestIs, LenProperties
<1>4. RowsOk(x)
  BY <1>2, <1>3 DEF RowsOk
<1> QED
  BY <1>1, <1>4

LEMMA NotRestoring == ASSUME NEW x, x.pc \in {"idle", "has", "save", "send", "receive"} PROVE RowsOk(x)
BY DEF RowsOk

LEMMA DropReceiverQuiet == ASSUME Shapes, DropReceiver PROVE Quiet'
<1>1. /\ r'.task.live = FALSE /\ ch' = Closed
      /\ DOMAIN rq' = DOMAIN rq /\ \A i \in DOMAIN rq : rq'[i].live = FALSE
  BY DropReceiverIs
<1>2. ch'.open = FALSE /\ ch'.msgs = << >>
  BY <1>1, ClosedIs
<1>3. Wanted' = {}
  BY <1>1 DEF Wanted
<1> QED
  BY <1>1, <1>2, <1>3 DEF Quiet

LEMMA AskRestores == ASSUME Shapes, RestoreOk, Ask PROVE RestoreOk'
<1>1. /\ e.pc = "idle" /\ r' = r /\ asked \in Nat /\ asked < Len(Requests)
  BY DEF Ask, Shapes
<1>2. PICK q : q = Requests[asked + 1]
  OBVIOUS
<1>3. q \in ToSet(Requests)
  <2>1. Requests \in Seq([prompt : Seq(Token), full : Seq(Token)])
    BY RequestsAssumption
  <2>2. DOMAIN Requests = 1 .. Len(Requests) /\ Len(Requests) \in Nat
    BY <2>1, LenProperties
  <2>3. asked + 1 \in DOMAIN Requests
    BY <1>1, <2>2
  <2> QED
    BY <1>2, <2>3 DEF ToSet
<1>4. PICK pc \in {"lookup", "receive"} : e' = NewRestore(q, pc) /\ (mode = "continuous" => pc = "receive")
  <2>1. mode = "serial" => mode # "continuous"
    OBVIOUS
  <2> QED
    BY <1>2, <2>1 DEF Ask
<1>5. RowsOk(e') /\ e'.pc = pc /\ e'.req = q /\ e'.rows = {}
  <2>1. pc \in {"lookup", "receive", "prefill"}
    OBVIOUS
  <2> QED
    BY <1>3, <1>4, <2>1, NothingRestored, NewRestoreIs
<1>6. Quiet
  BY <1>1, QuietNow DEF RestoreOk
<1>7. RemoteOk'
  <2>1. CASE rq' = rq /\ ch' = Closed
    <3>1. Quiet'
      BY <1>1, <1>6, <2>1, ClosedIs DEF Quiet, Wanted
    <3> QED
      BY <3>1, QuietRemote
  <2>2. CASE /\ mode = "continuous"
             /\ rq' = Append(rq, [text |-> q.prompt, live |-> TRUE]) /\ ch' = [Closed EXCEPT !.open = TRUE]
    <3>1. PICK t : t = [text |-> q.prompt, live |-> TRUE]
      OBVIOUS
    <3>2. t \in TaskType /\ t.text = q.prompt /\ t.live
      BY <1>3, <3>1, RequestIs DEF TaskType
    <3>3. rq \in Seq(TaskType)
      BY DEF Shapes, TasksOk
    <3>4. PICK n \in Nat : n = Len(rq) /\ DOMAIN rq = 1 .. n
      BY <3>3, Appended
    <3>5. /\ DOMAIN rq' = (1 .. n) \cup {n + 1} /\ n + 1 \notin 1 .. n
          /\ rq'[n + 1] = t /\ \A i \in 1 .. n : rq'[i] = rq[i]
      BY <2>2, <3>1, <3>2, <3>3, <3>4, Appended
    <3>6. \A i \in 1 .. n : ~rq[i].live
      BY <1>6, <3>4 DEF Quiet, Wanted
    <3>7. Wanted' = {n + 1}
      BY <3>2, <3>5, <3>6 DEF Wanted
    <3>8. ch'.open /\ ch'.msgs = << >>
      <4>1. PICK c : c = Closed
        OBVIOUS
      <4>2. PICK d : d = [c EXCEPT !.open = TRUE]
        OBVIOUS
      <4>3. c \in [msgs : Seq(MessageType), open : BOOLEAN] /\ c.msgs = << >>
        BY <4>1, ClosedIs
      <4>4. d.open /\ d.msgs = << >>
        BY <4>2, <4>3
      <4> QED
        BY <2>2, <4>1, <4>2, <4>4
    <3>9. ~r'.task.live
      BY <1>1, <1>6 DEF Quiet
    <3>10. rq'[n + 1].text = e'.req.prompt
      BY <1>5, <3>2, <3>5
    <3>11. e'.pc = "receive"
      BY <1>4, <1>5, <2>2
    <3> QED
      BY <1>5, <3>7, <3>8, <3>9, <3>10, <3>11 DEF RemoteOk
  <2> QED
    BY <1>2, <2>1, <2>2 DEF Ask
<1> QED
  BY <1>5, <1>7 DEF RestoreOk

LEMMA LookupRestores == ASSUME Shapes, RestoreOk, Lookup PROVE RestoreOk'
<1>1. e.pc = "lookup" /\ UNCHANGED <<ch, r, rq>>
  BY DEF Lookup, threads
<1>9. PICK plan, gone : plan = Looked(e.req.prompt).plan /\ gone = Looked(e.req.prompt).gone
  OBVIOUS
<1>2. PICK pc \in {"expire", "prefill", "take"} :
        e' = [e EXCEPT !.pc = pc, !.plan = plan, !.names = gone]
  BY <1>9 DEF Lookup
<1>3. EngineShape(e) /\ RowsOk(e) /\ RemoteOk
  BY DEF Shapes, RestoreOk
<1>4. e \in EngineType /\ e.at = 1 /\ e.rows = {} /\ e.pos = 0 /\ e.req \in ToSet(Requests)
  BY <1>1, <1>3 DEF EngineShape, RowsOk
<1>5. e'.pc = pc /\ e'.plan = plan /\ e'.at = 1 /\ e'.rows = {} /\ e'.pos = 0 /\ e'.req = e.req
  BY <1>2, <1>4 DEF EngineType
<1>6. EndOf(plan, 1 - 1) = 0 /\ 1 .. 0 = {} /\ Len(e.req.prompt) \in Nat
  BY <1>4, RequestIs, LenProperties DEF EndOf
<1>7. RowsOk(e')
  BY <1>5, <1>6 DEF RowsOk
<1>8. RemoteOk'
  BY <1>1, <1>3, QuietSame
<1> QED
  BY <1>7, <1>8 DEF RestoreOk

LEMMA ExpireRestores == ASSUME Shapes, RestoreOk, Expire PROVE RestoreOk'
<1>1. /\ e.pc = "expire" /\ UNCHANGED <<ch, r, rq>>
      /\ e' = [e EXCEPT !.pc = IF e.plan = << >> THEN "prefill" ELSE "take", !.names = {}]
  BY DEF Expire, threads
<1>2. EngineShape(e) /\ RowsOk(e) /\ RemoteOk
  BY DEF Shapes, RestoreOk
<1>3. e \in EngineType /\ e.req \in ToSet(Requests) /\ e.rows = 1 .. EndOf(e.plan, e.at - 1) /\ e.pos = 0
  BY <1>1, <1>2 DEF EngineShape, RowsOk
<1>4. /\ e'.plan = e.plan /\ e'.at = e.at /\ e'.rows = e.rows /\ e'.pos = e.pos /\ e'.req = e.req
      /\ e'.pc = IF e.plan = << >> THEN "prefill" ELSE "take"
  BY <1>1, <1>3 DEF EngineType
<1>5. Len(e.req.prompt) \in Nat
  BY <1>3, RequestIs, LenProperties
<1>6. e.plan = << >> => e.rows = {}
  <2>1. e.at = 1 /\ EndOf(e.plan, 1 - 1) = 0 /\ 1 .. 0 = {}
    BY <1>1, <1>2 DEF EngineShape, EndOf
  <2> QED
    BY <1>3, <2>1
<1>7. RowsOk(e')
  BY <1>3, <1>4, <1>5, <1>6 DEF RowsOk
<1>8. RemoteOk'
  BY <1>1, <1>2, QuietSame
<1> QED
  BY <1>7, <1>8 DEF RestoreOk

LEMMA TakeRestores == ASSUME Shapes, RestoreOk, Take PROVE RestoreOk'
<1>1. PICK q : e' = IF q.cap = 0 THEN e ELSE [e EXCEPT !.pc = "get", !.buf = q.cap]
  BY DEF Take
<1>2. e.pc = "take" /\ UNCHANGED <<ch, r, rq>>
  BY DEF Take, threads
<1>3. EngineShape(e) /\ RowsOk(e) /\ RemoteOk /\ e \in EngineType
  BY DEF Shapes, RestoreOk, EngineShape
<1>4. /\ e'.pc \in {"take", "get"} /\ e'.plan = e.plan /\ e'.at = e.at /\ e'.rows = e.rows /\ e'.pos = e.pos
      /\ e'.req = e.req
  BY <1>1, <1>2, <1>3 DEF EngineType
<1>5. RowsOk(e')
  BY <1>2, <1>3, <1>4 DEF RowsOk
<1>6. RemoteOk'
  BY <1>2, <1>3, QuietSame
<1> QED
  BY <1>5, <1>6 DEF RestoreOk

\* The rows of an object continue those before it.
LEMMA RowsGrow ==
  ASSUME NEW plan \in Seq(Objects), NEW text \in Seq(Token), PlanOf(plan, text), NEW i \in DOMAIN plan, plan[i].kind = "rows"
  PROVE  (1 .. EndOf(plan, i - 1)) \cup Positions(plan[i]) = 1 .. EndOf(plan, i)
<1>1. PICK o \in Objects : o = plan[i] /\ o.kind = "rows" /\ o.start = EndOf(plan, i - 1)
  BY PlanAt
<1>2. PICK a \in Nat, b \in Nat : a = o.start /\ b = Len(o.text) /\ a < b
  BY <1>1, ObjectIs
<1>3. EndOf(plan, i) = b
  <2>1. i \in Nat /\ i >= 1
    BY PlanAt
  <2>2. i # 0
    BY <2>1
  <2> QED
    BY <1>1, <1>2, <2>2 DEF EndOf
<1>4. Positions(plan[i]) = a + 1 .. b
  BY <1>1, <1>2 DEF Positions
<1>5. (1 .. a) \cup (a + 1 .. b) = 1 .. b
  BY <1>2
<1> QED
  BY <1>1, <1>2, <1>3, <1>4, <1>5

LEMMA GetOkRestores == ASSUME Shapes, RestoreOk, GetOk PROVE RestoreOk'
<1>1. /\ e.pc = "get" /\ UNCHANGED <<ch, r, rq>>
      /\ e' = [Imported(e, Object) EXCEPT !.pc = IF Object.kind = "rows" THEN "take" ELSE "prefill", !.buf = 0]
  BY DEF GetOk, threads
<1>2. EngineShape(e) /\ RowsOk(e) /\ RemoteOk
  BY DEF Shapes, RestoreOk
<1>3. /\ e \in EngineType /\ e.plan \in Seq(Objects) /\ e.at \in DOMAIN e.plan /\ PlanOf(e.plan, e.req.prompt)
      /\ e.req \in ToSet(Requests) /\ e.rows = 1 .. EndOf(e.plan, e.at - 1) /\ e.pos = 0
  BY <1>1, <1>2 DEF EngineShape, EngineType, RowsOk
<1>8. e.req.prompt \in Seq(Token) /\ Len(e.req.prompt) \in Nat
  BY <1>3, RequestIs, LenProperties
<1>13. PICK plan \in Seq(Objects), text \in Seq(Token) :
         plan = e.plan /\ text = e.req.prompt /\ PlanOf(plan, text)
  BY <1>3, <1>8
<1>14. PICK i \in DOMAIN plan : i = e.at
  BY <1>3, <1>13
<1>11. plan = e.plan /\ text = e.req.prompt /\ i = e.at /\ PlanOf(plan, text)
  BY <1>13, <1>14
<1>15. e.rows = 1 .. EndOf(plan, i - 1)
  BY <1>3, <1>11
<1>16. /\ i \in Nat
       /\ plan[i].kind # "rows" => EndOf(plan, i - 1) = Len(plan[i].text) /\ Len(plan[i].text) \in 1 .. Len(text)
  BY <1>13, PlanAt
<1>4. PICK o \in Objects : o = plan[i] /\ o = Object
  BY <1>11, PlanAt DEF Object
<1>12. PICK x : x = Imported(e, o)
  OBVIOUS
<1>5. /\ x \in EngineType /\ x.plan = e.plan /\ x.req = e.req
      /\ o.kind = "rows" => x.at = i + 1 /\ x.pos = e.pos /\ x.rows = e.rows \cup Positions(o)
      /\ o.kind # "rows" => x.pos = Len(o.text) /\ x.rows = e.rows
  <2>1. o \in Objects \cup {NoObject}
    OBVIOUS
  <2>2. /\ x \in EngineType /\ x.plan = e.plan /\ x.req = e.req
        /\ o.kind = "rows" => x.at = e.at + 1 /\ x.pos = e.pos /\ x.rows = e.rows \cup Positions(o)
        /\ o.kind # "rows" => x.pos = Len(o.text) /\ x.rows = e.rows
    BY <1>3, <1>12, <2>1, ImportedIs
  <2> QED
    BY <1>11, <2>2
<1>6. PICK pc \in {"take", "prefill"} : /\ pc = "take" <=> o.kind = "rows"
                                        /\ e' = [x EXCEPT !.pc = pc, !.buf = 0]
  BY <1>1, <1>4, <1>5, <1>12
<1>7. /\ e'.pc = pc /\ e'.plan = e.plan /\ e'.at = x.at /\ e'.req = e.req /\ e'.rows = x.rows
      /\ e'.pos = x.pos
  BY <1>5, <1>6 DEF EngineType
<1>9. CASE o.kind = "rows"
  <2>1. (1 .. EndOf(plan, i - 1)) \cup Positions(o) = 1 .. EndOf(plan, i)
    BY <1>4, <1>9, <1>11, RowsGrow
  <2>2. x.at = i + 1 /\ x.pos = 0 /\ x.rows = 1 .. EndOf(plan, i)
    BY <1>3, <1>5, <1>9, <1>15, <2>1
  <2>5. x.at - 1 = i
    BY <1>16, <2>2
  <2>3. x.rows = 1 .. EndOf(e.plan, x.at - 1) /\ x.pos = 0
    BY <1>11, <2>2, <2>5
  <2>4. RowsOk(e')
    BY <1>6, <1>7, <1>9, <2>3 DEF RowsOk
  <2> QED
    BY <1>1, <1>2, <2>4, QuietSame DEF RestoreOk
<1>10. CASE o.kind # "rows"
  <2>1. EndOf(plan, i - 1) = Len(o.text) /\ Len(o.text) \in 1 .. Len(text)
    BY <1>4, <1>10, <1>16
  <2>2. x.rows = 1 .. Len(o.text) /\ Len(o.text) <= Len(e.req.prompt) /\ x.pos = Len(o.text)
    BY <1>5, <1>8, <1>10, <1>11, <1>15, <2>1
  <2>3. RowsOk(e')
    BY <1>6, <1>7, <1>10, <2>2 DEF RowsOk
  <2> QED
    BY <1>1, <1>2, <2>3, QuietSame DEF RestoreOk
<1> QED
  BY <1>9, <1>10

LEMMA GetFailsRestores == ASSUME Shapes, RestoreOk, GetFails PROVE RestoreOk'
<1>1. e.pc = "get" /\ e' = NewRestore(e.req, "prefill") /\ UNCHANGED <<ch, r, rq>>
  BY DEF GetFails, threads
<1>2. e.req \in ToSet(Requests)
  BY <1>1 DEF Shapes, EngineShape
<1>3. RowsOk(e')
  BY <1>1, <1>2, NothingRestored
<1> QED
  BY <1>1, <1>3, QuietSame DEF RestoreOk

LEMMA DisconnectedRestores == ASSUME Shapes, RestoreOk, Disconnected PROVE RestoreOk'
<1>1. e.pc = "receive" /\ ch = Closed /\ e' = NewRestore(e.req, "prefill") /\ UNCHANGED <<ch, r, rq>>
  BY DEF Disconnected, threads
<1>2. e.req \in ToSet(Requests)
  BY <1>1 DEF Shapes, EngineShape
<1>3. RowsOk(e')
  BY <1>1, <1>2, NothingRestored
<1>4. Quiet'
  <2>1. ch.open = FALSE /\ ch.msgs = << >>
    BY <1>1, ClosedIs
  <2>2. ~r.task.live /\ Wanted = {}
    BY <2>1 DEF RestoreOk, RemoteOk
  <2>3. r.task.live \in BOOLEAN
    BY DEF Shapes, ReaderShape, ReaderType, TaskType
  <2>4. Quiet
    BY <2>1, <2>2, <2>3 DEF Quiet
  <2> QED
    BY <1>1, <2>4 DEF Quiet, Wanted
<1> QED
  BY <1>3, <1>4, QuietRemote DEF RestoreOk

LEMMA CancelRestores == ASSUME Shapes, RestoreOk, Cancel PROVE RestoreOk'
<1>1. e' = Idle /\ DropReceiver
  BY DEF Cancel
<1>2. RowsOk(e')
  BY <1>1, IdleIs, NotRestoring
<1> QED
  BY <1>1, <1>2, DropReceiverQuiet, QuietRemote DEF RestoreOk

LEMMA SavesRestore ==
  ASSUME Shapes, RestoreOk, Generate \/ SaveHas \/ SaveTake \/ SaveSend PROVE RestoreOk'
<1>1. e.pc \in {"prefill", "has", "save", "send"} /\ UNCHANGED <<ch, r, rq>>
  BY DEF Generate, SaveHas, SaveTake, SaveSend, threads
<1>2. EngineShape(e) /\ e \in EngineType
  BY DEF Shapes, EngineShape
<1>3. e'.pc \in {"idle", "has", "save", "send"}
  <2>1. CASE Generate
    <3>1. PICK q : /\ q = IF mode = "serial" THEN SerialSaves(e.req, e.pos) ELSE ContinuousSaves(e.req, e.pos)
                   /\ e' = Storing(Needed(q))
      BY <2>1 DEF Generate
    <3>2. e.req \in ToSet(Requests)
      BY <2>1, <1>2 DEF Generate, EngineShape
    <3>3. q \in Seq(SaveType)
      BY <3>1, <3>2, SerialSavesIs, ContinuousSavesIs
    <3>4. PICK z : z = Needed(q) /\ SavesOk(z)
      BY <3>3, NeededIs
    <3> QED
      BY <3>1, <3>4, StoringIs
  <2>2. CASE SaveHas \/ SaveTake \/ SaveSend
    <3>1. e.pc \in {"has", "save", "send"}
      BY <2>2 DEF SaveHas, SaveTake, SaveSend
    <3>2. Kept.pc \in {"idle", "has"} /\ GivenUp.pc \in {"idle", "has"}
      BY <1>2, <3>1, JobIs
    <3>3. \/ e' = Kept \/ e' = GivenUp \/ e' = e \/ e' = [e EXCEPT !.pc = "save"]
          \/ \E n : e' = [e EXCEPT !.pc = "send", !.buf = n]
      BY <2>2 DEF SaveHas, SaveTake, SaveSend
    <3> QED
      BY <1>2, <3>1, <3>2, <3>3 DEF EngineType
  <2> QED
    BY <2>1, <2>2
<1>4. RowsOk(e')
  BY <1>3, NotRestoring
<1> QED
  BY <1>1, <1>4, QuietSame DEF RestoreOk

\* A message with an object, while the sender is alive, holds the rows before
\* the one that the reader is at.
LEMMA OpenMessage ==
  ASSUME Shapes, RemoteOk, ch.open, ch.msgs # << >>
  PROVE  /\ r.task.live /\ e.pc = "receive" /\ Wanted = {}
         /\ ch.msgs[1].cap # 0 /\ ch.msgs[1].object.kind = "rows"
         /\ e.rows \cup Positions(ch.msgs[1].object) = 1 .. EndOf(r.plan, r.at - 1)
<1>1. r.task.live /\ e.pc = "receive" /\ Wanted = {}
  BY DEF RemoteOk
<1>2. /\ r.at - 1 \in 1 .. Len(r.plan) - 1 /\ ch.msgs[1].object = r.plan[r.at - 1]
      /\ ch.msgs[1].cap # 0 /\ e.rows = 1 .. EndOf(r.plan, r.at - 2)
  BY <1>1 DEF RemoteOk
<1>3. ReaderShape(r) /\ r \in ReaderType
  BY DEF Shapes, ReaderShape
<1>4. PICK plan \in Seq(Objects), text \in Seq(Token) : plan = r.plan /\ text = r.task.text /\ PlanOf(plan, text)
  BY <1>3 DEF ReaderShape, ReaderType, TaskType
<1>5. PICK n \in Nat : n = Len(plan) /\ DOMAIN plan = 1 .. n
  BY <1>4, LenProperties
<1>6. PICK at \in Nat : at = r.at
  BY <1>3 DEF ReaderType
<1>7. PICK i \in DOMAIN plan : i = at - 1 /\ i < n
  BY <1>2, <1>4, <1>5, <1>6
<1>8. plan[i].kind = "rows" /\ i \in Nat
  BY <1>4, <1>5, <1>7, PlanAt
<1>9. (1 .. EndOf(plan, i - 1)) \cup Positions(plan[i]) = 1 .. EndOf(plan, i)
  BY <1>4, <1>8, RowsGrow
<1>10. i - 1 = r.at - 2 /\ i = r.at - 1
  BY <1>6, <1>7
<1> QED
  BY <1>1, <1>2, <1>4, <1>8, <1>9, <1>10

LEMMA ReceiveRestores == ASSUME Shapes, RestoreOk, Receive PROVE RestoreOk'
<1>1. PICK m : m = ch.msgs[1]
  OBVIOUS
<1>2. e.pc = "receive" /\ ch.msgs # << >>
  BY DEF Receive
<1>3. EngineShape(e) /\ ChannelOk /\ RemoteOk /\ e \in EngineType /\ e.req \in ToSet(Requests)
  BY <1>2 DEF Shapes, EngineShape, RestoreOk
<1>4. m.cap \in Nat /\ m.object \in Objects \cup {NoObject}
  BY <1>1, <1>2, <1>3, MessageIs
<1>5. CASE m.cap = 0
  <2>1. e' = NewRestore(e.req, "prefill") /\ DropReceiver
    BY <1>1, <1>5 DEF Receive
  <2>2. RowsOk(e')
    BY <1>3, <2>1, NothingRestored
  <2> QED
    BY <2>1, <2>2, DropReceiverQuiet, QuietRemote DEF RestoreOk
<1>6. PICK x : x = Imported(e, m.object)
  OBVIOUS
<1>7. /\ x \in EngineType /\ x.req = e.req
      /\ m.object.kind = "rows" => x.rows = e.rows \cup Positions(m.object)
      /\ m.object.kind # "rows" => x.rows = e.rows /\ x.pos = Len(m.object.text)
  BY <1>3, <1>4, <1>6, ImportedIs
<1>8. CASE m.cap # 0 /\ m.object.kind = "rows"
  <2>1. /\ e' = [x EXCEPT !.pc = "receive"] /\ ch' = [ch EXCEPT !.msgs = << >>] /\ UNCHANGED <<r, rq>>
    BY <1>1, <1>6, <1>8 DEF Receive
  <2>2. e'.pc = "receive" /\ e'.req = e.req /\ e'.rows = e.rows \cup Positions(m.object)
    BY <1>7, <1>8, <2>1 DEF EngineType
  <2>3. ch \in [msgs : Seq(MessageType), open : BOOLEAN]
    BY <1>3 DEF ChannelOk
  <2>4. ch'.msgs = << >> /\ ch'.open = ch.open
    BY <2>1, <2>3
  <2>5. ch.open
    <3>1. "rows" # "snapshot"
      OBVIOUS
    <3> QED
      BY <1>1, <1>2, <1>3, <1>8, <3>1 DEF RemoteOk
  <2>6. r.task.live /\ Wanted = {} /\ e.rows \cup Positions(m.object) = 1 .. EndOf(r.plan, r.at - 1)
    BY <1>1, <1>2, <1>3, <2>5, OpenMessage
  <2>7. Wanted' = {}
    BY <2>1, <2>6 DEF Wanted
  <2>8. r'.pc # "idle" /\ r'.task.text = e'.req.prompt /\ r'.task.live
    BY <1>3, <2>1, <2>2, <2>6 DEF RemoteOk
  <2>9. e'.rows = 1 .. EndOf(r'.plan, r'.at - 1)
    BY <2>1, <2>2, <2>6
  <2>10. RemoteOk'
    BY <2>2, <2>4, <2>5, <2>7, <2>8, <2>9 DEF RemoteOk
  <2> QED
    BY <2>2, <2>10, NotRestoring DEF RestoreOk
<1>9. CASE m.cap # 0 /\ m.object.kind # "rows"
  <2>1. e' = [x EXCEPT !.pc = "prefill"] /\ DropReceiver
    BY <1>1, <1>6, <1>9 DEF Receive
  <2>2. /\ e'.pc = "prefill" /\ e'.req = e.req /\ e'.rows = e.rows /\ e'.pos = Len(m.object.text)
    BY <1>7, <1>9, <2>1 DEF EngineType
  <2>3. ~ch.open
    BY <1>1, <1>2, <1>3, <1>9, OpenMessage
  <2>4. e.rows = 1 .. Len(m.object.text) /\ Len(m.object.text) <= Len(e.req.prompt)
    BY <1>1, <1>2, <1>3, <1>9, <2>3 DEF RemoteOk
  <2>5. RowsOk(e')
    BY <2>2, <2>4 DEF RowsOk
  <2> QED
    BY <2>1, <2>5, DropReceiverQuiet, QuietRemote DEF RestoreOk
<1> QED
  BY <1>5, <1>8, <1>9

LEMMA ReaderStays ==
  ASSUME RemoteOk, UNCHANGED <<e, ch, rq>>, r'.task = r.task, r'.plan = r.plan, r'.at = r.at, r'.pc # "idle"
  PROVE  RemoteOk'
BY DEF RemoteOk, Wanted

LEMMA ReaderGone ==
  ASSUME Shapes, RemoteOk, ~r.task.live, r' = IdleReader, UNCHANGED <<e, ch, rq>> PROVE RemoteOk'
<1>1. r'.task.live = FALSE /\ Wanted' = Wanted
  BY DEF IdleReader, NoTask, Wanted
<1> QED
  BY <1>1 DEF RemoteOk, Wanted

\* The reader ends a wanted task with at most one message, the last.
LEMMA TaskEnds ==
  ASSUME Shapes, RemoteOk, r.task.live, r' = IdleReader, UNCHANGED <<e, rq>>, ~ch'.open,
         ch'.msgs # << >> /\ ch'.msgs[1].cap # 0 =>
           /\ ch'.msgs[1].object.kind = "snapshot"
           /\ e.rows = 1 .. Len(ch'.msgs[1].object.text) /\ Len(ch'.msgs[1].object.text) <= Len(e.req.prompt)
  PROVE  RemoteOk'
<1>1. r'.task.live = FALSE /\ Wanted' = Wanted
  BY DEF IdleReader, NoTask, Wanted
<1>2. Wanted = {} /\ e.pc = "receive"
  BY DEF RemoteOk
<1> QED
  BY <1>1, <1>2 DEF RemoteOk

LEMMA ReadLookupRestores == ASSUME Shapes, RemoteOk, ReadLookup PROVE RemoteOk'
<1>1. r.pc = "idle" /\ rq # << >> /\ rq' = Tail(rq) /\ e' = e
  BY DEF ReadLookup
<1>2. ~r.task.live
  BY <1>1 DEF RemoteOk
<1>3. PICK q \in Seq(TaskType) : q = rq
  BY DEF Shapes, TasksOk
<1>4. PICK n \in Nat : n = Len(q) /\ DOMAIN q = 1 .. n /\ n >= 1
  BY <1>1, <1>3, TailIs, LenProperties
<1>5. PICK z : z = Tail(q)
  OBVIOUS
<1>6. DOMAIN z = 1 .. n - 1 /\ \A i \in 1 .. n - 1 : z[i] = q[i + 1]
  BY <1>1, <1>3, <1>4, <1>5, TailIs
<1>16. q[1] \in TaskType
  BY <1>1, <1>3, TailIs
<1>7. PICK task \in TaskType, text \in Seq(Token) : task = q[1] /\ text = task.text
  BY <1>16 DEF TaskType
<1>8. PICK plan, gone : plan = Looked(text).plan /\ gone = Looked(text).gone
  OBVIOUS
<1>9. plan \in Seq(Objects) /\ gone \in SUBSET AllNames
  BY <1>1, <1>3, <1>7, <1>8, LookedUpIs DEF ReadLookup, Shapes
<1>10. PICK t : t = [IdleReader EXCEPT !.task = task, !.plan = plan, !.names = gone]
  OBVIOUS
<1>11. t \in ReaderType /\ t.task = task /\ t.plan = plan /\ t.at = 1
  <2>1. IdleReader \in ReaderType /\ IdleReader.at = 1
    BY IdleIs DEF IdleReader
  <2> QED
    BY <1>9, <1>10, <2>1 DEF ReaderType
<1>12. \/ \E pc \in {"expire", "take"} : r' = [t EXCEPT !.pc = pc] /\ UNCHANGED ch
       \/ ReadEnds(task.live)
  BY <1>3, <1>7, <1>8, <1>10 DEF ReadLookup
<1>13. ChannelOk /\ task.live \in BOOLEAN
  BY <1>7 DEF Shapes, TaskType
<1>14. CASE task.live
  <2>1. 1 \in Wanted
    BY <1>3, <1>4, <1>7, <1>14 DEF Wanted
  <2>2. /\ ch.open /\ ch.msgs = << >> /\ e.rows = {} /\ e.pc = "receive" /\ task.text = e.req.prompt
        /\ \A i \in Wanted : i = 1
    BY <1>3, <1>7, <2>1 DEF RemoteOk
  <2>3. Wanted' = {}
    <3>1. ASSUME NEW i \in 1 .. n - 1, z[i].live PROVE FALSE
      <4>1. q[i + 1].live /\ i + 1 \in 1 .. n /\ i + 1 # 1
        BY <1>4, <1>6, <3>1
      <4>2. i + 1 \in Wanted
        BY <1>3, <1>4, <4>1 DEF Wanted
      <4> QED
        BY <2>2, <4>1, <4>2
    <3> QED
      BY <1>1, <1>3, <1>5, <1>6, <3>1 DEF Wanted
  <2>4. CASE ReadEnds(task.live)
    <3>1. r' = IdleReader /\ ch'.msgs = << >> /\ ch'.open = FALSE
      BY <1>13, <1>14, <2>2, <2>4, ReadEndsIs
    <3>2. r'.task.live = FALSE
      BY <3>1 DEF IdleReader, NoTask
    <3> QED
      BY <2>3, <3>1, <3>2, QuietRemote DEF Quiet
  <2>5. ASSUME NEW pc \in {"expire", "take"}, r' = [t EXCEPT !.pc = pc], UNCHANGED ch PROVE RemoteOk'
    <3>1. r'.pc = pc /\ r'.task = task /\ r'.at = 1
      BY <1>11, <2>5 DEF ReaderType
    <3>2. EndOf(r'.plan, 1 - 1) = 0 /\ 1 .. 0 = {}
      BY DEF EndOf
    <3>3. e'.rows = 1 .. EndOf(r'.plan, r'.at - 1) /\ pc # "idle"
      BY <1>1, <2>2, <3>1, <3>2
    <3> QED
      BY <1>1, <1>14, <2>2, <2>3, <2>5, <3>1, <3>3 DEF RemoteOk
  <2> QED
    BY <1>12, <2>4, <2>5
<1>15. CASE ~task.live
  <2>1. ch' = ch /\ ~r'.task.live
    <3>1. CASE ReadEnds(task.live)
      BY <1>15, <3>1 DEF ReadEnds, IdleReader, NoTask
    <3>2. ASSUME NEW pc \in {"expire", "take"}, r' = [t EXCEPT !.pc = pc], UNCHANGED ch
          PROVE  ch' = ch /\ r'.task = task
      BY <1>11, <3>2 DEF ReaderType
    <3> QED
      BY <1>12, <1>15, <3>1, <3>2
  <2>2. \A i \in Wanted' : i + 1 \in Wanted /\ rq'[i] = rq[i + 1] /\ i \in Nat
    BY <1>1, <1>3, <1>4, <1>5, <1>6 DEF Wanted
  <2>3. \A i \in Wanted : i - 1 \in Wanted'
    <3>1. ASSUME NEW i \in 1 .. n, q[i].live PROVE i - 1 \in 1 .. n - 1 /\ z[i - 1].live
      <4>1. i # 1
        BY <1>7, <1>15, <3>1
      <4>2. i - 1 \in 1 .. n - 1 /\ (i - 1) + 1 = i
        BY <4>1
      <4> QED
        BY <1>6, <3>1, <4>2
    <3> QED
      BY <1>1, <1>3, <1>4, <1>5, <1>6, <3>1 DEF Wanted
  <2>4. Wanted' # {} <=> Wanted # {}
    BY <2>2, <2>3
  <2>5. \A i, k \in Wanted' : i = k
    <3>1. ASSUME NEW i \in Wanted', NEW k \in Wanted' PROVE i = k
      <4>1. i + 1 \in Wanted /\ k + 1 \in Wanted /\ i \in Nat /\ k \in Nat
        BY <2>2
      <4>2. i + 1 = k + 1
        BY <4>1 DEF RemoteOk
      <4> QED
        BY <4>1, <4>2
    <3> QED
      BY <3>1
  <2>6. \A i \in Wanted' : rq'[i].text = e.req.prompt
    BY <2>2 DEF RemoteOk
  <2> QED
    BY <1>1, <1>2, <2>1, <2>4, <2>5, <2>6 DEF RemoteOk
<1> QED
  BY <1>14, <1>15

LEMMA ReadExpireRestores == ASSUME Shapes, RemoteOk, ReadExpire PROVE RemoteOk'
<1>1. /\ r.pc = "expire" /\ UNCHANGED <<e, rq>>
      /\ \/ r.plan = << >> /\ ReadEnds(r.task.live)
         \/ r' = [r EXCEPT !.pc = "take", !.names = {}] /\ UNCHANGED ch
  BY DEF ReadExpire
<1>2. r \in ReaderType /\ ChannelOk
  BY DEF Shapes, ReaderShape
<1>3. CASE r' = [r EXCEPT !.pc = "take", !.names = {}] /\ UNCHANGED ch
  <2>1. r'.pc = "take" /\ r'.task = r.task /\ r'.plan = r.plan /\ r'.at = r.at
    BY <1>2, <1>3 DEF ReaderType
  <2> QED
    BY <1>1, <1>3, <2>1, ReaderStays
<1>4. CASE r.plan = << >> /\ ReadEnds(r.task.live)
  <2>1. r' = IdleReader
    BY <1>4 DEF ReadEnds
  <2>2. CASE r.task.live
    <3>1. Len(r.plan) = 0 /\ 1 .. 0 - 1 = {}
      BY <1>4
    <3>2. ch.msgs = << >>
      BY <2>2, <3>1 DEF RemoteOk
    <3>3. ch'.msgs = << >> /\ ch'.open = FALSE
      BY <1>2, <1>4, <2>2, <3>2, ReadEndsIs
    <3> QED
      BY <1>1, <2>1, <2>2, <3>3, TaskEnds
  <2>3. CASE ~r.task.live
    <3>1. ch' = ch
      BY <1>4, <2>3 DEF ReadEnds
    <3> QED
      BY <1>1, <2>1, <2>3, <3>1, ReaderGone
  <2> QED
    BY <2>2, <2>3
<1> QED
  BY <1>1, <1>3, <1>4

LEMMA ReadingRestores ==
  ASSUME Shapes, RemoteOk, ReadTake \/ ReadGet \/ ReadTouch \/ ReadForget \/ ReadDelete PROVE RemoteOk'
<1>1. UNCHANGED <<e, ch, rq>>
  BY DEF ReadTake, ReadGet, ReadTouch, ReadForget, ReadDelete
<1>2. r \in ReaderType
  BY DEF Shapes, ReaderShape
<1>3. PICK pc \in {"get", "touch", "send", "forget", "delete", "error"} :
        \/ \E n : r' = [r EXCEPT !.pc = pc, !.buf = n] \/ r' = [r EXCEPT !.pc = pc, !.names = n]
        \/ r' = [r EXCEPT !.pc = pc]
  <2>1. CASE ReadTake
    <3>1. \/ r' = [r EXCEPT !.pc = "error"]
          \/ \E cap : r' = [r EXCEPT !.pc = IF cap > 0 THEN "get" ELSE "error", !.buf = cap]
      BY <2>1 DEF ReadTake
    <3>2. ASSUME NEW cap PROVE (IF cap > 0 THEN "get" ELSE "error") \in {"get", "error"}
      OBVIOUS
    <3> QED
      BY <3>1, <3>2
  <2>2. CASE ReadGet \/ ReadTouch \/ ReadForget \/ ReadDelete
    BY <2>2 DEF ReadGet, ReadTouch, ReadForget, ReadDelete
  <2> QED
    BY <2>1, <2>2
<1>4. r'.pc # "idle" /\ r'.task = r.task /\ r'.plan = r.plan /\ r'.at = r.at
  BY <1>2, <1>3 DEF ReaderType
<1> QED
  BY <1>1, <1>4, ReaderStays

LEMMA ReadSendRestores == ASSUME Shapes, RemoteOk, ReadSend PROVE RemoteOk'
<1>1. r.pc = "send" /\ UNCHANGED <<e, rq>>
  BY DEF ReadSend
<1>2. ReaderShape(r) /\ r \in ReaderType /\ r.buf # 0
  BY <1>1 DEF Shapes, ReaderShape
<1>3. CASE ~r.task.live
  BY <1>1, <1>3, ReaderGone DEF ReadSend
<1>4. CASE r.task.live
  <2>1. PICK plan \in Seq(Objects), text \in Seq(Token) : plan = r.plan /\ text = r.task.text /\ PlanOf(plan, text)
    BY <1>2 DEF ReaderShape, ReaderType, TaskType
  <2>2. PICK i \in DOMAIN plan : i = r.at
    BY <1>1, <1>2, <2>1, ReadingIs
  <2>3. PICK n \in Nat : n = Len(plan) /\ DOMAIN plan = 1 .. n
    BY <2>1, LenProperties
  <2>4. PICK o \in Objects : o = plan[i]
    BY <2>1, PlanAt
  <2>5. PICK m : m = [object |-> o, cap |-> r.buf]
    OBVIOUS
  <2>6. /\ ch.msgs = << >> /\ ch' = [msgs |-> << m >>, open |-> i < n]
        /\ r' = IF i < n THEN [r EXCEPT !.pc = "take", !.at = @ + 1, !.buf = 0] ELSE IdleReader
    BY <1>4, <2>1, <2>2, <2>3, <2>4, <2>5 DEF ReadSend
  <2>7. /\ ch'.msgs[1].object = o /\ ch'.msgs[1].cap # 0 /\ ch'.msgs # << >>
        /\ ch'.open <=> i < n
    <3>1. << m >>[1] = m /\ << m >> # << >> /\ m.object = o /\ m.cap # 0
      BY <1>2, <2>5
    <3> QED
      BY <2>6, <3>1
  <2>8. /\ Wanted = {} /\ e.pc = "receive" /\ text = e.req.prompt /\ e.rows = 1 .. EndOf(plan, i - 1)
    BY <1>4, <2>1, <2>2, <2>6 DEF RemoteOk
  <2>9. Wanted' = {}
    BY <1>1, <2>8 DEF Wanted
  <2>10. CASE i < n
    <3>1. /\ r'.pc = "take" /\ r'.task = r.task /\ r'.plan = plan /\ r'.at = i + 1
      BY <1>2, <2>1, <2>2, <2>6, <2>10 DEF ReaderType
    <3>2. i \in Nat /\ i >= 1 /\ n = Len(plan)
      BY <2>3
    <3>3. /\ r'.at - 1 \in 1 .. Len(r'.plan) - 1 /\ ch'.msgs[1].object = r'.plan[r'.at - 1]
          /\ e'.rows = 1 .. EndOf(r'.plan, r'.at - 2)
      <4>1. r'.at - 1 = i /\ r'.at - 2 = i - 1 /\ i \in 1 .. n - 1
        BY <2>10, <3>1, <3>2
      <4> QED
        BY <1>1, <2>4, <2>7, <2>8, <3>1, <3>2, <4>1
    <3>4. ch'.open /\ r'.task.live /\ r'.task.text = e'.req.prompt /\ e'.pc = "receive" /\ r'.pc # "idle"
      BY <1>1, <1>4, <2>1, <2>7, <2>8, <2>10, <3>1
    <3> QED
      BY <2>7, <2>9, <3>3, <3>4 DEF RemoteOk
  <2>11. CASE ~(i < n)
    <3>1. i = n /\ i \in Nat /\ i >= 1
      BY <2>3, <2>11
    <3>2. plan # << >> /\ i # 0
      BY <2>3, <3>1
    <3>3. /\ o.kind = "snapshot" /\ EndOf(plan, i - 1) = Len(o.text) /\ Len(o.text) \in 1 .. Len(text)
      BY <2>1, <2>3, <2>4, <3>1, <3>2 DEF PlanOf, EndOf
    <3>4. Len(text) \in Nat
      BY <2>1, LenProperties
    <3>5. e.rows = 1 .. Len(o.text) /\ Len(o.text) <= Len(e.req.prompt)
      BY <2>8, <3>3, <3>4
    <3>6. r' = IdleReader /\ ~ch'.open
      BY <2>6, <2>7, <2>11
    <3> QED
      BY <1>1, <1>4, <2>7, <3>3, <3>5, <3>6, TaskEnds
  <2> QED
    BY <2>10, <2>11
<1> QED
  BY <1>3, <1>4

LEMMA ReadErrorRestores == ASSUME Shapes, RemoteOk, ReadError PROVE RemoteOk'
<1>1. /\ r' = IdleReader /\ UNCHANGED <<e, rq>>
      /\ ch' = IF r.task.live THEN [msgs |-> << [object |-> NoObject, cap |-> 0] >>, open |-> FALSE] ELSE ch
  BY DEF ReadError
<1>2. CASE ~r.task.live
  BY <1>1, <1>2, ReaderGone
<1>3. CASE r.task.live
  <2>1. ch'.open = FALSE /\ ch'.msgs[1].cap = 0
    BY <1>1, <1>3
  <2> QED
    BY <1>1, <1>3, <2>1, TaskEnds
<1> QED
  BY <1>2, <1>3

LEMMA StartRestores == ASSUME NEW q, Start(q) PROVE RestoreOk'
<1>1. e' = Idle /\ ch' = Closed /\ r' = IdleReader /\ rq' = << >>
  BY DEF Start
<1>2. Quiet'
  <2>1. Wanted' = {}
    BY <1>1 DEF Wanted
  <2> QED
    BY <1>1, <2>1 DEF Quiet, Closed, IdleReader, NoTask
<1>3. RowsOk(e')
  BY <1>1, IdleIs, NotRestoring
<1> QED
  BY <1>2, <1>3, QuietRemote DEF RestoreOk

LEMMA InitRestores == ASSUME Init PROVE RestoreOk
<1>1. e = Idle /\ ch = Closed /\ r = IdleReader /\ rq = << >>
  BY DEF Init
<1>2. ch.open = FALSE /\ ch.msgs = << >> /\ r.task.live = FALSE /\ Wanted = {}
  BY <1>1 DEF Closed, IdleReader, NoTask, Wanted
<1>3. RowsOk(e)
  BY <1>1, IdleIs, NotRestoring
<1> QED
  BY <1>2, <1>3 DEF RestoreOk, RemoteOk

LEMMA NextRestores == ASSUME Shapes, RestoreOk, [Next]_vars PROVE RestoreOk'
<1>1. CASE Engine
  BY <1>1, LookupRestores, ExpireRestores, TakeRestores, GetOkRestores, GetFailsRestores, ReceiveRestores,
     DisconnectedRestores, SavesRestore DEF Engine
<1>2. CASE Reader
  <2>1. e' = e
    BY <1>2 DEF Reader, ReadLookup, ReadExpire, ReadTake, ReadGet, ReadTouch, ReadSend, ReadForget, ReadDelete,
       ReadError
  <2>2. RemoteOk'
    BY <1>2, ReadLookupRestores, ReadExpireRestores, ReadingRestores, ReadSendRestores, ReadErrorRestores
       DEF Reader, RestoreOk
  <2> QED
    BY <2>1, <2>2 DEF RestoreOk
<1>3. CASE Writer \/ Age \/ UNCHANGED vars
  <2>1. UNCHANGED <<e, ch, r, rq>>
    BY <1>3 DEF Writer, WritePut, WriteRename, WriteInsert, WriteDelete, WriteFlush, Age, threads, vars
  <2> QED
    BY <2>1, RemoteSame DEF RestoreOk
<1>4. CASE Ask \/ Cancel \/ Crash \/ Restart
  BY <1>4, AskRestores, CancelRestores, StartRestores DEF Crash, Restart
<1> QED
  BY <1>1, <1>2, <1>3, <1>4 DEF Next

\* When prefill starts, the restored state is that of a prefix of the prompt,
\* whatever was evicted, expired, unreadable or cancelled meanwhile
\* (prefix_cache.rs: restore, restore_async; continuous.rs: restore_failed).
THEOREM RestoresPrefix == Spec => []RestoreSound
<1>1. Init => Shapes /\ RestoreOk
  BY InitShapes, InitRestores
<1>2. (Shapes /\ RestoreOk) /\ [Next]_vars => (Shapes /\ RestoreOk)'
  BY NextShapes, NextRestores
<1>3. Shapes /\ RestoreOk => RestoreSound
  BY DEF RestoreOk, RowsOk, RestoreSound
<1> QED
  BY <1>1, <1>2, <1>3, PTL DEF Spec

-----------------------------------------------------------------------------
(***************************************************************************)
(* Staging: what is out of the free buffers is leased.                      *)
(***************************************************************************)
Caps(q) == [i \in DOMAIN q |-> q[i].cap]
Held(q) == Total(Caps(q))

\* Every page that is not in a free buffer is held once.
Balanced == Out(st) = e.buf + r.buf + w.job.cap + Held(wq) + Held(ch.msgs)

LEMMA CapsIs ==
  ASSUME NEW S, \A x \in S : x.cap \in Nat, NEW q \in Seq(S)
  PROVE  /\ Caps(q) \in Seq(Nat) /\ Caps(q) \in Seq(Int) /\ Len(Caps(q)) = Len(q)
         /\ \A i \in DOMAIN q : Caps(q)[i] = q[i].cap
<1>1. PICK n \in Nat : n = Len(q) /\ DOMAIN q = 1 .. n
  BY LenProperties
<1>2. \A i \in 1 .. n : q[i] \in S
  BY <1>1
<1>3. PICK c : c = [i \in 1 .. n |-> q[i].cap]
  OBVIOUS
<1>4. c \in Seq(Nat) /\ c \in Seq(Int) /\ Len(c) = n
  BY <1>2, <1>3
<1>5. Caps(q) = c
  BY <1>1, <1>3 DEF Caps
<1> QED
  BY <1>1, <1>3, <1>4, <1>5

LEMMA HeldNat ==
  ASSUME NEW S, \A x \in S : x.cap \in Nat, NEW q \in Seq(S) PROVE Held(q) \in Nat
BY CapsIs, TotalNat DEF Held

LEMMA HeldEmpty == Held(<< >>) = 0
<1>1. Caps(<< >>) = << >>
  BY DEF Caps
<1> QED
  BY <1>1, TotalEmpty DEF Held

LEMMA HeldAppend ==
  ASSUME NEW S, \A x \in S : x.cap \in Nat, NEW q \in Seq(S), NEW x \in S
  PROVE  Held(Append(q, x)) = Held(q) + x.cap
<1>1. PICK z : z = Append(q, x)
  OBVIOUS
<1>2. PICK n \in Nat : n = Len(q) /\ DOMAIN q = 1 .. n
  BY LenProperties
<1>3. /\ z \in Seq(S) /\ Len(z) = n + 1 /\ DOMAIN z = (1 .. n) \cup {n + 1}
      /\ z[n + 1] = x /\ \A i \in 1 .. n : z[i] = q[i]
  BY <1>1, <1>2, Appended
<1>4. PICK c \in Seq(Int) : c = Caps(q) /\ Len(c) = n /\ \A i \in 1 .. n : c[i] = q[i].cap
  BY <1>2, CapsIs
<1>5. PICK d \in Seq(Int) : d = Caps(z) /\ Len(d) = n + 1 /\ \A i \in DOMAIN z : d[i] = z[i].cap
  BY <1>3, CapsIs
<1>9. x.cap \in Int
  <2>1. x.cap \in Nat
    OBVIOUS
  <2> QED
    BY <2>1
<1>6. PICK k \in Int : k = x.cap
  BY <1>9
<1>7. d = Append(c, k)
  <2>1. PICK f : f = Append(c, k)
    OBVIOUS
  <2>2. f \in Seq(Int) /\ Len(f) = n + 1 /\ f[n + 1] = k /\ \A i \in 1 .. n : f[i] = c[i]
    BY <1>4, <2>1, Appended
  <2>3. \A i \in 1 .. n + 1 : i \in 1 .. n \/ i = n + 1
    OBVIOUS
  <2>6. \A i \in 1 .. n : d[i] = f[i]
    <3>1. ASSUME NEW i \in 1 .. n PROVE d[i] = f[i]
      <4>1. d[i] = z[i].cap /\ z[i] = q[i]
        BY <1>3, <1>5
      <4>2. f[i] = q[i].cap
        BY <1>4, <2>2
      <4> QED
        BY <4>1, <4>2
    <3> QED
      BY <3>1
  <2>7. d[n + 1] = f[n + 1]
    <3>1. d[n + 1] = z[n + 1].cap
      BY <1>3, <1>5
    <3> QED
      BY <1>3, <1>6, <2>2, <3>1
  <2>4. \A i \in 1 .. n + 1 : d[i] = f[i]
    BY <2>3, <2>6, <2>7
  <2>5. d = f
    BY <1>5, <2>2, <2>4
  <2> QED
    BY <2>1, <2>5
<1>8. Total(d) = Total(c) + k
  BY <1>7, TotalAppend
<1> QED
  BY <1>1, <1>4, <1>5, <1>6, <1>8 DEF Held

LEMMA HeldTail ==
  ASSUME NEW S, \A x \in S : x.cap \in Nat, NEW q \in Seq(S), q # << >>
  PROVE  Held(q) = q[1].cap + Held(Tail(q))
<1>1. PICK z : z = Tail(q)
  OBVIOUS
<1>2. PICK n \in Nat : n = Len(q) /\ DOMAIN q = 1 .. n
  BY LenProperties
<1>3. /\ z \in Seq(S) /\ Len(z) = n - 1 /\ DOMAIN z = 1 .. n - 1 /\ n >= 1 /\ 1 \in DOMAIN q
      /\ \A i \in DOMAIN z : z[i] = q[i + 1] /\ i + 1 \in DOMAIN q
  BY <1>1, <1>2, TailIs
<1>4. PICK c \in Seq(Int) : c = Caps(q) /\ Len(c) = n /\ \A i \in DOMAIN q : c[i] = q[i].cap
  BY <1>2, CapsIs
<1>5. PICK d \in Seq(Int) : d = Caps(z) /\ Len(d) = n - 1 /\ \A i \in DOMAIN z : d[i] = z[i].cap
  BY <1>3, CapsIs
<1>6. c # << >>
  BY <1>3, <1>4
<1>7. d = Tail(c)
  <2>1. PICK f : f = Tail(c)
    OBVIOUS
  <2>2. f \in Seq(Int) /\ Len(f) = n - 1 /\ \A i \in 1 .. n - 1 : f[i] = c[i + 1]
    BY <1>4, <1>6, <2>1, TailIs
  <2>3. \A i \in 1 .. n - 1 : d[i] = f[i]
    <3>1. ASSUME NEW i \in 1 .. n - 1 PROVE d[i] = f[i]
      <4>1. d[i] = z[i].cap /\ z[i] = q[i + 1] /\ i + 1 \in DOMAIN q
        BY <1>3, <1>5
      <4>2. f[i] = c[i + 1]
        BY <2>2
      <4>3. c[i + 1] = q[i + 1].cap
        BY <1>4, <4>1
      <4> QED
        BY <4>1, <4>2, <4>3
    <3> QED
      BY <3>1
  <2>4. d = f
    BY <1>3, <1>5, <2>2, <2>3
  <2> QED
    BY <2>1, <2>4
<1>8. Total(c) = c[1] + Total(d)
  BY <1>6, <1>7, TotalTail
<1> QED
  BY <1>1, <1>3, <1>4, <1>5, <1>8 DEF Held

LEMMA HeldOne ==
  ASSUME NEW m \in MessageType PROVE Held(<< m >>) = m.cap
<1>1. \A x \in MessageType : x.cap \in Nat
  BY DEF MessageType
<1>2. << >> \in Seq(MessageType)
  OBVIOUS
<1>3. Held(Append(<< >>, m)) = Held(<< >>) + m.cap
  BY <1>1, <1>2, HeldAppend
<1>4. Append(<< >>, m) = << m >> /\ m.cap \in Nat
  BY <1>1
<1> QED
  BY <1>3, <1>4, HeldEmpty

\* The numbers that are balanced.
LEMMA Numbers ==
  ASSUME Shapes
  PROVE  /\ Out(st) \in Int /\ e.buf \in Nat /\ r.buf \in Nat /\ w.job.cap \in Nat
         /\ Held(wq) \in Nat /\ Held(ch.msgs) \in Nat
         /\ ch.msgs # << >> => Held(ch.msgs) = ch.msgs[1].cap
<1>1. Out(st) \in Int
  <2>1. st.alloc \in Int /\ st.free \in Seq(Nat)
    BY DEF Shapes, StagingOk, StagingType
  <2> QED
    BY <2>1, TotalNat DEF Out
<1>2. e.buf \in Nat /\ r.buf \in Nat
  BY DEF Shapes, EngineShape, EngineType, ReaderShape, ReaderType
<1>3. w.job.cap \in Nat
  BY DEF Shapes, WriterOk, WriteType, NoJob
<1>4. Held(wq) \in Nat
  <2>1. \A x \in WriteType : x.cap \in Nat
    BY DEF WriteType
  <2> QED
    BY <2>1, HeldNat DEF Shapes, WritesOk
<1>5. Held(ch.msgs) \in Nat
  <2>1. \A x \in MessageType : x.cap \in Nat
    BY DEF MessageType
  <2>2. ch.msgs \in Seq(MessageType)
    BY DEF Shapes, ChannelOk
  <2> QED
    BY <2>1, <2>2, HeldNat
<1>6. ch.msgs # << >> => Held(ch.msgs) = ch.msgs[1].cap
  <2>1. ChannelOk
    BY DEF Shapes
  <2> QED
    BY <2>1, MessageIs, HeldOne
<1> QED
  BY <1>1, <1>2, <1>3, <1>4, <1>5, <1>6

\* A step that moves nothing.
LEMMA NothingMoved ==
  ASSUME Balanced, st' = st, wq' = wq, ch'.msgs = ch.msgs, e'.buf = e.buf, r'.buf = r.buf, w'.job.cap = w.job.cap
  PROVE  Balanced'
BY DEF Balanced

LEMMA EngineRestBalances ==
  ASSUME Shapes, RestoreOk, Balanced, Ask \/ Lookup \/ Expire \/ Disconnected \/ Generate \/ SaveHas
  PROVE  Balanced'
<1>1. st' = st /\ wq' = wq /\ r' = r /\ w' = w
  BY DEF Ask, Lookup, Expire, Disconnected, Generate, SaveHas, threads
<1>2. EngineShape(e) /\ e \in EngineType
  BY DEF Shapes, EngineShape
<1>3. ch'.msgs = ch.msgs
  <2>1. CASE Ask
    <3>1. ch.msgs = << >>
      BY <2>1, QuietNow DEF Ask, RestoreOk, Quiet
    <3>2. ch' = Closed \/ ch' = [Closed EXCEPT !.open = TRUE]
      BY <2>1 DEF Ask
    <3>3. ch'.msgs = << >>
      BY <3>2 DEF Closed
    <3> QED
      BY <3>1, <3>3
  <2>2. CASE Lookup \/ Expire \/ Disconnected \/ Generate \/ SaveHas
    BY <2>2 DEF Lookup, Expire, Disconnected, Generate, SaveHas
  <2> QED
    BY <2>1, <2>2
<1>4. e.buf = 0
  BY <1>2 DEF Ask, Lookup, Expire, Disconnected, Generate, SaveHas, EngineShape
<1>5. e'.buf = 0
  <2>1. CASE Ask
    BY <2>1 DEF Ask, NewRestore, Idle
  <2>2. CASE Lookup
    <3>1. PICK pc, plan, gone : e' = [e EXCEPT !.pc = pc, !.plan = plan, !.names = gone]
      BY <2>2 DEF Lookup
    <3> QED
      BY <1>2, <1>4, <3>1 DEF EngineType
  <2>3. CASE Expire
    <3>1. PICK pc : e' = [e EXCEPT !.pc = pc, !.names = {}]
      BY <2>3 DEF Expire
    <3> QED
      BY <1>2, <1>4, <3>1 DEF EngineType
  <2>4. CASE Disconnected
    BY <2>4 DEF Disconnected, NewRestore, Idle
  <2>5. CASE Generate
    BY <2>5 DEF Generate, Storing, Saving, Idle
  <2>6. CASE SaveHas
    <3>1. e' = Kept \/ e' = GivenUp \/ e' = [e EXCEPT !.pc = "save"]
      BY <2>6 DEF SaveHas
    <3>2. Kept.buf = 0 /\ GivenUp.buf = 0
      BY <1>2, <2>6, JobIs DEF SaveHas
    <3> QED
      BY <1>2, <1>4, <3>1, <3>2 DEF EngineType
  <2> QED
    BY <2>1, <2>2, <2>3, <2>4, <2>5, <2>6
<1> QED
  BY <1>1, <1>3, <1>4, <1>5, NothingMoved

LEMMA TakeBalances == ASSUME Shapes, Balanced, Take PROVE Balanced'
<1>1. PICK q : /\ q = Taken(st, Bytes(e.plan[e.at])) /\ st' = q.st
               /\ e' = IF q.cap = 0 THEN e ELSE [e EXCEPT !.pc = "get", !.buf = q.cap]
  BY DEF Take
<1>2. e.pc = "take" /\ UNCHANGED <<ch, r, w, wq>>
  BY DEF Take, threads
<1>3. EngineShape(e) /\ StagingOk /\ e \in EngineType /\ e.buf = 0
  BY <1>2 DEF Shapes, EngineShape
<1>4. PICK o \in Objects : o = e.plan[e.at]
  <2>1. e.plan \in Seq(Objects) /\ e.at \in DOMAIN e.plan
    BY <1>2, <1>3 DEF EngineShape, EngineType
  <2> QED
    BY <2>1, LenProperties
<1>5. q.cap \in Nat /\ Out(st') = Out(st) + q.cap
  BY <1>1, <1>3, <1>4, TakenFor
<1>6. e'.buf = q.cap
  BY <1>1, <1>3, <1>5 DEF EngineType
<1>7. PICK n \in Nat : e'.buf = n /\ Out(st') = Out(st) + n
  BY <1>5, <1>6
<1>8. r'.buf = r.buf /\ w'.job.cap = w.job.cap /\ wq' = wq /\ ch'.msgs = ch.msgs
  BY <1>2
<1> QED
  BY <1>3, <1>7, <1>8, Numbers DEF Balanced

LEMMA GetBalances == ASSUME Shapes, Balanced, GetOk \/ GetFails PROVE Balanced'
<1>1. e.pc = "get" /\ st' = Given(st, e.buf) /\ UNCHANGED <<ch, r, w, wq>>
  BY DEF GetOk, GetFails, threads
<1>2. EngineShape(e) /\ StagingOk /\ e \in EngineType /\ e.buf \in Nat
  BY DEF Shapes, EngineShape, EngineType
<1>3. Out(st') = Out(st) - e.buf
  BY <1>1, <1>2, GivenFor
<1>4. e'.buf = 0
  <2>1. CASE GetFails
    BY <2>1 DEF GetFails, NewRestore, Idle
  <2>2. CASE GetOk
    <3>1. PICK o \in Objects : o = Object
      <4>1. e.plan \in Seq(Objects) /\ e.at \in DOMAIN e.plan
        BY <1>1, <1>2 DEF EngineShape, EngineType
      <4> QED
        BY <4>1, LenProperties DEF Object
    <3>2. PICK x \in EngineType : x = Imported(e, o)
      <4>1. o \in Objects \cup {NoObject}
        OBVIOUS
      <4> QED
        BY <1>2, <4>1, ImportedIs
    <3>3. PICK pc : e' = [x EXCEPT !.pc = pc, !.buf = 0]
      BY <2>2, <3>1, <3>2 DEF GetOk
    <3> QED
      BY <3>2, <3>3 DEF EngineType
  <2> QED
    BY <2>1, <2>2
<1> QED
  BY <1>1, <1>2, <1>3, <1>4, Numbers DEF Balanced

LEMMA DropBalances ==
  ASSUME Shapes, Balanced, DropReceiver, e.buf = 0, e'.buf = 0, UNCHANGED <<w, wq>> PROVE Balanced'
<1>1. /\ Out(st') = Out(st) - (IF ch.msgs = << >> THEN 0 ELSE ch.msgs[1].cap)
      /\ r'.buf = r.buf /\ ch' = Closed
  BY DropReceiverIs
<1>2. Held(ch'.msgs) = 0
  BY <1>1, ClosedIs, HeldEmpty
<1>3. Held(ch.msgs) = IF ch.msgs = << >> THEN 0 ELSE ch.msgs[1].cap
  BY HeldEmpty, Numbers
<1> QED
  BY <1>1, <1>2, <1>3, Numbers DEF Balanced

LEMMA ReceiveBalances == ASSUME Shapes, Balanced, Receive PROVE Balanced'
<1>1. PICK m : m = ch.msgs[1]
  OBVIOUS
<1>2. e.pc = "receive" /\ ch.msgs # << >> /\ UNCHANGED <<w, wq>>
  BY DEF Receive
<1>3. EngineShape(e) /\ ChannelOk /\ StagingOk /\ e \in EngineType /\ e.buf = 0
  BY <1>2 DEF Shapes, EngineShape
<1>4. m.cap \in Nat /\ m.object \in Objects \cup {NoObject}
  BY <1>1, <1>2, <1>3, MessageIs
<1>5. PICK x \in EngineType : x = Imported(e, m.object) /\ x.buf = 0
  BY <1>3, <1>4, ImportedIs
<1>6. \/ e' = NewRestore(e.req, "prefill") /\ DropReceiver
      \/ /\ \E pc : e' = [x EXCEPT !.pc = pc]
         /\ \/ ch' = [ch EXCEPT !.msgs = << >>] /\ st' = Given(st, m.cap) /\ UNCHANGED <<r, rq>>
            \/ DropReceiver
  BY <1>1, <1>5 DEF Receive
<1>7. e'.buf = 0
  <2>1. CASE e' = NewRestore(e.req, "prefill")
    BY <2>1 DEF NewRestore, Idle
  <2>2. CASE \E pc : e' = [x EXCEPT !.pc = pc]
    BY <1>5, <2>2 DEF EngineType
  <2> QED
    BY <1>6, <2>1, <2>2
<1>8. CASE DropReceiver
  BY <1>2, <1>3, <1>7, <1>8, DropBalances
<1>9. CASE ch' = [ch EXCEPT !.msgs = << >>] /\ st' = Given(st, m.cap) /\ UNCHANGED <<r, rq>>
  <2>1. Out(st') = Out(st) - m.cap
    BY <1>3, <1>4, <1>9, GivenFor
  <2>2. ch'.msgs = << >>
    <3>1. ch \in [msgs : Seq(MessageType), open : BOOLEAN]
      BY <1>3 DEF ChannelOk
    <3> QED
      BY <1>9, <3>1
  <2>3. Held(ch'.msgs) = 0 /\ Held(ch.msgs) = m.cap
    BY <1>1, <1>2, <2>2, HeldEmpty, Numbers
  <2> QED
    BY <1>2, <1>3, <1>4, <1>7, <1>9, <2>1, <2>3, Numbers DEF Balanced
<1> QED
  BY <1>6, <1>8, <1>9

LEMMA CancelBalances == ASSUME Shapes, Balanced, Cancel PROVE Balanced'
<1>1. e.pc \in {"receive", "prefill"} /\ e' = Idle /\ DropReceiver /\ UNCHANGED <<w, wq>>
  BY DEF Cancel
<1>2. e.buf = 0
  BY <1>1 DEF Shapes, EngineShape
<1>3. e'.buf = 0
  BY <1>1, IdleIs
<1> QED
  BY <1>1, <1>2, <1>3, DropBalances

LEMMA SaveTakeBalances == ASSUME Shapes, Balanced, SaveTake PROVE Balanced'
<1>1. PICK q : \/ /\ q = Taken(st, Bytes(Job.object)) /\ st' = q.st
                  /\ \/ q.cap > 0 /\ e' = [e EXCEPT !.pc = "send", !.buf = q.cap]
                     \/ ~(q.cap > 0) /\ (e' = e \/ e' = GivenUp)
               \/ q = Refused(st) /\ st' = st /\ e' = GivenUp
  BY DEF SaveTake
<1>2. e.pc = "save" /\ UNCHANGED <<ch, r, rq, w, wq>>
  BY DEF SaveTake, threads
<1>3. EngineShape(e) /\ StagingOk /\ e \in EngineType /\ e.buf = 0
  BY <1>2 DEF Shapes, EngineShape
<1>4. Job.object \in Objects /\ GivenUp.buf = 0
  BY <1>2, <1>3, JobIs
<1>5. q.cap \in Nat /\ Out(st') = Out(st) + q.cap
  <2>1. CASE q = Refused(st) /\ st' = st
    BY <1>3, <2>1, TotalNat DEF Refused, Out, StagingOk, StagingType
  <2> QED
    BY <1>1, <1>3, <1>4, <2>1, TakenFor
<1>6. e'.buf = q.cap
  <2>1. ~(q.cap > 0) => q.cap = 0
    BY <1>5
  <2>2. CASE q = Refused(st) /\ e' = GivenUp
    BY <1>4, <2>2 DEF Refused
  <2>3. CASE q.cap > 0 /\ e' = [e EXCEPT !.pc = "send", !.buf = q.cap]
    BY <1>3, <2>3 DEF EngineType
  <2>4. CASE ~(q.cap > 0) /\ (e' = e \/ e' = GivenUp)
    BY <1>3, <1>4, <2>1, <2>4
  <2> QED
    BY <1>1, <2>2, <2>3, <2>4
<1>7. PICK n \in Nat : e'.buf = n /\ Out(st') = Out(st) + n
  BY <1>5, <1>6
<1>8. r'.buf = r.buf /\ w'.job.cap = w.job.cap /\ wq' = wq /\ ch'.msgs = ch.msgs
  BY <1>2
<1> QED
  BY <1>3, <1>7, <1>8, Numbers DEF Balanced

LEMMA SaveSendBalances == ASSUME Shapes, Balanced, SaveSend PROVE Balanced'
<1>1. /\ e.pc = "send" /\ UNCHANGED <<ch, r, w>>
      /\ \/ /\ e' = Kept /\ st' = st
            /\ wq' = Append(wq, [object |-> Job.object, flush |-> Job.flush, cap |-> e.buf])
         \/ e' = GivenUp /\ st' = Given(st, e.buf) /\ wq' = wq
  BY DEF SaveSend
<1>2. EngineShape(e) /\ StagingOk /\ e.buf \in Nat
  BY DEF Shapes, EngineShape, EngineType
<1>3. e'.buf = 0 /\ Job.object \in Objects /\ Job.flush \in BOOLEAN
  BY <1>1, <1>2, JobIs
<1>4. CASE st' = Given(st, e.buf) /\ wq' = wq
  <2>1. Out(st') = Out(st) - e.buf
    BY <1>2, <1>4, GivenFor
  <2> QED
    BY <1>1, <1>2, <1>3, <1>4, <2>1, Numbers, SMTT(30) DEF Balanced
<1>5. CASE st' = st /\ wq' = Append(wq, [object |-> Job.object, flush |-> Job.flush, cap |-> e.buf])
  <2>1. PICK t : t = [object |-> Job.object, flush |-> Job.flush, cap |-> e.buf]
    OBVIOUS
  <2>6. t \in WriteType /\ t.cap = e.buf
    BY <1>2, <1>3, <2>1 DEF WriteType
  <2>2. \A x \in WriteType : x.cap \in Nat
    BY DEF WriteType
  <2>3. wq \in Seq(WriteType)
    BY DEF Shapes, WritesOk
  <2>4. Held(Append(wq, t)) = Held(wq) + t.cap
    BY <2>2, <2>3, <2>6, HeldAppend
  <2>5. Held(wq') = Held(wq) + e.buf
    BY <1>5, <2>1, <2>4, <2>6
  <2> QED
    BY <1>1, <1>2, <1>3, <1>5, <2>5, Numbers DEF Balanced
<1> QED
  BY <1>1, <1>4, <1>5

LEMMA WriterBalances == ASSUME Shapes, Balanced, Writer PROVE Balanced'
<1>1. UNCHANGED <<e, ch, r>>
  BY DEF Writer, WritePut, WriteRename, WriteInsert, WriteDelete, WriteFlush
<1>2. WriterOk /\ WritesOk /\ StagingOk
  BY DEF Shapes
<1>3. CASE WritePut
  <2>1. w.job.cap = 0 /\ st' = st /\ wq # << >> /\ wq' = Tail(wq)
    BY <1>2, <1>3 DEF WritePut, WriterOk, NoJob
  <2>2. w'.job = wq[1]
    <3>1. PICK pc : w' = [pc |-> pc, job |-> wq[1], names |-> {}]
      BY <1>3 DEF WritePut
    <3> QED
      BY <3>1
  <2>3. wq \in Seq(WriteType) /\ \A x \in WriteType : x.cap \in Nat
    BY <1>2 DEF WritesOk, WriteType
  <2>4. Held(wq) = wq[1].cap + Held(Tail(wq)) /\ wq[1] \in WriteType /\ Tail(wq) \in Seq(WriteType)
    BY <2>1, <2>3, HeldTail, TailIs
  <2>5. wq[1].cap \in Nat /\ Held(Tail(wq)) \in Nat
    BY <2>3, <2>4, HeldNat
  <2>6. PICK n \in Nat : w'.job.cap = n /\ Held(wq) = n + Held(wq') /\ Held(wq') \in Nat
    BY <2>1, <2>2, <2>4, <2>5
  <2> QED
    BY <1>1, <2>1, <2>6, Numbers DEF Balanced
<1>4. CASE WriteRename \/ WriteInsert \/ WriteDelete
  <2>1. w.pc # "idle" /\ st' = st /\ wq' = wq
    BY <1>4 DEF WriteRename, WriteInsert, WriteDelete
  <2>2. w \in WriterType
    BY <1>2, <2>1, AtWork
  <2>3. w'.job = w.job
    <3>1. CASE WriteRename
      BY <2>2, <3>1 DEF WriteRename, WriterType
    <3>2. CASE WriteInsert
      <4>1. PICK pc, gone : w' = [w EXCEPT !.pc = pc, !.names = gone]
        BY <3>2 DEF WriteInsert
      <4> QED
        BY <2>2, <4>1 DEF WriterType
    <3>3. CASE WriteDelete
      BY <2>2, <3>3 DEF WriteDelete, WriterType
    <3> QED
      BY <1>4, <3>1, <3>2, <3>3
  <2> QED
    BY <1>1, <2>1, <2>3, NothingMoved
<1>5. CASE WriteFlush
  <2>1. w.pc # "idle" /\ w' = IdleWriter /\ st' = Given(st, w.job.cap) /\ wq' = wq
    BY <1>5 DEF WriteFlush
  <2>2. w.job.cap \in Nat /\ w'.job.cap = 0
    BY <1>2, <2>1, AtWork, IdleWriterIs
  <2>3. Out(st') = Out(st) - w.job.cap
    BY <1>2, <2>1, <2>2, GivenFor
  <2> QED
    BY <1>1, <2>1, <2>2, <2>3, Numbers, SMTT(30) DEF Balanced
<1> QED
  BY <1>3, <1>4, <1>5 DEF Writer

LEMMA ReaderRestBalances ==
  ASSUME Shapes, Balanced, ReadLookup \/ ReadExpire \/ ReadTouch \/ ReadForget \/ ReadDelete PROVE Balanced'
<1>1. UNCHANGED <<st, e, w, wq>>
  BY DEF ReadLookup, ReadExpire, ReadTouch, ReadForget, ReadDelete
<1>2. ReaderShape(r) /\ r \in ReaderType /\ ChannelOk
  BY DEF Shapes, ReaderShape
<1>3. ASSUME NEW live, ReadEnds(live) PROVE ch'.msgs = ch.msgs /\ r'.buf = 0
  <2>1. r' = IdleReader /\ ch'.msgs = ch.msgs
    BY <1>2, <1>3, ReadEndsIs
  <2> QED
    BY <2>1 DEF IdleReader
<1>4. ch'.msgs = ch.msgs /\ r'.buf = r.buf
  <2>1. CASE ReadLookup
    <3>1. r.buf = 0
      BY <1>2, <2>1 DEF ReadLookup, ReaderShape
    <3>3. PICK task, plan, gone :
            task = rq[1] /\ plan = Looked(rq[1].text).plan /\ gone = Looked(rq[1].text).gone
      OBVIOUS
    <3>5. PICK t : t = [IdleReader EXCEPT !.task = task, !.plan = plan, !.names = gone]
      OBVIOUS
    <3>2. \/ \E pc : r' = [t EXCEPT !.pc = pc] /\ ch' = ch
          \/ ReadEnds(rq[1].live)
      BY <2>1, <3>3, <3>5 DEF ReadLookup
    <3>4. ASSUME NEW pc, r' = [t EXCEPT !.pc = pc] PROVE r'.buf = 0
      BY <3>4, <3>5 DEF IdleReader
    <3> QED
      BY <1>3, <3>1, <3>2, <3>4
  <2>2. CASE ReadExpire
    <3>1. r.buf = 0
      BY <1>2, <2>2 DEF ReadExpire, ReaderShape
    <3>2. ReadEnds(r.task.live) \/ (r' = [r EXCEPT !.pc = "take", !.names = {}] /\ ch' = ch)
      BY <2>2 DEF ReadExpire
    <3> QED
      BY <1>2, <1>3, <3>1, <3>2 DEF ReaderType
  <2>3. CASE ReadTouch \/ ReadForget \/ ReadDelete
    <3>1. PICK pc, names : /\ ch' = ch
                           /\ \/ r' = [r EXCEPT !.pc = pc, !.names = names]
                              \/ r' = [r EXCEPT !.pc = pc]
      BY <2>3 DEF ReadTouch, ReadForget, ReadDelete
    <3> QED
      BY <1>2, <3>1 DEF ReaderType
  <2> QED
    BY <2>1, <2>2, <2>3
<1> QED
  BY <1>1, <1>4, NothingMoved

LEMMA ReadTakeBalances == ASSUME Shapes, Balanced, ReadTake PROVE Balanced'
<1>1. PICK q : \/ /\ q = Taken(st, Bytes(r.plan[r.at])) /\ st' = q.st
                  /\ \E pc : r' = [r EXCEPT !.pc = pc, !.buf = q.cap]
               \/ q = Refused(st) /\ st' = st /\ r' = [r EXCEPT !.pc = "error"]
  BY DEF ReadTake
<1>2. r.pc = "take" /\ UNCHANGED <<e, ch, w, wq>>
  BY DEF ReadTake
<1>3. ReaderShape(r) /\ StagingOk /\ r \in ReaderType /\ r.buf = 0
  BY <1>2 DEF Shapes, ReaderShape
<1>4. PICK o \in Objects : o = r.plan[r.at]
  BY <1>2, <1>3, ReadingIs
<1>5. q.cap \in Nat /\ Out(st') = Out(st) + q.cap
  <2>1. CASE q = Refused(st) /\ st' = st
    BY <1>3, <2>1, TotalNat DEF Refused, Out, StagingOk, StagingType
  <2> QED
    BY <1>1, <1>3, <1>4, <2>1, TakenFor
<1>6. r'.buf = q.cap
  <2>1. CASE q = Refused(st) /\ r' = [r EXCEPT !.pc = "error"]
    <3>1. q.cap = 0
      BY <2>1 DEF Refused
    <3> QED
      BY <1>3, <2>1, <3>1 DEF ReaderType
  <2>2. CASE \E pc : r' = [r EXCEPT !.pc = pc, !.buf = q.cap]
    BY <1>3, <2>2 DEF ReaderType
  <2> QED
    BY <1>1, <2>1, <2>2
<1>7. PICK n \in Nat : r'.buf = n /\ Out(st') = Out(st) + n
  BY <1>5, <1>6
<1>8. e'.buf = e.buf /\ w'.job.cap = w.job.cap /\ wq' = wq /\ ch'.msgs = ch.msgs
  BY <1>2
<1> QED
  BY <1>3, <1>7, <1>8, Numbers, SMTT(30) DEF Balanced

LEMMA ReadGetBalances == ASSUME Shapes, Balanced, ReadGet PROVE Balanced'
<1>1. /\ UNCHANGED <<e, ch, w, wq>>
      /\ \/ r' = [r EXCEPT !.pc = "touch"] /\ st' = st
         \/ r' = [r EXCEPT !.pc = "forget", !.buf = 0] /\ st' = Given(st, r.buf)
  BY DEF ReadGet
<1>2. r \in ReaderType /\ r.buf \in Nat /\ StagingOk
  BY DEF Shapes, ReaderShape, ReaderType
<1>3. CASE r' = [r EXCEPT !.pc = "touch"] /\ st' = st
  <2>1. r'.buf = r.buf
    BY <1>2, <1>3 DEF ReaderType
  <2> QED
    BY <1>1, <1>3, <2>1, NothingMoved
<1>4. CASE r' = [r EXCEPT !.pc = "forget", !.buf = 0] /\ st' = Given(st, r.buf)
  <2>1. r'.buf = 0
    BY <1>2, <1>4 DEF ReaderType
  <2>2. Out(st') = Out(st) - r.buf
    BY <1>2, <1>4, GivenFor
  <2> QED
    BY <1>1, <1>2, <2>1, <2>2, Numbers DEF Balanced
<1> QED
  BY <1>1, <1>3, <1>4

LEMMA ReadSendBalances == ASSUME Shapes, Balanced, ReadSend PROVE Balanced'
<1>1. r.pc = "send" /\ UNCHANGED <<e, w, wq>>
  BY DEF ReadSend
<1>2. ReaderShape(r) /\ r \in ReaderType /\ r.buf \in Nat /\ StagingOk
  BY DEF Shapes, ReaderShape, ReaderType
<1>3. CASE ~r.task.live
  <2>1. r' = IdleReader /\ st' = Given(st, r.buf) /\ ch' = ch
    BY <1>3 DEF ReadSend
  <2>2. r'.buf = 0 /\ Out(st') = Out(st) - r.buf
    BY <1>2, <2>1, GivenFor DEF IdleReader
  <2> QED
    BY <1>1, <1>2, <2>1, <2>2, Numbers DEF Balanced
<1>4. CASE r.task.live
  <2>1. PICK m : m = [object |-> r.plan[r.at], cap |-> r.buf]
    OBVIOUS
  <2>2. m \in MessageType /\ m.cap = r.buf
    <3>1. r.plan[r.at] \in Objects
      BY <1>1, <1>2, ReadingIs
    <3> QED
      BY <1>2, <2>1, <3>1 DEF MessageType
  <2>3. /\ ch.msgs = << >> /\ st' = st
        /\ r' = [r EXCEPT !.pc = "take", !.at = @ + 1, !.buf = 0] \/ r' = IdleReader
    BY <1>4 DEF ReadSend
  <2>4. ch'.msgs = << m >>
    <3>1. PICK b : ch' = [msgs |-> << m >>, open |-> b]
      BY <1>4, <2>1 DEF ReadSend
    <3> QED
      BY <3>1
  <2>5. Held(ch.msgs) = 0 /\ Held(ch'.msgs) = r.buf
    BY <2>2, <2>3, <2>4, HeldEmpty, HeldOne
  <2>6. r'.buf = 0
    <3>1. CASE r' = IdleReader
      BY <3>1 DEF IdleReader
    <3>2. CASE r' = [r EXCEPT !.pc = "take", !.at = @ + 1, !.buf = 0]
      BY <1>2, <3>2 DEF ReaderType
    <3> QED
      BY <2>3, <3>1, <3>2
  <2> QED
    BY <1>1, <1>2, <2>3, <2>5, <2>6, Numbers DEF Balanced
<1> QED
  BY <1>3, <1>4

LEMMA ReadErrorBalances == ASSUME Shapes, Balanced, ReadError PROVE Balanced'
<1>1. r.pc = "error" /\ r' = IdleReader /\ UNCHANGED <<st, e, w, wq>>
  BY DEF ReadError
<1>2. r.buf = 0 /\ r'.buf = 0
  BY <1>1 DEF Shapes, ReaderShape, IdleReader
<1>3. CASE ch' = ch
  BY <1>1, <1>2, <1>3, NothingMoved
<1>4. CASE ch.msgs = << >> /\ ch' = [msgs |-> << [object |-> NoObject, cap |-> 0] >>, open |-> FALSE]
  <2>4. PICK m : m = [object |-> NoObject, cap |-> 0]
    OBVIOUS
  <2>1. m \in MessageType /\ m.cap = 0
    BY <2>4 DEF MessageType
  <2>2. ch'.msgs = << m >>
    BY <1>4, <2>4
  <2>3. Held(ch.msgs) = 0 /\ Held(ch'.msgs) = 0
    BY <1>4, <2>1, <2>2, HeldEmpty, HeldOne
  <2> QED
    BY <1>1, <1>2, <2>3, Numbers DEF Balanced
<1> QED
  BY <1>3, <1>4 DEF ReadError

LEMMA StartBalances == ASSUME Shapes, NEW q, Start(q) PROVE Balanced'
<1>1. /\ e' = Idle /\ ch' = Closed /\ r' = IdleReader /\ w' = IdleWriter /\ wq' = << >>
      /\ st' = NewStaging(mode, st.budget)
  BY DEF Start
<1>2. Out(st') = 0
  <2>1. st.budget \in Nat
    BY DEF Shapes, StagingOk, StagingType
  <2> QED
    BY <1>1, <2>1, NewStagingOut
<1>3. e'.buf = 0 /\ r'.buf = 0 /\ w'.job.cap = 0 /\ ch'.msgs = << >>
  BY <1>1, IdleIs, IdleWriterIs, ClosedIs DEF IdleReader
<1> QED
  BY <1>1, <1>2, <1>3, HeldEmpty DEF Balanced

LEMMA InitBalances == ASSUME Init PROVE Balanced
<1>1. /\ e = Idle /\ ch = Closed /\ r = IdleReader /\ w = IdleWriter /\ wq = << >>
      /\ \E size \in StagingSizes : st = NewStaging(mode, size)
  BY DEF Init
<1>2. Out(st) = 0
  BY <1>1, StagingAssumption, NewStagingOut
<1>3. e.buf = 0 /\ r.buf = 0 /\ w.job.cap = 0 /\ ch.msgs = << >>
  BY <1>1, IdleIs, IdleWriterIs, ClosedIs DEF IdleReader
<1> QED
  BY <1>1, <1>2, <1>3, HeldEmpty DEF Balanced

LEMMA NextBalances == ASSUME Shapes, RestoreOk, Balanced, [Next]_vars PROVE Balanced'
<1>1. CASE Ask \/ Engine \/ Cancel
  BY <1>1, EngineRestBalances, TakeBalances, GetBalances, ReceiveBalances, CancelBalances, SaveTakeBalances,
     SaveSendBalances DEF Engine
<1>2. CASE Reader
  BY <1>2, ReaderRestBalances, ReadTakeBalances, ReadGetBalances, ReadSendBalances, ReadErrorBalances DEF Reader
<1>3. CASE Age \/ UNCHANGED vars
  <2>1. UNCHANGED <<st, e, ch, r, w, wq>>
    BY <1>3 DEF Age, threads, vars
  <2> QED
    BY <2>1, NothingMoved
<1> QED
  BY <1>1, <1>2, <1>3, WriterBalances, StartBalances DEF Next, Crash, Restart

\* Every page of staging is in a free buffer or leased by exactly one job,
\* message or thread, and together they fit the budget; nothing is lost when
\* a restore is cancelled or a write fails (Staging, RestoreObject).
THEOREM StagingIsConserved == Spec => []StagingConserved
<1>1. Init => Shapes /\ RestoreOk /\ Balanced
  BY InitShapes, InitRestores, InitBalances
<1>2. (Shapes /\ RestoreOk /\ Balanced) /\ [Next]_vars => (Shapes /\ RestoreOk /\ Balanced)'
  BY NextShapes, NextRestores, NextBalances
<1>3. Shapes /\ RestoreOk /\ Balanced => StagingConserved
  <2>1. SUFFICES ASSUME Shapes, Balanced PROVE StagingConserved
    OBVIOUS
  <2>2. Out(st) = Leased
    BY <2>1 DEF Balanced, Leased, Held, Caps
  <2>3. st.alloc \in Int /\ Total(st.free) \in Nat /\ st.alloc <= st.budget
    BY <2>1, TotalNat DEF Shapes, StagingOk, StagingType
  <2>4. Leased \in Int
    BY <2>1, <2>2, Numbers
  <2> QED
    BY <2>2, <2>3, <2>4 DEF StagingConserved, Out
<1> QED
  BY <1>1, <1>2, <1>3, PTL DEF Spec

-----------------------------------------------------------------------------
(***************************************************************************)
(* Files: each is known to the index or on somebody's list.                 *)
(***************************************************************************)
FileNames(F) == {Name(o) : o \in F}

\* What the writer has put on disk and not yet in the index.
Pending ==
  IF w.pc = "rename" THEN {Tmp(Name(w.job.object))}
  ELSE IF w.pc = "insert" THEN {Name(w.job.object)} ELSE {}

Listed ==
  /\ FileNames(files) \subseteq Names(ix) \cup Pending \cup w.names \cup r.names \cup e.names \cup lost
  /\ tmps \subseteq Pending \cup lost /\ tmps \cap AllNames = {}

\* Only these hold a list of names to delete.
ListsOk ==
  /\ w.names # {} => w.pc = "delete"
  /\ r.names # {} => r.pc \in {"expire", "delete"}
  /\ e.names # {} => e.pc = "expire"

LEMMA TmpApart == ASSUME NEW name PROVE Tmp(name) \notin AllNames
<1>1. ASSUME NEW o \in Objects PROVE Name(o) # Tmp(name)
  <2>1. o.kind \in {"rows", "snapshot"}
    BY ObjectIs
  <2>2. o.kind # "tmp"
    BY <2>1
  <2> QED
    BY <2>2 DEF Name, Tmp
<1> QED
  BY <1>1 DEF AllNames

\* What a deletion leaves is not on the list or was left behind.
LEMMA DeletedNames ==
  ASSUME NEW names, Deleted(names)
  PROVE  /\ \A n \in FileNames(files') : n \in FileNames(files) /\ (n \in names => n \in lost')
         /\ lost \ names \subseteq lost' /\ tmps' = tmps
<1>1. tmps' = tmps
  BY DEF Deleted
<1>2. CASE files' = Without(names) /\ lost' = lost \ names
  BY <1>1, <1>2 DEF Without, FileNames
<1>3. CASE \E kept \in (SUBSET {Name(o) : o \in files \ Without(names)}) \ {{}} :
             files' = Without(names \ kept) /\ lost' = (lost \ names) \cup kept
  <2>1. PICK kept : files' = Without(names \ kept) /\ lost' = (lost \ names) \cup kept
    BY <1>3
  <2> QED
    BY <1>1, <2>1 DEF Without, FileNames
<1> QED
  BY <1>2, <1>3 DEF Deleted

\* A step that moves no file and no name.
LEMMA ListsSame ==
  ASSUME Listed, UNCHANGED <<files, tmps, lost>>, Names(ix') = Names(ix), Pending' = Pending,
         e'.names = e.names, r'.names = r.names, w'.names = w.names
  PROVE  Listed'
BY DEF Listed

LEMMA WriterApart == ASSUME w' = w PROVE Pending' = Pending
BY DEF Pending

LEMMA EngineRestLists ==
  ASSUME Shapes, Listed, ListsOk,
         Ask \/ Take \/ GetOk \/ Receive \/ Disconnected \/ Cancel \/ Generate \/ SaveHas \/ SaveTake \/ SaveSend
  PROVE  Listed' /\ ListsOk'
<1>1. w' = w /\ UNCHANGED <<files, tmps, lost>>
  BY DEF Ask, Take, GetOk, Receive, Disconnected, Cancel, Generate, SaveHas, SaveTake, SaveSend, disk, threads
<1>2. EngineShape(e) /\ e \in EngineType /\ IndexOk /\ ChannelOk
  BY DEF Shapes, EngineShape
<1>3. Names(ix') = Names(ix)
  <2>1. CASE GetOk
    BY <1>2, <2>1, TouchedNowIs DEF GetOk
  <2>2. CASE Ask \/ Take \/ Receive \/ Disconnected \/ Cancel \/ Generate \/ SaveHas \/ SaveTake \/ SaveSend
    <3>1. ix' = ix
      BY <2>2 DEF Ask, Take, Receive, Disconnected, Cancel, Generate, SaveHas, SaveTake, SaveSend, index
    <3> QED
      BY <3>1
  <2> QED
    BY <2>1, <2>2
<1>4. r'.names = r.names /\ r'.pc = r.pc
  <2>1. CASE DropReceiver
    BY <2>1, DropReceiverIs
  <2>2. CASE r' = r
    BY <2>2
  <2> QED
    BY <2>1, <2>2 DEF Ask, Take, GetOk, Receive, Disconnected, Cancel, Generate, SaveHas, SaveTake, SaveSend, threads
<1>5. e.names = {}
  BY DEF ListsOk, Ask, Take, GetOk, Receive, Disconnected, Cancel, Generate, SaveHas, SaveTake, SaveSend
<1>6. ASSUME NEW q, NEW pc PROVE NewRestore(q, pc).names = {}
  BY DEF NewRestore, Idle
<1>7. ASSUME NEW o \in Objects \cup {NoObject}, NEW pc,
             \/ e' = [Imported(e, o) EXCEPT !.pc = pc] \/ e' = [Imported(e, o) EXCEPT !.pc = pc, !.buf = 0]
      PROVE  e'.names = {}
  <2>1. PICK x \in EngineType : x = Imported(e, o) /\ x.names = {}
    BY <1>2, <1>5, ImportedIs
  <2> QED
    BY <1>7, <2>1 DEF EngineType
<1>8. e'.names = {}
  <2>1. CASE Ask \/ Disconnected
    BY <1>6, <2>1 DEF Ask, Disconnected
  <2>2. CASE Cancel
    BY <2>2, IdleIs DEF Cancel
  <2>3. CASE Generate
    BY <2>3 DEF Generate, Storing, Saving, Idle
  <2>4. CASE Take
    <3>1. PICK cap : e' = e \/ e' = [e EXCEPT !.pc = "get", !.buf = cap]
      BY <2>4 DEF Take
    <3> QED
      BY <1>2, <1>5, <3>1 DEF EngineType
  <2>5. CASE SaveHas \/ SaveTake \/ SaveSend
    <3>1. Kept.names = {} /\ GivenUp.names = {}
      BY <1>2, <2>5, JobIs DEF SaveHas, SaveTake, SaveSend
    <3>2. PICK cap : \/ e' = e \/ e' = Kept \/ e' = GivenUp \/ e' = [e EXCEPT !.pc = "save"]
                     \/ e' = [e EXCEPT !.pc = "send", !.buf = cap]
      BY <2>5 DEF SaveHas, SaveTake, SaveSend
    <3> QED
      BY <1>2, <1>5, <3>1, <3>2 DEF EngineType
  <2>6. CASE GetOk
    <3>1. PICK o \in Objects : o = Object
      <4>1. e.plan \in Seq(Objects) /\ e.at \in DOMAIN e.plan
        BY <1>2, <2>6 DEF GetOk, EngineShape, EngineType
      <4> QED
        BY <4>1, LenProperties DEF Object
    <3>2. PICK pc : e' = [Imported(e, o) EXCEPT !.pc = pc, !.buf = 0]
      BY <2>6, <3>1 DEF GetOk
    <3>3. o \in Objects \cup {NoObject}
      OBVIOUS
    <3> QED
      BY <1>7, <3>2, <3>3
  <2>7. CASE Receive
    <3>1. PICK o : o = ch.msgs[1].object
      OBVIOUS
    <3>2. o \in Objects \cup {NoObject}
      BY <1>2, <2>7, <3>1, MessageIs DEF Receive
    <3>3. e' = NewRestore(e.req, "prefill") \/ \E pc : e' = [Imported(e, o) EXCEPT !.pc = pc]
      BY <2>7, <3>1 DEF Receive
    <3> QED
      BY <1>6, <1>7, <3>2, <3>3
  <2> QED
    BY <2>1, <2>2, <2>3, <2>4, <2>5, <2>6, <2>7
<1> QED
  BY <1>1, <1>3, <1>4, <1>5, <1>8, ListsSame, WriterApart DEF ListsOk

LEMMA LookupLists == ASSUME Shapes, Listed, ListsOk, Lookup PROVE Listed' /\ ListsOk'
<1>1. e.pc = "lookup" /\ LookedUp(e.req.prompt) /\ UNCHANGED <<files, tmps, lost, r, w>>
  BY DEF Lookup, disk, threads
<1>2. e \in EngineType /\ IndexOk /\ e.req.prompt \in Seq(Token)
  BY <1>1, RequestIs DEF Shapes, EngineShape
<1>3. PICK gone : gone = Looked(e.req.prompt).gone /\ Names(ix') = Names(ix) \ gone
  BY <1>1, <1>2, LookedUpIs
<1>4. PICK pc, plan : e' = [e EXCEPT !.pc = pc, !.plan = plan, !.names = gone] /\ (gone # {} => pc = "expire")
  BY <1>3 DEF Lookup
<1>5. e'.names = gone /\ e'.pc = pc
  BY <1>2, <1>4 DEF EngineType
<1>6. e.names = {}
  BY <1>1 DEF ListsOk
<1>7. Pending' = Pending
  BY <1>1, WriterApart
<1> QED
  BY <1>1, <1>3, <1>4, <1>5, <1>6, <1>7 DEF Listed, ListsOk

LEMMA ExpireLists == ASSUME Shapes, Listed, ListsOk, Expire PROVE Listed' /\ ListsOk'
<1>1. Deleted(e.names) /\ UNCHANGED <<ix, r, w>>
  BY DEF Expire, index, threads
<1>2. e \in EngineType /\ e.names \in SUBSET AllNames
  BY DEF Shapes, EngineShape, EngineType
<1>3. PICK pc : e' = [e EXCEPT !.pc = pc, !.names = {}]
  BY DEF Expire
<1>4. e'.names = {}
  BY <1>2, <1>3 DEF EngineType
<1>5. Pending' = Pending
  BY <1>1, WriterApart
<1>6. /\ \A n \in FileNames(files') : n \in FileNames(files) /\ (n \in e.names => n \in lost')
      /\ lost \ e.names \subseteq lost' /\ tmps' = tmps
  BY <1>1, DeletedNames
<1>7. FileNames(files') \subseteq Names(ix') \cup Pending' \cup w'.names \cup r'.names \cup e'.names \cup lost'
  BY <1>1, <1>5, <1>6 DEF Listed
<1>8. tmps' \subseteq Pending' \cup lost' /\ tmps' \cap AllNames = {}
  BY <1>2, <1>5, <1>6 DEF Listed
<1> QED
  BY <1>1, <1>4, <1>7, <1>8 DEF Listed, ListsOk

LEMMA GetFailsLists == ASSUME Shapes, Listed, ListsOk, GetFails PROVE Listed' /\ ListsOk'
<1>1. /\ e.pc = "get" /\ Forgotten(Object) /\ tmps' = tmps /\ UNCHANGED <<r, w>>
      /\ IF Has(ix, Name(Object))
         THEN files' = Without({Name(Object)}) /\ lost' = lost \ {Name(Object)}
         ELSE UNCHANGED <<files, lost>>
  BY DEF GetFails, threads
<1>2. PICK name : name = Name(Object)
  OBVIOUS
<1>3. Names(ix') = Names(ix) \ {name}
  BY <1>1, <1>2, ForgottenIs DEF Shapes
<1>4. name \in AllNames
  <2>1. e.plan \in Seq(Objects) /\ e.at \in DOMAIN e.plan
    BY <1>1 DEF Shapes, EngineShape, EngineType
  <2>2. Object \in Objects
    BY <2>1, LenProperties DEF Object
  <2> QED
    BY <1>2, <2>2 DEF AllNames
<1>5. e.names = {} /\ e'.names = {}
  BY <1>1 DEF ListsOk, GetFails, NewRestore, Idle
<1>6. Pending' = Pending
  BY <1>1, WriterApart
<1>7. CASE name \in Names(ix)
  <2>1. files' = Without({name}) /\ lost' = lost \ {name}
    BY <1>1, <1>2, <1>7 DEF Has
  <2>2. \A n \in FileNames(files') : n \in FileNames(files) /\ n # name
    BY <2>1 DEF Without, FileNames
  <2>3. FileNames(files') \subseteq Names(ix') \cup Pending' \cup w'.names \cup r'.names \cup e'.names \cup lost'
    BY <1>1, <1>3, <1>5, <1>6, <2>1, <2>2 DEF Listed
  <2>4. tmps' \subseteq Pending' \cup lost' /\ tmps' \cap AllNames = {}
    BY <1>1, <1>4, <1>6, <2>1 DEF Listed
  <2> QED
    BY <1>1, <1>5, <2>3, <2>4 DEF Listed, ListsOk
<1>8. CASE name \notin Names(ix)
  <2>1. UNCHANGED <<files, lost>>
    BY <1>1, <1>2, <1>8 DEF Has
  <2>2. Names(ix') = Names(ix)
    BY <1>3, <1>8
  <2> QED
    BY <1>1, <1>5, <1>6, <2>1, <2>2, ListsSame DEF ListsOk
<1> QED
  BY <1>7, <1>8

LEMMA WritePutLists == ASSUME Shapes, Listed, ListsOk, WritePut PROVE Listed' /\ ListsOk'
<1>1. w.pc = "idle" /\ UNCHANGED <<ix, files, e, r>>
  BY DEF WritePut, index
<1>2. PICK tmp : tmp = Tmp(Name(wq[1].object)) /\ tmp \notin AllNames /\ tmps' = tmps \cup {tmp}
  BY TmpApart DEF WritePut
<1>3. Pending = {} /\ w.names = {}
  BY <1>1 DEF Pending, ListsOk
<1>4. \/ w' = [pc |-> "rename", job |-> wq[1], names |-> {}] /\ lost' = lost
      \/ w' = [pc |-> "flush", job |-> wq[1], names |-> {}] /\ lost' = lost \cup {tmp}
  BY <1>2 DEF WritePut
<1>5. w'.names = {} /\ tmps' \subseteq Pending' \cup lost' /\ lost \subseteq lost'
  <2>1. CASE w' = [pc |-> "rename", job |-> wq[1], names |-> {}] /\ lost' = lost
    <3>1. w'.pc = "rename" /\ w'.job = wq[1] /\ w'.names = {}
      BY <2>1
    <3>2. Pending' = {tmp}
      BY <1>2, <3>1 DEF Pending
    <3> QED
      BY <1>2, <1>3, <2>1, <3>1, <3>2 DEF Listed
  <2>2. CASE w' = [pc |-> "flush", job |-> wq[1], names |-> {}] /\ lost' = lost \cup {tmp}
    <3>1. w'.names = {}
      BY <2>2
    <3> QED
      BY <1>2, <1>3, <2>2, <3>1 DEF Listed
  <2> QED
    BY <1>4, <2>1, <2>2
<1>6. FileNames(files') \subseteq Names(ix') \cup Pending' \cup w'.names \cup r'.names \cup e'.names \cup lost'
  BY <1>1, <1>3, <1>5 DEF Listed
<1>7. tmps' \cap AllNames = {}
  BY <1>2 DEF Listed
<1> QED
  BY <1>1, <1>5, <1>6, <1>7 DEF Listed, ListsOk

LEMMA WriteRenameLists == ASSUME Shapes, Listed, ListsOk, WriteRename PROVE Listed' /\ ListsOk'
<1>1. w.pc = "rename" /\ UNCHANGED <<ix, e, r>>
  BY DEF WriteRename, index
<1>2. w \in WriterType /\ w.job.object \in Objects
  BY <1>1, AtWork DEF Shapes
<1>3. PICK name, tmp : name = Name(w.job.object) /\ tmp = Tmp(name)
  OBVIOUS
<1>4. name \in AllNames /\ Pending = {tmp} /\ w.names = {}
  BY <1>1, <1>2, <1>3 DEF AllNames, Pending, ListsOk
<1>5. CASE /\ w' = [w EXCEPT !.pc = "insert"] /\ tmps' = tmps \ {tmp}
           /\ files' = Without({name}) \cup {w.job.object} /\ lost' = lost \ {name, tmp}
  <2>1. w'.pc = "insert" /\ w'.job = w.job /\ w'.names = {}
    BY <1>2, <1>4, <1>5 DEF WriterType
  <2>2. Pending' = {name}
    BY <1>3, <2>1 DEF Pending
  <2>3. \A n \in FileNames(files') : n = name \/ n \in FileNames(files)
    BY <1>3, <1>5 DEF Without, FileNames
  <2>4. \A n \in FileNames(files) : n # tmp
    <3>1. tmp \notin AllNames
      BY <1>3, TmpApart
    <3> QED
      BY <3>1 DEF FileNames, AllNames, Shapes, DiskOk, OneOfEach
  <2>5. FileNames(files') \subseteq Names(ix') \cup Pending' \cup w'.names \cup r'.names \cup e'.names \cup lost'
    BY <1>1, <1>4, <1>5, <2>2, <2>3, <2>4 DEF Listed
  <2>6. tmps' \subseteq Pending' \cup lost' /\ tmps' \cap AllNames = {}
    BY <1>4, <1>5, <2>2 DEF Listed
  <2> QED
    BY <1>1, <2>1, <2>5, <2>6 DEF Listed, ListsOk
<1>6. CASE w' = [w EXCEPT !.pc = "flush"] /\ lost' = lost \cup {tmp} /\ UNCHANGED <<files, tmps>>
  <2>1. w'.names = {}
    BY <1>2, <1>4, <1>6 DEF WriterType
  <2>2. FileNames(files') \subseteq Names(ix') \cup Pending' \cup w'.names \cup r'.names \cup e'.names \cup lost'
    BY <1>1, <1>4, <1>6 DEF Listed
  <2>3. tmps' \subseteq Pending' \cup lost' /\ tmps' \cap AllNames = {}
    BY <1>4, <1>6 DEF Listed
  <2> QED
    BY <1>1, <2>1, <2>2, <2>3 DEF Listed, ListsOk
<1> QED
  BY <1>3, <1>5, <1>6 DEF WriteRename

LEMMA WriteInsertLists == ASSUME Shapes, Listed, ListsOk, WriteInsert PROVE Listed' /\ ListsOk'
<1>1. w.pc = "insert" /\ UNCHANGED <<files, tmps, lost, e, r>>
  BY DEF WriteInsert, disk
<1>2. PICK name : name = Name(w.job.object)
  OBVIOUS
<1>3. PICK gone, pc :
        /\ gone = (Names(ix) \cup {name}) \ Names(ix') /\ w' = [w EXCEPT !.pc = pc, !.names = gone]
        /\ pc = IF gone = {} THEN "flush" ELSE "delete"
  BY <1>2 DEF WriteInsert
<1>4. w \in WriterType /\ w.job.object \in Objects
  BY <1>1, AtWork DEF Shapes
<1>5. w'.pc = pc /\ w'.names = gone
  BY <1>3, <1>4 DEF WriterType
<1>6. Pending = {name} /\ w.names = {} /\ name \in AllNames
  BY <1>1, <1>2, <1>4 DEF Pending, ListsOk, AllNames
<1>7. FileNames(files') \subseteq Names(ix') \cup Pending' \cup w'.names \cup r'.names \cup e'.names \cup lost'
  BY <1>1, <1>3, <1>5, <1>6 DEF Listed
<1>8. tmps' \subseteq Pending' \cup lost' /\ tmps' \cap AllNames = {}
  BY <1>1, <1>6 DEF Listed
<1> QED
  BY <1>1, <1>3, <1>5, <1>7, <1>8 DEF Listed, ListsOk

LEMMA WriteDeleteLists == ASSUME Shapes, Listed, ListsOk, WriteDelete PROVE Listed' /\ ListsOk'
<1>1. w.pc = "delete" /\ Deleted(w.names) /\ w' = [w EXCEPT !.pc = "flush", !.names = {}] /\ UNCHANGED <<ix, e, r>>
  BY DEF WriteDelete, index
<1>2. w \in WriterType /\ w.names \in SUBSET AllNames
  BY <1>1, AtWork DEF Shapes
<1>3. w'.names = {} /\ Pending = {}
  BY <1>1, <1>2 DEF WriterType, Pending
<1>4. /\ \A n \in FileNames(files') : n \in FileNames(files) /\ (n \in w.names => n \in lost')
      /\ lost \ w.names \subseteq lost' /\ tmps' = tmps
  BY <1>1, DeletedNames
<1>5. FileNames(files') \subseteq Names(ix') \cup Pending' \cup w'.names \cup r'.names \cup e'.names \cup lost'
  BY <1>1, <1>3, <1>4 DEF Listed
<1>6. tmps' \subseteq Pending' \cup lost' /\ tmps' \cap AllNames = {}
  BY <1>2, <1>3, <1>4 DEF Listed
<1> QED
  BY <1>1, <1>3, <1>5, <1>6 DEF Listed, ListsOk

LEMMA WriteFlushLists == ASSUME Shapes, Listed, ListsOk, WriteFlush PROVE Listed' /\ ListsOk'
<1>1. w.pc = "flush" /\ w' = IdleWriter /\ UNCHANGED <<ix, files, tmps, lost, e, r>>
  BY DEF WriteFlush, index
<1>2. w.names = {} /\ w'.names = {} /\ w'.pc = "idle"
  BY <1>1, IdleWriterIs DEF ListsOk
<1>3. Pending = {} /\ Pending' = {}
  BY <1>1, <1>2 DEF Pending
<1> QED
  BY <1>1, <1>2, <1>3, ListsSame DEF ListsOk

LEMMA ReadLookupLists == ASSUME Shapes, Listed, ListsOk, ReadLookup PROVE Listed' /\ ListsOk'
<1>1. r.pc = "idle" /\ rq # << >> /\ LookedUp(rq[1].text) /\ UNCHANGED <<files, tmps, lost, e, w>>
  BY DEF ReadLookup, disk
<1>2. rq \in Seq(TaskType) /\ IndexOk
  BY DEF Shapes, TasksOk
<1>10. rq[1] \in TaskType
  BY <1>1, <1>2, TailIs
<1>3. PICK text \in Seq(Token) : text = rq[1].text
  BY <1>10 DEF TaskType
<1>4. PICK gone : gone = Looked(text).gone /\ Names(ix') = Names(ix) \ gone
  BY <1>1, <1>2, <1>3, LookedUpIs
<1>5. PICK task, plan : task = rq[1] /\ plan = Looked(text).plan
  OBVIOUS
<1>6. PICK t : t = [IdleReader EXCEPT !.task = task, !.plan = plan, !.names = gone]
  OBVIOUS
<1>7. /\ gone # {} => r' = [t EXCEPT !.pc = "expire"]
      /\ gone = {} => r' = IdleReader \/ r' = [t EXCEPT !.pc = "take"]
  BY <1>3, <1>4, <1>5, <1>6 DEF ReadLookup, ReadEnds
<1>8. r'.names = gone /\ (gone # {} => r'.pc = "expire")
  <2>1. CASE gone # {}
    BY <1>6, <1>7, <2>1 DEF IdleReader
  <2>2. CASE r' = IdleReader /\ gone = {}
    BY <2>2 DEF IdleReader
  <2>3. CASE r' = [t EXCEPT !.pc = "take"] /\ gone = {}
    BY <1>6, <2>3 DEF IdleReader
  <2> QED
    BY <1>7, <2>1, <2>2, <2>3
<1>9. r.names = {} /\ Pending' = Pending
  BY <1>1, WriterApart DEF ListsOk
<1> QED
  BY <1>1, <1>4, <1>8, <1>9 DEF Listed, ListsOk

LEMMA ReadDeletesLists == ASSUME Shapes, Listed, ListsOk, ReadExpire \/ ReadDelete PROVE Listed' /\ ListsOk'
<1>1. Deleted(r.names) /\ UNCHANGED <<ix, e, w>>
  BY DEF ReadExpire, ReadDelete, index
<1>2. r \in ReaderType /\ r.names \in SUBSET AllNames
  BY DEF Shapes, ReaderShape, ReaderType
<1>3. r' = IdleReader \/ \E pc : r' = [r EXCEPT !.pc = pc, !.names = {}]
  BY DEF ReadExpire, ReadDelete, ReadEnds
<1>4. r'.names = {}
  <2>1. CASE r' = IdleReader
    BY <2>1 DEF IdleReader
  <2>2. CASE \E pc : r' = [r EXCEPT !.pc = pc, !.names = {}]
    BY <1>2, <2>2 DEF ReaderType
  <2> QED
    BY <1>3, <2>1, <2>2
<1>5. Pending' = Pending
  BY <1>1, WriterApart
<1>6. /\ \A n \in FileNames(files') : n \in FileNames(files) /\ (n \in r.names => n \in lost')
      /\ lost \ r.names \subseteq lost' /\ tmps' = tmps
  BY <1>1, DeletedNames
<1>7. FileNames(files') \subseteq Names(ix') \cup Pending' \cup w'.names \cup r'.names \cup e'.names \cup lost'
  BY <1>1, <1>5, <1>6 DEF Listed
<1>8. tmps' \subseteq Pending' \cup lost' /\ tmps' \cap AllNames = {}
  BY <1>2, <1>5, <1>6 DEF Listed
<1> QED
  BY <1>1, <1>4, <1>7, <1>8 DEF Listed, ListsOk

LEMMA ReadForgetLists == ASSUME Shapes, Listed, ListsOk, ReadForget PROVE Listed' /\ ListsOk'
<1>1. PICK name : name = Name(r.plan[r.at])
  OBVIOUS
<1>2. /\ r.pc = "forget" /\ Forgotten(r.plan[r.at]) /\ UNCHANGED <<files, tmps, lost, e, w>>
      /\ r' = IF Has(ix, name) THEN [r EXCEPT !.pc = "delete", !.names = {name}] ELSE [r EXCEPT !.pc = "error"]
  BY <1>1 DEF ReadForget, disk
<1>3. Names(ix') = Names(ix) \ {name}
  BY <1>1, <1>2, ForgottenIs DEF Shapes
<1>4. r \in ReaderType /\ r.names = {}
  BY <1>2 DEF Shapes, ReaderShape, ListsOk
<1>5. Pending' = Pending
  BY <1>2, WriterApart
<1>6. CASE name \in Names(ix)
  <2>1. r'.names = {name} /\ r'.pc = "delete"
    BY <1>2, <1>4, <1>6 DEF ReaderType, Has
  <2> QED
    BY <1>2, <1>3, <1>4, <1>5, <2>1 DEF Listed, ListsOk
<1>7. CASE name \notin Names(ix)
  <2>1. r'.names = {}
    BY <1>2, <1>4, <1>7 DEF ReaderType, Has
  <2> QED
    BY <1>2, <1>3, <1>4, <1>5, <1>7, <2>1 DEF Listed, ListsOk
<1> QED
  BY <1>6, <1>7

LEMMA ReaderRestLists ==
  ASSUME Shapes, Listed, ListsOk, ReadTake \/ ReadGet \/ ReadTouch \/ ReadSend \/ ReadError
  PROVE  Listed' /\ ListsOk'
<1>1. UNCHANGED <<files, tmps, lost, e, w>>
  BY DEF ReadTake, ReadGet, ReadTouch, ReadSend, ReadError, disk
<1>2. r \in ReaderType /\ IndexOk
  BY DEF Shapes, ReaderShape
<1>3. r.names = {}
  BY DEF ListsOk, ReadTake, ReadGet, ReadTouch, ReadSend, ReadError
<1>4. Names(ix') = Names(ix)
  <2>1. CASE ReadTouch
    BY <1>2, <2>1, TouchedNowIs DEF ReadTouch
  <2>2. CASE ReadTake \/ ReadGet \/ ReadSend \/ ReadError
    <3>1. ix' = ix
      BY <2>2 DEF ReadTake, ReadGet, ReadSend, ReadError, index
    <3> QED
      BY <3>1
  <2> QED
    BY <2>1, <2>2
<1>5. r'.names = {}
  <2>1. CASE ReadTake
    <3>1. r' = [r EXCEPT !.pc = "error"] \/ \E pc, cap : r' = [r EXCEPT !.pc = pc, !.buf = cap]
      BY <2>1 DEF ReadTake
    <3> QED
      BY <1>2, <1>3, <3>1 DEF ReaderType
  <2>2. CASE ReadGet
    <3>1. r' = [r EXCEPT !.pc = "touch"] \/ r' = [r EXCEPT !.pc = "forget", !.buf = 0]
      BY <2>2 DEF ReadGet
    <3> QED
      BY <1>2, <1>3, <3>1 DEF ReaderType
  <2>3. CASE ReadTouch
    <3>1. r' = [r EXCEPT !.pc = "send"]
      BY <2>3 DEF ReadTouch
    <3> QED
      BY <1>2, <1>3, <3>1 DEF ReaderType
  <2>4. CASE ReadSend
    <3>1. r' = IdleReader \/ r' = [r EXCEPT !.pc = "take", !.at = @ + 1, !.buf = 0]
      BY <2>4 DEF ReadSend
    <3>2. CASE r' = IdleReader
      BY <3>2 DEF IdleReader
    <3>3. CASE r' = [r EXCEPT !.pc = "take", !.at = @ + 1, !.buf = 0]
      BY <1>2, <1>3, <3>3 DEF ReaderType
    <3> QED
      BY <3>1, <3>2, <3>3
  <2>5. CASE ReadError
    BY <2>5 DEF ReadError, IdleReader
  <2> QED
    BY <2>1, <2>2, <2>3, <2>4, <2>5
<1>6. Pending' = Pending
  BY <1>1, WriterApart
<1> QED
  BY <1>1, <1>3, <1>4, <1>5, <1>6, ListsSame DEF ListsOk

LEMMA StartLists == ASSUME NEW q, Start(q) PROVE Listed' /\ ListsOk'
<1>1. /\ files' = {o \in files : Name(o) \in Names(ix')} /\ tmps' = {}
      /\ e' = Idle /\ r' = IdleReader /\ w' = IdleWriter
  BY DEF Start
<1>2. e'.names = {} /\ r'.names = {} /\ w'.names = {}
  BY <1>1, IdleIs, IdleWriterIs DEF IdleReader
<1>3. FileNames(files') \subseteq Names(ix')
  BY <1>1 DEF FileNames
<1> QED
  BY <1>1, <1>2, <1>3 DEF Listed, ListsOk

LEMMA InitLists == ASSUME Init PROVE Listed /\ ListsOk
<1>1. files = {} /\ tmps = {} /\ e = Idle /\ r = IdleReader /\ w = IdleWriter
  BY DEF Init
<1>2. e.names = {} /\ r.names = {} /\ w.names = {}
  BY <1>1, IdleIs, IdleWriterIs DEF IdleReader
<1> QED
  BY <1>1, <1>2 DEF Listed, ListsOk, FileNames

LEMMA NextLists == ASSUME Shapes, Listed, ListsOk, [Next]_vars PROVE Listed' /\ ListsOk'
<1>1. CASE Ask \/ Engine \/ Cancel
  BY <1>1, EngineRestLists, LookupLists, ExpireLists, GetFailsLists DEF Engine
<1>2. CASE Writer
  BY <1>2, WritePutLists, WriteRenameLists, WriteInsertLists, WriteDeleteLists, WriteFlushLists DEF Writer
<1>3. CASE Reader
  BY <1>3, ReadLookupLists, ReadDeletesLists, ReadForgetLists, ReaderRestLists DEF Reader
<1>4. CASE Age \/ UNCHANGED vars
  <2>1. UNCHANGED <<ix, files, tmps, lost, e, r, w>>
    BY <1>4 DEF Age, disk, threads, vars
  <2>2. Pending' = Pending
    BY <2>1, WriterApart
  <2> QED
    BY <2>1, <2>2, ListsSame DEF ListsOk
<1> QED
  BY <1>1, <1>2, <1>3, <1>4, StartLists DEF Next, Crash, Restart

\* A file that the index does not know is about to be indexed or deleted, or
\* was left by a failed write or deletion: no other step loses one
\* (writer_loop, read, delete_all).
THEOREM NothingLeaks == Spec => []NoLeak
<1>1. Init => Shapes /\ Listed /\ ListsOk
  BY InitShapes, InitLists
<1>2. (Shapes /\ Listed /\ ListsOk) /\ [Next]_vars => (Shapes /\ Listed /\ ListsOk)'
  BY NextShapes, NextLists
<1>3. Shapes /\ Listed /\ ListsOk => NoLeak
  <2>1. SUFFICES ASSUME Listed PROVE NoLeak
    OBVIOUS
  <2>2. Pending \subseteq IF w.pc = "idle" THEN {} ELSE {Name(w.job.object), Tmp(Name(w.job.object))}
    BY DEF Pending
  <2> QED
    BY <2>1, <2>2 DEF Listed, NoLeak, InFlight, FileNames
<1> QED
  BY <1>1, <1>2, <1>3, PTL DEF Spec

-----------------------------------------------------------------------------
(***************************************************************************)
(* What the budget evicts                                                   *)
(***************************************************************************)
ByTier(q) == \A i, k \in DOMAIN q : i <= k => Tier[q[i].role] <= Tier[q[k].role]

\* The entries of one tier behind those below it.
LEMMA TierStep ==
  ASSUME NEW p \in Seq(Objects), NEW b \in Seq(Objects), NEW k \in Nat, ByTier(p),
         \A o \in ToSet(p) : Tier[o.role] < k, \A o \in ToSet(b) : Tier[o.role] = k
  PROVE  ByTier(p \o b)
<1>1. PICK m \in Nat : m = Len(p) /\ DOMAIN p = 1 .. m
  BY LenProperties
<1>2. PICK n \in Nat : n = Len(b) /\ DOMAIN b = 1 .. n
  BY LenProperties
<1>3. PICK z \in Seq(Objects) : z = p \o b
  BY SetOfConcat
<1>4. /\ Len(z) = m + n
      /\ \A i \in 1 .. m + n : z[i] = IF i <= m THEN p[i] ELSE b[i - m]
  BY <1>1, <1>2, <1>3, ConcatProperties
<1>5. DOMAIN z = 1 .. m + n
  BY <1>4, LenProperties
<1>6. ASSUME NEW i \in 1 .. m + n
      PROVE  /\ i <= m => i \in DOMAIN p /\ z[i] = p[i] /\ Tier[z[i].role] \in 0 .. 9 /\ Tier[z[i].role] < k
             /\ ~(i <= m) => Tier[z[i].role] = k
  <2>1. z[i] = IF i <= m THEN p[i] ELSE b[i - m]
    BY <1>4
  <2>2. ASSUME i <= m PROVE i \in DOMAIN p /\ p[i] \in ToSet(p)
    <3>1. i \in 1 .. m
      BY <2>2
    <3> QED
      BY <1>1, <3>1 DEF ToSet
  <2>3. ASSUME ~(i <= m) PROVE b[i - m] \in ToSet(b)
    <3>1. i - m \in 1 .. n
      BY <2>3
    <3> QED
      BY <1>2, <3>1 DEF ToSet
  <2> QED
    BY <2>1, <2>2, <2>3, TierIs
<1> SUFFICES ASSUME NEW i \in 1 .. m + n, NEW j \in 1 .. m + n, i <= j
             PROVE  Tier[z[i].role] <= Tier[z[j].role]
  BY <1>3, <1>5 DEF ByTier
<1>7. CASE j <= m
  <2>1. i <= m
    BY <1>7
  <2>2. i \in DOMAIN p /\ z[i] = p[i] /\ j \in DOMAIN p /\ z[j] = p[j]
    BY <1>6, <1>7, <2>1
  <2> QED
    BY <2>2 DEF ByTier
<1>8. CASE ~(j <= m) /\ i <= m
  <2>1. PICK t \in 0 .. 9 : t = Tier[z[i].role] /\ t < k
    BY <1>6, <1>8
  <2>2. Tier[z[j].role] = k
    BY <1>6, <1>8
  <2>3. t <= k
    BY <2>1
  <2> QED
    BY <2>1, <2>2, <2>3, Zenon
<1>9. CASE ~(j <= m) /\ ~(i <= m)
  <2>1. Tier[z[i].role] = k /\ Tier[z[j].role] = k
    BY <1>6, <1>9
  <2> QED
    BY <2>1
<1> QED
  BY <1>7, <1>8, <1>9

\* The order of eviction is the order of the tiers.
LEMMA EvictionByTier ==
  ASSUME NEW x \in IndexType, Apart(x.order)
  PROVE  ByTier(EvictionOrder(x))
<1>1. PICK q \in Seq(Objects) : q = x.order /\ Apart(q)
  BY DEF IndexType
<1>2. PICK g : /\ EvictionOrder(x) = g[10] /\ g[0] = << >>
               /\ \A t \in 1 .. 10 :
                    g[t] = g[t - 1] \o Only(q, {o \in ToSet(q) : Tier[o.role] = t - 1})
  BY <1>1, EvictionFunction, ZenonT(60)
<1> DEFINE Claim(k) == /\ g[k] \in Seq(Objects) /\ Apart(g[k]) /\ ToSet(g[k]) = Ranked(q, k)
                       /\ ByTier(g[k])
<1> DEFINE N == {k \in Nat : k <= 10 => Claim(k)}
<1>3. Claim(0)
  <2>1. << >> \in Seq(Objects) /\ Apart(<< >>) /\ ToSet(<< >>) = {} /\ ByTier(<< >>)
    BY DEF Apart, ToSet, ByTier
  <2>2. Ranked(q, 0) = {}
    BY NextRank
  <2> QED
    BY <1>2, <2>1, <2>2
<1>4. ASSUME NEW k \in Nat, k + 1 <= 10, Claim(k) PROVE Claim(k + 1)
  <2>1. PICK p \in Seq(Objects) : p = g[k] /\ Apart(p) /\ ToSet(p) = Ranked(q, k) /\ ByTier(p)
    BY <1>4
  <2>2. PICK m : m = k + 1
    OBVIOUS
  <2>3. m \in 1 .. 10 /\ m - 1 = k
    BY <1>4, <2>2
  <2>4. g[m] = p \o Only(q, {o \in ToSet(q) : Tier[o.role] = k})
    BY <1>2, <2>1, <2>3
  <2>5. g[m] \in Seq(Objects) /\ Apart(g[m]) /\ ToSet(g[m]) = Ranked(q, m)
    BY <1>1, <2>1, <2>2, <2>4, EvictionStep
  <2>6. PICK T : T = {o \in ToSet(q) : Tier[o.role] = k}
    OBVIOUS
  <2>7. PICK b \in Seq(Objects) : b = Only(q, T) /\ ToSet(b) = ToSet(q) \cap T
    BY OnlySeq
  <2>8. \A o \in ToSet(p) : Tier[o.role] < k
    BY <2>1 DEF Ranked
  <2>9. \A o \in ToSet(b) : Tier[o.role] = k
    BY <2>6, <2>7
  <2>10. ByTier(p \o b)
    BY <2>1, <2>8, <2>9, TierStep
  <2> QED
    BY <2>2, <2>4, <2>5, <2>6, <2>7, <2>10
<1> HIDE DEF Claim
<1>5. 0 \in N
  BY <1>3
<1>6. \A k \in Nat : k \in N => k + 1 \in N
  BY <1>4
<1> HIDE DEF N
<1>7. 10 \in N
  BY <1>5, <1>6, NatInd
<1>8. Claim(10)
  BY <1>7 DEF N
<1> QED
  BY <1>1, <1>2, <1>8 DEF Claim

\* What leaves the index for want of room is of no higher tier than what stays.
LEMMA EvictsLower ==
  ASSUME NEW x, Counted(x), NEW o \in ToSet(x.order), Name(o) \notin Names(Evicted(x)),
         NEW u \in ToSet(Evicted(x).order)
  PROVE  Tier[u.role] >= Tier[o.role]
<1>1. x \in IndexType /\ Apart(x.order)
  BY DEF Counted
<1>2. ~(x.used <= Budget)
  BY DEF Evicted, Names
<1>3. PICK q \in Seq(Objects) : q = EvictionOrder(x) /\ ToSet(q) = ToSet(x.order) /\ ByTier(q)
  BY <1>1, EvictionOrderIs, EvictionByTier
<1>4. PICK l \in Nat : l = Len(q) /\ DOMAIN q = 1 .. l
  BY LenProperties
<1> DEFINE K == {k \in 0 .. Len(q) : k = Len(q) \/ x.used - SizeOf(SubSeq(q, 1, k)) <= Budget}
<1>5. PICK n \in Nat : n = Min(K)
  <2>1. K \in SUBSET Nat /\ Len(q) \in K
    BY <1>4
  <2> QED
    BY <2>1, MinIn
<1>6. PICK S : S = {Name(q[i]) : i \in 1 .. n}
  OBVIOUS
<1>7. Evicted(x) = Dropped(x, S)
  BY <1>2, <1>3, <1>5, <1>6 DEF Evicted
<1>8. /\ ToSet(Dropped(x, S).order) = {v \in ToSet(x.order) : Name(v) \notin S}
      /\ Names(Dropped(x, S)) = Names(x) \ S
  BY <1>1, DroppedIs
<1>9. Name(o) \in S
  <2>1. Name(o) \in Names(x)
    BY DEF Names
  <2> QED
    BY <1>7, <1>8, <2>1
<1>10. PICK i \in 1 .. l : o = q[i]
  BY <1>3, <1>4 DEF ToSet
<1>11. PICK j \in 1 .. l : u = q[j] /\ Name(u) \notin S
  <2>1. u \in ToSet(q) /\ Name(u) \notin S
    BY <1>3, <1>7, <1>8
  <2> QED
    BY <1>4, <2>1 DEF ToSet
<1>12. PICK a \in 1 .. n : Name(o) = Name(q[a])
  BY <1>6, <1>9
<1>13. ~(j \in 1 .. n)
  BY <1>6, <1>11
<1>14. a <= l /\ a \in 1 .. l /\ a <= j
  BY <1>11, <1>12, <1>13
<1>15. q[a] = o
  <2>1. q[a] \in ToSet(x.order)
    BY <1>3, <1>4, <1>14 DEF ToSet
  <2> QED
    BY <1>1, <1>12, <2>1 DEF Apart, ToSet
<1>16. Tier[o.role] <= Tier[u.role]
  BY <1>3, <1>4, <1>11, <1>14, <1>15 DEF ByTier
<1>17. Tier[o.role] \in 0 .. 9 /\ Tier[u.role] \in 0 .. 9
  <2>1. o \in ToSet(q) /\ u \in ToSet(q)
    BY <1>3, <1>4, <1>11 DEF ToSet
  <2> QED
    BY <2>1, TierIs
<1> QED
  BY <1>16, <1>17

\* An entry whose role does not expire is not among the expired.
LEMMA NotExpired ==
  ASSUME NEW x, Counted(x), NEW S, NEW o \in ToSet(x.order), o.role \notin Expiring
  PROVE  Name(o) \notin Expired(x, S)
<1>1. \A u \in ToSet(x.order) : Name(u) = Name(o) => u = o
  BY DEF Counted, Apart, ToSet
<1> QED
  BY <1>1 DEF Expired


\* A store: the index keeps the names it had, or loses what expired and what
\* the budget takes.
LEMMA InsertedEvicts ==
  ASSUME NEW x, Counted(x), NEW S, NEW o \in Objects, NEW v \in ToSet(x.order), v.role \notin Expiring,
         Name(v) \notin Names(Inserted(x, S, o)), NEW u \in ToSet(Inserted(x, S, o).order)
  PROVE  Tier[u.role] >= Tier[v.role]
<1>1. x \in IndexType /\ Name(v) \in Names(x)
  BY DEF Counted, Names
<1>2. ~Has(x, Name(o))
  <2>1. SUFFICES ASSUME Has(x, Name(o)) PROVE FALSE
    OBVIOUS
  <2>2. Inserted(x, S, o) = Touched(x, Name(o))
    BY <2>1 DEF Inserted
  <2> QED
    BY <1>1, <2>2, TouchedIs
<1>3. PICK y : y = InsertEntry(x, o)
  OBVIOUS
<1>4. Counted(y) /\ y \in IndexType /\ v \in ToSet(y.order)
  <2>1. Name(o) \notin Names(x)
    BY <1>2 DEF Has
  <2> QED
    BY <1>1, <1>3, <2>1, InsertEntryIs
<1>5. PICK T : T = Expired(y, S \ {Name(o)})
  OBVIOUS
<1>6. PICK z : z = Dropped(y, T)
  OBVIOUS
<1>7. Inserted(x, S, o) = Evicted(z)
  BY <1>2, <1>3, <1>5, <1>6 DEF Inserted
<1>8. Counted(z) /\ v \in ToSet(z.order)
  <2>1. Name(v) \notin T
    BY <1>4, <1>5, NotExpired
  <2> QED
    BY <1>4, <1>6, <2>1, DroppedIs
<1> QED
  BY <1>7, <1>8, EvictsLower

\* An opening: what is on disk and neither expires nor stays gave way to no lower tier.
LEMMA OpenedEvicts ==
  ASSUME NEW F, OneOfEach(F), NEW q \in Seq(AllNames), IsInjective(q), NEW S,
         NEW v \in F, v.role \notin Expiring,
         Name(v) \notin Names(Opened(F, q, S)), NEW u \in ToSet(Opened(F, q, S).order)
  PROVE  Tier[u.role] >= Tier[v.role]
<1>1. PICK z \in Seq(Objects) : z = Opens(F, q) /\ Apart(z) /\ ToSet(z) = F
  BY OpensIs
<1>2. PICK x : x = [order |-> z, used |-> SizeOf(z)]
  OBVIOUS
<1>3. Counted(x) /\ x \in IndexType /\ x.order = z
  <2>1. SizeOf(z) \in Nat
    BY ObjectsSized, SizesSeq
  <2> QED
    BY <1>1, <1>2, <2>1 DEF Counted, IndexType
<1>4. Opened(F, q, S) = Evicted(Dropped(x, Expired(x, S)))
  BY <1>1, <1>2 DEF Opened, Opens, KnownOf, FileOf
<1>5. PICK T : T = Expired(x, S)
  OBVIOUS
<1>6. PICK y : y = Dropped(x, T)
  OBVIOUS
<1>7. Counted(y) /\ v \in ToSet(y.order)
  <2>1. Name(v) \notin T
    BY <1>1, <1>3, <1>5, NotExpired
  <2> QED
    BY <1>1, <1>3, <1>6, <2>1, DroppedIs
<1> QED
  BY <1>4, <1>5, <1>6, <1>7, EvictsLower

\* The text of an object says its role.
LEMMA RoleByText ==
  ASSUME NEW o \in Objects, NEW u \in Objects, Name(o) = Name(u)
  PROVE  o.role = u.role
<1>1. PICK p \in ToSet(Requests) : ObjectOf(o, p.full)
  BY ObjectIs
<1>2. PICK q \in ToSet(Requests) : ObjectOf(u, q.full)
  BY ObjectIs
<1>3. PICK a \in Seq(Token) : a = p.full
  BY RequestIs
<1>4. PICK b \in Seq(Token) : b = q.full
  BY RequestIs
<1>5. PICK text : text = o.text /\ text = u.text
  BY DEF Name
<1>6. PICK n \in Nat : n = Len(text)
  BY <1>5, ObjectIs
<1>7. n \in 1 .. Len(a) /\ text = Prefix(a, n) /\ o.role = RoleOf[a[n]]
  BY <1>1, <1>3, <1>5, <1>6 DEF ObjectOf
<1>8. n \in 1 .. Len(b) /\ text = Prefix(b, n) /\ u.role = RoleOf[b[n]]
  BY <1>2, <1>4, <1>5, <1>6 DEF ObjectOf
<1>9. text[n] = a[n]
  <2>1. n \in 0 .. Len(a) /\ n \in 1 .. n
    BY <1>7
  <2> QED
    BY <1>7, <2>1, PrefixIs
<1>10. text[n] = b[n]
  <2>1. n \in 0 .. Len(b) /\ n \in 1 .. n
    BY <1>8
  <2> QED
    BY <1>8, <2>1, PrefixIs
<1> QED
  BY <1>7, <1>8, <1>9, <1>10

LEMMA StartEvicts ==
  ASSUME Shapes, NEW q \in Seq(AllNames), IsInjective(q), Start(q),
         NEW o \in ToSet(ix.order), Name(o) \notin Names(ix'), o.role \notin Expiring, FileNamed(Name(o)) # {},
         NEW u \in ToSet(ix'.order)
  PROVE  Tier[u.role] >= Tier[o.role]
<1>1. PICK old : ix' = Opened(files, q, old)
  BY DEF Start
<1>2. OneOfEach(files) /\ files \in SUBSET Objects
  BY DEF Shapes, DiskOk, OneOfEach
<1>3. PICK v \in files : Name(v) = Name(o)
  BY DEF FileNamed
<1>4. o \in Objects /\ v \in Objects
  <2>1. ix.order \in Seq(Objects)
    BY DEF Shapes, IndexOk, Counted, IndexType
  <2> QED
    BY <1>2, <2>1, SetOfSeq
<1>5. v.role = o.role
  BY <1>3, <1>4, RoleByText
<1>6. Tier[u.role] >= Tier[v.role]
  BY <1>1, <1>2, <1>3, <1>5, OpenedEvicts
<1> QED
  BY <1>5, <1>6

Lowest ==
  \A o \in ToSet(ix.order) :
    \/ Name(o) \in Names(ix') \/ o.role \in Expiring \/ FileNamed(Name(o)) = {}
    \/ \A x \in ToSet(ix'.order) : Tier[x.role] >= Tier[o.role]

\* The budget evicts nothing of a higher tier while something of a lower one
\* stays, whatever expires with it, and an opening over the files of a crash
\* keeps that order (evict_to_budget, open_with).
THEOREM BudgetEvictsLowest == Spec => EvictsLowest
<1>1. ASSUME Shapes, WriteInsert PROVE Lowest
  <2>1. ix' = Inserted(ix, idle, w.job.object) /\ w.pc = "insert"
    BY <1>1 DEF WriteInsert
  <2>2. w.job.object \in Objects
    BY <1>1, <2>1 DEF Shapes, WriterOk, WriteType
  <2>3. Counted(ix)
    BY <1>1 DEF Shapes, IndexOk
  <2> QED
    BY <2>1, <2>2, <2>3, InsertedEvicts DEF Lowest
<1>2. ASSUME Shapes, Crash PROVE Lowest
  <2>1. stored \in Seq(AllNames) /\ IsInjective(stored)
    BY <1>2 DEF Shapes, DiskOk
  <2>2. Start(stored)
    BY <1>2 DEF Crash
  <2> QED
    BY <1>2, <2>1, <2>2, StartEvicts DEF Lowest
<1>3. ASSUME Shapes, Restart PROVE Lowest
  <2>1. PICK q : q = [i \in DOMAIN ix.order |-> Name(ix.order[i])]
    OBVIOUS
  <2>2. q \in Seq(AllNames) /\ IsInjective(q)
    BY <1>3, <2>1, NamesInOrder DEF Shapes, IndexOk
  <2>3. Start(q)
    BY <1>3, <2>1 DEF Restart
  <2> QED
    BY <1>3, <2>2, <2>3, StartEvicts DEF Lowest
<1>4. Shapes /\ [Next]_vars => [(WriteInsert \/ Crash \/ Restart) => Lowest]_vars
  BY <1>1, <1>2, <1>3
<1>5. EvictsLowest <=> [][(WriteInsert \/ Crash \/ Restart) => Lowest]_vars
  BY DEF EvictsLowest, Lowest
<1> QED
  BY <1>4, <1>5, ShapesHold, PTL DEF Spec
=============================================================================
