---------------------------- MODULE CapacityProofs ----------------------------
(***************************************************************************)
(* What admission promises is kept: the reservations of the continuous     *)
(* scheduler bound what its requests hold and may come to hold, whatever   *)
(* they share, copy, finish and give up one by one, so an admitted request *)
(* never fails for want of a slot or of a page; and every request is       *)
(* answered once.                                                          *)
(*                                                                         *)
(* A group owes Base pages, which all its sequences have in common, and    *)
(* Allot more for each of them.  Debt is what all groups owe; the idle     *)
(* sequence is charged with its pages that no group keeps.  The two fit in *)
(* the pool (Charged), and every step pays for what it takes.              *)
(***************************************************************************)
EXTENDS ContinuousProofs

-----------------------------------------------------------------------------
(***************************************************************************)
(* What a group may come to hold                                           *)
(***************************************************************************)
\* The pages the choices of a job share for good, and those of each of them.
Full(j) == PromptLen(j) \div PageTokens
Share(j) == PagesFor((PromptLen(j) % PageTokens) + MaxTokens[j])

\* The pages all sequences of a group have in common, and how many each may
\* have besides.
Base(g) == IF g.root # None THEN 0 ELSE Full(g.job)
Allot(g) == IF g.root # None THEN ContinuousPages(g.job, NChoices[g.job]) ELSE Share(g.job)
Owed(g) == IF Held(g) = {} THEN 0 ELSE Base(g) + Cardinality(Held(g)) * Allot(g)

Debt(gs) == SumFunctionOnSet([i \in DOMAIN gs |-> Owed(gs[i])], DOMAIN gs)
Seats(gs) == SumFunctionOnSet([i \in DOMAIN gs |-> Sequences(gs[i])], DOMAIN gs)

\* The pages a group keeps until its last choice ends, and those it holds.
StablePages(g, p) == {x \in Page : \E s \in Held(g) : \E k \in 1 .. Base(g) : x = p.table[s][k]}
OwnPages(g, p) == {x \in Page : \E s \in Held(g) : x \in PagesOf(p, s)}
Stable(gs, p) == {x \in Page : \E i \in DOMAIN gs : x \in StablePages(gs[i], p)}
IdleHas(p, d) == {x \in Page : d.seq # None /\ x \in PagesOf(p, d.seq)}

LEMMA ShareFacts ==
  ASSUME NEW j \in Job
  PROVE  /\ Full(j) \in Nat /\ Share(j) \in Nat
         /\ \A n \in Nat : /\ ContinuousPages(j, n) = Full(j) + n * Share(j)
                           /\ ContinuousPages(j, n) \in Nat
                           /\ n <= PromptLen(j) + MaxTokens[j] => PagesFor(n) <= Full(j) + Share(j)
<1>1. PromptLen(j) \in Nat /\ MaxTokens[j] \in Nat
  BY JobFacts
<1>2. /\ Full(j) \in Nat /\ PromptLen(j) % PageTokens \in Nat
      /\ PagesFor(PromptLen(j) + MaxTokens[j]) = Full(j) + Share(j)
  BY <1>1, PagesForSum DEF Full, Share
<1>3. Share(j) \in Nat
  BY <1>1, <1>2, PagesForType DEF Share
<1>4. ASSUME NEW n \in Nat PROVE ContinuousPages(j, n) = Full(j) + n * Share(j) /\ ContinuousPages(j, n) \in Nat
  <2>1. ContinuousPages(j, n) = Full(j) + n * Share(j)
    BY DEF ContinuousPages, Full, Share
  <2>2. ContinuousPages(j, n) \in Nat
    BY ContinuousPagesType
  <2> QED
    BY <2>1, <2>2
<1>5. ASSUME NEW n \in Nat, n <= PromptLen(j) + MaxTokens[j] PROVE PagesFor(n) <= Full(j) + Share(j)
  <2>1. PromptLen(j) + MaxTokens[j] \in Nat
    BY <1>1
  <2>2. PagesFor(n) <= PagesFor(PromptLen(j) + MaxTokens[j])
    BY <1>5, <2>1, PagesForMonotonic
  <2> QED
    BY <1>2, <2>2
<1> QED
  BY <1>2, <1>3, <1>4, <1>5

LEMMA OneShare ==
  ASSUME NEW j \in Job
  PROVE  Full(j) + Share(j) <= ContinuousPages(j, NChoices[j])
<1>1. PICK n \in Nat : n = NChoices[j] /\ n >= 1
  BY JobFacts
<1>2. PICK f \in Nat, s \in Nat : f = Full(j) /\ s = Share(j)
  BY ShareFacts
<1>3. ContinuousPages(j, n) = f + n * s
  BY <1>2, ShareFacts
<1>4. n * s >= s
  BY <1>1
<1>5. f + s <= f + n * s
  BY <1>1, <1>4
<1> QED
  BY <1>1, <1>2, <1>3, <1>5

LEMMA HeldFinite ==
  ASSUME NEW g \in GroupType
  PROVE  /\ Held(g) \subseteq Slot /\ IsFiniteSet(Held(g)) /\ Cardinality(Held(g)) \in Nat
         /\ Held(g) # {} => Cardinality(Held(g)) >= 1
<1>1. Held(g) \subseteq Slot
  BY HeldSlots
<1>2. IsFiniteSet(Held(g)) /\ Cardinality(Held(g)) \in Nat
  BY <1>1, SlotFinite
<1>3. Held(g) # {} => Cardinality(Held(g)) # 0
  BY <1>2, FS_EmptySet
<1> QED
  BY <1>1, <1>2, <1>3

LEMMA OwedFacts ==
  ASSUME NEW g \in GroupType
  PROVE  /\ Base(g) \in Nat /\ Allot(g) \in Nat /\ Owed(g) \in Nat
         /\ Held(g) # {} => Owed(g) = Base(g) + Cardinality(Held(g)) * Allot(g)
<1>1. g.job \in Job /\ NChoices[g.job] \in Nat
  BY GroupFields, JobFacts
<1>2. Full(g.job) \in Nat /\ Share(g.job) \in Nat /\ ContinuousPages(g.job, NChoices[g.job]) \in Nat
  BY <1>1, ShareFacts
<1>3. Base(g) \in Nat /\ Allot(g) \in Nat
  BY <1>2 DEF Base, Allot
<1>4. PICK n \in Nat, a \in Nat, b \in Nat : n = Cardinality(Held(g)) /\ a = Allot(g) /\ b = Base(g)
  BY <1>3, HeldFinite
<1>5. b + n * a \in Nat
  BY <1>4
<1> QED
  BY <1>3, <1>4, <1>5 DEF Owed

-----------------------------------------------------------------------------
(***************************************************************************)
(* One group                                                               *)
(***************************************************************************)
\* Between two batches: what the prompt, or the rows of each choice, take.
ChoiceFits(g, p, s) ==
  /\ PromptLen(g.job) <= p.past[s] /\ p.past[s] < PromptLen(g.job) + MaxTokens[g.job]
  /\ Len(p.table[s]) <= PagesFor(p.past[s])

Common(g, p) ==
  \A s, t \in Held(g) : \A k \in 1 .. Base(g) : p.table[s][k] = p.table[t][k]

GroupFits(g, p) ==
  /\ g.root # None => /\ g.credits = ContinuousPages(g.job, NChoices[g.job])
                      /\ Len(p.table[g.root]) <= PagesFor(PromptLen(g.job))
  /\ \A c \in Unfinished(g) : ChoiceFits(g, p, g.choices[c].seq)
  /\ Common(g, p)

\* Also while a batch is prepared: no sequence of the group has more than its
\* allotment, and none is about to write to a page they have in common.
Fitting(g, p) ==
  /\ \A s \in Held(g) : /\ Base(g) <= Len(p.table[s])
                        /\ Len(p.table[s]) <= Base(g) + Allot(g)
                        /\ Base(g) < TailIndex(p.past[s])
  /\ Common(g, p)

LEMMA FitsIsFitting ==
  ASSUME NEW gs, NEW p, NEW t, NEW d, World(gs, p, t, d), NEW i \in DOMAIN gs,
         GroupFits(gs[i], p)
  PROVE  Fitting(gs[i], p)
<1>1. PICK g \in GroupType : g = gs[i] /\ GroupSound(g, p, t)
  BY WorldGroups DEF World
<1>2. p \in Pool /\ PoolInv(p) /\ \A s \in Held(g) : s \in Slot /\ p.live[s]
  BY <1>1, WorldGroups DEF World
<1>3. g.job \in Job
  BY GroupFields
<1>4. PICK P \in Nat, M \in Nat, F \in Nat, S \in Nat :
        P = PromptLen(g.job) /\ M = MaxTokens[g.job] /\ F = Full(g.job) /\ S = Share(g.job)
  BY <1>3, JobFacts, ShareFacts
<1>5. ASSUME NEW s \in Held(g)
      PROVE  /\ Base(g) <= Len(p.table[s]) /\ Len(p.table[s]) <= Base(g) + Allot(g)
             /\ Base(g) < TailIndex(p.past[s])
  <2>1. PICK l \in Nat, n \in Nat : l = Len(p.table[s]) /\ n = p.past[s]
    BY <1>2, TableLengths
  <2>2. PagesFor(n) <= l
    BY <1>2, <2>1 DEF PoolInv, TablesCover
  <2>3. PagesFor(n) \in Nat /\ TailIndex(n) \in Nat /\ TailIndex(n) > 0
    BY PagesForType
  <2>4. CASE g.root # None
    <3>1. s = g.root /\ Base(g) = 0 /\ Allot(g) = ContinuousPages(g.job, NChoices[g.job])
      <4>1. g.choices = << >>
        BY <1>1, <2>4 DEF GroupSound, RootSound
      <4> QED
        BY <2>4, <4>1, RootAlone DEF Base, Allot
    <3>2. l <= PagesFor(P)
      BY <1>1, <1>4, <2>1, <2>4, <3>1 DEF GroupFits
    <3>3. PagesFor(P) <= F + S
      BY <1>3, <1>4, ShareFacts
    <3>4. F + S <= Allot(g)
      BY <1>3, <1>4, <3>1, OneShare
    <3>5. Allot(g) \in Nat /\ PagesFor(P) \in Nat
      BY OwedFacts, PagesForType
    <3> QED
      BY <1>4, <2>1, <2>3, <3>1, <3>2, <3>3, <3>4, <3>5, SMTT(30)
  <2>5. CASE g.root = None
    <3>1. Base(g) = F /\ Allot(g) = S
      BY <1>4, <2>5 DEF Base, Allot
    <3>2. PICK c \in Unfinished(g) : s = g.choices[c].seq
      BY <1>2, <2>5, HeldSlots, NoneIsNoSlot
    <3>3. P <= n /\ n < P + M /\ l <= PagesFor(n)
      BY <1>1, <1>4, <2>1, <3>2 DEF GroupFits, ChoiceFits
    <3>4. n <= P + M
      BY <3>3
    <3>5. PagesFor(n) <= F + S
      BY <1>3, <1>4, <3>4, ShareFacts
    <3>6. F < TailIndex(n) /\ F <= PagesFor(n)
      BY <1>4, <3>3, FullPagesWithin DEF Full
    <3> QED
      BY <1>4, <2>1, <2>2, <2>3, <3>1, <3>3, <3>5, <3>6, SMTT(30)
  <2> QED
    BY <2>4, <2>5
<1>6. Common(g, p)
  BY <1>1 DEF GroupFits
<1> QED
  BY <1>1, <1>5, <1>6 DEF Fitting

LEMMA StableAt ==
  ASSUME NEW g \in GroupType, NEW p \in Pool, Fitting(g, p), NEW s \in Held(g)
  PROVE  /\ s \in Slot
         /\ \A x : x \in StablePages(g, p) <=> \E k \in 1 .. Base(g) : x = p.table[s][k]
         /\ \A k \in 1 .. Base(g) : p.table[s][k] \in StablePages(g, p)
         /\ StablePages(g, p) \subseteq PagesOf(p, s)
         /\ IsFiniteSet(StablePages(g, p)) /\ Cardinality(StablePages(g, p)) \in Nat
         /\ Cardinality(StablePages(g, p)) <= Base(g)
<1>1. s \in Slot
  BY HeldSlots
<1>2. PICK b \in Nat, l \in Nat, tab \in Seq(Page) :
        b = Base(g) /\ l = Len(p.table[s]) /\ tab = p.table[s] /\ b <= l
  BY <1>1, OwedFacts, PagesInPage, PoolFields DEF Fitting
<1>3. \A k \in 1 .. b : tab[k] \in Page /\ k \in DOMAIN tab
  BY <1>2
<1>4. \A x : x \in StablePages(g, p) <=> \E k \in 1 .. Base(g) : x = p.table[s][k]
  <2>1. \A r \in Held(g) : \A k \in 1 .. b : p.table[r][k] = tab[k]
    BY <1>2 DEF Fitting, Common
  <2> QED
    BY <1>2, <1>3, <2>1 DEF StablePages
<1>5. \A k \in 1 .. Base(g) : p.table[s][k] \in StablePages(g, p)
  BY <1>4
<1>6. StablePages(g, p) \subseteq PagesOf(p, s)
  BY <1>2, <1>3, <1>4 DEF PagesOf, Elems
<1>7. IsFiniteSet(StablePages(g, p)) /\ Cardinality(StablePages(g, p)) <= Base(g)
  BY <1>1, <1>2, <1>4, PagesBefore
<1>8. Cardinality(StablePages(g, p)) \in Nat
  BY <1>7, FS_CardinalityType
<1> QED
  BY <1>1, <1>4, <1>5, <1>6, <1>7, <1>8

\* The pages of group g that still have to be there once s has got what it
\* needs to reach end: a shared tail is left to the others.
StillHeld(g, p, s, end) ==
  {x \in Page : \/ x \in StablePages(g, p)
                \/ \E t \in Held(g) : t # s /\ x \in PagesOf(p, t)
                \/ x \in PagesOf(p, s) /\ ~(Shared(p, s, end) /\ x = TailPage(p, s))}

\* The private part of s after that is within the allotment.
LEMMA PrivatePart ==
  ASSUME NEW g \in GroupType, NEW p \in Pool, PoolInv(p), Fitting(g, p), NEW s \in Held(g),
         NEW end \in Nat, PagesFor(end) <= Base(g) + Allot(g),
         NEW D, D = {x \in PagesOf(p, s) \ StablePages(g, p) : ~(Shared(p, s, end) /\ x = TailPage(p, s))}
  PROVE  IsFiniteSet(D) /\ Cardinality(D) \in Nat /\ Cardinality(D) + Needed(p, s, end) <= Allot(g)
<1>1. s \in Slot
  BY HeldSlots
<1>2. PICK b \in Nat, a \in Nat, l \in Nat, e \in Nat :
        b = Base(g) /\ a = Allot(g) /\ l = Len(p.table[s]) /\ e = PagesFor(end)
  BY <1>1, OwedFacts, PagesInPage, PagesForType
<1>3. b <= l /\ l <= b + a /\ e <= b + a /\ b < TailIndex(p.past[s])
  BY <1>2 DEF Fitting
<1>4. PICK C : C = PagesOf(p, s) \ StablePages(g, p)
  OBVIOUS
<1>5. IsFiniteSet(C) /\ Cardinality(C) <= l - b
  <2>1. \A k \in 1 .. b : p.table[s][k] \in StablePages(g, p)
    BY <1>2, StableAt
  <2> QED
    BY <1>1, <1>2, <1>3, <1>4, <2>1, PagesBehind
<1>6. PICK c \in Nat : c = Cardinality(C) /\ c <= l - b
  BY <1>5, FS_CardinalityType
<1>7. PICK grow \in Nat : grow = Grow(p, s, end) /\ l - b + grow <= a
  <2>1. Grow(p, s, end) = IF e > l THEN e - l ELSE 0
    BY <1>2 DEF Grow
  <2> QED
    BY <1>2, <1>3, <2>1
<1>8. CASE ~Shared(p, s, end)
  <2>1. D = C /\ Needed(p, s, end) = grow
    BY <1>4, <1>7, <1>8 DEF Needed
  <2> QED
    <3>1. c + grow <= a
      BY <1>6, <1>7
    <3>2. IsFiniteSet(D) /\ Cardinality(D) = c
      BY <1>5, <1>6, <2>1
    <3> QED
      BY <1>2, <2>1, <3>1, <3>2
<1>9. CASE Shared(p, s, end)
  <2>1. Needed(p, s, end) = grow + 1
    BY <1>7, <1>9 DEF Needed
  <2>9. PICK k \in Nat : k = TailIndex(p.past[s])
    BY <1>1, PoolFields, PagesForType
  <2>10. PICK x : x = TailPage(p, s)
    OBVIOUS
  <2>2. k = TailIndex(p.past[s]) /\ x = TailPage(p, s)
    BY <2>9, <2>10
  <2>3. b < k /\ k <= l /\ x = p.table[s][k] /\ k \in DOMAIN p.table[s]
    BY <1>1, <1>2, <1>3, <1>9, <2>2, PagesInPage DEF Shared, TailPage
  <2>4. x \in PagesOf(p, s)
    BY <1>1, <2>3, PagesInPage
  <2>5. x \notin StablePages(g, p)
    <3>1. SUFFICES ASSUME NEW m \in 1 .. b, x = p.table[s][m] PROVE FALSE
      BY <1>2, StableAt
    <3>2. m \in DOMAIN p.table[s] /\ m # k
      BY <1>1, <1>2, <1>3, <2>3, PagesInPage
    <3> QED
      BY <1>1, <2>3, <3>1, <3>2 DEF PoolInv, TablesDistinct
  <2>6. D = C \ {x} /\ x \in C
    BY <1>4, <1>9, <2>2, <2>4, <2>5
  <2>7. IsFiniteSet(D) /\ Cardinality(D) = Cardinality(C) - 1
    BY <1>5, <2>6, FS_RemoveElement
  <2>8. PICK n \in Nat : n = Cardinality(D)
    BY <2>7, FS_CardinalityType
  <2>11. n + (grow + 1) <= a
    BY <1>6, <1>7, <2>7, <2>8
  <2> QED
    BY <1>2, <2>1, <2>7, <2>8, <2>11
<1> QED
  BY <1>8, <1>9

LEMMA CupBound ==
  ASSUME NEW S, IsFiniteSet(S), NEW T, IsFiniteSet(T), NEW m \in Int, Cardinality(S) <= m,
         NEW n \in Int, Cardinality(T) <= n, NEW U, U \subseteq S \cup T
  PROVE  IsFiniteSet(U) /\ Cardinality(U) \in Nat /\ Cardinality(U) <= m + n
<1>1. /\ IsFiniteSet(S \cup T)
      /\ Cardinality(S \cup T) = Cardinality(S) + Cardinality(T) - Cardinality(S \cap T)
  BY FS_Union
<1>2. IsFiniteSet(S \cap T)
  BY FS_Intersection
<1>3. /\ Cardinality(S) \in Nat /\ Cardinality(T) \in Nat /\ Cardinality(S \cap T) \in Nat
      /\ Cardinality(S \cup T) \in Nat
  BY <1>1, <1>2, FS_CardinalityType
<1>4. IsFiniteSet(U) /\ Cardinality(U) <= Cardinality(S \cup T)
  BY <1>1, FS_Subset
<1>5. Cardinality(U) \in Nat
  BY <1>4, FS_CardinalityType
<1> QED
  BY <1>1, <1>3, <1>4, <1>5

LEMMA GroupNeed ==
  ASSUME NEW g \in GroupType, NEW p \in Pool, PoolInv(p), Fitting(g, p), NEW s \in Held(g),
         NEW end \in Nat, PagesFor(end) <= Base(g) + Allot(g),
         NEW A, A = StillHeld(g, p, s, end)
  PROVE  IsFiniteSet(A) /\ Cardinality(A) \in Nat /\ Cardinality(A) + Needed(p, s, end) <= Owed(g)
<1>1. /\ Held(g) \subseteq Slot /\ IsFiniteSet(Held(g))
      /\ \A t \in Held(g) : IsFiniteSet(PagesOf(p, t) \ StablePages(g, p))
                            /\ Cardinality(PagesOf(p, t) \ StablePages(g, p)) <= Allot(g)
  <2>1. Held(g) \subseteq Slot /\ IsFiniteSet(Held(g))
    BY HeldFinite
  <2>2. ASSUME NEW t \in Held(g)
        PROVE  IsFiniteSet(PagesOf(p, t) \ StablePages(g, p))
               /\ Cardinality(PagesOf(p, t) \ StablePages(g, p)) <= Allot(g)
    <3>1. PICK b \in Nat, a \in Nat, l \in Nat : b = Base(g) /\ a = Allot(g) /\ l = Len(p.table[t])
      BY <2>1, OwedFacts, PagesInPage
    <3>2. b <= l /\ l <= b + a
      BY <3>1 DEF Fitting
    <3>3. \A k \in 1 .. b : p.table[t][k] \in StablePages(g, p)
      BY <3>1, StableAt
    <3>4. PICK C : C = PagesOf(p, t) \ StablePages(g, p)
      OBVIOUS
    <3>5. IsFiniteSet(C) /\ Cardinality(C) <= l - b
      BY <2>1, <3>1, <3>2, <3>3, <3>4, PagesBehind
    <3>6. Cardinality(C) \in Nat
      BY <3>5, FS_CardinalityType
    <3>7. Cardinality(C) <= a
      BY <3>1, <3>2, <3>5, <3>6
    <3> QED
      BY <3>1, <3>4, <3>5, <3>7
  <2> QED
    BY <2>1, <2>2
<1>2. PICK D : D = {x \in PagesOf(p, s) \ StablePages(g, p) : ~(Shared(p, s, end) /\ x = TailPage(p, s))}
  OBVIOUS
<1>3. PICK a \in Nat, b \in Nat, n \in Nat, need \in Nat :
        /\ a = Allot(g) /\ b = Base(g) /\ n = Cardinality(Held(g)) /\ need = Needed(p, s, end)
        /\ IsFiniteSet(D) /\ Cardinality(D) <= a - need
  <2>1. IsFiniteSet(D) /\ Cardinality(D) \in Nat /\ Cardinality(D) + Needed(p, s, end) <= Allot(g)
    BY <1>2, PrivatePart
  <2>2. PICK a \in Nat, b \in Nat, n \in Nat : a = Allot(g) /\ b = Base(g) /\ n = Cardinality(Held(g))
    BY OwedFacts, HeldFinite
  <2>3. PICK need \in Nat : need = Needed(p, s, end)
    BY <1>1, NeedNat
  <2>4. Cardinality(D) <= a - need
    BY <2>1, <2>2, <2>3
  <2> QED
    BY <2>1, <2>2, <2>3, <2>4
<1>4. PICK P : P = [t \in Held(g) |-> IF t = s THEN D ELSE PagesOf(p, t) \ StablePages(g, p)]
  OBVIOUS
<1>5. PICK f : f = [t \in Held(g) |-> IF t = s THEN a - need ELSE a]
  OBVIOUS
<1>6. PICK e : e = [t \in Held(g) |-> a]
  OBVIOUS
<1>7. \A t \in Held(g) : IsFiniteSet(P[t]) /\ f[t] \in Int /\ Cardinality(P[t]) <= f[t]
  <2> SUFFICES ASSUME NEW t \in Held(g)
               PROVE  IsFiniteSet(P[t]) /\ f[t] \in Int /\ Cardinality(P[t]) <= f[t]
    OBVIOUS
  <2>1. CASE t = s
    <3>1. P[t] = D /\ f[t] = a - need
      BY <1>4, <1>5, <2>1
    <3> QED
      BY <1>3, <3>1
  <2>2. CASE t # s
    <3>1. P[t] = PagesOf(p, t) \ StablePages(g, p) /\ f[t] = a
      BY <1>4, <1>5, <2>2
    <3>2. PICK C : C = PagesOf(p, t) \ StablePages(g, p)
      OBVIOUS
    <3>3. IsFiniteSet(C) /\ Cardinality(C) <= a
      BY <1>1, <1>3, <3>2
    <3>4. P[t] = C
      BY <3>1, <3>2
    <3> QED
      BY <3>1, <3>3, <3>4
  <2> QED
    BY <2>1, <2>2
<1>8. PICK U : U = UNION {P[t] : t \in Held(g)}
  OBVIOUS
<1>9. IsFiniteSet(U) /\ Cardinality(U) <= SumFunctionOnSet(f, Held(g))
  BY <1>1, <1>7, <1>8, UnionBound
<1>10. SumFunctionOnSet(e, Held(g)) = n * a
  BY <1>1, <1>3, <1>6, SumAllSame
<1>11. SumFunctionOnSet(f, Held(g)) - f[s] = SumFunctionOnSet(e, Held(g)) - e[s]
  BY <1>1, <1>5, <1>6, SumChange
<1>12. SumFunctionOnSet(f, Held(g)) = n * a - need
  <2>1. f[s] = a - need /\ e[s] = a
    BY <1>5, <1>6
  <2>2. SumFunctionOnSet(f, Held(g)) \in Int /\ n * a \in Int
    BY <1>1, <1>5, SumInt
  <2> QED
    <3>1. PICK m \in Int, k \in Int : m = n * a /\ k = SumFunctionOnSet(f, Held(g))
      BY <2>2
    <3>2. k - (a - need) = m - a
      BY <1>10, <1>11, <2>1, <3>1
    <3>3. k = m - need
      BY <3>2
    <3> QED
      BY <3>1, <3>3
<1>13. A \subseteq StablePages(g, p) \cup U
  <2>1. SUFFICES ASSUME NEW x \in A, x \notin StablePages(g, p) PROVE x \in U
    OBVIOUS
  <2>2. CASE \E t \in Held(g) : t # s /\ x \in PagesOf(p, t)
    BY <1>4, <1>8, <2>1, <2>2
  <2>3. CASE x \in PagesOf(p, s) /\ ~(Shared(p, s, end) /\ x = TailPage(p, s))
    <3>1. x \in D
      BY <1>2, <2>1, <2>3
    <3>2. P[s] = D
      BY <1>4
    <3> QED
      BY <1>8, <3>1, <3>2
  <2> QED
    BY <2>1, <2>2, <2>3 DEF StillHeld
<1>14. /\ IsFiniteSet(StablePages(g, p)) /\ Cardinality(StablePages(g, p)) <= b
  BY <1>3, StableAt
<1>15. n * a - need \in Int /\ b \in Int
  BY <1>3
<1>16. IsFiniteSet(A) /\ Cardinality(A) \in Nat /\ Cardinality(A) <= b + (n * a - need)
  BY <1>9, <1>12, <1>13, <1>14, <1>15, CupBound
<1>17. Owed(g) = b + n * a
  BY <1>3, OwedFacts
<1>18. PICK m \in Nat : m = n * a
  BY <1>3
<1>19. Cardinality(A) + need <= b + m
  BY <1>16, <1>18
<1> QED
  BY <1>3, <1>16, <1>17, <1>18, <1>19

\* So the group holds no more than it owes.
LEMMA GroupOwns ==
  ASSUME NEW g \in GroupType, NEW p \in Pool, PoolInv(p), Fitting(g, p)
  PROVE  /\ IsFiniteSet(OwnPages(g, p)) /\ Cardinality(OwnPages(g, p)) \in Nat
         /\ Cardinality(OwnPages(g, p)) <= Owed(g)
<1>1. CASE Held(g) = {}
  <2>1. OwnPages(g, p) = {} /\ Owed(g) = 0
    BY <1>1 DEF OwnPages, Owed
  <2> QED
    BY <2>1, FS_EmptySet
<1>2. CASE Held(g) # {}
  <2>1. PICK s \in Held(g) : s \in Slot
    BY <1>2, HeldSlots
  <2>2. PICK A : A = StillHeld(g, p, s, 0)
    OBVIOUS
  <2>3. PagesFor(0) <= Base(g) + Allot(g)
    BY PagesForZero, OwedFacts
  <2>4. IsFiniteSet(A) /\ Cardinality(A) \in Nat /\ Cardinality(A) + Needed(p, s, 0) <= Owed(g)
    BY <2>2, <2>3, GroupNeed
  <2>5. OwnPages(g, p) \subseteq A
    <3>1. ~Shared(p, s, 0)
      BY <2>1, TableLengths DEF Shared
    <3>2. \A t \in Held(g) : t = s \/ t # s
      OBVIOUS
    <3> QED
      BY <2>2, <3>1, <3>2 DEF OwnPages, StillHeld
  <2>6. IsFiniteSet(OwnPages(g, p)) /\ Cardinality(OwnPages(g, p)) <= Cardinality(A)
    BY <2>4, <2>5, FS_Subset
  <2>7. Cardinality(OwnPages(g, p)) \in Nat
    BY <2>6, FS_CardinalityType
  <2>8. Needed(p, s, 0) \in Nat /\ Owed(g) \in Nat
    BY <2>1, NeedNat, OwedFacts
  <2> QED
    BY <2>4, <2>6, <2>7, <2>8
<1> QED
  BY <1>1, <1>2

-----------------------------------------------------------------------------
(***************************************************************************)
(* All groups and the idle sequence                                        *)
(***************************************************************************)
IdleOnly(gs, p, d) == IdleHas(p, d) \ Stable(gs, p)
Charged(gs, p, d) == Debt(gs) + Cardinality(IdleOnly(gs, p, d)) <= Cardinality(Page)

Housed(gs, p, d) ==
  /\ gs \in Seq(GroupType) /\ p \in Pool /\ PoolInv(p) /\ d \in IdleType
  /\ HeldApart(gs) /\ HeldLive(gs, p, d)

Funded(gs, p, d) ==
  /\ Housed(gs, p, d)
  /\ \A i \in DOMAIN gs : Fitting(gs[i], p)
  /\ Charged(gs, p, d)

LEMMA WorldHoused ==
  ASSUME NEW gs, NEW p, NEW t, NEW d, World(gs, p, t, d)
  PROVE  Housed(gs, p, d)
  BY DEF World, Housed

LEMMA DebtFacts ==
  ASSUME NEW gs \in Seq(GroupType)
  PROVE  /\ IsFiniteSet(DOMAIN gs) /\ Debt(gs) \in Nat
         /\ \A i \in DOMAIN gs : gs[i] \in GroupType /\ Owed(gs[i]) \in Nat
<1>1. Len(gs) \in Nat /\ DOMAIN gs = 1 .. Len(gs)
  OBVIOUS
<1>2. IsFiniteSet(1 .. Len(gs))
  BY <1>1, FS_Interval
<1>3. \A i \in DOMAIN gs : gs[i] \in GroupType
  OBVIOUS
<1>4. \A i \in DOMAIN gs : Owed(gs[i]) \in Nat
  BY <1>3, OwedFacts
<1>5. PICK f : f = [i \in DOMAIN gs |-> Owed(gs[i])]
  OBVIOUS
<1>6. SumFunctionOnSet(f, DOMAIN gs) \in Nat
  <2>1. \A i \in DOMAIN gs : f[i] \in Nat
    BY <1>4, <1>5
  <2> QED
    BY <1>1, <1>2, <2>1, SumNat
<1> QED
  BY <1>1, <1>2, <1>3, <1>4, <1>5, <1>6 DEF Debt

LEMMA PagesCount ==
  ASSUME NEW S, S \subseteq Page
  PROVE  IsFiniteSet(S) /\ Cardinality(S) \in Nat /\ Cardinality(S) <= Cardinality(Page)
         /\ Cardinality(Page) \in Nat
<1>1. IsFiniteSet(S) /\ Cardinality(S) <= Cardinality(Page)
  BY PageAssumption, FS_Subset
<1>2. Cardinality(Page) \in Nat
  BY PageAssumption, FS_CardinalityType
<1>3. Cardinality(S) \in Nat
  BY <1>1, FS_CardinalityType
<1> QED
  BY <1>1, <1>2, <1>3

LEMMA ChargeCount ==
  ASSUME NEW gs, NEW p, NEW d
  PROVE  /\ IdleOnly(gs, p, d) \subseteq Page /\ IsFiniteSet(IdleOnly(gs, p, d))
         /\ Cardinality(IdleOnly(gs, p, d)) \in Nat /\ Cardinality(Page) \in Nat
<1>1. IdleOnly(gs, p, d) \subseteq Page
  BY DEF IdleOnly, IdleHas
<1> QED
  BY <1>1, PagesCount

\* Whoever has a page is the idle sequence or belongs to a group.
LEMMA OwnedBy ==
  ASSUME NEW gs, NEW p, NEW d, Housed(gs, p, d), NEW x \in Page, NEW s \in Owners(p, x)
  PROVE  /\ s \in Slot /\ x \in PagesOf(p, s)
         /\ \/ d.seq = s /\ x \in IdleHas(p, d)
            \/ \E i \in DOMAIN gs : s \in Held(gs[i]) /\ x \in OwnPages(gs[i], p)
<1>1. s \in Slot /\ x \in PagesOf(p, s)
  BY DEF Owners
<1>2. p.live[s]
  <2>1. p.table[s] # << >>
    BY <1>1 DEF PagesOf, Elems
  <2> QED
    BY <1>1, <2>1 DEF Housed, PoolInv, TablesCover
<1>3. d.seq = s \/ \E i \in DOMAIN gs : s \in Held(gs[i])
  BY <1>1, <1>2 DEF Housed, HeldLive
<1>4. CASE d.seq = s
  BY <1>1, <1>4, NoneIsNoSlot DEF IdleHas
<1>5. CASE \E i \in DOMAIN gs : s \in Held(gs[i])
  BY <1>1, <1>5 DEF OwnPages
<1> QED
  BY <1>1, <1>3, <1>4, <1>5

\* What stays held, group by group, when s gets what it needs to reach end.
LEMMA HeldAfter ==
  ASSUME NEW gs, NEW p, NEW d, Housed(gs, p, d), \A k \in DOMAIN gs : Fitting(gs[k], p),
         NEW i \in DOMAIN gs, NEW s \in Held(gs[i]), NEW end,
         NEW x \in Page \ p.free
  PROVE  \/ x \in IdleOnly(gs, p, d)
         \/ x \in StillHeld(gs[i], p, s, end)
         \/ \E k \in DOMAIN gs : k # i /\ x \in OwnPages(gs[k], p)
<1>0. p \in Pool /\ PoolInv(p) /\ s \in Slot /\ p.refs[x] \in Nat
  BY HeldSlots, PoolFields DEF Housed
<1>1. p.refs[x] = Cardinality(Owners(p, x)) /\ p.refs[x] # 0
  BY <1>0 DEF PoolInv, RefsCounted, FreeCounted
<1>2. ASSUME NEW r \in Owners(p, x), r # s
      PROVE  \/ x \in IdleOnly(gs, p, d)
             \/ x \in StillHeld(gs[i], p, s, end)
             \/ \E k \in DOMAIN gs : k # i /\ x \in OwnPages(gs[k], p)
  <2>1. r \in Slot /\ x \in PagesOf(p, r)
    BY OwnedBy
  <2>2. CASE \E k \in DOMAIN gs : r \in Held(gs[k]) /\ x \in OwnPages(gs[k], p)
    BY <1>2, <2>1, <2>2 DEF StillHeld
  <2>3. CASE d.seq = r /\ x \in IdleHas(p, d)
    <3>1. CASE x \notin Stable(gs, p)
      BY <2>3, <3>1 DEF IdleOnly
    <3>2. CASE x \in Stable(gs, p)
      <4>1. PICK k \in DOMAIN gs : x \in StablePages(gs[k], p)
        BY <3>2 DEF Stable
      <4>2. CASE k = i
        BY <4>1, <4>2 DEF StillHeld
      <4>3. CASE k # i
        <5>1. PICK u \in Held(gs[k]) : \E m \in 1 .. Base(gs[k]) : x = p.table[u][m]
          BY <4>1 DEF StablePages
        <5>2. gs[k] \in GroupType
          BY DEF Housed
        <5>3. x \in PagesOf(p, u)
          BY <1>0, <4>1, <5>2, StableAt
        <5> QED
          BY <4>3, <5>3 DEF OwnPages
      <4> QED
        BY <4>2, <4>3
    <3> QED
      BY <3>1, <3>2
  <2> QED
    BY <2>2, <2>3, OwnedBy
<1>3. CASE \E r \in Owners(p, x) : r # s
  BY <1>2, <1>3
<1>4. CASE \A r \in Owners(p, x) : r = s
  <2>1. Owners(p, x) # {} /\ Owners(p, x) \subseteq {s}
    <3>1. Owners(p, x) # {}
      BY <1>1, FS_EmptySet
    <3> QED
      BY <1>4, <3>1
  <2>2. Owners(p, x) = {s}
    BY <2>1
  <2>3. p.refs[x] = 1
    BY <1>1, <2>2, CountOne
  <2>4. x \in PagesOf(p, s)
    BY <2>2, OwnedBy
  <2>5. ~(Shared(p, s, end) /\ x = TailPage(p, s))
    BY <2>3 DEF Shared, TailPage
  <2> QED
    BY <2>4, <2>5 DEF StillHeld
<1> QED
  BY <1>3, <1>4

\* A sequence that stays within the allotment of its group finds the pages free.
LEMMA NeedFits ==
  ASSUME NEW gs, NEW p, NEW d, Funded(gs, p, d),
         NEW i \in DOMAIN gs, NEW s \in Held(gs[i]),
         NEW end \in Nat, PagesFor(end) <= Base(gs[i]) + Allot(gs[i])
  PROVE  Needed(p, s, end) <= Cardinality(p.free)
<1>1. /\ gs \in Seq(GroupType) /\ p \in Pool /\ PoolInv(p) /\ Housed(gs, p, d)
      /\ \A k \in DOMAIN gs : gs[k] \in GroupType /\ Fitting(gs[k], p)
  BY DEF Funded, Housed
<1>2. s \in Slot /\ p.free \in SUBSET Page
  BY <1>1, HeldSlots, PoolFields
<1>3. PICK need \in Nat : need = Needed(p, s, end)
  BY <1>1, <1>2, NeedNat
<1>4. PICK A : A = StillHeld(gs[i], p, s, end)
  OBVIOUS
<1>5. PICK P : P = [k \in DOMAIN gs |-> IF k = i THEN A ELSE OwnPages(gs[k], p)]
  OBVIOUS
<1>6. PICK o : o = [k \in DOMAIN gs |-> Owed(gs[k])]
  OBVIOUS
<1>7. PICK f : f = [k \in DOMAIN gs |-> IF k = i THEN o[i] - need ELSE o[k]]
  OBVIOUS
<1>8. IsFiniteSet(DOMAIN gs) /\ \A k \in DOMAIN gs : o[k] \in Nat /\ f[k] \in Int
  BY <1>1, <1>3, <1>6, <1>7, DebtFacts
<1>9. ASSUME NEW k \in DOMAIN gs
      PROVE  IsFiniteSet(P[k]) /\ Cardinality(P[k]) <= f[k]
  <2>1. CASE k = i
    <3>1. P[k] = A /\ f[k] = o[i] - need /\ o[i] = Owed(gs[i])
      BY <1>5, <1>6, <1>7, <2>1
    <3>2. IsFiniteSet(A) /\ Cardinality(A) \in Nat /\ Cardinality(A) + need <= Owed(gs[i])
      BY <1>1, <1>3, <1>4, GroupNeed
    <3>3. PICK c \in Nat : c = Cardinality(A)
      BY <3>2
    <3>4. c <= o[i] - need
      BY <1>3, <1>8, <3>1, <3>2, <3>3
    <3> QED
      BY <3>1, <3>2, <3>3, <3>4
  <2>2. CASE k # i
    <3>1. P[k] = OwnPages(gs[k], p) /\ f[k] = Owed(gs[k])
      BY <1>5, <1>6, <1>7, <2>2
    <3> QED
      BY <1>1, <3>1, GroupOwns
  <2> QED
    BY <2>1, <2>2
<1>10. PICK U : U = UNION {P[k] : k \in DOMAIN gs}
  OBVIOUS
<1>11. IsFiniteSet(U) /\ Cardinality(U) <= SumFunctionOnSet(f, DOMAIN gs)
  BY <1>8, <1>9, <1>10, UnionBound
<1>12. SumFunctionOnSet(f, DOMAIN gs) - f[i] = SumFunctionOnSet(o, DOMAIN gs) - o[i]
  BY <1>7, <1>8, SumChange
<1>13. PICK debt \in Nat : debt = Debt(gs) /\ debt = SumFunctionOnSet(o, DOMAIN gs)
  BY <1>1, <1>6, DebtFacts DEF Debt
<1>14. PICK sum \in Int : sum = SumFunctionOnSet(f, DOMAIN gs)
  BY <1>8, SumInt
<1>15. sum = debt - need
  <2>1. PICK v \in Nat : v = o[i] /\ f[i] = v - need
    BY <1>7, <1>8
  <2>2. sum - (v - need) = debt - v
    BY <1>12, <1>13, <1>14, <2>1
  <2> QED
    BY <2>2
<1>16. Page \ p.free \subseteq U \cup IdleOnly(gs, p, d)
  <2>1. SUFFICES ASSUME NEW x \in Page \ p.free, x \notin IdleOnly(gs, p, d) PROVE x \in U
    OBVIOUS
  <2>2. x \in A \/ \E k \in DOMAIN gs : k # i /\ x \in OwnPages(gs[k], p)
    BY <1>1, <1>4, <2>1, HeldAfter
  <2>3. \E k \in DOMAIN gs : x \in P[k]
    BY <1>5, <2>2
  <2> QED
    BY <1>10, <2>3
<1>17. PICK idle0 \in Nat, all \in Nat :
         idle0 = Cardinality(IdleOnly(gs, p, d)) /\ all = Cardinality(Page)
  BY ChargeCount
<1>18. PICK held : held = Page \ p.free
  OBVIOUS
<1>19. Cardinality(held) \in Nat /\ Cardinality(held) <= sum + idle0
  <2>1. IsFiniteSet(IdleOnly(gs, p, d)) /\ Cardinality(IdleOnly(gs, p, d)) <= idle0
    BY <1>17, ChargeCount
  <2> QED
    BY <1>11, <1>14, <1>16, <1>18, <2>1, CupBound
<1>20. Cardinality(held) = all - Cardinality(p.free) /\ Cardinality(p.free) \in Nat
  <2>1. Page \in SUBSET Page
    OBVIOUS
  <2>2. Cardinality(held) = all - Cardinality(p.free)
    BY <1>2, <1>17, <1>18, <2>1, FreeLess
  <2>3. Cardinality(p.free) \in Nat
    BY <1>2, PagesCount
  <2> QED
    BY <2>2, <2>3
<1>21. debt + idle0 <= all
  BY <1>13, <1>17 DEF Funded, Charged
<1>22. PICK free \in Nat, h \in Nat : free = Cardinality(p.free) /\ h = Cardinality(held)
  BY <1>19, <1>20
<1>23. need <= free
  BY <1>15, <1>19, <1>20, <1>21, <1>22
<1> QED
  BY <1>3, <1>22, <1>23

\* A step that gives up what its groups no longer owe may charge so much more
\* to the idle sequence.
LEMMA Paid ==
  ASSUME NEW gs \in Seq(GroupType), NEW p, NEW d, Charged(gs, p, d),
         NEW hs \in Seq(GroupType), NEW q, NEW e,
         NEW D, IsFiniteSet(D), NEW c \in Nat, Cardinality(D) <= c,
         Debt(hs) + c <= Debt(gs), IdleOnly(hs, q, e) \subseteq IdleOnly(gs, p, d) \cup D
  PROVE  Charged(hs, q, e)
<1>1. PICK a \in Nat, b \in Nat : a = Debt(gs) /\ b = Debt(hs)
  BY DebtFacts
<1>2. PICK m \in Nat, all \in Nat : m = Cardinality(IdleOnly(gs, p, d)) /\ all = Cardinality(Page)
  BY ChargeCount
<1>3. IsFiniteSet(IdleOnly(gs, p, d))
  BY ChargeCount
<1>4. PICK U, n : U = IdleOnly(hs, q, e) /\ n = Cardinality(U)
  OBVIOUS
<1>5. PICK S : S = IdleOnly(gs, p, d)
  OBVIOUS
<1>6. n \in Nat /\ n <= m + c
  <2>1. IsFiniteSet(S) /\ Cardinality(S) <= m /\ m \in Int /\ c \in Int /\ U \subseteq S \cup D
    BY <1>2, <1>3, <1>4, <1>5
  <2> QED
    BY <1>4, <2>1, CupBound
<1>7. a + m <= all
  BY <1>1, <1>2 DEF Charged
<1>8. b + c <= a
  BY <1>1
<1>9. b + n <= all
  BY <1>1, <1>2, <1>6, <1>7, <1>8
<1> QED
  BY <1>1, <1>2, <1>4, <1>9 DEF Charged

LEMMA SameDebt ==
  ASSUME NEW gs \in Seq(GroupType), NEW hs \in Seq(GroupType), DOMAIN hs = DOMAIN gs,
         \A i \in DOMAIN gs : Owed(hs[i]) = Owed(gs[i])
  PROVE  Debt(hs) = Debt(gs)
<1>1. PICK f, g : f = [i \in DOMAIN gs |-> Owed(gs[i])] /\ g = [i \in DOMAIN gs |-> Owed(hs[i])]
  OBVIOUS
<1>2. IsFiniteSet(DOMAIN gs) /\ \A i \in DOMAIN gs : Owed(gs[i]) \in Nat
  BY DebtFacts
<1>3. \A i \in DOMAIN gs : f[i] = g[i] /\ f[i] \in Int
  BY <1>1, <1>2
<1>4. SumFunctionOnSet(f, DOMAIN gs) = SumFunctionOnSet(g, DOMAIN gs)
  BY <1>2, <1>3, SumSame
<1> QED
  BY <1>1, <1>4 DEF Debt

\* A step that leaves the groups what they owe and share, and the idle
\* sequence its pages.
LEMMA ChargeKept ==
  ASSUME NEW gs \in Seq(GroupType), NEW p, NEW d, Charged(gs, p, d),
         NEW hs \in Seq(GroupType), DOMAIN hs = DOMAIN gs, NEW q,
         \A i \in DOMAIN gs : Owed(hs[i]) = Owed(gs[i]),
         \A i \in DOMAIN gs : StablePages(gs[i], p) \subseteq StablePages(hs[i], q),
         IdleHas(q, d) \subseteq IdleHas(p, d)
  PROVE  Charged(hs, q, d)
<1>1. Debt(hs) = Debt(gs) /\ Debt(gs) \in Nat
  BY SameDebt, DebtFacts
<1>2. IsFiniteSet({}) /\ Cardinality({}) = 0
  BY FS_EmptySet
<1>3. Stable(gs, p) \subseteq Stable(hs, q)
  BY DEF Stable
<1>4. IdleOnly(hs, q, d) \subseteq IdleOnly(gs, p, d) \cup {}
  BY <1>3 DEF IdleOnly
<1>5. Debt(hs) + 0 <= Debt(gs) /\ Cardinality({}) <= 0
  BY <1>1, <1>2
<1> QED
  BY <1>2, <1>4, <1>5, Paid

\* One sequence is prepared: nobody loses a page kept for good.
LEMMA PrepareFunded ==
  ASSUME NEW gs, NEW p, NEW d, Funded(gs, p, d),
         NEW i \in DOMAIN gs, NEW s \in Held(gs[i]),
         NEW end \in Nat, PagesFor(end) <= Base(gs[i]) + Allot(gs[i]), end > p.past[s],
         NEW new \in Picks(p.free, Needed(p, s, end)),
         NEW q, q = Prepare(p, s, end, new)
  PROVE  Funded(gs, q, d)
<1>1. /\ gs \in Seq(GroupType) /\ p \in Pool /\ PoolInv(p) /\ d \in IdleType
      /\ HeldApart(gs) /\ HeldLive(gs, p, d)
      /\ \A k \in DOMAIN gs : gs[k] \in GroupType /\ Fitting(gs[k], p)
  BY DEF Funded, Housed
<1>2. s \in Slot /\ p.live[s] /\ d.seq # s
  BY <1>1, HeldSlots DEF HeldLive
<1>3. /\ q \in Pool /\ PoolInv(q) /\ q.live = p.live /\ q.past = p.past
      /\ Len(q.table[s]) = Len(p.table[s]) + Grow(p, s, end)
      /\ OthersKept(p, q, s)
  BY <1>1, <1>2, PrepareSound
<1>4. \A t \in Slot : t # s => q.table[t] = p.table[t]
  BY <1>3 DEF OthersKept
<1>5. \A m \in DOMAIN p.table[s] : m # TailIndex(p.past[s]) => q.table[s][m] = p.table[s][m]
  BY <1>1, <1>2, PrepareKeeps
<1>6. HeldLive(gs, q, d)
  BY <1>1, <1>3 DEF HeldLive
<1>7. ASSUME NEW k \in DOMAIN gs, NEW t \in Held(gs[k])
      PROVE  /\ t \in Slot /\ Base(gs[k]) \in Nat
             /\ \A m \in 1 .. Base(gs[k]) : q.table[t][m] = p.table[t][m]
  <2>1. t \in Slot /\ Base(gs[k]) \in Nat
    BY <1>1, HeldSlots, OwedFacts
  <2>2. CASE t # s
    BY <1>4, <2>1, <2>2
  <2>3. CASE t = s
    <3>1. Base(gs[k]) <= Len(p.table[s]) /\ Base(gs[k]) < TailIndex(p.past[s])
      BY <1>1, <2>3 DEF Fitting
    <3>2. DOMAIN p.table[s] = 1 .. Len(p.table[s]) /\ Len(p.table[s]) \in Nat
      BY <1>1, <1>2, PagesInPage
    <3>3. TailIndex(p.past[s]) \in Nat
      BY <1>1, <1>2, TableLengths, PagesForType
    <3>4. \A m \in 1 .. Base(gs[k]) : m \in DOMAIN p.table[s] /\ m # TailIndex(p.past[s])
      BY <2>1, <3>1, <3>2, <3>3
    <3> QED
      BY <1>5, <2>1, <2>3, <3>4
  <2> QED
    BY <2>2, <2>3
<1>8. ASSUME NEW k \in DOMAIN gs PROVE Fitting(gs[k], q)
  <2>1. Common(gs[k], q)
    <3>1. Common(gs[k], p)
      BY <1>1 DEF Fitting
    <3> QED
      BY <1>7, <3>1 DEF Common
  <2>2. ASSUME NEW t \in Held(gs[k])
        PROVE  /\ Base(gs[k]) <= Len(q.table[t])
               /\ Len(q.table[t]) <= Base(gs[k]) + Allot(gs[k])
               /\ Base(gs[k]) < TailIndex(q.past[t])
    <3>1. /\ Base(gs[k]) <= Len(p.table[t]) /\ Len(p.table[t]) <= Base(gs[k]) + Allot(gs[k])
          /\ Base(gs[k]) < TailIndex(p.past[t])
      BY <1>1 DEF Fitting
    <3>2. CASE t # s
      BY <1>3, <1>4, <1>7, <3>1, <3>2
    <3>3. CASE t = s
      <4>1. k = i
        BY <1>1, <3>3 DEF HeldApart
      <4>2. PICK n \in Nat, m \in Nat, a \in Nat, b \in Nat :
              n = Len(p.table[s]) /\ m = PagesFor(end) /\ a = Base(gs[i]) /\ b = Allot(gs[i])
        BY <1>1, <1>2, TableLengths, PagesForType, OwedFacts
      <4>3. Len(q.table[s]) = n + (IF m > n THEN m - n ELSE 0)
        BY <1>3, <4>2 DEF Grow
      <4>4. n <= a + b /\ m <= a + b /\ a <= n
        BY <3>1, <3>3, <4>1, <4>2
      <4>5. a <= Len(q.table[s]) /\ Len(q.table[s]) <= a + b
        BY <4>2, <4>3, <4>4
      <4> QED
        BY <1>3, <3>1, <3>3, <4>1, <4>2, <4>5
    <3> QED
      BY <3>2, <3>3
  <2> QED
    BY <2>1, <2>2 DEF Fitting
<1>9. Charged(gs, q, d)
  <2>1. Charged(gs, p, d)
    BY DEF Funded
  <2>2. IdleHas(q, d) \subseteq IdleHas(p, d)
    <3>1. d.seq # None => d.seq \in Slot
      BY <1>1 DEF IdleType
    <3>2. d.seq # None => q.table[d.seq] = p.table[d.seq]
      BY <1>2, <1>4, <3>1
    <3> QED
      BY <3>2 DEF IdleHas, PagesOf
  <2>3. \A k \in DOMAIN gs : StablePages(gs[k], p) \subseteq StablePages(gs[k], q)
    BY <1>7 DEF StablePages
  <2> QED
    BY <1>1, <2>1, <2>2, <2>3, ChargeKept
<1> QED
  BY <1>1, <1>3, <1>6, <1>8, <1>9 DEF Funded, Housed

\* A batch asks of each of its sequences no more than its allotment.
Entitled(gs, p, T, e) ==
  /\ T \in SUBSET Slot /\ e \in [T -> Nat]
  /\ \A s \in T : /\ e[s] > p.past[s]
                  /\ \E i \in DOMAIN gs : s \in Held(gs[i]) /\ PagesFor(e[s]) <= Base(gs[i]) + Allot(gs[i])

LEMMA NothingNeeded ==
  ASSUME NEW p \in Pool, PoolInv(p), NEW e \in [{} -> Nat]
  PROVE  BatchNeed(p, e) = 0
<1>1. {} \in SUBSET Slot /\ IsFiniteSet(Page)
  BY PageAssumption
<1>2. BatchNeed(p, e) = SumFunctionOnSet([s \in {} |-> Grow(p, s, e[s])], {})
                        + SumFunctionOnSet([g \in Page |-> CopiesOf(p, {}, g)], Page)
  BY <1>1, NeedSums
<1>3. SumFunctionOnSet([s \in {} |-> Grow(p, s, e[s])], {}) = 0
  BY SumEmpty
<1>4. \A g \in Page : CopiesOf(p, {}, g) = 0
  BY DEF CopiesOf, AppendingTo
<1>5. SumFunctionOnSet([g \in Page |-> CopiesOf(p, {}, g)], Page) = 0
  <2>1. PICK f : f = [g \in Page |-> CopiesOf(p, {}, g)]
    OBVIOUS
  <2>2. \A g \in Page : f[g] = 0
    BY <1>4, <2>1
  <2> QED
    BY <1>1, <2>1, <2>2, SumZero
<1> QED
  BY <1>2, <1>3, <1>5

\* The first of the batch finds its pages, and the others are as well off as
\* before.
LEMMA FitsOne ==
  ASSUME NEW gs, NEW p, NEW d, Funded(gs, p, d), NEW T, NEW e, Entitled(gs, p, T, e),
         NEW s \in T
  PROVE  /\ s \in Slot /\ p.live[s]
         /\ Needed(p, s, e[s]) \in Nat /\ Needed(p, s, e[s]) <= Cardinality(p.free)
         /\ \E new \in Picks(p.free, Needed(p, s, e[s])) : Funded(gs, Prepare(p, s, e[s], new), d)
<1>1. /\ gs \in Seq(GroupType) /\ p \in Pool /\ PoolInv(p) /\ HeldLive(gs, p, d)
  BY DEF Funded, Housed
<1>2. PICK i \in DOMAIN gs : s \in Held(gs[i]) /\ PagesFor(e[s]) <= Base(gs[i]) + Allot(gs[i])
  BY DEF Entitled
<1>3. s \in Slot /\ p.live[s] /\ e[s] \in Nat /\ e[s] > p.past[s]
  BY <1>1, <1>2 DEF Entitled, HeldLive
<1>4. Needed(p, s, e[s]) \in Nat
  BY <1>1, <1>3, NeedNat
<1>5. Needed(p, s, e[s]) <= Cardinality(p.free)
  BY <1>2, <1>3, NeedFits
<1>6. IsFiniteSet(p.free)
  BY <1>1, PoolFields, PagesCount
<1>7. PICK new \in Picks(p.free, Needed(p, s, e[s])) : TRUE
  BY <1>4, <1>5, <1>6, PicksExist
<1>8. Funded(gs, Prepare(p, s, e[s], new), d)
  BY <1>2, <1>3, PrepareFunded
<1> QED
  BY <1>3, <1>4, <1>5, <1>7, <1>8

FitsUpTo(gs, d, n) ==
  \A p, T, e : /\ Funded(gs, p, d) /\ Entitled(gs, p, T, e) /\ Cardinality(T) = n
               => BatchNeed(p, e) <= Cardinality(p.free)

LEMMA FitsNext ==
  ASSUME NEW gs, NEW d, NEW n \in Nat, FitsUpTo(gs, d, n)
  PROVE  FitsUpTo(gs, d, n + 1)
<1>1. SUFFICES ASSUME NEW p, NEW T, NEW e, Funded(gs, p, d), Entitled(gs, p, T, e),
                      Cardinality(T) = n + 1
               PROVE  BatchNeed(p, e) <= Cardinality(p.free)
  BY DEF FitsUpTo
<1>2. gs \in Seq(GroupType) /\ p \in Pool /\ PoolInv(p)
  BY <1>1 DEF Funded, Housed
<1>3. T \in SUBSET Slot /\ T \subseteq Slot /\ e \in [T -> Nat] /\ \A s \in T : e[s] > p.past[s]
  BY <1>1 DEF Entitled
<1>4. T # {}
  BY <1>1, FS_EmptySet
<1>5. PICK s \in T : TRUE
  BY <1>4
<1>6. PICK new \in Picks(p.free, Needed(p, s, e[s])) : Funded(gs, Prepare(p, s, e[s], new), d)
  BY <1>1, FitsOne
<1>7. s \in Slot /\ p.live[s] /\ Needed(p, s, e[s]) \in Nat /\ e[s] \in Nat /\ e[s] > p.past[s]
  BY <1>1, <1>3, FitsOne
<1>8. PICK q, U, r : q = Prepare(p, s, e[s], new) /\ U = T \ {s} /\ r = [t \in T \ {s} |-> e[t]]
  OBVIOUS
<1>9. q \in Pool /\ PoolInv(q) /\ q.past = p.past
  BY <1>2, <1>7, <1>8, PrepareSound
<1>10. Entitled(gs, q, U, r)
  BY <1>1, <1>3, <1>8, <1>9 DEF Entitled
<1>11. Cardinality(U) = n
  BY <1>1, <1>3, <1>8, CountLess
<1>12. BatchNeed(q, r) <= Cardinality(q.free)
  BY <1>6, <1>8, <1>10, <1>11 DEF FitsUpTo
<1>13. Cardinality(q.free) = Cardinality(p.free) - Needed(p, s, e[s])
  BY <1>2, <1>7, <1>8, PrepareCounts
<1>14. BatchNeed(p, e) = Needed(p, s, e[s]) + BatchNeed(q, r)
  <2>1. s \in T /\ e[s] > p.past[s] /\ p.live[s]
    BY <1>5, <1>7
  <2>2. T \in SUBSET Slot /\ e \in [T -> Nat] /\ q = Prepare(p, s, e[s], new)
    BY <1>3, <1>8
  <2>3. NeedSplit(p, q, T, e, s)
    BY <1>2, <1>6, <2>1, <2>2, NeedAfter
  <2> QED
    BY <1>8, <2>3 DEF NeedSplit
<1>15. BatchNeed(q, r) \in Nat
  BY <1>3, <1>8, <1>9, NeedNatural
<1>16. Cardinality(p.free) \in Nat /\ Cardinality(q.free) \in Nat
  BY <1>2, <1>9, PoolFields, PagesCount
<1> QED
  BY <1>7, <1>12, <1>13, <1>14, <1>15, <1>16

LEMMA BatchFits ==
  ASSUME NEW gs, NEW p, NEW d, Funded(gs, p, d), NEW T, NEW e, Entitled(gs, p, T, e)
  PROVE  BatchNeed(p, e) <= Cardinality(p.free)
<1>1. PICK S : S = {n \in Nat : FitsUpTo(gs, d, n)}
  OBVIOUS
<1>2. 0 \in S
  <2>1. SUFFICES ASSUME NEW q, NEW U, NEW r, Funded(gs, q, d), Entitled(gs, q, U, r),
                        Cardinality(U) = 0
                 PROVE  BatchNeed(q, r) <= Cardinality(q.free)
    BY <1>1 DEF FitsUpTo
  <2>2. q \in Pool /\ PoolInv(q) /\ U \subseteq Slot /\ r \in [U -> Nat]
    BY <2>1 DEF Funded, Housed, Entitled
  <2>3. U = {}
    BY <2>1, <2>2, NoOwners
  <2>4. BatchNeed(q, r) = 0
    BY <2>2, <2>3, NothingNeeded
  <2>5. Cardinality(q.free) \in Nat
    BY <2>2, PoolFields, PagesCount
  <2> QED
    BY <2>4, <2>5
<1>3. \A n \in Nat : n \in S => n + 1 \in S
  BY <1>1, FitsNext
<1>4. \A n \in Nat : n \in S
  BY <1>2, <1>3, NatInd
<1>5. Cardinality(T) \in Nat
  BY SlotFinite DEF Entitled
<1> QED
  BY <1>1, <1>4, <1>5 DEF FitsUpTo

-----------------------------------------------------------------------------
(***************************************************************************)
(* Capacity: what every step keeps                                         *)
(***************************************************************************)
IdleFits(p, d) == d.seq # None => Len(p.table[d.seq]) <= PagesFor(p.past[d.seq])
IdleSeat(d) == IF d.seq = None THEN 0 ELSE 1
Seated(gs, d) == Seats(gs) + IdleSeat(d) <= NSlots

Capacity(gs, p, d) ==
  /\ \A i \in DOMAIN gs : GroupFits(gs[i], p)
  /\ IdleFits(p, d)
  /\ Charged(gs, p, d)
  /\ Seated(gs, d)

LEMMA CapacityFunded ==
  ASSUME NEW gs, NEW p, NEW t, NEW d, World(gs, p, t, d), Capacity(gs, p, d)
  PROVE  Funded(gs, p, d)
<1>1. \A i \in DOMAIN gs : Fitting(gs[i], p)
  BY FitsIsFitting DEF Capacity
<1> QED
  BY <1>1, WorldHoused DEF Funded, Capacity

\* A group holds its root, or one sequence for each unfinished choice.
LEMMA HeldCount ==
  ASSUME NEW g \in GroupType, NEW p, NEW t, GroupSound(g, p, t)
  PROVE  /\ Cardinality(Held(g)) = IF g.root # None THEN 1 ELSE Cardinality(Unfinished(g))
         /\ g.root # None => Held(g) # {}
<1>1. CASE g.root # None
  <2>1. Held(g) = {g.root}
    BY <1>1, RootAlone DEF GroupSound, RootSound
  <2> QED
    BY <1>1, <2>1, CountOne
<1>2. CASE g.root = None
  <2>1. Held(g) = {g.choices[c].seq : c \in Unfinished(g)}
    BY <1>2 DEF Held
  <2>2. PICK f : f = [c \in Unfinished(g) |-> g.choices[c].seq]
    OBVIOUS
  <2>3. \A c, e \in Unfinished(g) : f[c] = f[e] => c = e
    BY <2>2 DEF GroupSound, ChoicesSound
  <2>4. f \in [Unfinished(g) -> Held(g)] /\ \A s \in Held(g) : \E c \in Unfinished(g) : f[c] = s
    BY <2>1, <2>2
  <2>5. f \in Bijection(Unfinished(g), Held(g))
    BY <2>3, <2>4 DEF Bijection, Injection, Surjection, IsInjective
  <2>6. IsFiniteSet(Unfinished(g))
    BY UnfinishedCount
  <2>7. Cardinality(Held(g)) = Cardinality(Unfinished(g))
    BY <2>5, <2>6, FS_Bijection DEF ExistsBijection
  <2> QED
    BY <1>2, <2>7
<1> QED
  BY <1>1, <1>2

LEMMA CreditsOwed ==
  ASSUME NEW g \in GroupType, NEW p, NEW t, GroupSound(g, p, t), NEW q, GroupFits(g, q)
  PROVE  /\ Held(g) # {} => LiveCredits(g) = Owed(g)
         /\ g.root # None => g.credits = Owed(g)
         /\ g.root = None => LiveCreditsOf(g) = LiveCredits(g)
         /\ LiveCredits(g) \in Nat
<1>1. g.job \in Job /\ Cardinality(Unfinished(g)) \in Nat /\ NChoices[g.job] \in Nat
  BY GroupFields, JobFacts, UnfinishedCount
<1>2. CASE g.root # None
  <2>1. PICK n \in Nat : n = ContinuousPages(g.job, NChoices[g.job])
    BY <1>1, ShareFacts
  <2>2. LiveCredits(g) = n /\ g.credits = n
    BY <1>2, <2>1 DEF LiveCredits, GroupFits
  <2>3. Cardinality(Held(g)) = 1 /\ Held(g) # {}
    BY <1>2, HeldCount
  <2>4. Owed(g) = 0 + 1 * n
    BY <1>2, <2>1, <2>3 DEF Owed, Base, Allot
  <2> QED
    BY <1>2, <2>1, <2>2, <2>4
<1>3. CASE g.root = None
  <2>1. PICK k \in Nat : k = Cardinality(Unfinished(g))
    BY <1>1
  <2>2. ContinuousPages(g.job, k) = Full(g.job) + k * Share(g.job) /\ ContinuousPages(g.job, k) \in Nat
    BY <1>1, ShareFacts
  <2>3. Held(g) # {} => Owed(g) = Full(g.job) + k * Share(g.job)
    BY <1>3, <2>1, HeldCount DEF Owed, Base, Allot
  <2>4. LiveCredits(g) = ContinuousPages(g.job, k)
    BY <1>3, <2>1 DEF LiveCredits
  <2>5. LiveCreditsOf(g) = ContinuousPages(g.job, k)
    BY <2>1 DEF LiveCreditsOf
  <2> QED
    BY <1>3, <2>2, <2>3, <2>4, <2>5
<1> QED
  BY <1>2, <1>3

LEMMA IdlePagesCharged ==
  ASSUME World(groups, pool, text, idle), Capacity(groups, pool, idle)
  PROVE  IdlePages \ GroupPages \subseteq IdleOnly(groups, pool, idle)
<1>1. SUFFICES ASSUME NEW x \in IdlePages, x \notin GroupPages PROVE x \in IdleOnly(groups, pool, idle)
  OBVIOUS
<1>2. idle.seq # None /\ x \in PagesOf(pool, idle.seq)
  BY <1>1 DEF IdlePages
<1>3. x \in Page
  <2>1. pool \in Pool /\ idle.seq \in Slot
    BY <1>2 DEF World, IdleType
  <2> QED
    BY <1>2, <2>1, PagesInPage
<1>4. x \notin Stable(groups, pool)
  <2>1. SUFFICES ASSUME NEW i \in DOMAIN groups, x \in StablePages(groups[i], pool) PROVE FALSE
    BY DEF Stable
  <2>2. groups[i] \in GroupType /\ pool \in Pool /\ Fitting(groups[i], pool)
    BY WorldGroups, FitsIsFitting DEF Capacity, World
  <2>3. PICK s \in Held(groups[i]) : TRUE
    BY <2>1 DEF StablePages
  <2>4. x \in PagesOf(pool, s)
    BY <2>1, <2>2, StableAt
  <2> QED
    BY <1>1, <2>4 DEF GroupPages
<1> QED
  BY <1>2, <1>3, <1>4 DEF IdleOnly, IdleHas

LEMMA ReservedIsOwed ==
  ASSUME World(groups, pool, text, idle), Capacity(groups, pool, idle)
  PROVE  Reservations = Debt(groups)
<1>1. groups \in Seq(GroupType) /\ \A i \in DOMAIN groups : groups[i] \in GroupType /\ GroupSound(groups[i], pool, text)
  BY WorldGroups DEF World
<1>2. IsFiniteSet(DOMAIN groups) /\ \A i \in DOMAIN groups : Owed(groups[i]) \in Nat
  BY <1>1, DebtFacts
<1>3. PICK f, o : f = [i \in DOMAIN groups |-> LiveCredits(groups[i])]
                  /\ o = [i \in DOMAIN groups |-> Owed(groups[i])]
  OBVIOUS
<1>4. LiveGroups \in SUBSET DOMAIN groups /\ IsFiniteSet(LiveGroups)
  <2>1. LiveGroups \in SUBSET DOMAIN groups
    BY DEF LiveGroups
  <2> QED
    BY <1>2, <2>1, FS_Subset
<1>5. \A i \in LiveGroups : f[i] = o[i] /\ f[i] \in Int
  <2>1. SUFFICES ASSUME NEW i \in DOMAIN groups, Held(groups[i]) # {} PROVE f[i] = o[i] /\ f[i] \in Int
    BY DEF LiveGroups
  <2>2. LiveCredits(groups[i]) = Owed(groups[i])
    BY <1>1, <2>1, CreditsOwed DEF Capacity
  <2> QED
    BY <1>2, <1>3, <2>2
<1>6. SumFunctionOnSet(f, LiveGroups) = SumFunctionOnSet(o, LiveGroups)
  BY <1>4, <1>5, SumSame
<1>7. \A i \in DOMAIN groups \ LiveGroups : o[i] = 0
  BY <1>3 DEF LiveGroups, Owed
<1>8. \A i \in LiveGroups : o[i] \in Int
  BY <1>2, <1>3, <1>4
<1>9. SumFunctionOnSet(o, DOMAIN groups) = SumFunctionOnSet(o, LiveGroups)
  BY <1>2, <1>4, <1>7, <1>8, SumOutside
<1> QED
  BY <1>3, <1>6, <1>9 DEF Reservations, Debt

LEMMA PagesOwed ==
  ASSUME World(groups, pool, text, idle), Capacity(groups, pool, idle)
  PROVE  Cardinality(GroupPages) <= Debt(groups)
<1>1. groups \in Seq(GroupType) /\ pool \in Pool /\ PoolInv(pool)
      /\ \A i \in DOMAIN groups : groups[i] \in GroupType /\ Fitting(groups[i], pool)
  BY WorldGroups, FitsIsFitting DEF Capacity, World
<1>2. IsFiniteSet(DOMAIN groups) /\ \A i \in DOMAIN groups : Owed(groups[i]) \in Nat
  BY <1>1, DebtFacts
<1>3. PICK P, o : P = [i \in DOMAIN groups |-> OwnPages(groups[i], pool)]
                  /\ o = [i \in DOMAIN groups |-> Owed(groups[i])]
  OBVIOUS
<1>4. \A i \in DOMAIN groups : IsFiniteSet(P[i]) /\ o[i] \in Int /\ Cardinality(P[i]) <= o[i]
  BY <1>1, <1>2, <1>3, GroupOwns
<1>5. PICK U : U = UNION {P[i] : i \in DOMAIN groups}
  OBVIOUS
<1>6. IsFiniteSet(U) /\ Cardinality(U) <= SumFunctionOnSet(o, DOMAIN groups)
  BY <1>2, <1>4, <1>5, UnionBound
<1>7. GroupPages \subseteq U
  <2>1. SUFFICES ASSUME NEW i \in DOMAIN groups, NEW s \in Held(groups[i]), NEW x \in PagesOf(pool, s)
                 PROVE  x \in U
    BY DEF GroupPages
  <2>2. x \in Page
    BY <1>1, HeldSlots, PagesInPage
  <2>3. x \in P[i]
    BY <1>3, <2>2 DEF OwnPages
  <2> QED
    BY <1>5, <2>3
<1>8. Cardinality(GroupPages) <= Cardinality(U) /\ Cardinality(U) \in Nat
  BY <1>6, <1>7, FS_Subset, FS_CardinalityType
<1>9. PICK n \in Nat : n = Debt(groups) /\ n = SumFunctionOnSet(o, DOMAIN groups)
  BY <1>1, <1>3, DebtFacts DEF Debt
<1>10. Cardinality(GroupPages) \in Nat
  BY <1>6, <1>7, FS_Subset, FS_CardinalityType
<1> QED
  BY <1>6, <1>8, <1>9, <1>10

LEMMA HoldsReserved ==
  ASSUME World(groups, pool, text, idle), Capacity(groups, pool, idle)
  PROVE  ReservationsHold
<1>1. PICK n \in Nat : n = Debt(groups) /\ n = Reservations
  BY ReservedIsOwed, DebtFacts DEF World
<1>2. Cardinality(GroupPages) <= Reservations
  BY <1>1, ReservedIsOwed, PagesOwed
<1>3. PICK m \in Nat, all \in Nat : m = Cardinality(IdleOnly(groups, pool, idle)) /\ all = Cardinality(Page)
  BY ChargeCount
<1>4. IsFiniteSet(IdleOnly(groups, pool, idle))
  BY ChargeCount
<1>5. PICK S, U : S = IdleOnly(groups, pool, idle) /\ U = IdlePages \ GroupPages
  OBVIOUS
<1>6. U \subseteq S /\ IsFiniteSet(S) /\ Cardinality(S) = m
  BY <1>3, <1>4, <1>5, IdlePagesCharged
<1>7. IsFiniteSet(U) /\ Cardinality(U) <= m
  BY <1>6, FS_Subset
<1>8. Cardinality(U) \in Nat
  BY <1>7, FS_CardinalityType
<1>9. n + m <= all
  BY <1>1, <1>3 DEF Capacity, Charged
<1>10. n + Cardinality(U) <= all
  BY <1>7, <1>8, <1>9
<1> QED
  BY <1>1, <1>2, <1>3, <1>5, <1>10 DEF ReservationsHold

-----------------------------------------------------------------------------
(***************************************************************************)
(* The inductive invariant                                                 *)
(***************************************************************************)
\* A choice that is not about to be advanced may take one more step.
StepsLeft(gs, p, td) ==
  \A i \in DOMAIN gs : \A c \in Unfinished(gs[i]) :
    <<i, c>> \notin Elems(td)
    => p.past[gs[i].choices[c].seq] + 1 < PromptLen(gs[i].job) + MaxTokens[gs[i].job]

\* During admission the reservations are what is owed, and nothing else.
Reserved(gs) == \A i \in DOMAIN gs : gs[i].credits = Owed(gs[i]) /\ Held(gs[i]) # {}

Rows(sch) == SumFunctionOnSet([k \in DOMAIN sch |-> Len(sch[k].tokens)], DOMAIN sch)

CapacityInv ==
  /\ Capacity(groups, pool, idle)
  /\ StepsLeft(groups, pool, todo)
  /\ pc = "admit" => Reserved(groups)
  /\ Rows(scheduled) <= BatchMax
  /\ NeverExhausted

LEMMA RowsFinite ==
  ASSUME NEW a \in Seq(InputType)
  PROVE  /\ Len(a) \in Nat /\ DOMAIN a = 1 .. Len(a) /\ IsFiniteSet(1 .. Len(a))
         /\ \A k \in 1 .. Len(a) : Len(a[k].tokens) \in Nat
         /\ Rows(a) \in Nat
<1>1. Len(a) \in Nat /\ DOMAIN a = 1 .. Len(a) /\ \A k \in 1 .. Len(a) : a[k] \in InputType
  OBVIOUS
<1>2. \A k \in 1 .. Len(a) : Len(a[k].tokens) \in Nat
  BY <1>1 DEF InputType
<1>3. IsFiniteSet(1 .. Len(a))
  BY <1>1, FS_Interval
<1>4. PICK f : f = [k \in DOMAIN a |-> Len(a[k].tokens)]
  OBVIOUS
<1>5. \A k \in 1 .. Len(a) : f[k] \in Nat
  BY <1>1, <1>2, <1>4
<1>6. SumFunctionOnSet(f, 1 .. Len(a)) \in Nat
  BY <1>3, <1>5, SumNat
<1> QED
  BY <1>1, <1>2, <1>3, <1>4, <1>6 DEF Rows

LEMMA NoRows == Rows(<< >>) = 0
<1>1. DOMAIN << >> = {}
  OBVIOUS
<1> QED
  BY <1>1, SumEmpty DEF Rows

LEMMA RowsOfJoin ==
  ASSUME NEW a \in Seq(InputType), NEW b \in Seq(InputType), NEW r, r = a \o b
  PROVE  Rows(r) = Rows(a) + Rows(b)
<1>1. PICK m \in Nat, n \in Nat : m = Len(a) /\ n = Len(b)
  OBVIOUS
<1>2. /\ r \in Seq(InputType) /\ Len(r) = m + n
      /\ \A k \in 1 .. m : r[k] = a[k]
      /\ \A k \in 1 .. n : r[m + k] = b[k]
  BY <1>1
<1>3. PICK fa, fb, fr : /\ fa = [k \in DOMAIN a |-> Len(a[k].tokens)]
                        /\ fb = [k \in DOMAIN b |-> Len(b[k].tokens)]
                        /\ fr = [k \in DOMAIN r |-> Len(r[k].tokens)]
  OBVIOUS
<1>4. /\ DOMAIN a = 1 .. m /\ DOMAIN b = 1 .. n /\ DOMAIN r = 1 .. m + n
      /\ \A k \in 1 .. m : Len(a[k].tokens) \in Nat
      /\ \A k \in 1 .. n : Len(b[k].tokens) \in Nat
      /\ \A k \in 1 .. m + n : Len(r[k].tokens) \in Nat
      /\ IsFiniteSet(1 .. m) /\ IsFiniteSet(1 .. n) /\ IsFiniteSet(1 .. m + n)
  BY <1>1, <1>2, RowsFinite
<1>5. PICK S, T, L : S = 1 .. n /\ T = 1 .. m + n /\ L = 1 .. m
  OBVIOUS
<1>6. PICK h : h = [k \in S |-> m + k]
  OBVIOUS
<1>7. h \in [S -> T] /\ \A k, l \in S : h[k] = h[l] => k = l
  BY <1>5, <1>6
<1>8. \A t \in T : fr[t] \in Int
  BY <1>3, <1>4, <1>5
<1>9. \A k \in S : fb[k] = fr[h[k]]
  BY <1>2, <1>3, <1>4, <1>5, <1>6
<1>10. Renames(h, S, T)
  BY <1>7 DEF Renames
<1>11. Unnamed(h, S, T) = L
  <2>1. ASSUME NEW t \in T, t > m PROVE \E k \in S : h[k] = t
    <3>1. t - m \in S /\ m + (t - m) = t
      BY <1>5, <2>1
    <3> QED
      BY <1>6, <3>1
  <2>2. \A k \in S : h[k] > m
    BY <1>5, <1>6
  <2>3. L = {t \in T : ~(t > m)}
    BY <1>5
  <2>4. \A t \in T : (\E k \in S : h[k] = t) <=> t > m
    BY <2>1, <2>2
  <2> QED
    BY <2>3, <2>4 DEF Unnamed
<1>12. SumFunctionOnSet(fr, L) = SumFunctionOnSet(fa, L)
  <2>1. \A k \in L : fr[k] = fa[k] /\ fr[k] \in Int
    BY <1>2, <1>3, <1>4, <1>5
  <2> QED
    BY <1>4, <1>5, <2>1, SumSame
<1>13. Rows(a) = SumFunctionOnSet(fa, L) /\ Rows(b) = SumFunctionOnSet(fb, S)
       /\ Rows(r) = SumFunctionOnSet(fr, T)
  BY <1>3, <1>4, <1>5 DEF Rows
<1>14. PICK ra \in Nat, rb \in Nat : ra = Rows(a) /\ rb = Rows(b)
  BY RowsFinite
<1>15. SumFunctionOnSet(fb, S) + SumFunctionOnSet(fr, Unnamed(h, S, T)) = SumFunctionOnSet(fr, T)
  <2>1. IsFiniteSet(S) /\ IsFiniteSet(T)
    BY <1>4, <1>5
  <2> QED
    BY <1>8, <1>9, <1>10, <2>1, SumRenamed
<1>16. rb + ra = Rows(r)
  BY <1>11, <1>12, <1>13, <1>14, <1>15
<1> QED
  BY <1>14, <1>16

LEMMA RowsOfOne ==
  ASSUME NEW x \in InputType, NEW r, r = <<x>>
  PROVE  r \in Seq(InputType) /\ Rows(r) = Len(x.tokens)
<1>1. r \in Seq(InputType) /\ DOMAIN r = {1} /\ r[1] = x
  OBVIOUS
<1>2. PICK n \in Nat : n = Len(x.tokens)
  BY DEF InputType
<1>3. PICK f : f = [k \in DOMAIN r |-> Len(r[k].tokens)]
  OBVIOUS
<1>4. \A k \in {1} : f[k] = n
  BY <1>1, <1>2, <1>3
<1>5. IsFiniteSet({1}) /\ Cardinality({1}) = 1
  BY FS_Singleton
<1>6. SumFunctionOnSet(f, {1}) = 1 * n
  BY <1>4, <1>5, SumAllSame
<1> QED
  BY <1>1, <1>2, <1>3, <1>6 DEF Rows

LEMMA RowsOfDecodes ==
  ASSUME groups \in Seq(GroupType), NEW r, r = Decodes
  PROVE  Rows(r) = Len(r)
<1>1. BatchSound(r, groups, pool) /\ \A x \in Elems(r) : x.choice # 0
  BY DecodesSound
<1>2. r \in Seq(InputType) /\ \A x \in Elems(r) : Len(x.tokens) = 1
  BY <1>1 DEF BatchSound, ChoiceInput
<1>3. PICK n \in Nat : n = Len(r) /\ DOMAIN r = 1 .. n /\ IsFiniteSet(1 .. n)
  BY <1>2, RowsFinite
<1>4. PICK f : f = [k \in DOMAIN r |-> Len(r[k].tokens)]
  OBVIOUS
<1>5. \A k \in 1 .. n : f[k] = 1
  BY <1>2, <1>3, <1>4 DEF Elems
<1>6. SumFunctionOnSet(f, 1 .. n) = Cardinality(1 .. n) * 1
  BY <1>3, <1>5, SumAllSame
<1>7. Cardinality(1 .. n) = n
  <2>1. 1 \in Int /\ n \in Int
    BY <1>3
  <2>2. Cardinality(1 .. n) = IF 1 > n THEN 0 ELSE n - 1 + 1
    BY <2>1, FS_Interval
  <2> QED
    BY <1>3, <2>2
<1> QED
  BY <1>3, <1>4, <1>6, <1>7 DEF Rows

LEMMA SeatsFacts ==
  ASSUME NEW gs \in Seq(GroupType)
  PROVE  /\ IsFiniteSet(DOMAIN gs) /\ Seats(gs) \in Nat
         /\ \A i \in DOMAIN gs : gs[i] \in GroupType /\ Sequences(gs[i]) \in Nat
<1>1. IsFiniteSet(DOMAIN gs) /\ \A i \in DOMAIN gs : gs[i] \in GroupType
  BY DebtFacts
<1>2. \A i \in DOMAIN gs : Sequences(gs[i]) \in Nat
  <2> SUFFICES ASSUME NEW i \in DOMAIN gs PROVE Sequences(gs[i]) \in Nat
    OBVIOUS
  <2>1. gs[i].job \in Job
    BY <1>1, GroupFields
  <2>2. NChoices[gs[i].job] \in Nat
    BY <2>1, JobFacts
  <2>3. Cardinality(Unfinished(gs[i])) \in Nat
    BY <1>1, UnfinishedCount
  <2> QED
    BY <2>2, <2>3 DEF Sequences
<1>3. PICK f : f = [i \in DOMAIN gs |-> Sequences(gs[i])]
  OBVIOUS
<1>4. SumFunctionOnSet(f, DOMAIN gs) \in Nat
  BY <1>1, <1>2, <1>3, SumNat
<1> QED
  BY <1>1, <1>2, <1>3, <1>4 DEF Seats

\* A step of one group changes the debt, and the seats, by what it changes of
\* that group.
LEMMA OneDebt ==
  ASSUME NEW gs \in Seq(GroupType), NEW hs \in Seq(GroupType), DOMAIN hs = DOMAIN gs,
         NEW i \in DOMAIN gs, \A k \in DOMAIN gs : k # i => hs[k] = gs[k]
  PROVE  /\ Debt(hs) - Owed(hs[i]) = Debt(gs) - Owed(gs[i])
         /\ Seats(hs) - Sequences(hs[i]) = Seats(gs) - Sequences(gs[i])
<1>1. /\ IsFiniteSet(DOMAIN gs)
      /\ \A k \in DOMAIN gs : Owed(gs[k]) \in Nat /\ Owed(hs[k]) \in Nat
      /\ \A k \in DOMAIN gs : Sequences(gs[k]) \in Nat /\ Sequences(hs[k]) \in Nat
  BY DebtFacts, SeatsFacts
<1>2. PICK f : f = [k \in DOMAIN gs |-> Owed(gs[k])]
  OBVIOUS
<1>3. PICK g : g = [k \in DOMAIN hs |-> Owed(hs[k])]
  OBVIOUS
<1>4. \A k \in DOMAIN gs : f[k] \in Int /\ g[k] \in Int /\ (k # i => f[k] = g[k])
  BY <1>1, <1>2, <1>3
<1>5. SumFunctionOnSet(g, DOMAIN gs) - g[i] = SumFunctionOnSet(f, DOMAIN gs) - f[i]
  BY <1>1, <1>4, SumChange
<1>6. Debt(hs) - Owed(hs[i]) = Debt(gs) - Owed(gs[i])
  BY <1>2, <1>3, <1>5 DEF Debt
<1>7. PICK u : u = [k \in DOMAIN gs |-> Sequences(gs[k])]
  OBVIOUS
<1>8. PICK v : v = [k \in DOMAIN hs |-> Sequences(hs[k])]
  OBVIOUS
<1>9. \A k \in DOMAIN gs : u[k] \in Int /\ v[k] \in Int /\ (k # i => u[k] = v[k])
  BY <1>1, <1>7, <1>8
<1>10. SumFunctionOnSet(v, DOMAIN gs) - v[i] = SumFunctionOnSet(u, DOMAIN gs) - u[i]
  BY <1>1, <1>9, SumChange
<1>11. Seats(hs) - Sequences(hs[i]) = Seats(gs) - Sequences(gs[i])
  BY <1>7, <1>8, <1>10 DEF Seats
<1> QED
  BY <1>6, <1>11

LEMMA SameSeats ==
  ASSUME NEW gs \in Seq(GroupType), NEW hs \in Seq(GroupType), DOMAIN hs = DOMAIN gs,
         \A i \in DOMAIN gs : Sequences(hs[i]) = Sequences(gs[i])
  PROVE  Seats(hs) = Seats(gs)
<1>1. /\ IsFiniteSet(DOMAIN gs)
      /\ \A k \in DOMAIN gs : Sequences(gs[k]) \in Nat
  BY SeatsFacts
<1>2. PICK f : f = [k \in DOMAIN gs |-> Sequences(gs[k])]
  OBVIOUS
<1>3. PICK g : g = [k \in DOMAIN hs |-> Sequences(hs[k])]
  OBVIOUS
<1>4. \A k \in DOMAIN gs : f[k] = g[k] /\ f[k] \in Int
  BY <1>1, <1>2, <1>3
<1>5. SumFunctionOnSet(f, DOMAIN gs) = SumFunctionOnSet(g, DOMAIN gs)
  BY <1>1, <1>4, SumSame
<1> QED
  BY <1>2, <1>3, <1>5 DEF Seats

-----------------------------------------------------------------------------
(***************************************************************************)
(* Steps that move no page                                                 *)
(***************************************************************************)
LEMMA CapacityInit == ASSUME Init PROVE CapacityInv
<1>1. groups = << >> /\ pc = "top" /\ scheduled = << >> /\ idle.seq = None /\ DOMAIN groups = {}
      /\ groups \in Seq(GroupType)
  BY DEF Init
<1>2. Debt(groups) = 0 /\ Seats(groups) = 0
  BY <1>1, SumEmpty DEF Debt, Seats
<1>3. IdleOnly(groups, pool, idle) = {}
  BY <1>1 DEF IdleOnly, IdleHas
<1>4. Cardinality({}) = 0 /\ Cardinality(Page) \in Nat
  BY PageAssumption, FS_EmptySet, FS_CardinalityType
<1>5. Charged(groups, pool, idle)
  BY <1>2, <1>3, <1>4 DEF Charged
<1>6. Seated(groups, idle)
  BY <1>1, <1>2, SlotsAssumption DEF Seated, IdleSeat
<1>7. Capacity(groups, pool, idle)
  BY <1>1, <1>5, <1>6 DEF Capacity, IdleFits
<1>8. StepsLeft(groups, pool, todo)
  BY <1>1 DEF StepsLeft
<1>9. Rows(scheduled) <= BatchMax
  BY <1>1, NoRows, BatchAssumption, SlotsAssumption
<1>10. NeverExhausted
  BY DEF NeverExhausted, Init
<1> QED
  BY <1>1, <1>7, <1>8, <1>9, <1>10 DEF CapacityInv

LEMMA CapacitySame ==
  ASSUME CapacityInv, UNCHANGED <<groups, pool, idle, todo, errors>>,
         pc' = "admit" => pc = "admit", Rows(scheduled') <= BatchMax
  PROVE  CapacityInv'
<1>1. NeverExhausted'
  BY DEF CapacityInv, NeverExhausted
<1> QED
  BY <1>1 DEF CapacityInv

LEMMA PhaseCapacity ==
  ASSUME CapacityInv,
         \/ Top \/ AdmitEnd \/ RestoreEnd \/ StartEnd \/ AdvanceEnd \/ Wait \/ HangUp
         \/ \E j \in Job : Count(j) \/ SendJob(j) \/ Cancel(j) \/ Stage(j)
  PROVE  CapacityInv'
<1>1. /\ UNCHANGED <<groups, pool, idle, todo, errors, scheduled>>
      /\ pc' = "admit" => pc = "admit"
  BY DEF Top, AdmitEnd, RestoreEnd, StartEnd, AdvanceEnd, Wait, HangUp, Count, SendJob,
         Cancel, Stage, loop, answers
<1> QED
  BY <1>1, CapacitySame DEF CapacityInv

-----------------------------------------------------------------------------
(***************************************************************************)
(* Schedule: the batch has room for its rows                               *)
(***************************************************************************)
FillsBudget(budget, b) == Rows(b.inputs) + b.left = budget

LEMMA AppendJoins ==
  ASSUME NEW V, NEW s \in Seq(V), NEW x \in V, NEW y, y = <<x>>
  PROVE  Append(s, x) = s \o y
<1>1. PICK n \in Nat : n = Len(s)
  OBVIOUS
<1>2. /\ Append(s, x) \in Seq(V) /\ Len(Append(s, x)) = n + 1
      /\ \A i \in 1 .. n + 1 : Append(s, x)[i] = IF i = n + 1 THEN x ELSE s[i]
  BY <1>1
<1>3. y \in Seq(V) /\ Len(y) = 1 /\ y[1] = x
  OBVIOUS
<1>4. /\ s \o y \in Seq(V) /\ Len(s \o y) = n + 1
      /\ \A i \in 1 .. n + 1 : (s \o y)[i] = IF i <= n THEN s[i] ELSE y[i - n]
  BY <1>1, <1>3
<1>5. \A i \in 1 .. n + 1 : (s \o y)[i] = Append(s, x)[i]
  BY <1>1, <1>2, <1>3, <1>4
<1> QED
  BY <1>1, <1>2, <1>4, <1>5

LEMMA PrefillRows ==
  ASSUME World(groups, pool, text, idle), cursor \in Nat, NEW budget \in Nat,
         NEW k \in Nat, k + 1 <= Len(groups),
         NEW b, PrefillSound(k, b.left, b.inputs), FillsBudget(budget, b),
         NEW c, c = NextPrefill(k + 1, b)
  PROVE  FillsBudget(budget, c)
<1>1. CASE ~Prefillable(k + 1, b.left)
  BY <1>1 DEF NextPrefill, FillsBudget
<1>2. CASE Prefillable(k + 1, b.left)
  <2>1. k + 1 \in 1 .. Len(groups) /\ b.left \in Nat /\ b.inputs \in Seq(InputType)
    BY WorldGroups DEF PrefillSound, BatchSound
  <2>2. PICK x : x = PrefillOf(k + 1, b.left)
    OBVIOUS
  <2>3. x \in InputType
        /\ Len(x.tokens) = ChunkEnd(groups[Turn(k + 1)], b.left) - pool.past[groups[Turn(k + 1)].root]
        /\ Len(x.tokens) \in Nat
    BY <1>2, <2>1, <2>2, PrefillFacts, ZenonT(40)
  <2>4. c.inputs = Append(b.inputs, x) /\ c.left = b.left - Len(x.tokens)
    BY <1>2, <2>2, <2>3 DEF NextPrefill
  <2>5. PICK y : y = <<x>>
    OBVIOUS
  <2>6. y \in Seq(InputType) /\ Rows(y) = Len(x.tokens)
    BY <2>3, <2>5, RowsOfOne
  <2>7. c.inputs = b.inputs \o y
    BY <2>1, <2>3, <2>4, <2>5, AppendJoins
  <2>8. Rows(c.inputs) = Rows(b.inputs) + Rows(y)
    BY <2>1, <2>6, <2>7, RowsOfJoin
  <2>9. Rows(b.inputs) \in Nat
    BY <2>1, RowsFinite
  <2> QED
    BY <2>1, <2>3, <2>4, <2>6, <2>8, <2>9 DEF FillsBudget
<1> QED
  BY <1>1, <1>2

LEMMA PrefillsFit ==
  ASSUME World(groups, pool, text, idle), cursor \in Nat, NEW budget \in Nat,
         NEW r, r = Prefills(budget)
  PROVE  Rows(r) <= budget
<1> DEFINE f == CHOOSE f : PrefilledTo(budget, Len(groups), f)
<1>1. Len(groups) \in Nat
  BY DEF World
<1>2. r = f[Len(groups)].inputs
  BY DEF Prefills, PrefilledTo, NextPrefill, Prefillable, PrefillOf, PrefillTo, Wanted
<1>3. PrefilledTo(budget, Len(groups), f)
  BY <1>1, PrefilledExists
<1> HIDE DEF f
<1>4. f[0].left = budget /\ f[0].inputs = << >>
  BY <1>1, <1>3 DEF PrefilledTo
<1>5. ASSUME NEW m \in Nat, m + 1 <= Len(groups)
      PROVE  f[m + 1] = NextPrefill(m + 1, f[m])
  <2>1. m + 1 \in 0 .. Len(groups) /\ m + 1 # 0 /\ (m + 1) - 1 = m
    BY <1>1, <1>5
  <2> QED
    BY <1>3, <2>1 DEF PrefilledTo
<1> DEFINE N == {m \in Nat : m <= Len(groups) => PrefillSound(m, f[m].left, f[m].inputs)
                                                 /\ FillsBudget(budget, f[m])}
<1>6. 0 \in N
  <2>1. Elems(<< >>) = {}
    BY DEF Elems
  <2>2. PrefillSound(0, f[0].left, f[0].inputs)
    BY <1>4, <2>1, NothingScheduled DEF PrefillSound
  <2>3. FillsBudget(budget, f[0])
    BY <1>4, NoRows DEF FillsBudget
  <2> QED
    BY <2>2, <2>3
<1>7. ASSUME NEW m \in Nat, m \in N PROVE m + 1 \in N
  <2> SUFFICES ASSUME m + 1 <= Len(groups)
               PROVE  /\ PrefillSound(m + 1, f[m + 1].left, f[m + 1].inputs)
                      /\ FillsBudget(budget, f[m + 1])
    OBVIOUS
  <2>1. PrefillSound(m, f[m].left, f[m].inputs) /\ FillsBudget(budget, f[m])
    BY <1>1, <1>7
  <2>2. PrefillSound(m + 1, f[m + 1].left, f[m + 1].inputs)
    BY <1>5, <2>1, PrefillOne
  <2>3. FillsBudget(budget, f[m + 1])
    BY <1>5, <2>1, PrefillRows
  <2> QED
    BY <2>2, <2>3
<1> HIDE DEF N
<1>8. Len(groups) \in N
  BY <1>1, <1>6, <1>7, NatInd
<1>9. PrefillSound(Len(groups), f[Len(groups)].left, r) /\ FillsBudget(budget, f[Len(groups)])
  BY <1>1, <1>2, <1>8 DEF N
<1>10. r \in Seq(InputType) /\ f[Len(groups)].left \in Nat
  BY <1>9 DEF PrefillSound, BatchSound
<1>11. Rows(r) \in Nat
  BY <1>10, RowsFinite
<1> QED
  BY <1>2, <1>9, <1>10, <1>11 DEF FillsBudget

LEMMA ScheduleCapacity ==
  ASSUME EngineInv, CapacityInv, Schedule
  PROVE  CapacityInv'
<1>1. World(groups, pool, text, idle) /\ cursor \in Nat /\ groups \in Seq(GroupType)
  BY DEF EngineInv, World
<1>2. PICK ds : ds = Decodes
  OBVIOUS
<1>3. BatchSound(ds, groups, pool)
  BY <1>1, <1>2, DecodesSound
<1>4. Len(ds) \in Nat /\ Len(ds) <= NSlots
  BY <1>1, <1>3, BatchWithin
<1>5. Rows(ds) = Len(ds)
  BY <1>1, <1>2, RowsOfDecodes
<1>6. PICK left : left = BatchMax - Len(ds)
  OBVIOUS
<1>7. left \in Nat
  BY <1>4, <1>6, BatchAssumption, SlotsAssumption
<1>8. PICK budget : budget = IF ds # << >> /\ PrefillChunk < left THEN PrefillChunk ELSE left
  OBVIOUS
<1>9. budget \in Nat /\ budget <= left
  BY <1>7, <1>8, ChunkAssumption
<1>10. PICK ps : ps = Prefills(budget)
  OBVIOUS
<1>11. BatchSound(ps, groups, pool) /\ Rows(ps) <= budget
  BY <1>1, <1>9, <1>10, PrefillsSound, PrefillsFit
<1>12. scheduled' = ds \o ps
  BY <1>2, <1>6, <1>8, <1>10 DEF Schedule
<1>13. ds \in Seq(InputType) /\ ps \in Seq(InputType)
  BY <1>3, <1>11 DEF BatchSound
<1>14. Rows(scheduled') = Rows(ds) + Rows(ps) /\ Rows(ps) \in Nat
  BY <1>12, <1>13, RowsOfJoin, RowsFinite
<1>15. Rows(scheduled') <= BatchMax
  BY <1>4, <1>5, <1>6, <1>7, <1>9, <1>11, <1>14, BatchAssumption
<1>16. UNCHANGED <<groups, pool, idle, todo, errors>> /\ (pc' = "admit" => pc = "admit")
  BY DEF Schedule, answers
<1> QED
  BY <1>15, <1>16, CapacitySame

-----------------------------------------------------------------------------
(***************************************************************************)
(* Drop: what the groups that leave owed pays for their pages              *)
(***************************************************************************)
Unmoved(g, p, q) == \A s \in Held(g) : q.table[s] = p.table[s] /\ q.past[s] = p.past[s]
Alike(g, h) == h.job = g.job /\ h.root = g.root /\ h.choices = g.choices

LEMMA SameFits ==
  ASSUME NEW g \in GroupType, NEW h \in GroupType, Alike(g, h),
         NEW p, NEW q, Unmoved(g, p, q)
  PROVE  /\ Held(h) = Held(g) /\ Unfinished(h) = Unfinished(g)
         /\ Owed(h) = Owed(g) /\ Sequences(h) = Sequences(g)
         /\ StablePages(h, q) = StablePages(g, p)
         /\ GroupFits(g, p) /\ (g.root # None => h.credits = g.credits) => GroupFits(h, q)
<1>1. Held(h) = Held(g) /\ Unfinished(h) = Unfinished(g)
  BY DEF Alike, Held, Unfinished
<1>2. Base(h) = Base(g) /\ Allot(h) = Allot(g)
  BY DEF Alike, Base, Allot
<1>3. Owed(h) = Owed(g)
  BY <1>1, <1>2 DEF Owed
<1>4. Sequences(h) = Sequences(g)
  BY <1>1 DEF Alike, Sequences
<1>5. StablePages(h, q) = StablePages(g, p)
  BY <1>1, <1>2 DEF StablePages, Unmoved
<1>6. ASSUME GroupFits(g, p), g.root # None => h.credits = g.credits
      PROVE  GroupFits(h, q)
  <2>1. Common(h, q)
    BY <1>1, <1>2, <1>6 DEF Common, GroupFits, Unmoved
  <2>2. \A c \in Unfinished(h) : ChoiceFits(h, q, h.choices[c].seq)
    <3> SUFFICES ASSUME NEW c \in Unfinished(h) PROVE ChoiceFits(h, q, h.choices[c].seq)
      OBVIOUS
    <3>1. PICK s : s = g.choices[c].seq
      OBVIOUS
    <3>2. s \in Held(g) /\ h.choices[c].seq = s /\ h.job = g.job /\ ChoiceFits(g, p, s)
      BY <1>1, <1>6, <3>1, HeldSlots DEF Alike, GroupFits
    <3>3. q.table[s] = p.table[s] /\ q.past[s] = p.past[s]
      BY <3>2 DEF Unmoved
    <3> QED
      BY <3>2, <3>3 DEF ChoiceFits
  <2>3. h.root # None => /\ h.credits = ContinuousPages(h.job, NChoices[h.job])
                         /\ Len(q.table[h.root]) <= PagesFor(PromptLen(h.job))
    BY <1>6, HeldSlots DEF Alike, GroupFits, Unmoved
  <2> QED
    BY <2>1, <2>2, <2>3 DEF GroupFits
<1> QED
  BY <1>1, <1>3, <1>4, <1>5, <1>6

LEMMA StableWithin ==
  ASSUME NEW g \in GroupType, NEW p \in Pool, Fitting(g, p)
  PROVE  /\ IsFiniteSet(StablePages(g, p)) /\ Cardinality(StablePages(g, p)) \in Nat
         /\ Cardinality(StablePages(g, p)) <= Owed(g)
<1>1. CASE Held(g) = {}
  <2>1. StablePages(g, p) = {}
    BY <1>1 DEF StablePages
  <2>2. Owed(g) = 0
    BY <1>1 DEF Owed
  <2> QED
    BY <2>1, <2>2, FS_EmptySet
<1>2. CASE Held(g) # {}
  <2>1. PICK s : s \in Held(g)
    BY <1>2
  <2>2. /\ IsFiniteSet(StablePages(g, p)) /\ Cardinality(StablePages(g, p)) \in Nat
        /\ Cardinality(StablePages(g, p)) <= Base(g)
    BY <2>1, StableAt
  <2>3. PICK n \in Nat, b \in Nat, a \in Nat :
          n = Cardinality(Held(g)) /\ b = Base(g) /\ a = Allot(g)
    BY HeldFinite, OwedFacts
  <2>4. Owed(g) = b + n * a
    BY <1>2, <2>3, OwedFacts
  <2>5. PICK m \in Nat : m = n * a
    BY <2>3
  <2> QED
    BY <2>2, <2>3, <2>4, <2>5
<1> QED
  BY <1>1, <1>2

LEMMA DroppedGroup ==
  ASSUME NEW gs, NEW p, NEW t, NEW d, World(gs, p, t, d), NEW C,
         NEW hs \in Seq(GroupType), NEW h, Dropped(gs, hs, C, h),
         NEW q, q = ReleaseAll(p, DroppedFrom(gs, C)), NEW a \in DOMAIN hs
  PROVE  /\ h[a] \in DOMAIN gs /\ gs[h[a]] \in GroupType /\ hs[a] \in GroupType
         /\ Alike(gs[h[a]], hs[a]) /\ Unmoved(gs[h[a]], p, q)
         /\ hs[a].root # None => hs[a].credits = gs[h[a]].credits
         /\ hs[a].root = None => hs[a].credits = LiveCreditsOf(hs[a])
         /\ Held(gs[h[a]]) # {}
<1>1. h[a] \in DOMAIN gs /\ Alike(gs[h[a]], hs[a]) /\ gs[h[a]].job \notin C
  BY DEF Dropped, Alike
<1>2. gs[h[a]] \in GroupType /\ hs[a] \in GroupType
  BY <1>1, WorldGroups
<1>3. ASSUME NEW s \in Held(gs[h[a]]) PROVE q.table[s] = p.table[s] /\ q.past[s] = p.past[s]
  <2>1. s \in Slot
    BY <1>2, <1>3, HeldSlots
  <2>2. s \notin DroppedFrom(gs, C)
    BY <1>1, <1>3 DEF DroppedFrom, World, HeldApart
  <2>3. p \in Pool
    BY DEF World
  <2> QED
    BY <2>1, <2>2, <2>3, ReleaseAllEffect
<1> QED
  BY <1>1, <1>2, <1>3 DEF Dropped, Unmoved

\* What the groups that are not kept owed.
DebtGone(gs, U) == SumFunctionOnSet([i \in DOMAIN gs |-> Owed(gs[i])], U)

LEMMA RenamedDebt ==
  ASSUME NEW gs \in Seq(GroupType), NEW hs \in Seq(GroupType), NEW h,
         Renames(h, DOMAIN hs, DOMAIN gs), NEW U, U = Unnamed(h, DOMAIN hs, DOMAIN gs),
         \A a \in DOMAIN hs : /\ Owed(hs[a]) = Owed(gs[h[a]])
                              /\ Sequences(hs[a]) = Sequences(gs[h[a]])
  PROVE  /\ Debt(hs) + DebtGone(gs, U) = Debt(gs) /\ DebtGone(gs, U) \in Nat
         /\ Seats(hs) <= Seats(gs)
         /\ IsFiniteSet(U) /\ U \subseteq DOMAIN gs
<1>1. /\ IsFiniteSet(DOMAIN gs) /\ IsFiniteSet(DOMAIN hs)
      /\ \A k \in DOMAIN gs : Owed(gs[k]) \in Nat /\ Sequences(gs[k]) \in Nat
  BY DebtFacts, SeatsFacts
<1>2. U \subseteq DOMAIN gs
  BY DEF Unnamed
<1>3. IsFiniteSet(U)
  BY <1>1, <1>2, FS_Subset
<1>4. PICK f : f = [k \in DOMAIN gs |-> Owed(gs[k])]
  OBVIOUS
<1>5. PICK g : g = [k \in DOMAIN hs |-> Owed(hs[k])]
  OBVIOUS
<1>6. \A k \in DOMAIN gs : f[k] \in Int
  BY <1>1, <1>4
<1>7. \A a \in DOMAIN hs : g[a] = f[h[a]]
  BY <1>4, <1>5 DEF Renames
<1>8. SumFunctionOnSet(g, DOMAIN hs) + SumFunctionOnSet(f, U) = SumFunctionOnSet(f, DOMAIN gs)
  BY <1>1, <1>6, <1>7, SumRenamed
<1>9. Debt(hs) + DebtGone(gs, U) = Debt(gs)
  BY <1>4, <1>5, <1>8 DEF Debt, DebtGone
<1>10. \A k \in U : f[k] \in Nat
  BY <1>1, <1>2, <1>4
<1>11. SumFunctionOnSet(f, U) \in Nat
  BY <1>3, <1>10, SumNat
<1>12. PICK u : u = [k \in DOMAIN gs |-> Sequences(gs[k])]
  OBVIOUS
<1>13. PICK v : v = [k \in DOMAIN hs |-> Sequences(hs[k])]
  OBVIOUS
<1>14. \A k \in DOMAIN gs : u[k] \in Int
  BY <1>1, <1>12
<1>15. \A a \in DOMAIN hs : v[a] = u[h[a]]
  BY <1>12, <1>13 DEF Renames
<1>16. SumFunctionOnSet(v, DOMAIN hs) + SumFunctionOnSet(u, U) = SumFunctionOnSet(u, DOMAIN gs)
  BY <1>1, <1>14, <1>15, SumRenamed
<1>17. \A k \in U : u[k] \in Nat
  BY <1>1, <1>2, <1>12
<1>18. SumFunctionOnSet(u, U) \in Nat
  BY <1>3, <1>17, SumNat
<1>19. Seats(hs) + SumFunctionOnSet(u, U) = Seats(gs)
  BY <1>12, <1>13, <1>16 DEF Seats
<1>20. Seats(hs) <= Seats(gs)
  BY <1>18, <1>19, SeatsFacts
<1> QED
  BY <1>2, <1>3, <1>4, <1>9, <1>11, <1>20 DEF DebtGone

\* The stable pages of the groups U are no more than those groups owe.
StableOf(gs, p, U) == UNION {StablePages(gs[i], p) : i \in U}

LEMMA StableGone ==
  ASSUME NEW gs \in Seq(GroupType), NEW p \in Pool, \A i \in DOMAIN gs : Fitting(gs[i], p),
         NEW U, U \subseteq DOMAIN gs, IsFiniteSet(U)
  PROVE  /\ IsFiniteSet(StableOf(gs, p, U))
         /\ Cardinality(StableOf(gs, p, U)) <= DebtGone(gs, U)
<1>1. \A i \in DOMAIN gs : gs[i] \in GroupType /\ Owed(gs[i]) \in Nat
  BY DebtFacts
<1>2. \A i \in U : /\ IsFiniteSet(StablePages(gs[i], p))
                   /\ Cardinality(StablePages(gs[i], p)) <= Owed(gs[i])
  BY <1>1, StableWithin
<1>3. PICK A : A = [i \in U |-> StablePages(gs[i], p)]
  OBVIOUS
<1>4. PICK f : f = [i \in DOMAIN gs |-> Owed(gs[i])]
  OBVIOUS
<1>5. \A i \in U : IsFiniteSet(A[i]) /\ f[i] \in Int /\ Cardinality(A[i]) <= f[i]
  BY <1>1, <1>2, <1>3, <1>4
<1>6. StableOf(gs, p, U) = UNION {A[i] : i \in U}
  BY <1>3 DEF StableOf
<1>7. /\ IsFiniteSet(UNION {A[i] : i \in U})
      /\ Cardinality(UNION {A[i] : i \in U}) <= SumFunctionOnSet(f, U)
  BY <1>5, UnionBound
<1> QED
  BY <1>4, <1>6, <1>7 DEF DebtGone

LEMMA CapacityDrop ==
  ASSUME NEW gs, NEW p, NEW t, NEW d, World(gs, p, t, d), Capacity(gs, p, d), NEW C,
         NEW hs, NEW h, Dropped(gs, hs, C, h),
         NEW q, q = ReleaseAll(p, DroppedFrom(gs, C)), World(hs, q, t, d)
  PROVE  /\ Capacity(hs, q, d) /\ Reserved(hs)
         /\ StepsLeft(gs, p, << >>) => StepsLeft(hs, q, << >>)
<1>1. /\ gs \in Seq(GroupType) /\ hs \in Seq(GroupType) /\ p \in Pool /\ q \in Pool
      /\ d \in IdleType
  BY DEF World
<1>2. \A a \in DOMAIN hs :
        /\ h[a] \in DOMAIN gs /\ gs[h[a]] \in GroupType /\ hs[a] \in GroupType
        /\ Alike(gs[h[a]], hs[a]) /\ Unmoved(gs[h[a]], p, q)
        /\ hs[a].root # None => hs[a].credits = gs[h[a]].credits
        /\ hs[a].root = None => hs[a].credits = LiveCreditsOf(hs[a])
        /\ Held(gs[h[a]]) # {}
  BY <1>1, DroppedGroup
<1>3. \A a \in DOMAIN hs :
        /\ Held(hs[a]) = Held(gs[h[a]]) /\ Unfinished(hs[a]) = Unfinished(gs[h[a]])
        /\ Owed(hs[a]) = Owed(gs[h[a]]) /\ Sequences(hs[a]) = Sequences(gs[h[a]])
        /\ StablePages(hs[a], q) = StablePages(gs[h[a]], p)
        /\ GroupFits(hs[a], q)
  BY <1>2, SameFits DEF Capacity, Alike
<1>4. PICK U : U = Unnamed(h, DOMAIN hs, DOMAIN gs)
  OBVIOUS
<1>5. Renames(h, DOMAIN hs, DOMAIN gs)
  BY DEF Dropped, Renames
<1>6. /\ Debt(hs) + DebtGone(gs, U) = Debt(gs) /\ DebtGone(gs, U) \in Nat
      /\ Seats(hs) <= Seats(gs)
      /\ IsFiniteSet(U) /\ U \subseteq DOMAIN gs
  BY <1>1, <1>3, <1>4, <1>5, RenamedDebt
<1>7. \A i \in DOMAIN gs : Fitting(gs[i], p)
  BY CapacityFunded DEF Funded
<1>8. PICK D : D = StableOf(gs, p, U)
  OBVIOUS
<1>9. IsFiniteSet(D) /\ Cardinality(D) <= DebtGone(gs, U)
  BY <1>1, <1>6, <1>7, <1>8, StableGone
<1>10. IdleHas(q, d) = IdleHas(p, d) /\ IdleFits(q, d)
  <2>1. CASE d.seq = None
    BY <2>1 DEF IdleHas, IdleFits
  <2>2. CASE d.seq # None
    <3>1. d.seq \in Slot /\ d.seq \notin DroppedFrom(gs, C)
      BY <2>2 DEF World, HeldLive, IdleType, DroppedFrom
    <3>2. q.table[d.seq] = p.table[d.seq] /\ q.past[d.seq] = p.past[d.seq]
      BY <1>1, <3>1, ReleaseAllEffect
    <3> QED
      BY <3>2 DEF IdleHas, PagesOf, IdleFits, Capacity
  <2> QED
    BY <2>1, <2>2
<1>11. IdleOnly(hs, q, d) \subseteq IdleOnly(gs, p, d) \cup D
  <2> SUFFICES ASSUME NEW x \in IdleHas(p, d), x \in Page, x \notin Stable(hs, q), x \notin D
               PROVE  x \notin Stable(gs, p)
    BY <1>10 DEF IdleOnly, IdleHas
  <2> SUFFICES ASSUME NEW i \in DOMAIN gs, x \in StablePages(gs[i], p) PROVE FALSE
    BY DEF Stable
  <2>1. i \notin U
    BY <1>8 DEF StableOf
  <2>2. PICK a \in DOMAIN hs : h[a] = i
    BY <1>4, <2>1 DEF Unnamed
  <2>3. x \in StablePages(hs[a], q)
    BY <1>3, <2>2
  <2> QED
    BY <2>3 DEF Stable
<1>12. Debt(hs) \in Nat /\ Debt(gs) \in Nat
  BY <1>1, DebtFacts
<1>13. Charged(hs, q, d)
  <2>1. PICK c \in Nat : c = DebtGone(gs, U)
    BY <1>6
  <2>2. Debt(hs) + c <= Debt(gs) /\ Cardinality(D) <= c
    BY <1>6, <1>9, <1>12, <2>1
  <2> QED
    BY <1>1, <1>9, <1>11, <2>1, <2>2, Paid DEF Capacity
<1>14. Seated(hs, d)
  <2>1. Seats(hs) \in Nat /\ Seats(gs) \in Nat /\ IdleSeat(d) \in Nat
    BY <1>1, SeatsFacts DEF IdleSeat
  <2> QED
    BY <1>6, <2>1, SlotsAssumption DEF Seated, Capacity
<1>15. Capacity(hs, q, d)
  BY <1>3, <1>10, <1>13, <1>14 DEF Capacity
<1>16. Reserved(hs)
  <2> SUFFICES ASSUME NEW a \in DOMAIN hs
               PROVE  hs[a].credits = Owed(hs[a]) /\ Held(hs[a]) # {}
    BY DEF Reserved
  <2>1. Held(hs[a]) # {}
    BY <1>2, <1>3
  <2>2. GroupSound(hs[a], q, t) /\ hs[a] \in GroupType
    BY <1>1 DEF World
  <2>3. /\ LiveCredits(hs[a]) = Owed(hs[a])
        /\ hs[a].root # None => hs[a].credits = Owed(hs[a])
        /\ hs[a].root = None => LiveCreditsOf(hs[a]) = LiveCredits(hs[a])
    BY <1>3, <2>1, <2>2, CreditsOwed
  <2> QED
    BY <1>2, <2>1, <2>3
<1>17. ASSUME StepsLeft(gs, p, << >>) PROVE StepsLeft(hs, q, << >>)
  <2> SUFFICES ASSUME NEW a \in DOMAIN hs, NEW c \in Unfinished(hs[a])
               PROVE  q.past[hs[a].choices[c].seq] + 1
                        < PromptLen(hs[a].job) + MaxTokens[hs[a].job]
    BY DEF StepsLeft
  <2>1. Elems(<< >>) = {}
    BY DEF Elems
  <2>2. PICK i \in DOMAIN gs : i = h[a]
    BY <1>2
  <2>3. c \in Unfinished(gs[i]) /\ gs[i] \in GroupType
    BY <1>2, <1>3, <2>2
  <2>4. p.past[gs[i].choices[c].seq] + 1 < PromptLen(gs[i].job) + MaxTokens[gs[i].job]
    BY <1>17, <2>1, <2>3 DEF StepsLeft
  <2>5. gs[i].choices[c].seq \in Held(gs[i])
    BY <2>3, HeldSlots
  <2>6. q.past[gs[i].choices[c].seq] = p.past[gs[i].choices[c].seq]
    BY <1>2, <2>2, <2>5 DEF Unmoved
  <2>7. hs[a].choices = gs[i].choices /\ hs[a].job = gs[i].job
    BY <1>2, <2>2 DEF Alike
  <2> QED
    BY <2>4, <2>6, <2>7
<1> QED
  BY <1>15, <1>16, <1>17

LEMMA DropCapacity ==
  ASSUME EngineInv, CapacityInv, Drop
  PROVE  CapacityInv'
<1>1. EngineInv'
  BY DropKeeps
<1>2. /\ World(groups, pool, text, idle) /\ World(groups', pool', text', idle')
      /\ todo = << >> /\ todo' = << >>
  BY <1>1 DEF EngineInv, Drop
<1>3. PICK h : Dropped(groups, groups', DropJobs, h)
  BY DropEffect
<1>4. pool' = ReleaseAll(pool, DroppedFrom(groups, DropJobs)) /\ text' = text /\ idle' = idle
  BY DropEffect
<1>5. /\ Capacity(groups', pool', idle) /\ Reserved(groups')
      /\ StepsLeft(groups, pool, << >>) => StepsLeft(groups', pool', << >>)
  BY <1>2, <1>3, <1>4, CapacityDrop DEF CapacityInv
<1>6. NeverExhausted'
  BY DEF CapacityInv, NeverExhausted, Drop
<1>7. Rows(scheduled') <= BatchMax
  BY DEF CapacityInv, Drop
<1> QED
  BY <1>2, <1>4, <1>5, <1>6, <1>7 DEF CapacityInv

-----------------------------------------------------------------------------
(***************************************************************************)
(* Admission: what fits is there                                           *)
(***************************************************************************)
Residents(gs) == SumFunctionOnSet([i \in DOMAIN gs |-> Cardinality(Held(gs[i]))], DOMAIN gs)
DeadSlots(p) == {s \in Slot : ~p.live[s]}

LEMMA DeadEnough ==
  ASSUME NEW gs, NEW p, NEW t, NEW d, World(gs, p, t, d)
  PROVE  /\ Cardinality(DeadSlots(p)) \in Nat /\ Residents(gs) \in Nat
         /\ NSlots - Residents(gs) - IdleSeat(d) <= Cardinality(DeadSlots(p))
<1>1. /\ gs \in Seq(GroupType) /\ IsFiniteSet(DOMAIN gs)
      /\ \A i \in DOMAIN gs : gs[i] \in GroupType
  BY DebtFacts DEF World
<1>2. \A i \in DOMAIN gs : /\ Held(gs[i]) \subseteq Slot /\ IsFiniteSet(Held(gs[i]))
                           /\ Cardinality(Held(gs[i])) \in Nat
  BY <1>1, HeldFinite
<1>3. PICK f : f = [i \in DOMAIN gs |-> Cardinality(Held(gs[i]))]
  OBVIOUS
<1>4. PICK A : A = [i \in DOMAIN gs |-> Held(gs[i])]
  OBVIOUS
<1>5. \A i \in DOMAIN gs : IsFiniteSet(A[i]) /\ f[i] \in Int /\ Cardinality(A[i]) <= f[i]
  BY <1>2, <1>3, <1>4
<1>6. PICK H : H = UNION {A[i] : i \in DOMAIN gs}
  OBVIOUS
<1>7. IsFiniteSet(H) /\ Cardinality(H) <= SumFunctionOnSet(f, DOMAIN gs)
  BY <1>1, <1>5, <1>6, UnionBound
<1>8. Residents(gs) \in Nat /\ Cardinality(H) <= Residents(gs)
  <2>1. \A i \in DOMAIN gs : f[i] \in Nat
    BY <1>2, <1>3
  <2>2. SumFunctionOnSet(f, DOMAIN gs) \in Nat
    BY <1>1, <2>1, SumNat
  <2> QED
    BY <1>3, <1>7, <2>2 DEF Residents
<1>9. PICK I : I = IF d.seq = None THEN {} ELSE {d.seq}
  OBVIOUS
<1>10. IsFiniteSet(I) /\ Cardinality(I) <= IdleSeat(d) /\ IdleSeat(d) \in Int
  <2>1. IsFiniteSet({}) /\ Cardinality({}) = 0
    BY FS_EmptySet
  <2>2. IsFiniteSet({d.seq}) /\ Cardinality({d.seq}) = 1
    BY FS_Singleton
  <2> QED
    BY <1>9, <2>1, <2>2 DEF IdleSeat
<1>11. PICK L : L = {s \in Slot : p.live[s]}
  OBVIOUS
<1>12. L \subseteq H \cup I
  <2> SUFFICES ASSUME NEW s \in L PROVE s \in H \cup I
    OBVIOUS
  <2>1. d.seq = s \/ \E i \in DOMAIN gs : s \in Held(gs[i])
    BY <1>11 DEF World, HeldLive
  <2>2. s \in Slot
    BY <1>11
  <2> QED
    BY <1>4, <1>6, <1>9, <2>1, <2>2, NoneIsNoSlot
<1>13. PICK m \in Int, n \in Int : m = Residents(gs) /\ n = IdleSeat(d)
  BY <1>8, <1>10
<1>14. IsFiniteSet(L) /\ Cardinality(L) \in Nat /\ Cardinality(L) <= m + n
  BY <1>7, <1>8, <1>10, <1>12, <1>13, CupBound
<1>15. IsFiniteSet(0 .. NSlots - 1)
  BY SlotsAssumption, FS_Interval
<1>16. Cardinality(0 .. NSlots - 1) = NSlots
  <2>1. 0 \in Int /\ NSlots - 1 \in Int
    BY SlotsAssumption
  <2>2. Cardinality(0 .. NSlots - 1) = IF 0 > NSlots - 1 THEN 0 ELSE (NSlots - 1) - 0 + 1
    BY <2>1, FS_Interval
  <2> QED
    BY <2>2, SlotsAssumption
<1>17. IsFiniteSet(Slot) /\ Cardinality(Slot) = NSlots
  BY <1>15, <1>16 DEF Slot
<1>18. DeadSlots(p) = Slot \ L
  BY <1>11 DEF DeadSlots
<1>19. Cardinality(Slot \ L) = Cardinality(Slot) - Cardinality(Slot \cap L)
  BY <1>17, FS_Difference
<1>20. Slot \cap L = L
  BY <1>11
<1>21. Cardinality(DeadSlots(p)) \in Nat
  BY SlotFinite DEF DeadSlots
<1>22. Cardinality(DeadSlots(p)) = NSlots - Cardinality(L)
  BY <1>17, <1>18, <1>19, <1>20
<1> QED
  BY <1>8, <1>13, <1>14, <1>21, <1>22, SlotsAssumption

\* A group holds no more than its seats.
LEMMA HeldSeats ==
  ASSUME NEW g \in GroupType, NEW p, NEW t, GroupSound(g, p, t)
  PROVE  /\ Cardinality(Held(g)) <= Sequences(g) /\ Cardinality(Held(g)) \in Nat
         /\ g.root # None => Cardinality(Held(g)) = 1
<1>1. /\ Cardinality(Held(g)) = IF g.root # None THEN 1 ELSE Cardinality(Unfinished(g))
  BY HeldCount
<1>2. g.job \in Job
  BY GroupFields
<1>3. NChoices[g.job] \in Nat \ {0}
  BY <1>2, JobFacts
<1>4. Cardinality(Held(g)) \in Nat
  BY HeldFinite
<1> QED
  BY <1>1, <1>3, <1>4 DEF Sequences

LEMMA ResidentsSeated ==
  ASSUME NEW gs, NEW p, NEW t, NEW d, World(gs, p, t, d)
  PROVE  Residents(gs) <= Seats(gs)
<1>1. gs \in Seq(GroupType) /\ IsFiniteSet(DOMAIN gs)
      /\ \A i \in DOMAIN gs : Sequences(gs[i]) \in Nat
  BY SeatsFacts DEF World
<1>2. \A i \in DOMAIN gs : /\ Cardinality(Held(gs[i])) <= Sequences(gs[i])
                           /\ Cardinality(Held(gs[i])) \in Nat
  BY HeldSeats DEF World
<1>3. PICK f : f = [i \in DOMAIN gs |-> Cardinality(Held(gs[i]))]
  OBVIOUS
<1>4. PICK g : g = [i \in DOMAIN gs |-> Sequences(gs[i])]
  OBVIOUS
<1>5. \A i \in DOMAIN gs : f[i] \in Int /\ g[i] \in Int /\ f[i] <= g[i]
  BY <1>1, <1>2, <1>3, <1>4
<1>6. SumFunctionOnSet(f, DOMAIN gs) <= SumFunctionOnSet(g, DOMAIN gs)
  BY <1>1, <1>5, SumLess
<1> QED
  BY <1>3, <1>4, <1>6 DEF Residents, Seats

Appended(gs, g, hs, e) ==
  /\ hs \in Seq(GroupType) /\ hs[e] = g
  /\ DOMAIN hs = DOMAIN gs \cup {e} /\ e \notin DOMAIN gs
  /\ \A i \in DOMAIN gs : hs[i] = gs[i]
  /\ Debt(hs) = Debt(gs) + Owed(g)
  /\ Seats(hs) = Seats(gs) + Sequences(g)

LEMMA AppendDebt ==
  ASSUME NEW gs \in Seq(GroupType), NEW g \in GroupType, NEW hs, hs = Append(gs, g)
  PROVE  Appended(gs, g, hs, Len(gs) + 1)
<1>1. PICK n \in Nat : n = Len(gs)
  OBVIOUS
<1>2. PICK e : e = n + 1
  OBVIOUS
<1>3. /\ hs \in Seq(GroupType) /\ DOMAIN gs = 1 .. n /\ DOMAIN hs = 1 .. n + 1
      /\ hs[n + 1] = g /\ \A i \in 1 .. n : hs[i] = gs[i]
  BY <1>1
<1>4. DOMAIN hs = DOMAIN gs \cup {e} /\ e \notin DOMAIN gs /\ hs[e] = g
      /\ \A i \in DOMAIN gs : hs[i] = gs[i]
  BY <1>2, <1>3
<1>5. /\ IsFiniteSet(DOMAIN gs)
      /\ \A i \in DOMAIN gs : Owed(gs[i]) \in Nat /\ Sequences(gs[i]) \in Nat
      /\ \A i \in DOMAIN hs : Owed(hs[i]) \in Nat /\ Sequences(hs[i]) \in Nat
  BY <1>3, DebtFacts, SeatsFacts
<1>6. PICK f : f = [i \in DOMAIN gs |-> Owed(gs[i])]
  OBVIOUS
<1>7. PICK u : u = [i \in DOMAIN hs |-> Owed(hs[i])]
  OBVIOUS
<1>8. PICK w : w = [i \in DOMAIN gs |-> Sequences(gs[i])]
  OBVIOUS
<1>9. PICK v : v = [i \in DOMAIN hs |-> Sequences(hs[i])]
  OBVIOUS
<1>10. \A i \in DOMAIN gs \cup {e} : u[i] \in Int /\ v[i] \in Int
  BY <1>4, <1>5, <1>7, <1>9
<1>11. \A i \in DOMAIN gs : f[i] = u[i] /\ f[i] \in Int /\ w[i] = v[i] /\ w[i] \in Int
  BY <1>4, <1>5, <1>6, <1>7, <1>8, <1>9
<1>12. SumFunctionOnSet(u, DOMAIN gs \cup {e}) = u[e] + SumFunctionOnSet(u, DOMAIN gs)
  BY <1>4, <1>5, <1>10, SumAdd
<1>13. SumFunctionOnSet(v, DOMAIN gs \cup {e}) = v[e] + SumFunctionOnSet(v, DOMAIN gs)
  BY <1>4, <1>5, <1>10, SumAdd
<1>14. SumFunctionOnSet(f, DOMAIN gs) = SumFunctionOnSet(u, DOMAIN gs)
  BY <1>5, <1>11, SumSame
<1>15. SumFunctionOnSet(w, DOMAIN gs) = SumFunctionOnSet(v, DOMAIN gs)
  BY <1>5, <1>11, SumSame
<1>16. u[e] = Owed(g) /\ v[e] = Sequences(g)
  BY <1>4, <1>7, <1>9
<1>17. Debt(hs) = Owed(g) + Debt(gs)
  BY <1>4, <1>6, <1>7, <1>12, <1>14, <1>16 DEF Debt
<1>18. Seats(hs) = Sequences(g) + Seats(gs)
  BY <1>4, <1>8, <1>9, <1>13, <1>15, <1>16 DEF Seats
<1>19. /\ Debt(gs) \in Nat /\ Seats(gs) \in Nat /\ Owed(g) \in Nat /\ Sequences(g) \in Nat
  BY <1>4, <1>5, DebtFacts, SeatsFacts
<1> QED
  BY <1>1, <1>2, <1>3, <1>4, <1>17, <1>18, <1>19 DEF Appended

LEMMA NewGroupOwes ==
  ASSUME NEW j \in Job, NEW r \in Slot, NEW n \in Nat, NEW g, g = NewGroup(j, r, n), NEW p
  PROVE  /\ g \in GroupType /\ Held(g) = {r} /\ Unfinished(g) = {}
         /\ Owed(g) = ContinuousPages(j, NChoices[j]) /\ g.credits = Owed(g)
         /\ Sequences(g) = NChoices[j]
         /\ Len(p.table[r]) <= PagesFor(PromptLen(j)) => GroupFits(g, p)
<1>1. r # None /\ NChoices[j] \in Nat
  BY NoneIsNoSlot, JobFacts
<1>2. ContinuousPages(j, NChoices[j]) \in Nat
  BY <1>1, ContinuousPagesType
<1>3. g \in GroupType
  BY <1>2, PrefixAssumption DEF NewGroup, GroupType
<1>4. /\ g.job = j /\ g.root = r /\ g.choices = << >>
      /\ g.credits = ContinuousPages(j, NChoices[j])
  BY DEF NewGroup
<1>5. Unfinished(g) = {} /\ Held(g) = {r}
  BY <1>1, <1>3, <1>4, RootAlone
<1>6. Base(g) = 0 /\ Allot(g) = ContinuousPages(j, NChoices[j])
  BY <1>1, <1>4 DEF Base, Allot
<1>7. Cardinality({r}) = 1
  BY FS_Singleton
<1>8. Owed(g) = ContinuousPages(j, NChoices[j])
  BY <1>2, <1>5, <1>6, <1>7 DEF Owed
<1>9. Sequences(g) = NChoices[j]
  BY <1>1, <1>4 DEF Sequences
<1>10. Common(g, p)
  BY <1>6 DEF Common
<1>11. Len(p.table[r]) <= PagesFor(PromptLen(j)) => GroupFits(g, p)
  BY <1>4, <1>5, <1>10 DEF GroupFits
<1> QED
  BY <1>3, <1>4, <1>5, <1>8, <1>9, <1>11

LEMMA CapacityAppend ==
  ASSUME NEW gs \in Seq(GroupType), NEW p, \A i \in DOMAIN gs : GroupFits(gs[i], p),
         Reserved(gs), StepsLeft(gs, p, << >>),
         NEW j \in Job, NEW r \in Slot, NEW n \in Nat, NEW g, g = NewGroup(j, r, n),
         Debt(gs) + ContinuousPages(j, NChoices[j]) <= Cardinality(Page),
         Seats(gs) + NChoices[j] <= NSlots,
         NEW q, \A i \in DOMAIN gs : Unmoved(gs[i], p, q),
         Len(q.table[r]) <= PagesFor(PromptLen(j)),
         NEW hs, hs = Append(gs, g)
  PROVE  Capacity(hs, q, Nobody) /\ Reserved(hs) /\ StepsLeft(hs, q, << >>)
<1>1. /\ g \in GroupType /\ Held(g) = {r} /\ Unfinished(g) = {}
      /\ Owed(g) = ContinuousPages(j, NChoices[j]) /\ g.credits = Owed(g)
      /\ Sequences(g) = NChoices[j] /\ GroupFits(g, q)
  BY NewGroupOwes
<1>2. PICK e : e = Len(gs) + 1
  OBVIOUS
<1>3. /\ hs \in Seq(GroupType) /\ hs[e] = g /\ DOMAIN hs = DOMAIN gs \cup {e}
      /\ \A i \in DOMAIN gs : hs[i] = gs[i]
      /\ Debt(hs) = Debt(gs) + Owed(g) /\ Seats(hs) = Seats(gs) + Sequences(g)
  <2>1. Appended(gs, g, hs, e)
    BY <1>1, <1>2, AppendDebt
  <2> QED
    BY <2>1 DEF Appended
<1>4. \A i \in DOMAIN gs : gs[i] \in GroupType
  BY DebtFacts
<1>5. \A i \in DOMAIN gs : GroupFits(gs[i], q)
  BY <1>4, SameFits DEF Alike
<1>6. \A i \in DOMAIN hs : GroupFits(hs[i], q)
  BY <1>1, <1>3, <1>5
<1>7. IdleFits(q, Nobody) /\ IdleSeat(Nobody) = 0
  BY DEF IdleFits, Nobody, IdleSeat
<1>8. IdleOnly(hs, q, Nobody) = {}
  BY DEF IdleOnly, IdleHas, Nobody
<1>9. Cardinality({}) = 0 /\ Debt(hs) \in Nat /\ Seats(hs) \in Nat
  BY <1>3, FS_EmptySet, DebtFacts, SeatsFacts
<1>10. Charged(hs, q, Nobody)
  BY <1>1, <1>3, <1>8, <1>9 DEF Charged
<1>11. Seated(hs, Nobody)
  BY <1>1, <1>3, <1>7, <1>9 DEF Seated
<1>12. Capacity(hs, q, Nobody)
  BY <1>6, <1>7, <1>10, <1>11 DEF Capacity
<1>13. Reserved(hs)
  BY <1>1, <1>3 DEF Reserved
<1>14. StepsLeft(hs, q, << >>)
  <2> SUFFICES ASSUME NEW i \in DOMAIN hs, NEW c \in Unfinished(hs[i])
               PROVE  q.past[hs[i].choices[c].seq] + 1
                        < PromptLen(hs[i].job) + MaxTokens[hs[i].job]
    BY DEF StepsLeft
  <2>1. i \in DOMAIN gs /\ hs[i] = gs[i]
    BY <1>1, <1>3
  <2>2. Elems(<< >>) = {}
    BY DEF Elems
  <2>3. p.past[gs[i].choices[c].seq] + 1 < PromptLen(gs[i].job) + MaxTokens[gs[i].job]
    BY <2>1, <2>2 DEF StepsLeft
  <2>4. gs[i].choices[c].seq \in Held(gs[i])
    BY <1>4, <2>1, HeldSlots
  <2> QED
    BY <2>1, <2>3, <2>4 DEF Unmoved
<1> QED
  BY <1>12, <1>13, <1>14

\* Forgetting the idle sequence moves no group.
LEMMA UnmovedForget ==
  ASSUME NEW gs, NEW p, NEW t, NEW d, World(gs, p, t, d), NEW q, q = Forget(p, d),
         NEW i \in DOMAIN gs
  PROVE  Unmoved(gs[i], p, q)
<1>1. \A s \in Slot : q.past[s] = p.past[s] /\ (s # d.seq => q.table[s] = p.table[s])
  <2>1. CASE d.seq = None
    BY <2>1 DEF Forget
  <2>2. CASE d.seq # None
    <3>1. p \in Pool /\ d.seq \in Slot /\ q = Release(p, d.seq)
      BY <2>2 DEF Forget, World, IdleType
    <3>2. /\ q.past = p.past
          /\ \A s \in Slot : s # d.seq => q.table[s] = p.table[s]
      BY <3>1, ReleaseEffect
    <3> QED
      BY <3>2
  <2> QED
    BY <2>1, <2>2
<1>3. Held(gs[i]) \subseteq Slot /\ d.seq \notin Held(gs[i])
  BY WorldGroups DEF World, HeldLive
<1> QED
  BY <1>1, <1>3 DEF Unmoved

LEMMA UsedIsOwed ==
  ASSUME Reserved(groups)
  PROVE  UsedPages = Debt(groups) /\ UsedSequences = Seats(groups)
<1>1. Credits = [i \in DOMAIN groups |-> Owed(groups[i])]
  BY DEF Credits, Reserved
<1> QED
  BY <1>1 DEF UsedPages, UsedSequences, Debt, Seats

\* A request that fits finds a slot.
LEMMA FindsSlot ==
  ASSUME NEW gs, NEW p, NEW t, World(gs, p, t, Nobody), NEW n \in Nat \ {0},
         Seats(gs) + n <= NSlots
  PROVE  CanAllocate(p)
<1>1. /\ Cardinality(DeadSlots(p)) \in Nat /\ Residents(gs) \in Nat
      /\ NSlots - Residents(gs) - IdleSeat(Nobody) <= Cardinality(DeadSlots(p))
  BY DeadEnough
<1>2. Residents(gs) <= Seats(gs) /\ Seats(gs) \in Nat
  BY ResidentsSeated, SeatsFacts DEF World
<1>3. IdleSeat(Nobody) = 0
  BY DEF IdleSeat, Nobody
<1>4. Cardinality(DeadSlots(p)) > 0
  BY <1>1, <1>2, <1>3, SlotsAssumption
<1>5. DeadSlots(p) # {}
  BY <1>4, FS_EmptySet
<1> QED
  BY <1>5 DEF DeadSlots, CanAllocate

LEMMA AdmitCapacity ==
  ASSUME EngineInv, CapacityInv, AnswerTypes, waiting \in Seq(Job), Admit
  PROVE  CapacityInv'
<1>1. /\ World(groups, pool, text, idle) /\ groups \in Seq(GroupType) /\ idle \in IdleType
      /\ todo = << >> /\ scheduled = << >> /\ pc = "admit"
  BY DEF EngineInv, Admit, World
<1>2. PICK j \in Job : j = Head(waiting)
  BY DEF Admit
<1>3. PICK p : p = IF idle.seq = None \/ Continues(j) THEN pool ELSE Release(pool, idle.seq)
  OBVIOUS
<1>4. pc' = "admit" /\ todo' = << >> /\ scheduled' = << >>
  BY <1>1 DEF Admit, loop
<1>5. /\ Capacity(groups, pool, idle) /\ Reserved(groups) /\ StepsLeft(groups, pool, << >>)
      /\ NeverExhausted /\ Rows(scheduled') <= BatchMax
  BY <1>1, <1>4 DEF CapacityInv
<1>6. CASE TooLarge(j)
  <2>1. /\ groups' = groups /\ idle' = idle /\ pool' = pool
        /\ errors' = [errors EXCEPT ![j] = @ + 1]
    BY <1>2, <1>6 DEF Admit
  <2>2. NeverExhausted'
    <3> SUFFICES ASSUME NEW k \in Job, errors'[k] > 0 PROVE TooLarge(k)
      BY DEF NeverExhausted
    <3>1. CASE k = j
      BY <1>6, <3>1
    <3>2. CASE k # j
      <4>1. errors'[k] = errors[k]
        BY <2>1, <3>2 DEF AnswerTypes
      <4> QED
        BY <1>5, <4>1 DEF NeverExhausted
    <3> QED
      BY <3>1, <3>2
  <2> QED
    BY <1>4, <1>5, <2>1, <2>2 DEF CapacityInv
<1>7. CASE ~TooLarge(j)
  <2>1. /\ ContinuousPages(j, NChoices[j]) <= Cardinality(Page) - Debt(groups)
        /\ NChoices[j] <= NSlots - Seats(groups)
    BY <1>2, <1>5, <1>7, UsedIsOwed DEF Admit, Fits
  <2>2. /\ ContinuousPages(j, NChoices[j]) \in Nat /\ NChoices[j] \in Nat \ {0}
        /\ Debt(groups) \in Nat /\ Seats(groups) \in Nat /\ Cardinality(Page) \in Nat
    BY <1>1, JobFacts, ContinuousPagesType, DebtFacts, SeatsFacts, PageAssumption,
       FS_CardinalityType
  <2>3. /\ Debt(groups) + ContinuousPages(j, NChoices[j]) <= Cardinality(Page)
        /\ Seats(groups) + NChoices[j] <= NSlots
    BY <2>1, <2>2, SlotsAssumption
  <2>4. \A i \in DOMAIN groups : GroupFits(groups[i], pool)
    BY <1>5 DEF Capacity
  <2>5. /\ errors' = errors /\ idle' = Nobody
        /\ Capacity(groups', pool', Nobody) /\ Reserved(groups')
        /\ StepsLeft(groups', pool', << >>)
    <3>1. CASE Continues(j)
      <4>1. /\ idle' = Nobody /\ pool' = pool /\ errors' = errors
            /\ groups' = Append(groups, NewGroup(j, idle.seq, Len(idle.ids)))
        BY <1>2, <1>7, <3>1 DEF Admit, Nobody
      <4>2. /\ idle.seq \in Slot /\ idle.ids \in Seq(Token) /\ Len(idle.ids) \in Nat
            /\ idle.seq # None /\ IsPrefix(idle.ids, Prompt[j])
        BY <1>1, <3>1 DEF Continues, IdleType
      <4>3. pool.past[idle.seq] = Len(idle.ids)
        BY <1>1, <4>2 DEF World, HeldLive
      <4>4. Len(idle.ids) <= PromptLen(j) /\ PromptLen(j) \in Nat
        BY <4>2, JobFacts, PrefixWhole
      <4>5. PagesFor(Len(idle.ids)) <= PagesFor(PromptLen(j))
        BY <4>2, <4>4, PagesForMonotonic
      <4>6. Len(pool.table[idle.seq]) <= PagesFor(Len(idle.ids))
        BY <1>5, <4>2, <4>3 DEF Capacity, IdleFits
      <4>7. PagesFor(Len(idle.ids)) \in Nat /\ PagesFor(PromptLen(j)) \in Nat
            /\ Len(pool.table[idle.seq]) \in Nat
        BY <1>1, <4>2, <4>4, PagesForType, TableLengths DEF World
      <4>8. Len(pool.table[idle.seq]) <= PagesFor(PromptLen(j))
        BY <4>5, <4>6, <4>7
      <4>9. \A i \in DOMAIN groups : Unmoved(groups[i], pool, pool)
        BY DEF Unmoved
      <4>10. PICK r \in Slot : r = idle.seq
        BY <4>2
      <4>11. PICK n \in Nat : n = Len(idle.ids)
        BY <4>2
      <4>12. PICK g : g = NewGroup(j, r, n)
        OBVIOUS
      <4>13. groups' = Append(groups, g) /\ Len(pool.table[r]) <= PagesFor(PromptLen(j))
        BY <4>1, <4>8, <4>10, <4>11, <4>12
      <4> QED
        BY <1>1, <1>5, <2>3, <2>4, <4>1, <4>9, <4>12, <4>13, CapacityAppend
    <3>2. CASE ~Continues(j)
      <4>1. p = Forget(pool, idle)
        BY <1>3, <3>2 DEF Forget
      <4>2. World(groups, p, text, Nobody)
        BY <1>1, <4>1, WorldForget
      <4>3. CanAllocate(p)
        BY <2>2, <2>3, <4>2, FindsSlot
      <4>4. PICK r : r = FirstDead(p)
        OBVIOUS
      <4>5. r \in Slot /\ ~p.live[r] /\ p \in Pool /\ PoolInv(p)
        BY <4>2, <4>3, <4>4, FirstDeadSound DEF CanAllocate, IsFirstDead, World
      <4>6. PICK g : g = NewGroup(j, r, 0)
        OBVIOUS
      <4>7. /\ idle' = Nobody /\ pool' = Allocate(p, r) /\ errors' = errors
            /\ groups' = Append(groups, g)
        BY <1>2, <1>3, <1>7, <3>2, <4>3, <4>4, <4>6 DEF Admit, Nobody
      <4>8. PICK q : q = Allocate(p, r)
        OBVIOUS
      <4>9. q.table = p.table /\ \A s \in Slot : s # r => q.past[s] = p.past[s]
        BY <4>5, <4>8, PoolFields DEF Allocate
      <4>10. ASSUME NEW i \in DOMAIN groups PROVE Unmoved(groups[i], pool, q)
        <5>1. Unmoved(groups[i], pool, p)
          BY <1>1, <4>1, UnmovedForget
        <5>2. r \notin Held(groups[i]) /\ Held(groups[i]) \subseteq Slot
          BY <4>2, <4>5, WorldGroups
        <5> QED
          BY <4>9, <5>1, <5>2 DEF Unmoved
      <4>11. Len(q.table[r]) = 0
        BY <4>5, <4>9 DEF PoolInv, TablesCover
      <4>12. PagesFor(PromptLen(j)) \in Nat
        BY JobFacts, PagesForType
      <4>13. Len(q.table[r]) <= PagesFor(PromptLen(j)) /\ 0 \in Nat
        BY <4>11, <4>12
      <4> QED
        BY <1>1, <1>5, <2>3, <2>4, <4>5, <4>6, <4>7, <4>8, <4>10, <4>13, CapacityAppend
    <3> QED
      BY <3>1, <3>2
  <2>6. NeverExhausted'
    BY <1>5, <2>5 DEF NeverExhausted
  <2> QED
    BY <1>4, <1>5, <2>5, <2>6 DEF CapacityInv
<1> QED
  BY <1>6, <1>7

-----------------------------------------------------------------------------
(***************************************************************************)
(* Restores and the end of the loop                                        *)
(***************************************************************************)
\* A step after which every group owes what it owed, and its stable pages have
\* only become more.
LEMMA CapacityStep ==
  ASSUME NEW gs \in Seq(GroupType), NEW p, NEW d, Capacity(gs, p, d),
         NEW hs \in Seq(GroupType), DOMAIN hs = DOMAIN gs, NEW q,
         \A i \in DOMAIN gs :
           /\ GroupFits(hs[i], q)
           /\ Owed(hs[i]) = Owed(gs[i]) /\ Sequences(hs[i]) = Sequences(gs[i])
           /\ StablePages(gs[i], p) \subseteq StablePages(hs[i], q),
         IdleHas(q, d) \subseteq IdleHas(p, d), IdleFits(q, d)
  PROVE  Capacity(hs, q, d)
<1>1. Charged(hs, q, d)
  BY ChargeKept DEF Capacity
<1>2. Seats(hs) = Seats(gs)
  BY SameSeats
<1> QED
  BY <1>1, <1>2 DEF Capacity, Seated

LEMMA CapacityForget ==
  ASSUME NEW gs, NEW p, NEW t, NEW d, World(gs, p, t, d), Capacity(gs, p, d),
         NEW q, q = Forget(p, d)
  PROVE  Capacity(gs, q, Nobody)
<1>1. gs \in Seq(GroupType) /\ \A i \in DOMAIN gs : gs[i] \in GroupType
  BY DebtFacts DEF World
<1>2. \A i \in DOMAIN gs : Unmoved(gs[i], p, q)
  BY UnmovedForget
<1>3. \A i \in DOMAIN gs : GroupFits(gs[i], q)
  BY <1>1, <1>2, SameFits DEF Alike, Capacity
<1>4. IdleOnly(gs, q, Nobody) = {} /\ IdleFits(q, Nobody) /\ IdleSeat(Nobody) = 0
  BY DEF IdleOnly, IdleHas, Nobody, IdleFits, IdleSeat
<1>5. IsFiniteSet({}) /\ Cardinality({}) = 0 /\ Debt(gs) \in Nat /\ Seats(gs) \in Nat
      /\ IdleSeat(d) \in Nat
  BY <1>1, FS_EmptySet, DebtFacts, SeatsFacts DEF IdleSeat
<1>6. Cardinality(IdleOnly(gs, p, d)) \in Nat /\ Cardinality(Page) \in Nat
  BY ChargeCount
<1>7. Debt(gs) + Cardinality(IdleOnly(gs, p, d)) <= Cardinality(Page)
  BY DEF Capacity, Charged
<1>8. Charged(gs, q, Nobody)
  BY <1>4, <1>5, <1>6, <1>7 DEF Charged
<1>9. Seats(gs) + IdleSeat(d) <= NSlots
  BY DEF Capacity, Seated
<1>10. Seated(gs, Nobody)
  BY <1>4, <1>5, <1>9, SlotsAssumption DEF Seated
<1> QED
  BY <1>3, <1>4, <1>8, <1>10 DEF Capacity

LEMMA StepsUnmoved ==
  ASSUME NEW gs \in Seq(GroupType), NEW p, NEW q, NEW td, StepsLeft(gs, p, td),
         \A i \in DOMAIN gs : Unmoved(gs[i], p, q)
  PROVE  StepsLeft(gs, q, td)
<1> SUFFICES ASSUME NEW i \in DOMAIN gs, NEW c \in Unfinished(gs[i]), <<i, c>> \notin Elems(td)
             PROVE  q.past[gs[i].choices[c].seq] + 1
                      < PromptLen(gs[i].job) + MaxTokens[gs[i].job]
  BY DEF StepsLeft
<1>1. p.past[gs[i].choices[c].seq] + 1 < PromptLen(gs[i].job) + MaxTokens[gs[i].job]
  BY DEF StepsLeft
<1>2. gs[i] \in GroupType
  BY DebtFacts
<1>3. gs[i].choices[c].seq \in Held(gs[i])
  BY <1>2, HeldSlots
<1> QED
  BY <1>1, <1>3 DEF Unmoved

LEMMA ExitCapacity ==
  ASSUME EngineInv, CapacityInv, Exit
  PROVE  CapacityInv'
<1>1. /\ pc' = "exit" /\ groups' = groups /\ text' = text /\ errors' = errors
      /\ todo' = todo /\ scheduled' = scheduled
      /\ pool' = Forget(pool, idle) /\ idle' = Nobody
  BY DEF Exit, Forget, Nobody, answers
<1>2. World(groups, pool, text, idle) /\ Capacity(groups, pool, idle)
      /\ StepsLeft(groups, pool, todo) /\ groups \in Seq(GroupType)
  BY DEF EngineInv, CapacityInv, World
<1>3. Capacity(groups', pool', idle')
  BY <1>1, <1>2, CapacityForget
<1>4. StepsLeft(groups', pool', todo')
  BY <1>1, <1>2, StepsUnmoved, UnmovedForget
<1> QED
  BY <1>1, <1>3, <1>4 DEF CapacityInv, NeverExhausted

SameBut(p, q, r) == \A s \in Slot : s # r => q.table[s] = p.table[s] /\ q.past[s] = p.past[s]

LEMMA CapacityRoot ==
  ASSUME NEW gs, NEW p, NEW t, NEW d, World(gs, p, t, d), Capacity(gs, p, d),
         NEW td, StepsLeft(gs, p, td),
         NEW i \in DOMAIN gs, NEW r \in Slot, r = gs[i].root,
         NEW h \in GroupType, Alike(gs[i], h), h.credits = gs[i].credits,
         NEW q, SameBut(p, q, r), Len(q.table[r]) <= PagesFor(PromptLen(h.job)),
         NEW hs, hs = [gs EXCEPT ![i] = h]
  PROVE  Capacity(hs, q, d) /\ StepsLeft(hs, q, td)
<1>1. gs \in Seq(GroupType) /\ \A k \in DOMAIN gs : gs[k] \in GroupType
  BY DebtFacts DEF World
<1>2. /\ hs \in Seq(GroupType) /\ DOMAIN hs = DOMAIN gs /\ hs[i] = h
      /\ \A k \in DOMAIN gs : k # i => hs[k] = gs[k]
  BY <1>1
<1>3. r # None /\ GroupSound(gs[i], p, t)
  BY NoneIsNoSlot DEF World
<1>4. h.choices = << >> /\ h.root = r /\ gs[i].choices = << >>
  BY <1>3 DEF Alike, GroupSound, RootSound
<1>5. Held(h) = {r} /\ Unfinished(h) = {} /\ Held(gs[i]) = {r} /\ Unfinished(gs[i]) = {}
  BY <1>1, <1>3, <1>4, RootAlone
<1>6. Base(h) = 0 /\ Base(gs[i]) = 0 /\ Allot(h) = Allot(gs[i])
  BY <1>3, <1>4 DEF Alike, Base, Allot
<1>7. Owed(h) = Owed(gs[i])
  BY <1>5, <1>6 DEF Owed
<1>8. Sequences(h) = Sequences(gs[i])
  BY <1>3, <1>4 DEF Alike, Sequences
<1>9. StablePages(gs[i], p) = {}
  BY <1>6 DEF StablePages
<1>10. GroupFits(h, q)
  <2>1. Common(h, q)
    BY <1>6 DEF Common
  <2>2. h.credits = ContinuousPages(h.job, NChoices[h.job])
    BY <1>3, <1>4 DEF Alike, Capacity, GroupFits
  <2> QED
    BY <1>4, <1>5, <2>1, <2>2 DEF GroupFits
<1>11. \A k \in DOMAIN gs : k # i => Unmoved(gs[k], p, q)
  <2> SUFFICES ASSUME NEW k \in DOMAIN gs, k # i, NEW s \in Held(gs[k])
               PROVE  q.table[s] = p.table[s] /\ q.past[s] = p.past[s]
    BY DEF Unmoved
  <2>1. s # r /\ s \in Slot
    BY <1>1, <1>5, HeldSlots DEF World, HeldApart
  <2> QED
    BY <2>1 DEF SameBut
<1>12. ASSUME NEW k \in DOMAIN gs
       PROVE  /\ GroupFits(hs[k], q)
              /\ Owed(hs[k]) = Owed(gs[k]) /\ Sequences(hs[k]) = Sequences(gs[k])
              /\ StablePages(gs[k], p) \subseteq StablePages(hs[k], q)
  <2>1. CASE k = i
    BY <1>2, <1>7, <1>8, <1>9, <1>10, <2>1
  <2>2. CASE k # i
    <3>1. hs[k] = gs[k] /\ Unmoved(gs[k], p, q) /\ GroupFits(gs[k], p)
      BY <1>2, <1>11, <2>2 DEF Capacity
    <3>2. StablePages(gs[k], q) = StablePages(gs[k], p) /\ GroupFits(gs[k], q)
      BY <1>1, <3>1, SameFits DEF Alike
    <3> QED
      BY <3>1, <3>2
  <2> QED
    BY <2>1, <2>2
<1>13. IdleHas(q, d) \subseteq IdleHas(p, d) /\ IdleFits(q, d)
  <2>1. d.seq # r
    BY <1>5 DEF World, HeldLive
  <2>2. d.seq # None => d.seq \in Slot
    BY DEF World, IdleType
  <2>3. d.seq # None => q.table[d.seq] = p.table[d.seq] /\ q.past[d.seq] = p.past[d.seq]
    BY <2>1, <2>2 DEF SameBut
  <2> QED
    BY <2>3 DEF IdleHas, PagesOf, IdleFits, Capacity
<1>14. Capacity(hs, q, d)
  BY <1>1, <1>2, <1>12, <1>13, CapacityStep
<1>15. StepsLeft(hs, q, td)
  <2> SUFFICES ASSUME NEW k \in DOMAIN hs, NEW c \in Unfinished(hs[k]), <<k, c>> \notin Elems(td)
               PROVE  q.past[hs[k].choices[c].seq] + 1
                        < PromptLen(hs[k].job) + MaxTokens[hs[k].job]
    BY DEF StepsLeft
  <2>1. k # i /\ hs[k] = gs[k] /\ k \in DOMAIN gs
    BY <1>2, <1>5
  <2>2. p.past[gs[k].choices[c].seq] + 1 < PromptLen(gs[k].job) + MaxTokens[gs[k].job]
    BY <2>1 DEF StepsLeft
  <2>3. gs[k].choices[c].seq \in Held(gs[k])
    BY <1>1, <2>1, HeldSlots
  <2> QED
    BY <1>11, <2>1, <2>2, <2>3 DEF Unmoved
<1> QED
  BY <1>14, <1>15

\* Rows staged for a root take no more pages than its prompt has.
LEMMA RowsWithin ==
  ASSUME NEW p \in Pool, PoolInv(p), NEW r \in Slot, p.live[r],
         NEW n \in Nat, NEW end \in Nat, end <= n, Len(p.table[r]) <= PagesFor(n),
         Needed(p, r, end) <= Cardinality(p.free), NEW q, q = PrepareAny(p, r, end)
  PROVE  SameBut(p, q, r) /\ Len(q.table[r]) <= PagesFor(n)
<1>1. PICK new \in Picks(p.free, Needed(p, r, end)) : q = Prepare(p, r, end, new)
  BY PrepareAnySound
<1>2. /\ q.past = p.past /\ OthersKept(p, q, r)
      /\ Len(q.table[r]) = Len(p.table[r]) + Grow(p, r, end)
  BY <1>1, PrepareSound
<1>3. SameBut(p, q, r)
  BY <1>2 DEF SameBut, OthersKept
<1>4. PagesFor(end) \in Nat /\ PagesFor(n) \in Nat /\ PagesFor(end) <= PagesFor(n)
      /\ Len(p.table[r]) \in Nat
  BY PagesForType, PagesForMonotonic, TableLengths
<1>5. Len(q.table[r]) <= PagesFor(n)
  BY <1>2, <1>4 DEF Grow
<1> QED
  BY <1>3, <1>5

LEMMA MoveOnly ==
  ASSUME NEW p \in Pool, NEW r \in Slot, NEW n, NEW q, q = MoveTo(p, r, n)
  PROVE  SameBut(p, q, r) /\ q.table = p.table
<1>1. p.past \in [Slot -> Nat]
  BY PoolFields
<1> QED
  BY <1>1 DEF MoveTo, SameBut

LEMMA RestoredAlike ==
  ASSUME NEW g \in GroupType, NEW object \in StagedFor(g), NEW r, r = Restored(g, object)
  PROVE  /\ Alike(g, r) /\ r.credits = g.credits
         /\ r.imported > g.imported
              => /\ object.end \in 1 .. PromptLen(g.job)
                 /\ PrepareOk(pool, g.root, object.end)
<1>1. g.imported \in Nat /\ PromptLen(g.job) \in Nat
  BY GroupFields, JobFacts
<1>2. PICK h : h = Restarted(g)
  OBVIOUS
<1>3. Alike(g, h) /\ h.credits = g.credits /\ h.imported = 0
  BY <1>2, RestartedFacts DEF Alike
<1>4. CASE r = h
  BY <1>1, <1>3, <1>4
<1>5. CASE object.kind = "rows" /\ PrepareOk(pool, g.root, object.end)
  <2>1. object.end \in 1 .. PromptLen(g.job)
    BY <1>1, <1>5 DEF StagedFor
  <2>2. r = [g EXCEPT !.imported = object.end]
    BY <1>5 DEF Restored
  <2>3. Alike(g, r) /\ r.credits = g.credits
    BY <2>2 DEF Alike, GroupType
  <2> QED
    BY <1>5, <2>1, <2>3
<1>6. CASE object.kind = "snapshot"
  <2>1. r = [g EXCEPT !.logits = object.end, !.restoring = FALSE]
    BY <1>6 DEF Restored
  <2>2. Alike(g, r) /\ r.credits = g.credits /\ r.imported = g.imported
    BY <2>1 DEF Alike, GroupType
  <2> QED
    BY <1>1, <2>2
<1>7. CASE object.kind = "closed" /\ ~(g.imported > 0)
  <2>1. r = [g EXCEPT !.restoring = FALSE]
    BY <1>7 DEF Restored
  <2>2. Alike(g, r) /\ r.credits = g.credits /\ r.imported = g.imported
    BY <2>1 DEF Alike, GroupType
  <2> QED
    BY <1>1, <2>2
<1>8. CASE /\ object.kind \in {"rows", "error", "closed"}
           /\ ~(object.kind = "rows" /\ PrepareOk(pool, g.root, object.end))
           /\ ~(object.kind = "closed" /\ ~(g.imported > 0))
  BY <1>2, <1>4, <1>8 DEF Restored
<1> QED
  BY <1>5, <1>6, <1>7, <1>8 DEF StagedFor

LEMMA RestoreCapacity ==
  ASSUME EngineInv, CapacityInv, Restore
  PROVE  CapacityInv'
<1>1. /\ World(groups, pool, text, idle) /\ at \in Nat \ {0}
      /\ groups \in Seq(GroupType) /\ Capacity(groups, pool, idle)
      /\ StepsLeft(groups, pool, todo)
  BY DEF EngineInv, World, CapacityInv
<1>2. groups' \in Seq(GroupType)
  BY RestoreKeeps DEF EngineInv, World
<1>3. PICK i : i = NextRestoring
  OBVIOUS
<1>4. i \in DOMAIN groups /\ groups[i].restoring /\ i \in Nat
  BY <1>1, <1>3, NextRestoringFacts DEF Restore
<1>5. PICK g \in GroupType : g = groups[i]
  BY <1>1, <1>4
<1>6. /\ pc' = "restore" /\ idle' = idle /\ todo' = todo /\ scheduled' = scheduled
      /\ errors' = errors
  BY DEF Restore, answers
<1>7. CASE ~staged[g.job]
  <2>1. groups' = groups /\ pool' = pool
    BY <1>3, <1>5, <1>7 DEF Restore
  <2> QED
    BY <1>6, <2>1, CapacitySame DEF CapacityInv
<1>8. CASE staged[g.job]
  <2>1. PICK object \in StagedFor(g) :
          LET r == Restored(g, object)
          IN  /\ groups' = [groups EXCEPT ![i] = r]
              /\ IF r.imported > g.imported
                 THEN pool' = PrepareAny(pool, g.root, object.end)
                 ELSE IF object.kind = "snapshot"
                 THEN pool' = MoveTo(pool, g.root, object.end)
                 ELSE pool' = IF r = Restarted(g) THEN MoveTo(pool, g.root, 0) ELSE pool
    BY <1>3, <1>5, <1>8 DEF Restore
  <2>2. PICK h : h = Restored(g, object)
    OBVIOUS
  <2>3. /\ Alike(g, h) /\ h.credits = g.credits
        /\ h.imported > g.imported
             => /\ object.end \in 1 .. PromptLen(g.job)
                /\ PrepareOk(pool, g.root, object.end)
    BY <2>2, RestoredAlike
  <2>4. groups' = [groups EXCEPT ![i] = h]
    BY <2>1, <2>2
  <2>5. h \in GroupType
    BY <1>1, <1>2, <1>4, <2>4
  <2>6. PICK r \in Slot : r = g.root
    BY <1>1, <1>4, <1>5, RestoringRoot
  <2>7. pool \in Pool /\ PoolInv(pool) /\ pool.live[r] /\ r # None
    <3>1. pool.live[r]
      BY <1>1, <1>4, <1>5, <2>6, RestoringRoot
    <3>2. pool \in Pool /\ PoolInv(pool) /\ r # None
      BY <1>1, <2>6, NoneIsNoSlot DEF World
    <3> QED
      BY <3>1, <3>2
  <2>8. Len(pool.table[r]) <= PagesFor(PromptLen(g.job))
    BY <1>1, <1>4, <1>5, <2>6, <2>7 DEF Capacity, GroupFits
  <2>9. PromptLen(g.job) \in Nat
    BY GroupFields, JobFacts
  <2>10. SameBut(pool, pool', r) /\ Len(pool'.table[r]) <= PagesFor(PromptLen(g.job))
    <3>1. CASE h.imported > g.imported
      <4>1. PICK end \in Nat : end = object.end
        BY <2>3, <2>9, <3>1
      <4>2. end <= PromptLen(g.job) /\ PrepareOk(pool, r, end)
        BY <2>3, <2>6, <2>9, <3>1, <4>1
      <4>3. pool' = PrepareAny(pool, r, end)
        BY <2>1, <2>2, <2>6, <3>1, <4>1
      <4>4. Needed(pool, r, end) <= Cardinality(pool.free)
        BY <4>2 DEF PrepareOk
      <4> QED
        BY <2>7, <2>8, <2>9, <4>2, <4>3, <4>4, RowsWithin
    <3>2. CASE ~(h.imported > g.imported)
      <4>1. pool' = pool \/ \E n : pool' = MoveTo(pool, r, n)
        BY <2>1, <2>2, <2>6, <3>2
      <4>2. CASE pool' = pool
        BY <2>8, <4>2 DEF SameBut
      <4>3. CASE \E n : pool' = MoveTo(pool, r, n)
        BY <2>7, <2>8, <4>3, MoveOnly
      <4> QED
        BY <4>1, <4>2, <4>3
    <3> QED
      BY <3>1, <3>2
  <2>11. PromptLen(h.job) = PromptLen(g.job)
    BY <2>3 DEF Alike
  <2>12. Capacity(groups', pool', idle) /\ StepsLeft(groups', pool', todo)
    BY <1>1, <1>4, <1>5, <2>3, <2>4, <2>5, <2>6, <2>10, <2>11, CapacityRoot
  <2> QED
    BY <1>6, <2>12 DEF CapacityInv, NeverExhausted
<1> QED
  BY <1>7, <1>8

-----------------------------------------------------------------------------
(***************************************************************************)
(* Start: the forks find their slots and owe what their root owed          *)
(***************************************************************************)
LEMMA ForksFound ==
  ASSUME NEW gs, NEW p, NEW t, NEW d, World(gs, p, t, d), Seated(gs, d),
         NEW i \in DOMAIN gs, gs[i].root # None, NEW n \in Nat, n = NChoices[gs[i].job]
  PROVE  n - 1 <= Cardinality(DeadSlots(p))
<1>1. gs \in Seq(GroupType) /\ IsFiniteSet(DOMAIN gs) /\ Seats(gs) \in Nat
      /\ \A k \in DOMAIN gs : gs[k] \in GroupType /\ Sequences(gs[k]) \in Nat
  BY SeatsFacts DEF World
<1>2. \A k \in DOMAIN gs : /\ Cardinality(Held(gs[k])) <= Sequences(gs[k])
                           /\ Cardinality(Held(gs[k])) \in Nat
                           /\ gs[k].root # None => Cardinality(Held(gs[k])) = 1
  BY HeldSeats DEF World
<1>3. PICK f : f = [k \in DOMAIN gs |-> Cardinality(Held(gs[k]))]
  OBVIOUS
<1>4. PICK g : g = [k \in DOMAIN gs |-> Sequences(gs[k])]
  OBVIOUS
<1>5. PICK w : w = [k \in DOMAIN gs |-> IF k = i THEN 1 ELSE Sequences(gs[k])]
  OBVIOUS
<1>6. \A k \in DOMAIN gs : f[k] \in Int /\ w[k] \in Int /\ f[k] <= w[k]
  BY <1>1, <1>2, <1>3, <1>5
<1>7. SumFunctionOnSet(f, DOMAIN gs) <= SumFunctionOnSet(w, DOMAIN gs)
  BY <1>1, <1>6, SumLess
<1>8. \A k \in DOMAIN gs : g[k] \in Int /\ w[k] \in Int /\ (k # i => g[k] = w[k])
  BY <1>1, <1>4, <1>5
<1>9. SumFunctionOnSet(w, DOMAIN gs) - w[i] = SumFunctionOnSet(g, DOMAIN gs) - g[i]
  BY <1>1, <1>8, SumChange
<1>10. w[i] = 1 /\ g[i] = n
  BY <1>4, <1>5 DEF Sequences
<1>11. PICK a, b, c : /\ a = SumFunctionOnSet(f, DOMAIN gs) /\ b = SumFunctionOnSet(w, DOMAIN gs)
                      /\ c = SumFunctionOnSet(g, DOMAIN gs)
  OBVIOUS
<1>12. b \in Int
  BY <1>1, <1>8, <1>11, SumInt
<1>13. a = Residents(gs) /\ c = Seats(gs)
  BY <1>3, <1>4, <1>11 DEF Residents, Seats
<1>14. a <= b /\ b - 1 = c - n
  BY <1>7, <1>9, <1>10, <1>11
<1>15. /\ Cardinality(DeadSlots(p)) \in Nat /\ Residents(gs) \in Nat
       /\ NSlots - Residents(gs) - IdleSeat(d) <= Cardinality(DeadSlots(p))
  BY DeadEnough
<1>16. Seats(gs) + IdleSeat(d) <= NSlots /\ IdleSeat(d) \in Nat
  BY DEF Seated, IdleSeat
<1>17. PICK m \in Nat, e \in Nat : m = Cardinality(DeadSlots(p)) /\ e = IdleSeat(d)
  BY <1>15, <1>16
<1>18. a \in Nat /\ c \in Nat
  BY <1>1, <1>13, <1>15
<1>19. NSlots - a - e <= m /\ c + e <= NSlots
  BY <1>13, <1>15, <1>16, <1>17
<1>20. n - 1 <= m
  BY <1>12, <1>14, <1>17, <1>18, <1>19, SlotsAssumption
<1> QED
  BY <1>17, <1>20

LEMMA ForkedTable ==
  ASSUME NEW p \in Pool, PoolInv(p), NEW r \in Slot, p.live[r], NEW a, a = SharedPrefix(p, r)
  PROVE  /\ Len(a) = PagesFor(p.past[r]) /\ PagesFor(p.past[r]) \in Nat
         /\ \A k \in 1 .. PagesFor(p.past[r]) : a[k] = p.table[r][k]
<1>1. p.table[r] \in Seq(Page) /\ p.past[r] \in Nat
  BY PoolFields
<1>2. PICK n \in Nat : n = PagesFor(p.past[r])
  BY <1>1, PagesForType
<1>3. n <= Len(p.table[r])
  BY <1>2 DEF PoolInv, TablesCover
<1> QED
  BY <1>1, <1>2, <1>3 DEF SharedPrefix

LEMMA StartedTables ==
  ASSUME NEW gs, NEW p, NEW t, NEW d, World(gs, p, t, d), Capacity(gs, p, d),
         NEW i \in DOMAIN gs, NEW g, g = gs[i], Prefilled(g, p),
         NEW q, NEW slots, ForkedFor(p, g, q, slots),
         NEW s \in Slot, s = g.root \/ s \in Elems(slots)
  PROVE  /\ q.past[s] = PromptLen(g.job)
         /\ Len(q.table[s]) <= PagesFor(PromptLen(g.job))
         /\ \A k \in 1 .. Full(g.job) : q.table[s][k] = p.table[g.root][k]
<1>1. p \in Pool /\ PoolInv(p) /\ g \in GroupType /\ g.root \in Held(g) /\ g.root # None
  BY WorldGroups, HeldSlots DEF World, Prefilled
<1>2. PICK r \in Slot : r = g.root
  BY <1>1, HeldSlots
<1>3. p.live[r] /\ p.past[r] = PromptLen(g.job)
  BY <1>1, <1>2, WorldGroups DEF Prefilled
<1>4. Len(p.table[r]) <= PagesFor(PromptLen(g.job))
  BY <1>1, <1>2 DEF Capacity, GroupFits
<1>5. /\ \A x \in Elems(slots) : ~p.live[x]
      /\ q.past[s] = IF s \in Elems(slots) THEN p.past[r] ELSE p.past[s]
      /\ q.table[s] = IF s \in Elems(slots) THEN SharedPrefix(p, r) ELSE p.table[s]
  BY <1>2 DEF ForkedFor, ForkedSound
<1>6. PICK n \in Nat : n = PromptLen(g.job)
  BY <1>1, GroupFields, JobFacts
<1>7. Full(g.job) \in Nat /\ Full(g.job) <= PagesFor(n) /\ PagesFor(n) \in Nat
  <2>1. g.job \in Job
    BY <1>1, GroupFields
  <2>2. Full(g.job) \in Nat
    BY <2>1, ShareFacts
  <2>3. n \div PageTokens <= PagesFor(n)
    BY FullPagesWithin
  <2> QED
    BY <1>6, <2>2, <2>3, PagesForType DEF Full
<1>8. CASE s \in Elems(slots)
  <2>1. PICK a : a = SharedPrefix(p, r)
    OBVIOUS
  <2>2. /\ Len(a) = PagesFor(n) /\ \A k \in 1 .. PagesFor(n) : a[k] = p.table[r][k]
    BY <1>1, <1>3, <1>6, <2>1, ForkedTable
  <2>3. q.past[s] = n /\ q.table[s] = a
    BY <1>3, <1>5, <1>6, <1>8, <2>1
  <2>4. \A k \in 1 .. Full(g.job) : k \in 1 .. PagesFor(n)
    BY <1>7
  <2> QED
    BY <1>2, <1>6, <1>7, <2>2, <2>3, <2>4
<1>9. CASE s \notin Elems(slots)
  <2>1. s = r
    BY <1>2, <1>9
  <2> QED
    BY <1>2, <1>3, <1>4, <1>5, <1>9, <2>1
<1> QED
  BY <1>8, <1>9

LEMMA StartFits ==
  ASSUME NEW gs, NEW p, NEW t, NEW d, World(gs, p, t, d), Capacity(gs, p, d),
         StepsLeft(gs, p, << >>),
         NEW i \in DOMAIN gs, NEW g, g = gs[i], Prefilled(g, p),
         NEW q, NEW slots, ForkedFor(p, g, q, slots),
         NEW h, h = Started(g, Family(g.root, slots)),
         NEW hs, hs = [gs EXCEPT ![i] = h],
         NEW n \in Nat, n = NChoices[g.job],
         NEW td, \A c \in 1 .. n : <<i, c>> \in Elems(td)
  PROVE  Capacity(hs, q, d) /\ StepsLeft(hs, q, td)
<1>1. /\ gs \in Seq(GroupType) /\ p \in Pool /\ PoolInv(p)
      /\ \A k \in DOMAIN gs : /\ gs[k] \in GroupType /\ Held(gs[k]) \subseteq Slot
                              /\ \A s \in Held(gs[k]) : p.live[s]
  BY WorldGroups DEF World
<1>2. PICK r \in Slot : r = g.root
  BY <1>1, GroupFields DEF Prefilled
<1>3. g \in GroupType /\ g.root # None /\ r \in Held(g) /\ GroupSound(g, p, t)
      /\ r # None /\ g.job \in Job
  BY <1>1, <1>2, HeldSlots, GroupFields DEF Prefilled, World
<1>4. g.choices = << >> /\ Held(g) = {r} /\ Unfinished(g) = {}
  BY <1>2, <1>3, RootAlone DEF GroupSound, RootSound
<1>5. slots \in Seq(Slot) /\ Distinct(slots) /\ Len(slots) = n - 1 /\ r \notin Elems(slots)
      /\ \A s \in Elems(slots) : s \in Slot /\ ~p.live[s]
  <2>1. slots \in Seq(Slot) /\ Distinct(slots) /\ Len(slots) = n - 1
        /\ \A s \in Elems(slots) : ~p.live[s]
    BY DEF ForkedFor, ForkedSound
  <2>2. p.live[r]
    BY <1>1, <1>3
  <2>3. \A s \in Elems(slots) : s \in Slot
    BY <2>1 DEF Elems
  <2> QED
    BY <2>1, <2>2, <2>3
<1>6. PICK seqs : seqs = Family(r, slots)
  OBVIOUS
<1>7. /\ seqs \in Seq(Slot) /\ Len(seqs) = n
      /\ \A s : s \in Elems(seqs) <=> s = r \/ s \in Elems(slots)
      /\ Distinct(seqs)
  <2>1. /\ seqs \in Seq(Slot) /\ Len(seqs) = Len(slots) + 1 /\ Len(slots) \in Nat
    BY <1>5, <1>6, ConsFacts
  <2>2. \A s : s \in Elems(seqs) <=> s = r \/ s \in Elems(slots)
    BY <1>5, <1>6, ConsFacts
  <2>3. Distinct(slots) /\ r \notin Elems(slots) => Distinct(seqs)
    BY <1>5, <1>6, ConsFacts
  <2> QED
    BY <1>5, <2>1, <2>2, <2>3
<1>8. h = Started(g, seqs)
  BY <1>2, <1>6
<1>9. /\ h \in GroupType /\ h.job = g.job /\ h.root = None /\ h.credits = g.credits
      /\ Unfinished(h) = 1 .. n /\ Held(h) = Elems(seqs)
      /\ \A c \in 1 .. n : h.choices[c].seq = seqs[c]
  BY <1>3, <1>7, <1>8, StartedFacts
<1>10. \A s \in Held(h) : /\ s \in Slot /\ q.past[s] = PromptLen(g.job)
                         /\ Len(q.table[s]) <= PagesFor(PromptLen(g.job))
                         /\ \A k \in 1 .. Full(g.job) : q.table[s][k] = p.table[r][k]
  <2> SUFFICES ASSUME NEW s \in Held(h)
               PROVE  /\ s \in Slot /\ q.past[s] = PromptLen(g.job)
                      /\ Len(q.table[s]) <= PagesFor(PromptLen(g.job))
                      /\ \A k \in 1 .. Full(g.job) : q.table[s][k] = p.table[r][k]
    OBVIOUS
  <2>1. s \in Slot /\ (s = g.root \/ s \in Elems(slots))
    BY <1>2, <1>5, <1>7, <1>9
  <2> QED
    BY <1>2, <2>1, StartedTables
<1>11. Base(h) = Full(g.job) /\ Base(g) = 0 /\ Allot(h) = Share(g.job)
       /\ Allot(g) = ContinuousPages(g.job, n)
  BY <1>3, <1>9 DEF Base, Allot
<1>12. Cardinality(Held(h)) = n /\ Cardinality(Held(g)) = 1 /\ Cardinality(Unfinished(h)) = n
  <2>1. Cardinality(Elems(seqs)) = n
    BY <1>7, DistinctCount
  <2>2. Cardinality({r}) = 1
    BY FS_Singleton
  <2>3. 1 \in Int /\ n \in Int
    OBVIOUS
  <2>4. Cardinality(1 .. n) = IF 1 > n THEN 0 ELSE n - 1 + 1
    BY <2>3, FS_Interval
  <2> QED
    BY <1>4, <1>9, <2>1, <2>2, <2>4
<1>13. n \in Nat \ {0}
  BY <1>3, JobFacts
<1>14. Held(h) # {} /\ Held(g) # {}
  <2>1. r \in Held(h)
    BY <1>7, <1>9
  <2> QED
    BY <1>3, <2>1
<1>15. Owed(h) = Owed(g)
  <2>1. PICK f \in Nat, s \in Nat, m \in Nat :
          f = Full(g.job) /\ s = Share(g.job) /\ m = ContinuousPages(g.job, n)
    BY <1>3, <1>13, ShareFacts
  <2>2. m = f + n * s
    BY <1>3, <1>13, <2>1, ShareFacts
  <2>3. Owed(h) = f + n * s
    BY <1>11, <1>12, <1>14, <2>1 DEF Owed
  <2>4. Owed(g) = 0 + 1 * m
    BY <1>11, <1>12, <1>14, <2>1 DEF Owed
  <2> QED
    BY <2>1, <2>2, <2>3, <2>4
<1>16. Sequences(h) = Sequences(g)
  BY <1>3, <1>9, <1>12 DEF Sequences
<1>17. PromptLen(g.job) \in Nat /\ MaxTokens[g.job] \in Nat \ {0}
  BY <1>3, JobFacts
<1>18. GroupFits(h, q)
  <2>1. Common(h, q)
    BY <1>10, <1>11 DEF Common
  <2>2. ASSUME NEW c \in Unfinished(h) PROVE ChoiceFits(h, q, h.choices[c].seq)
    <3>1. h.choices[c].seq \in Held(h)
      BY <1>9, HeldSlots
    <3> QED
      BY <1>9, <1>10, <1>17, <3>1 DEF ChoiceFits
  <2> QED
    BY <1>9, <2>1, <2>2 DEF GroupFits
<1>19. StablePages(g, p) = {}
  BY <1>11 DEF StablePages
<1>20. /\ hs \in Seq(GroupType) /\ DOMAIN hs = DOMAIN gs /\ hs[i] = h
       /\ \A k \in DOMAIN gs : k # i => hs[k] = gs[k]
  BY <1>1, <1>9
<1>21. \A s \in Slot : s \notin Elems(slots) => /\ q.table[s] = p.table[s]
                                               /\ q.past[s] = p.past[s]
  BY DEF ForkedFor, ForkedSound
<1>22. \A k \in DOMAIN gs : Unmoved(gs[k], p, q)
  BY <1>1, <1>5, <1>21 DEF Unmoved
<1>23. ASSUME NEW k \in DOMAIN gs
       PROVE  /\ GroupFits(hs[k], q)
              /\ Owed(hs[k]) = Owed(gs[k]) /\ Sequences(hs[k]) = Sequences(gs[k])
              /\ StablePages(gs[k], p) \subseteq StablePages(hs[k], q)
  <2>1. CASE k = i
    BY <1>15, <1>16, <1>18, <1>19, <1>20, <2>1
  <2>2. CASE k # i
    <3>1. hs[k] = gs[k] /\ Unmoved(gs[k], p, q) /\ GroupFits(gs[k], p)
      BY <1>20, <1>22, <2>2 DEF Capacity
    <3>2. StablePages(gs[k], q) = StablePages(gs[k], p) /\ GroupFits(gs[k], q)
      BY <1>1, <3>1, SameFits DEF Alike
    <3> QED
      BY <3>1, <3>2
  <2> QED
    BY <2>1, <2>2
<1>24. IdleHas(q, d) \subseteq IdleHas(p, d) /\ IdleFits(q, d)
  <2>1. d.seq # None => d.seq \in Slot /\ p.live[d.seq]
    BY WorldGroups
  <2>2. d.seq # None => q.table[d.seq] = p.table[d.seq] /\ q.past[d.seq] = p.past[d.seq]
    BY <1>5, <1>21, <2>1
  <2> QED
    BY <2>2 DEF IdleHas, PagesOf, IdleFits, Capacity
<1>25. Capacity(hs, q, d)
  BY <1>1, <1>20, <1>23, <1>24, CapacityStep, ZenonT(60)
<1>26. StepsLeft(hs, q, td)
  <2> SUFFICES ASSUME NEW k \in DOMAIN hs, NEW c \in Unfinished(hs[k]), <<k, c>> \notin Elems(td)
               PROVE  q.past[hs[k].choices[c].seq] + 1
                        < PromptLen(hs[k].job) + MaxTokens[hs[k].job]
    BY DEF StepsLeft
  <2>1. k # i /\ hs[k] = gs[k] /\ k \in DOMAIN gs
    BY <1>9, <1>20
  <2>2. Elems(<< >>) = {}
    BY DEF Elems
  <2>3. p.past[gs[k].choices[c].seq] + 1 < PromptLen(gs[k].job) + MaxTokens[gs[k].job]
    BY <2>1, <2>2 DEF StepsLeft
  <2>4. gs[k].choices[c].seq \in Held(gs[k])
    BY <1>1, <2>1, HeldSlots
  <2> QED
    BY <1>22, <2>1, <2>3, <2>4 DEF Unmoved
<1> QED
  BY <1>25, <1>26

LEMMA TodoAll ==
  ASSUME NEW n \in Nat, NEW i, NEW td, td = [c \in 1 .. n |-> <<i, c>>]
  PROVE  \A c \in 1 .. n : <<i, c>> \in Elems(td)
BY DEF Elems

\* Group i is forked: q is the pool after it, and slots are those of the children.
Forks(i, slots, q) ==
  /\ Prefilled(groups[i], pool) /\ ForkedFor(pool, groups[i], q, slots)
  /\ groups' = [groups EXCEPT ![i] = Started(groups[i], Family(groups[i].root, slots))]
  /\ pool' = q /\ errors' = errors
  /\ todo' = [c \in 1 .. NChoices[groups[i].job] |-> <<i, c>>]

\* start_choices finds its logits and its slots.
LEMMA StartForks ==
  ASSUME EngineInv, CapacityInv, Start
  PROVE  \E i \in DOMAIN groups : \E slots : \E q : Forks(i, slots, q)
<1>1. /\ World(groups, pool, text, idle) /\ Capacity(groups, pool, idle)
      /\ at \in Nat \ {0} /\ todo = << >> /\ StepsLeft(groups, pool, << >>)
  BY DEF EngineInv, Start, CapacityInv
<1>2. /\ groups \in Seq(GroupType) /\ pool \in Pool /\ PoolInv(pool)
      /\ \A k \in DOMAIN groups : groups[k] \in GroupType
  BY <1>1, WorldGroups DEF World
<1>3. PICK i : i = NextPrefilled
  OBVIOUS
<1>4. i \in DOMAIN groups /\ Prefilled(groups[i], pool)
  BY <1>1, <1>2, <1>3, NextPrefilledFacts DEF Start
<1>5. PICK g \in GroupType : g = groups[i]
  BY <1>2, <1>4
<1>6. PICK n \in Nat : n = NChoices[g.job] /\ n # 0
  BY GroupFields, JobFacts
<1>7. PICK b : b = Forked(g.root, n - 1)
  OBVIOUS
<1>9. g.root # None /\ ~g.restoring /\ pool.past[g.root] = PromptLen(g.job)
  BY <1>4, <1>5 DEF Prefilled
<1>10. g.logits # 0
  <2>1. GroupSound(g, pool, text)
    BY <1>1, <1>4, <1>5 DEF World
  <2>2. g.logits = PromptLen(g.job)
    BY <1>9, <2>1 DEF GroupSound, RootSound
  <2> QED
    BY <2>2, GroupFields, JobFacts
<1>11. n - 1 <= Cardinality(DeadSlots(pool)) /\ Cardinality(DeadSlots(pool)) \in Nat
  <2>1. Seated(groups, idle)
    BY <1>1 DEF Capacity
  <2>2. n - 1 <= Cardinality(DeadSlots(pool))
    BY <1>1, <1>4, <1>5, <1>6, <1>9, <2>1, ForksFound
  <2> QED
    BY <1>1, <2>2, DeadEnough
<1>12. ~(g.logits = 0 \/ Cardinality({s \in Slot : ~pool.live[s]}) < n - 1)
  BY <1>6, <1>10, <1>11 DEF DeadSlots
<1>13. PICK h : h = Started(g, Family(g.root, b.slots))
  OBVIOUS
<1>14. /\ groups' = [groups EXCEPT ![i] = h] /\ pool' = b.p
       /\ todo' = [c \in 1 .. n |-> <<i, c>>] /\ errors' = errors
  BY <1>3, <1>5, <1>6, <1>7, <1>12, <1>13 DEF Start, Started, Family
<1>15. pool.live[g.root] /\ g.root \in Slot
  <2>1. g.root \in Held(groups[i])
    BY <1>5, <1>9, HeldSlots
  <2> QED
    BY <1>1, <1>4, <2>1, WorldGroups
<1>16. n - 1 \in Nat /\ n - 1 <= Cardinality({s \in Slot : ~pool.live[s]})
  BY <1>6, <1>11 DEF DeadSlots
<1>17. ForkedSound(pool, g.root, b.p, b.slots) /\ Len(b.slots) = n - 1
  BY <1>2, <1>7, <1>15, <1>16, ForkedFacts
<1>18. PICK q, slots : q = b.p /\ slots = b.slots
  OBVIOUS
<1>19. Forks(i, slots, q)
  BY <1>4, <1>5, <1>6, <1>13, <1>14, <1>17, <1>18 DEF Forks, ForkedFor
<1> QED
  BY <1>4, <1>19

LEMMA StartCapacity ==
  ASSUME EngineInv, CapacityInv, Start
  PROVE  CapacityInv'
<1>1. /\ World(groups, pool, text, idle) /\ Capacity(groups, pool, idle)
      /\ StepsLeft(groups, pool, << >>)
  BY DEF EngineInv, Start, CapacityInv
<1>2. /\ pc' = "start" /\ idle' = idle /\ scheduled' = scheduled
  BY DEF Start
<1>3. PICK i \in DOMAIN groups : \E slots : \E q : Forks(i, slots, q)
  BY StartForks
<1>4. PICK slots, q : Forks(i, slots, q)
  BY <1>3
<1>5. PICK g \in GroupType : g = groups[i]
  BY <1>1, WorldGroups
<1>6. PICK n \in Nat : n = NChoices[g.job] /\ n # 0
  BY GroupFields, JobFacts
<1>7. PICK h : h = Started(g, Family(g.root, slots))
  OBVIOUS
<1>8. /\ ForkedFor(pool, g, q, slots) /\ Prefilled(g, pool)
      /\ groups' = [groups EXCEPT ![i] = h] /\ pool' = q
      /\ todo' = [c \in 1 .. n |-> <<i, c>>] /\ errors' = errors
  BY <1>4, <1>5, <1>6, <1>7 DEF Forks
<1>9. \A c \in 1 .. n : <<i, c>> \in Elems(todo')
  BY <1>8, TodoAll
<1>10. PICK hs, td : hs = [groups EXCEPT ![i] = h] /\ td = todo'
  OBVIOUS
<1>11. Capacity(hs, q, idle) /\ StepsLeft(hs, q, td)
  BY <1>1, <1>5, <1>6, <1>7, <1>8, <1>9, <1>10, StartFits
<1>12. Capacity(groups', pool', idle') /\ StepsLeft(groups', pool', todo')
  BY <1>2, <1>8, <1>10, <1>11
<1> QED
  BY <1>2, <1>8, <1>12 DEF CapacityInv, NeverExhausted

-----------------------------------------------------------------------------
(***************************************************************************)
(* A choice ends                                                           *)
(***************************************************************************)
\* Group g becomes h: it has given up the sequence s of its choice c.
Leaves(g, h, c, s) ==
  /\ g \in GroupType /\ h \in GroupType /\ h.job = g.job
  /\ g.root = None /\ h.root = None
  /\ c \in Unfinished(g) /\ Unfinished(h) = Unfinished(g) \ {c}
  /\ s \in Held(g) /\ Held(h) = Held(g) \ {s}
  /\ \A e \in Unfinished(h) : h.choices[e] = g.choices[e]

\* Its debt falls by a share, and with the last choice by all that is left.
LEMMA LeavingOwed ==
  ASSUME NEW g, NEW h, NEW c, NEW s, Leaves(g, h, c, s),
         NEW p \in Pool, GroupFits(g, p), NEW q, Unmoved(h, p, q)
  PROVE  /\ Base(h) = Base(g) /\ Allot(h) = Allot(g)
         /\ Held(h) # {} => /\ Owed(h) + Allot(g) = Owed(g)
                            /\ StablePages(h, q) = StablePages(g, p)
         /\ Held(h) = {} => Owed(h) = 0 /\ Owed(g) = Base(g) + Allot(g)
         /\ Sequences(h) + 1 = Sequences(g)
         /\ GroupFits(h, q)
<1>1. /\ g \in GroupType /\ h \in GroupType /\ h.job = g.job /\ g.root = None /\ h.root = None
      /\ c \in Unfinished(g) /\ Unfinished(h) = Unfinished(g) \ {c}
      /\ s \in Held(g) /\ Held(h) = Held(g) \ {s}
      /\ \A e \in Unfinished(h) : h.choices[e] = g.choices[e]
  BY DEF Leaves
<1>2. Base(h) = Base(g) /\ Allot(h) = Allot(g)
  BY <1>1 DEF Base, Allot
<1>3. IsFiniteSet(Held(g)) /\ Cardinality(Held(h)) = Cardinality(Held(g)) - 1
      /\ Cardinality(Held(h)) \in Nat /\ Cardinality(Held(g)) \in Nat
  <2>1. IsFiniteSet(Held(g)) /\ Cardinality(Held(h)) \in Nat /\ Cardinality(Held(g)) \in Nat
    BY <1>1, HeldFinite
  <2>2. Cardinality(Held(g) \ {s}) = Cardinality(Held(g)) - 1
    BY <1>1, <2>1, FS_RemoveElement
  <2> QED
    BY <1>1, <2>1, <2>2
<1>4. PICK n \in Nat, m \in Nat : n = Cardinality(Held(g)) /\ m = Cardinality(Held(h)) /\ n = m + 1
  BY <1>3
<1>5. PICK b \in Nat, a \in Nat : b = Base(g) /\ a = Allot(g)
  BY <1>1, OwedFacts
<1>6. Held(g) # {} /\ Owed(g) = b + n * a
  BY <1>1, <1>4, <1>5 DEF Owed
<1>7. n * a = m * a + a
  BY <1>4, <1>5
<1>8. ASSUME Held(h) # {} PROVE Owed(h) + Allot(g) = Owed(g)
  <2>1. Owed(h) = b + m * a
    BY <1>2, <1>4, <1>5, <1>8 DEF Owed
  <2>2. PICK k \in Nat : k = m * a
    BY <1>4, <1>5
  <2> QED
    BY <1>5, <1>6, <1>7, <2>1, <2>2
<1>9. Common(g, p)
  BY DEF GroupFits
<1>10. ASSUME Held(h) # {} PROVE StablePages(h, q) = StablePages(g, p)
  <2>1. PICK r \in Held(h) : TRUE
    BY <1>10
  <2>2. \A x : (\E k \in 1 .. b : x = p.table[r][k]) <=> (\E u \in Held(g) : \E k \in 1 .. b : x = p.table[u][k])
    <3>1. \A u \in Held(g) : \A k \in 1 .. b : p.table[u][k] = p.table[r][k]
      BY <1>1, <1>5, <1>9, <2>1 DEF Common
    <3> QED
      BY <1>1, <2>1, <3>1
  <2>3. \A x : (\E k \in 1 .. b : x = p.table[r][k]) <=> (\E u \in Held(h) : \E k \in 1 .. b : x = q.table[u][k])
    <3>1. \A u \in Held(h) : \A k \in 1 .. b : q.table[u][k] = p.table[r][k]
      BY <1>1, <1>5, <1>9, <2>1 DEF Common, Unmoved
    <3> QED
      BY <2>1, <3>1
  <2>4. StablePages(g, p) = {x \in Page : \E k \in 1 .. b : x = p.table[r][k]}
    BY <1>5, <2>2 DEF StablePages
  <2>5. StablePages(h, q) = {x \in Page : \E k \in 1 .. b : x = p.table[r][k]}
    <3>1. Base(h) = b
      BY <1>2, <1>5
    <3>2. StablePages(h, q) = {x \in Page : \E u \in Held(h) : \E k \in 1 .. b : x = q.table[u][k]}
      BY <3>1 DEF StablePages
    <3> QED
      BY <2>3, <3>2
  <2> QED
    BY <2>4, <2>5
<1>11. ASSUME Held(h) = {} PROVE Owed(h) = 0 /\ Owed(g) = Base(g) + Allot(g)
  <2>1. m = 0 /\ n = 1
    BY <1>4, <1>11, FS_EmptySet
  <2>2. Owed(h) = 0
    BY <1>11 DEF Owed
  <2> QED
    BY <1>5, <1>6, <2>1, <2>2
<1>12. Sequences(h) + 1 = Sequences(g)
  <2>1. IsFiniteSet(Unfinished(g)) /\ Cardinality(Unfinished(g)) \in Nat
    BY <1>1, UnfinishedCount
  <2>2. Cardinality(Unfinished(g) \ {c}) = Cardinality(Unfinished(g)) - 1
    BY <1>1, <2>1, FS_RemoveElement
  <2> QED
    BY <1>1, <2>1, <2>2 DEF Sequences
<1>13. GroupFits(h, q)
  <2>1. Common(h, q)
    BY <1>1, <1>2, <1>9 DEF Common, Unmoved
  <2>2. ASSUME NEW e \in Unfinished(h) PROVE ChoiceFits(h, q, h.choices[e].seq)
    <3>1. PICK u : u = h.choices[e].seq
      OBVIOUS
    <3>2. u \in Held(h)
      BY <1>1, <3>1, HeldSlots
    <3>3. ChoiceFits(g, p, u)
      BY <1>1, <3>1 DEF GroupFits
    <3>4. q.table[u] = p.table[u] /\ q.past[u] = p.past[u]
      BY <3>2 DEF Unmoved
    <3> QED
      BY <1>1, <3>1, <3>3, <3>4 DEF ChoiceFits
  <2> QED
    BY <1>1, <2>1, <2>2 DEF GroupFits
<1> QED
  BY <1>2, <1>8, <1>10, <1>11, <1>12, <1>13

\* What a charge may grow by: the pages D, for which enough was owed.
PaidBy(D, g, h) ==
  /\ IsFiniteSet(D)
  /\ \E k \in Nat : Cardinality(D) <= k /\ Owed(h) + k <= Owed(g)

LEMMA LeavingStable ==
  ASSUME NEW g, NEW h, NEW c, NEW s, Leaves(g, h, c, s),
         NEW p \in Pool, GroupFits(g, p), Fitting(g, p), NEW q, Unmoved(h, p, q),
         NEW D, D = StablePages(g, p) \ StablePages(h, q)
  PROVE  PaidBy(D, g, h)
<1>1. g \in GroupType /\ h \in GroupType
  BY DEF Leaves
<1>2. Owed(g) \in Nat /\ Owed(h) \in Nat /\ Allot(g) \in Nat
  BY <1>1, OwedFacts
<1>3. /\ IsFiniteSet(StablePages(g, p)) /\ Cardinality(StablePages(g, p)) \in Nat
      /\ Cardinality(StablePages(g, p)) <= Owed(g)
  BY <1>1, StableWithin
<1>4. CASE Held(h) = {}
  <2>1. Owed(h) = 0
    BY <1>4, LeavingOwed
  <2>2. IsFiniteSet(D) /\ Cardinality(D) <= Cardinality(StablePages(g, p)) /\ Cardinality(D) \in Nat
    BY <1>3, FS_Subset, FS_CardinalityType
  <2> QED
    BY <1>2, <1>3, <2>1, <2>2 DEF PaidBy
<1>5. CASE Held(h) # {}
  <2>1. Owed(h) + Allot(g) = Owed(g) /\ StablePages(h, q) = StablePages(g, p)
    BY <1>5, LeavingOwed
  <2>2. D = {} /\ IsFiniteSet(D) /\ Cardinality(D) = 0
    BY <2>1, FS_EmptySet
  <2>3. 0 \in Nat /\ Owed(h) + 0 <= Owed(g)
    BY <1>2, <2>1
  <2> QED
    BY <2>2, <2>3 DEF PaidBy
<1> QED
  BY <1>4, <1>5

LEMMA LeavingPages ==
  ASSUME NEW g, NEW h, NEW c, NEW s, Leaves(g, h, c, s),
         NEW p \in Pool, GroupFits(g, p), Fitting(g, p), NEW q, Unmoved(h, p, q),
         NEW D, D = PagesOf(p, s) \ StablePages(h, q)
  PROVE  PaidBy(D, g, h)
<1>1. g \in GroupType /\ h \in GroupType /\ s \in Held(g)
  BY DEF Leaves
<1>2. Owed(g) \in Nat /\ Owed(h) \in Nat /\ Allot(g) \in Nat /\ Base(g) \in Nat /\ s \in Slot
  BY <1>1, OwedFacts, HeldSlots
<1>3. /\ Base(g) <= Len(p.table[s]) /\ Len(p.table[s]) <= Base(g) + Allot(g)
      /\ Len(p.table[s]) \in Nat
  BY <1>1, <1>2, PagesInPage DEF Fitting
<1>4. CASE Held(h) = {}
  <2>1. Owed(h) = 0 /\ Owed(g) = Base(g) + Allot(g)
    BY <1>4, LeavingOwed
  <2>2. StablePages(h, q) = {}
    BY <1>4 DEF StablePages
  <2>3. 0 \in Nat /\ 0 <= Len(p.table[s]) /\ \A k \in 1 .. 0 : p.table[s][k] \in {}
    BY <1>3
  <2>4. IsFiniteSet(PagesOf(p, s) \ {}) /\ Cardinality(PagesOf(p, s) \ {}) <= Len(p.table[s]) - 0
    BY <1>2, <2>3, PagesBehind
  <2>5. D = PagesOf(p, s) \ {}
    BY <2>2
  <2>6. Cardinality(D) \in Nat
    BY <2>4, <2>5, FS_CardinalityType
  <2>9. Cardinality(D) <= Len(p.table[s]) - 0
    BY <2>4, <2>5, Zenon
  <2>7. Cardinality(D) <= Owed(g)
    BY <1>2, <1>3, <2>1, <2>6, <2>9
  <2>8. Owed(h) + Owed(g) <= Owed(g)
    BY <1>2, <2>1
  <2> QED
    BY <1>2, <2>4, <2>5, <2>7, <2>8 DEF PaidBy
<1>5. CASE Held(h) # {}
  <2>1. Owed(h) + Allot(g) = Owed(g) /\ StablePages(h, q) = StablePages(g, p)
    BY <1>5, LeavingOwed
  <2>2. \A k \in 1 .. Base(g) : p.table[s][k] \in StablePages(g, p)
    BY <1>1, StableAt
  <2>3. PICK S : S = StablePages(g, p)
    OBVIOUS
  <2>4. \A k \in 1 .. Base(g) : p.table[s][k] \in S
    BY <2>2, <2>3
  <2>5. IsFiniteSet(PagesOf(p, s) \ S) /\ Cardinality(PagesOf(p, s) \ S) <= Len(p.table[s]) - Base(g)
    BY <1>2, <1>3, <2>4, PagesBehind
  <2>6. D = PagesOf(p, s) \ S
    BY <2>1, <2>3
  <2>7. Cardinality(D) \in Nat
    BY <2>5, <2>6, FS_CardinalityType
  <2>10. Cardinality(D) <= Len(p.table[s]) - Base(g)
    BY <2>5, <2>6, Zenon
  <2>8. Cardinality(D) <= Allot(g)
    BY <1>2, <1>3, <2>7, <2>10
  <2>9. Owed(h) + Allot(g) <= Owed(g)
    BY <1>2, <2>1
  <2> QED
    BY <1>2, <2>5, <2>6, <2>8, <2>9 DEF PaidBy
<1> QED
  BY <1>4, <1>5

\* One group's debt has fallen by what the pages D now cost.
LEMMA CapacityPaid ==
  ASSUME NEW gs \in Seq(GroupType), NEW p, NEW d, Capacity(gs, p, d),
         NEW hs \in Seq(GroupType), DOMAIN hs = DOMAIN gs, NEW i \in DOMAIN gs,
         \A k \in DOMAIN gs : k # i => hs[k] = gs[k],
         NEW D, PaidBy(D, gs[i], hs[i]),
         NEW q, \A k \in DOMAIN gs : GroupFits(hs[k], q),
         NEW e, IdleFits(q, e), IdleOnly(hs, q, e) \subseteq IdleOnly(gs, p, d) \cup D,
         Sequences(hs[i]) + 1 = Sequences(gs[i]),
         e.seq # None => d.seq = None \/ e.seq = d.seq
  PROVE  Capacity(hs, q, e)
<1>1. /\ Debt(hs) - Owed(hs[i]) = Debt(gs) - Owed(gs[i])
      /\ Seats(hs) - Sequences(hs[i]) = Seats(gs) - Sequences(gs[i])
  BY OneDebt
<1>2. PICK k \in Nat : Cardinality(D) <= k /\ Owed(hs[i]) + k <= Owed(gs[i])
  BY DEF PaidBy
<1>3. IsFiniteSet(D)
  BY DEF PaidBy
<1>4. /\ Debt(gs) \in Nat /\ Debt(hs) \in Nat /\ Seats(gs) \in Nat /\ Seats(hs) \in Nat
      /\ Owed(gs[i]) \in Nat /\ Owed(hs[i]) \in Nat
      /\ Sequences(gs[i]) \in Nat /\ Sequences(hs[i]) \in Nat
  BY DebtFacts, SeatsFacts
<1>5. Debt(hs) + k <= Debt(gs)
  BY <1>1, <1>2, <1>4, SMTT(30)
<1>6. Charged(gs, p, d) /\ Seats(gs) + IdleSeat(d) <= NSlots
  BY DEF Capacity, Seated
<1>7. Charged(hs, q, e)
  BY <1>2, <1>3, <1>5, <1>6, Paid
<1>8. IdleSeat(e) <= IdleSeat(d) + 1 /\ IdleSeat(e) \in Nat /\ IdleSeat(d) \in Nat
  BY DEF IdleSeat
<1>9. Seated(hs, e)
  <2>1. Seats(hs) + 1 = Seats(gs)
    BY <1>1, <1>4
  <2>2. Seats(hs) + IdleSeat(e) <= Seats(gs) + IdleSeat(d)
    BY <1>4, <1>8, <2>1
  <2> QED
    BY <1>4, <1>6, <1>8, <2>2, SlotsAssumption DEF Seated
<1> QED
  BY <1>7, <1>9 DEF Capacity

\* A page that is not stable any more was stable of the group that changed.
LEMMA StableLost ==
  ASSUME NEW gs, NEW p, NEW hs, DOMAIN hs = DOMAIN gs, NEW i \in DOMAIN gs, NEW q,
         \A k \in DOMAIN gs : k # i => StablePages(hs[k], q) = StablePages(gs[k], p),
         NEW x \in Stable(gs, p), x \notin Stable(hs, q)
  PROVE  x \in StablePages(gs[i], p) \ StablePages(hs[i], q)
BY DEF Stable

\* A cancelled choice is released ...
LEMMA CapacityCancel ==
  ASSUME NEW gs, NEW p, NEW t, NEW d, World(gs, p, t, d), Capacity(gs, p, d),
         NEW hs \in Seq(GroupType), DOMAIN hs = DOMAIN gs, NEW i \in DOMAIN gs,
         \A k \in DOMAIN gs : k # i => hs[k] = gs[k],
         NEW c, NEW s, Leaves(gs[i], hs[i], c, s), NEW q, q = Release(p, s)
  PROVE  Capacity(hs, q, d)
<1>1. gs \in Seq(GroupType) /\ p \in Pool
  BY DEF World
<1>2. \A k \in DOMAIN gs : gs[k] \in GroupType /\ GroupFits(gs[k], p)
  BY <1>1, DebtFacts DEF Capacity
<1>3. Fitting(gs[i], p)
  BY <1>2, FitsIsFitting
<1>4. s \in Held(gs[i]) /\ Held(hs[i]) = Held(gs[i]) \ {s} /\ s \in Slot
  BY <1>2, HeldSlots DEF Leaves
<1>5. /\ q.past = p.past
      /\ \A r \in Slot : r # s => q.table[r] = p.table[r]
  BY <1>1, <1>4, ReleaseEffect
<1>6. ASSUME NEW k \in DOMAIN gs PROVE Unmoved(hs[k], p, q)
  <2>1. \A r \in Held(hs[k]) : r \in Slot /\ r # s
    BY <1>2, <1>4, HeldSlots DEF World, HeldApart
  <2> QED
    BY <1>5, <2>1 DEF Unmoved
<1>7. \A k \in DOMAIN gs : k # i => /\ StablePages(hs[k], q) = StablePages(gs[k], p)
                                    /\ GroupFits(hs[k], q)
  <2> SUFFICES ASSUME NEW k \in DOMAIN gs, k # i
               PROVE  StablePages(hs[k], q) = StablePages(gs[k], p) /\ GroupFits(hs[k], q)
    OBVIOUS
  <2>1. gs[k] \in GroupType /\ Alike(gs[k], hs[k]) /\ hs[k] = gs[k]
    BY <1>2 DEF Alike
  <2>2. Unmoved(gs[k], p, q) /\ GroupFits(gs[k], p)
    BY <1>2, <1>6, <2>1
  <2> QED
    BY <2>1, <2>2, SameFits
<1>8. GroupFits(hs[i], q) /\ Sequences(hs[i]) + 1 = Sequences(gs[i])
  BY <1>1, <1>2, <1>6, LeavingOwed
<1>9. PICK D : D = StablePages(gs[i], p) \ StablePages(hs[i], q)
  OBVIOUS
<1>10. PaidBy(D, gs[i], hs[i])
  BY <1>1, <1>2, <1>3, <1>6, <1>9, LeavingStable
<1>11. d.seq # s /\ (d.seq # None => d.seq \in Slot)
  BY <1>4 DEF World, HeldLive, IdleType
<1>12. d.seq # None => q.table[d.seq] = p.table[d.seq] /\ q.past[d.seq] = p.past[d.seq]
  BY <1>5, <1>11
<1>13. IdleHas(q, d) = IdleHas(p, d) /\ IdleFits(q, d)
  BY <1>12 DEF IdleHas, PagesOf, IdleFits, Capacity
<1>14. IdleOnly(hs, q, d) \subseteq IdleOnly(gs, p, d) \cup D
  <2> SUFFICES ASSUME NEW x \in IdleOnly(hs, q, d), x \in Stable(gs, p) PROVE x \in D
    BY <1>13 DEF IdleOnly
  <2>1. x \notin Stable(hs, q)
    BY DEF IdleOnly
  <2> QED
    BY <1>7, <1>9, <2>1, StableLost
<1>15. \A k \in DOMAIN gs : GroupFits(hs[k], q)
  BY <1>7, <1>8
<1> QED
  BY <1>1, <1>8, <1>10, <1>13, <1>14, <1>15, CapacityPaid

\* ... and any other becomes the idle sequence.
LEMMA CapacityIdle ==
  ASSUME NEW gs, NEW p, NEW t, World(gs, p, t, Nobody), Capacity(gs, p, Nobody),
         NEW hs \in Seq(GroupType), DOMAIN hs = DOMAIN gs, NEW i \in DOMAIN gs,
         \A k \in DOMAIN gs : k # i => hs[k] = gs[k],
         NEW c, NEW e, Leaves(gs[i], hs[i], c, e.seq),
         e.seq = gs[i].choices[c].seq
  PROVE  Capacity(hs, p, e)
<1>1. gs \in Seq(GroupType) /\ p \in Pool
  BY DEF World
<1>2. \A k \in DOMAIN gs : gs[k] \in GroupType /\ GroupFits(gs[k], p)
  BY <1>1, DebtFacts DEF Capacity
<1>3. Fitting(gs[i], p)
  BY <1>2, FitsIsFitting
<1>4. \A k \in DOMAIN gs : Unmoved(hs[k], p, p)
  BY DEF Unmoved
<1>5. \A k \in DOMAIN gs : k # i => /\ StablePages(hs[k], p) = StablePages(gs[k], p)
                                    /\ GroupFits(hs[k], p)
  <2> SUFFICES ASSUME NEW k \in DOMAIN gs, k # i
               PROVE  StablePages(hs[k], p) = StablePages(gs[k], p) /\ GroupFits(hs[k], p)
    OBVIOUS
  <2> QED
    BY <1>2
<1>6. GroupFits(hs[i], p) /\ Sequences(hs[i]) + 1 = Sequences(gs[i])
  BY <1>1, <1>2, <1>4, LeavingOwed
<1>7. PICK D : D = PagesOf(p, e.seq) \ StablePages(hs[i], p)
  OBVIOUS
<1>8. PaidBy(D, gs[i], hs[i])
  BY <1>1, <1>2, <1>3, <1>4, <1>7, LeavingPages
<1>9. ChoiceFits(gs[i], p, e.seq)
  BY <1>2 DEF GroupFits, Leaves
<1>10. IdleFits(p, e)
  BY <1>9 DEF ChoiceFits, IdleFits
<1>11. IdleOnly(hs, p, e) \subseteq IdleOnly(gs, p, Nobody) \cup D
  BY <1>7 DEF IdleOnly, IdleHas, Stable
<1>12. \A k \in DOMAIN gs : GroupFits(hs[k], p)
  BY <1>5, <1>6
<1>13. Nobody.seq = None
  BY DEF Nobody
<1> QED
  BY <1>1, <1>6, <1>8, <1>10, <1>11, <1>12, <1>13, CapacityPaid

\* Group g becomes h, which holds the same sequences for the same choices.
Steady(g, h) ==
  /\ h.job = g.job /\ h.root = g.root /\ h.credits = g.credits
  /\ Held(h) = Held(g) /\ Unfinished(h) = Unfinished(g)
  /\ \A c \in Unfinished(g) : h.choices[c].seq = g.choices[c].seq

LEMMA SteadyOwes ==
  ASSUME NEW g, NEW h, Steady(g, h)
  PROVE  /\ Base(h) = Base(g) /\ Allot(h) = Allot(g)
         /\ Owed(h) = Owed(g) /\ Sequences(h) = Sequences(g)
<1>1. Base(h) = Base(g) /\ Allot(h) = Allot(g)
  BY DEF Steady, Base, Allot
<1>2. Owed(h) = Owed(g)
  BY <1>1 DEF Steady, Owed
<1>3. Sequences(h) = Sequences(g)
  BY DEF Steady, Sequences
<1> QED
  BY <1>1, <1>2, <1>3

LEMMA SteadyFits ==
  ASSUME NEW g \in GroupType, NEW h, Steady(g, h), NEW p, NEW q, Unmoved(g, p, q),
         GroupFits(g, p)
  PROVE  GroupFits(h, q) /\ StablePages(h, q) = StablePages(g, p)
<1>1. Base(h) = Base(g) /\ Held(h) = Held(g) /\ h.job = g.job /\ h.root = g.root
      /\ h.credits = g.credits /\ Unfinished(h) = Unfinished(g)
  BY SteadyOwes DEF Steady
<1>2. StablePages(h, q) = StablePages(g, p)
  BY <1>1 DEF StablePages, Unmoved
<1>3. Common(h, q)
  BY <1>1 DEF Common, GroupFits, Unmoved
<1>4. ASSUME NEW c \in Unfinished(h) PROVE ChoiceFits(h, q, h.choices[c].seq)
  <2>1. PICK s : s = g.choices[c].seq
    OBVIOUS
  <2>2. s \in Held(g) /\ h.choices[c].seq = s /\ ChoiceFits(g, p, s)
    BY <1>1, <2>1, HeldSlots DEF Steady, GroupFits
  <2>3. q.table[s] = p.table[s] /\ q.past[s] = p.past[s]
    BY <2>2 DEF Unmoved
  <2> QED
    BY <1>1, <2>2, <2>3 DEF ChoiceFits
<1>5. h.root # None => /\ h.credits = ContinuousPages(h.job, NChoices[h.job])
                       /\ Len(q.table[h.root]) <= PagesFor(PromptLen(h.job))
  <2>1. g.root # None => q.table[g.root] = p.table[g.root]
    BY HeldSlots DEF Unmoved
  <2> QED
    BY <1>1, <2>1 DEF GroupFits
<1> QED
  BY <1>2, <1>3, <1>4, <1>5 DEF GroupFits

LEMMA TailRest ==
  ASSUME NEW td \in Seq(TodoPair), td # << >>, NEW e \in Elems(td), e # Head(td)
  PROVE  e \in Elems(Tail(td))
<1>1. PICK k \in 1 .. Len(td) : e = td[k]
  BY DEF Elems
<1>2. Head(td) = td[1] /\ Len(td) \in Nat /\ k # 1
  BY <1>1
<1>3. /\ Len(Tail(td)) = Len(td) - 1
      /\ \A m \in 1 .. Len(td) - 1 : Tail(td)[m] = td[m + 1]
      /\ Tail(td) \in Seq(TodoPair)
  BY HeadTailProperties
<1>4. PICK m \in 1 .. Len(td) - 1 : k = m + 1
  BY <1>1, <1>2
<1>5. Tail(td)[m] = e /\ m \in DOMAIN Tail(td)
  BY <1>1, <1>3, <1>4
<1> QED
  BY <1>5 DEF Elems

\* The choice at the head of the list was advanced; the others still have to be,
\* or have steps left as before.
LEMMA StepsAdvance ==
  ASSUME NEW gs, NEW p, NEW td \in Seq(TodoPair), td # << >>, StepsLeft(gs, p, td),
         NEW hs, DOMAIN hs = DOMAIN gs, NEW i \in DOMAIN gs, NEW c,
         Head(td) = <<i, c>>,
         \A k \in DOMAIN gs : k # i => hs[k] = gs[k],
         hs[i].job = gs[i].job, Unfinished(hs[i]) \subseteq Unfinished(gs[i]),
         \A e \in Unfinished(hs[i]) : hs[i].choices[e].seq = gs[i].choices[e].seq,
         NEW q, q.past = p.past,
         c \in Unfinished(hs[i]) => p.past[gs[i].choices[c].seq] + 1
                                      < PromptLen(gs[i].job) + MaxTokens[gs[i].job]
  PROVE  StepsLeft(hs, q, Tail(td))
<1> SUFFICES ASSUME NEW k \in DOMAIN hs, NEW e \in Unfinished(hs[k]),
                    <<k, e>> \notin Elems(Tail(td))
             PROVE  p.past[hs[k].choices[e].seq] + 1
                      < PromptLen(hs[k].job) + MaxTokens[hs[k].job]
  BY DEF StepsLeft
<1>1. CASE k = i /\ e = c
  BY <1>1
<1>2. CASE ~(k = i /\ e = c)
  <2>1. <<k, e>> # Head(td)
    BY <1>2
  <2>2. <<k, e>> \notin Elems(td)
    BY <2>1, TailRest
  <2>3. k \in DOMAIN gs /\ e \in Unfinished(gs[k]) /\ hs[k].job = gs[k].job
        /\ hs[k].choices[e].seq = gs[k].choices[e].seq
    OBVIOUS
  <2>4. p.past[gs[k].choices[e].seq] + 1 < PromptLen(gs[k].job) + MaxTokens[gs[k].job]
    BY <2>2, <2>3 DEF StepsLeft
  <2> QED
    BY <2>3, <2>4
<1> QED
  BY <1>1, <1>2

LEMMA AdvanceCapacity ==
  ASSUME EngineInv, CapacityInv, Advance
  PROVE  CapacityInv'
<1>1. /\ World(groups, pool, text, idle) /\ TodoSound(groups, todo) /\ todo # << >>
      /\ pc \in {"start", "advance"}
      /\ Capacity(groups, pool, idle) /\ StepsLeft(groups, pool, todo)
      /\ Rows(scheduled) <= BatchMax /\ NeverExhausted
  BY DEF EngineInv, CapacityInv, Advance
<1>2. /\ pc' = pc /\ scheduled' = scheduled /\ errors' = errors /\ todo' = Tail(todo)
      /\ text' = text
  BY DEF Advance
<1>3. groups \in Seq(GroupType) /\ \A k \in DOMAIN groups : groups[k] \in GroupType
  BY <1>1, DebtFacts DEF World
<1>4. todo \in Seq(TodoPair) /\ Head(todo) \in TodoPair
  BY <1>1, TailFacts DEF TodoSound, TodoPair
<1>5. PICK i \in DOMAIN groups : i = Head(todo)[1]
  BY <1>1, HeadTodo
<1>6. PICK g \in GroupType : g = groups[i] /\ GroupSound(g, pool, text) /\ GroupFits(g, pool)
  BY <1>1, <1>3 DEF World, Capacity
<1>7. PICK c \in Unfinished(g) : c = Head(todo)[2]
  BY <1>1, <1>5, <1>6, HeadTodo
<1>8. Head(todo) = <<i, c>>
  BY <1>4, <1>5, <1>7 DEF TodoPair
<1>9. c \in DOMAIN g.choices /\ g.root = None
  BY <1>6, HeldSlots, ChoiceRoot
<1>10. PICK ch \in ChoiceType : ch = g.choices[c]
  BY <1>9, GroupFields
<1>11. /\ ch.seq \in Slot /\ ch.stepped \in Seq(Token) /\ ~ch.finished
       /\ ch.seq \in Held(g) /\ text[ch.seq] = ch.stepped
  BY <1>6, <1>9, <1>10, ChoiceRoot, HeldSlots, GroupFields DEF Unfinished
<1>12. ASSUME Capacity(groups', pool', idle'), StepsLeft(groups', pool', todo')
       PROVE  CapacityInv'
  BY <1>1, <1>2, <1>12 DEF CapacityInv, NeverExhausted
<1>13. ASSUME NEW f \in BOOLEAN, Finish(i, c, f) PROVE CapacityInv'
  <2>1. PICK e : e = [ch EXCEPT !.finished = TRUE, !.pending = None]
    OBVIOUS
  <2>2. e \in ChoiceType /\ e.finished
    BY <2>1 DEF ChoiceType
  <2>3. PICK h : h = SetChoice(g, c, e)
    OBVIOUS
  <2>4. PICK hs : hs = groups' /\ hs = [groups EXCEPT ![i] = h]
    BY <1>6, <1>10, <1>13, <2>1, <2>3 DEF Finish, SetChoice
  <2>5. /\ h \in GroupType /\ h.job = g.job /\ h.root = None
        /\ \A k \in DOMAIN g.choices : k # c => h.choices[k] = g.choices[k]
    BY <1>9, <2>2, <2>3, SetChoiceFacts
  <2>6. /\ Held(h) = Held(g) \ {ch.seq} /\ Unfinished(h) = Unfinished(g) \ {c}
    BY <1>6, <1>10, <2>2, <2>3, ChoiceEnds
  <2>7. /\ hs \in Seq(GroupType) /\ DOMAIN hs = DOMAIN groups /\ hs[i] = h
        /\ \A k \in DOMAIN groups : k # i => hs[k] = groups[k]
    BY <1>3, <2>4, <2>5
  <2>8. \A k \in Unfinished(h) : h.choices[k] = g.choices[k]
    BY <2>5, <2>6, HeldSlots
  <2>9. Leaves(groups[i], hs[i], c, ch.seq)
    BY <1>6, <1>9, <1>11, <2>5, <2>6, <2>7, <2>8 DEF Leaves
  <2>10. PICK s \in Slot : s = ch.seq
    BY <1>11
  <2>11. CASE f
    <3>1. PICK q : q = Release(pool, s)
      OBVIOUS
    <3>2. pool' = q /\ idle' = idle
      BY <1>6, <1>10, <1>13, <2>10, <2>11, <3>1 DEF Finish
    <3>3. Leaves(groups[i], hs[i], c, s)
      BY <2>9, <2>10
    <3>4. Capacity(hs, q, idle)
      BY <1>1, <2>7, <3>1, <3>3, CapacityCancel
    <3>5. q.past = pool.past
      BY <3>1 DEF Release
    <3>6. StepsLeft(hs, q, Tail(todo))
      BY <1>1, <1>4, <1>6, <1>8, <2>5, <2>6, <2>7, <2>8, <3>5, StepsAdvance
    <3> QED
      BY <1>2, <1>12, <2>4, <3>2, <3>4, <3>6
  <2>12. CASE ~f
    <3>1. PICK d : d = [seq |-> s, ids |-> ch.stepped]
      OBVIOUS
    <3>2. PICK q : q = Forget(pool, idle)
      OBVIOUS
    <3>3. pool' = q /\ idle' = d
      BY <1>6, <1>10, <1>13, <2>10, <2>12, <3>1, <3>2 DEF Finish, Forget
    <3>4. World(groups, q, text, Nobody)
      BY <1>1, <3>2, WorldForget
    <3>5. Capacity(groups, q, Nobody)
      BY <1>1, <3>2, CapacityForget
    <3>6. d.seq = s /\ d.seq = groups[i].choices[c].seq
      BY <1>6, <1>10, <2>10, <3>1
    <3>7. Leaves(groups[i], hs[i], c, d.seq)
      BY <2>9, <2>10, <3>6
    <3>8. Capacity(hs, q, d)
      BY <2>7, <3>4, <3>5, <3>6, <3>7, CapacityIdle
    <3>9. q.past = pool.past
      BY <3>2 DEF Forget, Release
    <3>10. StepsLeft(hs, q, Tail(todo))
      BY <1>1, <1>4, <1>6, <1>8, <2>5, <2>6, <2>7, <2>8, <3>9, StepsAdvance
    <3> QED
      BY <1>2, <1>12, <2>4, <3>3, <3>8, <3>10
  <2> QED
    BY <2>11, <2>12
<1>14. ASSUME NEW x \in Token, Generated(g, ch) < MaxTokens[g.job],
              groups' = [groups EXCEPT ![i].choices[c].pending = x],
              idle' = idle, pool' = pool
       PROVE  CapacityInv'
  <2>1. PICK e : e = [ch EXCEPT !.pending = x]
    OBVIOUS
  <2>2. /\ e \in ChoiceType /\ ~e.finished /\ e.seq = ch.seq /\ e.stepped = ch.stepped
    BY <1>11, <2>1 DEF ChoiceType
  <2>3. PICK h : h = SetChoice(g, c, e)
    OBVIOUS
  <2>4. PICK hs : hs = groups' /\ hs = [groups EXCEPT ![i] = h]
    BY <1>6, <1>10, <1>14, <2>1, <2>3 DEF SetChoice
  <2>5. /\ h \in GroupType /\ h.job = g.job /\ h.root = g.root /\ h.credits = g.credits
        /\ h.choices[c] = e
        /\ \A k \in DOMAIN g.choices : k # c => h.choices[k] = g.choices[k]
    BY <2>2, <2>3, SetChoiceFacts
  <2>6. Held(h) = Held(g) /\ Unfinished(h) = Unfinished(g)
    BY <1>6, <1>10, <2>2, <2>3, ChoiceKeeps
  <2>7. /\ hs \in Seq(GroupType) /\ DOMAIN hs = DOMAIN groups /\ hs[i] = h
        /\ \A k \in DOMAIN groups : k # i => hs[k] = groups[k]
    BY <1>3, <2>4, <2>5
  <2>8. \A k \in Unfinished(h) : h.choices[k].seq = g.choices[k].seq
    BY <1>10, <2>2, <2>5, <2>6, HeldSlots
  <2>9. ASSUME NEW k \in DOMAIN groups PROVE Steady(groups[k], hs[k])
    BY <1>6, <2>5, <2>6, <2>7, <2>8 DEF Steady
  <2>10. ASSUME NEW k \in DOMAIN groups
         PROVE  /\ GroupFits(hs[k], pool)
                /\ Owed(hs[k]) = Owed(groups[k]) /\ Sequences(hs[k]) = Sequences(groups[k])
                /\ StablePages(groups[k], pool) \subseteq StablePages(hs[k], pool)
    <3>1. Unmoved(groups[k], pool, pool) /\ GroupFits(groups[k], pool)
      BY <1>1 DEF Unmoved, Capacity
    <3>2. GroupFits(hs[k], pool) /\ StablePages(hs[k], pool) = StablePages(groups[k], pool)
      BY <1>3, <2>9, <3>1, SteadyFits
    <3> QED
      BY <2>9, <3>2, SteadyOwes
  <2>11. IdleFits(pool, idle)
    BY <1>1 DEF Capacity
  <2>12. Capacity(hs, pool, idle)
    BY <1>1, <1>3, <2>7, <2>10, <2>11, CapacityStep
  <2>13. pool.past[ch.seq] + 1 < PromptLen(g.job) + MaxTokens[g.job]
    <3>1. pool.past[ch.seq] = Len(ch.stepped) /\ Len(ch.stepped) \in Nat
      <4>1. pool.live[ch.seq]
        BY <1>1, <1>6, <1>11, WorldGroups
      <4> QED
        BY <1>1, <1>11, <4>1 DEF World
    <3>2. PromptLen(g.job) \in Nat /\ MaxTokens[g.job] \in Nat
      BY GroupFields, JobFacts
    <3> QED
      BY <1>14, <3>1, <3>2 DEF Generated
  <2>14. StepsLeft(hs, pool, Tail(todo))
    BY <1>1, <1>4, <1>6, <1>8, <1>10, <2>5, <2>6, <2>7, <2>8, <2>13, StepsAdvance
  <2> QED
    BY <1>2, <1>12, <1>14, <2>4, <2>12, <2>14
<1>15. \/ \E f \in BOOLEAN : Finish(i, c, f)
       \/ \E x \in Token : /\ Generated(g, ch) < MaxTokens[g.job]
                           /\ groups' = [groups EXCEPT ![i].choices[c].pending = x]
                           /\ idle' = idle /\ pool' = pool
  BY <1>5, <1>6, <1>7, <1>10 DEF Advance
<1> QED
  BY <1>13, <1>14, <1>15

-----------------------------------------------------------------------------
(***************************************************************************)
(* A batch                                                                 *)
(***************************************************************************)
\* How far the sequences of group g may reach.
Reaches(g, end) ==
  IF g.root # None THEN end <= PromptLen(g.job)
  ELSE PromptLen(g.job) <= end /\ end < PromptLen(g.job) + MaxTokens[g.job]

LEMMA ReachFits ==
  ASSUME NEW g \in GroupType, NEW end \in Nat, Reaches(g, end)
  PROVE  PagesFor(end) <= Base(g) + Allot(g) /\ end <= Ctx
<1>1. g.job \in Job
  BY GroupFields
<1>2. PICK j \in Job : j = g.job
  BY <1>1
<1>3. PromptLen(j) \in Nat /\ MaxTokens[j] \in Nat /\ PromptLen(j) + MaxTokens[j] <= Ctx /\ Ctx \in Nat
  BY JobFacts
<1>4. end <= PromptLen(j) + MaxTokens[j]
  BY <1>2, <1>3 DEF Reaches
<1>5. Full(j) \in Nat /\ Share(j) \in Nat /\ PagesFor(end) <= Full(j) + Share(j)
  BY <1>4, ShareFacts
<1>6. CASE g.root # None
  <2>1. Base(g) = 0 /\ Allot(g) = ContinuousPages(j, NChoices[j])
    BY <1>2, <1>6 DEF Base, Allot
  <2>2. Full(j) + Share(j) <= ContinuousPages(j, NChoices[j])
    BY OneShare
  <2>3. PagesFor(end) \in Nat /\ Allot(g) \in Nat
    BY OwedFacts, PagesForType
  <2> QED
    BY <1>3, <1>4, <1>5, <2>1, <2>2, <2>3
<1>7. CASE g.root = None
  <2>1. Base(g) = Full(j) /\ Allot(g) = Share(j)
    BY <1>2, <1>7 DEF Base, Allot
  <2> QED
    BY <1>3, <1>4, <1>5, <2>1
<1> QED
  BY <1>6, <1>7

\* Every member of a batch ends where its group may reach.
LEMMA MemberReaches ==
  ASSUME World(groups, pool, text, idle), Capacity(groups, pool, idle),
         StepsLeft(groups, pool, << >>), BatchSound(scheduled, groups, pool),
         NEW S, NEW ends, BatchEnds(pool, S, ends), NEW s \in S, NEW i \in DOMAIN groups,
         s \in Held(groups[i])
  PROVE  Reaches(groups[i], ends[s])
<1>1. PICK x \in Elems(scheduled) : x.seq = s
  BY MembersLive
<1>2. ends[s] = pool.past[s] + Len(x.tokens) /\ pool.past[s] \in Nat
  BY <1>1, MembersLive DEF BatchEnds
<1>3. x.group = i
  BY <1>1, InputAt
<1>4. PICK g \in GroupType : g = groups[i]
  BY WorldGroups
<1>5. CASE x.choice = 0
  <2>1. PromptInput(x, groups, pool)
    BY <1>5 DEF BatchSound
  <2> QED
    BY <1>1, <1>2, <1>3, <2>1 DEF PromptInput, Reaches
<1>6. CASE x.choice # 0
  <2>1. ChoiceInput(x, groups) /\ g.root = None
    BY <1>3, <1>4, <1>6, InputHeld DEF BatchSound
  <2>2. x.choice \in Unfinished(g) /\ s = g.choices[x.choice].seq /\ ends[s] = pool.past[s] + 1
    BY <1>1, <1>2, <1>3, <1>4, <2>1 DEF ChoiceInput
  <2>3. <<i, x.choice>> \notin Elems(<< >>)
    BY DEF Elems
  <2>4. pool.past[s] + 1 < PromptLen(g.job) + MaxTokens[g.job]
    BY <1>4, <2>2, <2>3 DEF StepsLeft
  <2>5. PromptLen(g.job) <= pool.past[s]
    BY <1>4, <2>2 DEF Capacity, GroupFits, ChoiceFits
  <2>6. PromptLen(g.job) \in Nat
    BY GroupFields, JobFacts
  <2> QED
    BY <1>2, <1>4, <2>1, <2>2, <2>4, <2>5, <2>6 DEF Reaches
<1> QED
  BY <1>5, <1>6

\* So the batch is never refused.
LEMMA BatchAccepted ==
  ASSUME World(groups, pool, text, idle), Capacity(groups, pool, idle),
         StepsLeft(groups, pool, << >>), BatchSound(scheduled, groups, pool),
         NEW S, NEW ends, BatchEnds(pool, S, ends)
  PROVE  BatchOk(pool, ends)
<1>1. S \in SUBSET Slot /\ ends \in [S -> Nat] /\ DOMAIN ends = S
  BY DEF BatchEnds
<1>2. ASSUME NEW s \in S
      PROVE  /\ ends[s] > pool.past[s] /\ ends[s] <= Ctx
             /\ \E i \in DOMAIN groups : /\ s \in Held(groups[i])
                                         /\ PagesFor(ends[s]) <= Base(groups[i]) + Allot(groups[i])
  <2>1. PICK x \in Elems(scheduled) : x.seq = s
    BY MembersLive
  <2>2. x.group \in DOMAIN groups /\ s \in Held(groups[x.group])
    BY <2>1, InputHeld
  <2>3. PICK i \in DOMAIN groups : i = x.group /\ s \in Held(groups[i])
    BY <2>2
  <2>4. Reaches(groups[i], ends[s]) /\ ends[s] > pool.past[s] /\ ends[s] \in Nat
    BY <2>3, MemberReaches, MembersLive
  <2>5. groups[i] \in GroupType
    BY WorldGroups
  <2>6. PagesFor(ends[s]) <= Base(groups[i]) + Allot(groups[i]) /\ ends[s] <= Ctx
    BY <2>4, <2>5, ReachFits
  <2> QED
    BY <2>3, <2>4, <2>6
<1>3. Entitled(groups, pool, S, ends)
  BY <1>1, <1>2 DEF Entitled
<1>4. Funded(groups, pool, idle)
  BY CapacityFunded
<1>5. BatchNeed(pool, ends) <= Cardinality(pool.free)
  BY <1>3, <1>4, BatchFits
<1> QED
  BY <1>1, <1>2, <1>5 DEF BatchOk

LEMMA GrowWithin ==
  ASSUME NEW p \in Pool, NEW s \in Slot, NEW end \in Nat, NEW m \in Nat,
         Len(p.table[s]) <= m, PagesFor(end) <= m
  PROVE  Len(p.table[s]) + Grow(p, s, end) <= m
<1>1. Len(p.table[s]) \in Nat /\ PagesFor(end) \in Nat
  BY TableLengths, PagesForType
<1> QED
  BY <1>1 DEF Grow

\* What a batch leaves of a sequence a group holds.
LEMMA HeldRun ==
  ASSUME World(groups, pool, text, idle), Capacity(groups, pool, idle),
         StepsLeft(groups, pool, << >>), BatchSound(scheduled, groups, pool),
         NEW S, NEW ends, BatchEnds(pool, S, ends),
         NEW q, MovedTo(pool, q, S, ends),
         NEW i \in DOMAIN groups, NEW g, g = groups[i], NEW s \in Held(g)
  PROVE  /\ \A k \in 1 .. Base(g) : q.table[s][k] = pool.table[s][k]
         /\ g.root # None => Len(q.table[s]) <= PagesFor(PromptLen(g.job))
         /\ \A c \in Unfinished(g) : s = g.choices[c].seq => ChoiceFits(g, q, s)
<1>1. g \in GroupType /\ GroupFits(g, pool) /\ GroupSound(g, pool, text) /\ s \in Slot
      /\ pool \in Pool
  BY WorldGroups, HeldSlots DEF World, Capacity
<1>2. Fitting(g, pool)
  BY <1>1, FitsIsFitting
<1>3. /\ Base(g) \in Nat /\ Base(g) <= Len(pool.table[s]) /\ Base(g) < TailIndex(pool.past[s])
      /\ Len(pool.table[s]) \in Nat /\ pool.past[s] \in Nat
  BY <1>1, <1>2, OwedFacts, TableLengths DEF Fitting
<1>4. TailIndex(pool.past[s]) \in Nat
  BY <1>3, PagesForType
<1>5. g.root # None => s = g.root
  BY <1>1, RootAlone DEF GroupSound, RootSound
<1>6. g.root # None => Unfinished(g) = {}
  BY <1>1, RootAlone DEF GroupSound, RootSound
<1>7. CASE s \notin S
  <2>1. q.table[s] = pool.table[s] /\ q.past[s] = pool.past[s]
    BY <1>1, <1>7 DEF MovedTo
  <2> QED
    BY <1>1, <1>5, <2>1 DEF GroupFits, ChoiceFits
<1>8. CASE s \in S
  <2>1. /\ q.past[s] = ends[s] /\ TableKept(pool, q, s)
        /\ Len(q.table[s]) = Len(pool.table[s]) + Grow(pool, s, ends[s])
    BY <1>8 DEF MovedTo
  <2>2. ends[s] \in Nat /\ ends[s] > pool.past[s] /\ Reaches(g, ends[s])
    BY <1>8, MembersLive, MemberReaches
  <2>3. \A k \in 1 .. Base(g) : q.table[s][k] = pool.table[s][k]
    BY <1>3, <1>4, <2>1 DEF TableKept
  <2>4. ASSUME g.root # None PROVE Len(q.table[s]) <= PagesFor(PromptLen(g.job))
    <3>1. Len(pool.table[s]) <= PagesFor(PromptLen(g.job))
      BY <1>1, <1>5, <2>4 DEF GroupFits
    <3>2. PromptLen(g.job) \in Nat /\ ends[s] <= PromptLen(g.job)
      BY <1>1, <2>2, <2>4, GroupFields, JobFacts DEF Reaches
    <3>3. PagesFor(ends[s]) <= PagesFor(PromptLen(g.job)) /\ PagesFor(PromptLen(g.job)) \in Nat
      BY <2>2, <3>2, PagesForMonotonic, PagesForType
    <3> QED
      BY <1>1, <2>1, <2>2, <3>1, <3>3, GrowWithin
  <2>5. ASSUME NEW c \in Unfinished(g), s = g.choices[c].seq PROVE ChoiceFits(g, q, s)
    <3>1. ChoiceFits(g, pool, s) /\ g.root = None
      BY <1>1, <1>6, <2>5 DEF GroupFits
    <3>2. Len(pool.table[s]) <= PagesFor(pool.past[s])
      BY <3>1 DEF ChoiceFits
    <3>3. PagesFor(pool.past[s]) <= PagesFor(ends[s]) /\ PagesFor(ends[s]) \in Nat
          /\ PagesFor(pool.past[s]) \in Nat
      <4>1. pool.past[s] <= ends[s]
        BY <1>3, <2>2
      <4>2. PagesFor(pool.past[s]) <= PagesFor(ends[s])
        BY <1>3, <2>2, <4>1, PagesForMonotonic
      <4> QED
        BY <1>3, <2>2, <4>2, PagesForType
    <3>4. Len(pool.table[s]) <= PagesFor(ends[s]) /\ PagesFor(ends[s]) <= PagesFor(ends[s])
      BY <1>3, <3>2, <3>3
    <3>5. Len(q.table[s]) <= PagesFor(ends[s])
      BY <1>1, <2>1, <2>2, <3>3, <3>4, GrowWithin
    <3> QED
      BY <2>1, <2>2, <3>1, <3>5 DEF ChoiceFits, Reaches
  <2> QED
    BY <2>3, <2>4, <2>5
<1> QED
  BY <1>7, <1>8

LEMMA GroupRunFits ==
  ASSUME World(groups, pool, text, idle), Capacity(groups, pool, idle),
         StepsLeft(groups, pool, << >>), BatchSound(scheduled, groups, pool),
         NEW S, NEW ends, BatchEnds(pool, S, ends),
         NEW q, MovedTo(pool, q, S, ends), NEW u, TextRun(text, u, S),
         NEW i \in DOMAIN groups, NEW g, g = groups[i], NEW h, h = Outputs(i, ends)
  PROVE  /\ Steady(g, h) /\ GroupFits(h, q)
         /\ StablePages(g, pool) = StablePages(h, q)
<1>1. g \in GroupType /\ GroupFits(g, pool)
  BY WorldGroups DEF Capacity
<1>2. GroupRun(g, h, i, ends)
  BY OutputsFacts
<1>3. Held(h) = Held(g) /\ Unfinished(h) = Unfinished(g)
  BY <1>2, GroupRunSound
<1>4. \A c \in Unfinished(g) : h.choices[c].seq = g.choices[c].seq
  BY <1>1, <1>2, HeldSlots DEF GroupRun, ChoiceRun
<1>5. Steady(g, h)
  BY <1>2, <1>3, <1>4 DEF Steady, GroupRun
<1>6. Base(h) = Base(g) /\ h.job = g.job /\ h.root = g.root /\ h.credits = g.credits
  BY <1>5, SteadyOwes DEF Steady
<1>7. ASSUME NEW s \in Held(g)
      PROVE  /\ \A k \in 1 .. Base(g) : q.table[s][k] = pool.table[s][k]
             /\ g.root # None => Len(q.table[s]) <= PagesFor(PromptLen(g.job))
             /\ \A c \in Unfinished(g) : s = g.choices[c].seq => ChoiceFits(g, q, s)
  BY HeldRun
<1>8. StablePages(g, pool) = StablePages(h, q)
  BY <1>3, <1>6, <1>7 DEF StablePages
<1>9. Common(h, q)
  BY <1>1, <1>3, <1>6, <1>7 DEF Common, GroupFits
<1>10. ASSUME NEW c \in Unfinished(h) PROVE ChoiceFits(h, q, h.choices[c].seq)
  <2>1. PICK s : s = g.choices[c].seq
    OBVIOUS
  <2>2. s \in Held(g) /\ h.choices[c].seq = s
    BY <1>1, <1>3, <1>4, <2>1, HeldSlots
  <2>3. ChoiceFits(g, q, s)
    BY <1>3, <1>7, <2>1, <2>2
  <2> QED
    BY <1>6, <2>2, <2>3 DEF ChoiceFits
<1>11. h.root # None => /\ h.credits = ContinuousPages(h.job, NChoices[h.job])
                        /\ Len(q.table[h.root]) <= PagesFor(PromptLen(h.job))
  BY <1>1, <1>6, <1>7, HeldSlots DEF GroupFits
<1> QED
  BY <1>5, <1>8, <1>9, <1>10, <1>11 DEF GroupFits

LEMMA CapacityBatch ==
  ASSUME World(groups, pool, text, idle), Capacity(groups, pool, idle),
         StepsLeft(groups, pool, << >>), BatchSound(scheduled, groups, pool),
         NEW S, NEW ends, BatchEnds(pool, S, ends),
         NEW q, MovedTo(pool, q, S, ends), NEW u, TextRun(text, u, S),
         NEW hs, hs = [i \in DOMAIN groups |-> Outputs(i, ends)]
  PROVE  Capacity(hs, q, idle)
<1>1. groups \in Seq(GroupType) /\ World(hs, q, u, idle)
  BY WorldBatch DEF World
<1>2. hs \in Seq(GroupType) /\ DOMAIN hs = DOMAIN groups
  BY <1>1 DEF World
<1>3. ASSUME NEW i \in DOMAIN groups
      PROVE  /\ GroupFits(hs[i], q)
             /\ Owed(hs[i]) = Owed(groups[i]) /\ Sequences(hs[i]) = Sequences(groups[i])
             /\ StablePages(groups[i], pool) \subseteq StablePages(hs[i], q)
  <2>1. PICK g : g = groups[i]
    OBVIOUS
  <2>2. PICK h : h = Outputs(i, ends)
    OBVIOUS
  <2>3. /\ Steady(g, h) /\ GroupFits(h, q)
        /\ StablePages(g, pool) = StablePages(h, q)
    BY <2>1, <2>2, GroupRunFits
  <2>4. Owed(h) = Owed(g) /\ Sequences(h) = Sequences(g)
    BY <2>3, SteadyOwes
  <2>5. hs[i] = h
    BY <2>2
  <2> QED
    BY <2>1, <2>3, <2>4, <2>5
<1>4. idle.seq # None => q.table[idle.seq] = pool.table[idle.seq]
                         /\ q.past[idle.seq] = pool.past[idle.seq]
  <2> SUFFICES ASSUME idle.seq # None
               PROVE  q.table[idle.seq] = pool.table[idle.seq]
                      /\ q.past[idle.seq] = pool.past[idle.seq]
    OBVIOUS
  <2>1. idle.seq \in Slot
    BY DEF World, IdleType
  <2>2. idle.seq \notin S
    <3>1. SUFFICES ASSUME idle.seq \in S PROVE FALSE
      OBVIOUS
    <3>2. PICK x \in Elems(scheduled) : x.seq = idle.seq
      BY <3>1, MembersLive
    <3>3. x.group \in DOMAIN groups /\ idle.seq \in Held(groups[x.group])
      BY <3>2, InputHeld
    <3> QED
      BY <3>3 DEF World, HeldLive
  <2> QED
    BY <2>1, <2>2 DEF MovedTo
<1>5. IdleHas(q, idle) \subseteq IdleHas(pool, idle) /\ IdleFits(q, idle)
  BY <1>4 DEF IdleHas, PagesOf, IdleFits, Capacity
<1> QED
  BY <1>1, <1>2, <1>3, <1>5, CapacityStep

\* Every choice that was in the batch is to be advanced; the others stand where
\* they stood.
LEMMA StepsBatch ==
  ASSUME World(groups, pool, text, idle), StepsLeft(groups, pool, << >>),
         BatchSound(scheduled, groups, pool),
         NEW S, NEW ends, BatchEnds(pool, S, ends),
         NEW q, MovedTo(pool, q, S, ends),
         NEW hs, DOMAIN hs = DOMAIN groups, \A i \in DOMAIN groups : Steady(groups[i], hs[i]),
         NEW ds, ds = Only(scheduled, {x \in Elems(scheduled) : x.choice # 0}),
         NEW td, td = TodoOf(ds)
  PROVE  StepsLeft(hs, q, td)
<1> SUFFICES ASSUME NEW i \in DOMAIN hs, NEW c \in Unfinished(hs[i]), <<i, c>> \notin Elems(td)
             PROVE  q.past[hs[i].choices[c].seq] + 1
                      < PromptLen(hs[i].job) + MaxTokens[hs[i].job]
  BY DEF StepsLeft
<1>1. PICK g \in GroupType : g = groups[i]
  BY WorldGroups
<1>2. PICK s : s = g.choices[c].seq
  OBVIOUS
<1>3. c \in Unfinished(g) /\ hs[i].choices[c].seq = s /\ hs[i].job = g.job
  BY <1>1, <1>2 DEF Steady
<1>4. s \in Slot /\ c \in 1 .. NSlots /\ c # 0
  <2>1. GroupSound(g, pool, text)
    BY <1>1 DEF World
  <2>2. c \in 1 .. NSlots
    BY <1>3, <2>1, ChoiceRoot
  <2> QED
    BY <1>2, <1>3, <2>2, HeldSlots, SlotsAssumption
<1>5. <<i, c>> \notin Elems(<< >>)
  BY DEF Elems
<1>6. pool.past[s] + 1 < PromptLen(g.job) + MaxTokens[g.job]
  BY <1>1, <1>2, <1>3, <1>5 DEF StepsLeft
<1>7. s \notin S
  <2>1. SUFFICES ASSUME s \in S PROVE FALSE
    OBVIOUS
  <2>2. PICK x \in Elems(scheduled) : x.seq = s
    BY <2>1, MembersLive
  <2>3. x \in InputsOf(i, c)
    BY <1>1, <1>2, <1>3, <2>2, InputAt
  <2>4. x.group = i /\ x.choice = c
    BY <2>3 DEF InputsOf
  <2>5. scheduled \in Seq(InputType)
    BY DEF BatchSound
  <2>6. PICK T : T = {y \in Elems(scheduled) : y.choice # 0}
    OBVIOUS
  <2>7. Elems(ds) = Elems(scheduled) \cap T
    BY <2>5, <2>6, OnlyFacts
  <2>8. x \in Elems(ds)
    BY <1>4, <2>2, <2>4, <2>6, <2>7
  <2>9. PICK k \in DOMAIN ds : ds[k] = x
    BY <2>8 DEF Elems
  <2>10. k \in DOMAIN td /\ td[k] = <<i, c>>
    BY <2>4, <2>9 DEF TodoOf
  <2> QED
    BY <2>10 DEF Elems
<1>8. q.past[s] = pool.past[s]
  BY <1>4, <1>7 DEF MovedTo
<1> QED
  BY <1>3, <1>6, <1>8

\* forward_batch accepts the batch, and moves its inputs to ends.
Runs(ends, ds) ==
  /\ BatchEnds(pool, Members, ends) /\ MovedTo(pool, BatchRun(pool, ends), Members, ends)
  /\ ds = Only(scheduled, {x \in Elems(scheduled) : x.choice # 0})
  /\ groups' = [i \in DOMAIN groups |-> Outputs(i, ends)]
  /\ pool' = BatchRun(pool, ends) /\ todo' = TodoOf(ds) /\ errors' = errors

LEMMA BatchRuns ==
  ASSUME EngineInv, CapacityInv, Batch
  PROVE  \E ends : \E ds : Runs(ends, ds)
<1>1. /\ World(groups, pool, text, idle) /\ BatchSound(scheduled, groups, pool)
      /\ todo = << >>
      /\ Capacity(groups, pool, idle) /\ StepsLeft(groups, pool, todo)
      /\ Rows(scheduled) <= BatchMax /\ NeverExhausted
  BY DEF EngineInv, CapacityInv, Batch
<1>3. PICK ends : ends = EndsOf(pool)
  OBVIOUS
<1>4. PICK u : u = TextAfter(text)
  OBVIOUS
<1>5. BatchEnds(pool, Members, ends) /\ TextRun(text, u, Members)
  BY <1>1, <1>3, <1>4, BatchTerms
<1>6. PICK ds : ds = Only(scheduled, {x \in Elems(scheduled) : x.choice # 0})
  OBVIOUS
<1>7. StepsLeft(groups, pool, << >>)
  BY <1>1
<1>8. BatchOk(pool, ends)
  BY <1>1, <1>5, <1>7, BatchAccepted
<1>9. /\ groups' = [i \in DOMAIN groups |-> Outputs(i, ends)]
      /\ pool' = BatchRun(pool, ends) /\ todo' = TodoOf(ds) /\ errors' = errors
  <2>1. Rows(scheduled) <= BatchMax /\ BatchOk(pool, ends)
    BY <1>1, <1>8
  <2> QED
    BY <1>3, <1>6, <2>1 DEF Batch, EndsOf, TodoOf, Members, InputFor, Rows
<1>10. PICK q : q = BatchRun(pool, ends)
  OBVIOUS
<1>11. BatchNeed(pool, ends) <= Cardinality(pool.free)
  BY <1>8 DEF BatchOk
<1>12. MovedTo(pool, q, Members, ends)
  BY <1>1, <1>5, <1>10, <1>11, BatchRunFacts
<1> QED
  BY <1>5, <1>6, <1>9, <1>10, <1>12 DEF Runs

\* No group of the batch gives anything up.
LEMMA BatchSteady ==
  ASSUME World(groups, pool, text, idle), BatchSound(scheduled, groups, pool),
         StepsLeft(groups, pool, << >>), Capacity(groups, pool, idle),
         NEW ends, BatchEnds(pool, Members, ends),
         NEW q, MovedTo(pool, q, Members, ends),
         NEW hs, hs = [i \in DOMAIN groups |-> Outputs(i, ends)]
  PROVE  DOMAIN hs = DOMAIN groups /\ \A i \in DOMAIN groups : Steady(groups[i], hs[i])
<1>1. ASSUME NEW i \in DOMAIN groups PROVE Steady(groups[i], hs[i])
  <2>1. PICK g : g = groups[i]
    OBVIOUS
  <2>2. PICK h : h = Outputs(i, ends)
    OBVIOUS
  <2>3. PICK u : u = TextAfter(text)
    OBVIOUS
  <2>4. TextRun(text, u, Members)
    BY <2>3, BatchTerms
  <2>5. Steady(g, h)
    BY <2>1, <2>2, <2>4, GroupRunFits
  <2> QED
    BY <2>1, <2>2, <2>5
<1> QED
  BY <1>1

LEMMA BatchCapacity ==
  ASSUME EngineInv, CapacityInv, Batch
  PROVE  CapacityInv'
<1>1. /\ World(groups, pool, text, idle) /\ BatchSound(scheduled, groups, pool)
      /\ todo = << >>
      /\ Capacity(groups, pool, idle) /\ StepsLeft(groups, pool, todo)
      /\ NeverExhausted
  BY DEF EngineInv, CapacityInv, Batch
<1>2. pc' = "advance" /\ scheduled' = << >> /\ idle' = idle
  BY DEF Batch
<1>3. PICK ends, ds : Runs(ends, ds)
  BY BatchRuns
<1>4. PICK u : u = TextAfter(text)
  OBVIOUS
<1>5. BatchEnds(pool, Members, ends)
  BY <1>3 DEF Runs
<1>6. TextRun(text, u, Members)
  BY <1>1, <1>4, BatchTerms
<1>7. StepsLeft(groups, pool, << >>)
  BY <1>1
<1>8. PICK q : q = BatchRun(pool, ends)
  OBVIOUS
<1>9. MovedTo(pool, q, Members, ends)
  BY <1>3, <1>8 DEF Runs
<1>10. PICK hs : hs = [i \in DOMAIN groups |-> Outputs(i, ends)]
  OBVIOUS
<1>11. Capacity(hs, q, idle)
  BY <1>1, <1>5, <1>6, <1>7, <1>9, <1>10, CapacityBatch
<1>12. PICK td : td = TodoOf(ds)
  OBVIOUS
<1>13. DOMAIN hs = DOMAIN groups /\ \A i \in DOMAIN groups : Steady(groups[i], hs[i])
  BY <1>1, <1>5, <1>7, <1>9, <1>10, BatchSteady
<1>14. ds = Only(scheduled, {x \in Elems(scheduled) : x.choice # 0})
  BY <1>3 DEF Runs
<1>15. StepsLeft(hs, q, td)
  BY <1>1, <1>5, <1>7, <1>9, <1>12, <1>13, <1>14, StepsBatch
<1>16. Rows(<< >>) <= BatchMax
  BY NoRows, BatchAssumption, SlotsAssumption
<1>17. groups' = hs /\ pool' = q /\ todo' = td /\ errors' = errors
  BY <1>3, <1>8, <1>10, <1>12 DEF Runs
<1> QED
  BY <1>1, <1>2, <1>11, <1>15, <1>16, <1>17 DEF CapacityInv, NeverExhausted

-----------------------------------------------------------------------------
(***************************************************************************)
(* Every step keeps what was promised                                      *)
(***************************************************************************)
LEMMA CapacityNext ==
  ASSUME SchedulerInv, CapacityInv, [Next]_vars
  PROVE  CapacityInv'
<1>1. EngineInv /\ AnswerTypes /\ waiting \in Seq(Job)
  BY DEF SchedulerInv, QueueInv, QueueTypes
<1>2. CASE \/ Top \/ AdmitEnd \/ RestoreEnd \/ StartEnd \/ AdvanceEnd \/ Wait \/ HangUp
           \/ \E j \in Job : Count(j) \/ SendJob(j) \/ Cancel(j) \/ Stage(j)
  BY <1>2, PhaseCapacity
<1>3. CASE Drop
  BY <1>1, <1>3, DropCapacity
<1>4. CASE Admit
  BY <1>1, <1>4, AdmitCapacity
<1>5. CASE Restore
  BY <1>1, <1>5, RestoreCapacity
<1>6. CASE Start
  BY <1>1, <1>6, StartCapacity
<1>7. CASE Schedule
  BY <1>1, <1>7, ScheduleCapacity
<1>8. CASE Batch
  BY <1>1, <1>8, BatchCapacity
<1>9. CASE Advance
  BY <1>1, <1>9, AdvanceCapacity
<1>10. CASE Exit
  BY <1>1, <1>10, ExitCapacity
<1>11. CASE UNCHANGED vars
  <2>1. UNCHANGED <<groups, pool, idle, todo, errors>> /\ pc' = pc /\ scheduled' = scheduled
    BY <1>11 DEF vars
  <2>2. Rows(scheduled') <= BatchMax
    BY <2>1 DEF CapacityInv
  <2> QED
    BY <2>1, <2>2, CapacitySame
<1> QED
  BY <1>2, <1>3, <1>4, <1>5, <1>6, <1>7, <1>8, <1>9, <1>10, <1>11 DEF Next, Engine

LEMMA AlwaysWithin == Spec => [](SchedulerInv /\ CapacityInv)
<1>1. Init => SchedulerInv /\ CapacityInv
  BY EngineInit, QueueInit, AnswersInit, CapacityInit DEF SchedulerInv
<1>2. SchedulerInv /\ CapacityInv /\ [Next]_vars => (SchedulerInv /\ CapacityInv)'
  BY SchedulerStep, CapacityNext
<1> QED
  BY <1>1, <1>2, PTL DEF Spec

\* The reservations of continuous_pages are enough: the pages the groups hold stay
\* within them, they fit in the pool beside what only the idle sequence holds, and
\* no admitted request is ever failed for want of a slot, a page or a row of the
\* batch, whatever the choices share, copy, finish and give up (run_continuous).
THEOREM SchedulerAlwaysFits == Spec => []CapacityKept
<1>1. SchedulerInv /\ CapacityInv => CapacityKept
  <2> SUFFICES ASSUME SchedulerInv, CapacityInv PROVE CapacityKept
    OBVIOUS
  <2>1. /\ World(groups, pool, text, idle) /\ Capacity(groups, pool, idle)
        /\ NeverExhausted
    BY DEF SchedulerInv, EngineInv, CapacityInv
  <2>2. ReservationsHold
    BY <2>1, HoldsReserved
  <2> QED
    BY <2>1, <2>2 DEF CapacityKept
<1> QED
  BY <1>1, AlwaysWithin, PTL

-----------------------------------------------------------------------------
(***************************************************************************)
(* What is answered                                                        *)
(***************************************************************************)
\* Whether choice c of job j is still to be answered: its request has not been
\* sent, is on its way to admission, or has a group that runs the choice.
Awaits(g, c) == g.root # None \/ c \in Unfinished(g)
Grouped(gs, j, c) == \E i \in DOMAIN gs : gs[i].job = j /\ Awaits(gs[i], c)
Queued(w, ch, j) == j \in Elems(w) \/ j \in Elems(ch)
Waits(cl, w, ch, gs, j, c) == cl[j] # "sent" \/ Queued(w, ch, j) \/ Grouped(gs, j, c)

\* It has been answered once, by Done or by Error, if it is not.
Told(dn, er, j, c) == dn[j][c] + er[j]

AnswerInv ==
  \A j \in Job : \A c \in 1 .. NChoices[j] :
    Told(done, errors, j, c) = IF Waits(client, waiting, channel, groups, j, c) THEN 0 ELSE 1

\* What a step does to a choice: nothing, or it answers it.
Spared(j, c) ==
  /\ Told(done', errors', j, c) = Told(done, errors, j, c)
  /\ Waits(client', waiting', channel', groups', j, c)
       <=> Waits(client, waiting, channel, groups, j, c)
Settled(j, c) ==
  /\ Told(done', errors', j, c) = Told(done, errors, j, c) + 1
  /\ Waits(client, waiting, channel, groups, j, c)
  /\ ~Waits(client', waiting', channel', groups', j, c)

LEMMA AnswersStep ==
  ASSUME AnswerInv,
         \A j \in Job : \A c \in 1 .. NChoices[j] : Spared(j, c) \/ Settled(j, c)
  PROVE  AnswerInv'
<1> SUFFICES ASSUME NEW j \in Job, NEW c \in 1 .. NChoices[j]
             PROVE  Told(done', errors', j, c)
                      = IF Waits(client', waiting', channel', groups', j, c) THEN 0 ELSE 1
  BY DEF AnswerInv
<1>1. PICK w \in BOOLEAN : w <=> Waits(client, waiting, channel, groups, j, c)
  OBVIOUS
<1>2. Told(done, errors, j, c) = IF w THEN 0 ELSE 1
  BY <1>1 DEF AnswerInv
<1>3. CASE Spared(j, c)
  BY <1>1, <1>2, <1>3 DEF Spared
<1>4. CASE Settled(j, c)
  <2>1. Told(done, errors, j, c) = 0
    BY <1>1, <1>2, <1>4 DEF Settled
  <2> QED
    BY <1>4, <2>1 DEF Settled
<1> QED
  BY <1>3, <1>4

\* A step that answers nobody, and moves no request out of the queue.
LEMMA AnswersSame ==
  ASSUME AnswerInv, UNCHANGED answers,
         \A j \in Job : \A c \in 1 .. NChoices[j] :
           Waits(client', waiting', channel', groups', j, c)
             <=> Waits(client, waiting, channel, groups, j, c)
  PROVE  AnswerInv'
<1>1. ASSUME NEW j \in Job, NEW c \in 1 .. NChoices[j] PROVE Spared(j, c)
  BY DEF Spared, answers
<1> QED
  BY <1>1, AnswersStep

LEMMA GroupsAwait ==
  ASSUME NEW gs, NEW hs, DOMAIN hs = DOMAIN gs,
         \A i \in DOMAIN gs : /\ hs[i].job = gs[i].job
                              /\ \A c \in 1 .. NChoices[gs[i].job] :
                                   Awaits(hs[i], c) <=> Awaits(gs[i], c),
         NEW j \in Job, NEW c \in 1 .. NChoices[j]
  PROVE  Grouped(hs, j, c) <=> Grouped(gs, j, c)
  BY DEF Grouped

LEMMA AnswersGroups ==
  ASSUME AnswerInv, UNCHANGED answers, UNCHANGED <<client, waiting, channel>>,
         DOMAIN groups' = DOMAIN groups,
         \A i \in DOMAIN groups :
           /\ groups'[i].job = groups[i].job
           /\ \A c \in 1 .. NChoices[groups[i].job] :
                Awaits(groups'[i], c) <=> Awaits(groups[i], c)
  PROVE  AnswerInv'
<1>1. ASSUME NEW j \in Job, NEW c \in 1 .. NChoices[j]
      PROVE  Waits(client', waiting', channel', groups', j, c)
               <=> Waits(client, waiting, channel, groups, j, c)
  <2>1. Grouped(groups', j, c) <=> Grouped(groups, j, c)
    BY GroupsAwait
  <2> QED
    BY <2>1 DEF Waits
<1> QED
  BY <1>1, AnswersSame

LEMMA OutsideAnswered ==
  ASSUME AnswerInv, QueueTypes,
         HangUp \/ \E j \in Job : Count(j) \/ SendJob(j) \/ Cancel(j) \/ Stage(j)
  PROVE  AnswerInv'
<1>1. UNCHANGED answers /\ groups' = groups /\ waiting' = waiting
  BY DEF HangUp, Count, SendJob, Cancel, Stage
<1>2. client \in [Job -> {"new", "counted", "sent", "refused"}] /\ channel \in Seq(Job)
  BY DEF QueueTypes
<1>3. CASE client' = client /\ channel' = channel
  <2>1. UNCHANGED <<client, waiting, channel>> /\ DOMAIN groups' = DOMAIN groups
    BY <1>1, <1>3
  <2> QED
    BY <1>1, <2>1, AnswersGroups
<1>4. ASSUME NEW k \in Job, client[k] # "sent", NEW x, x # "sent",
             client' = [client EXCEPT ![k] = x], channel' = channel
      PROVE  AnswerInv'
  <2>1. \A j \in Job : client'[j] # "sent" <=> client[j] # "sent"
    BY <1>2, <1>4
  <2>2. ASSUME NEW j \in Job, NEW c \in 1 .. NChoices[j]
        PROVE  Waits(client', waiting', channel', groups', j, c)
                 <=> Waits(client, waiting, channel, groups, j, c)
    BY <1>1, <1>4, <2>1 DEF Waits
  <2> QED
    BY <1>1, <2>2, AnswersSame
<1>5. ASSUME NEW k \in Job, client[k] # "sent",
             client' = [client EXCEPT ![k] = "sent"], channel' = Append(channel, k)
      PROVE  AnswerInv'
  <2>1. PICK r : r = Append(channel, k)
    OBVIOUS
  <2>2. SentAlso(channel, k, r)
    BY <1>2, <2>1, JobAppended
  <2>3. Elems(channel') = Elems(channel) \cup {k}
    BY <1>5, <2>1, <2>2 DEF SentAlso
  <2>4. \A j \in Job : (client'[j] # "sent" \/ Queued(waiting', channel', j))
                         <=> (client[j] # "sent" \/ Queued(waiting, channel, j))
    BY <1>1, <1>2, <1>5, <2>3 DEF Queued
  <2>5. ASSUME NEW j \in Job, NEW c \in 1 .. NChoices[j]
        PROVE  Waits(client', waiting', channel', groups', j, c)
                 <=> Waits(client, waiting, channel, groups, j, c)
    BY <1>1, <2>4 DEF Waits
  <2> QED
    BY <1>1, <2>5, AnswersSame
<1>6. CASE \E j \in Job : Count(j)
  BY <1>4, <1>6 DEF Count
<1>7. CASE \E j \in Job : SendJob(j)
  BY <1>4, <1>5, <1>7 DEF SendJob
<1>8. CASE HangUp \/ \E j \in Job : Cancel(j) \/ Stage(j)
  BY <1>3, <1>8 DEF HangUp, Cancel, Stage, handlers
<1> QED
  BY <1>6, <1>7, <1>8

LEMMA WaitAnswered ==
  ASSUME AnswerInv, QueueInv, Wait
  PROVE  AnswerInv'
<1>1. UNCHANGED answers /\ groups' = groups /\ client' = client
  BY DEF Wait, handlers
<1>2. channel \in Seq(Job) /\ waiting \in Seq(Job) /\ Distinct(channel)
  BY DEF QueueInv, QueueTypes, QueueOnce
<1>3. \A j \in Job : Queued(waiting', channel', j) <=> Queued(waiting, channel, j)
  <2>1. CASE channel # << >> /\ waiting' = Append(waiting, Head(channel)) /\ channel' = Tail(channel)
    <3>1. PICK j : j = Head(channel)
      OBVIOUS
    <3>2. PICK r : r = Tail(channel)
      OBVIOUS
    <3>3. Behind(channel, j, r)
      BY <1>2, <2>1, <3>1, <3>2, HeadFacts
    <3>4. PICK w : w = Append(waiting, j)
      OBVIOUS
    <3>5. j \in Job
      BY <3>3 DEF Behind
    <3>6. SentAlso(waiting, j, w)
      BY <1>2, <3>4, <3>5, JobAppended
    <3>7. waiting' = w /\ channel' = r
      BY <2>1, <3>1, <3>2, <3>4
    <3>8. Elems(w) = Elems(waiting) \cup {j} /\ Elems(channel) = Elems(r) \cup {j}
      BY <3>3, <3>6 DEF SentAlso, Behind
    <3> QED
      BY <3>7, <3>8 DEF Queued
  <2>2. CASE waiting' = waiting /\ channel' = channel
    BY <2>2
  <2> QED
    BY <2>1, <2>2 DEF Wait
<1>4. ASSUME NEW j \in Job, NEW c \in 1 .. NChoices[j]
      PROVE  Waits(client', waiting', channel', groups', j, c)
               <=> Waits(client, waiting, channel, groups, j, c)
  BY <1>1, <1>3 DEF Waits
<1> QED
  BY <1>1, <1>4, AnswersSame

LEMMA QueuedApart ==
  ASSUME QueueInv, NEW j \in Job, Queued(waiting, channel, j)
  PROVE  client[j] = "sent" /\ \A c : ~Grouped(groups, j, c)
  BY DEF QueueInv, QueueOnce, Queued, Grouped

LEMMA TopAnswered ==
  ASSUME AnswerInv, AnswerTypes, QueueInv, Top
  PROVE  AnswerInv'
<1>1. /\ channel \in Seq(Job) /\ waiting \in Seq(Job)
      /\ Distinct(waiting) /\ Distinct(channel) /\ Elems(waiting) \cap Elems(channel) = {}
  BY DEF QueueInv, QueueTypes, QueueOnce
<1>2. PICK jobs : jobs = waiting \o channel
  OBVIOUS
<1>3. /\ jobs \in Seq(Job) /\ Elems(jobs) = Elems(waiting) \cup Elems(channel)
  BY <1>1, <1>2, QueueJoin
<1>4. PICK S : S = {j \in Job : ~cancel[j]}
  OBVIOUS
<1>5. PICK r : r = Only(jobs, S)
  OBVIOUS
<1>6. Elems(r) = Elems(jobs) \cap S
  BY <1>3, <1>5, OnlyFacts
<1>7. PICK D : D = {j \in Elems(jobs) : cancel[j]}
  OBVIOUS
<1>8. /\ waiting' = r /\ channel' = << >> /\ client' = client /\ groups' = groups
      /\ errors' = errors /\ done' = AllDone(D)
  BY <1>2, <1>4, <1>5, <1>7 DEF Top, handlers
<1>9. ASSUME NEW j \in Job, NEW c \in 1 .. NChoices[j] PROVE Spared(j, c) \/ Settled(j, c)
  <2>1. Elems(channel') = {}
    BY <1>8 DEF Elems
  <2>2. Queued(waiting', channel', j) <=> Queued(waiting, channel, j) /\ j \notin D
    BY <1>3, <1>4, <1>6, <1>7, <1>8, <2>1 DEF Queued
  <2>3. done'[j][c] = done[j][c] + (IF j \in D THEN 1 ELSE 0)
    BY <1>8 DEF AllDone
  <2>4. done[j][c] \in Nat /\ errors[j] \in Nat
    BY DEF AnswerTypes
  <2>5. j \in D => Queued(waiting, channel, j)
    BY <1>3, <1>7 DEF Queued
  <2>6. CASE j \in D
    <3>1. Told(done', errors', j, c) = Told(done, errors, j, c) + 1
      BY <1>8, <2>3, <2>4, <2>6 DEF Told
    <3>2. client[j] = "sent" /\ ~Grouped(groups, j, c)
      BY <2>5, <2>6, QueuedApart
    <3> QED
      BY <1>8, <2>2, <2>5, <2>6, <3>1, <3>2 DEF Settled, Waits
  <2>7. CASE j \notin D
    <3>1. Told(done', errors', j, c) = Told(done, errors, j, c)
      BY <1>8, <2>3, <2>4, <2>7 DEF Told
    <3> QED
      BY <1>8, <2>2, <2>7, <3>1 DEF Spared, Waits
  <2> QED
    BY <2>6, <2>7
<1> QED
  BY <1>9, AnswersStep

LEMMA AwaitedHolds ==
  ASSUME NEW g \in GroupType, NEW c, Awaits(g, c)
  PROVE  Held(g) # {}
  BY HeldSlots DEF Awaits

LEMMA DropAnswered ==
  ASSUME AnswerInv, AnswerTypes, EngineInv, QueueInv, Drop
  PROVE  AnswerInv'
<1>1. /\ client' = client /\ waiting' = waiting /\ channel' = channel /\ errors' = errors
  BY DEF Drop, handlers
<1>2. PICK h : Dropped(groups, groups', DropJobs, h)
  BY DropEffect
<1>3. \A i \in DOMAIN groups : groups[i] \in GroupType /\ groups[i].job \in Job
  <2>1. World(groups, pool, text, idle)
    BY DEF EngineInv
  <2> QED
    BY <2>1, WorldGroups, GroupFields
<1>4. ASSUME NEW j \in Job, NEW c \in 1 .. NChoices[j] PROVE Spared(j, c) \/ Settled(j, c)
  <2>1. PICK b \in BOOLEAN : b <=> \E i \in DOMAIN groups : /\ cancel[groups[i].job]
                                                          /\ groups[i].job = j
                                                          /\ Awaits(groups[i], c)
    OBVIOUS
  <2>2. done'[j][c] = done[j][c] + (IF b THEN 1 ELSE 0)
    <3>1. done'[j][c] = done[j][c] +
            (IF \E i \in {i \in DOMAIN groups : cancel[groups[i].job]} :
                   groups[i].job = j /\ (groups[i].root # None \/ c \in Unfinished(groups[i]))
             THEN 1 ELSE 0)
      BY DEF Drop
    <3>2. b <=> \E i \in {i \in DOMAIN groups : cancel[groups[i].job]} :
                   groups[i].job = j /\ (groups[i].root # None \/ c \in Unfinished(groups[i]))
      BY <2>1 DEF Awaits
    <3> QED
      BY <3>1, <3>2
  <2>3. done[j][c] \in Nat /\ errors[j] \in Nat
    BY DEF AnswerTypes
  <2>4. \A a \in DOMAIN groups' : /\ h[a] \in DOMAIN groups
                                  /\ groups'[a].job = groups[h[a]].job
                                  /\ groups'[a].root = groups[h[a]].root
                                  /\ groups'[a].choices = groups[h[a]].choices
                                  /\ groups[h[a]].job \notin DropJobs
    BY <1>2 DEF Dropped
  <2>5. \A a \in DOMAIN groups' : Awaits(groups'[a], c) <=> Awaits(groups[h[a]], c)
    BY <2>4 DEF Awaits, Unfinished
  <2>6. CASE b
    <3>1. PICK i \in DOMAIN groups : cancel[groups[i].job] /\ groups[i].job = j /\ Awaits(groups[i], c)
      BY <2>1, <2>6
    <3>2. Told(done', errors', j, c) = Told(done, errors, j, c) + 1
      BY <1>1, <2>2, <2>3, <2>6 DEF Told
    <3>3. client[j] = "sent" /\ ~Queued(waiting, channel, j)
      BY <3>1, QueuedApart DEF QueueInv, QueueOnce, Grouped
    <3>4. Grouped(groups, j, c)
      BY <3>1 DEF Grouped
    <3>5. ~Grouped(groups', j, c)
      BY <2>4, <3>1 DEF Grouped, DropJobs
    <3> QED
      BY <1>1, <3>2, <3>3, <3>4, <3>5 DEF Settled, Waits
  <2>7. CASE ~b
    <3>1. Told(done', errors', j, c) = Told(done, errors, j, c)
      BY <1>1, <2>2, <2>3, <2>7 DEF Told
    <3>2. Grouped(groups', j, c) => Grouped(groups, j, c)
      BY <2>4, <2>5 DEF Grouped
    <3>3. ASSUME Grouped(groups, j, c) PROVE Grouped(groups', j, c)
      <4>1. PICK i \in DOMAIN groups : groups[i].job = j /\ Awaits(groups[i], c)
        BY <3>3 DEF Grouped
      <4>2. groups[i].job \notin DropJobs
        BY <2>1, <2>7, <4>1 DEF DropJobs
      <4>3. Held(groups[i]) # {}
        BY <1>3, <4>1, AwaitedHolds
      <4>4. PICK a \in DOMAIN groups' : h[a] = i
        BY <1>2, <4>2, <4>3 DEF Dropped
      <4> QED
        BY <2>4, <2>5, <4>1, <4>4 DEF Grouped
    <3> QED
      BY <1>1, <3>1, <3>2, <3>3 DEF Spared, Waits
  <2> QED
    BY <2>6, <2>7
<1> QED
  BY <1>4, AnswersStep

LEMMA NewAwaits ==
  ASSUME NEW j \in Job, NEW r \in Slot, NEW n
  PROVE  NewGroup(j, r, n).job = j /\ \A c : Awaits(NewGroup(j, r, n), c)
  BY NoneIsNoSlot DEF NewGroup, Awaits

LEMMA AppendedGroup ==
  ASSUME NEW gs \in Seq(GroupType), NEW g, NEW hs, hs = Append(gs, g), NEW j, NEW c
  PROVE  Grouped(hs, j, c) <=> Grouped(gs, j, c) \/ (g.job = j /\ Awaits(g, c))
<1>1. PICK n \in Nat : n = Len(gs)
  OBVIOUS
<1>2. DOMAIN gs = 1 .. n /\ DOMAIN hs = 1 .. n + 1
  BY <1>1
<1>3. hs[n + 1] = g /\ \A i \in 1 .. n : hs[i] = gs[i]
  BY <1>1
<1>4. n + 1 \in 1 .. n + 1 /\ \A i \in 1 .. n : i \in 1 .. n + 1
  OBVIOUS
<1>5. \A i \in 1 .. n + 1 : i \in 1 .. n \/ i = n + 1
  OBVIOUS
<1> QED
  BY <1>2, <1>3, <1>4, <1>5 DEF Grouped

\* The head of the queue gets a group or an error, and the others stay.
LEMMA AdmitAnswered ==
  ASSUME AnswerInv, AnswerTypes, EngineInv, QueueInv, Admit
  PROVE  AnswerInv'
<1>1. /\ channel \in Seq(Job) /\ waiting \in Seq(Job) /\ waiting # << >>
      /\ Distinct(waiting) /\ Elems(waiting) \cap Elems(channel) = {}
      /\ World(groups, pool, text, idle) /\ groups \in Seq(GroupType)
  BY DEF QueueInv, QueueTypes, QueueOnce, Admit, EngineInv, World
<1>2. PICK j : j = Head(waiting)
  OBVIOUS
<1>3. PICK r : r = Tail(waiting)
  OBVIOUS
<1>4. Behind(waiting, j, r)
  BY <1>1, <1>2, <1>3, HeadFacts
<1>5. j \in Job /\ j \notin Elems(r) /\ Elems(waiting) = Elems(r) \cup {j} /\ j \notin Elems(channel)
  BY <1>1, <1>4 DEF Behind
<1>6. /\ waiting' = r /\ channel' = channel /\ client' = client /\ done' = done
  BY <1>3 DEF Admit, handlers, loop
<1>7. \A k \in Job : Queued(waiting, channel, k) <=> Queued(waiting', channel', k) \/ k = j
  BY <1>5, <1>6 DEF Queued
<1>8. ~Queued(waiting', channel', j) /\ Queued(waiting, channel, j)
  BY <1>5, <1>6 DEF Queued
<1>9. client[j] = "sent" /\ \A c : ~Grouped(groups, j, c)
  BY <1>5, <1>8, QueuedApart
<1>10. CASE groups' = groups /\ errors' = [errors EXCEPT ![j] = @ + 1]
  <2>1. ASSUME NEW k \in Job, NEW c \in 1 .. NChoices[k] PROVE Spared(k, c) \/ Settled(k, c)
    <3>1. done[k][c] \in Nat /\ errors[k] \in Nat /\ DOMAIN errors = Job
      BY DEF AnswerTypes
    <3>2. CASE k = j
      <4>1. errors'[k] = errors[k] + 1
        BY <1>10, <3>1, <3>2
      <4>2. Told(done', errors', k, c) = Told(done, errors, k, c) + 1
        BY <1>6, <3>1, <4>1 DEF Told
      <4> QED
        BY <1>6, <1>8, <1>9, <1>10, <3>2, <4>2 DEF Settled, Waits
    <3>3. CASE k # j
      <4>1. errors'[k] = errors[k]
        BY <1>10, <3>1, <3>3
      <4>2. Told(done', errors', k, c) = Told(done, errors, k, c)
        BY <1>6, <4>1 DEF Told
      <4> QED
        BY <1>6, <1>7, <1>10, <3>3, <4>2 DEF Spared, Waits
    <3> QED
      BY <3>2, <3>3
  <2> QED
    BY <2>1, AnswersStep
<1>11. ASSUME NEW g, groups' = Append(groups, g), g.job = j, \A c : Awaits(g, c), errors' = errors
       PROVE  AnswerInv'
  <2>1. ASSUME NEW k \in Job, NEW c \in 1 .. NChoices[k]
        PROVE  Waits(client', waiting', channel', groups', k, c)
                 <=> Waits(client, waiting, channel, groups, k, c)
    <3>1. Grouped(groups', k, c) <=> Grouped(groups, k, c) \/ j = k
      BY <1>1, <1>11, AppendedGroup
    <3> QED
      BY <1>6, <1>7, <3>1 DEF Waits
  <2>2. UNCHANGED answers
    BY <1>6, <1>11 DEF answers
  <2> QED
    BY <2>1, <2>2, AnswersSame
<1>12. \/ groups' = groups /\ errors' = [errors EXCEPT ![j] = @ + 1]
       \/ /\ Continues(j) /\ errors' = errors
          /\ groups' = Append(groups, NewGroup(j, idle.seq, Len(idle.ids)))
       \/ \E p : /\ p \in {pool, Forget(pool, idle)} /\ CanAllocate(p) /\ errors' = errors
                 /\ groups' = Append(groups, NewGroup(j, FirstDead(p), 0))
  BY <1>2 DEF Admit, Forget
<1>13. CASE /\ Continues(j) /\ errors' = errors
            /\ groups' = Append(groups, NewGroup(j, idle.seq, Len(idle.ids)))
  <2>1. idle.seq \in Slot
    BY <1>1, <1>13, WorldGroups DEF Continues
  <2> QED
    BY <1>5, <1>11, <1>13, <2>1, NewAwaits
<1>14. ASSUME NEW p \in {pool, Forget(pool, idle)}, CanAllocate(p), errors' = errors,
              groups' = Append(groups, NewGroup(j, FirstDead(p), 0))
       PROVE  AnswerInv'
  <2>1. PICK q : q = Forget(pool, idle)
    OBVIOUS
  <2>2. World(groups, q, text, Nobody)
    BY <1>1, <2>1, WorldForget
  <2>3. p \in Pool
    BY <1>1, <1>14, <2>1, <2>2 DEF World
  <2>4. FirstDead(p) \in Slot
    BY <1>14, <2>3, FirstDeadSound DEF CanAllocate
  <2> QED
    BY <1>5, <1>11, <1>14, <2>4, NewAwaits
<1> QED
  BY <1>10, <1>12, <1>13, <1>14

\* A group put in the place of one that awaits the same choices of the same job.
LEMMA AnswersReplace ==
  ASSUME AnswerInv, UNCHANGED answers, UNCHANGED <<client, waiting, channel>>,
         NEW i \in DOMAIN groups, NEW h, groups' = [groups EXCEPT ![i] = h],
         h.job = groups[i].job,
         \A c \in 1 .. NChoices[groups[i].job] : Awaits(h, c) <=> Awaits(groups[i], c)
  PROVE  AnswerInv'
<1>1. DOMAIN groups' = DOMAIN groups
  OBVIOUS
<1>2. \A k \in DOMAIN groups : groups'[k] = IF k = i THEN h ELSE groups[k]
  OBVIOUS
<1>3. ASSUME NEW k \in DOMAIN groups
      PROVE  /\ groups'[k].job = groups[k].job
             /\ \A c \in 1 .. NChoices[groups[k].job] : Awaits(groups'[k], c) <=> Awaits(groups[k], c)
  BY <1>2
<1> QED
  BY <1>1, <1>3, AnswersGroups

LEMMA RestoreAnswered ==
  ASSUME AnswerInv, EngineInv, Restore
  PROVE  AnswerInv'
<1>1. groups \in Seq(GroupType) /\ at \in Nat \ {0}
  BY DEF EngineInv, World
<1>2. PICK i : i = NextRestoring
  OBVIOUS
<1>3. i \in DOMAIN groups
  BY <1>1, <1>2, NextRestoringFacts DEF Restore
<1>4. PICK g \in GroupType : g = groups[i]
  BY <1>1, <1>3
<1>5. UNCHANGED answers /\ UNCHANGED <<client, waiting, channel>>
  BY DEF Restore, handlers
<1>6. CASE groups' = groups
  BY <1>5, <1>6, AnswersGroups
<1>7. ASSUME NEW object \in StagedFor(g), groups' = [groups EXCEPT ![i] = Restored(g, object)]
      PROVE  AnswerInv'
  <2>1. PICK h : h = Restored(g, object)
    OBVIOUS
  <2>2. h.job = g.job /\ h.root = g.root /\ h.choices = g.choices
    BY <2>1, RestoredAlike DEF Alike
  <2>3. \A c : Awaits(h, c) <=> Awaits(g, c)
    BY <2>2 DEF Awaits, Unfinished
  <2> QED
    BY <1>3, <1>4, <1>5, <1>7, <2>1, <2>2, <2>3, AnswersReplace
<1> QED
  BY <1>2, <1>4, <1>6, <1>7 DEF Restore

LEMMA StartAnswered ==
  ASSUME AnswerInv, EngineInv, CapacityInv, Start
  PROVE  AnswerInv'
<1>1. PICK i \in DOMAIN groups : \E slots : \E q : Forks(i, slots, q)
  BY StartForks
<1>2. PICK slots, q : Forks(i, slots, q)
  BY <1>1
<1>3. PICK g : g = groups[i]
  OBVIOUS
<1>4. PICK h : h = Started(g, Family(g.root, slots))
  OBVIOUS
<1>5. /\ ForkedFor(pool, g, q, slots) /\ Prefilled(g, pool)
      /\ groups' = [groups EXCEPT ![i] = h] /\ errors' = errors
  BY <1>2, <1>3, <1>4 DEF Forks
<1>6. World(groups, pool, text, idle)
  BY DEF EngineInv
<1>7. PICK u : u = TextForked(text, g.root, slots)
  OBVIOUS
<1>8. Begun(g, h)
  BY <1>3, <1>4, <1>5, <1>6, <1>7, WorldStart
<1>9. g.root # None
  BY <1>5 DEF Prefilled
<1>10. h.job = g.job /\ \A c \in 1 .. NChoices[g.job] : Awaits(h, c) <=> Awaits(g, c)
  BY <1>8, <1>9 DEF Begun, Awaits
<1>11. UNCHANGED answers /\ UNCHANGED <<client, waiting, channel>>
  BY <1>5 DEF Start, handlers, answers
<1> QED
  BY <1>3, <1>5, <1>10, <1>11, AnswersReplace

LEMMA BatchAnswered ==
  ASSUME AnswerInv, EngineInv, CapacityInv, Batch
  PROVE  AnswerInv'
<1>1. /\ World(groups, pool, text, idle) /\ BatchSound(scheduled, groups, pool)
      /\ todo = << >>
      /\ Capacity(groups, pool, idle) /\ StepsLeft(groups, pool, todo)
  BY DEF EngineInv, CapacityInv, Batch
<1>2. PICK ends, ds : Runs(ends, ds)
  BY BatchRuns
<1>3. PICK q : q = BatchRun(pool, ends)
  OBVIOUS
<1>4. BatchEnds(pool, Members, ends) /\ MovedTo(pool, q, Members, ends) /\ errors' = errors
  BY <1>2, <1>3 DEF Runs
<1>5. PICK hs : hs = [i \in DOMAIN groups |-> Outputs(i, ends)]
  OBVIOUS
<1>6. StepsLeft(groups, pool, << >>)
  BY <1>1
<1>7. DOMAIN hs = DOMAIN groups /\ \A i \in DOMAIN groups : Steady(groups[i], hs[i])
  BY <1>1, <1>4, <1>5, <1>6, BatchSteady
<1>8. groups' = hs
  BY <1>2, <1>5 DEF Runs
<1>9. UNCHANGED answers /\ UNCHANGED <<client, waiting, channel>>
  BY <1>4 DEF Batch, handlers, answers
<1>10. ASSUME NEW i \in DOMAIN groups
       PROVE  /\ groups'[i].job = groups[i].job
              /\ \A c \in 1 .. NChoices[groups[i].job] : Awaits(groups'[i], c) <=> Awaits(groups[i], c)
  BY <1>7, <1>8 DEF Steady, Awaits
<1> QED
  BY <1>7, <1>8, <1>9, <1>10, AnswersGroups

LEMMA AdvanceAnswered ==
  ASSUME AnswerInv, AnswerTypes, EngineInv, QueueInv, Advance
  PROVE  AnswerInv'
<1>1. World(groups, pool, text, idle) /\ todo # << >>
  BY DEF EngineInv, Advance
<1>2. PICK i \in DOMAIN groups : i = Head(todo)[1]
  BY <1>1, HeadTodo
<1>3. PICK g \in GroupType : g = groups[i] /\ GroupSound(g, pool, text)
  BY <1>1, WorldGroups DEF World
<1>4. PICK c \in Unfinished(g) : c = Head(todo)[2]
  BY <1>1, <1>2, <1>3, HeadTodo
<1>5. c \in DOMAIN g.choices /\ g.root = None
  BY <1>3, HeldSlots, ChoiceRoot
<1>6. PICK ch \in ChoiceType : ch = g.choices[c]
  BY <1>5, GroupFields
<1>7. PICK j \in Job : j = g.job /\ c \in 1 .. NChoices[j]
  BY <1>2, <1>3, <1>4, ChoiceOfJob
<1>8. UNCHANGED <<client, waiting, channel>> /\ errors' = errors
  BY DEF Advance, handlers
<1>9. ASSUME NEW f, Finish(i, c, f) PROVE AnswerInv'
  <2>1. PICK e : e = [ch EXCEPT !.finished = TRUE, !.pending = None]
    OBVIOUS
  <2>2. e \in ChoiceType /\ e.finished
    BY <2>1 DEF ChoiceType
  <2>3. PICK h : h = SetChoice(g, c, e)
    OBVIOUS
  <2>4. groups' = [groups EXCEPT ![i] = h] /\ done' = [done EXCEPT ![j][c] = @ + 1]
    BY <1>3, <1>6, <1>7, <1>9, <2>1, <2>3 DEF Finish, SetChoice
  <2>5. h.job = g.job /\ h.root = None
    BY <1>5, <2>2, <2>3, SetChoiceFacts
  <2>6. Unfinished(h) = Unfinished(g) \ {c}
    BY <1>3, <1>6, <2>2, <2>3, ChoiceEnds
  <2>7. /\ DOMAIN groups' = DOMAIN groups /\ groups'[i] = h
        /\ \A k \in DOMAIN groups : k # i => groups'[k] = groups[k]
    BY <2>4
  <2>8. \A k \in DOMAIN groups : groups'[k].job = groups[k].job
    BY <1>3, <2>5, <2>7
  <2>9. ASSUME NEW k \in Job, NEW d \in 1 .. NChoices[k] PROVE Spared(k, d) \/ Settled(k, d)
    <3>1. done[k] \in [1 .. NChoices[k] -> Nat] /\ errors[k] \in Nat /\ DOMAIN done = Job
      BY DEF AnswerTypes
    <3>2. done[k][d] \in Nat
      BY <3>1
    <3>3. CASE k = j /\ d = c
      <4>1. done'[k][d] = done[k][d] + 1
        BY <1>7, <2>4, <3>1, <3>3
      <4>2. Told(done', errors', k, d) = Told(done, errors, k, d) + 1
        BY <1>8, <3>1, <3>2, <4>1 DEF Told
      <4>3. Grouped(groups, k, d)
        BY <1>3, <1>7, <3>3 DEF Grouped, Awaits
      <4>4. client[k] = "sent" /\ ~Queued(waiting, channel, k)
        BY <1>3, <1>7, <3>3, <4>3, QueuedApart DEF QueueInv, QueueOnce
      <4>5. \A m \in DOMAIN groups : groups[m].job = j => m = i
        BY <1>3, <1>7 DEF QueueInv, QueueOnce
      <4>6. ~Grouped(groups', k, d)
        BY <2>5, <2>6, <2>7, <2>8, <3>3, <4>5 DEF Grouped, Awaits
      <4> QED
        BY <1>8, <4>2, <4>3, <4>4, <4>6 DEF Settled, Waits
    <3>4. CASE ~(k = j /\ d = c)
      <4>1. done'[k][d] = done[k][d]
        BY <1>7, <2>4, <3>1, <3>4
      <4>2. Told(done', errors', k, d) = Told(done, errors, k, d)
        BY <1>8, <4>1 DEF Told
      <4>3. ASSUME NEW m \in DOMAIN groups, groups[m].job = k
            PROVE  Awaits(groups'[m], d) <=> Awaits(groups[m], d)
        BY <1>3, <1>5, <1>7, <2>5, <2>6, <2>7, <3>4, <4>3 DEF Awaits
      <4>4. Grouped(groups', k, d) <=> Grouped(groups, k, d)
        BY <2>7, <2>8, <4>3 DEF Grouped
      <4> QED
        BY <1>8, <4>2, <4>4 DEF Spared, Waits
    <3> QED
      BY <3>3, <3>4
  <2> QED
    BY <2>9, AnswersStep
<1>10. ASSUME NEW x \in Token, groups' = [groups EXCEPT ![i].choices[c].pending = x], done' = done
       PROVE  AnswerInv'
  <2>1. PICK e : e = [ch EXCEPT !.pending = x]
    OBVIOUS
  <2>2. /\ e \in ChoiceType /\ e.seq = ch.seq /\ e.stepped = ch.stepped /\ e.finished = ch.finished
    BY <2>1 DEF ChoiceType
  <2>3. ~e.finished
    BY <1>4, <1>6, <2>2 DEF Unfinished
  <2>4. PICK h : h = SetChoice(g, c, e)
    OBVIOUS
  <2>5. groups' = [groups EXCEPT ![i] = h]
    BY <1>3, <1>6, <1>10, <2>1, <2>4 DEF SetChoice
  <2>6. h.job = g.job /\ h.root = g.root
    BY <2>2, <2>4, SetChoiceFacts
  <2>7. Unfinished(h) = Unfinished(g)
    BY <1>3, <1>6, <2>2, <2>3, <2>4, ChoiceKeeps
  <2>8. UNCHANGED answers
    BY <1>8, <1>10 DEF answers
  <2>9. \A d : Awaits(h, d) <=> Awaits(g, d)
    BY <2>6, <2>7 DEF Awaits
  <2> QED
    BY <1>3, <1>8, <2>5, <2>6, <2>8, <2>9, AnswersReplace
<1> QED
  BY <1>2, <1>3, <1>4, <1>9, <1>10 DEF Advance

LEMMA AnswersInitially == ASSUME Init PROVE AnswerInv
<1>1. ASSUME NEW j \in Job, NEW c \in 1 .. NChoices[j]
      PROVE  Told(done, errors, j, c) = 0 /\ client[j] # "sent"
  BY DEF Init, Told
<1> QED
  BY <1>1 DEF AnswerInv, Waits

LEMMA AnswersNext ==
  ASSUME SchedulerInv, CapacityInv, AnswerInv, [Next]_vars
  PROVE  AnswerInv'
<1>1. EngineInv /\ QueueInv /\ AnswerTypes /\ QueueTypes
  BY DEF SchedulerInv, QueueInv
<1>2. CASE HangUp \/ \E j \in Job : Count(j) \/ SendJob(j) \/ Cancel(j) \/ Stage(j)
  BY <1>1, <1>2, OutsideAnswered
<1>3. CASE Top
  BY <1>1, <1>3, TopAnswered
<1>4. CASE Drop
  BY <1>1, <1>4, DropAnswered
<1>5. CASE Admit
  BY <1>1, <1>5, AdmitAnswered
<1>6. CASE Wait
  BY <1>1, <1>6, WaitAnswered
<1>7. CASE Restore
  BY <1>1, <1>7, RestoreAnswered
<1>8. CASE Start
  BY <1>1, <1>8, StartAnswered
<1>9. CASE Batch
  BY <1>1, <1>9, BatchAnswered
<1>10. CASE Advance
  BY <1>1, <1>10, AdvanceAnswered
<1>11. CASE AdmitEnd \/ RestoreEnd \/ StartEnd \/ Schedule \/ AdvanceEnd \/ Exit \/ UNCHANGED vars
  <2>1. UNCHANGED answers /\ UNCHANGED <<client, waiting, channel>> /\ groups' = groups
    BY <1>11 DEF AdmitEnd, RestoreEnd, StartEnd, Schedule, AdvanceEnd, Exit, vars, handlers, answers
  <2> QED
    BY <2>1, AnswersGroups
<1> QED
  BY <1>2, <1>3, <1>4, <1>5, <1>6, <1>7, <1>8, <1>9, <1>10, <1>11 DEF Next, Engine

LEMMA AlwaysAnswers == Spec => [](SchedulerInv /\ CapacityInv /\ AnswerInv)
<1>1. Init => SchedulerInv /\ CapacityInv /\ AnswerInv
  BY EngineInit, QueueInit, AnswersInit, CapacityInit, AnswersInitially DEF SchedulerInv
<1>2. SchedulerInv /\ CapacityInv /\ AnswerInv /\ [Next]_vars
        => (SchedulerInv /\ CapacityInv /\ AnswerInv)'
  BY SchedulerStep, CapacityNext, AnswersNext
<1> QED
  BY <1>1, <1>2, PTL DEF Spec

\* A choice that is not waited for has been answered, in one way.
LEMMA AnsweredChoice ==
  ASSUME AnswerInv, AnswerTypes, NEW j \in Job, NEW c \in 1 .. NChoices[j]
  PROVE  /\ done[j][c] \in Nat /\ errors[j] \in Nat
         /\ done[j][c] + errors[j] <= 1
         /\ ~Waits(client, waiting, channel, groups, j, c) => errors[j] > 0 \/ done[j][c] > 0
<1>1. done[j][c] \in Nat /\ errors[j] \in Nat
  BY DEF AnswerTypes
<1>2. done[j][c] + errors[j] = IF Waits(client, waiting, channel, groups, j, c) THEN 0 ELSE 1
  BY DEF AnswerInv, Told
<1> QED
  BY <1>1, <1>2

LEMMA PoolEmptied ==
  ASSUME NEW p \in Pool, PoolInv(p), \A s \in Slot : ~p.live[s]
  PROVE  p.free = Page
<1>1. ASSUME NEW x \in Page PROVE p.refs[x] = 0
  <2>1. ASSUME NEW s \in Slot PROVE PagesOf(p, s) = {}
    BY DEF PoolInv, TablesCover, PagesOf, Elems
  <2>2. Owners(p, x) = {}
    BY <2>1 DEF Owners
  <2>3. Cardinality(Owners(p, x)) = 0
    BY <2>2, FS_EmptySet
  <2> QED
    BY <2>3 DEF PoolInv, RefsCounted
<1> QED
  BY <1>1 DEF PoolInv, FreeCounted

\* Every request is answered once: each of its choices by one Done, or all of them
\* by one Error, and never by both; the shared counter is exact at every step; and
\* when the loop ends no sequence or page is held and nobody is left without an
\* answer (run_continuous, finish_choice, fail_group).
THEOREM SchedulerAlwaysAccounts == Spec => []Accounted
<1>1. SchedulerInv /\ AnswerInv => AnswersOnce
  BY AnsweredChoice DEF SchedulerInv, AnswersOnce
<1>2. SchedulerInv => QueuedExact
  BY QueueFacts DEF SchedulerInv, QueueInv, QueueCounted, QueuedExact, Counted
<1>3. SchedulerInv /\ AnswerInv => ExitClean
  <2> SUFFICES ASSUME SchedulerInv, AnswerInv, pc = "exit"
               PROVE  /\ pool.free = Page
                      /\ \A s \in Slot : ~pool.live[s]
                      /\ \A j \in Job : client[j] = "sent" => Answered(j)
    BY DEF ExitClean
  <2>1. groups = << >> /\ waiting = << >> /\ channel = << >> /\ idle.seq = None
    BY DEF SchedulerInv, QueueInv, QueueClosed
  <2>2. World(groups, pool, text, idle)
    BY DEF SchedulerInv, EngineInv
  <2>3. \A s \in Slot : ~pool.live[s]
    BY <2>1, <2>2, NoneIsNoSlot DEF World, HeldLive
  <2>4. pool.free = Page
    BY <2>2, <2>3, PoolEmptied DEF World
  <2>5. ASSUME NEW j \in Job, client[j] = "sent" PROVE Answered(j)
    <3>1. \A c : ~Waits(client, waiting, channel, groups, j, c)
      BY <2>1, <2>5 DEF Waits, Queued, Grouped, Elems
    <3>2. \A c \in 1 .. NChoices[j] : errors[j] > 0 \/ done[j][c] > 0
      BY <3>1, AnsweredChoice DEF SchedulerInv
    <3> QED
      BY <3>2 DEF Answered
  <2> QED
    BY <2>3, <2>4, <2>5
<1> QED
  BY <1>1, <1>2, <1>3, AlwaysAnswers, PTL DEF Accounted
=============================================================================
