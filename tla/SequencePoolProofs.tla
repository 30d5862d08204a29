------------------------- MODULE SequencePoolProofs -------------------------
(***************************************************************************)
(* Lemmas about the operators of SequencePool: each operation of the page    *)
(* pool keeps a pool a pool (Pool) and sound (PoolInv).                     *)
(***************************************************************************)
EXTENDS SequencePool, FoldFacts, FiniteSetTheorems, SequenceTheorems, TLAPS

(***************************************************************************)
(* Arithmetic of page indices, and finite sets of slots                    *)
(***************************************************************************)
LEMMA PagesForType ==
  ASSUME NEW n \in Nat
  PROVE  /\ PagesFor(n) \in Nat
         /\ TailIndex(n) \in Nat \ {0}
         /\ PagesFor(n) <= TailIndex(n)
         /\ TailIndex(n) <= PagesFor(n) + 1
  BY PageTokensAssumption, Z3 DEF PagesFor, TailIndex

LEMMA PagesForMonotonic ==
  ASSUME NEW m \in Nat, NEW n \in Nat, m <= n
  PROVE  PagesFor(m) <= PagesFor(n)
  BY PageTokensAssumption, Z3 DEF PagesFor

LEMMA PagesForZero == PagesFor(0) = 0
  BY PageTokensAssumption, Z3 DEF PagesFor

LEMMA SlotFinite ==
  ASSUME NEW S, S \subseteq Slot
  PROVE  IsFiniteSet(S) /\ Cardinality(S) \in Nat
<1>1. IsFiniteSet(Slot)
  BY SlotsAssumption, FS_Interval DEF Slot
<1> QED
  BY <1>1, FS_Subset, FS_CardinalityType

LEMMA OwnersFinite ==
  ASSUME NEW p, NEW g
  PROVE  /\ Owners(p, g) \subseteq Slot
         /\ IsFiniteSet(Owners(p, g))
         /\ Cardinality(Owners(p, g)) \in Nat
  BY SlotFinite DEF Owners

\* One more, or one less, owner.
LEMMA CountMore ==
  ASSUME NEW S, S \subseteq Slot, NEW s \in Slot \ S
  PROVE  Cardinality(S \cup {s}) = Cardinality(S) + 1
  BY SlotFinite, FS_AddElement

LEMMA CountLess ==
  ASSUME NEW S, S \subseteq Slot, NEW s \in S
  PROVE  Cardinality(S \ {s}) = Cardinality(S) - 1 /\ Cardinality(S) > 0
<1>1. IsFiniteSet(S)
  BY SlotFinite
<1>2. Cardinality(S \ {s}) = Cardinality(S) - 1
  BY <1>1, FS_RemoveElement
<1>3. Cardinality(S \ {s}) \in Nat /\ Cardinality(S) \in Nat
  BY SlotFinite
<1> QED
  BY <1>2, <1>3

\* A slot that is the only owner by count is the only owner.
LEMMA OnlyOwner ==
  ASSUME NEW S, S \subseteq Slot, NEW s \in S, ~(Cardinality(S) > 1)
  PROVE  S = {s}
<1>1. Cardinality(S \ {s}) = 0
  BY CountLess, SlotFinite
<1>2. S \ {s} = {}
  BY <1>1, SlotFinite, FS_EmptySet
<1> QED
  BY <1>2

LEMMA CountOne ==
  ASSUME NEW s
  PROVE  Cardinality({s}) = 1
  BY FS_Singleton

LEMMA NoOwners ==
  ASSUME NEW S, S \subseteq Slot, Cardinality(S) = 0
  PROVE  S = {}
  BY SlotFinite, FS_EmptySet

-----------------------------------------------------------------------------
(***************************************************************************)
(* Facts about a sound pool                                                *)
(***************************************************************************)
LEMMA PoolFields ==
  ASSUME NEW p \in Pool
  PROVE  /\ p.refs \in [Page -> Nat]
         /\ p.free \in SUBSET Page
         /\ p.live \in [Slot -> BOOLEAN]
         /\ p.table \in [Slot -> Seq(Page)]
         /\ p.past \in [Slot -> Nat]
  BY DEF Pool

LEMMA PagesInPage ==
  ASSUME NEW p \in Pool, NEW s \in Slot
  PROVE  /\ PagesOf(p, s) \subseteq Page
         /\ DOMAIN p.table[s] = 1 .. Len(p.table[s])
         /\ Len(p.table[s]) \in Nat
         /\ \A i \in DOMAIN p.table[s] : p.table[s][i] \in PagesOf(p, s)
<1>1. p.table[s] \in Seq(Page)
  BY PoolFields
<1> QED
  BY <1>1 DEF PagesOf, Elems

\* A free page is in no table.
LEMMA FreeHasNoOwner ==
  ASSUME NEW p \in Pool, PoolInv(p), NEW g \in p.free
  PROVE  Owners(p, g) = {} /\ g \in Page
<1>1. g \in Page /\ p.refs[g] = 0
  BY DEF PoolInv, FreeCounted
<1>2. Cardinality(Owners(p, g)) = 0
  BY <1>1 DEF PoolInv, RefsCounted
<1> QED
  BY <1>1, <1>2, NoOwners, OwnersFinite

\* A page in a table is held.
LEMMA OwnedIsCounted ==
  ASSUME NEW p \in Pool, PoolInv(p), NEW s \in Slot, NEW g \in PagesOf(p, s)
  PROVE  p.refs[g] \in Nat /\ p.refs[g] > 0 /\ s \in Owners(p, g)
<1>1. g \in Page
  BY PagesInPage
<1>2. s \in Owners(p, g)
  BY DEF Owners
<1>3. Cardinality(Owners(p, g)) > 0
  BY <1>2, CountLess, OwnersFinite
<1> QED
  BY <1>1, <1>2, <1>3, PoolFields DEF PoolInv, RefsCounted

LEMMA EmptyPoolSound == EmptyPool \in Pool /\ PoolInv(EmptyPool)
<1>1. EmptyPool \in Pool
  BY DEF EmptyPool, Pool
<1>2. \A s \in Slot : EmptyPool.table[s] = << >>
  BY DEF EmptyPool
<1>3. \A g \in Page : Owners(EmptyPool, g) = {}
  BY <1>2 DEF Owners, PagesOf, Elems
<1>4. RefsCounted(EmptyPool)
  BY <1>3, FS_EmptySet DEF RefsCounted, EmptyPool
<1>5. FreeCounted(EmptyPool)
  BY DEF FreeCounted, EmptyPool
<1>6. TablesDistinct(EmptyPool) /\ TablesCover(EmptyPool) /\ SparePrivate(EmptyPool)
  BY <1>2 DEF TablesDistinct, TablesCover, SparePrivate, PrivateFrom, EmptyPool
<1> QED
  BY <1>1, <1>4, <1>5, <1>6 DEF PoolInv

-----------------------------------------------------------------------------
(***************************************************************************)
(* allocate_sequence, release_sequence, fork_sequence                      *)
(***************************************************************************)
LEMMA AllocateSound ==
  ASSUME NEW p \in Pool, PoolInv(p), NEW s \in Slot, IsFirstDead(p, s)
  PROVE  Allocate(p, s) \in Pool /\ PoolInv(Allocate(p, s))
<1> DEFINE q == Allocate(p, s)
<1>1. q \in Pool
  BY PoolFields DEF Allocate, Pool
<1>2. /\ q.refs = p.refs /\ q.free = p.free /\ q.table = p.table
      /\ q.live = [p.live EXCEPT ![s] = TRUE]
      /\ q.past = [p.past EXCEPT ![s] = 0]
  BY DEF Allocate
<1>3. p.table[s] = << >>
  BY DEF IsFirstDead, PoolInv, TablesCover
<1>4. \A g : Owners(q, g) = Owners(p, g)
  BY <1>2 DEF Owners, PagesOf
<1>5. RefsCounted(q) /\ FreeCounted(q) /\ TablesDistinct(q)
  BY <1>2, <1>4 DEF PoolInv, RefsCounted, FreeCounted, TablesDistinct
<1>6. TablesCover(q)
  BY <1>2, <1>3, PagesForZero, PoolFields DEF PoolInv, TablesCover
<1>7. SparePrivate(q)
  <2> SUFFICES ASSUME NEW t \in Slot, NEW i \in DOMAIN q.table[t],
                      i >= PagesFor(q.past[t]) + 1
               PROVE  Owners(q, q.table[t][i]) = {t}
    BY DEF SparePrivate, PrivateFrom
  <2>1. t # s
    BY <1>2, <1>3
  <2>2. q.past[t] = p.past[t]
    BY <2>1, <1>2, PoolFields
  <2>3. Owners(p, p.table[t][i]) = {t}
    BY <1>2, <2>2 DEF PoolInv, SparePrivate, PrivateFrom
  <2> QED
    BY <1>2, <1>4, <2>3
<1> QED
  BY <1>1, <1>5, <1>6, <1>7 DEF PoolInv

LEMMA ReleaseSound ==
  ASSUME NEW p \in Pool, PoolInv(p), NEW s \in Slot
  PROVE  Release(p, s) \in Pool /\ PoolInv(Release(p, s))
<1> DEFINE q == Release(p, s)
           Mine == PagesOf(p, s)
<1>1. /\ q.refs = [g \in Page |-> IF g \in Mine THEN p.refs[g] - 1 ELSE p.refs[g]]
      /\ q.free = p.free \cup {g \in Mine : p.refs[g] = 1}
      /\ q.live = [p.live EXCEPT ![s] = FALSE]
      /\ q.table = [p.table EXCEPT ![s] = << >>]
      /\ q.past = p.past
  BY DEF Release
<1>2. q \in Pool
  <2>1. q.refs \in [Page -> Nat]
    BY <1>1, OwnedIsCounted, PoolFields
  <2>2. q.free \in SUBSET Page
    BY <1>1, PagesInPage, PoolFields
  <2> QED
    BY <1>1, <2>1, <2>2, PoolFields DEF Release, Pool
<1>3. \A t \in Slot : q.table[t] = IF t = s THEN << >> ELSE p.table[t]
  BY <1>1, PoolFields
<1>4. \A g : Owners(q, g) = Owners(p, g) \ {s}
  BY <1>3 DEF Owners, PagesOf, Elems
<1>5. RefsCounted(q)
  <2> SUFFICES ASSUME NEW g \in Page PROVE q.refs[g] = Cardinality(Owners(q, g))
    BY DEF RefsCounted
  <2>1. CASE g \in Mine
    <3>1. s \in Owners(p, g)
      BY <2>1, OwnedIsCounted
    <3>2. Cardinality(Owners(q, g)) = Cardinality(Owners(p, g)) - 1
      BY <3>1, <1>4, CountLess, OwnersFinite
    <3> QED
      BY <2>1, <3>2, <1>1 DEF PoolInv, RefsCounted
  <2>2. CASE g \notin Mine
    <3>1. Owners(q, g) = Owners(p, g)
      BY <2>2, <1>4 DEF Owners
    <3> QED
      BY <2>2, <3>1, <1>1 DEF PoolInv, RefsCounted
  <2> QED
    BY <2>1, <2>2
<1>6. FreeCounted(q)
  <2>1. \A g \in Page : g \in p.free <=> p.refs[g] = 0
    BY DEF PoolInv, FreeCounted
  <2>2. \A g \in Mine : g \in Page /\ p.refs[g] \in Nat /\ p.refs[g] > 0
    BY OwnedIsCounted, PagesInPage
  <2>3. \A g \in Page : g \in q.free <=> q.refs[g] = 0
    BY <1>1, <2>1, <2>2
  <2> QED
    BY <2>3, <1>2, PoolFields DEF FreeCounted
<1>7. TablesDistinct(q)
  BY <1>3 DEF PoolInv, TablesDistinct
<1>8. TablesCover(q)
  BY <1>1, <1>3, PoolFields DEF PoolInv, TablesCover
<1>9. SparePrivate(q)
  <2> SUFFICES ASSUME NEW t \in Slot, NEW i \in DOMAIN q.table[t],
                      i >= PagesFor(q.past[t]) + 1
               PROVE  Owners(q, q.table[t][i]) = {t}
    BY DEF SparePrivate, PrivateFrom
  <2>1. t # s /\ q.table[t] = p.table[t]
    BY <1>3
  <2>2. Owners(p, p.table[t][i]) = {t}
    BY <2>1, <1>1 DEF PoolInv, SparePrivate, PrivateFrom
  <2> QED
    BY <2>1, <2>2, <1>4
<1> QED
  BY <1>2, <1>5, <1>6, <1>7, <1>8, <1>9 DEF PoolInv

LEMMA ForkSound ==
  ASSUME NEW p \in Pool, PoolInv(p), NEW s \in Slot, NEW c \in Slot,
         p.live[s], IsFirstDead(p, c)
  PROVE  Fork(p, s, c) \in Pool /\ PoolInv(Fork(p, s, c))
<1> DEFINE q == Fork(p, s, c)
           n == PagesFor(p.past[s])
           prefix == SharedPrefix(p, s)
<1>1. /\ q.refs = [g \in Page |-> IF g \in Elems(prefix) THEN p.refs[g] + 1 ELSE p.refs[g]]
      /\ q.free = p.free
      /\ q.live = [p.live EXCEPT ![c] = TRUE]
      /\ q.table = [p.table EXCEPT ![c] = prefix]
      /\ q.past = [p.past EXCEPT ![c] = p.past[s]]
  BY DEF Fork
<1>2. p.table[s] \in Seq(Page) /\ n \in Nat /\ n <= Len(p.table[s])
  BY PoolFields, PagesForType DEF PoolInv, TablesCover
<1>3. /\ prefix \in Seq(Page) /\ Len(prefix) = n /\ DOMAIN prefix = 1 .. n
      /\ \A i \in 1 .. n : prefix[i] = p.table[s][i]
  BY <1>2 DEF SharedPrefix
<1>4. Elems(prefix) \subseteq PagesOf(p, s)
  BY <1>2, <1>3 DEF Elems, PagesOf
<1>5. q \in Pool
  BY <1>1, <1>3, PoolFields DEF Fork, Pool
<1>6. p.table[c] = << >> /\ c # s
  BY DEF IsFirstDead, PoolInv, TablesCover
<1>7. \A t \in Slot : q.table[t] = IF t = c THEN prefix ELSE p.table[t]
  BY <1>1, PoolFields
<1>8. \A g : Owners(q, g) = IF g \in Elems(prefix) THEN Owners(p, g) \cup {c} ELSE Owners(p, g)
  BY <1>6, <1>7 DEF Owners, PagesOf, Elems
<1>9. \A g : c \notin Owners(p, g)
  BY <1>6 DEF Owners, PagesOf, Elems
<1>10. RefsCounted(q)
  <2> SUFFICES ASSUME NEW g \in Page PROVE q.refs[g] = Cardinality(Owners(q, g))
    BY DEF RefsCounted
  <2>1. CASE g \in Elems(prefix)
    <3>1. Cardinality(Owners(q, g)) = Cardinality(Owners(p, g)) + 1
      BY <2>1, <1>8, <1>9, CountMore, OwnersFinite
    <3> QED
      BY <2>1, <3>1, <1>1 DEF PoolInv, RefsCounted
  <2>2. CASE g \notin Elems(prefix)
    BY <2>2, <1>1, <1>8 DEF PoolInv, RefsCounted
  <2> QED
    BY <2>1, <2>2
<1>11. FreeCounted(q)
  <2>1. \A g \in Page : g \in p.free <=> p.refs[g] = 0
    BY DEF PoolInv, FreeCounted
  <2>2. \A g \in Elems(prefix) : g \in Page /\ p.refs[g] \in Nat /\ p.refs[g] > 0
    BY <1>4, OwnedIsCounted, PagesInPage
  <2>3. \A g \in Page : g \in q.free <=> q.refs[g] = 0
    BY <1>1, <2>1, <2>2
  <2> QED
    BY <2>3, <1>5, PoolFields DEF FreeCounted
<1>12. TablesDistinct(q)
  <2> SUFFICES ASSUME NEW t \in Slot, NEW i \in DOMAIN q.table[t], NEW j \in DOMAIN q.table[t],
                      q.table[t][i] = q.table[t][j]
               PROVE  i = j
    BY DEF TablesDistinct
  <2>1. CASE t = c
    BY <2>1, <1>2, <1>3, <1>7, SMTT(60) DEF PoolInv, TablesDistinct
  <2>2. CASE t # c
    BY <2>2, <1>7 DEF PoolInv, TablesDistinct
  <2> QED
    BY <2>1, <2>2
<1>13. TablesCover(q)
  BY <1>1, <1>3, <1>7, PoolFields DEF PoolInv, TablesCover
<1>14. SparePrivate(q)
  <2> SUFFICES ASSUME NEW t \in Slot, NEW i \in DOMAIN q.table[t],
                      i >= PagesFor(q.past[t]) + 1
               PROVE  Owners(q, q.table[t][i]) = {t}
    BY DEF SparePrivate, PrivateFrom
  <2>1. t # c
    BY <1>1, <1>3, <1>7, PoolFields
  <2>2. q.table[t] = p.table[t] /\ q.past[t] = p.past[t]
    BY <2>1, <1>1, <1>7, PoolFields
  <2>3. Owners(p, p.table[t][i]) = {t}
    BY <2>2 DEF PoolInv, SparePrivate, PrivateFrom
  <2>4. p.table[t][i] \notin Elems(prefix)
    <3> SUFFICES ASSUME NEW k \in 1 .. n, p.table[t][i] = p.table[s][k] PROVE FALSE
      BY <1>3 DEF Elems
    <3>1. p.table[s][k] \in PagesOf(p, s)
      BY <1>2 DEF PagesOf, Elems
    <3>2. t = s
      BY <3>1, <2>3, OwnedIsCounted
    <3>3. i = k
      BY <3>2, <2>2, <1>2 DEF PoolInv, TablesDistinct
    <3> QED
      BY <3>2, <3>3, <2>2, <1>2
  <2> QED
    BY <2>2, <2>3, <2>4, <1>8
<1> QED
  BY <1>5, <1>10, <1>11, <1>12, <1>13, <1>14 DEF PoolInv

-----------------------------------------------------------------------------
(***************************************************************************)
(* prepare_sequence                                                        *)
(***************************************************************************)
LEMMA PickFacts ==
  ASSUME NEW S, NEW k \in Nat, NEW new \in Picks(S, k)
  PROVE  /\ new \in Seq(S) /\ Len(new) = k /\ DOMAIN new = 1 .. k
         /\ Elems(new) \subseteq S
         /\ \A i, j \in 1 .. k : new[i] = new[j] => i = j
<1>1. new \in [1 .. k -> S]
  BY DEF Picks
<1> QED
  BY <1>1 DEF Picks, Elems

\* Appending the distinct elements new to a sequence without them.
LEMMA AppendFacts ==
  ASSUME NEW S, NEW old \in Seq(S), NEW new \in Seq(S),
         \A i, j \in DOMAIN old : old[i] = old[j] => i = j,
         \A i, j \in DOMAIN new : new[i] = new[j] => i = j,
         \A i \in DOMAIN old : old[i] \notin Elems(new)
  PROVE  /\ old \o new \in Seq(S)
         /\ Len(old \o new) = Len(old) + Len(new)
         /\ \A i \in DOMAIN old : i \in DOMAIN (old \o new) /\ (old \o new)[i] = old[i]
         /\ \A i \in DOMAIN (old \o new) :
              i > Len(old) => (old \o new)[i] \in Elems(new)
         /\ Elems(old \o new) = Elems(old) \cup Elems(new)
         /\ \A i, j \in DOMAIN (old \o new) :
              (old \o new)[i] = (old \o new)[j] => i = j
<1> DEFINE m == Len(old)
           k == Len(new)
           tab == old \o new
<1>1. /\ m \in Nat /\ DOMAIN old = 1 .. m /\ old \in [1 .. m -> S]
      /\ k \in Nat /\ DOMAIN new = 1 .. k /\ new \in [1 .. k -> S]
  OBVIOUS
<1>2. tab \in Seq(S) /\ Len(tab) = m + k
  OBVIOUS
<1>3. \A i \in 1 .. m + k : tab[i] = IF i <= m THEN old[i] ELSE new[i - m]
  OBVIOUS
<1>4. DOMAIN tab = 1 .. m + k /\ tab \in [1 .. m + k -> S]
  <2> HIDE DEF tab, m, k
  <2> QED
    BY <1>2
<1>a. /\ \A i, j \in 1 .. m : old[i] = old[j] => i = j
      /\ \A i, j \in 1 .. k : new[i] = new[j] => i = j
      /\ \A i \in 1 .. m : old[i] \notin Elems(new)
  BY <1>1
<1> SUFFICES /\ tab \in Seq(S) /\ Len(tab) = Len(old) + Len(new)
             /\ \A i \in DOMAIN old : i \in DOMAIN tab /\ tab[i] = old[i]
             /\ \A i \in DOMAIN tab : i > Len(old) => tab[i] \in Elems(new)
             /\ Elems(tab) = Elems(old) \cup Elems(new)
             /\ \A i, j \in DOMAIN tab : tab[i] = tab[j] => i = j
  OBVIOUS
<1> HIDE DEF tab, m, k
<1> USE <1>1, <1>4
<1>11. \A i \in 1 .. m : i \in 1 .. m + k /\ tab[i] = old[i]
  BY <1>1, <1>3, <1>4
<1>12. \A i \in 1 .. m + k : i > m => i - m \in 1 .. k /\ tab[i] = new[i - m]
  BY <1>1, <1>3, <1>4
<1>13. \A i \in 1 .. k : m + i \in 1 .. m + k /\ tab[m + i] = new[i]
  <2> SUFFICES ASSUME NEW i \in 1 .. k
               PROVE  m + i \in 1 .. m + k /\ tab[m + i] = new[i]
    BY <1>1, <1>3, <1>4
  <2>1. m + i \in 1 .. m + k /\ m + i > m /\ (m + i) - m = i
    BY <1>1, <1>3, <1>4
  <2> QED
    BY <2>1, <1>12
<1>14. \A i \in 1 .. m + k : i > m => tab[i] \in Elems(new)
  BY <1>12 DEF Elems
<1>15. Elems(tab) = Elems(old) \cup Elems(new)
  <2>1. \A g : g \in Elems(tab) => g \in Elems(old) \cup Elems(new)
    <3> SUFFICES ASSUME NEW i \in 1 .. m + k
                 PROVE  tab[i] \in Elems(old) \cup Elems(new)
      BY DEF Elems
    <3>1. CASE i <= m
      <4>1. i \in 1 .. m
        BY <3>1
      <4> QED
        BY <4>1, <1>11 DEF Elems
    <3> QED
      BY <3>1, <1>14
  <2>2. \A g : g \in Elems(old) => g \in Elems(tab)
    BY <1>11 DEF Elems
  <2>3. \A g : g \in Elems(new) => g \in Elems(tab)
    BY <1>13 DEF Elems
  <2> QED
    BY <2>1, <2>2, <2>3
<1>16. ASSUME NEW i \in 1 .. m + k, NEW j \in 1 .. m + k, tab[i] = tab[j]
      PROVE  i = j
  <2>1. CASE i <= m /\ j <= m
    <3>1. i \in 1 .. m /\ j \in 1 .. m
      BY <2>1
    <3> QED
      BY <1>11, <1>16, <3>1
  <2>2. CASE i > m /\ j > m
    <3>1. i - m \in 1 .. k /\ j - m \in 1 .. k /\ new[i - m] = new[j - m]
      BY <1>12, <1>16, <2>2
    <3>2. i - m = j - m
      BY <3>1
    <3> QED
      BY <3>2
  <2>3. CASE i <= m /\ j > m
    <3>1. i \in 1 .. m
      BY <2>3
    <3> QED
      BY <1>11, <1>14, <1>16, <2>3, <3>1
  <2>4. CASE i > m /\ j <= m
    <3>1. j \in 1 .. m
      BY <2>4
    <3> QED
      BY <1>11, <1>14, <1>16, <2>4, <3>1
  <2> QED
    BY <2>1, <2>2, <2>3, <2>4
<1> QED
  BY <1>2, <1>11, <1>14, <1>15, <1>16 DEF m, k

\* What appending the pages new to the table of s does: q is sound, the old
\* entries keep their holders and the new ones belong to s.
Distinct(seq) == \A i, j \in DOMAIN seq : seq[i] = seq[j] => i = j

Extended(p, q, s, new) ==
  /\ q \in Pool /\ PoolInv(q)
  /\ q.live = p.live /\ q.past = p.past
  /\ q.free = p.free \ Elems(new)
  /\ Len(q.table[s]) = Len(p.table[s]) + Len(new)
  /\ \A t \in Slot \ {s} : q.table[t] = p.table[t]
  /\ \A i \in DOMAIN p.table[s] :
       i \in DOMAIN q.table[s] /\ q.table[s][i] = p.table[s][i]
  /\ \A t \in Slot : \A i \in DOMAIN p.table[t] :
       Owners(q, p.table[t][i]) = Owners(p, p.table[t][i])
  /\ \A i \in DOMAIN q.table[s] :
       i > Len(p.table[s]) => Owners(q, q.table[s][i]) = {s}

\* Appending free pages to a table.
LEMMA ExtendSound ==
  ASSUME NEW p \in Pool, PoolInv(p), NEW s \in Slot, p.live[s],
         NEW new \in Seq(p.free), Distinct(new),
         NEW q, q = Extend(p, s, new)
  PROVE  Extended(p, q, s, new)
<1> DEFINE tab == p.table[s] \o new
<1>2. /\ q.refs = [g \in Page |-> IF g \in Elems(new) THEN 1 ELSE p.refs[g]]
      /\ q.free = p.free \ Elems(new)
      /\ q.live = p.live
      /\ q.table = [p.table EXCEPT ![s] = tab]
      /\ q.past = p.past
      /\ q = [refs |-> q.refs, free |-> q.free, live |-> q.live,
              table |-> q.table, past |-> q.past]
  BY DEF Extend
<1>3. /\ p.table[s] \in Seq(Page) /\ new \in Seq(Page)
      /\ p.free \subseteq Page /\ Elems(new) \subseteq p.free
  BY PoolFields DEF Elems
<1>4. \A g \in Elems(new) : Owners(p, g) = {}
  BY <1>3, FreeHasNoOwner
<1>5. \A t \in Slot : \A i \in DOMAIN p.table[t] : p.table[t][i] \notin Elems(new)
  BY <1>4, OwnedIsCounted, PagesInPage
<1>6. \A i, j \in DOMAIN p.table[s] : p.table[s][i] = p.table[s][j] => i = j
  BY DEF PoolInv, TablesDistinct
<1>7. /\ tab \in Seq(Page) /\ Len(tab) = Len(p.table[s]) + Len(new)
      /\ \A i \in DOMAIN p.table[s] : i \in DOMAIN tab /\ tab[i] = p.table[s][i]
      /\ \A i \in DOMAIN tab : i > Len(p.table[s]) => tab[i] \in Elems(new)
      /\ Elems(tab) = Elems(p.table[s]) \cup Elems(new)
      /\ \A i, j \in DOMAIN tab : tab[i] = tab[j] => i = j
  <2>1. \A i \in DOMAIN p.table[s] : p.table[s][i] \notin Elems(new)
    BY <1>5
  <2> QED
    BY ONLY <1>3, <1>6, <2>1, AppendFacts,
            Distinct(new), ZenonT(60) DEF Distinct
<1> HIDE DEF tab
<1>8. \A t \in Slot : q.table[t] = IF t = s THEN tab ELSE p.table[t]
  BY <1>2, PoolFields
<1>9. q \in Pool
  <2>1. q.refs \in [Page -> Nat]
    BY <1>2, PoolFields
  <2>2. q.table \in [Slot -> Seq(Page)]
    BY <1>2, <1>7, PoolFields
  <2> QED
    BY <2>1, <2>2, <1>2, PoolFields DEF Pool
<1>10. \A g : Owners(q, g) = IF g \in Elems(new) THEN {s} ELSE Owners(p, g)
  <2>1. \A t \in Slot : PagesOf(q, t) = IF t = s THEN PagesOf(p, s) \cup Elems(new)
                                                 ELSE PagesOf(p, t)
    BY <1>7, <1>8 DEF PagesOf
  <2> QED
    BY <2>1, <1>4 DEF Owners
<1>11. RefsCounted(q)
  <2> SUFFICES ASSUME NEW g \in Page PROVE q.refs[g] = Cardinality(Owners(q, g))
    BY DEF RefsCounted
  <2>1. CASE g \in Elems(new)
    <3>1. q.refs[g] = 1 /\ Owners(q, g) = {s}
      BY <2>1, <1>2, <1>10
    <3> QED
      BY <3>1, CountOne
  <2>2. CASE g \notin Elems(new)
    BY <2>2, <1>2, <1>10 DEF PoolInv, RefsCounted
  <2> QED
    BY <2>1, <2>2
<1>12. FreeCounted(q)
  BY <1>2, <1>3, PoolFields DEF PoolInv, FreeCounted
<1>13. TablesDistinct(q)
  BY <1>7, <1>8 DEF PoolInv, TablesDistinct
<1>14. \A t \in Slot : Len(p.table[t]) \in Nat /\ Len(new) \in Nat
                       /\ PagesFor(p.past[t]) \in Nat
  <2>1. \A t \in Slot : p.table[t] \in Seq(Page) /\ p.past[t] \in Nat
    BY PoolFields
  <2> SUFFICES ASSUME NEW t \in Slot PROVE PagesFor(p.past[t]) \in Nat
    BY <1>3, <2>1
  <2> QED
    BY <2>1, PagesForType
<1>15. TablesCover(q)
  BY <1>2, <1>7, <1>8, <1>14 DEF PoolInv, TablesCover
<1>16. \A i \in DOMAIN q.table[s] :
          i > Len(p.table[s]) => Owners(q, q.table[s][i]) = {s}
  BY <1>7, <1>8, <1>10
<1>17. \A t \in Slot : \A i \in DOMAIN p.table[t] :
          Owners(q, p.table[t][i]) = Owners(p, p.table[t][i])
  BY <1>5, <1>10
<1>18. SparePrivate(q)
  <2> SUFFICES ASSUME NEW t \in Slot, NEW i \in DOMAIN q.table[t],
                      i >= PagesFor(q.past[t]) + 1
               PROVE  Owners(q, q.table[t][i]) = {t}
    BY DEF SparePrivate, PrivateFrom
  <2>1. CASE i \in DOMAIN p.table[t]
    <3>1. q.table[t][i] = p.table[t][i]
      BY <2>1, <1>7, <1>8
    <3>2. Owners(p, p.table[t][i]) = {t}
      BY <2>1, <1>2 DEF PoolInv, SparePrivate, PrivateFrom
    <3> QED
      BY <2>1, <3>1, <3>2, <1>17
  <2>2. CASE i \notin DOMAIN p.table[t]
    <3>1. t = s
      BY <2>2, <1>8
    <3>2. i \in 1 .. Len(tab) /\ i \notin 1 .. Len(p.table[s])
      BY <2>2, <3>1, <1>3, <1>7, <1>8
    <3>3. i > Len(p.table[s])
      BY <3>2, <1>3, <1>7
    <3> QED
      BY <3>1, <3>3, <1>16
  <2> QED
    BY <2>1, <2>2
<1> QED
  BY <1>2, <1>7, <1>8, <1>9, <1>11, <1>12, <1>13, <1>15, <1>16, <1>17, <1>18, ZenonT(60)
     DEF PoolInv, Extended

\* Behind the tail page all pages are private; so is the tail page itself if
\* it has one holder.
LEMMA TailPrivate ==
  ASSUME NEW p \in Pool, PoolInv(p), NEW s \in Slot,
         NEW tail, tail = TailIndex(p.past[s]),
         tail <= Len(p.table[s]) => Owners(p, p.table[s][tail]) = {s}
  PROVE  PrivateFrom(p, s, tail)
<1> SUFFICES ASSUME NEW i \in DOMAIN p.table[s], i >= tail
             PROVE  Owners(p, p.table[s][i]) = {s}
  BY DEF PrivateFrom
<1>1. i \in Nat /\ i <= Len(p.table[s])
  BY PagesInPage
<1>2. /\ tail \in Nat /\ PagesFor(p.past[s]) \in Nat
      /\ PagesFor(p.past[s]) <= tail
  <2>1. p.past[s] \in Nat
    BY PoolFields
  <2> QED
    BY <2>1, PagesForType
<1>3. CASE i = tail
  BY <1>1, <1>3
<1>4. CASE i # tail
  <2>1. i >= PagesFor(p.past[s]) + 1
    BY <1>1, <1>2, <1>4
  <2> QED
    BY <2>1 DEF PoolInv, SparePrivate, PrivateFrom
<1> QED
  BY <1>3, <1>4

\* The copy of a shared tail page.
LEMMA CopyOnWriteSound ==
  ASSUME NEW p \in Pool, PoolInv(p), NEW s \in Slot, p.live[s],
         NEW tail, tail = TailIndex(p.past[s]), tail <= Len(p.table[s]),
         p.refs[p.table[s][tail]] > 1,
         NEW new, new[1] \in p.free,
         NEW q, q = CopyOnWrite(p, s, new)
  PROVE  /\ q \in Pool /\ PoolInv(q)
         /\ q.live = p.live /\ q.past = p.past
         /\ q.free = p.free \ {new[1]}
         /\ Len(q.table[s]) = Len(p.table[s])
         /\ \A t \in Slot \ {s} : q.table[t] = p.table[t]
         /\ \A t \in Slot \ {s} : \A g :
              Owners(p, g) = {t} => Owners(q, g) = {t}
         /\ PrivateFrom(q, s, tail)
<1> DEFINE old == p.table[s][tail]
           copy == new[1]
<1>1. PICK tab : tab = [p.table[s] EXCEPT ![tail] = copy]
  OBVIOUS
<1>2. /\ q.refs = [g \in Page |-> IF g = copy THEN 1
                                  ELSE IF g = old THEN p.refs[g] - 1 ELSE p.refs[g]]
      /\ q.free = p.free \ {copy}
      /\ q.live = p.live
      /\ q.table = [p.table EXCEPT ![s] = tab]
      /\ q.past = p.past
      /\ q = [refs |-> q.refs, free |-> q.free, live |-> q.live,
              table |-> q.table, past |-> q.past]
  BY <1>1, PoolFields DEF CopyOnWrite
<1>3. /\ p.table[s] \in Seq(Page) /\ tail \in DOMAIN p.table[s]
      /\ tail \in Nat \ {0}
  <2>1. p.past[s] \in Nat /\ p.table[s] \in Seq(Page)
    BY PoolFields
  <2>2. tail \in Nat \ {0}
    BY <2>1, PagesForType
  <2> QED
    BY <2>1, <2>2
<1>4. /\ copy \in Page /\ Owners(p, copy) = {}
      /\ old \in Page /\ old \in PagesOf(p, s) /\ s \in Owners(p, old)
      /\ old # copy
  BY <1>3, FreeHasNoOwner, PagesInPage, OwnedIsCounted
<1>5. /\ tab \in Seq(Page) /\ Len(tab) = Len(p.table[s])
      /\ DOMAIN tab = DOMAIN p.table[s]
      /\ \A i \in DOMAIN tab : tab[i] = IF i = tail THEN copy ELSE p.table[s][i]
  BY <1>1, <1>3, <1>4
<1> HIDE DEF old, copy
<1>6. \A t \in Slot : q.table[t] = IF t = s THEN tab ELSE p.table[t]
  BY <1>2, PoolFields
<1>7. \A i, j \in DOMAIN p.table[s] : p.table[s][i] = p.table[s][j] => i = j
  BY DEF PoolInv, TablesDistinct
<1>8. \A t \in Slot : copy \notin PagesOf(p, t)
  BY <1>4, OwnedIsCounted
<1>9. \A g : g \in PagesOf(q, s) <=> g = copy \/ (g \in PagesOf(p, s) /\ g # old)
  <2>1. \A g : g \in PagesOf(q, s) <=> \E i \in DOMAIN tab : g = tab[i]
    BY <1>6 DEF PagesOf, Elems
  <2>2. \A g : g \in PagesOf(p, s) <=> \E i \in DOMAIN tab : g = p.table[s][i]
    BY <1>5 DEF PagesOf, Elems
  <2>3. p.table[s][tail] = old
    BY DEF old
  <2> QED
    BY <2>1, <2>2, <2>3, <1>3, <1>5, <1>7, <1>8
<1>10. \A t \in Slot \ {s} : PagesOf(q, t) = PagesOf(p, t)
  BY <1>6 DEF PagesOf
<1>11. \A g : Owners(q, g) = IF g = copy THEN {s}
                             ELSE IF g = old THEN Owners(p, g) \ {s} ELSE Owners(p, g)
  BY <1>4, <1>8, <1>9, <1>10 DEF Owners
<1>12. q \in Pool
  <2>1. p.refs[old] > 1
    BY DEF old
  <2>2. q.refs \in [Page -> Nat]
    BY <2>1, <1>2, PoolFields
  <2>3. q.table \in [Slot -> Seq(Page)]
    BY <1>2, <1>5, PoolFields
  <2> QED
    BY <2>2, <2>3, <1>2, PoolFields DEF Pool
<1>13. RefsCounted(q)
  <2> SUFFICES ASSUME NEW g \in Page PROVE q.refs[g] = Cardinality(Owners(q, g))
    BY DEF RefsCounted
  <2>1. CASE g = copy
    BY <2>1, <1>2, <1>11, CountOne, ZenonT(60)
  <2>2. CASE g = old
    <3>1. Cardinality(Owners(p, g) \ {s}) = Cardinality(Owners(p, g)) - 1
      BY <2>2, <1>4, CountLess, OwnersFinite
    <3> QED
      BY <2>2, <3>1, <1>2, <1>4, <1>11, ZenonT(60) DEF PoolInv, RefsCounted
  <2>3. CASE g # copy /\ g # old
    BY <2>3, <1>2, <1>11 DEF PoolInv, RefsCounted
  <2> QED
    BY <2>1, <2>2, <2>3
<1>14. FreeCounted(q)
  <2>1. \A g \in Page : g \in p.free <=> p.refs[g] = 0
    BY DEF PoolInv, FreeCounted
  <2>2. p.refs[old] > 1 /\ p.refs[old] \in Nat
    BY <1>4, PoolFields DEF old
  <2>3. \A g \in Page : g \in q.free <=> q.refs[g] = 0
    BY <2>1, <2>2, <1>2, <1>4
  <2> QED
    BY <2>3, <1>2, PoolFields DEF FreeCounted
<1>15. TablesDistinct(q)
  <2> SUFFICES ASSUME NEW t \in Slot, NEW i \in DOMAIN q.table[t], NEW j \in DOMAIN q.table[t],
                      q.table[t][i] = q.table[t][j]
               PROVE  i = j
    BY DEF TablesDistinct
  <2>1. CASE t = s
    <3>1. \A k \in DOMAIN tab : p.table[s][k] # copy
      BY <1>5, <1>8 DEF PagesOf, Elems
    <3> QED
      BY <2>1, <3>1, <1>5, <1>6, <1>7
  <2>2. CASE t # s
    BY <2>2, <1>6 DEF PoolInv, TablesDistinct
  <2> QED
    BY <2>1, <2>2
<1>16. TablesCover(q)
  BY <1>2, <1>5, <1>6 DEF PoolInv, TablesCover
<1>17. \A t \in Slot \ {s} : \A g : Owners(p, g) = {t} => Owners(q, g) = {t}
  BY <1>4, <1>11
<1>18. \A g : Owners(p, g) = {s} => g # old
  <2>1. p.refs[old] = Cardinality(Owners(p, old)) /\ p.refs[old] > 1
    BY <1>4 DEF PoolInv, RefsCounted, old
  <2> SUFFICES ASSUME Owners(p, old) = {s} PROVE FALSE
    OBVIOUS
  <2>2. Cardinality(Owners(p, old)) = 1
    BY CountOne
  <2> QED
    BY <2>1, <2>2
<1>19. SparePrivate(q)
  <2> SUFFICES ASSUME NEW t \in Slot, NEW i \in DOMAIN q.table[t],
                      i >= PagesFor(q.past[t]) + 1
               PROVE  Owners(q, q.table[t][i]) = {t}
    BY DEF SparePrivate, PrivateFrom
  <2>1. i \in DOMAIN p.table[t]
    BY <1>5, <1>6
  <2>2. Owners(p, p.table[t][i]) = {t}
    BY <2>1, <1>2 DEF PoolInv, SparePrivate, PrivateFrom
  <2>3. CASE t # s
    BY <2>2, <2>3, <1>6, <1>17
  <2>4. CASE t = s /\ i = tail
    BY <2>1, <2>4, <1>5, <1>6, <1>11
  <2>5. CASE t = s /\ i # tail
    <3>1. q.table[t][i] = p.table[s][i] /\ p.table[s][i] # copy
      BY <2>1, <2>5, <1>5, <1>6, <1>8 DEF PagesOf, Elems
    <3> QED
      BY <2>2, <2>5, <3>1, <1>11, <1>18
  <2> QED
    BY <2>3, <2>4, <2>5
<1>20. PoolInv(q)
  BY <1>13, <1>14, <1>15, <1>16, <1>19 DEF PoolInv
<1>21. PrivateFrom(q, s, tail)
  <2>1. Owners(q, q.table[s][tail]) = {s}
    BY <1>3, <1>5, <1>6, <1>11
  <2> QED
    BY <2>1, <1>2, <1>12, <1>20, TailPrivate
<1> QED
  BY <1>2, <1>5, <1>6, <1>12, <1>17, <1>20, <1>21 DEF copy

\* Appending pages to a table whose pages from tail on are private.
LEMMA ExtendPrivate ==
  ASSUME NEW p \in Pool, PoolInv(p), NEW s \in Slot, p.live[s],
         NEW new \in Seq(p.free), Distinct(new),
         NEW q, q = Extend(p, s, new),
         NEW tail, PrivateFrom(p, s, tail)
  PROVE  PrivateFrom(q, s, tail)
<1> SUFFICES ASSUME NEW i \in DOMAIN q.table[s], i >= tail
             PROVE  Owners(q, q.table[s][i]) = {s}
  BY DEF PrivateFrom
<1>1. Extended(p, q, s, new)
  BY ExtendSound
<1>2. i \in Nat /\ i >= 1 /\ Len(p.table[s]) \in Nat
  BY <1>1, PagesInPage DEF Extended
<1>3. CASE i > Len(p.table[s])
  BY <1>1, <1>3 DEF Extended
<1>4. CASE i <= Len(p.table[s])
  <2>1. i \in DOMAIN p.table[s]
    BY <1>2, <1>4, PagesInPage
  <2>2. q.table[s][i] = p.table[s][i]
        /\ Owners(q, p.table[s][i]) = Owners(p, p.table[s][i])
    BY <2>1, <1>1 DEF Extended
  <2>3. Owners(p, p.table[s][i]) = {s}
    BY <2>1 DEF PrivateFrom
  <2> QED
    BY <2>2, <2>3
<1> QED
  BY <1>2, <1>3, <1>4

\* The other sequences: their tables stay as they are, and what was private to
\* one of them still is.
OthersKept(p, q, s) ==
  \A t \in Slot \ {s} :
    q.table[t] = p.table[t] /\ \A first : PrivateFrom(p, t, first) => PrivateFrom(q, t, first)

LEMMA ExtendOthers ==
  ASSUME NEW p \in Pool, PoolInv(p), NEW s \in Slot, p.live[s],
         NEW new \in Seq(p.free), Distinct(new),
         NEW q, q = Extend(p, s, new)
  PROVE  OthersKept(p, q, s)
<1>1. Extended(p, q, s, new)
  BY ExtendSound
<1>2. /\ \A t \in Slot \ {s} : q.table[t] = p.table[t]
      /\ \A t \in Slot : \A i \in DOMAIN p.table[t] :
           Owners(q, p.table[t][i]) = Owners(p, p.table[t][i])
  BY <1>1 DEF Extended
<1>3. ASSUME NEW t \in Slot \ {s}, NEW first, PrivateFrom(p, t, first)
      PROVE  PrivateFrom(q, t, first)
  <2> SUFFICES ASSUME NEW i \in DOMAIN q.table[t], i >= first
               PROVE  Owners(q, q.table[t][i]) = {t}
    BY DEF PrivateFrom
  <2>1. i \in DOMAIN p.table[t] /\ q.table[t][i] = p.table[t][i]
    BY <1>2
  <2>2. Owners(p, p.table[t][i]) = {t}
    BY <1>3, <2>1 DEF PrivateFrom
  <2> QED
    BY <1>2, <2>1, <2>2
<1> QED
  BY <1>2, <1>3 DEF OthersKept

LEMMA PrepareSound ==
  ASSUME NEW p \in Pool, PoolInv(p), NEW s \in Slot, p.live[s],
         NEW end \in Nat, NEW new \in Picks(p.free, Needed(p, s, end)),
         NEW q, q = Prepare(p, s, end, new)
  PROVE  /\ q \in Pool /\ PoolInv(q)
         /\ q.live = p.live /\ q.past = p.past
         /\ PagesFor(end) <= Len(q.table[s])
         /\ Len(p.table[s]) <= Len(q.table[s])
         /\ Len(q.table[s]) = Len(p.table[s]) + Grow(p, s, end)
         /\ OthersKept(p, q, s)
         /\ end > p.past[s] => PrivateFrom(q, s, TailIndex(p.past[s]))
<1> DEFINE tail == TailIndex(p.past[s])
           k == Grow(p, s, end)
<1>1. /\ p.past[s] \in Nat /\ p.table[s] \in Seq(Page)
      /\ p.free \subseteq Page /\ p.refs \in [Page -> Nat]
  BY PoolFields
<1>2. /\ tail \in Nat \ {0} /\ PagesFor(end) \in Nat /\ Len(p.table[s]) \in Nat
      /\ DOMAIN p.table[s] = 1 .. Len(p.table[s])
  <2>1. Len(p.table[s]) \in Nat /\ DOMAIN p.table[s] = 1 .. Len(p.table[s])
    BY <1>1
  <2>2. tail \in Nat \ {0} /\ PagesFor(end) \in Nat
    BY <1>1, PagesForType
  <2> QED
    BY <2>1, <2>2
<1> HIDE DEF tail
<1>3. k \in Nat /\ k + Len(p.table[s]) >= PagesFor(end)
  BY <1>2 DEF Grow
<1> HIDE DEF k
<1>4. CASE ~Shared(p, s, end)
  <2>1. Needed(p, s, end) = k /\ q = Extend(p, s, new)
    BY <1>3, <1>4 DEF Needed, Prepare, k
  <2>2. /\ new \in Seq(p.free) /\ Len(new) = k /\ Distinct(new)
    BY <2>1, <1>3, PickFacts DEF Distinct
  <2>3. /\ q \in Pool /\ PoolInv(q) /\ q.live = p.live /\ q.past = p.past
        /\ Len(q.table[s]) = Len(p.table[s]) + Len(new)
    <3>1. Extended(p, q, s, new)
      BY <2>1, <2>2, ExtendSound
    <3> QED
      BY <3>1 DEF Extended
  <2>4. OthersKept(p, q, s)
    BY <2>1, <2>2, ExtendOthers
  <2>5. ASSUME end > p.past[s]
        PROVE  PrivateFrom(q, s, tail)
    <3>1. ASSUME tail <= Len(p.table[s])
          PROVE  Owners(p, p.table[s][tail]) = {s}
      <4>1. tail \in DOMAIN p.table[s]
        BY <3>1, <1>2
      <4>2. /\ p.table[s][tail] \in PagesOf(p, s) /\ p.table[s][tail] \in Page
            /\ s \in Owners(p, p.table[s][tail])
        BY <4>1, PagesInPage, OwnedIsCounted
      <4>3. ~(p.refs[p.table[s][tail]] > 1)
        BY <1>4, <2>5, <3>1 DEF Shared, tail
      <4>4. p.refs[p.table[s][tail]] = Cardinality(Owners(p, p.table[s][tail]))
        BY <4>2 DEF PoolInv, RefsCounted
      <4> QED
        BY <4>2, <4>3, <4>4, OnlyOwner, OwnersFinite
    <3>2. PrivateFrom(p, s, tail)
      BY <3>1, TailPrivate DEF tail
    <3> QED
      BY <3>2, <2>1, <2>2, ExtendPrivate
  <2> QED
    BY <2>2, <2>3, <2>4, <2>5, <1>2, <1>3 DEF tail, k
<1>5. CASE Shared(p, s, end)
  <2> DEFINE r == CopyOnWrite(p, s, new)
             rest == Tail(new)
  <2>1. Needed(p, s, end) = k + 1 /\ q = Extend(r, s, rest)
    BY <1>3, <1>5 DEF Needed, Prepare, k
  <2>2. /\ new \in Seq(p.free) /\ Len(new) = k + 1 /\ DOMAIN new = 1 .. k + 1
        /\ \A i, j \in 1 .. k + 1 : new[i] = new[j] => i = j
    BY <2>1, <1>3, PickFacts
  <2>3. new[1] \in p.free
    BY <2>2, <1>3
  <2>4. tail <= Len(p.table[s]) /\ p.refs[p.table[s][tail]] > 1
    BY <1>5 DEF Shared, tail
  <2>5. /\ r \in Pool /\ PoolInv(r) /\ r.live = p.live /\ r.past = p.past
        /\ r.free = p.free \ {new[1]} /\ Len(r.table[s]) = Len(p.table[s])
        /\ PrivateFrom(r, s, tail)
    BY <2>3, <2>4, CopyOnWriteSound DEF tail
  <2>6. OthersKept(p, r, s)
    <3>1. /\ \A t \in Slot \ {s} : r.table[t] = p.table[t]
          /\ \A t \in Slot \ {s} : \A g : Owners(p, g) = {t} => Owners(r, g) = {t}
      BY <2>3, <2>4, CopyOnWriteSound DEF tail
    <3> HIDE DEF r
    <3> QED
      BY <3>1 DEF OthersKept, PrivateFrom
  <2>7. /\ rest \in Seq(r.free) /\ Len(rest) = k /\ Distinct(rest)
    <3>1. /\ Len(rest) = k /\ DOMAIN rest = 1 .. k
          /\ \A i \in 1 .. k : rest[i] = new[i + 1]
      <4>1. new # << >>
        BY <2>2, <1>3
      <4>2. /\ rest \in Seq(p.free) /\ Len(rest) = Len(new) - 1
            /\ \A i \in 1 .. Len(rest) : rest[i] = new[i + 1]
        BY <2>2, <4>1, HeadTailProperties
      <4> HIDE DEF rest
      <4> QED
        BY <4>2, <2>2, <1>3
    <3>2. \A i \in 1 .. k : i + 1 \in 1 .. k + 1 /\ i + 1 # 1
      BY <1>3
    <3>3. \A i \in 1 .. k : rest[i] \in p.free /\ rest[i] # new[1]
      BY <3>1, <3>2, <2>2, <1>3
    <3>4. rest \in Seq(p.free)
      BY <2>2, <1>3
    <3> HIDE DEF rest, r
    <3>5. rest \in Seq(r.free)
      BY <3>1, <3>3, <3>4, <2>5
    <3>6. ASSUME NEW i \in 1 .. k, NEW j \in 1 .. k, rest[i] = rest[j]
          PROVE  i = j
      <4>1. i + 1 = j + 1
        BY <3>1, <3>2, <3>6, <2>2
      <4> QED
        BY <4>1, <1>3
    <3> QED
      BY <3>1, <3>5, <3>6 DEF Distinct
  <2> HIDE DEF r, rest
  <2>8. r.live[s]
    BY <2>5
  <2>9. /\ q \in Pool /\ PoolInv(q) /\ q.live = r.live /\ q.past = r.past
        /\ Len(q.table[s]) = Len(r.table[s]) + Len(rest)
    <3>1. Extended(r, q, s, rest)
      BY <2>1, <2>5, <2>7, <2>8, ExtendSound
    <3> QED
      BY <3>1 DEF Extended
  <2>10. OthersKept(r, q, s)
    BY <2>1, <2>5, <2>7, <2>8, ExtendOthers
  <2>11. OthersKept(p, q, s)
    BY <2>6, <2>10 DEF OthersKept
  <2>12. PrivateFrom(q, s, tail)
    BY <2>1, <2>5, <2>7, <2>8, ExtendPrivate
  <2> QED
    BY <2>5, <2>7, <2>9, <2>11, <2>12, <1>2, <1>3 DEF tail, k
<1> QED
  BY <1>4, <1>5

\* Positions may move to wherever the tables reach, and backwards, if the
\* pages that are then behind them are private.
LEMMA MoveAllSound ==
  ASSUME NEW p \in Pool, PoolInv(p), NEW moved \in [Slot -> Nat],
         \A s \in Slot : p.live[s] => PagesFor(moved[s]) <= Len(p.table[s]),
         \A s \in Slot : PrivateFrom(p, s, PagesFor(moved[s]) + 1),
         NEW q, q = [p EXCEPT !.past = moved]
  PROVE  q \in Pool /\ PoolInv(q)
<1>1. /\ q.refs = p.refs /\ q.free = p.free /\ q.live = p.live
      /\ q.table = p.table /\ q.past = moved
  BY DEF Pool
<1>2. q \in Pool
  BY PoolFields DEF Pool
<1>3. \A g : Owners(q, g) = Owners(p, g)
  BY <1>1 DEF Owners, PagesOf
<1>4. RefsCounted(q) /\ FreeCounted(q) /\ TablesDistinct(q)
  BY <1>1, <1>3 DEF PoolInv, RefsCounted, FreeCounted, TablesDistinct
<1>5. TablesCover(q)
  BY <1>1 DEF PoolInv, TablesCover
<1>6. SparePrivate(q)
  <2> SUFFICES ASSUME NEW t \in Slot, NEW i \in DOMAIN q.table[t],
                      i >= PagesFor(q.past[t]) + 1
               PROVE  Owners(q, q.table[t][i]) = {t}
    BY DEF SparePrivate, PrivateFrom
  <2>1. PrivateFrom(p, t, PagesFor(q.past[t]) + 1)
    BY <1>1
  <2>2. Owners(p, p.table[t][i]) = {t}
    BY <2>1, <1>1 DEF PrivateFrom
  <2> QED
    BY <2>2, <1>1, <1>3
<1> QED
  BY <1>2, <1>4, <1>5, <1>6 DEF PoolInv

LEMMA MoveToSound ==
  ASSUME NEW p \in Pool, PoolInv(p), NEW s \in Slot, NEW n \in Nat,
         PagesFor(n) <= Len(p.table[s]),
         PrivateFrom(p, s, PagesFor(n) + 1),
         NEW q, q = MoveTo(p, s, n)
  PROVE  q \in Pool /\ PoolInv(q)
<1> DEFINE moved == [p.past EXCEPT ![s] = n]
<1>1. moved \in [Slot -> Nat] /\ q = [p EXCEPT !.past = moved]
  BY PoolFields DEF MoveTo, Pool
<1>2. \A t \in Slot : moved[t] = IF t = s THEN n ELSE p.past[t]
  BY PoolFields
<1> HIDE DEF moved
<1>3. \A t \in Slot : p.live[t] => PagesFor(moved[t]) <= Len(p.table[t])
  BY <1>2 DEF PoolInv, TablesCover
<1>4. \A t \in Slot : PrivateFrom(p, t, PagesFor(moved[t]) + 1)
  BY <1>2 DEF PoolInv, SparePrivate
<1> QED
  BY <1>1, <1>3, <1>4, MoveAllSound

\* A later first page leaves less to be private.
LEMMA PrivateLater ==
  ASSUME NEW p \in Pool, NEW s \in Slot, NEW m \in Nat, NEW n \in Nat, m <= n,
         PrivateFrom(p, s, m)
  PROVE  PrivateFrom(p, s, n)
<1> SUFFICES ASSUME NEW i \in DOMAIN p.table[s], i >= n
             PROVE  Owners(p, p.table[s][i]) = {s}
  BY DEF PrivateFrom
<1>1. i \in Nat
  BY PagesInPage
<1> QED
  BY <1>1 DEF PrivateFrom

\* Where rows are appended behind n, the page of row n is one of theirs.
LEMMA TailWithin ==
  ASSUME NEW n \in Nat, NEW end \in Nat, n < end
  PROVE  TailIndex(n) <= PagesFor(end)
  BY PageTokensAssumption, Z3 DEF PagesFor, TailIndex

-----------------------------------------------------------------------------
(***************************************************************************)
(* The preflight of forward_batch                                          *)
(***************************************************************************)
\* What preparing s does to the page counts: the pages taken leave the free
\* list, and a shared tail loses one holder.
HasTail(p, s) == TailIndex(p.past[s]) <= Len(p.table[s])
TailPage(p, s) == p.table[s][TailIndex(p.past[s])]

LEMMA TailPageFacts ==
  ASSUME NEW p \in Pool, NEW s \in Slot, HasTail(p, s)
  PROVE  TailPage(p, s) \in Page /\ s \in Owners(p, TailPage(p, s))
<1>1. p.past[s] \in Nat
  BY PoolFields
<1>2. /\ TailIndex(p.past[s]) \in Nat \ {0}
      /\ DOMAIN p.table[s] = 1 .. Len(p.table[s]) /\ Len(p.table[s]) \in Nat
  BY <1>1, PagesForType, PagesInPage
<1>3. TailIndex(p.past[s]) \in DOMAIN p.table[s]
  BY <1>2 DEF HasTail
<1> QED
  BY <1>3, PagesInPage DEF TailPage, Owners

\* Elements that are distinct are as many as their places.
LEMMA ElemsCount ==
  ASSUME NEW k \in Nat, NEW S, NEW new \in Picks(S, k)
  PROVE  IsFiniteSet(Elems(new)) /\ Cardinality(Elems(new)) = k
<1>1. /\ new \in [1 .. k -> S] /\ DOMAIN new = 1 .. k
      /\ \A i, j \in 1 .. k : new[i] = new[j] => i = j
  BY DEF Picks
<1>2. new \in Bijection(1 .. k, Elems(new))
  BY <1>1 DEF Elems, Bijection, Injection, Surjection, IsInjective
<1>3. ExistsBijection(1 .. k, Elems(new))
  BY <1>2 DEF ExistsBijection
<1>4. IsFiniteSet(1 .. k) /\ Cardinality(1 .. k) = k
  BY FS_Interval
<1> QED
  BY <1>3, <1>4, FS_Bijection

\* Pages taken leave the free list.
LEMMA FreeLess ==
  ASSUME NEW S \in SUBSET Page, NEW T \in SUBSET S
  PROVE  /\ IsFiniteSet(S) /\ Cardinality(S) \in Nat
         /\ Cardinality(S \ T) = Cardinality(S) - Cardinality(T)
<1>1. IsFiniteSet(S)
  BY PageAssumption, FS_Subset
<1>2. S \cap T = T
  OBVIOUS
<1>3. Cardinality(S \ T) = Cardinality(S) - Cardinality(S \cap T)
  BY <1>1, FS_Difference
<1> QED
  BY <1>1, <1>2, <1>3, FS_CardinalityType

LEMMA NeedNat ==
  ASSUME NEW p \in Pool, NEW s \in Slot, NEW end \in Nat
  PROVE  Grow(p, s, end) \in Nat /\ Needed(p, s, end) \in Nat
<1>1. PagesFor(end) \in Nat /\ Len(p.table[s]) \in Nat
  BY PagesForType, PagesInPage
<1> QED
  BY <1>1 DEF Grow, Needed

LEMMA PrepareCounts ==
  ASSUME NEW p \in Pool, PoolInv(p), NEW s \in Slot, p.live[s],
         NEW end \in Nat, NEW new \in Picks(p.free, Needed(p, s, end)),
         NEW q, q = Prepare(p, s, end, new)
  PROVE  /\ q.free = p.free \ Elems(new)
         /\ Cardinality(q.free) = Cardinality(p.free) - Needed(p, s, end)
         /\ \A g \in Page \ Elems(new) :
              q.refs[g] = IF Shared(p, s, end) /\ g = TailPage(p, s)
                          THEN p.refs[g] - 1 ELSE p.refs[g]
         /\ \A g \in Elems(new) : g \in Page /\ Owners(p, g) = {}
<1>1. Needed(p, s, end) \in Nat /\ Grow(p, s, end) \in Nat
  BY NeedNat
<1>2. /\ new \in Seq(p.free) /\ Len(new) = Needed(p, s, end)
      /\ DOMAIN new = 1 .. Needed(p, s, end) /\ Elems(new) \subseteq p.free
  BY <1>1, PickFacts
<1>3. IsFiniteSet(Elems(new)) /\ Cardinality(Elems(new)) = Needed(p, s, end)
  BY <1>1, ElemsCount
<1>4. \A g \in Elems(new) : g \in Page /\ Owners(p, g) = {}
  BY <1>2, FreeHasNoOwner
<1>5. Cardinality(p.free \ Elems(new)) = Cardinality(p.free) - Needed(p, s, end)
  <2>1. p.free \in SUBSET Page /\ Elems(new) \in SUBSET p.free
    BY <1>2, PoolFields
  <2> QED
    BY <2>1, <1>3, FreeLess
<1>6. CASE ~Shared(p, s, end)
  <2>1. q = Extend(p, s, new)
    BY <1>6 DEF Prepare
  <2>2. q.free = p.free \ Elems(new)
    BY <2>1 DEF Extend
  <2>3. \A g \in Page \ Elems(new) : q.refs[g] = p.refs[g]
    BY <2>1 DEF Extend
  <2> QED
    BY <2>2, <2>3, <1>4, <1>6, <1>5
<1>7. CASE Shared(p, s, end)
  <2>1. q = Extend(CopyOnWrite(p, s, new), s, Tail(new))
    BY <1>7 DEF Prepare
  <2>2. Needed(p, s, end) = Grow(p, s, end) + 1
    BY <1>1, <1>7 DEF Needed
  <2>3. Elems(new) = {new[1]} \cup Elems(Tail(new)) /\ new[1] \in Elems(new)
    <3>1. new # << >> /\ 1 \in DOMAIN new
      BY <1>1, <1>2, <2>2
    <3>2. /\ Len(Tail(new)) = Len(new) - 1
          /\ \A i \in 1 .. Len(Tail(new)) : Tail(new)[i] = new[i + 1]
          /\ DOMAIN Tail(new) = 1 .. Len(Tail(new))
      BY <1>2, <3>1, HeadTailProperties
    <3>3. PICK r : r = Tail(new)
      OBVIOUS
    <3>4. /\ DOMAIN r = 1 .. Len(new) - 1
          /\ \A i \in 1 .. Len(new) - 1 : r[i] = new[i + 1]
          /\ DOMAIN new = 1 .. Len(new) /\ Len(new) \in Nat
      BY <1>1, <1>2, <3>2, <3>3
    <3>5. \A g : g \in Elems(new) => g \in {new[1]} \cup Elems(r)
      <4> SUFFICES ASSUME NEW i \in DOMAIN new, i # 1
                   PROVE  new[i] \in Elems(r)
        BY DEF Elems
      <4>1. i - 1 \in DOMAIN r /\ i - 1 \in 1 .. Len(new) - 1 /\ (i - 1) + 1 = i
        BY <3>4
      <4>2. r[i - 1] = new[i]
        BY <3>4, <4>1
      <4> QED
        BY <4>1, <4>2 DEF Elems
    <3>6. \A g : g \in Elems(r) => g \in Elems(new)
      <4> SUFFICES ASSUME NEW i \in DOMAIN r PROVE r[i] \in Elems(new)
        BY DEF Elems
      <4>1. r[i] = new[i + 1] /\ i + 1 \in DOMAIN new
        BY <3>4
      <4> QED
        BY <4>1 DEF Elems
    <3>7. new[1] \in Elems(new)
      BY <3>1 DEF Elems
    <3> QED
      BY <3>3, <3>5, <3>6, <3>7
  <2>4. q.free = p.free \ Elems(new)
    BY <2>1, <2>3 DEF Extend, CopyOnWrite
  <2>5. \A g \in Page \ Elems(new) :
          q.refs[g] = IF g = TailPage(p, s) THEN p.refs[g] - 1 ELSE p.refs[g]
    BY <2>1, <2>3 DEF Extend, CopyOnWrite, TailPage
  <2> QED
    BY <2>4, <2>5, <1>4, <1>7, <1>5
<1> QED
  BY <1>6, <1>7

\* The copies that the members of a batch take of page g.
CopiesOf(p, S, g) == IF AppendingTo(p, S, g) = {} THEN 0 ELSE Copies(p, S, g)

\* Those that append to a page hold it, so they are no more than its holders.
LEMMA AppendingFacts ==
  ASSUME NEW p \in Pool, PoolInv(p), NEW S \in SUBSET Slot, NEW g \in Page
  PROVE  /\ AppendingTo(p, S, g) = {s \in S : HasTail(p, s) /\ TailPage(p, s) = g}
         /\ AppendingTo(p, S, g) \subseteq Owners(p, g)
         /\ Cardinality(AppendingTo(p, S, g)) \in Nat
         /\ Cardinality(AppendingTo(p, S, g)) <= p.refs[g]
         /\ CopiesOf(p, S, g) \in Nat
         /\ p.refs[g] \in Nat
<1>1. AppendingTo(p, S, g) = {s \in S : HasTail(p, s) /\ TailPage(p, s) = g}
  BY DEF AppendingTo, HasTail, TailPage
<1>2. AppendingTo(p, S, g) \subseteq Owners(p, g)
  BY <1>1, TailPageFacts
<1>3. Cardinality(AppendingTo(p, S, g)) <= Cardinality(Owners(p, g))
  BY <1>2, OwnersFinite, FS_Subset
<1>4. AppendingTo(p, S, g) \subseteq Slot
  BY <1>1
<1>5. /\ Cardinality(AppendingTo(p, S, g)) \in Nat
      /\ AppendingTo(p, S, g) # {} => Cardinality(AppendingTo(p, S, g)) # 0
  BY <1>4, SlotFinite, NoOwners
<1>6. p.refs[g] = Cardinality(Owners(p, g)) /\ p.refs[g] \in Nat
  BY PoolFields DEF PoolInv, RefsCounted
<1>7. CopiesOf(p, S, g) \in Nat
  BY <1>3, <1>5, <1>6 DEF CopiesOf, Copies
<1> QED
  BY <1>1, <1>2, <1>3, <1>5, <1>6, <1>7

\* The need of a batch as two sums over fixed sets.
LEMMA NeedSums ==
  ASSUME NEW p \in Pool, PoolInv(p), NEW S \in SUBSET Slot, NEW ends \in [S -> Nat]
  PROVE  /\ BatchNeed(p, ends)
              = SumFunctionOnSet([s \in S |-> Grow(p, s, ends[s])], S)
                + SumFunctionOnSet([g \in Page |-> CopiesOf(p, S, g)], Page)
         /\ SumFunctionOnSet([s \in S |-> Grow(p, s, ends[s])], S) \in Nat
         /\ SumFunctionOnSet([g \in Page |-> CopiesOf(p, S, g)], Page) \in Nat
<1> DEFINE grow == [s \in S |-> Grow(p, s, ends[s])]
           copies == [g \in Page |-> Copies(p, S, g)]
           of == [g \in Page |-> CopiesOf(p, S, g)]
           R == {g \in Page : AppendingTo(p, S, g) # {}}
<1>1. IsFiniteSet(S) /\ IsFiniteSet(Page) /\ R \in SUBSET Page /\ IsFiniteSet(R)
  BY SlotFinite, PageAssumption, FS_Subset
<1>2. \A g \in Page : of[g] \in Nat
  BY AppendingFacts
<1>3. \A g \in R : copies[g] = of[g]
  BY DEF CopiesOf
<1>4. \A g \in Page \ R : of[g] = 0
  BY DEF CopiesOf
<1>5. \A s \in S : grow[s] \in Nat
  <2> SUFFICES ASSUME NEW s \in S PROVE Grow(p, s, ends[s]) \in Nat
    OBVIOUS
  <2>1. s \in Slot /\ ends[s] \in Nat
    OBVIOUS
  <2> QED
    BY <2>1, NeedNat
<1>6. BatchNeed(p, ends) = SumFunctionOnSet(grow, S) + SumFunctionOnSet(copies, R)
  BY DEF BatchNeed
<1> HIDE DEF grow, copies, of, R
<1>7. \A g \in R : copies[g] = of[g] /\ copies[g] \in Int
  BY <1>1, <1>2, <1>3
<1>8. SumFunctionOnSet(copies, R) = SumFunctionOnSet(of, R)
  BY <1>1, <1>7, SumSame
<1>9. SumFunctionOnSet(of, Page) = SumFunctionOnSet(of, R)
  BY <1>1, <1>2, <1>4, SumOutside
<1>10. SumFunctionOnSet(grow, S) \in Nat /\ SumFunctionOnSet(of, Page) \in Nat
  BY <1>1, <1>2, <1>5, SumNat
<1>11. BatchNeed(p, ends) = SumFunctionOnSet(grow, S) + SumFunctionOnSet(of, Page)
  BY <1>6, <1>8, <1>9
<1> QED
  BY <1>10, <1>11 DEF grow, of

LEMMA NeedNatural ==
  ASSUME NEW p \in Pool, PoolInv(p), NEW S \in SUBSET Slot, NEW ends \in [S -> Nat]
  PROVE  BatchNeed(p, ends) \in Nat
<1>1. PICK a : a = SumFunctionOnSet([s \in S |-> Grow(p, s, ends[s])], S)
  OBVIOUS
<1>2. PICK b : b = SumFunctionOnSet([g \in Page |-> CopiesOf(p, S, g)], Page)
  OBVIOUS
<1>3. BatchNeed(p, ends) = a + b /\ a \in Nat /\ b \in Nat
  BY <1>1, <1>2, NeedSums, Zenon
<1> QED
  BY <1>3

\* Taking the last member out of those that append to a page, or one of more.
LEMMA OneCopyLess ==
  ASSUME NEW k \in Nat, NEW r \in Nat, 0 < k, k <= r, r > 1
  PROVE  (IF k < r THEN k ELSE r - 1)
         = 1 + (IF k - 1 = 0 THEN 0 ELSE IF k - 1 < r - 1 THEN k - 1 ELSE (r - 1) - 1)
  OBVIOUS

\* Preparing s takes one copy off the page it appends to, if it copies it, and
\* changes the count of no other.
LEMMA PrepareCopies ==
  ASSUME NEW p \in Pool, PoolInv(p), NEW S \in SUBSET Slot, NEW s \in S, p.live[s],
         NEW end \in Nat, end > p.past[s],
         NEW new \in Picks(p.free, Needed(p, s, end)),
         NEW q, q = Prepare(p, s, end, new), NEW g \in Page
  PROVE  CopiesOf(p, S, g)
         = CopiesOf(q, S \ {s}, g)
           + (IF Shared(p, s, end) /\ g = TailPage(p, s) THEN 1 ELSE 0)
<1>1. /\ q \in Pool /\ PoolInv(q) /\ q.past = p.past
      /\ \A t \in Slot \ {s} : q.table[t] = p.table[t]
  BY PrepareSound DEF OthersKept
<1>2. PICK A : A = AppendingTo(p, S, g)
  OBVIOUS
<1>3. PICK B : B = AppendingTo(q, S \ {s}, g)
  OBVIOUS
<1>4. /\ A = {t \in S : HasTail(p, t) /\ TailPage(p, t) = g}
      /\ A \subseteq Owners(p, g) /\ Cardinality(A) \in Nat
      /\ Cardinality(A) <= p.refs[g] /\ p.refs[g] \in Nat
      /\ CopiesOf(p, S, g) = IF A = {} THEN 0
                             ELSE IF Cardinality(A) < p.refs[g] THEN Cardinality(A)
                             ELSE p.refs[g] - 1
  BY <1>2, AppendingFacts DEF CopiesOf, Copies
<1>5. /\ B = {t \in S \ {s} : HasTail(q, t) /\ TailPage(q, t) = g}
      /\ Cardinality(B) \in Nat
      /\ CopiesOf(q, S \ {s}, g) \in Nat
      /\ CopiesOf(q, S \ {s}, g) = IF B = {} THEN 0
                             ELSE IF Cardinality(B) < q.refs[g] THEN Cardinality(B)
                             ELSE q.refs[g] - 1
  <2>1. PICK R : R = S \ {s}
    OBVIOUS
  <2>2. R \in SUBSET Slot /\ B = AppendingTo(q, R, g)
    BY <1>3, <2>1
  <2>3. /\ B = {t \in R : HasTail(q, t) /\ TailPage(q, t) = g}
        /\ Cardinality(B) \in Nat
        /\ CopiesOf(q, R, g) \in Nat
    BY <1>1, <2>2, AppendingFacts
  <2>4. CopiesOf(q, R, g) = IF B = {} THEN 0
                            ELSE IF Cardinality(B) < q.refs[g] THEN Cardinality(B)
                            ELSE q.refs[g] - 1
    BY <2>2 DEF CopiesOf, Copies
  <2> QED
    BY <2>1, <2>3, <2>4
<1>6. B = A \ {s}
  <2>1. \A t \in S \ {s} : /\ HasTail(q, t) <=> HasTail(p, t)
                          /\ TailPage(q, t) = TailPage(p, t)
    BY <1>1 DEF HasTail, TailPage
  <2>2. \A t \in S \ {s} : t \in B <=> t \in A
    BY <1>4, <1>5, <2>1
  <2>3. B \subseteq S \ {s} /\ A \subseteq S
    BY <1>4, <1>5
  <2> QED
    BY <2>2, <2>3
<1>7. g \in Elems(new) => Owners(p, g) = {}
  BY PrepareCounts
<1>8. g \notin Elems(new) =>
        q.refs[g] = IF Shared(p, s, end) /\ g = TailPage(p, s)
                    THEN p.refs[g] - 1 ELSE p.refs[g]
  BY PrepareCounts
<1>9. Shared(p, s, end) <=> HasTail(p, s) /\ p.refs[TailPage(p, s)] > 1
  BY DEF Shared, HasTail, TailPage
<1>10. A \subseteq Slot /\ B \subseteq Slot
  BY <1>4, <1>6
<1>11. CASE s \notin A
  <2>1. B = A
    BY <1>6, <1>11
  <2>2. ~(Shared(p, s, end) /\ g = TailPage(p, s))
    BY <1>4, <1>9, <1>11
  <2>3. CASE A = {}
    BY <1>4, <1>5, <2>1, <2>2, <2>3
  <2>4. CASE A # {}
    <3>1. g \notin Elems(new)
      BY <1>4, <1>7, <2>4
    <3>2. q.refs[g] = p.refs[g]
      BY <1>8, <2>2, <3>1
    <3>3. CopiesOf(p, S, g) = CopiesOf(q, S \ {s}, g)
      BY <1>4, <1>5, <2>1, <3>2
    <3> QED
      BY <1>5, <2>2, <3>3
  <2> QED
    BY <2>3, <2>4
<1>12. CASE s \in A
  <2>1. HasTail(p, s) /\ g = TailPage(p, s) /\ s \in Owners(p, g)
    BY <1>4, <1>12
  <2>2. g \notin Elems(new)
    BY <1>7, <2>1
  <2>3. Cardinality(B) = Cardinality(A) - 1 /\ Cardinality(A) > 0
    BY <1>6, <1>10, <1>12, CountLess
  <2>4. B = {} <=> Cardinality(A) - 1 = 0
    <3>1. B = {} => Cardinality(B) = 0
      BY FS_EmptySet
    <3>2. Cardinality(B) = 0 => B = {}
      BY <1>10, NoOwners
    <3> QED
      BY <2>3, <3>1, <3>2
  <2>5. CASE Shared(p, s, end)
    <3>1. p.refs[g] > 1 /\ q.refs[g] = p.refs[g] - 1
      BY <1>8, <1>9, <2>1, <2>2, <2>5
    <3>2. CopiesOf(p, S, g) = IF Cardinality(A) < p.refs[g] THEN Cardinality(A)
                              ELSE p.refs[g] - 1
      BY <1>4, <1>12
    <3>3. CopiesOf(q, S \ {s}, g)
          = IF Cardinality(A) - 1 = 0 THEN 0
            ELSE IF Cardinality(A) - 1 < p.refs[g] - 1 THEN Cardinality(A) - 1
            ELSE (p.refs[g] - 1) - 1
      BY <1>5, <2>3, <2>4, <3>1
    <3>4. CopiesOf(p, S, g) = 1 + CopiesOf(q, S \ {s}, g)
      BY <1>4, <2>3, <3>1, <3>2, <3>3, OneCopyLess
    <3> QED
      BY <1>5, <2>1, <2>5, <3>4
  <2>6. CASE ~Shared(p, s, end)
    <3>1. ~(p.refs[g] > 1)
      BY <1>9, <2>1, <2>6
    <3>2. Cardinality(A) = 1 /\ p.refs[g] = 1
      BY <1>4, <2>3, <3>1
    <3>3. CopiesOf(p, S, g) = 0
      BY <1>4, <3>2
    <3>4. B = {}
      BY <2>4, <3>2
    <3>5. CopiesOf(q, S \ {s}, g) = 0
      BY <1>5, <3>4
    <3> QED
      BY <2>6, <3>3, <3>5
  <2> QED
    BY <2>5, <2>6
<1> QED
  BY <1>11, <1>12

\* What preparing one member takes is what it takes off the need of the batch.
LEMMA PrepareNeed ==
  ASSUME NEW p \in Pool, PoolInv(p), NEW S \in SUBSET Slot, NEW ends \in [S -> Nat],
         NEW s \in S, p.live[s], ends[s] > p.past[s],
         NEW new \in Picks(p.free, Needed(p, s, ends[s])),
         NEW q, q = Prepare(p, s, ends[s], new)
  PROVE  BatchNeed(p, ends)
         = Needed(p, s, ends[s]) + BatchNeed(q, [t \in S \ {s} |-> ends[t]])
<1> DEFINE R == S \ {s}
           rest == [t \in R |-> ends[t]]
           grow == [t \in S |-> Grow(p, t, ends[t])]
           growR == [t \in R |-> Grow(q, t, rest[t])]
           copies == [g \in Page |-> CopiesOf(p, S, g)]
           copiesR == [g \in Page |-> CopiesOf(q, R, g)]
           one == IF Shared(p, s, ends[s]) THEN 1 ELSE 0
<1>0. ends[s] \in Nat /\ s \in Slot /\ R \in SUBSET Slot /\ rest \in [R -> Nat]
  OBVIOUS
<1>1. /\ q \in Pool /\ PoolInv(q) /\ q.past = p.past
      /\ \A t \in Slot \ {s} : q.table[t] = p.table[t]
  BY <1>0, PrepareSound DEF OthersKept
<1>2. /\ BatchNeed(p, ends) = SumFunctionOnSet(grow, S) + SumFunctionOnSet(copies, Page)
      /\ SumFunctionOnSet(grow, S) \in Nat /\ SumFunctionOnSet(copies, Page) \in Nat
  BY NeedSums
<1>3. /\ BatchNeed(q, rest) = SumFunctionOnSet(growR, R) + SumFunctionOnSet(copiesR, Page)
      /\ SumFunctionOnSet(growR, R) \in Nat /\ SumFunctionOnSet(copiesR, Page) \in Nat
  <2> HIDE DEF R, rest
  <2> QED
    BY <1>0, <1>1, NeedSums
<1>4. SumFunctionOnSet(grow, S) = Grow(p, s, ends[s]) + SumFunctionOnSet(growR, R)
  <2>1. \A t \in S : grow[t] \in Int /\ Grow(p, t, ends[t]) \in Nat
    <3> SUFFICES ASSUME NEW t \in S PROVE Grow(p, t, ends[t]) \in Nat
      OBVIOUS
    <3>1. t \in Slot /\ ends[t] \in Nat
      OBVIOUS
    <3> QED
      BY <3>1, NeedNat
  <2>2. \A t \in R : grow[t] = growR[t] /\ grow[t] \in Int
    <3> SUFFICES ASSUME NEW t \in R
                 PROVE  Grow(p, t, ends[t]) = Grow(q, t, ends[t])
      BY <2>1
    <3> QED
      BY <1>1 DEF Grow
  <2>3. grow[s] = Grow(p, s, ends[s])
    OBVIOUS
  <2>4. IsFiniteSet(S) /\ IsFiniteSet(R)
    BY SlotFinite
  <2>5. SumFunctionOnSet(grow, R) = SumFunctionOnSet(growR, R)
    <3> HIDE DEF grow, growR, R
    <3> QED
      BY <2>2, <2>4, SumSame
  <2>6. SumFunctionOnSet(grow, S) = grow[s] + SumFunctionOnSet(grow, S \ {s})
    <3> HIDE DEF grow
    <3> QED
      BY <2>1, <2>4, SumRemove
  <2> QED
    BY <2>3, <2>5, <2>6
<1>5. \A g \in Page : /\ copies[g] \in Nat /\ copiesR[g] \in Nat
                      /\ copies[g] = copiesR[g] +
                           (IF Shared(p, s, ends[s]) /\ g = TailPage(p, s) THEN 1 ELSE 0)
  <2> SUFFICES ASSUME NEW g \in Page
               PROVE  /\ CopiesOf(p, S, g) \in Nat /\ CopiesOf(q, R, g) \in Nat
                      /\ CopiesOf(p, S, g) = CopiesOf(q, R, g) +
                           (IF Shared(p, s, ends[s]) /\ g = TailPage(p, s) THEN 1 ELSE 0)
    OBVIOUS
  <2>1. CopiesOf(p, S, g) \in Nat /\ CopiesOf(q, R, g) \in Nat
    BY <1>0, <1>1, AppendingFacts
  <2>2. CopiesOf(p, S, g) = CopiesOf(q, R, g) +
          (IF Shared(p, s, ends[s]) /\ g = TailPage(p, s) THEN 1 ELSE 0)
    BY <1>0, PrepareCopies
  <2> QED
    BY <2>1, <2>2
<1>6. SumFunctionOnSet(copies, Page) = one + SumFunctionOnSet(copiesR, Page)
  <2> HIDE DEF copies, copiesR
  <2>1. CASE ~Shared(p, s, ends[s])
    <3>1. \A g \in Page : copies[g] = copiesR[g] /\ copies[g] \in Int
      BY <1>5, <2>1
    <3>2. SumFunctionOnSet(copies, Page) = SumFunctionOnSet(copiesR, Page)
      BY <3>1, PageAssumption, SumSame
    <3> QED
      BY <1>3, <2>1, <3>2
  <2>2. CASE Shared(p, s, ends[s])
    <3>1. PICK x \in Page : x = TailPage(p, s)
      BY <1>0, <2>2, TailPageFacts DEF Shared, HasTail, TailPage
    <3>2. /\ \A g \in Page : copies[g] \in Int /\ copiesR[g] \in Int
          /\ \A g \in Page : g # x => copiesR[g] = copies[g]
          /\ copies[x] = copiesR[x] + 1
      BY <1>5, <2>2, <3>1
    <3>3. SumFunctionOnSet(copies, Page) - copies[x] = SumFunctionOnSet(copiesR, Page) - copiesR[x]
      BY <3>2, PageAssumption, SumChange
    <3>4. copies[x] \in Int /\ copiesR[x] \in Int
      BY <3>1, <3>2
    <3> QED
      BY <1>2, <1>3, <2>2, <3>2, <3>3, <3>4
  <2> QED
    BY <2>1, <2>2
<1>7. Needed(p, s, ends[s]) = Grow(p, s, ends[s]) + one
  BY DEF Needed
<1>8. Grow(p, s, ends[s]) \in Nat /\ one \in Nat
  BY <1>0, NeedNat
<1> HIDE DEF grow, growR, copies, copiesR, one, R, rest
<1>9. BatchNeed(p, ends) = Needed(p, s, ends[s]) + BatchNeed(q, rest)
  BY <1>2, <1>3, <1>4, <1>6, <1>7, <1>8
<1> QED
  BY <1>9 DEF rest, R

\* No member needs more than the batch.
LEMMA NeedWithin ==
  ASSUME NEW p \in Pool, PoolInv(p), NEW S \in SUBSET Slot, NEW ends \in [S -> Nat],
         NEW s \in S
  PROVE  Needed(p, s, ends[s]) <= BatchNeed(p, ends)
<1> DEFINE grow == [t \in S |-> Grow(p, t, ends[t])]
           copies == [g \in Page |-> CopiesOf(p, S, g)]
<1>1. \A t \in S : grow[t] \in Nat
  <2> SUFFICES ASSUME NEW t \in S PROVE Grow(p, t, ends[t]) \in Nat
    OBVIOUS
  <2>1. t \in Slot /\ ends[t] \in Nat
    OBVIOUS
  <2> QED
    BY <2>1, NeedNat
<1>2. \A g \in Page : copies[g] \in Nat
  BY AppendingFacts
<1>3. /\ BatchNeed(p, ends) = SumFunctionOnSet(grow, S) + SumFunctionOnSet(copies, Page)
      /\ SumFunctionOnSet(grow, S) \in Nat /\ SumFunctionOnSet(copies, Page) \in Nat
  BY NeedSums
<1>4. grow[s] = Grow(p, s, ends[s])
  OBVIOUS
<1>5. ASSUME Shared(p, s, ends[s])
      PROVE  \E g \in Page : copies[g] >= 1
  <2>1. HasTail(p, s) /\ p.refs[TailPage(p, s)] > 1
    BY <1>5 DEF Shared, HasTail, TailPage
  <2>2. PICK g \in Page : g = TailPage(p, s)
    BY <2>1, TailPageFacts
  <2>3. s \in AppendingTo(p, S, g)
    BY <2>1, <2>2, AppendingFacts
  <2>4. AppendingTo(p, S, g) \subseteq Slot
    BY AppendingFacts
  <2>5. Cardinality(AppendingTo(p, S, g)) > 0
    BY <2>3, <2>4, CountLess
  <2>6. CopiesOf(p, S, g) >= 1
    BY <2>1, <2>2, <2>3, <2>5, AppendingFacts DEF CopiesOf, Copies
  <2> QED
    BY <2>6
<1> HIDE DEF grow, copies
<1>6. grow[s] <= SumFunctionOnSet(grow, S)
  BY <1>1, SlotFinite, SumAtLeast
<1>7. \A g \in Page : copies[g] <= SumFunctionOnSet(copies, Page)
  BY <1>2, PageAssumption, SumAtLeast
<1>8. CASE Shared(p, s, ends[s])
  <2>1. SumFunctionOnSet(copies, Page) >= 1
    BY <1>2, <1>3, <1>5, <1>7, <1>8
  <2> QED
    BY <1>1, <1>3, <1>4, <1>6, <1>8, <2>1 DEF Needed
<1>9. CASE ~Shared(p, s, ends[s])
  BY <1>1, <1>3, <1>4, <1>6, <1>9 DEF Needed
<1> QED
  BY <1>8, <1>9

-----------------------------------------------------------------------------
(***************************************************************************)
(* What the scheduler adds                                                 *)
(***************************************************************************)
\* The holders of a page that are not among S.
LEMMA HoldersLeft ==
  ASSUME NEW p \in Pool, PoolInv(p), NEW g \in Page, NEW S
  PROVE  /\ Cardinality(Owners(p, g) \cap S) \in Nat
         /\ p.refs[g] \in Nat
         /\ p.refs[g] - Cardinality(Owners(p, g) \cap S) \in Nat
         /\ Cardinality(Owners(p, g) \ S)
              = p.refs[g] - Cardinality(Owners(p, g) \cap S)
<1>1. PICK A : A = Owners(p, g) \cap S
  OBVIOUS
<1>2. PICK B : B = Owners(p, g) \ S
  OBVIOUS
<1>3. IsFiniteSet(A) /\ IsFiniteSet(B) /\ Cardinality(A) \in Nat /\ Cardinality(B) \in Nat
  BY <1>1, <1>2, OwnersFinite, SlotFinite
<1>4. A \cup B = Owners(p, g) /\ A \cap B = {}
  BY <1>1, <1>2
<1>5. Cardinality(Owners(p, g)) = Cardinality(A) + Cardinality(B)
  BY <1>3, <1>4, FS_Union, FS_EmptySet
<1>6. p.refs[g] = Cardinality(Owners(p, g))
  BY DEF PoolInv, RefsCounted
<1> QED
  BY <1>1, <1>2, <1>3, <1>5, <1>6

LEMMA ReleaseAllSound ==
  ASSUME NEW p \in Pool, PoolInv(p), NEW S, NEW q, q = ReleaseAll(p, S)
  PROVE  q \in Pool /\ PoolInv(q)
<1> DEFINE Gone(g) == Cardinality(Owners(p, g) \cap S)
<1>1. /\ q.refs = [g \in Page |-> p.refs[g] - Gone(g)]
      /\ q.free = p.free \cup {g \in Page : p.refs[g] > 0 /\ p.refs[g] = Gone(g)}
      /\ q.live = [s \in Slot |-> p.live[s] /\ s \notin S]
      /\ q.table = [s \in Slot |-> IF s \in S THEN << >> ELSE p.table[s]]
      /\ q.past = p.past
  BY DEF ReleaseAll
<1>2. \A g \in Page : /\ Gone(g) \in Nat /\ p.refs[g] - Gone(g) \in Nat
                      /\ p.refs[g] \in Nat
                      /\ Cardinality(Owners(p, g) \ S) = p.refs[g] - Gone(g)
  BY HoldersLeft
<1>3. q \in Pool
  <2>1. q.refs \in [Page -> Nat]
    BY <1>1, <1>2
  <2>2. /\ q.free \in SUBSET Page /\ q.live \in [Slot -> BOOLEAN]
        /\ q.past \in [Slot -> Nat]
    BY <1>1, PoolFields
  <2>3. q.table \in [Slot -> Seq(Page)]
    BY <1>1, PoolFields
  <2> QED
    BY <2>1, <2>2, <2>3 DEF ReleaseAll, Pool
<1> HIDE DEF Gone
<1>4. \A g : Owners(q, g) = Owners(p, g) \ S
  BY <1>1 DEF Owners, PagesOf, Elems
<1>5. RefsCounted(q)
  BY <1>1, <1>2, <1>4 DEF RefsCounted
<1>6. FreeCounted(q)
  <2>1. \A g \in Page : g \in p.free <=> p.refs[g] = 0
    BY DEF PoolInv, FreeCounted
  <2>2. ASSUME NEW g \in Page PROVE g \in q.free <=> q.refs[g] = 0
    <3>1. PICK n : n = Gone(g)
      OBVIOUS
    <3>2. n \in Nat /\ p.refs[g] \in Nat /\ p.refs[g] - n \in Nat
      BY <1>2, <3>1
    <3>3. /\ q.refs[g] = p.refs[g] - n
          /\ g \in q.free <=> g \in p.free \/ (p.refs[g] > 0 /\ p.refs[g] = n)
      BY <1>1, <3>1
    <3> QED
      BY <2>1, <3>2, <3>3
  <2>3. \A g \in Page : g \in q.free <=> q.refs[g] = 0
    BY <2>2
  <2> QED
    BY <2>3, <1>3, PoolFields DEF FreeCounted
<1>7. TablesDistinct(q)
  BY <1>1 DEF PoolInv, TablesDistinct
<1>8. TablesCover(q)
  BY <1>1 DEF PoolInv, TablesCover
<1>9. SparePrivate(q)
  <2> SUFFICES ASSUME NEW t \in Slot, NEW i \in DOMAIN q.table[t],
                      i >= PagesFor(q.past[t]) + 1
               PROVE  Owners(q, q.table[t][i]) = {t}
    BY DEF SparePrivate, PrivateFrom
  <2>1. t \notin S /\ q.table[t] = p.table[t]
    BY <1>1
  <2>2. Owners(p, p.table[t][i]) = {t}
    BY <2>1, <1>1 DEF PoolInv, SparePrivate, PrivateFrom
  <2> QED
    BY <2>1, <2>2, <1>4
<1> QED
  BY <1>3, <1>5, <1>6, <1>7, <1>8, <1>9 DEF PoolInv

\* ReleaseAll is what releasing the sequences of S one after the other does.
LEMMA ReleaseAllStep ==
  ASSUME NEW p \in Pool, PoolInv(p), NEW S \in SUBSET Slot, NEW s \in Slot \ S
  PROVE  Release(ReleaseAll(p, S), s) = ReleaseAll(p, S \cup {s})
<1>1. PICK q : q = ReleaseAll(p, S)
  OBVIOUS
<1>2. PICK T : T = S \cup {s}
  OBVIOUS
<1> DEFINE Gone(g) == Cardinality(Owners(p, g) \cap S)
           All(g) == Cardinality(Owners(p, g) \cap T)
<1>3. /\ q.refs = [g \in Page |-> p.refs[g] - Gone(g)]
      /\ q.free = p.free \cup {g \in Page : p.refs[g] > 0 /\ p.refs[g] = Gone(g)}
      /\ q.live = [t \in Slot |-> p.live[t] /\ t \notin S]
      /\ q.table = [t \in Slot |-> IF t \in S THEN << >> ELSE p.table[t]]
      /\ q.past = p.past
  BY <1>1 DEF ReleaseAll
<1>4. \A g \in Page : Gone(g) \in Nat /\ p.refs[g] \in Nat /\ p.refs[g] - All(g) \in Nat
  BY HoldersLeft
<1>5. PagesOf(q, s) = PagesOf(p, s) /\ PagesOf(p, s) \subseteq Page
  BY <1>3, PagesInPage DEF PagesOf
<1>6. \A g \in Page : All(g) = IF g \in PagesOf(p, s) THEN Gone(g) + 1 ELSE Gone(g)
  <2> SUFFICES ASSUME NEW g \in Page
               PROVE  All(g) = IF g \in PagesOf(p, s) THEN Gone(g) + 1 ELSE Gone(g)
    OBVIOUS
  <2>1. PICK A : A = Owners(p, g) \cap S
    OBVIOUS
  <2>2. CASE g \in PagesOf(p, s)
    <3>1. Owners(p, g) \cap T = A \cup {s}
      BY <1>2, <2>1, <2>2 DEF Owners
    <3>2. A \subseteq Slot /\ s \in Slot \ A
      BY <2>1 DEF Owners
    <3> QED
      BY <2>1, <2>2, <3>1, <3>2, CountMore
  <2>3. CASE g \notin PagesOf(p, s)
    <3>1. Owners(p, g) \cap T = A
      BY <1>2, <2>1, <2>3 DEF Owners
    <3> QED
      BY <2>1, <2>3, <3>1
  <2> QED
    BY <2>2, <2>3
<1>7. ReleaseAll(p, T) =
        [refs  |-> [g \in Page |-> p.refs[g] - All(g)],
         free  |-> p.free \cup {g \in Page : p.refs[g] > 0 /\ p.refs[g] = All(g)},
         live  |-> [t \in Slot |-> p.live[t] /\ t \notin T],
         table |-> [t \in Slot |-> IF t \in T THEN << >> ELSE p.table[t]],
         past  |-> p.past]
  BY DEF ReleaseAll
<1> HIDE DEF Gone, All
<1>8. [g \in Page |-> IF g \in PagesOf(q, s) THEN q.refs[g] - 1 ELSE q.refs[g]]
        = [g \in Page |-> p.refs[g] - All(g)]
  BY <1>3, <1>4, <1>5, <1>6
<1>9. q.free \cup {g \in PagesOf(q, s) : q.refs[g] = 1}
        = p.free \cup {g \in Page : p.refs[g] > 0 /\ p.refs[g] = All(g)}
  <2>1. \A g \in Page : g \in p.free <=> p.refs[g] = 0
    BY DEF PoolInv, FreeCounted
  <2>2. ASSUME NEW g \in Page
        PROVE  (g \in p.free \/ (p.refs[g] > 0 /\ p.refs[g] = All(g)))
               <=> (g \in q.free \/ (g \in PagesOf(q, s) /\ q.refs[g] = 1))
    <3>1. PICK n : n = Gone(g)
      OBVIOUS
    <3>2. PICK k : k = All(g)
      OBVIOUS
    <3>3. k = IF g \in PagesOf(q, s) THEN n + 1 ELSE n
      BY <1>5, <1>6, <3>1, <3>2
    <3>4. /\ q.refs[g] = p.refs[g] - n
          /\ g \in q.free <=> g \in p.free \/ (p.refs[g] > 0 /\ p.refs[g] = n)
      BY <1>3, <3>1
    <3>5. p.refs[g] - k \in Nat /\ p.refs[g] \in Nat /\ n \in Nat
      BY <1>4, <3>1, <3>2
    <3>6. k \in Nat
      BY <3>3, <3>5
    <3>7. (p.refs[g] > 0 /\ p.refs[g] = k) \/ p.refs[g] = 0
          <=> (p.refs[g] = 0 \/ (p.refs[g] > 0 /\ p.refs[g] = n))
              \/ (g \in PagesOf(q, s) /\ p.refs[g] - n = 1)
      BY <3>3, <3>5, <3>6
    <3> QED
      BY <2>1, <3>2, <3>4, <3>7
  <2> QED
    BY <1>3, <1>5, <2>2, PoolFields
<1>10. [q.live EXCEPT ![s] = FALSE] = [t \in Slot |-> p.live[t] /\ t \notin T]
  <2>1. \A t \in Slot : p.live[t] \in BOOLEAN
    BY PoolFields
  <2> QED
    BY <1>2, <1>3, <2>1
<1>11. [q.table EXCEPT ![s] = << >>] = [t \in Slot |-> IF t \in T THEN << >> ELSE p.table[t]]
  BY <1>2, <1>3
<1> QED
  BY <1>1, <1>2, <1>3, <1>7, <1>8, <1>9, <1>10, <1>11 DEF Release

\* There are so many distinct pages in a set that has as many.
LEMMA PicksExist ==
  ASSUME NEW S, IsFiniteSet(S), NEW k \in Nat, k <= Cardinality(S)
  PROVE  Picks(S, k) # {}
<1>1. Cardinality(S) \in Nat /\ ExistsBijection(1 .. Cardinality(S), S)
  BY FS_CardinalityType
<1>2. PICK f \in Bijection(1 .. Cardinality(S), S) : TRUE
  BY <1>1 DEF ExistsBijection
<1>3. /\ f \in [1 .. Cardinality(S) -> S]
      /\ \A i, j \in 1 .. Cardinality(S) : f[i] = f[j] => i = j
  BY <1>2 DEF Bijection, Injection, IsInjective
<1> DEFINE h == [i \in 1 .. k |-> f[i]]
<1>4. h \in [1 .. k -> S] /\ \A i, j \in 1 .. k : h[i] = h[j] => i = j
  BY <1>1, <1>3
<1> QED
  BY <1>4 DEF Picks

\* Preparing a sequence keeps its rows: only the page of the next row may change.
LEMMA PrepareKeeps ==
  ASSUME NEW p \in Pool, PoolInv(p), NEW s \in Slot, p.live[s],
         NEW end \in Nat, NEW new \in Picks(p.free, Needed(p, s, end)),
         NEW q, q = Prepare(p, s, end, new)
  PROVE  \A i \in DOMAIN p.table[s] :
           i # TailIndex(p.past[s]) => i \in DOMAIN q.table[s] /\ q.table[s][i] = p.table[s][i]
<1>1. p.table \in [Slot -> Seq(Page)] /\ p.free \subseteq Page /\ Needed(p, s, end) \in Nat
  BY PoolFields, NeedNat
<1>2. PICK old \in Seq(Page) : old = p.table[s]
  BY <1>1
<1>3. new \in Seq(Page) /\ Len(new) = Needed(p, s, end)
  <2>1. new \in Seq(p.free) /\ Len(new) = Needed(p, s, end)
    BY <1>1, PickFacts
  <2> QED
    BY <1>1, <2>1
<1>4. ASSUME NEW a \in Seq(Page), NEW b \in Seq(Page), NEW c, c = a \o b,
             NEW i \in DOMAIN a
      PROVE  i \in DOMAIN c /\ c[i] = a[i]
  BY <1>4
<1>5. CASE ~Shared(p, s, end)
  <2>1. q.table = [p.table EXCEPT ![s] = @ \o new]
    BY <1>5 DEF Prepare, Extend
  <2>2. q.table[s] = old \o new
    BY <1>1, <1>2, <2>1
  <2> QED
    BY <1>2, <1>3, <1>4, <2>2
<1>6. CASE Shared(p, s, end)
  <2>1. PICK r : r = CopyOnWrite(p, s, new)
    OBVIOUS
  <2>2. PICK tail : tail = TailIndex(p.past[s])
    OBVIOUS
  <2>3. r.table = [p.table EXCEPT ![s] = [@ EXCEPT ![tail] = new[1]]]
    BY <2>1, <2>2 DEF CopyOnWrite
  <2>4. PICK a : a = [old EXCEPT ![tail] = new[1]]
    OBVIOUS
  <2>5. r.table[s] = a /\ r.table \in [Slot -> {r.table[t] : t \in Slot}]
    BY <1>1, <1>2, <2>3, <2>4
  <2>6. Needed(p, s, end) > 0
    <3>1. Grow(p, s, end) \in Nat
      BY NeedNat
    <3> QED
      BY <1>6, <3>1 DEF Needed
  <2>7. new[1] \in Page /\ new # << >>
    BY <1>1, <1>3, <2>6
  <2>8. a \in Seq(Page) /\ DOMAIN a = DOMAIN old /\ \A i \in DOMAIN old : i # tail => a[i] = old[i]
    <3>1. PICK v \in Page : v = new[1]
      BY <2>7
    <3>2. a = [old EXCEPT ![tail] = v]
      BY <2>4, <3>1
    <3>6. old \in [1 .. Len(old) -> Page] /\ DOMAIN old = 1 .. Len(old) /\ Len(old) \in Nat
      OBVIOUS
    <3>3. a \in [1 .. Len(old) -> Page] /\ DOMAIN a = DOMAIN old /\ Len(old) \in Nat
      BY <3>2, <3>6
    <3>4. \A i \in DOMAIN old : i # tail => a[i] = old[i]
      BY <3>2
    <3>5. a \in Seq(Page)
      BY <3>3, SeqDef
    <3> QED
      BY <3>3, <3>4, <3>5
  <2>9. PICK b \in Seq(Page) : b = Tail(new)
    BY <1>3, <2>7, HeadTailProperties
  <2>10. q.table = [r.table EXCEPT ![s] = @ \o b]
    BY <1>6, <2>1, <2>9 DEF Prepare, Extend
  <2>11. q.table[s] = a \o b
    BY <2>5, <2>10
  <2> QED
    BY <1>2, <1>4, <2>2, <2>8, <2>11
<1> QED
  BY <1>5, <1>6

\* A sum of rows takes the full pages of the first part and the pages of the rest.
LEMMA PagesForSum ==
  ASSUME NEW m \in Nat, NEW n \in Nat
  PROVE  /\ m \div PageTokens \in Nat /\ m % PageTokens \in Nat
         /\ PagesFor(m + n) = m \div PageTokens + PagesFor((m % PageTokens) + n)
<1>1. PICK t \in Nat \ {0} : t = PageTokens
  BY PageTokensAssumption
<1>2. PICK a \in Nat, r \in Nat : a = m \div t /\ r = m % t /\ m = t * a + r
  BY <1>1, Z3
<1>3. (t * a + (r + n + t - 1)) \div t = a + (r + n + t - 1) \div t
  BY <1>1, <1>2, Z3
<1>4. m + n + t - 1 = t * a + (r + n + t - 1)
  BY <1>1, <1>2, Z3
<1> QED
  BY <1>1, <1>2, <1>3, <1>4 DEF PagesFor

LEMMA FullPagesWithin ==
  ASSUME NEW m \in Nat, NEW n \in Nat, m <= n
  PROVE  m \div PageTokens < TailIndex(n) /\ m \div PageTokens <= PagesFor(n)
  BY PageTokensAssumption, Z3 DEF PagesFor, TailIndex

\* The pages of a table behind the first n.
LEMMA PagesBehind ==
  ASSUME NEW p \in Pool, NEW s \in Slot, NEW n \in Nat, n <= Len(p.table[s]),
         NEW S, \A k \in 1 .. n : p.table[s][k] \in S
  PROVE  /\ IsFiniteSet(PagesOf(p, s) \ S)
         /\ Cardinality(PagesOf(p, s) \ S) <= Len(p.table[s]) - n
<1>1. PICK l \in Nat, tab \in Seq(Page) : l = Len(p.table[s]) /\ tab = p.table[s]
  BY PagesInPage, PoolFields
<1>2. PICK T : T = {tab[k] : k \in n + 1 .. l}
  OBVIOUS
<1>3. PICK f : f = [k \in n + 1 .. l |-> tab[k]]
  OBVIOUS
<1>4. f \in Surjection(n + 1 .. l, T)
  BY <1>2, <1>3 DEF Surjection
<1>5. IsFiniteSet(n + 1 .. l) /\ Cardinality(n + 1 .. l) <= l - n
  <2>1. /\ IsFiniteSet(n + 1 .. l)
        /\ Cardinality(n + 1 .. l) = IF n + 1 > l THEN 0 ELSE l - (n + 1) + 1
    <3>1. n + 1 \in Int /\ l \in Int
      BY <1>1
    <3> QED
      BY <3>1, FS_Interval
  <2> QED
    BY <1>1, <2>1
<1>6. IsFiniteSet(T) /\ Cardinality(T) <= Cardinality(n + 1 .. l)
  BY <1>4, <1>5, FS_Surjection
<1>7. PagesOf(p, s) \ S \in SUBSET T
  BY <1>1, <1>2 DEF PagesOf, Elems
<1>8. IsFiniteSet(PagesOf(p, s) \ S) /\ Cardinality(PagesOf(p, s) \ S) <= Cardinality(T)
  BY <1>6, <1>7, FS_Subset
<1>9. Cardinality(T) \in Nat /\ Cardinality(n + 1 .. l) \in Nat
  BY <1>5, <1>6, FS_CardinalityType
<1>10. Cardinality(PagesOf(p, s) \ S) \in Nat
  BY <1>8, FS_CardinalityType
<1> QED
  BY <1>1, <1>5, <1>6, <1>8, <1>9, <1>10

\* The first n pages of a table.
LEMMA PagesBefore ==
  ASSUME NEW p \in Pool, NEW s \in Slot, NEW n \in Nat,
         NEW S, \A x \in S : \E k \in 1 .. n : x = p.table[s][k]
  PROVE  IsFiniteSet(S) /\ Cardinality(S) <= n
<1>1. PICK tab : tab = p.table[s]
  OBVIOUS
<1>2. PICK T : T = {tab[k] : k \in 1 .. n}
  OBVIOUS
<1>3. PICK f : f = [k \in 1 .. n |-> tab[k]]
  OBVIOUS
<1>4. f \in Surjection(1 .. n, T)
  BY <1>2, <1>3 DEF Surjection
<1>5. IsFiniteSet(1 .. n) /\ Cardinality(1 .. n) = n
  <2>1. IsFiniteSet(1 .. n) /\ Cardinality(1 .. n) = IF 1 > n THEN 0 ELSE n - 1 + 1
    BY FS_Interval
  <2> QED
    BY <2>1
<1>6. IsFiniteSet(T) /\ Cardinality(T) <= n
  BY <1>4, <1>5, FS_Surjection
<1>7. S \in SUBSET T
  BY <1>1, <1>2
<1>8. IsFiniteSet(S) /\ Cardinality(S) <= Cardinality(T)
  BY <1>6, <1>7, FS_Subset
<1>9. Cardinality(T) \in Nat /\ Cardinality(S) \in Nat
  BY <1>6, <1>8, FS_CardinalityType
<1> QED
  BY <1>6, <1>8, <1>9
=============================================================================
