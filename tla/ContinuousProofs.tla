-------------------------- MODULE ContinuousProofs --------------------------
(***************************************************************************)
(* What the runs check of Continuous on two and three requests, proved for   *)
(* every number of slots, pages and requests.                               *)
(***************************************************************************)
EXTENDS Continuous, SequencePoolProofs

-----------------------------------------------------------------------------
(***************************************************************************)
(* Sequences                                                               *)
(***************************************************************************)
\* r is the elements of the first n of seq that are in S, at the indices h.
Selects(seq, S, n, r, h) ==
  /\ h \in [1 .. Len(r) -> 1 .. n]
  /\ \A a, b \in 1 .. Len(r) : a < b => h[a] < h[b]
  /\ \A a \in 1 .. Len(r) : r[a] = seq[h[a]] /\ r[a] \in S
  /\ \A i \in 1 .. n : seq[i] \in S => \E a \in 1 .. Len(r) : h[a] = i

\* f is the filter of Only over the first n elements.
OnlyTo(seq, S, n, f) ==
  f = [k \in 0 .. n |-> IF k = 0 THEN << >>
                        ELSE IF seq[k] \in S THEN Append(f[k - 1], seq[k]) ELSE f[k - 1]]

LEMMA OnlyExists ==
  ASSUME NEW seq, NEW S, NEW n \in Nat
  PROVE  \E f : OnlyTo(seq, S, n, f)
<1> DEFINE N == {k \in Nat : \E f : OnlyTo(seq, S, k, f)}
<1>1. 0 \in N
  <2> DEFINE f == [k \in 0 .. 0 |-> << >>]
  <2>1. OnlyTo(seq, S, 0, f)
    BY DEF OnlyTo
  <2> QED
    BY <2>1
<1>2. ASSUME NEW m \in Nat, m \in N PROVE m + 1 \in N
  <2>1. PICK f : OnlyTo(seq, S, m, f)
    BY <1>2
  <2> DEFINE new == IF seq[m + 1] \in S THEN Append(f[m], seq[m + 1]) ELSE f[m]
             g == [k \in 0 .. m + 1 |-> IF k = m + 1 THEN new ELSE f[k]]
  <2>2. \A k \in 0 .. m : g[k] = f[k]
    OBVIOUS
  <2>3. ASSUME NEW k \in 0 .. m + 1
        PROVE  g[k] = IF k = 0 THEN << >>
                      ELSE IF seq[k] \in S THEN Append(g[k - 1], seq[k]) ELSE g[k - 1]
    <3>1. CASE k = m + 1
      <4>1. k - 1 = m /\ m \in 0 .. m /\ k # 0
        BY <3>1
      <4>2. g[k] = new /\ g[k - 1] = f[m]
        BY <3>1, <4>1, <2>2
      <4> QED
        BY <3>1, <4>1, <4>2
    <3>2. CASE k # m + 1
      <4>1. k \in 0 .. m /\ (k # 0 => k - 1 \in 0 .. m)
        BY <3>2
      <4>2. f[k] = IF k = 0 THEN << >>
                   ELSE IF seq[k] \in S THEN Append(f[k - 1], seq[k]) ELSE f[k - 1]
        BY <4>1, <2>1 DEF OnlyTo
      <4> QED
        BY <4>1, <4>2, <2>2
    <3> QED
      BY <3>1, <3>2
  <2>4. g = [k \in 0 .. m + 1 |-> g[k]]
    OBVIOUS
  <2> HIDE DEF g
  <2>5. OnlyTo(seq, S, m + 1, g)
    BY <2>3, <2>4 DEF OnlyTo
  <2> QED
    BY <2>5
<1> HIDE DEF N
<1>3. n \in N
  BY <1>1, <1>2, NatInd
<1> QED
  BY <1>3 DEF N

\* What Only keeps of a sequence.
LEMMA OnlySelects ==
  ASSUME NEW V, NEW seq \in Seq(V), NEW S
  PROVE  /\ Only(seq, S) \in Seq(V)
         /\ \E h : Selects(seq, S, Len(seq), Only(seq, S), h)
<1>1. Len(seq) \in Nat
  OBVIOUS
<1> DEFINE f == CHOOSE f : OnlyTo(seq, S, Len(seq), f)
<1>2. Only(seq, S) = f[Len(seq)]
  BY DEF Only, OnlyTo
<1>3. OnlyTo(seq, S, Len(seq), f)
  BY <1>1, OnlyExists
<1> HIDE DEF f
<1> DEFINE N == {n \in Nat : n <= Len(seq) =>
                   f[n] \in Seq(V) /\ \E h : Selects(seq, S, n, f[n], h)}
<1>4. 0 \in N
  <2>1. f[0] = << >>
    BY <1>1, <1>3 DEF OnlyTo
  <2> DEFINE h == [a \in 1 .. 0 |-> 0]
  <2>2. Selects(seq, S, 0, << >>, h)
    BY DEF Selects
  <2> HIDE DEF h
  <2>3. \E g : Selects(seq, S, 0, f[0], g)
    BY <2>1, <2>2
  <2>4. f[0] \in Seq(V)
    BY <2>1
  <2> QED
    BY <2>3, <2>4
<1>5. ASSUME NEW n \in Nat, n \in N PROVE n + 1 \in N
  <2> SUFFICES ASSUME n + 1 <= Len(seq)
               PROVE  /\ f[n + 1] \in Seq(V)
                      /\ \E h : Selects(seq, S, n + 1, f[n + 1], h)
    OBVIOUS
  <2>1. PICK r : r = f[n]
    OBVIOUS
  <2>2. r \in Seq(V) /\ \E h : Selects(seq, S, n, r, h)
    BY <1>1, <1>5, <2>1
  <2>3. PICK h : Selects(seq, S, n, r, h)
    BY <2>2
  <2>4. f[n + 1] = IF seq[n + 1] \in S THEN Append(r, seq[n + 1]) ELSE r
    <3>1. n + 1 \in 0 .. Len(seq) /\ n + 1 # 0 /\ (n + 1) - 1 = n
      BY <1>1
    <3> QED
      BY <1>3, <2>1, <3>1 DEF OnlyTo
  <2>5. seq[n + 1] \in V
    BY <1>1
  <2>6. CASE seq[n + 1] \in S
    <3> DEFINE q == Append(r, seq[n + 1])
               g == [a \in 1 .. Len(r) + 1 |-> IF a = Len(r) + 1 THEN n + 1 ELSE h[a]]
    <3>1. /\ q \in Seq(V) /\ Len(q) = Len(r) + 1 /\ Len(r) \in Nat
          /\ q[Len(r) + 1] = seq[n + 1]
          /\ \A a \in 1 .. Len(r) : q[a] = r[a]
      BY <2>2, <2>5
    <3>2. /\ h \in [1 .. Len(r) -> 1 .. n]
          /\ \A a, b \in 1 .. Len(r) : a < b => h[a] < h[b]
          /\ \A a \in 1 .. Len(r) : r[a] = seq[h[a]] /\ r[a] \in S
          /\ \A i \in 1 .. n : seq[i] \in S => \E a \in 1 .. Len(r) : h[a] = i
      BY <2>3 DEF Selects
    <3> HIDE DEF q
    <3>3. g \in [1 .. Len(q) -> 1 .. n + 1]
      BY <3>1, <3>2
    <3>4. ASSUME NEW a \in 1 .. Len(q), NEW b \in 1 .. Len(q), a < b
          PROVE  g[a] < g[b]
      <4>1. a \in 1 .. Len(r) /\ g[a] = h[a] /\ h[a] \in 1 .. n
        BY <3>1, <3>2, <3>4
      <4>2. CASE b = Len(r) + 1
        <5>1. g[b] = n + 1
          BY <3>1, <4>2
        <5> QED
          BY <4>1, <5>1
      <4>3. CASE b # Len(r) + 1
        <5>1. b \in 1 .. Len(r) /\ g[b] = h[b]
          BY <3>1, <4>3
        <5> QED
          BY <4>1, <5>1, <3>2, <3>4
      <4> QED
        BY <4>2, <4>3
    <3>5. \A a \in 1 .. Len(q) : q[a] = seq[g[a]] /\ q[a] \in S
      BY <3>1, <3>2, <2>6
    <3>6. ASSUME NEW i \in 1 .. n + 1, seq[i] \in S
          PROVE  \E a \in 1 .. Len(q) : g[a] = i
      <4>1. CASE i = n + 1
        <5>1. Len(r) + 1 \in 1 .. Len(q) /\ g[Len(r) + 1] = i
          BY <4>1, <3>1
        <5> QED
          BY <5>1
      <4>2. CASE i # n + 1
        <5>1. i \in 1 .. n
          BY <4>2
        <5>2. PICK a \in 1 .. Len(r) : h[a] = i
          BY <5>1, <3>6, <3>2
        <5>3. a \in 1 .. Len(q) /\ g[a] = i
          BY <5>2, <3>1
        <5> QED
          BY <5>3
      <4> QED
        BY <4>1, <4>2
    <3> HIDE DEF g
    <3>7. Selects(seq, S, n + 1, q, g)
      BY <3>3, <3>4, <3>5, <3>6 DEF Selects
    <3> QED
      BY <3>1, <3>7, <2>4, <2>6 DEF q
  <2>7. CASE seq[n + 1] \notin S
    <3>1. Selects(seq, S, n + 1, r, h)
      BY <2>2, <2>3, <2>7 DEF Selects
    <3> QED
      BY <2>2, <2>4, <2>7, <3>1
  <2> QED
    BY <2>6, <2>7
<1> HIDE DEF N
<1>6. Len(seq) \in N
  BY <1>1, <1>4, <1>5, NatInd
<1> QED
  BY <1>1, <1>2, <1>6 DEF N

\* A filter of distinct elements has distinct ones: exactly those in S.
LEMMA OnlyFacts ==
  ASSUME NEW V, NEW seq \in Seq(V), NEW S, NEW r, r = Only(seq, S)
  PROVE  /\ r \in Seq(V)
         /\ Elems(r) = Elems(seq) \cap S
         /\ Distinct(seq) => Distinct(r)
<1>1. PICK h : Selects(seq, S, Len(seq), r, h)
  BY OnlySelects
<1>2. r \in Seq(V) /\ Len(r) \in Nat /\ DOMAIN r = 1 .. Len(r)
      /\ Len(seq) \in Nat /\ DOMAIN seq = 1 .. Len(seq)
  BY OnlySelects
<1>3. Elems(r) = Elems(seq) \cap S
  <2>1. \A a \in DOMAIN r : h[a] \in DOMAIN seq /\ r[a] = seq[h[a]] /\ r[a] \in S
    BY <1>1, <1>2 DEF Selects
  <2>2. \A i \in DOMAIN seq : seq[i] \in S => \E a \in DOMAIN r : h[a] = i
    BY <1>1, <1>2 DEF Selects
  <2>3. \A x \in Elems(r) : x \in Elems(seq) \cap S
    BY <2>1 DEF Elems
  <2>4. ASSUME NEW x \in Elems(seq) \cap S PROVE x \in Elems(r)
    <3>1. PICK i \in DOMAIN seq : seq[i] = x
      BY DEF Elems
    <3>2. PICK a \in DOMAIN r : h[a] = i
      BY <2>2, <3>1
    <3>3. r[a] = x
      BY <2>1, <3>1, <3>2
    <3> QED
      BY <3>3 DEF Elems
  <2> QED
    BY <2>3, <2>4
<1>4. ASSUME Distinct(seq), NEW i \in DOMAIN r, NEW j \in DOMAIN r, r[i] = r[j]
      PROVE  i = j
  <2>1. h[i] \in DOMAIN seq /\ h[j] \in DOMAIN seq /\ seq[h[i]] = seq[h[j]]
    BY <1>1, <1>2, <1>4 DEF Selects
  <2>2. h[i] = h[j] /\ h[i] \in Nat
    BY <1>2, <1>4, <2>1 DEF Distinct
  <2>3. i < j => h[i] < h[j]
    BY <1>1, <1>2 DEF Selects
  <2>4. j < i => h[j] < h[i]
    BY <1>1, <1>2 DEF Selects
  <2> QED
    BY <1>2, <2>2, <2>3, <2>4
<1> QED
  BY <1>2, <1>3, <1>4 DEF Distinct

-----------------------------------------------------------------------------
(***************************************************************************)
(* The inductive invariant: what the scheduler owns                         *)
(*                                                                         *)
(* The groups gs and the idle sequence d hold the live slots of pool p, each *)
(* slot once, and what every slot holds (t) is what its holder records.      *)
(***************************************************************************)
IdleType == [seq : Slot \cup {None}, ids : Seq(Token)]

\* The root of a group has part of the prompt; while it is being restored it
\* has pages but no valid row; and when it has the whole prompt the logits of
\* its last token are at hand.
RootSound(g, p, t) ==
  /\ g.choices = << >>
  /\ IsPrefix(t[g.root], Prompt[g.job])
  /\ g.restoring => /\ p.past[g.root] = 0 /\ g.logits = 0
                    /\ g.imported <= PromptLen(g.job)
                    /\ PagesFor(g.imported) <= Len(p.table[g.root])
  /\ ~g.restoring /\ p.past[g.root] = PromptLen(g.job) => g.logits = PromptLen(g.job)

\* The unfinished choices of a group have sequences of their own, and what they
\* have stepped is what these hold.
ChoicesSound(g, t) ==
  /\ \A c \in Unfinished(g) : t[g.choices[c].seq] = g.choices[c].stepped
  /\ \A c, d \in Unfinished(g) : g.choices[c].seq = g.choices[d].seq => c = d

GroupSound(g, p, t) ==
  /\ g.root # None => RootSound(g, p, t)
  /\ g.root = None => Len(g.choices) \in {0, NChoices[g.job]} /\ ~g.restoring
  /\ ChoicesSound(g, t)

HeldApart(gs) ==
  \A i, k \in DOMAIN gs : i # k => Held(gs[i]) \cap Held(gs[k]) = {}

HeldLive(gs, p, d) ==
  /\ \A i \in DOMAIN gs : d.seq \notin Held(gs[i])
  /\ \A s \in Slot :
       p.live[s] <=> (d.seq = s \/ \E i \in DOMAIN gs : s \in Held(gs[i]))

World(gs, p, t, d) ==
  /\ gs \in Seq(GroupType) /\ p \in Pool /\ t \in [Slot -> Seq(Token)] /\ d \in IdleType
  /\ PoolInv(p)
  /\ HeldApart(gs)
  /\ HeldLive(gs, p, d)
  /\ d.seq # None => t[d.seq] = d.ids
  /\ \A s \in Slot : p.live[s] => p.past[s] = Len(t[s])
  /\ \A i \in DOMAIN gs : GroupSound(gs[i], p, t)

LEMMA NoneIsNoSlot == None \notin Slot /\ None # 0
  BY SlotsAssumption DEF None, Slot

LEMMA GroupFields ==
  ASSUME NEW g \in GroupType
  PROVE  /\ g.job \in Job /\ g.root \in Slot \cup {None}
         /\ g.choices \in Seq(ChoiceType) /\ DOMAIN g.choices = 1 .. Len(g.choices)
         /\ Len(g.choices) \in Nat
         /\ g.credits \in Nat /\ g.restoring \in BOOLEAN
         /\ g.imported \in Nat /\ g.logits \in Nat
         /\ \A c \in DOMAIN g.choices :
              /\ g.choices[c] \in ChoiceType
              /\ g.choices[c].seq \in Slot
              /\ g.choices[c].pending \in Token \cup {None}
              /\ g.choices[c].stepped \in Seq(Token)
              /\ g.choices[c].logits \in Nat
              /\ g.choices[c].finished \in BOOLEAN
<1>1. /\ g.job \in Job /\ g.root \in Slot \cup {None} /\ g.choices \in Seq(ChoiceType)
      /\ g.credits \in Nat /\ g.restoring \in BOOLEAN
      /\ g.imported \in Nat /\ g.logits \in Nat
  BY DEF GroupType
<1>2. \A c \in DOMAIN g.choices : g.choices[c] \in ChoiceType
  BY <1>1
<1> QED
  BY <1>1, <1>2 DEF ChoiceType

LEMMA HeldSlots ==
  ASSUME NEW g \in GroupType
  PROVE  /\ Held(g) \subseteq Slot
         /\ Unfinished(g) \subseteq DOMAIN g.choices
         /\ \A c \in Unfinished(g) : g.choices[c].seq \in Held(g)
         /\ g.root # None => g.root \in Held(g)
         /\ \A s \in Held(g) : s = g.root \/ \E c \in Unfinished(g) : s = g.choices[c].seq
  BY GroupFields DEF Held, Unfinished

LEMMA WorldGroups ==
  ASSUME NEW gs, NEW p, NEW t, NEW d, World(gs, p, t, d)
  PROVE  /\ Len(gs) \in Nat /\ DOMAIN gs = 1 .. Len(gs)
         /\ \A i \in DOMAIN gs : /\ gs[i] \in GroupType
                                /\ Held(gs[i]) \subseteq Slot
                                /\ \A s \in Held(gs[i]) : p.live[s]
         /\ d.seq \in Slot \cup {None} /\ d.ids \in Seq(Token)
         /\ d.seq # None => p.live[d.seq]
<1>1. gs \in Seq(GroupType) /\ d \in IdleType
  BY DEF World
<1>2. \A i \in DOMAIN gs : gs[i] \in GroupType
  BY <1>1
<1>3. \A i \in DOMAIN gs : Held(gs[i]) \subseteq Slot
  BY <1>2, HeldSlots
<1>4. d.seq \in Slot \cup {None} /\ d.ids \in Seq(Token)
  BY <1>1 DEF IdleType
<1> QED
  BY <1>1, <1>2, <1>3, <1>4 DEF World, HeldLive

\* A group is sound as long as its sequences keep their positions, pages and
\* texts.
LEMMA GroupFrame ==
  ASSUME NEW g \in GroupType, NEW p, NEW t, NEW q, NEW u, GroupSound(g, p, t),
         \A s \in Held(g) : /\ q.past[s] = p.past[s] /\ u[s] = t[s]
                            /\ Len(p.table[s]) <= Len(q.table[s])
                            /\ Len(p.table[s]) \in Nat /\ Len(q.table[s]) \in Nat
  PROVE  GroupSound(g, q, u)
<1>1. ASSUME g.root # None PROVE RootSound(g, q, u)
  <2>1. /\ g.root \in Held(g) /\ RootSound(g, p, t)
        /\ g.imported \in Nat /\ g.restoring \in BOOLEAN
    BY <1>1, HeldSlots, GroupFields DEF GroupSound
  <2>2. /\ q.past[g.root] = p.past[g.root] /\ u[g.root] = t[g.root]
        /\ Len(p.table[g.root]) <= Len(q.table[g.root])
        /\ Len(p.table[g.root]) \in Nat /\ Len(q.table[g.root]) \in Nat
    BY <2>1
  <2>3. PagesFor(g.imported) \in Nat
    BY <2>1, PagesForType
  <2> QED
    BY <2>1, <2>2, <2>3 DEF RootSound
<1>2. ChoicesSound(g, u)
  BY HeldSlots DEF ChoicesSound, GroupSound
<1> QED
  BY <1>1, <1>2 DEF GroupSound

LEMMA TableLengths ==
  ASSUME NEW p \in Pool, NEW s \in Slot
  PROVE  Len(p.table[s]) \in Nat /\ p.past[s] \in Nat
  BY PoolFields

-----------------------------------------------------------------------------
(***************************************************************************)
(* How the scheduler changes what it owns                                   *)
(***************************************************************************)
\* hs are some of the groups gs, at the places h, with some of what they held ...
Shrunk(gs, hs, h) ==
  /\ h \in [DOMAIN hs -> DOMAIN gs]
  /\ \A a, b \in DOMAIN hs : h[a] = h[b] => a = b
  /\ \A a \in DOMAIN hs : Held(hs[a]) \subseteq Held(gs[h[a]])

\* ... R is what they no longer hold ...
GivenUp(gs, hs, R) ==
  \A s \in Slot : s \in R <=> /\ \E i \in DOMAIN gs : s \in Held(gs[i])
                              /\ ~\E a \in DOMAIN hs : s \in Held(hs[a])

\* ... and q is p without the sequences R.
Without(p, q, R) ==
  /\ q \in Pool /\ PoolInv(q) /\ q.past = p.past
  /\ \A s \in Slot : /\ q.live[s] <=> (p.live[s] /\ s \notin R)
                     /\ s \notin R => q.table[s] = p.table[s]

\* Groups go, or give up some of their sequences, which are released.
LEMMA WorldKeep ==
  ASSUME NEW gs, NEW p, NEW t, NEW d, World(gs, p, t, d),
         NEW hs, hs \in Seq(GroupType), NEW h, Shrunk(gs, hs, h),
         \A a \in DOMAIN hs : GroupSound(hs[a], p, t),
         NEW R, GivenUp(gs, hs, R),
         NEW q, Without(p, q, R)
  PROVE  World(hs, q, t, d)
<1> USE DEF Shrunk, GivenUp, Without
<1>1. /\ p \in Pool /\ t \in [Slot -> Seq(Token)] /\ d \in IdleType
      /\ HeldApart(gs) /\ HeldLive(gs, p, d)
      /\ d.seq # None => t[d.seq] = d.ids
      /\ \A s \in Slot : p.live[s] => p.past[s] = Len(t[s])
  BY DEF World
<1>2. \A a \in DOMAIN hs : hs[a] \in GroupType /\ Held(hs[a]) \subseteq Slot
  BY HeldSlots
<1>3. HeldApart(hs)
  BY <1>1 DEF HeldApart
<1>4. HeldLive(hs, q, d)
  <2>1. \A a \in DOMAIN hs : d.seq \notin Held(hs[a])
    BY <1>1 DEF HeldLive
  <2>2. \A s \in Slot : (\E a \in DOMAIN hs : s \in Held(hs[a]))
                          => \E i \in DOMAIN gs : s \in Held(gs[i])
    OBVIOUS
  <2>3. \A s \in Slot : d.seq = s => s \notin R
    BY <1>1 DEF HeldLive
  <2>4. ASSUME NEW s \in Slot
        PROVE  q.live[s] <=> (d.seq = s \/ \E a \in DOMAIN hs : s \in Held(hs[a]))
    <3>1. p.live[s] <=> (d.seq = s \/ \E i \in DOMAIN gs : s \in Held(gs[i]))
      BY <1>1 DEF HeldLive
    <3>2. /\ q.live[s] <=> (p.live[s] /\ s \notin R)
          /\ s \in R <=> /\ \E i \in DOMAIN gs : s \in Held(gs[i])
                         /\ ~\E a \in DOMAIN hs : s \in Held(hs[a])
      OBVIOUS
    <3> QED
      BY <2>2, <2>3, <3>1, <3>2, Zenon
  <2> QED
    BY <2>1, <2>4 DEF HeldLive
<1>5. ASSUME NEW a \in DOMAIN hs PROVE GroupSound(hs[a], q, t)
  <2>1. \A s \in Held(hs[a]) : /\ q.past[s] = p.past[s] /\ q.table[s] = p.table[s]
                               /\ Len(p.table[s]) \in Nat
    <3> SUFFICES ASSUME NEW s \in Held(hs[a])
                 PROVE  /\ q.past[s] = p.past[s] /\ q.table[s] = p.table[s]
                        /\ Len(p.table[s]) \in Nat
      OBVIOUS
    <3>1. s \in Slot
      BY <1>2
    <3>2. s \notin R
      BY <3>1
    <3> QED
      BY <1>1, <3>1, <3>2, TableLengths
  <2>2. PICK g \in GroupType : g = hs[a]
    BY <1>2
  <2>3. /\ GroupSound(g, p, t)
        /\ \A s \in Held(g) : /\ q.past[s] = p.past[s] /\ t[s] = t[s]
                              /\ Len(p.table[s]) <= Len(q.table[s])
                              /\ Len(p.table[s]) \in Nat /\ Len(q.table[s]) \in Nat
    BY <2>1, <2>2
  <2>4. GroupSound(g, q, t)
    BY <2>3, GroupFrame
  <2> QED
    BY <2>2, <2>4
<1>6. \A s \in Slot : q.live[s] => q.past[s] = Len(t[s])
  BY <1>1
<1>7. /\ hs \in Seq(GroupType) /\ q \in Pool /\ PoolInv(q)
      /\ \A a \in DOMAIN hs : GroupSound(hs[a], q, t)
  BY <1>5
<1> QED
  BY <1>1, <1>3, <1>4, <1>6, <1>7 DEF World

\* The groups keep what they hold; pool, texts and records move together.
LEMMA WorldSame ==
  ASSUME NEW gs, NEW p, NEW t, NEW d, World(gs, p, t, d),
         NEW hs \in Seq(GroupType), DOMAIN hs = DOMAIN gs,
         \A i \in DOMAIN gs : Held(hs[i]) = Held(gs[i]),
         NEW q \in Pool, PoolInv(q), q.live = p.live,
         NEW u \in [Slot -> Seq(Token)],
         d.seq # None => u[d.seq] = t[d.seq],
         \A s \in Slot : q.live[s] => q.past[s] = Len(u[s]),
         \A i \in DOMAIN gs : GroupSound(hs[i], q, u)
  PROVE  World(hs, q, u, d)
<1>1. HeldApart(hs)
  BY DEF World, HeldApart
<1>2. HeldLive(hs, q, d)
  BY DEF World, HeldLive
<1> QED
  BY <1>1, <1>2 DEF World

\* The idle sequence, if there is one, is released.
Forget(p, d) == IF d.seq = None THEN p ELSE Release(p, d.seq)
Nobody == [seq |-> None, ids |-> << >>]

LEMMA ReleaseEffect ==
  ASSUME NEW p \in Pool, NEW s \in Slot, NEW q, q = Release(p, s)
  PROVE  /\ q.past = p.past
         /\ \A r \in Slot : /\ q.live[r] <=> (p.live[r] /\ r # s)
                            /\ r # s => q.table[r] = p.table[r]
  BY PoolFields DEF Release

LEMMA WorldForget ==
  ASSUME NEW gs, NEW p, NEW t, NEW d, World(gs, p, t, d), NEW q, q = Forget(p, d)
  PROVE  /\ World(gs, q, t, Nobody)
         /\ q.past = p.past
         /\ \A s \in Slot : /\ q.live[s] <=> (p.live[s] /\ s # d.seq)
                            /\ s # d.seq => q.table[s] = p.table[s]
<1>1. /\ gs \in Seq(GroupType) /\ p \in Pool /\ t \in [Slot -> Seq(Token)] /\ d \in IdleType
      /\ PoolInv(p) /\ HeldApart(gs) /\ HeldLive(gs, p, d)
      /\ \A s \in Slot : p.live[s] => p.past[s] = Len(t[s])
      /\ \A i \in DOMAIN gs : GroupSound(gs[i], p, t)
  BY DEF World
<1>2. d.seq \in Slot \cup {None} /\ None \notin Slot
  BY <1>1, NoneIsNoSlot DEF IdleType
<1>3. /\ q \in Pool /\ PoolInv(q) /\ q.past = p.past
      /\ \A s \in Slot : /\ q.live[s] <=> (p.live[s] /\ s # d.seq)
                         /\ s # d.seq => q.table[s] = p.table[s]
  <2>1. CASE d.seq = None
    BY <1>1, <1>2, <2>1 DEF Forget
  <2>2. CASE d.seq # None
    <3>1. d.seq \in Slot /\ q = Release(p, d.seq)
      BY <1>2, <2>2 DEF Forget
    <3> QED
      BY <1>1, <3>1, ReleaseSound, ReleaseEffect
  <2> QED
    BY <2>1, <2>2
<1>4. Nobody \in IdleType /\ Nobody.seq = None
  BY DEF Nobody, IdleType
<1>5. \A i \in DOMAIN gs : /\ gs[i] \in GroupType /\ Held(gs[i]) \subseteq Slot
                           /\ d.seq \notin Held(gs[i])
  BY <1>1, WorldGroups DEF HeldLive
<1>6. HeldLive(gs, q, Nobody)
  <2>1. \A i \in DOMAIN gs : None \notin Held(gs[i])
    BY <1>2, <1>5
  <2>2. ASSUME NEW s \in Slot
        PROVE  q.live[s] <=> \E i \in DOMAIN gs : s \in Held(gs[i])
    <3>1. p.live[s] <=> (d.seq = s \/ \E i \in DOMAIN gs : s \in Held(gs[i]))
      BY <1>1 DEF HeldLive
    <3>2. (\E i \in DOMAIN gs : s \in Held(gs[i])) => s # d.seq
      BY <1>5
    <3>3. q.live[s] <=> (p.live[s] /\ s # d.seq)
      BY <1>3
    <3> QED
      BY <3>1, <3>2, <3>3, Zenon
  <2> QED
    BY <1>2, <1>4, <2>1, <2>2 DEF HeldLive
<1>7. ASSUME NEW i \in DOMAIN gs PROVE GroupSound(gs[i], q, t)
  <2>1. PICK g \in GroupType : g = gs[i]
    BY <1>5
  <2>2. \A s \in Held(g) : /\ q.past[s] = p.past[s] /\ t[s] = t[s]
                           /\ Len(p.table[s]) <= Len(q.table[s])
                           /\ Len(p.table[s]) \in Nat /\ Len(q.table[s]) \in Nat
    <3> SUFFICES ASSUME NEW s \in Held(g)
                 PROVE  /\ q.past[s] = p.past[s] /\ q.table[s] = p.table[s]
                        /\ Len(p.table[s]) \in Nat
      OBVIOUS
    <3>1. s \in Slot /\ s # d.seq
      BY <1>5, <2>1
    <3> QED
      BY <1>1, <1>3, <3>1, TableLengths
  <2>3. GroupSound(g, p, t)
    BY <1>1, <2>1
  <2> QED
    BY <2>1, <2>2, <2>3, GroupFrame
<1>8. \A s \in Slot : q.live[s] => q.past[s] = Len(t[s])
  BY <1>1, <1>3
<1> QED
  BY <1>1, <1>3, <1>4, <1>6, <1>7, <1>8 DEF World

\* One of the unfinished choices of group i finishes and its sequence becomes
\* the idle one.
LEMMA WorldIdle ==
  ASSUME NEW gs, NEW p, NEW t, World(gs, p, t, Nobody),
         NEW hs \in Seq(GroupType), DOMAIN hs = DOMAIN gs,
         NEW i \in DOMAIN gs, NEW d \in IdleType, d.seq \in Held(gs[i]),
         t[d.seq] = d.ids,
         Held(hs[i]) = Held(gs[i]) \ {d.seq},
         \A k \in DOMAIN gs : k # i => hs[k] = gs[k],
         GroupSound(hs[i], p, t)
  PROVE  World(hs, p, t, d)
<1>1. /\ p \in Pool /\ t \in [Slot -> Seq(Token)] /\ PoolInv(p)
      /\ HeldApart(gs) /\ HeldLive(gs, p, Nobody)
      /\ \A s \in Slot : p.live[s] => p.past[s] = Len(t[s])
      /\ \A k \in DOMAIN gs : GroupSound(gs[k], p, t)
  BY DEF World
<1>2. Nobody.seq = None /\ None \notin Slot
  BY NoneIsNoSlot DEF Nobody
<1>3. \A k \in DOMAIN gs : /\ Held(gs[k]) \subseteq Slot
                           /\ Held(hs[k]) = Held(gs[k]) \ {d.seq}
  BY <1>1, WorldGroups DEF HeldApart
<1>4. HeldApart(hs)
  BY <1>1, <1>3 DEF HeldApart
<1>5. HeldLive(hs, p, d)
  <2>1. \A k \in DOMAIN hs : d.seq \notin Held(hs[k])
    BY <1>3
  <2>2. ASSUME NEW s \in Slot
        PROVE  p.live[s] <=> (d.seq = s \/ \E k \in DOMAIN hs : s \in Held(hs[k]))
    <3>1. p.live[s] <=> \E k \in DOMAIN gs : s \in Held(gs[k])
      BY <1>1, <1>2 DEF HeldLive
    <3>2. (\E k \in DOMAIN gs : s \in Held(gs[k]))
          <=> (d.seq = s \/ \E k \in DOMAIN hs : s \in Held(hs[k]))
      BY <1>3
    <3> QED
      BY <3>1, <3>2
  <2> QED
    BY <2>1, <2>2 DEF HeldLive
<1> QED
  BY <1>1, <1>4, <1>5 DEF World

\* A new group takes over sequence r.
LEMMA WorldAppend ==
  ASSUME NEW gs, NEW p, NEW t, NEW d, World(gs, p, t, d),
         NEW r \in Slot, NEW g \in GroupType, Held(g) = {r},
         NEW q \in Pool, PoolInv(q), NEW u \in [Slot -> Seq(Token)],
         \A i \in DOMAIN gs : r \notin Held(gs[i]),
         \A s \in Slot : q.live[s] <=> (s = r \/ (p.live[s] /\ s # d.seq)),
         d.seq # None => d.seq = r,
         \A s \in Slot : s # r => /\ q.past[s] = p.past[s] /\ u[s] = t[s]
                                  /\ q.table[s] = p.table[s],
         q.past[r] = Len(u[r]), GroupSound(g, q, u)
  PROVE  World(Append(gs, g), q, u, Nobody)
<1>1. /\ gs \in Seq(GroupType) /\ p \in Pool
      /\ HeldApart(gs) /\ HeldLive(gs, p, d)
      /\ \A s \in Slot : p.live[s] => p.past[s] = Len(t[s])
      /\ \A k \in DOMAIN gs : GroupSound(gs[k], p, t)
  BY DEF World
<1>2. PICK hs : hs = Append(gs, g)
  OBVIOUS
<1>3. /\ Len(gs) \in Nat /\ DOMAIN gs = 1 .. Len(gs)
      /\ \A i \in DOMAIN gs : gs[i] \in GroupType /\ Held(gs[i]) \subseteq Slot
  BY WorldGroups
<1>4. /\ hs \in Seq(GroupType) /\ DOMAIN hs = 1 .. Len(gs) + 1
      /\ hs[Len(gs) + 1] = g
      /\ \A i \in DOMAIN gs : i \in DOMAIN hs /\ hs[i] = gs[i]
      /\ \A i \in DOMAIN hs : i \in DOMAIN gs \/ i = Len(gs) + 1
  BY <1>1, <1>2, <1>3
<1>5. PICK n : n = Len(gs) + 1 /\ n \notin DOMAIN gs /\ n \in DOMAIN hs
  BY <1>3, <1>4
<1>6. /\ \A i \in DOMAIN hs : i \in DOMAIN gs \/ i = n
      /\ hs[n] = g
      /\ \A i \in DOMAIN gs : i \in DOMAIN hs /\ hs[i] = gs[i]
  BY <1>4, <1>5
<1>7. Nobody.seq = None /\ Nobody \in IdleType /\ None \notin Slot
  BY NoneIsNoSlot DEF Nobody, IdleType
<1>8. HeldApart(hs)
  BY <1>1, <1>5, <1>6 DEF HeldApart
<1>9. HeldLive(hs, q, Nobody)
  <2>1. \A i \in DOMAIN hs : None \notin Held(hs[i])
    BY <1>3, <1>6, <1>7
  <2>2. ASSUME NEW s \in Slot
        PROVE  q.live[s] <=> \E i \in DOMAIN hs : s \in Held(hs[i])
    <3>1. (\E i \in DOMAIN hs : s \in Held(hs[i]))
          <=> (s = r \/ \E i \in DOMAIN gs : s \in Held(gs[i]))
      BY <1>5, <1>6
    <3>2. p.live[s] <=> (d.seq = s \/ \E i \in DOMAIN gs : s \in Held(gs[i]))
      BY <1>1 DEF HeldLive
    <3>3. (\E i \in DOMAIN gs : s \in Held(gs[i])) => s # d.seq
      BY <1>1 DEF HeldLive
    <3>4. d.seq = s => s = r
      BY <1>7
    <3>5. q.live[s] <=> (s = r \/ (p.live[s] /\ s # d.seq))
      OBVIOUS
    <3> QED
      BY <3>1, <3>2, <3>3, <3>4, <3>5, Zenon
  <2>3. \A s \in Slot : s # None
    BY <1>7
  <2> QED
    BY <1>7, <2>1, <2>2, <2>3 DEF HeldLive
<1>10. ASSUME NEW i \in DOMAIN hs PROVE GroupSound(hs[i], q, u)
  <2>1. CASE i = n
    BY <1>6, <2>1
  <2>2. CASE i \in DOMAIN gs
    <3>1. PICK o \in GroupType : o = gs[i] /\ o = hs[i]
      BY <1>3, <1>6, <2>2
    <3>2. ASSUME NEW s \in Held(o)
          PROVE  /\ q.past[s] = p.past[s] /\ u[s] = t[s]
                 /\ Len(p.table[s]) <= Len(q.table[s])
                 /\ Len(p.table[s]) \in Nat /\ Len(q.table[s]) \in Nat
      <4>1. s \in Slot /\ s # r
        BY <1>3, <2>2, <3>1
      <4>2. q.table[s] = p.table[s] /\ Len(p.table[s]) \in Nat
        BY <1>1, <4>1, TableLengths
      <4> QED
        BY <4>1, <4>2
    <3>3. GroupSound(o, p, t)
      BY <1>1, <2>2, <3>1
    <3> QED
      BY <3>1, <3>2, <3>3, GroupFrame
  <2> QED
    BY <1>6, <2>1, <2>2
<1>11. \A s \in Slot : q.live[s] => q.past[s] = Len(u[s])
  BY <1>1
<1> QED
  BY <1>2, <1>4, <1>7, <1>8, <1>9, <1>10, <1>11 DEF World

-----------------------------------------------------------------------------
(***************************************************************************)
(* Failing and dropping groups                                             *)
(***************************************************************************)
LEMMA JobFacts ==
  ASSUME NEW j \in Job
  PROVE  /\ Prompt[j] \in Seq(Token) /\ PromptLen(j) \in Nat \ {0}
         /\ PromptLen(j) = Len(Prompt[j])
         /\ NChoices[j] \in Nat \ {0} /\ NChoices[j] <= NSlots /\ NSlots \in Nat
         /\ MaxTokens[j] \in Nat \ {0}
         /\ PromptLen(j) + MaxTokens[j] <= Ctx /\ Ctx \in Nat
         /\ SnapshotPoints[j] \subseteq 1 .. PromptLen(j)
  BY JobAssumption, SlotsAssumption, CtxAssumption DEF PromptLen

LEMMA ContinuousPagesType ==
  ASSUME NEW j \in Job, NEW n \in Nat
  PROVE  /\ ContinuousPages(j, n) \in Nat
         /\ PromptLen(j) \div PageTokens \in Nat
         /\ PagesFor((PromptLen(j) % PageTokens) + MaxTokens[j]) \in Nat
<1>1. PromptLen(j) \in Nat /\ MaxTokens[j] \in Nat
  BY JobFacts
<1>2. PromptLen(j) % PageTokens \in Nat /\ PromptLen(j) \div PageTokens \in Nat
  BY <1>1, PageTokensAssumption
<1>3. (PromptLen(j) % PageTokens) + MaxTokens[j] \in Nat
  BY <1>1, <1>2
<1>4. PagesFor((PromptLen(j) % PageTokens) + MaxTokens[j]) \in Nat
  BY <1>3, PagesForType
<1>5. n * PagesFor((PromptLen(j) % PageTokens) + MaxTokens[j]) \in Nat
  BY <1>4
<1> QED
  BY <1>2, <1>4, <1>5 DEF ContinuousPages

Failed(g) == [g EXCEPT !.root = None, !.restoring = FALSE,
               !.choices = [c \in DOMAIN @ |-> [@[c] EXCEPT !.finished = TRUE]]]

LEMMA FailedFacts ==
  ASSUME NEW g \in GroupType, NEW p, NEW t, GroupSound(g, p, t), NEW h, h = Failed(g)
  PROVE  /\ h \in GroupType /\ h.job = g.job /\ h.root = None
         /\ Unfinished(h) = {} /\ Held(h) = {}
         /\ GroupSound(h, p, t)
<1>1. /\ h.job = g.job /\ h.root = None /\ h.restoring = FALSE
      /\ h.credits = g.credits /\ h.imported = g.imported /\ h.logits = g.logits
      /\ h.choices = [c \in DOMAIN g.choices |-> [g.choices[c] EXCEPT !.finished = TRUE]]
      /\ h = [job |-> h.job, root |-> h.root, choices |-> h.choices,
              credits |-> h.credits, restoring |-> h.restoring,
              imported |-> h.imported, logits |-> h.logits]
  BY DEF GroupType, Failed
<1>2. /\ g.choices \in Seq(ChoiceType) /\ DOMAIN g.choices = 1 .. Len(g.choices)
      /\ Len(g.choices) \in Nat
      /\ \A c \in DOMAIN g.choices : g.choices[c] \in ChoiceType
  BY GroupFields
<1>3. \A c \in DOMAIN g.choices :
        /\ [g.choices[c] EXCEPT !.finished = TRUE] \in ChoiceType
        /\ [g.choices[c] EXCEPT !.finished = TRUE].finished
  BY <1>2 DEF ChoiceType
<1>4. h.choices \in Seq(ChoiceType) /\ Len(h.choices) = Len(g.choices)
      /\ DOMAIN h.choices = DOMAIN g.choices
      /\ \A c \in DOMAIN h.choices : h.choices[c].finished
  BY <1>1, <1>2, <1>3
<1>5. h \in GroupType
  <2>1. /\ g.job \in Job /\ g.credits \in Nat /\ g.imported \in Nat /\ g.logits \in Nat
        /\ None \in Slot \cup {None} /\ FALSE \in BOOLEAN
    BY GroupFields
  <2> QED
    BY <1>1, <1>4, <2>1 DEF GroupType
<1>6. Unfinished(h) = {}
  BY <1>4 DEF Unfinished
<1>7. Held(h) = {}
  BY <1>1, <1>6 DEF Held
<1>8. Len(g.choices) \in {0, NChoices[g.job]}
  <2>1. g.root # None => g.choices = << >>
    BY DEF GroupSound, RootSound
  <2> QED
    BY <2>1 DEF GroupSound
<1>9. GroupSound(h, p, t)
  BY <1>1, <1>4, <1>6, <1>8 DEF GroupSound, ChoicesSound
<1> QED
  BY <1>1, <1>5, <1>6, <1>7, <1>9

LEMMA ReleaseAllEffect ==
  ASSUME NEW p \in Pool, NEW R, NEW q, q = ReleaseAll(p, R)
  PROVE  /\ q.past = p.past
         /\ \A s \in Slot : /\ q.live[s] <=> (p.live[s] /\ s \notin R)
                            /\ s \notin R => q.table[s] = p.table[s]
  BY PoolFields DEF ReleaseAll

FailedIn(gs, I) == [i \in DOMAIN gs |-> IF i \notin I THEN gs[i] ELSE Failed(gs[i])]
HeldBy(gs, I) == UNION {Held(gs[i]) : i \in I}

LEMMA WorldFail ==
  ASSUME NEW gs, NEW p, NEW t, NEW d, World(gs, p, t, d),
         NEW I \in SUBSET DOMAIN gs,
         NEW hs, hs = FailedIn(gs, I), NEW q, q = ReleaseAll(p, HeldBy(gs, I))
  PROVE  World(hs, q, t, d)
<1>1. /\ gs \in Seq(GroupType) /\ p \in Pool /\ PoolInv(p) /\ HeldApart(gs)
      /\ \A i \in DOMAIN gs : GroupSound(gs[i], p, t)
  BY DEF World
<1>2. /\ Len(gs) \in Nat /\ DOMAIN gs = 1 .. Len(gs)
      /\ \A i \in DOMAIN gs : gs[i] \in GroupType /\ Held(gs[i]) \subseteq Slot
  BY WorldGroups
<1>3. \A i \in DOMAIN gs : /\ hs[i] \in GroupType
                           /\ Held(hs[i]) = IF i \in I THEN {} ELSE Held(gs[i])
                           /\ GroupSound(hs[i], p, t)
  BY <1>1, <1>2, FailedFacts DEF FailedIn
<1>4. hs \in Seq(GroupType) /\ DOMAIN hs = DOMAIN gs
  BY <1>2, <1>3 DEF FailedIn
<1>5. PICK R : R = HeldBy(gs, I)
  OBVIOUS
<1>6. Without(p, q, R)
  <2>1. q = ReleaseAll(p, R)
    BY <1>5
  <2>2. q \in Pool /\ PoolInv(q)
    BY <1>1, <2>1, ReleaseAllSound
  <2>3. /\ q.past = p.past
        /\ \A s \in Slot : /\ q.live[s] <=> (p.live[s] /\ s \notin R)
                           /\ s \notin R => q.table[s] = p.table[s]
    BY <1>1, <2>1, ReleaseAllEffect
  <2> QED
    BY <2>2, <2>3 DEF Without
<1> DEFINE h == [i \in DOMAIN gs |-> i]
<1>7. Shrunk(gs, hs, h)
  BY <1>3, <1>4 DEF Shrunk
<1>8. GivenUp(gs, hs, R)
  <2> SUFFICES ASSUME NEW s \in Slot
               PROVE  s \in R <=> /\ \E i \in DOMAIN gs : s \in Held(gs[i])
                                  /\ ~\E a \in DOMAIN hs : s \in Held(hs[a])
    BY DEF GivenUp
  <2>1. s \in R <=> \E i \in I : s \in Held(gs[i])
    BY <1>5 DEF HeldBy
  <2>2. (\E a \in DOMAIN hs : s \in Held(hs[a])) <=> \E i \in DOMAIN gs \ I : s \in Held(gs[i])
    BY <1>3, <1>4
  <2>3. \A i, k \in DOMAIN gs : s \in Held(gs[i]) /\ s \in Held(gs[k]) => i = k
    BY <1>1 DEF HeldApart
  <2> QED
    BY <2>1, <2>2, <2>3
<1>9. \A a \in DOMAIN hs : GroupSound(hs[a], p, t)
  BY <1>3, <1>4
<1> HIDE DEF h
<1> QED
  BY <1>4, <1>6, <1>7, <1>8, <1>9, WorldKeep, Zenon

LEMMA UnfinishedCount ==
  ASSUME NEW g \in GroupType
  PROVE  /\ IsFiniteSet(Unfinished(g))
         /\ Cardinality(Unfinished(g)) \in Nat
         /\ Cardinality(Unfinished(g)) <= Len(g.choices)
<1>1. /\ Unfinished(g) \subseteq 1 .. Len(g.choices) /\ Len(g.choices) \in Nat
  BY GroupFields, HeldSlots
<1>2. IsFiniteSet(1 .. Len(g.choices)) /\ Cardinality(1 .. Len(g.choices)) = Len(g.choices)
  BY <1>1, FS_Interval
<1> QED
  BY <1>1, <1>2, FS_Subset, FS_CardinalityType

\* The reservation of a group says nothing of what it holds.
LEMMA CreditsFrame ==
  ASSUME NEW g \in GroupType, NEW p, NEW t, GroupSound(g, p, t), NEW n \in Nat,
         NEW h, h = [g EXCEPT !.credits = n]
  PROVE  /\ h \in GroupType /\ h.job = g.job /\ h.root = g.root /\ h.choices = g.choices
         /\ h.restoring = g.restoring /\ h.credits = n /\ h.logits = g.logits
         /\ Held(h) = Held(g) /\ Unfinished(h) = Unfinished(g) /\ GroupSound(h, p, t)
<1>1. /\ h.job = g.job /\ h.root = g.root /\ h.choices = g.choices
      /\ h.restoring = g.restoring /\ h.imported = g.imported /\ h.logits = g.logits
      /\ h.credits = n /\ h \in GroupType
  BY DEF GroupType
<1>2. Unfinished(h) = Unfinished(g)
  BY <1>1 DEF Unfinished
<1>3. Held(h) = Held(g)
  BY <1>1, <1>2 DEF Held
<1> QED
  BY <1>1, <1>2, <1>3 DEF GroupSound, RootSound, ChoicesSound

\* Dropping the groups of the jobs C and those that hold nothing.
KeptIn(gs, C) == {g \in Elems(gs) : g.job \notin C /\ Held(g) # {}}
DroppedFrom(gs, C) == UNION {Held(gs[i]) : i \in {k \in DOMAIN gs : gs[k].job \in C}}
LiveCreditsOf(g) == ContinuousPages(g.job, Cardinality(Unfinished(g)))
Recredited(kept) ==
  [i \in DOMAIN kept |-> IF kept[i].root # None THEN kept[i]
                         ELSE [kept[i] EXCEPT !.credits = LiveCreditsOf(kept[i])]]

\* hs are the groups of gs, at the places h, that go on.
Dropped(gs, hs, C, h) ==
  /\ h \in [DOMAIN hs -> DOMAIN gs]
  /\ \A a, b \in DOMAIN hs : h[a] = h[b] => a = b
  /\ \A a \in DOMAIN hs : /\ hs[a].job = gs[h[a]].job /\ hs[a].root = gs[h[a]].root
                          /\ hs[a].choices = gs[h[a]].choices
                          /\ hs[a].restoring = gs[h[a]].restoring
                          /\ gs[h[a]].job \notin C /\ Held(gs[h[a]]) # {}
                          /\ hs[a].credits = IF hs[a].root # None THEN gs[h[a]].credits
                                             ELSE LiveCreditsOf(hs[a])
  /\ \A i \in DOMAIN gs : gs[i].job \notin C /\ Held(gs[i]) # {}
                          => \E a \in DOMAIN hs : h[a] = i

LEMMA WorldDrop ==
  ASSUME NEW gs, NEW p, NEW t, NEW d, World(gs, p, t, d), NEW C,
         NEW kept, kept = Only(gs, KeptIn(gs, C)),
         NEW hs, hs = Recredited(kept),
         NEW q, q = ReleaseAll(p, DroppedFrom(gs, C))
  PROVE  World(hs, q, t, d) /\ \E h : Dropped(gs, hs, C, h)
<1>1. /\ gs \in Seq(GroupType) /\ p \in Pool /\ PoolInv(p) /\ HeldApart(gs)
      /\ \A i \in DOMAIN gs : GroupSound(gs[i], p, t)
  BY DEF World
<1>2. /\ Len(gs) \in Nat /\ DOMAIN gs = 1 .. Len(gs)
      /\ \A i \in DOMAIN gs : gs[i] \in GroupType /\ Held(gs[i]) \subseteq Slot
  BY WorldGroups
<1>3. PICK S : S = KeptIn(gs, C)
  OBVIOUS
<1>4. kept \in Seq(GroupType) /\ \E h : Selects(gs, S, Len(gs), kept, h)
  BY <1>1, <1>3, OnlySelects
<1>5. PICK h : Selects(gs, S, Len(gs), kept, h)
  BY <1>4
<1>6. Len(kept) \in Nat /\ DOMAIN kept = 1 .. Len(kept)
      /\ \A a \in DOMAIN kept : kept[a] \in GroupType
  BY <1>4
<1>7. /\ h \in [DOMAIN kept -> DOMAIN gs]
      /\ \A a, b \in DOMAIN kept : a < b => h[a] < h[b]
      /\ \A a \in DOMAIN kept : kept[a] = gs[h[a]] /\ kept[a] \in S
      /\ \A i \in DOMAIN gs : gs[i] \in S => \E a \in DOMAIN kept : h[a] = i
  BY <1>2, <1>5, <1>6 DEF Selects
<1>8. ASSUME NEW a \in DOMAIN kept, NEW b \in DOMAIN kept, h[a] = h[b] PROVE a = b
  <2>1. h[a] \in Nat /\ ~(h[a] < h[b]) /\ ~(h[b] < h[a])
    BY <1>2, <1>7, <1>8
  <2>2. a \in Nat /\ b \in Nat /\ ~(a < b) /\ ~(b < a)
    BY <1>6, <1>7, <2>1
  <2> QED
    BY <2>2
<1>9. ASSUME NEW a \in DOMAIN kept
      PROVE  /\ hs[a] \in GroupType /\ hs[a].job = kept[a].job /\ hs[a].root = kept[a].root
             /\ hs[a].choices = kept[a].choices /\ hs[a].restoring = kept[a].restoring
             /\ Held(hs[a]) = Held(kept[a]) /\ GroupSound(hs[a], p, t)
             /\ hs[a].credits = IF hs[a].root # None THEN kept[a].credits
                                ELSE LiveCreditsOf(hs[a])
  <2>1. PICK g \in GroupType : g = kept[a]
    BY <1>6
  <2>2. GroupSound(g, p, t)
    BY <1>1, <1>7, <2>1
  <2>3. CASE g.root # None
    BY <2>1, <2>2, <2>3 DEF Recredited
  <2>4. CASE g.root = None
    <3>1. PICK n : n = LiveCreditsOf(g)
      OBVIOUS
    <3>2. n \in Nat
      BY <3>1, UnfinishedCount, GroupFields, ContinuousPagesType DEF LiveCreditsOf
    <3>3. PICK k : k = [g EXCEPT !.credits = n]
      OBVIOUS
    <3>4. /\ k \in GroupType /\ k.job = g.job /\ k.root = g.root /\ k.choices = g.choices
          /\ k.restoring = g.restoring /\ k.credits = n
          /\ Held(k) = Held(g) /\ Unfinished(k) = Unfinished(g) /\ GroupSound(k, p, t)
      BY <2>2, <3>2, <3>3, CreditsFrame
    <3>5. hs[a] = k
      BY <2>1, <2>4, <3>1, <3>3 DEF Recredited
    <3>6. n = LiveCreditsOf(k)
      BY <3>1, <3>4 DEF LiveCreditsOf
    <3> QED
      BY <2>1, <2>4, <3>4, <3>5, <3>6
  <2> QED
    BY <2>3, <2>4
<1>10. hs \in Seq(GroupType) /\ DOMAIN hs = DOMAIN kept
  <2>1. hs = [i \in 1 .. Len(kept) |-> hs[i]]
    BY <1>6 DEF Recredited
  <2> QED
    BY <1>6, <1>9, <2>1
<1>11. PICK R : R = DroppedFrom(gs, C)
  OBVIOUS
<1>16. \A g \in S : g.job \notin C /\ Held(g) # {}
  BY <1>3 DEF KeptIn
<1>12. Without(p, q, R)
  <2>1. q = ReleaseAll(p, R)
    BY <1>11 DEF DroppedFrom
  <2>2. q \in Pool /\ PoolInv(q)
    BY <1>1, <2>1, ReleaseAllSound
  <2>3. /\ q.past = p.past
        /\ \A s \in Slot : /\ q.live[s] <=> (p.live[s] /\ s \notin R)
                           /\ s \notin R => q.table[s] = p.table[s]
    BY <1>1, <2>1, ReleaseAllEffect
  <2> QED
    BY <2>2, <2>3 DEF Without
<1>13. Shrunk(gs, hs, h)
  <2>1. \A a \in DOMAIN hs : Held(hs[a]) \subseteq Held(gs[h[a]])
    BY <1>7, <1>9, <1>10
  <2> QED
    BY <1>7, <1>8, <1>10, <2>1 DEF Shrunk
<1>14. GivenUp(gs, hs, R)
  <2> SUFFICES ASSUME NEW s \in Slot
               PROVE  s \in R <=> /\ \E i \in DOMAIN gs : s \in Held(gs[i])
                                  /\ ~\E a \in DOMAIN hs : s \in Held(hs[a])
    BY DEF GivenUp
  <2>1. s \in R <=> \E i \in DOMAIN gs : gs[i].job \in C /\ s \in Held(gs[i])
    BY <1>11 DEF DroppedFrom
  <2>2. \A i, k \in DOMAIN gs : s \in Held(gs[i]) /\ s \in Held(gs[k]) => i = k
    BY <1>1 DEF HeldApart
  <2>3. \A a \in DOMAIN hs : /\ h[a] \in DOMAIN gs /\ Held(hs[a]) = Held(gs[h[a]])
                             /\ gs[h[a]].job \notin C
    BY <1>7, <1>9, <1>10, <1>16
  <2>4. ASSUME NEW i \in DOMAIN gs, gs[i].job \notin C, s \in Held(gs[i])
        PROVE  \E a \in DOMAIN hs : s \in Held(hs[a])
    <3>1. gs[i] \in S
      BY <2>4, <1>3 DEF Elems, KeptIn
    <3>2. PICK a \in DOMAIN hs : h[a] = i
      BY <3>1, <1>7, <1>10
    <3> QED
      BY <2>3, <2>4, <3>2
  <2> QED
    BY <2>1, <2>2, <2>3, <2>4
<1>15. \A a \in DOMAIN hs : GroupSound(hs[a], p, t)
  BY <1>7, <1>9, <1>10
<1>17. World(hs, q, t, d)
  BY <1>10, <1>12, <1>13, <1>14, <1>15, WorldKeep, Zenon
<1>18. \A a \in DOMAIN hs : /\ hs[a].job = gs[h[a]].job /\ hs[a].root = gs[h[a]].root
                            /\ hs[a].choices = gs[h[a]].choices
                            /\ hs[a].restoring = gs[h[a]].restoring
                            /\ gs[h[a]].job \notin C /\ Held(gs[h[a]]) # {}
                            /\ hs[a].credits =
                                 IF hs[a].root # None THEN gs[h[a]].credits
                                 ELSE LiveCreditsOf(hs[a])
  BY <1>7, <1>9, <1>10, <1>16
<1>19. \A i \in DOMAIN gs : gs[i].job \notin C /\ Held(gs[i]) # {}
                            => \E a \in DOMAIN hs : h[a] = i
  BY <1>3, <1>7, <1>10 DEF Elems, KeptIn
<1> QED
  <2>1. /\ \A a, b \in DOMAIN hs : h[a] = h[b] => a = b
        /\ h \in [DOMAIN hs -> DOMAIN gs]
    BY <1>13 DEF Shrunk
  <2>2. Dropped(gs, hs, C, h)
    BY <1>18, <1>19, <2>1 DEF Dropped
  <2> QED
    BY <1>17, <2>2

-----------------------------------------------------------------------------
(***************************************************************************)
(* Forking the choices                                                     *)
(***************************************************************************)
LEMMA FirstDeadSound ==
  ASSUME NEW p \in Pool, \E s \in Slot : ~p.live[s]
  PROVE  FirstDead(p) \in Slot /\ IsFirstDead(p, FirstDead(p))
<1> DEFINE T == {s \in Slot : ~p.live[s]}
<1>1. T \in SUBSET Nat /\ T # {}
  BY SlotsAssumption DEF Slot
<1>2. PICK s \in T : \A r \in T : s <= r
  BY <1>1, NatLeast
<1>3. s \in Slot /\ ~p.live[s] /\ s \in Nat
  BY <1>1
<1>4. ASSUME NEW r \in 0 .. s - 1 PROVE p.live[r]
  <2>1. r \in Slot /\ r \in Nat /\ ~(s <= r)
    BY <1>3, <1>4, SlotsAssumption DEF Slot
  <2> QED
    BY <1>2, <2>1
<1>5. IsFirstDead(p, s)
  BY <1>3, <1>4 DEF IsFirstDead
<1> QED
  BY <1>3, <1>5 DEF FirstDead

\* q is p with the dead slots `slots` made copies of r.
ForkedSound(p, r, q, slots) ==
  /\ q \in Pool /\ PoolInv(q) /\ q.free = p.free
  /\ slots \in Seq(Slot) /\ Distinct(slots)
  /\ \A s \in Elems(slots) : ~p.live[s]
  /\ \A s \in Slot :
       /\ q.live[s] <=> (p.live[s] \/ s \in Elems(slots))
       /\ q.past[s] = IF s \in Elems(slots) THEN p.past[r] ELSE p.past[s]
       /\ q.table[s] = IF s \in Elems(slots) THEN SharedPrefix(p, r) ELSE p.table[s]

LEMMA AppendOne ==
  ASSUME NEW V, NEW seq \in Seq(V), NEW x \in V
  PROVE  Elems(Append(seq, x)) = Elems(seq) \cup {x}
<1>1. PICK r : r = Append(seq, x)
  OBVIOUS
<1>2. /\ DOMAIN r = 1 .. Len(seq) + 1 /\ DOMAIN seq = 1 .. Len(seq) /\ Len(seq) \in Nat
      /\ r[Len(seq) + 1] = x /\ \A i \in 1 .. Len(seq) : r[i] = seq[i]
  BY <1>1
<1>3. /\ \A i \in DOMAIN r : i \in DOMAIN seq \/ i = Len(seq) + 1
      /\ \A i \in DOMAIN seq : i \in DOMAIN r /\ r[i] = seq[i]
      /\ Len(seq) + 1 \in DOMAIN r /\ r[Len(seq) + 1] = x
  BY <1>2
<1>4. \A y \in Elems(r) : y \in Elems(seq) \cup {x}
  BY <1>3 DEF Elems
<1>5. \A y \in Elems(seq) \cup {x} : y \in Elems(r)
  BY <1>3 DEF Elems
<1> QED
  BY <1>1, <1>4, <1>5

LEMMA AppendElems ==
  ASSUME NEW V, NEW seq \in Seq(V), NEW x \in V, NEW r, r = Append(seq, x)
  PROVE  /\ r \in Seq(V) /\ Len(r) = Len(seq) + 1 /\ Len(seq) \in Nat
         /\ DOMAIN r = 1 .. Len(seq) + 1
         /\ r[Len(seq) + 1] = x /\ \A i \in 1 .. Len(seq) : r[i] = seq[i]
         /\ Elems(r) = Elems(seq) \cup {x}
         /\ Distinct(seq) /\ x \notin Elems(seq) => Distinct(r)
<1>1. /\ r \in Seq(V) /\ Len(r) = Len(seq) + 1 /\ Len(seq) \in Nat
      /\ DOMAIN r = 1 .. Len(seq) + 1 /\ DOMAIN seq = 1 .. Len(seq)
      /\ r[Len(seq) + 1] = x /\ \A i \in 1 .. Len(seq) : r[i] = seq[i]
  OBVIOUS
<1>2. \A i \in DOMAIN r : i \in DOMAIN seq \/ i = Len(seq) + 1
  BY <1>1
<1>3. Elems(r) = Elems(seq) \cup {x}
  BY AppendOne
<1>4. ASSUME Distinct(seq), x \notin Elems(seq) PROVE Distinct(r)
  <2>1. \A i \in DOMAIN seq : r[i] = seq[i] /\ seq[i] # x
    BY <1>1, <1>4 DEF Elems
  <2>2. \A i, j \in DOMAIN seq : r[i] = r[j] => i = j
    BY <1>4, <2>1 DEF Distinct
  <2> QED
    BY <1>1, <1>2, <2>1, <2>2 DEF Distinct
<1> QED
  BY <1>1, <1>3, <1>4

LEMMA AppendDistinct ==
  ASSUME NEW V, NEW seq \in Seq(V), NEW x \in V, Distinct(seq), x \notin Elems(seq)
  PROVE  Distinct(Append(seq, x))
  BY AppendElems

\* Distinct elements are as many as their places.
LEMMA DistinctCount ==
  ASSUME NEW V, NEW seq \in Seq(V), Distinct(seq)
  PROVE  IsFiniteSet(Elems(seq)) /\ Cardinality(Elems(seq)) = Len(seq)
<1>1. PICK k \in Nat : k = Len(seq) /\ DOMAIN seq = 1 .. k /\ seq \in [1 .. k -> V]
  OBVIOUS
<1>2. seq \in Picks(V, k)
  BY <1>1 DEF Picks, Distinct
<1> QED
  BY <1>1, <1>2, ElemsCount

LEMMA ForkOne ==
  ASSUME NEW p \in Pool, PoolInv(p), NEW r \in Slot, p.live[r],
         NEW q, NEW slots, ForkedSound(p, r, q, slots),
         Len(slots) < Cardinality({s \in Slot : ~p.live[s]}),
         NEW c, c = FirstDead(q)
  PROVE  /\ ForkedSound(p, r, Fork(q, r, c), Append(slots, c))
         /\ Len(Append(slots, c)) = Len(slots) + 1 /\ Len(slots) \in Nat
<1> DEFINE dead == {s \in Slot : ~p.live[s]}
           more == Append(slots, c)
<1>1. /\ q \in Pool /\ PoolInv(q) /\ q.free = p.free
      /\ slots \in Seq(Slot) /\ Distinct(slots)
      /\ Elems(slots) \subseteq dead
      /\ \A s \in Slot :
           /\ q.live[s] <=> (p.live[s] \/ s \in Elems(slots))
           /\ q.past[s] = IF s \in Elems(slots) THEN p.past[r] ELSE p.past[s]
           /\ q.table[s] = IF s \in Elems(slots) THEN SharedPrefix(p, r) ELSE p.table[s]
  BY DEF ForkedSound, Elems
<1>2. Cardinality(Elems(slots)) = Len(slots)
  BY <1>1, DistinctCount
<1>3. Elems(slots) # dead
  <2>1. Len(slots) \in Nat
    BY <1>1
  <2>2. Len(slots) < Cardinality(dead)
    OBVIOUS
  <2> HIDE DEF dead
  <2> QED
    BY <1>2, <2>1, <2>2
<1>4. \E s \in Slot : ~q.live[s]
  BY <1>1, <1>3
<1>5. c \in Slot /\ IsFirstDead(q, c) /\ ~q.live[c]
  BY <1>1, <1>4, FirstDeadSound DEF IsFirstDead
<1>6. c # r /\ ~p.live[c] /\ c \notin Elems(slots) /\ q.live[r] /\ r \notin Elems(slots)
  BY <1>1, <1>5
<1>7. /\ more \in Seq(Slot) /\ Distinct(more) /\ Len(more) = Len(slots) + 1
      /\ Len(slots) \in Nat
      /\ Elems(more) = Elems(slots) \cup {c}
  <2>1. c \in Slot /\ c \notin Elems(slots) /\ slots \in Seq(Slot) /\ Distinct(slots)
    BY <1>1, <1>5, <1>6
  <2>2. PICK m : m = Append(slots, c)
    OBVIOUS
  <2> HIDE DEF dead
  <2>3. /\ m \in Seq(Slot) /\ Distinct(m) /\ Len(m) = Len(slots) + 1
        /\ Len(slots) \in Nat
        /\ Elems(m) = Elems(slots) \cup {c}
    <3> HIDE <1>1, <1>2, <1>3, <1>4, <1>5, <1>6
    <3>1. m \in Seq(Slot) /\ Len(m) = Len(slots) + 1 /\ Len(slots) \in Nat
      BY <2>1, <2>2
    <3>2. Elems(m) = Elems(slots) \cup {c}
      <4>1. Elems(Append(slots, c)) = Elems(slots) \cup {c}
        BY <2>1, AppendOne
      <4> QED
        BY <2>2, <4>1
    <3>3. Distinct(m)
      BY <2>1, <2>2, AppendDistinct, Zenon
    <3> QED
      BY <3>1, <3>2, <3>3
  <2> QED
    BY <2>2, <2>3
<1>8. Fork(q, r, c) \in Pool /\ PoolInv(Fork(q, r, c))
  BY <1>1, <1>5, <1>6, ForkSound
<1> HIDE DEF more
<1>9. q.table[r] = p.table[r] /\ q.past[r] = p.past[r]
  BY <1>1, <1>6
<1>10. SharedPrefix(q, r) = SharedPrefix(p, r)
  BY <1>9 DEF SharedPrefix
<1>11. PICK f : f = Fork(q, r, c)
  OBVIOUS
<1>12. /\ f.free = q.free /\ f.live = [q.live EXCEPT ![c] = TRUE]
       /\ f.past = [q.past EXCEPT ![c] = p.past[r]]
       /\ f.table = [q.table EXCEPT ![c] = SharedPrefix(p, r)]
  BY <1>9, <1>10, <1>11 DEF Fork
<1>13. \A s \in Slot : /\ f.live[s] <=> (s = c \/ q.live[s])
                       /\ f.past[s] = IF s = c THEN p.past[r] ELSE q.past[s]
                       /\ f.table[s] = IF s = c THEN SharedPrefix(p, r) ELSE q.table[s]
  <2>1. /\ q.live \in [Slot -> BOOLEAN] /\ q.past \in [Slot -> Nat]
        /\ q.table \in [Slot -> Seq(Page)]
    BY <1>1, PoolFields
  <2> HIDE DEF dead
  <2>2. \A s \in Slot : f.live[s] <=> (s = c \/ q.live[s])
    BY <2>1, <1>12
  <2>3. \A s \in Slot : f.past[s] = IF s = c THEN p.past[r] ELSE q.past[s]
    BY <2>1, <1>12
  <2>4. \A s \in Slot : f.table[s] = IF s = c THEN SharedPrefix(p, r) ELSE q.table[s]
    BY <2>1, <1>12
  <2> QED
    BY <2>2, <2>3, <2>4
<1>14. ASSUME NEW s \in Slot
       PROVE  /\ f.live[s] <=> (p.live[s] \/ s \in Elems(more))
              /\ f.past[s] = IF s \in Elems(more) THEN p.past[r] ELSE p.past[s]
              /\ f.table[s] = IF s \in Elems(more) THEN SharedPrefix(p, r) ELSE p.table[s]
  <2>1. s \in Elems(more) <=> s = c \/ s \in Elems(slots)
    BY <1>7
  <2>2. CASE s = c
    BY <1>13, <2>1, <2>2
  <2>3. CASE s # c
    BY <1>1, <1>13, <2>1, <2>3
  <2> QED
    BY <2>2, <2>3
<1>15. \A s \in Elems(more) : ~p.live[s]
  BY <1>1, <1>6, <1>7
<1>16. ForkedSound(p, r, f, more)
  BY <1>1, <1>7, <1>8, <1>11, <1>12, <1>14, <1>15 DEF ForkedSound
<1> QED
  BY <1>7, <1>11, <1>16 DEF more

\* f is the forks of Forked, up to k of them.
ForkedTo(r, k, f) ==
  f = [m \in 0 .. k |->
        IF m = 0 THEN [p |-> pool, slots |-> << >>]
        ELSE LET c == FirstDead(f[m - 1].p)
             IN  [p |-> Fork(f[m - 1].p, r, c), slots |-> Append(f[m - 1].slots, c)]]

LEMMA ForkedExists ==
  ASSUME NEW r, NEW k \in Nat
  PROVE  \E f : ForkedTo(r, k, f)
<1> DEFINE Step(b) == [p |-> Fork(b.p, r, FirstDead(b.p)),
                       slots |-> Append(b.slots, FirstDead(b.p))]
           first == [p |-> pool, slots |-> << >>]
           N == {n \in Nat : \E f : f = [m \in 0 .. n |-> IF m = 0 THEN first
                                                          ELSE Step(f[m - 1])]}
<1> HIDE DEF first, Step
<1>1. 0 \in N
  <2> DEFINE f == [m \in 0 .. 0 |-> first]
  <2>1. f = [m \in 0 .. 0 |-> IF m = 0 THEN first ELSE Step(f[m - 1])]
    OBVIOUS
  <2> QED
    BY <2>1
<1>2. ASSUME NEW n \in Nat, n \in N PROVE n + 1 \in N
  <2>1. PICK f : f = [m \in 0 .. n |-> IF m = 0 THEN first ELSE Step(f[m - 1])]
    BY <1>2
  <2> DEFINE g == [m \in 0 .. n + 1 |-> IF m = n + 1 THEN Step(f[n]) ELSE f[m]]
  <2>2. \A m \in 0 .. n : g[m] = f[m]
    OBVIOUS
  <2>3. ASSUME NEW m \in 0 .. n + 1
        PROVE  g[m] = IF m = 0 THEN first ELSE Step(g[m - 1])
    <3>1. CASE m = n + 1
      <4>1. m - 1 = n /\ n \in 0 .. n /\ m # 0
        BY <3>1
      <4>2. g[m] = Step(f[n]) /\ g[m - 1] = f[n]
        BY <3>1, <4>1, <2>2
      <4> QED
        BY <4>1, <4>2
    <3>2. CASE m # n + 1
      <4>1. m \in 0 .. n /\ (m # 0 => m - 1 \in 0 .. n)
        BY <3>2
      <4>2. f[m] = IF m = 0 THEN first ELSE Step(f[m - 1])
        BY <4>1, <2>1
      <4> QED
        BY <4>1, <4>2, <2>2
    <3> QED
      BY <3>1, <3>2
  <2>4. g = [m \in 0 .. n + 1 |-> g[m]]
    OBVIOUS
  <2> HIDE DEF g
  <2>5. g = [m \in 0 .. n + 1 |-> IF m = 0 THEN first ELSE Step(g[m - 1])]
    BY <2>3, <2>4
  <2> QED
    BY <2>5
<1> HIDE DEF N
<1>3. k \in N
  BY <1>1, <1>2, NatInd
<1>4. PICK f : f = [m \in 0 .. k |-> IF m = 0 THEN first ELSE Step(f[m - 1])]
  BY <1>3 DEF N
<1>5. ForkedTo(r, k, f)
  BY <1>4 DEF ForkedTo, first, Step
<1> QED
  BY <1>5

LEMMA ForkedFacts ==
  ASSUME pool \in Pool, PoolInv(pool), NEW r \in Slot, pool.live[r],
         NEW k \in Nat, k <= Cardinality({s \in Slot : ~pool.live[s]}),
         NEW b, b = Forked(r, k)
  PROVE  ForkedSound(pool, r, b.p, b.slots) /\ Len(b.slots) = k
<1> DEFINE f == CHOOSE f : ForkedTo(r, k, f)
<1>1. Forked(r, k) = f[k]
  BY DEF Forked, ForkedTo
<1>2. ForkedTo(r, k, f)
  BY ForkedExists
<1> HIDE DEF f
<1>3. f[0] = [p |-> pool, slots |-> << >>]
  BY <1>2 DEF ForkedTo
<1>4. ASSUME NEW m \in Nat, m + 1 <= k
      PROVE  /\ f[m + 1].p = Fork(f[m].p, r, FirstDead(f[m].p))
             /\ f[m + 1].slots = Append(f[m].slots, FirstDead(f[m].p))
  <2>1. m + 1 \in 0 .. k /\ m + 1 # 0 /\ (m + 1) - 1 = m
    BY <1>4
  <2>2. PICK q : q = f[m]
    OBVIOUS
  <2>3. f[m + 1] = [p |-> Fork(q.p, r, FirstDead(q.p)),
                    slots |-> Append(q.slots, FirstDead(q.p))]
    BY <1>2, <2>1, <2>2 DEF ForkedTo
  <2> QED
    BY <2>2, <2>3
<1> DEFINE N == {m \in Nat : m <= k => /\ ForkedSound(pool, r, f[m].p, f[m].slots)
                                       /\ Len(f[m].slots) = m}
<1>5. 0 \in N
  <2>1. /\ << >> \in Seq(Slot) /\ Distinct(<< >>) /\ Elems(<< >>) = {}
        /\ Len(<< >>) = 0
    BY DEF Elems, Distinct
  <2>2. ForkedSound(pool, r, pool, << >>)
    BY <2>1 DEF ForkedSound
  <2> QED
    BY <1>3, <2>1, <2>2
<1>6. ASSUME NEW m \in Nat, m \in N PROVE m + 1 \in N
  <2> SUFFICES ASSUME m + 1 <= k
               PROVE  /\ ForkedSound(pool, r, f[m + 1].p, f[m + 1].slots)
                      /\ Len(f[m + 1].slots) = m + 1
    OBVIOUS
  <2>1. PICK q, slots : q = f[m].p /\ slots = f[m].slots
    OBVIOUS
  <2>2. ForkedSound(pool, r, q, slots) /\ Len(slots) = m
    BY <1>6, <2>1
  <2>3. PICK n : n = Cardinality({s \in Slot : ~pool.live[s]})
    OBVIOUS
  <2>4. n \in Nat
    BY <2>3, SlotFinite
  <2>5. Len(slots) < Cardinality({s \in Slot : ~pool.live[s]})
    BY <2>2, <2>3, <2>4
  <2>6. /\ ForkedSound(pool, r, Fork(q, r, FirstDead(q)), Append(slots, FirstDead(q)))
        /\ Len(Append(slots, FirstDead(q))) = Len(slots) + 1
    BY <2>2, <2>5, ForkOne
  <2> QED
    BY <1>4, <2>1, <2>2, <2>6
<1> HIDE DEF N
<1>7. k \in N
  BY <1>5, <1>6, NatInd
<1> QED
  BY <1>1, <1>7 DEF N

\* A prefix as long as the whole is the whole.
LEMMA PrefixWhole ==
  ASSUME NEW V, NEW a \in Seq(V), NEW b \in Seq(V), IsPrefix(a, b)
  PROVE  /\ Len(a) <= Len(b)
         /\ \A i \in 1 .. Len(a) : a[i] = b[i]
         /\ Len(a) = Len(b) => a = b
<1>1. /\ Len(a) \in Nat /\ Len(b) \in Nat /\ Len(a) <= Len(b)
      /\ \A i \in 1 .. Len(a) : SubSeq(a, 1, Len(a))[i] = SubSeq(b, 1, Len(a))[i]
  BY DEF IsPrefix
<1>2. \A i \in 1 .. Len(a) : SubSeq(a, 1, Len(a))[i] = a[i] /\ SubSeq(b, 1, Len(a))[i] = b[i]
  BY <1>1
<1>3. \A i \in 1 .. Len(a) : a[i] = b[i]
  BY <1>1, <1>2
<1>4. Len(a) = Len(b) => a = b
  BY <1>3
<1> QED
  BY <1>1, <1>3, <1>4

\* The group g once its n choices are the root and the slots.
Branch(g, slots) ==
  [seq |-> 0, pending |-> None, stepped |-> Prompt[g.job], logits |-> g.logits, finished |-> FALSE]

\* Group g once its choices have the sequences seqs.
Started(g, seqs) ==
  [g EXCEPT !.root = None, !.logits = 0,
     !.choices = [c \in 1 .. NChoices[g.job] |->
       [seq |-> seqs[c], pending |-> None, stepped |-> Prompt[g.job],
        logits |-> g.logits, finished |-> FALSE]]]

LEMMA StartedFacts ==
  ASSUME NEW g \in GroupType, NEW seqs \in Seq(Slot), NEW n \in Nat,
         n = NChoices[g.job], Len(seqs) = n,
         NEW h, h = Started(g, seqs)
  PROVE  /\ h \in GroupType /\ h.job = g.job /\ h.root = None
         /\ h.restoring = g.restoring /\ h.credits = g.credits
         /\ Len(h.choices) = n /\ Unfinished(h) = 1 .. n
         /\ Held(h) = Elems(seqs)
         /\ \A c \in 1 .. n : /\ h.choices[c].seq = seqs[c]
                              /\ h.choices[c].stepped = Prompt[g.job]
                              /\ h.choices[c].logits = g.logits
<1>1. PICK f : f = [c \in 1 .. n |->
        [seq |-> seqs[c], pending |-> None, stepped |-> Prompt[g.job],
         logits |-> g.logits, finished |-> FALSE]]
  OBVIOUS
<1>2. /\ h.job = g.job /\ h.root = None /\ h.restoring = g.restoring
      /\ h.credits = g.credits /\ h.imported = g.imported /\ h.logits = 0
      /\ h.choices = f
      /\ h = [job |-> h.job, root |-> h.root, choices |-> h.choices,
              credits |-> h.credits, restoring |-> h.restoring,
              imported |-> h.imported, logits |-> h.logits]
  BY <1>1 DEF GroupType, Started
<1>3. /\ g.job \in Job /\ g.credits \in Nat /\ g.restoring \in BOOLEAN
      /\ g.imported \in Nat /\ g.logits \in Nat
  BY GroupFields
<1>4. Prompt[g.job] \in Seq(Token)
  BY <1>3, JobFacts
<1>5. \A c \in 1 .. n : seqs[c] \in Slot
  OBVIOUS
<1>6. \A c \in 1 .. n : /\ f[c] \in ChoiceType
                        /\ f[c].seq = seqs[c] /\ f[c].stepped = Prompt[g.job]
                        /\ f[c].logits = g.logits /\ ~f[c].finished
  BY <1>1, <1>3, <1>4, <1>5 DEF ChoiceType
<1>7. f \in Seq(ChoiceType) /\ Len(f) = n /\ DOMAIN f = 1 .. n
  <2>1. DOMAIN f = 1 .. n /\ f = [c \in 1 .. n |-> f[c]]
    BY <1>1
  <2>2. f \in [1 .. n -> ChoiceType]
    BY <1>6, <2>1
  <2> HIDE <1>1
  <2> QED
    BY <2>2
<1>8. h \in GroupType
  BY <1>2, <1>3, <1>7 DEF GroupType
<1>9. Unfinished(h) = 1 .. n
  BY <1>2, <1>6, <1>7 DEF Unfinished
<1>10. Held(h) = Elems(seqs)
  <2>1. Held(h) = {seqs[c] : c \in 1 .. n}
    BY <1>2, <1>6, <1>9 DEF Held
  <2>2. DOMAIN seqs = 1 .. n
    OBVIOUS
  <2> QED
    BY <2>1, <2>2 DEF Elems
<1> QED
  BY <1>2, <1>6, <1>7, <1>8, <1>9, <1>10

\* The sequences of the choices: the root and its forks.
Family(r, slots) == <<r>> \o slots

LEMMA ConsFacts ==
  ASSUME NEW r \in Slot, NEW slots \in Seq(Slot), NEW seqs, seqs = Family(r, slots)
  PROVE  /\ seqs \in Seq(Slot) /\ Len(seqs) = Len(slots) + 1 /\ Len(slots) \in Nat
         /\ seqs[1] = r /\ \A i \in 1 .. Len(slots) : seqs[i + 1] = slots[i]
         /\ \A s : s \in Elems(seqs) <=> s = r \/ s \in Elems(slots)
         /\ Distinct(slots) /\ r \notin Elems(slots) => Distinct(seqs)
<1>1. /\ seqs \in Seq(Slot) /\ Len(seqs) = Len(slots) + 1 /\ Len(slots) \in Nat
      /\ DOMAIN seqs = 1 .. Len(slots) + 1 /\ DOMAIN slots = 1 .. Len(slots)
      /\ seqs[1] = r /\ \A i \in 1 .. Len(slots) : seqs[i + 1] = slots[i]
  BY DEF Family
<1>2. \A i \in DOMAIN seqs : i # 1 => i - 1 \in DOMAIN slots /\ seqs[i] = slots[i - 1]
  <2> SUFFICES ASSUME NEW i \in DOMAIN seqs, i # 1
               PROVE  i - 1 \in DOMAIN slots /\ seqs[i] = slots[i - 1]
    OBVIOUS
  <2>1. i \in 1 .. Len(slots) + 1
    BY <1>1
  <2>2. i - 1 \in 1 .. Len(slots) /\ (i - 1) + 1 = i
    BY <1>1, <2>1
  <2>3. seqs[(i - 1) + 1] = slots[i - 1]
    BY <1>1, <2>2
  <2> QED
    BY <1>1, <2>2, <2>3
<1>3. Elems(seqs) = {r} \cup Elems(slots)
  <2>1. \A y \in Elems(seqs) : y \in {r} \cup Elems(slots)
    BY <1>1, <1>2 DEF Elems
  <2>2. \A i \in DOMAIN slots : i + 1 \in DOMAIN seqs /\ seqs[i + 1] = slots[i]
    BY <1>1
  <2>3. 1 \in DOMAIN seqs /\ seqs[1] = r
    BY <1>1
  <2>4. \A y \in {r} \cup Elems(slots) : y \in Elems(seqs)
    BY <2>2, <2>3 DEF Elems
  <2> QED
    BY <2>1, <2>4
<1>4. ASSUME Distinct(slots), r \notin Elems(slots) PROVE Distinct(seqs)
  <2>1. \A i \in DOMAIN seqs : i # 1 => i - 1 \in DOMAIN slots /\ seqs[i] = slots[i - 1] /\ seqs[i] # r
    BY <1>2, <1>4 DEF Elems
  <2>2. \A i, j \in DOMAIN seqs : i # 1 /\ j # 1 /\ seqs[i] = seqs[j] => i = j
    <3> SUFFICES ASSUME NEW i \in DOMAIN seqs, NEW j \in DOMAIN seqs,
                        i # 1, j # 1, seqs[i] = seqs[j]
                 PROVE  i = j
      OBVIOUS
    <3>1. i - 1 = j - 1
      BY <2>1, <1>4 DEF Distinct
    <3> QED
      BY <1>1, <3>1
  <2> QED
    BY <1>1, <2>1, <2>2 DEF Distinct
<1> QED
  BY <1>1, <1>3, <1>4

\* A group starts its choices: the root is the first, forks are the others.
Prefilled(g, p) == g.root # None /\ ~g.restoring /\ p.past[g.root] = PromptLen(g.job)
ForkedFor(p, g, q, slots) ==
  ForkedSound(p, g.root, q, slots) /\ Len(slots) = NChoices[g.job] - 1
TextForked(t, r, slots) == [s \in Slot |-> IF s \in Elems(slots) THEN t[r] ELSE t[s]]
Begun(g, h) ==
  /\ h.job = g.job /\ h.credits = g.credits /\ h.root = None
  /\ h.restoring = g.restoring
  /\ Unfinished(h) = 1 .. NChoices[g.job]
  /\ \A c \in 1 .. NChoices[g.job] : h.choices[c].logits = Len(h.choices[c].stepped)

LEMMA WorldStart ==
  ASSUME NEW gs, NEW p, NEW t, NEW d, World(gs, p, t, d),
         NEW i \in DOMAIN gs, NEW g, g = gs[i], Prefilled(g, p),
         NEW q, NEW slots, ForkedFor(p, g, q, slots),
         NEW h, h = Started(g, Family(g.root, slots)),
         NEW u, u = TextForked(t, g.root, slots)
  PROVE  /\ World([gs EXCEPT ![i] = h], q, u, d)
         /\ Begun(g, h)
<1>1. /\ gs \in Seq(GroupType) /\ p \in Pool /\ t \in [Slot -> Seq(Token)] /\ d \in IdleType
      /\ PoolInv(p) /\ HeldApart(gs) /\ HeldLive(gs, p, d)
      /\ d.seq # None => t[d.seq] = d.ids
      /\ \A s \in Slot : p.live[s] => p.past[s] = Len(t[s])
      /\ \A k \in DOMAIN gs : GroupSound(gs[k], p, t)
  BY DEF World
<1>2. /\ \A k \in DOMAIN gs : gs[k] \in GroupType /\ Held(gs[k]) \subseteq Slot
      /\ \A k \in DOMAIN gs : \A s \in Held(gs[k]) : p.live[s]
      /\ d.seq \in Slot \cup {None}
      /\ d.seq # None => p.live[d.seq]
  BY WorldGroups
<1>3. /\ q \in Pool /\ PoolInv(q)
      /\ slots \in Seq(Slot) /\ Distinct(slots)
      /\ \A s \in Elems(slots) : ~p.live[s]
      /\ \A s \in Slot :
           /\ q.live[s] <=> (p.live[s] \/ s \in Elems(slots))
           /\ q.past[s] = IF s \in Elems(slots) THEN p.past[g.root] ELSE p.past[s]
           /\ q.table[s] = IF s \in Elems(slots) THEN SharedPrefix(p, g.root) ELSE p.table[s]
  BY DEF ForkedSound, ForkedFor
<1>4. PICK r \in Slot : r = g.root
  BY <1>2, GroupFields DEF Prefilled
<1>5. PICK seqs : seqs = Family(r, slots)
  OBVIOUS
<1>6. g \in GroupType /\ GroupSound(g, p, t) /\ p.live[r] /\ r \notin Elems(slots)
  <2>1. r \in Held(g)
    BY <1>2, <1>4, HeldSlots DEF Prefilled
  <2> QED
    BY <1>1, <1>2, <1>3, <2>1
<1>7. PICK n \in Nat : n = NChoices[g.job] /\ n # 0
  BY <1>6, GroupFields, JobFacts
<1>8. /\ seqs \in Seq(Slot) /\ Len(seqs) = n
      /\ Elems(seqs) = {r} \cup Elems(slots) /\ Distinct(seqs)
  <2>1. /\ seqs \in Seq(Slot) /\ Len(seqs) = Len(slots) + 1 /\ Len(slots) \in Nat
        /\ Elems(seqs) = {r} \cup Elems(slots)
        /\ Distinct(slots) /\ r \notin Elems(slots) => Distinct(seqs)
    <3> HIDE <1>1, <1>2
    <3>1. r \in Slot /\ slots \in Seq(Slot) /\ seqs = Family(r, slots)
      BY <1>3, <1>4, <1>5
    <3>2. seqs \in Seq(Slot) /\ Len(seqs) = Len(slots) + 1 /\ Len(slots) \in Nat
      BY <3>1, ConsFacts
    <3>3. Elems(seqs) = {r} \cup Elems(slots)
      <4>1. \A s : s \in Elems(seqs) <=> s = r \/ s \in Elems(slots)
        BY <3>1, ConsFacts
      <4> QED
        BY <4>1
    <3>4. Distinct(slots) /\ r \notin Elems(slots) => Distinct(seqs)
      BY <3>1, ConsFacts
    <3> QED
      BY <3>2, <3>3, <3>4
  <2>2. Len(slots) = n - 1
    BY <1>7 DEF ForkedFor
  <2> QED
    BY <1>3, <1>6, <1>7, <2>1, <2>2
<1>9. h = Started(g, seqs)
  BY <1>4, <1>5
<1>10. /\ h \in GroupType /\ h.job = g.job /\ h.root = None
       /\ h.restoring = g.restoring /\ h.credits = g.credits /\ ~g.restoring
       /\ Len(h.choices) = n /\ Unfinished(h) = 1 .. n
       /\ Held(h) = Elems(seqs)
       /\ \A c \in 1 .. n : /\ h.choices[c].seq = seqs[c]
                            /\ h.choices[c].stepped = Prompt[g.job]
                            /\ h.choices[c].logits = g.logits
  BY <1>6, <1>7, <1>8, <1>9, StartedFacts DEF Prefilled
<1>11. RootSound(g, p, t)
  BY <1>6 DEF GroupSound, Prefilled
<1>12. /\ t[r] = Prompt[g.job] /\ g.logits = Len(Prompt[g.job])
       /\ Prompt[g.job] \in Seq(Token) /\ g.choices = << >>
  <2>1. g.job \in Job
    BY <1>6, GroupFields
  <2>2. Prompt[g.job] \in Seq(Token) /\ PromptLen(g.job) = Len(Prompt[g.job])
    BY <2>1, JobFacts
  <2>3. IsPrefix(t[r], Prompt[g.job]) /\ g.logits = PromptLen(g.job) /\ g.choices = << >>
    BY <1>4, <1>11 DEF RootSound, Prefilled
  <2>4. Len(t[r]) = Len(Prompt[g.job]) /\ t[r] \in Seq(Token)
    BY <1>1, <1>4, <1>6, <2>2 DEF Prefilled
  <2>5. t[r] = Prompt[g.job]
    BY <2>2, <2>3, <2>4, PrefixWhole
  <2> QED
    BY <2>2, <2>3, <2>5
<1>13. Held(g) = {r}
  BY <1>4, <1>12 DEF Held, Unfinished, Prefilled
<1>14. u \in [Slot -> Seq(Token)]
       /\ \A s \in Slot : u[s] = IF s \in Elems(slots) THEN Prompt[g.job] ELSE t[s]
  BY <1>1, <1>4, <1>12 DEF TextForked
<1>15. PICK hs : hs = [gs EXCEPT ![i] = h]
  OBVIOUS
<1>16. /\ hs \in Seq(GroupType) /\ DOMAIN hs = DOMAIN gs
       /\ hs[i] = h /\ \A k \in DOMAIN gs : k # i => hs[k] = gs[k]
  BY <1>1, <1>10, <1>15
<1>17. \A k \in DOMAIN gs : k # i => r \notin Held(gs[k]) /\ Held(gs[k]) \cap Elems(slots) = {}
  <2>1. \A k \in DOMAIN gs : k # i => Held(gs[k]) \cap Held(gs[i]) = {}
    BY <1>1 DEF HeldApart
  <2> QED
    BY <1>2, <1>3, <1>13, <2>1
<1>18. HeldApart(hs)
  BY <1>1, <1>8, <1>10, <1>16, <1>17 DEF HeldApart
<1>19. d.seq # r /\ d.seq \notin Elems(slots)
  <2>1. d.seq \notin Held(gs[i])
    BY <1>1 DEF HeldLive
  <2>2. None \notin Elems(slots)
    BY <1>3, NoneIsNoSlot DEF Elems
  <2>3. d.seq # r
    BY <1>13, <2>1
  <2>4. d.seq \notin Elems(slots)
    <3>1. CASE d.seq = None
      BY <2>2, <3>1
    <3>2. CASE d.seq # None
      <4>1. p.live[d.seq]
        BY <1>2, <3>2
      <4>2. \A s \in Elems(slots) : ~p.live[s]
        BY <1>3
      <4> QED
        BY <4>1, <4>2
    <3> QED
      BY <3>1, <3>2
  <2> QED
    BY <2>3, <2>4
<1>20. HeldLive(hs, q, d)
  <2>1. \A k \in DOMAIN hs : d.seq \notin Held(hs[k])
    <3>1. \A k \in DOMAIN gs : d.seq \notin Held(gs[k])
      BY <1>1 DEF HeldLive
    <3>2. d.seq \notin Held(h)
      BY <1>8, <1>10, <1>19
    <3> QED
      BY <1>16, <3>1, <3>2
  <2>2. ASSUME NEW s \in Slot
        PROVE  q.live[s] <=> (d.seq = s \/ \E k \in DOMAIN hs : s \in Held(hs[k]))
    <3>1. p.live[s] <=> (d.seq = s \/ \E k \in DOMAIN gs : s \in Held(gs[k]))
      BY <1>1 DEF HeldLive
    <3>2. (\E k \in DOMAIN hs : s \in Held(hs[k]))
          <=> (s \in Elems(slots) \/ \E k \in DOMAIN gs : s \in Held(gs[k]))
      BY <1>8, <1>10, <1>13, <1>16
    <3>3. q.live[s] <=> (p.live[s] \/ s \in Elems(slots))
      BY <1>3
    <3> QED
      BY <3>1, <3>2, <3>3, Zenon
  <2> QED
    BY <2>1, <2>2 DEF HeldLive
<1>21. \A s \in Slot : q.live[s] => q.past[s] = Len(u[s])
  <2>1. p.past[r] = Len(Prompt[g.job])
    BY <1>1, <1>4, <1>6, <1>12
  <2> QED
    BY <1>1, <1>3, <1>4, <1>14, <2>1
<1>22. ASSUME NEW k \in DOMAIN hs PROVE GroupSound(hs[k], q, u)
  <2>1. CASE k # i
    <3>1. PICK o \in GroupType : o = gs[k] /\ o = hs[k]
      BY <1>2, <1>16, <2>1
    <3>2. ASSUME NEW s \in Held(o)
          PROVE  /\ q.past[s] = p.past[s] /\ u[s] = t[s]
                 /\ Len(p.table[s]) <= Len(q.table[s])
                 /\ Len(p.table[s]) \in Nat /\ Len(q.table[s]) \in Nat
      <4>1. s \in Slot /\ s \notin Elems(slots)
        BY <1>2, <1>16, <1>17, <2>1, <3>1
      <4>2. q.table[s] = p.table[s] /\ q.past[s] = p.past[s] /\ u[s] = t[s]
        BY <1>3, <1>14, <4>1
      <4>3. Len(p.table[s]) \in Nat
        BY <1>1, <4>1, TableLengths
      <4> QED
        BY <4>2, <4>3
    <3>3. GroupSound(o, p, t)
      BY <1>1, <1>16, <3>1
    <3> QED
      BY <3>1, <3>2, <3>3, GroupFrame
  <2>2. CASE k = i
    <3>1. \A c \in 1 .. n : h.choices[c].seq \in Slot /\ u[h.choices[c].seq] = h.choices[c].stepped
      <4> SUFFICES ASSUME NEW c \in 1 .. n
                   PROVE  seqs[c] \in Slot /\ u[seqs[c]] = Prompt[g.job]
        BY <1>10
      <4>1. seqs[c] \in Elems(seqs) /\ seqs[c] \in Slot
        BY <1>8 DEF Elems
      <4>2. CASE seqs[c] = r
        BY <1>6, <1>12, <1>14, <4>1, <4>2
      <4>3. CASE seqs[c] # r
        BY <1>8, <1>14, <4>1, <4>3
      <4> QED
        BY <4>2, <4>3
    <3>2. \A c, e \in 1 .. n : h.choices[c].seq = h.choices[e].seq => c = e
      <4>1. \A c, e \in 1 .. n : seqs[c] = seqs[e] => c = e
        <5>1. DOMAIN seqs = 1 .. n
          BY <1>8
        <5> QED
          BY <1>8, <5>1 DEF Distinct
      <4> QED
        BY <1>10, <4>1
    <3>3. ChoicesSound(h, u)
      BY <1>10, <3>1, <3>2 DEF ChoicesSound
    <3>4. GroupSound(h, q, u)
      BY <1>7, <1>10, <3>3 DEF GroupSound
    <3> QED
      BY <1>16, <2>2, <3>4
  <2> QED
    BY <2>1, <2>2
<1>23. d.seq # None => u[d.seq] = d.ids
  <2> SUFFICES ASSUME d.seq # None PROVE u[d.seq] = d.ids
    OBVIOUS
  <2>1. d.seq \in Slot
    BY <1>2
  <2>2. t[d.seq] = d.ids
    BY <1>1
  <2> QED
    BY <1>14, <1>19, <2>1, <2>2
<1>24. World(hs, q, u, d)
  BY <1>1, <1>3, <1>14, <1>16, <1>18, <1>20, <1>21, <1>22, <1>23 DEF World
<1>25. Begun(g, h)
  BY <1>7, <1>10, <1>12 DEF Begun
<1> QED
  BY <1>15, <1>24, <1>25

-----------------------------------------------------------------------------
(***************************************************************************)
(* The inductive invariant: the phases                                     *)
(***************************************************************************)
\* What is left to advance are unfinished choices, each once, with the logits
\* of their last token at hand.
TodoSound(gs, td) ==
  /\ td \in Seq((Nat \ {0}) \X (1 .. NSlots))
  /\ Distinct(td)
  /\ \A e \in Elems(td) :
       /\ e[1] \in DOMAIN gs
       /\ e[2] \in Unfinished(gs[e[1]])
       /\ gs[e[1]].choices[e[2]].logits = Len(gs[e[1]].choices[e[2]].stepped)

\* An input of the batch continues the prompt of a root, or is one token of an
\* unfinished choice.
PromptInput(x, gs, p) ==
  LET g == gs[x.group]
      pos == p.past[x.seq]
      end == pos + Len(x.tokens)
  IN  /\ g.root # None /\ x.seq = g.root /\ ~g.restoring
      /\ end <= PromptLen(g.job)
      /\ x.tokens = SubSeq(Prompt[g.job], pos + 1, end)
      /\ end = PromptLen(g.job) => x.logits

ChoiceInput(x, gs) ==
  /\ x.choice \in Unfinished(gs[x.group])
  /\ x.seq = gs[x.group].choices[x.choice].seq
  /\ Len(x.tokens) = 1

BatchSound(sch, gs, p) ==
  /\ sch \in Seq(InputType)
  /\ \A x \in Elems(sch) : /\ x.group \in DOMAIN gs /\ Len(x.tokens) > 0
                           /\ x.choice = 0 => PromptInput(x, gs, p)
                           /\ x.choice # 0 => ChoiceInput(x, gs)
  /\ \A k, l \in DOMAIN sch :
       sch[k].group = sch[l].group /\ sch[k].choice = sch[l].choice => k = l

Phases == {"top", "drop", "admit", "restore", "start", "schedule", "batch",
           "advance", "wait", "exit"}

EngineInv ==
  /\ pc \in Phases /\ at \in Nat \ {0} /\ cursor \in Nat
  /\ World(groups, pool, text, idle)
  /\ TodoSound(groups, todo)
  /\ pc \notin {"start", "advance"} => todo = << >>
  /\ BatchSound(scheduled, groups, pool)
  /\ pc # "batch" => scheduled = << >>

LEMMA NothingTodo == ASSUME NEW gs PROVE TodoSound(gs, << >>)
<1>1. Elems(<< >>) = {} /\ Distinct(<< >>)
  BY DEF Elems, Distinct
<1> QED
  BY <1>1 DEF TodoSound

LEMMA NothingScheduled == ASSUME NEW gs, NEW p PROVE BatchSound(<< >>, gs, p)
<1>1. Elems(<< >>) = {}
  BY DEF Elems
<1> QED
  BY <1>1 DEF BatchSound

\* A phase that leaves nothing to advance or to run only has to keep the world.
LEMMA PhaseKeeps ==
  ASSUME pc' \in Phases, at' \in Nat \ {0}, cursor' \in Nat,
         World(groups', pool', text', idle'),
         todo' = << >>, scheduled' = << >>
  PROVE  EngineInv'
  BY NothingTodo, NothingScheduled DEF EngineInv

LEMMA EngineInit == ASSUME Init PROVE EngineInv
<1>1. /\ pc = "top" /\ at = 1 /\ cursor = 0 /\ todo = << >> /\ scheduled = << >>
      /\ groups = << >> /\ idle = Nobody /\ pool = EmptyPool
      /\ text = [s \in Slot |-> << >>]
  BY DEF Init, Nobody
<1>2. EmptyPool \in Pool /\ PoolInv(EmptyPool) /\ \A s \in Slot : ~EmptyPool.live[s]
  BY EmptyPoolSound DEF EmptyPool
<1>3. groups \in Seq(GroupType) /\ DOMAIN groups = {} /\ text \in [Slot -> Seq(Token)]
  BY <1>1
<1>4. idle \in IdleType /\ idle.seq = None
  BY <1>1 DEF IdleType, Nobody
<1>5. HeldApart(groups) /\ HeldLive(groups, pool, idle)
  BY <1>1, <1>2, <1>3, <1>4, NoneIsNoSlot DEF HeldApart, HeldLive
<1>6. World(groups, pool, text, idle)
  BY <1>1, <1>2, <1>3, <1>4, <1>5 DEF World
<1> QED
  BY <1>1, <1>6, NothingTodo, NothingScheduled DEF EngineInv, Phases

LEMMA DropKeeps == ASSUME EngineInv, Drop PROVE EngineInv'
<1> DEFINE C == {j \in Job : cancel[j]}
<1>1. World(groups, pool, text, idle) /\ at \in Nat \ {0} /\ cursor \in Nat
      /\ todo = << >> /\ scheduled = << >>
  BY DEF EngineInv, Drop
<1>2. \A i \in DOMAIN groups : groups[i].job \in Job
  BY <1>1, WorldGroups, GroupFields
<1>3. PICK kept : kept = Only(groups, {g \in Elems(groups) : ~cancel[g.job] /\ Held(g) # {}})
  OBVIOUS
<1>4. {g \in Elems(groups) : ~cancel[g.job] /\ Held(g) # {}} = KeptIn(groups, C)
  BY <1>2 DEF KeptIn, Elems
<1>5. kept = Only(groups, KeptIn(groups, C))
  BY <1>3, <1>4
<1>6. groups' = Recredited(kept)
  BY <1>3 DEF Drop, Recredited, LiveCreditsOf
<1>7. UNION {Held(groups[i]) : i \in {k \in DOMAIN groups : cancel[groups[k].job]}}
      = DroppedFrom(groups, C)
  BY <1>2 DEF DroppedFrom
<1>8. pool' = ReleaseAll(pool, DroppedFrom(groups, C))
  BY <1>7 DEF Drop
<1>9. World(groups', pool', text, idle)
  BY <1>1, <1>5, <1>6, <1>8, WorldDrop
<1>10. pc' = "admit" /\ at' = at /\ cursor' = cursor /\ text' = text /\ idle' = idle
       /\ todo' = todo /\ scheduled' = scheduled
  BY DEF Drop
<1> QED
  BY <1>1, <1>9, <1>10, PhaseKeeps DEF Phases

LEMMA NewGroupFacts ==
  ASSUME NEW j \in Job, NEW r \in Slot, NEW n \in Nat, NEW g, g = NewGroup(j, r, n),
         NEW p \in Pool, NEW t \in [Slot -> Seq(Token)],
         IsPrefix(t[r], Prompt[j]), p.past[r] = n
  PROVE  /\ g \in GroupType /\ Held(g) = {r} /\ GroupSound(g, p, t)
         /\ g.job = j /\ g.root = r
<1>1. /\ g.job = j /\ g.root = r /\ g.choices = << >> /\ g.imported = 0 /\ g.logits = n
      /\ g.restoring = (Prefix /\ n = 0)
      /\ g.credits = ContinuousPages(j, NChoices[j])
      /\ g = [job |-> g.job, root |-> g.root, choices |-> g.choices,
              credits |-> g.credits, restoring |-> g.restoring,
              imported |-> g.imported, logits |-> g.logits]
  BY DEF NewGroup
<1>2. g.credits \in Nat
  BY <1>1, JobFacts, ContinuousPagesType
<1>3. g \in GroupType
  <2>1. g.restoring \in BOOLEAN
    BY <1>1
  <2>2. /\ g.job \in Job /\ g.root \in Slot \cup {None} /\ g.choices \in Seq(ChoiceType)
        /\ g.imported \in Nat /\ g.logits \in Nat
    BY <1>1
  <2>3. g = [job |-> g.job, root |-> g.root, choices |-> g.choices,
             credits |-> g.credits, restoring |-> g.restoring,
             imported |-> g.imported, logits |-> g.logits]
    BY <1>1
  <2> QED
    BY <1>2, <2>1, <2>2, <2>3 DEF GroupType
<1>4. Unfinished(g) = {}
  BY <1>1 DEF Unfinished
<1>5. g.root # None
  BY <1>1, NoneIsNoSlot
<1>6. Held(g) = {r}
  BY <1>1, <1>4, <1>5 DEF Held
<1>7. PagesFor(0) = 0 /\ Len(p.table[r]) \in Nat
  BY PagesForZero, TableLengths
<1>8. PromptLen(j) \in Nat
  BY JobFacts
<1>9. RootSound(g, p, t)
  <2>1. g.restoring => n = 0
    BY <1>1
  <2> QED
    BY <1>1, <1>7, <1>8, <2>1 DEF RootSound
<1>10. GroupSound(g, p, t)
  BY <1>4, <1>5, <1>9 DEF GroupSound, ChoicesSound
<1> QED
  BY <1>1, <1>3, <1>6, <1>10

\* A request takes over the idle sequence.
LEMMA WorldReuse ==
  ASSUME NEW gs, NEW p, NEW t, NEW d, World(gs, p, t, d),
         NEW j \in Job, d.seq # None, IsPrefix(d.ids, Prompt[j])
  PROVE  World(Append(gs, NewGroup(j, d.seq, Len(d.ids))), p, t, Nobody)
<1>1. /\ p \in Pool /\ t \in [Slot -> Seq(Token)] /\ PoolInv(p) /\ HeldLive(gs, p, d)
      /\ t[d.seq] = d.ids
      /\ \A s \in Slot : p.live[s] => p.past[s] = Len(t[s])
  BY DEF World
<1>2. PICK r \in Slot : r = d.seq /\ p.live[r]
  BY WorldGroups
<1>3. PICK n \in Nat : n = Len(d.ids)
  BY WorldGroups
<1>4. PICK g : g = NewGroup(j, r, n)
  OBVIOUS
<1>5. t[r] = d.ids /\ p.past[r] = n /\ p.past[r] = Len(t[r])
  BY <1>1, <1>2, <1>3
<1>6. g \in GroupType /\ Held(g) = {r} /\ GroupSound(g, p, t)
  BY <1>1, <1>4, <1>5, NewGroupFacts
<1>7. /\ \A i \in DOMAIN gs : r \notin Held(gs[i])
      /\ \A s \in Slot : p.live[s] <=> (s = r \/ (p.live[s] /\ s # d.seq))
  BY <1>1, <1>2 DEF HeldLive
<1>8. World(Append(gs, g), p, t, Nobody)
  BY <1>1, <1>2, <1>5, <1>6, <1>7, WorldAppend, SMTT(30)
<1> QED
  BY <1>2, <1>3, <1>4, <1>8

\* A request gets a sequence of its own.
LEMMA WorldAllocate ==
  ASSUME NEW gs, NEW p, NEW t, World(gs, p, t, Nobody), CanAllocate(p),
         NEW j \in Job, NEW r, r = FirstDead(p)
  PROVE  World(Append(gs, NewGroup(j, r, 0)), Allocate(p, r),
               [t EXCEPT ![r] = << >>], Nobody)
<1>1. /\ p \in Pool /\ t \in [Slot -> Seq(Token)] /\ PoolInv(p) /\ HeldLive(gs, p, Nobody)
  BY DEF World
<1>2. r \in Slot /\ IsFirstDead(p, r) /\ ~p.live[r]
  BY <1>1, FirstDeadSound DEF CanAllocate, IsFirstDead
<1>3. PICK q : q = Allocate(p, r)
  OBVIOUS
<1>4. PICK u : u = [t EXCEPT ![r] = << >>]
  OBVIOUS
<1>5. q \in Pool /\ PoolInv(q)
  BY <1>1, <1>2, <1>3, AllocateSound
<1>6. /\ q.past = [p.past EXCEPT ![r] = 0] /\ q.live = [p.live EXCEPT ![r] = TRUE]
      /\ q.table = p.table
  BY <1>3 DEF Allocate
<1>7. p.past \in [Slot -> Nat] /\ p.live \in [Slot -> BOOLEAN]
  BY <1>1, PoolFields
<1>8. /\ u \in [Slot -> Seq(Token)] /\ u[r] = << >>
      /\ \A s \in Slot : s # r => u[s] = t[s]
  BY <1>1, <1>2, <1>4
<1>9. /\ q.past[r] = 0 /\ \A s \in Slot : s # r => q.past[s] = p.past[s]
      /\ \A s \in Slot : q.table[s] = p.table[s]
  BY <1>2, <1>6, <1>7
<1>10. \A s \in Slot : q.live[s] <=> (s = r \/ p.live[s])
  BY <1>2, <1>6, <1>7
<1>11. PICK g : g = NewGroup(j, r, 0)
  OBVIOUS
<1>12. IsPrefix(u[r], Prompt[j])
  <2>1. Prompt[j] \in Seq(Token)
    BY JobFacts
  <2> QED
    BY <1>8, <2>1 DEF IsPrefix
<1>13. g \in GroupType /\ Held(g) = {r} /\ GroupSound(g, q, u)
  BY <1>2, <1>5, <1>8, <1>9, <1>11, <1>12, NewGroupFacts
<1>14. \A i \in DOMAIN gs : r \notin Held(gs[i])
  BY <1>1, <1>2 DEF HeldLive
<1>15. Nobody.seq = None /\ None \notin Slot
  BY NoneIsNoSlot DEF Nobody
<1>16. \A s \in Slot : q.live[s] <=> (s = r \/ (p.live[s] /\ s # Nobody.seq))
  BY <1>10, <1>15
<1>17. q.past[r] = Len(u[r])
  BY <1>8, <1>9
<1>18. World(Append(gs, g), q, u, Nobody)
  BY <1>2, <1>5, <1>8, <1>9, <1>13, <1>14, <1>15, <1>16, <1>17, WorldAppend, SMTT(30)
<1> QED
  BY <1>3, <1>4, <1>11, <1>18

LEMMA AdmitKeeps ==
  ASSUME EngineInv, waiting \in Seq(Job), Admit
  PROVE  EngineInv'
<1>1. World(groups, pool, text, idle) /\ at \in Nat \ {0} /\ cursor \in Nat
      /\ todo = << >> /\ scheduled = << >>
  BY DEF EngineInv, Admit
<1>2. PICK j \in Job : j = Head(waiting)
  BY DEF Admit
<1>3. PICK p : p = IF idle.seq = None \/ Continues(j) THEN pool ELSE Release(pool, idle.seq)
  OBVIOUS
<1>4. /\ pc' = "admit" /\ at' = at /\ cursor' = cursor
      /\ todo' = todo /\ scheduled' = scheduled
  BY DEF Admit, loop
<1>5. World(groups', pool', text', idle')
  <2>1. CASE TooLarge(j)
    <3>1. groups' = groups /\ idle' = idle /\ pool' = pool /\ text' = text
      BY <1>2, <2>1 DEF Admit
    <3> QED
      BY <1>1, <3>1
  <2>2. CASE ~TooLarge(j) /\ Continues(j)
    <3>1. /\ idle' = Nobody /\ pool' = pool /\ text' = text
          /\ groups' = Append(groups, NewGroup(j, idle.seq, Len(idle.ids)))
      BY <1>2, <2>2 DEF Admit, Nobody
    <3>2. idle.seq # None /\ IsPrefix(idle.ids, Prompt[j])
      BY <2>2 DEF Continues
    <3> QED
      BY <1>1, <3>1, <3>2, WorldReuse
  <2>3. CASE ~TooLarge(j) /\ ~Continues(j)
    <3>1. p = Forget(pool, idle)
      BY <1>3, <2>3 DEF Forget
    <3>2. World(groups, p, text, Nobody)
      BY <1>1, <3>1, WorldForget
    <3>3. CASE CanAllocate(p)
      <4>1. /\ idle' = Nobody /\ pool' = Allocate(p, FirstDead(p))
            /\ text' = [text EXCEPT ![FirstDead(p)] = << >>]
            /\ groups' = Append(groups, NewGroup(j, FirstDead(p), 0))
        BY <1>2, <1>3, <2>3, <3>3 DEF Admit, Nobody
      <4> QED
        BY <3>2, <3>3, <4>1, WorldAllocate
    <3>4. CASE ~CanAllocate(p)
      <4>1. idle' = Nobody /\ pool' = p /\ text' = text /\ groups' = groups
        BY <1>2, <1>3, <2>3, <3>4 DEF Admit, Nobody
      <4> QED
        BY <3>2, <4>1
    <3> QED
      BY <3>3, <3>4
  <2> QED
    BY <2>1, <2>2, <2>3
<1> QED
  BY <1>1, <1>4, <1>5, PhaseKeeps DEF Phases

LEMMA ExitKeeps == ASSUME EngineInv, Exit PROVE EngineInv'
<1>1. World(groups, pool, text, idle) /\ at \in Nat \ {0} /\ cursor \in Nat
      /\ todo = << >> /\ scheduled = << >>
  BY DEF EngineInv, Exit
<1>2. /\ pc' = "exit" /\ at' = at /\ cursor' = cursor /\ groups' = groups /\ text' = text
      /\ todo' = todo /\ scheduled' = scheduled
      /\ pool' = Forget(pool, idle) /\ idle' = Nobody
  BY DEF Exit, Forget, Nobody
<1>3. World(groups', pool', text', idle')
  BY <1>1, <1>2, WorldForget
<1> QED
  BY <1>1, <1>2, <1>3, PhaseKeeps DEF Phases

\* The steps that only move the engine to its next phase.
LEMMA PhaseStepKeeps ==
  ASSUME EngineInv, Top \/ AdmitEnd \/ RestoreEnd \/ StartEnd \/ AdvanceEnd \/ Wait
  PROVE  EngineInv'
<1>1. World(groups, pool, text, idle) /\ at \in Nat \ {0} /\ cursor \in Nat
      /\ todo = << >> /\ scheduled = << >>
  BY DEF EngineInv, Top, AdmitEnd, RestoreEnd, StartEnd, AdvanceEnd, Wait
<1>2. /\ groups' = groups /\ pool' = pool /\ text' = text /\ idle' = idle
      /\ cursor' = cursor /\ at' \in {at, 1} /\ pc' \in Phases
      /\ todo' = todo /\ scheduled' = scheduled
  BY DEF Top, AdmitEnd, RestoreEnd, StartEnd, AdvanceEnd, Wait, Phases
<1>3. World(groups', pool', text', idle')
  BY <1>1, <1>2
<1> QED
  BY <1>1, <1>2, <1>3, PhaseKeeps

\* Handlers and the reader change nothing that is the scheduler's own.
LEMMA OutsideKeeps ==
  ASSUME EngineInv,
         UNCHANGED <<pc, at, todo, groups, cursor, idle, scheduled, pool, text>>
  PROVE  EngineInv'
  BY DEF EngineInv

-----------------------------------------------------------------------------
(***************************************************************************)
(* Starting and advancing choices                                          *)
(***************************************************************************)
LEMMA FoundFirst ==
  ASSUME NEW T, T \in SUBSET Nat, T # {}
  PROVE  (CHOOSE i \in T : \A k \in T : i <= k) \in T
  BY NatLeast

LEMMA NextPrefilledFacts ==
  ASSUME groups \in Seq(GroupType), at \in Nat \ {0}, NextPrefilled # 0
  PROVE  NextPrefilled \in DOMAIN groups /\ Prefilled(groups[NextPrefilled], pool)
<1> DEFINE T == {i \in at .. Len(groups) : Prefilled(groups[i], pool)}
<1>1. Len(groups) \in Nat /\ DOMAIN groups = 1 .. Len(groups)
  OBVIOUS
<1>2. T \in SUBSET Nat /\ \A i \in T : i \in DOMAIN groups /\ Prefilled(groups[i], pool)
  BY <1>1
<1>3. NextPrefilled = IF T = {} THEN 0 ELSE CHOOSE i \in T : \A k \in T : i <= k
  BY DEF NextPrefilled, FirstFrom, Prefilled
<1> HIDE DEF T
<1>4. T # {}
  BY <1>3
<1> QED
  BY <1>2, <1>3, <1>4, FoundFirst

LEMMA NextRestoringFacts ==
  ASSUME groups \in Seq(GroupType), at \in Nat \ {0}, NextRestoring # 0
  PROVE  NextRestoring \in DOMAIN groups /\ groups[NextRestoring].restoring
<1> DEFINE T == {i \in at .. Len(groups) : groups[i].restoring}
<1>1. Len(groups) \in Nat /\ DOMAIN groups = 1 .. Len(groups)
  OBVIOUS
<1>2. T \in SUBSET Nat /\ \A i \in T : i \in DOMAIN groups /\ groups[i].restoring
  BY <1>1
<1>3. NextRestoring = IF T = {} THEN 0 ELSE CHOOSE i \in T : \A k \in T : i <= k
  BY DEF NextRestoring, FirstFrom
<1> HIDE DEF T
<1>4. T # {}
  BY <1>3
<1> QED
  BY <1>2, <1>3, <1>4, FoundFirst

\* Every choice of a group that starts is to be advanced, in turn.
LEMMA TodoStart ==
  ASSUME NEW gs, NEW i \in DOMAIN gs, i \in Nat \ {0}, NEW n \in Nat, n <= NSlots,
         Unfinished(gs[i]) = 1 .. n,
         \A c \in 1 .. n : gs[i].choices[c].logits = Len(gs[i].choices[c].stepped),
         NEW td, td = [c \in 1 .. n |-> <<i, c>>]
  PROVE  TodoSound(gs, td)
<1>1. NSlots \in Nat
  BY SlotsAssumption
<1>2. DOMAIN td = 1 .. n /\ \A c \in 1 .. n : td[c] = <<i, c>>
  OBVIOUS
<1>3. \A c \in 1 .. n : <<i, c>> \in (Nat \ {0}) \X (1 .. NSlots)
  BY <1>1
<1>4. td \in Seq((Nat \ {0}) \X (1 .. NSlots))
  BY <1>3
<1>5. Distinct(td)
  BY <1>2 DEF Distinct
<1>6. \A e \in Elems(td) : \E c \in 1 .. n : e = <<i, c>>
  BY <1>2 DEF Elems
<1>7. ASSUME NEW e \in Elems(td)
      PROVE  /\ e[1] \in DOMAIN gs
             /\ e[2] \in Unfinished(gs[e[1]])
             /\ gs[e[1]].choices[e[2]].logits = Len(gs[e[1]].choices[e[2]].stepped)
  <2>1. PICK c \in 1 .. n : e = <<i, c>>
    BY <1>6
  <2>2. e[1] = i /\ e[2] = c
    BY <2>1
  <2> QED
    BY <2>2
<1> QED
  BY <1>4, <1>5, <1>7 DEF TodoSound

LEMMA FailGroupsEffect ==
  ASSUME NEW I, FailGroups(I)
  PROVE  groups' = FailedIn(groups, I) /\ pool' = ReleaseAll(pool, HeldBy(groups, I))
  BY DEF FailGroups, FailedIn, Failed, HeldBy

LEMMA StartKeeps == ASSUME EngineInv, Start PROVE EngineInv'
<1>1. World(groups, pool, text, idle) /\ at \in Nat \ {0} /\ cursor \in Nat
      /\ scheduled = << >> /\ todo = << >>
  BY DEF EngineInv, Start
<1>2. /\ groups \in Seq(GroupType) /\ pool \in Pool /\ PoolInv(pool)
      /\ \A k \in DOMAIN groups : groups[k] \in GroupType
      /\ DOMAIN groups = 1 .. Len(groups) /\ Len(groups) \in Nat
  BY <1>1, WorldGroups DEF World
<1>3. PICK i : i = NextPrefilled
  OBVIOUS
<1>4. i \in DOMAIN groups /\ Prefilled(groups[i], pool) /\ i \in Nat \ {0}
  BY <1>1, <1>2, <1>3, NextPrefilledFacts DEF Start
<1>5. PICK g \in GroupType : g = groups[i]
  BY <1>2, <1>4
<1>6. PICK n \in Nat : n = NChoices[g.job] /\ n # 0 /\ n <= NSlots
  BY GroupFields, JobFacts
<1>7. PICK b : b = Forked(g.root, n - 1)
  OBVIOUS
<1>8. /\ pc' = "start" /\ at' = i + 1 /\ cursor' = cursor /\ idle' = idle
      /\ scheduled' = scheduled
  BY <1>3 DEF Start
<1>9. CASE g.logits = 0 \/ Cardinality({s \in Slot : ~pool.live[s]}) < n - 1
  <2>1. FailGroups({i}) /\ todo' = todo /\ text' = text
    BY <1>3, <1>5, <1>6, <1>9 DEF Start
  <2>2. groups' = FailedIn(groups, {i}) /\ pool' = ReleaseAll(pool, HeldBy(groups, {i}))
    BY <2>1, FailGroupsEffect
  <2>3. World(groups', pool', text, idle)
    BY <1>1, <1>4, <2>2, WorldFail
  <2> QED
    BY <1>1, <1>4, <1>8, <2>1, <2>3, PhaseKeeps DEF Phases
<1>10. CASE ~(g.logits = 0 \/ Cardinality({s \in Slot : ~pool.live[s]}) < n - 1)
  <2>1. PICK h : h = Started(g, Family(g.root, b.slots))
    OBVIOUS
  <2>2. /\ groups' = [groups EXCEPT ![i] = h]
        /\ pool' = b.p /\ text' = TextForked(text, g.root, b.slots)
        /\ todo' = [c \in 1 .. n |-> <<i, c>>]
    BY <1>3, <1>5, <1>6, <1>7, <1>10, <2>1 DEF Start, Started, Family, TextForked
  <2>3. pool.live[g.root] /\ g.root \in Slot
    <3>1. g.root # None
      BY <1>4, <1>5 DEF Prefilled
    <3>2. g.root \in Held(groups[i])
      BY <1>5, <3>1, HeldSlots
    <3> QED
      BY <1>1, <1>4, <3>2, WorldGroups
  <2>4. n - 1 \in Nat /\ n - 1 <= Cardinality({s \in Slot : ~pool.live[s]})
    <3>1. Cardinality({s \in Slot : ~pool.live[s]}) \in Nat
      BY SlotFinite
    <3> QED
      BY <1>6, <1>10, <3>1
  <2>5. ForkedSound(pool, g.root, b.p, b.slots) /\ Len(b.slots) = n - 1
    BY <1>2, <1>7, <2>3, <2>4, ForkedFacts
  <2>6. ForkedFor(pool, g, b.p, b.slots)
    BY <1>6, <2>5 DEF ForkedFor
  <2>7. /\ World(groups', pool', text', idle)
        /\ Unfinished(h) = 1 .. NChoices[g.job]
        /\ \A c \in 1 .. NChoices[g.job] :
             h.choices[c].logits = Len(h.choices[c].stepped)
    <3>1. PICK q, slots, u : q = b.p /\ slots = b.slots /\ u = TextForked(text, g.root, slots)
      OBVIOUS
    <3>2. ForkedFor(pool, g, q, slots) /\ h = Started(g, Family(g.root, slots))
          /\ Prefilled(g, pool)
      BY <1>4, <1>5, <2>1, <2>6, <3>1
    <3>3. World([groups EXCEPT ![i] = h], q, u, idle)
      BY <1>1, <1>4, <1>5, <3>1, <3>2, WorldStart
    <3>4. Begun(g, h)
      BY <1>1, <1>4, <1>5, <3>1, <3>2, WorldStart, Zenon
    <3> QED
      BY <2>2, <3>1, <3>3, <3>4 DEF Begun
  <2>8. groups'[i] = h /\ DOMAIN groups' = DOMAIN groups
    BY <1>4, <2>2
  <2>9. TodoSound(groups', todo')
    BY <1>4, <1>6, <2>2, <2>7, <2>8, TodoStart
  <2> QED
    BY <1>1, <1>4, <1>8, <2>7, <2>9, NothingScheduled DEF EngineInv, Phases
<1> QED
  BY <1>9, <1>10

\* Choice c of group g becomes ch.
SetChoice(g, c, ch) == [g EXCEPT !.choices = [g.choices EXCEPT ![c] = ch]]

LEMMA SetChoiceFacts ==
  ASSUME NEW g \in GroupType, NEW c \in Unfinished(g), NEW ch \in ChoiceType,
         NEW h, h = SetChoice(g, c, ch)
  PROVE  /\ h \in GroupType /\ h.job = g.job /\ h.root = g.root
         /\ h.credits = g.credits /\ h.restoring = g.restoring
         /\ h.imported = g.imported /\ h.logits = g.logits
         /\ Len(h.choices) = Len(g.choices) /\ DOMAIN h.choices = DOMAIN g.choices
         /\ h.choices[c] = ch
         /\ \A e \in DOMAIN g.choices : e # c => h.choices[e] = g.choices[e]
<1>1. /\ h.job = g.job /\ h.root = g.root /\ h.credits = g.credits
      /\ h.restoring = g.restoring /\ h.imported = g.imported /\ h.logits = g.logits
      /\ h.choices = [g.choices EXCEPT ![c] = ch]
      /\ h = [job |-> h.job, root |-> h.root, choices |-> h.choices,
              credits |-> h.credits, restoring |-> h.restoring,
              imported |-> h.imported, logits |-> h.logits]
  BY DEF GroupType, SetChoice
<1>2. /\ g.job \in Job /\ g.root \in Slot \cup {None} /\ g.credits \in Nat
      /\ g.restoring \in BOOLEAN /\ g.imported \in Nat /\ g.logits \in Nat
      /\ g.choices \in Seq(ChoiceType) /\ DOMAIN g.choices = 1 .. Len(g.choices)
      /\ Len(g.choices) \in Nat
  BY GroupFields
<1>3. c \in DOMAIN g.choices
  BY HeldSlots
<1>4. /\ h.choices \in Seq(ChoiceType) /\ Len(h.choices) = Len(g.choices)
      /\ DOMAIN h.choices = DOMAIN g.choices /\ h.choices[c] = ch
      /\ \A e \in DOMAIN g.choices : e # c => h.choices[e] = g.choices[e]
  BY <1>1, <1>2, <1>3
<1>5. h \in GroupType
  BY <1>1, <1>2, <1>4 DEF GroupType
<1> QED
  BY <1>1, <1>4, <1>5

\* A choice that is not finished has a group without a root.
LEMMA ChoiceRoot ==
  ASSUME NEW g \in GroupType, NEW p, NEW t, GroupSound(g, p, t), NEW c \in Unfinished(g)
  PROVE  /\ g.root = None /\ ~g.restoring /\ Len(g.choices) \in {0, NChoices[g.job]}
         /\ Held(g) = {g.choices[e].seq : e \in Unfinished(g)}
         /\ t[g.choices[c].seq] = g.choices[c].stepped
         /\ c \in DOMAIN g.choices /\ c \in 1 .. NSlots
<1>1. g.root = None
  <2>1. g.root # None => g.choices = << >>
    BY DEF GroupSound, RootSound
  <2>2. g.choices # << >>
    BY DEF Unfinished
  <2> QED
    BY <2>1, <2>2
<1>2. c \in DOMAIN g.choices /\ g.job \in Job /\ DOMAIN g.choices = 1 .. Len(g.choices)
      /\ Len(g.choices) \in Nat
  BY HeldSlots, GroupFields
<1>3. Len(g.choices) \in {0, NChoices[g.job]} /\ ~g.restoring
  BY <1>1 DEF GroupSound
<1>4. NChoices[g.job] <= NSlots /\ NChoices[g.job] \in Nat /\ NSlots \in Nat
  BY <1>2, JobFacts
<1> QED
  BY <1>1, <1>2, <1>3, <1>4 DEF Held, GroupSound, ChoicesSound

\* A choice that keeps its sequence and what it has stepped.
LEMMA ChoiceKeeps ==
  ASSUME NEW g \in GroupType, NEW p, NEW t, GroupSound(g, p, t), NEW c \in Unfinished(g),
         NEW ch \in ChoiceType, ch.seq = g.choices[c].seq, ~ch.finished,
         ch.stepped = g.choices[c].stepped,
         NEW h, h = SetChoice(g, c, ch)
  PROVE  GroupSound(h, p, t) /\ Held(h) = Held(g) /\ Unfinished(h) = Unfinished(g)
<1>1. /\ h \in GroupType /\ h.job = g.job /\ h.root = g.root
      /\ h.restoring = g.restoring
      /\ Len(h.choices) = Len(g.choices) /\ DOMAIN h.choices = DOMAIN g.choices
      /\ h.choices[c] = ch
      /\ \A e \in DOMAIN g.choices : e # c => h.choices[e] = g.choices[e]
  BY SetChoiceFacts
<1>2. /\ g.root = None /\ ~g.restoring /\ Len(g.choices) \in {0, NChoices[g.job]}
      /\ Held(g) = {g.choices[e].seq : e \in Unfinished(g)}
      /\ c \in DOMAIN g.choices
  BY ChoiceRoot
<1>3. Unfinished(h) = Unfinished(g)
  BY <1>1, <1>2 DEF Unfinished
<1>4. \A e \in Unfinished(g) : /\ h.choices[e].seq = g.choices[e].seq
                               /\ h.choices[e].stepped = g.choices[e].stepped
  BY <1>1 DEF Unfinished
<1>5. Held(h) = Held(g)
  BY <1>1, <1>2, <1>3, <1>4 DEF Held
<1>6. ChoicesSound(h, t)
  BY <1>3, <1>4 DEF ChoicesSound, GroupSound
<1> QED
  BY <1>1, <1>2, <1>3, <1>5, <1>6 DEF GroupSound

\* A choice that finishes gives up its sequence.
LEMMA ChoiceEnds ==
  ASSUME NEW g \in GroupType, NEW p, NEW t, GroupSound(g, p, t), NEW c \in Unfinished(g),
         NEW ch \in ChoiceType, ch.finished,
         NEW h, h = SetChoice(g, c, ch)
  PROVE  /\ GroupSound(h, p, t) /\ Held(h) = Held(g) \ {g.choices[c].seq}
         /\ Unfinished(h) = Unfinished(g) \ {c}
<1>1. /\ h \in GroupType /\ h.job = g.job /\ h.root = g.root
      /\ h.restoring = g.restoring
      /\ Len(h.choices) = Len(g.choices) /\ DOMAIN h.choices = DOMAIN g.choices
      /\ h.choices[c] = ch
      /\ \A e \in DOMAIN g.choices : e # c => h.choices[e] = g.choices[e]
  BY SetChoiceFacts
<1>2. /\ g.root = None /\ ~g.restoring /\ Len(g.choices) \in {0, NChoices[g.job]}
      /\ Held(g) = {g.choices[e].seq : e \in Unfinished(g)}
      /\ c \in DOMAIN g.choices
  BY ChoiceRoot
<1>3. Unfinished(h) = Unfinished(g) \ {c}
  BY <1>1, <1>2 DEF Unfinished
<1>4. \A e \in Unfinished(g) \ {c} : h.choices[e] = g.choices[e]
  BY <1>1 DEF Unfinished
<1>5. \A e, f \in Unfinished(g) : g.choices[e].seq = g.choices[f].seq => e = f
  BY DEF GroupSound, ChoicesSound
<1>6. Held(h) = {h.choices[e].seq : e \in Unfinished(h)}
  BY <1>1, <1>2 DEF Held
<1>7. Held(h) = Held(g) \ {g.choices[c].seq}
  BY <1>2, <1>3, <1>4, <1>5, <1>6
<1>8. ChoicesSound(h, t)
  BY <1>3, <1>4 DEF ChoicesSound, GroupSound
<1> QED
  BY <1>1, <1>2, <1>3, <1>7, <1>8 DEF GroupSound

TodoPair == (Nat \ {0}) \X (1 .. NSlots)

LEMMA TailFacts ==
  ASSUME NEW td \in Seq(TodoPair), td # << >>, Distinct(td), NEW r, r = Tail(td)
  PROVE  /\ r \in Seq(TodoPair) /\ Distinct(r) /\ Head(td) \in TodoPair
         /\ Head(td) \in Elems(td)
         /\ \A e \in Elems(r) : e \in Elems(td) /\ e # Head(td)
<1>1. /\ Len(td) \in Nat /\ Len(td) # 0 /\ DOMAIN td = 1 .. Len(td)
      /\ r \in Seq(TodoPair) /\ DOMAIN r = 1 .. Len(td) - 1
      /\ \A k \in 1 .. Len(td) - 1 : r[k] = td[k + 1]
      /\ Head(td) = td[1]
  OBVIOUS
<1>2. 1 \in DOMAIN td /\ \A k \in DOMAIN r : k + 1 \in DOMAIN td /\ k + 1 # 1 /\ k \in Nat
  BY <1>1
<1>3. Distinct(r)
  <2> SUFFICES ASSUME NEW k \in DOMAIN r, NEW l \in DOMAIN r, r[k] = r[l]
               PROVE  k = l
    BY DEF Distinct
  <2>1. k + 1 = l + 1
    BY <1>1, <1>2 DEF Distinct
  <2> QED
    BY <1>2, <2>1
<1>4. \A e \in Elems(r) : e \in Elems(td) /\ e # Head(td)
  <2> SUFFICES ASSUME NEW k \in DOMAIN r
               PROVE  r[k] \in Elems(td) /\ r[k] # td[1]
    BY <1>1 DEF Elems
  <2>1. r[k] = td[k + 1] /\ k + 1 \in DOMAIN td /\ k + 1 # 1
    BY <1>1, <1>2
  <2> QED
    BY <1>2, <2>1 DEF Elems, Distinct
<1>5. Head(td) \in Elems(td) /\ Head(td) \in TodoPair
  BY <1>1, <1>2 DEF Elems
<1> QED
  BY <1>1, <1>3, <1>4, <1>5

\* What is left to advance, once the first has been.
LEMMA TodoRest ==
  ASSUME NEW gs, NEW td, TodoSound(gs, td), td # << >>,
         NEW i, NEW c, Head(td) = <<i, c>>,
         NEW hs, DOMAIN hs = DOMAIN gs, \A k \in DOMAIN gs : k # i => hs[k] = gs[k],
         Unfinished(gs[i]) \ {c} \subseteq Unfinished(hs[i]),
         \A e \in Unfinished(gs[i]) \ {c} : hs[i].choices[e] = gs[i].choices[e]
  PROVE  TodoSound(hs, Tail(td))
<1>1. /\ td \in Seq(TodoPair) /\ Distinct(td)
      /\ \A e \in Elems(td) :
           /\ e[1] \in DOMAIN gs
           /\ e[2] \in Unfinished(gs[e[1]])
           /\ gs[e[1]].choices[e[2]].logits = Len(gs[e[1]].choices[e[2]].stepped)
  BY DEF TodoSound, TodoPair
<1>2. PICK r : r = Tail(td)
  OBVIOUS
<1>3. /\ r \in Seq(TodoPair) /\ Distinct(r)
      /\ \A e \in Elems(r) : e \in Elems(td) /\ e # Head(td)
  BY <1>1, <1>2, TailFacts
<1>4. ASSUME NEW e \in Elems(r)
      PROVE  /\ e[1] \in DOMAIN hs
             /\ e[2] \in Unfinished(hs[e[1]])
             /\ hs[e[1]].choices[e[2]].logits = Len(hs[e[1]].choices[e[2]].stepped)
  <2>1. e \in TodoPair
    BY <1>3 DEF Elems
  <2>2. e = <<e[1], e[2]>>
    BY <2>1 DEF TodoPair
  <2>3. e[1] # i \/ e[2] # c
    BY <1>3, <2>2
  <2>4. /\ e[1] \in DOMAIN gs /\ e[2] \in Unfinished(gs[e[1]])
        /\ gs[e[1]].choices[e[2]].logits = Len(gs[e[1]].choices[e[2]].stepped)
    BY <1>1, <1>3
  <2>5. CASE e[1] # i
    BY <2>4, <2>5
  <2>6. CASE e[1] = i /\ e[2] # c
    <3>1. e[2] \in Unfinished(gs[i]) \ {c}
      BY <2>4, <2>6
    <3> QED
      BY <2>4, <2>6, <3>1
  <2> QED
    BY <2>3, <2>5, <2>6
<1> QED
  BY <1>2, <1>3, <1>4 DEF TodoSound, TodoPair

\* A choice of group i ends and its sequence is released.
LEMMA WorldRelease ==
  ASSUME NEW gs, NEW p, NEW t, NEW d, World(gs, p, t, d),
         NEW i \in DOMAIN gs, NEW s \in Held(gs[i]),
         NEW hs \in Seq(GroupType), DOMAIN hs = DOMAIN gs,
         Held(hs[i]) = Held(gs[i]) \ {s},
         \A k \in DOMAIN gs : k # i => hs[k] = gs[k],
         GroupSound(hs[i], p, t)
  PROVE  World(hs, Release(p, s), t, d)
<1>1. /\ p \in Pool /\ PoolInv(p) /\ HeldApart(gs)
      /\ \A k \in DOMAIN gs : GroupSound(gs[k], p, t)
  BY DEF World
<1>2. s \in Slot
  BY WorldGroups
<1>3. PICK q : q = Release(p, s)
  OBVIOUS
<1>4. q \in Pool /\ PoolInv(q)
  BY <1>1, <1>2, <1>3, ReleaseSound
<1>5. /\ q.past = p.past
      /\ \A r \in Slot : /\ q.live[r] <=> (p.live[r] /\ r # s)
                         /\ r # s => q.table[r] = p.table[r]
  BY <1>1, <1>2, <1>3, ReleaseEffect
<1>6. Without(p, q, {s})
  BY <1>4, <1>5 DEF Without
<1> DEFINE h == [k \in DOMAIN gs |-> k]
<1>7. Shrunk(gs, hs, h)
  BY DEF Shrunk
<1>8. GivenUp(gs, hs, {s})
  <2> SUFFICES ASSUME NEW r \in Slot
               PROVE  r \in {s} <=> /\ \E k \in DOMAIN gs : r \in Held(gs[k])
                                    /\ ~\E a \in DOMAIN hs : r \in Held(hs[a])
    BY DEF GivenUp
  <2>1. \A k \in DOMAIN gs : k # i => s \notin Held(gs[k])
    BY <1>1 DEF HeldApart
  <2>2. CASE r = s
    BY <2>1, <2>2
  <2>3. CASE r # s
    BY <2>3
  <2> QED
    BY <2>2, <2>3
<1>9. \A a \in DOMAIN hs : GroupSound(hs[a], p, t)
  BY <1>1
<1> HIDE DEF h
<1>10. World(hs, q, t, d)
  BY <1>6, <1>7, <1>8, <1>9, WorldKeep, Zenon
<1> QED
  BY <1>3, <1>10

LEMMA AdvanceKeeps == ASSUME EngineInv, Advance PROVE EngineInv'
<1>1. /\ World(groups, pool, text, idle) /\ at \in Nat \ {0} /\ cursor \in Nat
      /\ scheduled = << >> /\ TodoSound(groups, todo) /\ todo # << >>
      /\ pc \in {"start", "advance"} /\ pc \in Phases
  BY DEF EngineInv, Advance
<1>2. /\ groups \in Seq(GroupType) /\ pool \in Pool /\ text \in [Slot -> Seq(Token)]
      /\ PoolInv(pool)
      /\ \A s \in Slot : pool.live[s] => pool.past[s] = Len(text[s])
      /\ \A k \in DOMAIN groups : GroupSound(groups[k], pool, text)
  BY <1>1 DEF World
<1>3. \A k \in DOMAIN groups : groups[k] \in GroupType /\ Held(groups[k]) \subseteq Slot
  BY <1>1, WorldGroups
<1>4. /\ Head(todo) \in TodoPair /\ Head(todo)[1] \in DOMAIN groups
      /\ Head(todo)[2] \in Unfinished(groups[Head(todo)[1]])
  <2>1. todo \in Seq(TodoPair) /\ Distinct(todo)
    BY <1>1 DEF TodoSound, TodoPair
  <2>2. Head(todo) \in Elems(todo) /\ Head(todo) \in TodoPair
    BY <1>1, <2>1, TailFacts
  <2> QED
    BY <1>1, <2>2 DEF TodoSound
<1>5. PICK i \in DOMAIN groups : i = Head(todo)[1]
  BY <1>4
<1>6. PICK g \in GroupType : g = groups[i] /\ GroupSound(g, pool, text)
  BY <1>2, <1>3
<1>7. PICK c \in Unfinished(g) : c = Head(todo)[2]
  BY <1>4, <1>5, <1>6
<1>8. Head(todo) = <<i, c>>
  BY <1>4, <1>5, <1>7 DEF TodoPair
<1>9. PICK ch \in ChoiceType : ch = g.choices[c]
  BY HeldSlots, GroupFields
<1>10. /\ pc' = pc /\ at' = at /\ cursor' = cursor /\ text' = text
       /\ scheduled' = scheduled /\ todo' = Tail(todo)
  BY DEF Advance
<1>11. /\ ch.seq \in Slot /\ ch.stepped \in Seq(Token) /\ ~ch.finished
       /\ ch.seq \in Held(g) /\ text[ch.seq] = ch.stepped
  <2>1. c \in DOMAIN g.choices
    BY HeldSlots
  <2> QED
    BY <1>6, <1>9, <2>1, ChoiceRoot, HeldSlots, GroupFields DEF Unfinished
<1>12. ASSUME NEW h, h \in GroupType, groups' = [groups EXCEPT ![i] = h],
              DOMAIN h.choices = DOMAIN g.choices,
              Unfinished(g) \ {c} \subseteq Unfinished(h),
              \A e \in DOMAIN g.choices : e # c => h.choices[e] = g.choices[e],
              World(groups', pool', text, idle')
       PROVE  EngineInv'
  <2>1. DOMAIN groups' = DOMAIN groups /\ groups'[i] = h
        /\ \A k \in DOMAIN groups : k # i => groups'[k] = groups[k]
    BY <1>12
  <2>2. \A e \in Unfinished(g) \ {c} : groups'[i].choices[e] = groups[i].choices[e]
    BY <1>6, <1>12, <2>1 DEF Unfinished
  <2>3. TodoSound(groups', Tail(todo))
    <3>1. PICK hs : hs = groups'
      OBVIOUS
    <3>2. DOMAIN hs = DOMAIN groups /\ \A k \in DOMAIN groups : k # i => hs[k] = groups[k]
      BY <2>1, <3>1
    <3>3. /\ Unfinished(groups[i]) \ {c} \subseteq Unfinished(hs[i])
          /\ \A e \in Unfinished(groups[i]) \ {c} : hs[i].choices[e] = groups[i].choices[e]
      BY <1>6, <1>12, <2>1, <2>2, <3>1
    <3>4. TodoSound(groups, todo) /\ todo # << >> /\ Head(todo) = <<i, c>>
      BY <1>1, <1>8
    <3>5. TodoSound(hs, Tail(todo))
      BY <3>2, <3>3, <3>4, TodoRest
    <3> QED
      BY <3>1, <3>5
  <2> QED
    BY <1>1, <1>10, <1>12, <2>3, NothingScheduled DEF EngineInv
<1>13. ASSUME NEW f, Finish(i, c, f), f \in BOOLEAN PROVE EngineInv'
  <2>1. PICK e : e = [ch EXCEPT !.finished = TRUE, !.pending = None]
    OBVIOUS
  <2>2. e \in ChoiceType /\ e.finished
    BY <2>1 DEF ChoiceType
  <2>3. PICK h : h = SetChoice(g, c, e)
    OBVIOUS
  <2>4. groups' = [groups EXCEPT ![i] = h]
    BY <1>6, <1>9, <1>13, <2>1, <2>3 DEF Finish, SetChoice
  <2>5. /\ h \in GroupType /\ DOMAIN h.choices = DOMAIN g.choices
        /\ \A k \in DOMAIN g.choices : k # c => h.choices[k] = g.choices[k]
    BY <2>2, <2>3, SetChoiceFacts
  <2>6. /\ GroupSound(h, pool, text) /\ Held(h) = Held(g) \ {ch.seq}
        /\ Unfinished(h) = Unfinished(g) \ {c}
    BY <1>6, <1>9, <2>2, <2>3, ChoiceEnds
  <2>7. /\ groups' \in Seq(GroupType) /\ DOMAIN groups' = DOMAIN groups /\ groups'[i] = h
        /\ \A k \in DOMAIN groups : k # i => groups'[k] = groups[k]
    BY <1>2, <2>4, <2>5
  <2>8. World(groups', pool', text, idle')
    <3>1. CASE f
      <4>1. pool' = Release(pool, ch.seq) /\ idle' = idle
        BY <1>6, <1>9, <1>13, <3>1 DEF Finish
      <4>2. World(groups', Release(pool, ch.seq), text, idle)
        BY <1>1, <1>6, <1>11, <2>6, <2>7, WorldRelease
      <4> QED
        BY <4>1, <4>2
    <3>2. CASE ~f
      <4>1. PICK d : d = [seq |-> ch.seq, ids |-> ch.stepped]
        OBVIOUS
      <4>2. pool' = Forget(pool, idle) /\ idle' = d
        BY <1>6, <1>9, <1>13, <3>2, <4>1 DEF Finish, Forget
      <4>3. /\ d \in IdleType /\ d.seq = ch.seq /\ d.ids = ch.stepped
        BY <1>11, <4>1 DEF IdleType
      <4>4. PICK q : q = Forget(pool, idle)
        OBVIOUS
      <4>5. /\ World(groups, q, text, Nobody)
            /\ q.past = pool.past
            /\ \A s \in Slot : /\ q.live[s] <=> (pool.live[s] /\ s # idle.seq)
                               /\ s # idle.seq => q.table[s] = pool.table[s]
        BY <1>1, <4>4, WorldForget
      <4>6. GroupSound(h, q, text)
        <5>1. ASSUME NEW s \in Held(h)
              PROVE  /\ q.past[s] = pool.past[s] /\ text[s] = text[s]
                     /\ Len(pool.table[s]) <= Len(q.table[s])
                     /\ Len(pool.table[s]) \in Nat /\ Len(q.table[s]) \in Nat
          <6>1. s \in Held(groups[i]) /\ s \in Slot
            BY <1>3, <1>6, <2>6
          <6>2. s # idle.seq
            BY <1>1, <6>1 DEF World, HeldLive
          <6>3. q.table[s] = pool.table[s] /\ Len(pool.table[s]) \in Nat
            BY <1>2, <4>5, <6>1, <6>2, TableLengths
          <6> QED
            BY <4>5, <6>3
        <5> QED
          BY <2>5, <2>6, <5>1, GroupFrame
      <4>7. World(groups', q, text, d)
        BY <1>6, <1>11, <2>6, <2>7, <4>3, <4>5, <4>6, WorldIdle
      <4> QED
        BY <4>2, <4>4, <4>7
    <3> QED
      BY <1>13, <3>1, <3>2
  <2> QED
    BY <1>12, <2>4, <2>5, <2>6, <2>8
<1>14. ASSUME NEW x \in Token, groups' = [groups EXCEPT ![i].choices[c].pending = x],
              idle' = idle, pool' = pool
       PROVE  EngineInv'
  <2>1. PICK e : e = [ch EXCEPT !.pending = x]
    OBVIOUS
  <2>2. e \in ChoiceType /\ e.finished = ch.finished /\ e.seq = ch.seq /\ e.stepped = ch.stepped
    BY <2>1 DEF ChoiceType
  <2>3. PICK h : h = SetChoice(g, c, e)
    OBVIOUS
  <2>4. groups' = [groups EXCEPT ![i] = h]
    BY <1>6, <1>9, <1>14, <2>1, <2>3 DEF SetChoice
  <2>5. /\ h \in GroupType /\ DOMAIN h.choices = DOMAIN g.choices
        /\ \A k \in DOMAIN g.choices : k # c => h.choices[k] = g.choices[k]
    BY <2>2, <2>3, SetChoiceFacts
  <2>6. GroupSound(h, pool, text) /\ Held(h) = Held(g) /\ Unfinished(h) = Unfinished(g)
    BY <1>6, <1>9, <1>11, <2>2, <2>3, ChoiceKeeps
  <2>7. /\ groups' \in Seq(GroupType) /\ DOMAIN groups' = DOMAIN groups /\ groups'[i] = h
        /\ \A k \in DOMAIN groups : k # i => groups'[k] = groups[k]
    BY <1>2, <2>4, <2>5
  <2>8. \A k \in DOMAIN groups : /\ Held(groups'[k]) = Held(groups[k])
                                 /\ GroupSound(groups'[k], pool, text)
    BY <1>2, <1>6, <2>6, <2>7
  <2>9. World(groups', pool, text, idle)
    BY <1>1, <1>2, <2>7, <2>8, WorldSame
  <2> QED
    BY <1>12, <1>14, <2>4, <2>5, <2>6, <2>9
<1>15. CASE cancel[g.job]
  <2>1. Finish(i, c, TRUE)
    BY <1>5, <1>6, <1>7, <1>15 DEF Advance
  <2> QED
    BY <1>13, <2>1
<1>16. CASE ~cancel[g.job]
  <2>1. \/ Finish(i, c, FALSE)
        \/ /\ \E x \in Token : groups' = [groups EXCEPT ![i].choices[c].pending = x]
           /\ idle' = idle /\ pool' = pool
    BY <1>5, <1>6, <1>7, <1>16 DEF Advance
  <2> QED
    BY <1>13, <1>14, <2>1
<1> QED
  BY <1>15, <1>16

-----------------------------------------------------------------------------
(***************************************************************************)
(* Restoring                                                               *)
(***************************************************************************)
LEMMA FirstRows ==
  ASSUME NEW s \in Seq(Token), NEW n \in Nat, n <= Len(s), NEW r, r = SubSeq(s, 1, n)
  PROVE  /\ r \in Seq(Token) /\ Len(r) = n /\ IsPrefix(r, s)
         /\ \A k \in 1 .. n : r[k] = s[k]
<1>1. Len(s) \in Nat /\ r \in Seq(Token) /\ Len(r) = n /\ \A k \in 1 .. n : r[k] = s[k]
  OBVIOUS
<1>2. SubSeq(r, 1, n) = r
  BY <1>1
<1>3. IsPrefix(r, s)
  BY <1>1, <1>2 DEF IsPrefix
<1> QED
  BY <1>1, <1>3

LEMMA RootAlone ==
  ASSUME NEW g \in GroupType, g.choices = << >>, g.root # None
  PROVE  Unfinished(g) = {} /\ Held(g) = {g.root} /\ g.root \in Slot
<1>1. Unfinished(g) = {}
  BY DEF Unfinished
<1> QED
  BY <1>1, GroupFields DEF Held

\* Only slot r changes.
OnlyAt(p, t, q, u, r) ==
  \A s \in Slot : s # r => /\ q.past[s] = p.past[s] /\ u[s] = t[s]
                           /\ q.table[s] = p.table[s]

\* The root of group i, its pages and its text change.
LEMMA WorldRoot ==
  ASSUME NEW gs, NEW p, NEW t, NEW d, World(gs, p, t, d),
         NEW i \in DOMAIN gs, NEW r \in Slot, gs[i].root = r,
         NEW h \in GroupType, h.root = r, h.choices = gs[i].choices,
         NEW q \in Pool, PoolInv(q), q.live = p.live,
         NEW u \in [Slot -> Seq(Token)],
         OnlyAt(p, t, q, u, r), q.past[r] = Len(u[r]), RootSound(h, q, u)
  PROVE  World([gs EXCEPT ![i] = h], q, u, d)
<1>1. /\ gs \in Seq(GroupType) /\ p \in Pool /\ HeldApart(gs) /\ HeldLive(gs, p, d)
      /\ \A s \in Slot : p.live[s] => p.past[s] = Len(t[s])
      /\ \A k \in DOMAIN gs : GroupSound(gs[k], p, t)
  BY DEF World
<1>2. \A k \in DOMAIN gs : gs[k] \in GroupType /\ Held(gs[k]) \subseteq Slot
  BY WorldGroups
<1>3. PICK g \in GroupType : g = gs[i]
  BY <1>2
<1>4. r # None
  BY NoneIsNoSlot
<1>5. g.choices = << >> /\ h.choices = << >>
  BY <1>1, <1>3, <1>4 DEF GroupSound, RootSound
<1>6. Unfinished(h) = {} /\ Held(h) = {r} /\ Held(g) = {r}
  BY <1>3, <1>4, <1>5, RootAlone
<1>7. GroupSound(h, q, u)
  BY <1>4, <1>6 DEF GroupSound, ChoicesSound
<1>8. PICK hs : hs = [gs EXCEPT ![i] = h]
  OBVIOUS
<1>9. /\ hs \in Seq(GroupType) /\ DOMAIN hs = DOMAIN gs /\ hs[i] = h
      /\ \A k \in DOMAIN gs : k # i => hs[k] = gs[k]
  BY <1>1, <1>8
<1>10. \A k \in DOMAIN gs : Held(hs[k]) = Held(gs[k])
  BY <1>3, <1>6, <1>9
<1>11. \A k \in DOMAIN gs : k # i => r \notin Held(gs[k])
  BY <1>1, <1>3, <1>6 DEF HeldApart
<1>12. d.seq # r
  BY <1>1, <1>3, <1>6 DEF HeldLive
<1>13. ASSUME NEW k \in DOMAIN gs PROVE GroupSound(hs[k], q, u)
  <2>1. CASE k = i
    BY <1>7, <1>9, <2>1
  <2>2. CASE k # i
    <3>1. PICK o \in GroupType : o = gs[k] /\ o = hs[k]
      BY <1>2, <1>9, <2>2
    <3>2. ASSUME NEW s \in Held(o)
          PROVE  /\ q.past[s] = p.past[s] /\ u[s] = t[s]
                 /\ Len(p.table[s]) <= Len(q.table[s])
                 /\ Len(p.table[s]) \in Nat /\ Len(q.table[s]) \in Nat
      <4>1. s \in Slot /\ s # r
        BY <1>2, <1>11, <2>2, <3>1
      <4>2. /\ q.past[s] = p.past[s] /\ u[s] = t[s] /\ q.table[s] = p.table[s]
            /\ Len(p.table[s]) \in Nat
        BY <1>1, <4>1, TableLengths DEF OnlyAt
      <4> QED
        BY <4>2
    <3>3. GroupSound(o, p, t)
      BY <1>1, <3>1
    <3> QED
      BY <3>1, <3>2, <3>3, GroupFrame
  <2> QED
    BY <2>1, <2>2
<1>14. d.seq # None => u[d.seq] = t[d.seq]
  BY <1>12, WorldGroups DEF OnlyAt
<1>15. \A s \in Slot : q.live[s] => q.past[s] = Len(u[s])
  BY <1>1 DEF OnlyAt
<1>16. World(hs, q, u, d)
  <2>1. HeldApart(hs)
    BY <1>1, <1>9, <1>10 DEF HeldApart
  <2>2. HeldLive(hs, q, d)
    BY <1>1, <1>9, <1>10 DEF HeldLive
  <2>3. /\ hs \in Seq(GroupType) /\ d \in IdleType
        /\ \A k \in DOMAIN hs : GroupSound(hs[k], q, u)
    BY <1>9, <1>13 DEF World
  <2>4. d.seq # None => u[d.seq] = d.ids
    BY <1>14 DEF World
  <2> QED
    BY <1>15, <2>1, <2>2, <2>3, <2>4 DEF World
<1> QED
  BY <1>8, <1>16

\* What prepare_sequence leaves, whichever pages it takes.
LEMMA PrepareAnySound ==
  ASSUME NEW p \in Pool, PoolInv(p), NEW s \in Slot, p.live[s], NEW end \in Nat,
         Needed(p, s, end) <= Cardinality(p.free),
         NEW q, q = PrepareAny(p, s, end)
  PROVE  \E new \in Picks(p.free, Needed(p, s, end)) : q = Prepare(p, s, end, new)
<1>1. p.free \in SUBSET Page
  BY PoolFields
<1>2. IsFiniteSet(p.free)
  BY <1>1, FreeLess
<1>3. Needed(p, s, end) \in Nat
  BY NeedNat
<1>4. Picks(p.free, Needed(p, s, end)) # {}
  BY <1>2, <1>3, PicksExist
<1> QED
  BY <1>4 DEF PrepareAny

LEMMA RestartedFacts ==
  ASSUME NEW g \in GroupType, NEW h, h = Restarted(g)
  PROVE  /\ h \in GroupType /\ h.job = g.job /\ h.root = g.root /\ h.choices = g.choices
         /\ h.credits = g.credits /\ ~h.restoring /\ h.imported = 0 /\ h.logits = 0
  BY GroupFields DEF GroupType, Restarted

LEMMA MoveNowhere ==
  ASSUME NEW p \in Pool, NEW s \in Slot, p.past[s] = 0
  PROVE  MoveTo(p, s, 0) = p
<1>1. [p.past EXCEPT ![s] = 0] = p.past
  BY PoolFields
<1>2. p = [refs |-> p.refs, free |-> p.free, live |-> p.live, table |-> p.table, past |-> p.past]
  BY DEF Pool
<1> QED
  BY <1>1, <1>2 DEF MoveTo

\* A group that is being restored has a root with pages but no valid row.
LEMMA RestoringRoot ==
  ASSUME NEW gs, NEW p, NEW t, NEW d, World(gs, p, t, d),
         NEW i \in DOMAIN gs, gs[i].restoring
  PROVE  /\ gs[i] \in GroupType /\ gs[i].root # None /\ gs[i].root \in Slot
         /\ p.live[gs[i].root] /\ p.past[gs[i].root] = 0
         /\ RootSound(gs[i], p, t) /\ gs[i].choices = << >>
         /\ Len(t[gs[i].root]) = 0
<1>1. /\ gs[i] \in GroupType /\ GroupSound(gs[i], p, t)
      /\ \A s \in Held(gs[i]) : s \in Slot /\ p.live[s]
  BY WorldGroups DEF World
<1>2. PICK g \in GroupType : g = gs[i]
  BY <1>1
<1>3. g.root # None /\ RootSound(g, p, t)
  BY <1>1, <1>2 DEF GroupSound
<1>4. g.root \in Held(g)
  BY <1>3, HeldSlots
<1>5. g.root \in Slot /\ p.live[g.root] /\ p.past[g.root] = 0 /\ g.choices = << >>
  BY <1>1, <1>2, <1>3, <1>4 DEF RootSound
<1>6. Len(t[g.root]) = 0
  BY <1>5 DEF World
<1> QED
  BY <1>1, <1>2, <1>3, <1>5, <1>6

\* The restore ends without rows.
LEMMA WorldRestart ==
  ASSUME NEW gs, NEW p, NEW t, NEW d, World(gs, p, t, d),
         NEW i \in DOMAIN gs, gs[i].restoring,
         NEW h \in GroupType, h.job = gs[i].job, h.root = gs[i].root,
         h.choices = gs[i].choices, ~h.restoring
  PROVE  World([gs EXCEPT ![i] = h], p, t, d)
<1>1. PICK g \in GroupType : g = gs[i]
  BY RestoringRoot
<1>2. PICK r \in Slot : r = g.root /\ r = h.root
  BY <1>1, RestoringRoot
<1>3. /\ p.past[r] = 0 /\ RootSound(g, p, t) /\ g.choices = << >> /\ Len(t[r]) = 0
  BY <1>1, <1>2, RestoringRoot
<1>4. PromptLen(h.job) # 0
  BY GroupFields, JobFacts
<1>5. RootSound(h, p, t)
  BY <1>1, <1>2, <1>3, <1>4 DEF RootSound
<1>6. p \in Pool /\ PoolInv(p) /\ t \in [Slot -> Seq(Token)]
  BY DEF World
<1> QED
  BY <1>1, <1>2, <1>3, <1>5, <1>6, WorldRoot DEF OnlyAt

\* Rows arrive: the root gets the pages for them.
LEMMA WorldRows ==
  ASSUME NEW gs, NEW p, NEW t, NEW d, World(gs, p, t, d),
         NEW i \in DOMAIN gs, gs[i].restoring,
         NEW end \in 1 .. PromptLen(gs[i].job), PrepareOk(p, gs[i].root, end),
         NEW h \in GroupType, h.job = gs[i].job, h.root = gs[i].root,
         h.choices = gs[i].choices, h.restoring, h.imported = end,
         h.logits = gs[i].logits,
         NEW q, q = PrepareAny(p, gs[i].root, end)
  PROVE  World([gs EXCEPT ![i] = h], q, t, d)
<1>1. PICK g \in GroupType : g = gs[i]
  BY RestoringRoot
<1>2. PICK r \in Slot : r = g.root
  BY <1>1, RestoringRoot
<1>3. /\ p.past[r] = 0 /\ RootSound(g, p, t) /\ g.choices = << >> /\ Len(t[r]) = 0 /\ p.live[r]
  BY <1>1, <1>2, RestoringRoot
<1>4. PromptLen(g.job) \in Nat /\ end \in Nat /\ end <= PromptLen(g.job)
  BY <1>1, GroupFields, JobFacts
<1>5. /\ h \in GroupType /\ h.job = g.job /\ h.root = r /\ h.choices = g.choices
      /\ h.restoring /\ h.imported = end /\ h.logits = g.logits
  BY <1>1, <1>2
<1>6. p \in Pool /\ PoolInv(p) /\ t \in [Slot -> Seq(Token)]
  BY DEF World
<1>7. Needed(p, r, end) <= Cardinality(p.free)
  BY <1>1, <1>2 DEF PrepareOk
<1>8. PICK new \in Picks(p.free, Needed(p, r, end)) : q = Prepare(p, r, end, new)
  <2>1. q = PrepareAny(p, r, end)
    BY <1>1, <1>2
  <2> QED
    BY <1>3, <1>4, <1>6, <1>7, <2>1, PrepareAnySound
<1>9. /\ q \in Pool /\ PoolInv(q) /\ q.live = p.live /\ q.past = p.past
      /\ PagesFor(end) <= Len(q.table[r]) /\ OthersKept(p, q, r)
  BY <1>3, <1>4, <1>6, <1>8, PrepareSound
<1>10. OnlyAt(p, t, q, t, r)
  BY <1>9 DEF OthersKept, OnlyAt
<1>11. RootSound(h, q, t)
  BY <1>1, <1>2, <1>3, <1>4, <1>5, <1>9 DEF RootSound
<1>12. q.past[r] = Len(t[r])
  BY <1>3, <1>9
<1>13. gs[i].root = r /\ h.choices = gs[i].choices
  BY <1>1, <1>2, <1>5
<1> QED
  BY <1>5, <1>6, <1>9, <1>10, <1>11, <1>12, <1>13, WorldRoot

\* The snapshot at the end of the rows makes them valid.
Rewritten(t, r, s, n) == [t EXCEPT ![r] = SubSeq(s, 1, n)]

LEMMA WorldSnapshot ==
  ASSUME NEW gs, NEW p, NEW t, NEW d, World(gs, p, t, d),
         NEW i \in DOMAIN gs, gs[i].restoring,
         NEW end, end = gs[i].imported,
         NEW h \in GroupType, h.job = gs[i].job, h.root = gs[i].root,
         h.choices = gs[i].choices, ~h.restoring, h.logits = end,
         NEW r \in Slot, r = gs[i].root,
         NEW q, q = MoveTo(p, r, end),
         NEW u, u = Rewritten(t, r, Prompt[gs[i].job], end)
  PROVE  World([gs EXCEPT ![i] = h], q, u, d)
<1>1. PICK g \in GroupType : g = gs[i]
  BY RestoringRoot
<1>2. r = g.root
  BY <1>1
<1>3. /\ p.past[r] = 0 /\ RootSound(g, p, t) /\ g.choices = << >> /\ p.live[r]
  BY <1>1, <1>2, RestoringRoot
<1>4. /\ PromptLen(g.job) \in Nat /\ end \in Nat /\ end <= PromptLen(g.job)
      /\ Prompt[g.job] \in Seq(Token) /\ PromptLen(g.job) = Len(Prompt[g.job])
  BY <1>1, <1>3, GroupFields, JobFacts DEF RootSound
<1>5. /\ h \in GroupType /\ h.job = g.job /\ h.root = r /\ h.choices = g.choices
      /\ ~h.restoring /\ h.logits = end
  BY <1>1, <1>2
<1>6. p \in Pool /\ PoolInv(p) /\ t \in [Slot -> Seq(Token)]
  BY DEF World
<1>7. PagesFor(end) <= Len(p.table[r]) /\ PagesFor(end) \in Nat
  BY <1>1, <1>2, <1>3, <1>4, PagesForType DEF RootSound
<1>8. PrivateFrom(p, r, PagesFor(end) + 1)
  <2>1. PrivateFrom(p, r, PagesFor(0) + 1)
    BY <1>3, <1>6 DEF PoolInv, SparePrivate
  <2>2. PrivateFrom(p, r, 1)
    BY <2>1, PagesForZero
  <2> QED
    BY <1>6, <1>7, <2>2, PrivateLater
<1>10. q \in Pool /\ PoolInv(q)
  BY <1>4, <1>6, <1>7, <1>8, MoveToSound
<1>11. q.live = p.live /\ q.table = p.table /\ q.past = [p.past EXCEPT ![r] = end]
  BY <1>6 DEF MoveTo, Pool
<1>12. PICK v \in Seq(Token) : /\ v = SubSeq(Prompt[g.job], 1, end)
                               /\ Len(v) = end /\ IsPrefix(v, Prompt[g.job])
  BY <1>4, FirstRows
<1>13. u = [t EXCEPT ![r] = v]
  BY <1>1, <1>12 DEF Rewritten
<1>14. /\ u \in [Slot -> Seq(Token)] /\ u[r] = v /\ q.past[r] = end
       /\ OnlyAt(p, t, q, u, r)
  <2>1. p.past \in [Slot -> Nat]
    BY <1>6, PoolFields
  <2> QED
    BY <1>6, <1>11, <1>12, <1>13, <2>1 DEF OnlyAt
<1>15. RootSound(h, q, u)
  BY <1>3, <1>4, <1>5, <1>12, <1>14 DEF RootSound
<1>16. gs[i].root = r /\ h.choices = gs[i].choices /\ q.past[r] = Len(u[r])
  BY <1>1, <1>2, <1>5, <1>12, <1>14
<1> QED
  BY <1>5, <1>6, <1>10, <1>11, <1>14, <1>15, <1>16, WorldRoot

LEMMA RestoreKeeps == ASSUME EngineInv, Restore PROVE EngineInv'
<1>1. World(groups, pool, text, idle) /\ at \in Nat \ {0} /\ cursor \in Nat
      /\ todo = << >> /\ scheduled = << >> /\ groups \in Seq(GroupType)
  BY DEF EngineInv, Restore, World
<1>2. PICK i : i = NextRestoring
  OBVIOUS
<1>3. i \in DOMAIN groups /\ groups[i].restoring /\ i \in Nat
  BY <1>1, <1>2, NextRestoringFacts DEF Restore
<1>4. PICK g \in GroupType : g = groups[i]
  BY <1>1, <1>3
<1>5. /\ pc' \in Phases /\ at' = i + 1 /\ cursor' = cursor /\ idle' = idle
      /\ todo' = todo /\ scheduled' = scheduled
  BY <1>2 DEF Restore, Phases
<1>6. World(groups', pool', text', idle)
  <2>1. CASE ~staged[g.job]
    BY <1>1, <1>2, <1>4, <2>1 DEF Restore
  <2>2. CASE staged[g.job]
    <3>1. PICK object \in StagedFor(g) :
            LET r == Restored(g, object)
            IN  /\ groups' = [groups EXCEPT ![i] = r]
                /\ IF r.imported > g.imported
                   THEN pool' = PrepareAny(pool, g.root, object.end) /\ text' = text
                   ELSE IF object.kind = "snapshot"
                   THEN /\ pool' = MoveTo(pool, g.root, object.end)
                        /\ text' = [text EXCEPT ![g.root] =
                                      SubSeq(Prompt[g.job], 1, object.end)]
                   ELSE /\ pool' = IF r = Restarted(g)
                                   THEN MoveTo(pool, g.root, 0) ELSE pool
                        /\ text' = text
      BY <1>2, <1>4, <2>2 DEF Restore
    <3>2. PICK r : r = Restored(g, object)
      OBVIOUS
    <3>3. /\ g.root \in Slot /\ pool.past[g.root] = 0 /\ pool \in Pool
          /\ g.imported \in Nat /\ PromptLen(g.job) \in Nat
      <4>1. g.root \in Slot /\ pool.past[g.root] = 0
        BY <1>1, <1>3, <1>4, RestoringRoot
      <4>2. pool \in Pool
        BY <1>1 DEF World
      <4> QED
        BY <4>1, <4>2, GroupFields, JobFacts
    <3>4. MoveTo(pool, g.root, 0) = pool
      BY <3>3, MoveNowhere
    <3>5. PICK h : h = Restarted(g)
      OBVIOUS
    <3>6. /\ h \in GroupType /\ h.job = g.job /\ h.root = g.root /\ h.choices = g.choices
          /\ ~h.restoring /\ h.imported = 0
      BY <3>5, RestartedFacts
    <3>7. CASE r = h /\ object.kind # "snapshot"
      <4>1. groups' = [groups EXCEPT ![i] = h] /\ pool' = pool /\ text' = text
        BY <3>1, <3>2, <3>3, <3>4, <3>6, <3>7
      <4> QED
        BY <1>1, <1>3, <1>4, <3>6, <4>1, WorldRestart
    <3>8. CASE object.kind = "rows"
      <4>1. object.end \in 1 .. PromptLen(g.job) /\ object.end > g.imported
        BY <3>3, <3>8 DEF StagedFor
      <4>2. CASE PrepareOk(pool, g.root, object.end)
        <5>1. r = [g EXCEPT !.imported = object.end]
          BY <3>2, <3>8, <4>2 DEF Restored
        <5>2. /\ r \in GroupType /\ r.job = g.job /\ r.root = g.root
              /\ r.choices = g.choices /\ r.restoring = g.restoring
              /\ r.imported = object.end /\ r.logits = g.logits
          <6>1. object.end \in Nat
            BY <3>3, <4>1
          <6> QED
            BY <5>1, <6>1, GroupFields DEF GroupType
        <5>3. /\ groups' = [groups EXCEPT ![i] = r] /\ text' = text
              /\ pool' = PrepareAny(pool, g.root, object.end)
          BY <3>1, <3>2, <4>1, <5>2
        <5> QED
          BY <1>1, <1>3, <1>4, <4>1, <4>2, <5>2, <5>3, WorldRows
      <4>3. CASE ~PrepareOk(pool, g.root, object.end)
        BY <3>2, <3>5, <3>7, <3>8, <4>3 DEF Restored
      <4> QED
        BY <4>2, <4>3
    <3>9. CASE object.kind = "snapshot"
      <4>1. object.end = g.imported
        BY <3>9 DEF StagedFor
      <4>2. r = [g EXCEPT !.logits = object.end, !.restoring = FALSE]
        BY <3>2, <3>9 DEF Restored
      <4>3. ~(r.imported > g.imported)
        BY <3>3, <4>2 DEF GroupType
      <4>4. /\ groups' = [groups EXCEPT ![i] = r]
            /\ pool' = MoveTo(pool, g.root, object.end)
            /\ text' = [text EXCEPT ![g.root] = SubSeq(Prompt[g.job], 1, object.end)]
        BY <3>1, <3>2, <3>9, <4>3
      <4>5. /\ r \in GroupType /\ r.job = g.job /\ r.root = g.root
            /\ r.choices = g.choices /\ ~r.restoring /\ r.logits = g.imported
        BY <3>3, <4>1, <4>2, GroupFields DEF GroupType
      <4>6. PICK root \in Slot, end \in Nat : root = g.root /\ end = g.imported
        BY <3>3
      <4>7. PICK q : q = MoveTo(pool, root, end)
        OBVIOUS
      <4>8. PICK u : u = Rewritten(text, root, Prompt[groups[i].job], end)
        OBVIOUS
      <4>9. pool' = q /\ text' = u
        BY <1>4, <4>1, <4>4, <4>6, <4>7, <4>8 DEF Rewritten
      <4>10. /\ end = groups[i].imported /\ root = groups[i].root
             /\ r \in GroupType /\ r.job = groups[i].job /\ r.root = groups[i].root
             /\ r.choices = groups[i].choices /\ ~r.restoring /\ r.logits = end
        BY <1>4, <4>5, <4>6
      <4>11. World([groups EXCEPT ![i] = r], q, u, idle)
        BY <1>1, <1>3, <4>7, <4>8, <4>10, WorldSnapshot
      <4> QED
        BY <4>4, <4>9, <4>11
    <3>10. CASE object.kind = "error"
      BY <3>2, <3>5, <3>7, <3>10 DEF Restored
    <3>11. CASE object.kind = "closed"
      <4>1. CASE g.imported > 0
        BY <3>2, <3>5, <3>7, <3>11, <4>1 DEF Restored
      <4>2. CASE ~(g.imported > 0)
        <5>1. r = [g EXCEPT !.restoring = FALSE]
          BY <3>2, <3>11, <4>2 DEF Restored
        <5>2. /\ r \in GroupType /\ r.job = g.job /\ r.root = g.root
              /\ r.choices = g.choices /\ ~r.restoring /\ r.imported = g.imported
          BY <5>1, GroupFields DEF GroupType
        <5>3. groups' = [groups EXCEPT ![i] = r] /\ pool' = pool /\ text' = text
          BY <3>1, <3>2, <3>3, <3>4, <3>11, <5>2
        <5> QED
          BY <1>1, <1>3, <1>4, <5>2, <5>3, WorldRestart
      <4> QED
        BY <4>1, <4>2
    <3> QED
      BY <3>8, <3>9, <3>10, <3>11 DEF StagedFor
  <2> QED
    BY <2>1, <2>2
<1> QED
  BY <1>1, <1>3, <1>5, <1>6, PhaseKeeps

-----------------------------------------------------------------------------
(***************************************************************************)
(* Scheduling                                                              *)
(***************************************************************************)
LEMMA ModApart ==
  ASSUME NEW n \in Nat \ {0}, NEW a \in Nat, NEW b \in Nat, a < b, b < a + n
  PROVE  a % n # b % n
<1> DEFINE q == a \div n
           r == b \div n
           m == a % n
<1>1. q \in Int /\ m \in Int /\ a = n * q + m
  OBVIOUS
<1>2. r \in Int /\ b % n \in Int /\ b = n * r + (b % n)
  OBVIOUS
<1> HIDE DEF q, r
<1> SUFFICES ASSUME m = b % n PROVE FALSE
  OBVIOUS
<1>5. b = n * r + m
  BY <1>2
<1> HIDE DEF m
<1>6. b - a = n * (r - q)
  BY <1>1, <1>2, <1>5
<1>7. r - q >= 1
  BY <1>1, <1>2, <1>6
<1>8. n * (r - q) >= n
  BY <1>1, <1>2, <1>7
<1> QED
  BY <1>1, <1>2, <1>6, <1>8

LEMMA PlacesFacts ==
  ASSUME groups \in Seq(GroupType)
  PROVE  /\ Places \in Seq((Nat \ {0}) \X (1 .. NSlots)) /\ Distinct(Places)
         /\ \A e \in Elems(Places) : e[1] \in DOMAIN groups /\ e[2] \in 1 .. NSlots
<1>1. NSlots \in Nat \ {0} /\ Len(groups) \in Nat /\ DOMAIN groups = 1 .. Len(groups)
  BY SlotsAssumption
<1>2. PICK n \in Nat : n = Len(groups) * NSlots
  BY <1>1
<1>3. DOMAIN Places = 1 .. n
      /\ \A k \in 1 .. n : Places[k] = <<(k - 1) \div NSlots + 1, ((k - 1) % NSlots) + 1>>
  BY <1>2 DEF Places
<1>4. ASSUME NEW k \in 1 .. n
      PROVE  /\ (k - 1) \div NSlots + 1 \in 1 .. Len(groups)
             /\ ((k - 1) % NSlots) + 1 \in 1 .. NSlots
  <2>1. PICK q \in Int : q = (k - 1) \div NSlots
    BY <1>1
  <2>2. (k - 1) % NSlots \in 0 .. NSlots - 1
    BY <1>1
  <2>3. k - 1 = NSlots * q + ((k - 1) % NSlots)
    BY <1>1, <2>1
  <2>4. q >= 0
    BY <1>1, <2>1
  <2>5. NSlots * q < Len(groups) * NSlots
    BY <1>1, <1>2, <2>2, <2>3
  <2>6. q < Len(groups)
    BY <1>1, <2>5
  <2> QED
    BY <1>1, <2>1, <2>2, <2>4, <2>6
<1>5. Places \in Seq((Nat \ {0}) \X (1 .. NSlots))
  <2>1. \A k \in 1 .. n : Places[k] \in (Nat \ {0}) \X (1 .. NSlots)
    <3>1. ASSUME NEW k \in 1 .. n PROVE Places[k] \in (Nat \ {0}) \X (1 .. NSlots)
      <4>1. (k - 1) \div NSlots + 1 \in Nat \ {0} /\ ((k - 1) % NSlots) + 1 \in 1 .. NSlots
        BY <1>1, <1>4
      <4>2. Places[k] = <<(k - 1) \div NSlots + 1, ((k - 1) % NSlots) + 1>>
        BY <1>3
      <4> QED
        BY <4>1, <4>2
    <3> QED
      BY <3>1
  <2>2. Places = [k \in 1 .. n |-> Places[k]]
    BY <1>2 DEF Places
  <2> QED
    BY <2>1, <2>2
<1>6. ASSUME NEW k \in 1 .. n, NEW l \in 1 .. n, Places[k] = Places[l] PROVE k = l
  <2>1. (k - 1) \div NSlots = (l - 1) \div NSlots /\ (k - 1) % NSlots = (l - 1) % NSlots
    BY <1>1, <1>3, <1>6
  <2>2. PICK q \in Int : q = (k - 1) \div NSlots
    BY <1>1
  <2>3. PICK m \in Int : m = (k - 1) % NSlots
    BY <1>1
  <2>4. k - 1 = NSlots * q + m
    BY <1>1, <2>2, <2>3
  <2>5. l - 1 = NSlots * q + m
    BY <1>1, <2>1, <2>2, <2>3
  <2> QED
    BY <2>4, <2>5
<1>7. \A e \in Elems(Places) : e[1] \in DOMAIN groups /\ e[2] \in 1 .. NSlots
  BY <1>1, <1>3, <1>4 DEF Elems
<1> QED
  BY <1>3, <1>5, <1>6, <1>7 DEF Distinct

\* What two sequences of inputs join to.
Joined(r, a, b) ==
  /\ r \in Seq(InputType) /\ Elems(r) = Elems(a) \cup Elems(b)
  /\ Len(r) = Len(a) + Len(b)
  /\ \A k \in DOMAIN r : \/ k \in DOMAIN a /\ r[k] = a[k]
                         \/ k \notin DOMAIN a /\ k - Len(a) \in DOMAIN b /\ r[k] = b[k - Len(a)]

LEMMA JoinFacts ==
  ASSUME NEW a \in Seq(InputType), NEW b \in Seq(InputType), NEW r, r = a \o b
  PROVE  Joined(r, a, b)
<1>1. /\ r \in Seq(InputType) /\ Len(r) = Len(a) + Len(b) /\ Len(a) \in Nat /\ Len(b) \in Nat
      /\ DOMAIN r = 1 .. Len(a) + Len(b) /\ DOMAIN a = 1 .. Len(a) /\ DOMAIN b = 1 .. Len(b)
      /\ \A k \in 1 .. Len(a) + Len(b) : r[k] = IF k <= Len(a) THEN a[k] ELSE b[k - Len(a)]
  OBVIOUS
<1>2. \A k \in DOMAIN r : \/ k \in DOMAIN a /\ r[k] = a[k]
                          \/ k \notin DOMAIN a /\ k - Len(a) \in DOMAIN b /\ r[k] = b[k - Len(a)]
  BY <1>1
<1>3. Elems(r) \subseteq Elems(a) \cup Elems(b)
  BY <1>2 DEF Elems
<1>4. Elems(a) \subseteq Elems(r)
  BY <1>1 DEF Elems
<1>5. ASSUME NEW k \in DOMAIN b PROVE b[k] \in Elems(r)
  <2>1. k + Len(a) \in DOMAIN r /\ ~(k + Len(a) <= Len(a)) /\ (k + Len(a)) - Len(a) = k
    BY <1>1
  <2>2. r[k + Len(a)] = b[k]
    BY <1>1, <2>1
  <2> QED
    BY <2>1, <2>2 DEF Elems
<1>6. Elems(b) \subseteq Elems(r)
  BY <1>5 DEF Elems
<1> QED
  BY <1>1, <1>2, <1>3, <1>4, <1>6 DEF Joined

\* The decodes and the prefills make one batch.
LEMMA BatchJoin ==
  ASSUME NEW gs, NEW p, NEW a, NEW b, BatchSound(a, gs, p), BatchSound(b, gs, p),
         \A x \in Elems(a) : x.choice # 0, \A x \in Elems(b) : x.choice = 0
  PROVE  BatchSound(a \o b, gs, p)
<1>1. a \in Seq(InputType) /\ b \in Seq(InputType)
  BY DEF BatchSound
<1>2. PICK r : r = a \o b
  OBVIOUS
<1>3. /\ r \in Seq(InputType) /\ Elems(r) = Elems(a) \cup Elems(b)
      /\ \A k \in DOMAIN r : \/ k \in DOMAIN a /\ r[k] = a[k]
                             \/ k \notin DOMAIN a /\ k - Len(a) \in DOMAIN b /\ r[k] = b[k - Len(a)]
  <2>1. Joined(r, a, b)
    BY <1>1, <1>2, JoinFacts
  <2> QED
    BY <2>1 DEF Joined
<1>4. DOMAIN r \subseteq Int /\ Len(a) \in Int
  BY <1>1, <1>3
<1>5. ASSUME NEW k \in DOMAIN r, NEW l \in DOMAIN r, r[k].group = r[l].group, r[k].choice = r[l].choice
      PROVE  k = l
  <2>1. \A m \in DOMAIN a : a[m].choice # 0
    BY DEF Elems
  <2>2. \A m \in DOMAIN b : b[m].choice = 0
    BY DEF Elems
  <2>3. CASE k \in DOMAIN a
    <3>1. l \in DOMAIN a
      BY <1>3, <1>5, <2>1, <2>2, <2>3
    <3> QED
      BY <1>3, <1>5, <2>3, <3>1 DEF BatchSound
  <2>4. CASE k \notin DOMAIN a
    <3>1. l \notin DOMAIN a
      BY <1>3, <1>5, <2>1, <2>2, <2>4
    <3>2. k - Len(a) = l - Len(a)
      BY <1>3, <1>5, <2>4, <3>1 DEF BatchSound
    <3> QED
      BY <1>4, <3>2
  <2> QED
    BY <2>3, <2>4
<1>6. \A x \in Elems(r) : /\ x.group \in DOMAIN gs /\ Len(x.tokens) > 0
                          /\ x.choice = 0 => PromptInput(x, gs, p)
                          /\ x.choice # 0 => ChoiceInput(x, gs)
  BY <1>3 DEF BatchSound
<1> QED
  BY <1>2, <1>3, <1>5, <1>6 DEF BatchSound

\* A choice that waits for its pending token to be run.
PendingChoice(d, gs) ==
  /\ d[1] \in DOMAIN gs /\ d[2] \in Unfinished(gs[d[1]])
  /\ gs[d[1]].choices[d[2]].pending # None
DecodeOf(d, gs) ==
  Input(d[1], d[2], gs[d[1]].choices[d[2]].seq, <<gs[d[1]].choices[d[2]].pending>>, TRUE)

LEMMA DecodeFacts ==
  ASSUME NEW gs \in Seq(GroupType), NEW d \in TodoPair, PendingChoice(d, gs),
         NEW x, x = DecodeOf(d, gs)
  PROVE  /\ x \in InputType /\ x.group = d[1] /\ x.choice = d[2] /\ x.choice # 0
         /\ x.group \in DOMAIN gs /\ Len(x.tokens) = 1 /\ x.logits
         /\ x.tokens = <<gs[d[1]].choices[d[2]].pending>>
         /\ ChoiceInput(x, gs)
<1>1. NSlots \in Nat
  BY SlotsAssumption
<1>2. d[1] \in Nat /\ d[2] \in Nat \ {0}
  BY <1>1 DEF TodoPair
<1>3. PICK g \in GroupType : g = gs[d[1]]
  BY DEF PendingChoice
<1>4. d[2] \in Unfinished(g) /\ d[2] \in DOMAIN g.choices /\ g.choices[d[2]].pending # None
  BY <1>3, HeldSlots DEF PendingChoice
<1>5. PICK ch \in ChoiceType : ch = g.choices[d[2]]
  BY <1>4, GroupFields
<1>6. ch.seq \in Slot /\ ch.pending \in Token
  BY <1>4, <1>5 DEF ChoiceType
<1>7. /\ x.group = d[1] /\ x.choice = d[2] /\ x.seq = ch.seq /\ x.tokens = <<ch.pending>>
      /\ x.logits = TRUE
      /\ x = [group |-> x.group, choice |-> x.choice, seq |-> x.seq,
              tokens |-> x.tokens, logits |-> x.logits]
  BY <1>3, <1>5 DEF DecodeOf, Input
<1>8. x.tokens \in Seq(Token) /\ Len(x.tokens) = 1
  BY <1>6, <1>7
<1>9. x \in InputType
  BY <1>2, <1>6, <1>7, <1>8 DEF InputType
<1>10. ChoiceInput(x, gs)
  BY <1>3, <1>4, <1>5, <1>7, <1>8 DEF ChoiceInput
<1> QED
  BY <1>2, <1>3, <1>5, <1>7, <1>8, <1>9, <1>10 DEF PendingChoice

\* Every choice that waits decodes its token, each once.
LEMMA DecodesSound ==
  ASSUME groups \in Seq(GroupType), NEW r, r = Decodes
  PROVE  BatchSound(r, groups, pool) /\ \A x \in Elems(r) : x.choice # 0
<1> DEFINE S == {d \in Elems(Places) : /\ d[2] \in Unfinished(groups[d[1]])
                                       /\ groups[d[1]].choices[d[2]].pending # None}
<1>1. /\ Places \in Seq(TodoPair) /\ Distinct(Places)
      /\ \A e \in Elems(Places) : e[1] \in DOMAIN groups /\ e[2] \in 1 .. NSlots
  BY PlacesFacts DEF TodoPair
<1>2. PICK order : order = Only(Places, S)
  OBVIOUS
<1>3. order \in Seq(TodoPair) /\ Elems(order) = Elems(Places) \cap S /\ Distinct(order)
  <2> HIDE DEF S
  <2> QED
    BY <1>1, <1>2, OnlyFacts
<1>4. r = [k \in DOMAIN order |-> DecodeOf(order[k], groups)]
  BY <1>2 DEF Decodes, DecodeOf
<1>5. Len(order) \in Nat /\ DOMAIN order = 1 .. Len(order)
      /\ \A k \in DOMAIN order : order[k] \in TodoPair /\ order[k] \in Elems(order)
  BY <1>3 DEF Elems
<1>6. \A k \in DOMAIN order : PendingChoice(order[k], groups)
  BY <1>1, <1>3, <1>5 DEF PendingChoice
<1> HIDE DEF S
<1>7. DOMAIN r = 1 .. Len(order) /\ \A k \in DOMAIN r : r[k] = DecodeOf(order[k], groups)
  BY <1>4, <1>5
<1>8. ASSUME NEW k \in DOMAIN r
      PROVE  /\ r[k] \in InputType /\ r[k].group = order[k][1] /\ r[k].choice = order[k][2]
             /\ r[k].choice # 0 /\ r[k].group \in DOMAIN groups /\ Len(r[k].tokens) = 1
             /\ ChoiceInput(r[k], groups)
  <2>1. order[k] \in TodoPair /\ PendingChoice(order[k], groups)
        /\ r[k] = DecodeOf(order[k], groups)
    BY <1>5, <1>6, <1>7
  <2> QED
    BY <2>1, DecodeFacts
<1>9. r \in Seq(InputType)
  BY <1>4, <1>5, <1>7, <1>8
<1>10. ASSUME NEW k \in DOMAIN r, NEW l \in DOMAIN r,
              r[k].group = r[l].group, r[k].choice = r[l].choice
       PROVE  k = l
  <2>1. order[k] \in TodoPair /\ order[l] \in TodoPair
        /\ order[k][1] = order[l][1] /\ order[k][2] = order[l][2]
    BY <1>5, <1>7, <1>8, <1>10
  <2>2. order[k] = order[l]
    BY <2>1 DEF TodoPair
  <2> QED
    BY <1>3, <1>5, <1>7, <2>2 DEF Distinct
<1>11. ASSUME NEW x \in Elems(r)
       PROVE  /\ x.group \in DOMAIN groups /\ Len(x.tokens) > 0 /\ x.choice # 0
              /\ ChoiceInput(x, groups)
  <2>1. PICK k \in DOMAIN r : x = r[k]
    BY DEF Elems
  <2>2. /\ r[k].group \in DOMAIN groups /\ Len(r[k].tokens) = 1 /\ r[k].choice # 0
        /\ ChoiceInput(r[k], groups)
    BY <1>8
  <2>3. Len(x.tokens) = 1
    BY <2>1, <2>2
  <2> QED
    BY <2>1, <2>2, <2>3
<1> QED
  BY <1>9, <1>10, <1>11 DEF BatchSound

\* The input of the group whose turn is the k-th, if it has one, and what is
\* then left of the batch.
Wanted(j, end) == (end = PromptLen(j)) \/ (Prefix /\ end \in SnapshotPoints[j])
PrefillTo(i, g, end) ==
  Input(i, 0, g.root, SubSeq(Prompt[g.job], pool.past[g.root] + 1, end), Wanted(g.job, end))
PrefillOf(k, rows) == PrefillTo(Turn(k), groups[Turn(k)], ChunkEnd(groups[Turn(k)], rows))
Prefillable(k, rows) ==
  LET g == groups[Turn(k)]
  IN  g.root # None /\ ~g.restoring /\ ChunkEnd(g, rows) > pool.past[g.root]
NextPrefill(k, b) ==
  IF Prefillable(k, b.left)
  THEN [left |-> b.left - (ChunkEnd(groups[Turn(k)], b.left) - pool.past[groups[Turn(k)].root]),
        inputs |-> Append(b.inputs, PrefillOf(k, b.left))]
  ELSE b

PrefilledTo(budget, n, f) ==
  f = [k \in 0 .. n |-> IF k = 0 THEN [left |-> budget, inputs |-> << >>]
                        ELSE NextPrefill(k, f[k - 1])]

LEMMA PrefilledExists ==
  ASSUME NEW budget, NEW n \in Nat
  PROVE  \E f : PrefilledTo(budget, n, f)
<1> DEFINE first == [left |-> budget, inputs |-> << >>]
           N == {k \in Nat : \E f : PrefilledTo(budget, k, f)}
<1> HIDE DEF first
<1>1. 0 \in N
  <2> DEFINE f == [k \in 0 .. 0 |-> first]
  <2>1. PrefilledTo(budget, 0, f)
    BY DEF PrefilledTo, first
  <2> QED
    BY <2>1
<1>2. ASSUME NEW m \in Nat, m \in N PROVE m + 1 \in N
  <2>1. PICK f : PrefilledTo(budget, m, f)
    BY <1>2
  <2> DEFINE g == [k \in 0 .. m + 1 |-> IF k = m + 1 THEN NextPrefill(m + 1, f[m]) ELSE f[k]]
  <2>2. \A k \in 0 .. m : g[k] = f[k]
    OBVIOUS
  <2>3. ASSUME NEW k \in 0 .. m + 1
        PROVE  g[k] = IF k = 0 THEN first ELSE NextPrefill(k, g[k - 1])
    <3>1. CASE k = m + 1
      <4>1. k - 1 = m /\ m \in 0 .. m /\ k # 0
        BY <3>1
      <4>2. g[k] = NextPrefill(m + 1, f[m]) /\ g[k - 1] = f[m]
        BY <3>1, <4>1, <2>2
      <4> QED
        BY <3>1, <4>1, <4>2
    <3>2. CASE k # m + 1
      <4>1. k \in 0 .. m /\ (k # 0 => k - 1 \in 0 .. m)
        BY <3>2
      <4>2. f[k] = IF k = 0 THEN first ELSE NextPrefill(k, f[k - 1])
        BY <4>1, <2>1 DEF PrefilledTo, first
      <4> QED
        BY <4>1, <4>2, <2>2
    <3> QED
      BY <3>1, <3>2
  <2>4. g = [k \in 0 .. m + 1 |-> g[k]]
    OBVIOUS
  <2> HIDE DEF g
  <2>5. PrefilledTo(budget, m + 1, g)
    BY <2>3, <2>4 DEF PrefilledTo, first
  <2> QED
    BY <2>5
<1> HIDE DEF N
<1>3. n \in N
  BY <1>1, <1>2, NatInd
<1> QED
  BY <1>3 DEF N

\* A prefill ends within the prompt and within the rows that are left.
LEMMA ChunkEndFacts ==
  ASSUME NEW g \in GroupType, pool \in Pool, g.root \in Slot, NEW rows \in Nat,
         NEW end, end = ChunkEnd(g, rows)
  PROVE  end \in Nat /\ end <= PromptLen(g.job) /\ end <= pool.past[g.root] + rows
<1>1. /\ PromptLen(g.job) \in Nat /\ pool.past[g.root] \in Nat
      /\ SnapshotPoints[g.job] \subseteq Nat
  <2>1. g.job \in Job
    BY GroupFields
  <2>2. PromptLen(g.job) \in Nat /\ SnapshotPoints[g.job] \subseteq 1 .. PromptLen(g.job)
    BY <2>1, JobFacts
  <2>3. pool.past[g.root] \in Nat
    BY TableLengths
  <2> QED
    BY <2>2, <2>3
<1>2. pool.past[g.root] + rows \in Nat
  BY <1>1
<1>3. PICK T : T = Ends(g, rows)
  OBVIOUS
<1>4. T \in SUBSET Nat /\ PromptLen(g.job) \in T /\ pool.past[g.root] + rows \in T
  BY <1>1, <1>2, <1>3 DEF Ends
<1>5. \E e \in T : \A q \in T : e <= q
  BY <1>4, NatLeast
<1>6. end = CHOOSE e \in T : \A q \in T : e <= q
  BY <1>3 DEF ChunkEnd
<1>7. end \in T /\ \A q \in T : end <= q
  BY <1>5, <1>6
<1> QED
  BY <1>4, <1>7

LEMMA TurnFacts ==
  ASSUME groups \in Seq(GroupType), cursor \in Nat, NEW k \in 1 .. Len(groups)
  PROVE  /\ Turn(k) \in DOMAIN groups /\ Turn(k) \in Nat
         /\ \A m \in 1 .. Len(groups) : m # k => Turn(m) # Turn(k)
<1>1. Len(groups) \in Nat \ {0} /\ DOMAIN groups = 1 .. Len(groups)
  OBVIOUS
<1>2. \A m \in 1 .. Len(groups) : cursor + m - 1 \in Nat
  OBVIOUS
<1>3. (cursor + k - 1) % Len(groups) \in 0 .. Len(groups) - 1
  BY <1>1, <1>2
<1>4. ASSUME NEW m \in 1 .. Len(groups), NEW l \in 1 .. Len(groups), m < l
      PROVE  (cursor + m - 1) % Len(groups) # (cursor + l - 1) % Len(groups)
  <2>1. cursor + m - 1 < cursor + l - 1 /\ cursor + l - 1 < (cursor + m - 1) + Len(groups)
    BY <1>1, <1>4
  <2> QED
    BY <1>1, <1>2, <2>1, ModApart
<1>5. \A m \in 1 .. Len(groups) : (cursor + m - 1) % Len(groups) \in Int
  BY <1>1, <1>2
<1>6. ASSUME NEW m \in 1 .. Len(groups), m # k PROVE Turn(m) # Turn(k)
  <2>1. m < k \/ k < m
    BY <1>6
  <2>2. (cursor + m - 1) % Len(groups) # (cursor + k - 1) % Len(groups)
    BY <1>4, <2>1
  <2> QED
    BY <1>5, <2>2 DEF Turn
<1> QED
  BY <1>1, <1>3, <1>6 DEF Turn

\* The rows of s behind the first m, up to the n-th.
LEMMA RowsFacts ==
  ASSUME NEW s \in Seq(Token), NEW m \in Nat, NEW n \in Nat, m < n, n <= Len(s),
         NEW r, r = SubSeq(s, m + 1, n)
  PROVE  /\ r \in Seq(Token) /\ Len(r) = n - m
         /\ \A k \in 1 .. n - m : r[k] = s[m + k]
<1>1. \A i \in m + 1 .. n : s[i] \in Token
  OBVIOUS
<1>2. m + 1 \in Int /\ n \in Int /\ m + 1 <= n
  OBVIOUS
<1>3. /\ r \in Seq(Token) /\ Len(r) = n - (m + 1) + 1
      /\ \A i \in 1 .. n - (m + 1) + 1 : r[i] = s[m + 1 + i - 1]
  BY <1>1, <1>2, SubSeqProperties
<1>4. n - (m + 1) + 1 = n - m /\ \A k \in 1 .. n - m : m + 1 + k - 1 = m + k
  OBVIOUS
<1> QED
  BY <1>3, <1>4

\* The input of a group continues its prompt.
LEMMA PrefillFacts ==
  ASSUME World(groups, pool, text, idle), cursor \in Nat,
         NEW k \in 1 .. Len(groups), NEW rows \in Nat, Prefillable(k, rows),
         NEW x, x = PrefillOf(k, rows)
  PROVE  /\ x \in InputType /\ x.group = Turn(k) /\ x.choice = 0
         /\ x.group \in DOMAIN groups /\ Len(x.tokens) > 0
         /\ Len(x.tokens) = ChunkEnd(groups[Turn(k)], rows) - pool.past[groups[Turn(k)].root]
         /\ Len(x.tokens) <= rows /\ Len(x.tokens) \in Nat
         /\ PromptInput(x, groups, pool)
<1>1. groups \in Seq(GroupType) /\ pool \in Pool
  BY DEF World
<1>2. PICK i \in DOMAIN groups : i = Turn(k) /\ i \in Nat
  BY <1>1, TurnFacts
<1>3. PICK g \in GroupType : g = groups[i]
  BY <1>1
<1>4. PICK end : end = ChunkEnd(g, rows)
  OBVIOUS
<1>5. g.root # None /\ g.root \in Slot /\ ~g.restoring /\ end > pool.past[g.root]
  BY <1>2, <1>3, <1>4, GroupFields DEF Prefillable
<1>6. PICK pos \in Nat : pos = pool.past[g.root]
  BY <1>1, <1>5, TableLengths
<1>7. end \in Nat /\ end <= PromptLen(g.job) /\ end <= pos + rows
  BY <1>1, <1>4, <1>5, <1>6, ChunkEndFacts
<1>8. Prompt[g.job] \in Seq(Token) /\ PromptLen(g.job) = Len(Prompt[g.job]) /\ PromptLen(g.job) \in Nat
  BY GroupFields, JobFacts
<1>9. PICK rest : rest = SubSeq(Prompt[g.job], pos + 1, end)
  OBVIOUS
<1>10. rest \in Seq(Token) /\ Len(rest) = end - pos
  <2>1. pos < end /\ end <= Len(Prompt[g.job])
    BY <1>5, <1>6, <1>7, <1>8
  <2>2. PICK s \in Seq(Token) : s = Prompt[g.job]
    BY <1>8
  <2>3. rest = SubSeq(s, pos + 1, end) /\ end <= Len(s)
    BY <1>9, <2>1, <2>2
  <2>4. pos \in Nat /\ end \in Nat
    BY <1>6, <1>7
  <2> QED
    BY <2>1, <2>3, <2>4, RowsFacts
<1>11. x = Input(i, 0, g.root, rest, Wanted(g.job, end))
  <2>1. x = PrefillTo(i, g, end)
    BY <1>2, <1>3, <1>4 DEF PrefillOf
  <2> QED
    BY <1>6, <1>9, <2>1 DEF PrefillTo
<1>12. /\ x.group = i /\ x.choice = 0 /\ x.seq = g.root /\ x.tokens = rest /\ x.logits = Wanted(g.job, end)
       /\ x = [group |-> x.group, choice |-> x.choice, seq |-> x.seq,
               tokens |-> x.tokens, logits |-> x.logits]
  BY <1>11 DEF Input
<1>13. x \in InputType
  <2>1. Wanted(g.job, end) \in BOOLEAN
    BY DEF Wanted
  <2> QED
    BY <1>2, <1>5, <1>10, <1>12, <2>1 DEF InputType
<1>14. Len(x.tokens) \in Nat /\ Len(x.tokens) > 0 /\ Len(x.tokens) = end - pos /\ pos + Len(x.tokens) = end
       /\ Len(x.tokens) <= rows
  <2>1. Len(x.tokens) = end - pos
    BY <1>10, <1>12
  <2>2. end > pos
    BY <1>5, <1>6
  <2>3. end \in Nat /\ end <= pos + rows
    BY <1>7
  <2> QED
    BY <2>1, <2>2, <2>3
<1>15. PromptInput(x, groups, pool)
  <2>1. groups[x.group] = g /\ x.seq = g.root /\ pool.past[x.seq] = pos
    BY <1>3, <1>6, <1>12
  <2>2. x.tokens = SubSeq(Prompt[g.job], pos + 1, pos + Len(x.tokens))
    BY <1>9, <1>12, <1>14
  <2>3. pos + Len(x.tokens) = PromptLen(g.job) => x.logits
    <3>1. end = PromptLen(g.job) => Wanted(g.job, end)
      BY Zenon DEF Wanted
    <3>2. x.logits = Wanted(g.job, end) /\ pos + Len(x.tokens) = end
      BY <1>12, <1>14
    <3> QED
      BY <3>1, <3>2
  <2>4. pos + Len(x.tokens) <= PromptLen(g.job)
    BY <1>7, <1>14
  <2> QED
    BY <1>5, <1>6, <2>1, <2>2, <2>3, <2>4, Zenon DEF PromptInput
<1> QED
  BY <1>2, <1>3, <1>4, <1>6, <1>12, <1>13, <1>14, <1>15

LEMMA AppendInput ==
  ASSUME NEW gs, NEW p, NEW s, BatchSound(s, gs, p),
         NEW x \in InputType, x.group \in DOMAIN gs, Len(x.tokens) > 0, x.choice = 0,
         PromptInput(x, gs, p), \A y \in Elems(s) : y.group # x.group
  PROVE  BatchSound(Append(s, x), gs, p) /\ Elems(Append(s, x)) = Elems(s) \cup {x}
<1>1. s \in Seq(InputType)
  BY DEF BatchSound
<1>2. PICK r : r = Append(s, x)
  OBVIOUS
<1>3. /\ r \in Seq(InputType) /\ Len(s) \in Nat /\ DOMAIN r = 1 .. Len(s) + 1
      /\ DOMAIN s = 1 .. Len(s)
      /\ r[Len(s) + 1] = x /\ \A i \in 1 .. Len(s) : r[i] = s[i]
  BY <1>1, <1>2
<1>4. Elems(r) = Elems(s) \cup {x}
  BY <1>1, <1>2, AppendOne
<1>5. \A i \in DOMAIN s : s[i].group # x.group
  BY DEF Elems
<1>6. ASSUME NEW k \in DOMAIN r, NEW l \in DOMAIN r, r[k].group = r[l].group, r[k].choice = r[l].choice
      PROVE  k = l
  <2>1. CASE k \in DOMAIN s /\ l \in DOMAIN s
    BY <1>3, <1>6, <2>1 DEF BatchSound
  <2>2. CASE k \notin DOMAIN s \/ l \notin DOMAIN s
    BY <1>3, <1>5, <1>6, <2>2
  <2> QED
    BY <2>1, <2>2
<1>7. \A y \in Elems(r) : /\ y.group \in DOMAIN gs /\ Len(y.tokens) > 0
                          /\ y.choice = 0 => PromptInput(y, gs, p)
                          /\ y.choice # 0 => ChoiceInput(y, gs)
  BY <1>4 DEF BatchSound
<1>8. BatchSound(r, gs, p)
  BY <1>3, <1>6, <1>7 DEF BatchSound
<1> QED
  BY <1>2, <1>4, <1>8

\* The inputs of the first k groups in turn, with rows left for the others.
PrefillSound(k, rows, inputs) ==
  /\ rows \in Nat /\ BatchSound(inputs, groups, pool)
  /\ \A x \in Elems(inputs) : x.choice = 0 /\ \E m \in 1 .. k : x.group = Turn(m)

LEMMA PrefillOne ==
  ASSUME World(groups, pool, text, idle), cursor \in Nat,
         NEW k \in Nat, k + 1 <= Len(groups),
         NEW b, PrefillSound(k, b.left, b.inputs),
         NEW c, c = NextPrefill(k + 1, b)
  PROVE  PrefillSound(k + 1, c.left, c.inputs)
<1>1. groups \in Seq(GroupType) /\ Len(groups) \in Nat
  BY DEF World
<1>2. k + 1 \in 1 .. Len(groups) /\ \A m \in 1 .. k : m \in 1 .. Len(groups) /\ m # k + 1
  BY <1>1
<1>3. \A m \in 1 .. k : m \in 1 .. k + 1
  OBVIOUS
<1>4. /\ b.left \in Nat /\ BatchSound(b.inputs, groups, pool)
      /\ \A x \in Elems(b.inputs) : x.choice = 0 /\ \E m \in 1 .. k : x.group = Turn(m)
  BY DEF PrefillSound
<1>5. CASE ~Prefillable(k + 1, b.left)
  <2>1. c = b
    BY <1>5 DEF NextPrefill
  <2> QED
    BY <1>3, <1>4, <2>1 DEF PrefillSound
<1>6. CASE Prefillable(k + 1, b.left)
  <2>1. PICK x : x = PrefillOf(k + 1, b.left)
    OBVIOUS
  <2>2. PICK size : size = ChunkEnd(groups[Turn(k + 1)], b.left) - pool.past[groups[Turn(k + 1)].root]
    OBVIOUS
  <2>3. c.left = b.left - size /\ c.inputs = Append(b.inputs, x)
    BY <1>6, <2>1, <2>2 DEF NextPrefill
  <2>4. /\ x \in InputType /\ x.group = Turn(k + 1) /\ x.choice = 0
        /\ x.group \in DOMAIN groups /\ Len(x.tokens) > 0
        /\ Len(x.tokens) = size /\ Len(x.tokens) <= b.left /\ Len(x.tokens) \in Nat
        /\ PromptInput(x, groups, pool)
    BY <1>2, <1>4, <1>6, <2>1, <2>2, PrefillFacts, ZenonT(40)
  <2>5. \A y \in Elems(b.inputs) : y.group # x.group
    BY <1>1, <1>2, <1>4, <2>4, TurnFacts
  <2>6. /\ BatchSound(c.inputs, groups, pool)
        /\ Elems(c.inputs) = Elems(b.inputs) \cup {x}
    <3>1. PICK s : s = b.inputs
      OBVIOUS
    <3>2. BatchSound(s, groups, pool) /\ \A y \in Elems(s) : y.group # x.group
      BY <1>4, <2>5, <3>1
    <3>3. BatchSound(Append(s, x), groups, pool) /\ Elems(Append(s, x)) = Elems(s) \cup {x}
      BY <2>4, <3>2, AppendInput
    <3> QED
      BY <2>3, <3>1, <3>3
  <2>7. c.left \in Nat
    BY <1>4, <2>3, <2>4
  <2>8. k + 1 \in 1 .. k + 1
    OBVIOUS
  <2>9. \A y \in Elems(c.inputs) : y.choice = 0 /\ \E m \in 1 .. k + 1 : y.group = Turn(m)
    BY <1>3, <1>4, <2>4, <2>6, <2>8
  <2> QED
    BY <2>6, <2>7, <2>9 DEF PrefillSound
<1> QED
  BY <1>5, <1>6

LEMMA PrefillsSound ==
  ASSUME World(groups, pool, text, idle), cursor \in Nat, NEW budget \in Nat,
         NEW r, r = Prefills(budget)
  PROVE  BatchSound(r, groups, pool) /\ \A x \in Elems(r) : x.choice = 0
<1> DEFINE f == CHOOSE f : PrefilledTo(budget, Len(groups), f)
<1>1. Len(groups) \in Nat
  BY DEF World
<1>2. r = f[Len(groups)].inputs
  BY DEF Prefills, PrefilledTo, NextPrefill, Prefillable, PrefillOf, PrefillTo, Wanted
<1>3. PrefilledTo(budget, Len(groups), f)
  BY <1>1, PrefilledExists
<1> HIDE DEF f
<1>4. f[0].left = budget /\ f[0].inputs = << >>
  BY <1>1, <1>3 DEF PrefilledTo
<1>5. ASSUME NEW m \in Nat, m + 1 <= Len(groups)
      PROVE  f[m + 1] = NextPrefill(m + 1, f[m])
  <2>1. m + 1 \in 0 .. Len(groups) /\ m + 1 # 0 /\ (m + 1) - 1 = m
    BY <1>1, <1>5
  <2> QED
    BY <1>3, <2>1 DEF PrefilledTo
<1> DEFINE N == {m \in Nat : m <= Len(groups) => PrefillSound(m, f[m].left, f[m].inputs)}
<1>6. 0 \in N
  <2>1. Elems(<< >>) = {}
    BY DEF Elems
  <2> QED
    BY <1>4, <2>1, NothingScheduled DEF PrefillSound
<1>7. ASSUME NEW m \in Nat, m \in N PROVE m + 1 \in N
  <2> SUFFICES ASSUME m + 1 <= Len(groups)
               PROVE  PrefillSound(m + 1, f[m + 1].left, f[m + 1].inputs)
    OBVIOUS
  <2>1. PrefillSound(m, f[m].left, f[m].inputs)
    BY <1>1, <1>7
  <2> QED
    BY <1>5, <2>1, PrefillOne
<1> HIDE DEF N
<1>8. Len(groups) \in N
  BY <1>1, <1>6, <1>7, NatInd
<1>9. PrefillSound(Len(groups), f[Len(groups)].left, r)
  BY <1>1, <1>2, <1>8 DEF N
<1> QED
  BY <1>9 DEF PrefillSound

\* An input belongs to the group it names ...
LEMMA InputHeld ==
  ASSUME NEW gs, NEW p, NEW t, NEW d, World(gs, p, t, d),
         NEW sch, BatchSound(sch, gs, p), NEW x \in Elems(sch)
  PROVE  /\ x \in InputType /\ x.group \in DOMAIN gs /\ x.seq \in Held(gs[x.group])
         /\ x.seq \in Slot /\ p.live[x.seq]
         /\ x.choice # 0 => gs[x.group].root = None
<1>1. /\ sch \in Seq(InputType)
      /\ x.group \in DOMAIN gs
      /\ x.choice = 0 => PromptInput(x, gs, p)
      /\ x.choice # 0 => ChoiceInput(x, gs)
  BY DEF BatchSound
<1>2. x \in InputType
  BY <1>1 DEF Elems
<1>3. PICK g \in GroupType : g = gs[x.group]
  BY <1>1, WorldGroups
<1>4. CASE x.choice = 0
  <2>1. x.seq \in Held(g)
    BY <1>1, <1>3, <1>4, HeldSlots DEF PromptInput
  <2> QED
    BY <1>1, <1>2, <1>3, <1>4, <2>1, WorldGroups
<1>5. CASE x.choice # 0
  <2>1. x.choice \in Unfinished(g) /\ x.seq = g.choices[x.choice].seq
    BY <1>1, <1>3, <1>5 DEF ChoiceInput
  <2>2. x.seq \in Held(g)
    BY <2>1, HeldSlots
  <2>3. g.root # None => g.choices = << >>
    BY <1>1, <1>3 DEF World, GroupSound, RootSound
  <2>4. g.root = None
    BY <2>1, <2>3 DEF Unfinished
  <2> QED
    BY <1>1, <1>2, <1>3, <2>2, <2>4, WorldGroups
<1> QED
  BY <1>4, <1>5

\* ... and no sequence is in a batch twice.
LEMMA SeqsApart ==
  ASSUME NEW gs, NEW p, NEW t, NEW d, World(gs, p, t, d),
         NEW sch, BatchSound(sch, gs, p),
         NEW k \in DOMAIN sch, NEW l \in DOMAIN sch, sch[k].seq = sch[l].seq
  PROVE  k = l
<1>1. PICK x \in Elems(sch) : x = sch[k]
  BY DEF Elems
<1>2. PICK y \in Elems(sch) : y = sch[l]
  BY DEF Elems
<1>3. /\ x.group \in DOMAIN gs /\ x.seq \in Held(gs[x.group])
      /\ x.choice # 0 => gs[x.group].root = None
  BY InputHeld
<1>4. /\ y.group \in DOMAIN gs /\ y.seq \in Held(gs[y.group])
      /\ y.choice # 0 => gs[y.group].root = None
  BY InputHeld
<1>5. x.seq = y.seq
  BY <1>1, <1>2
<1>6. x.group = y.group
  BY <1>3, <1>4, <1>5 DEF World, HeldApart
<1>7. /\ x.choice = 0 => PromptInput(x, gs, p)
      /\ x.choice # 0 => ChoiceInput(x, gs)
      /\ y.choice = 0 => PromptInput(y, gs, p)
      /\ y.choice # 0 => ChoiceInput(y, gs)
  BY DEF BatchSound
<1>8. x.choice = y.choice
  <2>1. CASE x.choice = 0
    BY <1>4, <1>6, <1>7, <2>1 DEF PromptInput
  <2>2. CASE x.choice # 0
    <3>1. y.choice # 0
      BY <1>3, <1>6, <1>7, <2>2 DEF PromptInput
    <3>2. PICK g : g = gs[x.group]
      OBVIOUS
    <3>3. /\ x.choice \in Unfinished(g) /\ x.seq = g.choices[x.choice].seq
          /\ y.choice \in Unfinished(g) /\ y.seq = g.choices[y.choice].seq
      BY <1>6, <1>7, <2>2, <3>1, <3>2 DEF ChoiceInput
    <3>4. ChoicesSound(g, t)
      BY <1>3, <3>2 DEF World, GroupSound
    <3> QED
      BY <1>5, <3>3, <3>4 DEF ChoicesSound
  <2> QED
    BY <2>1, <2>2
<1> QED
  BY <1>1, <1>2, <1>6, <1>8 DEF BatchSound

LEMMA BatchWithin ==
  ASSUME NEW gs, NEW p, NEW t, NEW d, World(gs, p, t, d),
         NEW sch, BatchSound(sch, gs, p)
  PROVE  Len(sch) \in Nat /\ Len(sch) <= NSlots
<1>1. sch \in Seq(InputType) /\ Len(sch) \in Nat /\ DOMAIN sch = 1 .. Len(sch)
  BY DEF BatchSound
<1>2. \A k \in DOMAIN sch : sch[k].seq \in Slot
  BY InputHeld DEF Elems
<1>3. PICK slots : slots = [k \in 1 .. Len(sch) |-> sch[k].seq]
  OBVIOUS
<1>4. slots \in Seq(Slot) /\ Len(slots) = Len(sch)
  BY <1>1, <1>2, <1>3
<1>5. Distinct(slots)
  BY <1>1, <1>3, SeqsApart DEF Distinct
<1>6. IsFiniteSet(Elems(slots)) /\ Cardinality(Elems(slots)) = Len(slots)
  BY <1>4, <1>5, DistinctCount
<1>7. Elems(slots) \subseteq Slot
  BY <1>4 DEF Elems
<1>8. IsFiniteSet(Slot) /\ Cardinality(Slot) = NSlots
  <2>1. NSlots - 1 \in Int /\ ~(0 > NSlots - 1) /\ (NSlots - 1) - 0 + 1 = NSlots
    BY SlotsAssumption
  <2> QED
    BY <2>1, FS_Interval DEF Slot
<1>9. Cardinality(Elems(slots)) <= Cardinality(Slot)
  BY <1>7, <1>8, FS_Subset
<1> QED
  BY <1>1, <1>4, <1>6, <1>8, <1>9

LEMMA ScheduleKeeps == ASSUME EngineInv, Schedule PROVE EngineInv'
<1>1. World(groups, pool, text, idle) /\ at \in Nat \ {0} /\ cursor \in Nat /\ todo = << >>
  BY DEF EngineInv, Schedule
<1>2. groups \in Seq(GroupType) /\ Len(groups) \in Nat
  BY <1>1 DEF World
<1>3. PICK a : a = Decodes
  OBVIOUS
<1>4. BatchSound(a, groups, pool) /\ \A x \in Elems(a) : x.choice # 0
  BY <1>2, <1>3, DecodesSound
<1>5. Len(a) \in Nat /\ Len(a) <= NSlots
  BY <1>1, <1>4, BatchWithin
<1>6. PICK left : left = BatchMax - Len(a)
  OBVIOUS
<1>7. left \in Nat
  BY <1>5, <1>6, BatchAssumption, SlotsAssumption
<1>8. PICK budget : budget = IF a # << >> /\ PrefillChunk < left THEN PrefillChunk ELSE left
  OBVIOUS
<1>9. budget \in Nat
  BY <1>7, <1>8, ChunkAssumption
<1>10. PICK b : b = Prefills(budget)
  OBVIOUS
<1>11. BatchSound(b, groups, pool) /\ \A x \in Elems(b) : x.choice = 0
  BY <1>1, <1>9, <1>10, PrefillsSound
<1>12. BatchSound(a \o b, groups, pool)
  BY <1>4, <1>11, BatchJoin
<1>13. /\ scheduled' = a \o b
       /\ cursor' = (IF groups = << >> THEN cursor ELSE (cursor + 1) % Len(groups))
       /\ pc' = (IF scheduled' = << >> THEN "wait" ELSE "batch")
       /\ at' = at /\ todo' = todo /\ groups' = groups /\ pool' = pool
       /\ text' = text /\ idle' = idle
  BY <1>3, <1>6, <1>8, <1>10 DEF Schedule
<1>14. cursor' \in Nat
  <2>1. CASE groups = << >>
    BY <1>1, <1>13, <2>1
  <2>2. CASE groups # << >>
    <3>1. Len(groups) \in Nat \ {0} /\ cursor + 1 \in Nat
      BY <1>1, <1>2, <2>2
    <3>2. (cursor + 1) % Len(groups) \in Nat
      BY <3>1
    <3> QED
      BY <1>13, <2>2, <3>2
  <2> QED
    BY <2>1, <2>2
<1>15. BatchSound(scheduled', groups', pool') /\ World(groups', pool', text', idle')
       /\ TodoSound(groups', todo')
  BY <1>1, <1>12, <1>13, NothingTodo
<1> QED
  BY <1>1, <1>13, <1>14, <1>15 DEF EngineInv, Phases

-----------------------------------------------------------------------------
(***************************************************************************)
(* One batch                                                               *)
(***************************************************************************)
\* The table of s only grows, but for the page that its next row may copy.
TableKept(p, q, s) ==
  \A k \in 1 .. Len(p.table[s]) : k # TailIndex(p.past[s]) => q.table[s][k] = p.table[s][k]

\* q is p once the members D of the batch are prepared: each has private pages
\* up to its end, and the pages that the others need are still free.
PreparedSound(p, q, S, ends, D) ==
  /\ q \in Pool /\ PoolInv(q) /\ q.live = p.live /\ q.past = p.past
  /\ \A s \in D : /\ PrivateFrom(q, s, TailIndex(p.past[s]))
                  /\ PagesFor(ends[s]) <= Len(q.table[s])
                  /\ Len(q.table[s]) = Len(p.table[s]) + Grow(p, s, ends[s])
                  /\ TableKept(p, q, s)
  /\ \A s \in Slot \ D : q.table[s] = p.table[s]
  /\ BatchNeed(q, [s \in S \ D |-> ends[s]]) <= Cardinality(q.free)

\* Preparing one member takes from the need of the batch what it needs itself.
NeedSplit(q, r, T, e, s) ==
  BatchNeed(q, e) = Needed(q, s, e[s]) + BatchNeed(r, [t \in T \ {s} |-> e[t]])

LEMMA NeedAfter ==
  ASSUME NEW q \in Pool, PoolInv(q), NEW T \in SUBSET Slot, NEW e \in [T -> Nat],
         NEW s \in T, q.live[s], e[s] > q.past[s],
         NEW new \in Picks(q.free, Needed(q, s, e[s])),
         NEW r, r = Prepare(q, s, e[s], new)
  PROVE  NeedSplit(q, r, T, e, s)
BY PrepareNeed, SMTT(40) DEF NeedSplit

LEMMA PrepareOne ==
  ASSUME NEW p \in Pool, NEW S \in SUBSET Slot, NEW ends \in [S -> Nat],
         \A s \in S : p.live[s] /\ ends[s] > p.past[s],
         NEW D \in SUBSET S, NEW s \in S \ D,
         NEW q, PreparedSound(p, q, S, ends, D),
         NEW r, r = PrepareAny(q, s, ends[s])
  PROVE  PreparedSound(p, r, S, ends, D \cup {s})
<1> DEFINE R == S \ D
           rest == [t \in R |-> ends[t]]
<1>1. /\ q \in Pool /\ PoolInv(q) /\ q.live = p.live /\ q.past = p.past
      /\ BatchNeed(q, rest) <= Cardinality(q.free)
  BY DEF PreparedSound
<1>2. /\ R \in SUBSET Slot /\ rest \in [R -> Nat] /\ s \in R /\ s \in Slot
      /\ ends[s] \in Nat /\ rest[s] = ends[s] /\ q.live[s] /\ rest[s] > q.past[s]
  BY <1>1
<1>3. S \ (D \cup {s}) = R \ {s} /\ \A t \in R \ {s} : rest[t] = ends[t]
  OBVIOUS
<1>4. [t \in S \ (D \cup {s}) |-> ends[t]] = [t \in R \ {s} |-> rest[t]]
  BY <1>3
<1> HIDE DEF R, rest
<1>5. Needed(q, s, rest[s]) <= BatchNeed(q, rest)
  BY <1>1, <1>2, NeedWithin
<1>6. Needed(q, s, rest[s]) \in Nat /\ BatchNeed(q, rest) \in Nat /\ Cardinality(q.free) \in Nat
  <2>1. rest[s] \in Nat
    BY <1>2
  <2>2. q.free \in SUBSET Page
    BY <1>1, PoolFields
  <2> QED
    BY <1>1, <1>2, <2>1, <2>2, NeedNat, NeedNatural, FreeLess
<1>7. Needed(q, s, rest[s]) <= Cardinality(q.free)
  BY <1>1, <1>5, <1>6
<1>8. PICK new \in Picks(q.free, Needed(q, s, rest[s])) : r = Prepare(q, s, rest[s], new)
  BY <1>1, <1>2, <1>7, PrepareAnySound
<1>9. /\ r \in Pool /\ PoolInv(r) /\ r.live = q.live /\ r.past = q.past
      /\ PagesFor(rest[s]) <= Len(r.table[s])
      /\ Len(r.table[s]) = Len(q.table[s]) + Grow(q, s, rest[s])
      /\ OthersKept(q, r, s)
      /\ rest[s] > q.past[s] => PrivateFrom(r, s, TailIndex(q.past[s]))
  BY <1>1, <1>2, <1>8, PrepareSound
<1>10. BatchNeed(q, rest) = Needed(q, s, rest[s]) + BatchNeed(r, [t \in R \ {s} |-> rest[t]])
  <2>1. PICK T : T = R
    OBVIOUS
  <2>2. PICK e : e = rest
    OBVIOUS
  <2>3. /\ q \in Pool /\ PoolInv(q) /\ T \in SUBSET Slot /\ e \in [T -> Nat]
        /\ s \in T /\ q.live[s] /\ e[s] > q.past[s]
        /\ new \in Picks(q.free, Needed(q, s, e[s])) /\ r = Prepare(q, s, e[s], new)
    BY <1>1, <1>2, <1>8, <2>1, <2>2
  <2>4. NeedSplit(q, r, T, e, s)
    BY <2>3, NeedAfter
  <2> QED
    BY <2>1, <2>2, <2>4 DEF NeedSplit
<1>11. Cardinality(r.free) = Cardinality(q.free) - Needed(q, s, rest[s])
  BY <1>1, <1>2, <1>8, PrepareCounts
<1>12. PICK need : need = BatchNeed(r, [t \in R \ {s} |-> rest[t]])
  OBVIOUS
<1>13. need \in Nat
  <2>1. PICK T : T = R \ {s}
    OBVIOUS
  <2>2. PICK fewer : fewer = [t \in T |-> rest[t]]
    OBVIOUS
  <2>3. T \in SUBSET Slot /\ fewer \in [T -> Nat]
    BY <1>2, <2>1, <2>2
  <2> QED
    BY <1>9, <1>12, <2>1, <2>2, <2>3, NeedNatural
<1>14. BatchNeed(r, [t \in S \ (D \cup {s}) |-> ends[t]]) <= Cardinality(r.free)
  <2>1. need <= Cardinality(r.free)
    BY <1>1, <1>6, <1>10, <1>11, <1>12, <1>13
  <2> QED
    BY <1>4, <1>12, <2>1
<1>15. q.table[s] = p.table[s]
  BY <1>2 DEF PreparedSound
<1>18. TableKept(q, r, s)
  <2>1. \A k \in DOMAIN q.table[s] :
          k # TailIndex(q.past[s]) => k \in DOMAIN r.table[s] /\ r.table[s][k] = q.table[s][k]
    BY <1>1, <1>2, <1>8, PrepareKeeps
  <2>2. DOMAIN q.table[s] = 1 .. Len(q.table[s])
    BY <1>1, <1>2, PagesInPage
  <2> QED
    BY <2>1, <2>2 DEF TableKept
<1>16. ASSUME NEW t \in D \cup {s}
       PROVE  /\ PrivateFrom(r, t, TailIndex(p.past[t]))
              /\ PagesFor(ends[t]) <= Len(r.table[t])
              /\ Len(r.table[t]) = Len(p.table[t]) + Grow(p, t, ends[t])
              /\ TableKept(p, r, t)
  <2>1. CASE t = s
    <3>1. Grow(q, s, ends[s]) = Grow(p, s, ends[s])
      BY <1>15 DEF Grow
    <3>2. TableKept(p, r, s)
      BY <1>1, <1>15, <1>18 DEF TableKept
    <3> QED
      BY <1>1, <1>2, <1>9, <1>15, <2>1, <3>1, <3>2
  <2>2. CASE t # s
    <3>1. t \in D /\ t \in Slot \ {s}
      BY <2>2
    <3>2. TableKept(p, q, t) /\ r.table[t] = q.table[t]
      BY <1>9, <3>1 DEF PreparedSound, OthersKept
    <3>3. TableKept(p, r, t)
      BY <3>2 DEF TableKept
    <3> QED
      BY <1>9, <3>1, <3>3 DEF PreparedSound, OthersKept
  <2> QED
    BY <2>1, <2>2
<1>17. \A t \in Slot \ (D \cup {s}) : r.table[t] = p.table[t]
  BY <1>9 DEF PreparedSound, OthersKept
<1> QED
  BY <1>1, <1>9, <1>14, <1>16, <1>17 DEF PreparedSound

\* f is the pools that Prepared goes through.
PreparedTo(p, ends, n, f) ==
  f = [k \in 0 .. n |-> IF k = 0 THEN p
                        ELSE PrepareAny(f[k - 1], scheduled[k].seq, ends[scheduled[k].seq])]

LEMMA PreparedExists ==
  ASSUME NEW p, NEW ends, NEW n \in Nat
  PROVE  \E f : PreparedTo(p, ends, n, f)
<1> DEFINE Step(k, q) == PrepareAny(q, scheduled[k].seq, ends[scheduled[k].seq])
           N == {k \in Nat : \E f : PreparedTo(p, ends, k, f)}
<1> HIDE DEF Step
<1>1. 0 \in N
  <2> DEFINE f == [k \in 0 .. 0 |-> p]
  <2>1. PreparedTo(p, ends, 0, f)
    BY DEF PreparedTo
  <2> QED
    BY <2>1
<1>2. ASSUME NEW m \in Nat, m \in N PROVE m + 1 \in N
  <2>1. PICK f : PreparedTo(p, ends, m, f)
    BY <1>2
  <2> DEFINE g == [k \in 0 .. m + 1 |-> IF k = m + 1 THEN Step(m + 1, f[m]) ELSE f[k]]
  <2>2. \A k \in 0 .. m : g[k] = f[k]
    OBVIOUS
  <2>3. ASSUME NEW k \in 0 .. m + 1
        PROVE  g[k] = IF k = 0 THEN p ELSE Step(k, g[k - 1])
    <3>1. CASE k = m + 1
      <4>1. k - 1 = m /\ m \in 0 .. m /\ k # 0
        BY <3>1
      <4>2. g[k] = Step(m + 1, f[m]) /\ g[k - 1] = f[m]
        BY <3>1, <4>1, <2>2
      <4> QED
        BY <3>1, <4>1, <4>2
    <3>2. CASE k # m + 1
      <4>1. k \in 0 .. m /\ (k # 0 => k - 1 \in 0 .. m)
        BY <3>2
      <4>2. f[k] = IF k = 0 THEN p ELSE Step(k, f[k - 1])
        BY <4>1, <2>1 DEF PreparedTo, Step
      <4> QED
        BY <4>1, <4>2, <2>2
    <3> QED
      BY <3>1, <3>2
  <2>4. g = [k \in 0 .. m + 1 |-> g[k]]
    OBVIOUS
  <2> HIDE DEF g
  <2>5. PreparedTo(p, ends, m + 1, g)
    BY <2>3, <2>4 DEF PreparedTo, Step
  <2> QED
    BY <2>5
<1> HIDE DEF N
<1>3. n \in N
  BY <1>1, <1>2, NatInd
<1> QED
  BY <1>3 DEF N

\* The places of the first k inputs.
SeqsTo(k) == {scheduled[m].seq : m \in 1 .. k}

LEMMA PreparedFacts ==
  ASSUME scheduled \in Seq(InputType),
         \A k, l \in DOMAIN scheduled : scheduled[k].seq = scheduled[l].seq => k = l,
         NEW p \in Pool, PoolInv(p),
         NEW S \in SUBSET Slot, S = SeqsTo(Len(scheduled)), NEW ends \in [S -> Nat],
         \A s \in S : p.live[s] /\ ends[s] > p.past[s],
         BatchNeed(p, ends) <= Cardinality(p.free),
         NEW q, q = Prepared(p, ends)
  PROVE  PreparedSound(p, q, S, ends, S)
<1> DEFINE f == CHOOSE f : PreparedTo(p, ends, Len(scheduled), f)
<1>1. Len(scheduled) \in Nat /\ DOMAIN scheduled = 1 .. Len(scheduled)
  OBVIOUS
<1>2. q = f[Len(scheduled)]
  BY DEF Prepared, PreparedTo
<1>3. PreparedTo(p, ends, Len(scheduled), f)
  BY <1>1, PreparedExists
<1> HIDE DEF f
<1>4. f[0] = p
  BY <1>1, <1>3 DEF PreparedTo
<1>5. ASSUME NEW m \in Nat, m + 1 <= Len(scheduled)
      PROVE  f[m + 1] = PrepareAny(f[m], scheduled[m + 1].seq, ends[scheduled[m + 1].seq])
  <2>1. m + 1 \in 0 .. Len(scheduled) /\ m + 1 # 0 /\ (m + 1) - 1 = m
    BY <1>1, <1>5
  <2> QED
    BY <1>3, <2>1 DEF PreparedTo
<1> DEFINE N == {m \in Nat : m <= Len(scheduled) => PreparedSound(p, f[m], S, ends, SeqsTo(m))}
<1>6. 0 \in N
  <2>1. SeqsTo(0) = {} /\ S \ {} = S
    BY DEF SeqsTo
  <2>2. [s \in S |-> ends[s]] = ends
    OBVIOUS
  <2>3. PreparedSound(p, p, S, ends, {})
    BY <2>1, <2>2 DEF PreparedSound
  <2> QED
    BY <1>4, <2>1, <2>3
<1>7. ASSUME NEW m \in Nat, m \in N PROVE m + 1 \in N
  <2> SUFFICES ASSUME m + 1 <= Len(scheduled)
               PROVE  PreparedSound(p, f[m + 1], S, ends, SeqsTo(m + 1))
    OBVIOUS
  <2>1. PICK D : D = SeqsTo(m)
    OBVIOUS
  <2>2. PICK s : s = scheduled[m + 1].seq
    OBVIOUS
  <2>3. m + 1 \in DOMAIN scheduled /\ \A l \in 1 .. m : l \in DOMAIN scheduled /\ l # m + 1
    BY <1>1
  <2>4. SeqsTo(m + 1) = D \cup {s}
    BY <2>1, <2>2 DEF SeqsTo
  <2>5. s \in S /\ s \notin D /\ D \subseteq S
    BY <1>1, <2>1, <2>2, <2>3 DEF SeqsTo
  <2>6. PreparedSound(p, f[m], S, ends, D)
    BY <1>1, <1>7, <2>1
  <2>7. f[m + 1] = PrepareAny(f[m], s, ends[s])
    BY <1>5, <2>2
  <2>8. PreparedSound(p, f[m + 1], S, ends, D \cup {s})
    BY <2>5, <2>6, <2>7, PrepareOne
  <2> QED
    BY <2>4, <2>8
<1> HIDE DEF N
<1>8. Len(scheduled) \in N
  BY <1>1, <1>6, <1>7, NatInd
<1> QED
  BY <1>1, <1>2, <1>8 DEF N

\* Where the batch takes its members S ...
BatchEnds(p, S, ends) ==
  /\ S = SeqsTo(Len(scheduled)) /\ S \in SUBSET Slot /\ ends \in [S -> Nat]
  /\ \A x \in Elems(scheduled) : x.seq \in S /\ ends[x.seq] = p.past[x.seq] + Len(x.tokens)

\* ... the pool once it has ...
MovedTo(p, q, S, ends) ==
  /\ q \in Pool /\ PoolInv(q) /\ q.live = p.live
  /\ \A s \in S : /\ q.past[s] = ends[s] /\ TableKept(p, q, s)
                  /\ Len(q.table[s]) = Len(p.table[s]) + Grow(p, s, ends[s])
  /\ \A s \in Slot \ S : q.past[s] = p.past[s] /\ q.table[s] = p.table[s]

\* ... and what the slots then hold.
TextRun(t, u, S) ==
  /\ u \in [Slot -> Seq(Token)]
  /\ \A x \in Elems(scheduled) : u[x.seq] = t[x.seq] \o x.tokens
  /\ \A s \in Slot \ S : u[s] = t[s]

LEMMA MembersLive ==
  ASSUME World(groups, pool, text, idle), BatchSound(scheduled, groups, pool),
         NEW S, NEW ends, BatchEnds(pool, S, ends), NEW s \in S
  PROVE  /\ \E x \in Elems(scheduled) : x.seq = s
         /\ s \in Slot /\ pool.live[s] /\ ends[s] > pool.past[s] /\ ends[s] \in Nat
         /\ pool.past[s] \in Nat
<1>1. scheduled \in Seq(InputType)
  BY DEF BatchSound
<1>2. PICK k \in 1 .. Len(scheduled) : scheduled[k].seq = s
  BY DEF BatchEnds, SeqsTo
<1>3. k \in DOMAIN scheduled
  BY <1>1
<1>4. PICK x \in Elems(scheduled) : x = scheduled[k]
  BY <1>3 DEF Elems
<1>5. x.seq = s /\ s \in Slot /\ pool.live[s] /\ x \in InputType
  BY <1>2, <1>4, InputHeld
<1>6. ends[s] = pool.past[s] + Len(x.tokens) /\ Len(x.tokens) > 0
  BY <1>4, <1>5 DEF BatchEnds, BatchSound
<1>7. pool \in Pool
  BY DEF World
<1>8. pool.past[s] \in Nat
  BY <1>5, <1>7, TableLengths
<1>9. x.tokens \in Seq(Token)
  BY <1>5 DEF InputType
<1>10. Len(x.tokens) \in Nat
  BY <1>9
<1>11. ends[s] \in Nat /\ ends[s] > pool.past[s]
  BY <1>6, <1>8, <1>10
<1> QED
  BY <1>4, <1>5, <1>8, <1>11

\* forward_batch moves its members to their ends and leaves a sound pool.
LEMMA BatchRunFacts ==
  ASSUME World(groups, pool, text, idle), BatchSound(scheduled, groups, pool),
         NEW S, NEW ends, BatchEnds(pool, S, ends),
         BatchNeed(pool, ends) <= Cardinality(pool.free),
         NEW q, q = BatchRun(pool, ends)
  PROVE  MovedTo(pool, q, S, ends)
<1>1. scheduled \in Seq(InputType) /\ pool \in Pool /\ PoolInv(pool)
  BY DEF BatchSound, World
<1>2. S = SeqsTo(Len(scheduled)) /\ S \in SUBSET Slot /\ ends \in [S -> Nat]
  BY DEF BatchEnds
<1>3. \A k, l \in DOMAIN scheduled : scheduled[k].seq = scheduled[l].seq => k = l
  BY SeqsApart
<1>4. \A s \in S : pool.live[s] /\ ends[s] > pool.past[s] /\ pool.past[s] \in Nat /\ ends[s] \in Nat
  BY MembersLive
<1>5. PICK r : r = Prepared(pool, ends)
  OBVIOUS
<1>6. PreparedSound(pool, r, S, ends, S)
  BY <1>1, <1>2, <1>3, <1>4, <1>5, PreparedFacts
<1>7. /\ r \in Pool /\ PoolInv(r) /\ r.live = pool.live /\ r.past = pool.past
      /\ \A s \in S : /\ PrivateFrom(r, s, TailIndex(pool.past[s]))
                      /\ PagesFor(ends[s]) <= Len(r.table[s])
                      /\ Len(r.table[s]) = Len(pool.table[s]) + Grow(pool, s, ends[s])
                      /\ TableKept(pool, r, s)
      /\ \A s \in Slot \ S : r.table[s] = pool.table[s]
  BY <1>6 DEF PreparedSound
<1>8. PICK moved : moved = [s \in Slot |-> IF s \in S THEN ends[s] ELSE pool.past[s]]
  OBVIOUS
<1>9. q = [r EXCEPT !.past = moved]
  <2>1. DOMAIN ends = S
    BY <1>2
  <2> QED
    BY <1>5, <1>8, <2>1 DEF BatchRun
<1>10. moved \in [Slot -> Nat]
  <2>1. \A s \in Slot : pool.past[s] \in Nat
    BY <1>1, TableLengths
  <2> QED
    BY <1>4, <1>8, <2>1
<1>11. ASSUME NEW s \in Slot, r.live[s] PROVE PagesFor(moved[s]) <= Len(r.table[s])
  <2>1. CASE s \in S
    BY <1>7, <1>8, <2>1
  <2>2. CASE s \notin S
    BY <1>7, <1>8, <1>11, <2>2 DEF PoolInv, TablesCover
  <2> QED
    BY <2>1, <2>2
<1>12. ASSUME NEW s \in Slot PROVE PrivateFrom(r, s, PagesFor(moved[s]) + 1)
  <2>1. CASE s \in S
    <3>1. moved[s] = ends[s] /\ PrivateFrom(r, s, TailIndex(pool.past[s]))
      BY <1>7, <1>8, <2>1
    <3>2. /\ TailIndex(pool.past[s]) \in Nat /\ PagesFor(pool.past[s]) \in Nat
          /\ TailIndex(pool.past[s]) <= PagesFor(pool.past[s]) + 1
          /\ PagesFor(ends[s]) \in Nat
      BY <1>4, <2>1, PagesForType
    <3>3. PagesFor(pool.past[s]) <= PagesFor(ends[s])
      BY <1>4, <2>1, PagesForMonotonic
    <3>4. \A i \in DOMAIN r.table[s] : i \in Nat
      BY <1>7, PoolFields
    <3>5. TailIndex(pool.past[s]) <= PagesFor(moved[s]) + 1
      BY <3>1, <3>2, <3>3
    <3>6. PagesFor(moved[s]) \in Nat
      BY <3>1, <3>2
    <3> HIDE DEF PrivateFrom
    <3>7. ASSUME NEW i \in DOMAIN r.table[s], i >= PagesFor(moved[s]) + 1
          PROVE  Owners(r, r.table[s][i]) = {s}
      <4>1. i >= TailIndex(pool.past[s])
        BY <3>2, <3>4, <3>5, <3>6, <3>7
      <4> QED
        BY <3>1, <4>1 DEF PrivateFrom
    <3> QED
      BY <3>7 DEF PrivateFrom
  <2>2. CASE s \notin S
    BY <1>7, <1>8, <2>2 DEF PoolInv, SparePrivate
  <2> QED
    BY <2>1, <2>2
<1>13. q \in Pool /\ PoolInv(q)
  BY <1>7, <1>9, <1>10, <1>11, <1>12, MoveAllSound
<1>14. q.live = r.live /\ q.table = r.table /\ q.past = moved
  BY <1>7, <1>9 DEF Pool
<1>15. \A s \in S : TableKept(pool, q, s)
  BY <1>7, <1>14 DEF TableKept
<1> QED
  BY <1>2, <1>7, <1>8, <1>13, <1>14, <1>15 DEF MovedTo

\* An input whose sequence a group holds is an input of that group: of its
\* prompt, or of the choice that has the sequence.
LEMMA InputAt ==
  ASSUME World(groups, pool, text, idle), BatchSound(scheduled, groups, pool),
         NEW x \in Elems(scheduled), NEW i \in DOMAIN groups
  PROVE  /\ x.seq \in Held(groups[i]) => x.group = i
         /\ groups[i].root # None /\ x.seq = groups[i].root => x \in InputsOf(i, 0)
         /\ \A c \in Unfinished(groups[i]) :
              x.seq = groups[i].choices[c].seq => x \in InputsOf(i, c)
<1>1. PICK g \in GroupType : g = groups[i]
  BY WorldGroups
<1>2. GroupSound(g, pool, text) /\ HeldApart(groups)
  BY <1>1 DEF World
<1>3. /\ x \in InputType /\ x.group \in DOMAIN groups /\ x.seq \in Held(groups[x.group])
      /\ x.choice # 0 => groups[x.group].root = None
  BY InputHeld
<1>4. x.choice # 0 => ChoiceInput(x, groups)
  BY DEF BatchSound
<1>5. ASSUME x.seq \in Held(g) PROVE x.group = i
  BY <1>1, <1>2, <1>3, <1>5 DEF HeldApart
<1>6. ASSUME g.root # None, x.seq = g.root PROVE x \in InputsOf(i, 0)
  <2>1. x.group = i
    BY <1>5, <1>6, HeldSlots
  <2>2. x.choice = 0
    BY <1>1, <1>3, <1>6, <2>1
  <2> QED
    BY <2>1, <2>2 DEF InputsOf
<1>7. ASSUME NEW c \in Unfinished(g), x.seq = g.choices[c].seq PROVE x \in InputsOf(i, c)
  <2>1. x.group = i
    BY <1>5, <1>7, HeldSlots
  <2>2. g.root = None /\ \A e \in Unfinished(g) : g.choices[e].seq \in Slot
    BY <1>2, ChoiceRoot, HeldSlots, GroupFields
  <2>3. x.choice # 0
    <3>1. ASSUME x.choice = 0 PROVE FALSE
      <4>1. PromptInput(x, groups, pool)
        BY <3>1 DEF BatchSound
      <4> QED
        BY <1>1, <2>1, <2>2, <4>1 DEF PromptInput
    <3> QED
      BY <3>1
  <2>4. x.choice \in Unfinished(g) /\ x.seq = g.choices[x.choice].seq
    BY <1>1, <1>4, <2>1, <2>3 DEF ChoiceInput
  <2>5. x.choice = c
    BY <1>2, <1>7, <2>4 DEF GroupSound, ChoicesSound
  <2> QED
    BY <2>1, <2>5 DEF InputsOf
<1> QED
  BY <1>1, <1>5, <1>6, <1>7

\* A choice, or a prompt, has one input at most.
LEMMA InputsApart ==
  ASSUME BatchSound(scheduled, groups, pool), NEW i, NEW c,
         NEW x \in InputsOf(i, c), NEW y \in InputsOf(i, c)
  PROVE  x = y
<1>1. /\ x \in Elems(scheduled) /\ x.group = i /\ x.choice = c
      /\ y \in Elems(scheduled) /\ y.group = i /\ y.choice = c
  BY DEF InputsOf
<1>2. PICK k \in DOMAIN scheduled : scheduled[k] = x
  BY <1>1 DEF Elems
<1>3. PICK l \in DOMAIN scheduled : scheduled[l] = y
  BY <1>1 DEF Elems
<1>4. k = l
  BY <1>1, <1>2, <1>3 DEF BatchSound
<1> QED
  BY <1>2, <1>3, <1>4

\* The choice ch with the output of its input x, if it has one.
ChoiceRun(ch, dh, xs, ends) ==
  /\ dh \in ChoiceType
  /\ dh.seq = ch.seq /\ dh.finished = ch.finished
  /\ xs = {} => dh.stepped = ch.stepped
  /\ \A x \in xs : dh.stepped = ch.stepped \o x.tokens /\ dh.logits = ends[x.seq]

\* h is group g with its outputs.
GroupRun(g, h, i, ends) ==
  /\ h \in GroupType /\ h.job = g.job /\ h.root = g.root /\ h.credits = g.credits
  /\ h.restoring = g.restoring /\ h.imported = g.imported
  /\ (\E x \in InputsOf(i, 0) : x.logits) => h.logits = ends[g.root]
  /\ ~(\E x \in InputsOf(i, 0) : x.logits) => h.logits = g.logits
  /\ Len(h.choices) = Len(g.choices)
  /\ \A c \in DOMAIN g.choices : ChoiceRun(g.choices[c], h.choices[c], InputsOf(i, c), ends)

LEMMA ChoiceSeq ==
  ASSUME NEW n \in Nat, NEW f \in [1 .. n -> ChoiceType]
  PROVE  f \in Seq(ChoiceType) /\ Len(f) = n
<1>1. f = [c \in 1 .. n |-> f[c]]
  OBVIOUS
<1>2. \A c \in 1 .. n : f[c] \in ChoiceType
  OBVIOUS
<1>3. PICK e : e = [c \in 1 .. n |-> f[c]]
  OBVIOUS
<1>4. e \in Seq(ChoiceType) /\ Len(e) = n
  BY <1>2, <1>3
<1> QED
  BY <1>1, <1>3, <1>4

OutputSound(ch, dh, x, e) ==
  /\ dh \in ChoiceType /\ dh.seq = ch.seq /\ dh.finished = ch.finished
  /\ dh.stepped = ch.stepped \o x.tokens /\ dh.logits = e

LEMMA OutputFacts ==
  ASSUME NEW ch \in ChoiceType, NEW x \in InputType, NEW e \in Nat,
         NEW dh, dh = Output(ch, x, e)
  PROVE  OutputSound(ch, dh, x, e)
<1>1. /\ ch.seq \in Slot /\ ch.pending \in Token \cup {None} /\ ch.stepped \in Seq(Token)
      /\ ch.finished \in BOOLEAN /\ x.tokens \in Seq(Token)
  BY DEF ChoiceType, InputType
<1>2. PICK st \in Seq(Token) : st = ch.stepped \o x.tokens
  <2>1. PICK a \in Seq(Token) : a = ch.stepped
    BY <1>1
  <2>2. PICK b \in Seq(Token) : b = x.tokens
    BY <1>1
  <2>3. a \o b \in Seq(Token)
    OBVIOUS
  <2> QED
    BY <2>1, <2>2, <2>3
<1>3. dh = [ch EXCEPT !.stepped = st, !.logits = e]
  BY <1>2 DEF Output
<1> QED
  BY <1>1, <1>2, <1>3 DEF ChoiceType, OutputSound

LEMMA OutputsFacts ==
  ASSUME World(groups, pool, text, idle), BatchSound(scheduled, groups, pool),
         NEW S, NEW ends, BatchEnds(pool, S, ends),
         NEW i \in DOMAIN groups, NEW g, g = groups[i], NEW h, h = Outputs(i, ends)
  PROVE  GroupRun(g, h, i, ends)
<1>1. g \in GroupType
  BY WorldGroups
<1>2. /\ g.job \in Job /\ g.root \in Slot \cup {None} /\ g.choices \in Seq(ChoiceType)
      /\ DOMAIN g.choices = 1 .. Len(g.choices) /\ Len(g.choices) \in Nat
      /\ g.credits \in Nat /\ g.restoring \in BOOLEAN /\ g.imported \in Nat /\ g.logits \in Nat
      /\ \A c \in DOMAIN g.choices : g.choices[c] \in ChoiceType
  BY <1>1, GroupFields
<1>3. \A x \in Elems(scheduled) : x \in InputType /\ x.seq \in S /\ ends[x.seq] \in Nat
  <2> SUFFICES ASSUME NEW x \in Elems(scheduled)
               PROVE  x \in InputType /\ x.seq \in S /\ ends[x.seq] \in Nat
    OBVIOUS
  <2>1. x \in InputType
    BY InputHeld
  <2>2. x.seq \in S /\ ends \in [S -> Nat]
    BY DEF BatchEnds
  <2> QED
    BY <2>1, <2>2
<1> DEFINE New(c) == IF InputsOf(i, c) = {} THEN g.choices[c]
                     ELSE LET x == CHOOSE x \in InputsOf(i, c) : TRUE
                          IN  Output(g.choices[c], x, ends[x.seq])
           cs == [c \in DOMAIN g.choices |-> New(c)]
           lg == IF \E x \in InputsOf(i, 0) : x.logits THEN ends[g.root] ELSE g.logits
<1>4. h = [g EXCEPT !.logits = lg, !.choices = cs]
  BY DEF Outputs
<1>5. ASSUME NEW c \in DOMAIN g.choices
      PROVE  ChoiceRun(g.choices[c], cs[c], InputsOf(i, c), ends)
  <2>1. cs[c] = New(c)
    OBVIOUS
  <2>2. CASE InputsOf(i, c) = {}
    BY <1>2, <2>1, <2>2 DEF ChoiceRun
  <2>3. CASE InputsOf(i, c) # {}
    <3>1. PICK x \in InputsOf(i, c) : x = CHOOSE y \in InputsOf(i, c) : TRUE
      BY <2>3
    <3>2. \A y \in InputsOf(i, c) : y = x
      BY <3>1, InputsApart
    <3>3. x \in Elems(scheduled)
      BY <3>1 DEF InputsOf
    <3>4. New(c) = Output(g.choices[c], x, ends[x.seq])
      BY <2>3, <3>1
    <3>5. PICK dh : dh = New(c)
      OBVIOUS
    <3> HIDE DEF New, cs
    <3>6. x \in InputType /\ ends[x.seq] \in Nat /\ g.choices[c] \in ChoiceType
      BY <1>2, <1>3, <3>3
    <3>8. PICK e \in Nat : e = ends[x.seq]
      BY <3>6
    <3>9. PICK ch \in ChoiceType : ch = g.choices[c]
      BY <3>6
    <3>7. /\ dh \in ChoiceType /\ dh.seq = g.choices[c].seq
          /\ dh.finished = g.choices[c].finished
          /\ dh.stepped = g.choices[c].stepped \o x.tokens /\ dh.logits = ends[x.seq]
      <4>1. dh = Output(ch, x, e) /\ x \in InputType
        BY <3>4, <3>5, <3>6, <3>8, <3>9
      <4>3. OutputSound(ch, dh, x, e)
        BY <4>1, OutputFacts
      <4>2. /\ dh \in ChoiceType /\ dh.seq = ch.seq /\ dh.finished = ch.finished
            /\ dh.stepped = ch.stepped \o x.tokens /\ dh.logits = e
        BY <4>3 DEF OutputSound
      <4> QED
        BY <3>8, <3>9, <4>2
    <3> QED
      BY <2>1, <2>3, <3>2, <3>5, <3>7 DEF ChoiceRun
  <2> QED
    BY <2>2, <2>3
<1>6. cs \in Seq(ChoiceType) /\ Len(cs) = Len(g.choices)
  <2>1. \A c \in DOMAIN g.choices : cs[c] \in ChoiceType
    BY <1>5 DEF ChoiceRun
  <2>2. DOMAIN cs = 1 .. Len(g.choices)
    BY <1>2
  <2> HIDE DEF cs
  <2>3. PICK n \in Nat : n = Len(g.choices)
    BY <1>2
  <2>4. cs = [c \in 1 .. n |-> cs[c]]
    BY <1>2, <2>3 DEF cs
  <2>5. cs \in [1 .. n -> ChoiceType]
    BY <1>2, <2>1, <2>3, <2>4
  <2> QED
    BY <2>3, <2>5, ChoiceSeq
<1>7. lg \in Nat
  <2>1. CASE \E x \in InputsOf(i, 0) : x.logits
    <3>1. PICK x \in InputsOf(i, 0) : x.logits
      BY <2>1
    <3>2. x \in Elems(scheduled) /\ x.group = i /\ x.choice = 0
      BY <3>1 DEF InputsOf
    <3>3. PromptInput(x, groups, pool)
      BY <3>2 DEF BatchSound
    <3>4. x.seq = g.root
      BY <3>2, <3>3 DEF PromptInput
    <3> QED
      BY <1>3, <2>1, <3>2, <3>4
  <2>2. CASE ~\E x \in InputsOf(i, 0) : x.logits
    BY <1>2, <2>2
  <2> QED
    BY <2>1, <2>2
<1> HIDE DEF cs, New
<1>8. /\ h.job = g.job /\ h.root = g.root /\ h.credits = g.credits
      /\ h.restoring = g.restoring /\ h.imported = g.imported
      /\ h.logits = lg /\ h.choices = cs
  BY <1>1, <1>4 DEF GroupType
<1>9. h \in GroupType
  <2> HIDE DEF lg
  <2> QED
    BY <1>1, <1>4, <1>6, <1>7 DEF GroupType
<1> QED
  BY <1>5, <1>6, <1>8, <1>9 DEF GroupRun

\* A prompt that has got the rows of its input is longer by them.
LEMMA PromptRun ==
  ASSUME NEW s \in Seq(Token), NEW t \in Seq(Token), IsPrefix(t, s),
         NEW m \in Nat, m = Len(t), NEW n \in Nat, m < n, n <= Len(s),
         NEW r, r = SubSeq(s, m + 1, n), NEW u, u = t \o r
  PROVE  IsPrefix(u, s) /\ Len(u) = n
<1>1. /\ r \in Seq(Token) /\ Len(r) = n - m /\ \A k \in 1 .. n - m : r[k] = s[m + k]
  BY RowsFacts
<1>2. /\ u \in Seq(Token) /\ Len(u) = n
      /\ \A k \in 1 .. m : u[k] = t[k]
      /\ \A k \in 1 .. n - m : u[m + k] = r[k]
  BY <1>1
<1>3. \A k \in 1 .. m : t[k] = s[k]
  BY PrefixWhole
<1>4. \A k \in 1 .. n : u[k] = s[k]
  <2> SUFFICES ASSUME NEW k \in 1 .. n PROVE u[k] = s[k]
    OBVIOUS
  <2>1. CASE k <= m
    BY <1>2, <1>3, <2>1
  <2>2. CASE k > m
    <3>1. k - m \in 1 .. n - m /\ m + (k - m) = k
      BY <2>2
    <3> QED
      BY <1>1, <1>2, <3>1
  <2> QED
    BY <2>1, <2>2
<1>5. u = SubSeq(s, 1, n)
  <2>1. PICK w : w = SubSeq(s, 1, n)
    OBVIOUS
  <2>2. w \in Seq(Token) /\ Len(w) = n /\ \A k \in 1 .. n : w[k] = s[k]
    BY <2>1, FirstRows
  <2>3. u = w
    <3>1. PICK v \in Seq(Token) : v = u
      BY <1>2
    <3>2. PICK z \in Seq(Token) : z = w
      BY <2>2
    <3>3. Len(v) = n /\ Len(z) = n
      BY <1>2, <2>2, <3>1, <3>2
    <3>4. \A k \in 1 .. n : v[k] = z[k]
      BY <1>4, <2>2, <3>1, <3>2
    <3>5. v = z
      BY <3>3, <3>4
    <3> QED
      BY <3>1, <3>2, <3>5
  <2> QED
    BY <2>1, <2>3
<1>6. IsPrefix(SubSeq(s, 1, n), s)
  BY FirstRows
<1> QED
  BY <1>2, <1>5, <1>6

LEMMA RootRun ==
  ASSUME World(groups, pool, text, idle), BatchSound(scheduled, groups, pool),
         NEW S, NEW ends, BatchEnds(pool, S, ends),
         NEW q, MovedTo(pool, q, S, ends), NEW u, TextRun(text, u, S),
         NEW i \in DOMAIN groups, NEW g, g = groups[i], g.root # None,
         NEW h, GroupRun(g, h, i, ends)
  PROVE  RootSound(h, q, u)
<1>1. g \in GroupType /\ GroupSound(g, pool, text) /\ pool \in Pool
      /\ text \in [Slot -> Seq(Token)]
  BY WorldGroups DEF World
<1>2. RootSound(g, pool, text) /\ g.root \in Slot /\ g.job \in Job /\ g.root \in Held(g)
  BY <1>1, GroupFields, HeldSlots DEF GroupSound
<1>3. PICK r \in Slot : r = g.root
  BY <1>2
<1>4. /\ h \in GroupType /\ h.job = g.job /\ h.root = r /\ h.restoring = g.restoring
      /\ h.imported = g.imported /\ Len(h.choices) = Len(g.choices)
  BY <1>3 DEF GroupRun
<1>9. q \in Pool /\ pool.live[r]
  BY <1>2, <1>3, WorldGroups DEF MovedTo
<1>10. pool.past[r] \in Nat
  BY <1>1, TableLengths
<1>5. h.choices = << >>
  <2>1. h.choices \in Seq(ChoiceType) /\ Len(h.choices) = 0
    BY <1>2, <1>4, GroupFields DEF RootSound
  <2> QED
    BY <2>1
<1>6. q \in Pool /\ pool.live[r] /\ pool.past[r] = Len(text[r]) /\ pool.past[r] \in Nat
      /\ text[r] \in Seq(Token)
  BY <1>1, <1>9, <1>10 DEF World
<1>7. CASE r \in S
  <2>1. PICK x \in Elems(scheduled) : x.seq = r
    BY <1>7, MembersLive
  <2>2. x \in InputsOf(i, 0)
    BY <1>3, <2>1, InputAt
  <2>3. x.group = i /\ x.choice = 0
    BY <2>2 DEF InputsOf
  <2>4. PICK n : n = pool.past[r] + Len(x.tokens)
    OBVIOUS
  <2>5. /\ ~g.restoring /\ n <= PromptLen(g.job) /\ Len(x.tokens) > 0
        /\ x.tokens = SubSeq(Prompt[g.job], pool.past[r] + 1, n)
        /\ n = PromptLen(g.job) => x.logits
    BY <2>1, <2>3, <2>4 DEF BatchSound, PromptInput
  <2>6. x.tokens \in Seq(Token)
    BY InputHeld DEF InputType
  <2>7. n \in Nat /\ pool.past[r] < n
    <3>1. Len(x.tokens) \in Nat
      BY <2>6
    <3>2. PICK l \in Nat : l = Len(x.tokens)
      BY <3>1
    <3>3. l > 0 /\ n = pool.past[r] + l
      BY <2>4, <2>5, <3>2
    <3> QED
      BY <1>6, <3>3
  <2>8. Prompt[g.job] \in Seq(Token) /\ n <= Len(Prompt[g.job]) /\ IsPrefix(text[r], Prompt[g.job])
    BY <1>2, <1>3, <2>5, JobFacts DEF RootSound
  <2>9. u[r] = text[r] \o x.tokens
    BY <2>1 DEF TextRun
  <2>10. IsPrefix(u[r], Prompt[g.job])
    BY <1>6, <2>5, <2>7, <2>8, <2>9, PromptRun, ZenonT(40)
  <2>11. q.past[r] = n /\ ends[r] = n
    BY <1>7, <2>1, <2>4 DEF MovedTo, BatchEnds
  <2>12. n = PromptLen(g.job) => h.logits = n
    BY <1>3, <2>2, <2>5, <2>11 DEF GroupRun
  <2> QED
    BY <1>4, <1>5, <2>5, <2>10, <2>11, <2>12 DEF RootSound
<1>8. CASE r \notin S
  <2>1. /\ q.past[r] = pool.past[r] /\ q.table[r] = pool.table[r] /\ u[r] = text[r]
    BY <1>3, <1>8 DEF MovedTo, TextRun
  <2>2. InputsOf(i, 0) = {}
    <3> SUFFICES ASSUME NEW x \in InputsOf(i, 0) PROVE FALSE
      OBVIOUS
    <3>1. x \in Elems(scheduled) /\ x.group = i /\ x.choice = 0
      BY DEF InputsOf
    <3>2. x.seq = r
      BY <1>3, <3>1 DEF BatchSound, PromptInput
    <3> QED
      BY <1>8, <3>1, <3>2 DEF BatchEnds
  <2>3. h.logits = g.logits
    BY <2>2 DEF GroupRun
  <2> QED
    BY <1>2, <1>3, <1>4, <1>5, <2>1, <2>3 DEF RootSound
<1> QED
  BY <1>7, <1>8

LEMMA GroupRunSound ==
  ASSUME World(groups, pool, text, idle), BatchSound(scheduled, groups, pool),
         NEW S, NEW ends, BatchEnds(pool, S, ends),
         NEW q, MovedTo(pool, q, S, ends), NEW u, TextRun(text, u, S),
         NEW i \in DOMAIN groups, NEW g, g = groups[i],
         NEW h, GroupRun(g, h, i, ends)
  PROVE  /\ h \in GroupType /\ Held(h) = Held(g) /\ Unfinished(h) = Unfinished(g)
         /\ GroupSound(h, q, u)
<1>1. g \in GroupType /\ GroupSound(g, pool, text)
  BY WorldGroups DEF World
<1>2. /\ h \in GroupType /\ h.job = g.job /\ h.root = g.root /\ h.restoring = g.restoring
      /\ Len(h.choices) = Len(g.choices)
      /\ \A c \in DOMAIN g.choices : ChoiceRun(g.choices[c], h.choices[c], InputsOf(i, c), ends)
  BY DEF GroupRun
<1>3. DOMAIN h.choices = DOMAIN g.choices
  BY <1>1, <1>2, GroupFields
<1>4. \A c \in DOMAIN g.choices : /\ h.choices[c].seq = g.choices[c].seq
                                  /\ h.choices[c].finished = g.choices[c].finished
  BY <1>2 DEF ChoiceRun
<1>5. Unfinished(h) = Unfinished(g)
  BY <1>3, <1>4 DEF Unfinished
<1>6. Unfinished(g) \subseteq DOMAIN g.choices
  BY <1>1, HeldSlots
<1>7. Held(h) = Held(g)
  <2>1. \A c \in Unfinished(g) : h.choices[c].seq = g.choices[c].seq
    BY <1>4, <1>6
  <2> QED
    BY <1>2, <1>5, <2>1 DEF Held
<1>8. ASSUME NEW c \in Unfinished(g)
      PROVE  u[h.choices[c].seq] = h.choices[c].stepped
  <2>1. PICK s \in Slot : s = g.choices[c].seq
    BY <1>1, <1>6, GroupFields
  <2>2. text[s] = g.choices[c].stepped /\ h.choices[c].seq = s
    BY <1>1, <1>4, <1>6, <2>1 DEF GroupSound, ChoicesSound
  <2>3. PICK st : st = g.choices[c].stepped
    OBVIOUS
  <2>4. ChoiceRun(g.choices[c], h.choices[c], InputsOf(i, c), ends)
    BY <1>2, <1>6
  <2>5. CASE s \in S
    <3>1. PICK x \in Elems(scheduled) : x.seq = s
      BY <2>5, MembersLive
    <3>2. x \in InputsOf(i, c)
      BY <2>1, <3>1, InputAt
    <3>3. h.choices[c].stepped = st \o x.tokens
      BY <2>3, <2>4, <3>2 DEF ChoiceRun
    <3>4. u[s] = text[s] \o x.tokens
      BY <3>1 DEF TextRun
    <3> QED
      BY <2>2, <2>3, <3>3, <3>4
  <2>6. CASE s \notin S
    <3>1. u[s] = text[s]
      BY <2>6 DEF TextRun
    <3>2. InputsOf(i, c) = {}
      <4> SUFFICES ASSUME NEW x \in InputsOf(i, c) PROVE FALSE
        OBVIOUS
      <4>1. x \in Elems(scheduled) /\ x.group = i /\ x.choice = c
        BY DEF InputsOf
      <4>2. c # 0
        BY <1>1, <1>6, GroupFields
      <4>3. x.seq = s
        BY <2>1, <4>1, <4>2 DEF BatchSound, ChoiceInput
      <4> QED
        BY <2>6, <4>1, <4>3 DEF BatchEnds
    <3>3. h.choices[c].stepped = st
      BY <2>3, <2>4, <3>2 DEF ChoiceRun
    <3> QED
      BY <2>2, <2>3, <3>1, <3>3
  <2> QED
    BY <2>5, <2>6
<1>9. ChoicesSound(h, u)
  BY <1>1, <1>4, <1>5, <1>6, <1>8 DEF ChoicesSound, GroupSound
<1>10. h.root # None => RootSound(h, q, u)
  BY <1>2, RootRun
<1>11. GroupSound(h, q, u)
  BY <1>1, <1>2, <1>9, <1>10 DEF GroupSound
<1> QED
  BY <1>2, <1>5, <1>7, <1>11

\* The members of the batch, the tokens they append and their ends, in the terms
\* of Batch.
Members == {x.seq : x \in Elems(scheduled)}
InputFor(s) == CHOOSE x \in Elems(scheduled) : x.seq = s
EndsOf(p) == [s \in Members |-> p.past[s] + Len(InputFor(s).tokens)]
TextAfter(t) == [s \in Slot |-> IF s \in Members THEN t[s] \o InputFor(s).tokens ELSE t[s]]

LEMMA InputForFacts ==
  ASSUME World(groups, pool, text, idle), BatchSound(scheduled, groups, pool),
         NEW x \in Elems(scheduled)
  PROVE  InputFor(x.seq) = x /\ x.seq \in Members /\ x.tokens \in Seq(Token)
<1>1. ASSUME NEW y \in Elems(scheduled), y.seq = x.seq PROVE y = x
  <2>1. PICK k \in DOMAIN scheduled : scheduled[k] = x
    BY DEF Elems
  <2>2. PICK l \in DOMAIN scheduled : scheduled[l] = y
    BY DEF Elems
  <2>3. k = l
    BY <1>1, <2>1, <2>2, SeqsApart
  <2> QED
    BY <2>1, <2>2, <2>3
<1>2. InputFor(x.seq) \in Elems(scheduled) /\ InputFor(x.seq).seq = x.seq
  BY DEF InputFor
<1>3. x.tokens \in Seq(Token)
  BY InputHeld DEF InputType
<1> QED
  BY <1>1, <1>2, <1>3 DEF Members

LEMMA BatchTerms ==
  ASSUME World(groups, pool, text, idle), BatchSound(scheduled, groups, pool),
         NEW ends, ends = EndsOf(pool), NEW u, u = TextAfter(text)
  PROVE  BatchEnds(pool, Members, ends) /\ TextRun(text, u, Members)
<1>1. scheduled \in Seq(InputType) /\ pool \in Pool /\ text \in [Slot -> Seq(Token)]
  BY DEF BatchSound, World
<1>2. Members = SeqsTo(Len(scheduled))
  BY <1>1 DEF Members, SeqsTo, Elems
<1>3. Members \subseteq Slot
  BY InputHeld DEF Members
<1>4. ASSUME NEW s \in Members
      PROVE  ends[s] \in Nat /\ InputFor(s).tokens \in Seq(Token)
  <2>1. PICK x \in Elems(scheduled) : x.seq = s
    BY DEF Members
  <2>2. InputFor(s) = x /\ x.tokens \in Seq(Token)
    BY <2>1, InputForFacts
  <2>3. pool.past[s] \in Nat
    BY <1>1, <1>3, TableLengths
  <2>4. PICK l \in Nat : l = Len(x.tokens)
    BY <2>2
  <2>5. ends[s] = pool.past[s] + l
    BY <2>2, <2>4 DEF EndsOf
  <2> QED
    BY <2>2, <2>3, <2>5
<1>5. ends \in [Members -> Nat]
  BY <1>4 DEF EndsOf
<1>6. \A x \in Elems(scheduled) : x.seq \in Members /\ ends[x.seq] = pool.past[x.seq] + Len(x.tokens)
  BY InputForFacts DEF EndsOf
<1>7. ASSUME NEW s \in Slot PROVE u[s] \in Seq(Token)
  <2>1. text[s] \in Seq(Token)
    BY <1>1
  <2>2. CASE s \in Members
    <3>1. PICK a \in Seq(Token) : a = text[s]
      BY <2>1
    <3>2. PICK b \in Seq(Token) : b = InputFor(s).tokens
      BY <1>4, <2>2
    <3>3. u[s] = a \o b
      BY <2>2, <3>1, <3>2 DEF TextAfter
    <3> QED
      BY <3>3
  <2>3. CASE s \notin Members
    BY <2>1, <2>3 DEF TextAfter
  <2> QED
    BY <2>2, <2>3
<1>8. u \in [Slot -> Seq(Token)]
  BY <1>7 DEF TextAfter
<1>9. \A x \in Elems(scheduled) : u[x.seq] = text[x.seq] \o x.tokens
  <2> SUFFICES ASSUME NEW x \in Elems(scheduled) PROVE u[x.seq] = text[x.seq] \o x.tokens
    OBVIOUS
  <2>1. InputFor(x.seq) = x /\ x.seq \in Members /\ x.seq \in Slot
    BY <1>3, InputForFacts
  <2> QED
    BY <2>1 DEF TextAfter
<1>10. \A s \in Slot \ Members : u[s] = text[s]
  BY DEF TextAfter
<1> QED
  BY <1>2, <1>3, <1>5, <1>6, <1>8, <1>9, <1>10 DEF BatchEnds, TextRun

\* What the batch leaves of the world.
LEMMA WorldBatch ==
  ASSUME World(groups, pool, text, idle), BatchSound(scheduled, groups, pool),
         NEW S, NEW ends, BatchEnds(pool, S, ends),
         NEW q, MovedTo(pool, q, S, ends), NEW u, TextRun(text, u, S),
         NEW hs, hs = [i \in DOMAIN groups |-> Outputs(i, ends)]
  PROVE  World(hs, q, u, idle)
<1>1. groups \in Seq(GroupType) /\ \A s \in Slot : pool.live[s] => pool.past[s] = Len(text[s])
  BY DEF World
<1>2. ASSUME NEW i \in DOMAIN groups
      PROVE  /\ hs[i] \in GroupType /\ Held(hs[i]) = Held(groups[i])
             /\ GroupSound(hs[i], q, u)
  <2>1. PICK h : h = hs[i]
    OBVIOUS
  <2>2. GroupRun(groups[i], h, i, ends)
    BY <2>1, OutputsFacts
  <2> QED
    BY <2>1, <2>2, GroupRunSound
<1>3. DOMAIN hs = DOMAIN groups
  OBVIOUS
<1>4. hs \in Seq(GroupType)
  <2>1. PICK n \in Nat : n = Len(groups)
    BY <1>1
  <2>2. DOMAIN groups = 1 .. n
    BY <1>1, <2>1
  <2>3. hs = [i \in 1 .. n |-> Outputs(i, ends)]
    BY <2>2
  <2>4. \A i \in 1 .. n : Outputs(i, ends) \in GroupType
    BY <1>2, <2>2
  <2> QED
    BY <2>3, <2>4
<1>5. q \in Pool /\ PoolInv(q) /\ q.live = pool.live /\ u \in [Slot -> Seq(Token)]
  BY DEF MovedTo, TextRun
<1>6. idle.seq # None => u[idle.seq] = text[idle.seq]
  <2> SUFFICES ASSUME idle.seq # None PROVE u[idle.seq] = text[idle.seq]
    OBVIOUS
  <2>1. idle.seq \in Slot /\ \A i \in DOMAIN groups : idle.seq \notin Held(groups[i])
    <3>1. idle.seq \in Slot \cup {None}
      BY WorldGroups
    <3>2. HeldLive(groups, pool, idle)
      BY DEF World
    <3> QED
      BY <3>1, <3>2 DEF HeldLive
  <2>2. idle.seq \notin S
    BY <2>1, MembersLive, InputHeld
  <2> QED
    BY <2>1, <2>2 DEF TextRun
<1>7. ASSUME NEW s \in Slot, q.live[s] PROVE q.past[s] = Len(u[s])
  <2>1. pool.past[s] = Len(text[s])
    BY <1>1, <1>5, <1>7
  <2>2. CASE s \in S
    <3>1. PICK x \in Elems(scheduled) : x.seq = s
      BY <2>2, MembersLive
    <3>2. u[s] = text[s] \o x.tokens /\ q.past[s] = pool.past[s] + Len(x.tokens)
      BY <2>2, <3>1 DEF TextRun, MovedTo, BatchEnds
    <3>3. PICK a \in Seq(Token) : a = text[s]
      BY DEF World
    <3>4. PICK b \in Seq(Token) : b = x.tokens
      BY InputForFacts
    <3>5. Len(a \o b) = Len(a) + Len(b)
      OBVIOUS
    <3> QED
      BY <2>1, <3>2, <3>3, <3>4, <3>5
  <2>3. CASE s \notin S
    BY <2>1, <2>3 DEF TextRun, MovedTo
  <2> QED
    BY <2>2, <2>3
<1> HIDE DEF Members
<1> QED
  BY <1>2, <1>3, <1>4, <1>5, <1>6, <1>7, WorldSame

\* The choices that had an input are to be advanced, with the logits of its token.
TodoOf(ds) == [k \in DOMAIN ds |-> <<ds[k].group, ds[k].choice>>]

LEMMA PairSeq ==
  ASSUME NEW n \in Nat, NEW f \in [1 .. n -> TodoPair]
  PROVE  f \in Seq(TodoPair)
<1>1. f = [c \in 1 .. n |-> f[c]]
  OBVIOUS
<1>2. \A c \in 1 .. n : f[c] \in TodoPair
  OBVIOUS
<1>3. PICK e : e = [c \in 1 .. n |-> f[c]]
  OBVIOUS
<1>4. e \in Seq(TodoPair)
  BY <1>2, <1>3
<1> QED
  BY <1>1, <1>3, <1>4

LEMMA TodoBatch ==
  ASSUME World(groups, pool, text, idle), BatchSound(scheduled, groups, pool),
         NEW S, NEW ends, BatchEnds(pool, S, ends),
         NEW q, MovedTo(pool, q, S, ends), NEW u, TextRun(text, u, S),
         NEW hs, hs = [i \in DOMAIN groups |-> Outputs(i, ends)],
         NEW ds, ds = Only(scheduled, {x \in Elems(scheduled) : x.choice # 0}),
         NEW td, td = TodoOf(ds)
  PROVE  TodoSound(hs, td)
<1>1. scheduled \in Seq(InputType)
  BY DEF BatchSound
<1>2. Distinct(scheduled)
  BY DEF BatchSound, Distinct
<1>3. PICK T : T = {x \in Elems(scheduled) : x.choice # 0}
  OBVIOUS
<1>4. ds = Only(scheduled, T)
  BY <1>3
<1>5. /\ ds \in Seq(InputType) /\ Elems(ds) = Elems(scheduled) \cap T /\ Distinct(ds)
  BY <1>1, <1>2, <1>4, OnlyFacts
<1>6. \A k \in DOMAIN ds : ds[k] \in Elems(scheduled) /\ ds[k].choice # 0
  BY <1>3, <1>5 DEF Elems
<1>7. ASSUME NEW k \in DOMAIN ds
      PROVE  LET i == ds[k].group
                 c == ds[k].choice
             IN  /\ i \in DOMAIN groups /\ c \in 1 .. NSlots /\ i \in Nat \ {0}
                 /\ c \in Unfinished(hs[i])
                 /\ hs[i].choices[c].logits = Len(hs[i].choices[c].stepped)
  <2>1. PICK x \in Elems(scheduled) : x = ds[k]
    BY <1>6
  <2>2. PICK i : i = x.group
    OBVIOUS
  <2>3. PICK c : c = x.choice
    OBVIOUS
  <2>4. x.choice # 0 /\ x \in InputsOf(i, c)
    BY <1>6, <2>1, <2>2, <2>3 DEF InputsOf
  <2>5. i \in DOMAIN groups /\ ChoiceInput(x, groups)
    BY <2>2, <2>4 DEF BatchSound
  <2>6. PICK g \in GroupType : g = groups[i]
    BY <2>5, WorldGroups
  <2>7. GroupSound(g, pool, text) /\ i \in Nat \ {0}
    BY <2>5, <2>6 DEF World
  <2>8. c \in Unfinished(g) /\ x.seq = g.choices[c].seq
    BY <2>2, <2>3, <2>5, <2>6 DEF ChoiceInput
  <2>9. c \in 1 .. NSlots /\ c \in DOMAIN g.choices
    BY <2>7, <2>8, ChoiceRoot
  <2>10. PICK h : h = hs[i]
    OBVIOUS
  <2>11. GroupRun(g, h, i, ends)
    BY <2>5, <2>6, <2>10, OutputsFacts
  <2>12. Unfinished(h) = Unfinished(g) /\ GroupSound(h, q, u) /\ h \in GroupType
    BY <2>5, <2>6, <2>11, GroupRunSound
  <2>13. PICK dh : dh = h.choices[c]
    OBVIOUS
  <2>14. ChoiceRun(g.choices[c], dh, InputsOf(i, c), ends)
    BY <2>9, <2>11, <2>13 DEF GroupRun
  <2>15. dh.seq = x.seq /\ dh.logits = ends[x.seq]
    BY <2>4, <2>8, <2>14 DEF ChoiceRun
  <2>16. u[dh.seq] = dh.stepped
    BY <2>8, <2>12, <2>13 DEF GroupSound, ChoicesSound
  <2>17. ends[x.seq] = Len(u[x.seq])
    <3>1. World(hs, q, u, idle)
      BY WorldBatch
    <3>2. x.seq \in Slot /\ pool.live[x.seq] /\ x.seq \in S
      BY InputHeld DEF BatchEnds
    <3>3. q.live[x.seq] /\ q.past[x.seq] = ends[x.seq]
      BY <3>2 DEF MovedTo
    <3> QED
      BY <3>1, <3>2, <3>3 DEF World
  <2> QED
    BY <2>1, <2>2, <2>3, <2>5, <2>7, <2>8, <2>9, <2>10, <2>12, <2>13, <2>15, <2>16, <2>17
<1>8. td \in Seq((Nat \ {0}) \X (1 .. NSlots)) /\ DOMAIN td = DOMAIN ds
  <2>5. ds \in Seq(InputType)
    BY <1>5
  <2>6. Len(ds) \in Nat /\ DOMAIN ds = 1 .. Len(ds)
    BY <2>5
  <2>1. PICK n \in Nat : n = Len(ds) /\ DOMAIN ds = 1 .. n
    BY <2>6
  <2>2. td = [k \in 1 .. n |-> <<ds[k].group, ds[k].choice>>]
    BY <2>1 DEF TodoOf
  <2>3. \A k \in 1 .. n : <<ds[k].group, ds[k].choice>> \in (Nat \ {0}) \X (1 .. NSlots)
    BY <1>7, <2>1
  <2>4. td \in [1 .. n -> TodoPair]
    <3>1. \A k \in 1 .. n : <<ds[k].group, ds[k].choice>> \in TodoPair
      BY <2>3 DEF TodoPair
    <3> QED
      BY <2>2, <3>1
  <2>7. td \in Seq(TodoPair)
    BY <2>4, PairSeq
  <2> QED
    BY <2>1, <2>2, <2>7 DEF TodoPair
<1>9. \A k \in DOMAIN td : td[k] = <<ds[k].group, ds[k].choice>>
  BY <1>8 DEF TodoOf
<1>10. Distinct(td)
  <2> SUFFICES ASSUME NEW k \in DOMAIN ds, NEW l \in DOMAIN ds, td[k] = td[l] PROVE k = l
    BY <1>8 DEF Distinct
  <2>1. ds[k].group = ds[l].group /\ ds[k].choice = ds[l].choice
    <3>1. k \in DOMAIN td /\ l \in DOMAIN td
      BY <1>8
    <3>2. td[k] = <<ds[k].group, ds[k].choice>> /\ td[l] = <<ds[l].group, ds[l].choice>>
      BY <1>9, <3>1
    <3>3. <<ds[k].group, ds[k].choice>> = <<ds[l].group, ds[l].choice>>
      BY <3>2
    <3> QED
      BY <3>3
  <2>2. PICK a \in DOMAIN scheduled : scheduled[a] = ds[k]
    BY <1>6 DEF Elems
  <2>3. PICK b \in DOMAIN scheduled : scheduled[b] = ds[l]
    BY <1>6 DEF Elems
  <2>4. a = b
    BY <2>1, <2>2, <2>3 DEF BatchSound
  <2> QED
    BY <1>5, <2>2, <2>3, <2>4 DEF Distinct
<1>11. ASSUME NEW e \in Elems(td)
       PROVE  /\ e[1] \in DOMAIN hs /\ e[2] \in Unfinished(hs[e[1]])
              /\ hs[e[1]].choices[e[2]].logits = Len(hs[e[1]].choices[e[2]].stepped)
  <2>1. PICK k \in DOMAIN ds : e = <<ds[k].group, ds[k].choice>>
    BY <1>8, <1>9 DEF Elems
  <2>2. e[1] = ds[k].group /\ e[2] = ds[k].choice
    BY <2>1
  <2>3. DOMAIN hs = DOMAIN groups
    OBVIOUS
  <2> QED
    BY <1>7, <2>2, <2>3
<1> QED
  BY <1>8, <1>10, <1>11 DEF TodoSound

LEMMA BatchKeeps == ASSUME EngineInv, Batch PROVE EngineInv'
<1>1. /\ at \in Nat \ {0} /\ cursor \in Nat /\ pc = "batch" /\ todo = << >>
      /\ World(groups, pool, text, idle) /\ BatchSound(scheduled, groups, pool)
  BY DEF EngineInv, Batch
<1>2. /\ at' = at /\ cursor' = cursor /\ pc' = "advance" /\ scheduled' = << >> /\ idle' = idle
  BY DEF Batch
<1>3. PICK ends : ends = EndsOf(pool)
  OBVIOUS
<1>4. PICK u : u = TextAfter(text)
  OBVIOUS
<1>5. BatchEnds(pool, Members, ends) /\ TextRun(text, u, Members)
  BY <1>1, <1>3, <1>4, BatchTerms
<1>6. PICK ds : ds = Only(scheduled, {x \in Elems(scheduled) : x.choice # 0})
  OBVIOUS
<1>7. \/ /\ BatchOk(pool, ends)
         /\ groups' = [i \in DOMAIN groups |-> Outputs(i, ends)]
         /\ pool' = BatchRun(pool, ends) /\ text' = u /\ todo' = TodoOf(ds)
      \/ FailGroups(DOMAIN groups) /\ todo' = todo /\ text' = text
  BY <1>3, <1>4, <1>6 DEF Batch, EndsOf, TextAfter, TodoOf, Members, InputFor
<1>8. World(groups', pool', text', idle') /\ TodoSound(groups', todo')
  <2>1. CASE /\ BatchOk(pool, ends)
             /\ groups' = [i \in DOMAIN groups |-> Outputs(i, ends)]
             /\ pool' = BatchRun(pool, ends) /\ text' = u /\ todo' = TodoOf(ds)
    <3>1. BatchNeed(pool, ends) <= Cardinality(pool.free)
      BY <2>1 DEF BatchOk
    <3>2. PICK q : q = BatchRun(pool, ends)
      OBVIOUS
    <3>3. MovedTo(pool, q, Members, ends)
      BY <1>1, <1>5, <3>1, <3>2, BatchRunFacts
    <3>4. PICK hs : hs = [i \in DOMAIN groups |-> Outputs(i, ends)]
      OBVIOUS
    <3>5. World(hs, q, u, idle)
      BY <1>1, <1>5, <3>3, <3>4, WorldBatch
    <3>6. PICK td : td = TodoOf(ds)
      OBVIOUS
    <3>7. TodoSound(hs, td)
      BY <1>1, <1>5, <1>6, <3>3, <3>4, <3>6, TodoBatch
    <3> QED
      BY <1>2, <2>1, <3>2, <3>4, <3>5, <3>6, <3>7
  <2>2. CASE FailGroups(DOMAIN groups) /\ todo' = todo /\ text' = text
    <3>1. PICK I \in SUBSET DOMAIN groups : I = DOMAIN groups
      OBVIOUS
    <3>2. groups' = FailedIn(groups, I) /\ pool' = ReleaseAll(pool, HeldBy(groups, I))
      BY <2>2, <3>1, FailGroupsEffect
    <3>3. PICK hs : hs = FailedIn(groups, I)
      OBVIOUS
    <3>4. PICK q : q = ReleaseAll(pool, HeldBy(groups, I))
      OBVIOUS
    <3>5. World(hs, q, text, idle)
      BY <1>1, <3>3, <3>4, WorldFail
    <3> QED
      BY <1>1, <1>2, <2>2, <3>2, <3>3, <3>4, <3>5, NothingTodo
  <2> QED
    BY <1>7, <2>1, <2>2
<1> QED
  BY <1>1, <1>2, <1>8, NothingScheduled DEF EngineInv, Phases

-----------------------------------------------------------------------------
(***************************************************************************)
(* The queue                                                               *)
(***************************************************************************)
Counted == {j \in Job : client[j] = "counted"}

\* The requests on their way to the scheduler, and those it has taken up, are
\* different ones, and all of them were sent.
QueueOnce ==
  /\ Distinct(waiting) /\ Distinct(channel)
  /\ Elems(waiting) \cap Elems(channel) = {}
  /\ \A j \in Elems(waiting) \cup Elems(channel) :
       client[j] = "sent" /\ \A i \in DOMAIN groups : groups[i].job # j
  /\ \A i \in DOMAIN groups : client[groups[i].job] = "sent"
  /\ \A i, k \in DOMAIN groups : groups[i].job = groups[k].job => i = k

QueueTypes ==
  /\ client \in [Job -> {"new", "counted", "sent", "refused"}]
  /\ cancel \in [Job -> BOOLEAN] /\ staged \in [Job -> BOOLEAN]
  /\ channel \in Seq(Job) /\ waiting \in Seq(Job)
  /\ hungUp \in BOOLEAN /\ closed \in BOOLEAN

QueueCounted ==
  /\ IsFiniteSet(Counted)
  /\ queued \in Nat /\ queued <= MaxQueue
  /\ queued = Cardinality(Counted) + Len(waiting) + Len(channel)
  /\ \A j \in Job : client[j] # "refused"

\* Once the senders are gone no request is on its way, and the loop ends only
\* with nothing left to do.
QueueClosed ==
  /\ hungUp => Counted = {}
  /\ closed => hungUp /\ channel = << >>
  /\ pc = "exit" => groups = << >> /\ waiting = << >> /\ closed /\ idle.seq = None

QueueInv == QueueTypes /\ QueueOnce /\ QueueCounted /\ QueueClosed

LEMMA QueueInit == ASSUME Init PROVE QueueInv
<1>1. QueueTypes
  <2>1. << >> \in Seq(Job)
    OBVIOUS
  <2>2. client \in [Job -> {"new", "counted", "sent", "refused"}]
    BY DEF Init
  <2>3. cancel \in [Job -> BOOLEAN] /\ staged \in [Job -> BOOLEAN]
    BY DEF Init
  <2> QED
    BY <2>1, <2>2, <2>3 DEF Init, QueueTypes
<1>2. QueueOnce
  BY DEF Init, QueueOnce, Elems, Distinct
<1>3. Counted = {}
  BY DEF Init, Counted
<1>4. QueueCounted
  BY <1>3, FS_EmptySet, QueueAssumption DEF Init, QueueCounted
<1>5. QueueClosed
  BY <1>3 DEF Init, QueueClosed
<1> QED
  BY <1>1, <1>2, <1>4, <1>5 DEF QueueInv

LEMMA QueueFacts ==
  ASSUME QueueInv
  PROVE  /\ Len(waiting) \in Nat /\ Len(channel) \in Nat
         /\ Elems(waiting) \subseteq Job /\ Elems(channel) \subseteq Job
         /\ Cardinality(Counted) \in Nat /\ IsFiniteSet(Counted)
         /\ queued \in Nat /\ MaxQueue \in Nat
         /\ queued = Cardinality(Counted) + Len(waiting) + Len(channel)
<1>1. channel \in Seq(Job) /\ waiting \in Seq(Job)
  BY DEF QueueInv, QueueTypes
<1>2. Len(waiting) \in Nat /\ Len(channel) \in Nat
  BY <1>1
<1>3. Elems(waiting) \subseteq Job /\ Elems(channel) \subseteq Job
  BY <1>1 DEF Elems
<1>4. Cardinality(Counted) \in Nat
  BY FS_CardinalityType DEF QueueInv, QueueCounted
<1> QED
  BY <1>2, <1>3, <1>4, QueueAssumption DEF QueueInv, QueueCounted

\* Nothing of the queue changes but the flags.
LEMMA QueueSame ==
  ASSUME QueueInv, UNCHANGED <<client, queued, channel, waiting, groups, hungUp, closed, pc, idle>>,
         cancel' \in [Job -> BOOLEAN], staged' \in [Job -> BOOLEAN]
  PROVE  QueueInv'
<1>1. Counted' = Counted
  BY DEF Counted
<1>2. QueueTypes'
  BY DEF QueueInv, QueueTypes
<1>3. QueueOnce'
  BY DEF QueueInv, QueueOnce
<1>4. QueueCounted'
  BY <1>1 DEF QueueInv, QueueCounted
<1>5. QueueClosed'
  BY <1>1 DEF QueueInv, QueueClosed
<1> QED
  BY <1>2, <1>3, <1>4, <1>5 DEF QueueInv

LEMMA CountQueue ==
  ASSUME QueueInv, groups \in Seq(GroupType), NEW j \in Job, Count(j)
  PROVE  QueueInv'
<1>1. /\ client[j] = "new" /\ ~hungUp /\ queued < MaxQueue /\ queued' = queued + 1
      /\ client' = [client EXCEPT ![j] = "counted"]
      /\ UNCHANGED <<cancel, channel, hungUp, staged, pc, waiting, groups, closed, idle>>
  BY DEF Count, loop
<1>2. client \in [Job -> {"new", "counted", "sent", "refused"}]
  BY DEF QueueInv, QueueTypes
<1>3. /\ client'[j] = "counted" /\ client' \in [Job -> {"new", "counted", "sent", "refused"}]
      /\ \A k \in Job : k # j => client'[k] = client[k]
  BY <1>1, <1>2
<1>4. Counted' = Counted \cup {j} /\ j \notin Counted
  BY <1>1, <1>3 DEF Counted
<1>5. IsFiniteSet(Counted') /\ Cardinality(Counted') = Cardinality(Counted) + 1
  BY <1>4, QueueFacts, FS_AddElement
<1>6. QueueTypes'
  BY <1>1, <1>3 DEF QueueInv, QueueTypes
<1>7. \A k \in Job : client[k] = "sent" => client'[k] = "sent"
  BY <1>1, <1>3
<1>8. QueueOnce'
  <2>1. \A i \in DOMAIN groups : groups[i].job \in Job
    BY GroupFields
  <2> QED
    BY <1>1, <1>7, <2>1, QueueFacts DEF QueueInv, QueueOnce
<1>9. QueueCounted'
  <2>1. queued' \in Nat /\ queued' <= MaxQueue
    BY <1>1, QueueFacts
  <2>2. queued' = Cardinality(Counted') + Len(waiting') + Len(channel')
    BY <1>1, <1>5, QueueFacts
  <2>3. \A k \in Job : client'[k] # "refused"
    BY <1>1, <1>3 DEF QueueInv, QueueCounted
  <2> QED
    BY <1>5, <2>1, <2>2, <2>3 DEF QueueCounted
<1>10. QueueClosed'
  BY <1>1 DEF QueueInv, QueueClosed
<1> QED
  BY <1>6, <1>8, <1>9, <1>10 DEF QueueInv

SentAlso(seq, j, r) ==
  r \in Seq(Job) /\ Len(r) = Len(seq) + 1 /\ Elems(r) = Elems(seq) \cup {j}

LEMMA JobAppended ==
  ASSUME NEW seq \in Seq(Job), NEW j \in Job, NEW r, r = Append(seq, j)
  PROVE  SentAlso(seq, j, r)
<1>1. r \in Seq(Job) /\ Len(r) = Len(seq) + 1
  OBVIOUS
<1>2. Elems(r) = Elems(seq) \cup {j}
  BY AppendOne
<1> QED
  BY <1>1, <1>2 DEF SentAlso

LEMMA SendQueue ==
  ASSUME QueueInv, groups \in Seq(GroupType), NEW j \in Job, SendJob(j)
  PROVE  QueueInv'
<1>1. client[j] = "counted" /\ j \in Counted
  BY DEF SendJob, Counted
<1>2. channel \in Seq(Job) /\ client \in [Job -> {"new", "counted", "sent", "refused"}]
  BY DEF QueueInv, QueueTypes
<1>3. Cardinality(Counted) # 0
  BY <1>1, QueueFacts, FS_EmptySet
<1>4. Len(channel) < MaxQueue
  <2>1. queued <= MaxQueue
    BY DEF QueueInv, QueueCounted
  <2> QED
    BY <1>3, <2>1, QueueFacts
<1>5. /\ channel' = Append(channel, j) /\ client' = [client EXCEPT ![j] = "sent"]
      /\ queued' = queued
      /\ UNCHANGED <<cancel, hungUp, staged, pc, waiting, groups, closed, idle>>
  BY <1>4 DEF SendJob, loop
<1>6. /\ client'[j] = "sent" /\ client' \in [Job -> {"new", "counted", "sent", "refused"}]
      /\ \A k \in Job : k # j => client'[k] = client[k]
  BY <1>2, <1>5
<1>7. Counted' = Counted \ {j}
  BY <1>6 DEF Counted
<1>8. IsFiniteSet(Counted') /\ Cardinality(Counted') = Cardinality(Counted) - 1
  BY <1>1, <1>7, QueueFacts, FS_RemoveElement
<1>9. /\ channel' \in Seq(Job) /\ Len(channel') = Len(channel) + 1
      /\ Elems(channel') = Elems(channel) \cup {j}
  BY <1>2, <1>5, JobAppended DEF SentAlso
<1>10. QueueTypes'
  BY <1>5, <1>6, <1>9 DEF QueueInv, QueueTypes
<1>11. /\ j \notin Elems(waiting) /\ j \notin Elems(channel)
       /\ \A i \in DOMAIN groups : groups[i].job # j
  BY <1>1 DEF QueueInv, QueueOnce
<1>12. Distinct(channel')
  BY <1>2, <1>5, <1>11, AppendDistinct DEF QueueInv, QueueOnce
<1>13. QueueOnce'
  <2>1. \A i \in DOMAIN groups : groups[i].job \in Job
    BY GroupFields
  <2> QED
    BY <1>5, <1>6, <1>9, <1>11, <1>12, <2>1, QueueFacts DEF QueueInv, QueueOnce
<1>14. QueueCounted'
  <2>1. queued' = Cardinality(Counted') + Len(waiting') + Len(channel')
    <3>1. PICK n \in Nat : n = Len(channel)
      BY QueueFacts
    <3>2. PICK m \in Nat : m = Cardinality(Counted)
      BY QueueFacts
    <3>3. Len(channel') = n + 1 /\ Cardinality(Counted') = m - 1
      BY <1>8, <1>9, <3>1, <3>2
    <3>4. queued' = m + Len(waiting) + n /\ Len(waiting') = Len(waiting) /\ Len(waiting) \in Nat
      BY <1>5, <3>1, <3>2, QueueFacts
    <3> QED
      BY <3>3, <3>4
  <2>2. \A k \in Job : client'[k] # "refused"
    BY <1>6 DEF QueueInv, QueueCounted
  <2> QED
    BY <1>5, <1>8, <2>1, <2>2 DEF QueueInv, QueueCounted
<1>15. QueueClosed'
  <2>1. ~hungUp
    BY <1>1 DEF QueueInv, QueueClosed
  <2> QED
    BY <1>5, <2>1 DEF QueueInv, QueueClosed
<1> QED
  BY <1>10, <1>13, <1>14, <1>15 DEF QueueInv

LEMMA OutsideQueue ==
  ASSUME QueueInv, groups \in Seq(GroupType),
         HangUp \/ \E j \in Job : Count(j) \/ SendJob(j) \/ Cancel(j) \/ Stage(j)
  PROVE  QueueInv'
<1>1. cancel \in [Job -> BOOLEAN] /\ staged \in [Job -> BOOLEAN]
  BY DEF QueueInv, QueueTypes
<1>2. CASE HangUp
  <2>1. /\ hungUp' = TRUE /\ Counted = {}
        /\ UNCHANGED <<client, cancel, queued, channel, staged, pc, waiting, groups, closed, idle>>
    BY <1>2 DEF HangUp, Counted, loop
  <2>2. Counted' = Counted
    BY <2>1 DEF Counted
  <2>3. QueueTypes' /\ QueueOnce'
    BY <2>1 DEF QueueInv, QueueTypes, QueueOnce
  <2>4. QueueCounted' /\ QueueClosed'
    BY <2>1, <2>2 DEF QueueInv, QueueCounted, QueueClosed
  <2> QED
    BY <2>3, <2>4 DEF QueueInv
<1>3. ASSUME NEW j \in Job, Cancel(j) PROVE QueueInv'
  BY <1>1, <1>3, QueueSame DEF Cancel, loop
<1>4. ASSUME NEW j \in Job, Stage(j) PROVE QueueInv'
  BY <1>1, <1>4, QueueSame DEF Stage, handlers, loop
<1> QED
  BY <1>2, <1>3, <1>4, CountQueue, SendQueue

\* The groups hs work on some of the requests of the groups gs.
JobsFrom(gs, hs) ==
  \E h \in [DOMAIN hs -> DOMAIN gs] :
    /\ \A a, b \in DOMAIN hs : h[a] = h[b] => a = b
    /\ \A a \in DOMAIN hs : hs[a].job = gs[h[a]].job

LEMMA JobsSame ==
  ASSUME NEW gs, NEW hs, DOMAIN hs = DOMAIN gs, \A i \in DOMAIN gs : hs[i].job = gs[i].job
  PROVE  JobsFrom(gs, hs)
<1> DEFINE h == [a \in DOMAIN hs |-> a]
<1>1. h \in [DOMAIN hs -> DOMAIN gs] /\ \A a \in DOMAIN hs : h[a] = a
  OBVIOUS
<1> HIDE DEF h
<1> QED
  BY <1>1 DEF JobsFrom

\* The requests that are in the queue or have a group, with some groups gone.
LEMMA OnceFewer ==
  ASSUME QueueOnce, JobsFrom(groups, groups'), client' = client,
         Distinct(waiting'), Distinct(channel'), Elems(waiting') \cap Elems(channel') = {},
         Elems(waiting') \cup Elems(channel') \subseteq Elems(waiting) \cup Elems(channel)
  PROVE  QueueOnce'
<1>1. PICK h \in [DOMAIN groups' -> DOMAIN groups] :
        /\ \A a, b \in DOMAIN groups' : h[a] = h[b] => a = b
        /\ \A a \in DOMAIN groups' : groups'[a].job = groups[h[a]].job
  BY DEF JobsFrom
<1>2. \A a \in DOMAIN groups' : h[a] \in DOMAIN groups
  BY <1>1
<1>3. \A j \in Elems(waiting') \cup Elems(channel') :
        client'[j] = "sent" /\ \A a \in DOMAIN groups' : groups'[a].job # j
  BY <1>1, <1>2 DEF QueueOnce
<1>4. \A a \in DOMAIN groups' : client'[groups'[a].job] = "sent"
  BY <1>1, <1>2 DEF QueueOnce
<1>5. \A a, b \in DOMAIN groups' : groups'[a].job = groups'[b].job => a = b
  BY <1>1, <1>2 DEF QueueOnce
<1> QED
  BY <1>3, <1>4, <1>5 DEF QueueOnce

LEMMA EngineQueue ==
  ASSUME QueueInv, UNCHANGED <<client, cancel, queued, channel, waiting, hungUp, closed>>,
         staged' \in [Job -> BOOLEAN], JobsFrom(groups, groups'), pc' # "exit"
  PROVE  QueueInv'
<1>1. Counted' = Counted
  BY DEF Counted
<1>2. QueueTypes'
  BY DEF QueueInv, QueueTypes
<1>3. QueueOnce'
  <2>1. QueueOnce
    BY DEF QueueInv
  <2>2. Distinct(waiting') /\ Distinct(channel') /\ Elems(waiting') \cap Elems(channel') = {}
    BY <2>1 DEF QueueOnce
  <2>3. Elems(waiting') \cup Elems(channel') \subseteq Elems(waiting) \cup Elems(channel)
    OBVIOUS
  <2> QED
    BY <2>1, <2>2, <2>3, OnceFewer
<1>4. QueueCounted' /\ QueueClosed'
  BY <1>1 DEF QueueInv, QueueCounted, QueueClosed
<1> QED
  BY <1>2, <1>3, <1>4 DEF QueueInv

\* waiting \o channel.
LEMMA QueueJoin ==
  ASSUME NEW a \in Seq(Job), NEW b \in Seq(Job), Distinct(a), Distinct(b),
         Elems(a) \cap Elems(b) = {}, NEW r, r = a \o b
  PROVE  /\ r \in Seq(Job) /\ Distinct(r) /\ Elems(r) = Elems(a) \cup Elems(b)
         /\ Len(r) = Len(a) + Len(b)
<1>1. PICK m \in Nat : m = Len(a)
  OBVIOUS
<1>2. PICK n \in Nat : n = Len(b)
  OBVIOUS
<1>3. DOMAIN a = 1 .. m /\ DOMAIN b = 1 .. n
  BY <1>1, <1>2
<1>4. r \in Seq(Job) /\ Len(r) = m + n /\ DOMAIN r = 1 .. m + n
  BY <1>1, <1>2
<1>5. \A k \in 1 .. m : r[k] = a[k]
  BY <1>1
<1>6. \A k \in 1 .. n : r[m + k] = b[k]
  BY <1>1, <1>2
<1>7. \A k \in 1 .. m + n : k <= m \/ (k - m \in 1 .. n /\ r[k] = b[k - m])
  <2> SUFFICES ASSUME NEW k \in 1 .. m + n, ~(k <= m)
               PROVE  k - m \in 1 .. n /\ r[k] = b[k - m]
    OBVIOUS
  <2>1. k - m \in 1 .. n /\ m + (k - m) = k
    OBVIOUS
  <2> QED
    BY <1>6, <2>1
<1>8. \A k \in 1 .. m : k \in 1 .. m + n
  OBVIOUS
<1>9. \A k \in 1 .. n : m + k \in 1 .. m + n
  OBVIOUS
<1> HIDE DEF Distinct
<1>10. Elems(r) = Elems(a) \cup Elems(b)
  <2>1. ASSUME NEW k \in 1 .. m + n PROVE r[k] \in Elems(a) \cup Elems(b)
    <3>1. CASE k <= m
      BY <1>3, <1>5, <3>1 DEF Elems
    <3>2. CASE ~(k <= m)
      BY <1>3, <1>7, <3>2 DEF Elems
    <3> QED
      BY <3>1, <3>2
  <2>2. \A k \in 1 .. m : a[k] \in Elems(r)
    BY <1>4, <1>5, <1>8 DEF Elems
  <2>3. \A k \in 1 .. n : b[k] \in Elems(r)
    BY <1>4, <1>6, <1>9 DEF Elems
  <2>4. \A x \in Elems(r) : x \in Elems(a) \cup Elems(b)
    BY <1>4, <2>1 DEF Elems
  <2>5. \A x \in Elems(a) \cup Elems(b) : x \in Elems(r)
    BY <1>3, <2>2, <2>3 DEF Elems
  <2> QED
    BY <2>4, <2>5
<1>11. Distinct(r)
  <2> SUFFICES ASSUME NEW k \in 1 .. m + n, NEW l \in 1 .. m + n, r[k] = r[l] PROVE k = l
    BY <1>4 DEF Distinct
  <2>1. CASE k <= m /\ l <= m
    BY <1>3, <1>5, <2>1 DEF Distinct
  <2>2. CASE k <= m /\ ~(l <= m)
    <3>4. k \in DOMAIN a /\ r[k] = a[k]
      BY <1>3, <1>5, <2>2
    <3>1. r[k] \in Elems(a)
      BY <3>4 DEF Elems
    <3>2. l - m \in DOMAIN b /\ r[l] = b[l - m]
      BY <1>3, <1>7, <2>2
    <3>3. r[l] \in Elems(b)
      BY <3>2 DEF Elems
    <3> QED
      BY <3>1, <3>3
  <2>3. CASE ~(k <= m) /\ l <= m
    <3>1. r[l] \in Elems(a)
      BY <1>3, <1>5, <2>3 DEF Elems
    <3>2. k - m \in DOMAIN b /\ r[k] = b[k - m]
      BY <1>3, <1>7, <2>3
    <3>3. r[k] \in Elems(b)
      BY <3>2 DEF Elems
    <3> QED
      BY <3>1, <3>3
  <2>4. CASE ~(k <= m) /\ ~(l <= m)
    <3>1. k - m \in DOMAIN b /\ l - m \in DOMAIN b /\ b[k - m] = b[l - m]
      BY <1>3, <1>7, <2>4
    <3>2. k - m = l - m
      BY <3>1 DEF Distinct
    <3> QED
      BY <3>2
  <2> QED
    BY <2>1, <2>2, <2>3, <2>4
<1> QED
  BY <1>1, <1>2, <1>4, <1>10, <1>11

\* r is the part of seq that is in S; the jobs D that are dropped are as many as
\* it is shorter.
QueueKept(seq, S, r, D) ==
  /\ r \in Seq(Job) /\ Distinct(r) /\ Elems(r) = Elems(seq) \cap S
  /\ Cardinality(D) \in Nat /\ Len(seq) = Len(r) + Cardinality(D)

LEMMA QueueLeft ==
  ASSUME NEW seq \in Seq(Job), Distinct(seq), NEW S,
         NEW r, r = Only(seq, S), NEW D, D = Elems(seq) \ S
  PROVE  QueueKept(seq, S, r, D)
<1>1. r \in Seq(Job) /\ Elems(r) = Elems(seq) \cap S /\ Distinct(r)
  BY OnlyFacts
<1>2. IsFiniteSet(Elems(seq)) /\ Cardinality(Elems(seq)) = Len(seq)
  BY DistinctCount
<1>3. IsFiniteSet(Elems(r)) /\ Cardinality(Elems(r)) = Len(r)
  BY <1>1, DistinctCount
<1>4. IsFiniteSet(D)
  BY <1>2, FS_Subset
<1>5. Elems(r) \cup D = Elems(seq) /\ Elems(r) \cap D = {}
  BY <1>1
<1>6. Cardinality(Elems(r) \cup D) = Cardinality(Elems(r)) + Cardinality(D) - Cardinality(Elems(r) \cap D)
  BY <1>3, <1>4, FS_Union
<1>7. Cardinality(Elems(r) \cap D) = 0
  BY <1>5, FS_EmptySet
<1>8. Cardinality(D) \in Nat
  BY <1>4, FS_CardinalityType
<1>9. Len(r) \in Nat
  BY <1>1
<1>10. Len(seq) = Len(r) + Cardinality(D)
  <2>1. PICK d \in Nat : d = Cardinality(D)
    BY <1>8
  <2>2. PICK l \in Nat : l = Len(r)
    BY <1>9
  <2>3. Cardinality(Elems(seq)) = l + d - 0
    BY <1>3, <1>5, <1>6, <1>7, <2>1, <2>2
  <2> QED
    BY <1>2, <2>1, <2>2, <2>3
<1> QED
  BY <1>1, <1>8, <1>10 DEF QueueKept

LEMMA TopQueue == ASSUME QueueInv, Top PROVE QueueInv'
<1>1. /\ channel \in Seq(Job) /\ waiting \in Seq(Job) /\ closed \in BOOLEAN /\ hungUp \in BOOLEAN
      /\ Distinct(waiting) /\ Distinct(channel) /\ Elems(waiting) \cap Elems(channel) = {}
  BY DEF QueueInv, QueueTypes, QueueOnce
<1>2. PICK jobs : jobs = waiting \o channel
  OBVIOUS
<1>3. /\ jobs \in Seq(Job) /\ Distinct(jobs) /\ Elems(jobs) = Elems(waiting) \cup Elems(channel)
      /\ Len(jobs) = Len(waiting) + Len(channel)
  BY <1>1, <1>2, QueueJoin
<1>4. PICK S : S = {j \in Job : ~cancel[j]}
  OBVIOUS
<1>5. PICK D : D = Elems(jobs) \ S
  OBVIOUS
<1>6. Elems(jobs) \subseteq Job
  BY <1>3 DEF Elems
<1>7. D = {j \in Elems(jobs) : cancel[j]}
  BY <1>4, <1>5, <1>6
<1>8. /\ waiting' = Only(jobs, S) /\ channel' = << >> /\ queued' = queued - Cardinality(D)
      /\ closed' = (closed \/ hungUp) /\ pc' = "drop"
      /\ UNCHANGED <<client, cancel, hungUp, staged, groups, idle>>
  BY <1>2, <1>4, <1>7 DEF Top, handlers
<1>9. PICK r : r = Only(jobs, S)
  OBVIOUS
<1>10. /\ r \in Seq(Job) /\ Distinct(r) /\ Elems(r) = Elems(jobs) \cap S
       /\ Cardinality(D) \in Nat /\ Len(jobs) = Len(r) + Cardinality(D)
  <2>1. QueueKept(jobs, S, r, D)
    BY <1>3, <1>5, <1>9, QueueLeft
  <2> QED
    BY <2>1 DEF QueueKept
<1>11. QueueTypes'
  BY <1>1, <1>8, <1>9, <1>10 DEF QueueInv, QueueTypes
<1>12. Elems(channel') = {} /\ Distinct(channel') /\ Len(channel') = 0
  BY <1>8 DEF Elems, Distinct
<1>13. QueueOnce'
  <2>1. JobsFrom(groups, groups')
    BY <1>8, JobsSame
  <2>2. Distinct(waiting') /\ Elems(waiting') \subseteq Elems(waiting) \cup Elems(channel)
    BY <1>3, <1>8, <1>9, <1>10
  <2> QED
    BY <1>8, <1>12, <2>1, <2>2, OnceFewer DEF QueueInv
<1>14. Counted' = Counted
  BY <1>8 DEF Counted
<1>15. QueueCounted'
  <2>1. Len(waiting') = Len(r) /\ Len(r) \in Nat
    BY <1>8, <1>9, <1>10
  <2>2. queued' = Cardinality(Counted) + Len(r)
    BY <1>3, <1>8, <1>10, <2>1, QueueFacts
  <2>3. queued' \in Nat /\ queued' <= queued
    BY <1>8, <1>10, <2>1, <2>2, QueueFacts
  <2>4. queued' <= MaxQueue
    BY <2>3, QueueFacts DEF QueueInv, QueueCounted
  <2>5. queued' = Cardinality(Counted') + Len(waiting') + Len(channel')
    BY <1>12, <1>14, <2>1, <2>2, QueueFacts
  <2> QED
    BY <1>8, <1>14, <2>3, <2>4, <2>5 DEF QueueInv, QueueCounted
<1>16. QueueClosed'
  BY <1>8, <1>14 DEF QueueInv, QueueClosed
<1> QED
  BY <1>11, <1>13, <1>15, <1>16 DEF QueueInv

\* The head of a queue of different jobs is none of the others.
Behind(seq, j, r) ==
  /\ j \in Job /\ r \in Seq(Job) /\ Distinct(r) /\ Len(r) = Len(seq) - 1 /\ Len(seq) \in Nat \ {0}
  /\ j \notin Elems(r) /\ Elems(seq) = Elems(r) \cup {j}

LEMMA HeadFacts ==
  ASSUME NEW seq \in Seq(Job), seq # << >>, Distinct(seq), NEW j, j = Head(seq),
         NEW r, r = Tail(seq)
  PROVE  Behind(seq, j, r)
<1>1. PICK n \in Nat : n = Len(seq)
  OBVIOUS
<1>2. n # 0 /\ DOMAIN seq = 1 .. n
  BY <1>1
<1>3. r \in Seq(Job) /\ Len(r) = n - 1 /\ DOMAIN r = 1 .. n - 1
  BY <1>1, <1>2
<1>4. j = seq[1] /\ j \in Job
  BY <1>1, <1>2
<1>5. \A k \in 1 .. n - 1 : r[k] = seq[k + 1] /\ k + 1 \in 1 .. n
  BY <1>1, <1>2
<1>6. ASSUME NEW k \in 1 .. n - 1, NEW l \in 1 .. n - 1, r[k] = r[l] PROVE k = l
  <2>1. k + 1 = l + 1
    BY <1>2, <1>5, <1>6 DEF Distinct
  <2> QED
    BY <2>1
<1>7. Distinct(r)
  BY <1>3, <1>6 DEF Distinct
<1>8. j \notin Elems(r)
  <2> SUFFICES ASSUME NEW k \in 1 .. n - 1, r[k] = j PROVE FALSE
    BY <1>3 DEF Elems
  <2>1. seq[k + 1] = seq[1] /\ 1 \in 1 .. n
    BY <1>2, <1>4, <1>5
  <2>2. k + 1 = 1
    BY <1>2, <1>5, <2>1 DEF Distinct
  <2> QED
    BY <2>2
<1>9. \A x \in Elems(seq) : x \in Elems(r) \cup {j}
  <2> SUFFICES ASSUME NEW k \in 1 .. n PROVE seq[k] \in Elems(r) \cup {j}
    BY <1>2 DEF Elems
  <2>1. CASE k = 1
    BY <1>4, <2>1
  <2>2. CASE k # 1
    <3>1. k - 1 \in 1 .. n - 1 /\ (k - 1) + 1 = k
      BY <1>2, <2>2
    <3>2. r[k - 1] = seq[k]
      BY <1>5, <3>1
    <3> QED
      BY <1>3, <3>1, <3>2 DEF Elems
  <2> QED
    BY <2>1, <2>2
<1>10. \A x \in Elems(r) \cup {j} : x \in Elems(seq)
  <2>1. j \in Elems(seq)
    <3>1. 1 \in DOMAIN seq
      BY <1>2
    <3> QED
      BY <1>4, <3>1 DEF Elems
  <2>2. \A k \in 1 .. n - 1 : r[k] \in Elems(seq)
    BY <1>2, <1>5 DEF Elems
  <2> QED
    BY <1>3, <2>1, <2>2 DEF Elems
<1> QED
  BY <1>1, <1>2, <1>3, <1>4, <1>7, <1>8, <1>9, <1>10 DEF Behind

LEMMA WaitQueue ==
  ASSUME QueueInv, groups \in Seq(GroupType), Wait
  PROVE  QueueInv'
<1>1. /\ channel \in Seq(Job) /\ waiting \in Seq(Job) /\ closed \in BOOLEAN /\ hungUp \in BOOLEAN
      /\ Distinct(waiting) /\ Distinct(channel) /\ Elems(waiting) \cap Elems(channel) = {}
  BY DEF QueueInv, QueueTypes, QueueOnce
<1>2. /\ pc' = "top"
      /\ UNCHANGED <<client, cancel, hungUp, queued, staged, groups, idle>>
  BY DEF Wait, handlers
<1>3. Counted' = Counted
  BY <1>2 DEF Counted
<1>4. JobsFrom(groups, groups')
  BY <1>2, JobsSame
<1>5. CASE /\ channel # << >> /\ waiting' = Append(waiting, Head(channel))
           /\ channel' = Tail(channel) /\ closed' = closed
  <2>1. PICK j : j = Head(channel)
    OBVIOUS
  <2>2. PICK r : r = Tail(channel)
    OBVIOUS
  <2>3. Behind(channel, j, r)
    BY <1>1, <1>5, <2>1, <2>2, HeadFacts
  <2>4. PICK w : w = Append(waiting, j)
    OBVIOUS
  <2>5. j \in Job
    BY <2>3 DEF Behind
  <2>6. SentAlso(waiting, j, w)
    BY <1>1, <2>4, <2>5, JobAppended
  <2>7. waiting' = w /\ channel' = r
    BY <1>5, <2>1, <2>2, <2>4
  <2>8. j \notin Elems(waiting)
    BY <1>1, <2>3 DEF Behind
  <2>9. Distinct(w)
    BY <1>1, <2>4, <2>5, <2>8, AppendDistinct
  <2>10. QueueTypes'
    BY <1>2, <1>5, <2>3, <2>6, <2>7 DEF QueueInv, QueueTypes, SentAlso, Behind
  <2>11. /\ Elems(w) \cap Elems(r) = {} /\ Distinct(r)
         /\ Elems(w) \cup Elems(r) \subseteq Elems(waiting) \cup Elems(channel)
    BY <1>1, <2>3, <2>6 DEF SentAlso, Behind
  <2>12. QueueOnce'
    BY <1>2, <1>4, <2>7, <2>9, <2>11, OnceFewer DEF QueueInv
  <2>13. QueueCounted'
    <3>1. Len(w) = Len(waiting) + 1 /\ Len(r) = Len(channel) - 1
      BY <2>3, <2>6 DEF SentAlso, Behind
    <3>2. queued' = Cardinality(Counted') + Len(waiting') + Len(channel')
      BY <1>2, <1>3, <2>7, <3>1, QueueFacts
    <3> QED
      BY <1>2, <1>3, <3>2 DEF QueueInv, QueueCounted
  <2>14. QueueClosed'
    BY <1>2, <1>3, <1>5 DEF QueueInv, QueueClosed
  <2> QED
    BY <2>10, <2>12, <2>13, <2>14 DEF QueueInv
<1>6. CASE /\ channel = << >> /\ closed' = (closed \/ hungUp)
           /\ waiting' = waiting /\ channel' = channel
  <2>1. QueueTypes'
    BY <1>1, <1>2, <1>6 DEF QueueInv, QueueTypes
  <2>2. QueueOnce'
    <3>1. Elems(waiting') \cup Elems(channel') \subseteq Elems(waiting) \cup Elems(channel)
      BY <1>6
    <3> QED
      BY <1>1, <1>2, <1>4, <1>6, <3>1, OnceFewer DEF QueueInv
  <2>3. QueueCounted' /\ QueueClosed'
    BY <1>2, <1>3, <1>6 DEF QueueInv, QueueCounted, QueueClosed
  <2> QED
    BY <2>1, <2>2, <2>3 DEF QueueInv
<1> QED
  BY <1>5, <1>6 DEF Wait

LEMMA AdmitQueue ==
  ASSUME QueueInv, groups \in Seq(GroupType), Admit
  PROVE  QueueInv'
<1>1. /\ channel \in Seq(Job) /\ waiting \in Seq(Job) /\ waiting # << >>
      /\ Distinct(waiting) /\ Distinct(channel) /\ Elems(waiting) \cap Elems(channel) = {}
  BY DEF QueueInv, QueueTypes, QueueOnce, Admit
<1>2. PICK j : j = Head(waiting)
  OBVIOUS
<1>3. PICK r : r = Tail(waiting)
  OBVIOUS
<1>4. Behind(waiting, j, r)
  BY <1>1, <1>2, <1>3, HeadFacts
<1>5. /\ waiting' = r /\ queued' = queued - 1 /\ pc' = "admit"
      /\ UNCHANGED <<client, cancel, hungUp, channel, staged, closed>>
  <2>1. pc = "admit"
    BY DEF Admit
  <2> QED
    BY <1>2, <1>3, <2>1 DEF Admit, handlers, loop
<1>6. \/ groups' = groups
      \/ \E g : groups' = Append(groups, g) /\ g.job = j
  <2>1. \A s, n : NewGroup(j, s, n).job = j
    BY DEF NewGroup
  <2> QED
    BY <1>2, <2>1 DEF Admit
<1>7. Counted' = Counted
  BY <1>5 DEF Counted
<1>8. QueueTypes'
  BY <1>4, <1>5 DEF QueueInv, QueueTypes, Behind
<1>9. QueueCounted'
  <2>1. Len(r) = Len(waiting) - 1 /\ Len(waiting) \in Nat \ {0}
    BY <1>4 DEF Behind
  <2>2. queued' = Cardinality(Counted') + Len(waiting') + Len(channel')
    BY <1>5, <1>7, <2>1, QueueFacts
  <2>3. queued' \in Nat /\ queued' <= queued
    BY <1>5, <2>1, QueueFacts
  <2>4. queued' <= MaxQueue
    BY <2>3, QueueFacts DEF QueueInv, QueueCounted
  <2> QED
    BY <1>5, <1>7, <2>2, <2>3, <2>4 DEF QueueInv, QueueCounted
<1>10. QueueClosed'
  BY <1>5, <1>7 DEF QueueInv, QueueClosed
<1>11. QueueOnce'
  <2>1. Distinct(r) /\ j \notin Elems(r) /\ Elems(r) \subseteq Elems(waiting) /\ j \in Elems(waiting)
    BY <1>4 DEF Behind
  <2>2. CASE groups' = groups
    <3>1. JobsFrom(groups, groups')
      BY <2>2, JobsSame
    <3>2. Elems(r) \cap Elems(channel) = {} /\ Elems(r) \cup Elems(channel) \subseteq Elems(waiting) \cup Elems(channel)
      BY <1>1, <2>1
    <3> QED
      BY <1>1, <1>5, <2>1, <3>1, <3>2, OnceFewer DEF QueueInv
  <2>3. ASSUME NEW g, groups' = Append(groups, g), g.job = j PROVE QueueOnce'
    <3>1. PICK n \in Nat : n = Len(groups)
      OBVIOUS
    <3>2. DOMAIN groups = 1 .. n /\ DOMAIN groups' = 1 .. n + 1
      BY <2>3, <3>1
    <3>3. groups'[n + 1] = g /\ \A i \in 1 .. n : groups'[i] = groups[i]
      BY <2>3, <3>1
    <3>4. \A i \in DOMAIN groups' : groups'[i].job = j \/ (i \in DOMAIN groups /\ groups'[i] = groups[i])
      BY <2>3, <3>2, <3>3
    <3>5. \A i \in DOMAIN groups : groups[i].job # j
      BY <2>1 DEF QueueInv, QueueOnce
    <3>6. client[j] = "sent"
      BY <2>1 DEF QueueInv, QueueOnce
    <3>7. \A k \in Elems(r) \cup Elems(channel) : k # j
      BY <1>1, <2>1
    <3>8. \A k \in Elems(waiting') \cup Elems(channel') :
            client'[k] = "sent" /\ \A i \in DOMAIN groups' : groups'[i].job # k
      BY <1>5, <2>1, <3>4, <3>7 DEF QueueInv, QueueOnce
    <3>9. \A i \in DOMAIN groups' : client'[groups'[i].job] = "sent"
      BY <1>5, <3>4, <3>6 DEF QueueInv, QueueOnce
    <3>10. ASSUME NEW i \in DOMAIN groups', NEW k \in DOMAIN groups',
                  groups'[i].job = groups'[k].job
           PROVE  i = k
      <4>1. CASE i = n + 1 \/ k = n + 1
        BY <2>3, <3>2, <3>3, <3>5, <3>10, <4>1
      <4>2. CASE i # n + 1 /\ k # n + 1
        <5>1. i \in DOMAIN groups /\ k \in DOMAIN groups
          BY <3>2, <4>2
        <5> QED
          BY <3>2, <3>3, <3>10, <5>1 DEF QueueInv, QueueOnce
      <4> QED
        BY <4>1, <4>2
    <3>11. Distinct(waiting') /\ Distinct(channel') /\ Elems(waiting') \cap Elems(channel') = {}
      BY <1>1, <1>5, <2>1
    <3> QED
      BY <3>8, <3>9, <3>10, <3>11 DEF QueueOnce
  <2> QED
    BY <1>6, <2>2, <2>3
<1> QED
  BY <1>8, <1>9, <1>10, <1>11 DEF QueueInv

\* One group changes, and keeps its request.
LEMMA JobsOne ==
  ASSUME NEW gs, NEW i, NEW h, i \in DOMAIN gs => h.job = gs[i].job,
         NEW hs, hs = [gs EXCEPT ![i] = h]
  PROVE  JobsFrom(gs, hs)
<1>1. DOMAIN hs = DOMAIN gs /\ \A k \in DOMAIN gs : hs[k].job = gs[k].job
  OBVIOUS
<1> QED
  BY <1>1, JobsSame

LEMMA JobsFail ==
  ASSUME groups \in Seq(GroupType), NEW I, FailGroups(I)
  PROVE  JobsFrom(groups, groups') /\ staged' \in [Job -> BOOLEAN]
<1>1. groups' = FailedIn(groups, I)
  BY FailGroupsEffect
<1>2. \A k \in DOMAIN groups : Failed(groups[k]).job = groups[k].job
  BY DEF Failed, GroupType
<1>3. DOMAIN groups' = DOMAIN groups /\ \A k \in DOMAIN groups : groups'[k].job = groups[k].job
  BY <1>1, <1>2 DEF FailedIn
<1>4. JobsFrom(groups, groups')
  BY <1>3, JobsSame
<1>5. staged' \in [Job -> BOOLEAN]
  <2>1. staged' = [j \in Job |-> staged[j] /\ \A i \in I : groups[i].job # j]
    BY DEF FailGroups
  <2>2. PICK f : f = [j \in Job |-> staged[j] /\ \A i \in I : groups[i].job # j]
    OBVIOUS
  <2>3. f \in [Job -> BOOLEAN]
    BY <2>2
  <2> QED
    BY <2>1, <2>2, <2>3
<1> QED
  BY <1>4, <1>5

\* What Drop does to the groups.
DropJobs == {j \in Job : cancel[j]}

LEMMA DropEffect ==
  ASSUME EngineInv, Drop
  PROVE  /\ \E h : Dropped(groups, groups', DropJobs, h)
         /\ pool' = ReleaseAll(pool, DroppedFrom(groups, DropJobs))
         /\ text' = text /\ idle' = idle
<1>1. World(groups, pool, text, idle)
  BY DEF EngineInv
<1>2. \A i \in DOMAIN groups : groups[i].job \in Job
  BY <1>1, WorldGroups, GroupFields
<1>3. PICK kept : kept = Only(groups, {g \in Elems(groups) : ~cancel[g.job] /\ Held(g) # {}})
  OBVIOUS
<1>4. {g \in Elems(groups) : ~cancel[g.job] /\ Held(g) # {}} = KeptIn(groups, DropJobs)
  BY <1>2 DEF KeptIn, Elems, DropJobs
<1>5. kept = Only(groups, KeptIn(groups, DropJobs))
  BY <1>3, <1>4
<1>6. groups' = Recredited(kept)
  BY <1>3 DEF Drop, Recredited, LiveCreditsOf
<1>7. UNION {Held(groups[i]) : i \in {k \in DOMAIN groups : cancel[groups[k].job]}}
      = DroppedFrom(groups, DropJobs)
  BY <1>2 DEF DroppedFrom, DropJobs
<1>8. pool' = ReleaseAll(pool, DroppedFrom(groups, DropJobs))
  BY <1>7 DEF Drop
<1>9. \E h : Dropped(groups, groups', DropJobs, h)
  BY <1>1, <1>5, <1>6, WorldDrop
<1> QED
  BY <1>8, <1>9 DEF Drop

LEMMA DropQueue == ASSUME EngineInv, QueueInv, Drop PROVE QueueInv'
<1>1. PICK h : Dropped(groups, groups', DropJobs, h)
  BY DropEffect
<1>2. JobsFrom(groups, groups')
  BY <1>1 DEF Dropped, JobsFrom
<1>3. UNCHANGED <<client, cancel, queued, channel, waiting, hungUp, closed>> /\ pc' # "exit"
  BY DEF Drop, handlers
<1>4. staged' \in [Job -> BOOLEAN]
  <2> DEFINE Gone == {i \in DOMAIN groups : cancel[groups[i].job]}
  <2>1. staged' = [j \in Job |-> staged[j] /\ \A i \in Gone : groups[i].job # j]
    BY DEF Drop
  <2>2. PICK f : f = [j \in Job |-> staged[j] /\ \A i \in Gone : groups[i].job # j]
    OBVIOUS
  <2>3. f \in [Job -> BOOLEAN]
    BY <2>2
  <2> QED
    BY <2>1, <2>2, <2>3
<1> QED
  BY <1>2, <1>3, <1>4, EngineQueue

LEMMA RestoreQueue == ASSUME EngineInv, QueueInv, Restore PROVE QueueInv'
<1>1. groups \in Seq(GroupType) /\ at \in Nat \ {0}
  BY DEF EngineInv, World
<1>2. PICK i : i = NextRestoring
  OBVIOUS
<1>3. i \in DOMAIN groups
  BY <1>1, <1>2, NextRestoringFacts DEF Restore
<1>4. PICK g \in GroupType : g = groups[i]
  BY <1>1, <1>3
<1>5. UNCHANGED <<client, cancel, queued, channel, waiting, hungUp, closed, pc>> /\ pc # "exit"
  BY DEF Restore, handlers
<1>6. staged \in [Job -> BOOLEAN]
  BY DEF QueueInv, QueueTypes
<1>7. CASE ~staged[g.job]
  <2>1. groups' = groups /\ staged' = staged
    BY <1>2, <1>4, <1>7 DEF Restore
  <2> QED
    BY <1>5, <1>6, <2>1, JobsSame, EngineQueue
<1>8. CASE staged[g.job]
  <2>1. PICK object \in StagedFor(g) : groups' = [groups EXCEPT ![i] = Restored(g, object)]
    BY <1>2, <1>4, <1>8 DEF Restore
  <2>2. Restored(g, object).job = g.job
    <3>1. Restarted(g).job = g.job
      BY RestartedFacts
    <3>2. object.kind \in {"rows", "snapshot", "error", "closed"}
      BY DEF StagedFor
    <3>3. /\ [g EXCEPT !.imported = object.end].job = g.job
          /\ [g EXCEPT !.logits = object.end, !.restoring = FALSE].job = g.job
          /\ [g EXCEPT !.restoring = FALSE].job = g.job
      BY DEF GroupType
    <3> QED
      BY <3>1, <3>2, <3>3 DEF Restored
  <2>3. JobsFrom(groups, groups')
    BY <1>4, <2>1, <2>2, JobsOne
  <2>4. staged' \in [Job -> BOOLEAN]
    BY <1>2, <1>4, <1>6, <1>8 DEF Restore
  <2> QED
    BY <1>5, <2>3, <2>4, EngineQueue
<1> QED
  BY <1>7, <1>8

LEMMA StartQueue == ASSUME EngineInv, QueueInv, Start PROVE QueueInv'
<1>1. groups \in Seq(GroupType) /\ at \in Nat \ {0}
  BY DEF EngineInv, World
<1>2. PICK i : i = NextPrefilled
  OBVIOUS
<1>3. i \in DOMAIN groups
  BY <1>1, <1>2, NextPrefilledFacts DEF Start
<1>4. PICK g \in GroupType : g = groups[i]
  BY <1>1, <1>3
<1>5. UNCHANGED <<client, cancel, queued, channel, waiting, hungUp, closed, pc>> /\ pc # "exit"
  BY DEF Start, handlers
<1>6. staged \in [Job -> BOOLEAN]
  BY DEF QueueInv, QueueTypes
<1>7. CASE FailGroups({i})
  BY <1>1, <1>5, <1>7, JobsFail, EngineQueue
<1>8. ASSUME NEW cs, groups' = [groups EXCEPT ![i] = [g EXCEPT !.root = None, !.logits = 0, !.choices = cs]],
             staged' = staged
      PROVE  QueueInv'
  <2>1. [g EXCEPT !.root = None, !.logits = 0, !.choices = cs].job = g.job
    BY DEF GroupType
  <2>2. JobsFrom(groups, groups')
    BY <1>4, <1>8, <2>1, JobsOne
  <2> QED
    BY <1>5, <1>6, <1>8, <2>2, EngineQueue
<1>9. \/ FailGroups({i})
      \/ /\ staged' = staged
         /\ \E cs : groups' = [groups EXCEPT ![i] = [g EXCEPT !.root = None, !.logits = 0, !.choices = cs]]
  BY <1>2, <1>4 DEF Start
<1> QED
  BY <1>7, <1>8, <1>9

LEMMA AdvanceQueue == ASSUME EngineInv, QueueInv, Advance PROVE QueueInv'
<1>1. groups \in Seq(GroupType)
  BY DEF EngineInv, World
<1>2. UNCHANGED <<client, cancel, queued, channel, waiting, hungUp, closed, pc, staged>> /\ pc # "exit"
  BY DEF Advance, handlers
<1>3. staged \in [Job -> BOOLEAN]
  BY DEF QueueInv, QueueTypes
<1>4. PICK i : i = Head(todo)[1]
  OBVIOUS
<1>5. PICK c : c = Head(todo)[2]
  OBVIOUS
<1>6. ASSUME NEW x, groups' = [groups EXCEPT ![i].choices[c] = x] PROVE JobsFrom(groups, groups')
  <2>1. i \in DOMAIN groups => [groups[i] EXCEPT !.choices[c] = x].job = groups[i].job
    BY <1>1 DEF GroupType
  <2>2. groups' = [groups EXCEPT ![i] = [groups[i] EXCEPT !.choices[c] = x]]
    BY <1>6
  <2> QED
    BY <2>1, <2>2, JobsOne
<1>7. ASSUME NEW x, groups' = [groups EXCEPT ![i].choices[c].pending = x] PROVE JobsFrom(groups, groups')
  <2>1. i \in DOMAIN groups => [groups[i] EXCEPT !.choices[c].pending = x].job = groups[i].job
    BY <1>1 DEF GroupType
  <2>2. groups' = [groups EXCEPT ![i] = [groups[i] EXCEPT !.choices[c].pending = x]]
    BY <1>7
  <2> QED
    BY <2>1, <2>2, JobsOne
<1>8. \/ \E x : groups' = [groups EXCEPT ![i].choices[c] = x]
      \/ \E x : groups' = [groups EXCEPT ![i].choices[c].pending = x]
  BY <1>4, <1>5 DEF Advance, Finish
<1>9. JobsFrom(groups, groups')
  BY <1>6, <1>7, <1>8
<1> QED
  BY <1>2, <1>3, <1>9, EngineQueue

LEMMA BatchQueue == ASSUME EngineInv, QueueInv, Batch PROVE QueueInv'
<1>1. groups \in Seq(GroupType)
  BY DEF EngineInv, World
<1>2. UNCHANGED <<client, cancel, queued, channel, waiting, hungUp, closed>> /\ pc' # "exit"
  BY DEF Batch, handlers
<1>3. staged \in [Job -> BOOLEAN]
  BY DEF QueueInv, QueueTypes
<1>4. CASE FailGroups(DOMAIN groups)
  BY <1>1, <1>2, <1>4, JobsFail, EngineQueue
<1>5. ASSUME NEW ends, groups' = [i \in DOMAIN groups |-> Outputs(i, ends)], staged' = staged
      PROVE  QueueInv'
  <2>1. \A i \in DOMAIN groups : Outputs(i, ends).job = groups[i].job
    BY <1>1 DEF Outputs, GroupType
  <2>2. JobsFrom(groups, groups')
    BY <1>5, <2>1, JobsSame
  <2> QED
    BY <1>2, <1>3, <1>5, <2>2, EngineQueue
<1>6. \/ FailGroups(DOMAIN groups)
      \/ staged' = staged /\ \E ends : groups' = [i \in DOMAIN groups |-> Outputs(i, ends)]
  BY DEF Batch
<1> QED
  BY <1>4, <1>5, <1>6

LEMMA PhaseQueue ==
  ASSUME EngineInv, QueueInv, AdmitEnd \/ RestoreEnd \/ StartEnd \/ Schedule \/ AdvanceEnd
  PROVE  QueueInv'
<1>1. /\ UNCHANGED <<client, cancel, queued, channel, waiting, hungUp, closed, staged, groups>>
      /\ pc' # "exit"
  BY DEF AdmitEnd, RestoreEnd, StartEnd, Schedule, AdvanceEnd, handlers
<1>2. staged \in [Job -> BOOLEAN]
  BY DEF QueueInv, QueueTypes
<1>3. JobsFrom(groups, groups')
  BY <1>1, JobsSame
<1> QED
  BY <1>1, <1>2, <1>3, EngineQueue

LEMMA ExitQueue == ASSUME EngineInv, QueueInv, Exit PROVE QueueInv'
<1>1. /\ UNCHANGED <<client, cancel, queued, channel, waiting, hungUp, closed, staged, groups>>
      /\ pc' = "exit" /\ groups = << >> /\ waiting = << >> /\ closed
      /\ idle'.seq = None
  BY DEF Exit, handlers, Quiet
<1>2. Counted' = Counted
  BY <1>1 DEF Counted
<1>3. QueueTypes' /\ QueueOnce'
  BY <1>1 DEF QueueInv, QueueTypes, QueueOnce
<1>4. QueueCounted' /\ QueueClosed'
  BY <1>1, <1>2 DEF QueueInv, QueueCounted, QueueClosed
<1> QED
  BY <1>3, <1>4 DEF QueueInv

-----------------------------------------------------------------------------
(***************************************************************************)
(* The answers, and the theorems                                           *)
(***************************************************************************)
AnswerTypes ==
  /\ DOMAIN done = Job /\ DOMAIN errors = Job
  /\ \A j \in Job : done[j] \in [1 .. NChoices[j] -> Nat] /\ errors[j] \in Nat

LEMMA AnswersInit == ASSUME Init PROVE AnswerTypes
  BY DEF Init, AnswerTypes

\* Every choice gets some more Done events.
LEMMA MoreDone ==
  ASSUME AnswerTypes, NEW f, \A j \in Job : \A c \in 1 .. NChoices[j] : f[j][c] \in Nat,
         done' = [j \in Job |-> [c \in 1 .. NChoices[j] |-> done[j][c] + f[j][c]]],
         errors' = errors
  PROVE  AnswerTypes'
<1>1. \A j \in Job : \A c \in 1 .. NChoices[j] : done[j][c] + f[j][c] \in Nat
  <2> SUFFICES ASSUME NEW j \in Job, NEW c \in 1 .. NChoices[j]
               PROVE  done[j][c] + f[j][c] \in Nat
    OBVIOUS
  <2>1. done[j][c] \in Nat
    BY DEF AnswerTypes
  <2>2. f[j][c] \in Nat
    OBVIOUS
  <2> QED
    BY <2>1, <2>2
<1> QED
  BY <1>1 DEF AnswerTypes

LEMMA TopAnswers == ASSUME AnswerTypes, Top PROVE AnswerTypes'
<1>1. PICK D : D = {j \in Elems(waiting \o channel) : cancel[j]}
  OBVIOUS
<1>2. PICK f : f = [j \in Job |-> [c \in 1 .. NChoices[j] |-> IF j \in D THEN 1 ELSE 0]]
  OBVIOUS
<1>3. \A j \in Job : \A c \in 1 .. NChoices[j] : f[j][c] \in Nat
  BY <1>2
<1>4. /\ done' = [j \in Job |-> [c \in 1 .. NChoices[j] |-> done[j][c] + (IF j \in D THEN 1 ELSE 0)]]
      /\ errors' = errors
  BY <1>1 DEF Top, AllDone
<1>5. done' = [j \in Job |-> [c \in 1 .. NChoices[j] |-> done[j][c] + f[j][c]]]
  BY <1>2, <1>4
<1> QED
  BY <1>3, <1>4, <1>5, MoreDone

LEMMA DropAnswers == ASSUME AnswerTypes, Drop PROVE AnswerTypes'
<1> DEFINE Gone == {i \in DOMAIN groups : cancel[groups[i].job]}
           Hit(j, c) == \E i \in Gone : /\ groups[i].job = j
                                        /\ (groups[i].root # None \/ c \in Unfinished(groups[i]))
<1>1. done' = [j \in Job |-> [c \in 1 .. NChoices[j] |->
                  done[j][c] + (IF Hit(j, c) THEN 1 ELSE 0)]]
      /\ errors' = errors
  BY DEF Drop
<1> HIDE DEF Hit
<1>2. PICK f : f = [j \in Job |-> [c \in 1 .. NChoices[j] |-> IF Hit(j, c) THEN 1 ELSE 0]]
  OBVIOUS
<1>3. \A j \in Job : \A c \in 1 .. NChoices[j] : f[j][c] \in Nat
  BY <1>2
<1>4. done' = [j \in Job |-> [c \in 1 .. NChoices[j] |-> done[j][c] + f[j][c]]]
  BY <1>1, <1>2
<1> QED
  BY <1>1, <1>3, <1>4, MoreDone

LEMMA OneError ==
  ASSUME AnswerTypes, NEW j \in Job, errors' = [errors EXCEPT ![j] = @ + 1], done' = done
  PROVE  AnswerTypes'
  BY DEF AnswerTypes

LEMMA AdmitAnswers ==
  ASSUME AnswerTypes, waiting \in Seq(Job), Admit
  PROVE  AnswerTypes'
<1>1. PICK j \in Job : j = Head(waiting)
  BY DEF Admit
<1>2. done' = done
  BY DEF Admit
<1>3. errors' = errors \/ errors' = [errors EXCEPT ![j] = @ + 1]
  BY <1>1 DEF Admit
<1>4. CASE errors' = errors
  BY <1>2, <1>4 DEF AnswerTypes
<1> QED
  BY <1>2, <1>3, <1>4, OneError

LEMMA FailAnswers ==
  ASSUME AnswerTypes, groups \in Seq(GroupType), NEW I, I \subseteq DOMAIN groups,
         FailGroups(I), done' = done
  PROVE  AnswerTypes'
<1>1. errors' = [j \in Job |-> errors[j] + Cardinality({i \in I : groups[i].job = j})]
  BY DEF FailGroups
<1>2. ASSUME NEW j \in Job PROVE errors'[j] \in Nat
  <2>1. PICK S : S = {i \in I : groups[i].job = j}
    OBVIOUS
  <2>2. PICK n \in Nat : n = Len(groups)
    OBVIOUS
  <2>3. S \subseteq 1 .. n
    BY <2>1, <2>2
  <2>4. IsFiniteSet(S)
    <3>1. IsFiniteSet(1 .. n)
      BY FS_Interval
    <3> QED
      BY <2>3, <3>1, FS_Subset
  <2>5. Cardinality(S) \in Nat
    BY <2>4, FS_CardinalityType
  <2>6. errors'[j] = errors[j] + Cardinality(S)
    BY <1>1, <2>1
  <2> QED
    BY <2>5, <2>6 DEF AnswerTypes
<1>3. DOMAIN errors' = Job
  BY <1>1
<1> QED
  BY <1>2, <1>3 DEF AnswerTypes

LEMMA StartAnswers == ASSUME AnswerTypes, EngineInv, Start PROVE AnswerTypes'
<1>1. groups \in Seq(GroupType) /\ at \in Nat \ {0}
  BY DEF EngineInv, World
<1>2. NextPrefilled \in DOMAIN groups /\ done' = done
  BY <1>1, NextPrefilledFacts DEF Start
<1>3. errors' = errors \/ FailGroups({NextPrefilled})
  BY DEF Start
<1>4. CASE errors' = errors
  BY <1>2, <1>4 DEF AnswerTypes
<1>5. {NextPrefilled} \subseteq DOMAIN groups
  BY <1>2
<1> QED
  BY <1>1, <1>2, <1>3, <1>4, <1>5, FailAnswers

LEMMA BatchAnswers == ASSUME AnswerTypes, EngineInv, Batch PROVE AnswerTypes'
<1>1. groups \in Seq(GroupType)
  BY DEF EngineInv, World
<1>2. done' = done
  BY DEF Batch
<1>3. errors' = errors \/ FailGroups(DOMAIN groups)
  BY DEF Batch
<1>4. CASE errors' = errors
  BY <1>2, <1>4 DEF AnswerTypes
<1> QED
  BY <1>1, <1>2, <1>3, <1>4, FailAnswers

\* The choice at the head of the queue of those to advance.
LEMMA HeadTodo ==
  ASSUME EngineInv, todo # << >>
  PROVE  /\ Head(todo)[1] \in DOMAIN groups
         /\ Head(todo)[2] \in Unfinished(groups[Head(todo)[1]])
<1>1. TodoSound(groups, todo)
  BY DEF EngineInv
<1>2. todo \in Seq(TodoPair) /\ Distinct(todo)
  BY <1>1 DEF TodoSound, TodoPair
<1>3. Head(todo) \in Elems(todo)
  BY <1>2, TailFacts
<1> QED
  BY <1>1, <1>3 DEF TodoSound

LEMMA ChoiceOfJob ==
  ASSUME EngineInv, NEW i \in DOMAIN groups, NEW c \in Unfinished(groups[i])
  PROVE  groups[i].job \in Job /\ c \in 1 .. NChoices[groups[i].job]
<1>1. World(groups, pool, text, idle)
  BY DEF EngineInv
<1>2. groups[i] \in GroupType /\ GroupSound(groups[i], pool, text)
  BY <1>1, WorldGroups DEF World
<1>3. groups[i].root = None
  BY <1>2, ChoiceRoot
<1>4. Len(groups[i].choices) \in {0, NChoices[groups[i].job]}
  BY <1>2, <1>3 DEF GroupSound
<1>5. c \in 1 .. Len(groups[i].choices) /\ groups[i].job \in Job
  BY <1>2, GroupFields, HeldSlots
<1> QED
  BY <1>4, <1>5

LEMMA AdvanceAnswers == ASSUME AnswerTypes, EngineInv, Advance PROVE AnswerTypes'
<1>1. PICK i : i = Head(todo)[1]
  OBVIOUS
<1>2. PICK c : c = Head(todo)[2]
  OBVIOUS
<1>3. i \in DOMAIN groups /\ c \in Unfinished(groups[i])
  BY <1>1, <1>2, HeadTodo DEF Advance
<1>4. PICK j : j = groups[i].job
  OBVIOUS
<1>5. j \in Job /\ c \in 1 .. NChoices[j]
  BY <1>3, <1>4, ChoiceOfJob
<1>6. errors' = errors /\ (done' = done \/ done' = [done EXCEPT ![j][c] = @ + 1])
  BY <1>1, <1>2, <1>4 DEF Advance, Finish
<1>7. CASE done' = done
  BY <1>6, <1>7 DEF AnswerTypes
<1>8. CASE done' = [done EXCEPT ![j][c] = @ + 1]
  <2>1. PICK f : f = [done[j] EXCEPT ![c] = @ + 1]
    OBVIOUS
  <2>2. done[j] \in [1 .. NChoices[j] -> Nat]
    BY <1>5 DEF AnswerTypes
  <2>3. f \in [1 .. NChoices[j] -> Nat]
    <3>1. PICK S : S = 1 .. NChoices[j]
      OBVIOUS
    <3>2. PICK d \in [S -> Nat] : d = done[j]
      BY <2>2, <3>1
    <3>3. d[c] \in Nat /\ c \in S
      BY <1>5, <3>1
    <3>4. PICK n \in Nat : n = d[c] + 1
      BY <3>3
    <3>5. f = [d EXCEPT ![c] = n]
      BY <2>1, <3>2, <3>4
    <3>6. f \in [S -> Nat]
      BY <3>5
    <3> QED
      BY <3>1, <3>6
  <2>4. done' = [done EXCEPT ![j] = f]
    BY <1>8, <2>1
  <2> QED
    BY <1>6, <2>3, <2>4 DEF AnswerTypes
<1> QED
  BY <1>6, <1>7, <1>8

LEMMA OtherAnswers ==
  ASSUME AnswerTypes, UNCHANGED answers
  PROVE  AnswerTypes'
  BY DEF AnswerTypes, answers

-----------------------------------------------------------------------------
\* The inductive invariant of the scheduler: what it owns and where it is, the
\* requests on their way to it, and the events it has sent.
SchedulerInv == EngineInv /\ QueueInv /\ AnswerTypes

LEMMA OutsideStep ==
  ASSUME SchedulerInv, HangUp \/ \E j \in Job : Count(j) \/ SendJob(j) \/ Cancel(j) \/ Stage(j)
  PROVE  SchedulerInv'
<1>1. UNCHANGED <<pc, at, todo, groups, cursor, idle, scheduled, pool, text>>
  BY DEF HangUp, Count, SendJob, Cancel, Stage, loop
<1>2. UNCHANGED answers
  BY DEF HangUp, Count, SendJob, Cancel, Stage
<1>3. groups \in Seq(GroupType)
  BY DEF SchedulerInv, EngineInv, World
<1> QED
  BY <1>1, <1>2, <1>3, OutsideKeeps, OutsideQueue, OtherAnswers DEF SchedulerInv

LEMMA PhaseStep ==
  ASSUME SchedulerInv, AdmitEnd \/ RestoreEnd \/ StartEnd \/ AdvanceEnd \/ Wait \/ Schedule \/ Exit \/ Restore
  PROVE  SchedulerInv'
<1>1. EngineInv'
  BY PhaseStepKeeps, ScheduleKeeps, ExitKeeps, RestoreKeeps DEF SchedulerInv
<1>2. QueueInv'
  <2>1. groups \in Seq(GroupType)
    BY DEF SchedulerInv, EngineInv, World
  <2> QED
    BY <2>1, PhaseQueue, WaitQueue, ExitQueue, RestoreQueue DEF SchedulerInv
<1>3. UNCHANGED answers
  BY DEF AdmitEnd, RestoreEnd, StartEnd, AdvanceEnd, Wait, Schedule, Exit, Restore
<1> QED
  BY <1>1, <1>2, <1>3, OtherAnswers DEF SchedulerInv

LEMMA SchedulerStep == ASSUME SchedulerInv, [Next]_vars PROVE SchedulerInv'
<1>1. /\ EngineInv /\ QueueInv /\ AnswerTypes
      /\ groups \in Seq(GroupType) /\ waiting \in Seq(Job)
  BY DEF SchedulerInv, EngineInv, World, QueueInv, QueueTypes
<1>2. CASE HangUp \/ \E j \in Job : Count(j) \/ SendJob(j) \/ Cancel(j) \/ Stage(j)
  BY <1>2, OutsideStep
<1>3. CASE Top
  BY <1>1, <1>3, PhaseStepKeeps, TopQueue, TopAnswers DEF SchedulerInv
<1>4. CASE Drop
  BY <1>1, <1>4, DropKeeps, DropQueue, DropAnswers DEF SchedulerInv
<1>5. CASE Admit
  BY <1>1, <1>5, AdmitKeeps, AdmitQueue, AdmitAnswers DEF SchedulerInv
<1>6. CASE AdmitEnd \/ RestoreEnd \/ StartEnd \/ AdvanceEnd \/ Wait \/ Schedule \/ Exit \/ Restore
  BY <1>6, PhaseStep
<1>7. CASE Start
  BY <1>1, <1>7, StartKeeps, StartQueue, StartAnswers DEF SchedulerInv
<1>8. CASE Batch
  BY <1>1, <1>8, BatchKeeps, BatchQueue, BatchAnswers DEF SchedulerInv
<1>9. CASE Advance
  BY <1>1, <1>9, AdvanceKeeps, AdvanceQueue, AdvanceAnswers DEF SchedulerInv
<1>10. CASE UNCHANGED vars
  <2>1. EngineInv'
    BY <1>1, <1>10, OutsideKeeps DEF vars
  <2>2. QueueInv'
    <3>1. UNCHANGED <<client, queued, channel, waiting, groups, hungUp, closed, pc, idle, cancel, staged>>
      BY <1>10 DEF vars
    <3> QED
      BY <1>1, <3>1, QueueSame DEF QueueInv, QueueTypes
  <2>3. AnswerTypes'
    BY <1>1, <1>10, OtherAnswers DEF vars, answers
  <2> QED
    BY <2>1, <2>2, <2>3 DEF SchedulerInv
<1> QED
  BY <1>2, <1>3, <1>4, <1>5, <1>6, <1>7, <1>8, <1>9, <1>10 DEF Next, Engine

\* In every state of the scheduler its groups and the idle sequence hold the
\* live slots of the pool, each slot once; what they record of a slot is what it
\* holds; the choices to be advanced and the inputs of the batch are theirs; and
\* the counter, the channel and the queue hold every request on its way once.
THEOREM SchedulerAlwaysSound == Spec => []SchedulerInv
<1>1. Init => SchedulerInv
  BY EngineInit, QueueInit, AnswersInit DEF SchedulerInv
<1>2. SchedulerInv /\ [Next]_vars => SchedulerInv'
  BY SchedulerStep
<1> QED
  BY <1>1, <1>2, PTL DEF Spec

\* The values of the scheduler's variables, and of those it shares with the
\* handlers, stay in their types; the shared counter never passes the bound of the
\* queue (chat_completions).
THEOREM SchedulerAlwaysTyped == Spec => []TypeOK
<1>1. SchedulerInv => TypeOK
  <2> SUFFICES ASSUME SchedulerInv PROVE TypeOK
    OBVIOUS
  <2>1. /\ pc \in Phases /\ at \in Nat \ {0} /\ cursor \in Nat
        /\ groups \in Seq(GroupType) /\ pool \in Pool /\ text \in [Slot -> Seq(Token)]
        /\ idle \in IdleType
        /\ todo \in Seq((Nat \ {0}) \X (1 .. NSlots))
        /\ scheduled \in Seq(InputType)
    BY DEF SchedulerInv, EngineInv, World, TodoSound, BatchSound
  <2>2. /\ client \in [Job -> {"new", "counted", "sent", "refused"}]
        /\ cancel \in [Job -> BOOLEAN] /\ staged \in [Job -> BOOLEAN]
        /\ channel \in Seq(Job) /\ waiting \in Seq(Job)
        /\ hungUp \in BOOLEAN /\ closed \in BOOLEAN
    BY DEF SchedulerInv, QueueInv, QueueTypes
  <2>3. queued \in 0 .. MaxQueue
    BY QueueAssumption DEF SchedulerInv, QueueInv, QueueCounted
  <2>4. \A j \in Job : done[j] \in [1 .. NChoices[j] -> Nat] /\ errors[j] \in Nat
    BY DEF SchedulerInv, AnswerTypes
  <2> QED
    BY <2>1, <2>2, <2>3, <2>4 DEF TypeOK, Phases, IdleType
<1> QED
  BY <1>1, SchedulerAlwaysSound, PTL

RootsAt(s) == {i \in DOMAIN groups : groups[i].root = s}
ChoicesAt(s) == {d \in (DOMAIN groups) \X (1 .. NSlots) :
                   /\ d[2] \in Unfinished(groups[d[1]])
                   /\ groups[d[1]].choices[d[2]].seq = s}

LEMMA NobodyHolds ==
  ASSUME NEW s, \A i \in DOMAIN groups : s \notin Held(groups[i]),
         groups \in Seq(GroupType), s \in Slot
  PROVE  RootsAt(s) = {} /\ ChoicesAt(s) = {}
<1>1. \A i \in DOMAIN groups : groups[i] \in GroupType
  OBVIOUS
<1>2. \A i \in DOMAIN groups : groups[i].root # s
  BY <1>1, HeldSlots, NoneIsNoSlot
<1>3. \A i \in DOMAIN groups : \A c \in Unfinished(groups[i]) : groups[i].choices[c].seq # s
  BY <1>1, HeldSlots
<1> QED
  BY <1>2, <1>3 DEF RootsAt, ChoicesAt

LEMMA OneGroupHolds ==
  ASSUME World(groups, pool, text, idle), NEW s \in Slot, NEW i \in DOMAIN groups,
         s \in Held(groups[i])
  PROVE  /\ Cardinality(RootsAt(s)) \in Nat /\ Cardinality(ChoicesAt(s)) \in Nat
         /\ Cardinality(RootsAt(s)) + Cardinality(ChoicesAt(s)) = 1
<1>1. PICK g \in GroupType : g = groups[i] /\ GroupSound(g, pool, text) /\ s \in Held(g)
  BY WorldGroups DEF World
<1>2. \A k \in DOMAIN groups : groups[k] \in GroupType
  BY WorldGroups
<1>3. \A k \in DOMAIN groups : k # i => s \notin Held(groups[k])
  BY DEF World, HeldApart
<1>4. \A k \in DOMAIN groups : k # i => /\ groups[k].root # s
                                        /\ \A c \in Unfinished(groups[k]) : groups[k].choices[c].seq # s
  BY <1>2, <1>3, HeldSlots, NoneIsNoSlot
<1>5. Cardinality({}) = 0
  BY FS_EmptySet
<1>6. CASE s = g.root
  <2>1. g.root # None
    BY <1>6, NoneIsNoSlot
  <2>2. Unfinished(g) = {}
    BY <1>1, <2>1 DEF GroupSound, RootSound, Unfinished
  <2>3. RootsAt(s) = {i}
    BY <1>1, <1>4, <1>6 DEF RootsAt
  <2>4. ChoicesAt(s) = {}
    BY <1>1, <1>4, <2>2 DEF ChoicesAt
  <2>5. Cardinality(RootsAt(s)) = 1
    BY <2>3, FS_Singleton
  <2> QED
    BY <1>5, <2>4, <2>5
<1>7. CASE s # g.root
  <2>1. PICK c \in Unfinished(g) : s = g.choices[c].seq
    BY <1>1, <1>7, HeldSlots
  <2>2. g.root = None
    BY <1>1, <2>1, ChoiceRoot
  <2>3. RootsAt(s) = {}
    BY <1>1, <1>4, <1>7 DEF RootsAt
  <2>4. c \in 1 .. NSlots
    <3>1. Len(g.choices) \in {0, NChoices[g.job]} /\ g.job \in Job
      BY <1>1, <2>2, GroupFields DEF GroupSound
    <3>2. c \in 1 .. Len(g.choices)
      BY <2>1, HeldSlots, GroupFields
    <3> QED
      BY <3>1, <3>2, JobAssumption, SlotsAssumption
  <2>5. \A d \in Unfinished(g) : g.choices[d].seq = s => d = c
    BY <1>1, <2>1 DEF GroupSound, ChoicesSound
  <2>6. ChoicesAt(s) = {<<i, c>>}
    <3>1. <<i, c>> \in ChoicesAt(s)
      BY <1>1, <2>1, <2>4 DEF ChoicesAt
    <3>2. ASSUME NEW d \in ChoicesAt(s) PROVE d = <<i, c>>
      <4>1. /\ d \in (DOMAIN groups) \X (1 .. NSlots)
            /\ d[2] \in Unfinished(groups[d[1]])
            /\ groups[d[1]].choices[d[2]].seq = s
        BY DEF ChoicesAt
      <4>2. d = <<d[1], d[2]>> /\ d[1] \in DOMAIN groups
        BY <4>1
      <4>3. d[1] = i
        BY <1>4, <4>1, <4>2
      <4>4. d[2] = c
        BY <1>1, <2>5, <4>1, <4>3
      <4> QED
        BY <4>2, <4>3, <4>4
    <3> QED
      BY <3>1, <3>2
  <2>7. Cardinality(ChoicesAt(s)) = 1
    BY <2>6, FS_Singleton
  <2> QED
    BY <1>5, <2>3, <2>7
<1> QED
  BY <1>6, <1>7

\* Every sequence of the model that is open has exactly one holder among the roots,
\* the unfinished choices and the idle sequence, so none leaks and none is
\* released under someone who still runs it, however requests are admitted,
\* cancelled, forked, failed and finished (run_continuous, fail_group,
\* start_choices, finish_choice).
THEOREM SchedulerAlwaysOneHolder == Spec => []OneHolder
<1>1. SchedulerInv => OneHolder
  <2> SUFFICES ASSUME SchedulerInv, NEW s \in Slot
               PROVE  Holders(s) = IF pool.live[s] THEN 1 ELSE 0
    BY DEF OneHolder
  <2>1. World(groups, pool, text, idle)
    BY DEF SchedulerInv, EngineInv
  <2>2. /\ groups \in Seq(GroupType)
        /\ \A i \in DOMAIN groups : idle.seq \notin Held(groups[i])
        /\ pool.live[s] <=> (idle.seq = s \/ \E i \in DOMAIN groups : s \in Held(groups[i]))
    BY <2>1 DEF World, HeldLive
  <2>3. Holders(s) = Cardinality(RootsAt(s)) + Cardinality(ChoicesAt(s))
                     + (IF idle.seq = s THEN 1 ELSE 0)
    BY DEF Holders, RootsAt, ChoicesAt
  <2>4. Cardinality({}) = 0
    BY FS_EmptySet
  <2>5. CASE \E i \in DOMAIN groups : s \in Held(groups[i])
    <3>1. PICK i \in DOMAIN groups : s \in Held(groups[i])
      BY <2>5
    <3>2. idle.seq # s /\ pool.live[s]
      BY <2>2, <3>1
    <3>3. /\ Cardinality(RootsAt(s)) \in Nat /\ Cardinality(ChoicesAt(s)) \in Nat
          /\ Cardinality(RootsAt(s)) + Cardinality(ChoicesAt(s)) = 1
      BY <2>1, <3>1, OneGroupHolds
    <3> QED
      BY <2>3, <3>2, <3>3
  <2>6. CASE ~\E i \in DOMAIN groups : s \in Held(groups[i])
    <3>1. RootsAt(s) = {} /\ ChoicesAt(s) = {}
      BY <2>2, <2>6, NobodyHolds
    <3>2. Holders(s) = IF idle.seq = s THEN 1 ELSE 0
      BY <2>3, <2>4, <3>1
    <3> QED
      BY <2>2, <2>6, <3>2
  <2> QED
    BY <2>5, <2>6
<1> QED
  BY <1>1, SchedulerAlwaysSound, PTL

\* The idle sequence is reused under the ids it was saved under, a choice is saved
\* under what it stepped, and a root holds the first tokens of its prompt: what
\* the scheduler records of a sequence is always what the model has run in it
\* (finish_choice, admission's reuse of idle, prefill).
THEOREM SchedulerAlwaysAgrees == Spec => []TextsAgree
<1>1. SchedulerInv => TextsAgree
  <2> SUFFICES ASSUME SchedulerInv PROVE TextsAgree
    OBVIOUS
  <2>1. World(groups, pool, text, idle)
    BY DEF SchedulerInv, EngineInv
  <2>2. \A i \in DOMAIN groups : GroupSound(groups[i], pool, text)
    BY <2>1 DEF World
  <2>3. \A i \in DOMAIN groups :
          /\ groups[i].root # None => IsPrefix(text[groups[i].root], Prompt[groups[i].job])
          /\ \A c \in Unfinished(groups[i]) :
               text[groups[i].choices[c].seq] = groups[i].choices[c].stepped
    BY <2>2 DEF GroupSound, RootSound, ChoicesSound
  <2> QED
    BY <2>1, <2>3 DEF World, TextsAgree
<1> QED
  BY <1>1, SchedulerAlwaysSound, PTL

\* Every token is sampled from the logits of the last token its sequence holds,
\* whatever was restored, started over or cut at a snapshot point before
\* (start_choices, advance_choice).
THEOREM SchedulerAlwaysCurrent == Spec => []LogitsCurrent
<1>1. SchedulerInv => LogitsCurrent
  <2> SUFFICES ASSUME SchedulerInv, NEW k \in DOMAIN todo
               PROVE  LET ch == groups[todo[k][1]].choices[todo[k][2]]
                      IN  ch.finished \/ ch.logits = Len(text[ch.seq])
    BY DEF LogitsCurrent
  <2>1. World(groups, pool, text, idle) /\ TodoSound(groups, todo)
    BY DEF SchedulerInv, EngineInv
  <2>2. todo[k] \in Elems(todo)
    BY DEF Elems
  <2>3. PICK i \in DOMAIN groups : i = todo[k][1]
    BY <2>1, <2>2 DEF TodoSound
  <2>4. PICK c \in Unfinished(groups[i]) : c = todo[k][2]
    BY <2>1, <2>2, <2>3 DEF TodoSound
  <2>5. groups[i].choices[c].logits = Len(groups[i].choices[c].stepped)
    BY <2>1, <2>2, <2>3, <2>4 DEF TodoSound
  <2>6. text[groups[i].choices[c].seq] = groups[i].choices[c].stepped
    BY <2>1 DEF World, GroupSound, ChoicesSound
  <2> QED
    BY <2>3, <2>4, <2>5, <2>6
<1> QED
  BY <1>1, SchedulerAlwaysSound, PTL

\* The counter the handlers and the engine share is always the number of requests
\* on their way to admission, so the channel never refuses one that was counted
\* (chat_completions; the counter's fetch_sub in run_continuous).
THEOREM SchedulerAlwaysCounts == Spec => []QueuedExact
<1>1. SchedulerInv => QueuedExact
  BY QueueFacts DEF SchedulerInv, QueueInv, QueueCounted, QueuedExact, Counted
<1> QED
  BY <1>1, SchedulerAlwaysSound, PTL
=============================================================================
