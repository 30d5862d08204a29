---------------------------- MODULE SequencePool ----------------------------
(***************************************************************************)
(* The reference-counted KV page pool of crates/tr-model/src/sequence.rs:   *)
(* `Pages` (reference counts and the free list) together with the slots'    *)
(* page tables and positions.  The operations are operators from a pool     *)
(* value to the next one, so that the specification of the sequences        *)
(* (PagedSequences) and that of the scheduler (Continuous) use the same.     *)
(*                                                                         *)
(* A pool is a record:                                                     *)
(*   refs   how many sequences hold each page              (Pages::refs)    *)
(*   free   the pages nobody holds                         (Pages::free)    *)
(*   live   which slots hold a sequence                    (Sequence::live) *)
(*   table  the pages of each slot, in row order           (Sequence::pages)*)
(*   past   the rows of each slot that are valid           (host.n_past)    *)
(* The free list is a LIFO stack in the code; which of the free pages is    *)
(* taken is left open here (the operand "new" of Prepare).                  *)
(***************************************************************************)
EXTENDS Integers, Sequences, FiniteSets, FiniteSetsExt

CONSTANTS NSlots,      \* resident sequences (--max-sequences)
          Page,        \* the pages of the pool
          PageTokens,  \* rows of a page (PAGE_TOKENS)
          Ctx          \* rows of a sequence, at most (ctx)

ASSUME SlotsAssumption == NSlots \in Nat \ {0}
ASSUME PageAssumption  == IsFiniteSet(Page)
ASSUME PageTokensAssumption == PageTokens \in Nat \ {0}
ASSUME CtxAssumption   == Ctx \in Nat

Slot == 0 .. NSlots - 1

Pool == [refs  : [Page -> Nat],
         free  : SUBSET Page,
         live  : [Slot -> BOOLEAN],
         table : [Slot -> Seq(Page)],
         past  : [Slot -> Nat]]

Elems(seq) == {seq[i] : i \in DOMAIN seq}

\* The pages slot s holds, and the slots that hold page g.
PagesOf(p, s) == Elems(p.table[s])
Owners(p, g)  == {s \in Slot : g \in PagesOf(p, s)}

PagesFor(n)  == (n + PageTokens - 1) \div PageTokens  \* div_ceil
TailIndex(n) == n \div PageTokens + 1                 \* where row n is stored

EmptyPool ==
  [refs  |-> [g \in Page |-> 0],
   free  |-> Page,
   live  |-> [s \in Slot |-> FALSE],
   table |-> [s \in Slot |-> << >>],
   past  |-> [s \in Slot |-> 0]]

-----------------------------------------------------------------------------
\* The slot allocate_sequence picks: the first that is not live.
IsFirstDead(p, s) == ~p.live[s] /\ \A t \in 0 .. s - 1 : p.live[t]

Allocate(p, s) ==
  [refs  |-> p.refs,
   free  |-> p.free,
   live  |-> [p.live EXCEPT ![s] = TRUE],
   table |-> p.table,
   past  |-> [p.past EXCEPT ![s] = 0]]

\* Mutant: the table is not cleared.
ReleaseKeepingTable(p, s) ==
  [refs  |-> [g \in Page |-> IF g \in PagesOf(p, s) THEN p.refs[g] - 1
                                                    ELSE p.refs[g]],
   free  |-> p.free \cup {g \in PagesOf(p, s) : p.refs[g] = 1},
   live  |-> [p.live EXCEPT ![s] = FALSE],
   table |-> p.table,
   past  |-> p.past]

\* Every page of s loses one holder; a page without holders becomes free.
Release(p, s) ==
  [refs  |-> [g \in Page |-> IF g \in PagesOf(p, s) THEN p.refs[g] - 1
                                                    ELSE p.refs[g]],
   free  |-> p.free \cup {g \in PagesOf(p, s) : p.refs[g] = 1},
   live  |-> [p.live EXCEPT ![s] = FALSE],
   table |-> [p.table EXCEPT ![s] = << >>],
   past  |-> p.past]

\* The sequences S are released, one after the other.
ReleaseAll(p, S) ==
  LET Gone(g) == Cardinality(Owners(p, g) \cap S)
  IN  [refs  |-> [g \in Page |-> p.refs[g] - Gone(g)],
       free  |-> p.free \cup {g \in Page : p.refs[g] > 0 /\ p.refs[g] = Gone(g)},
       live  |-> [s \in Slot |-> p.live[s] /\ s \notin S],
       table |-> [s \in Slot |-> IF s \in S THEN << >> ELSE p.table[s]],
       past  |-> p.past]

\* Mutant: only full pages are shared.
SharedFullPages(p, s) == SubSeq(p.table[s], 1, p.past[s] \div PageTokens)

\* The pages a fork of s shares with it: those that hold valid rows.
SharedPrefix(p, s) == SubSeq(p.table[s], 1, PagesFor(p.past[s]))

\* Mutant: the shared pages are not retained.
ForkUncounted(p, s, c) ==
  [refs  |-> p.refs,
   free  |-> p.free,
   live  |-> [p.live EXCEPT ![c] = TRUE],
   table |-> [p.table EXCEPT ![c] = SharedPrefix(p, s)],
   past  |-> [p.past EXCEPT ![c] = p.past[s]]]

\* c, a dead slot, becomes a copy of s.
Fork(p, s, c) ==
  [refs  |-> [g \in Page |-> IF g \in Elems(SharedPrefix(p, s))
                             THEN p.refs[g] + 1 ELSE p.refs[g]],
   free  |-> p.free,
   live  |-> [p.live EXCEPT ![c] = TRUE],
   table |-> [p.table EXCEPT ![c] = SharedPrefix(p, s)],
   past  |-> [p.past EXCEPT ![c] = p.past[s]]]

-----------------------------------------------------------------------------
\* Mutant: a page of two holders is not taken to be shared.
SharedByMore(p, s, end) ==
  /\ end > p.past[s]
  /\ TailIndex(p.past[s]) <= Len(p.table[s])
  /\ p.refs[p.table[s][TailIndex(p.past[s])]] > 2

\* prepare_sequence(s, end): whether the page of the next row must be copied
\* first, how many pages are missing, and the pool with the pages new taken
\* for them, the copy first.
Shared(p, s, end) ==
  /\ end > p.past[s]
  /\ TailIndex(p.past[s]) <= Len(p.table[s])
  /\ p.refs[p.table[s][TailIndex(p.past[s])]] > 1

Grow(p, s, end) ==
  IF PagesFor(end) > Len(p.table[s]) THEN PagesFor(end) - Len(p.table[s]) ELSE 0

Needed(p, s, end) == Grow(p, s, end) + (IF Shared(p, s, end) THEN 1 ELSE 0)

PrepareOk(p, s, end) == end <= Ctx /\ Needed(p, s, end) <= Cardinality(p.free)

\* k distinct pages of the set S, in some order.
Picks(S, k) == {f \in [1 .. k -> S] : \A i, j \in 1 .. k : f[i] = f[j] => i = j}

CopyOnWrite(p, s, new) ==
  LET tail == TailIndex(p.past[s])
  IN  [refs  |-> [g \in Page |-> IF g = new[1] THEN 1
                                 ELSE IF g = p.table[s][tail]
                                 THEN p.refs[g] - 1 ELSE p.refs[g]],
       free  |-> p.free \ {new[1]},
       live  |-> p.live,
       table |-> [p.table EXCEPT ![s] = [@ EXCEPT ![tail] = new[1]]],
       past  |-> p.past]

Extend(p, s, new) ==
  [refs  |-> [g \in Page |-> IF g \in Elems(new) THEN 1 ELSE p.refs[g]],
   free  |-> p.free \ Elems(new),
   live  |-> p.live,
   table |-> [p.table EXCEPT ![s] = @ \o new],
   past  |-> p.past]

Prepare(p, s, end, new) ==
  IF Shared(p, s, end) THEN Extend(CopyOnWrite(p, s, new), s, Tail(new))
                       ELSE Extend(p, s, new)

\* The position of s after rows were written or a snapshot was imported.
MoveTo(p, s, n) == [p EXCEPT !.past = [@ EXCEPT ![s] = n]]

-----------------------------------------------------------------------------
(***************************************************************************)
(* forward_batch.  ends is a function from the slots of the batch to the    *)
(* positions they are to reach.                                            *)
(***************************************************************************)
\* The preflight: with k members of the batch appending to a page of r
\* holders, the first r - 1 of them take a copy and the last keeps the page.
\* (The code walks the inputs with a map of the holders that remain.)
AppendingTo(p, S, g) ==
  {s \in S : TailIndex(p.past[s]) <= Len(p.table[s])
             /\ p.table[s][TailIndex(p.past[s])] = g}

\* Mutants: one copy per shared page, or one for each that appends to it.
CopiesOnce(p, S, g) == IF p.refs[g] > 1 THEN 1 ELSE 0
CopiesEach(p, S, g) ==
  IF p.refs[g] > 1 THEN Cardinality(AppendingTo(p, S, g)) ELSE 0

Copies(p, S, g) ==
  LET k == Cardinality(AppendingTo(p, S, g))
  IN  IF k < p.refs[g] THEN k ELSE p.refs[g] - 1

BatchNeed(p, ends) ==
  LET S == DOMAIN ends
  IN  SumFunctionOnSet([s \in S |-> Grow(p, s, ends[s])], S)
      + SumFunctionOnSet([g \in Page |-> Copies(p, S, g)],
                         {g \in Page : AppendingTo(p, S, g) # {}})

BatchOk(p, ends) ==
  /\ \A s \in DOMAIN ends : ends[s] <= Ctx
  /\ BatchNeed(p, ends) <= Cardinality(p.free)
-----------------------------------------------------------------------------
(***************************************************************************)
(* What makes a pool sound                                                 *)
(***************************************************************************)
\* A page's reference count is the number of tables that hold it ...
RefsCounted(p) == \A g \in Page : p.refs[g] = Cardinality(Owners(p, g))

\* ... and the free pages are those nobody holds.
FreeCounted(p) == p.free = {g \in Page : p.refs[g] = 0}

\* A table holds no page twice, and a page for every valid row; a slot that is
\* not live holds none.
TablesDistinct(p) ==
  \A s \in Slot : \A i, j \in DOMAIN p.table[s] :
    p.table[s][i] = p.table[s][j] => i = j

TablesCover(p) ==
  \A s \in Slot : IF p.live[s] THEN PagesFor(p.past[s]) <= Len(p.table[s])
                                ELSE p.table[s] = << >>

\* Pages behind the valid rows are never shared: a fork shares only pages that
\* hold valid rows, and such a page is copied before rows are appended to it.
PrivateFrom(p, s, first) ==
  \A i \in DOMAIN p.table[s] : i >= first => Owners(p, p.table[s][i]) = {s}

SparePrivate(p) == \A s \in Slot : PrivateFrom(p, s, PagesFor(p.past[s]) + 1)

PoolInv(p) == /\ RefsCounted(p)
              /\ FreeCounted(p)
              /\ TablesDistinct(p)
              /\ TablesCover(p)
              /\ SparePrivate(p)
=============================================================================
