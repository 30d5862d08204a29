---------------------------- MODULE PagedSequences ---------------------------
(***************************************************************************)
(* Resident sequences over the shared page pool: the operations of          *)
(* crates/tr-model/src/sequence.rs, with what the pages store.              *)
(*                                                                         *)
(* One engine thread calls them (they take &mut Model), so an operation is  *)
(* one action; forward_batch is split into its preflight (BeginBatch), one  *)
(* prepare_sequence per input (PrepareNext, any order) and the run of the   *)
(* worker pool (RunBatch), and nothing else happens in between.  An         *)
(* operation that returns an error changes nothing and is not an action.    *)
(*                                                                         *)
(* The restore of a cached prefix (server/continuous.rs) imports rows       *)
(* before it moves the position: imported[s] is the scheduler's             *)
(* Group::imported while the restore of s is under way, 0 otherwise.        *)
(***************************************************************************)
EXTENDS SequencePool

CONSTANTS Token,          \* vocabulary; a K/V row is identified with its token
          NoRow,          \* a row never written
          BatchMax,       \* tokens of a batch, at most
          MaxGeneration   \* largest generation of a handle (u64::MAX)

ASSUME BatchMaxAssumption == BatchMax \in Nat \ {0}
ASSUME GenerationAssumption == MaxGeneration \in Nat \ {0}
ASSUME NoRowAssumption == NoRow \notin Token

VARIABLES pool,        \* the page pool and the tables
          generation,  \* generation of the current or last handle of a slot
          kv,          \* what the rows of every page store
          imported,    \* rows imported by a restore under way
          inputs,      \* the tokens of each slot in the running forward_batch
          ready        \* the slots of the batch that are prepared

vars == <<pool, generation, kv, imported, inputs, ready>>

Offset == 0 .. PageTokens - 1
Handle == [slot : Slot, generation : 1 .. MaxGeneration]
NoBatch == [s \in {} |-> << >>]

\* Input segments: not empty and no longer than a batch.
Segment == UNION {[1 .. n -> Token] : n \in 1 .. BatchMax}
BatchInput == UNION {[S -> Segment] : S \in SUBSET Slot}

TypeOK ==
  /\ pool \in Pool
  /\ generation \in [Slot -> 0 .. MaxGeneration]
  /\ kv \in [Page -> [Offset -> Token \cup {NoRow}]]
  /\ imported \in [Slot -> Nat]
  /\ inputs = NoBatch \/ inputs \in BatchInput
  /\ ready \in SUBSET Slot

Init ==
  /\ pool = EmptyPool
  /\ generation = [s \in Slot |-> 0]
  /\ kv = [g \in Page |-> [o \in Offset |-> NoRow]]
  /\ imported = [s \in Slot |-> 0]
  /\ inputs = NoBatch
  /\ ready = {}

NoBatchRuns == inputs = NoBatch

\* validate_sequence
Valid(h) == pool.live[h.slot] /\ generation[h.slot] = h.generation

-----------------------------------------------------------------------------
AllocateSequence(s) ==
  /\ NoBatchRuns
  /\ IsFirstDead(pool, s)
  /\ generation[s] < MaxGeneration
  /\ pool' = Allocate(pool, s)
  /\ generation' = [generation EXCEPT ![s] = @ + 1]
  /\ imported' = [imported EXCEPT ![s] = 0]
  /\ UNCHANGED <<kv, inputs, ready>>

ReleaseSequence(h) ==
  /\ NoBatchRuns
  /\ Valid(h)
  /\ pool' = Release(pool, h.slot)
  /\ UNCHANGED <<generation, kv, imported, inputs, ready>>

ForkSequence(h, c) ==
  /\ NoBatchRuns
  /\ Valid(h)
  /\ imported[h.slot] = 0
  /\ IsFirstDead(pool, c)
  /\ generation[c] < MaxGeneration
  /\ pool' = Fork(pool, h.slot, c)
  /\ generation' = [generation EXCEPT ![c] = @ + 1]
  /\ imported' = [imported EXCEPT ![c] = 0]
  /\ UNCHANGED <<kv, inputs, ready>>

-----------------------------------------------------------------------------
\* Mutant: the rows of a shared page are not copied.
PreparedKvUncopied(s, end, new) == kv

\* prepare_sequence(s, end) with the pages new: what the pages store once the
\* shared tail is copied.
PreparedKv(s, end, new) ==
  IF Shared(pool, s, end)
  THEN [kv EXCEPT ![new[1]] = kv[pool.table[s][TailIndex(pool.past[s])]]]
  ELSE kv

\* The contents k of the pages after rows were stored behind the row start of
\* the sequence with this table.
StoreRows(k, table, start, rows) ==
  [g \in Page |-> [o \in Offset |->
     LET At == {r \in 1 .. Len(rows) :
                  /\ (start + r - 1) % PageTokens = o
                  /\ table[TailIndex(start + r - 1)] = g}
     IN  IF At = {} THEN k[g][o] ELSE rows[CHOOSE r \in At : TRUE]]]

\* prepare_sequence, then import_rows: the rows follow those already imported
\* and the position stays where it is.
ImportRows(h, rows) ==
  LET s == h.slot
      end == imported[s] + Len(rows)
  IN  /\ NoBatchRuns
      /\ Valid(h)
      /\ pool.past[s] = 0
      /\ PrepareOk(pool, s, end)
      /\ \E new \in Picks(pool.free, Needed(pool, s, end)) :
           /\ pool' = Prepare(pool, s, end, new)
           /\ kv' = StoreRows(PreparedKv(s, end, new), pool'.table[s],
                              imported[s], rows)
      /\ imported' = [imported EXCEPT ![s] = end]
      /\ UNCHANGED <<generation, inputs, ready>>

\* import_snapshot of a snapshot taken at the imported position.
ImportSnapshot(h) ==
  /\ NoBatchRuns
  /\ Valid(h)
  /\ imported[h.slot] > 0
  /\ pool' = MoveTo(pool, h.slot, imported[h.slot])
  /\ imported' = [imported EXCEPT ![h.slot] = 0]
  /\ UNCHANGED <<generation, kv, inputs, ready>>

\* restore_failed: the position is reset, the pages stay with the sequence.
RestoreFailed(h) ==
  /\ NoBatchRuns
  /\ Valid(h)
  /\ imported[h.slot] > 0
  /\ pool' = MoveTo(pool, h.slot, 0)
  /\ imported' = [imported EXCEPT ![h.slot] = 0]
  /\ UNCHANGED <<generation, kv, inputs, ready>>

-----------------------------------------------------------------------------
\* The position s reaches when the batch in has run.
EndOf(in, s) == pool.past[s] + Len(in[s])

\* The checks of forward_batch and its preflight.
BeginBatch(in) ==
  LET S == DOMAIN in
      ends == [s \in S |-> EndOf(in, s)]
  IN  /\ NoBatchRuns
      /\ S # {}
      /\ \A s \in S : pool.live[s] /\ imported[s] = 0
      /\ MapThenSumSet(LAMBDA s : Len(in[s]), S) <= BatchMax
      /\ BatchOk(pool, ends)
      /\ inputs' = in
      /\ ready' = {}
      /\ UNCHANGED <<pool, generation, kv, imported>>

PrepareNext(s) ==
  LET end == EndOf(inputs, s)
  IN  /\ s \in DOMAIN inputs \ ready
      /\ PrepareOk(pool, s, end)
      /\ \E new \in Picks(pool.free, Needed(pool, s, end)) :
           /\ pool' = Prepare(pool, s, end, new)
           /\ kv' = PreparedKv(s, end, new)
      /\ ready' = ready \cup {s}
      /\ UNCHANGED <<generation, imported, inputs>>

\* The slots of the batch that store a row at offset o of page g, and the
\* row each stores there.
RowAt(s, g, o) ==
  {r \in 1 .. Len(inputs[s]) :
     /\ (pool.past[s] + r - 1) % PageTokens = o
     /\ pool.table[s][TailIndex(pool.past[s] + r - 1)] = g}

Writers(g, o) == {s \in DOMAIN inputs : RowAt(s, g, o) # {}}

\* The workers store the K/V rows of all inputs, each through its own table
\* (one of the writers of a row wins), and the positions advance.
RunBatch ==
  /\ ~NoBatchRuns
  /\ ready = DOMAIN inputs
  /\ kv' = [g \in Page |-> [o \in Offset |->
              IF Writers(g, o) = {} THEN kv[g][o]
              ELSE LET s == CHOOSE w \in Writers(g, o) : TRUE
                   IN  inputs[s][CHOOSE r \in RowAt(s, g, o) : TRUE]]]
  /\ pool' = [pool EXCEPT !.past = [s \in Slot |->
                IF s \in DOMAIN inputs THEN EndOf(inputs, s) ELSE @[s]]]
  /\ inputs' = NoBatch
  /\ ready' = {}
  /\ UNCHANGED <<generation, imported>>

-----------------------------------------------------------------------------
Next ==
  \/ \E s \in Slot : AllocateSequence(s)
  \/ \E h \in Handle : ReleaseSequence(h)
  \/ \E h \in Handle, c \in Slot : ForkSequence(h, c)
  \/ \E h \in Handle, rows \in Segment : ImportRows(h, rows)
  \/ \E h \in Handle : ImportSnapshot(h)
  \/ \E h \in Handle : RestoreFailed(h)
  \/ \E in \in BatchInput : BeginBatch(in)
  \/ \E s \in DOMAIN inputs : PrepareNext(s)
  \/ RunBatch

Spec == Init /\ [][Next]_vars

-----------------------------------------------------------------------------
(***************************************************************************)
(* Correctness                                                             *)
(***************************************************************************)
\* The reference count of every page is the number of sequences whose table
\* holds it, and the free list is the pages nobody holds: whatever the order
\* of forks, copies and releases (Pages::retain, Pages::release), no page is
\* freed while a sequence reads it and none leaks.
RefsExact == RefsCounted(pool) /\ FreeCounted(pool)

\* No table holds a page twice, and it has a page for every valid row
\* (prepare_sequence appends and replaces entries of the table).
TablesSound == TablesDistinct(pool) /\ TablesCover(pool)

\* "the append tail is private" (prepare_sequence): once an input of a batch
\* is prepared, every page its rows will be stored in belongs to that
\* sequence alone, so that parallel workers never store into a page that
\* another sequence reads.
WritesPrivate == \A s \in ready : PrivateFrom(pool, s, TailIndex(pool.past[s]))

\* "a failed batch cannot partly allocate" (forward_batch): after the
\* preflight every prepare_sequence of the batch finds the pages it needs,
\* although each takes pages the others counted.
PreflightSuffices ==
  \A s \in DOMAIN inputs \ ready : PrepareOk(pool, s, EndOf(inputs, s))

\* The preflight counts exactly: each prepare_sequence takes from the free
\* list what it takes off the need of the inputs that remain, so a batch is
\* never refused for pages it would not have used.
Remaining(p, in, done) ==
  BatchNeed(p, [s \in DOMAIN in \ done |-> p.past[s] + Len(in[s])])

PreflightExact ==
  [][ready' # ready /\ ready' # {}
     => Remaining(pool, inputs, ready) - Remaining(pool', inputs', ready')
        = Cardinality(pool.free) - Cardinality(pool'.free)]_vars

\* The sequences, as their callers know them: each handle's own text.
Read(s, n) ==
  [r \in 1 .. n |-> kv[pool.table[s][TailIndex(r - 1)]][(r - 1) % PageTokens]]

StatusOf(h) ==
  IF h.generation > generation[h.slot] THEN "unborn"
  ELSE IF Valid(h) THEN "open" ELSE "closed"

TextOf(h) == IF Valid(h) THEN Read(h.slot, pool.past[h.slot]) ELSE << >>

Independent == INSTANCE IndependentSequences
                 WITH status <- [h \in Handle |-> StatusOf(h)],
                      text <- [h \in Handle |-> TextOf(h)]

\* Sharing pages, copying them on write and reusing them is invisible: every
\* handle reads exactly the rows that were appended through it or its
\* ancestors, and a released handle never becomes valid again.
ImplementsIndependent == Independent!Spec
=============================================================================
