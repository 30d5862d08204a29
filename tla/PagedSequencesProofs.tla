------------------------ MODULE PagedSequencesProofs ------------------------
(***************************************************************************)
(* PagedSequences keeps its types and its pool sound, for every number of   *)
(* slots and pages, every page size, vocabulary and batch size.             *)
(*                                                                         *)
(* The inductive invariant adds to the soundness of the pool what the        *)
(* operations of more than one call leave between the calls: a restore has   *)
(* its rows' pages although the position still is 0, and every prepared      *)
(* input of a batch has the pages of its rows, its own from the tail on.     *)
(***************************************************************************)
EXTENDS PagedSequences, SequencePoolProofs

RestoreInv ==
  \A s \in Slot : pool.live[s] /\ imported[s] > 0
                  => /\ pool.past[s] = 0
                     /\ PagesFor(imported[s]) <= Len(pool.table[s])

BatchInv ==
  /\ ready \subseteq DOMAIN inputs
  /\ \A s \in DOMAIN inputs : pool.live[s] /\ imported[s] = 0

Prepared(p, s, end) ==
  /\ PagesFor(end) <= Len(p.table[s])
  /\ PrivateFrom(p, s, TailIndex(p.past[s]))

ReadyInv == \A s \in ready : Prepared(pool, s, EndOf(inputs, s))

IInv == TypeOK /\ PoolInv(pool) /\ RestoreInv /\ BatchInv /\ ReadyInv

-----------------------------------------------------------------------------
(***************************************************************************)
(* Types                                                                   *)
(***************************************************************************)
LEMMA SegmentFacts ==
  ASSUME NEW seg \in Segment
  PROVE  /\ seg \in Seq(Token)
         /\ Len(seg) \in Nat /\ Len(seg) > 0
         /\ DOMAIN seg = 1 .. Len(seg)
<1>1. PICK n \in 1 .. BatchMax : seg \in [1 .. n -> Token]
  BY DEF Segment
<1>2. n \in Nat /\ n > 0
  BY <1>1, BatchMaxAssumption
<1> QED
  BY <1>1, <1>2

LEMMA InputFacts ==
  ASSUME inputs = NoBatch \/ inputs \in BatchInput
  PROVE  /\ DOMAIN inputs \subseteq Slot
         /\ \A s \in DOMAIN inputs : inputs[s] \in Segment
  BY DEF NoBatch, BatchInput

LEMMA HandleSlot ==
  ASSUME NEW h \in Handle
  PROVE  h.slot \in Slot
  BY DEF Handle

\* The copied page brings rows of the same kind.
LEMMA PreparedKvType ==
  ASSUME TypeOK, NEW s \in Slot, NEW end \in Nat, NEW new
  PROVE  PreparedKv(s, end, new) \in [Page -> [Offset -> Token \cup {NoRow}]]
<1>1. CASE Shared(pool, s, end)
  <2> DEFINE tail == TailIndex(pool.past[s])
  <2>1. pool.table[s] \in Seq(Page) /\ pool.past[s] \in Nat
    BY PoolFields DEF TypeOK
  <2>2. tail \in Nat \ {0} /\ tail <= Len(pool.table[s])
    BY <1>1, <2>1, PagesForType DEF Shared
  <2> HIDE DEF tail
  <2>3. pool.table[s][tail] \in Page
    BY <2>1, <2>2
  <2>4. kv[pool.table[s][tail]] \in [Offset -> Token \cup {NoRow}]
    BY <2>3 DEF TypeOK
  <2> QED
    BY <1>1, <2>4 DEF TypeOK, PreparedKv, tail
<1>2. CASE ~Shared(pool, s, end)
  BY <1>2 DEF TypeOK, PreparedKv
<1> QED
  BY <1>1, <1>2

LEMMA StoreRowsType ==
  ASSUME NEW k \in [Page -> [Offset -> Token \cup {NoRow}]],
         NEW table, NEW start, NEW rows \in Segment
  PROVE  StoreRows(k, table, start, rows) \in [Page -> [Offset -> Token \cup {NoRow}]]
<1> SUFFICES ASSUME NEW g \in Page, NEW o \in Offset
             PROVE  StoreRows(k, table, start, rows)[g][o] \in Token \cup {NoRow}
  BY DEF StoreRows
<1> DEFINE At == {r \in 1 .. Len(rows) :
                    /\ (start + r - 1) % PageTokens = o
                    /\ table[TailIndex(start + r - 1)] = g}
<1>1. StoreRows(k, table, start, rows)[g][o]
        = IF At = {} THEN k[g][o] ELSE rows[CHOOSE r \in At : TRUE]
  BY DEF StoreRows
<1>2. At \subseteq 1 .. Len(rows)
  OBVIOUS
<1> HIDE DEF At
<1>3. At # {} => (CHOOSE r \in At : TRUE) \in 1 .. Len(rows)
  BY <1>2
<1>4. \A r \in 1 .. Len(rows) : rows[r] \in Token
  BY SegmentFacts
<1> QED
  BY <1>1, <1>3, <1>4

-----------------------------------------------------------------------------
(***************************************************************************)
(* The inductive invariant                                                 *)
(***************************************************************************)
LEMMA InitInv == Init => IInv
<1> SUFFICES ASSUME Init PROVE IInv
  OBVIOUS
<1>1. pool \in Pool /\ PoolInv(pool)
  BY EmptyPoolSound DEF Init
<1>2. DOMAIN inputs = {} /\ ready = {}
  BY DEF Init, NoBatch
<1>3. TypeOK
  BY <1>1, GenerationAssumption DEF Init, TypeOK
<1> QED
  BY <1>1, <1>2, <1>3
     DEF Init, IInv, RestoreInv, BatchInv, ReadyInv, EmptyPool

\* What IInv says, in the form the steps use it.
LEMMA InvFacts ==
  ASSUME IInv
  PROVE  /\ pool \in Pool /\ PoolInv(pool)
         /\ generation \in [Slot -> 0 .. MaxGeneration]
         /\ kv \in [Page -> [Offset -> Token \cup {NoRow}]]
         /\ imported \in [Slot -> Nat]
         /\ inputs = NoBatch \/ inputs \in BatchInput
         /\ DOMAIN inputs \subseteq Slot
         /\ \A s \in DOMAIN inputs : inputs[s] \in Segment
         /\ ready \subseteq DOMAIN inputs
  BY InputFacts DEF IInv, TypeOK, BatchInv

\* Between batches nothing is prepared.
LEMMA NoBatchFacts ==
  ASSUME IInv, NoBatchRuns
  PROVE  inputs = NoBatch /\ DOMAIN inputs = {} /\ ready = {}
  BY InvFacts DEF NoBatchRuns, NoBatch

\* A step between batches that starts none.
LEMMA IdleStep ==
  ASSUME IInv, NoBatchRuns, UNCHANGED <<inputs, ready>>,
         pool' \in Pool, PoolInv(pool'),
         generation' \in [Slot -> 0 .. MaxGeneration],
         kv' \in [Page -> [Offset -> Token \cup {NoRow}]],
         imported' \in [Slot -> Nat],
         RestoreInv'
  PROVE  IInv'
<1>1. TypeOK'
  BY NoBatchFacts DEF TypeOK
<1>2. BatchInv' /\ ReadyInv'
  BY NoBatchFacts DEF BatchInv, ReadyInv
<1> QED
  BY <1>1, <1>2 DEF IInv

LEMMA AllocateStep ==
  ASSUME IInv, NEW s \in Slot, AllocateSequence(s)
  PROVE  IInv'
<1>1. /\ NoBatchRuns /\ IsFirstDead(pool, s) /\ pool' = Allocate(pool, s)
      /\ generation' = [generation EXCEPT ![s] = @ + 1]
      /\ generation[s] < MaxGeneration
      /\ imported' = [imported EXCEPT ![s] = 0]
      /\ UNCHANGED <<kv, inputs, ready>>
  BY DEF AllocateSequence
<1>2. pool' \in Pool /\ PoolInv(pool')
  BY <1>1, AllocateSound, InvFacts
<1>3. generation' \in [Slot -> 0 .. MaxGeneration]
  BY <1>1, InvFacts, GenerationAssumption
<1>4. imported' \in [Slot -> Nat]
  BY <1>1, InvFacts
<1>5. RestoreInv'
  <2> SUFFICES ASSUME NEW t \in Slot, pool'.live[t], imported'[t] > 0
               PROVE  pool'.past[t] = 0 /\ PagesFor(imported'[t]) <= Len(pool'.table[t])
    BY DEF RestoreInv
  <2>1. t # s
    BY <1>1, InvFacts
  <2>2. /\ pool'.live[t] = pool.live[t] /\ pool'.past[t] = pool.past[t]
        /\ pool'.table = pool.table /\ imported'[t] = imported[t]
    BY <2>1, <1>1, InvFacts, PoolFields DEF Allocate
  <2> QED
    BY <2>2 DEF IInv, RestoreInv
<1> QED
  BY <1>1, <1>2, <1>3, <1>4, <1>5, IdleStep, InvFacts

LEMMA ReleaseStep ==
  ASSUME IInv, NEW h \in Handle, ReleaseSequence(h)
  PROVE  IInv'
<1>1. PICK s \in Slot : s = h.slot
  BY HandleSlot
<1>2. /\ NoBatchRuns /\ pool' = Release(pool, s)
      /\ UNCHANGED <<generation, kv, imported, inputs, ready>>
  BY <1>1 DEF ReleaseSequence
<1>3. pool' \in Pool /\ PoolInv(pool')
  BY <1>2, ReleaseSound, InvFacts
<1>4. RestoreInv'
  <2> SUFFICES ASSUME NEW t \in Slot, pool'.live[t], imported'[t] > 0
               PROVE  pool'.past[t] = 0 /\ PagesFor(imported'[t]) <= Len(pool'.table[t])
    BY DEF RestoreInv
  <2>1. t # s
    BY <1>2, InvFacts, PoolFields DEF Release
  <2>2. /\ pool'.live[t] = pool.live[t] /\ pool'.past[t] = pool.past[t]
        /\ pool'.table[t] = pool.table[t]
    BY <2>1, <1>2, InvFacts, PoolFields DEF Release
  <2> QED
    BY <2>2, <1>2 DEF IInv, RestoreInv
<1> QED
  BY <1>2, <1>3, <1>4, IdleStep, InvFacts

LEMMA ForkStep ==
  ASSUME IInv, NEW h \in Handle, NEW c \in Slot, ForkSequence(h, c)
  PROVE  IInv'
<1>1. PICK s \in Slot : s = h.slot
  BY HandleSlot
<1>2. /\ NoBatchRuns /\ pool.live[s] /\ IsFirstDead(pool, c)
      /\ pool' = Fork(pool, s, c)
      /\ generation' = [generation EXCEPT ![c] = @ + 1]
      /\ generation[c] < MaxGeneration
      /\ imported' = [imported EXCEPT ![c] = 0]
      /\ UNCHANGED <<kv, inputs, ready>>
  BY <1>1 DEF ForkSequence, Valid
<1>3. pool' \in Pool /\ PoolInv(pool')
  BY <1>2, ForkSound, InvFacts
<1>4. generation' \in [Slot -> 0 .. MaxGeneration]
  BY <1>2, InvFacts, GenerationAssumption
<1>5. imported' \in [Slot -> Nat]
  BY <1>2, InvFacts
<1>6. RestoreInv'
  <2> SUFFICES ASSUME NEW t \in Slot, pool'.live[t], imported'[t] > 0
               PROVE  pool'.past[t] = 0 /\ PagesFor(imported'[t]) <= Len(pool'.table[t])
    BY DEF RestoreInv
  <2>1. t # c
    BY <1>2, InvFacts
  <2>2. /\ pool'.live[t] = pool.live[t] /\ pool'.past[t] = pool.past[t]
        /\ pool'.table[t] = pool.table[t] /\ imported'[t] = imported[t]
    BY <2>1, <1>2, InvFacts, PoolFields DEF Fork
  <2> QED
    BY <2>2 DEF IInv, RestoreInv
<1> QED
  BY <1>2, <1>3, <1>4, <1>5, <1>6, IdleStep, InvFacts

LEMMA ImportRowsStep ==
  ASSUME IInv, NEW h \in Handle, NEW rows \in Segment, ImportRows(h, rows)
  PROVE  IInv'
<1>1. PICK s \in Slot : s = h.slot
  BY HandleSlot
<1> DEFINE end == imported[s] + Len(rows)
<1>2. end \in Nat
  BY InvFacts, SegmentFacts
<1> HIDE DEF end
<1>3. /\ NoBatchRuns /\ pool.live[s] /\ pool.past[s] = 0
      /\ imported' = [imported EXCEPT ![s] = end]
      /\ UNCHANGED <<generation, inputs, ready>>
  BY <1>1 DEF ImportRows, Valid, end
<1>4. PICK new \in Picks(pool.free, Needed(pool, s, end)) :
        /\ pool' = Prepare(pool, s, end, new)
        /\ kv' = StoreRows(PreparedKv(s, end, new), pool'.table[s], imported[s], rows)
  BY <1>1 DEF ImportRows, end
<1>5. /\ pool' \in Pool /\ PoolInv(pool')
      /\ pool'.live = pool.live /\ pool'.past = pool.past
      /\ PagesFor(end) <= Len(pool'.table[s])
      /\ OthersKept(pool, pool', s)
  BY <1>2, <1>3, <1>4, PrepareSound, InvFacts
<1>6. kv' \in [Page -> [Offset -> Token \cup {NoRow}]]
  BY <1>2, <1>4, PreparedKvType, StoreRowsType DEF IInv
<1>7. imported' \in [Slot -> Nat]
  BY <1>2, <1>3, InvFacts
<1>8. RestoreInv'
  <2> SUFFICES ASSUME NEW t \in Slot, pool'.live[t], imported'[t] > 0
               PROVE  pool'.past[t] = 0 /\ PagesFor(imported'[t]) <= Len(pool'.table[t])
    BY DEF RestoreInv
  <2>1. CASE t = s
    BY <2>1, <1>3, <1>5, InvFacts
  <2>2. CASE t # s
    <3>1. pool'.table[t] = pool.table[t] /\ imported'[t] = imported[t]
      BY <2>2, <1>3, <1>5, InvFacts DEF OthersKept
    <3> QED
      BY <3>1, <1>5 DEF IInv, RestoreInv
  <2> QED
    BY <2>1, <2>2
<1> QED
  BY <1>3, <1>5, <1>6, <1>7, <1>8, IdleStep, InvFacts

\* The position moves within the rows of the restore.
LEMMA MoveStep ==
  ASSUME IInv, NEW s \in Slot, NEW n \in Nat, NoBatchRuns,
         pool.live[s], imported[s] > 0, n <= imported[s],
         pool' = MoveTo(pool, s, n),
         imported' = [imported EXCEPT ![s] = 0],
         UNCHANGED <<generation, kv, inputs, ready>>
  PROVE  IInv'
<1>1. /\ imported[s] \in Nat /\ pool.past[s] = 0
      /\ PagesFor(imported[s]) <= Len(pool.table[s])
  BY InvFacts DEF IInv, RestoreInv
<1>2. PagesFor(n) <= Len(pool.table[s])
  <2>1. PagesFor(n) <= PagesFor(imported[s])
    BY <1>1, PagesForMonotonic
  <2>2. Len(pool.table[s]) \in Nat /\ PagesFor(n) \in Nat /\ PagesFor(imported[s]) \in Nat
    BY <1>1, PagesForType, PagesInPage, InvFacts
  <2> QED
    BY <2>1, <2>2, <1>1
<1>3. PrivateFrom(pool, s, PagesFor(n) + 1)
  <2>1. PrivateFrom(pool, s, 0 + 1)
    BY <1>1, PagesForZero DEF IInv, PoolInv, SparePrivate
  <2>2. 0 + 1 \in Nat /\ PagesFor(n) + 1 \in Nat /\ 0 + 1 <= PagesFor(n) + 1
    BY PagesForType
  <2> QED
    BY <2>1, <2>2, PrivateLater, InvFacts
<1>4. pool' \in Pool /\ PoolInv(pool')
  BY <1>2, <1>3, MoveToSound, InvFacts
<1>5. imported' \in [Slot -> Nat]
  BY InvFacts
<1>6. RestoreInv'
  <2> SUFFICES ASSUME NEW t \in Slot, pool'.live[t], imported'[t] > 0
               PROVE  pool'.past[t] = 0 /\ PagesFor(imported'[t]) <= Len(pool'.table[t])
    BY DEF RestoreInv
  <2>1. t # s
    BY InvFacts
  <2>2. /\ pool'.live[t] = pool.live[t] /\ pool'.past[t] = pool.past[t]
        /\ pool'.table[t] = pool.table[t] /\ imported'[t] = imported[t]
    BY <2>1, InvFacts, PoolFields DEF MoveTo, Pool
  <2> QED
    BY <2>2 DEF IInv, RestoreInv
<1> QED
  BY <1>4, <1>5, <1>6, IdleStep, InvFacts

LEMMA ImportSnapshotStep ==
  ASSUME IInv, NEW h \in Handle, ImportSnapshot(h)
  PROVE  IInv'
<1>1. PICK s \in Slot : s = h.slot
  BY HandleSlot
<1>2. imported[s] \in Nat /\ imported[s] <= imported[s]
  BY InvFacts
<1>3. /\ NoBatchRuns /\ pool.live[s] /\ imported[s] > 0
      /\ pool' = MoveTo(pool, s, imported[s])
      /\ imported' = [imported EXCEPT ![s] = 0]
      /\ UNCHANGED <<generation, kv, inputs, ready>>
  BY <1>1 DEF ImportSnapshot, Valid
<1> QED
  BY <1>2, <1>3, MoveStep

LEMMA RestoreFailedStep ==
  ASSUME IInv, NEW h \in Handle, RestoreFailed(h)
  PROVE  IInv'
<1>1. PICK s \in Slot : s = h.slot
  BY HandleSlot
<1>2. 0 \in Nat /\ 0 <= imported[s]
  BY InvFacts
<1>3. /\ NoBatchRuns /\ pool.live[s] /\ imported[s] > 0
      /\ pool' = MoveTo(pool, s, 0)
      /\ imported' = [imported EXCEPT ![s] = 0]
      /\ UNCHANGED <<generation, kv, inputs, ready>>
  BY <1>1 DEF RestoreFailed, Valid
<1> QED
  BY <1>2, <1>3, MoveStep

LEMMA BeginStep ==
  ASSUME IInv, NEW in \in BatchInput, BeginBatch(in)
  PROVE  IInv'
<1>1. /\ \A s \in DOMAIN in : pool.live[s] /\ imported[s] = 0
      /\ inputs' = in /\ ready' = {}
      /\ UNCHANGED <<pool, generation, kv, imported>>
  BY DEF BeginBatch
<1>2. TypeOK'
  BY <1>1 DEF IInv, TypeOK
<1>3. BatchInv' /\ ReadyInv'
  BY <1>1 DEF BatchInv, ReadyInv
<1> QED
  BY <1>1, <1>2, <1>3 DEF IInv, RestoreInv

LEMMA PrepareStep ==
  ASSUME IInv, NEW s \in DOMAIN inputs, PrepareNext(s)
  PROVE  IInv'
<1>1. /\ s \in Slot /\ pool.live[s] /\ imported[s] = 0
      /\ Len(inputs[s]) \in Nat /\ Len(inputs[s]) > 0
      /\ pool.past[s] \in Nat
  BY InvFacts, SegmentFacts, PoolFields DEF IInv, BatchInv
<1> DEFINE end == EndOf(inputs, s)
<1>2. end \in Nat /\ end > pool.past[s]
  BY <1>1 DEF EndOf
<1> HIDE DEF end
<1>3. PICK new \in Picks(pool.free, Needed(pool, s, end)) :
        /\ pool' = Prepare(pool, s, end, new)
        /\ kv' = PreparedKv(s, end, new)
  BY DEF PrepareNext, end
<1>4. ready' = ready \cup {s} /\ UNCHANGED <<generation, imported, inputs>>
  BY DEF PrepareNext
<1>5. /\ pool' \in Pool /\ PoolInv(pool')
      /\ pool'.live = pool.live /\ pool'.past = pool.past
      /\ PagesFor(end) <= Len(pool'.table[s])
      /\ OthersKept(pool, pool', s)
      /\ PrivateFrom(pool', s, TailIndex(pool.past[s]))
  BY <1>1, <1>2, <1>3, PrepareSound, InvFacts
<1>6. kv' \in [Page -> [Offset -> Token \cup {NoRow}]]
  BY <1>1, <1>2, <1>3, PreparedKvType DEF IInv
<1>7. TypeOK'
  <2>1. ready' \in SUBSET Slot
    BY <1>1, <1>4, InvFacts
  <2> QED
    BY <2>1, <1>4, <1>5, <1>6, InvFacts DEF TypeOK
<1>8. RestoreInv'
  <2> SUFFICES ASSUME NEW t \in Slot, pool'.live[t], imported'[t] > 0
               PROVE  pool'.past[t] = 0 /\ PagesFor(imported'[t]) <= Len(pool'.table[t])
    BY DEF RestoreInv
  <2>1. t # s /\ imported'[t] = imported[t]
    BY <1>1, <1>4
  <2>2. pool'.table[t] = pool.table[t]
    BY <2>1, <1>5 DEF OthersKept
  <2> QED
    BY <2>1, <2>2, <1>5 DEF IInv, RestoreInv
<1>9. BatchInv'
  BY <1>1, <1>4, <1>5, InvFacts DEF IInv, BatchInv
<1>10. ReadyInv'
  <2> SUFFICES ASSUME NEW t \in ready'
               PROVE  Prepared(pool', t, EndOf(inputs, t)')
    BY DEF ReadyInv
  <2>1. EndOf(inputs, t)' = EndOf(inputs, t)
    BY <1>4, <1>5 DEF EndOf
  <2>2. CASE t = s
    BY <2>1, <2>2, <1>5 DEF Prepared, end
  <2>3. CASE t # s
    <3>1. t \in ready /\ t \in Slot
      BY <2>3, <1>4, InvFacts
    <3>2. Prepared(pool, t, EndOf(inputs, t))
      BY <3>1 DEF IInv, ReadyInv
    <3> QED
      BY <3>1, <3>2, <2>1, <2>3, <1>5 DEF Prepared, OthersKept
  <2> QED
    BY <2>2, <2>3
<1> QED
  BY <1>5, <1>7, <1>8, <1>9, <1>10 DEF IInv

LEMMA RunStep ==
  ASSUME IInv, RunBatch
  PROVE  IInv'
<1> DEFINE moved == [s \in Slot |-> IF s \in DOMAIN inputs THEN EndOf(inputs, s)
                                                           ELSE pool.past[s]]
<1>1. /\ ready = DOMAIN inputs
      /\ pool' = [pool EXCEPT !.past = moved]
      /\ inputs' = NoBatch /\ ready' = {}
      /\ UNCHANGED <<generation, imported>>
  BY InvFacts DEF RunBatch, Pool
<1>2. \A s \in Slot : pool.past[s] \in Nat
  BY InvFacts, PoolFields
<1>3. \A s \in DOMAIN inputs : /\ s \in Slot
                               /\ EndOf(inputs, s) \in Nat
                               /\ EndOf(inputs, s) > pool.past[s]
  <2> SUFFICES ASSUME NEW s \in DOMAIN inputs
               PROVE  /\ s \in Slot
                      /\ EndOf(inputs, s) \in Nat
                      /\ EndOf(inputs, s) > pool.past[s]
    OBVIOUS
  <2>1. s \in Slot /\ Len(inputs[s]) \in Nat /\ Len(inputs[s]) > 0
    BY InvFacts, SegmentFacts
  <2> QED
    BY <2>1, <1>2 DEF EndOf
<1>4. moved \in [Slot -> Nat]
  BY <1>2, <1>3
<1>5. \A s \in Slot : moved[s] = IF s \in DOMAIN inputs THEN EndOf(inputs, s)
                                                       ELSE pool.past[s]
  OBVIOUS
<1> HIDE DEF moved
<1>6. \A s \in DOMAIN inputs : Prepared(pool, s, EndOf(inputs, s))
  BY <1>1 DEF IInv, ReadyInv
<1>7. \A s \in Slot : pool.live[s] => PagesFor(moved[s]) <= Len(pool.table[s])
  BY <1>5, <1>6 DEF IInv, PoolInv, TablesCover, Prepared
<1>8. \A s \in Slot : PrivateFrom(pool, s, PagesFor(moved[s]) + 1)
  <2> SUFFICES ASSUME NEW s \in Slot
               PROVE  PrivateFrom(pool, s, PagesFor(moved[s]) + 1)
    OBVIOUS
  <2>1. CASE s \in DOMAIN inputs
    <3>1. /\ EndOf(inputs, s) \in Nat /\ pool.past[s] \in Nat
          /\ pool.past[s] < EndOf(inputs, s)
      BY <2>1, <1>2, <1>3
    <3>2. TailIndex(pool.past[s]) <= PagesFor(EndOf(inputs, s))
      BY <3>1, TailWithin
    <3>3. TailIndex(pool.past[s]) \in Nat /\ PagesFor(EndOf(inputs, s)) \in Nat
      BY <3>1, PagesForType
    <3>4. PrivateFrom(pool, s, TailIndex(pool.past[s]))
      BY <2>1, <1>6 DEF Prepared
    <3>5. PrivateFrom(pool, s, PagesFor(EndOf(inputs, s)) + 1)
      <4>1. /\ PagesFor(EndOf(inputs, s)) + 1 \in Nat
            /\ TailIndex(pool.past[s]) <= PagesFor(EndOf(inputs, s)) + 1
        BY <3>2, <3>3
      <4> QED
        BY <3>3, <3>4, <4>1, PrivateLater, InvFacts
    <3> QED
      BY <2>1, <3>5, <1>5
  <2>2. CASE s \notin DOMAIN inputs
    BY <2>2, <1>5 DEF IInv, PoolInv, SparePrivate
  <2> QED
    BY <2>1, <2>2
<1>9. pool' \in Pool /\ PoolInv(pool')
  BY <1>1, <1>4, <1>7, <1>8, MoveAllSound, InvFacts
<1>10. kv' \in [Page -> [Offset -> Token \cup {NoRow}]]
  <2> DEFINE row(g, o) ==
        IF Writers(g, o) = {} THEN kv[g][o]
        ELSE LET s == CHOOSE w \in Writers(g, o) : TRUE
             IN  inputs[s][CHOOSE r \in RowAt(s, g, o) : TRUE]
  <2>1. kv' = [g \in Page |-> [o \in Offset |-> row(g, o)]]
    BY DEF RunBatch
  <2>2. ASSUME NEW g \in Page, NEW o \in Offset
        PROVE  row(g, o) \in Token \cup {NoRow}
    <3>1. CASE Writers(g, o) = {}
      BY <3>1, InvFacts
    <3>2. CASE Writers(g, o) # {}
      <4>1. PICK s : s = CHOOSE w \in Writers(g, o) : TRUE
        OBVIOUS
      <4>2. s \in DOMAIN inputs /\ RowAt(s, g, o) # {}
        BY <3>2, <4>1 DEF Writers
      <4>3. PICK r : r = CHOOSE x \in RowAt(s, g, o) : TRUE
        OBVIOUS
      <4>4. r \in 1 .. Len(inputs[s])
        BY <4>2, <4>3 DEF RowAt
      <4>5. inputs[s][r] \in Token
        BY <4>2, <4>4, InvFacts, SegmentFacts
      <4> QED
        BY <3>2, <4>1, <4>3, <4>5
    <3> QED
      BY <3>1, <3>2
  <2> HIDE DEF row
  <2> QED
    BY <2>1, <2>2
<1>11. TypeOK'
  BY <1>1, <1>9, <1>10, InvFacts DEF TypeOK
<1>12. RestoreInv'
  <2> SUFFICES ASSUME NEW t \in Slot, pool'.live[t], imported'[t] > 0
               PROVE  pool'.past[t] = 0 /\ PagesFor(imported'[t]) <= Len(pool'.table[t])
    BY DEF RestoreInv
  <2>1. pool'.live = pool.live /\ pool'.table = pool.table /\ pool'.past = moved
    BY <1>1, InvFacts DEF Pool
  <2>2. t \notin DOMAIN inputs
    BY <1>1 DEF IInv, BatchInv
  <2> QED
    BY <2>1, <2>2, <1>1, <1>5 DEF IInv, RestoreInv
<1>13. BatchInv' /\ ReadyInv'
  BY <1>1 DEF BatchInv, ReadyInv, NoBatch
<1> QED
  BY <1>9, <1>11, <1>12, <1>13 DEF IInv

LEMMA StutterStep ==
  ASSUME IInv, UNCHANGED vars
  PROVE  IInv'
  BY DEF IInv, TypeOK, RestoreInv, BatchInv, ReadyInv, EndOf, vars

LEMMA NextInv == IInv /\ [Next]_vars => IInv'
<1> SUFFICES ASSUME IInv, [Next]_vars PROVE IInv'
  OBVIOUS
<1>1. CASE \E s \in Slot : AllocateSequence(s)
  BY <1>1, AllocateStep
<1>2. CASE \E h \in Handle : ReleaseSequence(h)
  BY <1>2, ReleaseStep
<1>3. CASE \E h \in Handle, c \in Slot : ForkSequence(h, c)
  BY <1>3, ForkStep
<1>4. CASE \E h \in Handle, rows \in Segment : ImportRows(h, rows)
  BY <1>4, ImportRowsStep
<1>5. CASE \E h \in Handle : ImportSnapshot(h)
  BY <1>5, ImportSnapshotStep
<1>6. CASE \E h \in Handle : RestoreFailed(h)
  BY <1>6, RestoreFailedStep
<1>7. CASE \E in \in BatchInput : BeginBatch(in)
  BY <1>7, BeginStep
<1>8. CASE \E s \in DOMAIN inputs : PrepareNext(s)
  BY <1>8, PrepareStep
<1>9. CASE RunBatch
  BY <1>9, RunStep
<1>10. CASE UNCHANGED vars
  BY <1>10, StutterStep
<1> QED
  BY <1>1, <1>2, <1>3, <1>4, <1>5, <1>6, <1>7, <1>8, <1>9, <1>10 DEF Next

\* The invariant of the sequences.
THEOREM Inductive == Spec => []IInv
<1>1. Init => IInv
  BY InitInv
<1>2. IInv /\ [Next]_vars => IInv'
  BY NextInv
<1> QED
  BY <1>1, <1>2, PTL DEF Spec

-----------------------------------------------------------------------------
(***************************************************************************)
(* What follows from it                                                    *)
(***************************************************************************)
\* Every operation of crates/tr-model/src/sequence.rs keeps the types.
THEOREM TypeCorrect == Spec => []TypeOK
<1>1. IInv => TypeOK
  BY DEF IInv
<1> QED
  BY <1>1, Inductive, PTL

\* A page's reference count is the number of tables that hold it and the free
\* list is the pages nobody holds (Pages::retain, take and release).
THEOREM RefsAlwaysExact == Spec => []RefsExact
<1>1. IInv => RefsExact
  BY DEF IInv, PoolInv, RefsExact
<1> QED
  BY <1>1, Inductive, PTL

\* No table holds a page twice, and every valid row has its page
\* (prepare_sequence).
THEOREM TablesAlwaysSound == Spec => []TablesSound
<1>1. IInv => TablesSound
  BY DEF IInv, PoolInv, TablesSound
<1> QED
  BY <1>1, Inductive, PTL

\* When a batch runs, the pages its rows are stored in belong to one sequence
\* each: "the append tail is private" (prepare_sequence).
THEOREM WritesAlwaysPrivate == Spec => []WritesPrivate
<1>1. IInv => WritesPrivate
  BY DEF IInv, ReadyInv, Prepared, WritesPrivate
<1> QED
  BY <1>1, Inductive, PTL

-----------------------------------------------------------------------------
(***************************************************************************)
(* The preflight                                                           *)
(*                                                                         *)
(* While a batch is prepared, what its remaining members need fits in the    *)
(* free list: BeginBatch checks it for all of them, and each prepare takes   *)
(* from the free list exactly what it takes off the need (PrepareNeed).      *)
(***************************************************************************)
Reserved ==
  ~NoBatchRuns => /\ \A s \in DOMAIN inputs : EndOf(inputs, s) <= Ctx
                  /\ Remaining(pool, inputs, ready) <= Cardinality(pool.free)

\* The ends of the remaining members, as the lemmas on pools take them.
LEMMA RemainingFacts ==
  ASSUME IInv
  PROVE  /\ DOMAIN inputs \ ready \in SUBSET Slot
         /\ [s \in DOMAIN inputs \ ready |-> pool.past[s] + Len(inputs[s])]
              \in [DOMAIN inputs \ ready -> Nat]
         /\ \A s \in DOMAIN inputs :
              /\ s \in Slot /\ pool.live[s]
              /\ EndOf(inputs, s) = pool.past[s] + Len(inputs[s])
              /\ EndOf(inputs, s) \in Nat /\ EndOf(inputs, s) > pool.past[s]
<1> SUFFICES ASSUME NEW s \in DOMAIN inputs
             PROVE  /\ s \in Slot /\ pool.live[s]
                    /\ pool.past[s] + Len(inputs[s]) \in Nat
                    /\ pool.past[s] + Len(inputs[s]) > pool.past[s]
  BY InvFacts DEF EndOf
<1>1. s \in Slot /\ Len(inputs[s]) \in Nat /\ Len(inputs[s]) > 0
  BY InvFacts, SegmentFacts
<1>2. pool.past[s] \in Nat
  BY <1>1, InvFacts, PoolFields
<1> QED
  BY <1>1, <1>2 DEF IInv, BatchInv

\* A prepare takes exactly its part of the need from the free list.
LEMMA PrepareTakes ==
  ASSUME IInv, NEW s \in DOMAIN inputs, PrepareNext(s)
  PROVE  /\ Remaining(pool, inputs, ready) - Remaining(pool', inputs', ready')
              = Cardinality(pool.free) - Cardinality(pool'.free)
         /\ Remaining(pool, inputs, ready) \in Int
         /\ Remaining(pool', inputs', ready') \in Int
         /\ Cardinality(pool.free) \in Int /\ Cardinality(pool'.free) \in Int
<1> DEFINE S == DOMAIN inputs \ ready
           ends == [t \in S |-> pool.past[t] + Len(inputs[t])]
           rest == [t \in S \ {s} |-> ends[t]]
<1>1. /\ S \in SUBSET Slot /\ ends \in [S -> Nat]
      /\ s \in Slot /\ pool.live[s] /\ EndOf(inputs, s) = pool.past[s] + Len(inputs[s])
      /\ EndOf(inputs, s) \in Nat /\ EndOf(inputs, s) > pool.past[s]
  BY RemainingFacts
<1>2. /\ s \in S /\ ready' = ready \cup {s} /\ inputs' = inputs
      /\ \E new \in Picks(pool.free, Needed(pool, s, EndOf(inputs, s))) :
           pool' = Prepare(pool, s, EndOf(inputs, s), new)
  BY DEF PrepareNext
<1>3. ends[s] = EndOf(inputs, s)
  BY <1>1, <1>2
<1>4. PICK new \in Picks(pool.free, Needed(pool, s, ends[s])) :
        pool' = Prepare(pool, s, ends[s], new)
  BY <1>2, <1>3
<1>5. pool \in Pool /\ PoolInv(pool)
  BY InvFacts
<1>6. pool'.past = pool.past /\ pool' \in Pool /\ PoolInv(pool')
  BY <1>1, <1>3, <1>4, <1>5, PrepareSound
<1>7. Remaining(pool, inputs, ready) = BatchNeed(pool, ends)
  BY DEF Remaining
<1>8. Remaining(pool', inputs', ready') = BatchNeed(pool', rest)
  <2>1. DOMAIN inputs' \ ready' = S \ {s}
    BY <1>2
  <2>2. [t \in DOMAIN inputs' \ ready' |-> pool'.past[t] + Len(inputs'[t])] = rest
    BY <1>2, <1>6, <2>1
  <2> QED
    BY <2>2 DEF Remaining
<1>9. rest \in [S \ {s} -> Nat] /\ S \ {s} \in SUBSET Slot
  BY <1>1
<1> HIDE DEF S, ends
<1>10. BatchNeed(pool, ends) = Needed(pool, s, ends[s]) + BatchNeed(pool', rest)
  <2>1. PICK q : q = pool'
    OBVIOUS
  <2>2. q = Prepare(pool, s, ends[s], new) /\ ends[s] > pool.past[s]
    BY <1>1, <1>3, <1>4, <2>1
  <2>3. S \in SUBSET Slot /\ ends \in [S -> Nat] /\ s \in S /\ pool.live[s]
    BY <1>1, <1>2
  <2>4. BatchNeed(pool, ends) = Needed(pool, s, ends[s]) + BatchNeed(q, [t \in S \ {s} |-> ends[t]])
    <3>1. /\ pool \in Pool /\ PoolInv(pool)
          /\ new \in Picks(pool.free, Needed(pool, s, ends[s]))
      BY <1>1, <1>3, <1>4, <1>5
    <3> QED
      BY <2>2, <2>3, <3>1, PrepareNeed
  <2> QED
    BY <2>1, <2>4
<1>11. Cardinality(pool'.free) = Cardinality(pool.free) - Needed(pool, s, ends[s])
  BY <1>1, <1>3, <1>4, <1>5, PrepareCounts
<1>12. Needed(pool, s, ends[s]) \in Nat
  BY <1>1, <1>3, <1>5, NeedNat
<1>13. Cardinality(pool.free) \in Nat /\ Cardinality(pool'.free) \in Nat
  BY <1>5, <1>6, PoolFields, FreeLess
<1>14. BatchNeed(pool', rest) \in Nat
  <2>1. PICK R : R = S \ {s}
    OBVIOUS
  <2>2. PICK e : e = rest
    OBVIOUS
  <2>3. e \in [R -> Nat] /\ R \in SUBSET Slot
    BY <1>9, <2>1, <2>2
  <2>4. BatchNeed(pool', e) \in Nat
    BY <1>6, <2>3, NeedNatural
  <2> QED
    BY <2>2, <2>4
<1> QED
  BY <1>7, <1>8, <1>10, <1>11, <1>12, <1>13, <1>14

LEMMA ReservedStep == IInv /\ Reserved /\ [Next]_vars => Reserved'
<1> SUFFICES ASSUME IInv, Reserved, [Next]_vars, ~NoBatchRuns'
             PROVE  /\ \A s \in DOMAIN inputs' : EndOf(inputs, s)' <= Ctx
                    /\ Remaining(pool', inputs', ready') <= Cardinality(pool'.free)
  BY DEF Reserved
<1>1. ASSUME NEW in \in BatchInput, BeginBatch(in)
      PROVE  /\ \A s \in DOMAIN inputs' : EndOf(inputs, s)' <= Ctx
             /\ Remaining(pool', inputs', ready') <= Cardinality(pool'.free)
  <2>1. /\ inputs' = in /\ ready' = {} /\ pool' = pool
        /\ BatchOk(pool, [s \in DOMAIN in |-> EndOf(in, s)])
    BY <1>1 DEF BeginBatch
  <2>2. \A s \in DOMAIN in : EndOf(in, s) <= Ctx
    BY <2>1 DEF BatchOk
  <2>3. \A s \in DOMAIN in : EndOf(inputs, s)' = EndOf(in, s)
    BY <2>1 DEF EndOf
  <2>4. [s \in DOMAIN in \ {} |-> pool.past[s] + Len(in[s])] = [s \in DOMAIN in |-> EndOf(in, s)]
    BY DEF EndOf
  <2>5. Remaining(pool, in, {}) <= Cardinality(pool.free)
    BY <2>1, <2>4 DEF BatchOk, Remaining
  <2> QED
    BY <2>1, <2>2, <2>3, <2>5
<1>2. ASSUME NEW s \in DOMAIN inputs, PrepareNext(s)
      PROVE  /\ \A t \in DOMAIN inputs' : EndOf(inputs, t)' <= Ctx
             /\ Remaining(pool', inputs', ready') <= Cardinality(pool'.free)
  <2>1. inputs' = inputs
    BY <1>2 DEF PrepareNext
  <2>2. ~NoBatchRuns
    BY <2>1 DEF NoBatchRuns
  <2>3. pool'.past = pool.past
    <3>1. PICK end : end = EndOf(inputs, s)
      OBVIOUS
    <3>2. PICK new \in Picks(pool.free, Needed(pool, s, end)) : pool' = Prepare(pool, s, end, new)
      BY <1>2, <3>1 DEF PrepareNext
    <3>3. s \in Slot /\ pool.live[s] /\ end \in Nat
      BY <3>1, RemainingFacts
    <3>4. PICK q : q = pool'
      OBVIOUS
    <3>5. pool \in Pool /\ PoolInv(pool)
      BY InvFacts
    <3>6. q = Prepare(pool, s, end, new)
      BY <3>2, <3>4
    <3>7. q.past = pool.past
      BY <3>2, <3>3, <3>5, <3>6, PrepareSound
    <3> QED
      BY <3>4, <3>7
  <2>4. \A t \in DOMAIN inputs' : EndOf(inputs, t)' = EndOf(inputs, t)
    BY <2>1, <2>3 DEF EndOf
  <2>5. Remaining(pool', inputs', ready') <= Cardinality(pool'.free)
    BY <1>2, <2>2, PrepareTakes DEF Reserved
  <2> QED
    BY <2>1, <2>2, <2>4, <2>5 DEF Reserved
<1>3. CASE UNCHANGED vars
  <2>1. inputs' = inputs /\ ready' = ready /\ pool' = pool
    BY <1>3 DEF vars
  <2>2. ~NoBatchRuns
    BY <2>1 DEF NoBatchRuns
  <2> QED
    BY <2>1, <2>2 DEF Reserved, EndOf
<1>4. ASSUME NEW s \in Slot, AllocateSequence(s) PROVE FALSE
  BY <1>4 DEF AllocateSequence, NoBatchRuns
<1>5. ASSUME NEW h \in Handle, \/ ReleaseSequence(h)
                               \/ ImportSnapshot(h) \/ RestoreFailed(h)
      PROVE  FALSE
  BY <1>5 DEF ReleaseSequence, ImportSnapshot, RestoreFailed, NoBatchRuns
<1>6. ASSUME NEW h \in Handle, NEW c \in Slot, ForkSequence(h, c) PROVE FALSE
  BY <1>6 DEF ForkSequence, NoBatchRuns
<1>7. ASSUME NEW h \in Handle, NEW rows \in Segment, ImportRows(h, rows) PROVE FALSE
  BY <1>7 DEF ImportRows, NoBatchRuns
<1>8. ASSUME RunBatch PROVE FALSE
  BY <1>8 DEF RunBatch, NoBatchRuns
<1> QED
  BY <1>1, <1>2, <1>3, <1>4, <1>5, <1>6, <1>7, <1>8 DEF Next

\* After the preflight every prepare_sequence of a batch finds the pages it
\* needs, in whatever order and whatever the members share ("a failed batch
\* cannot partly allocate", forward_batch).
THEOREM PreflightAlwaysSuffices == Spec => []PreflightSuffices
<1>1. Init => Reserved
  BY DEF Init, Reserved, NoBatchRuns
<1>2. IInv /\ Reserved => PreflightSuffices
  <2> SUFFICES ASSUME IInv, Reserved, NEW s \in DOMAIN inputs \ ready
               PROVE  PrepareOk(pool, s, EndOf(inputs, s))
    BY DEF PreflightSuffices
  <2> DEFINE S == DOMAIN inputs \ ready
             ends == [t \in S |-> pool.past[t] + Len(inputs[t])]
  <2>1. ~NoBatchRuns
    BY DEF NoBatchRuns, NoBatch
  <2>2. EndOf(inputs, s) <= Ctx /\ BatchNeed(pool, ends) <= Cardinality(pool.free)
    BY <2>1 DEF Reserved, Remaining
  <2>3. /\ S \in SUBSET Slot /\ ends \in [S -> Nat] /\ ends[s] = EndOf(inputs, s)
        /\ s \in Slot /\ EndOf(inputs, s) \in Nat
    BY RemainingFacts
  <2>4. s \in S /\ pool \in Pool /\ PoolInv(pool)
    BY InvFacts
  <2> HIDE DEF S, ends
  <2>5. Needed(pool, s, EndOf(inputs, s)) <= BatchNeed(pool, ends)
    BY <2>3, <2>4, NeedWithin
  <2>6. /\ Needed(pool, s, EndOf(inputs, s)) \in Nat /\ BatchNeed(pool, ends) \in Nat
        /\ Cardinality(pool.free) \in Nat
    BY <2>3, <2>4, NeedNat, NeedNatural, PoolFields, FreeLess
  <2> QED
    BY <2>2, <2>5, <2>6 DEF PrepareOk
<1> QED
  BY <1>1, <1>2, ReservedStep, Inductive, PTL DEF Spec

\* The preflight asks for no page the batch does not take (forward_batch: a
\* batch is refused only if its prepares would run out of pages).
THEOREM PreflightAlwaysExact == Spec => PreflightExact
<1> DEFINE Exact == ready' # ready /\ ready' # {}
     => Remaining(pool, inputs, ready) - Remaining(pool', inputs', ready')
        = Cardinality(pool.free) - Cardinality(pool'.free)
<1>1. IInv /\ [Next]_vars => [Exact]_vars
  <2> SUFFICES ASSUME IInv, Next, ready' # ready, ready' # {}
               PROVE  Remaining(pool, inputs, ready) - Remaining(pool', inputs', ready')
                        = Cardinality(pool.free) - Cardinality(pool'.free)
    OBVIOUS
  <2>1. \E s \in DOMAIN inputs : PrepareNext(s)
    BY DEF Next, AllocateSequence, ReleaseSequence, ForkSequence, ImportRows,
           ImportSnapshot, RestoreFailed, BeginBatch, RunBatch
  <2> QED
    BY <2>1, PrepareTakes
<1> QED
  BY <1>1, Inductive, PTL DEF Spec, PreflightExact

-----------------------------------------------------------------------------
(***************************************************************************)
(* Paged sequences implement independent ones, for every number of slots    *)
(* and pages, every page size, context, vocabulary and batch size: sharing  *)
(* pages, copying them on write and reusing them never shows in the text of *)
(* a handle.                                                               *)
(*                                                                         *)
(* A row is found through a table.  Preparing a sequence moves the row from *)
(* a shared page to its copy but leaves what every table finds; storing     *)
(* rows changes pages that only one table finds.  To the inductive          *)
(* invariant above this adds what a restore has brought in, and that        *)
(* nothing reaches beyond the context.                                      *)
(***************************************************************************)
\* Row r of the sequence with this table, in pages with the contents k.
RowOf(k, table, r) == k[table[TailIndex(r)]][r % PageTokens]

Imports ==
  \A s \in Slot :
    /\ imported[s] <= Ctx
    /\ pool.live[s] =>
         \A r \in Nat : r < imported[s] => RowOf(kv, pool.table[s], r) \in Token

Ends == \A s \in DOMAIN inputs : EndOf(inputs, s) <= Ctx

JInv == IInv /\ Imports /\ Ends

-----------------------------------------------------------------------------
(***************************************************************************)
(* Positions in pages                                                      *)
(***************************************************************************)
LEMMA OffsetFacts ==
  ASSUME NEW r \in Nat
  PROVE  r % PageTokens \in Offset
  BY PageTokensAssumption, Z3 DEF Offset

\* Page and offset determine the row.
LEMMA RowsDiffer ==
  ASSUME NEW r \in Nat, NEW q \in Nat,
         TailIndex(r) = TailIndex(q), r % PageTokens = q % PageTokens
  PROVE  r = q
<1>1. r \div PageTokens = q \div PageTokens
  <2>1. r \div PageTokens \in Int /\ q \div PageTokens \in Int
    BY PageTokensAssumption, Z3
  <2> QED
    BY <2>1 DEF TailIndex
<1>2. \A n \in Nat : n = PageTokens * (n \div PageTokens) + (n % PageTokens)
  BY PageTokensAssumption, Z3
<1> QED
  BY <1>1, <1>2

LEMMA TailMonotonic ==
  ASSUME NEW m \in Nat, NEW n \in Nat, m <= n
  PROVE  TailIndex(m) <= TailIndex(n)
  BY PageTokensAssumption, Z3 DEF TailIndex

-----------------------------------------------------------------------------
(***************************************************************************)
(* What a step does to the rows                                            *)
(***************************************************************************)
\* A row below the end of n rows is in the table if the table covers n.
LEMMA RowInTable ==
  ASSUME NEW p \in Pool, NEW t \in Slot, NEW n \in Nat, PagesFor(n) <= Len(p.table[t]),
         NEW r \in Nat, r < n
  PROVE  /\ TailIndex(r) \in DOMAIN p.table[t]
         /\ p.table[t][TailIndex(r)] \in Page
         /\ p.table[t][TailIndex(r)] \in PagesOf(p, t)
<1>1. TailIndex(r) <= PagesFor(n) /\ TailIndex(r) \in Nat \ {0} /\ PagesFor(n) \in Nat
  BY TailWithin, PagesForType
<1>2. DOMAIN p.table[t] = 1 .. Len(p.table[t]) /\ Len(p.table[t]) \in Nat
  BY PagesInPage
<1>3. TailIndex(r) \in DOMAIN p.table[t]
  BY <1>1, <1>2
<1> QED
  BY <1>3, PagesInPage

\* The rows of a live sequence, those being restored too, have their pages.
LEMMA RowPresent ==
  ASSUME IInv, NEW t \in Slot, pool.live[t], NEW r \in Nat,
         r < pool.past[t] \/ r < imported[t]
  PROVE  /\ TailIndex(r) \in DOMAIN pool.table[t]
         /\ pool.table[t][TailIndex(r)] \in Page
         /\ pool.table[t][TailIndex(r)] \in PagesOf(pool, t)
<1>1. /\ pool \in Pool /\ PoolInv(pool) /\ imported \in [Slot -> Nat]
      /\ pool.past \in [Slot -> Nat]
  BY InvFacts, PoolFields
<1>2. CASE r < pool.past[t]
  <2>1. PagesFor(pool.past[t]) <= Len(pool.table[t]) /\ pool.past[t] \in Nat
    BY <1>1 DEF PoolInv, TablesCover
  <2> QED
    BY <1>1, <1>2, <2>1, RowInTable
<1>3. CASE r < imported[t]
  <2>1. imported[t] \in Nat /\ imported[t] > 0
    BY <1>1, <1>3
  <2>2. PagesFor(imported[t]) <= Len(pool.table[t])
    BY <2>1 DEF IInv, RestoreInv
  <2> QED
    BY <1>1, <1>3, <2>1, <2>2, RowInTable
<1> QED
  BY <1>2, <1>3

\* The table of s after prepare_sequence: the old one, but for the copy.
LEMMA PrepareTable ==
  ASSUME NEW p \in Pool, PoolInv(p), NEW s \in Slot, p.live[s],
         NEW end \in Nat, NEW new \in Picks(p.free, Needed(p, s, end)),
         NEW q, q = Prepare(p, s, end, new)
  PROVE  /\ Shared(p, s, end) => new[1] \in p.free
         /\ \A i \in DOMAIN p.table[s] :
              q.table[s][i] = IF Shared(p, s, end) /\ i = TailIndex(p.past[s])
                              THEN new[1] ELSE p.table[s][i]
<1> DEFINE tail == TailIndex(p.past[s])
           k == Grow(p, s, end)
<1>1. /\ p.past[s] \in Nat /\ p.table[s] \in Seq(Page)
      /\ p.table \in [Slot -> Seq(Page)] /\ p.free \subseteq Page
  BY PoolFields
<1>2. tail \in Nat \ {0} /\ PagesFor(end) \in Nat /\ Len(p.table[s]) \in Nat
  <2>1. tail \in Nat \ {0} /\ PagesFor(end) \in Nat
    BY <1>1, PagesForType
  <2> QED
    BY <1>1, <2>1
<1> HIDE DEF tail
<1>3. k \in Nat
  BY <1>2 DEF Grow
<1> HIDE DEF k
<1>4. CASE ~Shared(p, s, end)
  <2>1. Needed(p, s, end) = k /\ q = Extend(p, s, new)
    BY <1>3, <1>4 DEF Needed, Prepare, k
  <2>2. new \in Seq(Page)
    BY <2>1, <1>1, <1>3, PickFacts
  <2>3. q.table[s] = p.table[s] \o new
    BY <2>1, <1>1 DEF Extend
  <2>4. \A i \in DOMAIN p.table[s] : q.table[s][i] = p.table[s][i]
    BY <2>2, <2>3, <1>1
  <2> QED
    BY <1>4, <2>4
<1>5. CASE Shared(p, s, end)
  <2> DEFINE r == CopyOnWrite(p, s, new)
             rest == Tail(new)
  <2>1. Needed(p, s, end) = k + 1 /\ q = Extend(r, s, rest)
    BY <1>3, <1>5 DEF Needed, Prepare, k
  <2>2. new \in Seq(p.free) /\ Len(new) = k + 1
    BY <2>1, <1>3, PickFacts
  <2>3. new \in Seq(Page) /\ new # << >> /\ new[1] \in p.free
    BY <2>2, <1>1, <1>3
  <2>4. rest \in Seq(Page)
    BY <2>3
  <2>5. tail <= Len(p.table[s])
    BY <1>5 DEF Shared, tail
  <2>6. r.table = [p.table EXCEPT ![s] = [@ EXCEPT ![tail] = new[1]]]
    BY DEF CopyOnWrite, tail
  <2>7. r.table[s] = [p.table[s] EXCEPT ![tail] = new[1]]
    BY <2>6, <1>1
  <2>8. /\ r.table[s] \in Seq(Page) /\ DOMAIN r.table[s] = DOMAIN p.table[s]
        /\ \A i \in DOMAIN p.table[s] :
             r.table[s][i] = IF i = tail THEN new[1] ELSE p.table[s][i]
    BY <2>3, <2>5, <2>7, <1>1, <1>2
  <2>9. q.table[s] = r.table[s] \o rest
    <3>1. r.table \in [Slot -> Seq(Page)]
      BY <2>6, <2>7, <2>8, <1>1
    <3> HIDE DEF r, rest
    <3> QED
      BY <2>1, <3>1 DEF Extend
  <2> HIDE DEF r, rest
  <2>10. \A i \in DOMAIN p.table[s] : q.table[s][i] = r.table[s][i]
    BY <2>4, <2>8, <2>9
  <2> QED
    BY <1>5, <2>3, <2>8, <2>10 DEF tail
<1> QED
  BY <1>4, <1>5

\* prepare_sequence leaves what every table finds.
LEMMA PrepareRows ==
  ASSUME IInv, NEW s \in Slot, pool.live[s], NEW end \in Nat,
         NEW new \in Picks(pool.free, Needed(pool, s, end)),
         NEW q, q = Prepare(pool, s, end, new),
         NEW k, k = PreparedKv(s, end, new),
         NEW t \in Slot, NEW r \in Nat, TailIndex(r) \in DOMAIN pool.table[t]
  PROVE  RowOf(k, q.table[t], r) = RowOf(kv, pool.table[t], r)
<1> DEFINE i == TailIndex(r)
           tail == TailIndex(pool.past[s])
           page == pool.table[t][i]
<1>1. pool \in Pool /\ PoolInv(pool) /\ kv \in [Page -> [Offset -> Token \cup {NoRow}]]
  BY InvFacts
<1>2. page \in PagesOf(pool, t) /\ page \in Page
  BY <1>1, PagesInPage
<1>3. page \notin pool.free
  BY <1>1, <1>2, FreeHasNoOwner DEF Owners
<1>4. Shared(pool, s, end) => new[1] \in pool.free /\ new[1] \in Page
  BY <1>1, PrepareTable, FreeHasNoOwner
<1>5. k[page] = kv[page]
  BY <1>1, <1>2, <1>3, <1>4 DEF PreparedKv
<1>6. CASE t # s
  <2>1. q.table[t] = pool.table[t]
    BY <1>1, <1>6, PrepareSound DEF OthersKept
  <2> QED
    BY <1>5, <2>1 DEF RowOf
<1>7. CASE t = s /\ ~(Shared(pool, s, end) /\ i = tail)
  <2>1. q.table[t][i] = page
    BY <1>1, <1>7, PrepareTable
  <2> QED
    BY <1>5, <2>1 DEF RowOf
<1>8. CASE t = s /\ Shared(pool, s, end) /\ i = tail
  <2>1. q.table[t][i] = new[1]
    BY <1>1, <1>8, PrepareTable
  <2>2. k[new[1]] = kv[page]
    BY <1>1, <1>4, <1>8 DEF PreparedKv
  <2> QED
    BY <2>1, <2>2 DEF RowOf
<1> QED
  BY <1>6, <1>7, <1>8

\* StoreRows stores tokens at the places of its rows, and nowhere else.
Stores(table, start, rows, g, o) ==
  \E j \in 1 .. Len(rows) : /\ (start + j - 1) % PageTokens = o
                           /\ table[TailIndex(start + j - 1)] = g

LEMMA StoreFacts ==
  ASSUME NEW k, NEW table, NEW start \in Nat, NEW rows \in Segment,
         NEW g \in Page, NEW o \in Offset
  PROVE  IF Stores(table, start, rows, g, o)
         THEN StoreRows(k, table, start, rows)[g][o] \in Token
         ELSE StoreRows(k, table, start, rows)[g][o] = k[g][o]
<1> DEFINE At == {j \in 1 .. Len(rows) :
                    /\ (start + j - 1) % PageTokens = o
                    /\ table[TailIndex(start + j - 1)] = g}
<1>1. StoreRows(k, table, start, rows)[g][o]
        = IF At = {} THEN k[g][o] ELSE rows[CHOOSE j \in At : TRUE]
  BY DEF StoreRows
<1>2. \A j \in At : rows[j] \in Token
  BY SegmentFacts
<1>3. At # {} => rows[CHOOSE j \in At : TRUE] \in Token
  BY <1>2
<1>4. At = {} <=> ~Stores(table, start, rows, g, o)
  BY DEF Stores
<1> HIDE DEF At
<1> QED
  BY <1>1, <1>3, <1>4

\* import_rows brings in its rows and leaves what every table found.
LEMMA ImportedRows ==
  ASSUME JInv, NEW h \in Handle, NEW rows \in Segment, ImportRows(h, rows),
         NEW s, s = h.slot
  PROVE  /\ s \in Slot /\ pool.live[s] /\ pool.past[s] = 0
         /\ pool' \in Pool /\ pool'.live = pool.live /\ pool'.past = pool.past
         /\ imported' = [imported EXCEPT ![s] = imported[s] + Len(rows)]
         /\ imported'[s] <= Ctx
         /\ \A t \in Slot : \A r \in Nat :
              pool.live[t] /\ (r < pool.past[t] \/ r < imported[t])
              => RowOf(kv', pool'.table[t], r) = RowOf(kv, pool.table[t], r)
         /\ \A r \in Nat : imported[s] <= r /\ r < imported'[s]
              => RowOf(kv', pool'.table[s], r) \in Token
<1> DEFINE start == imported[s]
           end == start + Len(rows)
<1>1. s \in Slot /\ start \in Nat /\ Len(rows) \in Nat /\ end \in Nat
  BY HandleSlot, InvFacts, SegmentFacts DEF JInv
<1> HIDE DEF start, end
<1>2. /\ pool.live[s] /\ pool.past[s] = 0 /\ end <= Ctx
      /\ imported' = [imported EXCEPT ![s] = end]
  BY DEF ImportRows, Valid, PrepareOk, start, end
<1>3. PICK new \in Picks(pool.free, Needed(pool, s, end)) :
        /\ pool' = Prepare(pool, s, end, new)
        /\ kv' = StoreRows(PreparedKv(s, end, new), pool'.table[s], start, rows)
  BY DEF ImportRows, start, end
<1>4. /\ pool \in Pool /\ PoolInv(pool) /\ imported \in [Slot -> Nat]
      /\ pool.past \in [Slot -> Nat]
  BY InvFacts, PoolFields DEF JInv
<1>5. /\ pool' \in Pool /\ PoolInv(pool')
      /\ pool'.live = pool.live /\ pool'.past = pool.past
      /\ PagesFor(end) <= Len(pool'.table[s])
      /\ OthersKept(pool, pool', s)
  BY <1>1, <1>2, <1>3, <1>4, PrepareSound
<1> DEFINE k == PreparedKv(s, end, new)
<1>6. imported'[s] = end
  BY <1>1, <1>2, <1>4
<1>7. ASSUME NEW j \in 1 .. Len(rows)
      PROVE  /\ start + j - 1 \in Nat /\ start <= start + j - 1 /\ start + j - 1 < end
             /\ TailIndex(start + j - 1) \in DOMAIN pool'.table[s]
             /\ Owners(pool', pool'.table[s][TailIndex(start + j - 1)]) = {s}
  <2>1. start + j - 1 \in Nat /\ start <= start + j - 1 /\ start + j - 1 < end
    BY <1>1 DEF end
  <2>2. /\ TailIndex(start + j - 1) \in DOMAIN pool'.table[s]
        /\ TailIndex(start + j - 1) \in Nat \ {0}
    BY <2>1, <1>1, <1>5, RowInTable, PagesForType
  <2>3. PrivateFrom(pool', s, 0 + 1)
    BY <1>1, <1>2, <1>5, PagesForZero DEF PoolInv, SparePrivate
  <2>4. TailIndex(start + j - 1) >= 0 + 1
    BY <2>2
  <2> QED
    BY <2>1, <2>2, <2>3, <2>4 DEF PrivateFrom
<1>8. ASSUME NEW t \in Slot, NEW r \in Nat, pool.live[t], r < pool.past[t] \/ r < imported[t]
      PROVE  RowOf(kv', pool'.table[t], r) = RowOf(kv, pool.table[t], r)
  <2>1. TailIndex(r) \in DOMAIN pool.table[t]
    BY <1>8, RowPresent DEF JInv
  <2>2. RowOf(k, pool'.table[t], r) = RowOf(kv, pool.table[t], r)
    BY <1>1, <1>2, <1>3, <2>1, PrepareRows DEF JInv
  <2> DEFINE g == pool'.table[t][TailIndex(r)]
             o == r % PageTokens
  <2>3. TailIndex(r) \in DOMAIN pool'.table[t]
    <3>1. Len(pool.table[t]) <= Len(pool'.table[t])
      <4>1. CASE t = s
        BY <4>1, <1>1, <1>2, <1>3, <1>4, PrepareSound
      <4>2. CASE t # s
        BY <4>2, <1>4, <1>5, PagesInPage DEF OthersKept
      <4> QED
        BY <4>1, <4>2
    <3> QED
      BY <2>1, <3>1, <1>4, <1>5, PagesInPage
  <2>4. g \in Page /\ g \in PagesOf(pool', t) /\ o \in Offset
    BY <2>3, <1>5, PagesInPage, OffsetFacts
  <2>5. ASSUME NEW j \in 1 .. Len(rows), (start + j - 1) % PageTokens = o,
               pool'.table[s][TailIndex(start + j - 1)] = g
        PROVE  FALSE
    <3>1. t = s
      BY <1>7, <2>4, <2>5 DEF Owners
    <3>2. TailIndex(start + j - 1) = TailIndex(r)
      BY <1>1, <1>5, <1>7, <2>3, <2>5, <3>1 DEF PoolInv, TablesDistinct
    <3>3. start + j - 1 = r
      BY <1>7, <2>5, <3>2, RowsDiffer
    <3>4. r < start
      BY <1>2, <1>4, <1>8, <3>1 DEF start
    <3> QED
      BY <1>1, <1>7, <3>3, <3>4
  <2>6. kv'[g][o] = k[g][o]
    <3>1. kv' = StoreRows(k, pool'.table[s], start, rows)
      BY <1>3
    <3> HIDE DEF g, o, k
    <3>2. ~Stores(pool'.table[s], start, rows, g, o)
      BY <2>5 DEF Stores
    <3>3. StoreRows(k, pool'.table[s], start, rows)[g][o] = k[g][o]
      BY <3>2, <1>1, <2>4, StoreFacts
    <3> QED
      BY <3>1, <3>3
  <2> QED
    BY <2>2, <2>6 DEF RowOf
<1>9. ASSUME NEW r \in Nat, start <= r, r < end
      PROVE  RowOf(kv', pool'.table[s], r) \in Token
  <2> DEFINE g == pool'.table[s][TailIndex(r)]
             o == r % PageTokens
             j == r - start + 1
  <2>1. j \in 1 .. Len(rows) /\ start + j - 1 = r
    BY <1>1, <1>9 DEF end
  <2>2. g \in Page /\ o \in Offset
    BY <1>1, <1>5, <1>9, RowInTable, OffsetFacts
  <2>3. kv'[g][o] \in Token
    <3>1. kv' = StoreRows(k, pool'.table[s], start, rows)
      BY <1>3
    <3>2. /\ j \in 1 .. Len(rows)
          /\ (start + j - 1) % PageTokens = o
          /\ pool'.table[s][TailIndex(start + j - 1)] = g
      BY <2>1
    <3>3. Stores(pool'.table[s], start, rows, g, o)
      BY <3>2 DEF Stores
    <3> HIDE DEF g, o, k
    <3> QED
      BY <3>1, <3>3, <1>1, <2>2, StoreFacts
  <2> QED
    BY <2>3 DEF RowOf
<1> QED
  BY <1>1, <1>2, <1>5, <1>6, <1>8, <1>9 DEF start, end

\* prepare_sequence of a batch leaves what every table found.
LEMMA PreparedRows ==
  ASSUME JInv, NEW s \in DOMAIN inputs, PrepareNext(s)
  PROVE  /\ pool'.live = pool.live /\ pool'.past = pool.past
         /\ generation' = generation /\ imported' = imported /\ inputs' = inputs
         /\ \A t \in Slot : \A r \in Nat :
              pool.live[t] /\ (r < pool.past[t] \/ r < imported[t])
              => RowOf(kv', pool'.table[t], r) = RowOf(kv, pool.table[t], r)
<1> DEFINE end == EndOf(inputs, s)
<1>1. /\ s \in Slot /\ pool.live[s] /\ pool \in Pool /\ PoolInv(pool)
      /\ Len(inputs[s]) \in Nat /\ pool.past[s] \in Nat
  BY InvFacts, SegmentFacts, PoolFields DEF JInv, IInv, BatchInv
<1>2. end \in Nat
  BY <1>1 DEF EndOf
<1> HIDE DEF end
<1>3. PICK new \in Picks(pool.free, Needed(pool, s, end)) :
        /\ pool' = Prepare(pool, s, end, new)
        /\ kv' = PreparedKv(s, end, new)
  BY DEF PrepareNext, end
<1>4. pool'.live = pool.live /\ pool'.past = pool.past
  BY <1>1, <1>2, <1>3, PrepareSound
<1>5. generation' = generation /\ imported' = imported /\ inputs' = inputs
  BY DEF PrepareNext
<1>6. ASSUME NEW t \in Slot, NEW r \in Nat, pool.live[t],
             r < pool.past[t] \/ r < imported[t]
      PROVE  RowOf(kv', pool'.table[t], r) = RowOf(kv, pool.table[t], r)
  <2>1. TailIndex(r) \in DOMAIN pool.table[t]
    BY <1>6, RowPresent DEF JInv
  <2> QED
    BY <1>1, <1>2, <1>3, <2>1, PrepareRows DEF JInv
<1> QED
  BY <1>4, <1>5, <1>6

\* A row that a batch stores has a page that no other sequence finds.
LEMMA WriterFacts ==
  ASSUME IInv, RunBatch, NEW w \in DOMAIN inputs, NEW j \in 1 .. Len(inputs[w])
  PROVE  LET q == pool.past[w] + j - 1
         IN  /\ q \in Nat /\ pool.past[w] <= q /\ q < EndOf(inputs, w)
             /\ TailIndex(q) \in DOMAIN pool.table[w]
             /\ pool.table[w][TailIndex(q)] \in Page
             /\ Owners(pool, pool.table[w][TailIndex(q)]) = {w}
             /\ inputs[w][j] \in Token
<1> DEFINE q == pool.past[w] + j - 1
<1>1. /\ w \in Slot /\ pool \in Pool /\ pool.past[w] \in Nat
      /\ Len(inputs[w]) \in Nat /\ inputs[w][j] \in Token
  BY InvFacts, SegmentFacts, PoolFields
<1>2. EndOf(inputs, w) \in Nat /\ q \in Nat /\ pool.past[w] <= q /\ q < EndOf(inputs, w)
  BY <1>1 DEF EndOf
<1> HIDE DEF q
<1>3. Prepared(pool, w, EndOf(inputs, w))
  BY DEF RunBatch, IInv, ReadyInv
<1>4. TailIndex(q) \in DOMAIN pool.table[w] /\ pool.table[w][TailIndex(q)] \in Page
  BY <1>1, <1>2, <1>3, RowInTable DEF Prepared
<1>5. TailIndex(pool.past[w]) <= TailIndex(q)
  BY <1>1, <1>2, TailMonotonic
<1>6. TailIndex(q) \in Nat /\ TailIndex(pool.past[w]) \in Nat
  BY <1>1, <1>2, PagesForType
<1>7. Owners(pool, pool.table[w][TailIndex(q)]) = {w}
  BY <1>3, <1>4, <1>5, <1>6 DEF Prepared, PrivateFrom
<1> QED
  BY <1>1, <1>2, <1>4, <1>7 DEF q

\* A batch adds its rows and leaves what every table found.
LEMMA RunRows ==
  ASSUME IInv, RunBatch, NEW t \in Slot, pool.live[t], NEW r \in Nat
  PROVE  /\ r < pool.past[t] \/ r < imported[t]
            => RowOf(kv', pool.table[t], r) = RowOf(kv, pool.table[t], r)
         /\ t \in DOMAIN inputs /\ pool.past[t] <= r /\ r < EndOf(inputs, t)
            => RowOf(kv', pool.table[t], r) \in Token
<1> DEFINE g == pool.table[t][TailIndex(r)]
           o == r % PageTokens
           row(a, b) == IF Writers(a, b) = {} THEN kv[a][b]
                        ELSE LET s == CHOOSE w \in Writers(a, b) : TRUE
                             IN  inputs[s][CHOOSE x \in RowAt(s, a, b) : TRUE]
<1>1. kv' = [a \in Page |-> [b \in Offset |-> row(a, b)]]
  BY DEF RunBatch
<1> HIDE DEF row
<1>2. o \in Offset
  BY OffsetFacts
<1>3. /\ pool \in Pool /\ PoolInv(pool) /\ pool.past[t] \in Nat
      /\ imported \in [Slot -> Nat]
  BY InvFacts, PoolFields
<1>4. ASSUME r < pool.past[t] \/ r < imported[t]
      PROVE  RowOf(kv', pool.table[t], r) = RowOf(kv, pool.table[t], r)
  <2>1. /\ TailIndex(r) \in DOMAIN pool.table[t] /\ g \in Page
        /\ g \in PagesOf(pool, t)
    BY <1>4, RowPresent
  <2>2. ASSUME NEW w \in DOMAIN inputs, NEW j \in RowAt(w, g, o)
        PROVE  FALSE
    <3> DEFINE q == pool.past[w] + j - 1
    <3>1. j \in 1 .. Len(inputs[w]) /\ q % PageTokens = o /\ pool.table[w][TailIndex(q)] = g
      BY DEF RowAt
    <3>2. /\ q \in Nat /\ pool.past[w] <= q
          /\ TailIndex(q) \in DOMAIN pool.table[w] /\ Owners(pool, g) = {w}
      BY <3>1, WriterFacts
    <3> HIDE DEF q
    <3>3. t = w
      BY <2>1, <3>2 DEF Owners
    <3>4. TailIndex(q) = TailIndex(r)
      BY <1>3, <2>1, <3>1, <3>2, <3>3 DEF PoolInv, TablesDistinct
    <3>5. q = r
      BY <3>1, <3>2, <3>4, RowsDiffer
    <3>6. imported[t] = 0
      BY <3>3 DEF IInv, BatchInv
    <3> QED
      BY <1>3, <1>4, <3>2, <3>3, <3>5, <3>6
  <2> HIDE DEF g, o
  <2>3. Writers(g, o) = {}
    BY <2>2 DEF Writers
  <2>4. row(g, o) = kv[g][o]
    BY <2>3 DEF row
  <2>5. kv'[g][o] = kv[g][o]
    BY <1>1, <1>2, <2>1, <2>4
  <2> QED
    BY <2>5 DEF RowOf, g, o
<1>5. ASSUME t \in DOMAIN inputs, pool.past[t] <= r, r < EndOf(inputs, t)
      PROVE  RowOf(kv', pool.table[t], r) \in Token
  <2> DEFINE j == r - pool.past[t] + 1
  <2>1. j \in 1 .. Len(inputs[t]) /\ pool.past[t] + j - 1 = r
    <3>1. Len(inputs[t]) \in Nat
      BY <1>5, InvFacts, SegmentFacts
    <3> QED
      BY <1>3, <1>5, <3>1 DEF EndOf
  <2> HIDE DEF j
  <2>2. g \in Page
    BY <1>5, <2>1, WriterFacts
  <2>3. j \in RowAt(t, g, o)
    BY <2>1 DEF RowAt
  <2> HIDE DEF g, o
  <2>4. t \in Writers(g, o)
    BY <1>5, <2>3 DEF Writers
  <2>5. PICK s : s = CHOOSE w \in Writers(g, o) : TRUE
    OBVIOUS
  <2>6. s \in DOMAIN inputs /\ RowAt(s, g, o) # {}
    BY <2>4, <2>5 DEF Writers
  <2>7. PICK y : y = CHOOSE x \in RowAt(s, g, o) : TRUE
    OBVIOUS
  <2>8. y \in 1 .. Len(inputs[s])
    BY <2>6, <2>7 DEF RowAt
  <2>9. inputs[s][y] \in Token
    BY <2>6, <2>8, WriterFacts
  <2>10. row(g, o) = inputs[s][y]
    BY <2>4, <2>5, <2>7 DEF row
  <2>11. kv'[g][o] \in Token
    BY <1>1, <1>2, <2>2, <2>9, <2>10
  <2> QED
    BY <2>11 DEF RowOf, g, o
<1> QED
  BY <1>4, <1>5

-----------------------------------------------------------------------------
(***************************************************************************)
(* What the handles show                                                   *)
(***************************************************************************)
Status == [h \in Handle |-> StatusOf(h)]
Texts  == [h \in Handle |-> TextOf(h)]

\* The step leaves the rows of slot t.
Keeps(t) ==
  /\ pool'.past[t] = pool.past[t]
  /\ \A r \in Nat : r < pool.past[t]
       => RowOf(kv', pool'.table[t], r) = RowOf(kv, pool.table[t], r)

\* Where slot, generation and rows stay, so does what the handle shows.
LEMMA SameText ==
  ASSUME IInv, NEW h \in Handle,
         generation'[h.slot] = generation[h.slot],
         pool'.live[h.slot] = pool.live[h.slot],
         pool.live[h.slot] => Keeps(h.slot)
  PROVE  StatusOf(h)' = StatusOf(h) /\ TextOf(h)' = TextOf(h)
<1>1. Valid(h)' = Valid(h)
  BY DEF Valid
<1>2. StatusOf(h)' = StatusOf(h)
  BY <1>1 DEF StatusOf
<1>3. CASE ~Valid(h)
  BY <1>1, <1>2, <1>3 DEF TextOf
<1>4. CASE Valid(h)
  <2> DEFINE s == h.slot
  <2>1. Keeps(s)
    BY <1>4 DEF Valid
  <2>2. pool.past[s] \in Nat
    BY HandleSlot, InvFacts, PoolFields
  <2>3. \A r \in 1 .. pool.past[s] :
          RowOf(kv', pool'.table[s], r - 1) = RowOf(kv, pool.table[s], r - 1)
    <3> TAKE r \in 1 .. pool.past[s]
    <3>1. r - 1 \in Nat /\ r - 1 < pool.past[s]
      BY <2>2
    <3> QED
      BY <2>1, <3>1 DEF Keeps
  <2>4. Read(s, pool.past[s])' = Read(s, pool.past[s])
    BY <2>1, <2>3 DEF Read, RowOf, Keeps
  <2> QED
    BY <1>1, <1>2, <1>4, <2>4 DEF TextOf
<1> QED
  BY <1>2, <1>3, <1>4

LEMMA SameMaps ==
  ASSUME IInv, generation' = generation, pool'.live = pool.live,
         \A t \in Slot : pool.live[t] => Keeps(t)
  PROVE  Status' = Status /\ Texts' = Texts
<1>1. \A h \in Handle : StatusOf(h)' = StatusOf(h) /\ TextOf(h)' = TextOf(h)
  BY SameText, HandleSlot
<1> QED
  BY <1>1 DEF Status, Texts

\* Opening a dead slot opens exactly the next handle of that slot.
LEMMA OpensMaps ==
  ASSUME IInv, NEW s \in Slot, ~pool.live[s], generation[s] < MaxGeneration,
         generation' = [generation EXCEPT ![s] = generation[s] + 1],
         pool'.live = [pool.live EXCEPT ![s] = TRUE],
         \A t \in Slot : t # s /\ pool.live[t] => Keeps(t),
         NEW rows, rows = Read(s, pool.past[s])'
  PROVE  \E h \in Handle :
           /\ Status[h] = "unborn"
           /\ Status' = [Status EXCEPT ![h] = "open"]
           /\ Texts' = [Texts EXCEPT ![h] = rows]
<1>1. generation \in [Slot -> 0 .. MaxGeneration] /\ pool.live \in [Slot -> BOOLEAN]
  BY InvFacts, PoolFields
<1>2. PICK n \in 1 .. MaxGeneration : n = generation[s] + 1 /\ n > generation[s]
  BY <1>1, GenerationAssumption
<1>3. generation'[s] = n /\ pool'.live[s] = TRUE
  BY <1>1, <1>2
<1>4. PICK h \in Handle : h.slot = s /\ h.generation = n
  <2>1. [slot |-> s, generation |-> n] \in Handle
    BY DEF Handle
  <2> QED
    BY <2>1
<1>5. StatusOf(h) = "unborn"
  BY <1>2, <1>4 DEF StatusOf
<1>6. StatusOf(h)' = "open" /\ TextOf(h)' = rows
  <2>1. ~(h.generation > generation'[h.slot]) /\ Valid(h)'
    BY <1>2, <1>3, <1>4 DEF Valid
  <2> QED
    BY <2>1, <1>4 DEF StatusOf, TextOf
<1>7. ASSUME NEW g \in Handle, g # h
      PROVE  StatusOf(g)' = StatusOf(g) /\ TextOf(g)' = TextOf(g)
  <2>1. CASE g.slot # s
    <3>1. /\ generation'[g.slot] = generation[g.slot]
          /\ pool'.live[g.slot] = pool.live[g.slot]
      BY <1>1, <2>1, HandleSlot
    <3> QED
      BY <2>1, <3>1, HandleSlot, SameText
  <2>2. CASE g.slot = s
    <3>1. g.generation \in Nat /\ g.generation # n /\ n = generation[s] + 1
          /\ generation[s] \in Nat
      BY <1>1, <1>2, <1>4, <1>7, <2>2 DEF Handle
    <3>2. ~Valid(g) /\ ~Valid(g)'
      BY <1>3, <2>2, <3>1 DEF Valid
    <3>3. g.generation > generation'[s] <=> g.generation > generation[s]
      BY <1>3, <3>1
    <3> QED
      BY <2>2, <3>2, <3>3 DEF StatusOf, TextOf
  <2> QED
    BY <2>1, <2>2
<1>8. Status[h] = "unborn"
  BY <1>4, <1>5 DEF Status
<1>9. Status' = [Status EXCEPT ![h] = "open"]
  BY <1>4, <1>6, <1>7 DEF Status
<1>10. Texts' = [Texts EXCEPT ![h] = rows]
  BY <1>4, <1>6, <1>7 DEF Texts
<1> QED
  BY <1>4, <1>8, <1>9, <1>10

-----------------------------------------------------------------------------
(***************************************************************************)
(* The steps                                                               *)
(***************************************************************************)
LEMMA AllocateOpens ==
  ASSUME IInv, NEW s \in Slot, AllocateSequence(s)
  PROVE  \E h \in Handle :
           /\ Status[h] = "unborn"
           /\ Status' = [Status EXCEPT ![h] = "open"]
           /\ Texts' = [Texts EXCEPT ![h] = << >>]
<1>1. /\ IsFirstDead(pool, s) /\ generation[s] < MaxGeneration
      /\ pool' = Allocate(pool, s) /\ kv' = kv
      /\ generation' = [generation EXCEPT ![s] = generation[s] + 1]
  BY DEF AllocateSequence
<1>2. pool \in Pool
  BY InvFacts
<1>3. /\ pool'.live = [pool.live EXCEPT ![s] = TRUE] /\ pool'.table = pool.table
      /\ pool'.past = [pool.past EXCEPT ![s] = 0]
  BY <1>1 DEF Allocate
<1>4. \A t \in Slot : t # s /\ pool.live[t] => Keeps(t)
  BY <1>1, <1>2, <1>3, PoolFields DEF Keeps
<1>5. Read(s, pool.past[s])' = << >>
  <2>1. pool'.past[s] = 0
    BY <1>2, <1>3, PoolFields
  <2> QED
    BY <2>1 DEF Read
<1> QED
  BY <1>1, <1>3, <1>4, <1>5, OpensMaps DEF IsFirstDead

LEMMA ForkOpens ==
  ASSUME IInv, NEW parent \in Handle, NEW c \in Slot, ForkSequence(parent, c)
  PROVE  /\ Status[parent] = "open"
         /\ \E h \in Handle :
              /\ Status[h] = "unborn"
              /\ Status' = [Status EXCEPT ![h] = "open"]
              /\ Texts' = [Texts EXCEPT ![h] = Texts[parent]]
<1>1. PICK s \in Slot : s = parent.slot
  BY HandleSlot
<1>2. /\ Valid(parent) /\ pool.live[s] /\ IsFirstDead(pool, c)
      /\ generation[c] < MaxGeneration /\ pool' = Fork(pool, s, c) /\ kv' = kv
      /\ generation' = [generation EXCEPT ![c] = generation[c] + 1]
  BY <1>1 DEF ForkSequence, Valid
<1>3. /\ pool \in Pool /\ PoolInv(pool) /\ pool.past[s] \in Nat
      /\ pool.table[s] \in Seq(Page)
  BY InvFacts, PoolFields
<1>4. /\ pool'.live = [pool.live EXCEPT ![c] = TRUE]
      /\ pool'.table = [pool.table EXCEPT ![c] = SharedPrefix(pool, s)]
      /\ pool'.past = [pool.past EXCEPT ![c] = pool.past[s]]
  BY <1>2 DEF Fork
<1>5. \A t \in Slot : t # c /\ pool.live[t] => Keeps(t)
  BY <1>2, <1>3, <1>4, PoolFields DEF Keeps
<1>6. ASSUME NEW r \in 1 .. pool.past[s]
      PROVE  RowOf(kv, SharedPrefix(pool, s), r - 1) = RowOf(kv, pool.table[s], r - 1)
  <2>1. r - 1 \in Nat /\ r - 1 < pool.past[s]
    BY <1>3
  <2>2. /\ TailIndex(r - 1) <= PagesFor(pool.past[s]) /\ TailIndex(r - 1) \in Nat \ {0}
        /\ PagesFor(pool.past[s]) \in Nat
    BY <1>3, <2>1, TailWithin, PagesForType
  <2>3. PagesFor(pool.past[s]) <= Len(pool.table[s])
    BY <1>2, <1>3 DEF PoolInv, TablesCover
  <2>4. SharedPrefix(pool, s)[TailIndex(r - 1)] = pool.table[s][TailIndex(r - 1)]
    BY <1>3, <2>2, <2>3 DEF SharedPrefix
  <2> QED
    BY <2>4 DEF RowOf
<1>7. Texts[parent] = Read(s, pool.past[s]) /\ Status[parent] = "open"
  <2>1. ~(parent.generation > generation[parent.slot])
    <3>1. generation[parent.slot] = parent.generation /\ parent.generation \in Nat
      BY <1>2 DEF Valid, Handle
    <3> QED
      BY <3>1
  <2> QED
    BY <1>1, <1>2, <2>1 DEF Texts, TextOf, Status, StatusOf
<1>8. Read(c, pool.past[c])' = Texts[parent]
  <2>1. pool'.past[c] = pool.past[s] /\ pool'.table[c] = SharedPrefix(pool, s)
    BY <1>3, <1>4, PoolFields
  <2> QED
    BY <1>2, <1>6, <1>7, <2>1 DEF Read, RowOf
<1> QED
  BY <1>2, <1>4, <1>5, <1>7, <1>8, OpensMaps DEF IsFirstDead

LEMMA ReleaseCloses ==
  ASSUME IInv, NEW h \in Handle, ReleaseSequence(h)
  PROVE  /\ Status[h] = "open"
         /\ Status' = [Status EXCEPT ![h] = "closed"]
         /\ Texts' = [Texts EXCEPT ![h] = << >>]
<1>1. PICK s \in Slot : s = h.slot
  BY HandleSlot
<1>2. /\ Valid(h) /\ pool' = Release(pool, s) /\ kv' = kv /\ generation' = generation
  BY <1>1 DEF ReleaseSequence
<1>3. pool \in Pool
  BY InvFacts
<1>4. /\ pool'.live = [pool.live EXCEPT ![s] = FALSE] /\ pool'.past = pool.past
      /\ pool'.table = [pool.table EXCEPT ![s] = << >>]
  BY <1>2 DEF Release
<1>5. generation[s] = h.generation /\ h.generation \in Nat
  BY <1>1, <1>2 DEF Valid, Handle
<1>6. StatusOf(h) = "open" /\ StatusOf(h)' = "closed" /\ TextOf(h)' = << >>
  <2>1. ~(h.generation > generation[h.slot]) /\ ~(h.generation > generation'[h.slot])
    BY <1>1, <1>2, <1>5
  <2>2. ~Valid(h)'
    BY <1>1, <1>3, <1>4, PoolFields DEF Valid
  <2> QED
    BY <1>2, <2>1, <2>2 DEF StatusOf, TextOf
<1>7. ASSUME NEW g \in Handle, g # h
      PROVE  StatusOf(g)' = StatusOf(g) /\ TextOf(g)' = TextOf(g)
  <2>1. CASE g.slot # s
    <3>1. pool'.live[g.slot] = pool.live[g.slot] /\ pool'.table[g.slot] = pool.table[g.slot]
      BY <1>3, <1>4, <2>1, HandleSlot, PoolFields
    <3>2. Keeps(g.slot)
      BY <1>2, <1>4, <3>1 DEF Keeps
    <3> QED
      BY <1>2, <3>1, <3>2, SameText
  <2>2. CASE g.slot = s
    <3>1. g.generation # h.generation
      BY <1>1, <1>7, <2>2 DEF Handle
    <3>2. ~Valid(g) /\ ~Valid(g)'
      BY <1>2, <1>5, <2>2, <3>1 DEF Valid
    <3> QED
      BY <1>2, <3>2 DEF StatusOf, TextOf
  <2> QED
    BY <2>1, <2>2
<1>8. Status' = [Status EXCEPT ![h] = "closed"]
  BY <1>6, <1>7 DEF Status
<1>9. Texts' = [Texts EXCEPT ![h] = << >>]
  BY <1>6, <1>7 DEF Texts
<1> QED
  BY <1>6, <1>8, <1>9 DEF Status

\* New rows behind the old ones continue the text.
LEMMA Continued ==
  ASSUME IInv, NEW h \in Handle, NEW s \in Slot, s = h.slot, Valid(h), Valid(h)',
         NEW n \in Nat, pool'.past[s] = n, pool.past[s] < n, n <= Ctx,
         \A r \in Nat : r < pool.past[s]
           => RowOf(kv', pool'.table[s], r) = RowOf(kv, pool.table[s], r),
         \A r \in Nat : pool.past[s] <= r /\ r < n
           => RowOf(kv', pool'.table[s], r) \in Token
  PROVE  Independent!Continues(TextOf(h)', TextOf(h))
<1> DEFINE m == pool.past[s]
<1>1. m \in Nat
  BY InvFacts, PoolFields
<1>2. TextOf(h) = [r \in 1 .. m |-> RowOf(kv, pool.table[s], r - 1)]
  BY DEF TextOf, Read, RowOf
<1>3. TextOf(h)' = [r \in 1 .. n |-> RowOf(kv', pool'.table[s], r - 1)]
  BY DEF TextOf, Read, RowOf
<1> DEFINE t == TextOf(h)
           u == TextOf(h)'
<1> HIDE DEF m
<1>4. Len(t) = m /\ Len(u) = n
  BY <1>1, <1>2, <1>3
<1>5. ASSUME NEW i \in 1 .. m PROVE u[i] = t[i]
  <2>1. i - 1 \in Nat /\ i - 1 < m /\ i \in 1 .. n
    BY <1>1 DEF m
  <2> QED
    BY <2>1, <1>2, <1>3 DEF m
<1>6. ASSUME NEW i \in m + 1 .. n PROVE u[i] \in Token
  <2>1. i - 1 \in Nat /\ m <= i - 1 /\ i - 1 < n /\ i \in 1 .. n
    BY <1>1
  <2> QED
    BY <2>1, <1>3 DEF m
<1> HIDE DEF t, u
<1>7. m < n
  BY DEF m
<1> QED
  BY <1>4, <1>5, <1>6, <1>7 DEF Independent!Continues, t, u

\* The handles H append, the others show what they showed.
Appends(H) ==
  /\ H \subseteq {h \in Handle : Status[h] = "open"}
  /\ \A h \in Handle : IF h \in H THEN Independent!Continues(Texts'[h], Texts[h])
                                   ELSE Texts'[h] = Texts[h]
  /\ Status' = Status

LEMMA ValidOpen ==
  ASSUME IInv, NEW h \in Handle, Valid(h)
  PROVE  Status[h] = "open"
<1>1. generation[h.slot] = h.generation /\ h.generation \in Nat
  BY DEF Valid, Handle
<1> QED
  BY <1>1 DEF Status, StatusOf

\* The handles of the slots S go on; the rows of all others stay.
LEMMA AppendsMaps ==
  ASSUME IInv, NEW S \in SUBSET Slot,
         generation' = generation, pool'.live = pool.live,
         \A t \in Slot \ S : pool.live[t] => Keeps(t),
         \A t \in S : \E n \in Nat :
           /\ pool'.past[t] = n /\ pool.past[t] < n /\ n <= Ctx
           /\ \A r \in Nat : r < pool.past[t]
                => RowOf(kv', pool'.table[t], r) = RowOf(kv, pool.table[t], r)
           /\ \A r \in Nat : pool.past[t] <= r /\ r < n
                => RowOf(kv', pool'.table[t], r) \in Token
  PROVE  \E H \in SUBSET Handle : Appends(H)
<1> DEFINE H == {h \in Handle : Valid(h) /\ h.slot \in S}
<1>1. H \subseteq {h \in Handle : Status[h] = "open"}
  BY ValidOpen
<1>2. \A h \in Handle : Valid(h)' = Valid(h)
  BY DEF Valid
<1>3. \A h \in Handle : StatusOf(h)' = StatusOf(h)
  BY <1>2 DEF StatusOf
<1>4. ASSUME NEW h \in H
      PROVE  Independent!Continues(TextOf(h)', TextOf(h))
  <2>1. h \in Handle /\ h.slot \in S /\ Valid(h) /\ Valid(h)'
    BY <1>2
  <2>2. PICK s \in Slot : s = h.slot
    BY <2>1
  <2>3. PICK n \in Nat :
           /\ pool'.past[s] = n /\ pool.past[s] < n /\ n <= Ctx
           /\ \A r \in Nat : r < pool.past[s]
                => RowOf(kv', pool'.table[s], r) = RowOf(kv, pool.table[s], r)
           /\ \A r \in Nat : pool.past[s] <= r /\ r < n
                => RowOf(kv', pool'.table[s], r) \in Token
    BY <2>1, <2>2
  <2> QED
    BY <2>1, <2>2, <2>3, Continued
<1>5. ASSUME NEW h \in Handle, h \notin H
      PROVE  TextOf(h)' = TextOf(h)
  <2>1. CASE ~Valid(h)
    BY <1>2, <2>1 DEF TextOf
  <2>2. CASE Valid(h)
    <3>1. h.slot \in Slot \ S /\ pool.live[h.slot]
      BY <1>5, <2>2, HandleSlot DEF Valid
    <3> QED
      BY <3>1, SameText
  <2> QED
    BY <2>1, <2>2
<1>6. Status' = Status
  BY <1>3 DEF Status
<1>7. \A h \in Handle : IF h \in H THEN Independent!Continues(Texts'[h], Texts[h])
                                   ELSE Texts'[h] = Texts[h]
  <2>1. \A h \in Handle : Texts'[h] = TextOf(h)' /\ Texts[h] = TextOf(h)
    BY DEF Texts
  <2> HIDE DEF H
  <2>2. H \subseteq Handle
    BY DEF H
  <2> QED
    BY <1>4, <1>5, <2>1, <2>2
<1> QED
  BY <1>1, <1>6, <1>7 DEF Appends

LEMMA SnapshotAppends ==
  ASSUME JInv, NEW h \in Handle, ImportSnapshot(h)
  PROVE  \E H \in SUBSET Handle : Appends(H)
<1>1. PICK s \in Slot : s = h.slot
  BY HandleSlot
<1>2. /\ pool.live[s] /\ imported[s] > 0 /\ kv' = kv /\ generation' = generation
      /\ pool' = MoveTo(pool, s, imported[s])
  BY <1>1 DEF ImportSnapshot, Valid
<1>3. /\ pool \in Pool /\ imported[s] \in Nat /\ pool.past[s] = 0
      /\ imported[s] <= Ctx
  BY <1>2, InvFacts DEF JInv, IInv, RestoreInv, Imports
<1>4. /\ pool'.live = pool.live /\ pool'.table = pool.table
      /\ pool'.past = [pool.past EXCEPT ![s] = imported[s]]
  BY <1>2, <1>3, PoolFields DEF MoveTo, Pool
<1>5. \A t \in Slot \ {s} : Keeps(t)
  BY <1>2, <1>3, <1>4, PoolFields DEF Keeps
<1>6. /\ pool'.past[s] = imported[s] /\ pool.past[s] < imported[s]
      /\ \A r \in Nat : r < imported[s] => RowOf(kv', pool'.table[s], r) \in Token
  BY <1>2, <1>3, <1>4, PoolFields DEF JInv, Imports
<1>7. \A t \in {s} : \E n \in Nat :
        /\ pool'.past[t] = n /\ pool.past[t] < n /\ n <= Ctx
        /\ \A r \in Nat : r < pool.past[t]
             => RowOf(kv', pool'.table[t], r) = RowOf(kv, pool.table[t], r)
        /\ \A r \in Nat : pool.past[t] <= r /\ r < n
             => RowOf(kv', pool'.table[t], r) \in Token
  BY <1>2, <1>3, <1>4, <1>6
<1>8. {s} \in SUBSET Slot
  OBVIOUS
<1> QED
  BY <1>2, <1>4, <1>5, <1>7, <1>8, AppendsMaps DEF JInv

LEMMA BatchAppends ==
  ASSUME JInv, RunBatch
  PROVE  \E H \in SUBSET Handle : Appends(H)
<1> DEFINE S == DOMAIN inputs
<1>1. S \in SUBSET Slot
  BY InvFacts DEF JInv
<1>2. /\ pool \in Pool /\ generation' = generation
      /\ \A t \in S : pool.live[t]
  BY InvFacts DEF JInv, IInv, BatchInv, RunBatch
<1>3. /\ pool'.live = pool.live /\ pool'.table = pool.table
      /\ \A t \in Slot : pool'.past[t] = IF t \in S THEN EndOf(inputs, t)
                                          ELSE pool.past[t]
  BY <1>2 DEF RunBatch, Pool
<1>4. \A t \in Slot \ S : pool.live[t] => Keeps(t)
  BY <1>3, RunRows DEF Keeps, JInv
<1>5. ASSUME NEW t \in S
      PROVE  EndOf(inputs, t) \in Nat /\ pool.past[t] < EndOf(inputs, t)
             /\ EndOf(inputs, t) <= Ctx
  <2>1. Len(inputs[t]) \in Nat /\ Len(inputs[t]) > 0 /\ pool.past[t] \in Nat
    BY <1>1, <1>2, InvFacts, SegmentFacts, PoolFields DEF JInv
  <2> QED
    BY <2>1 DEF EndOf, JInv, Ends
<1>6. \A t \in S : \E n \in Nat :
        /\ pool'.past[t] = n /\ pool.past[t] < n /\ n <= Ctx
        /\ \A r \in Nat : r < pool.past[t]
             => RowOf(kv', pool'.table[t], r) = RowOf(kv, pool.table[t], r)
        /\ \A r \in Nat : pool.past[t] <= r /\ r < n
             => RowOf(kv', pool'.table[t], r) \in Token
  <2> TAKE t \in S
  <2>1. t \in Slot /\ pool.live[t] /\ pool'.past[t] = EndOf(inputs, t)
    BY <1>1, <1>2, <1>3
  <2>2. /\ \A r \in Nat : r < pool.past[t]
             => RowOf(kv', pool'.table[t], r) = RowOf(kv, pool.table[t], r)
        /\ \A r \in Nat : pool.past[t] <= r /\ r < EndOf(inputs, t)
             => RowOf(kv', pool'.table[t], r) \in Token
    BY <1>3, <2>1, RunRows DEF JInv
  <2> QED
    BY <1>5, <2>1, <2>2
<1> QED
  BY <1>1, <1>2, <1>3, <1>4, <1>6, AppendsMaps DEF JInv

\* All other steps show nothing.
LEMMA OthersShowNothing ==
  ASSUME JInv,
         \/ \E h \in Handle, rows \in Segment : ImportRows(h, rows)
         \/ \E h \in Handle : RestoreFailed(h)
         \/ \E in \in BatchInput : BeginBatch(in)
         \/ \E s \in DOMAIN inputs : PrepareNext(s)
         \/ UNCHANGED vars
  PROVE  Status' = Status /\ Texts' = Texts
<1> SUFFICES /\ generation' = generation /\ pool'.live = pool.live
             /\ \A t \in Slot : pool.live[t] => Keeps(t)
  BY SameMaps DEF JInv
<1>1. /\ pool \in Pool /\ PoolInv(pool) /\ DOMAIN inputs \subseteq Slot
      /\ \A s \in DOMAIN inputs : inputs[s] \in Segment
  BY InvFacts DEF JInv
<1>2. ASSUME NEW h \in Handle, NEW rows \in Segment, ImportRows(h, rows)
      PROVE  /\ generation' = generation /\ pool'.live = pool.live
             /\ \A t \in Slot : pool.live[t] => Keeps(t)
  <2>1. generation' = generation
    BY <1>2 DEF ImportRows
  <2> QED
    BY <1>2, <2>1, ImportedRows DEF Keeps
<1>3. ASSUME NEW h \in Handle, RestoreFailed(h)
      PROVE  /\ generation' = generation /\ pool'.live = pool.live
             /\ \A t \in Slot : pool.live[t] => Keeps(t)
  <2>1. PICK s \in Slot : s = h.slot
    BY HandleSlot
  <2>2. /\ pool.live[s] /\ imported[s] > 0 /\ kv' = kv /\ generation' = generation
        /\ pool' = MoveTo(pool, s, 0)
    BY <1>3, <2>1 DEF RestoreFailed, Valid
  <2>3. pool.past[s] = 0
    BY <2>2 DEF JInv, IInv, RestoreInv
  <2>4. pool'.live = pool.live /\ pool'.table = pool.table /\ pool'.past = pool.past
    BY <1>1, <2>2, <2>3, PoolFields DEF MoveTo, Pool
  <2> QED
    BY <2>2, <2>4 DEF Keeps
<1>4. ASSUME NEW in \in BatchInput, BeginBatch(in)
      PROVE  /\ generation' = generation /\ pool'.live = pool.live
             /\ \A t \in Slot : pool.live[t] => Keeps(t)
  BY <1>4 DEF BeginBatch, Keeps
<1>5. ASSUME NEW s \in DOMAIN inputs, PrepareNext(s)
      PROVE  /\ generation' = generation /\ pool'.live = pool.live
             /\ \A t \in Slot : pool.live[t] => Keeps(t)
  BY <1>5, PreparedRows DEF Keeps
<1>6. CASE UNCHANGED vars
  BY <1>6 DEF vars, Keeps
<1> QED
  BY <1>2, <1>3, <1>4, <1>5, <1>6

-----------------------------------------------------------------------------
(***************************************************************************)
(* The inductive invariant                                                 *)
(***************************************************************************)
LEMMA IdleEnds ==
  ASSUME IInv, NoBatchRuns, inputs' = inputs
  PROVE  Ends'
  BY NoBatchFacts DEF Ends

\* Where no restore starts or goes on, and what was brought in stays.
LEMMA ImportsStay ==
  ASSUME JInv,
         \A t \in Slot : imported'[t] = imported[t] \/ imported'[t] = 0,
         \A t \in Slot : pool'.live[t] /\ imported'[t] > 0
           => /\ pool.live[t]
              /\ \A r \in Nat : r < imported[t]
                   => RowOf(kv', pool'.table[t], r) = RowOf(kv, pool.table[t], r)
  PROVE  Imports'
<1> SUFFICES ASSUME NEW t \in Slot
             PROVE  /\ imported'[t] <= Ctx
                    /\ pool'.live[t] => \A r \in Nat : r < imported'[t]
                                         => RowOf(kv', pool'.table[t], r) \in Token
  BY DEF Imports
<1>1. CASE imported'[t] = 0
  BY <1>1, CtxAssumption
<1>2. CASE imported'[t] = imported[t]
  <2>1. imported[t] \in Nat /\ imported[t] <= Ctx
    BY InvFacts DEF JInv, Imports
  <2>2. ASSUME pool'.live[t], NEW r \in Nat, r < imported'[t]
        PROVE  RowOf(kv', pool'.table[t], r) \in Token
    <3>1. imported'[t] > 0 /\ r < imported[t]
      BY <1>2, <2>1, <2>2
    <3>2. /\ pool.live[t]
          /\ RowOf(kv', pool'.table[t], r) = RowOf(kv, pool.table[t], r)
      BY <2>2, <3>1
    <3> QED
      BY <3>1, <3>2 DEF JInv, Imports
  <2> QED
    BY <1>2, <2>1, <2>2
<1> QED
  BY <1>1, <1>2

LEMMA InitExtra == Init => JInv
<1> SUFFICES ASSUME Init PROVE JInv
  OBVIOUS
<1>1. Ends
  BY DEF Init, NoBatch, Ends
<1>2. Imports
  BY CtxAssumption DEF Init, Imports, EmptyPool
<1> QED
  BY <1>1, <1>2, InitInv DEF JInv

LEMMA OpenKeepsExtra ==
  ASSUME JInv, NEW c \in Slot,
         AllocateSequence(c) \/ \E h \in Handle : ForkSequence(h, c)
  PROVE  Imports' /\ Ends'
<1>1. /\ NoBatchRuns /\ inputs' = inputs /\ kv' = kv
      /\ imported' = [imported EXCEPT ![c] = 0]
  BY DEF AllocateSequence, ForkSequence
<1>2. pool \in Pool /\ imported \in [Slot -> Nat]
  BY InvFacts DEF JInv
<1>3. \A t \in Slot \ {c} : /\ pool'.live[t] = pool.live[t]
                            /\ pool'.table[t] = pool.table[t]
                            /\ imported'[t] = imported[t]
  <2>1. CASE AllocateSequence(c)
    BY <1>1, <1>2, <2>1, PoolFields DEF AllocateSequence, Allocate
  <2>2. CASE \E h \in Handle : ForkSequence(h, c)
    BY <1>1, <1>2, <2>2, PoolFields DEF ForkSequence, Fork
  <2> QED
    BY <2>1, <2>2
<1>4. imported'[c] = 0
  BY <1>1, <1>2
<1>5. Imports'
  BY <1>1, <1>2, <1>3, <1>4, ImportsStay
<1> QED
  BY <1>1, <1>5, IdleEnds DEF JInv

LEMMA ReleaseKeepsExtra ==
  ASSUME JInv, NEW h \in Handle, ReleaseSequence(h)
  PROVE  Imports' /\ Ends'
<1>1. PICK s \in Slot : s = h.slot
  BY HandleSlot
<1>2. /\ NoBatchRuns /\ inputs' = inputs /\ kv' = kv /\ imported' = imported
      /\ pool' = Release(pool, s)
  BY <1>1 DEF ReleaseSequence
<1>3. pool \in Pool
  BY InvFacts DEF JInv
<1>4. ~pool'.live[s] /\ \A t \in Slot \ {s} : /\ pool'.live[t] = pool.live[t]
                                           /\ pool'.table[t] = pool.table[t]
  BY <1>2, <1>3, PoolFields DEF Release
<1>5. Imports'
  BY <1>2, <1>4, ImportsStay
<1> QED
  BY <1>2, <1>5, IdleEnds DEF JInv

LEMMA ImportKeepsExtra ==
  ASSUME JInv, NEW h \in Handle, NEW rows \in Segment, ImportRows(h, rows)
  PROVE  Imports' /\ Ends'
<1>1. PICK s \in Slot : s = h.slot
  BY HandleSlot
<1>2. NoBatchRuns /\ inputs' = inputs
  BY DEF ImportRows
<1>3. /\ pool'.live = pool.live
      /\ imported' = [imported EXCEPT ![s] = imported[s] + Len(rows)]
      /\ imported'[s] <= Ctx
      /\ \A t \in Slot : \A r \in Nat :
           pool.live[t] /\ (r < pool.past[t] \/ r < imported[t])
           => RowOf(kv', pool'.table[t], r) = RowOf(kv, pool.table[t], r)
      /\ \A r \in Nat : imported[s] <= r /\ r < imported'[s]
           => RowOf(kv', pool'.table[s], r) \in Token
  BY <1>1, ImportedRows
<1>4. imported \in [Slot -> Nat]
  BY InvFacts DEF JInv
<1>5. ASSUME NEW t \in Slot
      PROVE  /\ imported'[t] <= Ctx
             /\ pool'.live[t] => \A r \in Nat : r < imported'[t]
                                  => RowOf(kv', pool'.table[t], r) \in Token
  <2>1. \A r \in Nat : pool'.live[t] /\ r < imported[t]
           => RowOf(kv', pool'.table[t], r) \in Token
    BY <1>3 DEF JInv, Imports
  <2>2. CASE t = s
    BY <1>3, <1>4, <2>1, <2>2
  <2>3. CASE t # s
    <3>1. imported'[t] = imported[t] /\ imported[t] <= Ctx
      BY <1>3, <1>4, <2>3 DEF JInv, Imports
    <3> QED
      BY <2>1, <3>1
  <2> QED
    BY <2>2, <2>3
<1>6. Imports'
  BY <1>5 DEF Imports
<1> QED
  BY <1>2, <1>6, IdleEnds DEF JInv

LEMMA MoveKeepsExtra ==
  ASSUME JInv, NEW h \in Handle, ImportSnapshot(h) \/ RestoreFailed(h)
  PROVE  Imports' /\ Ends'
<1>1. PICK s \in Slot : s = h.slot
  BY HandleSlot
<1>2. /\ NoBatchRuns /\ inputs' = inputs /\ kv' = kv
      /\ imported' = [imported EXCEPT ![s] = 0]
      /\ pool' = MoveTo(pool, s, imported[s]) \/ pool' = MoveTo(pool, s, 0)
  BY <1>1 DEF ImportSnapshot, RestoreFailed
<1>3. pool \in Pool /\ imported \in [Slot -> Nat]
  BY InvFacts DEF JInv
<1>4. pool'.live = pool.live /\ pool'.table = pool.table
  BY <1>2, <1>3 DEF MoveTo, Pool
<1>5. Imports'
  BY <1>2, <1>3, <1>4, ImportsStay
<1> QED
  BY <1>2, <1>5, IdleEnds DEF JInv

LEMMA BatchKeepsExtra ==
  ASSUME JInv,
         \/ \E in \in BatchInput : BeginBatch(in)
         \/ \E s \in DOMAIN inputs : PrepareNext(s)
         \/ RunBatch
         \/ UNCHANGED vars
  PROVE  Imports' /\ Ends'
<1>1. CASE \E in \in BatchInput : BeginBatch(in)
  <2>1. PICK in \in BatchInput : BeginBatch(in)
    BY <1>1
  <2>2. pool' = pool /\ kv' = kv /\ imported' = imported /\ inputs' = in
    BY <2>1 DEF BeginBatch
  <2>3. Imports'
    BY <2>2, ImportsStay
  <2>4. \A s \in DOMAIN in : EndOf(in, s) <= Ctx
    BY <2>1 DEF BeginBatch, BatchOk
  <2> QED
    BY <2>2, <2>3, <2>4 DEF Ends, EndOf
<1>2. CASE \E s \in DOMAIN inputs : PrepareNext(s)
  <2>1. PICK s \in DOMAIN inputs : PrepareNext(s)
    BY <1>2
  <2>2. Imports'
    BY <2>1, PreparedRows, ImportsStay
  <2> QED
    BY <2>1, <2>2, PreparedRows DEF JInv, Ends, EndOf
<1>3. CASE RunBatch
  <2>1. imported' = imported /\ inputs' = NoBatch
    BY <1>3 DEF RunBatch
  <2>2. pool'.live = pool.live /\ pool'.table = pool.table
    BY <1>3, InvFacts DEF JInv, RunBatch, Pool
  <2>3. Imports'
    BY <1>3, <2>1, <2>2, RunRows, ImportsStay DEF JInv
  <2> QED
    BY <2>1, <2>3 DEF Ends, NoBatch
<1>4. CASE UNCHANGED vars
  BY <1>4 DEF JInv, Imports, Ends, EndOf, vars
<1> QED
  BY <1>1, <1>2, <1>3, <1>4

LEMMA NextExtra == JInv /\ [Next]_vars => JInv'
<1> SUFFICES ASSUME JInv, [Next]_vars PROVE JInv'
  OBVIOUS
<1>1. IInv'
  BY NextInv DEF JInv
<1>2. Imports' /\ Ends'
  BY OpenKeepsExtra, ReleaseKeepsExtra, ImportKeepsExtra, MoveKeepsExtra, BatchKeepsExtra
  DEF Next
<1> QED
  BY <1>1, <1>2 DEF JInv

-----------------------------------------------------------------------------
(***************************************************************************)
(* The refinement                                                          *)
(***************************************************************************)
LEMMA InitMaps == Init => Independent!Init
<1> SUFFICES ASSUME Init PROVE Independent!Init
  OBVIOUS
<1>1. ASSUME NEW h \in Handle
      PROVE  StatusOf(h) = "unborn" /\ TextOf(h) = << >>
  <2>1. h.generation > 0 /\ generation[h.slot] = 0 /\ pool.live[h.slot] = FALSE
    BY HandleSlot, GenerationAssumption DEF Init, EmptyPool, Handle
  <2> QED
    BY <2>1 DEF StatusOf, TextOf, Valid
<1> QED
  BY <1>1 DEF Independent!Init

LEMMA OpenMaps ==
  ASSUME JInv,
         \/ \E s \in Slot : AllocateSequence(s)
         \/ \E h \in Handle : \E c \in Slot : ForkSequence(h, c)
         \/ \E h \in Handle : ReleaseSequence(h)
  PROVE  Independent!Next
<1>1. CASE \E s \in Slot : AllocateSequence(s)
  <2>1. PICK h \in Handle : /\ Status[h] = "unborn"
                            /\ Status' = [Status EXCEPT ![h] = "open"]
                            /\ Texts' = [Texts EXCEPT ![h] = << >>]
    BY <1>1, AllocateOpens DEF JInv
  <2>2. Independent!Allocate(h)
    BY <2>1 DEF Independent!Allocate, Independent!Opens, Status, Texts
  <2> QED
    BY <2>2 DEF Independent!Next
<1>2. CASE \E h \in Handle : \E c \in Slot : ForkSequence(h, c)
  <2>1. PICK parent \in Handle : \E c \in Slot : ForkSequence(parent, c)
    BY <1>2
  <2>2. Status[parent] = "open"
    BY <2>1, ForkOpens DEF JInv
  <2>3. PICK h \in Handle : /\ Status[h] = "unborn"
                            /\ Status' = [Status EXCEPT ![h] = "open"]
                            /\ Texts' = [Texts EXCEPT ![h] = Texts[parent]]
    BY <2>1, ForkOpens DEF JInv
  <2>4. Independent!Fork(parent, h)
    BY <2>2, <2>3
    DEF Independent!Fork, Independent!Open, Independent!Opens, Status, Texts
  <2> QED
    BY <2>4 DEF Independent!Next
<1>3. CASE \E h \in Handle : ReleaseSequence(h)
  <2>1. PICK h \in Handle : ReleaseSequence(h)
    BY <1>3
  <2>2. /\ Status[h] = "open"
        /\ Status' = [Status EXCEPT ![h] = "closed"]
        /\ Texts' = [Texts EXCEPT ![h] = << >>]
    BY <2>1, ReleaseCloses DEF JInv
  <2>3. Independent!Release(h)
    BY <2>2 DEF Independent!Release, Independent!Open, Status, Texts
  <2> QED
    BY <2>3 DEF Independent!Next
<1> QED
  BY <1>1, <1>2, <1>3

LEMMA AppendMaps ==
  ASSUME JInv, (\E h \in Handle : ImportSnapshot(h)) \/ RunBatch
  PROVE  Independent!Next
<1>1. PICK H \in SUBSET Handle : Appends(H)
  BY SnapshotAppends, BatchAppends
<1>2. Independent!Append_(H)
  BY <1>1 DEF Appends, Independent!Append_, Independent!Open, Status, Texts
<1> QED
  BY <1>2 DEF Independent!Next

LEMMA StepMaps == JInv /\ [Next]_vars => [Independent!Next]_(Independent!vars)
<1> SUFFICES ASSUME JInv, [Next]_vars
             PROVE  Independent!Next \/ (Status' = Status /\ Texts' = Texts)
  BY DEF Independent!vars, Status, Texts
<1> QED
  BY OpenMaps, AppendMaps, OthersShowNothing DEF Next

\* Every handle reads exactly the rows appended through it or its ancestors,
\* whatever pages are shared, copied on write and reused, and a released
\* handle stays closed: sequence.rs and forward_batch implement the
\* independent sequences their callers are promised.
THEOREM IndependentImplemented == Spec => ImplementsIndependent
<1>1. Init => JInv /\ Independent!Init
  BY InitExtra, InitMaps
<1>2. JInv /\ [Next]_vars => JInv'
  BY NextExtra
<1>3. JInv /\ [Next]_vars => [Independent!Next]_(Independent!vars)
  BY StepMaps
<1> QED
  BY <1>1, <1>2, <1>3, PTL DEF Spec, ImplementsIndependent, Independent!Spec
=============================================================================
