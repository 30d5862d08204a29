------------------------------ MODULE Continuous ------------------------------
(***************************************************************************)
(* The continuous-batching scheduler: Engine::run_continuous of              *)
(* crates/tr-infer/src/server/continuous.rs, with the request handlers that *)
(* feed its queue (chat_completions of server/mod.rs) and the cache reader  *)
(* that restores prefixes (restore_async of server/prefix_cache.rs).        *)
(*                                                                         *)
(* The scheduler owns the model.  Its loop runs through the phases          *)
(*    top      drain the channel, drop cancelled waiting jobs               *)
(*    drop     cancel groups, forget finished ones, recompute reservations  *)
(*    admit    FIFO admission, one job per step                             *)
(*    restore  at most one staged cache object per group                    *)
(*    start    fork the choices of every prefilled group                    *)
(*    schedule choose the inputs of the next batch                          *)
(*    batch    run them in one forward_batch                                *)
(*    advance  sample the next token of one choice (from start or batch)    *)
(*    wait     nothing was scheduled                                        *)
(* Handlers and the reader act at any time.  Only the flags and channels    *)
(* they share with the loop are read by it, so a phase, or the part of one  *)
(* that reads a flag once, is one step.                                     *)
(*                                                                         *)
(* The model is SequencePool.  text is what a slot holds according to       *)
(* IndependentSequences, which PagedSequences implements; a sampled token   *)
(* is any token.                                                            *)
(***************************************************************************)
EXTENDS SequencePool, SequencesExt

CONSTANTS Job,            \* requests
          Prompt,         \* job -> its token ids
          NChoices,       \* job -> n
          MaxTokens,      \* job -> max_tokens
          SnapshotPoints, \* job -> prompt positions at which to snapshot
          Token,          \* vocabulary
          BatchMax,       \* rows of a batch
          PrefillChunk,   \* prompt rows of a batch that also decodes
          MaxQueue,       \* jobs counted as queued, at most
          Prefix          \* whether a prefix cache is attached

ASSUME BatchAssumption == BatchMax \in Nat /\ BatchMax > NSlots
ASSUME ChunkAssumption == PrefillChunk \in Nat \ {0}
ASSUME QueueAssumption == MaxQueue \in Nat \ {0}
ASSUME PrefixAssumption == Prefix \in BOOLEAN
ASSUME JobAssumption ==
  \A j \in Job : /\ Prompt[j] \in Seq(Token) \ {<< >>}
                 /\ NChoices[j] \in 1 .. NSlots
                 /\ MaxTokens[j] \in Nat \ {0}
                 /\ Len(Prompt[j]) + MaxTokens[j] <= Ctx
                 /\ SnapshotPoints[j] \subseteq 1 .. Len(Prompt[j])

VARIABLES
  client,    \* job -> where its handler is
  cancel,    \* job -> the flag shared with the engine
  queued,    \* the counter shared by handlers and engine
  channel,   \* the bounded channel of jobs
  hungUp,    \* the senders of the channel are gone
  staged,    \* job -> the reader has something for this job's restore
  pc,        \* phase of the loop
  at,        \* first group the restore or start phase has not visited
  todo,      \* choices to advance, as <<group, choice>>
  waiting, groups, closed, cursor, idle, scheduled, \* locals of run_continuous
  pool, text,                             \* the model
  done,      \* job -> choice -> Done events sent
  errors     \* job -> Error events sent

handlers == <<client, cancel, hungUp>>
loop == <<pc, at, todo, scheduled>>
answers == <<done, errors>>
vars == <<client, cancel, queued, channel, hungUp, staged, pc, at, todo,
          waiting, groups, closed, cursor, idle, scheduled, pool, text, done, errors>>

None == -1  \* no slot, no token

PromptLen(j) == Len(Prompt[j])
Unfinished(g) == {c \in DOMAIN g.choices : ~g.choices[c].finished}

\* Mutant: the pages of one choice are reserved, whatever n.
ContinuousPagesOnce(j, choices) ==
  PromptLen(j) \div PageTokens
  + PagesFor((PromptLen(j) % PageTokens) + MaxTokens[j])

\* continuous_pages(prompt, output, choices)
ContinuousPages(j, choices) ==
  PromptLen(j) \div PageTokens
  + choices * PagesFor((PromptLen(j) % PageTokens) + MaxTokens[j])

Credits == [i \in DOMAIN groups |-> groups[i].credits]

\* Mutant: the reservations of groups that were forked are forgotten.
UsedPagesOfRoots ==
  SumFunctionOnSet(Credits, {i \in DOMAIN groups : groups[i].root # None})

UsedPages == SumFunctionOnSet(Credits, DOMAIN groups)

\* The sequences a group may come to hold.
Sequences(g) == IF g.root # None THEN NChoices[g.job] ELSE Cardinality(Unfinished(g))
UsedSequences ==
  SumFunctionOnSet([i \in DOMAIN groups |-> Sequences(groups[i])], DOMAIN groups)

\* The elements of seq that are in S, in order.
Only(seq, S) ==
  LET f[n \in 0 .. Len(seq)] ==
        IF n = 0 THEN << >>
        ELSE IF seq[n] \in S THEN Append(f[n - 1], seq[n]) ELSE f[n - 1]
  IN  f[Len(seq)]

FirstDead(p) == CHOOSE s \in Slot : IsFirstDead(p, s)
CanAllocate(p) == \E s \in Slot : ~p.live[s]

\* prepare_sequence with some free pages.
PrepareAny(p, s, end) ==
  Prepare(p, s, end, CHOOSE new \in Picks(p.free, Needed(p, s, end)) : TRUE)

Init ==
  /\ client = [j \in Job |-> "new"]
  /\ cancel = [j \in Job |-> FALSE]
  /\ queued = 0
  /\ channel = << >>
  /\ hungUp = FALSE
  /\ staged = [j \in Job |-> FALSE]
  /\ pc = "top" /\ at = 1 /\ todo = << >>
  /\ waiting = << >> /\ groups = << >> /\ closed = FALSE /\ cursor = 0
  /\ idle = [seq |-> None, ids |-> << >>]
  /\ scheduled = << >>
  /\ pool = EmptyPool
  /\ text = [s \in Slot |-> << >>]
  /\ done = [j \in Job |-> [c \in 1 .. NChoices[j] |-> 0]]
  /\ errors = [j \in Job |-> 0]

-----------------------------------------------------------------------------
(***************************************************************************)
(* Request handlers and the cache reader                                   *)
(***************************************************************************)
\* Mutant: one request too many.
CountOneMore(j) ==
  /\ client[j] = "new"
  /\ ~hungUp
  /\ queued <= MaxQueue
  /\ queued' = queued + 1
  /\ client' = [client EXCEPT ![j] = "counted"]
  /\ UNCHANGED <<cancel, channel, hungUp, staged, loop, waiting, groups,
                 closed, cursor, idle, pool, text, answers>>

\* The handler counts its request, unless the queue is full (503) ...
Count(j) ==
  /\ client[j] = "new"
  /\ ~hungUp
  /\ queued < MaxQueue
  /\ queued' = queued + 1
  /\ client' = [client EXCEPT ![j] = "counted"]
  /\ UNCHANGED <<cancel, channel, hungUp, staged, loop, waiting, groups,
                 closed, cursor, idle, pool, text, answers>>

\* ... and sends the job, or gives the count back if the channel refuses it.
SendJob(j) ==
  /\ client[j] = "counted"
  /\ IF Len(channel) < MaxQueue
     THEN /\ channel' = Append(channel, j)
          /\ client' = [client EXCEPT ![j] = "sent"]
          /\ UNCHANGED queued
     ELSE /\ queued' = queued - 1
          /\ client' = [client EXCEPT ![j] = "refused"]
          /\ UNCHANGED channel
  /\ UNCHANGED <<cancel, hungUp, staged, loop, waiting, groups, closed,
                 cursor, idle, pool, text, answers>>

\* The handler leaves (CancelOnDrop), or the buffer of the job's events is
\* full (EventTx::send).
Cancel(j) ==
  /\ client[j] = "sent"
  /\ ~cancel[j]
  /\ cancel' = [cancel EXCEPT ![j] = TRUE]
  /\ UNCHANGED <<client, queued, channel, hungUp, staged, loop, waiting,
                 groups, closed, cursor, idle, pool, text, answers>>

\* The server drops its end of the channel.
HangUp ==
  /\ ~hungUp
  /\ \A j \in Job : client[j] # "counted"
  /\ hungUp' = TRUE
  /\ UNCHANGED <<client, cancel, queued, channel, staged, loop, waiting,
                 groups, closed, cursor, idle, pool, text, answers>>

Restoring(j) == \E i \in DOMAIN groups : groups[i].job = j /\ groups[i].restoring

\* The reader has put an object, an error or the end of the restore in j's
\* channel (which holds one).
Stage(j) ==
  /\ Restoring(j)
  /\ ~staged[j]
  /\ staged' = [staged EXCEPT ![j] = TRUE]
  /\ UNCHANGED <<handlers, queued, channel, loop, waiting, groups, closed,
                 cursor, idle, pool, text, answers>>

-----------------------------------------------------------------------------
(***************************************************************************)
(* The top of the loop                                                     *)
(***************************************************************************)
\* One Done event for every choice of the jobs J.
AllDone(J) ==
  [j \in Job |-> [c \in 1 .. NChoices[j] |->
                    done[j][c] + (IF j \in J THEN 1 ELSE 0)]]

Top ==
  LET jobs == waiting \o channel
      Dropped == {j \in Elems(jobs) : cancel[j]}
  IN  /\ pc = "top"
      /\ pc' = "drop"
      /\ waiting' = Only(jobs, {j \in Job : ~cancel[j]})
      /\ channel' = << >>
      /\ queued' = queued - Cardinality(Dropped)
      /\ done' = AllDone(Dropped)
      /\ closed' = (closed \/ hungUp)
      /\ UNCHANGED <<handlers, staged, at, todo, scheduled, groups, cursor,
                     idle, pool, text, errors>>

\* Mutant: the choices are forgotten.
HeldRoot(g) == IF g.root # None THEN {g.root} ELSE {}

\* What a group holds: its root, or its unfinished choices.
Held(g) == (IF g.root # None THEN {g.root} ELSE {})
           \cup {g.choices[c].seq : c \in Unfinished(g)}

Drop ==
  LET Gone == {i \in DOMAIN groups : cancel[groups[i].job]}
      kept == Only(groups, {g \in Elems(groups) : ~cancel[g.job] /\ Held(g) # {}})
      J(i) == groups[i].job
  IN  /\ pc = "drop"
      /\ pc' = "admit"
      /\ pool' = ReleaseAll(pool, UNION {Held(groups[i]) : i \in Gone})
      /\ done' = [j \in Job |-> [c \in 1 .. NChoices[j] |->
           done[j][c] +
           (IF \E i \in Gone : /\ J(i) = j
                               /\ (groups[i].root # None \/ c \in Unfinished(groups[i]))
            THEN 1 ELSE 0)]]
      /\ groups' = [i \in DOMAIN kept |->
           IF kept[i].root # None THEN kept[i]
           ELSE [kept[i] EXCEPT !.credits =
                   ContinuousPages(kept[i].job, Cardinality(Unfinished(kept[i])))]]
      /\ staged' = [j \in Job |-> staged[j] /\ \A i \in Gone : J(i) # j]
      /\ UNCHANGED <<handlers, queued, channel, at, todo, scheduled, waiting,
                     closed, cursor, idle, text, errors>>

-----------------------------------------------------------------------------
(***************************************************************************)
(* Admission                                                               *)
(***************************************************************************)
TooLarge(j) == \/ ContinuousPages(j, NChoices[j]) > Cardinality(Page)
               \/ NChoices[j] > NSlots

Fits(j) ==
  /\ ContinuousPages(j, NChoices[j]) <= Cardinality(Page) - UsedPages
  /\ NChoices[j] <= NSlots - UsedSequences

NewGroup(j, root, reused) ==
  [job |-> j, root |-> root, choices |-> << >>,
   credits |-> ContinuousPages(j, NChoices[j]),
   restoring |-> Prefix /\ reused = 0, imported |-> 0,
   logits |-> reused]  \* the position whose logits are at hand; 0: none

\* Whether the prompt of j continues the idle sequence.
Continues(j) == idle.seq # None /\ IsPrefix(idle.ids, Prompt[j])

\* The job at the head of the queue is refused for good, or admitted: the
\* idle sequence becomes its root if the prompt continues it, and is released
\* otherwise.
Admit ==
  /\ pc = "admit"
  /\ waiting # << >>
  /\ LET j == Head(waiting)
         hot == Continues(j)
         p == IF idle.seq = None \/ hot THEN pool ELSE Release(pool, idle.seq)
     IN  /\ TooLarge(j) \/ Fits(j)
         /\ waiting' = Tail(waiting)
         /\ queued' = queued - 1
         /\ IF TooLarge(j)
            THEN /\ errors' = [errors EXCEPT ![j] = @ + 1]
                 /\ UNCHANGED <<groups, idle, pool, text>>
            ELSE /\ idle' = [seq |-> None, ids |-> << >>]
                 /\ IF hot
                    THEN /\ groups' = Append(groups, NewGroup(j, idle.seq, Len(idle.ids)))
                         /\ UNCHANGED <<pool, text, errors>>
                    ELSE IF CanAllocate(p)
                    THEN /\ pool' = Allocate(p, FirstDead(p))
                         /\ text' = [text EXCEPT ![FirstDead(p)] = << >>]
                         /\ groups' = Append(groups, NewGroup(j, FirstDead(p), 0))
                         /\ UNCHANGED errors
                    ELSE /\ pool' = p
                         /\ errors' = [errors EXCEPT ![j] = @ + 1]
                         /\ UNCHANGED <<groups, text>>
  /\ UNCHANGED <<handlers, channel, staged, loop, closed, cursor, done>>

AdmitEnd ==
  /\ pc = "admit"
  /\ waiting # << >> => ~TooLarge(Head(waiting)) /\ ~Fits(Head(waiting))
  /\ pc' = "restore"
  /\ at' = 1
  /\ UNCHANGED <<handlers, queued, channel, staged, todo, scheduled, waiting,
                 groups, closed, cursor, idle, pool, text, answers>>

-----------------------------------------------------------------------------
(***************************************************************************)
(* Restores                                                                *)
(***************************************************************************)
\* The first group from at on that satisfies P; 0 if there is none.
FirstFrom(P(_)) ==
  LET Found == {i \in at .. Len(groups) : P(groups[i])}
  IN  IF Found = {} THEN 0 ELSE CHOOSE i \in Found : \A k \in Found : i <= k

NextRestoring == FirstFrom(LAMBDA g : g.restoring)

\* restore_failed: the root starts the prompt over, on the pages it has.
Restarted(g) == [g EXCEPT !.restoring = FALSE, !.imported = 0, !.logits = 0]

\* What the reader may have staged for group g: the next rows of the prompt,
\* the snapshot at the end of the rows, an error, or the end of the channel.
StagedFor(g) ==
  [kind : {"rows"}, end : g.imported + 1 .. PromptLen(g.job)]
  \cup (IF g.imported > 0 THEN {[kind |-> "snapshot", end |-> g.imported]} ELSE {})
  \cup {[kind |-> "error", end |-> 0], [kind |-> "closed", end |-> 0]}

\* Mutant: a reader that has nothing is waited for for ever.
RestoredStuck(g, object) ==
  CASE object.kind = "rows" ->
         IF PrepareOk(pool, g.root, object.end)
         THEN [g EXCEPT !.imported = object.end] ELSE Restarted(g)
    [] object.kind = "snapshot" ->
         [g EXCEPT !.logits = object.end, !.restoring = FALSE]
    [] object.kind = "error" -> Restarted(g)
    [] object.kind = "closed" -> IF g.imported > 0 THEN Restarted(g) ELSE g

Restored(g, object) ==
  CASE object.kind = "rows" ->
         IF PrepareOk(pool, g.root, object.end)
         THEN [g EXCEPT !.imported = object.end] ELSE Restarted(g)
    [] object.kind = "snapshot" ->
         [g EXCEPT !.logits = object.end, !.restoring = FALSE]
    [] object.kind = "error" -> Restarted(g)
    [] object.kind = "closed" ->
         IF g.imported > 0 THEN Restarted(g) ELSE [g EXCEPT !.restoring = FALSE]

\* The group at i finds something staged, or nothing yet.
Restore ==
  LET i == NextRestoring
      g == groups[i]
  IN  /\ pc = "restore"
      /\ i # 0
      /\ at' = i + 1
      /\ IF staged[g.job]
         THEN /\ staged' = [staged EXCEPT ![g.job] = FALSE]
              /\ \E object \in StagedFor(g) :
                   LET r == Restored(g, object)
                   IN  /\ groups' = [groups EXCEPT ![i] = r]
                       /\ IF r.imported > g.imported
                          THEN /\ pool' = PrepareAny(pool, g.root, object.end)
                               /\ UNCHANGED text
                          ELSE IF object.kind = "snapshot"
                          THEN /\ pool' = MoveTo(pool, g.root, object.end)
                               /\ text' = [text EXCEPT ![g.root] =
                                             SubSeq(Prompt[g.job], 1, object.end)]
                          ELSE /\ pool' = IF r = Restarted(g)
                                          THEN MoveTo(pool, g.root, 0) ELSE pool
                               /\ UNCHANGED text
         ELSE UNCHANGED <<staged, groups, pool, text>>
      /\ UNCHANGED <<handlers, queued, channel, pc, todo, scheduled, waiting,
                     closed, cursor, idle, answers>>

RestoreEnd ==
  /\ pc = "restore"
  /\ NextRestoring = 0
  /\ pc' = "start"
  /\ at' = 1
  /\ UNCHANGED <<handlers, queued, channel, staged, todo, scheduled, waiting,
                 groups, closed, cursor, idle, pool, text, answers>>

-----------------------------------------------------------------------------
(***************************************************************************)
(* Choices                                                                 *)
(***************************************************************************)
\* fail_group for the groups I: Error, and everything they hold is released.
FailGroups(I) ==
  /\ errors' = [j \in Job |->
       errors[j] + Cardinality({i \in I : groups[i].job = j})]
  /\ pool' = ReleaseAll(pool, UNION {Held(groups[i]) : i \in I})
  /\ groups' = [i \in DOMAIN groups |->
       IF i \notin I THEN groups[i]
       ELSE [groups[i] EXCEPT !.root = None, !.restoring = FALSE,
               !.choices = [c \in DOMAIN @ |-> [@[c] EXCEPT !.finished = TRUE]]]]
  /\ staged' = [j \in Job |-> staged[j] /\ \A i \in I : groups[i].job # j]

NextPrefilled ==
  FirstFrom(LAMBDA g : /\ g.root # None
                       /\ ~g.restoring
                       /\ pool.past[g.root] = PromptLen(g.job))

\* The pool after k forks of s, and the slots of the first k children.
Forked(s, k) ==
  LET f[m \in 0 .. k] ==
        IF m = 0 THEN [p |-> pool, slots |-> << >>]
        ELSE LET c == FirstDead(f[m - 1].p)
             IN  [p |-> Fork(f[m - 1].p, s, c), slots |-> Append(f[m - 1].slots, c)]
  IN  f[k]

\* start_choices.  The group fails if its logits are missing or a fork does
\* not find a slot; otherwise every choice is advanced in turn.
Start ==
  LET i == NextPrefilled
      g == groups[i]
      n == NChoices[g.job]
      dead == {s \in Slot : ~pool.live[s]}
      forked == Forked(g.root, n - 1)
      seqs == <<g.root>> \o forked.slots
  IN  /\ pc = "start"
      /\ todo = << >>
      /\ i # 0
      /\ at' = i + 1
      /\ IF g.logits = 0 \/ Cardinality(dead) < n - 1
         THEN FailGroups({i}) /\ UNCHANGED <<todo, text>>
         ELSE /\ groups' = [groups EXCEPT ![i] =
                   [g EXCEPT !.root = None, !.logits = 0,
                      !.choices = [c \in 1 .. n |->
                        [seq |-> seqs[c], pending |-> None, stepped |-> Prompt[g.job],
                         logits |-> g.logits, finished |-> FALSE]]]]
              /\ pool' = forked.p
              /\ text' = [s \in Slot |-> IF s \in Elems(forked.slots)
                                        THEN text[g.root] ELSE text[s]]
              /\ todo' = [c \in 1 .. n |-> <<i, c>>]
              /\ UNCHANGED <<staged, errors>>
      /\ UNCHANGED <<handlers, queued, channel, pc, scheduled, waiting,
                     closed, cursor, idle, done>>

StartEnd ==
  /\ pc = "start"
  /\ todo = << >>
  /\ NextPrefilled = 0
  /\ pc' = "schedule"
  /\ UNCHANGED <<handlers, queued, channel, staged, at, todo, scheduled,
                 waiting, groups, closed, cursor, idle, pool, text, answers>>

\* Mutant: the choice is not marked as finished.
FinishAgain(i, c, cancelled) ==
  LET g == groups[i]
      ch == g.choices[c]
  IN  /\ done' = [done EXCEPT ![g.job][c] = @ + 1]
      /\ groups' = [groups EXCEPT ![i].choices[c].pending = None]
      /\ IF cancelled
         THEN pool' = Release(pool, ch.seq) /\ UNCHANGED idle
         ELSE /\ pool' = IF idle.seq = None THEN pool ELSE Release(pool, idle.seq)
              /\ idle' = [seq |-> ch.seq, ids |-> ch.stepped]

\* finish_choice of choice c of group i; a choice that was not cancelled
\* becomes the idle sequence in place of the one before it.
Finish(i, c, cancelled) ==
  LET g == groups[i]
      ch == g.choices[c]
  IN  /\ done' = [done EXCEPT ![g.job][c] = @ + 1]
      /\ groups' = [groups EXCEPT ![i].choices[c] =
                      [@ EXCEPT !.finished = TRUE, !.pending = None]]
      /\ IF cancelled
         THEN pool' = Release(pool, ch.seq) /\ UNCHANGED idle
         ELSE /\ pool' = IF idle.seq = None THEN pool ELSE Release(pool, idle.seq)
              /\ idle' = [seq |-> ch.seq, ids |-> ch.stepped]

\* Tokens generated once the next one is pushed to the emitter.
Generated(g, ch) == Len(ch.stepped) - PromptLen(g.job) + 1

\* advance_choice: cancelled, or sample a token.  It is an end-of-turn token
\* or completes a stop string, or is the last one allowed, or stays pending.
Advance ==
  LET i == Head(todo)[1]
      c == Head(todo)[2]
      g == groups[i]
      ch == g.choices[c]
  IN  /\ pc \in {"start", "advance"}
      /\ todo # << >>
      /\ todo' = Tail(todo)
      /\ IF cancel[g.job] THEN Finish(i, c, TRUE)
         ELSE \/ Finish(i, c, FALSE)
              \/ /\ Generated(g, ch) < MaxTokens[g.job]
                 /\ \E t \in Token :
                      groups' = [groups EXCEPT ![i].choices[c].pending = t]
                 /\ UNCHANGED <<idle, pool, done>>
      /\ UNCHANGED <<handlers, queued, channel, staged, pc, at, scheduled,
                     waiting, closed, cursor, text, errors>>

AdvanceEnd ==
  /\ pc = "advance"
  /\ todo = << >>
  /\ pc' = "top"
  /\ UNCHANGED <<handlers, queued, channel, staged, at, todo, scheduled,
                 waiting, groups, closed, cursor, idle, pool, text, answers>>

-----------------------------------------------------------------------------
(***************************************************************************)
(* One batch                                                               *)
(***************************************************************************)
\* An input of the batch: the choice (0: the prompt) of a group, its sequence,
\* the tokens it appends and whether the logits of the last one are wanted.
Input(i, c, s, tokens, logits) ==
  [group |-> i, choice |-> c, seq |-> s, tokens |-> tokens, logits |-> logits]

\* Every choice with a pending token decodes it, in the order of the groups and
\* of their choices.
Places == [k \in 1 .. Len(groups) * NSlots |->
             <<(k - 1) \div NSlots + 1, ((k - 1) % NSlots) + 1>>]

Decodes ==
  LET Pending == {d \in Elems(Places) :
                    /\ d[2] \in Unfinished(groups[d[1]])
                    /\ groups[d[1]].choices[d[2]].pending # None}
      order == Only(Places, Pending)
  IN  [k \in DOMAIN order |->
         LET ch == groups[order[k][1]].choices[order[k][2]]
         IN  Input(order[k][1], order[k][2], ch.seq, <<ch.pending>>, TRUE)]

\* Where a prefill of group g that may use so many rows ends: at the end of
\* the prompt or at the next snapshot point, at the latest.
Ends(g, rows) ==
  {PromptLen(g.job), pool.past[g.root] + rows}
  \cup (IF Prefix THEN {p \in SnapshotPoints[g.job] : p > pool.past[g.root]} ELSE {})

ChunkEnd(g, rows) == CHOOSE e \in Ends(g, rows) : \A p \in Ends(g, rows) : e <= p

\* What is left of the batch goes to the prompts, in turn from the cursor on.
Turn(k) == ((cursor + k - 1) % Len(groups)) + 1

Prefills(budget) ==
  LET f[k \in 0 .. Len(groups)] ==
        IF k = 0 THEN [left |-> budget, inputs |-> << >>]
        ELSE LET b == f[k - 1]
                 g == groups[Turn(k)]
                 pos == pool.past[g.root]
                 end == ChunkEnd(g, b.left)
             IN  IF g.root # None /\ ~g.restoring /\ end > pos
                 THEN [left |-> b.left - (end - pos),
                       inputs |-> Append(b.inputs,
                         Input(Turn(k), 0, g.root,
                               SubSeq(Prompt[g.job], pos + 1, end),
                               \/ end = PromptLen(g.job)
                               \/ Prefix /\ end \in SnapshotPoints[g.job]))]
                 ELSE b
  IN  f[Len(groups)].inputs

Schedule ==
  LET left == BatchMax - Len(Decodes)
      budget == IF Decodes # << >> /\ PrefillChunk < left THEN PrefillChunk ELSE left
  IN  /\ pc = "schedule"
      /\ scheduled' = Decodes \o Prefills(budget)
      /\ cursor' = IF groups = << >> THEN cursor ELSE (cursor + 1) % Len(groups)
      /\ pc' = IF scheduled' = << >> THEN "wait" ELSE "batch"
      /\ UNCHANGED <<handlers, queued, channel, staged, at, todo, waiting,
                     groups, closed, idle, pool, text, answers>>

\* What forward_batch leaves: every input prepared, in order, and all of them
\* moved to their ends.
Prepared(p, ends) ==
  LET f[k \in 0 .. Len(scheduled)] ==
        IF k = 0 THEN p
        ELSE PrepareAny(f[k - 1], scheduled[k].seq, ends[scheduled[k].seq])
  IN  f[Len(scheduled)]

BatchRun(p, ends) ==
  [Prepared(p, ends) EXCEPT !.past =
     [s \in Slot |-> IF s \in DOMAIN ends THEN ends[s] ELSE p.past[s]]]

\* Mutants: the token is not recorded, or the logits are not.
OutputUnstepped(ch, x, end) == [ch EXCEPT !.logits = end]
OutputStale(ch, x, end) == [ch EXCEPT !.stepped = @ \o x.tokens]

\* A choice has stepped the tokens of its input x.
Output(ch, x, end) == [ch EXCEPT !.stepped = @ \o x.tokens, !.logits = end]

\* The inputs of the batch for choice c (0: the prompt) of group i.
InputsOf(i, c) == {x \in Elems(scheduled) : x.group = i /\ x.choice = c}

\* The outputs are applied to group i: a prompt may have got logits.
Outputs(i, ends) ==
  [groups[i] EXCEPT
     !.logits = IF \E x \in InputsOf(i, 0) : x.logits THEN ends[groups[i].root] ELSE @,
     !.choices = [c \in DOMAIN @ |->
        IF InputsOf(i, c) = {} THEN @[c]
        ELSE LET x == CHOOSE x \in InputsOf(i, c) : TRUE
             IN  Output(@[c], x, ends[x.seq])]]

\* forward_batch, its outputs, and the choices that are to be advanced.
Batch ==
  LET Seqs == {x.seq : x \in Elems(scheduled)}
      TokensOf(s) == (CHOOSE x \in Elems(scheduled) : x.seq = s).tokens
      ends == [s \in Seqs |-> pool.past[s] + Len(TokensOf(s))]
      decodes == Only(scheduled, {x \in Elems(scheduled) : x.choice # 0})
      Rows == SumFunctionOnSet([k \in DOMAIN scheduled |-> Len(scheduled[k].tokens)],
                               DOMAIN scheduled)
  IN  /\ pc = "batch"
      /\ IF Rows <= BatchMax /\ BatchOk(pool, ends)
         THEN /\ groups' = [i \in DOMAIN groups |-> Outputs(i, ends)]
              /\ pool' = BatchRun(pool, ends)
              /\ text' = [s \in Slot |-> IF s \in Seqs THEN text[s] \o TokensOf(s)
                                                     ELSE text[s]]
              /\ todo' = [k \in DOMAIN decodes |-> <<decodes[k].group, decodes[k].choice>>]
              /\ UNCHANGED <<staged, errors>>
         ELSE FailGroups(DOMAIN groups) /\ UNCHANGED <<todo, text>>
      /\ scheduled' = << >>
      /\ pc' = "advance"
      /\ UNCHANGED <<handlers, queued, channel, at, waiting, closed, cursor,
                     idle, done>>

-----------------------------------------------------------------------------
(***************************************************************************)
(* Nothing scheduled                                                       *)
(***************************************************************************)
Quiet == groups = << >> /\ waiting = << >>

\* With no work the loop ends once the senders are gone ...
Exit ==
  /\ pc = "wait"
  /\ Quiet
  /\ closed
  /\ pc' = "exit"
  /\ pool' = IF idle.seq = None THEN pool ELSE Release(pool, idle.seq)
  /\ idle' = [seq |-> None, ids |-> << >>]
  /\ UNCHANGED <<handlers, queued, channel, staged, at, todo, scheduled,
                 waiting, groups, closed, cursor, text, answers>>

\* ... and blocks for a job otherwise; with work it waits a millisecond.
Wait ==
  /\ pc = "wait"
  /\ Quiet => ~closed /\ (channel # << >> \/ hungUp)
  /\ pc' = "top"
  /\ \/ /\ channel # << >>
        /\ waiting' = Append(waiting, Head(channel))
        /\ channel' = Tail(channel)
        /\ UNCHANGED closed
     \/ /\ channel = << >>
        /\ closed' = (closed \/ hungUp)
        /\ UNCHANGED <<waiting, channel>>
  /\ UNCHANGED <<handlers, queued, staged, at, todo, scheduled, groups,
                 cursor, idle, pool, text, answers>>

-----------------------------------------------------------------------------
Engine ==
  \/ Top \/ Drop \/ Admit \/ AdmitEnd \/ Restore \/ RestoreEnd
  \/ Start \/ StartEnd \/ Schedule \/ Batch \/ Advance \/ AdvanceEnd \/ Exit \/ Wait

Next ==
  \/ \E j \in Job : Count(j) \/ SendJob(j) \/ Cancel(j) \/ Stage(j)
  \/ HangUp
  \/ Engine

\* forward_batch returns.  (Of the steps of Next only Batch leaves the phase, so
\* fairness of this is fairness of Batch; it is cheaper for TLC to evaluate.)
BatchReturns == pc = "batch" /\ pc' = "advance"

\* The engine thread runs (the actions of its phases exclude each other and
\* stay enabled until the engine moves, so each has weak fairness of its own),
\* a handler that has counted its request sends it, and the reader answers
\* every restore (its reads end, with an error if need be).  Nothing makes a
\* handler begin or cancel, or the server hang up.
EngineFairness ==
  /\ WF_vars(Top) /\ WF_vars(Drop)
  /\ WF_vars(Admit) /\ WF_vars(AdmitEnd)
  /\ WF_vars(Restore) /\ WF_vars(RestoreEnd)
  /\ WF_vars(Start) /\ WF_vars(StartEnd)
  /\ WF_vars(Schedule) /\ WF_pc(BatchReturns)
  /\ WF_vars(Advance) /\ WF_vars(AdvanceEnd)
  /\ WF_vars(Exit) /\ WF_vars(Wait)

Fairness == /\ EngineFairness
            /\ \A j \in Job : WF_vars(SendJob(j)) /\ WF_vars(Stage(j))

Spec == Init /\ [][Next]_vars /\ Fairness

-----------------------------------------------------------------------------
(***************************************************************************)
(* Correctness                                                             *)
(***************************************************************************)
InputType == [group : Nat, choice : Nat, seq : Slot, tokens : Seq(Token),
              logits : BOOLEAN]
ChoiceType == [seq : Slot, pending : Token \cup {None}, stepped : Seq(Token),
               logits : Nat, finished : BOOLEAN]
GroupType == [job : Job, root : Slot \cup {None}, choices : Seq(ChoiceType),
              credits : Nat, restoring : BOOLEAN, imported : Nat, logits : Nat]

TypeOK ==
  /\ client \in [Job -> {"new", "counted", "sent", "refused"}]
  /\ cancel \in [Job -> BOOLEAN] /\ staged \in [Job -> BOOLEAN]
  /\ queued \in 0 .. MaxQueue
  /\ channel \in Seq(Job) /\ waiting \in Seq(Job)
  /\ hungUp \in BOOLEAN /\ closed \in BOOLEAN
  /\ pc \in {"top", "drop", "admit", "restore", "start", "schedule", "batch",
             "advance", "wait", "exit"}
  /\ at \in Nat \ {0} /\ todo \in Seq((Nat \ {0}) \X (1 .. NSlots)) /\ cursor \in Nat
  /\ groups \in Seq(GroupType)
  /\ scheduled \in Seq(InputType)
  /\ idle \in [seq : Slot \cup {None}, ids : Seq(Token)]
  /\ pool \in Pool /\ text \in [Slot -> Seq(Token)]
  /\ \A j \in Job : done[j] \in [1 .. NChoices[j] -> Nat] /\ errors[j] \in Nat

\* Every live sequence is held by exactly one of: the root of a group, an
\* unfinished choice, the idle slot.  So none leaks and no release closes a
\* sequence someone still runs (every release ignores its result).
Holders(s) ==
  Cardinality({i \in DOMAIN groups : groups[i].root = s})
  + Cardinality({d \in (DOMAIN groups) \X (1 .. NSlots) :
                   /\ d[2] \in Unfinished(groups[d[1]])
                   /\ groups[d[1]].choices[d[2]].seq = s})
  + (IF idle.seq = s THEN 1 ELSE 0)

OneHolder == \A s \in Slot : Holders(s) = IF pool.live[s] THEN 1 ELSE 0

\* A sequence is reused, sampled from and saved under token ids that it really
\* holds: the idle sequence under its ids, a choice under what it stepped
\* (finish_choice saves c.stepped; admission reuses idle.ids), a root under the
\* prompt it has prefilled.
TextsAgree ==
  /\ idle.seq # None => text[idle.seq] = idle.ids
  /\ \A s \in Slot : pool.live[s] => pool.past[s] = Len(text[s])
  /\ \A i \in DOMAIN groups :
       LET g == groups[i]
       IN  /\ g.root # None => IsPrefix(text[g.root], Prompt[g.job])
           /\ \A c \in Unfinished(g) : text[g.choices[c].seq] = g.choices[c].stepped

\* A token is sampled from the logits of the last token its sequence holds,
\* never from those of a snapshot point or of a restore that failed.
LogitsCurrent ==
  \A k \in DOMAIN todo :
    LET ch == groups[todo[k][1]].choices[todo[k][2]]
    IN  ch.finished \/ ch.logits = Len(text[ch.seq])

\* The reservations are sound: the pages the unfinished work may come to need
\* and those only the idle sequence holds fit in the pool together
\* (continuous_pages, "reserve the whole requested group").
LiveCredits(g) ==
  IF g.root # None THEN g.credits
  ELSE ContinuousPages(g.job, Cardinality(Unfinished(g)))

GroupPages == UNION {UNION {PagesOf(pool, s) : s \in Held(groups[i])} : i \in DOMAIN groups}
IdlePages == IF idle.seq = None THEN {} ELSE PagesOf(pool, idle.seq)

LiveGroups == {i \in DOMAIN groups : Held(groups[i]) # {}}

Reservations ==
  SumFunctionOnSet([i \in DOMAIN groups |-> LiveCredits(groups[i])], LiveGroups)

ReservationsHold ==
  /\ Cardinality(GroupPages) <= Reservations
  /\ Reservations + Cardinality(IdlePages \ GroupPages) <= Cardinality(Page)

\* So an admitted request never fails for want of a slot or of pages: no
\* allocation, fork or batch of the scheduler is ever refused.
NeverExhausted == \A j \in Job : errors[j] > 0 => TooLarge(j)

\* The two together: what admission promised is kept, whatever the requests
\* share, copy, finish and give up one by one (run_continuous, used_pages).
CapacityKept == ReservationsHold /\ NeverExhausted

\* No choice is answered twice, and none both with Done and with Error.
AnswersOnce ==
  \A j \in Job : \A c \in 1 .. NChoices[j] : done[j][c] + errors[j] <= 1

\* The shared counter is the number of jobs on their way to admission, so the
\* channel has room for every request that was counted.
QueuedExact ==
  /\ queued = Cardinality({j \in Job : client[j] = "counted"})
              + Len(channel) + Len(waiting)
  /\ \A j \in Job : client[j] # "refused"

\* When the loop ends nothing is held and every job was answered.
Answered(j) == errors[j] > 0 \/ \A c \in 1 .. NChoices[j] : done[j][c] > 0

ExitClean ==
  pc = "exit" => /\ pool.free = Page
                 /\ \A s \in Slot : ~pool.live[s]
                 /\ \A j \in Job : client[j] = "sent" => Answered(j)

\* The three together: a request is counted, answered and uncounted once on every
\* path of the engine and of its handler, and nothing is held once the loop ends.
Accounted == AnswersOnce /\ QueuedExact /\ ExitClean

\* Every request that was sent is answered in full: no group waits for ever
\* for the reader, for a sibling, for its turn in the batch or behind a larger
\* request.
EveryJobAnswered == \A j \in Job : client[j] = "sent" ~> Answered(j)
=============================================================================
