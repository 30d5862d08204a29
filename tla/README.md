# tr-infer in TLA+

tr-infer serves one large language model from the CPUs of a NUMA machine: one pinned worker pool runs the
model, one engine thread owns it, and one thread per HTTP connection feeds the engine. This directory
specifies the parts of it that are protocols rather than arithmetic: who owns which page, sequence, slot,
buffer, token and reservation, in which order that changes, which memory two cores may touch at the same
time, and what a request may rely on.

## 1. Inventory

| Component | State | Operations | Hard because | Correct if |
|---|---|---|---|---|
| Page pool, resident sequences (`tr-model/src/sequence.rs`) | reference count per page, free list; per slot: live, generation, page table, position | allocate, release, fork, prepare (copy on write, grow), forward_batch (preflight, prepare each, run) | several sequences share pages and parallel workers store rows; a batch must not fail half way; handles are reused | counts are exact, rows are stored only in private pages, the preflight is exact, sharing is invisible |
| Continuous scheduler (`server/continuous.rs`) | waiting jobs, groups with choices, credits, idle sequence, cursor | drain, cancel, admit, restore, start, schedule, batch, advance, exit | handlers, cancellations and the cache reader act between any two phases; sequences pass from hand to hand and every release ignores its result | one owner per sequence, token ids agree with state, reservations suffice, every request answered |
| Serial engine, speculative decoding (`server/engine.rs`, `tr-model/src/spec.rs`) | model position, recorded tokens, kept logits, draft carry | reuse/restore, prefill, decode step, draft/verify/commit round, save | state survives the request; a round commits several tokens at once, emission may stop inside it | recorded tokens are the state, kept logits are the state's, the output follows the prompt, caps and phases hold |
| Sampler (`tr-model/src/sampler.rs`, `exec_mtp.rs`) | none | distributions, draws, candidates of a draft, acceptance and residual | distributed candidates, ties, rejection sampling | drafting changes no distribution |
| Request handlers, HTTP (`server/mod.rs`, `http.rs`) | queue counter, bounded channel, cancel flag, 256-event buffer, connection | read, check, count, send, receive, write, close | the last event may be the dropped one; clients stall and leave | an answer that claims success is whole, nobody waits for ever |
| Text of an answer (`Section`, `Emitter` of `engine.rs`, `server/tools.rs`) | windows of undecoded tokens, held-back text, parser buffer | push, flush, finish | stop strings, tags and characters are cut anywhere by tokens and events | cut in any way, an answer says what one reading of all its tokens says |
| Prompt (`server/chat.rs`, `server/images.rs`) | none | render, tokenise, expand images, find role spans | three loops shift the same positions | spans, ids and image rows stay aligned |
| Prefix cache front (`server/prefix_cache.rs`) | staging buffers, writer and reader threads, index lock | restore (sync, async), snapshot_now, save, write | index, backend and staging are locked separately; blocking takes | a restore gives exactly a prefix of the prompt; buffers come back; nobody waits for ever, unless for a buffer larger than the staging budget |
| Prefix cache store (`tr-cache`) | index (objects, LRU order, bytes), files | insert, evict, expire, best_restore, flush, open | crash between file and index; deletion can fail; eviction while a reader reads | bytes within the budget, lowest tier evicted first, no file is lost for good |
| Worker pool, barriers (`tr-sys/src/pool.rs`) | run, done, arrive, leader and release words, job slot | run, worker_main, barrier, node_barrier | one generation word for two kinds of barriers, words left over from earlier runs, a closure lent by address | nobody leaves before all arrived; the closure outlives its use; every run ends |
| SPMD executor (`exec.rs`, `exec_batch.rs`, `exec_mtp.rs`, `vision.rs`, `snapshot.rs`, `loader.rs`) | mailboxes, workspaces, recurrent state, caches | phases between barriers | buffers are rewritten a phase or two later, with as few barriers as possible | no two workers touch the same memory between barriers, one of them writing |
| Configuration, command line, pack format, platform, kernels, Python packer | none, or only at start-up | | | sequential, arithmetic or I/O |

How they interact: a handler counts its request and sends a `Job` down a bounded channel; the engine thread
takes it. In the serial engine the job runs alone on the model's only sequence; in the continuous engine the
scheduler gives it sequences of the page pool and mixes its rows with those of others in `forward_batch`.
Both ask the prefix cache for a stored prefix first, the serial engine synchronously, the scheduler through
a reader thread and a one-object channel per group, and hand what is worth keeping to a writer thread. Every
operation on the model is a closure that the worker pool runs on all cores. Events flow back through a
256-event buffer; a handler that goes away sets the job's cancel flag. The hazards of each part are listed
with their lines, and the properties that would catch them, in `PROJECT.json`.

## 2. Modules

| Module | Models | Remarks |
|---|---|---|
| `SequencePool` | `Pages` and the slot tables as a value; every operation is an operator on pools | shared by `PagedSequences`, `Continuous` and the proofs |
| `PagedSequences` | `sequence.rs` as a state machine over a pool, with the contents of the pages | each `prepare_sequence` of a batch is a step of its own |
| `IndependentSequences` | what `sequence.rs` promises: every handle has a text of its own | abstract, implemented by `PagedSequences` |
| `Continuous` | `run_continuous` with its helpers, the handlers' side of the queue, the asynchronous reader | over `SequencePool`; a sequence's contents are its text, as `IndependentSequences` allows |
| `SerialEngine` | `run_job`, with `Speculator::round` and the position bookkeeping of `step`, `step_batch`, `mtp_draft`, `verify`, `commit`, `reset` | one job after another on one state |
| `Sampler` | distributions, draws, draft candidates, acceptance | no state: operators, compared with reference definitions |
| `CacheIndex` | `Cache` of `tr-cache` as a value: insertion, eviction order, expiry, `best_restore`, opening | shared by `PrefixCache` |
| `PrefixCache` | the front end in both modes, the reader and the writer thread, staging, the files, crashes and restarts | each action holds one lock |
| `Machine`, `WorkerPool` | nodes and cores; the words of `pool.rs`, `run`, `worker_main` and the two barriers | every load and store of a word is a step |
| `Rendezvous` | what a barrier promises | abstract, implemented by `WorkerPool` |
| `Accesses` | regions of buffers, phases between barriers, when two phases clash | the vocabulary of the next five |
| `DecodeProgram`, `BatchProgram`, `DraftProgram`, `VisionProgram`, `StateProgram` | the run closures: single step; prefill, verify and batches; draft head; image encoder; closures that move rows, snapshots, pages, forks and the loaded pack | one operator per function of the executor, in its order |
| `Text`, `Emitter`, `ToolStream`, `Prompt` | decoding of tokens; `Section` and `Emitter`; the tool-call parser; from messages to ids, spans and image rows | operators, used by `Response` |
| `Response` | one request on a connection: handler, engine side, event channel, client | |
| `FoldFacts`, `SequencePoolProofs`, `PagedSequencesProofs`, `ContinuousProofs`, `CapacityProofs`, `SerialEngineProofs`, `WorkerPoolProofs`, `PrefixCacheProofs` | | the theorems of section 5 |
| `MCPagedSequences`, `MCContinuous`, `MCSerialEngine`, `MCSampler`, `MCPrefixCache`, `MCExecutor`, `MCResponse` | | constants of the instances |

Operators and actions carry the names of the functions they translate, or of the phase of the loop; `map` in
`PROJECT.json` gives the lines. Definitions marked "mutant" or "a bug" are plausible wrong versions of the
definition below them, used to show that a property can fail; nothing else refers to them.

### State correspondence

*Sequences.* `SequencePool!Pool` is `Pages::refs`, `Pages::free` (as a set: which free page is taken is left
open, so the results hold for any order of the stack), `Sequence::live`, `Sequence::pages`, `host.n_past`.
`PagedSequences` adds `generation`, the rows stored in the pages (`kv`; a row is the token it was computed
for), and the batch in flight (`inputs`, `ready`). `imported` is how many rows a restore has brought in before
its snapshot moves the position, a local of the scheduler.

*Scheduler.* `pc` is the phase; `groups`, `waiting`, `closed`, `cursor`, `idle` are the locals of
`run_continuous`; `at` and `todo` are the positions of its inner loops, so that other threads act between
two iterations; `staged` is the restore channel. Logits are the number of tokens after which they were
computed. `done` and `errors` count events. The loops of the code that filter a vector are `Only`, a fold that keeps
the order; `ReleaseAll` releases a set of sequences at once, in closed form (`ReleaseAllStep` proves that it is
one `release_sequence` after the other); `Prepared` folds `prepare_sequence` over the inputs of a batch, in order.

*Serial engine.* Logits and residuals are the text after which they were computed, `carry` is
`TileWs::mtp_carry` and `kept` is `mtp_carry_row` with the row it points at; `phase` cuts `run_job` at the
places where the cancel flag is read. A sampled token is any token, a draft chain is any chain the draft head
may produce, any number of drafts may be accepted, and an emitted token may complete a stop string if the
request has any: so nothing depends on what a sampler would choose.

*Sampler.* Probabilities are exact: weights are integers and a logit weighs a power of two instead of a power
of e; 32-bit rounding is not modelled. `SamplingSound` compares the nucleus, the distributed candidates and
the accept-or-replace rule with reference definitions; candidates dropped by the margin are outside it.

*Prefix cache.* A prefix key is the hash of everything before a position, so here it is the text before that
position; objects with a foreign root cannot arise. `order` stands for `index`, `lru` and `seq`; the dirty
flag of the flush is equivalent to comparing with what is stored. Which objects have been idle for longer
than their ttl is a free choice. A put is two steps, the temporary file and the rename, and `Deleted` lets any
part of a deletion fail, more than the loop that stops at the first failure. The staging budget (`st.budget`,
`--cache-staging-mib`) is any of `StagingSizes`: no size is rejected. In continuous mode the staging
buffers start warmed, as far as the budget goes (`warm_staging`); a take that does not wait may also find
the lock held (`try_lock`), and the write of the index may fail. The reuse of a state that is still resident is in `SerialEngine`.

*Pool.* `at`, `pos` and `gen` are a worker's place in the code and `WorkerCtx.gen`; the other variables are the
words of `NodeSync` and `Shared`. The loads acquire and the stores release, so interleavings are what the
code can show. A spin is a guard; a sleep in the futex is one too (the publish wakes it, or 50 ms do).

*Executor.* A closure is the sequence of its phases, each the set of regions a worker reads and writes. A
region is the part of a buffer that one core owns under some division; parts of different divisions of one
buffer are taken to overlap. Over-approximated: a remote read of part of a slot is a read of all of it, and
the embedding row is read by every tile that may own it. Left out: the private `CoreScratch`, the weights
(never written), the vector dumps, and the layer index in buffer names (layers share a workspace; what
differs per layer is touched by the same cores). Non-temporal stores take effect at once: the code
fences before each barrier. The task counter of the image encoder is atomic: taking a task is a read, the
reset a write, because only the reset needs ordering.

*Response.* The client, the channel, the handler's locals (`choices`, `hand`) and the wire (status, kind of
body, failed). The serial and the continuous engine differ in what they may do to a request; both are covered by
choosing freely which choice advances, when the flag is seen and, where only the scheduler can fail, whether
it does. Whether the queue is full is a free choice here and exact in `Continuous`. One request per
connection: a kept connection starts again. A half-closed client counts as gone. The two tag characters of
`OPEN` and `CLOSE` share their first symbol, so that one tag may begin like the other, and a block parses when it
begins with a function element.

### Granularity

The engine thread is the only one that touches the model, so a stretch of it that reads no shared flag twice
is one step. Handlers and the cache reader interleave between any two steps. In a batch the workers run in
parallel; in `PagedSequences` their stores are one step in which any one of the writers of a row wins, and
`WritesPrivate` shows that there is never more than one; in `WorkerPool` they run phase by phase, and
`NoRace` is about every pair of phases that do run at the same time, `Separated` about every pair that the
barriers of a closure allow to. `Response` reads the cancel flag before
each token; a speculative round reads it before a few, and what it adds after a dropped event is not claimed.

## 3. Runs

| Run | Question | Bounds | Result |
|---|---|---|---|
| `pool` | are counts, tables, private tails and the preflight exact | 3 slots, 3 pages of 2 rows, 3 rows per sequence, 2 generations, batches of 3 rows | holds |
| `independent` | is sharing invisible (refinement) | 2 slots, 3 pages of 2 rows, 2 tokens, 2 generations | holds |
| `restore` | the scheduler with a prefix cache, safety and liveness | 2 requests (2 choices, 1 choice), 2 slots, 6 pages of 2 rows | holds |
| `batch` | the scheduler under pressure, without a cache | 3 requests (2, 1 and 2 choices), 4 slots, 6 pages of 2 rows, batches of 5 rows | holds |
| `serial` | any sequence of requests on the serial engine, safety and liveness; the sampler | 3 tokens, prompts up to 4, context 5, 2 drafts; 5 tokens on 2 tiles of 2 cores | holds |
| `cache` | restores, budget, files and staging in both modes | 2 requests of a conversation, a budget of 9, a staging budget of 4 pages or of 1, queues of 1, 2 events (crash, restart, failure, expiry) | holds |
| `executor` | races, barriers, the lent closure | 2 tiles of 2 cores, on one socket or two, 16 closures, each after a run of `mtp_extend` | holds |
| `response` | is an answer whole, are prompts tiled, does everyone end | 1 request, answers of up to 5 tokens, a channel of 2 events, up to 2 choices, 9 pages, 3 images | holds |
| `stop_in_drafts` | `debug_assert_eq!(self.stepped.len(), self.model.n_past)` with stop strings and drafts | as `serial`, prompts up to 2 | violated |
| `cap_in_drafts` | `max_tokens` is a cap, with drafts | as above | violated, by one token |
| `phase_in_drafts` | settings switch on `</think>`, with drafts | as above | violated, by one token |
| `cancelled_as_stop` | `finish_reason` "stop" means an end of turn or a stop string | as `response` | violated |

Why the bounds are enough.

- *Sequences.* Pages of two rows have all the positions that matter (start, inside, full); three slots give a
  shared page a third holder, so a batch can hold the first, a middle and the last writer of a shared tail;
  two generations let every slot be reused once with an old handle in someone's hand.
- *Scheduler.* The requests have a one-token prompt, an odd prompt and a page-aligned prefix of each other, so
  the idle sequence is continued, matched in part and dismissed. In `batch` the pool has fewer pages than
  the requests want together, so reservations decide who is admitted; in `restore` it has exactly what both
  want, so the slots do.
- *Serial engine.* No number of requests is bounded: the state is bounded by the context window, so the run
  covers every sequence of requests, however long, over these prompts.
- *Sampler.* All 3^5 orders and ties of five logits for the candidates; for the draws, pairs of rows that
  agree, differ, tie and miss one another's tokens, with every cut of top-k and top-p between none and all.
- *Cache.* The second request extends the first, so it restores what the first saved; the budget holds less
  than the conversation, so insertions evict; a staging budget of 4 pages holds one large or a few small buffers, so
  takes block, and one of a page holds neither a snapshot nor a whole chunk, so takes that wait do so for ever
  and the others give up; two events are enough for a failure between any two steps followed by a crash, or a crash in a
  start after a crash.
- *Executor.* A race is between two workers: of one tile, or of two tiles on one socket or on two. The middle cores
  of a tile do what core 0 and the last core do, or less. A program without draft rows is a prefix of the one
  with them. One preceding run leaves generations in the words. Models have one or two tiles per socket, and as
  many K/V heads: one head held by both tiles, or one head each.
- *Response.* Each alphabet brings out one mechanism: tags in pieces, tags in one token, overlapping stop
  strings, thinking, characters of two tokens. A channel of two fills as one of 256 does. White space
  at the ends of texts around calls is formatting, and the comparison leaves it out. The client of a request marked
  `steady` reads on; the two-choice requests let it stall or go.

`MaxGeneration` and `MaxEvents` are caps the code does not have (generations are 64-bit counters; crashes and
failures may go on), and the executor's `Schedule` bounds the number of runs. Deadlock checking is off in `pool` and
`independent`, which stop when all generations are used; in the scheduler's runs, because the loop ends when
the senders are gone and blocks when it has nothing to do; in `cache` and `response`, where everything is
done after the last request. `serial` and `executor` are checked for deadlock. `Page` and `Token` are symmetric in
`PagedSequences`: no operation compares them other than for equality. Slots are not (the first dead one is
taken).

What the properties say is written above each of them. The ones that relate most: `CapacityKept` (admission counts
pages of requests that share, copy, finish and are cancelled one by one, and never counts the idle
sequence), `TextsAgree` (token ids and state agree at every hand-over), `OneHolder` (no leak, no double
release), `OutputFollows` (each pending token was drawn after exactly the prompt and the output so far,
whatever former requests left), `RestoreSound` (rows 1 to n and a snapshot at n, whatever was evicted
meanwhile), `NoRace` and `Separated` (buffers are rewritten with as few barriers as possible), and `WholeResponse`.

**Fairness.** Each phase of the scheduler is weakly fair: the engine thread runs, its phases exclude each
other, and nothing else disables them. A handler that has counted its request sends it (two adjacent
statements). The reader answers every restore it was given: its reads end, with an error if need be, or its
channel closes. Nothing is assumed of clients, cancellation or shutdown. The serial engine's steps are weakly
fair together: one thread, one statement after the other. In `PrefixCache` the engine, the reader and the writer
are weakly fair threads; in `Response` the engine is, and the handler only in the half of `NobodyWaits` that
speaks of it, because the engine's half must hold without. Both state fairness with the condition under which the
thread can go on, which for these actions is `ENABLED` written out. In `WorkerPool` one weak fairness for all
threads together is enough: a spin is not a step, so some thread that can move moves, and a run has finitely
many steps.

**A precondition that the program does not enforce.** `EngineServed` has one exception, `Oversized`. In serial
mode `restore_plan` and `save` take a staging buffer and wait for it (`prefix_cache.rs:64-88`). A buffer larger than the whole
`--cache-staging-mib` is never given, so the engine thread waits for ever, and every later request with it. Nothing
compares the two sizes: neither `CacheCfg::validate` (`config.rs:761`), nor `cache_opts` (`main.rs:789-806`), nor
`PrefixCache::open` (143-163), nor `Staging::new` (60-62), and the size of a snapshot depends on the model. The model
therefore accepts any budget, the run has one that is too small, and `EngineServed` says that this is the
only wait without an end: without the exception TLC shows a save that stutters for ever. It is not among the findings of
section 4 because no doc, comment or test promises otherwise; the default of 1024 MiB avoids it for models whose snapshot
is smaller. Continuous mode never waits for staging; there the object is left out.

## 4. Findings

1. *Stop string inside a round* (`stop_in_drafts`). The loop stops recording at the draft that completes a
   stop string, but the round has committed all accepted drafts to the model. The assertion at `engine.rs:469`
   fails in a debug build; in a release build the next request that extends the recorded tokens continues a
   state that holds more.
2. *Cap overrun* (`cap_in_drafts`). A round may use the whole remaining budget and its pending token is
   emitted before the cap is compared: `max_tokens + 1` tokens. `DraftsAlmostInvisible` shows it is never more.
3. *Phase of the pending token* (`phase_in_drafts`). After an accepted `</think>` draft the pending token has
   been drawn with the thinking settings. `DraftsAlmostInvisible` shows that it is only that token.
4. *Cancelled reported as stop* (`cancelled_as_stop`). When the event channel was full and the client drains it
   in time, the final event "cancelled" is delivered and reported as `finish_reason` "stop": an answer with a
   gap looks complete.

Observed without a run: a prefill of several rows after a committed round computes its first draft row from the
residual of the round's start (`exec_batch.rs:408`). Only the acceptance of drafts suffers, and no document
claims otherwise.

Without a draft head, or with one and without stop strings, `StateCovered` holds (`serial`).

## 5. Proofs

Every theorem holds for all values of the constants, under the assumptions named in the modules that declare
them.

**Paged sequences** (`PagedSequencesProofs`, resting on `SequencePoolProofs`): `TypeCorrect`,
`RefsAlwaysExact`, `TablesAlwaysSound`, `WritesAlwaysPrivate`, for any number of slots and pages, any page
size, context, batch size and vocabulary; assumed are finitely many pages, at least one slot, pages of at
least one row. None of these is inductive, so `IInv` adds `RestoreInv` (a sequence being restored has
position 0 and pages for the rows imported), `BatchInv` (inputs belong to live sequences that are not being
restored) and `ReadyInv` (every prepared input has pages for all its rows, and its own from the tail on).
`Inductive` proves `IInv` from one lemma per action. `AllocateSound`, `ReleaseSound`, `ForkSound`,
`CopyOnWriteSound`, `ExtendSound` and `MoveToSound` say that an operation on pools preserves `PoolInv` (exact
counts, distinct and covering tables); `TailPrivate`, `ExtendPrivate` and `PrivateLater` that a prepared tail
becomes and stays private while the other inputs of the batch are prepared. The counting steps (a page gains
or loses exactly one holder) are `CountMore` and `CountLess`.

`PreflightAlwaysSuffices` and `PreflightAlwaysExact` are about a sum over the inputs of a batch, so they rest on
`FoldFacts`: induction over the numbers and over the subsets of a finite set, stated with a set in place of the
operator parameter of the library's theorems (`NatInd`, `FiniteInd`), and what it shows of
`SumFunctionOnSet` (`SumAdd`, `SumRemove`, `SumLess` and so on). `PrepareNeed` is the step of the argument: preparing
one input lowers what the rest of the batch needs by exactly the pages it takes, because the copy it makes
leaves its siblings one holder less to copy from.

**What sequences promise** (the second part of `PagedSequencesProofs`): `IndependentImplemented`, that the paged
sequences implement `IndependentSequences` under the same assumptions. `RowOf` is the row a table finds.
`PrepareRows` shows that preparing a sequence moves the row from a shared page to its copy but changes what no
table finds; `ImportedRows` and `RunRows` that rows are stored where one table only finds them, and behind its
valid rows: two rows of a table never share a place (`RowsDiffer` with `TablesDistinct`), and the pages from the
tail on have one owner (`ReadyInv`). `JInv` adds to `IInv` that the rows of a restore under way are tokens
and that neither a restore nor a batch reaches beyond the context. The refinement mapping needs no more:
opening a slot opens the next handle of that slot only (`OpensMaps`), new rows continue the texts of the handles
they are for (`AppendsMaps`), and a restore before its snapshot, a failed one and the preparation of a batch
stutter (`OthersShowNothing`).

**Serial engine** (`SerialEngineProofs`): `StateAlwaysCovered`, `LogitsAlwaysOfState`, `OutputAlwaysFollows`,
`CancelledAlwaysAsked`, for any vocabulary, prompts, context window, batch size and number of drafts, and any
sequence of requests, under the assumption `NoStopsInDrafts` (no engine both drafts and is given stop strings;
without it finding 1 refutes the first three). Whether the next request may continue the state depends on what every
phase of the last one left behind, so `IInv` says which text the state and the logits stand for in
each phase: `InPrefill` (the state is a prefix of the prompt, and its logits are at hand once it is all of it),
`InLoop` (the state is the prompt and the output, the logits are its), `InStep` (the state is one token behind,
the pending one), `KnownLogits` (kept logits are those of the state or are marked absent) and `AskedFor`. There
is one lemma per action; `RoundStep` is where the assumption is needed, because only then are all the accepted
drafts recorded.

**Rounds of drafts** (the second part of `SerialEngineProofs`): `TypeAlwaysOK`, `DraftsAlwaysAlmostInvisible`,
`RoundsAlwaysSound`, under the same assumption. `RInv` bounds the output phase by phase (`Bounded`): a round accepts
at most what the pending token left of the cap, and the plain loop leaves the cap unreached, so the cap and the
context window are exceeded by the next pending token at most. `CarryOfState` says where the residual of the
last position is, in the workspace or in a row that the last batch kept: it is what a round drafts from,
through any mix of steps, commits, resets and restores. `RInv` is inductive together with `IInv`, and the
types, the context window among them, follow from the two.

**Worker pool** (`WorkerPoolProofs`): `PoolTypeOK`, `JobAlwaysAlive`, `BarriersImplemented`, `SeparatedNeverRaces`, for any number of
nodes and cores, any sequence of runs, and any closures whose workers take the same barriers as the leader of
their node and at most `GenBase` phases (`ProgramAssumption`: the contract of `pool.rs:84`, and the 2^32 generations of
a run). The inductive invariant `WInv` says where everyone is while a run goes on (`Runs`: a worker that is not
idle works for the current run, and its done word is older), that a generation counts the barriers entered since the
base of the run (`Execs`, `Gens`), and how far the words may be (`Words`): no word is ahead of a worker of
its node, and a release of a global barrier is ahead of nobody. The last part is the heart: the release word is shared
by the two kinds of barriers, and a number left in it by a node barrier must never let a worker out of a global one.
It holds because the workers of a node agree on the kind of their k-th barrier. `BarriersImplemented` then maps
each step: an arrival enters, a leader's crossing and a worker's release leave, the start of a run restarts the
count of a worker that nobody waits behind, all else stutters (`StepRefines`).
`SeparatedNeverRaces` divides `NoRace` between the pool and its closures: if each closure that is lent to `run` keeps apart the phases
that may meet (`Separated`: phases of two workers on one node meet if they are the same, on two nodes if no global
barrier lies between them), no two workers ever touch the same memory with a write. It needs that whoever a worker waited
for in an earlier phase of the run has entered that barrier too (`Met`), which is inductive with `WInv` because the rendezvous
keeps a worker in its barrier until then. So no ordering of loads, stores and wake-ups needs to be looked at for a new
closure: `Separated` depends on its phases alone.

**Continuous scheduler** (`ContinuousProofs`, on top of `SequencePoolProofs`): `SchedulerAlwaysTyped`,
`SchedulerAlwaysOneHolder`, `SchedulerAlwaysAgrees`, `SchedulerAlwaysCurrent`, `SchedulerAlwaysCounts`, for any number
of slots, pages and requests, any prompts, numbers of choices, caps, snapshot points, batch size and chunk size, with and
without a prefix cache, and whatever the handlers and the reader do between two phases; assumed are prompts that are not
empty, at least one and at most `NSlots` choices, and prompt plus cap within the context (what `prepare` admits), and
a batch larger than the number of slots. `SchedulerInv` is inductive (`SchedulerAlwaysSound`) and has three parts.
`EngineInv` is about what the scheduler owns: `World` says that the groups and the idle sequence hold the
live slots, each slot once (`HeldApart`, `HeldLive`), that the pool is sound, and that what a holder records is what
its slot contains (`RootSound`: a root has a prefix of its prompt, and the logits of its last token once it has all of
it; `ChoicesSound`); `TodoSound` that the choices to be advanced are unfinished, distinct and have current logits;
`BatchSound` that an input of the batch continues the prompt of a root or decodes one pending token. It needs all
of them together: a group fails or is dropped with everything it holds (`WorldKeep`), forks take dead
slots one after the other (`ForkedFacts`), and what a batch runs is what its inputs said when it was scheduled
(`BatchRunFacts`, `GroupRunSound`). `QueueInv` is about the requests on their way: the channel and the waiting list hold
distinct requests that were sent and have no group yet, the counter is their number plus those counted but not sent,
and once the senders are gone nobody is counted. `AnswerTypes` is the rest of the types. There is one lemma
per action and part (`AdmitKeeps`, `AdmitQueue`, ...). Filters and folds are recursive functions, so what they compute
for every input is proved by `NatInd` (`OnlySelects`, `PreparedFacts`, `PrefillFacts`).

**Reservations and answers** (`CapacityProofs`, on top of `ContinuousProofs`): `SchedulerAlwaysFits` and `SchedulerAlwaysAccounts`,
under the same assumptions. The reservations the code keeps (`credits`) are recomputed once per loop and are only a snapshot of
what a group may come to hold; between two recomputations choices end, siblings give up pages they share, a finished
choice's pages pass to the idle sequence, and a copy on write may be owed by one of several sharers. `CapacityInv` therefore
does not speak of credits but of a debt. A group owes `Base` pages, which all its sequences have in common and none of them will
ever copy (the full pages of the prompt), and `Allot` more for each sequence it still holds; `Debt` is the sum, and what only the
idle sequence holds beyond the groups' stable pages is charged to it (`Charged`: both fit in the pool). Four facts make this
inductive. `GroupFits` bounds what each sequence holds, so that what a group owns, and what it owns plus what one of its
sequences asks for next, never exceeds what it owes (`GroupOwns`, `GroupNeed`; a shared tail is counted by one of its sharers
only, and whoever copies it leaves it to the others). When a choice ends its share of the debt pays for the pages it takes
into the idle sequence (`CapacityPaid`, `CapacityIdle`), and the last one pays the stable pages too. `StepsLeft` says that a
choice that is not to be advanced has a row left below `max_tokens`, so a batch cannot ask for a page beyond its share.
`Reserved` says that during admission credits are the debt exactly, so what `admit` compares is what the proof counts;
`Seated` does for slots what `Charged` does for pages, and `Rows` keeps a batch within `BatchMax`. From these no allocation,
fork or batch of an admitted request is refused (`DeadEnough`, `BatchAccepted`), which is `NeverExhausted`. `AnswerInv`
then says of every choice that it has had one answer, or none exactly as long as its request is on its way or its group
runs it (`Waits`); it needs `CapacityInv`, because a group that fails after one of its choices is done would answer that one
twice. `Accounted` follows, with `QueueInv` for the end of the loop.

**Prefix cache** (`PrefixCacheProofs`): `IndexKeepsBudget`, `TypesHold`, `RestoresPrefix`, `StagingIsConserved`, `NothingLeaks`, `BudgetEvictsLowest`, for
any vocabulary, roles, tiers, chunk and snapshot sizes, budgets, queue capacities and sequence of requests, in both modes, with
any number of crashes, restarts and failures, and any staging budget, too small ones included; assumed are a chunk of at
least one token and a prompt that is a prefix of what its request becomes. The first half of the module says what the operators compute: totals and sums of sequences, the index
(`DroppedIs`, `TouchedIs`, `InsertEntryIs`, `EvictedIs`, `OpensIs`: what stays, that its names differ and that its bytes are
counted), the chain of a plan (`Tiles`: its chunks follow one another from 0 to the snapshot), the chunks of a text, and the
staging buffers (`Out(s)` are the pages that are not free: what `Taken` adds to them and `Given` takes away). Loops of the code
are recursive functions here, so each of these rests on `NatInd` or on an induction over sequences. `Shapes` is the invariant of the types:
which fields of a thread mean anything in which phase; all else needs it. On top of it there is one invariant per property.
`RestoreOk` follows a restore: what the engine has imported is rows 1 to n, and in continuous mode the message in the
channel, the rest of the reader's plan or the task in its queue starts where the engine is, of the prompt
the engine has, as long as somebody is listening (`RemoteOk`; at most one task is wanted, and a dropped
receiver leaves none). `Balanced` says that the pages out of staging are those of the engine, the reader, the writer, the writer's queue and the
channel; the budget follows from `Shapes`. `Listed` says that a file which is not in the index and a temporary file are on
somebody's list; it needs `ListsOk`: who deletes has taken the names out of the index, and the writer between rename and insert
has the name of its job. A failed deletion goes to `lost`, which a start empties together with the directory.
`BudgetEvictsLowest` needs no invariant of its own: the order of eviction is by tier (`EvictionByTier`) and what is evicted is
a first part of it (`EvictsLower`), so what stays is of no lower tier. The rest is that objects which go for another
reason are told apart: expired ones, and those without a file when the store is opened, where the index may be the one of an
earlier crash. There an object's name must say its role (`RoleByText`), or a file could come back in another tier.

Only model-checked: `Separated` (about sixteen concrete closures, which a finite instance covers) and `RunReturns`
(which also depends on them: tiles must agree on global barriers); `Response` (`ToolStream` declares a recursive operator,
so no theorem can be stated above it); the sampler (a comparison of recursive operators with their reference definitions,
on small vocabularies); and all liveness, which is out of the prover's reach (as are `ENABLED` and `RECURSIVE` operators).

## 6. Not modelled

- *Arithmetic*: kernels, floating-point rounding in the sampler, norms and attention.
- *Bytes*: layouts of objects and packs, JSON, the HTTP wire format, the wording of the template, of tool
  declarations and of error bodies, logging. The arguments of a tool call and a parser's tolerance for them.
- *Checks of a request that only look at one field* (sampling ranges, seeds, numbers of stop strings, names in
  tool declarations, unknown roles): pure predicates of `prepare` with the answer of the other refusals. `max_tokens` 0 is not
  distinguished from one left out.
- *A token of text and part of a character* after a cut at a stop string: a token of `Text` is one or the other.
- *Snapshots without logits*: for a prompt that is stored whole without them, `restore` plans once more for a shorter
  prefix (`prefix_cache.rs:220-224`); every snapshot is treated as one that has its logits.
- *Images*: decoding and resizing are external; the memo of embeddings in the serial engine is a memo of a pure
  function. The continuous scheduler refuses images before they reach it.
- *Platform*: NUMA, affinity, AMX permission; the write timeout of a socket is modelled by the failure of the write.
- *Configuration and command line*: sequential layering of key-value sources, read once at start-up.
- *Pack format and loader*: sequential reads of immutable files; how the workers divide them is in `StateProgram`.
- *Python*: offline conversion and reference dumps.
- *Memory-order bugs*: the words of the pool are read with acquire and written with release, which interleavings
  represent; a weaker order in the code would not be seen.
- `Model::new`, loading and the shutdown of the pool: one thread at start, one at the end.
