---------------------------- MODULE SerialEngine ----------------------------
(***************************************************************************)
(* The serial engine: Engine::run_job of crates/tr-infer/src/server/         *)
(* engine.rs, one request after the other on one model, with or without     *)
(* speculative decoding (Speculator::round of crates/tr-model/src/spec.rs    *)
(* over step, step_batch, mtp_draft, verify and commit).                     *)
(*                                                                         *)
(* The model's state is the text it has processed; logits and residuals are *)
(* the text after which they were computed, and a sampled token is any      *)
(* token.  Whether a token completes a stop string is a free choice when    *)
(* the request has any.  The engine never clears its state between          *)
(* requests: what one leaves behind is what the next may continue.          *)
(***************************************************************************)
EXTENDS Integers, Sequences, FiniteSets, SequencesExt, FiniteSetsExt

CONSTANTS Token, StopIds, ThinkClose, \* vocabulary, stop ids, </think>
          Prompts,   \* token sequences a request may ask about
          Ctx,       \* context window
          BatchMax,  \* rows of a batch
          SpecK,     \* drafts per round, at most
          Prefix,    \* whether a prefix cache is attached
          Engines    \* [mtp, stops]: is there a draft head, are stop strings sent

ASSUME TokenAssumption == ThinkClose \in Token \ StopIds /\ StopIds \subseteq Token
ASSUME NoneAssumption == -1 \notin Token  \* see None
ASSUME ContextAssumption == Ctx \in Nat
ASSUME PromptAssumption == Prompts \subseteq {p \in Seq(Token) : Len(p) \in 1 .. Ctx - 1}
ASSUME BatchAssumption == SpecK \in Nat \ {0} /\ BatchMax \in Nat /\ BatchMax > SpecK

VARIABLES
  engine,     \* how the server was started
  phase,      \* idle, prefill, loop (a token is pending), step (it was emitted),
              \* done (the Done event was sent)
  job,        \* the request
  cancel,     \* the flag shared with its handler
  text,       \* tokens the model's state covers
  stepped,    \* tokens the engine believes it covers
  logits,     \* of the running request
  lastLogits, \* kept for the next request
  carry, kept, \* residual in mtp_carry; residual row marked by commit
  next,       \* the pending token
  drawnThinking, \* it was drawn with the settings of the thinking phase
  thinking,   \* Emitter::in_reasoning
  out,        \* tokens emitted for the request
  reason      \* of its Done event

model == <<text, carry, kept>>
sampled == <<next, drawnThinking>>
emitted == <<thinking, out>>
vars == <<engine, phase, job, cancel, model, stepped, logits, lastLogits,
          sampled, emitted, reason>>

None == <<-1>>  \* no logits, no residual

Request ==
  {r \in [ids : Prompts, max : 1 .. Ctx, thinking : BOOLEAN] :
     Len(r.ids) + r.max <= Ctx}

NoRequest == [ids |-> << >>, max |-> 0, thinking |-> FALSE]

\* Locals of run_job, before the first request.
Init ==
  /\ engine \in Engines
  /\ phase = "idle" /\ cancel = FALSE /\ reason = "none"
  /\ job = NoRequest
  /\ text = << >> /\ stepped = << >>
  /\ logits = None /\ lastLogits = None /\ carry = None /\ kept = None
  /\ next = ThinkClose /\ drawnThinking = FALSE /\ thinking = FALSE /\ out = << >>

-----------------------------------------------------------------------------
(* Where a request starts: in the state the last one left, at a restored    *)
(* point, or at nothing.                                                    *)

\* Mutant: the prompt is compared by its length.
ContinuesLonger(ids) == stepped # << >> /\ Len(ids) > Len(stepped)

\* Mutant: the whole prompt may be reused without logits to sample from.
ContinuesBare(ids) == stepped # << >> /\ IsPrefix(stepped, ids)

Continues(ids) ==
  /\ stepped # << >>
  /\ IsPrefix(stepped, ids)
  /\ Len(ids) > Len(stepped) \/ lastLogits # None

Reuse ==
  /\ logits' = lastLogits
  /\ UNCHANGED <<model, stepped>>

\* reset leaves the workspaces, the carry among them, as they are.
Reset ==
  /\ text' = << >> /\ stepped' = << >> /\ kept' = None /\ carry' = carry
  /\ logits' = None

\* A restore gives a prefix of the prompt, its carry, and its logits if they
\* were stored: always when it is the whole prompt.
Restore(ids) ==
  \E p \in 1 .. Len(ids) :
    LET covered == SubSeq(ids, 1, p) IN
    /\ Prefix
    /\ text' = covered /\ stepped' = covered /\ kept' = None /\ carry' = covered
    /\ logits' \in IF p = Len(ids) THEN {covered} ELSE {None, covered}

Begin(r) ==
  /\ phase = "idle"
  /\ job' = r /\ phase' = "prefill"
  /\ lastLogits' = None
  /\ IF Continues(r.ids) THEN Reuse ELSE Reset \/ Restore(r.ids)
  /\ thinking' = r.thinking
  /\ UNCHANGED <<engine, cancel, sampled, out, reason>>

-----------------------------------------------------------------------------
(* Prefill.                                                                 *)

\* A chunk also ends at a snapshot point, which may be anywhere.
ChunkEnds ==
  LET at == Len(stepped)
      end == Min({at + BatchMax, Len(job.ids)})
  IN IF Prefix THEN at + 1 .. end ELSE {end}

\* step_batch, or step for one row: both leave the carry in mtp_carry.
StepBatch(toks) ==
  /\ text' = text \o toks
  /\ logits' = text'
  /\ carry' = text' /\ kept' = None

PrefillChunk ==
  /\ phase = "prefill" /\ ~cancel /\ Len(stepped) < Len(job.ids)
  /\ \E b \in ChunkEnds :
       LET chunk == SubSeq(job.ids, Len(stepped) + 1, b) IN
       StepBatch(chunk) /\ stepped' = stepped \o chunk
  /\ UNCHANGED <<engine, phase, job, cancel, lastLogits, sampled, emitted, reason>>

Finish(why) ==
  /\ phase' = "done" /\ reason' = why
  /\ lastLogits' = logits' /\ UNCHANGED <<engine, job, cancel>>

\* Mutant: the flag is looked at only between chunks.
PrefilledOnly == Len(stepped) = Len(job.ids)

Prefilled == cancel \/ Len(stepped) = Len(job.ids)

\* Which settings the first token is drawn with.
First == job.thinking

PrefillEnd ==
  /\ phase = "prefill" /\ Prefilled
  /\ UNCHANGED <<model, stepped, logits, emitted>>
  /\ IF cancel \/ logits = None
     THEN Finish("cancelled") /\ UNCHANGED sampled
     ELSE /\ phase' = "loop"
          /\ next' \in Token /\ drawnThinking' = First
          /\ UNCHANGED <<engine, job, cancel, lastLogits, reason>>

-----------------------------------------------------------------------------
(* The decode loop.                                                         *)

\* May this token, emitted in this phase, complete a stop string?
Completes(inThinking) == IF engine.stops /\ ~inThinking THEN BOOLEAN ELSE {FALSE}

\* Mutant: off by one.
CapPassed(tokens) == Len(tokens) > job.max

CapReached(tokens) == Len(tokens) >= job.max

\* From the top of the loop to the step or round: the pending token is emitted.
Emit ==
  /\ phase = "loop"
  /\ UNCHANGED <<model, stepped, logits, sampled>>
  /\ \/ /\ cancel
        /\ Finish("cancelled") /\ UNCHANGED emitted
     \/ /\ ~cancel /\ next \in StopIds
        /\ Finish("stop") /\ UNCHANGED emitted
     \/ /\ ~cancel /\ next \notin StopIds
        /\ out' = Append(out, next)
        /\ thinking' = (thinking /\ next # ThinkClose)
        /\ \E stop \in Completes(thinking) :
             \/ stop /\ Finish("stop")
             \/ ~stop /\ CapReached(out') /\ Finish("length")
             \/ /\ ~stop /\ ~CapReached(out')
                /\ phase' = "step"
                /\ UNCHANGED <<engine, job, cancel, lastLogits, reason>>

\* Model::step of the pending token; the next one is drawn from its logits.
StepOne(tok) ==
  /\ text' = Append(text, tok)
  /\ logits' = text'
  /\ carry' = text' /\ kept' = None

Step ==
  /\ phase = "step" /\ ~engine.mtp
  /\ StepOne(next) /\ stepped' = Append(stepped, next)
  /\ next' \in Token /\ drawnThinking' = thinking
  /\ phase' = "loop"
  /\ UNCHANGED <<engine, job, cancel, lastLogits, emitted, reason>>

-----------------------------------------------------------------------------
(* A round: draft, verify, accept, commit.                                  *)

\* Mutant: the round forgets what the request may still emit.
DraftsOfBatch == Min({SpecK, BatchMax - 1})

DraftsAtMost == Max({1, Min({SpecK, job.max - Len(out), BatchMax - 1})})

DraftStops == StopIds \cup {ThinkClose}

\* A chain of drafts: DraftsAtMost of them, or fewer up to a token in DraftStops.
Chains ==
  {d \in UNION {[1 .. n -> Token] : n \in 1 .. DraftsAtMost} :
     /\ \A i \in 1 .. Len(d) - 1 : d[i] \notin DraftStops
     /\ Len(d) = DraftsAtMost \/ Last(d) \in DraftStops}

\* The residual the chain starts from (restore_carry).
DraftCarry == IF kept = None THEN carry ELSE kept

\* Mutant: the checkpoint of the last row becomes the state, whatever is accepted.
CommitAll(j, drafts) ==
  /\ text' = text \o <<next>> \o drafts
  /\ kept' = text'

\* Mutant: the accepted row is not marked.
CommitUnmarked(j, drafts) ==
  /\ text' = text \o <<next>> \o SubSeq(drafts, 1, j)
  /\ kept' = None

\* commit(j): checkpoint j becomes the state, residual row j the next carry.
Commit(j, drafts) ==
  /\ text' = text \o <<next>> \o SubSeq(drafts, 1, j)
  /\ kept' = text'

\* verify: the logits of every row of the batch, row 0 being the pending token's.
VerifyRows(drafts) ==
  [i \in 0 .. Len(drafts) |-> text \o <<next>> \o SubSeq(drafts, 1, i)]

\* Mutant: the logits of the last row.
LastRow(j, drafts) == VerifyRows(drafts)[Len(drafts)]

\* The row the next pending token is drawn from.
Row(j, drafts) == VerifyRows(drafts)[j]

\* Speculator::round with the loop's own pushes: j drafts are accepted, and
\* the loop ends at the one that completes a stop string, or at a stop id,
\* which can only be the last of a chain.
Round ==
  /\ phase = "step" /\ engine.mtp
  /\ \E drafts \in Chains : \E j \in 0 .. Len(drafts) :
       \E cut \in {0} \cup {i \in 1 .. j : /\ drafts[i] \notin StopIds
                                       /\ TRUE \in Completes(thinking)} :
         LET ended == cut = 0 /\ j > 0 /\ drafts[j] \in StopIds
             recorded == IF cut = 0 THEN j ELSE cut
             told == SubSeq(drafts, 1, IF ended THEN j - 1 ELSE recorded)
         IN /\ carry' = DraftCarry
            /\ Commit(j, drafts)
            /\ logits' = Row(j, drafts)
            /\ stepped' = stepped \o <<next>> \o SubSeq(drafts, 1, recorded)
            /\ out' = out \o told
            /\ thinking' = (thinking /\ ~Contains(told, ThinkClose))
            /\ next' \in Token /\ drawnThinking' = thinking
            /\ IF cut > 0 \/ ended
               THEN Finish("stop")
               ELSE /\ phase' = "loop"
                    /\ UNCHANGED <<engine, job, cancel, lastLogits, reason>>

-----------------------------------------------------------------------------
\* run_job returns; the cache has copied what it stores and the locals are gone.
Return ==
  /\ phase = "done" /\ phase' = "idle"
  /\ job' = NoRequest /\ cancel' = FALSE /\ logits' = None /\ reason' = "none"
  /\ next' = ThinkClose /\ drawnThinking' = FALSE /\ thinking' = FALSE /\ out' = << >>
  /\ UNCHANGED <<engine, model, stepped, lastLogits>>

\* The client leaves, or an event finds the client's buffer full.
Cancel ==
  /\ phase \notin {"idle", "done"} /\ ~cancel /\ cancel' = TRUE
  /\ UNCHANGED <<engine, phase, job, model, stepped, logits, lastLogits,
                 sampled, emitted, reason>>

Work == PrefillChunk \/ PrefillEnd \/ Emit \/ Step \/ Round \/ Return
Next == Cancel \/ Work \/ \E r \in Request : Begin(r)

\* The engine thread runs a request to its end.
Spec == Init /\ [][Next]_vars /\ WF_vars(Work)

-----------------------------------------------------------------------------
Texts == UNION {[1 .. n -> Token] : n \in 0 .. Ctx}

\* Every variable has its type; no state outgrows the context window.
TypeOK ==
  /\ engine \in Engines
  /\ phase \in {"idle", "prefill", "loop", "step", "done"}
  /\ cancel \in BOOLEAN /\ drawnThinking \in BOOLEAN /\ thinking \in BOOLEAN
  /\ {text, stepped} \subseteq Texts
  /\ {logits, lastLogits, carry, kept} \subseteq Texts \cup {None}
  /\ next \in Token
  /\ reason \in {"none", "stop", "length", "cancelled"}

\* The tokens the engine compares with the next prompt are those its state
\* covers, after every stop, cap, cancellation and restore (engine.rs:469, 491).
StateCovered == stepped = text

\* The logits kept for the next request are those of the state it would
\* continue: a prompt equal to it is answered from them without a step.
LogitsOfState == lastLogits # None => lastLogits = text

\* What a request is answered from is its prompt and its own output, nothing a
\* former request left: the pending token was drawn after exactly these tokens.
OutputFollows == phase = "loop" => logits = job.ids \o out

\* The completion cap holds, but for the pending token of a last round.
CapAlmostKept == Len(out) <= job.max + (IF engine.mtp THEN 1 ELSE 0)

\* SERVER.md: max_tokens is the completion cap.
CapKept == Len(out) <= job.max

\* A request is told it was cancelled only if its client asked for that: it
\* never reaches the loop without logits to sample from.
CancelledOnlyIfAsked == reason = "cancelled" => cancel

\* A token is drawn with the settings of the phase it is emitted in, but for
\* the one after an accepted </think> draft.
DrawnInPhaseAlmost ==
  phase = "loop" /\ drawnThinking # thinking
    => engine.mtp /\ Len(out) > 1 /\ Last(out) = ThinkClose

\* Drafting shows in these two ways only (docs/SERVER.md: it behaves as without
\* drafts).
DraftsAlmostInvisible == CapAlmostKept /\ DrawnInPhaseAlmost

\* SERVER.md: the switch of the settings happens on the </think> token.
DrawnInPhase == phase = "loop" => drawnThinking = thinking

\* A chain of drafts starts from the residual of the last committed position.
DraftCarryCurrent == phase = "step" /\ engine.mtp => DraftCarry = text

\* The rows a round verifies fit the context window, the batch and the checkpoints.
RowsFit ==
  phase = "step" /\ engine.mtp
    => Len(text) + 1 + DraftsAtMost <= Ctx /\ 1 + DraftsAtMost <= BatchMax

\* A round is sound where it starts and where it ends.
RoundsSound == DraftCarryCurrent /\ RowsFit

\* Every request comes to its end.
RequestEnds == phase # "idle" ~> phase = "idle"
=============================================================================
