------------------------- MODULE SerialEngineProofs -------------------------
(***************************************************************************)
(* The serial engine continues only what it knows: for every vocabulary,    *)
(* set of prompts, context, batch size and number of drafts, and every       *)
(* sequence of requests, if stop strings are never sent to an engine that    *)
(* drafts.                                                                  *)
(*                                                                         *)
(* The inductive invariant says, phase by phase, which text the state, the  *)
(* logits and the output stand for.                                         *)
(***************************************************************************)
EXTENDS SerialEngine, SequenceTheorems, TLAPS

NoStopsInDrafts == \A e \in Engines : ~(e.mtp /\ e.stops)

KnownLogits == {logits, lastLogits} \subseteq {None, text}

InPrefill ==
  phase = "prefill" =>
    /\ out = << >>
    /\ Len(text) <= Len(job.ids)
    /\ text = SubSeq(job.ids, 1, Len(text))
    /\ Len(text) = Len(job.ids) => logits = text

InLoop == phase = "loop" => logits = text /\ text = job.ids \o out

InStep == phase = "step" => text \o <<next>> = job.ids \o out

AskedFor == reason = "cancelled" => cancel

IInv ==
  /\ engine \in Engines
  /\ phase \in {"idle", "prefill", "loop", "step", "done"}
  /\ text \in Seq(Token) /\ out \in Seq(Token) /\ next \in Token
  /\ job.ids \in Seq(Token)
  /\ stepped = text
  /\ KnownLogits
  /\ phase \in {"prefill", "loop", "step"} => lastLogits = None
  /\ phase = "idle" => out = << >>
  /\ InPrefill
  /\ InLoop
  /\ InStep
  /\ AskedFor

-----------------------------------------------------------------------------
(***************************************************************************)
(* Sequences                                                               *)
(***************************************************************************)
\* The first tokens of a sequence and some of those behind them.
LEMMA PrefixGrows ==
  ASSUME NEW S, NEW s \in Seq(S), NEW a \in 0 .. Len(s), NEW b \in a .. Len(s)
  PROVE  SubSeq(s, 1, a) \o SubSeq(s, a + 1, b) = SubSeq(s, 1, b)
<1> DEFINE u == SubSeq(s, 1, a) \o SubSeq(s, a + 1, b)
           v == SubSeq(s, 1, b)
<1>1. u \in Seq(S) /\ v \in Seq(S)
  BY SubSeqProperties, ConcatProperties
<1>2. Len(u) = b /\ Len(v) = b
  BY SubSeqProperties, ConcatProperties
<1>3. \A i \in 1 .. b : u[i] = v[i]
  BY SubSeqProperties, ConcatProperties
<1> QED
  BY <1>1, <1>2, <1>3, SeqEqual

LEMMA Regroup ==
  \A s, t, u \in Seq(Token) : (s \o t) \o u = s \o (t \o u)
BY ConcatAssociative

LEMMA TextIsNotNone == ASSUME NEW t \in Seq(Token) PROVE t # None
<1>1. ASSUME t = None PROVE FALSE
  <2>1. Len(t) = 1 /\ t[1] = -1
    BY <1>1 DEF None
  <2>2. t[1] \in Token
    BY <2>1, ElementOfSeq
  <2> QED
    BY <2>1, <2>2, NoneAssumption
<1> QED
  BY <1>1
\* A chunk ends behind its start and within the prompt.
LEMMA ChunkWithin ==
  ASSUME NEW b \in ChunkEnds, Len(stepped) \in Nat, Len(job.ids) \in Nat,
         Len(stepped) < Len(job.ids)
  PROVE  b \in Len(stepped) .. Len(job.ids)
<1> DEFINE at == Len(stepped)
           ends == {at + BatchMax, Len(job.ids)}
<1>1. BatchMax \in Nat
  BY BatchAssumption
<1>2. \E m \in ends : \A e \in ends : e >= m
  <2>1. CASE at + BatchMax <= Len(job.ids)
    BY <1>1, <2>1
  <2>2. CASE at + BatchMax > Len(job.ids)
    BY <1>1, <2>2
  <2> QED
    BY <1>1, <2>1, <2>2
<1>3. Min(ends) \in ends /\ \A e \in ends : e >= Min(ends)
  BY <1>2 DEF Min
<1>4. Min(ends) \in at .. Len(job.ids)
  BY <1>1, <1>3
<1> QED
  BY <1>1, <1>4 DEF ChunkEnds

\* What the pieces of a round are, whatever was drafted.
LEMMA ChainFacts ==
  ASSUME NEW d \in Chains, NEW n \in 0 .. Len(d)
  PROVE  d \in Seq(Token) /\ SubSeq(d, 1, n) \in Seq(Token)
<1>1. PICK k \in 1 .. DraftsAtMost : d \in [1 .. k -> Token]
  BY DEF Chains
<1>2. d \in Seq(Token)
  BY <1>1
<1> QED
  BY <1>2, SubSeqProperties

LEMMA InitInv == Init => IInv
<1> SUFFICES ASSUME Init PROVE IInv
  OBVIOUS
<1> QED
  BY TokenAssumption, EmptySeq
  DEF Init, IInv, KnownLogits, InPrefill, InLoop, InStep, AskedFor, NoRequest

-----------------------------------------------------------------------------
(***************************************************************************)
(* One lemma per action                                                    *)
(***************************************************************************)
LEMMA BeginStep ==
  ASSUME IInv, NEW r \in Request, Begin(r)
  PROVE  IInv'
<1> USE DEF Begin, IInv
<1>1. r.ids \in Seq(Token) /\ Len(r.ids) \in Nat \ {0}
  BY PromptAssumption DEF Request
<1>2. CASE Continues(r.ids)
  <2>1. /\ UNCHANGED <<text, stepped>>
        /\ logits' = lastLogits /\ lastLogits' = None /\ out' = << >>
    BY <1>2 DEF Reuse, model
  <2>2. /\ Len(text) <= Len(r.ids)
        /\ SubSeq(text, 1, Len(text)) = SubSeq(r.ids, 1, Len(text))
        /\ Len(r.ids) > Len(text) \/ lastLogits # None
    BY <1>2 DEF Continues, IsPrefix
  <2>3. text = SubSeq(r.ids, 1, Len(text))
    BY <2>2, SubSeqFull
  <2>4. Len(text) = Len(r.ids) => lastLogits = text
    BY <2>2 DEF KnownLogits
  <2> QED
    BY <1>1, <2>1, <2>2, <2>3, <2>4, EmptySeq
    DEF KnownLogits, InPrefill, InLoop, InStep, AskedFor, sampled
<1>3. CASE ~Continues(r.ids)
  <2>1. CASE Reset
    BY <1>1, <1>3, <2>1, EmptySeq
    DEF Reset, KnownLogits, InPrefill, InLoop, InStep, AskedFor, sampled
  <2>2. CASE Restore(r.ids)
    <3>1. PICK p \in 1 .. Len(r.ids) :
            LET covered == SubSeq(r.ids, 1, p) IN
            /\ text' = covered /\ stepped' = covered
            /\ logits' \in IF p = Len(r.ids) THEN {covered} ELSE {None, covered}
      BY <1>1, <2>2 DEF Restore
    <3>2. text' \in Seq(Token) /\ Len(text') = p
      BY <1>1, <3>1, SubSeqProperties
    <3> QED
      BY <1>1, <1>3, <3>1, <3>2, EmptySeq
      DEF KnownLogits, InPrefill, InLoop, InStep, AskedFor, sampled
  <2> QED
    BY <1>3, <2>1, <2>2
<1> QED
  BY <1>2, <1>3

LEMMA ChunkStep ==
  ASSUME IInv, PrefillChunk
  PROVE  IInv'
<1> USE DEF IInv
<1> DEFINE at == Len(text)
<1>1. PICK b \in ChunkEnds :
        LET chunk == SubSeq(job.ids, at + 1, b) IN
        /\ text' = text \o chunk /\ stepped' = stepped \o chunk /\ logits' = text'
  BY DEF PrefillChunk, StepBatch
<1>2. at \in Nat /\ Len(job.ids) \in Nat /\ at < Len(job.ids)
  BY DEF PrefillChunk, StepBatch
<1>3. b \in at .. Len(job.ids)
  BY <1>2, ChunkWithin
<1>4. text' = SubSeq(job.ids, 1, b)
  <2>1. text = SubSeq(job.ids, 1, at)
    BY DEF PrefillChunk, StepBatch, InPrefill
  <2>2. SubSeq(job.ids, 1, at) \o SubSeq(job.ids, at + 1, b) = SubSeq(job.ids, 1, b)
    <3>1. job.ids \in Seq(Token) /\ at \in 0 .. Len(job.ids)
      BY <1>2
    <3> HIDE DEF IInv
    <3> QED
      BY <3>1, <1>3, PrefixGrows
  <2> QED
    BY <1>1, <2>1, <2>2
<1>5. text' \in Seq(Token) /\ Len(text') = b
  BY <1>2, <1>3, <1>4, SubSeqProperties
<1>6. /\ phase = "prefill" /\ phase' = "prefill"
      /\ UNCHANGED <<engine, job, cancel, lastLogits, next, out, reason>>
  BY DEF PrefillChunk, StepBatch, sampled, emitted
<1>7. stepped' = text' /\ logits' = text' /\ lastLogits' = None
  BY <1>1, <1>6
<1> QED
  BY <1>2, <1>3, <1>4, <1>5, <1>6, <1>7
  DEF KnownLogits, InPrefill, InLoop, InStep, AskedFor

LEMMA PrefillEndStep ==
  ASSUME IInv, PrefillEnd
  PROVE  IInv'
<1> USE DEF IInv, PrefillEnd
<1>1. UNCHANGED <<text, stepped, logits, out, engine, job, cancel>>
  BY DEF model, emitted, Finish
<1>2. CASE cancel \/ logits = None
  <2>1. phase' = "done" /\ reason' = "cancelled" /\ lastLogits' = logits /\ next' = next
    BY <1>1, <1>2 DEF Finish, sampled
  <2>2. cancel
    <3>1. ASSUME logits = None, ~cancel PROVE FALSE
      <4>1. Len(text) = Len(job.ids) /\ logits = text
        BY <3>1 DEF Prefilled, InPrefill
      <4> QED
        BY <3>1, <4>1, TextIsNotNone
    <3> QED
      BY <1>2, <3>1
  <2> QED
    BY <1>1, <2>1, <2>2 DEF KnownLogits, InPrefill, InLoop, InStep, AskedFor
<1>3. CASE ~(cancel \/ logits = None)
  <2>1. phase' = "loop" /\ next' \in Token /\ UNCHANGED <<lastLogits, reason>>
    BY <1>3
  <2>2. logits = text /\ text = SubSeq(job.ids, 1, Len(job.ids))
    BY <1>3 DEF Prefilled, InPrefill
  <2>3. text = job.ids \o out
    BY <2>2, SubSeqFull, ConcatEmptySeq DEF InPrefill
  <2> QED
    BY <1>1, <2>1, <2>2, <2>3 DEF KnownLogits, InPrefill, InLoop, InStep, AskedFor
<1> QED
  BY <1>2, <1>3
LEMMA EmitStep ==
  ASSUME IInv, Emit
  PROVE  IInv'
<1> USE DEF IInv
<1>1. /\ UNCHANGED <<text, stepped, logits, next, engine, job, cancel>>
      /\ logits = text /\ text = job.ids \o out
  BY DEF Emit, model, sampled, InLoop, Finish
<1>2. CASE cancel \/ next \in StopIds
  <2>1. /\ phase' = "done" /\ lastLogits' = logits /\ out' = out
        /\ reason' \in {"cancelled", "stop"} /\ reason' = "cancelled" => cancel
    BY <1>1, <1>2 DEF Emit, Finish, emitted
  <2> QED
    BY <1>1, <2>1 DEF KnownLogits, InPrefill, InLoop, InStep, AskedFor
<1>3. CASE ~cancel /\ next \notin StopIds
  <2>1. out' = Append(out, next)
    BY <1>3 DEF Emit
  <2>2. \/ phase' = "done" /\ lastLogits' = logits /\ reason' \in {"stop", "length"}
        \/ phase' = "step" /\ UNCHANGED <<lastLogits, reason>>
    BY <1>1, <1>3 DEF Emit, Finish
  <2>3. out' = out \o <<next>> /\ out' \in Seq(Token) /\ <<next>> \in Seq(Token)
    BY <2>1
  <2>4. text \o <<next>> = job.ids \o out'
    <3> HIDE DEF IInv
    <3>1. job.ids \in Seq(Token) /\ out \in Seq(Token)
      BY DEF IInv
    <3> QED
      BY <1>1, <2>3, <3>1, Regroup
  <2>5. phase = "loop"
    BY DEF Emit
  <2> QED
    BY <1>1, <2>2, <2>3, <2>4, <2>5 DEF KnownLogits, InPrefill, InLoop, InStep, AskedFor
<1> QED
  BY <1>2, <1>3

LEMMA PlainStep ==
  ASSUME IInv, Step
  PROVE  IInv'
<1> USE DEF IInv
<1>1. /\ phase = "step" /\ phase' = "loop"
      /\ text' = Append(text, next) /\ stepped' = text' /\ logits' = text'
      /\ next' \in Token
      /\ UNCHANGED <<engine, job, cancel, lastLogits, out, reason>>
  BY DEF Step, StepOne, emitted
<1>2. text' = text \o <<next>> /\ text' \in Seq(Token)
  BY <1>1
<1> QED
  BY <1>1, <1>2 DEF KnownLogits, InPrefill, InLoop, InStep, AskedFor

\* Without stop strings a round records what it commits, and tells it but for a stop id.
LEMMA RoundStep ==
  ASSUME IInv, NoStopsInDrafts, Round
  PROVE  IInv'
<1> USE DEF IInv
<1>1. /\ phase = "step" /\ ~engine.stops
      /\ text \o <<next>> = job.ids \o out
      /\ lastLogits = None
  BY DEF Round, NoStopsInDrafts, InStep
<1> DEFINE End(d, n, cut) ==
             LET ended == cut = 0 /\ n > 0 /\ d[n] \in StopIds
                 recorded == IF cut = 0 THEN n ELSE cut
                 told == SubSeq(d, 1, IF ended THEN n - 1 ELSE recorded)
             IN /\ Commit(n, d)
                /\ logits' = Row(n, d)
                /\ stepped' = stepped \o <<next>> \o SubSeq(d, 1, recorded)
                /\ out' = out \o told
                /\ next' \in Token
                /\ IF cut > 0 \/ ended THEN Finish("stop")
                   ELSE phase' = "loop" /\ UNCHANGED <<engine, job, cancel, lastLogits, reason>>
<1>2. PICK drafts \in Chains : \E j \in 0 .. Len(drafts) :
        \E cut \in {0} \cup {i \in 1 .. j : /\ drafts[i] \notin StopIds
                                        /\ TRUE \in Completes(thinking)} :
          End(drafts, j, cut)
  BY ZenonT(60) DEF Round
<1>3. PICK j \in 0 .. Len(drafts) :
        \E cut \in {0} \cup {i \in 1 .. j : /\ drafts[i] \notin StopIds
                                        /\ TRUE \in Completes(thinking)} :
          End(drafts, j, cut)
  BY <1>2
<1>4. End(drafts, j, 0)
  <2>1. TRUE \notin Completes(thinking)
    BY <1>1 DEF Completes
  <2> HIDE DEF End
  <2> QED
    BY <1>3, <2>1
<1> DEFINE accepted == SubSeq(drafts, 1, j)
           ended == j > 0 /\ drafts[j] \in StopIds
           told == SubSeq(drafts, 1, IF ended THEN j - 1 ELSE j)
<1>5. accepted \in Seq(Token) /\ told \in Seq(Token) /\ drafts \in Seq(Token)
  <2>1. drafts \in Seq(Token) /\ Len(drafts) \in Nat
    BY ChainFacts
  <2>2. j \in 0 .. Len(drafts) /\ (IF ended THEN j - 1 ELSE j) \in 0 .. Len(drafts)
    BY <2>1
  <2> QED
    BY <2>1, <2>2, ChainFacts
<1>6. text' = text \o <<next>> \o accepted /\ logits' = text' /\ stepped' = text'
  BY <1>4 DEF Commit, Row, VerifyRows
<1>7. text' \in Seq(Token) /\ out' \in Seq(Token) /\ <<next>> \in Seq(Token)
  BY <1>4, <1>5, <1>6, ConcatProperties, SMTT(60)
<1>8. CASE ended
  <2>1. /\ phase' = "done" /\ reason' = "stop" /\ lastLogits' = logits'
        /\ UNCHANGED <<engine, job, cancel>> /\ next' \in Token
    BY <1>4, <1>8 DEF Finish
  <2> QED
    BY <1>6, <1>7, <2>1 DEF KnownLogits, InPrefill, InLoop, InStep, AskedFor
<1>9. CASE ~ended
  <2>1. /\ phase' = "loop" /\ UNCHANGED <<engine, job, cancel, lastLogits, reason>>
        /\ next' \in Token /\ out' = out \o accepted
    BY <1>4, <1>9
  <2>2. text' = job.ids \o out'
    <3>1. job.ids \in Seq(Token) /\ out \in Seq(Token) /\ accepted \in Seq(Token)
      BY <1>5
    <3>2. text' = (job.ids \o out) \o accepted
      BY <1>1, <1>6
    <3>3. (job.ids \o out) \o accepted = job.ids \o (out \o accepted)
      <4> HIDE DEF IInv, accepted
      <4> QED
        BY <3>1, Regroup
    <3> QED
      BY <2>1, <3>2, <3>3
  <2> QED
    BY <1>1, <1>6, <1>7, <2>1, <2>2 DEF KnownLogits, InPrefill, InLoop, InStep, AskedFor
<1> QED
  BY <1>8, <1>9

LEMMA ReturnStep ==
  ASSUME IInv, Return
  PROVE  IInv'
BY TokenAssumption, EmptySeq
DEF IInv, Return, model, NoRequest, KnownLogits, InPrefill, InLoop, InStep, AskedFor

LEMMA CancelStep ==
  ASSUME IInv, Cancel
  PROVE  IInv'
BY DEF IInv, Cancel, model, sampled, emitted, KnownLogits, InPrefill, InLoop, InStep, AskedFor

LEMMA StutterStep ==
  ASSUME IInv, UNCHANGED vars
  PROVE  IInv'
BY DEF IInv, vars, model, sampled, emitted, KnownLogits, InPrefill, InLoop, InStep, AskedFor

LEMMA NextInv == NoStopsInDrafts /\ IInv /\ [Next]_vars => IInv'
<1> SUFFICES ASSUME NoStopsInDrafts, IInv, [Next]_vars PROVE IInv'
  OBVIOUS
<1>1. CASE Cancel
  BY <1>1, CancelStep
<1>2. CASE \E r \in Request : Begin(r)
  BY <1>2, BeginStep
<1>3. CASE PrefillChunk
  BY <1>3, ChunkStep
<1>4. CASE PrefillEnd
  BY <1>4, PrefillEndStep
<1>5. CASE Emit
  BY <1>5, EmitStep
<1>6. CASE Step
  BY <1>6, PlainStep
<1>7. CASE Round
  BY <1>7, RoundStep
<1>8. CASE Return
  BY <1>8, ReturnStep
<1>9. CASE UNCHANGED vars
  BY <1>9, StutterStep
<1> QED
  BY <1>1, <1>2, <1>3, <1>4, <1>5, <1>6, <1>7, <1>8, <1>9 DEF Next, Work

-----------------------------------------------------------------------------
(***************************************************************************)
(* Theorems                                                                *)
(***************************************************************************)
\* The inductive invariant holds in every reachable state.
THEOREM Inductive == ASSUME NoStopsInDrafts PROVE Spec => []IInv
<1>1. Init => IInv
  BY InitInv
<1>2. IInv /\ [Next]_vars => IInv'
  BY NextInv
<1> QED
  BY <1>1, <1>2, PTL DEF Spec

\* The tokens the engine compares with a prompt are those its state covers
\* (the assertions of engine.rs:469 and 491 hold).
THEOREM StateAlwaysCovered == ASSUME NoStopsInDrafts PROVE Spec => []StateCovered
<1>1. IInv => StateCovered
  BY DEF IInv, StateCovered
<1> QED
  BY <1>1, Inductive, PTL

\* The logits kept for the next request belong to the state it continues.
THEOREM LogitsAlwaysOfState == ASSUME NoStopsInDrafts PROVE Spec => []LogitsOfState
<1>1. IInv => LogitsOfState
  BY DEF IInv, KnownLogits, LogitsOfState
<1> QED
  BY <1>1, Inductive, PTL

\* Every pending token was drawn after the request's prompt and its own output
\* (run_job, whatever the requests before it left in the model).
THEOREM OutputAlwaysFollows == ASSUME NoStopsInDrafts PROVE Spec => []OutputFollows
<1>1. IInv => OutputFollows
  BY DEF IInv, InLoop, OutputFollows
<1> QED
  BY <1>1, Inductive, PTL

\* A request is reported cancelled only when its cancel flag is set: no request
\* reaches the end of its prompt without logits (engine.rs:416).
THEOREM CancelledAlwaysAsked == ASSUME NoStopsInDrafts PROVE Spec => []CancelledOnlyIfAsked
<1>1. IInv => CancelledOnlyIfAsked
  BY DEF IInv, AskedFor, CancelledOnlyIfAsked
<1> QED
  BY <1>1, Inductive, PTL

-----------------------------------------------------------------------------
(***************************************************************************)
(* Rounds of drafts: for every vocabulary, set of prompts, context, batch   *)
(* size and number of drafts, a round starts from the right row, verifies   *)
(* no row that does not fit, and shows in what a request is told in two     *)
(* places only, if stop strings are never sent to an engine that drafts.    *)
(*                                                                         *)
(* The invariant bounds the output phase by phase: what a round may accept  *)
(* is what the pending token left of the cap, so that output and context    *)
(* are exceeded by nothing but the next pending token.                      *)
(***************************************************************************)

\* A request runs between Begin and Return.
OfRequest ==
  /\ phase # "idle" => job \in Request
  /\ phase = "idle" => job = NoRequest /\ out = << >>

Bounded ==
  /\ phase = "prefill" => out = << >> /\ thinking = job.thinking
  /\ phase = "loop" => Len(out) <= job.max /\ (~engine.mtp => Len(out) < job.max)
  /\ phase = "step" => Len(out) \in 1 .. job.max - 1
  /\ phase = "done" => CapAlmostKept

\* The residual of the state, wherever it is kept; with nothing stepped any.
CarryOfState == text # << >> => DraftCarry = text

RInv ==
  thinking \in BOOLEAN /\ OfRequest /\ Bounded /\ CarryOfState /\ DrawnInPhaseAlmost

-----------------------------------------------------------------------------
(***************************************************************************)
(* Facts                                                                   *)
(***************************************************************************)
LEMMA MinFacts ==
  \A a, b, c \in Int :
    /\ Min({a, b, c}) \in {a, b, c}
    /\ Min({a, b, c}) <= a /\ Min({a, b, c}) <= b /\ Min({a, b, c}) <= c
<1> TAKE a, b, c \in Int
<1>1. \E m \in {a, b, c} : \A e \in {a, b, c} : m <= e
  <2>1. CASE a <= b /\ a <= c
    BY <2>1
  <2>2. CASE b <= a /\ b <= c
    BY <2>2
  <2>3. CASE c <= a /\ c <= b
    BY <2>3
  <2> QED
    BY <2>1, <2>2, <2>3
<1> QED
  BY <1>1 DEF Min

LEMMA MaxFacts ==
  \A a, b \in Int : Max({a, b}) = IF a >= b THEN a ELSE b
<1> TAKE a, b \in Int
<1>1. \E m \in {a, b} : \A e \in {a, b} : m >= e
  <2>1. CASE a >= b
    BY <2>1
  <2>2. CASE b >= a
    BY <2>2
  <2> QED
    BY <2>1, <2>2
<1>2. Max({a, b}) \in {a, b} /\ \A e \in {a, b} : Max({a, b}) >= e
  BY <1>1 DEF Max
<1> QED
  BY <1>2

\* A chain has one draft, or what the cap, the batch and the checkpoints allow.
LEMMA DraftsAtMostFacts ==
  ASSUME job.max \in Nat, Len(out) \in Nat
  PROVE  /\ DraftsAtMost \in Nat \ {0}
         /\ DraftsAtMost <= BatchMax - 1
         /\ Len(out) < job.max => DraftsAtMost <= job.max - Len(out)
<1> DEFINE m == Min({SpecK, job.max - Len(out), BatchMax - 1})
<1>1. SpecK \in Nat \ {0} /\ BatchMax \in Nat /\ BatchMax - 1 >= 1
  BY BatchAssumption
<1>2. SpecK \in Int /\ job.max - Len(out) \in Int /\ BatchMax - 1 \in Int /\ 1 \in Int
  BY <1>1
<1>3. /\ m \in {SpecK, job.max - Len(out), BatchMax - 1}
      /\ m <= job.max - Len(out) /\ m <= BatchMax - 1
  BY <1>2, MinFacts, Zenon
<1>4. m \in Int
  BY <1>2, <1>3
<1>5. DraftsAtMost = IF 1 >= m THEN 1 ELSE m
  <2> HIDE DEF m
  <2>1. Max({1, m}) = IF 1 >= m THEN 1 ELSE m
    BY <1>2, <1>4, MaxFacts, Zenon
  <2> QED
    BY <2>1 DEF m, DraftsAtMost
<1> QED
  BY <1>1, <1>3, <1>4, <1>5

\* Only the last draft of a chain may be a token in DraftStops.
LEMMA ChainStops ==
  ASSUME NEW d \in Chains, job.max \in Nat, Len(out) \in Nat
  PROVE  /\ d \in Seq(Token) /\ Len(d) \in 1 .. DraftsAtMost
         /\ \A i \in 1 .. Len(d) : d[i] = ThinkClose => i = Len(d)
<1>1. PICK k \in 1 .. DraftsAtMost : d \in [1 .. k -> Token]
  BY DEF Chains
<1>2. DraftsAtMost \in Nat
  BY DraftsAtMostFacts
<1>3. d \in Seq(Token) /\ Len(d) = k
  BY <1>1, <1>2
<1>4. \A i \in 1 .. Len(d) - 1 : d[i] \notin DraftStops
  BY DEF Chains
<1> QED
  BY <1>1, <1>2, <1>3, <1>4 DEF DraftStops

LEMMA RequestFacts ==
  \A r \in Request :
    /\ r.ids \in Seq(Token) /\ Len(r.ids) \in Nat \ {0}
    /\ r.max \in Nat \ {0} /\ Len(r.ids) + r.max <= Ctx
    /\ r.thinking \in BOOLEAN
BY PromptAssumption DEF Request

-----------------------------------------------------------------------------
(***************************************************************************)
(* One lemma per action                                                    *)
(***************************************************************************)
LEMMA InitR == Init => RInv
BY DEF Init, RInv, OfRequest, Bounded, CarryOfState, DrawnInPhaseAlmost, NoRequest

LEMMA BeginR ==
  ASSUME IInv, RInv, NEW r \in Request, Begin(r)
  PROVE  RInv'
<1>1. /\ phase = "idle" /\ phase' = "prefill" /\ job' = r
      /\ out' = out /\ thinking' = r.thinking
  BY DEF Begin
<1>2. out = << >>
  BY <1>1 DEF RInv, OfRequest
<1>3. CarryOfState'
  <2>1. CASE UNCHANGED model
    BY <2>1 DEF RInv, CarryOfState, DraftCarry, model
  <2>2. CASE text' = << >>
    BY <2>2 DEF CarryOfState
  <2>3. CASE kept' = None /\ carry' = text'
    BY <2>3 DEF CarryOfState, DraftCarry
  <2>4. Reuse \/ Reset \/ Restore(r.ids)
    BY DEF Begin
  <2> QED
    BY <2>1, <2>2, <2>3, <2>4 DEF Reuse, Reset, Restore
<1> QED
  BY <1>1, <1>2, <1>3, RequestFacts DEF RInv, OfRequest, Bounded, DrawnInPhaseAlmost

LEMMA ChunkR ==
  ASSUME IInv, RInv, PrefillChunk
  PROVE  RInv'
<1>1. /\ phase = "prefill" /\ UNCHANGED <<engine, phase, job, out, thinking>>
      /\ carry' = text' /\ kept' = None
  BY DEF PrefillChunk, StepBatch, emitted
<1> QED
  BY <1>1 DEF RInv, OfRequest, Bounded, CarryOfState, DraftCarry, DrawnInPhaseAlmost

LEMMA PrefillEndR ==
  ASSUME IInv, RInv, PrefillEnd
  PROVE  RInv'
<1>1. /\ phase = "prefill" /\ UNCHANGED <<engine, job, text, carry, kept, out, thinking>>
  BY DEF PrefillEnd, Finish, model, emitted
<1>2. out = << >> /\ thinking = job.thinking /\ job \in Request
  BY <1>1 DEF RInv, OfRequest, Bounded
<1>3. job.max \in Nat \ {0} /\ Len(out) = 0
  BY <1>2, RequestFacts
<1>4. CarryOfState'
  BY <1>1 DEF RInv, CarryOfState, DraftCarry
<1>5. CASE phase' = "done"
  BY <1>1, <1>2, <1>3, <1>4, <1>5
  DEF RInv, OfRequest, Bounded, CapAlmostKept, DrawnInPhaseAlmost
<1>6. CASE phase' = "loop" /\ drawnThinking' = job.thinking
  BY <1>1, <1>2, <1>3, <1>4, <1>6 DEF RInv, OfRequest, Bounded, DrawnInPhaseAlmost
<1> QED
  BY <1>5, <1>6 DEF PrefillEnd, Finish, First

LEMMA EmitR ==
  ASSUME IInv, RInv, Emit
  PROVE  RInv'
<1>1. phase = "loop" /\ UNCHANGED <<engine, job, text, carry, kept, drawnThinking>>
  BY DEF Emit, Finish, model, sampled
<1>2. /\ job \in Request /\ Len(out) <= job.max
      /\ ~engine.mtp => Len(out) < job.max
  BY <1>1 DEF RInv, OfRequest, Bounded
<1>3. job.max \in Nat \ {0} /\ Len(out) \in Nat
  BY <1>2, RequestFacts DEF IInv
<1>4. CarryOfState'
  BY <1>1 DEF RInv, CarryOfState, DraftCarry
<1>5. \/ out' = out /\ phase' = "done"
      \/ out' = Append(out, next) /\ phase' = "done"
      \/ out' = Append(out, next) /\ phase' = "step" /\ ~CapReached(out')
  BY DEF Emit, Finish, emitted
<1>6. out' = Append(out, next) => Len(out') = Len(out) + 1
  BY DEF IInv
<1>7. Len(out') <= job.max + (IF engine.mtp THEN 1 ELSE 0)
  BY <1>2, <1>3, <1>5, <1>6
<1>8. phase' = "step" => Len(out') \in 1 .. job.max - 1
  BY <1>3, <1>5, <1>6 DEF CapReached
<1>9. thinking' \in BOOLEAN
  BY DEF Emit, Finish, emitted, RInv
<1> QED
  BY <1>1, <1>2, <1>4, <1>5, <1>7, <1>8, <1>9
  DEF RInv, OfRequest, Bounded, CapAlmostKept, DrawnInPhaseAlmost

LEMMA StepR ==
  ASSUME IInv, RInv, Step
  PROVE  RInv'
<1>1. /\ phase = "step" /\ phase' = "loop" /\ ~engine.mtp
      /\ carry' = text' /\ kept' = None /\ drawnThinking' = thinking
      /\ UNCHANGED <<engine, job, out, thinking>>
  BY DEF Step, StepOne, emitted
<1>2. job \in Request /\ Len(out) \in 1 .. job.max - 1
  BY <1>1 DEF RInv, OfRequest, Bounded
<1>3. job.max \in Nat
  BY <1>2, RequestFacts
<1> QED
  BY <1>1, <1>2, <1>3
  DEF RInv, OfRequest, Bounded, CarryOfState, DraftCarry, DrawnInPhaseAlmost

\* What a round accepts is what the pending token left of the cap, and a told
\* </think> is the last token it tells.
LEMMA RoundR ==
  ASSUME IInv, IInv', RInv, NoStopsInDrafts, Round
  PROVE  RInv'
<1>1. /\ phase = "step" /\ engine.mtp /\ ~engine.stops /\ engine' = engine /\ job' = job
  BY DEF Round, NoStopsInDrafts, Finish, IInv
<1>2. job \in Request /\ Len(out) \in 1 .. job.max - 1
  BY <1>1 DEF RInv, OfRequest, Bounded
<1>3. job.max \in Nat /\ Len(out) \in Nat /\ out \in Seq(Token)
  BY <1>2, RequestFacts DEF IInv
<1> DEFINE End(d, n, cut) ==
             LET ended == cut = 0 /\ n > 0 /\ d[n] \in StopIds
                 recorded == IF cut = 0 THEN n ELSE cut
                 told == SubSeq(d, 1, IF ended THEN n - 1 ELSE recorded)
             IN /\ Commit(n, d)
                /\ out' = out \o told
                /\ thinking' = (thinking /\ ~Contains(told, ThinkClose))
                /\ drawnThinking' = thinking
                /\ IF cut > 0 \/ ended THEN Finish("stop")
                   ELSE phase' = "loop" /\ UNCHANGED <<engine, job, cancel, lastLogits, reason>>
<1>4. PICK drafts \in Chains : \E j \in 0 .. Len(drafts) :
        \E cut \in {0} \cup {i \in 1 .. j : /\ drafts[i] \notin StopIds
                                        /\ TRUE \in Completes(thinking)} :
          End(drafts, j, cut)
  BY ZenonT(60) DEF Round
<1>5. PICK j \in 0 .. Len(drafts) :
        \E cut \in {0} \cup {i \in 1 .. j : /\ drafts[i] \notin StopIds
                                        /\ TRUE \in Completes(thinking)} :
          End(drafts, j, cut)
  BY <1>4
<1>6. End(drafts, j, 0)
  <2>1. TRUE \notin Completes(thinking)
    BY <1>1 DEF Completes
  <2> HIDE DEF End
  <2> QED
    BY <1>5, <2>1
<1> DEFINE ended == j > 0 /\ drafts[j] \in StopIds
           n == IF ended THEN j - 1 ELSE j
           told == SubSeq(drafts, 1, n)
<1>7. /\ drafts \in Seq(Token) /\ Len(drafts) \in 1 .. DraftsAtMost
      /\ \A i \in 1 .. Len(drafts) : drafts[i] = ThinkClose => i = Len(drafts)
  BY <1>3, ChainStops
<1>8. DraftsAtMost \in Nat /\ DraftsAtMost <= job.max - Len(out)
  BY <1>2, <1>3, DraftsAtMostFacts
<1>9. /\ told \in Seq(Token) /\ Len(told) = n /\ n \in 0 .. j /\ j \in 0 .. Len(drafts)
      /\ \A i \in 1 .. n : told[i] = drafts[i]
  <2>1. n \in 0 .. j /\ j \in 0 .. Len(drafts) /\ Len(drafts) \in Nat
    BY <1>5, <1>7
  <2> HIDE DEF n
  <2> QED
    BY <1>7, <2>1, SubSeqProperties
<1>10. /\ out' = out \o told /\ drawnThinking' = thinking
       /\ thinking' = (thinking /\ ~Contains(told, ThinkClose))
       /\ phase' = IF ended THEN "done" ELSE "loop"
       /\ kept' = text'
  BY <1>6 DEF Commit, Finish
<1> HIDE DEF End, told, n, ended
<1>11. /\ Len(out') = Len(out) + n
       /\ n > 0 => out'[Len(out) + n] = told[n]
  <2>1. n \in Nat /\ Len(told) = n /\ told \in Seq(Token) /\ out \in Seq(Token)
    BY <1>3, <1>9
  <2>2. /\ Len(out \o told) = Len(out) + Len(told)
        /\ \A i \in 1 .. Len(out) + Len(told) :
             (out \o told)[i] = IF i <= Len(out) THEN out[i] ELSE told[i - Len(out)]
    BY <2>1, ConcatProperties
  <2> QED
    BY <1>3, <1>10, <2>1, <2>2
<1>12. Len(out') <= job.max
  BY <1>2, <1>3, <1>7, <1>8, <1>9, <1>11
<1>13. CarryOfState'
  <2>1. kept' # None
    BY <1>10, TextIsNotNone DEF IInv
  <2> QED
    BY <1>10, <2>1 DEF CarryOfState, DraftCarry
<1>14. DrawnInPhaseAlmost'
  <2> SUFFICES ASSUME phase' = "loop", drawnThinking' # thinking'
               PROVE  engine'.mtp /\ Len(out') > 1 /\ Last(out') = ThinkClose
    BY DEF DrawnInPhaseAlmost
  <2>1. Contains(told, ThinkClose)
    <3>1. thinking \in BOOLEAN
      BY DEF RInv
    <3> QED
      BY <1>10, <3>1, Zenon
  <2>2. PICK i \in 1 .. n : told[i] = ThinkClose
    BY <1>9, <2>1 DEF Contains
  <2>3. i = Len(drafts) /\ i = n
    BY <1>7, <1>9, <2>2
  <2>4. out'[Len(out')] = ThinkClose
    BY <1>9, <1>11, <2>2, <2>3
  <2> QED
    BY <1>1, <1>2, <1>3, <1>9, <1>11, <2>2, <2>4 DEF Last
<1> QED
  BY <1>1, <1>2, <1>3, <1>10, <1>12, <1>13, <1>14
  DEF RInv, OfRequest, Bounded, CapAlmostKept

LEMMA ReturnR ==
  ASSUME IInv, RInv, Return
  PROVE  RInv'
BY DEF Return, model, RInv, OfRequest, Bounded, CarryOfState, DraftCarry, DrawnInPhaseAlmost

LEMMA StillR ==
  ASSUME IInv, RInv, Cancel \/ UNCHANGED vars
  PROVE  RInv'
<1>1. UNCHANGED <<engine, phase, job, text, carry, kept, drawnThinking, thinking, out>>
  BY DEF Cancel, vars, model, sampled, emitted
<1> QED
  BY <1>1 DEF RInv, OfRequest, Bounded, CapAlmostKept, CarryOfState, DraftCarry,
              DrawnInPhaseAlmost

LEMMA NextR == NoStopsInDrafts /\ IInv /\ IInv' /\ RInv /\ [Next]_vars => RInv'
<1> SUFFICES ASSUME NoStopsInDrafts, IInv, IInv', RInv, [Next]_vars PROVE RInv'
  OBVIOUS
<1>1. CASE \E r \in Request : Begin(r)
  BY <1>1, BeginR
<1>2. CASE PrefillChunk
  BY <1>2, ChunkR
<1>3. CASE PrefillEnd
  BY <1>3, PrefillEndR
<1>4. CASE Emit
  BY <1>4, EmitR
<1>5. CASE Step
  BY <1>5, StepR
<1>6. CASE Round
  BY <1>6, RoundR
<1>7. CASE Return
  BY <1>7, ReturnR
<1>8. CASE Cancel \/ UNCHANGED vars
  BY <1>8, StillR
<1> QED
  BY <1>1, <1>2, <1>3, <1>4, <1>5, <1>6, <1>7, <1>8 DEF Next, Work

-----------------------------------------------------------------------------
(***************************************************************************)
(* The context window                                                      *)
(***************************************************************************)
Residuals == {carry, kept} \subseteq Texts \cup {None}

TInv ==
  /\ Len(text) <= Ctx
  /\ Residuals
  /\ cancel \in BOOLEAN /\ drawnThinking \in BOOLEAN
  /\ reason \in {"none", "stop", "length", "cancelled"}

LEMMA TextsFacts == \A t \in Seq(Token) : Len(t) <= Ctx => t \in Texts
<1> TAKE t \in Seq(Token)
<1>1. Len(t) \in Nat /\ t \in [1 .. Len(t) -> Token]
  OBVIOUS
<1>2. Len(t) <= Ctx => Len(t) \in 0 .. Ctx
  BY <1>1, ContextAssumption
<1> QED
  BY <1>1, <1>2 DEF Texts

LEMMA SoundRounds == IInv /\ RInv => RoundsSound
<1> SUFFICES ASSUME IInv, RInv, phase = "step", engine.mtp
             PROVE  /\ DraftCarry = text
                    /\ Len(text) + 1 + DraftsAtMost <= Ctx
                    /\ 1 + DraftsAtMost <= BatchMax
  BY DEF RoundsSound, DraftCarryCurrent, RowsFit
<1>1. /\ job \in Request /\ Len(out) \in 1 .. job.max - 1
      /\ text \o <<next>> = job.ids \o out
      /\ text \in Seq(Token) /\ out \in Seq(Token) /\ job.ids \in Seq(Token)
  BY DEF IInv, InStep, RInv, OfRequest, Bounded
<1>2. /\ Len(job.ids) \in Nat \ {0} /\ job.max \in Nat /\ Len(out) \in Nat
      /\ Len(job.ids) + job.max <= Ctx
  BY <1>1, RequestFacts
<1>3. Len(text) + 1 = Len(job.ids) + Len(out) /\ Len(text) \in Nat
  <2>1. Len(text \o <<next>>) = Len(text) + 1 /\ Len(text) \in Nat
    BY <1>1
  <2>2. Len(job.ids \o out) = Len(job.ids) + Len(out)
    BY <1>1
  <2> QED
    BY <1>1, <2>1, <2>2
<1>4. DraftCarry = text
  BY <1>2, <1>1, <1>3 DEF RInv, CarryOfState
<1>5. /\ DraftsAtMost \in Nat /\ DraftsAtMost <= BatchMax - 1
      /\ DraftsAtMost <= job.max - Len(out)
  BY <1>1, <1>2, DraftsAtMostFacts
<1>6. Len(text) + 1 + DraftsAtMost <= Ctx
  BY <1>2, <1>3, <1>5, ContextAssumption
<1> QED
  BY <1>4, <1>5, <1>6, BatchAssumption

\* A step leaves a text that fits, and takes the residuals from it or from before.
LEMMA TextFits ==
  ASSUME IInv, IInv', RInv, RInv', TInv, NoStopsInDrafts, Next
  PROVE  Len(text') <= Ctx
<1>1. CASE UNCHANGED text
  BY <1>1 DEF TInv
<1>2. CASE \E r \in Request : Begin(r)
  <2>1. PICK r \in Request : Begin(r)
    BY <1>2
  <2>2. phase' = "prefill" /\ job' = r
    BY <2>1 DEF Begin
  <2>3. Len(text') <= Len(r.ids)
    BY <2>2 DEF IInv, InPrefill
  <2>4. r \in Request
    BY <2>1
  <2>5. Len(r.ids) \in Nat /\ Len(r.ids) <= Ctx
    BY <2>4, RequestFacts, ContextAssumption
  <2>6. Len(text') \in Nat
    BY DEF IInv
  <2> QED
    BY <2>3, <2>5, <2>6, ContextAssumption
<1>3. CASE PrefillChunk
  <2>1. phase' = "prefill" /\ job' \in Request /\ Len(text') <= Len(job'.ids)
    BY <1>3 DEF PrefillChunk, IInv, InPrefill, RInv, OfRequest
  <2> QED
    BY <2>1, RequestFacts, ContextAssumption DEF IInv
<1>4. CASE Step
  <2>1. phase' = "loop" /\ job' \in Request /\ Len(out') <= job'.max
    BY <1>4 DEF Step, RInv, OfRequest, Bounded
  <2>2. /\ text' = job'.ids \o out'
        /\ job'.ids \in Seq(Token) /\ out' \in Seq(Token)
    BY <2>1 DEF IInv, InLoop
  <2>3. Len(text') = Len(job'.ids) + Len(out')
    BY <2>2
  <2> QED
    BY <2>1, <2>2, <2>3, RequestFacts, ContextAssumption
<1>5. CASE Round
  <2>1. PICK d \in Chains : \E j \in 0 .. Len(d) : Commit(j, d)
    BY <1>5, Zenon DEF Round
  <2>2. PICK j \in 0 .. Len(d) : text' = text \o <<next>> \o SubSeq(d, 1, j)
    BY <2>1 DEF Commit
  <2>3. phase = "step" /\ engine.mtp /\ job \in Request /\ Len(out) \in 1 .. job.max - 1
    BY <1>5 DEF Round, RInv, OfRequest, Bounded
  <2>4. job.max \in Nat /\ Len(out) \in Nat
    BY <2>3, RequestFacts
  <2>5. /\ d \in Seq(Token) /\ Len(d) \in 1 .. DraftsAtMost /\ DraftsAtMost \in Nat
        /\ Len(text) + 1 + DraftsAtMost <= Ctx
    BY <2>3, <2>4, ChainStops, DraftsAtMostFacts, SoundRounds DEF RoundsSound, RowsFit
  <2>6. SubSeq(d, 1, j) \in Seq(Token) /\ Len(SubSeq(d, 1, j)) = j /\ j \in 0 .. Len(d)
    BY <2>5, SubSeqProperties
  <2>7. text \in Seq(Token) /\ <<next>> \in Seq(Token)
    BY DEF IInv
  <2>8. Len(text') = Len(text) + 1 + j
    <3>1. /\ text \o <<next>> \in Seq(Token)
          /\ Len(text \o <<next>>) = Len(text) + 1
      BY <2>7
    <3>2. Len((text \o <<next>>) \o SubSeq(d, 1, j)) = (Len(text) + 1) + j
      BY <2>6, <3>1, ConcatProperties
    <3> QED
      BY <2>2, <3>2
  <2> QED
    BY <2>5, <2>6, <2>7, <2>8, ContextAssumption
<1> QED
  BY <1>1, <1>2, <1>3, <1>4, <1>5
  DEF Next, Work, Cancel, PrefillEnd, Emit, Return, model

LEMMA ResidualStep ==
  ASSUME Next
  PROVE  {carry', kept'} \subseteq {text', text, carry, kept, None}
<1>1. CASE \E r \in Request : Begin(r)
  BY <1>1 DEF Begin, Reuse, Reset, Restore, model
<1>2. CASE PrefillChunk \/ Step
  BY <1>2 DEF PrefillChunk, StepBatch, Step, StepOne
<1>3. CASE Round
  BY <1>3 DEF Round, Commit, DraftCarry
<1> QED
  BY <1>1, <1>2, <1>3 DEF Next, Work, Cancel, PrefillEnd, Emit, Return, model

LEMMA NextT ==
  ASSUME IInv, IInv', RInv, RInv', TInv, NoStopsInDrafts, [Next]_vars
  PROVE  TInv'
<1>1. CASE UNCHANGED vars
  BY <1>1 DEF TInv, Residuals, Texts, vars, model, sampled
<1>2. CASE Next
  <2>1. Len(text') <= Ctx
    BY <1>2, TextFits
  <2>2. Residuals'
    <3>1. text \in Texts /\ text' \in Texts
      BY <2>1, TextsFacts DEF IInv, TInv
    <3>2. {carry', kept'} \subseteq {text', text, carry, kept, None}
      BY <1>2, ResidualStep
    <3>3. Texts' = Texts
      BY DEF Texts
    <3> QED
      BY <3>1, <3>2, <3>3 DEF Residuals, TInv
  <2>3. cancel' \in BOOLEAN /\ drawnThinking' \in BOOLEAN
    <3>1. CASE PrefillEnd
      BY <3>1, RequestFacts DEF PrefillEnd, First, Finish, sampled, TInv, RInv, OfRequest
    <3>2. CASE Step \/ Round
      <4>1. drawnThinking' = thinking
        BY <3>2 DEF Step, Round
      <4>2. cancel' = cancel
        BY <3>2, ZenonT(60) DEF Step, Round, Finish
      <4> QED
        BY <4>1, <4>2 DEF TInv, RInv
    <3>3. CASE PrefillChunk \/ Emit
      BY <3>3 DEF PrefillChunk, Emit, Finish, sampled, TInv
    <3>4. CASE Return \/ Cancel
      BY <3>4 DEF Return, Cancel, sampled, TInv
    <3>5. CASE \E r \in Request : Begin(r)
      BY <3>5 DEF Begin, sampled, TInv
    <3> QED
      BY <1>2, <3>1, <3>2, <3>3, <3>4, <3>5 DEF Next, Work
  <2>4. reason' \in {"none", "stop", "length", "cancelled"}
    <3>1. CASE PrefillEnd
      BY <3>1 DEF PrefillEnd, Finish, TInv
    <3>2. CASE Emit
      BY <3>2 DEF Emit, Finish, TInv
    <3>3. CASE Round
      BY <3>3 DEF Round, Finish, TInv
    <3>4. CASE Step \/ PrefillChunk \/ Return \/ Cancel
      BY <3>4 DEF Step, PrefillChunk, Return, Cancel, TInv
    <3>5. CASE \E r \in Request : Begin(r)
      BY <3>5 DEF Begin, TInv
    <3> QED
      BY <1>2, <3>1, <3>2, <3>3, <3>4, <3>5 DEF Next, Work
  <2> QED
    BY <2>1, <2>2, <2>3, <2>4 DEF TInv
<1> QED
  BY <1>1, <1>2

-----------------------------------------------------------------------------
(***************************************************************************)
(* Theorems                                                                *)
(***************************************************************************)
\* Both invariants together are inductive.
THEOREM RoundsInductive == ASSUME NoStopsInDrafts PROVE Spec => []RInv
<1>1. Init => RInv
  BY InitR
<1>2. IInv /\ IInv' /\ RInv /\ [Next]_vars => RInv'
  BY NextR
<1> QED
  BY <1>1, <1>2, Inductive, PTL DEF Spec

\* Every variable keeps its type, and the model's state never outgrows the
\* context window, whatever is drafted, continued or restored.
THEOREM TypeAlwaysOK == ASSUME NoStopsInDrafts PROVE Spec => []TypeOK
<1>1. Init => TInv
  <2> SUFFICES ASSUME Init PROVE TInv
    OBVIOUS
  <2>1. Len(text) <= Ctx
    BY ContextAssumption DEF Init
  <2>2. Residuals
    BY DEF Init, Residuals
  <2>3. cancel \in BOOLEAN /\ drawnThinking \in BOOLEAN
    BY DEF Init
  <2>4. reason \in {"none", "stop", "length", "cancelled"}
    BY DEF Init
  <2> QED
    BY <2>1, <2>2, <2>3, <2>4 DEF TInv
<1>2. IInv /\ IInv' /\ RInv /\ RInv' /\ TInv /\ [Next]_vars => TInv'
  BY NextT
<1>3. IInv /\ RInv /\ TInv => TypeOK
  <2> SUFFICES ASSUME IInv, RInv, TInv PROVE TypeOK
    OBVIOUS
  <2>1. text \in Texts
    BY TextsFacts DEF IInv, TInv
  <2> QED
    BY <2>1 DEF IInv, RInv, TInv, Residuals, KnownLogits, TypeOK
<1> QED
  BY <1>1, <1>2, <1>3, Inductive, RoundsInductive, PTL DEF Spec

\* Drafting shows in a request's output in two places only: one token above
\* max_tokens, and the settings of the one token behind an accepted </think>
\* (the loop of run_job around Speculator::round).
THEOREM DraftsAlwaysAlmostInvisible ==
  ASSUME NoStopsInDrafts PROVE Spec => []DraftsAlmostInvisible
<1>1. IInv /\ RInv => DraftsAlmostInvisible
  <2> SUFFICES ASSUME IInv, RInv PROVE CapAlmostKept
    BY DEF DraftsAlmostInvisible, RInv
  <2>1. CASE phase = "idle"
    BY <2>1 DEF IInv, RInv, OfRequest, NoRequest, CapAlmostKept
  <2>2. CASE phase # "idle"
    <3>1. job.max \in Nat /\ Len(out) \in Nat
      BY <2>2, RequestFacts DEF IInv, RInv, OfRequest
    <3> QED
      BY <2>2, <3>1 DEF IInv, RInv, Bounded, CapAlmostKept
  <2> QED
    BY <2>1, <2>2
<1> QED
  BY <1>1, Inductive, RoundsInductive, PTL

\* A round starts its drafts from the residual of the last committed position
\* (restore_carry after any mix of steps, commits, resets and restores), and
\* the rows it verifies fit the context window, the batch and the checkpoints.
THEOREM RoundsAlwaysSound == ASSUME NoStopsInDrafts PROVE Spec => []RoundsSound
<1>1. IInv /\ RInv => RoundsSound
  BY SoundRounds
<1> QED
  BY <1>1, Inductive, RoundsInductive, PTL

=============================================================================
