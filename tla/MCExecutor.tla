----------------------------- MODULE MCExecutor -----------------------------
(* The executor's run closures on the worker pool: two tiles of two cores. *)
EXTENDS WorkerPool, VisionProgram, StateProgram

LayersDef ==
    << [ple |-> TRUE, mixer |-> "gdn", indexer |-> FALSE, sparse |-> FALSE],
       [ple |-> FALSE, mixer |-> "attn", indexer |-> TRUE, sparse |-> TRUE],
       [ple |-> FALSE, mixer |-> "attn", indexer |-> FALSE, sparse |-> FALSE] >>

\* The phases of a closure on every worker.  (Written out with :> and @@,
\* and below as records and a tuple, for TLC to compute them once.)
OnWorkers(Steps(_, _)) ==
    LET On(t, c) == <<t, c>> :> PhasesOf(Steps(t, c))
    IN  On(0, 0) @@ On(0, 1) @@ On(1, 0) @@ On(1, 1)

\* The closures of a model with tps tiles per socket and as many K/V heads.
ClosuresOf(tps) ==
    [step       |-> OnWorkers(StepProgram),
     prefill    |-> OnWorkers(LAMBDA t, c : PrefillProgram(t, c, tps, FALSE)),
     remainder  |-> OnWorkers(LAMBDA t, c : PrefillProgram(t, c, tps, TRUE)),
     verify     |-> OnWorkers(LAMBDA t, c : VerifyProgram(t, c, tps)),
     continuous |-> OnWorkers(LAMBDA t, c : ContinuousProgram(t, c, tps, FALSE, FALSE)),
     batch      |-> OnWorkers(LAMBDA t, c : ContinuousProgram(t, c, tps, TRUE, TRUE)),
     extend     |-> OnWorkers(LAMBDA t, c : MtpExtend(t, c, tps)),
     draft      |-> OnWorkers(LAMBDA t, c : DraftChain(t, c, tps, 1)),
     vision     |-> OnWorkers(LAMBDA t, c : VisionWorker(t, c, tps)),
     rows_out   |-> OnWorkers(LAMBDA t, c : RowsCopy(t, c, tps, TRUE)),
     rows_in    |-> OnWorkers(LAMBDA t, c : RowsCopy(t, c, tps, FALSE)),
     snap_out   |-> OnWorkers(LAMBDA t, c : SnapshotCopy(t, c, TRUE, tps = 1)),
     snap_in    |-> OnWorkers(LAMBDA t, c : SnapshotCopy(t, c, FALSE, FALSE)),
     fork       |-> OnWorkers(ForkCopy),
     page       |-> OnWorkers(CopyPage),
     load       |-> OnWorkers(ParallelLoad)]

ProgramDef == << ClosuresOf(1), ClosuresOf(2) >>

ScheduleDef == << {"extend"}, Jobs >>
=============================================================================
