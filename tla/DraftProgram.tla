---------------------------- MODULE DraftProgram ---------------------------
(***************************************************************************)
(* The draft head (tr-model/src/exec_mtp.rs) and the run closures that     *)
(* start the batched steps (exec_batch.rs, worker_batch).                  *)
(***************************************************************************)
EXTENDS BatchProgram

\* The draft head's layer: full attention with an indexer.
MtpLayer == [ple |-> FALSE, mixer |-> "attn", indexer |-> TRUE, sparse |-> TRUE]

(***************************************************************************)
(* mtp_rows.  "source" is where the hidden row comes from (MtpIn): the     *)
(* main model's carry, a row of the batch residual or the last residual of *)
(* this layer.  saveCarry: core 0 first copies a row of the residual into  *)
(* the carry.  mainRows: the rope positions are taken from the main        *)
(* batch's rows, which the draft rows then overwrite.                      *)
(***************************************************************************)
SourceOf(t, source) ==
    CASE source = "carry" -> All(t, {"ws.mtp_carry"})
      [] source = "chain" -> All(t, {"ws.mtp_res"})
      [] source = "row"   -> All(t, {"bw.res"})

MtpRows(t, c, b, source, saveCarry, mainRows, logits) ==
    << Do(When(saveCarry /\ c = 0, All(t, {"bw.res"})) \cup When(mainRows, All(t, {"bw.pos3"})),
          When(saveCarry /\ c = 0, All(t, {"ws.mtp_carry"}))),
       NodeBarrier,
       Do({}, Rows(t, c, {"bw.pos3"}) \cup Mine(t, c, "modrow", {"mb.emb"})),
       Barrier,
       Do(SourceOf(t, source) \cup EveryTile({"mb.emb"}), Rows(t, c, {"bw.xn", "bw.emb"})),
       NodeBarrier,
       Do(Rows(t, c, {"bw.xn", "bw.emb"}), Rows(t, c, {"bw.mtp_q", "bw.mixed_q"})),
       NodeBarrier,
       Do(All(t, {"bw.mtp_q", "bw.mixed_q"}),
          Mine(t, c, "mtpstrip", {"mb.part"}) \cup Stage(t, c)),
       Barrier,
       Do(EveryTile({"mb.part"}), Mine(t, c, "streamrow", {"bw.res"})),
       NodeBarrier >>
    \o LayerBatch(t, c, b, MtpLayer)
    \o << Do(When(c = 0, All(t, {"bw.res"})), When(c = 0, All(t, {"ws.mtp_res"}))) >>
    \o (IF logits THEN HeadOfLastRow(t, c) ELSE << NodeBarrier >>)

\* restore_carry: core 0 takes the carry from the kept verify row.
RestoreCarry(t, c) ==
    << Do(When(c = 0, All(t, {"bw.res_keep"})), When(c = 0, All(t, {"ws.mtp_carry"}))) >>

\* draft_pick: candidates of each core, merged by core 0, exchanged, and the
\* same draw on every tile.
DraftPick(t, c) ==
    << Do(Mine(t, c, "range", {"mb.logits"}), Mine(t, c, "core", {"ws.cand_core"})),
       NodeBarrier,
       Do(When(c = 0, All(t, {"ws.cand_core"})), When(c = 0, All(t, {"mb.cand"}))),
       Barrier,
       Do(When(c = 0, EveryTile({"mb.cand"})), When(c = 0, All(t, {"ws.draft_tok"}))),
       NodeBarrier,
       Do(All(t, {"ws.draft_tok"}), {}) >>

\* mtp_draft: the row of t0 from the carry, then chained rows, each followed
\* by a pick; the chain stops after the same draft on every worker.
DraftChain(t, c, tps, drafts) ==
    LET one == Batch(TRUE, FALSE, tps)
        Draft(i) == MtpRows(t, c, one, IF i = 1 THEN "carry" ELSE "chain", FALSE, FALSE, TRUE)
                        \o DraftPick(t, c)
    IN  RestoreCarry(t, c) \o FlattenSeq([i \in 1 .. drafts |-> Draft(i)])

\* mtp_extend: rows of the draft head on given hidden sources, with logits.
MtpExtend(t, c, tps) ==
    RestoreCarry(t, c) \o MtpRows(t, c, Batch(TRUE, FALSE, tps), "carry", FALSE, FALSE, TRUE)

(***************************************************************************)
(* worker_batch: rope positions and embedding rows, the layers, and what   *)
(* the mode asks for at the end.                                           *)
(***************************************************************************)
BatchStart(t, c) ==
    << Do({}, Rows(t, c, {"bw.pos3"}) \cup Mine(t, c, "modrow", {"mb.emb"})),
       Barrier,
       Do(EveryTile({"mb.emb"}), Mine(t, c, "strided", {"bw.res"})),
       NodeBarrier >>

BatchLayers(t, c, b) ==
    FlattenSeq([i \in 1 .. Len(Layers) |-> LayerBatch(t, c, b, Layers[i])])

\* Prefill: the head on the last row, then (with a draft head) its rows over
\* this chunk.
PrefillProgram(t, c, tps, small) ==
    LET b == Batch(small, FALSE, tps) IN
    BatchStart(t, c) \o BatchLayers(t, c, b) \o HeadOfLastRow(t, c)
    \o (IF HasMtp THEN MtpRows(t, c, b, "row", TRUE, TRUE, FALSE) ELSE <<>>)

\* Verify: the head on every row; the residual rows are kept before the draft
\* head's refresh overwrites them.
VerifyProgram(t, c, tps) ==
    LET b == Batch(TRUE, TRUE, tps)
        refresh == Batch(TRUE, FALSE, tps)
    IN  BatchStart(t, c) \o BatchLayers(t, c, b) \o HeadBatch(t, c, b)
        \o (IF ~HasMtp THEN <<>>
            ELSE << Do(Rows(t, c, {"bw.res"}), Rows(t, c, {"bw.res_keep"})), NodeBarrier >>
                 \o MtpRows(t, c, refresh, "row", FALSE, FALSE, FALSE))

\* Continuous: the residual rows with an output are kept in res_keep, each
\* split by column, and copied back as one flat range before the head on them.
ContinuousProgram(t, c, tps, small, outputs) ==
    LET b == Batch(small, FALSE, tps)
        Columns(buf) == Mine(t, c, "column", {buf})
        Flat(buf) == Mine(t, c, "flat", {buf})
    IN  BatchStart(t, c) \o BatchLayers(t, c, b)
        \o << Do(Columns("bw.res"), Columns("bw.res_keep")),
              NodeBarrier,
              Do(Flat("bw.res_keep"), Flat("bw.res")),
              NodeBarrier >>
        \o (IF outputs THEN HeadBatch(t, c, b) ELSE <<>>)
=============================================================================
