--------------------------- MODULE DecodeProgram ---------------------------
(***************************************************************************)
(* The run closure of a single-token step (tr-model/src/exec.rs, worker):  *)
(* what core c of tile t touches, between which barriers.  Buffers: "mb."  *)
(* a slot of the tile's mailbox (exchange.rs), "ws." the tile's TileWs,    *)
(* "st." its recurrent state and caches.  The private CoreScratch of a     *)
(* core, the weights (read only) and the vector dumps are left out; a      *)
(* remote read of part of a slot counts as a read of the whole slot.       *)
(*                                                                         *)
(* Each operator is a function of exec.rs and lists its steps in order.    *)
(***************************************************************************)
EXTENDS Accesses, SequencesExt

CONSTANTS
    Layers,     \* the layers of the pack: <<[ple, mixer, indexer, sparse], ...>>
    HasMtp      \* the draft head is loaded (Model.mtp)

ASSUME LayersAssumption ==
    /\ Layers \in Seq([ple : BOOLEAN, mixer : {"gdn", "attn"},
                       indexer : BOOLEAN, sparse : BOOLEAN])
    /\ HasMtp \in BOOLEAN

(***************************************************************************)
(* Mailboxes::gather and ::reduce: every core copies (or sums) its range   *)
(* of all tiles' slots into a buffer of its tile, then a node barrier.     *)
(***************************************************************************)
Gather(t, c, slot, dst) ==
    << Do(EveryTile({slot}), Mine(t, c, "range", {dst})), NodeBarrier >>

Reduce(t, c, slot, dst) ==
    << Do(EveryTile({slot}), Mine(t, c, "range", {dst})), NodeBarrier >>

(***************************************************************************)
(* Hyper-connection mix, part 1: sums of squares, normalised xn and the    *)
(* inject partials, the quantised K slice, own strips of lo.               *)
(***************************************************************************)
HcMixA(t, c) ==
    << Do({}, Mine(t, c, "core", {"ws.part.sumsq"})),
       NodeBarrier,
       Do(All(t, {"ws.part.sumsq"}),
          Mine(t, c, "block", {"ws.xn"}) \cup Mine(t, c, "core", {"ws.part.inject"})),
       NodeBarrier,
       Do(All(t, {"ws.xn"}), Mine(t, c, "kblock", {"ws.xq"})),
       NodeBarrier,
       Do(All(t, {"ws.part.inject", "ws.xq"}), Mine(t, c, "strip", {"mb.lo"})) >>

(***************************************************************************)
(* Part 2: lo of every tile, own rows of the gate, the tile's slice of     *)
(* mixed, which core 0 publishes.                                          *)
(***************************************************************************)
HcMixB(t, c) ==
    << Do(EveryTile({"mb.lo"}), Mine(t, c, "strip", {"ws.gate_local"})),
       NodeBarrier,
       Do(All(t, {"ws.xn", "ws.gate_local"}), When(c = 0, All(t, {"mb.mixed"}))) >>

\* Gated delta net: projections, convolution with its history, the delta
\* rule on the recurrent state, the output projection.
GdnBlock(t, c) ==
    << Do(All(t, {"ws.mixed_full"}),
          Mine(t, c, "strip", {"ws.qkv", "ws.z"})
              \cup When(c = 0, All(t, {"ws.beta", "ws.alpha"}))),
       NodeBarrier,
       Do(Mine(t, c, "channel", {"ws.qkv", "st.conv"}),
          Mine(t, c, "channel", {"st.conv", "ws.qkvc"})),
       NodeBarrier,
       Do(All(t, {"ws.qkvc", "ws.alpha", "ws.beta"}) \cup Mine(t, c, "chunk", {"st.ssm"}),
          Mine(t, c, "chunk", {"st.ssm", "ws.y"})),
       NodeBarrier,
       Do(All(t, {"ws.y", "ws.z"}), Mine(t, c, "strip", {"mb.part"})) >>

\* The QSA indexer of an attention layer: gather every tile's projections,
\* core 0 updates the block keys, all cores score the blocks.
Indexer(t, c, sparse) ==
    << Barrier,
       Do(EveryTile({"mb.idx"}), Mine(t, c, "range", {"ws.idx_qraw", "ws.idx_kraw"})),
       NodeBarrier,
       Do(When(c = 0, All(t, {"ws.idx_qraw", "ws.idx_kraw", "st.ik_raw"})),
          When(c = 0, All(t, {"ws.idx_q", "st.ik_raw", "st.ik_pooled"}))),
       NodeBarrier >>
    \o IF ~sparse THEN <<>>
       ELSE << Do(All(t, {"ws.idx_q", "st.ik_pooled"}), Mine(t, c, "block", {"ws.idx_scores"})),
               NodeBarrier >>

HeadCore(c) == c = 0                    \* ctx.local < qh (one head per tile here)
SelectCore(c) == c = NCores - 1         \* the core that writes the selection

\* Partial attention of the queries over the selected rows, by task; the
\* merge of a head's parts; the output projection.
Attend(t, c) ==
    << Do(All(t, {"ws.sel", "ws.qn", "st.kv"}), Mine(t, c, "task", {"ws.attn_part"})),
       NodeBarrier,
       Do(When(HeadCore(c), All(t, {"ws.qg", "ws.attn_part"})),
          When(HeadCore(c), Mine(t, c, "head", {"ws.o"}))),
       NodeBarrier,
       Do(All(t, {"ws.o"}), Mine(t, c, "strip", {"mb.part"})) >>

\* Attention: projections; core 0 stores the row in the KV cache; the
\* indexer or a plain node barrier; queries and the selection; Attend.
AttnBlock(t, c, layer) ==
    << Do(All(t, {"ws.mixed_full"}),
          Mine(t, c, "strip", {"ws.qg", "ws.kn", "ws.vn"})
              \cup When(layer.indexer, Mine(t, c, "strip", {"mb.idx"}))),
       NodeBarrier,
       Do(When(c = 0, All(t, {"ws.kn", "ws.vn"})), When(c = 0, All(t, {"st.kv"}))) >>
    \o (IF layer.indexer THEN Indexer(t, c, layer.sparse) ELSE << NodeBarrier >>)
    \o
    << Do(When(HeadCore(c), All(t, {"ws.qg"}))
              \cup When(SelectCore(c) /\ layer.sparse, All(t, {"ws.idx_scores"})),
          When(HeadCore(c), Mine(t, c, "head", {"ws.qn"}))
              \cup When(SelectCore(c), All(t, {"ws.sel"}))),
       NodeBarrier >>
    \o Attend(t, c)

\* Mixture of experts: gate and up strips by task, activations by slot, own
\* down strips over all slots.
MoeBlock(t, c) ==
    << Do(All(t, {"ws.rlog", "ws.mixed_full"}), Mine(t, c, "task", {"ws.hg", "ws.hu"})),
       NodeBarrier,
       Do(All(t, {"ws.hg", "ws.hu"}), Mine(t, c, "slot", {"ws.act"})),
       NodeBarrier,
       Do(All(t, {"ws.act"}), Mine(t, c, "strip", {"mb.part"})) >>

\* Per-layer embeddings: rows by head, key and value strips, core 0's partial
\* statistics, and the history, which core 0 shifts after everyone read it.
PleBlock(t, c) ==
    << Do({}, Mine(t, c, "head", {"ws.ple_emb"})),
       NodeBarrier,
       Do(All(t, {"ws.ple_emb"}), Mine(t, c, "strip", {"ws.ple_key", "ws.ple_val"})),
       NodeBarrier,
       Do(When(c = 0, All(t, {"ws.ple_key", "ws.ple_val"})), When(c = 0, All(t, {"mb.ple"}))),
       Barrier,
       Do(EveryTile({"mb.ple"}) \cup All(t, {"st.ple_hist"}), {}),
       NodeBarrier,
       Do({}, When(c = 0, All(t, {"st.ple_hist"}))),
       NodeBarrier >>

\* hc_combine: the private residual takes the reduced output.
HcCombine(t) == << Do(All(t, {"ws.red"}), {}) >>

DecodeLayer(t, c, layer) ==
    (IF layer.ple THEN PleBlock(t, c) ELSE <<>>)
    \o HcMixA(t, c) \o << Barrier >>
    \o HcMixB(t, c) \o << Barrier >>
    \o Gather(t, c, "mb.mixed", "ws.mixed_full")
    \o (IF layer.mixer = "gdn" THEN GdnBlock(t, c) ELSE AttnBlock(t, c, layer))
    \o << Barrier >>
    \o Reduce(t, c, "mb.part", "ws.red") \o HcCombine(t)
    \o HcMixA(t, c) \o << Barrier >>
    \o HcMixB(t, c) \o << Do({}, Mine(t, c, "expert", {"mb.rlog"})), Barrier >>
    \o Gather(t, c, "mb.mixed", "ws.mixed_full")
    \o Reduce(t, c, "mb.rlog", "ws.rlog")
    \o MoeBlock(t, c) \o << Barrier >>
    \o Reduce(t, c, "mb.part", "ws.red") \o HcCombine(t)

(***************************************************************************)
(* The head on a private residual (head_step_with; the same sequence ends  *)
(* worker): the logits slice of the tile, then a global barrier.           *)
(***************************************************************************)
HeadStepWith(t, c) ==
    HcMixA(t, c) \o << Barrier >>
    \o HcMixB(t, c) \o << Barrier >>
    \o Gather(t, c, "mb.mixed", "ws.mixed_full")
    \o << Do(All(t, {"ws.mixed_full"}), Mine(t, c, "strip", {"mb.logits"})), Barrier >>

\* The embedding row: published by core 0 of the owner tile (any tile may be
\* the owner), copied by every core to its private residual.
Embed(t, c) ==
    << Do({}, When(c = 0, All(t, {"mb.emb"}))), Barrier, Do(EveryTile({"mb.emb"}), {}) >>

\* worker: the embedding, the layers, the draft head's carry, the head.
StepProgram(t, c) ==
    Embed(t, c)
    \o FlattenSeq([i \in 1 .. Len(Layers) |-> DecodeLayer(t, c, Layers[i])])
    \o << Do({}, When(HasMtp /\ c = 0, All(t, {"ws.mtp_carry"}))) >>
    \o HeadStepWith(t, c)
=============================================================================
