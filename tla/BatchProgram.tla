---------------------------- MODULE BatchProgram ---------------------------
(***************************************************************************)
(* The run closures of the batched steps (tr-model/src/exec_batch.rs and   *)
(* exec_mtp.rs): prompt processing, speculative verification, the rows of  *)
(* several sequences at once, and the draft head.  "bw." is the tile's     *)
(* BatchWs; the other prefixes are those of DecodeProgram.                 *)
(*                                                                         *)
(* A batch b is a record:                                                  *)
(*   small  fewer rows than cores: the inject and router work is split by  *)
(*          column instead of by row                                       *)
(*   ckpt   speculative verify: the live state is read, checkpoints are    *)
(*          written                                                        *)
(*   tps    tiles per socket of the machine (Model.tiles_per_socket)       *)
(***************************************************************************)
EXTENDS DecodeProgram

Batch(small, ckpt, tps) == [small |-> small, ckpt |-> ckpt, tps |-> tps]

Rows(t, c, bufs) == Mine(t, c, "row", bufs)
Strips(t, c, bufs) == Mine(t, c, "strip", bufs)
Stage(t, c) == Mine(t, c, "core", {"bw.stage"})

\* Tiles of the socket of t, and the tiles of every socket with t's index.
SocketOf(t, tps) == {u \in Nodes : u \div tps = t \div tps}
SameIndex(t, tps) == {u \in Nodes : u % tps = t % tps}
RowsOf(tiles, c, buf) == UNION {Rows(u, c, {buf}) : u \in tiles}

\* dense_gemm_part: the core's strips are computed in its stage and streamed
\* from there into the part slot, which other tiles read.
GemmPart(t, c, src) == << Do(All(t, {src}), Strips(t, c, {"mb.part"}) \cup Stage(t, c)) >>

\* prep_rows of the core's rows, then the tile waits for all of them.
PrepRows(t, c, src, dst) == << Do(Rows(t, c, {src}), Rows(t, c, {dst})), NodeBarrier >>

\* gather_rows: tasks are (tile, row) pairs.
GatherRows(t, c, slot, dst) ==
    << Do(EveryTile({slot}), Mine(t, c, "tilerow", {dst})), NodeBarrier >>

ReduceScatterOnce(t, c, b, slot) ==  \* mutant: rfull is read without a barrier
    << Do(RowsOf(SocketOf(t, b.tps), c, slot), Rows(t, c, {"mb.rsum"}) \cup Stage(t, c)),
       Barrier,
       IF NNodes = b.tps
       THEN Do(Rows(t, c, {"mb.rsum"}), Rows(t, c, {"mb.rfull"}))
       ELSE Do(RowsOf(SameIndex(t, b.tps), c, "mb.rsum"),
               Rows(t, c, {"mb.rfull"}) \cup Stage(t, c)),
       NodeBarrier >>

(***************************************************************************)
(* reduce_scatter: own-socket sums of the tile's column slices into rsum,  *)
(* a global barrier, the other sockets' partials added into rfull, a       *)
(* global barrier.  On one socket rsum is copied to rfull.                 *)
(***************************************************************************)
ReduceScatter(t, c, b, slot) ==
    << Do(RowsOf(SocketOf(t, b.tps), c, slot), Rows(t, c, {"mb.rsum"}) \cup Stage(t, c)),
       Barrier,
       IF NNodes = b.tps
       THEN Do(Rows(t, c, {"mb.rsum"}), Rows(t, c, {"mb.rfull"}))
       ELSE Do(RowsOf(SameIndex(t, b.tps), c, "mb.rsum"),
               Rows(t, c, {"mb.rfull"}) \cup Stage(t, c)),
       Barrier >>

AllreduceRows(t, c, b, slot, dst) ==
    ReduceScatter(t, c, b, slot) \o
    << Do(UNION {All(u, {"mb.rfull"}) : u \in SocketOf(t, b.tps)},
          Mine(t, c, "tilerow", {dst})),
       NodeBarrier >>

ReduceCombine(t, c, b) ==
    ReduceScatter(t, c, b, "mb.part") \o
    << Do(RowsOf(SocketOf(t, b.tps), c, "mb.rfull") \cup Rows(t, c, {"bw.inject", "bw.res"}),
          Rows(t, c, {"bw.res"})),
       NodeBarrier >>

(***************************************************************************)
(* hc_a_batch.  With few rows every core takes a K range of all rows, its  *)
(* partial sums go to its stage, and the stages are added after a barrier; *)
(* the stage is reused for the down projection only after another one.     *)
(***************************************************************************)
HcA(t, c, b, inject) ==
    << Do(Mine(t, c, "streamrow", {"bw.res"}), Mine(t, c, "streamrow", {"bw.xn"})),
       NodeBarrier,
       Do(IF inject /\ b.small THEN All(t, {"bw.xn"}) ELSE Rows(t, c, {"bw.xn"}),
          Rows(t, c, {"bw.xq"})
              \cup (CASE inject /\ b.small -> Stage(t, c)
                      [] inject /\ ~b.small -> Rows(t, c, {"bw.inject"})
                      [] OTHER -> {})),
       NodeBarrier >>
    \o (IF inject /\ b.small
        THEN << Do(All(t, {"bw.stage"}), Rows(t, c, {"bw.inject"})), NodeBarrier >>
        ELSE <<>>)
    \o << Do(All(t, {"bw.xq"}), Strips(t, c, {"mb.lo"}) \cup Stage(t, c)) >>

HcB(t, c, b, router) ==
    << Do(RowsOf(Nodes, c, "mb.lo"), Rows(t, c, {"bw.lo"})), NodeBarrier >>
    \o PrepRows(t, c, "bw.lo", "bw.lo_q") \o
    << Do(All(t, {"bw.lo_q"}), Strips(t, c, {"bw.gate_local"})),
       NodeBarrier,
       Do(Rows(t, c, {"bw.xn", "bw.gate_local"}), Rows(t, c, {"mb.mixed"}) \cup Stage(t, c)),
       Do(When(router /\ b.small, All(t, {"bw.xn", "bw.gate_local"})),
          CASE router /\ b.small -> Mine(t, c, "expert", {"mb.rlog"})
            [] router /\ ~b.small -> Rows(t, c, {"mb.rlog"}) \cup Stage(t, c)
            [] OTHER -> {}) >>

\* The convolution over the batch: in place on the live history, or (verify)
\* on checkpoint slots that first take the live one's rows.
Conv(t, c, b) ==
    LET Channels(bufs) == Mine(t, c, "channel", bufs) IN
    IF b.ckpt
    THEN << Do(Channels({"st.conv", "bw.qkv"}), Channels({"ckpt.conv"})),
            NodeBarrier,
            Do(Channels({"st.conv", "bw.qkv"}), Channels({"ckpt.conv", "bw.qkvc"})) >>
    ELSE << Do(Channels({"st.conv", "bw.qkv"}), Channels({"st.conv", "bw.qkvc"})) >>

\* The gated norm of every (row, head), the output projection.
GdnOutput(t, c) ==
    << Do(Mine(t, c, "rowhead", {"bw.y", "bw.z"}), Mine(t, c, "rowhead", {"bw.vv"})),
       NodeBarrier >>
    \o PrepRows(t, c, "bw.vv", "bw.vv_q")
    \o GemmPart(t, c, "bw.vv_q")

GdnBatch(t, c, b) ==
    LET state == IF b.ckpt THEN {"ckpt.ssm"} ELSE {"st.ssm"} IN
    PrepRows(t, c, "bw.mixed", "bw.mixed_q") \o
    << Do(All(t, {"bw.mixed_q", "bw.mixed"}),
          Strips(t, c, {"bw.qkv", "bw.z"}) \cup Mine(t, c, "rowhead", {"bw.beta", "bw.alpha"})),
       NodeBarrier >>
    \o Conv(t, c, b) \o
    << NodeBarrier,
       Do(Rows(t, c, {"bw.qkvc", "bw.alpha", "bw.beta"}),
          Rows(t, c, {"bw.gq", "bw.gk", "bw.gate", "bw.bet"})),
       NodeBarrier,
       Do(All(t, {"bw.gq", "bw.gk", "bw.gate", "bw.bet", "bw.qkvc"})
              \cup Mine(t, c, "chunk", {"st.ssm"} \cup state),
          Mine(t, c, "chunk", {"bw.y"} \cup state)),
       NodeBarrier >>
    \o GdnOutput(t, c)

\* The indexer of a batch: every tile's projections, queries by (row, head),
\* the block keys in row order on core 0, the scores of the sparse rows.
IndexerBatch(t, c, sparse) ==
    << Barrier,
       Do(EveryTile({"mb.idx"}), Mine(t, c, "range", {"bw.idx_qraw", "bw.idx_kraw"})),
       NodeBarrier,
       Do(Mine(t, c, "rowhead", {"bw.idx_qraw"})
              \cup When(c = 0, All(t, {"bw.idx_kraw", "st.ik_raw"})),
          Mine(t, c, "rowhead", {"bw.idx_q"})
              \cup When(c = 0, All(t, {"st.ik_raw", "st.ik_pooled"}))),
       NodeBarrier >>
    \o IF ~sparse THEN <<>>
       ELSE << Do(All(t, {"bw.idx_q", "st.ik_pooled"}), Mine(t, c, "task", {"bw.idx_scores"})),
               NodeBarrier >>

\* The tasks of (head, block of queries), claimed from the tile's counter (a
\* claim is atomic: it counts as a read), and the output projection.
AttendBatch(t, c, layer) ==
    << Do(All(t, {"bw.qg", "bw.task_ctr", "st.kv"})
              \cup When(layer.indexer /\ layer.sparse, All(t, {"bw.idx_scores"})),
          Mine(t, c, "task", {"bw.vv"})),
       NodeBarrier >>
    \o PrepRows(t, c, "bw.vv", "bw.vv_q")
    \o GemmPart(t, c, "bw.vv_q")

\* attn_batch: core 0 resets the task counter (a write) before the projections.
AttnBatch(t, c, layer) ==
    << Do({}, When(c = 0, All(t, {"bw.task_ctr"}))) >>
    \o PrepRows(t, c, "bw.mixed", "bw.mixed_q") \o
    << Do(All(t, {"bw.mixed_q"}),
          Strips(t, c, {"bw.qg", "bw.kn", "bw.vn"}) \cup Stage(t, c)
              \cup When(layer.indexer, Strips(t, c, {"mb.idx"}))),
       NodeBarrier,
       Do(Rows(t, c, {"bw.kn", "bw.vn"}) \cup All(t, {"bw.pos3"}), Rows(t, c, {"st.kv"})) >>
    \o (IF layer.indexer THEN IndexerBatch(t, c, layer.sparse) ELSE << NodeBarrier >>)
    \o AttendBatch(t, c, layer)

\* Own down columns of every token, streamed to part.
MoeDown(t, c) ==
    << Do(All(t, {"bw.act", "bw.groups"}), Strips(t, c, {"bw.moe_acc"})),
       Do(Strips(t, c, {"bw.moe_acc"}), Strips(t, c, {"mb.part"})) >>

\* moe_batch: routing by row, core 0 groups the entries by expert, one task
\* per expert, activations by entry, MoeDown.
MoeBatch(t, c) ==
    << Do(Rows(t, c, {"bw.rlog", "bw.mixed"}), Rows(t, c, {"bw.route", "bw.mixed_q"})),
       NodeBarrier,
       Do(When(c = 0, All(t, {"bw.route", "bw.rlog"})), When(c = 0, All(t, {"bw.groups"}))),
       NodeBarrier,
       Do(All(t, {"bw.groups", "bw.mixed_q"}), Mine(t, c, "task", {"bw.hg", "bw.hu"})),
       NodeBarrier,
       Do(Mine(t, c, "entry", {"bw.hg", "bw.hu"}) \cup All(t, {"bw.groups", "bw.mixed"}),
          Mine(t, c, "entry", {"bw.act"})),
       NodeBarrier >>
    \o MoeDown(t, c)

\* ple_batch: the history is shifted by core 0 (or checkpointed by task) only
\* after every core's convolution has read it.
PleBatch(t, c, b) ==
    << Do({}, Mine(t, c, "rowhead", {"bw.emb"})), NodeBarrier >>
    \o PrepRows(t, c, "bw.emb", "bw.mixed_q") \o
    << Do(All(t, {"bw.mixed_q"}), Strips(t, c, {"bw.ple_key", "bw.ple_val"})),
       NodeBarrier,
       Do(Rows(t, c, {"bw.res", "bw.ple_key", "bw.ple_val"}),
          Rows(t, c, {"bw.ple_norm", "mb.ple"})),
       Barrier,
       Do(RowsOf(Nodes, c, "mb.ple"), Rows(t, c, {"bw.ple_gated", "bw.ple_norm"})),
       NodeBarrier,
       Do(All(t, {"bw.ple_norm", "st.ple_hist"})
              \cup Mine(t, c, "streamrow", {"bw.ple_gated", "bw.res"}),
          Mine(t, c, "streamrow", {"bw.res"})),
       NodeBarrier,
       IF b.ckpt
       THEN Do(All(t, {"bw.ple_norm", "st.ple_hist"}), Mine(t, c, "task", {"ckpt.ple_hist"}))
       ELSE Do(When(c = 0, All(t, {"bw.ple_norm", "st.ple_hist"})),
               When(c = 0, All(t, {"st.ple_hist"}))),
       NodeBarrier >>

LayerBatch(t, c, b, layer) ==
    (IF layer.ple THEN PleBatch(t, c, b) ELSE <<>>)
    \o HcA(t, c, b, TRUE) \o << Barrier >>
    \o HcB(t, c, b, FALSE) \o << Barrier >>
    \o GatherRows(t, c, "mb.mixed", "bw.mixed")
    \o (IF layer.mixer = "gdn" THEN GdnBatch(t, c, b) ELSE AttnBatch(t, c, layer))
    \o << Barrier >>
    \o ReduceCombine(t, c, b)
    \o HcA(t, c, b, TRUE) \o << Barrier >>
    \o HcB(t, c, b, TRUE) \o << Barrier >>
    \o GatherRows(t, c, "mb.mixed", "bw.mixed")
    \o AllreduceRows(t, c, b, "mb.rlog", "bw.rlog")
    \o MoeBatch(t, c) \o << Barrier >>
    \o ReduceCombine(t, c, b)

HeadBatch(t, c, b) ==
    HcA(t, c, b, FALSE) \o << Barrier >>
    \o HcB(t, c, b, FALSE) \o << Barrier >>
    \o GatherRows(t, c, "mb.mixed", "bw.mixed")
    \o PrepRows(t, c, "bw.mixed", "bw.mixed_q")
    \o << Do(All(t, {"bw.mixed_q"}), Strips(t, c, {"mb.logits"})), Barrier >>

\* The head on the last row, copied to each core's private residual.
HeadOfLastRow(t, c) == << Do(All(t, {"bw.res"}), {}) >> \o HeadStepWith(t, c)
=============================================================================
