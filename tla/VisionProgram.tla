--------------------------- MODULE VisionProgram ---------------------------
(***************************************************************************)
(* The run closure of the image encoder (tr-model/src/vision.rs): "vw." is *)
(* the tile's VisionWs.  Attention and the dense products over all patches *)
(* claim tasks from counters that core 0 resets at the start of the run;   *)
(* what follows attention is done in chunks of m_max rows that share the   *)
(* part, rsum and rfull mailboxes with the batched steps.                  *)
(***************************************************************************)
EXTENDS DraftProgram

CONSTANTS
    VisionLayers,   \* encoder layers
    VisionChunks    \* chunks of m_max rows in an image

ASSUME VisionAssumption == VisionLayers \in Nat /\ VisionChunks \in Nat

ChunkRows(t, c, bufs) == Mine(t, c, "chunkrow", bufs)

\* vgemm_tasks: (strip pair, row chunk) tasks, then a node barrier.
VgemmTasks(t, c, act, y) ==
    << Do(All(t, {act, "vw.ctr"}), Mine(t, c, "task", {y})), NodeBarrier >>

\* vgemm_reduce: partial sums into the part slot, summed over the tiles.
VgemmReduce(t, c, tps, act) ==
    << Do(All(t, {act}), Strips(t, c, {"mb.part"}) \cup Mine(t, c, "core", {"vw.stage"})),
       Barrier >>
    \o AllreduceRows(t, c, Batch(FALSE, FALSE, tps), "mb.part", "vw.red")

\* The padded keys and the patch rows; then x is the patch embedding.
VisionEmbed(t, c) ==
    << Do({}, Rows(t, c, {"vw.pin"}) \cup Mine(t, c, "pad", {"vw.kb.pad", "vw.vb.pad"})
                  \cup When(c = 0, All(t, {"vw.ctr"}))),
       NodeBarrier >>
    \o VgemmTasks(t, c, "vw.pin", "vw.x") \o
    << Do(Rows(t, c, {"vw.x"}), Rows(t, c, {"vw.x"})), NodeBarrier >>

\* One chunk of rows after attention: output projection and residual, the
\* second norm, the MLP and its residual.
VisionChunk(t, c, tps) ==
    << Do(ChunkRows(t, c, {"vw.att"}), ChunkRows(t, c, {"vw.att_a"})), NodeBarrier >>
    \o VgemmReduce(t, c, tps, "vw.att_a") \o
    << Do(ChunkRows(t, c, {"vw.red", "vw.x"}), ChunkRows(t, c, {"vw.x", "vw.xn2"})),
       NodeBarrier,
       Do(All(t, {"vw.xn2"}), Strips(t, c, {"vw.up"})),
       NodeBarrier,
       Do(ChunkRows(t, c, {"vw.up"}), ChunkRows(t, c, {"vw.up", "vw.act"})),
       NodeBarrier >>
    \o VgemmReduce(t, c, tps, "vw.act") \o
    << Do(ChunkRows(t, c, {"vw.red", "vw.x"}), ChunkRows(t, c, {"vw.x"})), NodeBarrier >>

VisionLayer(t, c, tps) ==
    << Do(Rows(t, c, {"vw.x"}), Rows(t, c, {"vw.xn"})), NodeBarrier >>
    \o VgemmTasks(t, c, "vw.xn", "vw.qkv") \o
    << Do(Rows(t, c, {"vw.qkv"}), Rows(t, c, {"vw.qkv", "vw.qb", "vw.kb", "vw.vb"})),
       NodeBarrier,
       Do(All(t, {"vw.qb", "vw.kb", "vw.vb", "vw.kb.pad", "vw.vb.pad", "vw.ctr"}),
          Mine(t, c, "task", {"vw.att"}) \cup Mine(t, c, "core", {"vw.sblk", "vw.pblk"})),
       NodeBarrier >>
    \o FlattenSeq([i \in 1 .. VisionChunks |-> VisionChunk(t, c, tps)])

\* The merger: last norm, fc1 over merged rows, fc2 by chunk; tile 0 writes
\* the embeddings to host memory.
VisionMerge(t, c, tps) ==
    << Do(Rows(t, c, {"vw.x"}), Rows(t, c, {"vw.xn"})), NodeBarrier >>
    \o VgemmTasks(t, c, "vw.xn", "vw.m0") \o
    << Do(Rows(t, c, {"vw.m0"}), Rows(t, c, {"vw.m0", "vw.m0_a"})), NodeBarrier >>
    \o FlattenSeq([i \in 1 .. VisionChunks |->
            VgemmReduce(t, c, tps, "vw.m0_a") \o
            << Do(When(t = 0, ChunkRows(t, c, {"vw.red"})),
                  When(t = 0, ChunkRows(t, c, {"host.out"}))),
               NodeBarrier >>])

VisionWorker(t, c, tps) ==
    VisionEmbed(t, c)
    \o FlattenSeq([i \in 1 .. VisionLayers |-> VisionLayer(t, c, tps)])
    \o VisionMerge(t, c, tps)
=============================================================================
