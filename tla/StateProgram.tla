---------------------------- MODULE StateProgram ----------------------------
(***************************************************************************)
(* The run closures that move state instead of computing: rows and         *)
(* snapshots between the tiles and a cache object (tr-model/src/           *)
(* snapshot.rs), the recurrent state of a sequence to its fork and a page  *)
(* to its private copy (sequence.rs), and the sections of the pack to      *)
(* their tiles (tr-sys/src/loader.rs).  None of them has a barrier: only   *)
(* the way the work is divided keeps the cores apart.  "obj." is the       *)
(* cache object, one buffer that every tile sees; its part of a K/V head   *)
(* or of a tile stands in the place of the tile of a region.               *)
(***************************************************************************)
EXTENDS DecodeProgram

\* Copy the regions of the tile to the object or back.
Copy(export, tile, object) == << IF export THEN Do(tile, object) ELSE Do(object, tile) >>

(***************************************************************************)
(* rows_copy, for a model of "heads" K/V heads: a head is held by one tile *)
(* or by several.  The first tile of a head exports it, every tile imports *)
(* the head it holds; the block keys, the same on all tiles, are exported  *)
(* by tile 0.                                                              *)
(***************************************************************************)
tile_head(t, heads) == (t * heads) \div NNodes
head_owner(h, heads) == (h * NNodes) \div heads

RowsCopy(t, c, heads, export) ==
    LET head == tile_head(t, heads)
        owner == head_owner(head, heads) = t
    IN  (IF ~export \/ owner
         THEN Copy(export, Mine(t, c, "row", {"st.kv"}), Mine(head, c, "row", {"obj.kv"}))
         ELSE <<>>)
        \o (IF ~export \/ t = 0
            THEN Copy(export, Mine(t, c, "block", {"st.ik_pooled"}),
                              Mine(0, c, "block", {"obj.pooled"}))
            ELSE <<>>)

(***************************************************************************)
(* snapshot_copy: the recurrent state of the tile item by item, with the   *)
(* draft head's carry (after a commit an export takes it from the rows the *)
(* batch kept) and its residual; the replicated histories through tile 0.  *)
(***************************************************************************)
TileItems(export, committed) ==
    {"st.conv", "st.ssm"}
    \cup When(HasMtp, {"ws.mtp_res",
                       IF export /\ committed THEN "bw.res_keep" ELSE "ws.mtp_carry"})

\* mutant: every tile exports the replicated histories
SnapshotCopyByAll(t, c, export, committed) ==
    Copy(export, Mine(t, c, "item", TileItems(export, committed)), Mine(t, c, "item", {"obj.tile"}))
    \o Copy(export, Mine(t, c, "shared", {"st.ple_hist", "st.ik_raw"}),
                    Mine(0, c, "shared", {"obj.shared"}))

SnapshotCopy(t, c, export, committed) ==
    Copy(export, Mine(t, c, "item", TileItems(export, committed)), Mine(t, c, "item", {"obj.tile"}))
    \o (IF ~export \/ t = 0
        THEN Copy(export, Mine(t, c, "shared", {"st.ple_hist", "st.ik_raw"}),
                          Mine(0, c, "shared", {"obj.shared"}))
        ELSE <<>>)

\* fork_sequence: the layers' state by layer, the history by range.
ForkCopy(t, c) ==
    << Do(Mine(t, c, "layer", {"st.conv", "st.ssm", "st.ik_raw"})
              \cup Mine(t, c, "range", {"st.ple_hist"}),
          Mine(t, c, "layer", {"child.conv", "child.ssm", "child.ik_raw"})
              \cup Mine(t, c, "range", {"child.ple_hist"})) >>

\* prepare_sequence: the shared tail page to a new one, by layer.
CopyPage(t, c) ==
    << Do(Mine(t, c, "layer", {"page.old.kv", "page.old.pooled"}),
          Mine(t, c, "layer", {"page.new.kv", "page.new.pooled"})) >>

\* parallel_load: the cores of a tile claim chunks of the tile's sections
\* from its counter (a claim is atomic: it counts as a read).
ParallelLoad(t, c) == << Do(All(t, {"load.ctr"}), Mine(t, c, "claim", {"weights"})) >>
=============================================================================
