------------------------------ MODULE Machine ------------------------------
(***************************************************************************)
(* The machine the worker pool is built over: NUMA nodes (the tiles of a   *)
(* model), the same number of pinned cores on each, one worker per core.   *)
(* Core 0 of a node is its leader, core 0 of node 0 the calling thread     *)
(* (tr-sys/src/pool.rs, Pool::new).                                        *)
(***************************************************************************)
EXTENDS Naturals

CONSTANTS
    NNodes,     \* nodes of the topology
    NCores      \* cores_per_node, the size of the smallest node

ASSUME MachineAssumption == NNodes \in Nat \ {0} /\ NCores \in Nat \ {0}

Nodes == 0 .. NNodes - 1
Cores == 0 .. NCores - 1
Workers == Nodes \X Cores

NodeOf(w) == w[1]
Local(w) == w[2]
IsLeader(w) == Local(w) = 0
LeaderOf(n) == <<n, 0>>
Caller == <<0, 0>>
NodeMates(n) == {n} \X Cores
=============================================================================
