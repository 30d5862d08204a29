----------------------------- MODULE Accesses ------------------------------
(***************************************************************************)
(* The vocabulary in which the run closures of the executor are written:   *)
(* what a worker reads and writes between two barriers.                    *)
(*                                                                         *)
(* A region <<buffer, tile, split, part>> names the part of a buffer of a  *)
(* tile that one core owns when the buffer is divided by "split" (rows,    *)
(* strips, heads, tasks: WorkerCtx::range_local over that count); the      *)
(* split "all" is the whole buffer.  Two parts are known to be disjoint    *)
(* only when they are different parts of the same split: a row range and   *)
(* a strip range of one buffer always meet.                                *)
(***************************************************************************)
EXTENDS Machine, Sequences

All(t, bufs) == {<<b, t, "all", 0>> : b \in bufs}
EveryTile(bufs) == {<<b, u, "all", 0>> : b \in bufs, u \in Nodes}
Mine(t, c, split, bufs) == {<<b, t, split, c>> : b \in bufs}

\* The region set of a block that only some workers execute.
When(guard, regions) == IF guard THEN regions ELSE {}

Overlap(a, b) ==
    /\ a[1] = b[1]
    /\ a[2] = b[2]
    /\ a[3] # b[3] \/ a[3] = "all" \/ a[4] = b[4]

(***************************************************************************)
(* Steps of a run closure.                                                 *)
(***************************************************************************)
Do(reads, writes) == [kind |-> "do", reads |-> reads, writes |-> writes]
NodeBarrier == [kind |-> "node", reads |-> {}, writes |-> {}]
Barrier == [kind |-> "all", reads |-> {}, writes |-> {}]

\* The steps cut at the barriers: phase k is everything a worker touches
\* after its barrier k - 1 and before its barrier k, with the kind of the
\* barrier that ends it ("end" for the last phase, which ends the closure).
PhasesOf(steps) ==
    LET bars == SelectSeq([i \in 1 .. Len(steps) |-> i],
                          LAMBDA i : steps[i].kind # "do")
        Cut(k) == CASE k = 0 -> 0
                    [] k \in 1 .. Len(bars) -> bars[k]
                    [] OTHER -> Len(steps) + 1
        Span(k) == (Cut(k - 1) + 1) .. (Cut(k) - 1)
        Part(k, kind) == [reads  |-> UNION {steps[i].reads : i \in Span(k)},
                          writes |-> UNION {steps[i].writes : i \in Span(k)},
                          kind   |-> kind]
    IN  [k \in 1 .. Len(bars) |-> Part(k, steps[bars[k]].kind)]
        \o << Part(Len(bars) + 1, "end") >>

Regions == STRING \X Nodes \X STRING \X Nat
Phases == [kind : {"node", "all", "end"}, reads : SUBSET Regions, writes : SUBSET Regions]

\* Two phases that may not be executed at the same time.
Clash(p, q) ==
    \/ \E a \in p.writes, b \in q.reads \cup q.writes : Overlap(a, b)
    \/ \E a \in p.reads, b \in q.writes : Overlap(a, b)
=============================================================================
