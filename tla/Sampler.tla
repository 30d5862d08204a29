------------------------------ MODULE Sampler ------------------------------
(***************************************************************************)
(* Drawing tokens: the distributions of tr-model/src/sampler.rs, the       *)
(* candidates of a draft, which are gathered core by core and tile by tile *)
(* (Model::draft_pick of exec_mtp.rs), and the acceptance of a draft       *)
(* (Speculator::round of spec.rs).                                         *)
(*                                                                         *)
(* Probabilities are exact: a distribution is a sequence of ids with       *)
(* integer weights, their sum standing for 1, and a logit weighs a power   *)
(* of two instead of one of e.  Settings are [greedy, top_k, top_p], where *)
(* greedy is temperature 0 and top_p a pair <<a, b>> for a / b.            *)
(***************************************************************************)
EXTENDS Integers, SequencesExt, FiniteSetsExt

CONSTANTS NVocab,   \* tokens 0 .. NVocab - 1
          NTiles,   \* tiles, which share them evenly
          PerTile,  \* cores of a tile
          Cand,     \* candidates a core or a tile keeps (CAND_PER_TILE)
          Margin    \* DIST_MARGIN, in logits

ASSUME VocabAssumption == {NVocab, NTiles, PerTile, Cand, Margin} \subseteq Nat \ {0}

Ids == 0 .. NVocab - 1

\* A larger logit comes first, a lower id among equals.
Ranked(logits, ids) ==
  SetToSortSeq(ids, LAMBDA a, b : logits[a] > logits[b] \/ (logits[a] = logits[b] /\ a < b))

Mass(dist) == FoldLeft(LAMBDA sum, x : sum + x.weight, 0, dist)
Prob(dist, id) == Mass(SelectSeq(dist, LAMBDA x : x.id = id))

\* The shortest beginning of the distribution that has the mass top_p.
Nucleus(dist, top_p) ==
  SubSeq(dist, 1, Min({n \in DOMAIN dist :
                        Mass(SubSeq(dist, 1, n)) * top_p[2] >= Mass(dist) * top_p[1]}))

\* Sampler::dist_from
DistFrom(logits, ids, set) ==
  LET best == Ranked(logits, ids)
      k == IF set.greedy THEN 1 ELSE IF set.top_k = 0 THEN Len(best) ELSE Min({set.top_k, Len(best)})
      dist == [n \in 1 .. k |-> [id |-> best[n], weight |-> 2 ^ logits[best[n]]]]
  IN  IF set.greedy THEN dist ELSE Nucleus(dist, set.top_p)

\* Sampler::dist: without the ids far below the best one.
Dist(logits, set) ==
  LET best == Max({logits[i] : i \in Ids})
  IN  DistFrom(logits, {i \in Ids : logits[i] >= best - Margin}, set)

\* Dist::pick, for the uniform r / Mass(dist).
Pick(dist, r) == dist[Min({n \in DOMAIN dist : r < Mass(SubSeq(dist, 1, n))})].id

-----------------------------------------------------------------------------
(* The draft's distribution.                                               *)

TileSize == (NVocab + NTiles - 1) \div NTiles   \* the last tile is padded

\* The ids of core c of tile t: split gives the first cores one more.
SliceOf(t, c) ==
  LET First(d) == t * TileSize + d * (TileSize \div PerTile) + Min({d, TileSize % PerTile})
  IN  Ids \cap (First(c) .. First(c + 1) - 1)

Best(logits, ids) == LET q == Ranked(logits, ids) IN ToSet(SubSeq(q, 1, Min({Cand, Len(q)})))

\* The best of every core's slice, of these the best of every tile.
Candidates(logits) ==
  UNION {Best(logits, UNION {Best(logits, SliceOf(t, c)) : c \in 0 .. PerTile - 1}) :
           t \in 0 .. NTiles - 1}

DraftDist(logits, set) == DistFrom(logits, Candidates(logits), set)

-----------------------------------------------------------------------------
(* One draft, drawn from q and verified against p.  All masses are in      *)
(* units of 1 / (Mass(p) * Mass(q)).                                       *)

Target(p, q, id) == Prob(p, id) * Mass(q)
Drawn(p, q, id) == Prob(q, id) * Mass(p)

\* Accepted with probability 1 or p(id) / q(id).
Accepted(p, q, id) == Min({Target(p, q, id), Drawn(p, q, id)})

\* Mutant: a rejected draft is replaced by a draw from p.
ResidualOfTarget(p, q) == p

\* Sampler::residual_sample: p - q where it is positive, or p.
Residual(p, q) ==
  LET left == [n \in DOMAIN p |->
                 [id |-> p[n].id, weight |-> Target(p, q, p[n].id) - Drawn(p, q, p[n].id)]]
      rest == SelectSeq(left, LAMBDA x : x.weight > 0)
  IN  IF rest = << >> THEN p ELSE rest

\* The probability that the round emits id at the place of the draft, times
\* the mass of the residual.
Emitted(p, q, id) ==
  LET Total(f(_, _, _)) == MapThenSumSet(LAMBDA x : f(p, q, x), Ids)
  IN  Accepted(p, q, id) * Mass(Residual(p, q))
        + (Total(Drawn) - Total(Accepted)) * Prob(Residual(p, q), id)

-----------------------------------------------------------------------------
CONSTANTS Rows,      \* logits of a row, for the two properties of a draw
          WideRows,  \* logits of a row, for the candidates
          Settings

\* A draw follows the distribution it is made from.
PickExact ==
  \A row \in Rows, set \in Settings :
    LET d == Dist(row, set)
    IN  \A id \in Ids :
          Cardinality({r \in 0 .. Mass(d) - 1 : Pick(d, r) = id}) = Prob(d, id)

\* spec.rs: speculation is lossless.  Whatever the draft head's distribution,
\* what a round emits at the place of a draft follows the main model's.
Lossless ==
  \A target, draft \in Rows, set \in Settings :
    LET p == Dist(target, set)
        q == DraftDist(draft, set)
    IN  \A id \in Ids : Emitted(p, q, id) = Target(p, q, id) * Mass(Residual(p, q))

\* exec_mtp.rs: the candidates of the tiles contain the best of the vocabulary,
\* so that as long as top_k is no larger than what a tile keeps, a draft is
\* drawn as from the whole row.
CandidatesSuffice ==
  \A row \in WideRows, set \in Settings :
    set.greedy \/ set.top_k \in 1 .. Cand => DraftDist(row, set) = DistFrom(row, Ids, set)
=============================================================================
