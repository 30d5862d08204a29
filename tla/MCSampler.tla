----------------------------- MODULE MCSampler -----------------------------
(***************************************************************************)
(* The serial engine together with the sampler it draws with.               *)
(***************************************************************************)
EXTENDS MCSerialEngine, Sampler

\* Targets and drafts that agree, differ, tie and miss one another's tokens.
MCRows ==
  LET Five(a, b, c, d, e) == (0 :> a) @@ (1 :> b) @@ (2 :> c) @@ (3 :> d) @@ (4 :> e)
  IN  {Five(2, 0, 1, 0, 2), Five(0, 0, 0, 0, 0), Five(1, 3, 0, 2, 2),
       Five(3, 3, 0, 1, 0), Five(0, 1, 2, 3, 4), Five(4, 0, 0, 0, 3)}

\* Every order of five logits, with and without ties.
MCWideRows == [Ids -> 0 .. 2]

MCSettings ==
  {[greedy |-> TRUE, top_k |-> 0, top_p |-> <<1, 1>>]}
    \cup [greedy : {FALSE}, top_k : 0 .. 3, top_p : {<<1, 2>>, <<3, 4>>, <<1, 1>>}]
\* Drafting changes no distribution (sampler.rs, spec.rs and exec_mtp.rs).  The
\* sampler has no state: this is checked in the initial states only.
SamplingSound == Init => PickExact /\ Lossless /\ CandidatesSuffice
=============================================================================
