----------------------------- MODULE MCPagedSequences -----------------------------
(***************************************************************************)
(* Small instances of PagedSequences.  Pages and tokens are model values and     *)
(* interchangeable; slots are not (the first dead slot is taken).           *)
(***************************************************************************)
EXTENDS PagedSequences, TLC

Interchangeable == Permutations(Page) \cup Permutations(Token)
=============================================================================
