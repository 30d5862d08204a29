--------------------------- MODULE MCSerialEngine ---------------------------
(***************************************************************************)
(* Small instances of SerialEngine: a word, </think> and a stop id; every   *)
(* prompt of up to MaxPrompt of them, so that any state a request leaves     *)
(* behind can be continued, extended or contradicted by the next.           *)
(***************************************************************************)
EXTENDS SerialEngine

CONSTANT MaxPrompt

MCToken == {1, 2, 3}
MCPrompts == UNION {[1 .. n -> Token] : n \in 1 .. MaxPrompt}

Plain == [mtp |-> FALSE, stops |-> TRUE]
Drafting == [mtp |-> TRUE, stops |-> FALSE]
DraftingToStops == [mtp |-> TRUE, stops |-> TRUE]

EitherLoop == {Plain, Drafting}
StopsInDrafts == {DraftingToStops}
=============================================================================
