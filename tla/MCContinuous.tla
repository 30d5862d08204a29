---------------------------- MODULE MCContinuous ----------------------------
(***************************************************************************)
(* Small instances of Continuous: two and three requests over pages of two  *)
(* rows, whose prompts share prefixes so that the idle sequence is reused    *)
(* in full, reused in part or discarded.                                    *)
(***************************************************************************)
EXTENDS Continuous

MCPage == 1 .. 6
MCToken == {1, 2}

Requests == [a |-> [prompt |-> <<1>>,       n |-> 2, max |-> 3, points |-> {}],
             b |-> [prompt |-> <<1, 1>>,    n |-> 1, max |-> 2, points |-> {1}],
             c |-> [prompt |-> <<1, 1, 2>>, n |-> 2, max |-> 1, points |-> {2}]]

MCPrompt == [j \in Job |-> Requests[j].prompt]
MCNChoices == [j \in Job |-> Requests[j].n]
MCMaxTokens == [j \in Job |-> Requests[j].max]
MCSnapshotPoints == [j \in Job |-> Requests[j].points]
=============================================================================
