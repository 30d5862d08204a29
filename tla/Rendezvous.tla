----------------------------- MODULE Rendezvous -----------------------------
(***************************************************************************)
(* What a barrier promises, without the words it is built from: nobody     *)
(* leaves barrier number b before everyone it waits for has entered b, and *)
(* nobody starts a new count while someone still waits in the old one.     *)
(***************************************************************************)
EXTENDS Machine

VARIABLES
    entered,    \* entered[w]: number of the last barrier w has entered
    pend        \* pend[w]: "none", or the kind of the barrier w waits in

vars == <<entered, pend>>

Party(w, kind) == IF kind = "all" THEN Workers ELSE NodeMates(NodeOf(w))

Init ==
    /\ entered = [w \in Workers |-> 0]
    /\ pend = [w \in Workers |-> "none"]

Enter(w) ==
    /\ pend[w] = "none"
    /\ entered' = [entered EXCEPT ![w] = @ + 1]
    /\ \E kind \in {"node", "all"} : pend' = [pend EXCEPT ![w] = kind]

Leave(w) ==
    /\ pend[w] # "none"
    /\ \A v \in Party(w, pend[w]) : entered[v] >= entered[w]
    /\ pend' = [pend EXCEPT ![w] = "none"]
    /\ UNCHANGED entered

\* w starts a new count: whoever is behind it is not in a barrier.
Restart(w) ==
    /\ pend[w] = "none"
    /\ entered'[w] > entered[w]
    /\ entered' = [entered EXCEPT ![w] = entered'[w]]
    /\ \A v \in Workers : entered[v] < entered'[w] => pend[v] = "none"
    /\ UNCHANGED pend

Next == \E w \in Workers : Enter(w) \/ Leave(w) \/ Restart(w)

Spec == Init /\ [][Next]_vars
=============================================================================
