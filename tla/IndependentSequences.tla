------------------------ MODULE IndependentSequences ------------------------
(***************************************************************************)
(* What the resident sequences of tr-model promise their caller: every      *)
(* handle names a text of its own.  A fork starts with its parent's text,   *)
(* a batch appends to some texts, a restore gives an empty sequence a text, *)
(* a release closes the handle for ever.  Nothing a caller does to one      *)
(* handle shows in another.                                                *)
(***************************************************************************)
EXTENDS Integers, Sequences

CONSTANTS Handle, Token, Ctx

VARIABLES status,   \* handle -> "unborn", "open" or "closed"
          text      \* handle -> its rows while it is open

vars == <<status, text>>

Init ==
  /\ status = [h \in Handle |-> "unborn"]
  /\ text = [h \in Handle |-> << >>]

Open == {h \in Handle : status[h] = "open"}

\* A new handle, with the given text.
Opens(h, rows) ==
  /\ status[h] = "unborn"
  /\ status' = [status EXCEPT ![h] = "open"]
  /\ text' = [text EXCEPT ![h] = rows]

Allocate(h) == Opens(h, << >>)
Fork(parent, h) == parent \in Open /\ Opens(h, text[parent])

Release(h) ==
  /\ h \in Open
  /\ status' = [status EXCEPT ![h] = "closed"]
  /\ text' = [text EXCEPT ![h] = << >>]

\* t is the text u and at least one more token.
Continues(t, u) ==
  /\ Len(u) < Len(t)
  /\ Len(t) <= Ctx
  /\ \A i \in 1 .. Len(u) : t[i] = u[i]
  /\ \A i \in Len(u) + 1 .. Len(t) : t[i] \in Token

\* A batch, or a restore, continues the texts of the handles H.
Append_(H) ==
  /\ H \subseteq Open
  /\ \A h \in Handle : IF h \in H THEN Continues(text'[h], text[h])
                                  ELSE text'[h] = text[h]
  /\ UNCHANGED status

Next ==
  \/ \E h \in Handle : Allocate(h)
  \/ \E parent, h \in Handle : Fork(parent, h)
  \/ \E h \in Handle : Release(h)
  \/ \E H \in SUBSET Handle : Append_(H)

Spec == Init /\ [][Next]_vars
=============================================================================
