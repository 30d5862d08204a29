-------------------------------- MODULE Text --------------------------------
(***************************************************************************)
(* Texts as sequences of symbols: the few operations of Rust's strings the *)
(* response path uses, and what a sequence of output tokens decodes to.    *)
(* "_" stands for white space. The tokens "half" and "rest" are the two    *)
(* parts of one character of several bytes; alone they decode to the       *)
(* replacement character Bad. "<o" and "<c" are tokens of two symbols, the *)
(* opening and the closing tag of a tool call; "ba" is a token of two      *)
(* letters. Every other token decodes to itself.                           *)
(***************************************************************************)
EXTENDS Integers, Sequences, FiniteSets, SequencesExt

Bad == "U+FFFD"

\* The position of the first occurrence of a pattern, 0 if there is none.
Find(s, pattern) ==
  LET at == {i \in 1 .. Len(s) - Len(pattern) + 1 :
               SubSeq(s, i, i + Len(pattern) - 1) = pattern}
  IN  IF at = {} THEN 0 ELSE CHOOSE i \in at : \A j \in at : i <= j

DropFirst(s, n) == SubSeq(s, n + 1, Len(s))
DropLast(s, n) == SubSeq(s, 1, Len(s) - n)

\* How many symbols of a set the text ends, or begins, with.
Trailing(s, set) ==
  CHOOSE n \in 0 .. Len(s) :
    /\ \A i \in Len(s) - n + 1 .. Len(s) : s[i] \in set
    /\ n < Len(s) => s[Len(s) - n] \notin set
Leading(s, set) == Trailing(Reverse(s), set)

TrimEnd(s) == DropLast(s, Trailing(s, {"_"}))
TrimStart(s) == DropFirst(s, Leading(s, {"_"}))
Trim(s) == TrimStart(TrimEnd(s))

\* The longest proper prefix of a pattern that ends the text.
HeldBack(s, pattern) ==
  CHOOSE n \in 0 .. Len(pattern) - 1 :
    /\ IsSuffix(SubSeq(pattern, 1, n), s)
    /\ \A k \in n + 1 .. Len(pattern) - 1 : ~IsSuffix(SubSeq(pattern, 1, k), s)

\* What one token decodes to where it stands: a second half completes the
\* first one before it.
Glyph(tokens, i) ==
  CASE tokens[i] = "half" ->
         IF i < Len(tokens) /\ tokens[i + 1] = "rest" THEN <<"wide">> ELSE <<Bad>>
    [] tokens[i] = "rest" ->
         IF i > 1 /\ tokens[i - 1] = "half" THEN << >> ELSE <<Bad>>
    [] tokens[i] = "<o" -> <<"<", "o">>
    [] tokens[i] = "<c" -> <<"<", "c">>
    [] tokens[i] = "ba" -> <<"b", "a">>
    [] OTHER -> <<tokens[i]>>

Decode(tokens) == FlattenSeq([i \in DOMAIN tokens |-> Glyph(tokens, i)])
=============================================================================
