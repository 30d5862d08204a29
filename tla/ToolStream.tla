----------------------------- MODULE ToolStream -----------------------------
(***************************************************************************)
(* The parser that splits a stream of content into text and tool calls     *)
(* (tools.rs), and what a text spells when it is read in one piece.        *)
(***************************************************************************)
EXTENDS Text

OPEN == <<"<", "o">>
CLOSE == <<"<", "c">>

\* parse_call accepts a block that begins with a function element, "f".
Parses(block) == IsPrefix(<<"f">>, Trim(block))

TextOut(s) == IF s = << >> THEN << >> ELSE <<[kind |-> "text", text |-> s]>>
CallOut(block) == <<[kind |-> "call", text |-> Trim(block)]>>

NewParser == [buf |-> << >>, in_call |-> FALSE, n_calls |-> 0]

\* White space between the text and a call is formatting.
BeforeCall(parser, s) == IF parser.n_calls = 0 THEN TrimEnd(s) ELSE Trim(s)

\* A bug: nothing is kept back.
HoldNothing(buf) == 0

\* What the parser keeps: a partial opening tag and the white space before it.
Hold(buf) == LET tag == HeldBack(buf, OPEN)
             IN  tag + Trailing(DropLast(buf, tag), {"_"})

\* The loop of push over what is buffered: [parser, out].
RECURSIVE Drain(_, _)
Drain(parser, out) ==
  LET buf == parser.buf
      close == Find(buf, CLOSE)
      open == Find(buf, OPEN)
  IN  CASE parser.in_call /\ close = 0 -> [parser |-> parser, out |-> out]
        [] parser.in_call /\ close > 0 ->
             LET block == SubSeq(buf, 1, close - 1)
                 ok == Parses(block)
             IN  Drain([buf |-> DropFirst(buf, close - 1 + Len(CLOSE)), in_call |-> FALSE,
                        n_calls |-> parser.n_calls + (IF ok THEN 1 ELSE 0)],
                       out \o (IF ok THEN CallOut(block) ELSE TextOut(OPEN \o block \o CLOSE)))
        [] ~parser.in_call /\ open > 0 ->
             Drain([parser EXCEPT !.buf = DropFirst(buf, open - 1 + Len(OPEN)),
                                  !.in_call = TRUE],
                   out \o TextOut(BeforeCall(parser, SubSeq(buf, 1, open - 1))))
        [] OTHER ->
             LET hold == Hold(buf)
             IN  [parser |-> [parser EXCEPT !.buf = DropFirst(buf, Len(buf) - hold)],
                  out |-> out \o TextOut(DropLast(buf, hold))]

PushText(parser, s) == Drain([parser EXCEPT !.buf = @ \o s], << >>)

\* At the end the rest is text; an unterminated call is returned raw.
FinishText(parser) ==
  LET raw == IF parser.in_call THEN OPEN \o parser.buf ELSE parser.buf
      rest == IF parser.n_calls > 0 THEN Trim(raw) ELSE raw
  IN  TextOut(rest)

-----------------------------------------------------------------------------
(* What a whole text spells: its calls, and its text without white space,  *)
(* which is not kept around calls.                                         *)
-----------------------------------------------------------------------------
Bare(s) == SelectSeq(s, LAMBDA symbol : symbol # "_")

RECURSIVE Spells(_)
Spells(s) ==
  LET open == Find(s, OPEN)
      inner == DropFirst(s, open - 1 + Len(OPEN))
      close == Find(inner, CLOSE)
      block == SubSeq(inner, 1, close - 1)
      rest == DropFirst(inner, close - 1 + Len(CLOSE))
      more == Spells(rest)
  IN  IF open = 0 \/ close = 0
      THEN [text |-> Bare(s), calls |-> << >>]
      ELSE IF Parses(block)
           THEN [text |-> Bare(SubSeq(s, 1, open - 1)) \o more.text,
                 calls |-> <<Trim(block)>> \o more.calls]
           ELSE [text |-> Bare(SubSeq(s, 1, open - 1) \o OPEN \o block \o CLOSE) \o more.text,
                 calls |-> more.calls]
=============================================================================
