------------------------------ MODULE Emitter -------------------------------
(***************************************************************************)
(* The engine's side of an answer: tokens are decoded incrementally, sent  *)
(* to the section they belong to, held back while they may be the start of *)
(* a stop string, and cut at the first one (Section and Emitter of         *)
(* engine.rs). The switch of the sampler's settings is in SerialEngine.    *)
(***************************************************************************)
EXTENDS Text

THINK_CLOSE == "</think>"

\* A section: the tokens since the last complete character, how much of
\* their text is in it already, its text and how much of that was sent.
NewSection == [window |-> << >>, emitted |-> 0, text |-> << >>, sent |-> 0]

Stable(s) == DropLast(s, Trailing(s, {Bad}))

SectionPush(section, id) ==
  LET window == Append(section.window, id)
      s == Decode(window)
      stable == Stable(s)
      text == section.text \o DropFirst(stable, section.emitted)
  IN  IF Len(stable) = Len(s)
      THEN [section EXCEPT !.window = << >>, !.emitted = 0, !.text = text]
      ELSE [section EXCEPT !.window = window, !.text = text,
                           !.emitted = IF Len(stable) > @ THEN Len(stable) ELSE @]

\* What is held back of an incomplete character ends the section as it is.
SectionFinish(section) ==
  [section EXCEPT !.text = @ \o DropFirst(Decode(section.window), section.emitted),
                  !.window = << >>, !.emitted = 0]

\* The text not yet sent, all but the last hold symbols, as an event.
Unsent(section, hold) ==
  SubSeq(section.text, section.sent + 1, Len(section.text) - hold)

Take(section, hold) ==
  IF Unsent(section, hold) = << >> THEN section
  ELSE [section EXCEPT !.sent = Len(section.text) - hold]

EventOf(kind, s) == IF s = << >> THEN << >> ELSE <<[kind |-> kind, text |-> s]>>

TrailingWs(section) == Trailing(section.text, {"_"})

StopHoldback(s, stops) ==
  LET held == {HeldBack(s, stop) : stop \in stops}
  IN  IF stops = {} THEN 0 ELSE CHOOSE n \in held : \A k \in held : k <= n

NewEmitter(thinking_open) ==
  [reasoning |-> NewSection, content |-> NewSection,
   in_reasoning |-> thinking_open, skip_ws |-> FALSE]

PushReasoning(em, id) ==
  LET closes == id = THINK_CLOSE
      r == IF closes THEN SectionFinish(em.reasoning) ELSE SectionPush(em.reasoning, id)
      hold == TrailingWs(r)
  IN  [em |-> [em EXCEPT !.reasoning = Take(r, hold),
                         !.in_reasoning = ~closes,
                         !.skip_ws = closes],
       out |-> EventOf("reasoning", Unsent(r, hold)), stopped |-> FALSE]

\* The text of the answer begins after the white space behind </think>.
SkipWs(em, section) ==
  IF em.skip_ws THEN [section EXCEPT !.text = TrimStart(@)] ELSE section

\* The unsent text, and enough of the sent for a stop string that straddles.
SearchFrom(section, stops) ==
  LET longest == CHOOSE n \in {Len(stop) : stop \in stops} :
                   \A stop \in stops : Len(stop) <= n
  IN  IF section.sent > longest THEN section.sent - longest ELSE 0

Hits(section, stops) ==
  LET from == SearchFrom(section, stops)
      tail == DropFirst(section.text, from)
  IN  {from + Find(tail, stop) : stop \in {s \in stops : Find(tail, s) > 0}}

PushContent(em, id, stops) ==
  LET pushed == SkipWs(em, SectionPush(em.content, id))
      hits == IF stops = {} THEN {} ELSE Hits(pushed, stops)
      stopped == hits # {}
      cut == IF stopped
             THEN [pushed EXCEPT !.text =
                     SubSeq(@, 1, (CHOOSE p \in hits : \A q \in hits : p <= q) - 1)]
             ELSE pushed
      hold == IF stopped THEN 0 ELSE StopHoldback(cut.text, stops)
  IN  [em |-> [em EXCEPT !.content = Take(cut, hold),
                         !.skip_ws = @ /\ pushed.text = << >>],
       out |-> EventOf("content", Unsent(cut, hold)), stopped |-> stopped]

PushToken(em, id, stops) ==
  IF em.in_reasoning THEN PushReasoning(em, id) ELSE PushContent(em, id, stops)

\* The events that end an answer: all that was held back.
Flush(em) ==
  IF em.in_reasoning THEN EventOf("reasoning", Unsent(SectionFinish(em.reasoning), 0))
  ELSE EventOf("content", Unsent(SectionFinish(em.content), 0))

-----------------------------------------------------------------------------
(* What a whole sequence of tokens says.                                   *)
-----------------------------------------------------------------------------
ThinkEnd(tokens, thinking_open) ==
  IF thinking_open THEN Find(tokens, <<THINK_CLOSE>>) ELSE 0

SaysReasoning(tokens, thinking_open) ==
  LET close == ThinkEnd(tokens, thinking_open)
  IN  CASE ~thinking_open -> << >>
        [] close = 0 -> Decode(tokens)
        [] OTHER -> TrimEnd(Decode(SubSeq(tokens, 1, close - 1)))

SaysContent(tokens, thinking_open, stops) ==
  LET close == ThinkEnd(tokens, thinking_open)
      all == Decode(DropFirst(tokens, close))
      text == IF thinking_open THEN TrimStart(all) ELSE all
      hits == {Find(text, stop) : stop \in stops} \ {0}
  IN  CASE thinking_open /\ close = 0 -> << >>
        [] hits = {} -> text
        [] OTHER -> SubSeq(text, 1, (CHOOSE p \in hits : \A q \in hits : p <= q) - 1)
=============================================================================
