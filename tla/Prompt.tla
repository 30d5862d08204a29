------------------------------- MODULE Prompt -------------------------------
(***************************************************************************)
(* From the messages of a request to the job the engine gets: the chat     *)
(* template with the role of every part (chat.rs), the tokens and their    *)
(* role spans, the rows of the images (images.rs), and the checks of       *)
(* prepare (server/mod.rs). The prefix cache tags and cuts prompts at the  *)
(* spans, the encoder's rows are placed at the images' rows, so the two    *)
(* must agree after every shift.                                           *)
(*                                                                         *)
(* A message is [role, text], its text a sequence of words and "pad", one  *)
(* per image. "im_start", "im_end", "/think" and "pad" are tokens of their *)
(* own; words between two of them are one token each or all one, whichever *)
(* the tokenizer finds (request.merged).                                   *)
(***************************************************************************)
EXTENDS Integers, Sequences, SequencesExt, FiniteSetsExt

CONSTANTS
  Ctx,              \* rows of the context window
  MaxChoices,       \* choices of one request
  Vision,           \* whether the vision encoder is loaded
  PageCapacity,     \* pages of the pool, 0 without continuous batching
  PromptPage,       \* rows of a page
  DefaultThinking   \* the server's --reasoning

ASSUME PromptAssumption ==
  /\ {Ctx, MaxChoices, PromptPage} \subseteq Nat \ {0}
  /\ Vision \in BOOLEAN /\ PageCapacity \in Nat
  /\ DefaultThinking \in {"off", "low", "medium", "xhigh"}

\* The first field that was given, the most specific first.
Given(fields, default) ==
  LET given == SelectSeq(fields, LAMBDA f : f # "unset")
  IN  IF given = << >> THEN default ELSE Head(given)

\* resolve_thinking: the effort, then the switches.
Thinking(request) ==
  LET mode == Given(request.efforts, DefaultThinking)
      switch == Given(request.switches, "unset")
  IN  CASE switch = "false" -> "off"
        [] switch = "true" /\ mode = "off" -> "xhigh"
        [] OTHER -> mode

Instructions(mode) == IF mode \in {"xhigh", "low"} THEN <<"instr">> ELSE << >>

Part(role, text) == [role |-> role, text |-> text]

\* The leading system messages become one block with the instructions and
\* the tool definitions.
LeadingSystem(msgs) ==
  CHOOSE n \in 0 .. Len(msgs) :
    /\ \A i \in 1 .. n : msgs[i].role = "system"
    /\ n < Len(msgs) => msgs[n + 1].role # "system"

SystemBlock(msgs, mode, tools) ==
  LET merged == FlattenSeq([i \in 1 .. LeadingSystem(msgs) |-> msgs[i].text])
      body == Instructions(mode) \o tools \o merged
  IN  IF body = << >> THEN << >>
      ELSE <<Part("system", <<"im_start">> \o body \o <<"im_end">>)>>

\* One message. A run of tool messages is one turn: only the first begins a
\* part, only the last ends the turn.
MessageParts(msgs, i) ==
  LET m == msgs[i]
      first == i = 1 \/ msgs[i - 1].role # "tool"
      last == i = Len(msgs) \/ msgs[i + 1].role # "tool"
  IN  CASE m.role = "user" ->
             <<Part("user", <<"im_start">> \o m.text \o <<"im_end">>)>>
        [] m.role = "assistant" ->
             <<Part("reasoning", <<"im_start", "think", "/think">>),
               Part("assistant", <<"newline">> \o m.text \o <<"im_end">>)>>
        [] m.role = "tool" ->
             <<Part(IF first THEN "tool" ELSE "same",
                    (IF first THEN <<"im_start">> ELSE << >>) \o <<"response">> \o m.text
                      \o (IF last THEN <<"im_end">> ELSE << >>))>>

GenerationTail(mode) ==
  IF mode = "off" THEN <<Part("assistant", <<"im_start", "think", "/think">>)>>
  ELSE <<Part("reasoning", <<"im_start", "think">>)>>

RenderRefused(msgs) ==
  \/ msgs = << >>
  \/ \E i \in LeadingSystem(msgs) + 1 .. Len(msgs) : msgs[i].role = "system"
  \/ \E i \in DOMAIN msgs : msgs[i].role # "user" /\ "pad" \in Range(msgs[i].text)

RenderedParts(msgs, mode, tools) ==
  SystemBlock(msgs, mode, tools)
    \o FlattenSeq([i \in 1 .. Len(msgs) - LeadingSystem(msgs) |->
                     MessageParts(msgs, LeadingSystem(msgs) + i)])
    \o GenerationTail(mode)

RenderedText(parts) == FlattenSeq([k \in DOMAIN parts |-> parts[k].text])

\* The positions of a sequence that pass a test, in order.
Positions(s, Test(_)) == SelectSeq([i \in DOMAIN s |-> i], Test)

\* The role segments: where each part that has a role of its own begins.
Segments(parts) ==
  LET start(k) == Len(FlattenSeq([j \in 1 .. k - 1 |-> parts[j].text]))
      begins == Positions(parts, LAMBDA k : parts[k].role # "same")
  IN  [n \in DOMAIN begins |-> [at |-> start(begins[n]), role |-> parts[begins[n]].role]]

-----------------------------------------------------------------------------
(* Tokens.                                                                 *)
-----------------------------------------------------------------------------
Special == {"im_start", "im_end", "/think", "pad"}

\* Where the tokens of a text begin, from 0.
Offsets(text, merged) ==
  LET begins(i) == \/ ~merged \/ i = 1
                   \/ text[i] \in Special \/ text[i - 1] \in Special
      at == Positions(text, begins)
  IN  [k \in DOMAIN at |-> at[k] - 1]

TokenIds(text, merged) ==
  LET at == Offsets(text, merged) IN [k \in DOMAIN at |-> text[at[k] + 1]]

\* token_spans: a token has the role of the segment its first byte falls in.
RoleAt(segs, offset) ==
  segs[CHOOSE k \in DOMAIN segs :
         /\ k = 1 \/ segs[k].at <= offset
         /\ \A j \in k + 1 .. Len(segs) : segs[j].at > offset].role

TokenSpans(segs, offsets) ==
  LET role(i) == RoleAt(segs, offsets[i])
      starts == Positions(offsets, LAMBDA i : i = 1 \/ role(i) # role(i - 1))
  IN  [k \in DOMAIN starts |->
         [start |-> starts[k] - 1,
          end |-> IF k < Len(starts) THEN starts[k + 1] - 1 ELSE Len(offsets),
          role |-> role(starts[k])]]

\* The size of the image whose pad is the token at i.
PadSize(ids, sizes, i) ==
  sizes[Cardinality({j \in 1 .. i : ids[j] = "pad"})]

\* A bug: the row an image's token has already is counted again.
ShiftWhole(ids, sizes, position) ==
  MapThenSumSet(LAMBDA i : PadSize(ids, sizes, i),
                {i \in 1 .. position : ids[i] = "pad"})

\* expand_spans: how far the images before a token move it.
Shift(ids, sizes, position) ==
  MapThenSumSet(LAMBDA i : PadSize(ids, sizes, i) - 1,
                {i \in 1 .. position : ids[i] = "pad"})

ExpandSpans(spans, ids, sizes) ==
  [k \in DOMAIN spans |->
     [spans[k] EXCEPT !.start = @ + Shift(ids, sizes, @),
                      !.end = @ + Shift(ids, sizes, @)]]

\* expand_pads: one row per image token, and where each image begins.
ExpandPads(ids, sizes) ==
  FlattenSeq([i \in DOMAIN ids |->
    IF ids[i] = "pad" THEN [k \in 1 .. PadSize(ids, sizes, i) |-> "pad"] ELSE <<ids[i]>>])

Places(ids, sizes) ==
  LET pads == Positions(ids, LAMBDA i : ids[i] = "pad")
  IN  [k \in DOMAIN pads |->
         [row |-> Len(ExpandPads(SubSeq(ids, 1, pads[k] - 1), sizes)), n |-> sizes[k]]]

-----------------------------------------------------------------------------
(* prepare.                                                                *)
-----------------------------------------------------------------------------
Least(a, b) == IF a < b THEN a ELSE b

\* continuous_pages: the prompt's full pages once, a tail for every choice.
PagesNeeded(prompt, output, choices) ==
  prompt \div PromptPage
    + choices * (((prompt % PromptPage) + output + PromptPage - 1) \div PromptPage)

Tools(request) == IF request.tool_choice = "none" THEN << >> ELSE request.tools

Prepare(request) ==
  LET mode == Thinking(request)
      parts == RenderedParts(request.msgs, mode, Tools(request))
      text == RenderedText(parts)
      bare == TokenIds(text, request.merged)
      ids == ExpandPads(bare, request.sizes)
      room == Ctx - Len(ids)
      max == Least(IF request.max_tokens = 0 THEN room ELSE request.max_tokens, room)
  IN  CASE \/ request.n \notin 1 .. MaxChoices
           \/ request.tool_choice \notin {"auto", "none"}
           \/ "other" \in Range(request.efforts)
           \/ RenderRefused(request.msgs)
           \/ request.sizes # << >> /\ ~Vision
           -> [ok |-> FALSE]
        [] OTHER ->
           IF \/ Len(ids) >= Ctx
              \/ PageCapacity > 0 /\ PagesNeeded(Len(ids), max, request.n) > PageCapacity
           THEN [ok |-> FALSE]
           ELSE [ok |-> TRUE, ids |-> ids, max |-> max, open |-> mode # "off",
                 spans |-> ExpandSpans(
                             TokenSpans(Segments(parts), Offsets(text, request.merged)),
                             bare, request.sizes),
                 places |-> Places(bare, request.sizes),
                 stops |-> request.stops, n |-> request.n]

-----------------------------------------------------------------------------
(* What the rows of a prompt are.                                          *)
-----------------------------------------------------------------------------
\* The role of every symbol, from the part it was rendered in.
PartRole(parts, k) ==
  parts[CHOOSE j \in 1 .. k : /\ parts[j].role # "same"
                              /\ \A i \in j + 1 .. k : parts[i].role = "same"].role

RowRoles(request) ==
  LET parts == RenderedParts(request.msgs, Thinking(request), Tools(request))
      text == RenderedText(parts)
      roles == FlattenSeq([k \in DOMAIN parts |->
                 [i \in DOMAIN parts[k].text |-> PartRole(parts, k)]])
      at == Offsets(text, request.merged)
      bare == TokenIds(text, request.merged)
  IN  FlattenSeq([i \in DOMAIN bare |->
        [k \in 1 .. (IF bare[i] = "pad" THEN PadSize(bare, request.sizes, i) ELSE 1) |->
           roles[at[i] + 1]]])
=============================================================================
