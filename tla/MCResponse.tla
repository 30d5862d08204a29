----------------------------- MODULE MCResponse -----------------------------
(***************************************************************************)
(* The instance of Response: every way a request can end before the        *)
(* engine; prompts with several parts and images; answers from small       *)
(* alphabets that bring out one mechanism each, streamed or not; and two   *)
(* choices over a channel of two events.                                   *)
(***************************************************************************)
EXTENDS Response

Message(role, text) == [role |-> role, text |-> text]

Base == [route |-> "chat", authorized |-> TRUE, keep |-> TRUE, stream |-> TRUE, n |-> 1,
         msgs |-> <<Message("user", <<"w">>)>>, efforts |-> <<"off">>, switches |-> << >>,
         tool_choice |-> "auto", tools |-> << >>, sizes |-> << >>, merged |-> FALSE,
         max_tokens |-> 1, stops |-> {}, alphabet |-> {"x"}, steady |-> TRUE]

\* Two choices that fit the context window one by one, not the pages together.
TooManyPages == [Base EXCEPT !.n = 2, !.max_tokens = 20]

\* Requests that are answered without the engine.
Refused ==
  {[Base EXCEPT !.route = r] : r \in {"malformed", "options", "health", "models", "unknown",
                                    "no_json"}}
    \cup {[Base EXCEPT !.authorized = FALSE, !.keep = FALSE],
          [Base EXCEPT !.n = 0], TooManyPages, [Base EXCEPT !.efforts = <<"unset", "other">>], [Base EXCEPT !.tool_choice = "required"],
          [Base EXCEPT !.msgs = << >>],
          [Base EXCEPT !.msgs = <<Message("user", <<"w">>), Message("system", <<"w">>)>>],
          [Base EXCEPT !.msgs = <<Message("system", <<"pad">>)>>, !.sizes = <<2>>],
          [Base EXCEPT !.msgs = <<Message("user", [i \in 1 .. 30 |-> "w"])>>]}

\* Prompts with every kind of part, of whole words or merged ones, and images
\* of several sizes.
Conversation ==
  <<Message("system", <<"w">>), Message("user", <<"w", "pad", "w", "w", "pad">>),
    Message("assistant", <<"w", "w">>), Message("tool", <<"w">>), Message("tool", <<"w">>),
    Message("user", <<"pad">>)>>

Prompts ==
  {[Base EXCEPT !.msgs = Conversation, !.sizes = sizes, !.merged = merged, !.stream = FALSE,
                !.efforts = <<"unset", effort>>, !.switches = <<switch, "unset">>,
                !.tools = <<"tools">>, !.tool_choice = choice]
     : sizes \in {<<1, 3, 2>>, <<2, 1, 1>>}, merged \in BOOLEAN, effort \in {"off", "low"},
       switch \in {"unset", "true", "false"}, choice \in {"auto", "none"}}

\* Answers: tags in pieces, whole calls, stop strings, thinking and characters
\* of two tokens.
Tags == [Base EXCEPT !.alphabet = {"_", "<", "o", "f", "<c"}, !.max_tokens = 4]
CallPieces == [Base EXCEPT !.alphabet = {"_", "<o", "f", "<c"}, !.max_tokens = 5,
                           !.stream = FALSE]
Stops == [Base EXCEPT !.alphabet = {"a", "b", "ba", "c"}, !.max_tokens = 4, !.keep = FALSE,
                      !.stops = {<<"a", "b", "b">>, <<"b", "a", "c">>}]
Thoughts == [Base EXCEPT !.alphabet = {"a", "_", "half", "rest", "</think>"}, !.max_tokens = 4,
                         !.efforts = <<"low">>, !.stops = {<<"a", "wide">>}]
Several == {[Base EXCEPT !.n = 2, !.max_tokens = 2, !.stream = stream,
                    !.steady = FALSE] : stream \in BOOLEAN}

RequestsDef == Refused \cup Prompts \cup {Tags, CallPieces, Stops, Thoughts} \cup Several
=============================================================================
