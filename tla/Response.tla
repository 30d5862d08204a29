------------------------------ MODULE Response ------------------------------
(***************************************************************************)
(* One request and its response: the connection thread (handle_conn,       *)
(* route, chat_completions), the engine's side of the request, the bounded *)
(* channel of events between them, and the client at the other end of the  *)
(* socket.                                                                 *)
(*                                                                         *)
(* The engine decodes, splits and holds back its text (Emitter), sends     *)
(* events without ever waiting, and drops an event and sets the cancel     *)
(* flag when the channel is full. The connection thread takes the events,  *)
(* parses tool calls out of the content (ToolStream) and writes. A write   *)
(* waits while the client does not read, until the socket's timeout; the   *)
(* client may stall, go on or go away at any time. Serial and continuous   *)
(* execution differ in what they may do to a request: both are covered by  *)
(* choosing freely which choice advances, when the flag is seen and, where *)
(* only the scheduler can fail, whether it does.                           *)
(***************************************************************************)
EXTENDS Prompt, Emitter, ToolStream

CONSTANTS Requests, BufferCap

ASSUME ResponseAssumption == BufferCap \in Nat \ {0}

VARIABLES
  request,   \* the request on the connection, None before it
  job,       \* what prepare made of it
  pc,        \* the connection thread
  hand,      \* the event it has taken: <<choice, event>>
  wire,      \* the response: [status, body, failed]
  choices,   \* HttpChoice of each choice: parser, texts, calls, finish
  channel,   \* events on their way
  cancel,    \* the flag both sides share
  client,    \* "reading", "stalled" or "closed"
  phase,     \* the engine's side: "none", "queued", "running", "ended"
  outputs,   \* each choice in the engine: tokens, emitter, how it ended
  sending,   \* events the engine has yet to send
  lost       \* whether an event was dropped for want of room

handler == <<pc, hand, wire, choices, cancel>>
vars == <<request, job, pc, hand, wire, choices, channel, cancel, client,
          phase, outputs, sending, lost>>

None == [n |-> 0]

Event(kind, s) == [kind |-> kind, text |-> s]
Indexed(i, events) == [k \in DOMAIN events |-> <<i, events[k]>>]
Ended(reason) == <<Event("done", <<reason>>)>>

Alive == pc \in {"receive", "deliver", "fail", "complete"}

Init ==
  /\ request = None /\ job = None /\ pc = "read" /\ hand = << >>
  /\ wire = [status |-> 0, body |-> "none", failed |-> FALSE]
  /\ choices = << >> /\ channel = << >> /\ cancel = FALSE
  /\ client = "reading" /\ phase = "none" /\ outputs = << >>
  /\ sending = << >> /\ lost = FALSE

-----------------------------------------------------------------------------
(* The client.                                                             *)
-----------------------------------------------------------------------------
Client ==
  /\ client # "closed" /\ (Alive => ~request.steady)
  /\ \E c \in {"reading", "stalled", "closed"} \ {client} : client' = c
  /\ UNCHANGED <<request, job, handler, channel, phase, outputs, sending, lost>>

-----------------------------------------------------------------------------
(* The connection thread: the request.                                     *)
-----------------------------------------------------------------------------
\* read_request refuses it: its lines, its lengths or its chunks.
Malformed(r) == r.route = "malformed"

\* A request that cannot be read ends the connection behind its answer.
AfterResponse ==
  IF request'.keep /\ ~Malformed(request') THEN "kept" ELSE "closed"

Answer(status) ==
  /\ wire' = [status |-> status, body |-> "whole", failed |-> status # 200]
  /\ pc' = AfterResponse
  /\ UNCHANGED <<job, choices, phase, outputs>>

\* The status of a request that needs no engine, 0 for a completion.
Routed(r) ==
  CASE Malformed(r) -> 400
    [] r.route = "options" -> 204
    [] r.route = "health" -> 200
    [] ~r.authorized -> 401
    [] r.route = "models" -> 200
    [] r.route = "unknown" -> 404
    [] r.route = "no_json" -> 400
    [] OTHER -> 0

NewChoice == [parser |-> NewParser, content |-> << >>, reasoning |-> << >>,
              calls |-> << >>, finish |-> "none"]

\* The job joins the queue, or the queue is full.
Submit(p) ==
  \/ Answer(503)
  \/ /\ job' = p
     /\ choices' = [i \in 1 .. p.n |-> NewChoice]
     /\ outputs' = [i \in 1 .. p.n |->
          [tokens |-> << >>, emitter |-> NewEmitter(p.open), ended |-> "no"]]
     /\ phase' = "queued" /\ pc' = "receive"
     /\ UNCHANGED wire

ChatCompletions(r) ==
  LET p == Prepare(r) IN IF p.ok THEN Submit(p) ELSE Answer(400)

Read ==
  /\ pc = "read" /\ client = "reading"
  /\ request' \in Requests
  /\ IF Routed(request') # 0 THEN Answer(Routed(request')) ELSE ChatCompletions(request')
  /\ UNCHANGED <<hand, channel, cancel, client, sending, lost>>

\* The client went away before it had sent a request, or was too slow.
ReadFails ==
  /\ pc = "read" /\ client # "reading" /\ pc' = "closed"
  /\ UNCHANGED <<request, job, hand, wire, choices, channel, cancel, client, phase,
                 outputs, sending, lost>>

-----------------------------------------------------------------------------
(* The connection thread: the receive loop.                                *)
-----------------------------------------------------------------------------
TakeEvent ==
  /\ pc = "receive" /\ channel # << >>
  /\ hand' = Head(channel) /\ channel' = Tail(channel) /\ pc' = "deliver"
  /\ UNCHANGED <<request, job, wire, choices, cancel, client, phase, outputs, sending, lost>>

\* The flag is set whichever way chat_completions returns (CancelOnDrop).
Return(to) == pc' = to /\ cancel' = TRUE

\* Nothing came for 250 ms.
Timeout ==
  /\ pc = "receive" /\ channel = << >> /\ phase # "ended"
  /\ \/ client = "closed" /\ Return("closed")
     \/ client # "closed" /\ cancel /\ pc' = "fail" /\ UNCHANGED cancel
  /\ UNCHANGED <<request, job, hand, wire, choices, channel, client, phase, outputs,
                 sending, lost>>

\* All senders are gone and no event is left.
Disconnected ==
  /\ pc = "receive" /\ channel = << >> /\ phase = "ended"
  /\ pc' = "fail"
  /\ UNCHANGED <<request, job, hand, wire, choices, channel, cancel, client, phase,
                 outputs, sending, lost>>

\* What one event is to the choice it belongs to: its parser and its outputs.
Parsed(choice, event) ==
  CASE event.kind = "content" -> PushText(choice.parser, event.text)
    [] event.kind = "done" /\ choice.finish = "none" ->
         [parser |-> NewParser, out |-> FinishText(choice.parser)]
    [] OTHER -> [parser |-> choice.parser, out |-> << >>]

TextOf(out) == FlattenSeq([k \in DOMAIN out |->
                             IF out[k].kind = "text" THEN out[k].text ELSE << >>])
CallsOf(out) == SelectSeq(out, LAMBDA o : o.kind = "call")

\* choice_finish.
FinishReason(calls, reason) ==
  CASE calls # << >> -> "tool_calls"
    [] reason = "length" -> "length"
    [] OTHER -> "stop"

Heard(choice, event) ==
  LET parsed == Parsed(choice, event)
      calls == choice.calls \o [k \in DOMAIN CallsOf(parsed.out) |-> CallsOf(parsed.out)[k].text]
  IN  [parser |-> parsed.parser,
       content |-> choice.content \o TextOf(parsed.out),
       reasoning |-> choice.reasoning
                       \o (IF event.kind = "reasoning" THEN event.text ELSE << >>),
       calls |-> calls,
       finish |-> IF event.kind = "done" /\ choice.finish = "none"
                  THEN FinishReason(calls, Head(event.text)) ELSE choice.finish]

\* In a stream every event but a repeated end is written, and the first one
\* begins the response; otherwise nothing is written before the end.
Writes(event) ==
  /\ request.stream /\ event.kind # "error"
  /\ \/ wire.body = "none" \/ event.kind = "reasoning"
     \/ event.kind = "done" /\ choices[hand[1]].finish = "none"
     \/ event.kind = "content" /\ Parsed(choices[hand[1]], event).out # << >>

CanWrite == client # "stalled"

Deliver ==
  /\ pc = "deliver"
  /\ LET i == hand[1]
         event == hand[2]
         c == [choices EXCEPT ![i] = Heard(@, event)]
     IN  /\ Writes(event) => CanWrite
         /\ IF event.kind = "error" THEN pc' = "fail" /\ UNCHANGED <<choices, wire>>
            ELSE /\ choices' = c
                 /\ wire' = IF request.stream /\ wire.body = "none"
                            THEN [wire EXCEPT !.status = 200, !.body = "open"] ELSE wire
                 /\ pc' = IF \A k \in DOMAIN c : c[k].finish # "none"
                          THEN "complete" ELSE "receive"
  /\ hand' = << >>
  /\ UNCHANGED <<request, job, channel, cancel, client, phase, outputs, sending, lost>>

\* The failure: a response of its own, or the last chunk of the stream.
Fail ==
  /\ pc = "fail" /\ CanWrite
  /\ wire' = [status |-> IF wire.body = "none" THEN 500 ELSE 200,
              body |-> "whole", failed |-> TRUE]
  /\ Return(IF request.keep THEN "kept" ELSE "closed")
  /\ UNCHANGED <<request, job, hand, choices, channel, client, phase, outputs, sending, lost>>

Complete ==
  /\ pc = "complete" /\ CanWrite
  /\ wire' = [status |-> 200, body |-> "whole", failed |-> FALSE]
  /\ Return(IF request.keep THEN "kept" ELSE "closed")
  /\ UNCHANGED <<request, job, hand, choices, channel, client, phase, outputs, sending, lost>>

\* A write that fails, after the socket's timeout or because the client is
\* gone, ends the thread and closes the connection.
WriteFails ==
  /\ client # "reading"
  /\ \/ pc \in {"fail", "complete"}
     \/ pc = "deliver" /\ Writes(hand[2])
  /\ Return("closed")
  /\ UNCHANGED <<request, job, hand, wire, choices, channel, client, phase, outputs,
                 sending, lost>>

Handler ==
  \/ TakeEvent \/ Timeout \/ Disconnected \/ Deliver \/ Fail \/ Complete \/ WriteFails

-----------------------------------------------------------------------------
(* The engine.                                                             *)
-----------------------------------------------------------------------------
NotEnded == {i \in DOMAIN outputs : outputs[i].ended = "no"}

EndAll(reason) == [i \in DOMAIN outputs |->
  IF i \in NotEnded THEN [outputs[i] EXCEPT !.ended = reason] ELSE outputs[i]]

AllCancelled == FlattenSeq([i \in DOMAIN outputs |-> Indexed(i, Ended("cancelled"))])

\* The engine reaches the job: it was cancelled while it waited or was
\* prefilled, or its prompt is ready, or the scheduler cannot hold it.
Start ==
  /\ phase = "queued" /\ phase' = "running"
  /\ \/ cancel /\ sending' = AllCancelled /\ outputs' = EndAll("cancelled")
     \/ ~cancel /\ sending' = <<<<1, Event("prefilled", << >>)>>>> /\ UNCHANGED outputs
     \/ /\ MaxChoices > 1
        /\ sending' = <<<<1, Event("error", << >>)>>>> /\ outputs' = EndAll("error")
  /\ UNCHANGED <<request, job, handler, channel, client, lost>>

Working == phase = "running" /\ sending = << >>

\* A bug: the engine waits for room in the channel.
SendWhenRoom == sending # << >> /\ (Alive => Len(channel) < BufferCap)

\* EventTx::send never waits: an event that finds no room is dropped, and
\* the flag is set.
SendReady == sending # << >>

Send ==
  /\ SendReady
  /\ sending' = Tail(sending)
  /\ IF Alive /\ Len(channel) < BufferCap
     THEN channel' = Append(channel, Head(sending)) /\ UNCHANGED <<cancel, lost>>
     ELSE /\ cancel' = TRUE
          /\ lost' = (lost \/ Alive)
          /\ UNCHANGED channel
  /\ UNCHANGED <<request, job, pc, hand, wire, choices, client, phase, outputs>>

\* A choice ends: what is held back is sent, then the end.
EndChoice(i, tokens, em, out, reason) ==
  /\ outputs' = [outputs EXCEPT ![i] = [tokens |-> tokens, emitter |-> em, ended |-> reason]]
  /\ sending' = Indexed(i, out \o Flush(em) \o Ended(reason))

\* The flag is read, then one token of a choice is added. A speculative round
\* adds a few more before it reads the flag again; they would come after a
\* dropped event, behind which nothing is claimed of the text.
Generate(i) ==
  /\ Working /\ i \in NotEnded
  /\ LET o == outputs[i]
     IN  \/ cancel /\ EndChoice(i, o.tokens, o.emitter, << >>, "cancelled")
         \/ ~cancel /\ EndChoice(i, o.tokens, o.emitter, << >>, "stop")
         \/ ~cancel /\ \E id \in request.alphabet :
              LET pushed == PushToken(o.emitter, id, job.stops)
                  tokens == Append(o.tokens, id)
              IN  CASE pushed.stopped -> EndChoice(i, tokens, pushed.em, pushed.out, "stop")
                    [] ~pushed.stopped /\ Len(tokens) >= job.max ->
                         EndChoice(i, tokens, pushed.em, pushed.out, "length")
                    [] OTHER ->
                         /\ outputs' = [outputs EXCEPT ![i].tokens = tokens,
                                                       ![i].emitter = pushed.em]
                         /\ sending' = Indexed(i, pushed.out)
  /\ UNCHANGED <<request, job, handler, channel, client, phase, lost>>

\* The scheduler fails the group; its other choices may have ended before.
FailGroup ==
  /\ Working /\ NotEnded # {} /\ MaxChoices > 1
  /\ sending' = <<<<1, Event("error", << >>)>>>> /\ outputs' = EndAll("error")
  /\ UNCHANGED <<request, job, handler, channel, client, phase, lost>>

\* The job is dropped, and with it every sender.
DropJob ==
  /\ Working /\ NotEnded = {} /\ phase' = "ended"
  /\ UNCHANGED <<request, job, handler, channel, client, outputs, sending, lost>>

Engine == Start \/ Send \/ DropJob \/ FailGroup \/ \E i \in DOMAIN outputs : Generate(i)

Next == Client \/ Read \/ ReadFails \/ Handler \/ Engine

\* Weak fairness of a thread, given when it can go on and the state that only
\* its steps change: this is WF_vars of its actions, in a form TLC evaluates
\* fast. Every step of the connection thread changes pc, every step of the
\* engine its own three variables.
EngineCan ==
  phase = "queued" \/ (phase = "running" /\ (sending = << >> \/ SendReady))

HandlerCan ==
  \/ pc = "receive" /\ (channel # << >> \/ phase = "ended" \/ client = "closed" \/ cancel)
  \/ pc \in {"deliver", "fail", "complete"}

EngineFair == []<>~EngineCan \/ []<><<TRUE>>_<<phase, outputs, sending>>
HandlerFair == []<>~HandlerCan \/ []<><<TRUE>>_pc

\* The engine thread runs whatever the connection thread does.
Spec == Init /\ [][Next]_vars /\ EngineFair
-----------------------------------------------------------------------------
(* What the client can rely on.                                            *)
-----------------------------------------------------------------------------
Successful == wire.body = "whole" /\ wire.status = 200 /\ ~wire.failed /\ job.n > 0

\* A response that claims success says exactly what the model generated:
\* every choice's reasoning, text, calls and reason, however the tokens were
\* cut into events and the events into parser inputs, unless an event was
\* dropped (chat_completions, Emitter, ToolStream: holding back must neither
\* deliver a part of a stop string or of a tag, nor lose what it held). And a
\* connection is kept only behind a whole response.
WholeChoice(i) ==
  LET o == outputs[i]
      c == choices[i]
      says == SaysContent(o.tokens, job.open, job.stops)
      spelt == Spells(says)
  IN  /\ o.ended \in {"stop", "length"}
      /\ c.reasoning = SaysReasoning(o.tokens, job.open)
      /\ Bare(c.content) = spelt.text /\ c.calls = spelt.calls
      /\ Find(says, OPEN) = 0 => c.content = says
      /\ c.finish = IF spelt.calls # << >> THEN "tool_calls" ELSE o.ended

WholeResponse ==
  /\ (Successful /\ ~lost) => \A i \in 1 .. job.n : WholeChoice(i)
  /\ pc = "kept" => wire.body = "whole"

\* docs/SERVER.md: finish_reason "stop" is an "end-of-turn token or a stop
\* string". The code also reports it for a choice the engine gave up because
\* the channel was full (choice_finish has no case for "cancelled").
StopMeansEnd ==
  Successful => \A i \in 1 .. job.n :
                  choices[i].finish = "stop" => outputs[i].ended = "stop"

\* The spans a job carries cover its rows one by one, each row under the role
\* of the part it was rendered in, and every image's rows are its own pad rows
\* in one span of the user's (token_spans, expand_spans and expand_pads shift
\* the same positions each in their own way).
PromptTiled ==
  phase = "queued" =>
    /\ Head(job.spans).start = 0
    /\ job.spans[Len(job.spans)].end = Len(job.ids)
    /\ \A k \in 1 .. Len(job.spans) - 1 : job.spans[k].end = job.spans[k + 1].start
    /\ \A k \in DOMAIN job.spans : \A row \in job.spans[k].start + 1 .. job.spans[k].end :
         job.spans[k].role = RowRoles(request)[row]
    /\ \A k \in DOMAIN job.places :
         LET rows == job.places[k].row + 1 .. job.places[k].row + job.places[k].n
         IN  /\ \A row \in rows : job.ids[row] = "pad"
             /\ \E s \in DOMAIN job.spans :
                  /\ job.spans[s].role = "user"
                  /\ rows \subseteq job.spans[s].start + 1 .. job.spans[s].end

\* Nobody waits for ever. The engine is done with every job it was given even
\* if nobody reads the connection or its thread stands still ("the executor
\* never waits for network writes"), and a connection thread that gets to run
\* answers or closes whatever the client and the channel did, even when the
\* end of the answer was the event that was dropped.
NobodyWaits ==
  /\ phase = "queued" ~> phase = "ended"
  /\ HandlerFair => (pc = "receive" ~> pc \in {"kept", "closed"})
=============================================================================
