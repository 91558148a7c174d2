----------------------------- MODULE ModelCalls -----------------------------
(***************************************************************************)
(* One model call after another over the wire of whichever provider the    *)
(* session is connected to: the history is translated into the provider's  *)
(* request, the answer arrives as frames of the provider's dialect, the    *)
(* adapter turns frames into deltas and the agent assembles deltas into a  *)
(* message and tool calls.  The server may send its tool-call frames in    *)
(* any order its dialect allows, end the stream early or report a failure. *)
(*                                                                         *)
(* A turn makes its calls one after another, and the history that later    *)
(* turns read is the log's: a call and its result are logged when they     *)
(* happen, what the model said when its turn ends.  A turn may pause over  *)
(* a call, be cancelled, fail or be cut off; what the tools do meanwhile   *)
(* is the subject of ToolRuns.                                             *)
(*                                                                         *)
(* The arguments of a call are a sequence of fragment numbers; they parse  *)
(* as JSON when all Fragments of them are there.  Wording, token usage and *)
(* raw evidence are left out.                                              *)
(***************************************************************************)
EXTENDS Naturals, Sequences, SequencesExt, FiniteSets

CONSTANTS
    Dialects,     \* subset of {"anthropic", "openai", "chatgpt", "cli"}
    Fragments,    \* fragments the arguments of a call are sent in
    MaxModelCalls,\* bound on the model calls of a behaviour
    Upsets,       \* what may come between: "interrupt", "steer", "deliver", "panic", "fork"
    MaxUpsets     \* how often, together

ASSUME ModelCallsAssumption ==
    /\ Dialects \subseteq {"anthropic", "openai", "chatgpt", "cli"}
    /\ Fragments \in Nat \ {0} /\ MaxModelCalls \in Nat \ {0}
    /\ MaxUpsets \in Nat

VARIABLES
    dialect,   \* the connection's provider
    messages,  \* the branch's logged messages: a sequence of [role, part, call, by]
    turn,      \* the turn: its context, what it said so far, and its open call or 0
    answer,    \* what the server means to say: [calls, thinks]
    wire,      \* what it has sent: per call, and whether it ended and how
    acc,       \* the adapter's accumulators, per call of the answer
    thinking,  \* the adapter's thinking block: "none" or "open"
    agent,     \* the agent's collector: open and finished calls, parts, status
    requests,  \* model calls so far
    upsets     \* how often something came between

modelVars == <<dialect, messages, turn, answer, wire, acc, thinking, agent, requests, upsets>>

WireCalls == 1..2
Whole == [i \in 1..Fragments |-> i]
NoAcc == [there |-> FALSE, id |-> FALSE, name |-> FALSE, opened |-> FALSE, args |-> <<>>]
NoWire == [id |-> [c \in WireCalls |-> FALSE], name |-> [c \in WireCalls |-> FALSE],
           sent |-> [c \in WireCalls |-> 0], stopped |-> {}, thought |-> 0, ended |-> "no"]
Collecting == [status |-> "streaming", open |-> <<>>, calls |-> <<>>, parts |-> <<>>]
NoTurn == [context |-> <<>>, said |-> <<>>, call |-> 0]

----------------------------------------------------------------------------
(* The agent: collect_response.                                            *)

OpenCall(c) == [do |-> "open", call |-> c, json |-> <<>>]
MoreArguments(c, json) == [do |-> "append", call |-> c, json |-> json]
CloseCall(c) == [do |-> "close", call |-> c, json |-> <<>>]

OpenIndex(a, c) == {i \in DOMAIN a.open : a.open[i].call = c}

\* Text that does not parse is passed on as a string.
Finalized(o) == [call |-> o.call, arguments |-> o.json,
                 parsed |-> o.json = Whole \/ o.json = <<>>]

\* One delta of a tool call; an argument or a close before the open is an error.
CollectOne(a, d) ==
    IF a.status # "streaming" THEN a
    ELSE CASE d.do = "open" ->
                IF OpenIndex(a, d.call) # {} THEN a
                ELSE [a EXCEPT !.open = Append(@, [call |-> d.call, json |-> <<>>])]
           [] d.do = "append" ->
                IF OpenIndex(a, d.call) = {} THEN [a EXCEPT !.status = "failed"]
                ELSE [a EXCEPT !.open[CHOOSE i \in OpenIndex(a, d.call) : TRUE].json = @ \o d.json]
           [] d.do = "close" ->
                IF OpenIndex(a, d.call) = {} THEN [a EXCEPT !.status = "failed"]
                ELSE LET i == CHOOSE j \in OpenIndex(a, d.call) : TRUE
                     IN [a EXCEPT !.calls = Append(@, Finalized(a.open[i])),
                                  !.open = RemoveAt(@, i)]

Collect(a, deltas) == FoldLeft(CollectOne, a, deltas)

\* push_message_part: a part that carries a replay block never coalesces.
PushPart(a, part, by) ==
    IF a.status = "streaming" /\ (a.parts = <<>> \/ Last(a.parts) # [part |-> part, by |-> by]
                                  \/ by # "none")
    THEN [a EXCEPT !.parts = Append(@, [part |-> part, by |-> by])]
    ELSE a

\* The end of the stream: calls still open are finished as they are.
CollectEnd(a) ==
    IF a.status # "streaming" THEN a
    ELSE [a EXCEPT !.calls = @ \o [i \in DOMAIN a.open |-> Finalized(a.open[i])],
                   !.open = <<>>, !.status = "collected"]

----------------------------------------------------------------------------
(* The adapters: what each dialect makes of a frame about a call.          *)
(* A frame is [call, id, name, args]; each operator gives the new          *)
(* accumulator and the deltas.                                             *)

\* maybe_emit_tool_call_open: once id and name are known, with the backlog.
OpenAiOpen(a, c) ==
    IF ~a.opened /\ a.id /\ a.name
    THEN [to |-> [a EXCEPT !.opened = TRUE, !.args = <<>>],
          emit |-> <<OpenCall(c)>> \o (IF a.args = <<>> THEN <<>> ELSE <<MoreArguments(c, a.args)>>)]
    ELSE [to |-> a, emit |-> <<>>]

\* apply_tool_call_delta.
OpenAiDelta(a, f) ==
    LET known == OpenAiOpen([a EXCEPT !.there = TRUE, !.id = @ \/ f.id, !.name = @ \/ f.name], f.call)
    IN IF f.args = <<>> THEN known
       ELSE IF known.to.opened
       THEN [known EXCEPT !.emit = Append(@, MoreArguments(f.call, f.args))]
       ELSE [known EXCEPT !.to.args = @ \o f.args]

\* Anthropic: a block names its call when it starts; input follows.
AnthropicDelta(a, f) ==
    LET to == [a EXCEPT !.there = TRUE, !.id = @ \/ f.id, !.name = @ \/ f.name]
    IN [to |-> to,
        emit |-> (IF f.id THEN <<OpenCall(f.call)>> ELSE <<>>)
                   \o (IF f.args # <<>> /\ to.id THEN <<MoreArguments(f.call, f.args)>> ELSE <<>>)]

\* open_tool_call_if_ready.
ChatGptOpen(a, c) ==
    IF ~a.opened /\ a.id /\ a.name
    THEN [to |-> [a EXCEPT !.opened = TRUE],
          emit |-> <<OpenCall(c)>> \o (IF a.args = <<>> THEN <<>> ELSE <<MoreArguments(c, a.args)>>)]
    ELSE [to |-> a, emit |-> <<>>]

\* apply_output_item_added and apply_function_call_argument_delta.
ChatGptDelta(a, f) ==
    IF f.id
    THEN ChatGptOpen([a EXCEPT !.there = TRUE, !.id = TRUE, !.name = TRUE, !.args = @ \o f.args], f.call)
    ELSE LET ready == ChatGptOpen([a EXCEPT !.args = @ \o f.args], f.call)
         IN [ready EXCEPT !.emit = @ \o (IF ready.to.opened THEN <<MoreArguments(f.call, f.args)>> ELSE <<>>)]

\* The final arguments sent after what was already streamed.
ReconcileWhole(a, c, final) ==
    [to |-> [a EXCEPT !.args = final], emit |-> <<MoreArguments(c, final)>>]

\* reconcile_function_call_arguments: only the part that was not streamed.
Reconcile(a, c, final) ==
    [to |-> [a EXCEPT !.args = final],
     emit |-> IF IsPrefix(a.args, final)
              THEN (IF a.args = final THEN <<>>
                    ELSE <<MoreArguments(c, SubSeq(final, Len(a.args) + 1, Len(final)))>>)
              ELSE <<MoreArguments(c, final)>>]

\* finish_tool_use, apply_output_item_done: the call's own end.
ClosedDeltas(a, c) ==
    IF ~a.there \/ ~a.id THEN <<>>
    ELSE IF dialect = "chatgpt" THEN Reconcile(a, c, Whole).emit \o <<CloseCall(c)>>
    ELSE <<CloseCall(c)>>

\* flush_tool_calls: whatever is left when the provider says it is done.
Flushed(accs) ==
    LET left(c) == accs[c].there /\ accs[c].id /\ accs[c].name
        one(c) == IF ~left(c) THEN <<>>
                  ELSE (IF accs[c].opened \/ dialect \in {"anthropic", "cli"} THEN <<>>
                        ELSE <<OpenCall(c)>>)
                         \o (IF accs[c].opened \/ accs[c].args = <<>> THEN <<>>
                             ELSE <<MoreArguments(c, accs[c].args)>>)
                         \o <<CloseCall(c)>>
    IN one(1) \o one(2)

Drained == [c \in WireCalls |-> NoAcc]

Delta(a, f) ==
    CASE dialect \in {"anthropic", "cli"} -> AnthropicDelta(a, f)
      [] dialect = "openai" -> OpenAiDelta(a, f)
      [] dialect = "chatgpt" -> ChatGptDelta(a, f)

----------------------------------------------------------------------------
(* The request: the turn's context in the dialect of the provider.         *)

WireRole(m) == IF m.role = "tool" /\ dialect = "anthropic" THEN "user" ELSE m.role

\* anthropic_replay_block: a signed block goes back to the one that signed it.
Replay(m, provider) == m.by = provider

\* message_part_to_anthropic_blocks: everything, and reasoning of its own.
AnthropicSends(m) == m.part # "reasoning" \/ Replay(m, "anthropic")

\* extend_assistant_input_items: likewise.
ChatGptSends(m) == m.part # "reasoning" \/ Replay(m, "chatgpt")

\* message_to_openai, render_prompt: reasoning is never sent.
OpenAiSends(m) == m.part # "reasoning"
CliSends(m) == m.part # "reasoning"

Sends(m) ==
    CASE dialect = "anthropic" -> AnthropicSends(m)
      [] dialect = "chatgpt" -> ChatGptSends(m)
      [] dialect = "openai" -> OpenAiSends(m)
      [] dialect = "cli" -> CliSends(m)

Blocks == SelectSeq(turn.context, Sends)

\* messages_to_anthropic: consecutive messages of one role are one message.
JoinSameRole(request, m) ==
    IF request # <<>> /\ Last(request).role = WireRole(m)
    THEN [request EXCEPT ![Len(request)].content = Append(@, m)]
    ELSE Append(request, [role |-> WireRole(m), content |-> <<m>>])

AnthropicRequest == FoldLeft(JoinSameRole, <<>>, Blocks)

----------------------------------------------------------------------------
(* The steps.                                                              *)

Msg(role, part, call, by) == [role |-> role, part |-> part, call |-> call, by |-> by]

Doing(status) == [Collecting EXCEPT !.status = status]
AgentIdle == agent.status \in {"idle", "failed"}
Upset(what) == what \in Upsets /\ upsets < MaxUpsets /\ upsets' = upsets + 1
wireVars == <<answer, wire, acc, thinking>>

\* A user speaks, to the connection the session has now, and a turn begins
\* with the branch's history.
Prompt(d) ==
    /\ AgentIdle /\ requests < MaxModelCalls
    /\ Cardinality({i \in DOMAIN messages : messages[i].part = "prompt"}) <= requests
    /\ dialect' = d
    /\ messages' = Append(messages, Msg("user", "prompt", 0, "none"))
    /\ turn' = [NoTurn EXCEPT !.context = messages']
    /\ agent' = Doing("ready")
    /\ UNCHANGED <<wireVars, requests, upsets>>

\* stream_completion: the request goes out; the server decides on an answer.
\* The command-line provider is given no tools.
Request(calls, thinks) ==
    /\ agent.status = "ready" /\ requests < MaxModelCalls
    /\ dialect = "cli" => calls = {}
    /\ requests' = requests + 1
    /\ answer' = [calls |-> calls, thinks |-> thinks]
    /\ wire' = NoWire
    /\ acc' = Drained
    /\ thinking' = "none"
    /\ agent' = Collecting
    /\ UNCHANGED <<dialect, messages, turn, upsets>>

Streaming == agent.status = "streaming" /\ wire.ended = "no"

\* A call's frame: the fields it may carry depend on the dialect.
MaySend(f) ==
    LET c == f.call
        next == wire.sent[c] + 1
        first == ~wire.id[c]
    IN /\ c \in answer.calls \ wire.stopped
       /\ f.args \in {<<>>} \union (IF next <= Fragments THEN {<<next>>} ELSE {})
       /\ f.id => first
       /\ f.name => ~wire.name[c]
       /\ f.id \/ f.name \/ f.args # <<>>
       /\ dialect # "openai" => (f.id = first /\ f.name = first)
       /\ dialect = "anthropic" => /\ first => f.args = <<>>
                                   /\ \A d \in answer.calls : d < c => d \in wire.stopped

CallFrame(f) ==
    /\ Streaming /\ MaySend(f)
    /\ LET r == Delta(acc[f.call], f)
       IN /\ acc' = [acc EXCEPT ![f.call] = r.to]
          /\ agent' = Collect(agent, r.emit)
    /\ wire' = [wire EXCEPT !.id[f.call] = @ \/ f.id, !.name[f.call] = @ \/ f.name,
                            !.sent[f.call] = @ + Len(f.args)]
    /\ UNCHANGED <<dialect, messages, turn, answer, thinking, requests, upsets>>

\* The arguments in full: response.function_call_arguments.done.
ArgumentsDone(c) ==
    /\ Streaming /\ dialect = "chatgpt" /\ wire.id[c] /\ c \notin wire.stopped
    /\ LET r == Reconcile(acc[c], c, Whole)
       IN /\ acc' = [acc EXCEPT ![c] = r.to]
          /\ agent' = Collect(agent, r.emit)
    /\ wire' = [wire EXCEPT !.sent[c] = Fragments]
    /\ UNCHANGED <<dialect, messages, turn, answer, thinking, requests, upsets>>

\* content_block_stop, response.output_item.done.
CallStop(c) ==
    /\ Streaming /\ dialect \in {"anthropic", "chatgpt"}
    /\ c \in answer.calls \ wire.stopped /\ wire.id[c]
    /\ dialect = "anthropic" => wire.sent[c] = Fragments
    /\ agent' = Collect(agent, ClosedDeltas(acc[c], c))
    /\ acc' = [acc EXCEPT ![c] = NoAcc]
    /\ wire' = [wire EXCEPT !.stopped = @ \union {c}, !.sent[c] = Fragments]
    /\ UNCHANGED <<dialect, messages, turn, answer, thinking, requests, upsets>>

\* The replay block: Anthropic closes a signed thinking block with it,
\* ChatGPT sends it as an item of its own, the others have none.
Signer ==
    CASE dialect \in {"anthropic", "cli"} /\ thinking = "open" -> "anthropic"
      [] dialect = "chatgpt" -> "chatgpt"
      [] OTHER -> "none"

\* Reasoning: streamed text, then the replay block.
Think ==
    /\ Streaming /\ answer.thinks /\ wire.thought < 2
    /\ wire' = [wire EXCEPT !.thought = @ + 1]
    /\ thinking' = IF dialect \in {"anthropic", "cli"} /\ wire.thought = 0 THEN "open" ELSE "none"
    /\ agent' = IF wire.thought = 0 THEN PushPart(agent, "reasoning", "none")
                ELSE IF Signer = "none" THEN agent ELSE PushPart(agent, "reasoning", Signer)
    /\ UNCHANGED <<dialect, messages, turn, answer, acc, requests, upsets>>

Say ==
    /\ Streaming /\ ~\E i \in DOMAIN agent.parts : agent.parts[i].part = "text"
    /\ agent' = PushPart(agent, "text", "none")
    /\ UNCHANGED <<dialect, messages, turn, answer, wire, acc, thinking, requests, upsets>>

SaidAll ==
    /\ \A c \in answer.calls : wire.id[c] /\ wire.name[c] /\ wire.sent[c] = Fragments
    /\ dialect \in {"anthropic", "chatgpt"} => wire.stopped = answer.calls

\* finish_reason tool_calls, [DONE]: the adapter flushes what it holds.
FinishReason ==
    /\ Streaming /\ dialect = "openai" /\ SaidAll /\ acc # Drained
    /\ agent' = Collect(agent, Flushed(acc))
    /\ acc' = Drained
    /\ wire' = [wire EXCEPT !.stopped = answer.calls]
    /\ UNCHANGED <<dialect, messages, turn, answer, thinking, requests, upsets>>

\* response.failed or error fails the answer; the end of the body does not.
ChatGptFails(how) == how = "failed"

\* The command-line provider wants its result envelope and a clean exit.
CliFails(how) == how # "clean"

\* How the body ends: complete, cut short, or after a failure event.  The
\* other two adapters take what came for the answer.
End(how) ==
    /\ Streaming
    /\ how = "clean" => SaidAll
    /\ how = "cut" => ~SaidAll \/ dialect = "cli"
    /\ wire' = [wire EXCEPT !.ended = how]
    /\ agent' = IF \/ dialect = "chatgpt" /\ ChatGptFails(how)
                   \/ dialect = "cli" /\ CliFails(how)
                THEN [agent EXCEPT !.status = "failed"]
                ELSE CollectEnd(Collect(agent, Flushed(acc)))
    /\ turn' = IF agent'.status = "failed" THEN NoTurn ELSE turn
    /\ acc' = Drained
    /\ UNCHANGED <<dialect, messages, answer, thinking, requests, upsets>>

----------------------------------------------------------------------------
(* The turn around the answers.                                            *)

\* The answer joins the context; without a call it ends the turn, and all
\* that the turn has said is logged (record_turn_result).
RecordAnswer ==
    /\ agent.status = "collected"
    /\ LET parts == [i \in DOMAIN agent.parts |->
                       Msg("assistant", agent.parts[i].part, 0, agent.parts[i].by)]
       IN IF agent.calls = <<>>
          THEN /\ messages' = messages \o turn.said \o parts
               /\ turn' = NoTurn
               /\ agent' = Doing("idle")
          ELSE /\ turn' = [turn EXCEPT !.context = @ \o parts, !.said = @ \o parts]
               /\ agent' = [Doing("calls") EXCEPT !.calls = agent.calls]
               /\ UNCHANGED messages
    /\ wire' = NoWire
    /\ UNCHANGED <<dialect, answer, acc, thinking, requests, upsets>>

\* tool_call_requested: the next call of the answer is logged.
RequestCall ==
    /\ agent.status = "calls"
    /\ LET call == Msg("assistant", "call", 2 * (requests - 1) + Head(agent.calls).call, "none")
       IN /\ messages' = Append(messages, call)
          /\ turn' = [turn EXCEPT !.context = Append(@, call), !.call = call.call]
    /\ agent' = [agent EXCEPT !.status = "calling", !.calls = Tail(@)]
    /\ UNCHANGED <<dialect, wireVars, requests, upsets>>

Result == Msg("tool", "result", turn.call, "none")

\* tool_execution_finished: its result is logged; the next call follows, or
\* the next request.
CallReturns ==
    /\ agent.status = "calling"
    /\ messages' = Append(messages, Result)
    /\ turn' = [turn EXCEPT !.context = Append(@, Result), !.call = 0]
    /\ agent' = [agent EXCEPT !.status = IF agent.calls = <<>> THEN "ready" ELSE "calls"]
    /\ UNCHANGED <<dialect, wireVars, requests, upsets>>

\* The call needs an approval or an answer: the rest of the calls is dropped,
\* what the turn has said is logged, unless a cancel or a crash comes first,
\* and the turn ends.  Either way the call still waits.
Pause ==
    /\ agent.status = "calling"
    /\ \/ messages' = messages \o turn.said /\ UNCHANGED upsets
       \/ Upset("interrupt") /\ UNCHANGED messages
    /\ turn' = [NoTurn EXCEPT !.call = turn.call]
    /\ agent' = Doing("paused")
    /\ UNCHANGED <<dialect, wireVars, requests>>

Steered(log) ==
    \/ messages' = log /\ UNCHANGED upsets
    \/ messages' = Append(log, Msg("user", "steer", 0, "none")) /\ Upset("steer")

\* bootstrap_resumed_approval_turn: pending steers are logged before the tool
\* is run.
ResumeApproval ==
    /\ agent.status = "paused"
    /\ Steered(messages)
    /\ agent' = Doing("resuming")
    /\ UNCHANGED <<dialect, turn, wireVars, requests>>

\* The resumed tool has its result, and the turn reads the branch's history.
ResumedReturns ==
    /\ agent.status = "resuming"
    /\ messages' = Append(messages, Result)
    /\ turn' = [NoTurn EXCEPT !.context = messages']
    /\ agent' = Doing("ready")
    /\ UNCHANGED <<dialect, wireVars, requests, upsets>>

\* bootstrap_resumed_input_turn: the answer is the result, then the steers.
ResumeInput ==
    /\ agent.status = "paused"
    /\ Steered(Append(messages, Result))
    /\ turn' = [NoTurn EXCEPT !.context = messages']
    /\ agent' = Doing("ready")
    /\ UNCHANGED <<dialect, wireVars, requests>>

\* Mutant of Answered: the open call of a turn that ends is left as it is.
NotAnswered == messages

\* The open call of a turn that was cancelled, failed or was cut off by a
\* crash gets its result with the turn's end (tool_execution_finished,
\* interrupted_tool_results).
Answered == IF turn.call = 0 THEN messages ELSE Append(messages, Result)

Broken ==
    /\ agent.status \in {"ready", "streaming", "collected", "calls", "calling", "resuming"}
    /\ turn' = NoTurn
    /\ agent' = Doing("idle")
    /\ wire' = NoWire /\ acc' = Drained
    /\ UNCHANGED <<dialect, answer, thinking, requests>>

\* A cancel, a failure or a crash: what the turn has said is not logged.
CutOff == Upset("interrupt") /\ Broken /\ messages' = Answered

\* A panic: the watchdog ends the turn and knows nothing of its calls.
Panicked == Upset("panic") /\ Broken /\ UNCHANGED messages

\* A related session's message is in the history at once.  (While an answer
\* streams it would leave the same history as after it.)
Deliver ==
    /\ agent.status # "streaming" /\ messages # <<>>
    /\ Upset("deliver")
    /\ messages' = Append(messages, Msg("user", "related", 0, "none"))
    /\ UNCHANGED <<dialect, turn, wireVars, agent, requests>>

\* create_branch at an earlier event: the child has the history up to there.
Fork ==
    /\ AgentIdle /\ Upset("fork")
    /\ \E n \in DOMAIN messages : messages' = SubSeq(messages, 1, n)
    /\ UNCHANGED <<dialect, turn, wireVars, agent, requests>>

ModelInit ==
    /\ dialect \in Dialects
    /\ messages = <<>> /\ turn = NoTurn
    /\ answer = [calls |-> {}, thinks |-> FALSE]
    /\ wire = NoWire
    /\ acc = Drained
    /\ thinking = "none"
    /\ agent = [Collecting EXCEPT !.status = "idle"]
    /\ requests = 0 /\ upsets = 0

Frames == [call : WireCalls, id : BOOLEAN, name : BOOLEAN,
           args : {<<>>} \union {<<i>> : i \in 1..Fragments}]

ModelNext ==
    \/ \E d \in Dialects : Prompt(d)
    \/ \E n \in 0..2, thinks \in BOOLEAN : Request(1..n, thinks)
    \/ \E f \in Frames : CallFrame(f)
    \/ \E c \in WireCalls : ArgumentsDone(c) \/ CallStop(c)
    \/ Think \/ Say \/ FinishReason
    \/ \E how \in {"clean", "cut", "failed"} : End(how)
    \/ RecordAnswer \/ RequestCall \/ CallReturns
    \/ Pause \/ ResumeApproval \/ ResumedReturns \/ ResumeInput
    \/ CutOff \/ Panicked \/ Deliver \/ Fork

ModelSpec == ModelInit /\ [][ModelNext]_modelVars

----------------------------------------------------------------------------
(* Properties.                                                             *)

\* The type invariant.
ModelTypeOK ==
    /\ dialect \in Dialects
    /\ \A i \in DOMAIN messages :
         /\ messages[i].role \in {"user", "assistant", "tool"}
         /\ messages[i].part \in {"prompt", "related", "steer", "text", "reasoning",
                                  "call", "result"}
         /\ messages[i].by \in {"none", "anthropic", "chatgpt"}
    /\ agent.status \in {"idle", "ready", "streaming", "collected", "calls", "calling",
                        "paused", "resuming", "failed"}
    /\ turn.call # 0 <=> agent.status \in {"calling", "paused", "resuming"}
    /\ \A c \in WireCalls : wire.sent[c] \in 0..Fragments /\ Len(acc[c].args) <= Fragments
    /\ requests \in 0..MaxModelCalls

\* An answer that arrived in full is assembled in full: every call exactly
\* once, in order for the dialects that close calls one by one, with all of
\* its arguments and nothing else, whatever order the frames came in.
CallsWhole ==
    (agent.status = "collected" /\ wire.ended = "clean") =>
        /\ {agent.calls[i].call : i \in DOMAIN agent.calls} = answer.calls
        /\ Len(agent.calls) = Cardinality(answer.calls)
        /\ \A i \in DOMAIN agent.calls : agent.calls[i].arguments = Whole

\* At any moment, also when the stream is cut, the agent holds of a call no
\* more than the server sent of that call, in order, and never fails over
\* the order of deltas its own adapter emits.
OwnArguments ==
    /\ \A i \in DOMAIN agent.open : IsPrefix(agent.open[i].json, Whole)
         /\ Len(agent.open[i].json) <= wire.sent[agent.open[i].call]
    /\ \A i \in DOMAIN agent.calls : IsPrefix(agent.calls[i].arguments, Whole)
    /\ agent.status = "failed" => wire.ended # "no"

\* The message after a tool_use holds its tool_result.
ResultsFollow ==
    \A i \in DOMAIN AnthropicRequest :
        \A b \in Range(AnthropicRequest[i].content) : b.part = "call" =>
            /\ i < Len(AnthropicRequest)
            /\ \E c \in Range(AnthropicRequest[i + 1].content) :
                   c.part = "result" /\ c.call = b.call

\* A message of a related session came in between a call and what its turn
\* had said before the call, which is logged when the turn pauses.
Divided ==
    \E i, d, t \in DOMAIN turn.context :
        /\ i < d /\ d < t
        /\ turn.context[i].part = "call" /\ turn.context[d].part = "related"
        /\ turn.context[t].role = "assistant"
        /\ \A r \in i..t : turn.context[r].part # "result" \/ turn.context[r].call # turn.context[i].call

Asking == dialect = "anthropic" /\ agent.status = "ready"

\* What Anthropic requires of a request, of a history made over several
\* connections by turns that were paused, resumed, steered, cancelled or cut
\* off anywhere: roles alternate, from the user to the user, and the message
\* after a tool_use holds its tool_result, unless a delivered message has
\* divided them.
RequestWellFormed ==
    Asking =>
        /\ \A i \in DOMAIN AnthropicRequest :
               AnthropicRequest[i].role = IF i % 2 = 1 THEN "user" ELSE "assistant"
        /\ Len(AnthropicRequest) % 2 = 1
        /\ Divided \/ ResultsFollow

\* Not what the code does: a delivered message never divides a tool_use from
\* its tool_result, and no panic or fork leaves it without one (what is
\* dropped is kept together by build_message_units, what comes is not).
NeverDivided == Asking => ResultsFollow

\* Not what the code does: where every message stays a message of its own, as
\* with OpenAI, the result is the message after its call.
ResultsNext ==
    (dialect = "openai" /\ agent.status = "ready") =>
        \A i \in DOMAIN Blocks : Blocks[i].part = "call" =>
            i < Len(Blocks) /\ Blocks[i + 1].part = "result" /\ Blocks[i + 1].call = Blocks[i].call

\* Reasoning that one provider signed is never sent to another.
ReplayedToSigner ==
    \A i \in DOMAIN Blocks : Blocks[i].part = "reasoning" => Blocks[i].by = dialect

\* Not what the code does: an answer that was cut short, or that the server
\* reported as failed, does not pass for an answer.
BrokenNoticed ==
    agent.status = "collected" => wire.ended = "clean"

(* The agent runs the calls the model made: each of them, once, with all of  *)
(* its own arguments, however the dialect interleaves its frames             *)
(* (reconcile_function_call_arguments and the adapters' accumulators).       *)
CallsExact == ModelTypeOK /\ CallsWhole /\ OwnArguments

(* A request made from a history that other providers, pauses, steers,      *)
(* cancelled and interrupted turns have left has alternating roles and every *)
(* call's result behind it, unless a delivered message came between, and     *)
(* signed reasoning goes back to its signer only (messages_to_anthropic and  *)
(* its counterparts, record_turn_result, interrupted_tool_results).          *)
RequestsAccepted == RequestWellFormed /\ ReplayedToSigner
=============================================================================
