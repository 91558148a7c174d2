---------------------------- MODULE TranscriptView ----------------------------
(***************************************************************************)
(* The live turn of the terminal client: how streamed text, tool cells and *)
(* the canonical messages that follow them become the append-only history  *)
(* (bt-tui stream_state.rs, app_state.rs, transcript_view.rs). The events  *)
(* are those of a turn in the order the runtime commits them (bt-agent     *)
(* lib.rs, bt-runtime turn_orchestrator.rs): tool transitions as they      *)
(* happen, assistant messages when the turn's result is recorded.          *)
(*                                                                         *)
(* A text is a sequence of lines and a line is a number that no other line *)
(* has. Each operator on a view v stands for the method it is named after. *)
(***************************************************************************)
EXTENDS Naturals, Sequences, FiniteSets, SequencesExt

CONSTANTS
    Calls,              \* tool calls
    Exploration,        \* those of list, read and search
    Troubles,           \* among command, pause, cancel, reload
    MaxTroubles,        \* how many of them
    MaxLines, MaxCompletions

ASSUME ViewAssumption ==
    /\ Exploration \subseteq Calls /\ IsFiniteSet(Calls)
    /\ Troubles \subseteq {"command", "pause", "cancel", "reload"}
    /\ {MaxLines, MaxCompletions, MaxTroubles} \subseteq Nat

VARIABLES
    events,      \* the session's events
    turn,        \* the turn that commits them
    view         \* ChatApp: the live turn and the history

tvars == <<events, turn, view>>

NoCall == "none"
NoStream == [on |-> FALSE, raw |-> <<>>, out |-> 0]

-----------------------------------------------------------------------------
(* History entries: a line of text (from the stream until the stream is     *)
(* consolidated), a tool cell, a tool message, a user message, a command.   *)

Entry(what, id, stream) == [what |-> what, id |-> id, stream |-> stream]
Lines(text, stream) == [i \in DOMAIN text |-> Entry("line", text[i], stream)]
Put(v, entries) == [v EXCEPT !.history = @ \o entries]

(* assistant_stream_tail_len *)
StreamTail(h) ==
    Len(h) - LET other == {i \in DOMAIN h : ~h[i].stream} IN
             IF other = {} THEN 0 ELSE CHOOSE i \in other : \A j \in other : j <= i

(* consolidate_assistant_stream_history: the cells of the stream at the end *)
(* become one cell with the stream's whole text.                            *)
Consolidate(v, raw) ==
    LET n == StreamTail(v.history) IN
    IF n = 0 THEN v
    ELSE [v EXCEPT !.history = SubSeq(@, 1, Len(@) - n) \o Lines(raw, FALSE)]

FlushAnswerStream(v) ==
    LET s == v.stream
        rest == SubSeq(s.raw, s.out + 1, Len(s.raw))
        flushed == [v EXCEPT !.stream = NoStream, !.said = @ \o s.raw]
    IN IF s.on THEN Consolidate(Put(flushed, Lines(rest, TRUE)), s.raw) ELSE v

(* push_streaming_assistant_text_now *)
PushText(v, text) ==
    IF text = <<>> THEN v
    ELSE [v EXCEPT !.stream = [@ EXCEPT !.on = TRUE, !.raw = @ \o text]]

-----------------------------------------------------------------------------
(* Tool cells. *)

Cell(explore, c, done) ==
    [explore |-> explore, calls |-> <<c>>, done |-> IF done THEN {c} ELSE {}]
Complete(cell) == cell.done = ToSet(cell.calls)
ReadyToFlush(cell) == ~cell.explore /\ Complete(cell)
CellOf(v, explore, c) ==
    {i \in DOMAIN v.cells : v.cells[i].explore = explore /\ c \in ToSet(v.cells[i].calls)}

(* flush_active_cell, for the first n cells *)
FlushActiveCells(v, n) ==
    LET ids == FlattenSeq([i \in 1..n |-> v.cells[i].calls]) IN
    [Put(v, [i \in DOMAIN ids |-> Entry("cell", ids[i], FALSE)])
        EXCEPT !.cells = SubSeq(@, n + 1, Len(@)), !.printed = @ \cup ToSet(ids)]

(* The cells at the front that satisfy P. *)
Frontier(v, P(_)) ==
    LET stop == {i \in DOMAIN v.cells : ~P(v.cells[i])} IN
    IF stop = {} THEN Len(v.cells) ELSE (CHOOSE i \in stop : \A j \in stop : i <= j) - 1

FlushReady(v) == FlushActiveCells(v, Frontier(v, ReadyToFlush))
FlushComplete(v) == FlushActiveCells(v, Frontier(v, Complete))
FlushCompleteForDeferred(v) ==
    IF v.deferred = <<>> /\ v.canonical = <<>> THEN v ELSE FlushComplete(v)

FlushDeferred(v) ==
    IF v.cells = <<>> THEN PushText([v EXCEPT !.deferred = <<>>], v.deferred) ELSE v

(* drain_tool_frontier_and_resume_assistant_stream *)
Drain(v) == FlushDeferred(FlushCompleteForDeferred(FlushReady(v)))

StartToolCell(v, c) ==
    LET explore == c \in Exploration
        w == FlushAnswerStream(v)
    IN IF CellOf(v, explore, c) # {} THEN v
       ELSE IF explore /\ w.cells # <<>> /\ Last(w.cells).explore
       THEN [w EXCEPT !.cells[Len(w.cells)].calls = Append(@, c)]
       ELSE [w EXCEPT !.cells = Append(@, Cell(explore, c, FALSE))]

-----------------------------------------------------------------------------
(* Canonical assistant text. *)

QueueSuffix(v, text) == Put([v EXCEPT !.said = @ \o text], Lines(text, FALSE))

(* reconcile_canonical_assistant_text *)
ReconcileText(v, text) ==
    LET prefix == v.said \o v.stream.raw IN
    IF text = <<>> THEN v
    ELSE IF v.cells # <<>>
    THEN Drain([v EXCEPT !.canonical = IF Len(@) >= Len(text) THEN @ ELSE text])
    ELSE IF text = prefix THEN v
    ELSE IF IsPrefix(prefix, text)
    THEN QueueSuffix(v, SubSeq(text, Len(prefix) + 1, Len(text)))
    ELSE QueueSuffix(v, text)

FlushCanonical(v) == ReconcileText([v EXCEPT !.canonical = <<>>], v.canonical)

CompleteToolCell(v, c) ==
    LET tool == CellOf(v, FALSE, c)
        group == CellOf(v, TRUE, c)
        i == CHOOSE i \in (IF tool # {} THEN tool ELSE group) : TRUE
        found == tool # {} \/ (c \in Exploration /\ group # {})
        w == IF found THEN [v EXCEPT !.cells[i].done = @ \cup {c}]
             ELSE [v EXCEPT !.cells = Append(@, Cell(FALSE, c, TRUE))]
    IN IF c \in v.done THEN v
       ELSE FlushCanonical(Drain([w EXCEPT !.done = @ \cup {c}]))

Known(v, c) == c \in v.printed \/ c \in v.done
ReconcileCall(v, c) == IF Known(v, c) THEN v ELSE StartToolCell(v, c)
ReconcileResult(v, c) == IF Known(v, c) THEN v ELSE CompleteToolCell(v, c)

(* Mutant of TurnTail: what waits behind the tools is not put out. *)
TurnTailBare(v) == FlushComplete(FlushAnswerStream(v))

(* flush_turn_tail_for_completion *)
TurnTail(v) ==
    LET w == FlushComplete(FlushAnswerStream(FlushDeferred(Drain(v)))) IN
    FlushAnswerStream(FlushDeferred(FlushCanonical(w)))

(* flush_provider_completion_tail *)
CompletionTail(v) ==
    LET w == FlushAnswerStream(FlushDeferred(Drain(v))) IN
    IF w.cells = <<>> THEN FlushAnswerStream(FlushDeferred(FlushCanonical(w))) ELSE w

MarkLiveTurnStart(v) ==
    IF v.boundary THEN v
    ELSE [v EXCEPT !.boundary = TRUE, !.said = <<>>, !.deferred = <<>>,
                   !.canonical = <<>>, !.done = {}]

ClearLiveTurnItems(v) ==
    [v EXCEPT !.cells = <<>>, !.stream = NoStream, !.deferred = <<>>]

-----------------------------------------------------------------------------
(* apply_stream_event *)

StreamText(v, text) ==
    LET w == Drain(v) IN
    IF w.cells = <<>> THEN PushText(w, text)
    ELSE Drain([w EXCEPT !.deferred = @ \o text])

(* MessageAppended, of a message that no page has brought. *)
AppendMessage(v, e, i) ==
    LET w == CASE e.t = "user"   -> Put(v, <<Entry("user", i, FALSE)>>)
               [] e.t = "call"   -> ReconcileCall(v, e.call)
               [] e.t = "result" -> ReconcileResult(v, e.call)
               [] e.t = "text"   -> ReconcileText(v, e.text)
    IN [w EXCEPT !.messages = @ \cup {i}, !.shown = @ \cup {i}]

MessageTypes == {"user", "call", "result", "text"}

MessageAppended(v, e, i) ==
    LET w == IF e.t = "text" THEN v ELSE MarkLiveTurnStart(v) IN
    IF i \in v.messages THEN w ELSE AppendMessage(w, e, i)

CompletionRequested(v) == [MarkLiveTurnStart(v) EXCEPT !.stream.on = TRUE]

TurnFinished(v) == ClearLiveTurnItems([TurnTail(v) EXCEPT !.boundary = FALSE])

ToolCallRequested(v, c) == StartToolCell(MarkLiveTurnStart(v), c)

OperatorCommandRecorded(v, i) ==
    [Put(v, <<Entry("command", i, FALSE)>>)
        EXCEPT !.commands = @ \cup {i}, !.shown = @ \cup {i}]

(* clear_local_pending_turn_after_cancel *)
SessionCancelled(v) ==
    [ClearLiveTurnItems(v) EXCEPT !.boundary = FALSE, !.said = <<>>,
                                  !.canonical = <<>>, !.done = {}]

Apply(v, e, i) ==
    CASE e.t \in MessageTypes -> MessageAppended(v, e, i)
      [] e.t = "asked" -> CompletionRequested(v)
      [] e.t = "chunk" -> StreamText(v, e.text)
      [] e.t = "open" -> StartToolCell(v, e.call)
      [] e.t = "answered" -> CompletionTail(v)
      [] e.t = "requested" -> ToolCallRequested(v, e.call)
      [] e.t = "executed" -> CompleteToolCell(v, e.call)
      [] e.t = "finished" -> TurnFinished(v)
      [] e.t = "command" -> OperatorCommandRecorded(v, i)
      [] e.t = "cancel" -> SessionCancelled(v)

-----------------------------------------------------------------------------
(* merge_latest_transcript_page *)

LatestLoaded(v) ==
    LET S == v.messages \cup v.commands IN
    IF S = {} THEN 0 ELSE CHOOSE i \in S : \A j \in S : j <= i

(* reconcile_loaded_tool_messages_with_live_cells, for one message *)
ReconcileLoaded(v, i) ==
    LET e == events[i]
        live == Known(v, e.call) \/ \E x \in BOOLEAN : CellOf(v, x, e.call) # {}
    IN IF e.t \notin {"call", "result"} \/ ~live THEN v
       ELSE [(IF e.t = "call" THEN ReconcileCall(v, e.call) ELSE ReconcileResult(v, e.call))
                EXCEPT !.shown = @ \cup {i}]

(* queue_unprinted_scrollback_entries, for one entry *)
QueueLoaded(v, i) ==
    LET e == events[i]
        w == [v EXCEPT !.shown = @ \cup {i}]
    IN IF i \in v.shown \/ (e.t \in {"call", "result"} /\ e.call \in v.printed) THEN w
       ELSE Put(w, CASE e.t = "text" -> Lines(e.text, FALSE)
                     [] e.t \in {"user", "command"} -> <<Entry(e.t, i, FALSE)>>
                     [] OTHER -> <<Entry(e.t, e.call, FALSE)>>)

(* A page with every message and command, and the cursor that comes with it *)
MergeLatestPage(v) ==
    LET before == LatestLoaded(v)
        page == {i \in DOMAIN events : events[i].t \in MessageTypes \cup {"command"}}
        new == SetToSortSeq({i \in page : i > before}, <)
        base == IF before # 0 THEN v
                ELSE [v EXCEPT !.history = <<>>, !.shown = {}, !.printed = {}]
        merged == [base EXCEPT
                     !.messages = @ \cup {i \in page : events[i].t # "command"},
                     !.commands = @ \cup {i \in page : events[i].t = "command"},
                     !.cursor = Len(events)]
        tools == FoldLeft(ReconcileLoaded, merged, new)
        texts == \E i \in ToSet(new) : events[i].t = "text"
    IN FoldLeft(QueueLoaded, IF texts THEN FlushComplete(tools) ELSE tools, new)

-----------------------------------------------------------------------------
(* The turn. *)

E(t, call, text) == [t |-> t, call |-> call, text |-> text]
Log(es) == events' = events \o es

ViewInit ==
    /\ events = <<>>
    /\ turn = [phase |-> "idle", opened |-> <<>>, part |-> <<>>, texts |-> <<>>,
               line |-> 0, completions |-> 0, waiting |-> {}, troubles |-> <<>>]
    /\ view = [cursor |-> 0, messages |-> {}, commands |-> {}, shown |-> {},
               printed |-> {}, done |-> {}, boundary |-> FALSE, cells |-> <<>>,
               stream |-> NoStream, deferred |-> <<>>, canonical |-> <<>>,
               said |-> <<>>, history |-> <<>>]

Met(what) == what \in ToSet(turn.troubles)
MayMeet(what) == what \in Troubles /\ Len(turn.troubles) < MaxTroubles

Used == {events[i].call : i \in DOMAIN events}

StartTurn ==
    /\ turn.phase = "idle" /\ events = <<>>
    /\ turn' = [turn EXCEPT !.phase = "ask"]
    /\ Log(<<E("user", NoCall, <<>>)>>)

(* An approved call is executed in a turn of its own. *)
ResumeTurn ==
    /\ turn.phase = "idle" /\ turn.waiting # {}
    /\ \E c \in turn.waiting : Log(<<E("executed", c, <<>>), E("result", c, <<>>)>>)
    /\ turn' = [turn EXCEPT !.waiting = {}, !.phase = "ask"]

Ask ==
    /\ turn.phase = "ask" /\ turn.completions < MaxCompletions
    /\ turn' = [turn EXCEPT !.phase = "stream", !.completions = @ + 1]
    /\ Log(<<E("asked", NoCall, <<>>)>>)

Chunk ==
    /\ turn.phase = "stream" /\ turn.line < MaxLines
    /\ turn' = [turn EXCEPT !.line = @ + 1, !.part = Append(@, turn.line + 1)]
    /\ Log(<<E("chunk", NoCall, <<turn.line + 1>>)>>)

OpenCall(c) ==
    /\ turn.phase = "stream" /\ c \notin Used
    /\ turn' = [turn EXCEPT !.opened = Append(@, c)]
    /\ Log(<<E("open", c, <<>>)>>)

Answered ==
    /\ turn.phase = "stream"
    /\ turn' = [turn EXCEPT !.phase = IF turn.opened = <<>> THEN "record" ELSE "tools",
                            !.texts = IF turn.part = <<>> THEN @ ELSE Append(@, turn.part),
                            !.part = <<>>]
    /\ Log(<<E("answered", NoCall, <<>>)>>)

(* record_tool_request_transition *)
RequestTool ==
    /\ turn.phase = "tools" /\ turn.opened # <<>>
    /\ turn' = [turn EXCEPT !.phase = "execute"]
    /\ Log(<<E("requested", Head(turn.opened), <<>>), E("call", Head(turn.opened), <<>>)>>)

(* record_tool_terminal_transition *)
ExecuteTool ==
    /\ turn.phase = "execute"
    /\ turn' = [turn EXCEPT !.opened = Tail(@),
                            !.phase = IF Met("cancel") THEN "finish"
                                      ELSE IF Len(turn.opened) > 1 THEN "tools" ELSE "ask"]
    /\ Log(<<E("executed", Head(turn.opened), <<>>), E("result", Head(turn.opened), <<>>)>>)

(* The call waits for an approval: the turn's result is recorded without it. *)
PauseTool ==
    /\ turn.phase = "execute" /\ MayMeet("pause") /\ ~Met("cancel")
    /\ turn' = [turn EXCEPT !.opened = <<>>, !.waiting = {Head(turn.opened)},
                            !.phase = "record", !.troubles = Append(@, "pause")]
    /\ UNCHANGED events

(* record_turn_result: the assistant messages of all completions, unless    *)
(* the turn was cancelled; then the end of the turn.                        *)
RecordResult ==
    /\ turn.phase = "record"
    /\ turn' = [turn EXCEPT !.phase = "finish", !.texts = <<>>]
    /\ IF Met("cancel") THEN UNCHANGED events
       ELSE Log([i \in DOMAIN turn.texts |-> E("text", NoCall, turn.texts[i])])

FinishTurn ==
    /\ turn.phase = "finish"
    /\ turn' = [turn EXCEPT !.phase = "idle"]
    /\ Log(<<E("finished", NoCall, <<>>)>>)

(* A cancel request; the turn notices it when its answer is complete or its *)
(* tool returns.                                                            *)
CancelTurn ==
    /\ turn.phase # "idle" /\ MayMeet("cancel")
    /\ turn' = [turn EXCEPT !.troubles = Append(@, "cancel")]
    /\ Log(<<E("cancel", NoCall, <<>>)>>)

NoticeCancel ==
    /\ Met("cancel") /\ turn.phase \in {"ask", "tools"}
    /\ turn' = [turn EXCEPT !.phase = "finish", !.opened = <<>>, !.texts = <<>>]
    /\ UNCHANGED events

RecordCommand ==
    /\ turn.phase # "idle" /\ MayMeet("command")
    /\ turn' = [turn EXCEPT !.troubles = Append(@, "command")]
    /\ Log(<<E("command", NoCall, <<>>)>>)

AgentStep ==
    /\ \/ StartTurn \/ ResumeTurn \/ Ask \/ Chunk \/ Answered \/ RequestTool
       \/ ExecuteTool \/ PauseTool \/ RecordResult \/ FinishTurn \/ CancelTurn
       \/ NoticeCancel \/ RecordCommand
       \/ \E c \in Calls : OpenCall(c)
    /\ UNCHANGED view

(* The stream delivers the events in order (EventStream). *)
ApplyEvent ==
    /\ view.cursor < Len(events)
    /\ LET i == view.cursor + 1 IN view' = Apply([view EXCEPT !.cursor = i], events[i], i)
    /\ UNCHANGED <<events, turn>>

(* run_stream_commit_tick *)
CommitTick ==
    /\ view.cells = <<>> /\ view.stream.out < Len(view.stream.raw)
    /\ view' = [Put(view, Lines(<<view.stream.raw[view.stream.out + 1]>>, TRUE))
                   EXCEPT !.stream.out = @ + 1]
    /\ UNCHANGED <<events, turn>>

Reload ==
    /\ MayMeet("reload")
    /\ turn' = [turn EXCEPT !.troubles = Append(@, "reload")]
    /\ view' = MergeLatestPage(view)
    /\ UNCHANGED events

ViewNext == AgentStep \/ ApplyEvent \/ CommitTick \/ Reload

ViewSpec == ViewInit /\ [][ViewNext]_tvars

-----------------------------------------------------------------------------
(* Properties. *)

Printed(what, id) ==
    Cardinality({i \in DOMAIN view.history :
                    view.history[i].what \in what /\ view.history[i].id = id})
CaughtUp == turn.phase = "idle" /\ view.cursor = Len(events)

ViewTypeOK ==
    /\ view.cursor \in 0..Len(events)
    /\ view.stream.out <= Len(view.stream.raw)
    /\ \A i \in DOMAIN view.cells : view.cells[i].done \subseteq ToSet(view.cells[i].calls)
    /\ view.messages \cup view.commands \subseteq DOMAIN events

(* The result of a tool call gets into the history at most once, whether it *)
(* comes as a live cell, as a canonical message or in a reloaded page.      *)
ResultOnce == \A c \in Calls : Printed({"cell", "result"}, c) <= 1

(* When a turn is over and its events are applied, what it said and did is  *)
(* on the screen: every line of a recorded assistant message is in the      *)
(* history and every call with a result is there or in a live cell, though  *)
(* clear_live_turn_items drops what is left. A cancelled turn is out of it  *)
(* (its live cells are cleared), and so is the text of a turn that a paused *)
(* call ended: text streamed behind the open call is dropped with it.       *)
NothingDropped ==
    CaughtUp /\ ~Met("cancel") =>
        /\ ~Met("pause") => \A i \in DOMAIN events : events[i].t = "text" =>
               \A n \in DOMAIN events[i].text : Printed({"line"}, events[i].text[n]) > 0
        /\ \A i \in DOMAIN events : events[i].t = "result" =>
               \/ Printed({"cell", "result"}, events[i].call) > 0
               \/ \E x \in BOOLEAN : CellOf(view, x, events[i].call) # {}

(* A line of assistant text gets into the history once: a canonical message *)
(* does not reprint text that was already streamed.                         *)
TextOnce == \A n \in 1..MaxLines : Printed({"line"}, n) <= 1

(* Each tool result gets into the history once, and at the end of a turn no  *)
(* text and no result is missing, in every order in which text, cells and    *)
(* the end of the turn reach the view.                                       *)
ShownOnceAndWhole == ViewTypeOK /\ ResultOnce /\ NothingDropped
=============================================================================
