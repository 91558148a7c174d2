----------------------------- MODULE ReadModels -----------------------------
(***************************************************************************)
(* The read models of one session.  The event log is canonical; from it    *)
(* are derived, by five separate pieces of code,                           *)
(*   - the rows kept beside the log: tool_run_projection,                  *)
(*     approval_projection, active_turn_projection and turn_projection,    *)
(*     refreshed in the transaction of every append and rebuilt from the   *)
(*     log when a database of an older version is opened;                  *)
(*   - the execution trace that build_trace_turns folds on demand;         *)
(*   - the OTLP spans that derive_otlp_turns folds on demand;              *)
(*   - the inspection of one tool call, which joins rows and events read   *)
(*     under two acquisitions of the store lock.                           *)
(* The module generates the logs a session can have (turns on two          *)
(* branches, completions, tool calls whose ids a provider may reuse,       *)
(* approvals that pause a turn and resume in another one, cancels,         *)
(* failures, crashes and recovery, an operator's shell commands between    *)
(* all of these) and upgrades the database in the middle of them.          *)
(* A sequence number is the position of an event in the log.               *)
(***************************************************************************)
EXTENDS Naturals, FiniteSets, Sequences, SequencesExt

CONSTANTS
    LogBranches,    \* the branches of the session
    Calls,       \* the call ids a provider gives; one may be used again
    OperatorCalls,  \* the ids the server gives an operator's commands
    Args,        \* the arguments a call may have
    NoCall,      \* no call
    NoArgs,      \* no arguments
    MaxTurns,    \* bound on the turns started
    MaxOrdinal,  \* bound on the completions of one turn
    MaxRequests, \* bound on the tool calls requested in all
    MaxEvents,   \* bound on the log before the process may only end its turn
    MaxDeaths,   \* bound on crashes
    MaxLooks     \* bound on inspections of a tool call

ASSUME ReadAssumption ==
    /\ NoCall \notin Calls \cup OperatorCalls /\ NoArgs \notin Args
    /\ Calls \cap OperatorCalls = {}
    /\ {MaxTurns, MaxOrdinal, MaxRequests, MaxEvents, MaxDeaths, MaxLooks} \subseteq Nat

VARIABLES
    log,    \* events, in the order of their seq_id
    rows,   \* the projections: [tool, approval, active, turn]
    schema, \* what has been migrated: {"identity", "active", "turns"}
    proc,   \* "legacy", "down", "opening", "recovering" or "serving"
    run,    \* the turn the worker runs: [turn, mode, ord, open]
    look,   \* an inspection of a tool call in progress
    used    \* what the bounds count

readVars == <<log, rows, schema, proc, run, look, used>>

Turns == 1..MaxTurns
CallIds == Calls \cup OperatorCalls
Migrations == {"identity", "active", "turns"}
Unset == "none"

-----------------------------------------------------------------------------
(* Events.                                                                 *)

LogEvent(kind, t, b) ==
    [kind |-> kind, turn |-> t, branch |-> b, call |-> NoCall, args |-> NoArgs,
     ord |-> 0, status |-> Unset]

ToolEvent(kind, t, b, c, a, s) ==
    [LogEvent(kind, t, b) EXCEPT !.call = c, !.args = a, !.status = s]

CompletionEvent(kind, t, b, o) == [LogEvent(kind, t, b) EXCEPT !.ord = o]

OutcomeEvent(kind, t, b, s) == [LogEvent(kind, t, b) EXCEPT !.status = s]

Positions(kind, c) == {i \in 1..Len(log) : log[i].kind = kind /\ log[i].call = c}

-----------------------------------------------------------------------------
(* turn_projection: one summary row per turn.                              *)

NewTurnProjection(e, seq) ==
    [branch |-> e.branch, status |-> Unset, reason |-> Unset, first |-> seq,
     last |-> seq, events |-> 0, pending |-> 0, chunks |-> 0, tools |-> <<>>]

EnsureToolCall(tools, c) ==
    IF \E i \in DOMAIN tools : tools[i].call = c THEN tools
    ELSE Append(tools, [call |-> c, approval |-> Unset, execution |-> Unset])

WithTool(tools, c, field, value) ==
    LET all == EnsureToolCall(tools, c)
    IN [i \in DOMAIN all |->
          IF all[i].call = c THEN [all[i] EXCEPT ![field] = value] ELSE all[i]]

\* The counter of pending approvals that only the stored row keeps.
PendingAfter(n, e) ==
    CASE e.kind = "ask"                -> n + 1
      [] e.kind = "resolved" /\ n > 0  -> n - 1
      [] OTHER                         -> n

ToolsAfter(tools, e) ==
    CASE e.kind = "call"     -> WithTool(WithTool(tools, e.call, "approval", Unset),
                                         e.call, "execution", Unset)
      [] e.kind = "ask"      -> WithTool(tools, e.call, "approval", "pending")
      [] e.kind = "resolved" -> WithTool(tools, e.call, "approval", e.status)
      [] e.kind = "result"   -> WithTool(tools, e.call, "execution", e.status)
      [] OTHER               -> tools

\* A plausible slip: the row remembers the first outcome it was told.
ApplyTurnEventSticky(row, e, seq) ==
    [row EXCEPT
        !.events = @ + 1, !.last = seq,
        !.first  = IF e.kind = "started" THEN seq ELSE @,
        !.status = IF e.kind = "finished" THEN e.status ELSE @,
        !.reason = IF e.kind \in {"error", "finished"} /\ @ = Unset THEN e.status ELSE @,
        !.chunks = IF e.kind = "raw" THEN @ + 1 ELSE @,
        !.pending = PendingAfter(@, e),
        !.tools  = ToolsAfter(@, e)]

ApplyTurnEvent(row, e, seq) ==
    [row EXCEPT
        !.events = @ + 1, !.last = seq,
        !.first  = IF e.kind = "started" THEN seq ELSE @,
        !.status = IF e.kind = "finished" THEN e.status ELSE @,
        !.reason = CASE e.kind = "finished"              -> e.status
                     [] e.kind = "error" /\ @ = Unset    -> e.status
                     [] OTHER                            -> @,
        !.chunks = IF e.kind = "raw" THEN @ + 1 ELSE @,
        !.pending = PendingAfter(@, e),
        !.tools  = ToolsAfter(@, e)]

\* Events of no turn do not touch the projection.
FoldTurnRow(turns, e, seq) ==
    IF e.turn = 0 THEN turns
    ELSE LET row == IF e.turn \in DOMAIN turns THEN turns[e.turn]
                    ELSE NewTurnProjection(e, seq)
         IN [t \in DOMAIN turns \cup {e.turn} |->
               IF t = e.turn THEN ApplyTurnEvent(row, e, seq) ELSE turns[t]]

-----------------------------------------------------------------------------
(* The other projections.                                                  *)

NoToolRow == [status |-> Unset, turn |-> 0, branch |-> Unset, seq |-> 0, args |-> NoArgs]
NoApprovalRow == [status |-> Unset, turn |-> 0, branch |-> Unset, seq |-> 0]
NoRows == [tool     |-> [c \in CallIds |-> NoToolRow],
           approval |-> [c \in CallIds |-> NoApprovalRow],
           active   |-> 0,
           turn     |-> <<>>]

ToolRowAfter(row, e, seq) ==
    CASE e.kind = "call"   -> [status |-> "requested", turn |-> e.turn, branch |-> e.branch,
                               seq |-> seq, args |-> e.args]
      [] e.kind = "result" -> [row EXCEPT !.status = "completed"]
      [] OTHER             -> row

\* The resolution keeps the identity of the request; a new request of the same
\* call id deletes the row.
ApprovalRowAfter(row, e, seq) ==
    CASE e.kind = "ask"      -> [status |-> "pending", turn |-> e.turn, branch |-> e.branch, seq |-> seq]
      [] e.kind = "resolved" -> [row EXCEPT !.status = e.status]
      [] e.kind = "call"     -> NoApprovalRow
      [] OTHER               -> row

ActiveAfter(active, e) ==
    CASE e.kind = "started"                        -> e.turn
      [] e.kind = "finished" /\ active = e.turn    -> 0
      [] OTHER                                     -> active

ToolRowsAfter(tools, e, seq) ==
    IF e.call = NoCall THEN tools ELSE [tools EXCEPT ![e.call] = ToolRowAfter(@, e, seq)]

ApprovalRowsAfter(approvals, e, seq) ==
    IF e.call = NoCall THEN approvals
    ELSE [approvals EXCEPT ![e.call] = ApprovalRowAfter(@, e, seq)]

\* The refresh of one appended event, in the append's transaction.
RefreshProjections(r, e, seq) ==
    [tool     |-> ToolRowsAfter(r.tool, e, seq),
     approval |-> ApprovalRowsAfter(r.approval, e, seq),
     active   |-> ActiveAfter(r.active, e),
     turn     |-> FoldTurnRow(r.turn, e, seq)]

\* An older version kept the rows of calls and approvals only.
LegacyRefresh(r, e, seq) ==
    [r EXCEPT !.tool = ToolRowsAfter(@, e, seq), !.approval = ApprovalRowsAfter(@, e, seq)]

AppendTo(state, e) ==
    LET seq == Len(state.log) + 1
    IN [log  |-> Append(state.log, e),
        rows |-> IF proc = "legacy" THEN LegacyRefresh(state.rows, e, seq)
                 ELSE RefreshProjections(state.rows, e, seq)]

\* One transaction: the events, and the projections of each.
CommitEvents(events) ==
    LET after == FoldLeft(AppendTo, [log |-> log, rows |-> rows], events)
    IN /\ log' = after.log
       /\ rows' = after.rows

-----------------------------------------------------------------------------
(* Opening a database: marker-gated rebuilds, each in its own transaction. *)

\* Folds an operator f(acc, event, seq) over the log.
OverLog(f(_, _, _), init) ==
    FoldLeft(LAMBDA acc, i : f(acc, log[i], i), init, [i \in 1..Len(log) |-> i])

RebuildActiveRow(active, e, seq) == ActiveAfter(active, e)

\* The rebuild has its own translation of the two projections: a request does
\* not delete the approval row.
RebuildApprovalRows(approvals, e, seq) ==
    IF e.kind = "call" THEN approvals ELSE ApprovalRowsAfter(approvals, e, seq)

PendingMigration ==
    CASE "identity" \notin schema -> "identity"
      [] "active" \notin schema   -> "active"
      [] "turns" \notin schema    -> "turns"
      [] OTHER                    -> "done"

CutOverToolAndApproval ==
    /\ proc = "opening" /\ PendingMigration = "identity"
    /\ rows' = [rows EXCEPT !.tool = OverLog(ToolRowsAfter, NoRows.tool),
                            !.approval = OverLog(RebuildApprovalRows, NoRows.approval)]
    /\ schema' = schema \cup {"identity"}
    /\ UNCHANGED <<log, proc, run, look, used>>

RebuildActiveTurn ==
    /\ proc = "opening" /\ PendingMigration = "active"
    /\ rows' = [rows EXCEPT !.active = OverLog(RebuildActiveRow, 0)]
    /\ schema' = schema \cup {"active"}
    /\ UNCHANGED <<log, proc, run, look, used>>

RebuildTurnProjection ==
    /\ proc = "opening" /\ PendingMigration = "turns"
    /\ rows' = [rows EXCEPT !.turn = OverLog(FoldTurnRow, <<>>)]
    /\ schema' = schema \cup {"turns"}
    /\ UNCHANGED <<log, proc, run, look, used>>

Opened ==
    /\ proc = "opening" /\ PendingMigration = "done"
    /\ proc' = "recovering"
    /\ UNCHANGED <<log, rows, schema, run, look, used>>

-----------------------------------------------------------------------------
(* Recovery: the interrupted turn is given its missing results and ends,   *)
(* then every operator's command that has none gets one.                   *)

BranchOf(t) == rows.turn[t].branch

\* Calls of turn t, requested in it or resumed by it, with no result since.
Interrupted(t) ==
    {c \in Calls :
        \E i \in Positions("call", c) \cup Positions("resolved", c) :
            log[i].turn = t /\ \A j \in Positions("result", c) : j < i}

RecoverTurn ==
    LET t == rows.active
        owed == SetToSeq(Interrupted(t))
    IN CommitEvents([i \in DOMAIN owed |-> ToolEvent("result", t, BranchOf(t), owed[i], NoArgs, "error")]
              \o <<OutcomeEvent("error", t, BranchOf(t), "interrupted"),
                   OutcomeEvent("finished", t, BranchOf(t), "failed")>>)

\* load_unfinished_unbound_tool_operations.
Unfinished == {c \in OperatorCalls : Positions("call", c) # {} /\ Positions("result", c) = {}}

RecoverOperatorTool(c) ==
    LET b == log[Max(Positions("call", c))].branch
    IN CommitEvents(<<ToolEvent("result", 0, b, c, NoArgs, "error"),
                      OutcomeEvent("error", 0, b, "interrupted")>>)

Recover ==
    /\ proc = "recovering"
    /\ \/ rows.active # 0 /\ RecoverTurn /\ UNCHANGED proc
       \/ /\ rows.active = 0
          /\ \E c \in Unfinished : RecoverOperatorTool(c)
          /\ UNCHANGED proc
       \/ /\ rows.active = 0 /\ Unfinished = {}
          /\ proc' = "serving"
          /\ UNCHANGED <<log, rows>>
    /\ UNCHANGED <<schema, run, look, used>>

-----------------------------------------------------------------------------
(* Turns.                                                                  *)

Idle == [turn |-> 0, mode |-> "idle", ord |-> 0, open |-> NoCall]
Running == proc \in {"legacy", "serving"}
Room == Len(log) < MaxEvents
PendingOn(b) == \E c \in Calls : rows.approval[c].status = "pending" /\ rows.approval[c].branch = b
RunBranch == LET i == CHOOSE i \in 1..Len(log) : log[i].kind = "started" /\ log[i].turn = run.turn
             IN log[i].branch

Step(events, r) ==
    /\ Running
    /\ CommitEvents(events)
    /\ run' = r
    /\ UNCHANGED <<schema, proc, look>>

StartTurn(b) ==
    /\ run.mode = "idle" /\ Room /\ ~PendingOn(b) /\ used.turns < MaxTurns
    /\ Step(<<LogEvent("started", used.turns + 1, b)>>,
            [Idle EXCEPT !.turn = used.turns + 1, !.mode = "ready"])
    /\ used' = [used EXCEPT !.turns = @ + 1]

RecordCompletionRequested ==
    /\ run.mode \in {"ready", "answered"} /\ Room /\ run.ord < MaxOrdinal
    /\ Step(<<CompletionEvent("requested", run.turn, RunBranch, run.ord + 1)>>,
            [run EXCEPT !.mode = "calling", !.ord = @ + 1])
    /\ UNCHANGED used

\* The raw chunk and its event commit together.
RecordLiveCompletionChunk ==
    /\ run.mode = "calling" /\ Room
    /\ \A i \in 1..Len(log) : log[i].kind = "chunk" => <<log[i].turn, log[i].ord>> # <<run.turn, run.ord>>
    /\ Step(<<CompletionEvent("raw", run.turn, RunBranch, run.ord),
              CompletionEvent("chunk", run.turn, RunBranch, run.ord)>>, run)
    /\ UNCHANGED used

\* A cancel ends the completion too.
RecordCompletionFinished(reason) ==
    /\ run.mode = "calling"
    /\ Step(<<[CompletionEvent("completed", run.turn, RunBranch, run.ord) EXCEPT !.status = reason]>>,
            [run EXCEPT !.mode = IF reason = "Cancelled" THEN "cancelled" ELSE "answered"])
    /\ UNCHANGED used

\* A provider may use a call id again; the agent runs one call at a time.
RecordToolCallRequested(c, a) ==
    /\ run.mode = "answered" /\ run.ord > 0 /\ Room /\ used.requests < MaxRequests
    /\ Step(<<ToolEvent("call", run.turn, RunBranch, c, a, Unset)>>,
            [run EXCEPT !.mode = "deciding", !.open = c])
    /\ used' = [used EXCEPT !.requests = @ + 1]

\* A reusable decision or the mode of the session settles it in the same turn.
RecordApproval(d) ==
    /\ run.mode = "deciding"
    /\ Step(<<ToolEvent("resolved", run.turn, RunBranch, run.open, NoArgs, d)>>,
            [run EXCEPT !.mode = "tool"])
    /\ UNCHANGED used

RecordApprovalRequested ==
    /\ run.mode = "deciding"
    /\ Step(<<ToolEvent("ask", run.turn, RunBranch, run.open, NoArgs, Unset)>>,
            [run EXCEPT !.mode = "pausing"])
    /\ UNCHANGED used

\* A denied call ends with the error the agent gives it.
RecordToolExecution(s) ==
    /\ run.mode = "tool"
    /\ log[Max(Positions("resolved", run.open))].status = "denied" => s = "error"
    /\ Step(<<ToolEvent("result", run.turn, RunBranch, run.open, NoArgs, s)>>,
            [run EXCEPT !.mode = "answered", !.open = NoCall])
    /\ UNCHANGED used

\* A cancel that is in the store before the turn's end takes precedence.
FinishTurn(status) ==
    /\ \/ status = "completed" /\ run.mode = "answered"
       \/ status = "awaiting_approval" /\ run.mode = "pausing"
       \/ status = "cancelled" /\ run.mode \in {"ready", "answered", "pausing", "cancelled"}
    /\ Step(<<OutcomeEvent("finished", run.turn, RunBranch, status)>>, Idle)
    /\ UNCHANGED used

\* The provider's stream fails: the error and the end of the turn.
FailTurn ==
    /\ run.mode = "calling"
    /\ Step(<<OutcomeEvent("error", run.turn, RunBranch, "provider"),
              OutcomeEvent("finished", run.turn, RunBranch, "failed")>>, Idle)
    /\ UNCHANGED used

\* approve: the turn that continues the paused one is claimed against the
\* identity of the pending request; the resolution carries the new turn.
ResumeApproval(c, d) ==
    LET row == rows.approval[c]
    IN /\ run.mode = "idle" /\ used.turns < MaxTurns
       /\ row.status = "pending"
       /\ rows.tool[c].status = "requested"
       /\ Step(<<[LogEvent("started", used.turns + 1, row.branch) EXCEPT !.call = c],
                 ToolEvent("resolved", used.turns + 1, row.branch, c, NoArgs, d)>>,
               [turn |-> used.turns + 1, mode |-> "tool", ord |-> 0, open |-> c])
       /\ used' = [used EXCEPT !.turns = @ + 1]

\* run_shell_command: an operator's tool belongs to no turn; its request and
\* its result, of which no read model tells success from failure, are
\* appended whatever the turn at hand is doing.
RequestOperatorTool(b, c, a) ==
    /\ Positions("call", c) = {} /\ Room
    /\ Step(<<ToolEvent("call", 0, b, c, a, Unset)>>, run)
    /\ UNCHANGED used

FinishOperatorTool(c) ==
    /\ c \in Unfinished
    /\ Step(<<ToolEvent("result", 0, log[Max(Positions("call", c))].branch, c, NoArgs, "completed")>>, run)
    /\ UNCHANGED used

Die ==
    /\ proc \in {"legacy", "opening", "recovering", "serving"} /\ used.deaths < MaxDeaths
    /\ proc' = "down" /\ run' = Idle /\ look' = <<>>
    /\ used' = [used EXCEPT !.deaths = @ + 1]
    /\ UNCHANGED <<log, rows, schema>>

\* The next start is of the current version.
Open ==
    /\ proc = "down"
    /\ proc' = "opening"
    /\ UNCHANGED <<log, rows, schema, run, look, used>>

-----------------------------------------------------------------------------
(* inspect_tool_call: the rows under one lock, the events under the next.  *)

LookAtRows(c) ==
    /\ proc = "serving" /\ look = <<>> /\ used.looks < MaxLooks
    /\ rows.tool[c].status # Unset
    /\ look' = <<[call |-> c, status |-> rows.tool[c].status, at |-> Len(log), done |-> FALSE,
                  requested |-> 0, completed |-> 0, turn |-> 0]>>
    /\ used' = [used EXCEPT !.looks = @ + 1]
    /\ UNCHANGED <<log, rows, schema, proc, run>>

\* The fold of inspect_tool_call over the events of its call.
Inspected(acc, e, seq) ==
    CASE e.call # look[1].call \/ e.kind = "started" -> acc
      [] e.kind = "call"   -> [acc EXCEPT !.requested = seq, !.completed = 0, !.turn = e.turn]
      [] e.kind = "result" /\ seq > acc.requested -> [acc EXCEPT !.completed = seq]
      [] OTHER             -> acc

LookAtEvents ==
    /\ proc = "serving" /\ look # <<>> /\ ~look[1].done
    /\ look' = <<[OverLog(Inspected, look[1]) EXCEPT !.done = TRUE]>>
    /\ UNCHANGED <<log, rows, schema, proc, run, used>>

LookAway ==
    /\ look # <<>> /\ look[1].done
    /\ look' = <<>>
    /\ UNCHANGED <<log, rows, schema, proc, run, used>>

-----------------------------------------------------------------------------
(* build_trace_turns.                                                      *)

NewTraceTurn(e, seq) ==
    [branch |-> e.branch, status |-> Unset, reason |-> Unset, first |-> seq, last |-> seq,
     events |-> 0, chunks |-> 0, calls |-> 0, pauses |-> 0, resumed |-> FALSE, tools |-> <<>>]

EnsureTraceTool(tools, c) ==
    IF \E i \in DOMAIN tools : tools[i].call = c THEN tools
    ELSE Append(tools, [call |-> c, approval |-> Unset, execution |-> Unset])

TraceTool(tools, c, a, x) ==
    LET all == EnsureTraceTool(tools, c)
    IN [i \in DOMAIN all |->
          IF all[i].call # c THEN all[i]
          ELSE [call |-> c, approval  |-> IF a = "keep" THEN all[i].approval ELSE a,
                            execution |-> IF x = "keep" THEN all[i].execution ELSE x]]

TraceTools(tools, e) ==
    CASE e.kind = "call"     -> TraceTool(tools, e.call, Unset, Unset)
      [] e.kind = "ask"      -> TraceTool(tools, e.call, "pending", "keep")
      [] e.kind = "resolved" -> TraceTool(tools, e.call, e.status, "keep")
      [] e.kind = "result"   -> TraceTool(tools, e.call, "keep", e.status)
      [] OTHER               -> tools

TraceTurn(trace, e, seq) ==
    [trace EXCEPT
        !.events = @ + 1, !.last = seq,
        !.first   = IF e.kind = "started" THEN seq ELSE @,
        !.resumed = IF e.kind = "started" THEN e.call # NoCall ELSE @,
        !.status  = IF e.kind = "finished" THEN e.status ELSE @,
        !.reason  = CASE e.kind \in {"finished", "completed"} -> e.status
                      [] e.kind = "error" /\ @ = Unset        -> e.status
                      [] OTHER                                -> @,
        !.calls   = IF e.kind = "requested" THEN @ + 1 ELSE @,
        !.chunks  = IF e.kind = "raw" THEN @ + 1 ELSE @,
        !.pauses  = IF e.kind = "ask" THEN @ + 1 ELSE @,
        !.tools   = TraceTools(@, e)]

BuildTraceTurns ==
    OverLog(LAMBDA turns, e, seq :
              IF e.turn = 0 THEN turns
              ELSE LET old == IF e.turn \in DOMAIN turns THEN turns[e.turn] ELSE NewTraceTurn(e, seq)
                   IN [t \in DOMAIN turns \cup {e.turn} |->
                         IF t = e.turn THEN TraceTurn(old, e, seq) ELSE turns[t]],
            <<>>)

-----------------------------------------------------------------------------
(* derive_otlp_turns: llm and tool spans per turn.                         *)

NoSpans == [llm |-> [t \in Turns |-> <<>>], active |-> [t \in Turns |-> {}],
            tool |-> [t \in Turns |-> <<>>], cached |-> [c \in CallIds |-> NoArgs]]

\* Entries <<ordinal, index>> of the calls in flight; the latest has the
\* greatest ordinal.
LatestActive(active) == {p \in active : \A q \in active : q[1] <= p[1]}

\* A chunk goes to the call of its ordinal, or to the latest one in flight.
ResolveActive(active, o) ==
    LET own == {p \in active : p[1] = o} IN IF own # {} THEN own ELSE LatestActive(active)

CloseSpans(d, t, entries, reason) ==
    [d EXCEPT !.active[t] = @ \ entries,
              !.llm[t] = [i \in DOMAIN @ |-> IF \E p \in entries : p[2] = i
                                             THEN [@[i] EXCEPT !.reason = reason] ELSE @[i]]]

DeriveLlmSpan(d, e) ==
    LET t == e.turn
    IN CASE e.kind = "requested" ->
              [d EXCEPT !.llm[t] = Append(@, [ord |-> e.ord, chunks |-> 0, reason |-> Unset]),
                        !.active[t] = @ \cup {<<e.ord, Len(d.llm[t]) + 1>>}]
         [] e.kind = "chunk" ->
              [d EXCEPT !.llm[t] = [i \in DOMAIN @ |->
                  IF \E p \in ResolveActive(d.active[t], e.ord) : p[2] = i
                  THEN [@[i] EXCEPT !.chunks = @ + 1] ELSE @[i]]]
         [] e.kind = "completed" ->
              CloseSpans(d, t, {p \in d.active[t] : p[1] = e.ord}, e.status)
         [] e.kind = "error" ->
              CloseSpans(d, t, LatestActive(d.active[t]), e.status)

\* The span of a call in a turn; one opened by a later turn takes the cached request.
EnsureToolSpan(d, t, c) ==
    IF \E i \in DOMAIN d.tool[t] : d.tool[t][i].call = c THEN d
    ELSE [d EXCEPT !.tool[t] = Append(@, [call |-> c, args |-> d.cached[c], output |-> 0,
                                          decision |-> Unset, failed |-> FALSE])]

ToolSpanIndex(d, t, c) == CHOOSE i \in DOMAIN d.tool[t] : d.tool[t][i].call = c

DeriveToolSpan(d, e, seq) ==
    LET known  == IF e.kind = "call" THEN [d EXCEPT !.cached[e.call] = e.args] ELSE d
        opened == EnsureToolSpan(known, e.turn, e.call)
        i      == ToolSpanIndex(opened, e.turn, e.call)
    IN CASE e.kind = "call"     -> [opened EXCEPT !.tool[e.turn][i].args = e.args]
         [] e.kind = "ask"      -> opened
         [] e.kind = "resolved" -> [opened EXCEPT !.tool[e.turn][i].decision = e.status]
         [] e.kind = "result"   -> [opened EXCEPT !.tool[e.turn][i].output = seq,
                                               !.tool[e.turn][i].failed = (e.status = "error")]

DeriveOtlpTurns ==
    OverLog(LAMBDA d, e, seq :
              CASE e.turn = 0 -> d
                [] e.kind \in {"requested", "chunk", "completed", "error"} -> DeriveLlmSpan(d, e)
                [] e.kind \in {"call", "ask", "resolved", "result"} -> DeriveToolSpan(d, e, seq)
                [] OTHER -> d,
            NoSpans)

\* What a span shows: its attributes, and a status that is an error or not.
TurnSpan(t, status) == [of |-> "turn", turn |-> t, ok |-> status # "failed"]

LlmSpan(t, llm) ==
    [of |-> "llm", turn |-> t, ord |-> llm.ord, chunks |-> llm.chunks, reason |-> llm.reason,
     ok |-> llm.reason # "error"]

ToolSpan(t, tool) ==
    [of |-> "tool", turn |-> t, call |-> tool.call, args |-> tool.args, output |-> tool.output,
     decision |-> tool.decision, ok |-> ~tool.failed]

\* The spans of the turns that have an event, each turn's before its children's.
BuildOtlpExport ==
    LET d == DeriveOtlpTurns
    IN [t \in {log[i].turn : i \in 1..Len(log)} \ {0} |->
          LET ends == {i \in 1..Len(log) : log[i].kind = "finished" /\ log[i].turn = t}
          IN <<TurnSpan(t, IF ends = {} THEN Unset ELSE log[Max(ends)].status)>>
             \o [i \in DOMAIN d.llm[t] |-> LlmSpan(t, d.llm[t][i])]
             \o [i \in DOMAIN d.tool[t] |-> ToolSpan(t, d.tool[t][i])]]

-----------------------------------------------------------------------------
(* The specification.                                                      *)

ReadInit ==
    /\ log = <<>> /\ rows = NoRows
    /\ \/ proc = "legacy" /\ schema = {}
       \/ proc = "serving" /\ schema = Migrations
    /\ run = Idle /\ look = <<>>
    /\ used = [turns |-> 0, requests |-> 0, deaths |-> 0, looks |-> 0]

ReadNext ==
    \/ \E b \in LogBranches : StartTurn(b)
    \/ RecordCompletionRequested \/ RecordLiveCompletionChunk
    \/ \E reason \in {"Stop", "Cancelled"} : RecordCompletionFinished(reason)
    \/ \E c \in Calls, a \in Args : RecordToolCallRequested(c, a)
    \/ \E d \in {"approved", "denied"} : RecordApproval(d)
    \/ RecordApprovalRequested
    \/ \E s \in {"completed", "error"} : RecordToolExecution(s)
    \/ \E status \in {"completed", "awaiting_approval", "cancelled"} : FinishTurn(status)
    \/ FailTurn
    \/ \E b \in LogBranches, c \in OperatorCalls, a \in Args : RequestOperatorTool(b, c, a)
    \/ \E c \in OperatorCalls : FinishOperatorTool(c)
    \/ \E c \in Calls, d \in {"approved", "denied"} : ResumeApproval(c, d)
    \/ Die \/ Open
    \/ CutOverToolAndApproval \/ RebuildActiveTurn \/ RebuildTurnProjection \/ Opened
    \/ Recover
    \/ \E c \in CallIds : LookAtRows(c)
    \/ LookAtEvents \/ LookAway

ReadSpec == ReadInit /\ [][ReadNext]_readVars

-----------------------------------------------------------------------------
(* Properties.                                                             *)

Kinds == {"started", "requested", "raw", "chunk", "completed", "error", "finished",
          "call", "ask", "resolved", "result"}

\* Types; a serving process has applied every migration, and the turn it runs
\* is the one the store holds active.
ReadTypeOK ==
    /\ \A i \in 1..Len(log) : /\ log[i].kind \in Kinds /\ log[i].turn \in 0..used.turns
                              /\ log[i].branch \in LogBranches /\ log[i].call \in CallIds \cup {NoCall}
    /\ rows.active \in 0..MaxTurns
    /\ DOMAIN rows.turn \subseteq Turns
    /\ schema \subseteq Migrations
    /\ proc \in {"legacy", "down", "opening", "recovering", "serving"}
    /\ run.mode \in {"idle", "ready", "calling", "answered", "deciding", "tool", "pausing",
                    "cancelled"}
    /\ proc = "serving" => schema = Migrations /\ rows.active = run.turn

\* The history of turns (turn_projection, folded one event at a time across
\* crashes and rebuilds) and the execution trace (folded from the whole log)
\* are two implementations of one summary: they agree on every turn.  Only the
\* reason of a turn that has not finished may differ: the trace shows that of
\* the last completion.
HistoriesAgree ==
    proc = "serving" =>
        LET trace == BuildTraceTurns
        IN /\ DOMAIN rows.turn = DOMAIN trace
           /\ \A t \in DOMAIN trace :
                LET r == rows.turn[t] x == trace[t]
                IN /\ <<r.branch, r.status, r.first, r.last, r.events, r.chunks, r.tools>>
                        = <<x.branch, x.status, x.first, x.last, x.events, x.chunks, x.tools>>
                   /\ x.status # Unset => r.reason = x.reason

\* The rows of tool calls say what the log says, after any rebuild: a call is
\* completed exactly when a result follows its latest request, and it carries
\* that request's turn and arguments.
RowsReplayed ==
    proc = "serving" =>
        \A c \in CallIds :
            LET row == rows.tool[c] asked == Positions("call", c)
            IN /\ (row.status = Unset) <=> (asked = {})
               /\ asked # {} =>
                    LET i == Max(asked)
                    IN /\ <<row.seq, row.turn, row.args>> = <<i, log[i].turn, log[i].args>>
                       /\ (row.status = "completed") <=> (\E j \in Positions("result", c) : j > i)

\* The exported spans of a turn that has ended.  A tool span with an output
\* shows the arguments of the request that output answers and fails exactly when
\* the output is an error, also when the call was requested in one turn and ran
\* in the one that resumed it (a call id that one turn requests or resumes twice
\* shares a span and is left out); every chunk is counted in the span of its own
\* completion; no completion span is left open; a failed turn's span is an error.
SpansFaithful ==
    proc = "serving" =>
        LET spans == BuildOtlpExport
            Uses(c, t) == {j \in Positions("call", c) \cup Positions("started", c) : log[j].turn = t}
        IN \A t \in DOMAIN spans : rows.turn[t].status # Unset =>
             \A i \in DOMAIN spans[t] :
               LET span == spans[t][i]
               IN CASE span.of = "turn" -> span.ok <=> (rows.turn[t].status # "failed")
                    [] span.of = "tool" /\ span.output # 0 /\ Cardinality(Uses(span.call, t)) <= 1 ->
                         LET asked == {j \in Positions("call", span.call) : j < span.output}
                         IN /\ span.args = log[Max(asked)].args
                            /\ span.ok <=> (log[span.output].status # "error")
                    [] span.of = "llm" ->
                         /\ span.reason # Unset
                         /\ span.chunks =
                              Cardinality({j \in 1..Len(log) : /\ log[j].kind = "chunk" /\ log[j].turn = t
                                                               /\ log[j].ord = span.ord})
                    [] OTHER -> TRUE

\* An inspection that shows a call completed shows the result's event, unless
\* the call id has been requested again since the rows were read.
InspectionSound ==
    \A i \in DOMAIN look :
        look[i].done /\ look[i].status = "completed" /\ look[i].completed = 0
        => look[i].requested > look[i].at

\* What the history shows as awaiting a decision is awaiting one (not an
\* invariant: the resolution is counted in the turn that resumes).
PendingTruthful ==
    proc = "serving" /\ run.mode = "idle" =>
        \A t \in DOMAIN rows.turn :
            rows.turn[t].pending =
                Cardinality({c \in Calls : rows.approval[c].status = "pending" /\ rows.approval[c].turn = t})

\* The approval rows after an upgrade are those the refresh would have left (not
\* an invariant: the rebuild keeps the row of a request made again).
ApprovalsReplayed ==
    proc = "serving" => rows.approval = OverLog(ApprovalRowsAfter, NoRows.approval)

\* A completion span that ended with an error is exported as one (not an
\* invariant: its reason is the error's code, and only "error" is a failure).
LlmFailuresShown ==
    proc = "serving" =>
        LET spans == BuildOtlpExport
        IN \A t \in DOMAIN spans : \A i \in DOMAIN spans[t] :
             spans[t][i].of = "llm" /\ spans[t][i].reason \in {"provider", "interrupted"}
             => ~spans[t][i].ok

(* The five derivations of one log agree: incremental and rebuilt            *)
(* projections, rows and replay, spans and events, inspection and log, for   *)
(* every log with reused call ids, cancels, an operator's commands, crashes, *)
(* recovery and upgrades.                                                    *)
ReadModelsAgree == ReadTypeOK /\ HistoriesAgree /\ RowsReplayed /\ SpansFaithful /\ InspectionSound
=============================================================================
