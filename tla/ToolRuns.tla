------------------------------ MODULE ToolRuns -------------------------------
(***************************************************************************)
(* The life of a tool call in one session: the turn loop that requests it  *)
(* (crates/bt-agent), the observer that records it, the approval state     *)
(* and policy (bt-runtime/approval.rs), the handler that resumes a turn    *)
(* with an operator's decision, the operator's own shell commands          *)
(* (bt-server/operator_routes.rs) and startup recovery (lifecycle.rs).     *)
(*                                                                         *)
(* log is the session's event log, reduced to the events about tools and   *)
(* turns; its index is seq_id.  The projections tool_run_projection and    *)
(* approval_projection are read off it.  A provider may repeat a call      *)
(* identifier, so a request is named by its index and not by its call.     *)
(* Everything done under one store lock is one action.  TurnControl covers *)
(* who owns the active turn; here one worker drives it.                    *)
(***************************************************************************)
EXTENDS Naturals, Sequences, FiniteSets, SequencesExt

CONSTANTS
    Calls,            \* call identifiers a provider may give
    Safe,             \* invocations (tool and arguments) that need no approval
    Guarded,          \* invocations that need one
    PolicyApproved,   \* those of Guarded that the policy approves by itself
    Ask,              \* the invocation of the ask tool
    Immediate,        \* invocations whose tool is dropped on cancellation
    HumanDecisions,   \* what operators may decide
    Approvers,        \* approve_tool requests that may be in flight
    MaxTurns, MaxRequests, MaxOperatorTools,
    Troubles,         \* what may go wrong: "cancel", "fault", "gone", "auto", "panic", "crash"
    MaxTroubles       \* how often, together

Scopes == {"once", "session", "always"}
Invocations == Safe \cup Guarded \cup {Ask}

ASSUME ToolAssumption ==
    /\ PolicyApproved \subseteq Guarded
    /\ Safe \cap Guarded = {} /\ Ask \notin Safe \cup Guarded
    /\ Immediate \subseteq Safe \cup Guarded
    /\ HumanDecisions \subseteq [approved: BOOLEAN, scope: Scopes]
    /\ Calls \cap Nat = {}      \* an operator tool's call is its request's index
    /\ MaxTurns \in Nat

None == 0

VARIABLES
    log,              \* committed events about tools and turns
    active,           \* the active turn, or None
    cancelRequested,  \* the session's control row; the turn's signal follows it
    worker,           \* the task that drives the active turn
    approver,         \* the approve_tool handlers
    operator,         \* the run_shell_command handler
    perCall, perSession, global,   \* ApprovalStore
    auto,             \* set_session_auto_approval
    effects,          \* history: the executions, as <<request, invocation>>
    booted,           \* history: length of the log when this process was up
    troubles          \* how often something went wrong

vars == <<log, active, cancelRequested, worker, approver, operator, perCall,
          perSession, global, auto, effects, booted, troubles>>
grants == <<perCall, perSession, global>>
handlers == <<approver, operator, auto>>

-----------------------------------------------------------------------------
(* The log and its projections. *)

Requests == {i \in DOMAIN log : log[i].kind = "requested"}
Turns == 1..MaxTurns
TurnsStarted == Cardinality({i \in DOMAIN log : log[i].kind = "started"})

(* A tool event of the same call after request i and before the call is    *)
(* requested again belongs to request i.                                   *)
Belongs(j, i) ==
    /\ j > i /\ j \in DOMAIN log
    /\ log[j].kind \in {"approval", "resolved", "finished"}
    /\ log[j].call = log[i].call
    /\ \A k \in Requests : i < k /\ k < j => log[k].call # log[i].call
Of(i, kind) == {j \in DOMAIN log : log[j].kind = kind /\ Belongs(j, i)}

(* The row of the call in either projection stands for its newest request. *)
Current(c) ==
    LET R == {i \in Requests : log[i].call = c} IN IF R = {} THEN None ELSE Max(R)

(* status of approval_projection: a request deletes the row, an approval   *)
(* request makes it pending and a resolution decided.                      *)
ApprovalPending(i) ==
    Of(i, "approval") # {} /\ \A j \in Of(i, "resolved") : j < Max(Of(i, "approval"))

(* pending_inputs: an ask that is still requested. *)
InputPending(i) == log[i].inv = Ask /\ Of(i, "finished") = {}

PendingCalls ==
    {c \in Calls : Current(c) # None /\ (ApprovalPending(Current(c)) \/ InputPending(Current(c)))}

TurnStart(t) == CHOOSE i \in DOMAIN log : log[i].kind = "started" /\ log[i].turn = t
ResumedFrom(t) == log[TurnStart(t)].resumed   \* the request, or None

-----------------------------------------------------------------------------
(* Events. *)

Started(t, i) == [kind |-> "started", turn |-> t, resumed |-> i]
Requested(c, t, v) == [kind |-> "requested", call |-> c, turn |-> t, inv |-> v]
Approval(c, t) == [kind |-> "approval", call |-> c, turn |-> t]
Resolved(c, t, v, d) ==
    [kind |-> "resolved", call |-> c, turn |-> t, inv |-> v, decision |-> d]
Finished(c, t, r) == [kind |-> "finished", call |-> c, turn |-> t, result |-> r]
TurnFinished(t, s) == [kind |-> "turnFinished", turn |-> t, status |-> s]

Decision(ok, scope, by, i) == [approved |-> ok, scope |-> scope, by |-> by, for |-> i]
NoDecision == Decision(FALSE, "none", "none", None)
Unrecorded == [inv |-> Ask, decision |-> NoDecision]

Idle == [pc |-> "off", turn |-> None, todo |-> <<>>, req |-> None,
         inv |-> Ask, decision |-> NoDecision, result |-> "none", failing |-> FALSE]
NoHandler == [pc |-> "idle", call |-> None, inv |-> Ask, req |-> None,
              turn |-> None, decision |-> NoDecision]
NoOperator == [pc |-> "idle", req |-> None]

ToolInit ==
    /\ log = <<>> /\ active = None /\ cancelRequested = FALSE
    /\ worker = Idle
    /\ approver = [a \in Approvers |-> NoHandler]
    /\ operator = NoOperator
    /\ perCall = [c \in Calls |-> Unrecorded]
    /\ perSession = [v \in Guarded |-> NoDecision]
    /\ global = [v \in Guarded |-> NoDecision]
    /\ auto = FALSE
    /\ effects = <<>> /\ booted = 0
    /\ troubles = 0

Trouble(what) == what \in Troubles /\ troubles < MaxTroubles /\ troubles' = troubles + 1
Append1(e) == log' = Append(log, e)
Go(pc) == worker' = [worker EXCEPT !.pc = pc]
Call == log[worker.req].call
Inv == worker.inv

-----------------------------------------------------------------------------
(* ApprovalState and PolicyApprovalEvaluator. *)

(* Mutant of Reuse: a decision for all sessions is not kept. *)
ReuseInSession(v, d) ==
    /\ perSession' = IF d.scope = "session" THEN [perSession EXCEPT ![v] = d] ELSE perSession
    /\ UNCHANGED global

(* apply_reusable_decision *)
Reuse(v, d) ==
    /\ perSession' = IF d.scope = "session" THEN [perSession EXCEPT ![v] = d] ELSE perSession
    /\ global' = IF d.scope = "always" THEN [global EXCEPT ![v] = d] ELSE global

(* Mutant of Matches: a decision is found by its call alone. *)
MatchesCall(c, v) == perCall[c].decision # NoDecision

(* A decision is recorded for this call and this invocation. *)
Matches(c, v) == perCall[c].decision # NoDecision /\ perCall[c].inv = v

(* auto_approve: the session's auto mode, then the first-use rule and the  *)
(* configured command patterns.                                            *)
AutoApprove(v, i) ==
    IF auto THEN Decision(TRUE, "once", "auto", i)
    ELSE IF v \in PolicyApproved THEN Decision(TRUE, "session", "policy", i)
    ELSE NoDecision

(* evaluate_request: the session's reusable decision, then everybody's. *)
Known(v) == IF perSession[v] # NoDecision THEN perSession[v] ELSE global[v]

(* PolicyApprovalEvaluator::evaluate for request i: what is recorded for    *)
(* the call, what is known, what the policy says, or no decision.           *)
Evaluated(c, v, i) ==
    IF Matches(c, v) THEN perCall[c].decision
    ELSE IF Known(v) # NoDecision THEN Known(v) ELSE AutoApprove(v, i)

(* What evaluating leaves behind: a one-shot decision is consumed when it   *)
(* was recorded, any other is recorded for the call.                        *)
Evaluate(c, v, i) ==
    LET d == Evaluated(c, v, i)
    IN \/ /\ Matches(c, v)
          /\ perCall' = IF d.scope = "once" THEN [perCall EXCEPT ![c] = Unrecorded] ELSE perCall
          /\ UNCHANGED <<perSession, global>>
       \/ /\ ~Matches(c, v) /\ d # NoDecision
          /\ perCall' = [perCall EXCEPT ![c] = [inv |-> v, decision |-> d]]
          /\ IF Known(v) = NoDecision THEN Reuse(v, d) ELSE UNCHANGED <<perSession, global>>
       \/ ~Matches(c, v) /\ d = NoDecision /\ UNCHANGED grants

SetAutoApproval ==
    /\ Trouble("auto")
    /\ auto' = ~auto
    /\ UNCHANGED <<log, active, cancelRequested, worker, approver, operator, grants,
                   effects, booted>>

-----------------------------------------------------------------------------
(* The turn loop and its observer. *)

StartTurn ==
    /\ active = None /\ worker.pc = "off" /\ PendingCalls = {}
    /\ TurnsStarted < MaxTurns
    /\ LET t == TurnsStarted + 1
       IN /\ Append1(Started(t, None))
          /\ active' = t
          /\ worker' = [Idle EXCEPT !.pc = "model", !.turn = t]
    /\ cancelRequested' = FALSE
    /\ UNCHANGED <<handlers, grants, effects, booted, troubles>>

(* The turn ends with this status, unless a cancel is pending; results are  *)
(* tool results committed with it (commit_active_turn_terminal_events).     *)
EndTurn(status, results) ==
    /\ active = worker.turn
    /\ log' = log \o results \o
              <<TurnFinished(active, IF cancelRequested THEN "cancelled" ELSE status)>>
    /\ active' = None
    /\ worker' = IF cancelRequested THEN [Idle EXCEPT !.pc = "controls"] ELSE Idle
    /\ UNCHANGED <<cancelRequested, handlers, grants, effects, booted>>

(* The model answers with text, with tool calls, or not at all. *)
ModelCalls ==
    /\ worker.pc = "model" /\ ~cancelRequested
    /\ Cardinality(Requests) < MaxRequests
    /\ \E c \in Calls, v \in Invocations :
          \/ worker' = [worker EXCEPT !.pc = "next", !.todo = <<<<c, v>>>>]
          \/ /\ Cardinality(Requests) + 1 < MaxRequests
             /\ \E c2 \in Calls \ {c}, v2 \in Safe :
                   worker' = [worker EXCEPT !.pc = "next", !.todo = <<<<c, v>>, <<c2, v2>>>>]
    /\ UNCHANGED <<log, active, cancelRequested, handlers, grants, effects, booted, troubles>>

ModelAnswers ==
    /\ worker.pc = "model"
    /\ EndTurn("completed", <<>>)
    /\ UNCHANGED troubles

ModelFails ==
    /\ worker.pc = "model"
    /\ Trouble("fault")
    /\ EndTurn("failed", <<>>)

(* record_tool_request_transition: refused while a cancel is pending. *)
RequestTool ==
    /\ worker.pc = "next" /\ worker.todo # <<>>
    /\ \/ cancelRequested /\ EndTurn("cancelled", <<>>)
       \/ /\ ~cancelRequested
          /\ Append1(Requested(worker.todo[1][1], active, worker.todo[1][2]))
          /\ worker' = [worker EXCEPT !.pc = "requested", !.todo = Tail(@), !.req = Len(log) + 1,
                                      !.inv = worker.todo[1][2]]
          /\ UNCHANGED <<active, cancelRequested, handlers, grants, effects, booted>>
    /\ UNCHANGED troubles

(* All calls of the response are done: the model is called again. *)
NextCompletion ==
    /\ worker.pc = "next" /\ worker.todo = <<>>
    /\ Go("model")
    /\ UNCHANGED <<log, active, cancelRequested, handlers, grants, effects, booted, troubles>>

(* What follows the request: cancelled, paused for input, executed, or put  *)
(* to the approval evaluator.                                              *)
Decide ==
    /\ worker.pc = "requested"
    /\ \/ /\ cancelRequested
          /\ worker' = [worker EXCEPT !.pc = "terminal", !.result = "cancelled"]
          /\ UNCHANGED <<log, active, cancelRequested, handlers, grants, effects, booted>>
       \/ /\ ~cancelRequested /\ Inv = Ask
          /\ EndTurn("awaiting_input", <<>>)
       \/ /\ ~cancelRequested /\ Inv \in Safe
          /\ Go("execute")
          /\ UNCHANGED <<log, active, cancelRequested, handlers, grants, effects, booted>>
       \/ /\ ~cancelRequested /\ Inv \in Guarded
          /\ Evaluate(Call, Inv, worker.req)
          /\ LET d == Evaluated(Call, Inv, worker.req)
             IN worker' = [worker EXCEPT !.pc = IF d = NoDecision THEN "ask" ELSE "resolve",
                                         !.decision = d]
          /\ UNCHANGED <<log, active, cancelRequested, handlers, effects, booted>>
    /\ UNCHANGED troubles

(* tool_approval_resolved: the decision is recorded, then seeded. *)
RecordApproval ==
    /\ worker.pc = "resolve"
    /\ Append1(Resolved(Call, active, Inv, worker.decision))
    /\ Reuse(Inv, worker.decision)
    /\ worker' = IF worker.decision.approved THEN [worker EXCEPT !.pc = "execute"]
                 ELSE [worker EXCEPT !.pc = "terminal", !.result = "denied"]
    /\ UNCHANGED <<active, cancelRequested, handlers, perCall, effects, booted, troubles>>

(* tool_approval_requested, and the turn ends to wait for it. *)
RequestApproval ==
    /\ worker.pc = "ask"
    /\ Append1(Approval(Call, active))
    /\ Go("pause")
    /\ UNCHANGED <<active, cancelRequested, handlers, grants, effects, booted, troubles>>

PauseForApproval ==
    /\ worker.pc = "pause"
    /\ EndTurn("awaiting_approval", <<>>)
    /\ UNCHANGED troubles

(* An approval event cannot be appended: observe_tool_lifecycle_failure.   *)
ApprovalFault ==
    /\ worker.pc \in {"resolve", "ask"}
    /\ Trouble("fault")
    /\ worker' = [worker EXCEPT !.pc = "terminal", !.result = "failed", !.failing = TRUE]
    /\ UNCHANGED <<log, active, cancelRequested, handlers, grants, effects, booted>>

(* execute_tool_call: a cancel that is already there prevents the start. *)
Execute ==
    /\ worker.pc = "execute"
    /\ \/ /\ cancelRequested
          /\ worker' = [worker EXCEPT !.pc = "terminal", !.result = "cancelled"]
          /\ UNCHANGED effects
       \/ /\ ~cancelRequested
          /\ Go("executing")
          /\ effects' = Append(effects, <<worker.req, Inv>>)
    /\ UNCHANGED <<log, active, cancelRequested, handlers, grants, booted, troubles>>

(* Mutant of ToolReturns: a tool that failed is tried once more. *)
ToolReturnsRetrying ==
    /\ worker.pc = "executing"
    /\ worker' \in {[worker EXCEPT !.pc = "terminal", !.result = "returned"],
                    [worker EXCEPT !.pc = "execute"]}
    /\ UNCHANGED <<log, active, cancelRequested, handlers, grants, effects, booted, troubles>>

(* An immediate tool is dropped on cancellation, any other one returns. *)
ToolReturns ==
    /\ worker.pc = "executing"
    /\ worker' = [worker EXCEPT !.pc = "terminal",
                    !.result = IF cancelRequested /\ Inv \in Immediate THEN "cancelled"
                               ELSE "returned"]
    /\ UNCHANGED <<log, active, cancelRequested, handlers, grants, effects, booted, troubles>>

(* tool_execution_finished, then the next call, or the end if cancelled or  *)
(* if this was an approval that could not be recorded.                     *)
RecordTerminal ==
    /\ worker.pc = "terminal"
    /\ active = worker.turn
    /\ Append1(Finished(Call, active, worker.result))
    /\ Go(IF worker.failing THEN "fail"
          ELSE IF ResumedFrom(active) = worker.req THEN "resumeCheck"
          ELSE IF cancelRequested \/ worker.result = "cancelled" THEN "model" ELSE "next")
    /\ UNCHANGED <<active, cancelRequested, handlers, grants, effects, booted, troubles>>

(* The terminal cannot be appended: the turn fails, with that result. *)
TerminalFault ==
    /\ worker.pc = "terminal"
    /\ Trouble("fault")
    /\ EndTurn("failed", <<Finished(Call, active, worker.result)>>)

FailTurn ==
    /\ worker.pc = "fail"
    /\ EndTurn("failed", <<>>)
    /\ UNCHANGED troubles

(* consume_post_turn_controls after a cancelled turn. *)
ConsumeControls ==
    /\ worker.pc = "controls"
    /\ cancelRequested' = FALSE
    /\ worker' = Idle
    /\ UNCHANGED <<log, active, handlers, grants, effects, booted, troubles>>

-----------------------------------------------------------------------------
(* approve_tool and answer_tool. *)

Handler(a, h) == approver' = [approver EXCEPT ![a] = h]

(* resumable_tool_call reads the call's row and its arguments, ...          *)
ApproveReads(a) ==
    /\ approver[a].pc = "idle"
    /\ \E c \in Calls, d \in HumanDecisions :
          /\ Current(c) # None /\ ApprovalPending(Current(c))
          /\ Of(Current(c), "finished") = {}
          /\ Handler(a, [NoHandler EXCEPT !.pc = "read", !.call = c,
                            !.inv = log[Current(c)].inv,
                            !.decision = Decision(d.approved, d.scope, "human", None)])
    /\ UNCHANGED <<log, active, cancelRequested, worker, operator, auto, grants, effects,
                   booted, troubles>>

(* ... and under a second lock which request is pending.                    *)
ApproveIdentifies(a) ==
    /\ approver[a].pc = "read"
    /\ LET i == Current(approver[a].call)
       IN Handler(a, IF ApprovalPending(i)
                     THEN [approver[a] EXCEPT !.pc = "identified", !.req = i]
                     ELSE NoHandler)
    /\ UNCHANGED <<log, active, cancelRequested, worker, operator, auto, grants, effects,
                   booted, troubles>>

(* claim_resumed_continuation: no cancel, no active turn, still pending. *)
MayResume(c, i) ==
    /\ ~cancelRequested /\ active = None
    /\ Current(c) = i /\ ApprovalPending(i)

(* bootstrap_resumed_approval_turn: the claim starts the turn and records   *)
(* the decision.                                                            *)
ApproveClaims(a) ==
    LET h == approver[a]
        t == TurnsStarted + 1
        d == [h.decision EXCEPT !.for = h.req]
    IN /\ h.pc = "identified"
       /\ \/ /\ MayResume(h.call, h.req) /\ worker.pc = "off" /\ t <= MaxTurns
             /\ log' = log \o <<Started(t, h.req), Resolved(h.call, t, h.inv, d)>>
             /\ active' = t
             /\ Handler(a, [h EXCEPT !.pc = "claimed", !.turn = t, !.decision = d])
          \/ /\ ~MayResume(h.call, h.req)
             /\ Handler(a, NoHandler)
             /\ UNCHANGED <<log, active>>
       /\ UNCHANGED <<cancelRequested, worker, operator, auto, grants, effects, booted, troubles>>

(* The decision is seeded for reuse and the turn's task is detached. *)
ApproveDetaches(a) ==
    LET h == approver[a]
    IN /\ h.pc = "claimed"
       /\ Reuse(h.inv, h.decision)
       /\ worker' = [Idle EXCEPT !.pc = "resume", !.turn = h.turn, !.req = h.req,
                                 !.inv = h.inv, !.decision = h.decision]
       /\ Handler(a, NoHandler)
       /\ UNCHANGED <<log, active, cancelRequested, operator, auto, perCall, effects, booted,
                      troubles>>

(* bootstrap_resumed_input_turn: the answer is the call's result. *)
AnswerTool ==
    /\ ~cancelRequested /\ active = None /\ worker.pc = "off"
    /\ TurnsStarted < MaxTurns
    /\ \E c \in Calls :
          /\ Current(c) # None /\ InputPending(Current(c))
          /\ LET t == TurnsStarted + 1
             IN /\ log' = log \o <<Started(t, Current(c)), Finished(c, t, "returned")>>
                /\ active' = t
                /\ worker' = [Idle EXCEPT !.pc = "model", !.turn = t]
    /\ UNCHANGED <<cancelRequested, handlers, grants, effects, booted, troubles>>

(* run_resumed_approval_turn up to the tool. *)
ResumeTool ==
    /\ worker.pc = "resume"
    /\ worker' = IF cancelRequested THEN [worker EXCEPT !.pc = "terminal", !.result = "cancelled"]
                 ELSE IF worker.decision.approved THEN [worker EXCEPT !.pc = "execute"]
                 ELSE [worker EXCEPT !.pc = "terminal", !.result = "denied"]
    /\ UNCHANGED <<log, active, cancelRequested, handlers, grants, effects, booted, troubles>>

(* The registry or the tool fails: record_resumed_tool_failure. *)
ResumeFault ==
    /\ worker.pc \in {"execute", "executing"} /\ ResumedFrom(active) = worker.req
    /\ Trouble("fault")
    /\ EndTurn("failed", <<Finished(Call, active, "failed")>>)

(* The tool's result is recorded: cancelled, other approvals, or go on. *)
ResumeCheck ==
    /\ worker.pc = "resumeCheck"
    /\ \/ cancelRequested /\ EndTurn("cancelled", <<>>)
       \/ /\ ~cancelRequested
          /\ \E c \in Calls : Current(c) # None /\ ApprovalPending(Current(c))
          /\ EndTurn("awaiting_approval", <<>>)
       \/ /\ ~cancelRequested
          /\ \A c \in Calls : Current(c) # None => ~ApprovalPending(Current(c))
          /\ Go("model")
          /\ UNCHANGED <<log, active, cancelRequested, handlers, grants, effects, booted>>
    /\ UNCHANGED troubles

-----------------------------------------------------------------------------
(* run_shell_command: an operator's tool, outside any turn. *)

OperatorCall == operator.req        \* a fresh identifier
OperatorTools == {i \in Requests : log[i].turn = None}

OperatorRequests ==
    /\ operator.pc = "idle"
    /\ Cardinality(OperatorTools) < MaxOperatorTools /\ Cardinality(Requests) < MaxRequests
    /\ \E v \in Guarded : Append1(Requested(Len(log) + 1, None, v))
    /\ operator' = [pc |-> "execute", req |-> Len(log) + 1]
    /\ UNCHANGED <<active, cancelRequested, worker, approver, auto, grants, effects, booted,
                   troubles>>

OperatorExecutes ==
    /\ operator.pc = "execute"
    /\ effects' = Append(effects, <<operator.req, log[operator.req].inv>>)
    /\ operator' = [operator EXCEPT !.pc = "record"]
    /\ UNCHANGED <<log, active, cancelRequested, worker, approver, auto, grants, booted, troubles>>

(* record_operator_tool_terminal_transition, or, after it failed,          *)
(* recover_operator_tool_terminal_transition.                              *)
OperatorRecords ==
    /\ operator.pc \in {"record", "recover"}
    /\ Append1(Finished(OperatorCall, None, "returned"))
    /\ operator' = NoOperator
    /\ UNCHANGED <<active, cancelRequested, worker, approver, auto, grants, effects, booted,
                   troubles>>

OperatorFault ==
    /\ operator.pc \in {"record", "recover"}
    /\ Trouble("fault")
    /\ operator' = IF operator.pc = "record" THEN [operator EXCEPT !.pc = "recover"]
                   ELSE NoOperator
    /\ UNCHANGED <<log, active, cancelRequested, worker, approver, auto, grants, effects, booted>>

(* The client goes away while the tool runs, and the handler with it. *)
OperatorGone ==
    /\ operator.pc \in {"execute", "record"}
    /\ Trouble("gone")
    /\ operator' = NoOperator
    /\ UNCHANGED <<log, active, cancelRequested, worker, approver, auto, grants, effects, booted>>

-----------------------------------------------------------------------------
CancelSession ==
    /\ Trouble("cancel")
    /\ cancelRequested' = TRUE
    /\ UNCHANGED <<log, active, worker, handlers, grants, effects, booted>>

(* The worker's task panics; detach_turn_work ends its turn. *)
Panic ==
    /\ active # None /\ worker.pc \notin {"off", "panicked", "controls"}
    /\ Trouble("panic")
    /\ Go("panicked")
    /\ UNCHANGED <<log, active, cancelRequested, handlers, grants, effects, booted>>

Watchdog ==
    /\ worker.pc = "panicked"
    /\ EndTurn("failed", <<>>)
    /\ UNCHANGED troubles

(* Mutant of Interrupted: the resumed request is not looked for. *)
InterruptedOwn(t) ==
    {i \in Requests : log[i].turn = t /\ Of(i, "finished") = {} /\ log[i].inv # Ask
                      /\ ~ApprovalPending(i)}

(* interrupted_tool_results: the requests of the turn and the one it was    *)
(* resumed for, without a result in the turn, that do not wait for anybody. *)
Interrupted(t) ==
    {i \in Requests :
        /\ log[i].turn = t \/ i = ResumedFrom(t)
        /\ \A j \in Of(i, "finished") : log[j].turn # t
        /\ ~ApprovalPending(i)
        /\ log[i].inv # Ask}

(* A denied tool did not run; of any other the outcome is unknown. *)
RecoveredResult(i) ==
    IF Of(i, "resolved") # {} /\ ~log[Max(Of(i, "resolved"))].decision.approved
    THEN "denied" ELSE "unknown"

(* The terminal events that recovery writes for these requests, oldest first. *)
Ordered(S) ==
    CHOOSE s \in [1..Cardinality(S) -> S] : \A j, k \in 1..Cardinality(S) : j < k => s[j] < s[k]
RecoveredResults(S, t) ==
    [k \in 1..Cardinality(S) |->
        LET i == Ordered(S)[k] IN Finished(log[i].call, t, RecoveredResult(i))]

(* recover_interrupted_turns, then recover_interrupted_operator_tools. *)
Recovery ==
    LET turn == IF active = None THEN <<>>
                ELSE RecoveredResults(Interrupted(active), active)
                     \o <<TurnFinished(active, IF cancelRequested THEN "cancelled" ELSE "failed")>>
        open == {i \in OperatorTools : Of(i, "finished") = {}}
    IN turn \o RecoveredResults(open, None)

(* load_reusable_approvals: the newest decision of each scope wins. *)
Rehydrated(v, scope) ==
    LET J == {j \in DOMAIN log : /\ log[j].kind = "resolved" /\ log[j].inv = v
                                 /\ log[j].decision.scope = scope}
    IN IF J = {} THEN NoDecision ELSE log[Max(J)].decision

(* The process dies, and BelltowerRuntime::open of the next one. *)
Restart ==
    /\ Trouble("crash")
    /\ log' = log \o Recovery
    /\ active' = None /\ worker' = Idle /\ operator' = NoOperator
    /\ approver' = [a \in Approvers |-> NoHandler]
    /\ perCall' = [c \in Calls |-> Unrecorded]
    /\ perSession' = [v \in Guarded |-> Rehydrated(v, "session")]
    /\ global' = [v \in Guarded |-> Rehydrated(v, "always")]
    /\ auto' = FALSE
    /\ booted' = Len(log')
    /\ UNCHANGED <<cancelRequested, effects>>

WorkerStep ==
    \/ ModelCalls \/ ModelAnswers \/ ModelFails \/ RequestTool \/ NextCompletion \/ Decide
    \/ RecordApproval \/ RequestApproval \/ PauseForApproval \/ ApprovalFault
    \/ Execute \/ ToolReturns \/ RecordTerminal \/ TerminalFault \/ FailTurn
    \/ ConsumeControls \/ ResumeTool \/ ResumeFault \/ ResumeCheck

OperatorStep ==
    \/ OperatorRequests \/ OperatorExecutes \/ OperatorRecords \/ OperatorFault \/ OperatorGone

ToolNext ==
    \/ StartTurn \/ WorkerStep
    \/ \E a \in Approvers : \/ ApproveReads(a) \/ ApproveIdentifies(a)
                            \/ ApproveClaims(a) \/ ApproveDetaches(a)
    \/ AnswerTool \/ OperatorStep \/ SetAutoApproval \/ CancelSession
    \/ Panic \/ Watchdog \/ Restart

ToolSpec == ToolInit /\ [][ToolNext]_vars

-----------------------------------------------------------------------------
(***************************************************************************)
(* The types of the process's state.                                       *)
(***************************************************************************)
ToolTypeOK ==
    /\ active \in {None} \cup Turns
    /\ cancelRequested \in BOOLEAN /\ auto \in BOOLEAN
    /\ worker.pc \in {"off", "model", "next", "requested", "resolve", "ask", "pause", "execute",
                      "executing", "terminal", "fail", "controls", "resume", "resumeCheck",
                      "panicked"}
    /\ worker.turn \in {None} \cup Turns /\ worker.req \in {None} \cup Requests
    /\ worker.result \in {"none", "cancelled", "denied", "failed", "returned"}
    /\ \A a \in Approvers : approver[a].pc \in {"idle", "read", "identified", "claimed"}
    /\ operator.pc \in {"idle", "execute", "record", "recover"}
    /\ booted \in 0..Len(log)

(* Somebody of this process is still about to close request i. *)
InFlight(i) ==
    \/ active # None /\ (log[i].turn = active \/ ResumedFrom(active) = i)
    \/ log[i].turn = None /\ i > booted

(* Request i waits for an operator's decision or answer. *)
Waiting(i) == Current(log[i].call) = i /\ (ApprovalPending(i) \/ InputPending(i))

(***************************************************************************)
(* "Every tool.call.requested must have exactly one terminal               *)
(* tool.execution.finished" (docs/architecture/event-taxonomy-and-write-   *)
(* path.md): never two, and one as soon as neither a turn of this process, *)
(* nor an operator's command, nor an operator's answer can still give it,  *)
(* across cancels, failed appends, pauses, resumes and restarts.           *)
(***************************************************************************)
OneTerminal ==
    \A i \in Requests :
        LET n == Cardinality(Of(i, "finished"))
        IN n <= 1 /\ (InFlight(i) \/ Waiting(i) \/ n = 1)

(***************************************************************************)
(* A tool that needs approval runs only after a decision to approve this   *)
(* very request, with these arguments, is in the log, and the decision was *)
(* made for these arguments: not one for something else under the same     *)
(* call identifier, and not one that a crash can lose.                     *)
(***************************************************************************)
ApprovedFirst ==
    \A e \in DOMAIN effects :
        LET i == effects[e][1]
            v == effects[e][2]
        IN v \in Guarded /\ log[i].turn # None =>
              /\ v = log[i].inv
              /\ \E j \in Of(i, "resolved") :
                    /\ log[j].inv = v /\ log[j].decision.approved
                    /\ log[log[j].decision.for].inv = v

(***************************************************************************)
(* No request is executed twice: not by a second approval of it, not by a  *)
(* resume after a restart ("the tool will not be retried automatically").  *)
(***************************************************************************)
NeverReexecuted ==
    \A d, e \in DOMAIN effects : effects[d][1] = effects[e][1] => d = e

(***************************************************************************)
(* The recorded result tells the truth about the side effect: a denied     *)
(* call did not run, a returned one did, also when recovery writes it.     *)
(***************************************************************************)
TerminalHonest ==
    \A i \in Requests : \A j \in Of(i, "finished") :
        LET ran == \E e \in DOMAIN effects : effects[e][1] = i
        IN /\ log[j].result = "denied" => ~ran
           /\ log[j].result = "returned" => ran \/ log[i].inv = Ask

(***************************************************************************)
(* "Reusable Session and Always approval scopes are reconstructed at       *)
(* startup": what a restart would read from the log is what this process   *)
(* decides by, but for the moment between a resume's claim and its seeding.*)
(***************************************************************************)
GrantsAgree ==
    (\A a \in Approvers : approver[a].pc # "claimed") =>
        \A v \in Guarded :
            /\ Rehydrated(v, "session") \in {NoDecision, perSession[v]}
            /\ Rehydrated(v, "always") \in {NoDecision, global[v]}

(***************************************************************************)
(* "One-shot approval ... unlocks the suspended request exactly once ...;  *)
(* a later request never inherits it, even when a provider repeats the     *)
(* same call identifier and arguments" (event-taxonomy-and-write-path.md). *)
(***************************************************************************)
OnceNotInherited ==
    \A i \in Requests : \A j \in Of(i, "resolved") :
        log[j].decision.scope = "once" => log[j].decision.for = i

(* Every request that stopped has exactly one terminal event, in its turn or *)
(* from recovery, and the event tells the truth about the side effect        *)
(* (record_tool_finished, interrupted_tool_results, the operator's shell     *)
(* command).                                                                 *)
TerminalsSound == ToolTypeOK /\ OneTerminal /\ TerminalHonest
=============================================================================
