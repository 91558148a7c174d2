---------------------------- MODULE SessionStore ----------------------------
(***************************************************************************)
(* The durable control state of one Belltower session and the SQLite       *)
(* transactions that change it (crates/bt-session).                        *)
(*                                                                         *)
(* Every state change of a session is an event appended in a transaction   *)
(* that refreshes the projections before it commits, so the projections    *)
(* are the state and a transaction is one action.  Turns, queued messages, *)
(* steers, operator requests (a tool call waiting for an approval or for   *)
(* an answer) and wake messages are numbered in the order of the event     *)
(* that created them: the number stands for source_seq, the column every   *)
(* "oldest first" query of the store orders by.                            *)
(*                                                                         *)
(* The module makes no assumption on who calls a transaction or when:      *)
(* StoreNext lets any caller run any of them at any time with any          *)
(* arguments.  TurnControl has the runtime's callers.                      *)
(***************************************************************************)
EXTENDS Naturals

CONSTANTS
    Branches,       \* the branches of the session
    MaxTurns,       \* bound on turn.started events
    MaxMessages,    \* bound on user messages admitted
    MaxSteers,      \* bound on session.steered events
    MaxRequests,    \* bound on operator requests
    MaxWakes,       \* bound on wake messages received
    Limits,         \* the max_turns values budget.configured may set
    NoLimit         \* the session has no session_budget_projection row

ASSUME StoreAssumption ==
    /\ Branches # {}
    /\ MaxTurns \in Nat /\ MaxMessages \in Nat /\ MaxSteers \in Nat
    /\ MaxRequests \in Nat /\ MaxWakes \in Nat
    /\ Limits \subseteq Nat
    /\ NoLimit \notin Nat

Turns    == 1 .. MaxTurns
Messages == 1 .. MaxMessages
Steers   == 1 .. MaxSteers
Requests == 1 .. MaxRequests
Wakes    == 1 .. MaxWakes

(* 0 is nobody's number: no turn, no message, no request, no wake. *)
None == 0

TurnStatus == {"unused", "active", "completed", "awaiting", "cancelled", "failed"}

(* The outcomes a turn.finished event carries. *)
FinishStatus == TurnStatus \ {"unused", "active"}

VARIABLES
    active,     \* the turn in active_turn_projection, or None
    turn,       \* turn.started / turn.finished: what each turn was started for
    cancelRequested, \* session_control_projection.cancel_requested
    cancelSeen, \* the turns during which an operator's session.cancelled was committed
    message,    \* user messages and their row in queued_message_projection
    steer,      \* steer_projection
    request,    \* approval_projection and the "ask" rows of tool_run_projection
    wake,       \* the received wake rows of related_session_message_projection
    limit,      \* session_budget_projection.max_turns
    used        \* session_budget_projection.turns_used

storeVars == <<active, turn, cancelRequested, cancelSeen, message, steer,
               request, wake, limit, used>>

TurnRecord ==
    [status: TurnStatus, branch: Branches, message: Messages \cup {None},
     steers: SUBSET Steers, request: Requests \cup {None}]

MessageRecord ==
    [state: {"new", "direct", "pending", "dispatched", "dropped"}, branch: Branches]

SteerRecord == [state: {"new", "pending", "applied", "dropped"}, branch: Branches]

RequestRecord ==
    [state: {"new", "pending", "resolved"}, kind: {"approval", "input"},
     turn: Turns \cup {None}]

(* turn is the resulting_turn_id of the claim. *)
WakeRecord ==
    [state: {"new", "pending", "claimed"}, branch: Branches, turn: Turns \cup {None}]

(***************************************************************************)
(* Type invariant: the rows of the projections have the columns the schema *)
(* gives them.                                                             *)
(***************************************************************************)
StoreTypeOK ==
    /\ active \in Turns \cup {None}
    /\ turn \in [Turns -> TurnRecord]
    /\ cancelRequested \in BOOLEAN
    /\ cancelSeen \in SUBSET Turns
    /\ message \in [Messages -> MessageRecord]
    /\ steer \in [Steers -> SteerRecord]
    /\ request \in [Requests -> RequestRecord]
    /\ wake \in [Wakes -> WakeRecord]
    /\ limit \in Limits \cup {NoLimit}
    /\ used \in Nat

(* Any branch will do for a row that has not been written. *)
SomeBranch == CHOOSE b \in Branches : TRUE

StoreInit ==
    /\ active = None
    /\ turn = [t \in Turns |->
                 [status |-> "unused", branch |-> SomeBranch, message |-> None,
                  steers |-> {}, request |-> None]]
    /\ cancelRequested = FALSE
    /\ cancelSeen = {}
    /\ message = [m \in Messages |-> [state |-> "new", branch |-> SomeBranch]]
    /\ steer = [s \in Steers |-> [state |-> "new", branch |-> SomeBranch]]
    /\ request = [r \in Requests |->
                    [state |-> "new", kind |-> "approval", turn |-> None]]
    /\ wake = [k \in Wakes |->
                 [state |-> "new", branch |-> SomeBranch, turn |-> None]]
    /\ limit = NoLimit
    /\ used = 0

-----------------------------------------------------------------------------
(* What the projections say. *)

(* The event that creates row x of table f is the next one of its kind. *)
FreshTurn(t) ==
    /\ turn[t].status = "unused"
    /\ \A u \in Turns : u < t => turn[u].status # "unused"

Fresh(f, x) ==
    /\ f[x].state = "new"
    /\ \A y \in DOMAIN f : y < x => f[y].state # "new"

PendingMessages == {m \in Messages : message[m].state = "pending"}

PendingSteers == {s \in Steers : steer[s].state = "pending"}

PendingSteersFor(b) == {s \in PendingSteers : steer[s].branch = b}

PendingRequests == {r \in Requests : request[r].state = "pending"}

PendingWakes == {k \in Wakes : wake[k].state = "pending"}

IsOldest(x, S) == x \in S /\ \A y \in S : x <= y

Exhausted(lim, n) == lim # NoLimit /\ n >= lim

BudgetExhausted == Exhausted(limit, used)

(* session_has_pending_work_in_tx *)
HasPendingWork ==
    \/ active # None
    \/ PendingRequests # {}
    \/ PendingMessages # {}
    \/ PendingSteers # {}

-----------------------------------------------------------------------------
(* Transactions. *)

(* turn.started inserts the session's only active_turn_projection row; the  *)
(* insert fails, and with it the transaction, if there is one.              *)
StartTurn(t, b, m, S, r) ==
    /\ active = None
    /\ FreshTurn(t)
    /\ active' = t
    /\ turn' = [turn EXCEPT ![t] =
                  [status |-> "active", branch |-> b, message |-> m,
                   steers |-> S, request |-> r]]

(* Rows of f in S get the given state, whatever state they are in: the      *)
(* resolution events update their row unconditionally.                      *)
Resolve(f, S, state) ==
    [x \in DOMAIN f |-> IF x \in S THEN [f[x] EXCEPT !.state = state] ELSE f[x]]

(* admit_turn_or_queue, the idle outcome: session.cancel.cleared if a       *)
(* cancel is pending, then the message and turn.started.                    *)
AdmitDirect(t, m, b) ==
    /\ ~BudgetExhausted
    /\ ~HasPendingWork
    /\ Fresh(message, m)
    /\ message' = [message EXCEPT ![m] = [state |-> "direct", branch |-> b]]
    /\ cancelRequested' = FALSE
    /\ StartTurn(t, b, m, {}, None)
    /\ UNCHANGED <<cancelSeen, steer, request, wake, limit, used>>

(* admit_turn_or_queue, the busy outcome. *)
AdmitQueued(m, b) ==
    /\ ~BudgetExhausted
    /\ HasPendingWork
    /\ Fresh(message, m)
    /\ message' = [message EXCEPT ![m] = [state |-> "pending", branch |-> b]]
    /\ UNCHANGED <<active, turn, cancelRequested, cancelSeen, steer, request,
                   wake, limit, used>>

(* Mutant of MayContinue: the pending cancel is not looked at. *)
MayContinueDespiteCancel == active = None /\ ~BudgetExhausted

(* The checks the queue and steer claims make before they look at the work. *)
MayContinue == ~cancelRequested /\ active = None /\ ~BudgetExhausted

(* Mutant of ClaimQueued: any pending message, not the head of the queue. *)
ClaimQueuedAnywhere(t, m) ==
    /\ MayContinue
    /\ m \in PendingMessages
    /\ message' = [message EXCEPT ![m].state = "dispatched"]
    /\ StartTurn(t, message[m].branch, m, {}, None)
    /\ UNCHANGED <<cancelRequested, cancelSeen, steer, request, wake, limit, used>>

(* Mutant of ClaimQueued: the message's row is left pending. *)
ClaimQueuedKeepsRow(t, m) ==
    /\ MayContinue
    /\ IsOldest(m, PendingMessages)
    /\ StartTurn(t, message[m].branch, m, {}, None)
    /\ UNCHANGED <<cancelRequested, cancelSeen, message, steer, request, wake, limit, used>>

(* claim_queued_continuation: m is the message the caller read as the head  *)
(* of the queue, and it must still be.                                      *)
ClaimQueued(t, m) ==
    /\ MayContinue
    /\ IsOldest(m, PendingMessages)
    /\ message' = [message EXCEPT ![m].state = "dispatched"]
    /\ StartTurn(t, message[m].branch, m, {}, None)
    /\ UNCHANGED <<cancelRequested, cancelSeen, steer, request, wake, limit, used>>

(* claim_steer_continuation: S is the set of steers the caller read, and it *)
(* must still be all the pending steers of the branch.                      *)
ClaimSteers(t, b, S) ==
    /\ MayContinue
    /\ S # {}
    /\ S = PendingSteersFor(b)
    /\ steer' = Resolve(steer, S, "applied")
    /\ StartTurn(t, b, None, S, None)
    /\ UNCHANGED <<cancelRequested, cancelSeen, message, request, wake, limit, used>>

(* claim_related_message_continuation *)
ClaimWake(t, k) ==
    /\ ~cancelRequested
    /\ ~HasPendingWork
    /\ ~BudgetExhausted
    /\ IsOldest(k, PendingWakes)
    /\ wake' = [wake EXCEPT ![k] = [@ EXCEPT !.state = "claimed", !.turn = t]]
    /\ StartTurn(t, wake[k].branch, None, {}, None)
    /\ UNCHANGED <<cancelRequested, cancelSeen, message, steer, request, limit, used>>

(* claim_related_messages_for_active_turn: wait_agent hands the wakes K to  *)
(* the turn that waits for them.                                            *)
ClaimWakesForActiveTurn(t, K) ==
    /\ active = t
    /\ t # None
    /\ K # {}
    /\ \A k \in K : k \in PendingWakes /\ wake[k].branch = turn[t].branch
    /\ wake' = [k \in Wakes |->
                  IF k \in K THEN [wake[k] EXCEPT !.state = "claimed", !.turn = t]
                  ELSE wake[k]]
    /\ UNCHANGED <<active, turn, cancelRequested, cancelSeen, message, steer,
                   request, limit, used>>

(* claim_resumed_continuation: the request must be pending; the steers the  *)
(* caller read earlier are marked applied without being looked at again.    *)
ClaimResumed(t, r, S) ==
    /\ MayContinue
    /\ r \in PendingRequests
    /\ S \subseteq {s \in Steers : steer[s].state # "new"}
    /\ request' = [request EXCEPT ![r].state = "resolved"]
    /\ steer' = Resolve(steer, S, "applied")
    /\ StartTurn(t, turn[request[r].turn].branch, None, S, r)
    /\ UNCHANGED <<cancelRequested, cancelSeen, message, wake, limit, used>>

(* commit_active_turn_events with a tool request that waits for the         *)
(* operator: tool.approval.requested, or tool.call.requested for "ask".     *)
CommitRequest(t, r, kind) ==
    /\ active = t
    /\ t # None
    /\ Fresh(request, r)
    /\ request' = [request EXCEPT ![r] =
                     [state |-> "pending", kind |-> kind, turn |-> t]]
    /\ UNCHANGED <<active, turn, cancelRequested, cancelSeen, message, steer,
                   wake, limit, used>>

(* commit_active_turn_events with the result of an "ask" call the turn      *)
(* itself answers, because it was cancelled before it paused.               *)
CommitToolResult(t, r) ==
    /\ active = t
    /\ r \in PendingRequests
    /\ request[r].kind = "input"
    /\ request[r].turn = t
    /\ request' = [request EXCEPT ![r].state = "resolved"]
    /\ UNCHANGED <<active, turn, cancelRequested, cancelSeen, message, steer,
                   wake, limit, used>>

(* Mutant of CommitTerminal: without ensure_active_turn_owner_in_tx. *)
CommitTerminalUnowned(t, status) ==
    /\ turn[t].status # "unused"
    /\ active' = None
    /\ turn' = [turn EXCEPT ![t].status = status]
    /\ used' = IF limit = NoLimit THEN used ELSE used + 1
    /\ cancelRequested' = (cancelRequested \/ Exhausted(limit, used'))
    /\ UNCHANGED <<cancelSeen, message, steer, request, wake, limit>>

(* commit_turn_terminal_transition, and commit_budget_terminal_transition   *)
(* when the session has a budget: the exact owner finishes the turn; the    *)
(* checkpoint counts it and the budget's own cancellation is added when the *)
(* count reaches the limit.                                                 *)
CommitTerminal(t, status) ==
    /\ active = t
    /\ t # None
    /\ active' = None
    /\ turn' = [turn EXCEPT ![t].status = status]
    /\ used' = IF limit = NoLimit THEN used ELSE used + 1
    /\ cancelRequested' = (cancelRequested \/ Exhausted(limit, used'))
    /\ UNCHANGED <<cancelSeen, message, steer, request, wake, limit>>

(* append_event(session.cancelled), under the store lock of cancel_session *)
AppendCancel(b) ==
    /\ active # None => turn[active].branch = b
    /\ cancelRequested' = TRUE
    /\ cancelSeen' = IF active = None THEN cancelSeen ELSE cancelSeen \cup {active}
    /\ UNCHANGED <<active, turn, message, steer, request, wake, limit, used>>

(* append_event(session.steered) *)
AppendSteer(s, b) ==
    /\ active # None => turn[active].branch = b
    /\ Fresh(steer, s)
    /\ steer' = [steer EXCEPT ![s] = [state |-> "pending", branch |-> b]]
    /\ UNCHANGED <<active, turn, cancelRequested, cancelSeen, message, request,
                   wake, limit, used>>

(* append_events with session.queued_message.resolved(dropped) for each of Q *)
AppendQueueDrop(Q) ==
    /\ Q \subseteq {m \in Messages : message[m].state \notin {"new", "direct"}}
    /\ message' = Resolve(message, Q, "dropped")
    /\ UNCHANGED <<active, turn, cancelRequested, cancelSeen, steer, request,
                   wake, limit, used>>

(* append_events of consume_post_turn_controls: session.cancel.cleared, the *)
(* steers S dropped and the queued messages Q dropped.                      *)
AppendCancelConsumed(S, Q) ==
    /\ S \subseteq {s \in Steers : steer[s].state # "new"}
    /\ Q \subseteq {m \in Messages : message[m].state \notin {"new", "direct"}}
    /\ cancelRequested' = FALSE
    /\ steer' = Resolve(steer, S, "dropped")
    /\ message' = Resolve(message, Q, "dropped")
    /\ UNCHANGED <<active, turn, cancelSeen, request, wake, limit, used>>

(* commit_related_session_message, the received copy of a wake message *)
CommitWake(k, b) ==
    /\ Fresh(wake, k)
    /\ wake' = [wake EXCEPT ![k] =
                  [state |-> "pending", branch |-> b, turn |-> None]]
    /\ UNCHANGED <<active, turn, cancelRequested, cancelSeen, message, steer,
                   request, limit, used>>

(* Mutant of CommitBudget: accepted while a turn runs. *)
CommitBudgetAnytime(lim) ==
    /\ limit' = lim
    /\ cancelRequested' = (cancelRequested \/ Exhausted(lim, used))
    /\ UNCHANGED <<active, turn, cancelSeen, message, steer, request, wake, used>>

(* commit_budget_configuration *)
CommitBudget(lim) ==
    /\ active = None
    /\ limit' = lim
    /\ cancelRequested' = (cancelRequested \/ Exhausted(lim, used))
    /\ UNCHANGED <<active, turn, cancelSeen, message, steer, request, wake, used>>

-----------------------------------------------------------------------------
StoreNext ==
    \/ \E t \in Turns, m \in Messages, b \in Branches : AdmitDirect(t, m, b)
    \/ \E m \in Messages, b \in Branches : AdmitQueued(m, b)
    \/ \E t \in Turns, m \in Messages : ClaimQueued(t, m)
    \/ \E t \in Turns, b \in Branches, S \in SUBSET Steers : ClaimSteers(t, b, S)
    \/ \E t \in Turns, k \in Wakes : ClaimWake(t, k)
    \/ \E t \in Turns, K \in SUBSET Wakes : ClaimWakesForActiveTurn(t, K)
    \/ \E t \in Turns, r \in Requests, S \in SUBSET Steers : ClaimResumed(t, r, S)
    \/ \E t \in Turns, r \in Requests, kind \in {"approval", "input"} :
          CommitRequest(t, r, kind)
    \/ \E t \in Turns, r \in Requests : CommitToolResult(t, r)
    \/ \E t \in Turns, status \in FinishStatus : CommitTerminal(t, status)
    \/ \E b \in Branches : AppendCancel(b)
    \/ \E s \in Steers, b \in Branches : AppendSteer(s, b)
    \/ \E Q \in SUBSET Messages : AppendQueueDrop(Q)
    \/ \E S \in SUBSET Steers, Q \in SUBSET Messages : AppendCancelConsumed(S, Q)
    \/ \E k \in Wakes, b \in Branches : CommitWake(k, b)
    \/ \E lim \in Limits : CommitBudget(lim)

StoreSpec == StoreInit /\ [][StoreNext]_storeVars

-----------------------------------------------------------------------------
(* Properties. *)

(***************************************************************************)
(* A session never runs two turns: the turns that have started and not     *)
(* finished are exactly the one row of active_turn_projection.             *)
(***************************************************************************)
OneActiveTurn == {t \in Turns : turn[t].status = "active"} = {active} \ {None}

(***************************************************************************)
(* No message overtakes another: once the turn of a message has started,   *)
(* through admission or through a queue claim, no earlier message of the   *)
(* session is waiting.                                                     *)
(***************************************************************************)
QueueOrder ==
    \A m, n \in Messages :
        m < n /\ message[n].state \in {"direct", "dispatched"}
            => message[m].state \notin {"new", "pending"}

(***************************************************************************)
(* Work is claimed once: no message and no operator request starts two     *)
(* turns, whatever callers race for it.                                    *)
(***************************************************************************)
ClaimedOnce ==
    \A t, u \in Turns :
        /\ turn[t].message # None /\ turn[t].message = turn[u].message => t = u
        /\ turn[t].request # None /\ turn[t].request = turn[u].request => t = u

(***************************************************************************)
(* A pending cancel is the cancel of the turn that runs: no turn starts    *)
(* under a cancel requested before it, neither an operator's nor the       *)
(* budget's.                                                               *)
(***************************************************************************)
CancelAddressed == cancelRequested /\ active # None => active \in cancelSeen

(***************************************************************************)
(* No turn runs in a session whose budget is exhausted: every way to start *)
(* a turn checks, and the budget changes only while the session is idle.   *)
(***************************************************************************)
NoTurnOverBudget == BudgetExhausted => active = None

(***************************************************************************)
(* What the proofs of the properties need besides the properties: messages *)
(* are numbered without gaps, a pending request belongs to a turn, and     *)
(* what a turn was started for is no longer pending.                       *)
(***************************************************************************)
MessagesNumbered ==
    \A m, n \in Messages :
        m < n /\ message[n].state # "new" => message[m].state # "new"

RequestsOwned == \A r \in PendingRequests : request[r].turn \in Turns

SourcesConsumed ==
    \A t \in Turns :
        /\ turn[t].message # None =>
              message[turn[t].message].state \in {"direct", "dispatched", "dropped"}
        /\ turn[t].request # None => request[turn[t].request].state = "resolved"

(***************************************************************************)
(* turn.finished is final: a finished turn is never reopened, and its      *)
(* outcome and the work it was started for are never rewritten.            *)
(***************************************************************************)
TerminalIsFinal ==
    [][\A t \in Turns : turn[t].status \in FinishStatus => turn'[t] = turn[t]]_storeVars
=============================================================================
