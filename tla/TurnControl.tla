----------------------------- MODULE TurnControl -----------------------------
(***************************************************************************)
(* The callers of SessionStore in one server process: the HTTP handlers,   *)
(* the detached turn workers with their watchdogs, the wake pump and       *)
(* startup recovery (crates/bt-server, crates/bt-runtime).                 *)
(*                                                                         *)
(* The store's mutex is the unit of atomicity: everything the code does    *)
(* under one lock is one action, and what it read under an earlier lock is *)
(* kept in the worker or handler and may be stale.  A worker is the task   *)
(* of detach_turn_work and is named after the turn it was spawned for; the *)
(* orchestrator's loop makes it go on with the turns it claims.            *)
(***************************************************************************)
EXTENDS SessionStore

CONSTANTS
    MaxCancels,     \* bound on cancel requests
    MaxClears,      \* bound on queue clear requests
    MaxFailures,    \* bound on turns that end in an error
    MaxPanics,      \* bound on worker tasks that panic or fail to record
    MaxCrashes      \* bound on restarts of the process

ASSUME ControlAssumption ==
    /\ MaxCancels \in Nat /\ MaxClears \in Nat /\ MaxFailures \in Nat
    /\ MaxPanics \in Nat /\ MaxCrashes \in Nat

VARIABLES
    worker,     \* the detached tasks
    entry,      \* active_cancellations: the turn registered, or None
    signalled,  \* the turns whose CancellationSignal is set
    clearing,   \* what a running clear_queued_messages read, {} if none runs
    resumer,    \* the approve_tool and answer_tool handlers, by request
    pumpDue,    \* the wake pump has an event to react to
    count       \* how often each bounded thing happened

controlVars == <<worker, entry, signalled, clearing, resumer, pumpDue, count>>
vars == <<storeVars, controlVars>>

(* The places where a worker drives the turn it owns. *)
OwningPC ==
    {"register", "preflight", "running", "asked", "approving", "result", "finish",
     "resumeRegister", "resumeTool", "resumeCheck"}

(* consume_post_turn_controls, lock by lock. *)
ConsumePC ==
    {"consume", "dropSteers", "dropQueue", "drop", "steers", "claimSteers", "wake",
     "queue", "claimQueue"}

WorkerRecord ==
    [pc: {"off", "error"} \cup OwningPC \cup ConsumePC,
     cur: Turns \cup {None},                \* the turn it is at
     res: FinishStatus,                     \* the outcome it will record
     after: {"route", "discard", "stop"},   \* what follows turn.finished
     steers: SUBSET Steers, queue: SUBSET Messages]  \* what it read

ResumerRecord == [on: BOOLEAN, steers: SUBSET Steers]

(***************************************************************************)
(* Type invariant of the process: task-local variables and the maps of     *)
(* BelltowerRuntime.                                                       *)
(***************************************************************************)
ControlTypeOK ==
    /\ StoreTypeOK
    /\ worker \in [Turns -> WorkerRecord]
    /\ entry \in Turns \cup {None}
    /\ signalled \in SUBSET Turns
    /\ clearing \in SUBSET Messages
    /\ resumer \in [Requests -> ResumerRecord]
    /\ pumpDue \in BOOLEAN
    /\ count \in [cancels: 0..MaxCancels, clears: 0..MaxClears, failures: 0..MaxFailures,
                  panics: 0..MaxPanics, crashes: 0..MaxCrashes]

Off == [pc |-> "off", cur |-> None, res |-> "completed", after |-> "route",
        steers |-> {}, queue |-> {}]

NoResumer == [on |-> FALSE, steers |-> {}]

ControlInit ==
    /\ StoreInit
    /\ worker = [t \in Turns |-> Off]
    /\ entry = None
    /\ signalled = {}
    /\ clearing = {}
    /\ resumer = [r \in Requests |-> NoResumer]
    /\ pumpDue = FALSE
    /\ count = [cancels |-> 0, clears |-> 0, failures |-> 0, panics |-> 0, crashes |-> 0]

-----------------------------------------------------------------------------
(* Tasks. *)

At(w, pc) == worker[w].pc = pc

(* detach_turn_work *)
Detach(t, pc) ==
    worker' = [worker EXCEPT ![t] = [Off EXCEPT !.pc = pc, !.cur = t]]

Goto(w, pc) == worker' = [worker EXCEPT ![w].pc = pc]

(* Mutant of DropGuard: the entry goes whoever registered it. *)
DropGuardAnyway(w) == entry' = None

(* The guard of begin_active_turn_cancellation is dropped: the entry goes   *)
(* if it is still this turn's.                                              *)
DropGuard(w) == entry' = IF entry = worker[w].cur THEN None ELSE entry

(* The task returns. *)
Return(w) == worker' = [worker EXCEPT ![w] = Off] /\ DropGuard(w)

(* apply_cancel_precedence *)
StatusWithPrecedence(status) == IF cancelRequested THEN "cancelled" ELSE status

RequestBranch(r) == turn[request[r].turn].branch

(* claim_next_related_session_message retries a stale claim, so it finds    *)
(* the oldest wake unless the session may not take it.                      *)
WakeClaimable ==
    ~cancelRequested /\ ~HasPendingWork /\ ~BudgetExhausted /\ PendingWakes # {}

-----------------------------------------------------------------------------
(* Operator requests. *)

(* send_message: admit_user_message, then detach_session_turn if started. *)
SendMessage(m, b) ==
    /\ \/ \E t \in Turns :
             /\ AdmitDirect(t, m, b)
             /\ Detach(t, "register")
             /\ pumpDue' = (pumpDue \/ cancelRequested)
       \/ AdmitQueued(m, b) /\ UNCHANGED <<worker, pumpDue>>
    /\ UNCHANGED <<entry, signalled, clearing, resumer, count>>

(* Mutant of CancelSession: signals whatever turn is registered. *)
CancelSessionSignalsAnyone(b) ==
    /\ count.cancels < MaxCancels
    /\ AppendCancel(b)
    /\ signalled' = signalled \cup ({entry} \ {None})
    /\ count' = [count EXCEPT !.cancels = @ + 1]
    /\ UNCHANGED <<worker, entry, clearing, resumer, pumpDue>>

(* cancel_session: the append, and the signal of the registered turn if it  *)
(* is the active one.                                                       *)
CancelSession(b) ==
    /\ count.cancels < MaxCancels
    /\ AppendCancel(b)
    /\ signalled' = signalled \cup (({entry} \cap {active}) \ {None})
    /\ count' = [count EXCEPT !.cancels = @ + 1]
    /\ UNCHANGED <<worker, entry, clearing, resumer, pumpDue>>

(* steer_session *)
SteerSession(s, b) == AppendSteer(s, b) /\ UNCHANGED controlVars

(* clear_queued_messages reads the queue ... *)
ClearReads ==
    /\ count.clears < MaxClears
    /\ clearing = {}
    /\ PendingMessages # {}
    /\ clearing' = PendingMessages
    /\ count' = [count EXCEPT !.clears = @ + 1]
    /\ UNCHANGED <<storeVars, worker, entry, signalled, resumer, pumpDue>>

(* ... and drops what it read under a second lock. *)
ClearDrops ==
    /\ clearing # {}
    /\ AppendQueueDrop(clearing)
    /\ clearing' = {}
    /\ UNCHANGED <<worker, entry, signalled, resumer, pumpDue, count>>

(* approve_tool and answer_tool find the pending call and read the steers   *)
(* of its branch ...                                                        *)
ResumeReads(r) ==
    /\ r \in PendingRequests
    /\ ~resumer[r].on
    /\ resumer' = [resumer EXCEPT ![r] =
                     [on |-> TRUE, steers |-> PendingSteersFor(RequestBranch(r))]]
    /\ UNCHANGED <<storeVars, worker, entry, signalled, clearing, pumpDue, count>>

(* ... and claim the resumed turn, or report why they may not. *)
ResumeClaims(r) ==
    /\ resumer[r].on
    /\ \/ \E t \in Turns :
             /\ ClaimResumed(t, r, resumer[r].steers)
             /\ Detach(t, IF request[r].kind = "approval" THEN "resumeRegister" ELSE "register")
       \/ /\ ~(MayContinue /\ r \in PendingRequests)
          /\ UNCHANGED <<storeVars, worker>>
    /\ resumer' = [resumer EXCEPT ![r] = NoResumer]
    /\ UNCHANGED <<entry, signalled, clearing, pumpDue, count>>

(* configure_session_budget *)
ConfigureBudget(lim) == CommitBudget(lim) /\ UNCHANGED controlVars

(* Mutant of ReceiveWake: the pump is not told. *)
ReceiveWakeSilently(k, b) ==
    /\ CommitWake(k, b)
    /\ UNCHANGED controlVars

(* A wake message of another session arrives; the pump hears of it. *)
ReceiveWake(k, b) ==
    /\ CommitWake(k, b)
    /\ pumpDue' = TRUE
    /\ UNCHANGED <<worker, entry, signalled, clearing, resumer, count>>

(* dispatch_pending_wakes, for one event of the channel; there may be more. *)
PumpDispatches ==
    /\ pumpDue
    /\ \/ \E t \in Turns, k \in Wakes : ClaimWake(t, k) /\ Detach(t, "register")
       \/ ~WakeClaimable /\ UNCHANGED <<storeVars, worker>>
    /\ pumpDue' \in BOOLEAN
    /\ UNCHANGED <<entry, signalled, clearing, resumer, count>>

-----------------------------------------------------------------------------
(* A worker's turn. *)

(* begin_active_turn_cancellation: only for the active turn; the signal is  *)
(* a fresh one, set at once if a cancel is pending.                         *)
Register(w) ==
    LET t == worker[w].cur IN
    /\ At(w, "register") \/ At(w, "resumeRegister")
    /\ active = t
    /\ entry' = t
    /\ signalled' = IF cancelRequested THEN signalled \cup {t} ELSE signalled \ {t}
    /\ Goto(w, IF At(w, "register") THEN "preflight" ELSE "resumeTool")
    /\ UNCHANGED <<storeVars, clearing, resumer, pumpDue, count>>

(* The preflight of run_session_turns: tools, prompt, provider, compaction. *)
(* A set signal wins, and finish_cancelled_turn ends the turn.              *)
Preflight(w) ==
    /\ At(w, "preflight")
    /\ IF worker[w].cur \in signalled
       THEN worker' = [worker EXCEPT ![w] =
                         [@ EXCEPT !.pc = "finish", !.res = "cancelled", !.after = "discard"]]
       ELSE Goto(w, "running")
    /\ UNCHANGED <<storeVars, entry, signalled, clearing, resumer, pumpDue, count>>

(* An error before or in the turn loop, or in the approved tool of a        *)
(* resumed turn: the failure transition is what the turn finishes with.     *)
TurnFails(w) ==
    /\ \/ At(w, "preflight") /\ worker[w].cur \notin signalled
       \/ At(w, "running")
       \/ At(w, "resumeTool") /\ worker[w].cur \notin signalled /\ ~cancelRequested
    /\ count.failures < MaxFailures
    /\ count' = [count EXCEPT !.failures = @ + 1]
    /\ worker' = [worker EXCEPT ![w] = [@ EXCEPT !.pc = "finish", !.res = "failed"]]
    /\ UNCHANGED <<storeVars, entry, signalled, clearing, resumer, pumpDue>>

(* The turn loop returns, by itself or because its signal is set. *)
LoopReturns(w) ==
    /\ At(w, "running")
    /\ worker' = [worker EXCEPT ![w] = [@ EXCEPT !.pc = "result", !.res = "completed"]]
    /\ UNCHANGED <<storeVars, entry, signalled, clearing, resumer, pumpDue, count>>

(* wait_agent: the turn takes wakes addressed to its branch. *)
WaitAgent(w, K) ==
    /\ At(w, "running")
    /\ ClaimWakesForActiveTurn(worker[w].cur, K)
    /\ UNCHANGED controlVars

(* tool_call_requested for "ask": recorded unless a cancel is pending. *)
AskRequested(w, r) ==
    /\ At(w, "running")
    /\ ~cancelRequested
    /\ CommitRequest(worker[w].cur, r, "input")
    /\ Goto(w, "asked")
    /\ UNCHANGED <<entry, signalled, clearing, resumer, pumpDue, count>>

(* The loop then looks at the signal: a cancelled call gets its result, the *)
(* others pause the turn.                                                   *)
AskPauses(w) ==
    LET t == worker[w].cur IN
    /\ At(w, "asked")
    /\ IF t \in signalled
       THEN \E r \in Requests : CommitToolResult(t, r)
       ELSE UNCHANGED storeVars
    /\ worker' = [worker EXCEPT ![w] =
                    [@ EXCEPT !.pc = "result",
                              !.res = IF t \in signalled THEN "completed" ELSE "awaiting"]]
    /\ UNCHANGED <<entry, signalled, clearing, resumer, pumpDue, count>>

(* tool_call_requested for a call whose approval is not decided, while the  *)
(* bound on requests leaves room for it.                                    *)
ApprovalNeeded(w) ==
    /\ At(w, "running")
    /\ ~cancelRequested
    /\ \E r \in Requests : request[r].state = "new"
    /\ Goto(w, "approving")
    /\ UNCHANGED <<storeVars, entry, signalled, clearing, resumer, pumpDue, count>>

(* tool_approval_requested, which does not look for a pending cancel. *)
ApprovalPauses(w) ==
    LET t == worker[w].cur IN
    /\ At(w, "approving")
    /\ IF t \in signalled
       THEN UNCHANGED storeVars
       ELSE \E r \in Requests : CommitRequest(t, r, "approval")
    /\ worker' = [worker EXCEPT ![w] =
                    [@ EXCEPT !.pc = "result",
                              !.res = IF t \in signalled THEN "completed" ELSE "awaiting"]]
    /\ UNCHANGED <<entry, signalled, clearing, resumer, pumpDue, count>>

(* record_turn_result: the messages are appended unless a cancel is pending. *)
RecordResult(w) ==
    /\ At(w, "result")
    /\ worker' = [worker EXCEPT ![w] =
                    [@ EXCEPT !.pc = "finish", !.res = StatusWithPrecedence(worker[w].res)]]
    /\ UNCHANGED <<storeVars, entry, signalled, clearing, resumer, pumpDue, count>>

(* run_resumed_approval_turn: the approved tool has run, or got a cancelled *)
(* result, and its terminal transition is recorded.                         *)
ResumeTool(w) ==
    /\ At(w, "resumeTool")
    /\ Goto(w, "resumeCheck")
    /\ UNCHANGED <<storeVars, entry, signalled, clearing, resumer, pumpDue, count>>

(* Mutant of ResumeCheck: counts approvals that were decided already. *)
ResumeCheckAnyApproval(w) ==
    LET t == worker[w].cur
        otherApproval == \E r \in Requests :
                            /\ request[r].state # "new"
                            /\ request[r].kind = "approval"
                            /\ RequestBranch(r) = turn[t].branch
        finish(res, after) == [worker[w] EXCEPT !.pc = "finish", !.res = res, !.after = after]
    IN  /\ At(w, "resumeCheck")
        /\ worker' = [worker EXCEPT ![w] =
                        IF t \in signalled \/ cancelRequested THEN finish("cancelled", "discard")
                        ELSE IF otherApproval THEN finish("awaiting", "stop")
                        ELSE [@ EXCEPT !.pc = "register"]]
        /\ UNCHANGED <<storeVars, entry, signalled, clearing, resumer, pumpDue, count>>

(* run_resumed_approval_turn, after the tool: finish as cancelled, pause    *)
(* again for another approval of the branch, or run the turn.               *)
ResumeCheck(w) ==
    LET t == worker[w].cur
        otherApproval == \E r \in PendingRequests :
                            request[r].kind = "approval" /\ RequestBranch(r) = turn[t].branch
        finish(res, after) == [worker[w] EXCEPT !.pc = "finish", !.res = res, !.after = after]
    IN  /\ At(w, "resumeCheck")
        /\ worker' = [worker EXCEPT ![w] =
                        IF t \in signalled \/ cancelRequested THEN finish("cancelled", "discard")
                        ELSE IF otherApproval THEN finish("awaiting", "stop")
                        ELSE [@ EXCEPT !.pc = "register"]]
        /\ UNCHANGED <<storeVars, entry, signalled, clearing, resumer, pumpDue, count>>

(* Where the orchestrator goes after turn.finished.  A cancelled turn       *)
(* consumes the controls and discards what that dispatched; a failed one    *)
(* makes the task an error; an exhausted or paused session stops.           *)
AfterFinish(w) ==
    LET me == worker[w] IN
    IF me.after = "stop" THEN Off
    ELSE IF cancelRequested \/ me.after = "discard"
         THEN [me EXCEPT !.pc = "consume", !.after = "discard"]
    ELSE IF me.res = "failed" THEN [Off EXCEPT !.pc = "error"]
    ELSE IF Exhausted(limit, used') \/ me.res = "awaiting" THEN Off
    ELSE [me EXCEPT !.pc = "consume"]

(* commit_active_turn_terminal_events *)
Finish(w) ==
    /\ At(w, "finish")
    /\ CommitTerminal(worker[w].cur, StatusWithPrecedence(worker[w].res))
    /\ worker' = [worker EXCEPT ![w] = AfterFinish(w)]
    /\ IF worker'[w].pc = "consume" THEN UNCHANGED entry ELSE DropGuard(w)
    /\ pumpDue' = TRUE
    /\ UNCHANGED <<signalled, clearing, resumer, count>>

-----------------------------------------------------------------------------
(* consume_post_turn_controls.  Between two of these steps other tasks run. *)

CheckCancel(w) ==
    /\ At(w, "consume")
    /\ Goto(w, IF cancelRequested THEN "dropSteers" ELSE "steers")
    /\ UNCHANGED <<storeVars, entry, signalled, clearing, resumer, pumpDue, count>>

ReadDroppedSteers(w) ==
    /\ At(w, "dropSteers")
    /\ worker' = [worker EXCEPT ![w] = [@ EXCEPT !.pc = "dropQueue", !.steers = PendingSteers]]
    /\ UNCHANGED <<storeVars, entry, signalled, clearing, resumer, pumpDue, count>>

ReadDroppedQueue(w) ==
    /\ At(w, "dropQueue")
    /\ worker' = [worker EXCEPT ![w] = [@ EXCEPT !.pc = "drop", !.queue = PendingMessages]]
    /\ UNCHANGED <<storeVars, entry, signalled, clearing, resumer, pumpDue, count>>

(* The pump hears session.cancel.cleared. *)
DropAll(w) ==
    /\ At(w, "drop")
    /\ AppendCancelConsumed(worker[w].steers, worker[w].queue)
    /\ Return(w)
    /\ pumpDue' = TRUE
    /\ UNCHANGED <<signalled, clearing, resumer, count>>

(* The claim made a turn: the loop runs it, unless the caller of            *)
(* consume_post_turn_controls ignores what it returns.                      *)
ContinueWith(w, t) ==
    /\ worker' = [worker EXCEPT ![w] =
                    IF @.after = "route" THEN [Off EXCEPT !.pc = "register", !.cur = t] ELSE Off]
    /\ DropGuard(w)

(* Mutant of ReadSteers: no steer, nothing to do. *)
ReadSteersOnly(w) ==
    LET S == PendingSteersFor(turn[worker[w].cur].branch) IN
    /\ At(w, "steers")
    /\ IF S = {}
       THEN Return(w)
       ELSE /\ worker' = [worker EXCEPT ![w] = [@ EXCEPT !.pc = "claimSteers", !.steers = S]]
            /\ UNCHANGED entry
    /\ UNCHANGED <<storeVars, signalled, clearing, resumer, pumpDue, count>>

(* apply_pending_steers reads the steers of the branch ... *)
ReadSteers(w) ==
    LET S == PendingSteersFor(turn[worker[w].cur].branch) IN
    /\ At(w, "steers")
    /\ worker' = [worker EXCEPT ![w] =
                    [@ EXCEPT !.pc = IF S = {} THEN "wake" ELSE "claimSteers", !.steers = S]]
    /\ UNCHANGED <<storeVars, entry, signalled, clearing, resumer, pumpDue, count>>

(* ... and claims them: busy, cancelled, exhausted and stale mean no. *)
ApplyPendingSteers(w) ==
    LET b == turn[worker[w].cur].branch IN
    /\ At(w, "claimSteers")
    /\ \/ \E t \in Turns : ClaimSteers(t, b, worker[w].steers) /\ ContinueWith(w, t)
       \/ /\ ~(MayContinue /\ worker[w].steers = PendingSteersFor(b))
          /\ Goto(w, "wake")
          /\ UNCHANGED <<storeVars, entry>>
    /\ UNCHANGED <<signalled, clearing, resumer, pumpDue, count>>

(* claim_next_related_session_message *)
ClaimNextWake(w) ==
    /\ At(w, "wake")
    /\ \/ \E t \in Turns, k \in Wakes : ClaimWake(t, k) /\ ContinueWith(w, t)
       \/ ~WakeClaimable /\ Goto(w, "queue") /\ UNCHANGED <<storeVars, entry>>
    /\ UNCHANGED <<signalled, clearing, resumer, pumpDue, count>>

(* dispatch_next_queued_message reads the head of the queue ... *)
ReadQueue(w) ==
    /\ At(w, "queue")
    /\ \/ \E m \in Messages :
             /\ IsOldest(m, PendingMessages)
             /\ worker' = [worker EXCEPT ![w] = [@ EXCEPT !.pc = "claimQueue", !.queue = {m}]]
             /\ UNCHANGED entry
       \/ PendingMessages = {} /\ Return(w)
    /\ UNCHANGED <<storeVars, signalled, clearing, resumer, pumpDue, count>>

(* ... and claims it. *)
DispatchNextQueued(w) ==
    /\ At(w, "claimQueue")
    /\ \E m \in worker[w].queue :
          \/ \E t \in Turns : ClaimQueued(t, m) /\ ContinueWith(w, t)
          \/ /\ ~(MayContinue /\ IsOldest(m, PendingMessages))
             /\ Return(w)
             /\ UNCHANGED storeVars
    /\ UNCHANGED <<signalled, clearing, resumer, pumpDue, count>>

-----------------------------------------------------------------------------
(* Failures. *)

(* A task panics, or one of its calls fails and it returns the error. *)
Panic(w) ==
    /\ worker[w].pc \notin {"off", "error"}
    /\ count.panics < MaxPanics
    /\ count' = [count EXCEPT !.panics = @ + 1]
    /\ worker' = [worker EXCEPT ![w] = [Off EXCEPT !.pc = "error"]]
    /\ DropGuard(w)
    /\ UNCHANGED <<storeVars, signalled, clearing, resumer, pumpDue>>

(* Mutant of Watchdog: fails whatever turn is active. *)
WatchdogFailsActive(w) ==
    /\ At(w, "error")
    /\ IF active # None
       THEN CommitTerminal(active, StatusWithPrecedence("failed")) /\ pumpDue' = TRUE
       ELSE UNCHANGED <<storeVars, pumpDue>>
    /\ worker' = [worker EXCEPT ![w] = Off]
    /\ UNCHANGED <<entry, signalled, clearing, resumer, count>>

(* The watchdog of detach_turn_work fails the turn the task was spawned for *)
(* if that turn is still active.                                            *)
Watchdog(w) ==
    /\ At(w, "error")
    /\ IF active = w
       THEN CommitTerminal(w, StatusWithPrecedence("failed")) /\ pumpDue' = TRUE
       ELSE UNCHANGED <<storeVars, pumpDue>>
    /\ worker' = [worker EXCEPT ![w] = Off]
    /\ UNCHANGED <<entry, signalled, clearing, resumer, count>>

(* Mutant of Restart: the active row is deleted and the turn left open. *)
RestartForgetsTurn ==
    /\ count.crashes < MaxCrashes
    /\ active' = None
    /\ worker' = [t \in Turns |-> Off]
    /\ entry' = None
    /\ signalled' = {}
    /\ clearing' = {}
    /\ resumer' = [r \in Requests |-> NoResumer]
    /\ pumpDue' = TRUE
    /\ count' = [count EXCEPT !.crashes = @ + 1]
    /\ UNCHANGED <<turn, cancelRequested, cancelSeen, message, steer, request, wake, limit, used>>

(* The process dies and the next one opens the runtime: the unfinished turn *)
(* is recovered as failed, and then pending wakes are claimed, which is the *)
(* pump's step.  A waiting operator request survives.                       *)
Restart ==
    /\ count.crashes < MaxCrashes
    /\ IF active = None
       THEN UNCHANGED storeVars
       ELSE CommitTerminal(active, StatusWithPrecedence("failed"))
    /\ worker' = [t \in Turns |-> Off]
    /\ entry' = None
    /\ signalled' = {}
    /\ clearing' = {}
    /\ resumer' = [r \in Requests |-> NoResumer]
    /\ pumpDue' = TRUE
    /\ count' = [count EXCEPT !.crashes = @ + 1]

-----------------------------------------------------------------------------
OperatorStep ==
    \/ \E m \in Messages, b \in Branches : SendMessage(m, b)
    \/ \E b \in Branches : CancelSession(b)
    \/ \E s \in Steers, b \in Branches : SteerSession(s, b)
    \/ ClearReads
    \/ \E r \in Requests : ResumeReads(r)
    \/ \E lim \in Limits : ConfigureBudget(lim)
    \/ \E k \in Wakes, b \in Branches : ReceiveWake(k, b)

(* What a handler goes on to do once it has started. *)
HandlerStep == ClearDrops \/ \E r \in Requests : ResumeClaims(r)

TurnStep(w) ==
    \/ Register(w)
    \/ Preflight(w)
    \/ LoopReturns(w)
    \/ AskPauses(w)
    \/ ApprovalPauses(w)
    \/ RecordResult(w)
    \/ ResumeTool(w)
    \/ ResumeCheck(w)
    \/ Finish(w)

ConsumeStep(w) ==
    \/ CheckCancel(w)
    \/ ReadDroppedSteers(w)
    \/ ReadDroppedQueue(w)
    \/ DropAll(w)
    \/ ReadSteers(w)
    \/ ApplyPendingSteers(w)
    \/ ClaimNextWake(w)
    \/ ReadQueue(w)
    \/ DispatchNextQueued(w)

(* What the model and the tools of a turn may do, and need not. *)
ModelStep(w) ==
    \/ TurnFails(w)
    \/ \E K \in SUBSET Wakes : WaitAgent(w, K)
    \/ \E r \in Requests : AskRequested(w, r)
    \/ ApprovalNeeded(w)

WorkerStep(w) == TurnStep(w) \/ ConsumeStep(w) \/ Watchdog(w)

ControlNext ==
    \/ OperatorStep
    \/ HandlerStep
    \/ PumpDispatches
    \/ \E w \in Turns : WorkerStep(w) \/ ModelStep(w) \/ Panic(w)
    \/ Restart

ControlSpec == ControlInit /\ [][ControlNext]_vars

(***************************************************************************)
(* Spawned tasks run: every worker, watchdog and handler that can take its *)
(* next step takes it, and the pump reads its channel.  Operators, models, *)
(* failures and crashes owe nothing.                                       *)
(***************************************************************************)
FairSpec ==
    /\ ControlSpec
    /\ \A w \in Turns : WF_vars(WorkerStep(w))
    /\ WF_vars(ClearDrops)
    /\ \A r \in Requests : WF_vars(ResumeClaims(r))
    /\ WF_vars(PumpDispatches)

-----------------------------------------------------------------------------
(* Properties. *)

(***************************************************************************)
(* Every step of the process is a transaction of the store or leaves the   *)
(* store alone, whatever tasks interleave and wherever it crashes.         *)
(***************************************************************************)
ImplementsStore == StoreSpec

(***************************************************************************)
(* A worker that drives a turn owns it: its turn is the session's active   *)
(* turn and no other worker drives it, so neither the watchdog of another  *)
(* task nor a late consumer can take a running turn away.                  *)
(***************************************************************************)
WorkerOwnsTurn ==
    \A w \in Turns : worker[w].pc \in OwningPC =>
        /\ active = worker[w].cur
        /\ \A v \in Turns \ {w} : worker[v].pc \notin OwningPC

(***************************************************************************)
(* No cancel is missed by the turn it is for: once a worker has registered *)
(* its turn, a pending cancel has set that turn's signal, whichever of     *)
(* registration, cancel and the guard of an earlier turn came first        *)
(* (begin_active_turn_cancellation).                                       *)
(***************************************************************************)
CancelHeard ==
    \A w \in Turns :
        worker[w].pc \in OwningPC \ {"register", "resumeRegister"} /\ cancelRequested
            => worker[w].cur \in signalled

(***************************************************************************)
(* A signal is never set for a turn no operator cancelled.                 *)
(***************************************************************************)
SignalExact == signalled \subseteq cancelSeen

(***************************************************************************)
(* A session whose last turn paused has the request it paused for: were    *)
(* there none, no operation could resume it.                               *)
(***************************************************************************)
PausedHasRequest ==
    \A t \in Turns :
        turn[t].status = "awaiting" /\ (\A u \in Turns : u > t => turn[u].status = "unused")
            => PendingRequests # {}

(***************************************************************************)
(* The operator's cancel wins: a turn during which session.cancelled was   *)
(* committed ends as cancelled, or runs still.                             *)
(***************************************************************************)
CancelWins == \A t \in cancelSeen : turn[t].status \in {"active", "cancelled"}

(***************************************************************************)
(* A queued message that got its turn is not recorded as dropped.          *)
(***************************************************************************)
NotRunAndDropped ==
    \A t \in Turns : turn[t].message # None => message[turn[t].message].state # "dropped"

(***************************************************************************)
(* A pending approval or answer holds the session: as long as it waits, no *)
(* turn runs but the one that made it and one that resumes another.        *)
(***************************************************************************)
RequestsBlock ==
    active # None /\ turn[active].request = None
        => \A r \in PendingRequests : request[r].turn = active

(***************************************************************************)
(* A steer goes into one turn.                                             *)
(***************************************************************************)
SteerAppliedOnce ==
    \A t, u \in Turns : turn[t].steers \cap turn[u].steers # {} => t = u

(***************************************************************************)
(* Every active turn has a task that will finish it: a worker that drives  *)
(* it, or the watchdog of the task spawned for it.                         *)
(***************************************************************************)
ActiveTurnIsSupervised ==
    active # None =>
        \/ \E w \in Turns : worker[w].pc \in OwningPC /\ worker[w].cur = active
        \/ At(active, "error")

(***************************************************************************)
(* What the proofs of WorkerOwnsTurn and CancelHeard need besides them.    *)
(***************************************************************************)

(* A task under way is at a turn that has started; so is the turn it was    *)
(* spawned for.                                                             *)
CursorKnown ==
    \A w \in Turns : worker[w].pc \notin {"off", "error"} => worker[w].cur \in Turns

WorkerStarted == \A w \in Turns : worker[w].pc # "off" => turn[w].status # "unused"

(* A turn that was claimed by the worker of another has no worker of its    *)
(* own: the watchdog that could fail it does not exist.                     *)
ContinuationAlone ==
    \A w \in Turns :
        worker[w].pc \in OwningPC /\ worker[w].cur # w => worker[worker[w].cur].pc = "off"

(* A registered turn holds the entry of active_cancellations, and the turn  *)
(* of a worker that consumes the controls has finished.                     *)
RegisteredPC == OwningPC \ {"register", "resumeRegister"}

RegisteredEntry ==
    \A w \in Turns : worker[w].pc \in RegisteredPC => entry = worker[w].cur

ConsumerDone ==
    \A w \in Turns : worker[w].pc \in ConsumePC => turn[worker[w].cur].status \in FinishStatus

(* No task and no handler of the session is under way. *)
Quiescent ==
    /\ active = None
    /\ \A w \in Turns : At(w, "off")
    /\ clearing = {}
    /\ \A r \in Requests : ~resumer[r].on
    /\ ~pumpDue

(***************************************************************************)
(* A turn that started finishes.                                           *)
(***************************************************************************)
TurnsFinish == \A t \in Turns : turn[t].status = "active" ~> turn[t].status # "active"

(***************************************************************************)
(* A queued message is dispatched or dropped, unless the session waits for *)
(* the operator's answer.                                                  *)
(***************************************************************************)
MessagesAnswered ==
    \A m \in Messages : message[m].state = "pending" ~>
        (message[m].state # "pending" \/ PendingRequests # {})

(***************************************************************************)
(* A wake message is claimed, unless the session waits for the operator's  *)
(* answer: the pump and the post-turn controls between them forget none.   *)
(***************************************************************************)
WakesClaimed ==
    \A k \in Wakes : wake[k].state = "pending" ~>
        (wake[k].state # "pending" \/ PendingRequests # {})

(***************************************************************************)
(* A steer is applied or dropped in the end.                               *)
(***************************************************************************)
SteersResolved ==
    \A s \in Steers : steer[s].state = "pending" ~> steer[s].state # "pending"

(***************************************************************************)
(* When everything has settled under a pending cancel, an operator's new   *)
(* message can supersede it: it will be admitted, not queued behind work   *)
(* that nobody may start.                                                  *)
(***************************************************************************)
CancelCanBeSuperseded == Quiescent /\ cancelRequested => ~HasPendingWork
=============================================================================
