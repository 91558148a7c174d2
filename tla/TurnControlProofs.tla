-------------------------- MODULE TurnControlProofs --------------------------
(***************************************************************************)
(* The server process is a correct caller of the store: its steps are      *)
(* transactions of SessionStore, a worker that drives a turn owns it, and  *)
(* a cancel reaches exactly the turn it was requested for.  Nothing here   *)
(* depends on the number of turns, messages, steers, requests, wakes or    *)
(* failures.                                                               *)
(***************************************************************************)
EXTENDS TurnControl, SessionStoreProofs

-----------------------------------------------------------------------------
(* The process implements the store. *)

(* A worker's outcome is one turn.finished may carry. *)
LEMMA OutcomeType ==
  ASSUME ControlTypeOK, NEW status \in FinishStatus
  PROVE  StatusWithPrecedence(status) \in FinishStatus
BY DEF StatusWithPrecedence, FinishStatus, TurnStatus

(* The fields of a task have their types. *)
LEMMA WorkerResType ==
  ASSUME ControlTypeOK, NEW w \in Turns
  PROVE  worker[w].res \in FinishStatus /\ worker[w].cur \in Turns \cup {None}
         /\ worker[w].steers \in SUBSET Steers /\ worker[w].queue \in SUBSET Messages
BY DEF ControlTypeOK, WorkerRecord

(* A request or a handler step is a transaction or leaves the store alone. *)
LEMMA OperatorStore ==
  ASSUME ControlTypeOK, RequestsOwned, OperatorStep \/ HandlerStep
  PROVE  StoreNext \/ UNCHANGED storeVars
<1>1. ASSUME NEW m \in Messages, NEW b \in Branches, SendMessage(m, b)
      PROVE  StoreNext
  BY <1>1 DEF SendMessage, StoreNext
<1>2. ASSUME NEW b \in Branches, CancelSession(b)
      PROVE  StoreNext
  BY <1>2 DEF CancelSession, StoreNext
<1>3. ASSUME NEW s \in Steers, NEW b \in Branches, SteerSession(s, b)
      PROVE  StoreNext
  BY <1>3 DEF SteerSession, StoreNext
<1>4. ASSUME NEW lim \in Limits, ConfigureBudget(lim)
      PROVE  StoreNext
  BY <1>4 DEF ConfigureBudget, StoreNext
<1>5. ASSUME NEW k \in Wakes, NEW b \in Branches, ReceiveWake(k, b)
      PROVE  StoreNext
  BY <1>5 DEF ReceiveWake, StoreNext
<1>6. ASSUME ClearDrops
      PROVE  StoreNext
  <2>1. clearing \in SUBSET Messages
    BY DEF ControlTypeOK
  <2>2. QED
    BY <1>6, <2>1 DEF ClearDrops, StoreNext
<1>7. ASSUME NEW r \in Requests, ResumeClaims(r)
      PROVE  StoreNext \/ UNCHANGED storeVars
  <2>1. resumer[r].steers \in SUBSET Steers
    BY DEF ControlTypeOK, ResumerRecord
  <2>2. QED
    BY <1>7, <2>1 DEF ResumeClaims, StoreNext
<1>8. ASSUME ClearReads \/ \E r \in Requests : ResumeReads(r)
      PROVE  UNCHANGED storeVars
  BY <1>8 DEF ClearReads, ResumeReads
<1>9. QED
  BY <1>1, <1>2, <1>3, <1>4, <1>5, <1>6, <1>7, <1>8 DEF OperatorStep, HandlerStep

(* So is a worker's step in its turn ... *)
LEMMA TurnStore ==
  ASSUME ControlTypeOK, RequestsOwned, NEW w \in Turns, TurnStep(w) \/ ModelStep(w)
  PROVE  StoreNext \/ UNCHANGED storeVars
<1>1. ASSUME Finish(w)
      PROVE  StoreNext
  <2>1. CommitTerminal(worker[w].cur, StatusWithPrecedence(worker[w].res))
    BY <1>1 DEF Finish
  <2>2. worker[w].cur \in Turns
    BY <2>1, WorkerResType DEF CommitTerminal
  <2>3. StatusWithPrecedence(worker[w].res) \in FinishStatus
    BY WorkerResType, OutcomeType
  <2>4. QED
    BY <2>1, <2>2, <2>3 DEF StoreNext
<1>2. ASSUME NEW K \in SUBSET Wakes, WaitAgent(w, K)
      PROVE  StoreNext
  <2>1. ClaimWakesForActiveTurn(worker[w].cur, K)
    BY <1>2 DEF WaitAgent
  <2>2. worker[w].cur \in Turns
    BY <2>1, WorkerResType DEF ClaimWakesForActiveTurn
  <2>3. QED
    BY <2>1, <2>2 DEF StoreNext
<1>3. ASSUME NEW t, NEW r \in Requests, NEW kind \in {"approval", "input"},
             t = worker[w].cur, CommitRequest(t, r, kind)
      PROVE  StoreNext
  <2>1. t \in Turns
    BY <1>3, WorkerResType DEF CommitRequest
  <2>2. QED
    BY <1>3, <2>1 DEF StoreNext
<1>4. ASSUME NEW t, NEW r \in Requests, CommitToolResult(t, r)
      PROVE  StoreNext
  <2>1. t \in Turns
    BY <1>4 DEF CommitToolResult, RequestsOwned
  <2>2. QED
    BY <1>4, <2>1 DEF StoreNext
<1>5. ASSUME AskPauses(w)
      PROVE  StoreNext \/ UNCHANGED storeVars
  BY <1>4, <1>5 DEF AskPauses
<1>6. ASSUME ApprovalPauses(w) \/ \E r \in Requests : AskRequested(w, r)
      PROVE  StoreNext \/ UNCHANGED storeVars
  BY <1>3, <1>6 DEF ApprovalPauses, AskRequested
<1>7. ASSUME \/ Register(w) \/ Preflight(w) \/ LoopReturns(w) \/ RecordResult(w) \/ ResumeTool(w)
             \/ ResumeCheck(w) \/ TurnFails(w) \/ ApprovalNeeded(w)
      PROVE  UNCHANGED storeVars
  BY <1>7 DEF Register, Preflight, LoopReturns, RecordResult, ResumeTool, ResumeCheck, TurnFails,
              ApprovalNeeded
<1>8. QED
  BY <1>1, <1>2, <1>5, <1>6, <1>7 DEF TurnStep, ModelStep

(* ... and in the controls after it. *)
LEMMA ConsumeStore ==
  ASSUME ControlTypeOK, RequestsOwned, NEW w \in Turns, ConsumeStep(w)
  PROVE  StoreNext \/ UNCHANGED storeVars
<1>1. ASSUME DropAll(w)
      PROVE  StoreNext
  BY <1>1, WorkerResType DEF DropAll, StoreNext
<1>2. ASSUME NEW t \in Turns, NEW b, NEW S, ClaimSteers(t, b, S)
      PROVE  StoreNext
  <2>1. b \in Branches /\ S \in SUBSET Steers
    BY <1>2 DEF ClaimSteers, PendingSteersFor, PendingSteers, ControlTypeOK, StoreTypeOK, SteerRecord
  <2>2. QED
    BY <1>2, <2>1 DEF StoreNext
<1>3. ASSUME ApplyPendingSteers(w)
      PROVE  StoreNext \/ UNCHANGED storeVars
  BY <1>2, <1>3 DEF ApplyPendingSteers
<1>4. ASSUME ClaimNextWake(w)
      PROVE  StoreNext \/ UNCHANGED storeVars
  BY <1>4 DEF ClaimNextWake, StoreNext
<1>5. ASSUME DispatchNextQueued(w)
      PROVE  StoreNext \/ UNCHANGED storeVars
  BY <1>5, WorkerResType DEF DispatchNextQueued, StoreNext
<1>6. ASSUME \/ CheckCancel(w) \/ ReadDroppedSteers(w) \/ ReadDroppedQueue(w)
             \/ ReadSteers(w) \/ ReadQueue(w)
      PROVE  UNCHANGED storeVars
  BY <1>6 DEF CheckCancel, ReadDroppedSteers, ReadDroppedQueue, ReadSteers, ReadQueue
<1>7. QED
  BY <1>1, <1>3, <1>4, <1>5, <1>6 DEF ConsumeStep

(* Hence so is every step of the process, a crash and its recovery included. *)
LEMMA StepStore ==
  ASSUME ControlTypeOK, RequestsOwned, ControlNext
  PROVE  StoreNext \/ UNCHANGED storeVars
<1>1. ASSUME NEW t, active = t, t # None, CommitTerminal(t, StatusWithPrecedence("failed"))
      PROVE  StoreNext
  <2>1. t \in Turns
    BY <1>1 DEF ControlTypeOK, StoreTypeOK
  <2>2. StatusWithPrecedence("failed") \in FinishStatus
    BY OutcomeType DEF FinishStatus, TurnStatus
  <2>3. QED
    BY <1>1, <2>1, <2>2 DEF StoreNext
<1>2. ASSUME Restart
      PROVE  StoreNext \/ UNCHANGED storeVars
  BY <1>1, <1>2 DEF Restart
<1>3. ASSUME NEW w \in Turns, Watchdog(w)
      PROVE  StoreNext \/ UNCHANGED storeVars
  <2>1. w # None
    BY DEF Turns, None
  <2>2. QED
    BY <1>1, <1>3, <2>1 DEF Watchdog
<1>4. ASSUME NEW w \in Turns, Panic(w)
      PROVE  UNCHANGED storeVars
  BY <1>4 DEF Panic
<1>5. ASSUME PumpDispatches
      PROVE  StoreNext \/ UNCHANGED storeVars
  BY <1>5 DEF PumpDispatches, StoreNext
<1>6. QED
  BY <1>2, <1>3, <1>4, <1>5, OperatorStore, TurnStore, ConsumeStore DEF ControlNext, WorkerStep

-----------------------------------------------------------------------------
(* Type correctness. *)

(* The process's own variables, in the shape the steps change them. *)
LEMMA ProcessType ==
  ASSUME ControlTypeOK, StoreTypeOK',
         worker' \in [Turns -> WorkerRecord], entry' \in Turns \cup {None},
         signalled' \in SUBSET Turns, clearing' \in SUBSET Messages,
         resumer' \in [Requests -> ResumerRecord], pumpDue' \in BOOLEAN,
         count' \in [cancels: 0..MaxCancels, clears: 0..MaxClears, failures: 0..MaxFailures,
                     panics: 0..MaxPanics, crashes: 0..MaxCrashes]
  PROVE  ControlTypeOK'
BY DEF ControlTypeOK

(* An idle task, a task just spawned and one that failed are tasks. *)
LEMMA OffType ==
  /\ Off \in WorkerRecord
  /\ [Off EXCEPT !.pc = "error"] \in WorkerRecord
  /\ \A t \in Turns, pc \in OwningPC : [Off EXCEPT !.pc = pc, !.cur = t] \in WorkerRecord
BY DEF Off, WorkerRecord, FinishStatus, TurnStatus, OwningPC

(* A step of one task keeps the tasks typed if what it stores is. *)
LEMMA WorkerUpdate ==
  ASSUME ControlTypeOK, NEW w \in Turns, NEW rec \in WorkerRecord,
         worker' = [worker EXCEPT ![w] = rec]
  PROVE  worker' \in [Turns -> WorkerRecord]
BY DEF ControlTypeOK

(* What a task stores when it moves on with its turn. *)
LEMMA FieldsType ==
  ASSUME ControlTypeOK, NEW w \in Turns,
         NEW pc \in {"off", "error"} \cup OwningPC \cup ConsumePC, NEW res \in FinishStatus,
         NEW after \in {"route", "discard", "stop"}
  PROVE  /\ [worker[w] EXCEPT !.pc = pc] \in WorkerRecord
         /\ [worker[w] EXCEPT !.pc = pc, !.res = res] \in WorkerRecord
         /\ [worker[w] EXCEPT !.pc = pc, !.after = after] \in WorkerRecord
         /\ [worker[w] EXCEPT !.pc = pc, !.res = res, !.after = after] \in WorkerRecord
<1> DEFINE me == worker[w]
<1>1. me \in WorkerRecord
  BY DEF ControlTypeOK
<1> HIDE DEF me
<1>2. /\ [me EXCEPT !.pc = pc] \in WorkerRecord
      /\ [me EXCEPT !.pc = pc, !.res = res] \in WorkerRecord
      /\ [me EXCEPT !.pc = pc, !.after = after] \in WorkerRecord
      /\ [me EXCEPT !.pc = pc, !.res = res, !.after = after] \in WorkerRecord
  BY <1>1 DEF WorkerRecord
<1>3. QED
  BY <1>2 DEF me

(* What a task stores when it has read steers or messages. *)
LEMMA SteersReadType ==
  ASSUME ControlTypeOK, NEW w \in Turns, NEW S \in SUBSET Steers,
         NEW pc \in {"off", "error"} \cup OwningPC \cup ConsumePC,
         worker' = [worker EXCEPT ![w] = [worker[w] EXCEPT !.pc = pc, !.steers = S]]
  PROVE  worker' \in [Turns -> WorkerRecord]
<1> DEFINE me == worker[w]
<1>1. me \in WorkerRecord
  BY DEF ControlTypeOK
<1> HIDE DEF me
<1>2. [me EXCEPT !.pc = pc, !.steers = S] \in WorkerRecord
  BY <1>1 DEF WorkerRecord
<1>3. QED
  BY <1>2, WorkerUpdate DEF me

(* The same for what it read of the queue. *)
LEMMA QueueReadType ==
  ASSUME ControlTypeOK, NEW w \in Turns, NEW Q \in SUBSET Messages,
         NEW pc \in {"off", "error"} \cup OwningPC \cup ConsumePC,
         worker' = [worker EXCEPT ![w] = [worker[w] EXCEPT !.pc = pc, !.queue = Q]]
  PROVE  worker' \in [Turns -> WorkerRecord]
<1> DEFINE me == worker[w]
<1>1. me \in WorkerRecord
  BY DEF ControlTypeOK
<1> HIDE DEF me
<1>2. [me EXCEPT !.pc = pc, !.queue = Q] \in WorkerRecord
  BY <1>1 DEF WorkerRecord
<1>3. QED
  BY <1>2, WorkerUpdate DEF me

(* So do a task's start, its return, and the claim that makes it go on. *)
LEMMA DetachType ==
  ASSUME ControlTypeOK, NEW t \in Turns, NEW pc \in OwningPC, Detach(t, pc)
  PROVE  worker' \in [Turns -> WorkerRecord]
BY OffType DEF ControlTypeOK, Detach

(* Dropping a guard leaves a turn or nothing in the entry. *)
LEMMA DropGuardType ==
  ASSUME ControlTypeOK, NEW w \in Turns, DropGuard(w)
  PROVE  entry' \in Turns \cup {None}
BY DEF ControlTypeOK, DropGuard

(* A task that returns leaves the tasks and the entry typed. *)
LEMMA ReturnType ==
  ASSUME ControlTypeOK, NEW w \in Turns, Return(w)
  PROVE  worker' \in [Turns -> WorkerRecord] /\ entry' \in Turns \cup {None}
BY OffType, DropGuardType DEF ControlTypeOK, Return

(* So does a task that goes on with the turn it claimed. *)
LEMMA ContinueType ==
  ASSUME ControlTypeOK, NEW w \in Turns, NEW t \in Turns, ContinueWith(w, t)
  PROVE  worker' \in [Turns -> WorkerRecord] /\ entry' \in Turns \cup {None}
<1>1. "register" \in OwningPC
  BY DEF OwningPC
<1>2. QED
  BY <1>1, OffType, DropGuardType DEF ControlTypeOK, ContinueWith

(* So does a task that only moves on. *)
LEMMA GotoType ==
  ASSUME ControlTypeOK, NEW w \in Turns,
         NEW pc \in {"off", "error"} \cup OwningPC \cup ConsumePC, Goto(w, pc)
  PROVE  worker' \in [Turns -> WorkerRecord]
BY DEF ControlTypeOK, Goto, WorkerRecord

(* Requests and handlers keep the process typed ... *)
LEMMA OperatorType ==
  ASSUME ControlTypeOK, StoreTypeOK', OperatorStep \/ HandlerStep \/ PumpDispatches
  PROVE  ControlTypeOK'
<1> USE ControlAssumption
<1>0. "register" \in OwningPC /\ "resumeRegister" \in OwningPC
  BY DEF OwningPC
<1>1. ASSUME NEW m \in Messages, NEW b \in Branches, SendMessage(m, b)
      PROVE  ControlTypeOK'
  <2>1. worker' \in [Turns -> WorkerRecord]
    BY <1>0, <1>1, DetachType DEF SendMessage, ControlTypeOK
  <2>2. pumpDue' \in BOOLEAN
    BY <1>1 DEF SendMessage, ControlTypeOK, StoreTypeOK
  <2>3. QED
    BY <1>1, <2>1, <2>2 DEF SendMessage, ControlTypeOK
<1>2. ASSUME NEW b \in Branches, CancelSession(b)
      PROVE  ControlTypeOK'
  BY <1>2 DEF CancelSession, ControlTypeOK
<1>3. ASSUME NEW s \in Steers, NEW b \in Branches, SteerSession(s, b)
      PROVE  ControlTypeOK'
  BY <1>3 DEF SteerSession, ControlTypeOK, controlVars
<1>4. ASSUME NEW lim \in Limits, ConfigureBudget(lim)
      PROVE  ControlTypeOK'
  BY <1>4 DEF ConfigureBudget, ControlTypeOK, controlVars
<1>5. ASSUME NEW k \in Wakes, NEW b \in Branches, ReceiveWake(k, b)
      PROVE  ControlTypeOK'
  BY <1>5 DEF ReceiveWake, ControlTypeOK
<1>6. ASSUME ClearReads \/ ClearDrops
      PROVE  ControlTypeOK'
  BY <1>6 DEF ClearReads, ClearDrops, PendingMessages, ControlTypeOK
<1>7. ASSUME NEW r \in Requests, ResumeReads(r)
      PROVE  ControlTypeOK'
  BY <1>7 DEF ResumeReads, PendingSteersFor, PendingSteers, ResumerRecord, ControlTypeOK
<1>8. ASSUME NEW r \in Requests, ResumeClaims(r)
      PROVE  ControlTypeOK'
  <2>1. worker' \in [Turns -> WorkerRecord]
    BY <1>0, <1>8, DetachType DEF ResumeClaims, ControlTypeOK
  <2>2. resumer' \in [Requests -> ResumerRecord]
    BY <1>8 DEF ResumeClaims, NoResumer, ResumerRecord, ControlTypeOK
  <2>3. QED
    BY <1>8, <2>1, <2>2 DEF ResumeClaims, ControlTypeOK
<1>9. ASSUME PumpDispatches
      PROVE  ControlTypeOK'
  <2>1. worker' \in [Turns -> WorkerRecord]
    BY <1>0, <1>9, DetachType DEF PumpDispatches, ControlTypeOK
  <2>2. QED
    BY <1>9, <2>1 DEF PumpDispatches, ControlTypeOK
<1>10. QED
  BY <1>1, <1>2, <1>3, <1>4, <1>5, <1>6, <1>7, <1>8, <1>9 DEF OperatorStep, HandlerStep

(* ... a worker's turn does ... *)
LEMMA TurnType ==
  ASSUME ControlTypeOK, CursorKnown, StoreTypeOK', NEW w \in Turns,
         TurnStep(w) \/ ModelStep(w)
  PROVE  ControlTypeOK'
<1> USE ControlAssumption
<1> DEFINE me == worker[w]
           PCs == {"off", "error"} \cup OwningPC \cup ConsumePC
<1>0. /\ \A pc \in {"preflight", "running", "asked", "approving", "result", "finish",
                     "register", "resumeTool", "resumeCheck", "consume"} : pc \in PCs
      /\ {"completed", "awaiting", "cancelled", "failed"} \subseteq FinishStatus
  BY DEF OwningPC, ConsumePC, FinishStatus, TurnStatus
<1>1. ASSUME Register(w)
      PROVE  ControlTypeOK'
  <2>1. worker' \in [Turns -> WorkerRecord]
    BY <1>0, <1>1, GotoType DEF Register
  <2>2. me.cur \in Turns
    BY <1>1 DEF Register, At, CursorKnown
  <2>3. QED
    BY <1>1, <2>1, <2>2 DEF Register, ControlTypeOK
<1>2. ASSUME Finish(w)
      PROVE  ControlTypeOK'
  <2>1. AfterFinish(w) \in WorkerRecord
    BY <1>0, OffType, FieldsType DEF AfterFinish, ControlTypeOK
  <2>2. entry' \in Turns \cup {None}
    BY <1>2, DropGuardType DEF Finish, ControlTypeOK
  <2>3. QED
    BY <1>2, <2>1, <2>2 DEF Finish, ControlTypeOK
<1>3. ASSUME Preflight(w)
      PROVE  ControlTypeOK'
  <2>1. worker' \in [Turns -> WorkerRecord]
    BY <1>0, <1>3, FieldsType, WorkerUpdate, GotoType DEF Preflight
  <2>2. QED
    BY <1>3, <2>1 DEF Preflight, ControlTypeOK
<1>4. ASSUME LoopReturns(w)
      PROVE  ControlTypeOK'
  <2>1. worker' \in [Turns -> WorkerRecord]
    BY <1>0, <1>4, FieldsType, WorkerUpdate DEF LoopReturns
  <2>2. QED
    BY <1>4, <2>1 DEF LoopReturns, ControlTypeOK
<1>5. ASSUME ResumeTool(w) \/ ApprovalNeeded(w) \/ \E r \in Requests : AskRequested(w, r)
      PROVE  ControlTypeOK'
  <2>1. worker' \in [Turns -> WorkerRecord]
    BY <1>0, <1>5, GotoType DEF ResumeTool, ApprovalNeeded, AskRequested
  <2>2. QED
    BY <1>5, <2>1 DEF ResumeTool, ApprovalNeeded, AskRequested, ControlTypeOK
<1>6. ASSUME AskPauses(w) \/ ApprovalPauses(w)
      PROVE  ControlTypeOK'
  <2>1. worker' = [worker EXCEPT ![w] =
                     [me EXCEPT !.pc = "result",
                                !.res = IF me.cur \in signalled THEN "completed" ELSE "awaiting"]]
    BY <1>6 DEF AskPauses, ApprovalPauses
  <2>2. worker' \in [Turns -> WorkerRecord]
    BY <1>0, <2>1, FieldsType, WorkerUpdate
  <2>3. QED
    BY <1>6, <2>2 DEF AskPauses, ApprovalPauses, ControlTypeOK
<1>7. ASSUME RecordResult(w)
      PROVE  ControlTypeOK'
  <2>1. StatusWithPrecedence(me.res) \in FinishStatus
    BY WorkerResType, OutcomeType
  <2>2. worker' \in [Turns -> WorkerRecord]
    BY <1>0, <1>7, <2>1, FieldsType, WorkerUpdate DEF RecordResult
  <2>3. QED
    BY <1>7, <2>2 DEF RecordResult, ControlTypeOK
<1>8. ASSUME ResumeCheck(w)
      PROVE  ControlTypeOK'
  <2>1. \/ worker' = [worker EXCEPT ![w] = [me EXCEPT !.pc = "finish", !.res = "cancelled",
                                                     !.after = "discard"]]
        \/ worker' = [worker EXCEPT ![w] = [me EXCEPT !.pc = "finish", !.res = "awaiting",
                                                     !.after = "stop"]]
        \/ worker' = [worker EXCEPT ![w] = [me EXCEPT !.pc = "register"]]
    BY <1>8 DEF ResumeCheck
  <2>2. worker' \in [Turns -> WorkerRecord]
    BY <1>0, <2>1, FieldsType, WorkerUpdate
  <2>3. QED
    BY <1>8, <2>2 DEF ResumeCheck, ControlTypeOK
<1>9. ASSUME TurnFails(w)
      PROVE  ControlTypeOK'
  <2>1. worker' \in [Turns -> WorkerRecord]
    BY <1>0, <1>9, FieldsType, WorkerUpdate DEF TurnFails
  <2>2. QED
    BY <1>9, <2>1 DEF TurnFails, ControlTypeOK
<1>10. ASSUME NEW K \in SUBSET Wakes, WaitAgent(w, K)
       PROVE  ControlTypeOK'
  BY <1>10 DEF WaitAgent, ControlTypeOK, controlVars
<1>11. QED
  BY <1>1, <1>2, <1>3, <1>4, <1>5, <1>6, <1>7, <1>8, <1>9, <1>10 DEF TurnStep, ModelStep

(* ... and so do the controls after it. *)
LEMMA ConsumeType ==
  ASSUME ControlTypeOK, StoreTypeOK', NEW w \in Turns, ConsumeStep(w)
  PROVE  ControlTypeOK'
<1>0. \A pc \in {"dropSteers", "dropQueue", "drop", "steers", "claimSteers", "wake", "queue",
                  "claimQueue"} : pc \in {"off", "error"} \cup OwningPC \cup ConsumePC
  BY DEF ConsumePC
<1>1. ASSUME CheckCancel(w) \/ ReadDroppedSteers(w) \/ ReadDroppedQueue(w) \/ ReadSteers(w)
      PROVE  ControlTypeOK'
  <2>1. PendingSteers \in SUBSET Steers /\ PendingMessages \in SUBSET Messages
    BY DEF PendingSteers, PendingMessages
  <2>2. CASE CheckCancel(w)
    BY <1>0, <2>2, GotoType DEF CheckCancel, ControlTypeOK
  <2>3. CASE ReadDroppedSteers(w)
    BY <1>0, <2>1, <2>3, SteersReadType DEF ReadDroppedSteers, ControlTypeOK
  <2>4. CASE ReadDroppedQueue(w)
    BY <1>0, <2>1, <2>4, QueueReadType DEF ReadDroppedQueue, ControlTypeOK
  <2>5. CASE ReadSteers(w)
    <3>1. PICK S \in SUBSET Steers, pc \in {"wake", "claimSteers"} :
             worker' = [worker EXCEPT ![w] = [worker[w] EXCEPT !.pc = pc, !.steers = S]]
      <4>1. PendingSteersFor(turn[worker[w].cur].branch) \in SUBSET Steers
        BY DEF PendingSteersFor, PendingSteers
      <4>2. QED
        BY <2>5, <4>1 DEF ReadSteers
    <3>2. worker' \in [Turns -> WorkerRecord]
      BY <1>0, <3>1, SteersReadType
    <3>3. QED
      BY <2>5, <3>2 DEF ReadSteers, ControlTypeOK
  <2>6. QED
    BY <1>1, <2>2, <2>3, <2>4, <2>5
<1>2. ASSUME DropAll(w)
      PROVE  ControlTypeOK'
  BY <1>2, ReturnType DEF DropAll, ControlTypeOK
<1>3. ASSUME ApplyPendingSteers(w)
      PROVE  ControlTypeOK'
  <2>1. worker' \in [Turns -> WorkerRecord] /\ entry' \in Turns \cup {None}
    BY <1>3, ContinueType, GotoType DEF ApplyPendingSteers, ControlTypeOK, ConsumePC
  <2>2. QED
    BY <1>3, <2>1 DEF ApplyPendingSteers, ControlTypeOK
<1>4. ASSUME ClaimNextWake(w)
      PROVE  ControlTypeOK'
  <2>1. worker' \in [Turns -> WorkerRecord] /\ entry' \in Turns \cup {None}
    BY <1>4, ContinueType, GotoType DEF ClaimNextWake, ControlTypeOK, ConsumePC
  <2>2. QED
    BY <1>4, <2>1 DEF ClaimNextWake, ControlTypeOK
<1>5. ASSUME ReadQueue(w)
      PROVE  ControlTypeOK'
  <2>1. ASSUME NEW m \in Messages,
               worker' = [worker EXCEPT ![w] = [@ EXCEPT !.pc = "claimQueue", !.queue = {m}]]
        PROVE  worker' \in [Turns -> WorkerRecord]
    BY <1>0, <2>1, QueueReadType
  <2>2. worker' \in [Turns -> WorkerRecord] /\ entry' \in Turns \cup {None}
    BY <1>5, <2>1, ReturnType DEF ReadQueue, ControlTypeOK
  <2>3. QED
    BY <1>5, <2>2 DEF ReadQueue, ControlTypeOK
<1>6. ASSUME DispatchNextQueued(w)
      PROVE  ControlTypeOK'
  <2>1. worker' \in [Turns -> WorkerRecord] /\ entry' \in Turns \cup {None}
    BY <1>6, ContinueType, ReturnType DEF DispatchNextQueued
  <2>2. QED
    BY <1>6, <2>1 DEF DispatchNextQueued, ControlTypeOK
<1>7. QED
  BY <1>1, <1>2, <1>3, <1>4, <1>5, <1>6 DEF ConsumeStep

-----------------------------------------------------------------------------
(* What a step does to the tasks, their turns and the entry: the case       *)
(* analysis behind the ownership and the cancellation arguments.            *)

StartsTurn(t) == \E b, m, S, r : StartTurn(t, b, m, S, r)

FinishesTurn(t) == \E status \in FinishStatus : CommitTerminal(t, status)

Others(w) == \A v \in Turns \ {w} : worker'[v] = worker[v]

(* No task moves. *)
Standing == UNCHANGED <<worker, entry, active, turn>>

(* A handler or the pump starts a turn and its task. *)
Spawning(t) ==
    /\ StartsTurn(t)
    /\ Others(t)
    /\ worker'[t].cur = t /\ worker'[t].pc \in {"register", "resumeRegister"}
    /\ UNCHANGED entry

(* A task goes on with its turn, or with the controls after it. *)
Staying(w) ==
    /\ UNCHANGED <<active, turn, entry>>
    /\ Others(w)
    /\ worker'[w].cur = worker[w].cur
    /\ \/ /\ worker[w].pc \in OwningPC /\ worker'[w].pc \in OwningPC
          /\ worker'[w].pc \in RegisteredPC => worker[w].pc \in RegisteredPC
       \/ worker[w].pc \in ConsumePC /\ worker'[w].pc \in ConsumePC

(* A task finishes its turn. *)
Finishing(w) ==
    /\ worker[w].pc = "finish"
    /\ FinishesTurn(worker[w].cur)
    /\ Others(w)
    /\ \/ worker'[w].pc = "consume" /\ worker'[w].cur = worker[w].cur /\ UNCHANGED entry
       \/ worker'[w].pc \in {"off", "error"} /\ DropGuard(w)

(* A task claims more work. *)
Claiming(w, t) ==
    /\ worker[w].pc \in ConsumePC
    /\ StartsTurn(t)
    /\ Others(w)
    /\ \/ worker'[w].pc = "register" /\ worker'[w].cur = t
       \/ worker'[w].pc = "off"
    /\ DropGuard(w)

(* A task ends. *)
Leaving(w) ==
    /\ worker[w].pc \in OwningPC \cup ConsumePC
    /\ Others(w)
    /\ worker'[w].pc \in {"off", "error"}
    /\ DropGuard(w)
    /\ UNCHANGED <<active, turn>>

(* A watchdog acts. *)
Watching(w) ==
    /\ worker[w].pc = "error"
    /\ Others(w)
    /\ worker'[w].pc = "off"
    /\ UNCHANGED entry
    /\ UNCHANGED <<active, turn>> \/ FinishesTurn(w)

(* The process restarts. *)
Restarting ==
    /\ \A v \in Turns : worker'[v].pc = "off"
    /\ UNCHANGED <<active, turn>> \/ FinishesTurn(active)

Move ==
    \/ Standing
    \/ \E t \in Turns : Spawning(t)
    \/ \E w \in Turns : \/ Register(w) \/ Staying(w) \/ Finishing(w) \/ Leaving(w) \/ Watching(w)
                         \/ \E t \in Turns : Claiming(w, t)
    \/ Restarting

(* Every transaction that starts a turn is one of these. *)
LEMMA Starts ==
  /\ \A t \in Turns, m \in Messages, b \in Branches : AdmitDirect(t, m, b) => StartsTurn(t)
  /\ \A t \in Turns, m \in Messages : ClaimQueued(t, m) => StartsTurn(t)
  /\ \A t \in Turns, k \in Wakes : ClaimWake(t, k) => StartsTurn(t)
  /\ \A t \in Turns : \A b, S : ClaimSteers(t, b, S) => StartsTurn(t)
  /\ \A t \in Turns, r \in Requests : \A S : ClaimResumed(t, r, S) => StartsTurn(t)
BY DEF AdmitDirect, ClaimQueued, ClaimWake, ClaimSteers, ClaimResumed, StartsTurn

(* A task detached for a turn that starts is a spawned one. *)
LEMMA DetachSpawns ==
  ASSUME ControlTypeOK, NEW t \in Turns, NEW pc \in {"register", "resumeRegister"},
         Detach(t, pc), StartsTurn(t), UNCHANGED entry
  PROVE  Spawning(t)
BY DEF Detach, Spawning, Others, Off, ControlTypeOK

(* Requests, handlers and the pump move no task; they may spawn one. *)
LEMMA OperatorMoves ==
  ASSUME ControlTypeOK, OperatorStep \/ HandlerStep \/ PumpDispatches
  PROVE  Standing \/ \E t \in Turns : Spawning(t)
<1>1. ASSUME NEW m \in Messages, NEW b \in Branches, SendMessage(m, b)
      PROVE  Standing \/ \E t \in Turns : Spawning(t)
  <2>1. ASSUME NEW t \in Turns, AdmitDirect(t, m, b), Detach(t, "register")
        PROVE  Spawning(t)
    BY <1>1, <2>1, Starts, DetachSpawns DEF SendMessage
  <2>2. CASE AdmitQueued(m, b) /\ UNCHANGED worker
    BY <1>1, <2>2 DEF SendMessage, AdmitQueued, Standing
  <2>3. QED
    BY <1>1, <2>1, <2>2 DEF SendMessage
<1>2. ASSUME NEW r \in Requests, ResumeClaims(r)
      PROVE  Standing \/ \E t \in Turns : Spawning(t)
  <2>1. ASSUME NEW t \in Turns, ClaimResumed(t, r, resumer[r].steers),
               Detach(t, IF request[r].kind = "approval" THEN "resumeRegister" ELSE "register")
        PROVE  Spawning(t)
    BY <1>2, <2>1, Starts, DetachSpawns DEF ResumeClaims
  <2>2. CASE UNCHANGED <<storeVars, worker>>
    BY <1>2, <2>2 DEF ResumeClaims, Standing, storeVars
  <2>3. QED
    BY <1>2, <2>1, <2>2 DEF ResumeClaims
<1>3. ASSUME PumpDispatches
      PROVE  Standing \/ \E t \in Turns : Spawning(t)
  <2>1. ASSUME NEW t \in Turns, NEW k \in Wakes, ClaimWake(t, k), Detach(t, "register")
        PROVE  Spawning(t)
    BY <1>3, <2>1, Starts, DetachSpawns DEF PumpDispatches
  <2>2. CASE UNCHANGED <<storeVars, worker>>
    BY <1>3, <2>2 DEF PumpDispatches, Standing, storeVars
  <2>3. QED
    BY <1>3, <2>1, <2>2 DEF PumpDispatches
<1>4. ASSUME \/ \E b \in Branches : CancelSession(b)
             \/ \E s \in Steers, b \in Branches : SteerSession(s, b)
             \/ \E lim \in Limits : ConfigureBudget(lim)
             \/ \E k \in Wakes, b \in Branches : ReceiveWake(k, b)
      PROVE  Standing
  BY <1>4 DEF CancelSession, AppendCancel, SteerSession, AppendSteer, ConfigureBudget, CommitBudget,
              ReceiveWake, CommitWake, controlVars, Standing
<1>5. ASSUME ClearReads \/ ClearDrops \/ \E r \in Requests : ResumeReads(r)
      PROVE  Standing
  BY <1>5 DEF ClearReads, ClearDrops, AppendQueueDrop, ResumeReads, storeVars, Standing
<1>6. QED
  BY <1>1, <1>2, <1>3, <1>4, <1>5 DEF OperatorStep, HandlerStep

(* A task stays with its turn until it finishes it. *)
LEMMA TurnMoves ==
  ASSUME ControlTypeOK, NEW w \in Turns, TurnStep(w) \/ ModelStep(w)
  PROVE  Standing \/ Register(w) \/ Staying(w) \/ Finishing(w)
<1> DEFINE me == worker[w]
<1>0. worker \in [Turns -> WorkerRecord]
  BY DEF ControlTypeOK
<1>1. ASSUME NEW pc \in RegisteredPC, me.pc \in RegisteredPC,
             Others(w), worker'[w].pc = pc, worker'[w].cur = me.cur,
             UNCHANGED <<active, turn, entry>>
      PROVE  Staying(w)
  BY <1>1 DEF Staying, RegisteredPC
<1>2. \A pc \in {"preflight", "running", "asked", "approving", "result", "finish", "resumeTool",
                  "resumeCheck"} : pc \in RegisteredPC
  BY DEF RegisteredPC, OwningPC
<1>3. ASSUME NEW pc, Goto(w, pc)
      PROVE  Others(w) /\ worker'[w].pc = pc /\ worker'[w].cur = me.cur
  BY <1>0, <1>3 DEF Goto, Others, WorkerRecord
<1>4. ASSUME NEW pc, NEW res, worker' = [worker EXCEPT ![w] = [me EXCEPT !.pc = pc, !.res = res]]
      PROVE  Others(w) /\ worker'[w].pc = pc /\ worker'[w].cur = me.cur
  BY <1>0, <1>4 DEF Others, WorkerRecord
<1>5. ASSUME NEW pc, NEW res, NEW after,
             worker' = [worker EXCEPT ![w] = [me EXCEPT !.pc = pc, !.res = res, !.after = after]]
      PROVE  Others(w) /\ worker'[w].pc = pc /\ worker'[w].cur = me.cur
  BY <1>0, <1>5 DEF Others, WorkerRecord
<1>6. CASE Preflight(w)
  BY <1>1, <1>2, <1>3, <1>5, <1>6 DEF Preflight, At, storeVars
<1>7. CASE TurnFails(w)
  BY <1>1, <1>2, <1>4, <1>7 DEF TurnFails, At, storeVars
<1>8. CASE LoopReturns(w)
  BY <1>1, <1>2, <1>4, <1>8 DEF LoopReturns, At, storeVars
<1>9. CASE RecordResult(w)
  BY <1>1, <1>2, <1>4, <1>9 DEF RecordResult, At, storeVars
<1>10. CASE ResumeTool(w) \/ ApprovalNeeded(w)
  BY <1>1, <1>2, <1>3, <1>10 DEF ResumeTool, ApprovalNeeded, At, storeVars
<1>11. CASE \E r \in Requests : AskRequested(w, r)
  BY <1>1, <1>2, <1>3, <1>11 DEF AskRequested, CommitRequest, At
<1>12. CASE AskPauses(w)
  <2>1. UNCHANGED <<active, turn, entry>>
    BY <1>12 DEF AskPauses, CommitToolResult, storeVars
  <2>2. Others(w) /\ worker'[w].pc = "result" /\ worker'[w].cur = me.cur
    BY <1>4, <1>12 DEF AskPauses
  <2>3. QED
    BY <1>1, <1>2, <1>12, <2>1, <2>2 DEF AskPauses, At
<1>13. CASE ApprovalPauses(w)
  <2>1. UNCHANGED <<active, turn, entry>>
    BY <1>13 DEF ApprovalPauses, CommitRequest, storeVars
  <2>2. Others(w) /\ worker'[w].pc = "result" /\ worker'[w].cur = me.cur
    BY <1>4, <1>13 DEF ApprovalPauses
  <2>3. QED
    BY <1>1, <1>2, <1>13, <2>1, <2>2 DEF ApprovalPauses, At
<1>14. CASE ResumeCheck(w)
  <2>1. \/ worker' = [worker EXCEPT ![w] = [me EXCEPT !.pc = "finish", !.res = "cancelled",
                                                     !.after = "discard"]]
        \/ worker' = [worker EXCEPT ![w] = [me EXCEPT !.pc = "finish", !.res = "awaiting",
                                                     !.after = "stop"]]
        \/ worker' = [worker EXCEPT ![w] = [me EXCEPT !.pc = "register"]]
    BY <1>14 DEF ResumeCheck
  <2>2. Others(w) /\ worker'[w].pc \in {"finish", "register"} /\ worker'[w].cur = me.cur
    BY <1>0, <1>5, <2>1, ZenonT(60) DEF Others, WorkerRecord
  <2>3. QED
    BY <1>14, <2>2 DEF ResumeCheck, At, Staying, RegisteredPC, OwningPC, storeVars
<1>15. CASE \E K \in SUBSET Wakes : WaitAgent(w, K)
  BY <1>15 DEF WaitAgent, ClaimWakesForActiveTurn, controlVars, Standing
<1>16. CASE Finish(w)
  <2>1. FinishesTurn(me.cur) /\ me.pc = "finish"
    BY <1>16, WorkerResType, OutcomeType DEF Finish, FinishesTurn, At
  <2>2. worker' = [worker EXCEPT ![w] = AfterFinish(w)]
    BY <1>16 DEF Finish
  <2>3. Others(w) /\ worker'[w] = AfterFinish(w)
    BY <1>0, <2>2 DEF Others
  <2>4. \/ AfterFinish(w).pc \in {"off", "error"}
        \/ AfterFinish(w).pc = "consume" /\ AfterFinish(w).cur = me.cur
    BY <1>0 DEF AfterFinish, Off, WorkerRecord
  <2>5. QED
    BY <1>16, <2>1, <2>3, <2>4 DEF Finish, Finishing
<1>17. QED
  BY <1>6, <1>7, <1>8, <1>9, <1>10, <1>11, <1>12, <1>13, <1>14, <1>15, <1>16 DEF TurnStep, ModelStep

(* After its turn a task reads on, leaves or claims more work. *)
LEMMA ConsumeMoves ==
  ASSUME ControlTypeOK, NEW w \in Turns, ConsumeStep(w)
  PROVE  Staying(w) \/ Leaving(w) \/ \E t \in Turns : Claiming(w, t)
<1> DEFINE me == worker[w]
<1>0. worker \in [Turns -> WorkerRecord]
  BY DEF ControlTypeOK
<1>1. ASSUME NEW pc \in ConsumePC, me.pc \in ConsumePC, Goto(w, pc), UNCHANGED <<active, turn, entry>>
      PROVE  Staying(w)
  BY <1>0, <1>1 DEF Goto, Staying, Others, WorkerRecord
<1>2. ASSUME NEW pc \in ConsumePC, NEW S, me.pc \in ConsumePC,
             worker' = [worker EXCEPT ![w] = [me EXCEPT !.pc = pc, !.steers = S]],
             UNCHANGED <<active, turn, entry>>
      PROVE  Staying(w)
  BY <1>0, <1>2 DEF Staying, Others, WorkerRecord
<1>3. ASSUME NEW pc \in ConsumePC, NEW Q, me.pc \in ConsumePC,
             worker' = [worker EXCEPT ![w] = [me EXCEPT !.pc = pc, !.queue = Q]],
             UNCHANGED <<active, turn, entry>>
      PROVE  Staying(w)
  BY <1>0, <1>3 DEF Staying, Others, WorkerRecord
<1>4. ASSUME me.pc \in ConsumePC, Return(w), UNCHANGED <<active, turn>>
      PROVE  Leaving(w)
  BY <1>0, <1>4 DEF Return, Leaving, Others, Off
<1>5. ASSUME NEW t \in Turns, me.pc \in ConsumePC, StartsTurn(t), ContinueWith(w, t)
      PROVE  Claiming(w, t)
  <2>1. Others(w) /\ DropGuard(w)
    BY <1>0, <1>5 DEF ContinueWith, Others
  <2>2. worker'[w] = IF me.after = "route" THEN [Off EXCEPT !.pc = "register", !.cur = t] ELSE Off
    BY <1>0, <1>5 DEF ContinueWith
  <2>3. \/ worker'[w].pc = "register" /\ worker'[w].cur = t
        \/ worker'[w].pc = "off"
    BY <2>2 DEF Off
  <2>4. QED
    BY <1>5, <2>1, <2>3 DEF Claiming
<1>6. {"consume", "dropSteers", "dropQueue", "drop", "steers", "claimSteers", "wake", "queue",
       "claimQueue"} \subseteq ConsumePC
  BY DEF ConsumePC
<1>7. CASE CheckCancel(w)
  BY <1>1, <1>6, <1>7 DEF CheckCancel, At, storeVars
<1>8. CASE ReadDroppedSteers(w)
  BY <1>2, <1>6, <1>8 DEF ReadDroppedSteers, At, storeVars
<1>9. CASE ReadDroppedQueue(w)
  BY <1>3, <1>6, <1>9 DEF ReadDroppedQueue, At, storeVars
<1>10. CASE DropAll(w)
  BY <1>4, <1>6, <1>10 DEF DropAll, AppendCancelConsumed, At
<1>11. CASE ReadSteers(w)
  BY <1>2, <1>6, <1>11 DEF ReadSteers, At, storeVars
<1>12. CASE ApplyPendingSteers(w)
  BY <1>1, <1>5, <1>6, <1>12, Starts DEF ApplyPendingSteers, At, storeVars
<1>13. CASE ClaimNextWake(w)
  BY <1>1, <1>5, <1>6, <1>13, Starts DEF ClaimNextWake, At, storeVars
<1>14. CASE ReadQueue(w)
  BY <1>3, <1>4, <1>6, <1>14 DEF ReadQueue, At, storeVars
<1>15. CASE DispatchNextQueued(w)
  <2>1. PICK m \in worker[w].queue :
          \/ \E t \in Turns : ClaimQueued(t, m) /\ ContinueWith(w, t)
          \/ Return(w) /\ UNCHANGED storeVars
    BY <1>15 DEF DispatchNextQueued
  <2>2. m \in Messages /\ me.pc \in ConsumePC
    BY <1>6, <1>15, WorkerResType DEF DispatchNextQueued, At
  <2>3. QED
    BY <1>4, <1>5, <2>1, <2>2, Starts DEF storeVars
<1>16. QED
  BY <1>7, <1>8, <1>9, <1>10, <1>11, <1>12, <1>13, <1>14, <1>15 DEF ConsumeStep

(* Every step of the process is one of the moves. *)
LEMMA Moves ==
  ASSUME ControlTypeOK, ControlNext
  PROVE  Move
<1>0. worker \in [Turns -> WorkerRecord]
  BY DEF ControlTypeOK
<1>1. StatusWithPrecedence("failed") \in FinishStatus
  BY OutcomeType DEF FinishStatus, TurnStatus
<1>2. ASSUME NEW w \in Turns, Panic(w)
      PROVE  Leaving(w)
  <2>1. worker[w].pc \in OwningPC \cup ConsumePC
    BY <1>0, <1>2 DEF Panic, WorkerRecord
  <2>2. Others(w) /\ worker'[w].pc = "error"
    BY <1>0, <1>2 DEF Panic, Others, Off
  <2>3. QED
    BY <1>2, <2>1, <2>2 DEF Panic, Leaving, storeVars
<1>3. ASSUME NEW w \in Turns, Watchdog(w)
      PROVE  Watching(w)
  <2>1. Others(w) /\ worker'[w].pc = "off"
    BY <1>0, <1>3 DEF Watchdog, Others, Off
  <2>2. UNCHANGED <<active, turn>> \/ FinishesTurn(w)
    BY <1>1, <1>3 DEF Watchdog, FinishesTurn, storeVars
  <2>3. QED
    BY <1>3, <2>1, <2>2 DEF Watchdog, Watching, At
<1>4. ASSUME Restart
      PROVE  Restarting
  <2>1. \A v \in Turns : worker'[v].pc = "off"
    BY <1>4 DEF Restart, Off
  <2>2. UNCHANGED <<active, turn>> \/ FinishesTurn(active)
    BY <1>1, <1>4 DEF Restart, FinishesTurn, storeVars
  <2>3. QED
    BY <2>1, <2>2 DEF Restarting
<1>5. QED
  BY <1>2, <1>3, <1>4, OperatorMoves, TurnMoves, ConsumeMoves DEF ControlNext, WorkerStep, Move

(* Every step keeps the store and the process typed. *)
LEMMA ControlTypeStep ==
  ASSUME ControlTypeOK, RequestsOwned, CursorKnown, ControlNext
  PROVE  ControlTypeOK' /\ RequestsOwned' /\ CursorKnown'
<1> USE ControlAssumption
<1>1. StoreTypeOK' /\ RequestsOwned'
  <2>1. StoreTypeOK
    BY DEF ControlTypeOK
  <2>2. CASE StoreNext
    BY <2>1, <2>2, TypeStep
  <2>3. CASE UNCHANGED storeVars
    BY <2>1, <2>3 DEF storeVars, StoreTypeOK, RequestsOwned, PendingRequests
  <2>4. QED
    BY <2>2, <2>3, StepStore
<1>2. ASSUME NEW w \in Turns, Panic(w)
      PROVE  ControlTypeOK'
  <2>1. worker' \in [Turns -> WorkerRecord] /\ entry' \in Turns \cup {None}
    BY <1>2, OffType, DropGuardType DEF Panic, ControlTypeOK
  <2>2. QED
    BY <1>1, <1>2, <2>1 DEF Panic, ControlTypeOK
<1>3. ASSUME NEW w \in Turns, Watchdog(w)
      PROVE  ControlTypeOK'
  <2>1. worker' \in [Turns -> WorkerRecord]
    BY <1>3, OffType DEF Watchdog, ControlTypeOK
  <2>2. QED
    BY <1>1, <1>3, <2>1 DEF Watchdog, ControlTypeOK
<1>4. ASSUME Restart
      PROVE  ControlTypeOK'
  <2>1. worker' \in [Turns -> WorkerRecord]
    BY <1>4, OffType DEF Restart
  <2>2. QED
    BY <1>1, <1>4, <2>1 DEF Restart, ControlTypeOK, NoResumer, ResumerRecord
<1>5. CursorKnown'
  <2>1. OwningPC \cap {"off", "error"} = {} /\ ConsumePC \cap {"off", "error"} = {}
    BY DEF OwningPC, ConsumePC
  <2>2. ASSUME NEW w \in Turns, Register(w)
        PROVE  CursorKnown'
    <3>1. Others(w) /\ worker'[w].cur = worker[w].cur /\ worker[w].cur \in Turns
      BY <2>2 DEF Register, At, Goto, Others, CursorKnown, ControlTypeOK, WorkerRecord
    <3>2. QED
      BY <3>1 DEF Others, CursorKnown
  <2>3. CASE Standing \/ Restarting \/ \E t \in Turns : Spawning(t)
    BY <2>3 DEF Standing, Restarting, Spawning, Others, CursorKnown
  <2>4. ASSUME NEW w \in Turns, Staying(w) \/ Finishing(w)
        PROVE  CursorKnown'
    BY <2>1, <2>4 DEF Staying, Finishing, Others, CursorKnown
  <2>5. ASSUME NEW w \in Turns, Leaving(w) \/ Watching(w) \/ \E t \in Turns : Claiming(w, t)
        PROVE  CursorKnown'
    BY <2>5 DEF Leaving, Watching, Claiming, Others, CursorKnown
  <2>6. QED
    BY <2>2, <2>3, <2>4, <2>5, Moves DEF Move
<1>6. QED
  BY <1>1, <1>2, <1>3, <1>4, <1>5, OperatorType, TurnType, ConsumeType DEF ControlNext, WorkerStep

(* What type correctness rests on: a worker that registers is at a turn. *)
ProcessInv == ControlTypeOK /\ RequestsOwned /\ CursorKnown

(* The process starts in it ... *)
LEMMA ProcessInit == ControlInit => ProcessInv
<1> SUFFICES ASSUME ControlInit PROVE ProcessInv
  OBVIOUS
<1>1. StoreTypeOK /\ RequestsOwned
  BY TypeInit DEF ControlInit
<1>2. worker \in [Turns -> WorkerRecord] /\ CursorKnown
  BY OffType DEF ControlInit, CursorKnown, Off
<1>3. resumer \in [Requests -> ResumerRecord]
  BY DEF ControlInit, NoResumer, ResumerRecord
<1>4. count \in [cancels: 0..MaxCancels, clears: 0..MaxClears, failures: 0..MaxFailures,
                 panics: 0..MaxPanics, crashes: 0..MaxCrashes]
  BY ControlAssumption DEF ControlInit
<1>5. QED
  BY <1>1, <1>2, <1>3, <1>4 DEF ControlInit, ControlTypeOK, ProcessInv

(* ... and every step keeps it. *)
LEMMA ProcessStep ==
  ASSUME ProcessInv, [ControlNext]_vars
  PROVE  ProcessInv'
<1>1. CASE ControlNext
  BY <1>1, ControlTypeStep DEF ProcessInv
<1>2. CASE UNCHANGED vars
  <2>1. UNCHANGED storeVars /\ UNCHANGED controlVars
    BY <1>2 DEF vars
  <2>2. StoreTypeOK' /\ RequestsOwned'
    BY <2>1 DEF storeVars, ProcessInv, ControlTypeOK, StoreTypeOK, RequestsOwned, PendingRequests
  <2>3. QED
    BY <2>1, <2>2 DEF controlVars, ProcessInv, ControlTypeOK, CursorKnown
<1>3. QED
  BY <1>1, <1>2

(***************************************************************************)
(* Type correctness of the process.                                        *)
(***************************************************************************)
THEOREM ControlTypeCorrect == ControlSpec => []ControlTypeOK
<1>1. ProcessInv => ControlTypeOK
  BY DEF ProcessInv
<1>2. QED
  BY <1>1, ProcessInit, ProcessStep, PTL DEF ControlSpec

(***************************************************************************)
(* The process implements the store: whatever its tasks do and wherever it *)
(* crashes, the session sees a sequence of whole transactions.             *)
(***************************************************************************)
THEOREM ControlImplementsStore == ControlSpec => ImplementsStore
<1>1. ControlInit => StoreInit
  BY DEF ControlInit
<1>2. ProcessInv /\ [ControlNext]_vars => [StoreNext]_storeVars
  BY StepStore DEF vars, ProcessInv
<1>3. QED
  BY <1>1, <1>2, ProcessInit, ProcessStep, PTL DEF ControlSpec, StoreSpec, ImplementsStore

(***************************************************************************)
(* What the store promises to any caller holds of the running process.     *)
(***************************************************************************)
THEOREM ControlKeepsStore ==
  ControlSpec => [](OneActiveTurn /\ QueueOrder /\ ClaimedOnce /\ CancelAddressed /\ NoTurnOverBudget)
BY ControlImplementsStore, StoreOneActiveTurn, StoreQueueOrder, StoreClaimedOnce, StoreControl, PTL
DEF ImplementsStore

-----------------------------------------------------------------------------
(* Ownership of turns. *)

OwnerInv == WorkerOwnsTurn /\ WorkerStarted /\ ContinuationAlone

(* Where a task drives a turn, where it consumes controls, where neither. *)
LEMMA Places ==
  /\ {"register", "resumeRegister", "finish"} \subseteq OwningPC
  /\ OwningPC \cap ConsumePC = {}
  /\ \A pc \in {"off", "error"} : pc \notin OwningPC /\ pc \notin ConsumePC
  /\ "consume" \in ConsumePC
  /\ RegisteredPC \subseteq OwningPC
  /\ \A pc \in {"register", "resumeRegister"} : pc \notin RegisteredPC
BY DEF OwningPC, ConsumePC, RegisteredPC

(* A turn that starts was not used before and is the active one; one that   *)
(* finishes was active.  No other turn changes.                             *)
LEMMA StartsFacts ==
  ASSUME StoreTypeOK, NEW t \in Turns, StartsTurn(t)
  PROVE  /\ active = None /\ active' = t /\ turn[t].status = "unused"
         /\ turn'[t].status = "active"
         /\ \A u \in Turns \ {t} : turn'[u] = turn[u]
BY DEF StartsTurn, StartTurn, FreshTurn, StoreTypeOK

(* The same for a turn that finishes. *)
LEMMA FinishesFacts ==
  ASSUME StoreTypeOK, NEW t, FinishesTurn(t)
  PROVE  /\ t \in Turns /\ active = t /\ active' = None
         /\ turn'[t].status \in FinishStatus
         /\ \A u \in Turns \ {t} : turn'[u] = turn[u]
BY DEF FinishesTurn, CommitTerminal, StoreTypeOK, TurnRecord

(* A task starts to drive a turn only where no task drives one, and a       *)
(* watchdog finds its turn active only where no task drives it.             *)
LEMMA OwnerStep ==
  ASSUME ProcessInv, OwnerInv, ControlNext
  PROVE  OwnerInv'
<1>0. StoreTypeOK /\ worker \in [Turns -> WorkerRecord] /\ CursorKnown
  BY DEF ProcessInv, ControlTypeOK
<1>1. None \notin Turns /\ "unused" \notin FinishStatus
  BY DEF None, Turns, FinishStatus
<1>2. \A w \in Turns : worker[w].pc \in OwningPC => worker[w].cur \in Turns
  BY <1>0, Places DEF CursorKnown
<1> USE Places
<1>3. CASE Standing
  BY <1>3 DEF Standing, OwnerInv, WorkerOwnsTurn, WorkerStarted, ContinuationAlone
<1>4. ASSUME NEW t \in Turns, Spawning(t)
      PROVE  OwnerInv'
  <2>1. active = None /\ active' = t /\ turn[t].status = "unused" /\ turn'[t].status = "active"
        /\ \A u \in Turns \ {t} : turn'[u] = turn[u]
    BY <1>0, <1>4, StartsFacts DEF Spawning
  <2>2. \A v \in Turns : worker[v].pc \notin OwningPC
    BY <1>1, <1>2, <2>1 DEF OwnerInv, WorkerOwnsTurn
  <2>3. QED
    BY <1>4, <2>1, <2>2 DEF Spawning, Others, OwnerInv, WorkerOwnsTurn, WorkerStarted,
                            ContinuationAlone
<1>5. ASSUME NEW w \in Turns, NEW t \in Turns, Claiming(w, t)
      PROVE  OwnerInv'
  <2>1. active = None /\ active' = t /\ turn[t].status = "unused" /\ turn'[t].status = "active"
        /\ \A u \in Turns \ {t} : turn'[u] = turn[u]
    BY <1>0, <1>5, StartsFacts DEF Claiming
  <2>2. \A v \in Turns : worker[v].pc \notin OwningPC
    BY <1>1, <1>2, <2>1 DEF OwnerInv, WorkerOwnsTurn
  <2>3. worker[t].pc = "off" /\ turn[w].status # "unused" /\ t # w
    BY <1>5, <2>1 DEF OwnerInv, WorkerStarted, Claiming
  <2>4. QED
    BY <1>5, <2>1, <2>2, <2>3 DEF Claiming, Others, OwnerInv, WorkerOwnsTurn, WorkerStarted,
                                  ContinuationAlone
<1>6. ASSUME NEW w \in Turns, Finishing(w)
      PROVE  OwnerInv'
  <2>1. active = worker[w].cur /\ active' = None /\ turn'[worker[w].cur].status \in FinishStatus
        /\ \A u \in Turns \ {worker[w].cur} : turn'[u] = turn[u]
    BY <1>0, <1>6, FinishesFacts DEF Finishing
  <2>2. \A v \in Turns : worker'[v].pc \notin OwningPC
    BY <1>6 DEF Finishing, Others, OwnerInv, WorkerOwnsTurn
  <2>3. QED
    BY <1>1, <1>6, <2>1, <2>2 DEF Finishing, Others, OwnerInv, WorkerOwnsTurn, WorkerStarted,
                                  ContinuationAlone
<1>7. ASSUME NEW w \in Turns, Staying(w) \/ Register(w)
      PROVE  OwnerInv'
  <2>1. UNCHANGED <<active, turn>> /\ Others(w) /\ worker'[w].cur = worker[w].cur
        /\ \/ worker[w].pc \in OwningPC /\ worker'[w].pc \in OwningPC
           \/ worker[w].pc \in ConsumePC /\ worker'[w].pc \in ConsumePC
    BY <1>0, <1>7 DEF Staying, Register, At, Goto, Others, WorkerRecord, OwningPC, storeVars
  <2>2. QED
    BY <1>1, <1>2, <2>1 DEF Others, OwnerInv, WorkerOwnsTurn, WorkerStarted, ContinuationAlone
<1>8. ASSUME NEW w \in Turns, Leaving(w)
      PROVE  OwnerInv'
  BY <1>1, <1>2, <1>8 DEF Leaving, Others, OwnerInv, WorkerOwnsTurn, WorkerStarted, ContinuationAlone
<1>9. ASSUME NEW w \in Turns, Watching(w)
      PROVE  OwnerInv'
  <2>1. CASE UNCHANGED <<active, turn>>
    BY <1>2, <1>9, <2>1 DEF Watching, Others, OwnerInv, WorkerOwnsTurn, WorkerStarted,
                            ContinuationAlone
  <2>2. CASE FinishesTurn(w)
    <3>1. active = w /\ turn'[w].status \in FinishStatus
          /\ \A u \in Turns \ {w} : turn'[u] = turn[u]
      BY <1>0, <2>2, FinishesFacts
    <3>2. \A v \in Turns : worker[v].pc \notin OwningPC
      BY <1>9, <3>1 DEF Watching, OwnerInv, WorkerOwnsTurn, ContinuationAlone
    <3>3. QED
      BY <1>1, <1>9, <3>1, <3>2 DEF Watching, Others, OwnerInv, WorkerOwnsTurn, WorkerStarted,
                                    ContinuationAlone
  <2>3. QED
    BY <1>9, <2>1, <2>2 DEF Watching
<1>10. CASE Restarting
  BY <1>10 DEF Restarting, OwnerInv, WorkerOwnsTurn, WorkerStarted, ContinuationAlone
<1>11. ControlTypeOK
  BY DEF ProcessInv
<1>12. QED
  BY <1>3, <1>4, <1>5, <1>6, <1>7, <1>8, <1>9, <1>10, <1>11, Moves DEF Move

(* No task exists at first. *)
LEMMA OwnerInit == ControlInit => OwnerInv
BY Places DEF ControlInit, Off, OwnerInv, WorkerOwnsTurn, WorkerStarted, ContinuationAlone

(***************************************************************************)
(* A worker that drives a turn owns it: the turn is the session's active   *)
(* turn and no other task drives it, however workers, watchdogs, the pump, *)
(* the handlers and restarts interleave.                                   *)
(***************************************************************************)
THEOREM ControlOwnsTurn == ControlSpec => []WorkerOwnsTurn
<1>1. ProcessInv /\ OwnerInv /\ [ControlNext]_vars => OwnerInv'
  <2>1. ASSUME OwnerInv, UNCHANGED vars
        PROVE  OwnerInv'
    BY <2>1 DEF vars, storeVars, controlVars, OwnerInv, WorkerOwnsTurn, WorkerStarted,
                ContinuationAlone
  <2>2. QED
    BY <2>1, OwnerStep
<1>2. OwnerInv => WorkerOwnsTurn
  BY DEF OwnerInv
<1>3. QED
  BY <1>1, <1>2, ProcessInit, ProcessStep, OwnerInit, PTL DEF ControlSpec

-----------------------------------------------------------------------------
(* Cancellation. *)

EntryInv == RegisteredEntry /\ ConsumerDone

(* The entry of active_cancellations stays with the turn that registered,   *)
(* because a guard dropped late belongs to a turn that has finished.        *)
LEMMA EntryStep ==
  ASSUME ProcessInv, ProcessInv', OwnerInv, OwnerInv', OneActiveTurn, EntryInv, ControlNext
  PROVE  EntryInv'
<1>0. StoreTypeOK /\ worker \in [Turns -> WorkerRecord] /\ CursorKnown /\ CursorKnown' /\ ControlTypeOK
  BY DEF ProcessInv, ControlTypeOK
<1>1. None \notin Turns /\ "unused" \notin FinishStatus /\ "active" \notin FinishStatus
  BY DEF None, Turns, FinishStatus
<1>2. \A w \in Turns : worker[w].pc \in OwningPC \cup ConsumePC => worker[w].cur \in Turns
  BY <1>0, Places DEF CursorKnown
<1>3. \A w \in Turns : worker'[w].pc \in OwningPC => worker'[w].cur \in Turns
  BY <1>0, Places DEF CursorKnown
<1>4. ASSUME active' = None
      PROVE  RegisteredEntry'
  BY <1>1, <1>3, <1>4, Places DEF OwnerInv, WorkerOwnsTurn, RegisteredEntry
<1> USE Places
<1>5. CASE Standing
  BY <1>5 DEF Standing, EntryInv, RegisteredEntry, ConsumerDone
<1>6. ASSUME NEW t \in Turns, Spawning(t)
      PROVE  EntryInv'
  <2>1. turn[t].status = "unused" /\ \A u \in Turns \ {t} : turn'[u] = turn[u]
    BY <1>0, <1>6, StartsFacts DEF Spawning
  <2>2. QED
    BY <1>1, <1>2, <1>6, <2>1 DEF Spawning, Others, EntryInv, RegisteredEntry, ConsumerDone
<1>7. ASSUME NEW w \in Turns, NEW t \in Turns, Claiming(w, t)
      PROVE  EntryInv'
  <2>1. active = None /\ turn[t].status = "unused" /\ \A u \in Turns \ {t} : turn'[u] = turn[u]
    BY <1>0, <1>7, StartsFacts DEF Claiming
  <2>2. \A v \in Turns : worker[v].pc \notin OwningPC
    BY <1>1, <1>2, <2>1 DEF OwnerInv, WorkerOwnsTurn
  <2>3. QED
    BY <1>1, <1>2, <1>7, <2>1, <2>2 DEF Claiming, Others, EntryInv, RegisteredEntry, ConsumerDone
<1>8. ASSUME NEW w \in Turns, Finishing(w)
      PROVE  EntryInv'
  <2>1. active' = None /\ turn'[worker[w].cur].status \in FinishStatus
        /\ \A u \in Turns \ {worker[w].cur} : turn'[u] = turn[u]
    BY <1>0, <1>8, FinishesFacts DEF Finishing
  <2>2. QED
    BY <1>2, <1>4, <1>8, <2>1 DEF Finishing, Others, EntryInv, ConsumerDone
<1>9. ASSUME NEW w \in Turns, Staying(w)
      PROVE  EntryInv'
  BY <1>9 DEF Staying, Others, EntryInv, RegisteredEntry, ConsumerDone
<1>10. ASSUME NEW w \in Turns, Register(w)
       PROVE  EntryInv'
  <2>1. UNCHANGED turn /\ Others(w) /\ entry' = worker'[w].cur /\ worker'[w].pc \in OwningPC
    BY <1>0, <1>10 DEF Register, At, Goto, Others, WorkerRecord, OwningPC, storeVars
  <2>2. QED
    BY <2>1 DEF Others, OwnerInv, WorkerOwnsTurn, EntryInv, RegisteredEntry, ConsumerDone
<1>11. ASSUME NEW w \in Turns, Leaving(w)
       PROVE  EntryInv'
  <2>1. ASSUME NEW v \in Turns \ {w}, worker[v].pc \in RegisteredPC
        PROVE  entry # worker[w].cur
    <3>1. entry = active /\ active \in Turns
      BY <1>2, <2>1 DEF EntryInv, RegisteredEntry, OwnerInv, WorkerOwnsTurn
    <3>2. turn[active].status = "active"
      BY <1>1, <3>1 DEF OneActiveTurn
    <3>3. worker[w].pc \in ConsumePC
      BY <1>11, <2>1 DEF Leaving, OwnerInv, WorkerOwnsTurn
    <3>4. QED
      BY <1>1, <3>1, <3>2, <3>3 DEF EntryInv, ConsumerDone
  <2>2. QED
    BY <1>11, <2>1 DEF Leaving, DropGuard, Others, EntryInv, RegisteredEntry, ConsumerDone
<1>12. ASSUME NEW w \in Turns, Watching(w)
       PROVE  EntryInv'
  <2>1. CASE UNCHANGED <<active, turn>>
    BY <1>12, <2>1 DEF Watching, Others, EntryInv, RegisteredEntry, ConsumerDone
  <2>2. CASE FinishesTurn(w)
    <3>1. active' = None /\ turn'[w].status \in FinishStatus
          /\ \A u \in Turns \ {w} : turn'[u] = turn[u]
      BY <1>0, <2>2, FinishesFacts
    <3>2. QED
      BY <1>2, <1>4, <1>12, <3>1 DEF Watching, Others, EntryInv, ConsumerDone
  <2>3. QED
    BY <1>12, <2>1, <2>2 DEF Watching
<1>13. CASE Restarting
  BY <1>13 DEF Restarting, EntryInv, RegisteredEntry, ConsumerDone
<1>14. QED
  BY <1>0, <1>5, <1>6, <1>7, <1>8, <1>9, <1>10, <1>11, <1>12, <1>13, Moves DEF Move

(* A step that neither registers, cancels nor restarts leaves the signals   *)
(* alone, and requests a cancel only where no turn runs: the budget's.      *)
QuietStep ==
    /\ UNCHANGED signalled
    /\ cancelSeen \subseteq cancelSeen'
    /\ cancelRequested' => cancelRequested \/ active' = None

(* What a transaction other than session.cancelled does to cancellation. *)
LEMMA QuietTransactions ==
  ASSUME StoreTypeOK, UNCHANGED signalled,
         \/ UNCHANGED storeVars
         \/ \E t, m, b : AdmitDirect(t, m, b) \/ AdmitQueued(m, b)
         \/ \E t, m : ClaimQueued(t, m)
         \/ \E t, b, S : ClaimSteers(t, b, S) \/ ClaimResumed(t, b, S)
         \/ \E t, k : ClaimWake(t, k) \/ ClaimWakesForActiveTurn(t, k)
         \/ \E t, r, kind : CommitRequest(t, r, kind) \/ CommitToolResult(t, r)
         \/ \E t, status : CommitTerminal(t, status)
         \/ \E s, b : AppendSteer(s, b) \/ AppendCancelConsumed(s, b) \/ CommitWake(s, b)
         \/ \E x : AppendQueueDrop(x) \/ CommitBudget(x)
  PROVE  QuietStep
<1>1. CASE UNCHANGED storeVars
  BY <1>1 DEF QuietStep, storeVars
<1>2. ASSUME NEW t, NEW m, NEW b, AdmitDirect(t, m, b) \/ AdmitQueued(m, b)
      PROVE  QuietStep
  BY <1>2 DEF QuietStep, AdmitDirect, AdmitQueued
<1>3. ASSUME NEW t, NEW x, NEW y, ClaimQueued(t, x) \/ ClaimSteers(t, x, y) \/ ClaimResumed(t, x, y)
      PROVE  QuietStep
  BY <1>3 DEF QuietStep, ClaimQueued, ClaimSteers, ClaimResumed
<1>4. ASSUME NEW t, NEW k, ClaimWake(t, k) \/ ClaimWakesForActiveTurn(t, k)
      PROVE  QuietStep
  <2>1. CASE ClaimWake(t, k)
    BY <2>1 DEF QuietStep, ClaimWake
  <2>2. CASE ClaimWakesForActiveTurn(t, k)
    <3>1. UNCHANGED <<cancelRequested, cancelSeen>>
      BY <2>2 DEF ClaimWakesForActiveTurn
    <3>2. QED
      BY <3>1, ZenonT(60) DEF QuietStep
  <2>3. QED
    BY <1>4, <2>1, <2>2
<1>5. ASSUME NEW t, NEW r, NEW kind, CommitRequest(t, r, kind) \/ CommitToolResult(t, r)
      PROVE  QuietStep
  BY <1>5 DEF QuietStep, CommitRequest, CommitToolResult
<1>6. ASSUME NEW t, NEW status, CommitTerminal(t, status)
      PROVE  QuietStep
  BY <1>6 DEF QuietStep, CommitTerminal
<1>7. ASSUME NEW s, NEW b, AppendSteer(s, b) \/ AppendCancelConsumed(s, b) \/ CommitWake(s, b)
      PROVE  QuietStep
  BY <1>7 DEF QuietStep, AppendSteer, AppendCancelConsumed, CommitWake
<1>8. ASSUME NEW x, AppendQueueDrop(x) \/ CommitBudget(x)
      PROVE  QuietStep
  BY <1>8 DEF QuietStep, AppendQueueDrop, CommitBudget
<1>9. QED
  BY <1>1, <1>2, <1>3, <1>4, <1>5, <1>6, <1>7, <1>8

(* Which steps change a signal. *)
LEMMA Signals ==
  ASSUME ControlTypeOK, ControlNext
  PROVE  \/ QuietStep
         \/ \E w \in Turns : Register(w)
         \/ \E b \in Branches : CancelSession(b)
         \/ signalled' = {} /\ \A w \in Turns : worker'[w].pc = "off"
<1>0. StoreTypeOK
  BY DEF ControlTypeOK
<1>1. CASE PumpDispatches \/ HandlerStep
  BY <1>0, <1>1, QuietTransactions DEF PumpDispatches, HandlerStep, ClearDrops, ResumeClaims
<1>2. CASE \/ \E m \in Messages, b \in Branches : SendMessage(m, b)
           \/ \E s \in Steers, b \in Branches : SteerSession(s, b)
           \/ \E lim \in Limits : ConfigureBudget(lim)
           \/ \E k \in Wakes, b \in Branches : ReceiveWake(k, b)
  BY <1>0, <1>2, QuietTransactions
  DEF SendMessage, SteerSession, ConfigureBudget, ReceiveWake, controlVars
<1>3. CASE ClearReads \/ \E r \in Requests : ResumeReads(r)
  BY <1>0, <1>3, QuietTransactions DEF ClearReads, ResumeReads
<1>4. ASSUME NEW w \in Turns, TurnStep(w) \/ ModelStep(w), ~Register(w)
      PROVE  QuietStep
  <2>1. CASE AskPauses(w) \/ ApprovalPauses(w)
    BY <1>0, <2>1, QuietTransactions DEF AskPauses, ApprovalPauses
  <2>2. CASE Finish(w) \/ (\E K \in SUBSET Wakes : WaitAgent(w, K))
             \/ \E r \in Requests : AskRequested(w, r)
    BY <1>0, <2>2, QuietTransactions DEF Finish, WaitAgent, AskRequested, controlVars
  <2>3. CASE \/ Preflight(w) \/ LoopReturns(w) \/ RecordResult(w) \/ ResumeTool(w) \/ ResumeCheck(w)
             \/ TurnFails(w) \/ ApprovalNeeded(w)
    BY <1>0, <2>3, QuietTransactions
    DEF Preflight, LoopReturns, RecordResult, ResumeTool, ResumeCheck, TurnFails, ApprovalNeeded
  <2>4. QED
    BY <1>4, <2>1, <2>2, <2>3 DEF TurnStep, ModelStep
<1>5. ASSUME NEW w \in Turns, ConsumeStep(w)
      PROVE  QuietStep
  <2>1. CASE DropAll(w) \/ ApplyPendingSteers(w)
    BY <1>0, <2>1, QuietTransactions DEF DropAll, ApplyPendingSteers
  <2>2. CASE ClaimNextWake(w) \/ DispatchNextQueued(w)
    BY <1>0, <2>2, QuietTransactions DEF ClaimNextWake, DispatchNextQueued
  <2>3. CASE \/ CheckCancel(w) \/ ReadDroppedSteers(w) \/ ReadDroppedQueue(w) \/ ReadSteers(w)
             \/ ReadQueue(w)
    BY <1>0, <2>3, QuietTransactions
    DEF CheckCancel, ReadDroppedSteers, ReadDroppedQueue, ReadSteers, ReadQueue
  <2>4. QED
    BY <1>5, <2>1, <2>2, <2>3 DEF ConsumeStep
<1>6. ASSUME NEW w \in Turns, Panic(w)
      PROVE  QuietStep
  BY <1>0, <1>6, QuietTransactions DEF Panic
<1>7. ASSUME NEW w \in Turns, Watchdog(w)
      PROVE  QuietStep
  <2>1. UNCHANGED storeVars \/ CommitTerminal(w, StatusWithPrecedence("failed"))
    BY <1>7 DEF Watchdog
  <2>2. QED
    BY <1>0, <1>7, <2>1, QuietTransactions DEF Watchdog
<1>8. ASSUME Restart
      PROVE  signalled' = {} /\ \A w \in Turns : worker'[w].pc = "off"
  BY <1>8 DEF Restart, Off
<1>9. QED
  BY <1>1, <1>2, <1>3, <1>4, <1>5, <1>6, <1>7, <1>8 DEF ControlNext, OperatorStep, WorkerStep

CancelInv == CancelHeard /\ SignalExact

(* Registration and cancellation meet in the entry, under the store lock. *)
LEMMA CancelStep ==
  ASSUME ProcessInv, ProcessInv', OwnerInv, OwnerInv', EntryInv, CancelAddressed, CancelInv,
         ControlNext
  PROVE  CancelInv'
<1>0. ControlTypeOK /\ worker \in [Turns -> WorkerRecord] /\ CursorKnown /\ CursorKnown'
  BY DEF ProcessInv, ControlTypeOK
<1>1. None \notin Turns
  BY DEF None, Turns
<1>2. \A w \in Turns : worker'[w].pc \in RegisteredPC => active' = worker'[w].cur /\ active' # None
  BY <1>0, <1>1, Places DEF CursorKnown, OwnerInv, WorkerOwnsTurn
<1>3. ASSUME NEW w \in Turns, Register(w)
      PROVE  CancelInv'
  <2>1. worker[w].cur \in Turns /\ active = worker[w].cur
    BY <1>0, <1>3 DEF Register, At, CursorKnown
  <2>2. worker'[w].cur = worker[w].cur /\ worker'[w].pc \in OwningPC
    BY <1>0, <1>3 DEF Register, At, Goto, WorkerRecord, OwningPC
  <2>3. UNCHANGED <<cancelRequested, cancelSeen>>
    BY <1>3 DEF Register, storeVars
  <2>4. signalled' = IF cancelRequested THEN signalled \cup {worker[w].cur}
                     ELSE signalled \ {worker[w].cur}
    BY <1>3 DEF Register
  <2>5. CancelHeard'
    BY <2>2, <2>3, <2>4, Places DEF CancelHeard, RegisteredPC, OwnerInv, WorkerOwnsTurn
  <2>6. SignalExact'
    BY <1>1, <2>1, <2>3, <2>4 DEF CancelInv, SignalExact, CancelAddressed
  <2>7. QED
    BY <2>5, <2>6 DEF CancelInv
<1>4. ASSUME NEW b \in Branches, CancelSession(b)
      PROVE  CancelInv'
  <2>1. UNCHANGED <<worker, active>> /\ signalled' = signalled \cup (({entry} \cap {active}) \ {None})
        /\ cancelSeen' = IF active = None THEN cancelSeen ELSE cancelSeen \cup {active}
    BY <1>4 DEF CancelSession, AppendCancel
  <2>2. CancelHeard'
    BY <1>2, <2>1 DEF CancelHeard, RegisteredPC, EntryInv, RegisteredEntry
  <2>3. SignalExact'
    BY <2>1 DEF CancelInv, SignalExact
  <2>4. QED
    BY <2>2, <2>3 DEF CancelInv
<1>5. ASSUME signalled' = {}, \A w \in Turns : worker'[w].pc = "off"
      PROVE  CancelInv'
  BY <1>5, Places DEF CancelInv, CancelHeard, SignalExact
<1>6. ASSUME QuietStep, \A w \in Turns : ~Register(w)
      PROVE  CancelInv'
  <2>1. SignalExact'
    BY <1>6 DEF QuietStep, CancelInv, SignalExact
  <2>2. ASSUME NEW w \in Turns, worker'[w].pc \in RegisteredPC
        PROVE  worker[w].pc \in RegisteredPC /\ worker'[w].cur = worker[w].cur
    BY <1>6, <2>2, <1>0, Moves, Places
    DEF Move, Standing, Spawning, Staying, Finishing, Claiming, Leaving, Watching, Restarting, Others
  <2>3. CancelHeard'
    BY <1>2, <1>6, <2>2 DEF QuietStep, CancelInv, CancelHeard, RegisteredPC
  <2>4. QED
    BY <2>1, <2>3 DEF CancelInv
<1>7. QED
  BY <1>0, <1>3, <1>4, <1>5, <1>6, Signals

(***************************************************************************)
(* A cancel reaches its turn and no other: once a turn is registered, a    *)
(* pending cancel has set its signal, and no signal is set for a turn      *)
(* during which no operator cancelled.                                     *)
(***************************************************************************)
THEOREM ControlCancelHeard == ControlSpec => [](CancelHeard /\ SignalExact)
<1> DEFINE Inv == ProcessInv /\ OwnerInv /\ EntryInv /\ CancelInv
<1>1. ControlInit => Inv
  <2>1. ControlInit => EntryInv /\ CancelInv
    BY Places DEF ControlInit, StoreInit, Off, EntryInv, RegisteredEntry, ConsumerDone, CancelInv,
                  CancelHeard, SignalExact
  <2>2. QED
    BY <2>1, ProcessInit, OwnerInit
<1>2. Inv /\ OneActiveTurn /\ CancelAddressed /\ [ControlNext]_vars => Inv'
  <2>1. ASSUME Inv, OneActiveTurn, CancelAddressed, ControlNext
        PROVE  Inv'
    <3>1. ProcessInv'
      BY <2>1, ProcessStep
    <3>2. OwnerInv'
      BY <2>1, OwnerStep
    <3>3. QED
      BY <2>1, <3>1, <3>2, EntryStep, CancelStep
  <2>2. ASSUME Inv, UNCHANGED vars
        PROVE  Inv'
    <3>1. ProcessInv'
      BY <2>2, ProcessStep
    <3>2. (OwnerInv /\ EntryInv /\ CancelInv)'
      BY <2>2 DEF vars, storeVars, controlVars, OwnerInv, WorkerOwnsTurn, WorkerStarted,
                  ContinuationAlone, EntryInv, RegisteredEntry, ConsumerDone, CancelInv,
                  CancelHeard, SignalExact
    <3>3. QED
      BY <3>1, <3>2
  <2>3. QED
    BY <2>1, <2>2
<1>3. Inv => CancelHeard /\ SignalExact
  BY DEF CancelInv
<1> HIDE DEF Inv
<1>4. ControlSpec => [](OneActiveTurn /\ CancelAddressed)
  BY ControlImplementsStore, StoreOneActiveTurn, StoreControl, PTL DEF ImplementsStore
<1>5. QED
  BY <1>1, <1>2, <1>3, <1>4, PTL DEF ControlSpec

\* No signal is ever set for a turn during which no operator cancelled
\* (begin_active_turn_cancellation and cancel_session).
THEOREM ControlSignalExact == ControlSpec => []SignalExact
BY ControlCancelHeard, PTL

-----------------------------------------------------------------------------
(* Pauses. *)

(* A task that will record a pause, or has asked and not yet paused. *)
Pausing(w) ==
    \/ worker[w].pc = "asked"
    \/ worker[w].pc \in {"result", "finish"} /\ worker[w].res = "awaiting"

PauseBacked == \A w \in Turns : Pausing(w) => PendingRequests # {}

(* Turns are numbered without gaps, and the active one is the latest. *)
TurnsNumbered ==
    \A t, u \in Turns : t < u /\ turn[u].status # "unused" => turn[t].status # "unused"

ActiveLast == active # None => \A u \in Turns : u > active => turn[u].status = "unused"

NumberInv == TurnsNumbered /\ ActiveLast

PauseInv == NumberInv /\ PauseBacked /\ PausedHasRequest

(* A step that resolves no pending request, or starts a turn. *)
KeepsRequests ==
    \/ PendingRequests \subseteq PendingRequests'
    \/ \E t \in Turns : StartsTurn(t)

(* Of the transactions only the result of a call the turn itself answers    *)
(* takes a request away without starting a turn.                            *)
LEMMA RequestTransactions ==
  ASSUME StoreTypeOK,
         \/ UNCHANGED storeVars
         \/ \E t, m, b : AdmitDirect(t, m, b) \/ AdmitQueued(m, b)
         \/ \E t, m : ClaimQueued(t, m)
         \/ \E t, b, S : ClaimSteers(t, b, S)
         \/ \E t \in Turns, r \in Requests : \E S : ClaimResumed(t, r, S)
         \/ \E t, k : ClaimWake(t, k) \/ ClaimWakesForActiveTurn(t, k)
         \/ \E t, r, kind : CommitRequest(t, r, kind)
         \/ \E t, status : CommitTerminal(t, status)
         \/ \E s, b : AppendSteer(s, b) \/ AppendCancelConsumed(s, b) \/ CommitWake(s, b)
         \/ \E x : AppendQueueDrop(x) \/ CommitBudget(x) \/ AppendCancel(x)
  PROVE  KeepsRequests
<1>1. ASSUME UNCHANGED request
      PROVE  KeepsRequests
  BY <1>1 DEF KeepsRequests, PendingRequests
<1>2. ASSUME NEW t, NEW r, NEW kind, CommitRequest(t, r, kind)
      PROVE  KeepsRequests
  BY <1>2 DEF CommitRequest, KeepsRequests, PendingRequests, StoreTypeOK, Fresh
<1>3. ASSUME NEW t \in Turns, NEW r \in Requests, NEW S, ClaimResumed(t, r, S)
      PROVE  KeepsRequests
  BY <1>3, Starts DEF KeepsRequests
<1>4. CASE UNCHANGED storeVars
  BY <1>1, <1>4 DEF storeVars
<1>5. ASSUME NEW t, NEW x, NEW y, AdmitDirect(t, x, y) \/ AdmitQueued(x, y) \/ ClaimQueued(t, x)
                                   \/ ClaimSteers(t, x, y)
      PROVE  KeepsRequests
  BY <1>1, <1>5 DEF AdmitDirect, AdmitQueued, ClaimQueued, ClaimSteers
<1>6. ASSUME NEW t, NEW k, ClaimWake(t, k) \/ ClaimWakesForActiveTurn(t, k) \/ CommitTerminal(t, k)
      PROVE  KeepsRequests
  <2>1. UNCHANGED request
    <3>1. CASE ClaimWake(t, k)
      BY <3>1 DEF ClaimWake
    <3>2. CASE ClaimWakesForActiveTurn(t, k)
      BY <3>2 DEF ClaimWakesForActiveTurn
    <3>3. CASE CommitTerminal(t, k)
      BY <3>3 DEF CommitTerminal
    <3>4. QED
      BY <1>6, <3>1, <3>2, <3>3
  <2>2. QED
    BY <1>1, <2>1
<1>7. ASSUME NEW s, NEW b, AppendSteer(s, b) \/ AppendCancelConsumed(s, b) \/ CommitWake(s, b)
      PROVE  KeepsRequests
  BY <1>1, <1>7 DEF AppendSteer, AppendCancelConsumed, CommitWake
<1>8. ASSUME NEW x, AppendQueueDrop(x) \/ CommitBudget(x) \/ AppendCancel(x)
      PROVE  KeepsRequests
  BY <1>1, <1>8 DEF AppendQueueDrop, CommitBudget, AppendCancel
<1>9. QED
  BY <1>2, <1>3, <1>4, <1>5, <1>6, <1>7, <1>8

(* A turn starts behind all the others. *)
LEMMA NumberStep ==
  ASSUME StoreTypeOK, OneActiveTurn, NumberInv, UNCHANGED storeVars \/ StoreNext
  PROVE  NumberInv'
<1>0. Turns \subseteq Nat /\ None \notin Turns
  BY StoreAssumption DEF Turns, None
<1>1. ASSUME UNCHANGED <<active, turn>>
      PROVE  NumberInv'
  BY <1>1 DEF NumberInv, TurnsNumbered, ActiveLast
<1>2. ASSUME NEW t \in Turns, NEW b, NEW m, NEW S, NEW r, StartTurn(t, b, m, S, r)
      PROVE  NumberInv'
  <2>1. active' = t /\ turn[t].status = "unused" /\ turn'[t].status = "active"
        /\ (\A u \in Turns : u < t => turn[u].status # "unused")
        /\ \A u \in Turns \ {t} : turn'[u] = turn[u]
    BY <1>2 DEF StartTurn, FreshTurn, StoreTypeOK
  <2>2. \A u \in Turns : u > t => turn[u].status = "unused"
    BY <1>0, <2>1 DEF NumberInv, TurnsNumbered
  <2>3. TurnsNumbered'
    BY <1>0, <2>1, <2>2 DEF NumberInv, TurnsNumbered
  <2>4. ActiveLast'
    BY <1>0, <2>1, <2>2 DEF ActiveLast
  <2>5. QED
    BY <2>3, <2>4 DEF NumberInv
<1>3. ASSUME NEW t \in Turns, NEW status \in FinishStatus, CommitTerminal(t, status)
      PROVE  NumberInv'
  <2>1. active = t /\ active' = None /\ turn'[t].status # "unused"
        /\ \A u \in Turns \ {t} : turn'[u] = turn[u]
    BY <1>3 DEF CommitTerminal, StoreTypeOK, TurnRecord, FinishStatus
  <2>2. turn[t].status # "unused"
    BY <1>0, <2>1 DEF OneActiveTurn
  <2>3. \A u \in Turns : turn'[u].status = "unused" <=> turn[u].status = "unused"
    BY <2>1, <2>2
  <2>4. TurnsNumbered'
    BY <2>3 DEF NumberInv, TurnsNumbered
  <2>5. QED
    BY <2>1, <2>4 DEF NumberInv, ActiveLast
<1>4. QED
  BY <1>1, <1>2, <1>3, TurnSteps DEF storeVars

(* A task is led to a pause by a request it has just recorded or found      *)
(* pending; the one step that takes a request away is no pause.             *)
PauseStep ==
    \/ /\ KeepsRequests
       /\ \A w \in Turns : Pausing(w)' => Pausing(w) \/ PendingRequests' # {}
    \/ \E w \in Turns : worker[w].pc = "asked" /\ Others(w) /\ ~Pausing(w)' /\ UNCHANGED active

LEMMA TurnPauses ==
  ASSUME ControlTypeOK, NEW w \in Turns, TurnStep(w) \/ ModelStep(w)
  PROVE  PauseStep
<1> DEFINE me == worker[w]
<1>0. worker \in [Turns -> WorkerRecord] /\ StoreTypeOK
  BY DEF ControlTypeOK
<1>1. ASSUME KeepsRequests, Others(w), Pausing(w)' => Pausing(w) \/ PendingRequests' # {}
      PROVE  PauseStep
  BY <1>1 DEF PauseStep, Others, Pausing
<1>2. ASSUME NEW pc, Goto(w, pc)
      PROVE  Others(w) /\ worker'[w].pc = pc
  BY <1>0, <1>2 DEF Goto, Others, WorkerRecord
<1>3. ASSUME NEW pc, NEW res, worker' = [worker EXCEPT ![w] = [me EXCEPT !.pc = pc, !.res = res]]
      PROVE  Others(w) /\ worker'[w].pc = pc /\ worker'[w].res = res
  BY <1>0, <1>3 DEF Others, WorkerRecord
<1>4. ASSUME NEW pc, NEW res, NEW after,
             worker' = [worker EXCEPT ![w] = [me EXCEPT !.pc = pc, !.res = res, !.after = after]]
      PROVE  Others(w) /\ worker'[w].pc = pc /\ worker'[w].res = res
  BY <1>0, <1>4 DEF Others, WorkerRecord
<1>5. ASSUME UNCHANGED storeVars
      PROVE  KeepsRequests
  BY <1>0, <1>5, RequestTransactions
<1>6. CASE Register(w) \/ Preflight(w)
  <2>1. Others(w) /\ ~Pausing(w)'
    <3>1. Others(w) /\ \/ worker'[w].pc \in {"preflight", "resumeTool", "running"}
                       \/ worker'[w].pc = "finish" /\ worker'[w].res = "cancelled"
      BY <1>2, <1>4, <1>6 DEF Register, Preflight
    <3>2. QED
      BY <3>1 DEF Pausing
  <2>2. QED
    BY <1>1, <1>5, <1>6, <2>1 DEF Register, Preflight
<1>7. CASE TurnFails(w) \/ LoopReturns(w)
  <2>1. Others(w) /\ ~Pausing(w)'
    <3>1. Others(w) /\ worker'[w].res \in {"failed", "completed"} /\ worker'[w].pc \in {"finish", "result"}
      BY <1>3, <1>7 DEF TurnFails, LoopReturns
    <3>2. QED
      BY <3>1 DEF Pausing
  <2>2. QED
    BY <1>1, <1>5, <1>7, <2>1 DEF TurnFails, LoopReturns
<1>8. CASE ResumeTool(w) \/ ApprovalNeeded(w)
  <2>1. Others(w) /\ ~Pausing(w)'
    BY <1>2, <1>8 DEF ResumeTool, ApprovalNeeded, Pausing
  <2>2. QED
    BY <1>1, <1>5, <1>8, <2>1 DEF ResumeTool, ApprovalNeeded
<1>9. CASE RecordResult(w)
  <2>1. Others(w) /\ (Pausing(w)' => Pausing(w))
    <3>1. Others(w) /\ worker'[w].pc = "finish" /\ worker'[w].res = StatusWithPrecedence(me.res)
      BY <1>3, <1>9 DEF RecordResult
    <3>2. QED
      BY <1>9, <3>1 DEF RecordResult, Pausing, StatusWithPrecedence, At
  <2>2. QED
    BY <1>1, <1>5, <1>9, <2>1 DEF RecordResult
<1>10. ASSUME NEW t, NEW r \in Requests, NEW kind, CommitRequest(t, r, kind)
       PROVE  KeepsRequests /\ PendingRequests' # {}
  <2>1. r \in PendingRequests'
    BY <1>0, <1>10 DEF CommitRequest, PendingRequests, StoreTypeOK
  <2>2. QED
    BY <1>0, <1>10, <2>1, RequestTransactions
<1>11. CASE \E r \in Requests : AskRequested(w, r)
  <2>1. Others(w)
    BY <1>2, <1>11 DEF AskRequested
  <2>2. QED
    BY <1>1, <1>10, <1>11, <2>1 DEF AskRequested
<1>12. CASE ApprovalPauses(w)
  <2>1. Others(w) /\ worker'[w].res = (IF me.cur \in signalled THEN "completed" ELSE "awaiting")
        /\ worker'[w].pc = "result"
    BY <1>3, <1>12 DEF ApprovalPauses
  <2>2. CASE me.cur \in signalled
    BY <1>1, <1>5, <1>12, <2>1, <2>2 DEF ApprovalPauses, Pausing
  <2>3. CASE me.cur \notin signalled
    BY <1>1, <1>10, <1>12, <2>1, <2>3 DEF ApprovalPauses
  <2>4. QED
    BY <2>2, <2>3
<1>13. CASE AskPauses(w)
  <2>1. Others(w) /\ worker'[w].res = (IF me.cur \in signalled THEN "completed" ELSE "awaiting")
        /\ worker'[w].pc = "result" /\ me.pc = "asked"
    BY <1>3, <1>13 DEF AskPauses, At
  <2>2. CASE me.cur \in signalled
    BY <1>13, <2>1, <2>2 DEF PauseStep, Pausing, AskPauses, CommitToolResult
  <2>3. CASE me.cur \notin signalled
    BY <1>1, <1>5, <1>13, <2>1, <2>3 DEF AskPauses, Pausing
  <2>4. QED
    BY <2>2, <2>3
<1>14. CASE ResumeCheck(w)
  <2>1. \/ worker' = [worker EXCEPT ![w] = [me EXCEPT !.pc = "finish", !.res = "cancelled",
                                                     !.after = "discard"]]
        \/ /\ worker' = [worker EXCEPT ![w] = [me EXCEPT !.pc = "finish", !.res = "awaiting",
                                                        !.after = "stop"]]
           /\ PendingRequests # {}
        \/ Goto(w, "register")
    BY <1>14 DEF ResumeCheck, Goto
  <2>2. PendingRequests' = PendingRequests
    BY <1>14 DEF ResumeCheck, storeVars, PendingRequests
  <2>3. Others(w) /\ (Pausing(w)' => PendingRequests # {})
    <3>1. Others(w) /\ \/ worker'[w].pc = "finish" /\ worker'[w].res = "cancelled"
                       \/ PendingRequests # {}
                       \/ worker'[w].pc = "register"
      BY <1>2, <1>4, <2>1
    <3>2. QED
      BY <3>1 DEF Pausing
  <2>4. QED
    BY <1>1, <1>5, <1>14, <2>2, <2>3 DEF ResumeCheck
<1>15. CASE \E K \in SUBSET Wakes : WaitAgent(w, K)
  <2>1. KeepsRequests
    BY <1>0, <1>15, RequestTransactions DEF WaitAgent
  <2>2. QED
    BY <1>15, <2>1 DEF WaitAgent, controlVars, PauseStep, Pausing
<1>16. CASE Finish(w)
  <2>1. KeepsRequests
    BY <1>0, <1>16, RequestTransactions DEF Finish
  <2>2. Others(w) /\ worker'[w].pc \in {"off", "error", "consume"}
    BY <1>0, <1>16 DEF Finish, Others, AfterFinish, Off, WorkerRecord
  <2>3. QED
    BY <1>1, <2>1, <2>2 DEF Pausing
<1>17. QED
  BY <1>6, <1>7, <1>8, <1>9, <1>11, <1>12, <1>13, <1>14, <1>15, <1>16 DEF TurnStep, ModelStep

(* Nobody else pauses a turn. *)
LEMMA Pauses ==
  ASSUME ControlTypeOK, ControlNext
  PROVE  PauseStep
<1>0. StoreTypeOK /\ worker \in [Turns -> WorkerRecord]
  BY DEF ControlTypeOK
<1>1. ASSUME KeepsRequests, \A w \in Turns : worker'[w] = worker[w] \/ worker'[w].pc \notin OwningPC
                                               \/ worker'[w].pc \in {"register", "resumeRegister"}
      PROVE  PauseStep
  BY <1>1 DEF PauseStep, Pausing, OwningPC
<1>2. CASE OperatorStep \/ HandlerStep \/ PumpDispatches
  <2>1. KeepsRequests
    <3>1. CASE PumpDispatches \/ ClearDrops
      BY <1>0, <3>1, RequestTransactions DEF PumpDispatches, ClearDrops
    <3>2. ASSUME NEW r \in Requests, ResumeClaims(r)
          PROVE  KeepsRequests
      BY <1>0, <3>2, RequestTransactions DEF ResumeClaims
    <3>3. ASSUME NEW m \in Messages, NEW b \in Branches, SendMessage(m, b)
          PROVE  KeepsRequests
      BY <1>0, <3>3, RequestTransactions DEF SendMessage
    <3>4. ASSUME NEW x, NEW b, CancelSession(b) \/ SteerSession(x, b) \/ ReceiveWake(x, b)
          PROVE  KeepsRequests
      BY <1>0, <3>4, RequestTransactions DEF CancelSession, SteerSession, ReceiveWake
    <3>5. ASSUME NEW x, ClearReads \/ ResumeReads(x) \/ ConfigureBudget(x)
          PROVE  KeepsRequests
      BY <1>0, <3>5, RequestTransactions DEF ClearReads, ResumeReads, ConfigureBudget
    <3>6. QED
      BY <1>2, <3>1, <3>2, <3>3, <3>4, <3>5 DEF OperatorStep, HandlerStep
  <2>2. QED
    BY <1>1, <1>2, <2>1, OperatorMoves DEF Standing, Spawning, Others
<1>3. ASSUME NEW w \in Turns, ConsumeStep(w)
      PROVE  PauseStep
  <2>1. KeepsRequests
    <3>1. CASE DropAll(w) \/ ApplyPendingSteers(w)
      BY <1>0, <3>1, RequestTransactions DEF DropAll, ApplyPendingSteers
    <3>2. CASE ClaimNextWake(w) \/ DispatchNextQueued(w)
      BY <1>0, <3>2, RequestTransactions DEF ClaimNextWake, DispatchNextQueued
    <3>3. CASE \/ CheckCancel(w) \/ ReadDroppedSteers(w) \/ ReadDroppedQueue(w) \/ ReadSteers(w)
               \/ ReadQueue(w)
      BY <1>0, <3>3, RequestTransactions
      DEF CheckCancel, ReadDroppedSteers, ReadDroppedQueue, ReadSteers, ReadQueue
    <3>4. QED
      BY <1>3, <3>1, <3>2, <3>3 DEF ConsumeStep
  <2>2. worker[w].pc \in ConsumePC
    BY <1>3 DEF ConsumeStep, CheckCancel, ReadDroppedSteers, ReadDroppedQueue, DropAll, ReadSteers,
                ApplyPendingSteers, ClaimNextWake, ReadQueue, DispatchNextQueued, At, ConsumePC
  <2>3. QED
    BY <1>1, <1>3, <2>1, <2>2, ConsumeMoves, Places DEF Staying, Leaving, Claiming, Others
<1>4. ASSUME NEW w \in Turns, Panic(w) \/ Watchdog(w)
      PROVE  PauseStep
  <2>1. UNCHANGED storeVars \/ CommitTerminal(w, StatusWithPrecedence("failed"))
    BY <1>4 DEF Panic, Watchdog
  <2>2. KeepsRequests
    BY <1>0, <2>1, RequestTransactions
  <2>3. Others(w) /\ worker'[w].pc \in {"off", "error"}
    BY <1>0, <1>4 DEF Panic, Watchdog, Others, Off
  <2>4. QED
    BY <1>1, <2>2, <2>3, Places DEF Others
<1>5. CASE Restart
  <2>1. UNCHANGED storeVars \/ CommitTerminal(active, StatusWithPrecedence("failed"))
    BY <1>5 DEF Restart
  <2>2. KeepsRequests
    BY <1>0, <2>1, RequestTransactions
  <2>3. \A w \in Turns : worker'[w].pc = "off"
    BY <1>5 DEF Restart, Off
  <2>4. QED
    BY <1>1, <2>2, <2>3, Places
<1>6. QED
  BY <1>2, <1>3, <1>4, <1>5, TurnPauses DEF ControlNext, WorkerStep

(* A turn is recorded as paused only by a task that pauses. *)
LEMMA PausedTurns ==
  ASSUME ControlTypeOK, ControlNext, NEW t \in Turns,
         turn'[t].status = "awaiting", turn[t].status # "awaiting"
  PROVE  \E w \in Turns : Pausing(w)
<1>0. StoreTypeOK
  BY DEF ControlTypeOK
<1>1. ~UNCHANGED turn
  OBVIOUS
<1>2. \A u \in Turns : ~StartsTurn(u)
  BY <1>0, StartsFacts
<1>3. ASSUME NEW u, NEW status, CommitTerminal(u, status)
      PROVE  u = t /\ status = "awaiting"
  BY <1>0, <1>3 DEF CommitTerminal, StoreTypeOK
<1>4. ~CommitTerminal(active, StatusWithPrecedence("failed"))
      /\ \A w \in Turns : ~CommitTerminal(w, StatusWithPrecedence("failed"))
  BY <1>3 DEF StatusWithPrecedence
<1>5. ~(OperatorStep \/ HandlerStep \/ PumpDispatches)
  BY <1>1, <1>2, OperatorMoves DEF Standing, Spawning
<1>6. ~Restart
  BY <1>1, <1>4 DEF Restart, storeVars
<1>7. PICK w \in Turns : WorkerStep(w) \/ ModelStep(w) \/ Panic(w)
  BY <1>5, <1>6 DEF ControlNext
<1>8. ~Panic(w) /\ ~Watchdog(w)
  BY <1>1, <1>4 DEF Panic, Watchdog, storeVars
<1>9. ~ConsumeStep(w)
  BY <1>1, <1>2, ConsumeMoves DEF Staying, Leaving, Claiming
<1>10. TurnStep(w) \/ ModelStep(w)
  BY <1>7, <1>8, <1>9 DEF WorkerStep
<1>11. Finishing(w)
  BY <1>1, <1>10, TurnMoves DEF Standing, Register, Staying, storeVars
<1>12. Finish(w)
  BY <1>10, <1>11
  DEF Finishing, TurnStep, ModelStep, Register, Preflight, LoopReturns, AskPauses, ApprovalPauses,
      RecordResult, ResumeTool, ResumeCheck, TurnFails, WaitAgent, AskRequested, ApprovalNeeded, At
<1>13. StatusWithPrecedence(worker[w].res) = "awaiting"
  BY <1>3, <1>12 DEF Finish
<1>14. QED
  BY <1>12, <1>13 DEF Finish, At, Pausing, StatusWithPrecedence

(* While a turn is active no pause is the last word; when none is, the      *)
(* request of the last pause has not been taken away.                       *)
LEMMA PausedStep ==
  ASSUME ProcessInv, ProcessInv', OwnerInv, OneActiveTurn, OneActiveTurn', PauseInv, ControlNext
  PROVE  PauseInv'
<1>0. StoreTypeOK /\ StoreTypeOK' /\ ControlTypeOK /\ CursorKnown
      /\ Turns \subseteq Nat /\ None \notin Turns
  BY StoreAssumption DEF ProcessInv, ControlTypeOK, Turns, None
<1>1. NumberInv'
  BY <1>0, StepStore, NumberStep DEF PauseInv, ProcessInv
<1>2. \A w \in Turns : Pausing(w) \/ worker[w].pc = "asked" =>
          /\ worker[w].pc \in OwningPC /\ active # None
          /\ \A v \in Turns \ {w} : ~Pausing(v)
  <2>1. \A w \in Turns : Pausing(w) \/ worker[w].pc = "asked" => worker[w].pc \in OwningPC
    BY DEF Pausing, OwningPC
  <2>2. \A w \in Turns : worker[w].pc \in OwningPC => worker[w].cur \in Turns
    BY <1>0, Places DEF CursorKnown
  <2>3. QED
    BY <1>0, <2>1, <2>2 DEF OwnerInv, WorkerOwnsTurn
<1>3. \A t \in Turns : StartsTurn(t) => active = None /\ active' = t
  BY <1>0, StartsFacts
<1>4. PauseStep
  BY <1>0, Pauses
<1>5. PauseBacked'
  <2>1. ASSUME NEW w \in Turns, worker[w].pc = "asked", Others(w), ~Pausing(w)'
        PROVE  PauseBacked'
    BY <1>2, <2>1 DEF Others, PauseBacked, Pausing
  <2>2. ASSUME KeepsRequests, \A w \in Turns : Pausing(w)' => Pausing(w) \/ PendingRequests' # {}
        PROVE  PauseBacked'
    <3>1. CASE PendingRequests \subseteq PendingRequests'
      BY <2>2, <3>1 DEF PauseInv, PauseBacked
    <3>2. CASE \E t \in Turns : StartsTurn(t)
      BY <1>2, <1>3, <2>2, <3>2 DEF PauseBacked
    <3>3. QED
      BY <2>2, <3>1, <3>2 DEF KeepsRequests
  <2>3. QED
    BY <1>4, <2>1, <2>2 DEF PauseStep
<1>6. CASE active' # None
  <2>1. active' \in Turns /\ turn'[active'].status = "active"
    BY <1>0, <1>6 DEF StoreTypeOK, OneActiveTurn
  <2>2. \A u \in Turns : u > active' => turn'[u].status = "unused"
    BY <1>1, <1>6 DEF NumberInv, ActiveLast
  <2>3. PausedHasRequest'
    BY <1>0, <2>1, <2>2 DEF PausedHasRequest
  <2>4. QED
    BY <1>1, <1>5, <2>3 DEF PauseInv
<1>7. CASE active' = None
  <2>1. PendingRequests \subseteq PendingRequests'
    BY <1>0, <1>2, <1>3, <1>4, <1>7 DEF PauseStep, KeepsRequests
  <2> SUFFICES ASSUME NEW t \in Turns, turn'[t].status = "awaiting",
                      \A u \in Turns : u > t => turn'[u].status = "unused"
               PROVE  PendingRequests # {}
    BY <1>1, <1>5, <2>1 DEF PausedHasRequest, PauseInv
  <2>2. CASE turn[t].status # "awaiting"
    BY <1>0, <2>2, PausedTurns DEF PauseInv, PauseBacked
  <2>3. CASE turn[t].status = "awaiting"
    <3>1. \A u \in Turns : turn'[u].status = "unused" => turn[u].status = "unused"
      <4>1. \A u, status : CommitTerminal(u, status) /\ status \in FinishStatus =>
               \A v \in Turns : turn'[v].status = "unused" => turn[v].status = "unused"
        BY <1>0 DEF CommitTerminal, StoreTypeOK, TurnRecord, FinishStatus
      <4>2. \A u \in Turns : \A b, m, S, r : ~StartTurn(u, b, m, S, r)
        BY <1>0, <1>7 DEF StartTurn
      <4>3. QED
        BY <1>0, <4>1, <4>2, StepStore, TurnSteps DEF storeVars, ProcessInv
    <3>2. QED
      BY <2>3, <3>1 DEF PauseInv, PausedHasRequest
  <2>4. QED
    BY <2>2, <2>3
<1>8. QED
  BY <1>6, <1>7

\* A session whose last turn paused has the request it paused for, so that
\* approve_tool or answer_tool can resume it: whatever cancels, crashes and
\* watchdogs happened between the request and the pause.
THEOREM ControlPausedHasRequest == ControlSpec => []PausedHasRequest
<1> DEFINE Inv == ProcessInv /\ OwnerInv /\ PauseInv
<1>1. ControlInit => Inv
  <2>1. ControlInit => PauseInv
    BY DEF ControlInit, StoreInit, Off, PauseInv, NumberInv, TurnsNumbered, ActiveLast, PauseBacked,
           Pausing, PausedHasRequest
  <2>2. QED
    BY <2>1, ProcessInit, OwnerInit
<1>2. Inv /\ OneActiveTurn /\ OneActiveTurn' /\ [ControlNext]_vars => Inv'
  <2>1. ASSUME Inv, OneActiveTurn, OneActiveTurn', ControlNext
        PROVE  Inv'
    BY <2>1, ProcessStep, OwnerStep, PausedStep
  <2>2. ASSUME Inv, UNCHANGED vars
        PROVE  Inv'
    <3>1. ProcessInv'
      BY <2>2, ProcessStep
    <3>2. (OwnerInv /\ PauseInv)'
      BY <2>2 DEF vars, storeVars, controlVars, OwnerInv, WorkerOwnsTurn, WorkerStarted,
                  ContinuationAlone, PauseInv, NumberInv, TurnsNumbered, ActiveLast, PauseBacked,
                  Pausing, PausedHasRequest, PendingRequests
    <3>3. QED
      BY <3>1, <3>2
  <2>3. QED
    BY <2>1, <2>2
<1>3. Inv => PausedHasRequest
  BY DEF PauseInv
<1> HIDE DEF Inv
<1>4. ControlSpec => []OneActiveTurn
  BY ControlImplementsStore, StoreOneActiveTurn, PTL DEF ImplementsStore
<1>5. QED
  BY <1>1, <1>2, <1>3, <1>4, PTL DEF ControlSpec
=============================================================================
