------------------------- MODULE SessionStoreProofs -------------------------
(***************************************************************************)
(* The store's transactions keep the session's control state consistent    *)
(* for every number of turns, messages, steers, requests and wakes, every  *)
(* set of branches and limits, and every order in which callers run them.  *)
(***************************************************************************)
EXTENDS SessionStore, TLAPS

-----------------------------------------------------------------------------
(* Type correctness. *)

(* The tables of the initial state have their columns. *)
LEMMA TypeInit == StoreInit => StoreTypeOK /\ RequestsOwned
<1> SUFFICES ASSUME StoreInit PROVE StoreTypeOK /\ RequestsOwned
  OBVIOUS
<1>1. SomeBranch \in Branches
  BY StoreAssumption DEF SomeBranch
<1>2. turn \in [Turns -> TurnRecord]
  BY <1>1 DEF StoreInit, TurnRecord, TurnStatus
<1>3. message \in [Messages -> MessageRecord] /\ steer \in [Steers -> SteerRecord]
  BY <1>1 DEF StoreInit, MessageRecord, SteerRecord
<1>4. request \in [Requests -> RequestRecord] /\ wake \in [Wakes -> WakeRecord]
  BY <1>1 DEF StoreInit, RequestRecord, WakeRecord
<1>5. RequestsOwned
  BY DEF StoreInit, RequestsOwned, PendingRequests
<1>6. QED
  BY <1>2, <1>3, <1>4, <1>5 DEF StoreInit, StoreTypeOK

(* A started turn has well-typed columns. *)
LEMMA StartTurnType ==
  ASSUME StoreTypeOK, NEW t \in Turns, NEW b \in Branches,
         NEW m \in Messages \cup {None}, NEW S \in SUBSET Steers,
         NEW r \in Requests \cup {None}, StartTurn(t, b, m, S, r)
  PROVE  active' \in Turns \cup {None} /\ turn' \in [Turns -> TurnRecord]
BY DEF StoreTypeOK, StartTurn, TurnRecord, TurnStatus

(* Resolving rows of a table changes the state column only. *)
LEMMA ResolveType ==
  ASSUME StoreTypeOK, NEW S
  PROVE  /\ Resolve(steer, S, "applied") \in [Steers -> SteerRecord]
         /\ Resolve(steer, S, "dropped") \in [Steers -> SteerRecord]
         /\ Resolve(message, S, "dropped") \in [Messages -> MessageRecord]
BY DEF StoreTypeOK, Resolve, SteerRecord, MessageRecord

(* Every transaction keeps the columns typed, and keeps each pending        *)
(* request attached to the turn that made it.                               *)
LEMMA TypeStep ==
  ASSUME StoreTypeOK, RequestsOwned, StoreNext
  PROVE  StoreTypeOK' /\ RequestsOwned'
<1>0. None \in Messages \cup {None} /\ None \in Requests \cup {None} /\ {} \in SUBSET Steers
  OBVIOUS
<1> USE <1>0
<1>1. ASSUME NEW t \in Turns, NEW m \in Messages, NEW b \in Branches, AdmitDirect(t, m, b)
      PROVE  StoreTypeOK' /\ RequestsOwned'
  <2>1. StartTurn(t, b, m, {}, None)
    BY <1>1 DEF AdmitDirect
  <2>2. active' \in Turns \cup {None} /\ turn' \in [Turns -> TurnRecord]
    BY <2>1, StartTurnType
  <2>3. QED
    BY <1>1, <2>2 DEF AdmitDirect, StoreTypeOK, MessageRecord, RequestsOwned, PendingRequests
<1>2. ASSUME NEW m \in Messages, NEW b \in Branches, AdmitQueued(m, b)
      PROVE  StoreTypeOK' /\ RequestsOwned'
  BY <1>2 DEF AdmitQueued, StoreTypeOK, MessageRecord, RequestsOwned, PendingRequests
<1>3. ASSUME NEW t \in Turns, NEW m \in Messages, ClaimQueued(t, m)
      PROVE  StoreTypeOK' /\ RequestsOwned'
  <2>1. StartTurn(t, message[m].branch, m, {}, None) /\ message[m].branch \in Branches
    BY <1>3 DEF ClaimQueued, StoreTypeOK, MessageRecord
  <2>2. active' \in Turns \cup {None} /\ turn' \in [Turns -> TurnRecord]
    BY <2>1, StartTurnType
  <2>3. QED
    BY <1>3, <2>2 DEF ClaimQueued, StoreTypeOK, MessageRecord, RequestsOwned, PendingRequests
<1>4. ASSUME NEW t \in Turns, NEW b \in Branches, NEW S \in SUBSET Steers, ClaimSteers(t, b, S)
      PROVE  StoreTypeOK' /\ RequestsOwned'
  <2>1. StartTurn(t, b, None, S, None)
    BY <1>4 DEF ClaimSteers
  <2>2. active' \in Turns \cup {None} /\ turn' \in [Turns -> TurnRecord]
    BY <2>1, StartTurnType
  <2>3. steer' \in [Steers -> SteerRecord]
    BY <1>4, ResolveType DEF ClaimSteers
  <2>4. QED
    BY <1>4, <2>2, <2>3 DEF ClaimSteers, StoreTypeOK, RequestsOwned, PendingRequests
<1>5. ASSUME NEW t \in Turns, NEW k \in Wakes, ClaimWake(t, k)
      PROVE  StoreTypeOK' /\ RequestsOwned'
  <2>1. StartTurn(t, wake[k].branch, None, {}, None) /\ wake[k].branch \in Branches
    BY <1>5 DEF ClaimWake, StoreTypeOK, WakeRecord
  <2>2. active' \in Turns \cup {None} /\ turn' \in [Turns -> TurnRecord]
    BY <2>1, StartTurnType
  <2>3. wake' \in [Wakes -> WakeRecord]
    BY <1>5 DEF ClaimWake, StoreTypeOK, WakeRecord
  <2>4. QED
    BY <1>5, <2>2, <2>3 DEF ClaimWake, StoreTypeOK, RequestsOwned, PendingRequests
<1>6. ASSUME NEW t \in Turns, NEW K \in SUBSET Wakes, ClaimWakesForActiveTurn(t, K)
      PROVE  StoreTypeOK' /\ RequestsOwned'
  <2>1. wake' \in [Wakes -> WakeRecord]
    BY <1>6 DEF ClaimWakesForActiveTurn, StoreTypeOK, WakeRecord
  <2>2. QED
    BY <1>6, <2>1 DEF ClaimWakesForActiveTurn, StoreTypeOK, RequestsOwned, PendingRequests
<1>7. ASSUME NEW t \in Turns, NEW r \in Requests, NEW S \in SUBSET Steers, ClaimResumed(t, r, S)
      PROVE  StoreTypeOK' /\ RequestsOwned'
  <2>1. turn[request[r].turn].branch \in Branches
    BY <1>7 DEF ClaimResumed, StoreTypeOK, RequestsOwned, TurnRecord
  <2>2. StartTurn(t, turn[request[r].turn].branch, None, S, r)
    BY <1>7 DEF ClaimResumed
  <2>3. active' \in Turns \cup {None} /\ turn' \in [Turns -> TurnRecord]
    BY <2>1, <2>2, StartTurnType
  <2>4. steer' \in [Steers -> SteerRecord]
    BY <1>7, ResolveType DEF ClaimResumed
  <2>5. request' \in [Requests -> RequestRecord] /\ RequestsOwned'
    BY <1>7 DEF ClaimResumed, StoreTypeOK, RequestRecord, RequestsOwned, PendingRequests
  <2>6. QED
    BY <1>7, <2>3, <2>4, <2>5 DEF ClaimResumed, StoreTypeOK
<1>8. ASSUME NEW t \in Turns, NEW r \in Requests, NEW kind \in {"approval", "input"},
             CommitRequest(t, r, kind)
      PROVE  StoreTypeOK' /\ RequestsOwned'
  <2>1. request' \in [Requests -> RequestRecord] /\ RequestsOwned'
    BY <1>8 DEF CommitRequest, StoreTypeOK, RequestRecord, RequestsOwned, PendingRequests
  <2>2. QED
    BY <1>8, <2>1 DEF CommitRequest, StoreTypeOK
<1>8a. ASSUME NEW t \in Turns, NEW r \in Requests, CommitToolResult(t, r)
       PROVE  StoreTypeOK' /\ RequestsOwned'
  <2>1. request' \in [Requests -> RequestRecord] /\ RequestsOwned'
    BY <1>8a DEF CommitToolResult, StoreTypeOK, RequestRecord, RequestsOwned, PendingRequests
  <2>2. QED
    BY <1>8a, <2>1 DEF CommitToolResult, StoreTypeOK
<1>9. ASSUME NEW t \in Turns, NEW status \in FinishStatus, CommitTerminal(t, status)
      PROVE  StoreTypeOK' /\ RequestsOwned'
  <2>1. turn' \in [Turns -> TurnRecord]
    BY <1>9 DEF CommitTerminal, StoreTypeOK, TurnRecord, FinishStatus
  <2>2. cancelRequested' \in BOOLEAN
    BY <1>9 DEF CommitTerminal, StoreTypeOK, Exhausted
  <2>3. used' \in Nat
    BY <1>9 DEF CommitTerminal, StoreTypeOK
  <2>4. QED
    BY <1>9, <2>1, <2>2, <2>3
    DEF CommitTerminal, StoreTypeOK, RequestsOwned, PendingRequests
<1>10. ASSUME NEW b \in Branches, AppendCancel(b)
       PROVE  StoreTypeOK' /\ RequestsOwned'
  BY <1>10 DEF AppendCancel, StoreTypeOK, RequestsOwned, PendingRequests
<1>11. ASSUME NEW s \in Steers, NEW b \in Branches, AppendSteer(s, b)
       PROVE  StoreTypeOK' /\ RequestsOwned'
  BY <1>11 DEF AppendSteer, StoreTypeOK, SteerRecord, RequestsOwned, PendingRequests
<1>12. ASSUME NEW Q \in SUBSET Messages, AppendQueueDrop(Q)
       PROVE  StoreTypeOK' /\ RequestsOwned'
  <2>1. message' \in [Messages -> MessageRecord]
    BY <1>12, ResolveType DEF AppendQueueDrop
  <2>2. QED
    BY <1>12, <2>1 DEF AppendQueueDrop, StoreTypeOK, RequestsOwned, PendingRequests
<1>13. ASSUME NEW S \in SUBSET Steers, NEW Q \in SUBSET Messages, AppendCancelConsumed(S, Q)
       PROVE  StoreTypeOK' /\ RequestsOwned'
  <2>1. message' \in [Messages -> MessageRecord] /\ steer' \in [Steers -> SteerRecord]
    BY <1>13, ResolveType DEF AppendCancelConsumed
  <2>2. QED
    BY <1>13, <2>1 DEF AppendCancelConsumed, StoreTypeOK, RequestsOwned, PendingRequests
<1>14. ASSUME NEW k \in Wakes, NEW b \in Branches, CommitWake(k, b)
       PROVE  StoreTypeOK' /\ RequestsOwned'
  BY <1>14 DEF CommitWake, StoreTypeOK, WakeRecord, RequestsOwned, PendingRequests
<1>15. ASSUME NEW lim \in Limits, CommitBudget(lim)
       PROVE  StoreTypeOK' /\ RequestsOwned'
  BY <1>15 DEF CommitBudget, StoreTypeOK, Exhausted, RequestsOwned, PendingRequests
<1>16. QED
  BY <1>1, <1>2, <1>3, <1>4, <1>5, <1>6, <1>7, <1>8, <1>8a, <1>9, <1>10, <1>11,
     <1>12,     <1>13, <1>14, <1>15 DEF StoreNext

(***************************************************************************)
(* Every reachable state of the store is typed, whoever calls it.          *)
(***************************************************************************)
THEOREM StoreTypeCorrect == StoreSpec => [](StoreTypeOK /\ RequestsOwned)
<1>1. StoreInit => StoreTypeOK /\ RequestsOwned
  BY TypeInit
<1>2. StoreTypeOK /\ RequestsOwned /\ [StoreNext]_storeVars => (StoreTypeOK /\ RequestsOwned)'
  <2>1. ASSUME StoreTypeOK, RequestsOwned, UNCHANGED storeVars
        PROVE  StoreTypeOK' /\ RequestsOwned'
    BY <2>1 DEF storeVars, StoreTypeOK, RequestsOwned, PendingRequests
  <2>2. QED
    BY <2>1, TypeStep
<1>3. QED
  BY <1>1, <1>2, PTL DEF StoreSpec

-----------------------------------------------------------------------------
(* One active turn. *)

(* A transaction starts one turn in an idle session, finishes the active    *)
(* one, or leaves the turns alone.                                          *)
LEMMA TurnSteps ==
  ASSUME StoreNext
  PROVE  \/ \E t \in Turns : \E b, m, S, r : StartTurn(t, b, m, S, r)
         \/ \E t \in Turns, status \in FinishStatus : CommitTerminal(t, status)
         \/ UNCHANGED <<active, turn>>
BY DEF StoreNext, AdmitDirect, AdmitQueued, ClaimQueued, ClaimSteers, ClaimWake,
       ClaimWakesForActiveTurn, ClaimResumed, CommitRequest, CommitToolResult, AppendCancel, AppendSteer,
       AppendQueueDrop, AppendCancelConsumed, CommitWake, CommitBudget

(* The active row follows the turns through every transaction. *)
LEMMA ActiveStep ==
  ASSUME StoreTypeOK, OneActiveTurn, StoreNext
  PROVE  OneActiveTurn'
<1>1. ASSUME NEW t \in Turns, NEW b, NEW m, NEW S, NEW r, StartTurn(t, b, m, S, r)
      PROVE  OneActiveTurn'
  BY <1>1 DEF StartTurn, OneActiveTurn, StoreTypeOK, None, Turns
<1>2. ASSUME NEW t \in Turns, NEW status \in FinishStatus, CommitTerminal(t, status)
      PROVE  OneActiveTurn'
  BY <1>2 DEF CommitTerminal, OneActiveTurn, StoreTypeOK, FinishStatus, TurnStatus,
              TurnRecord, None, Turns
<1>3. ASSUME UNCHANGED <<active, turn>>
      PROVE  OneActiveTurn'
  BY <1>3 DEF OneActiveTurn
<1>4. QED
  BY <1>1, <1>2, <1>3, TurnSteps

(***************************************************************************)
(* A session never has two turns running.                                  *)
(***************************************************************************)
THEOREM StoreOneActiveTurn == StoreSpec => []OneActiveTurn
<1>1. StoreInit => OneActiveTurn
  BY DEF StoreInit, OneActiveTurn
<1>2. StoreTypeOK /\ OneActiveTurn /\ [StoreNext]_storeVars => OneActiveTurn'
  BY ActiveStep DEF storeVars, OneActiveTurn
<1>3. QED
  BY <1>1, <1>2, StoreTypeCorrect, PTL DEF StoreSpec

(***************************************************************************)
(* A finished turn keeps its outcome and its provenance for ever.          *)
(***************************************************************************)
THEOREM StoreTerminalIsFinal == StoreSpec => TerminalIsFinal
<1> DEFINE Final == \A t \in Turns : turn[t].status \in FinishStatus => turn'[t] = turn[t]
<1>1. StoreTypeOK /\ OneActiveTurn /\ [StoreNext]_storeVars => [Final]_storeVars
  <2> SUFFICES ASSUME StoreTypeOK, OneActiveTurn, StoreNext
               PROVE  Final
    BY DEF storeVars
  <2>1. ASSUME NEW t \in Turns, NEW b, NEW m, NEW S, NEW r, StartTurn(t, b, m, S, r)
        PROVE  Final
    BY <2>1 DEF StartTurn, FreshTurn, StoreTypeOK, FinishStatus
  <2>2. ASSUME NEW t \in Turns, NEW status \in FinishStatus, CommitTerminal(t, status)
        PROVE  Final
    BY <2>2 DEF CommitTerminal, OneActiveTurn, StoreTypeOK, FinishStatus
  <2>3. QED
    BY <2>1, <2>2, TurnSteps
<1>2. QED
  BY <1>1, StoreTypeCorrect, StoreOneActiveTurn, PTL DEF StoreSpec, TerminalIsFinal

-----------------------------------------------------------------------------
(* The order of the queue. *)

(* What a transaction does to the messages: it admits the next one, as a    *)
(* turn or into the queue, dispatches the oldest pending one, drops some    *)
(* that had been queued, or leaves them alone.                              *)
LEMMA MessageSteps ==
  ASSUME StoreTypeOK, StoreNext
  PROVE  \/ /\ PendingMessages = {}
            /\ \E m \in Messages, b \in Branches :
                  /\ Fresh(message, m)
                  /\ message' = [message EXCEPT ![m] = [state |-> "direct", branch |-> b]]
         \/ \E m \in Messages, b \in Branches :
               /\ Fresh(message, m)
               /\ message' = [message EXCEPT ![m] = [state |-> "pending", branch |-> b]]
         \/ \E m \in Messages :
               /\ IsOldest(m, PendingMessages)
               /\ message' = [message EXCEPT ![m].state = "dispatched"]
         \/ \E Q \in SUBSET Messages :
               /\ Q \subseteq {m \in Messages : message[m].state \notin {"new", "direct"}}
               /\ message' = Resolve(message, Q, "dropped")
         \/ UNCHANGED message
BY DEF StoreNext, AdmitDirect, HasPendingWork, AdmitQueued, ClaimQueued, ClaimSteers, ClaimWake,
       ClaimWakesForActiveTurn, ClaimResumed, CommitRequest, CommitToolResult, CommitTerminal, AppendCancel,
       AppendSteer, AppendQueueDrop, AppendCancelConsumed, CommitWake, CommitBudget

(* Every transaction keeps messages numbered and in order. *)
LEMMA QueueStep ==
  ASSUME StoreTypeOK, MessagesNumbered, QueueOrder, StoreNext
  PROVE  MessagesNumbered' /\ QueueOrder'
<1>1. ASSUME NEW m \in Messages, NEW b \in Branches, Fresh(message, m), PendingMessages = {},
             message' = [message EXCEPT ![m] = [state |-> "direct", branch |-> b]]
      PROVE  MessagesNumbered' /\ QueueOrder'
  BY <1>1 DEF Fresh, PendingMessages, MessagesNumbered, QueueOrder, StoreTypeOK, Messages
<1>2. ASSUME NEW m \in Messages, NEW b \in Branches, Fresh(message, m),
             message' = [message EXCEPT ![m] = [state |-> "pending", branch |-> b]]
      PROVE  MessagesNumbered' /\ QueueOrder'
  BY <1>2 DEF Fresh, MessagesNumbered, QueueOrder, StoreTypeOK, Messages
<1>3. ASSUME NEW m \in Messages, IsOldest(m, PendingMessages),
             message' = [message EXCEPT ![m].state = "dispatched"]
      PROVE  MessagesNumbered' /\ QueueOrder'
  <2>1. \A n \in Messages : message'[n].state = IF n = m THEN "dispatched" ELSE message[n].state
    BY <1>3 DEF StoreTypeOK, MessageRecord
  <2>2. message[m].state = "pending"
    BY <1>3 DEF IsOldest, PendingMessages
  <2>3. \A n \in Messages : n < m => message[n].state # "pending"
    BY <1>3 DEF IsOldest, PendingMessages, Messages
  <2>4. QED
    BY <2>1, <2>2, <2>3 DEF MessagesNumbered, QueueOrder, Messages
<1>4. ASSUME NEW Q \in SUBSET Messages,
             Q \subseteq {m \in Messages : message[m].state \notin {"new", "direct"}},
             message' = Resolve(message, Q, "dropped")
      PROVE  MessagesNumbered' /\ QueueOrder'
  <2>1. \A n \in Messages : message'[n].state = IF n \in Q THEN "dropped" ELSE message[n].state
    BY <1>4 DEF Resolve, StoreTypeOK, MessageRecord
  <2>2. QED
    BY <1>4, <2>1 DEF MessagesNumbered, QueueOrder
<1>5. ASSUME UNCHANGED message
      PROVE  MessagesNumbered' /\ QueueOrder'
  BY <1>5 DEF MessagesNumbered, QueueOrder
<1>6. QED
  BY <1>1, <1>2, <1>3, <1>4, <1>5, MessageSteps

(***************************************************************************)
(* No message overtakes one that was admitted before it.                   *)
(***************************************************************************)
THEOREM StoreQueueOrder == StoreSpec => []QueueOrder
<1>1. StoreInit => MessagesNumbered /\ QueueOrder
  BY DEF StoreInit, MessagesNumbered, QueueOrder
<1>2. StoreTypeOK /\ MessagesNumbered /\ QueueOrder /\ [StoreNext]_storeVars
        => (MessagesNumbered /\ QueueOrder)'
  BY QueueStep DEF storeVars, MessagesNumbered, QueueOrder
<1>3. QED
  BY <1>1, <1>2, StoreTypeCorrect, PTL DEF StoreSpec

-----------------------------------------------------------------------------
(* Cancellation and budget. *)

(* A cancel reaches only the turn it was addressed to, and an exhausted     *)
(* session stays idle.                                                      *)
LEMMA ControlStep ==
  ASSUME StoreTypeOK, CancelAddressed, NoTurnOverBudget, StoreNext
  PROVE  CancelAddressed' /\ NoTurnOverBudget'
<1>1. ASSUME NEW t \in Turns, NEW m \in Messages, NEW b \in Branches, AdmitDirect(t, m, b)
      PROVE  CancelAddressed' /\ NoTurnOverBudget'
  BY <1>1 DEF AdmitDirect, CancelAddressed, NoTurnOverBudget, BudgetExhausted, Exhausted
<1>2. ASSUME ~cancelRequested, ~BudgetExhausted, UNCHANGED <<cancelRequested, limit, used>>
      PROVE  CancelAddressed' /\ NoTurnOverBudget'
  BY <1>2 DEF CancelAddressed, NoTurnOverBudget, BudgetExhausted, Exhausted
<1>3. ASSUME UNCHANGED <<active, cancelRequested, cancelSeen, limit, used>>
      PROVE  CancelAddressed' /\ NoTurnOverBudget'
  BY <1>3 DEF CancelAddressed, NoTurnOverBudget, BudgetExhausted, Exhausted
<1>4. ASSUME active' = None
      PROVE  CancelAddressed' /\ NoTurnOverBudget'
  BY <1>4 DEF CancelAddressed, NoTurnOverBudget
<1>5. ASSUME NEW b \in Branches, AppendCancel(b)
      PROVE  CancelAddressed' /\ NoTurnOverBudget'
  BY <1>5 DEF AppendCancel, CancelAddressed, NoTurnOverBudget, BudgetExhausted, Exhausted
<1>6. ASSUME NEW S \in SUBSET Steers, NEW Q \in SUBSET Messages, AppendCancelConsumed(S, Q)
      PROVE  CancelAddressed' /\ NoTurnOverBudget'
  BY <1>6 DEF AppendCancelConsumed, CancelAddressed, NoTurnOverBudget, BudgetExhausted, Exhausted
<1>7. QED
  BY <1>1, <1>2, <1>3, <1>4, <1>5, <1>6
  DEF StoreNext, MayContinue, AdmitQueued, ClaimQueued, ClaimSteers, ClaimWake,
      ClaimWakesForActiveTurn, ClaimResumed, CommitRequest, CommitToolResult, CommitTerminal, AppendSteer,
      AppendQueueDrop, CommitWake, CommitBudget

(***************************************************************************)
(* A turn is cancelled only by a cancel committed while it ran, and none   *)
(* runs over budget.                                                       *)
(***************************************************************************)
THEOREM StoreControl == StoreSpec => [](CancelAddressed /\ NoTurnOverBudget)
<1>1. StoreInit => CancelAddressed /\ NoTurnOverBudget
  BY DEF StoreInit, CancelAddressed, NoTurnOverBudget
<1>2. StoreTypeOK /\ CancelAddressed /\ NoTurnOverBudget /\ [StoreNext]_storeVars
        => (CancelAddressed /\ NoTurnOverBudget)'
  BY ControlStep DEF storeVars, CancelAddressed, NoTurnOverBudget, BudgetExhausted, Exhausted
<1>3. QED
  BY <1>1, <1>2, StoreTypeCorrect, PTL DEF StoreSpec

\* No turn runs in a session whose budget is exhausted: every claim checks the
\* checkpoint in its own transaction, and a budget is configured only while the
\* session is idle (commit_budget_configuration).
THEOREM StoreNoTurnOverBudget == StoreSpec => []NoTurnOverBudget
BY StoreControl, PTL

-----------------------------------------------------------------------------
(* Work is claimed once. *)

(* A turn started for m and r, neither the source of an earlier turn.       *)
LEMMA StartClaims ==
  ASSUME StoreTypeOK, ClaimedOnce,
         NEW t \in Turns, NEW b, NEW m, NEW S, NEW r, StartTurn(t, b, m, S, r),
         m # None => \A u \in Turns : turn[u].message # m,
         r # None => \A u \in Turns : turn[u].request # r
  PROVE  ClaimedOnce'
<1>1. \A u \in Turns : /\ turn'[u].message = IF u = t THEN m ELSE turn[u].message
                       /\ turn'[u].request = IF u = t THEN r ELSE turn[u].request
  BY DEF StartTurn, StoreTypeOK
<1>2. QED
  BY <1>1 DEF ClaimedOnce

(* Every transaction consumes the work it starts a turn for. *)
LEMMA ClaimStep ==
  ASSUME StoreTypeOK, SourcesConsumed, ClaimedOnce, StoreNext
  PROVE  SourcesConsumed' /\ ClaimedOnce'
<1> DEFINE Sources == \A u \in Turns : turn'[u].message = turn[u].message
                                      /\ turn'[u].request = turn[u].request
<1>0. \A u \in Turns : turn[u].message \in Messages \cup {None}
                      /\ turn[u].request \in Requests \cup {None}
  BY DEF StoreTypeOK, TurnRecord
<1>1. ASSUME NEW t \in Turns, NEW m \in Messages, NEW b \in Branches, AdmitDirect(t, m, b)
      PROVE  SourcesConsumed' /\ ClaimedOnce'
  <2>1. StartTurn(t, b, m, {}, None) /\ message[m].state = "new" /\ UNCHANGED request
    BY <1>1 DEF AdmitDirect, Fresh
  <2>2. \A u \in Turns : turn[u].message # m
    BY <2>1 DEF SourcesConsumed, None, Messages
  <2>3. ClaimedOnce'
    BY <2>1, <2>2, StartClaims
  <2>4. \A n \in Messages : message'[n].state = IF n = m THEN "direct" ELSE message[n].state
    BY <1>1 DEF AdmitDirect, StoreTypeOK
  <2>5. \A u \in Turns : /\ turn'[u].message = IF u = t THEN m ELSE turn[u].message
                         /\ turn'[u].request = IF u = t THEN None ELSE turn[u].request
    BY <2>1 DEF StartTurn, StoreTypeOK
  <2>6. SourcesConsumed'
    BY <1>0, <2>1, <2>4, <2>5 DEF SourcesConsumed
  <2>7. QED
    BY <2>3, <2>6
<1>2. ASSUME NEW t \in Turns, NEW m \in Messages, ClaimQueued(t, m)
      PROVE  SourcesConsumed' /\ ClaimedOnce'
  <2>1. StartTurn(t, message[m].branch, m, {}, None) /\ message[m].state = "pending"
        /\ UNCHANGED request
    BY <1>2 DEF ClaimQueued, IsOldest, PendingMessages
  <2>2. \A u \in Turns : turn[u].message # m
    BY <2>1 DEF SourcesConsumed, None, Messages
  <2>3. ClaimedOnce'
    BY <2>1, <2>2, StartClaims
  <2>4. \A n \in Messages : message'[n].state = IF n = m THEN "dispatched" ELSE message[n].state
    BY <1>2 DEF ClaimQueued, StoreTypeOK, MessageRecord
  <2>5. \A u \in Turns : /\ turn'[u].message = IF u = t THEN m ELSE turn[u].message
                         /\ turn'[u].request = IF u = t THEN None ELSE turn[u].request
    BY <2>1 DEF StartTurn, StoreTypeOK
  <2>6. SourcesConsumed'
    BY <1>0, <2>1, <2>4, <2>5 DEF SourcesConsumed
  <2>7. QED
    BY <2>3, <2>6
<1>3. ASSUME NEW t \in Turns, NEW b, NEW S, StartTurn(t, b, None, S, None),
             UNCHANGED <<message, request>>
      PROVE  SourcesConsumed' /\ ClaimedOnce'
  <2>1. ClaimedOnce'
    BY <1>3, StartClaims
  <2>2. \A u \in Turns : /\ turn'[u].message = IF u = t THEN None ELSE turn[u].message
                         /\ turn'[u].request = IF u = t THEN None ELSE turn[u].request
    BY <1>3 DEF StartTurn, StoreTypeOK
  <2>3. SourcesConsumed'
    BY <1>3, <2>2 DEF SourcesConsumed
  <2>4. QED
    BY <2>1, <2>3
<1>4. ASSUME NEW t \in Turns, NEW r \in Requests, NEW S \in SUBSET Steers, ClaimResumed(t, r, S)
      PROVE  SourcesConsumed' /\ ClaimedOnce'
  <2>1. StartTurn(t, turn[request[r].turn].branch, None, S, r) /\ request[r].state = "pending"
        /\ UNCHANGED message
    BY <1>4 DEF ClaimResumed, PendingRequests
  <2>2. \A u \in Turns : turn[u].request # r
    BY <2>1 DEF SourcesConsumed, None, Requests
  <2>3. ClaimedOnce'
    BY <2>1, <2>2, StartClaims
  <2>4. \A q \in Requests : request'[q].state = IF q = r THEN "resolved" ELSE request[q].state
    BY <1>4 DEF ClaimResumed, StoreTypeOK, RequestRecord
  <2>5. \A u \in Turns : /\ turn'[u].message = IF u = t THEN None ELSE turn[u].message
                         /\ turn'[u].request = IF u = t THEN r ELSE turn[u].request
    BY <2>1 DEF StartTurn, StoreTypeOK
  <2>6. SourcesConsumed'
    BY <1>0, <2>1, <2>4, <2>5 DEF SourcesConsumed
  <2>7. QED
    BY <2>3, <2>6
<1>5. ASSUME Sources,
             \A m \in Messages : message[m].state \in {"direct", "dispatched", "dropped"}
                                 => message'[m].state \in {"direct", "dispatched", "dropped"},
             \A r \in Requests : request[r].state = "resolved" => request'[r].state = "resolved"
      PROVE  SourcesConsumed' /\ ClaimedOnce'
  BY <1>0, <1>5 DEF SourcesConsumed, ClaimedOnce
<1>6. ASSUME NEW t \in Turns, NEW status \in FinishStatus, CommitTerminal(t, status)
      PROVE  SourcesConsumed' /\ ClaimedOnce'
  <2>1. Sources
    BY <1>6 DEF CommitTerminal, StoreTypeOK, TurnRecord
  <2>2. QED
    BY <1>5, <1>6, <2>1 DEF CommitTerminal
<1>7. ASSUME NEW m \in Messages, NEW b \in Branches, AdmitQueued(m, b)
      PROVE  SourcesConsumed' /\ ClaimedOnce'
  <2>1. \A n \in Messages : message'[n].state = IF n = m THEN "pending" ELSE message[n].state
    BY <1>7 DEF AdmitQueued, StoreTypeOK
  <2>2. QED
    BY <1>5, <1>7, <2>1 DEF AdmitQueued, Fresh
<1>8. ASSUME NEW t \in Turns, NEW r \in Requests, NEW kind, CommitRequest(t, r, kind)
      PROVE  SourcesConsumed' /\ ClaimedOnce'
  <2>1. \A q \in Requests : request'[q].state = IF q = r THEN "pending" ELSE request[q].state
    BY <1>8 DEF CommitRequest, StoreTypeOK
  <2>2. QED
    BY <1>5, <1>8, <2>1 DEF CommitRequest, Fresh
<1>8a. ASSUME NEW t \in Turns, NEW r \in Requests, CommitToolResult(t, r)
       PROVE  SourcesConsumed' /\ ClaimedOnce'
  <2>1. \A q \in Requests : request'[q].state = IF q = r THEN "resolved" ELSE request[q].state
    BY <1>8a DEF CommitToolResult, StoreTypeOK, RequestRecord
  <2>2. QED
    BY <1>5, <1>8a, <2>1 DEF CommitToolResult
<1>9. ASSUME NEW Q \in SUBSET Messages, message' = Resolve(message, Q, "dropped"),
             UNCHANGED <<turn, request>>
      PROVE  SourcesConsumed' /\ ClaimedOnce'
  <2>1. \A n \in Messages : message'[n].state = IF n \in Q THEN "dropped" ELSE message[n].state
    BY <1>9 DEF Resolve, StoreTypeOK, MessageRecord
  <2>2. QED
    BY <1>5, <1>9, <2>1
<1>10. ASSUME UNCHANGED <<turn, message, request>>
       PROVE  SourcesConsumed' /\ ClaimedOnce'
  BY <1>5, <1>10
<1>11. QED
  BY <1>1, <1>2, <1>3, <1>4, <1>6, <1>7, <1>8, <1>8a, <1>9, <1>10
  DEF StoreNext, ClaimSteers, ClaimWake, ClaimWakesForActiveTurn, AppendCancel, AppendSteer,
      AppendQueueDrop, AppendCancelConsumed, CommitWake, CommitBudget

(***************************************************************************)
(* No message and no operator request starts two turns.                    *)
(***************************************************************************)
THEOREM StoreClaimedOnce == StoreSpec => []ClaimedOnce
<1>1. StoreInit => SourcesConsumed /\ ClaimedOnce
  BY DEF StoreInit, SourcesConsumed, ClaimedOnce
<1>2. StoreTypeOK /\ SourcesConsumed /\ ClaimedOnce /\ [StoreNext]_storeVars
        => (SourcesConsumed /\ ClaimedOnce)'
  <2>1. ASSUME SourcesConsumed, ClaimedOnce, UNCHANGED storeVars
        PROVE  SourcesConsumed' /\ ClaimedOnce'
    BY <2>1 DEF storeVars, SourcesConsumed, ClaimedOnce
  <2>2. QED
    BY <2>1, ClaimStep
<1>3. QED
  BY <1>1, <1>2, StoreTypeCorrect, PTL DEF StoreSpec
=============================================================================
