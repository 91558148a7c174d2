--------------------------- MODULE ToolRunsProofs ----------------------------
(***************************************************************************)
(* No tool call is executed twice, for any number of calls, turns,         *)
(* approvers, operator commands, panics, failed appends and restarts.      *)
(* Nothing is assumed about call identifiers: a provider may repeat them.  *)
(* Then: a restart decides by what the process decided by, and what needs  *)
(* an approval runs approved, with one approve_tool request at a time.     *)
(* Last: a request gets one terminal event that tells the truth.           *)
(***************************************************************************)
EXTENDS ToolRuns, SequenceTheorems, FiniteSetTheorems, WellFoundedInduction, TLAPS

(* The values of the process's records. *)
WorkerPcs == {"off", "model", "next", "requested", "resolve", "ask", "pause", "execute",
              "executing", "terminal", "fail", "controls", "resume", "resumeCheck", "panicked"}
Results == {"none", "cancelled", "denied", "failed", "returned"}
Decisions == [approved: BOOLEAN, scope: Scopes \cup {"none"},
              by: {"none", "auto", "policy", "human"}, for: Nat]
WorkerStates ==
    [pc: WorkerPcs, turn: Nat, todo: Seq(Calls \X Invocations), req: Nat,
     inv: Invocations, decision: Decisions, result: Results, failing: BOOLEAN]
HandlerStates ==
    [pc: {"idle", "read", "identified", "claimed"}, call: Calls \cup {None},
     inv: Invocations, req: Nat, turn: Nat, decision: Decisions]
OperatorStates == [pc: {"idle", "execute", "record", "recover"}, req: Nat]

(* The log is a sequence, and its events carry what their kind says.       *)
LogOK ==
    /\ log \in Seq({log[i] : i \in DOMAIN log})
    /\ \A i \in Requests : log[i].call \in Calls \cup Nat /\ log[i].inv \in Invocations
    /\ \A i \in DOMAIN log : log[i].kind = "resolved" => log[i].decision \in Decisions

ProcessOK ==
    /\ active \in Nat
    /\ worker \in WorkerStates
    /\ approver \in [Approvers -> HandlerStates]
    /\ operator \in OperatorStates
    /\ perCall \in [Calls -> [inv: Invocations, decision: Decisions]]
    /\ perSession \in [Guarded -> Decisions] /\ global \in [Guarded -> Decisions]

(* Request i has been executed. *)
Ran(i) == \E e \in DOMAIN effects : effects[e][1] = i

(* Request i was made in a turn, has not been executed, and does not wait   *)
(* for a decision.                                                          *)
Free(i) ==
    /\ i \in Requests /\ log[i].call \in Calls
    /\ ~Ran(i) /\ ~ApprovalPending(i)

(* No later request has the same call identifier. *)
Newest(i) == \A k \in Requests : log[k].call = log[i].call => k <= i

(* The executions are of requests, each of another one. *)
EffectsOK ==
    /\ effects \in Seq(Nat \X Invocations)
    /\ \A e \in DOMAIN effects : effects[e][1] \in Requests
    /\ NeverReexecuted

(* Who waits for a decision is a call of the model that has not run. *)
PendingOK == \A i \in Requests : ApprovalPending(i) => ~Ran(i) /\ log[i].call \in Calls

(* A worker that may still come to execute its request has a free one. *)
WorkerOK ==
    /\ worker.pc \in {"requested", "resolve", "ask", "execute", "resume"} => Free(worker.req)
    /\ worker.pc \in {"requested", "resolve", "ask"} => Newest(worker.req)

(* An approver that has claimed is alone with the turn it started. *)
ApproverOK ==
    \A a \in Approvers :
        /\ approver[a].pc \in {"read", "identified"} =>
              approver[a].call \in Calls /\ \E i \in Requests : log[i].call = approver[a].call
        /\ approver[a].pc = "claimed" =>
              /\ worker.pc = "off" /\ active # None
              /\ Free(approver[a].req)
              /\ \A b \in Approvers : approver[b].pc = "claimed" => b = a

(* The operator's command has a request of its own. *)
OperatorOK ==
    /\ operator.pc # "idle" => operator.req \in Requests /\ log[operator.req].call = operator.req
    /\ operator.pc = "execute" => ~Ran(operator.req)

ToolInv == LogOK /\ ProcessOK /\ EffectsOK /\ PendingOK /\ WorkerOK /\ ApproverOK /\ OperatorOK

-----------------------------------------------------------------------------
(* The log and what is read off it. *)

LEMMA LogFacts ==
    ASSUME LogOK
    PROVE  /\ Len(log) \in Nat /\ DOMAIN log = 1..Len(log)
           /\ Requests = {i \in 1..Len(log) : log[i].kind = "requested"}
BY LenProperties DEF LogOK, Requests

(* The committed part of the log is never rewritten. *)
Grows == Len(log) <= Len(log') /\ \A i \in DOMAIN log : log'[i] = log[i]

(* The kinds of the events a step appends. *)
NewKinds(K) == \A j \in DOMAIN log' : j > Len(log) => log'[j].kind \in K

IsLog == log \in Seq({log[i] : i \in DOMAIN log})

LEMMA SeqOfItself ==
    ASSUME NEW S, NEW s \in Seq(S)
    PROVE  s \in Seq({s[i] : i \in DOMAIN s})
<1> DEFINE R == {s[i] : i \in DOMAIN s}
<1>1. Len(s) \in Nat /\ DOMAIN s = 1..Len(s) /\ s = [i \in 1..Len(s) |-> s[i]]
  BY LenProperties
<1>2. \A i \in 1..Len(s) : s[i] \in R
  BY <1>1
<1>3. PICK n \in Nat : n = Len(s)
  BY <1>1
<1>4. [i \in 1..n |-> s[i]] \in Seq(R)
  <2> HIDE DEF R
  <2> QED
    BY <1>2, <1>3, IsASeq
<1> QED
  BY <1>1, <1>3, <1>4

LEMMA ConcatGrows ==
    ASSUME IsLog, NEW T, NEW q \in Seq(T), log' = log \o q
    PROVE  /\ IsLog' /\ Grows /\ Len(log') = Len(log) + Len(q)
           /\ \A k \in 1..Len(q) : log'[Len(log) + k] = q[k]
<1> DEFINE S == {log[i] : i \in DOMAIN log} \cup T
<1>1. log \in Seq(S) /\ q \in Seq(S)
  <2>1. {log[i] : i \in DOMAIN log} \subseteq S /\ T \subseteq S
    OBVIOUS
  <2>2. \A A, B : A \subseteq B => Seq(A) \subseteq Seq(B)
    OBVIOUS
  <2> QED
    BY <2>1, <2>2 DEF IsLog
<1> HIDE DEF S
<1>2. /\ log \o q \in Seq(S) /\ Len(log \o q) = Len(log) + Len(q)
      /\ \A i \in 1..Len(log) + Len(q) :
            (log \o q)[i] = IF i <= Len(log) THEN log[i] ELSE q[i - Len(log)]
  BY <1>1, ConcatProperties
<1>3. Len(log) \in Nat /\ Len(q) \in Nat /\ DOMAIN log = 1..Len(log)
  BY <1>1, LenProperties
<1>4. IsLog'
  <2>1. PICK U : U = S
    OBVIOUS
  <2>2. log' \in Seq(U)
    BY <1>2, <2>1
  <2> QED
    <3>1. PICK h : h = log'
      OBVIOUS
    <3>2. h \in Seq(U)
      BY <2>2, <3>1
    <3>3. h \in Seq({h[i] : i \in DOMAIN h})
      BY <3>2, SeqOfItself
    <3> QED
      BY <3>1, <3>3 DEF IsLog
<1>5. Grows
  <2>1. \A i \in 1..Len(log) : i \in 1..Len(log) + Len(q) /\ i <= Len(log)
    BY <1>3
  <2> QED
    BY <1>2, <1>3, <2>1 DEF Grows
<1>6. \A k \in 1..Len(q) : log'[Len(log) + k] = q[k]
  <2> TAKE k \in 1..Len(q)
  <2>1. /\ Len(log) + k \in 1..Len(log) + Len(q) /\ ~(Len(log) + k <= Len(log))
        /\ (Len(log) + k) - Len(log) = k
    BY <1>3
  <2> QED
    BY <1>2, <2>1
<1> QED
  BY <1>2, <1>4, <1>5, <1>6

LEMMA AppendGrows ==
    ASSUME IsLog, NEW e, log' = Append(log, e)
    PROVE  /\ IsLog' /\ Grows /\ Len(log') = Len(log) + 1
           /\ log'[Len(log) + 1] = e
<1>1. PICK S : S = {log[i] : i \in DOMAIN log}
  OBVIOUS
<1>2. log \in Seq(S \cup {e}) /\ Len(log) \in Nat /\ DOMAIN log = 1..Len(log)
  BY <1>1, LenProperties DEF IsLog
<1>3. /\ log' \in Seq(S \cup {e}) /\ Len(log') = Len(log) + 1
      /\ \A i \in 1..Len(log) + 1 :
            log'[i] = IF i <= Len(log) THEN log[i] ELSE e
  BY <1>2, AppendProperties
<1>4. IsLog'
  BY <1>3, SeqOfItself DEF IsLog
<1> QED
  BY <1>2, <1>3, <1>4 DEF Grows

(* The greatest element of a set of log positions. *)
LEMMA LastOf ==
    ASSUME NEW n \in Nat, NEW S \in SUBSET (1..n), S # {}
    PROVE  Max(S) \in S /\ \A y \in S : y <= Max(S)
<1>1. \E x \in S : \A y \in S : x >= y
  <2> DEFINE R == {m \in Nat : \A y \in S : y <= m}
  <2>1. n \in R
    OBVIOUS
  <2>2. PICK m \in R : \A k \in R : ~(<<k, m>> \in OpToRel(<, Nat))
    BY <2>1, WFMin, NatLessThanWellFounded, Zenon DEF R
  <2>3. \A k \in R : ~(k < m)
    BY <2>2 DEF OpToRel
  <2>4. m \in S
    <3> SUFFICES ASSUME m \notin S PROVE FALSE
      OBVIOUS
    <3>1. PICK y \in S : TRUE
      OBVIOUS
    <3>2. \A z \in S : z <= m - 1
      OBVIOUS
    <3>3. m - 1 \in R
      BY <3>1, <3>2
    <3> QED
      BY <2>3, <3>3
  <2> QED
    BY <2>4
<1>2. Max(S) \in S /\ \A y \in S : Max(S) >= y
  BY <1>1, Zenon DEF Max
<1> QED
  BY <1>2

LEMMA BelongsStable ==
    ASSUME LogOK, IsLog', Grows, NEW i \in DOMAIN log, NEW j \in DOMAIN log
    PROVE  Belongs(j, i)' <=> Belongs(j, i)
<1>1. /\ Len(log) \in Nat /\ DOMAIN log = 1..Len(log)
      /\ Len(log') \in Nat /\ DOMAIN log' = 1..Len(log')
      /\ log'[i] = log[i] /\ log'[j] = log[j]
  BY LenProperties DEF LogOK, IsLog, Grows
<1>2. \A k : k < j /\ k > i => (k \in Requests' <=> k \in Requests) /\ (k \in Requests => log'[k] = log[k])
  BY <1>1 DEF Grows, Requests
<1>3. (\A k \in Requests' : i < k /\ k < j => log'[k].call # log'[i].call)
      <=> (\A k \in Requests : i < k /\ k < j => log[k].call # log[i].call)
  <2>1. \A k : i < k <=> k > i
    OBVIOUS
  <2> QED
    BY <1>1, <1>2, <2>1, Zenon
<1>4. j \in DOMAIN log'
  BY <1>1 DEF Grows
<1> QED
  BY <1>1, <1>3, <1>4, Zenon DEF Belongs

LEMMA OfStable ==
    ASSUME LogOK, IsLog', Grows, NEW i \in Requests, NEW kind
    PROVE  /\ Of(i, kind) \subseteq Of(i, kind)'
           /\ \A j \in Of(i, kind)' : j \in DOMAIN log => j \in Of(i, kind)
           /\ Of(i, kind) \subseteq DOMAIN log
<1>1. /\ Len(log) \in Nat /\ DOMAIN log = 1..Len(log)
      /\ Len(log') \in Nat /\ DOMAIN log' = 1..Len(log')
  BY LenProperties DEF LogOK, IsLog
<1>2. i \in DOMAIN log
  BY DEF Requests
<1>3. \A j \in DOMAIN log : (Belongs(j, i)' <=> Belongs(j, i)) /\ j \in DOMAIN log' /\ log'[j] = log[j]
  BY <1>1, <1>2, BelongsStable DEF Grows
<1> QED
  BY <1>3, Zenon DEF Of

(* Only an approval request of its own call makes a request wait again. *)
LEMMA PendingStable ==
    ASSUME LogOK, IsLog', Grows, NEW i \in Requests,
           \A j \in DOMAIN log' : j > Len(log) /\ log'[j].kind = "approval" => ~Belongs(j, i)'
    PROVE  ApprovalPending(i)' => ApprovalPending(i)
<1>1. /\ Len(log) \in Nat /\ DOMAIN log = 1..Len(log)
      /\ Len(log') \in Nat /\ DOMAIN log' = 1..Len(log')
      /\ log'[i] = log[i]
  BY LenProperties DEF LogOK, IsLog, Grows, Requests
<1>2. Of(i, "approval")' = Of(i, "approval")
  <2>1. \A j \in Of(i, "approval")' : j \in DOMAIN log' /\ log'[j].kind = "approval" /\ Belongs(j, i)'
    BY Zenon DEF Of
  <2>2. \A j \in Of(i, "approval")' : j \in DOMAIN log
    BY <1>1, <2>1
  <2>3. /\ Of(i, "approval") \subseteq Of(i, "approval")'
        /\ \A j \in Of(i, "approval")' : j \in DOMAIN log => j \in Of(i, "approval")
    BY OfStable, Zenon
  <2>4. PICK A, B : A = Of(i, "approval") /\ B = Of(i, "approval")'
    OBVIOUS
  <2>5. A = B
    BY <2>2, <2>3, <2>4
  <2> QED
    BY <2>4, <2>5
<1>3. Of(i, "resolved") \subseteq Of(i, "resolved")'
  BY OfStable, Zenon
<1> QED
  BY <1>2, <1>3, Zenon DEF ApprovalPending

(* The request that gets a decision for its call no longer waits.          *)
LEMMA ResolvedNotPending ==
    ASSUME LogOK, IsLog', Grows, NEW i \in Requests, Newest(i),
           NEW n \in DOMAIN log', n > Len(log),
           log'[n].kind = "resolved", log'[n].call = log[i].call,
           NewKinds({"started", "resolved", "finished", "turnFinished"})
    PROVE  ~ApprovalPending(i)' /\ n \in Of(i, "resolved")'
<1>1. /\ Len(log) \in Nat /\ DOMAIN log = 1..Len(log)
      /\ Len(log') \in Nat /\ DOMAIN log' = 1..Len(log')
      /\ i \in DOMAIN log /\ log'[i] = log[i]
  BY LenProperties DEF LogOK, IsLog, Grows, Requests
<1>2. \A k \in Requests' : k \in Requests /\ log'[k] = log[k]
  BY <1>1 DEF NewKinds, Requests, Grows
<1>3. \A k \in Requests' : i < k /\ k < n => log'[k].call # log'[i].call
  <2>1. \A k \in Requests : k \in Nat
    BY <1>1 DEF Requests
  <2> QED
    BY <1>1, <1>2, <2>1 DEF Newest
<1>4. Belongs(n, i)'
  BY <1>1, <1>3 DEF Belongs
<1>5. n \in Of(i, "resolved")'
  BY <1>4, Zenon DEF Of
<1>6. \A j \in Of(i, "approval")' : j \in 1..Len(log)
  <2>1. \A j \in Of(i, "approval")' : j \in DOMAIN log' /\ log'[j].kind = "approval"
    BY Zenon DEF Of
  <2> QED
    BY <1>1, <2>1 DEF NewKinds
<1>7. CASE Of(i, "approval")' = {}
  BY <1>5, <1>7, Zenon DEF ApprovalPending
<1>8. CASE Of(i, "approval")' # {}
  <2>1. PICK A : A = Of(i, "approval")'
    OBVIOUS
  <2>2. Max(A) \in A
    BY <1>1, <1>6, <1>8, <2>1, LastOf
  <2>3. ~(n < Max(A))
    BY <1>1, <1>6, <2>1, <2>2
  <2> QED
    BY <1>5, <2>1, <2>3 DEF ApprovalPending
<1> QED
  BY <1>5, <1>7, <1>8

LEMMA RanSame ==
    ASSUME effects' = effects, NEW i
    PROVE  Ran(i)' <=> Ran(i)
BY DEF Ran

(* A step that appends neither requests nor approval requests and executes *)
(* nothing.                                                                *)
Quiet ==
    /\ Grows /\ effects' = effects
    /\ NewKinds({"started", "resolved", "finished", "turnFinished"})

LEMMA QuietKeeps ==
    ASSUME LogOK, IsLog', Quiet
    PROVE  /\ Requests' = Requests /\ \A i \in Requests : log'[i] = log[i]
           /\ \A i \in Requests : /\ ApprovalPending(i)' => ApprovalPending(i)
                                  /\ Ran(i)' <=> Ran(i)
                                  /\ Free(i) => Free(i)'
                                  /\ Newest(i) => Newest(i)'
<1>1. /\ Len(log) \in Nat /\ DOMAIN log = 1..Len(log)
      /\ Len(log') \in Nat /\ DOMAIN log' = 1..Len(log')
  BY LenProperties DEF LogOK, IsLog
<1>2. Requests' = Requests /\ \A i \in Requests : log'[i] = log[i]
  BY <1>1 DEF Quiet, Grows, NewKinds, Requests
<1>3. \A i \in Requests : ApprovalPending(i)' => ApprovalPending(i)
  <2>1. \A j \in DOMAIN log' : j > Len(log) => log'[j].kind # "approval"
    BY DEF Quiet, NewKinds
  <2> QED
    BY <2>1, PendingStable, Zenon DEF Quiet
<1>4. \A i \in Requests : Ran(i)' <=> Ran(i)
  BY RanSame DEF Quiet
<1>5. \A i \in Requests : Free(i) => Free(i)'
  BY <1>2, <1>3, <1>4, Zenon DEF Free
<1>6. \A i \in Requests : Newest(i) => Newest(i)'
  BY <1>2, Zenon DEF Newest
<1> QED
  BY <1>2, <1>3, <1>4, <1>5, <1>6

-----------------------------------------------------------------------------
(* The parts of the invariant under a quiet step. *)

LEMMA InitialValues ==
    /\ NoDecision \in Decisions /\ Idle \in WorkerStates
    /\ NoHandler \in HandlerStates /\ NoOperator \in OperatorStates
    /\ Unrecorded \in [inv: Invocations, decision: Decisions]
<1>1. NoDecision \in Decisions
  BY DEF NoDecision, Decision, Decisions, None, Scopes
<1>2. Ask \in Invocations /\ None \in Nat /\ <<>> \in Seq(Calls \X Invocations)
  BY DEF Invocations, None
<1> HIDE DEF NoDecision, Decisions, Invocations, None
<1>3. Idle \in WorkerStates
  BY <1>1, <1>2 DEF Idle, WorkerStates, WorkerPcs, Results
<1>4. NoHandler \in HandlerStates
  BY <1>1, <1>2 DEF NoHandler, HandlerStates
<1>5. NoOperator \in OperatorStates /\ Unrecorded \in [inv: Invocations, decision: Decisions]
  BY <1>1, <1>2 DEF NoOperator, OperatorStates, Unrecorded
<1> QED
  BY <1>1, <1>3, <1>4, <1>5

NewDecisions ==
    \A j \in DOMAIN log' : j > Len(log) /\ log'[j].kind = "resolved" => log'[j].decision \in Decisions

LEMMA QuietParts ==
    ASSUME ToolInv, IsLog', Quiet, NewDecisions
    PROVE  /\ LogOK' /\ EffectsOK' /\ PendingOK'
           /\ operator' = operator => OperatorOK'
           /\ (approver' = approver /\ \A a \in Approvers : approver[a].pc # "claimed") => ApproverOK'
<1>1. /\ Requests' = Requests /\ \A i \in Requests : log'[i] = log[i]
      /\ \A i \in Requests : /\ ApprovalPending(i)' => ApprovalPending(i)
                             /\ Ran(i)' <=> Ran(i)
  BY QuietKeeps DEF ToolInv
<1>2. LogOK'
  <2>1. /\ Len(log) \in Nat /\ DOMAIN log = 1..Len(log)
        /\ Len(log') \in Nat /\ DOMAIN log' = 1..Len(log')
    BY LenProperties DEF ToolInv, LogOK, IsLog
  <2>2. \A i \in Requests' : log'[i].call \in Calls \cup Nat /\ log'[i].inv \in Invocations
    BY <1>1, Zenon DEF ToolInv, LogOK
  <2>3. \A i \in DOMAIN log' : log'[i].kind = "resolved" => log'[i].decision \in Decisions
    BY <2>1 DEF ToolInv, LogOK, NewDecisions, Quiet, Grows
  <2> QED
    BY <2>2, <2>3 DEF LogOK, IsLog
<1>3. EffectsOK'
  BY <1>1 DEF ToolInv, EffectsOK, Quiet, NeverReexecuted
<1>4. PendingOK'
  BY <1>1, Zenon DEF ToolInv, PendingOK
<1>5. ASSUME operator' = operator PROVE OperatorOK'
  BY <1>1, <1>5, Zenon DEF ToolInv, OperatorOK
<1>6. ASSUME approver' = approver, \A a \in Approvers : approver[a].pc # "claimed"
      PROVE  ApproverOK'
  BY <1>1, <1>6, ZenonT(60) DEF ToolInv, ApproverOK
<1> QED
  BY <1>2, <1>3, <1>4, <1>5, <1>6

(* The program counters of a worker that may still execute its request. *)
Asking == {"requested", "resolve", "ask"}
Before == Asking \cup {"execute", "resume"}

(* A quiet step of the worker: it stops being about to execute, or goes on *)
(* with the same request.                                                  *)
WorkerMoves ==
    /\ IsLog' /\ Quiet /\ NewDecisions /\ ProcessOK'
    /\ worker.pc # "off"
    /\ UNCHANGED <<approver, operator>>
    /\ \/ worker'.pc \notin Before
       \/ /\ worker'.req = worker.req /\ worker.pc \in Before
          /\ worker'.pc \in Asking => worker.pc \in Asking

LEMMA WorkerMovesKeep ==
    ASSUME ToolInv, WorkerMoves
    PROVE  ToolInv'
<1>1. \A a \in Approvers : approver[a].pc # "claimed"
  BY DEF ToolInv, ApproverOK, WorkerMoves
<1>2. LogOK' /\ EffectsOK' /\ PendingOK' /\ OperatorOK' /\ ApproverOK'
  BY <1>1, QuietParts DEF WorkerMoves
<1>3. WorkerOK'
  <2>1. worker.pc \in Before => Free(worker.req)
    BY DEF ToolInv, WorkerOK, Before, Asking
  <2>2. worker.pc \in Asking => Newest(worker.req)
    BY DEF ToolInv, WorkerOK, Asking
  <2>3. PICK r : r = worker.req
    OBVIOUS
  <2>4. \A i \in Requests : (Free(i) => Free(i)') /\ (Newest(i) => Newest(i)')
    BY QuietKeeps DEF ToolInv, WorkerMoves
  <2>5. CASE worker'.pc \notin Before
    BY <2>5 DEF WorkerOK, Before, Asking
  <2>6. CASE worker'.req = r /\ worker.pc \in Before
              /\ (worker'.pc \in Asking => worker.pc \in Asking)
    <3>1. Free(r) /\ r \in Requests
      BY <2>1, <2>3, <2>6 DEF Free
    <3>2. Free(r)' /\ (worker'.pc \in Asking => Newest(r)')
      BY <2>2, <2>3, <2>4, <2>6, <3>1
    <3> QED
      BY <2>6, <3>2 DEF WorkerOK, Before, Asking, Free, Newest
  <2> QED
    BY <2>3, <2>5, <2>6 DEF WorkerMoves
<1> QED
  BY <1>2, <1>3 DEF ToolInv, WorkerMoves

-----------------------------------------------------------------------------
(* The steps of the worker. *)

(* Steps that leave the log alone and do not execute. *)
LEMMA SameLogQuiet ==
    ASSUME ToolInv, log' = log, effects' = effects
    PROVE  IsLog' /\ Quiet /\ NewDecisions
<1>1. Len(log) \in Nat /\ DOMAIN log = 1..Len(log)
  BY LogFacts DEF ToolInv
<1> QED
  BY <1>1 DEF ToolInv, LogOK, IsLog, Quiet, Grows, NewKinds, NewDecisions

(* Steps that append one event. *)
LEMMA OneEventQuiet ==
    ASSUME ToolInv, NEW e, log' = Append(log, e), effects' = effects,
           e.kind \in {"started", "resolved", "finished", "turnFinished"},
           e.kind = "resolved" => e.decision \in Decisions
    PROVE  IsLog' /\ Quiet /\ NewDecisions
<1>1. Len(log) \in Nat /\ DOMAIN log = 1..Len(log) /\ IsLog
  BY LogFacts DEF ToolInv, LogOK, IsLog
<1>2. IsLog' /\ Grows /\ Len(log') = Len(log) + 1 /\ log'[Len(log) + 1] = e
  BY <1>1, AppendGrows
<1>3. DOMAIN log' = 1..Len(log) + 1
  BY <1>2, LenProperties DEF IsLog
<1>4. \A j \in DOMAIN log' : j > Len(log) => log'[j] = e
  BY <1>1, <1>2, <1>3
<1> QED
  BY <1>2, <1>4 DEF Quiet, NewKinds, NewDecisions

(* Steps that append several. *)
LEMMA EventsQuiet ==
    ASSUME ToolInv, NEW T, NEW q \in Seq(T), log' = log \o q, effects' = effects,
           \A k \in 1..Len(q) : /\ q[k].kind \in {"started", "resolved", "finished", "turnFinished"}
                                /\ q[k].kind = "resolved" => q[k].decision \in Decisions
    PROVE  IsLog' /\ Quiet /\ NewDecisions
<1>1. Len(log) \in Nat /\ DOMAIN log = 1..Len(log) /\ IsLog /\ Len(q) \in Nat
  BY LogFacts, LenProperties DEF ToolInv, LogOK, IsLog
<1>2. /\ IsLog' /\ Grows /\ Len(log') = Len(log) + Len(q)
      /\ \A k \in 1..Len(q) : log'[Len(log) + k] = q[k]
  BY <1>1, ConcatGrows
<1>3. DOMAIN log' = 1..Len(log) + Len(q)
  BY <1>2, LenProperties DEF IsLog
<1>4. \A j \in DOMAIN log' : j > Len(log) => \E k \in 1..Len(q) : log'[j] = q[k]
  <2> SUFFICES ASSUME NEW j \in DOMAIN log', j > Len(log)
               PROVE  \E k \in 1..Len(q) : log'[j] = q[k]
    OBVIOUS
  <2>1. PICK k : k = j - Len(log)
    OBVIOUS
  <2>2. k \in 1..Len(q) /\ j = Len(log) + k
    BY <1>1, <1>3, <2>1
  <2> QED
    BY <1>2, <2>2
<1>5. NewKinds({"started", "resolved", "finished", "turnFinished"}) /\ NewDecisions
  BY <1>4, Zenon DEF NewKinds, NewDecisions
<1> QED
  BY <1>2, <1>5 DEF Quiet

(* A sequence of terminal events. *)
Closing(q) ==
    /\ q \in Seq({q[k] : k \in DOMAIN q})
    /\ \A k \in DOMAIN q : q[k].kind \in {"finished", "turnFinished"}

LEMMA ClosingConcat ==
    ASSUME NEW p, NEW q, Closing(p), Closing(q)
    PROVE  Closing(p \o q)
<1> DEFINE U == {p[k] : k \in DOMAIN p} \cup {q[k] : k \in DOMAIN q}
<1>1. p \in Seq(U) /\ q \in Seq(U)
  <2>1. {p[k] : k \in DOMAIN p} \subseteq U /\ {q[k] : k \in DOMAIN q} \subseteq U
    OBVIOUS
  <2>2. \A A, B : A \subseteq B => Seq(A) \subseteq Seq(B)
    OBVIOUS
  <2> QED
    BY <2>1, <2>2 DEF Closing
<1>2. \A u \in U : u.kind \in {"finished", "turnFinished"}
  BY DEF Closing
<1> HIDE DEF U
<1>3. PICK s : s = p \o q
  OBVIOUS
<1>4. s \in Seq(U)
  BY <1>1, <1>3, ConcatProperties
<1>5. s \in Seq({s[k] : k \in DOMAIN s})
  BY <1>4, SeqOfItself
<1>6. \A k \in DOMAIN s : s[k] \in U
  BY <1>4, LenProperties, ElementOfSeq
<1> QED
  BY <1>2, <1>3, <1>5, <1>6 DEF Closing

LEMMA ClosingOne ==
    /\ Closing(<<>>)
    /\ \A e : e.kind \in {"finished", "turnFinished"} => Closing(<<e>>)
<1>1. Closing(<<>>)
  BY DEF Closing
<1>2. ASSUME NEW e, e.kind \in {"finished", "turnFinished"} PROVE Closing(<<e>>)
  <2>1. PICK s : s = <<e>>
    OBVIOUS
  <2>2. s \in Seq({e}) /\ DOMAIN s = 1..1 /\ s[1] = e
    BY <2>1
  <2>3. s \in Seq({s[k] : k \in DOMAIN s})
    BY <2>2, SeqOfItself
  <2>4. Closing(s)
    BY <1>2, <2>2, <2>3 DEF Closing
  <2> QED
    BY <2>1, <2>4
<1> QED
  BY <1>1, <1>2

(* Results that may be committed with the end of a turn. *)
Results0(q) == q = <<>> \/ \E c, t, r : q = <<Finished(c, t, r)>>

LEMMA EndTurnLog ==
    ASSUME IsLog, NEW s, NEW q, Results0(q), EndTurn(s, q)
    PROVE  \E r : Closing(r) /\ log' = log \o r
<1>1. PICK e : e = TurnFinished(active, IF cancelRequested THEN "cancelled" ELSE s)
  OBVIOUS
<1>2. e.kind = "turnFinished" /\ log' = log \o q \o <<e>>
  BY <1>1 DEF EndTurn, TurnFinished
<1>3. Closing(q) /\ Closing(<<e>>)
  BY <1>2, ClosingOne DEF Results0, Finished
<1>4. PICK A, B, C, T : /\ A = {log[i] : i \in DOMAIN log} /\ B = {q[k] : k \in DOMAIN q}
                        /\ C = {(<<e>>)[k] : k \in DOMAIN <<e>>} /\ T = A \cup B \cup C
  OBVIOUS
<1>5. log \in Seq(A) /\ q \in Seq(B) /\ <<e>> \in Seq(C)
  BY <1>3, <1>4 DEF IsLog, Closing
<1>6. log \in Seq(T) /\ q \in Seq(T) /\ <<e>> \in Seq(T)
  <2>1. A \subseteq T /\ B \subseteq T /\ C \subseteq T
    BY <1>4
  <2>2. \A X, Y : X \subseteq Y => Seq(X) \subseteq Seq(Y)
    OBVIOUS
  <2> QED
    BY <1>5, <2>1, <2>2
<1>7. log' = log \o (q \o <<e>>)
  BY <1>2, <1>6, ConcatAssociative
<1> QED
  BY <1>3, <1>7, ClosingConcat

LEMMA EndTurnKeeps ==
    ASSUME ToolInv, worker.pc # "off", NEW s, NEW q, Results0(q), EndTurn(s, q)
    PROVE  ToolInv'
<1>1. PICK r : Closing(r) /\ log' = log \o r
  BY EndTurnLog DEF ToolInv, LogOK, IsLog
<1>2. PICK T : T = {r[k] : k \in DOMAIN r}
  OBVIOUS
<1>3. r \in Seq(T) /\ \A k \in 1..Len(r) : r[k].kind \in {"finished", "turnFinished"}
  BY <1>1, <1>2, LenProperties DEF Closing
<1>4. IsLog' /\ Quiet /\ NewDecisions
  BY <1>1, <1>3, EventsQuiet DEF EndTurn
<1>5. worker'.pc \in {"off", "controls"} /\ worker' \in WorkerStates
  BY InitialValues DEF EndTurn, Idle, WorkerStates, WorkerPcs
<1>6. ProcessOK'
  BY <1>5 DEF ToolInv, ProcessOK, EndTurn, handlers, grants, None
<1>7. WorkerMoves
  BY <1>4, <1>5, <1>6 DEF WorkerMoves, Before, Asking, EndTurn, handlers
<1> QED
  BY <1>7, WorkerMovesKeep

GrantsTyped ==
    /\ perCall \in [Calls -> [inv: Invocations, decision: Decisions]]
    /\ perSession \in [Guarded -> Decisions] /\ global \in [Guarded -> Decisions]

LEMMA ReuseTyped ==
    ASSUME GrantsTyped, NEW v, NEW d \in Decisions, Reuse(v, d)
    PROVE  perSession' \in [Guarded -> Decisions] /\ global' \in [Guarded -> Decisions]
BY DEF GrantsTyped, Reuse

LEMMA EvaluatedTyped ==
    ASSUME GrantsTyped, NEW c \in Calls, NEW v \in Guarded, NEW i \in Nat
    PROVE  Evaluated(c, v, i) \in Decisions
<1>1. perCall[c].decision \in Decisions /\ Known(v) \in Decisions
  BY DEF GrantsTyped, Known
<1>2. AutoApprove(v, i) \in Decisions
  <2>1. Decision(TRUE, "once", "auto", i) \in Decisions /\ Decision(TRUE, "session", "policy", i) \in Decisions
    BY DEF Decision, Decisions, Scopes
  <2> QED
    BY <2>1, InitialValues DEF AutoApprove
<1> QED
  BY <1>1, <1>2 DEF Evaluated

LEMMA EvaluateTyped ==
    ASSUME GrantsTyped, NEW c \in Calls, NEW v \in Guarded, NEW i \in Nat, Evaluate(c, v, i)
    PROVE  GrantsTyped'
<1>1. PICK d : d = Evaluated(c, v, i)
  OBVIOUS
<1>2. d \in Decisions /\ v \in Invocations
  BY <1>1, EvaluatedTyped DEF Invocations
<1>3. [inv |-> v, decision |-> d] \in [inv: Invocations, decision: Decisions]
  BY <1>2
<1>4. perCall' \in [Calls -> [inv: Invocations, decision: Decisions]]
  BY <1>1, <1>3, InitialValues DEF Evaluate, GrantsTyped, grants
<1>5. perSession' \in [Guarded -> Decisions] /\ global' \in [Guarded -> Decisions]
  <2>1. CASE Reuse(v, d)
    BY <1>2, <2>1, ReuseTyped
  <2>2. CASE UNCHANGED <<perSession, global>>
    BY <2>2 DEF GrantsTyped
  <2> QED
    BY <1>1, <2>1, <2>2 DEF Evaluate, grants
<1> QED
  BY <1>4, <1>5 DEF GrantsTyped

(* Steps that only move the worker. *)
LEMMA WorkerGoes ==
    ASSUME ToolInv, worker.pc # "off",
           UNCHANGED <<log, effects, active, handlers, grants>>,
           worker' \in WorkerStates,
           \/ worker'.pc \notin Before
           \/ /\ worker'.req = worker.req /\ worker.pc \in Before
              /\ worker'.pc \in Asking => worker.pc \in Asking
    PROVE  ToolInv'
<1>1. IsLog' /\ Quiet /\ NewDecisions
  BY SameLogQuiet
<1>2. ProcessOK'
  BY DEF ToolInv, ProcessOK, handlers, grants
<1>3. WorkerMoves
  BY <1>1, <1>2 DEF WorkerMoves, handlers
<1> QED
  BY <1>3, WorkerMovesKeep

LEMMA ModelSteps ==
    ASSUME ToolInv,
           ModelCalls \/ ModelAnswers \/ ModelFails \/ NextCompletion \/ FailTurn \/ ConsumeControls
    PROVE  ToolInv'
<1>1. CASE ModelCalls
  <2>2. worker' \in WorkerStates /\ worker'.pc = "next"
    <3>1. worker \in WorkerStates /\ Safe \subseteq Invocations
      BY DEF ToolInv, ProcessOK, Invocations
    <3>2. PICK q \in Seq(Calls \X Invocations) : worker' = [worker EXCEPT !.pc = "next", !.todo = q]
      <4>1. PICK c \in Calls, v \in Invocations :
              \/ worker' = [worker EXCEPT !.pc = "next", !.todo = <<<<c, v>>>>]
              \/ \E c2 \in Calls \ {c}, v2 \in Safe :
                    worker' = [worker EXCEPT !.pc = "next", !.todo = <<<<c, v>>, <<c2, v2>>>>]
        BY <1>1, Zenon DEF ModelCalls
      <4>2. \A x, y \in Calls \X Invocations :
              <<x>> \in Seq(Calls \X Invocations) /\ <<x, y>> \in Seq(Calls \X Invocations)
        OBVIOUS
      <4>3. CASE worker' = [worker EXCEPT !.pc = "next", !.todo = <<<<c, v>>>>]
        <5>1. <<c, v>> \in Calls \X Invocations
          OBVIOUS
        <5>2. <<<<c, v>>>> \in Seq(Calls \X Invocations)
          BY <4>2, <5>1, Zenon
        <5> QED
          BY <4>3, <5>2, Zenon
      <4>4. ASSUME NEW c2 \in Calls \ {c}, NEW v2 \in Safe,
                   worker' = [worker EXCEPT !.pc = "next", !.todo = <<<<c, v>>, <<c2, v2>>>>]
            PROVE  \E q \in Seq(Calls \X Invocations) : worker' = [worker EXCEPT !.pc = "next", !.todo = q]
        <5>1. <<c, v>> \in Calls \X Invocations /\ <<c2, v2>> \in Calls \X Invocations
          BY <3>1
        <5>2. <<<<c, v>>, <<c2, v2>>>> \in Seq(Calls \X Invocations)
          BY <4>2, <5>1, Zenon
        <5> QED
          BY <4>4, <5>2, Zenon
      <4> QED
        BY <4>1, <4>3, <4>4
    <3> QED
      BY <3>1, <3>2 DEF WorkerStates, WorkerPcs
  <2> QED
    BY <1>1, <2>2, WorkerGoes DEF ModelCalls, Before, Asking
<1>2. CASE NextCompletion
  <2>2. worker' \in WorkerStates /\ worker'.pc = "model"
    BY <1>2 DEF ToolInv, ProcessOK, NextCompletion, Go, WorkerStates, WorkerPcs
  <2> QED
    BY <1>2, <2>2, WorkerGoes DEF NextCompletion, Before, Asking
<1>3. CASE ConsumeControls
  <2>2. worker' \in WorkerStates /\ worker'.pc = "off"
    BY <1>3, InitialValues DEF ConsumeControls, Idle
  <2> QED
    BY <1>3, <2>2, WorkerGoes DEF ConsumeControls, Before, Asking
<1>4. CASE ModelAnswers \/ ModelFails \/ FailTurn
  <2>1. Results0(<<>>)
    BY DEF Results0
  <2>2. worker.pc # "off" /\ (EndTurn("completed", <<>>) \/ EndTurn("failed", <<>>))
    BY <1>4 DEF ModelAnswers, ModelFails, FailTurn
  <2> QED
    BY <2>1, <2>2, EndTurnKeeps
<1> QED
  BY <1>1, <1>2, <1>3, <1>4

LEMMA ApprovalSteps ==
    ASSUME ToolInv,
           Decide \/ RecordApproval \/ PauseForApproval \/ ApprovalFault
    PROVE  ToolInv'
<1>1. worker \in WorkerStates /\ GrantsTyped
  BY DEF ToolInv, ProcessOK, GrantsTyped
<1>2. CASE Decide
  <2>1. worker.pc = "requested" /\ Free(worker.req) /\ worker.req \in Nat
    BY <1>1, <1>2 DEF ToolInv, WorkerOK, Decide, WorkerStates
  <2>2. CASE Inv = Ask /\ EndTurn("awaiting_input", <<>>)
    BY <2>1, <2>2, EndTurnKeeps DEF Results0
  <2>3. CASE /\ worker' = [worker EXCEPT !.pc = "terminal", !.result = "cancelled"]
             /\ UNCHANGED <<log, active, cancelRequested, handlers, grants, effects, booted>>
    <3>1. IsLog' /\ Quiet /\ NewDecisions
      BY <2>3, SameLogQuiet
    <3>2. worker' \in WorkerStates /\ worker'.pc = "terminal"
      BY <1>1, <2>3 DEF WorkerStates, WorkerPcs, Results
    <3>3. ProcessOK'
      BY <2>3, <3>2 DEF ToolInv, ProcessOK, handlers, grants
    <3>4. WorkerMoves
      BY <2>1, <2>3, <3>1, <3>2, <3>3 DEF WorkerMoves, handlers, Before, Asking
    <3> QED
      BY <3>4, WorkerMovesKeep
  <2>4. CASE Go("execute") /\ UNCHANGED <<log, active, cancelRequested, handlers, grants, effects, booted>>
    <3>1. IsLog' /\ Quiet /\ NewDecisions
      BY <2>4, SameLogQuiet
    <3>2. worker' \in WorkerStates /\ worker'.pc = "execute" /\ worker'.req = worker.req
      BY <1>1, <2>4 DEF Go, WorkerStates, WorkerPcs
    <3>3. ProcessOK'
      BY <2>4, <3>2 DEF ToolInv, ProcessOK, handlers, grants
    <3>4. WorkerMoves
      BY <2>1, <2>4, <3>1, <3>2, <3>3 DEF WorkerMoves, handlers, Before, Asking
    <3> QED
      BY <3>4, WorkerMovesKeep
  <2>5. CASE /\ Inv \in Guarded /\ Evaluate(Call, Inv, worker.req)
             /\ worker' = [worker EXCEPT
                    !.pc = IF Evaluated(Call, Inv, worker.req) = NoDecision THEN "ask" ELSE "resolve",
                    !.decision = Evaluated(Call, Inv, worker.req)]
             /\ UNCHANGED <<log, active, cancelRequested, handlers, effects, booted>>
    <3>1. IsLog' /\ Quiet /\ NewDecisions
      BY <2>5, SameLogQuiet
    <3>2. PICK c, v, i : c = Call /\ v = Inv /\ i = worker.req
      OBVIOUS
    <3>3. c \in Calls /\ v \in Guarded /\ i \in Nat
      BY <2>1, <2>5, <3>2 DEF Free, Call
    <3>4. Evaluated(c, v, i) \in Decisions /\ GrantsTyped'
      <4>1. Evaluate(c, v, i)
        BY <2>5, <3>2
      <4> QED
        BY <1>1, <3>3, <4>1, EvaluatedTyped, EvaluateTyped
    <3>5. PICK d \in Decisions : d = Evaluated(Call, Inv, worker.req)
      BY <3>2, <3>4
    <3>6. worker' = [worker EXCEPT !.pc = IF d = NoDecision THEN "ask" ELSE "resolve", !.decision = d]
      BY <2>5, <3>5
    <3>7. worker' \in WorkerStates /\ worker'.pc \in {"ask", "resolve"} /\ worker'.req = worker.req
      BY <1>1, <3>6 DEF WorkerStates, WorkerPcs
    <3>8. ProcessOK'
      BY <2>5, <3>4, <3>7 DEF ToolInv, ProcessOK, handlers, GrantsTyped
    <3>9. WorkerMoves
      BY <2>1, <2>5, <3>1, <3>7, <3>8 DEF WorkerMoves, handlers, Before, Asking
    <3> QED
      BY <3>9, WorkerMovesKeep
  <2> QED
    BY <1>2, <2>2, <2>3, <2>4, <2>5 DEF Decide
<1>3. CASE RecordApproval
  <2>1. PICK e : e = Resolved(Call, active, Inv, worker.decision)
    OBVIOUS
  <2>2. e.kind = "resolved" /\ e.decision \in Decisions
    BY <1>1, <2>1 DEF Resolved, WorkerStates
  <2>3. IsLog' /\ Quiet /\ NewDecisions
    BY <1>3, <2>1, <2>2, OneEventQuiet DEF RecordApproval, Append1
  <2>4. worker' \in WorkerStates /\ worker'.pc \in {"execute", "terminal"} /\ worker'.req = worker.req
    BY <1>1, <1>3 DEF RecordApproval, WorkerStates, WorkerPcs, Results
  <2>5. perSession' \in [Guarded -> Decisions] /\ global' \in [Guarded -> Decisions]
    <3>1. PICK v, d : v = Inv /\ d = worker.decision
      OBVIOUS
    <3>2. d \in Decisions /\ Reuse(v, d)
      BY <1>1, <1>3, <3>1 DEF WorkerStates, RecordApproval
    <3> QED
      BY <1>1, <3>2, ReuseTyped
  <2>6. ProcessOK'
    BY <1>3, <2>4, <2>5 DEF ToolInv, ProcessOK, RecordApproval, handlers
  <2>7. WorkerMoves
    BY <1>3, <2>3, <2>4, <2>6 DEF RecordApproval, WorkerMoves, handlers, Before, Asking
  <2> QED
    BY <2>7, WorkerMovesKeep
<1>4. CASE PauseForApproval
  BY <1>4, EndTurnKeeps DEF PauseForApproval, Results0
<1>5. CASE ApprovalFault
  <2>2. worker' \in WorkerStates /\ worker'.pc = "terminal"
    BY <1>1, <1>5 DEF ApprovalFault, WorkerStates, WorkerPcs, Results
  <2> QED
    BY <1>5, <2>2, WorkerGoes DEF ApprovalFault, Before, Asking
<1> QED
  BY <1>2, <1>3, <1>4, <1>5

LEMMA RunSteps ==
    ASSUME ToolInv,
           \/ Execute /\ effects' = effects
           \/ ToolReturns \/ RecordTerminal \/ TerminalFault
           \/ ResumeTool \/ ResumeFault \/ ResumeCheck \/ Panic \/ Watchdog
    PROVE  ToolInv'
<1>1. worker \in WorkerStates
  BY DEF ToolInv, ProcessOK
<1>2. CASE Execute /\ effects' = effects
  <2>1. effects' # Append(effects, <<worker.req, Inv>>)
    <3>1. effects \in Seq(Nat \X Invocations) /\ <<worker.req, Inv>> \in Nat \X Invocations
      BY <1>1 DEF ToolInv, EffectsOK, WorkerStates, Inv
    <3>2. Len(Append(effects, <<worker.req, Inv>>)) = Len(effects) + 1 /\ Len(effects) \in Nat
      BY <3>1, AppendProperties, LenProperties
    <3> QED
      BY <1>2, <3>2
  <2>2. worker' \in WorkerStates /\ worker'.pc = "terminal"
    BY <1>1, <1>2, <2>1 DEF Execute, WorkerStates, WorkerPcs, Results
  <2> QED
    BY <1>2, <2>2, WorkerGoes DEF Execute, Before, Asking
<1>3. CASE ToolReturns
  <2>2. worker' \in WorkerStates /\ worker'.pc = "terminal"
    BY <1>1, <1>3 DEF ToolReturns, WorkerStates, WorkerPcs, Results
  <2> QED
    BY <1>3, <2>2, WorkerGoes DEF ToolReturns, Before, Asking
<1>4. CASE RecordTerminal
  <2>1. PICK e : e = Finished(Call, active, worker.result)
    OBVIOUS
  <2>2. IsLog' /\ Quiet /\ NewDecisions
    BY <1>4, <2>1, OneEventQuiet DEF RecordTerminal, Append1, Finished
  <2>3. worker' \in WorkerStates /\ worker'.pc \in {"fail", "resumeCheck", "model", "next"}
    BY <1>1, <1>4 DEF RecordTerminal, Go, WorkerStates, WorkerPcs
  <2>4. ProcessOK'
    BY <1>4, <2>3 DEF ToolInv, ProcessOK, RecordTerminal, handlers, grants
  <2>5. WorkerMoves
    BY <1>4, <2>2, <2>3, <2>4 DEF RecordTerminal, WorkerMoves, handlers, Before, Asking
  <2> QED
    BY <2>5, WorkerMovesKeep
<1>5. CASE TerminalFault \/ ResumeFault
  <2>1. PICK x : EndTurn("failed", <<Finished(Call, active, x)>>)
    BY <1>5 DEF TerminalFault, ResumeFault
  <2>2. PICK q : q = <<Finished(Call, active, x)>>
    OBVIOUS
  <2>3. Results0(q)
    BY <2>2 DEF Results0
  <2>4. EndTurn("failed", q)
    BY <2>1, <2>2
  <2>5. worker.pc # "off"
    BY <1>5 DEF TerminalFault, ResumeFault
  <2> QED
    BY <2>3, <2>4, <2>5, EndTurnKeeps
<1>6. CASE ResumeTool
  <2>2. worker' \in WorkerStates /\ worker'.pc \in {"terminal", "execute"} /\ worker'.req = worker.req
    BY <1>1, <1>6 DEF ResumeTool, WorkerStates, WorkerPcs, Results
  <2> QED
    BY <1>6, <2>2, WorkerGoes DEF ResumeTool, Before, Asking
<1>7. CASE ResumeCheck
  <2>1. CASE EndTurn("cancelled", <<>>) \/ EndTurn("awaiting_approval", <<>>)
    BY <1>7, <2>1, EndTurnKeeps DEF ResumeCheck, Results0
  <2>2. CASE Go("model") /\ UNCHANGED <<log, active, cancelRequested, handlers, grants, effects, booted>>
    <3>1. worker' \in WorkerStates /\ worker'.pc = "model"
      BY <1>1, <2>2 DEF Go, WorkerStates, WorkerPcs
    <3> QED
      BY <1>7, <2>2, <3>1, WorkerGoes DEF ResumeCheck, Before, Asking
  <2> QED
    BY <1>7, <2>1, <2>2 DEF ResumeCheck
<1>8. CASE Panic
  <2>2. worker' \in WorkerStates /\ worker'.pc = "panicked"
    BY <1>1, <1>8 DEF Panic, Go, WorkerStates, WorkerPcs
  <2> QED
    BY <1>8, <2>2, WorkerGoes DEF Panic, Before, Asking
<1>9. CASE Watchdog
  BY <1>9, EndTurnKeeps DEF Watchdog, Results0
<1> QED
  BY <1>2, <1>3, <1>4, <1>5, <1>6, <1>7, <1>8, <1>9

(* The control row and the session's auto mode are nobody's request. *)
LEMMA SwitchSteps ==
    ASSUME ToolInv, SetAutoApproval \/ CancelSession \/ UNCHANGED vars
    PROVE  ToolInv'
<1>1. UNCHANGED <<log, active, worker, approver, operator, perCall, perSession, global, effects>>
  BY DEF SetAutoApproval, CancelSession, handlers, grants, vars
<1>2. Requests' = Requests /\ \A i : ApprovalPending(i)' <=> ApprovalPending(i)
  BY <1>1 DEF Requests, ApprovalPending, Of, Belongs
<1>3. \A i : (Free(i)' <=> Free(i)) /\ (Newest(i)' <=> Newest(i)) /\ (Ran(i)' <=> Ran(i))
  BY <1>1, <1>2 DEF Free, Newest, Ran
<1>4. LogOK' /\ ProcessOK' /\ EffectsOK'
  BY <1>1, <1>2 DEF ToolInv, LogOK, ProcessOK, EffectsOK, NeverReexecuted
<1>5. PendingOK'
  BY <1>1, <1>2, <1>3, Zenon DEF ToolInv, PendingOK
<1>6. PICK w, o, f : w = worker /\ o = operator /\ f = approver
  OBVIOUS
<1>7. w = worker' /\ o = operator' /\ f = approver'
  BY <1>1, <1>6
<1>8. WorkerOK'
  <2>1. /\ w.pc \in {"requested", "resolve", "ask", "execute", "resume"} => Free(w.req)'
        /\ w.pc \in {"requested", "resolve", "ask"} => Newest(w.req)'
    BY <1>3, <1>6 DEF ToolInv, WorkerOK
  <2> QED
    BY <1>7, <2>1 DEF WorkerOK, Free, Newest
<1>9. OperatorOK'
  BY <1>1, <1>2, <1>3, <1>6 DEF ToolInv, OperatorOK, Ran
<1>10. ApproverOK'
  BY <1>1, <1>2, <1>3, <1>6 DEF ToolInv, ApproverOK, Free, Ran
<1> QED
  BY <1>4, <1>5, <1>8, <1>9, <1>10 DEF ToolInv

-----------------------------------------------------------------------------
(* Turns that start, approvers, and restarts. *)

LEMMA TurnsStartedNat ==
    ASSUME LogOK
    PROVE  TurnsStarted \in Nat
<1>1. PICK n \in Nat : DOMAIN log = 1..n
  BY LogFacts
<1>2. PICK S : S = {i \in DOMAIN log : log[i].kind = "started"}
  OBVIOUS
<1>3. S \subseteq 1..n
  BY <1>1, <1>2
<1>4. IsFiniteSet(S)
  <2>1. IsFiniteSet(1..n)
    BY FS_Interval
  <2> QED
    BY <1>3, <2>1, FS_Subset
<1> QED
  BY <1>2, <1>4, FS_CardinalityType, SMTT(40) DEF TurnsStarted

LEMMA CurrentFacts ==
    ASSUME LogOK, NEW c
    PROVE  /\ Current(c) # None =>
                 Current(c) \in Requests /\ log[Current(c)].call = c /\ Newest(Current(c))
           /\ Current(c) = None => \A i \in Requests : log[i].call # c
<1>1. Len(log) \in Nat /\ Requests \subseteq 1..Len(log)
  BY LogFacts
<1>2. PICK R : R = {i \in Requests : log[i].call = c}
  OBVIOUS
<1>3. Current(c) = IF R = {} THEN None ELSE Max(R)
  BY <1>2 DEF Current
<1>4. R # {} => Max(R) \in R /\ \A y \in R : y <= Max(R)
  BY <1>1, <1>2, LastOf
<1>5. R # {} => Max(R) # None
  BY <1>1, <1>2, <1>4 DEF None
<1>6. CASE R = {}
  BY <1>2, <1>3, <1>6
<1>7. CASE R # {}
  <2>1. Current(c) = Max(R) /\ Current(c) # None
    BY <1>3, <1>5, <1>7
  <2>2. PICK m : m = Max(R)
    OBVIOUS
  <2>3. m \in Requests /\ log[m].call = c /\ Newest(m)
    BY <1>2, <1>4, <1>7, <2>2 DEF Newest
  <2> QED
    BY <2>1, <2>2, <2>3 DEF Newest
<1> QED
  BY <1>6, <1>7

(* A quiet step by which a worker begins while nobody has claimed. *)
LEMMA TurnBegins ==
    ASSUME ToolInv, IsLog', Quiet, NewDecisions, active = None,
           NEW t \in Nat, active' = t, worker' = [Idle EXCEPT !.pc = "model", !.turn = t],
           UNCHANGED <<handlers, grants>>
    PROVE  ToolInv'
<1>1. worker' \in WorkerStates /\ worker'.pc = "model"
  BY InitialValues DEF WorkerStates, WorkerPcs, Idle
<1>2. ProcessOK'
  BY <1>1 DEF ToolInv, ProcessOK, handlers, grants
<1>3. \A a \in Approvers : approver[a].pc # "claimed"
  BY DEF ToolInv, ApproverOK
<1>4. LogOK' /\ EffectsOK' /\ PendingOK' /\ OperatorOK' /\ ApproverOK'
  BY <1>3, QuietParts DEF handlers
<1>5. WorkerOK'
  BY <1>1 DEF WorkerOK
<1> QED
  BY <1>2, <1>4, <1>5 DEF ToolInv

LEMMA StartSteps ==
    ASSUME ToolInv, StartTurn \/ AnswerTool
    PROVE  ToolInv'
<1>1. PICK t \in Nat : t = TurnsStarted + 1
  BY TurnsStartedNat DEF ToolInv
<1>2. CASE StartTurn
  <2>1. PICK e : e = Started(t, None)
    OBVIOUS
  <2>2. e.kind = "started" /\ log' = Append(log, e)
    BY <1>1, <1>2, <2>1 DEF StartTurn, Append1, Started
  <2>3. IsLog' /\ Quiet /\ NewDecisions
    BY <1>2, <2>2, OneEventQuiet DEF StartTurn
  <2>4. active' = t /\ worker' = [Idle EXCEPT !.pc = "model", !.turn = t]
    BY <1>1, <1>2 DEF StartTurn
  <2> QED
    BY <1>2, <2>3, <2>4, TurnBegins DEF StartTurn
<1>3. CASE AnswerTool
  <2>1. PICK c \in Calls :
           /\ log' = log \o <<Started(t, Current(c)), Finished(c, t, "returned")>>
           /\ active' = t /\ worker' = [Idle EXCEPT !.pc = "model", !.turn = t]
    BY <1>1, <1>3, Zenon DEF AnswerTool
  <2>2. PICK e, f, q : /\ e = Started(t, Current(c)) /\ f = Finished(c, t, "returned")
                       /\ q = <<e, f>>
    OBVIOUS
  <2>3. e.kind = "started" /\ f.kind = "finished"
    BY <2>2 DEF Started, Finished
  <2>4. q \in Seq({e, f}) /\ Len(q) = 2 /\ q[1] = e /\ q[2] = f
    BY <2>2
  <2>5. log' = log \o q
    BY <2>1, <2>2
  <2>6. IsLog' /\ Quiet /\ NewDecisions
    <3>1. effects' = effects
      BY <1>3 DEF AnswerTool
    <3>2. \A k \in 1..Len(q) : q[k] = e \/ q[k] = f
      BY <2>4
    <3>3. \A k \in 1..Len(q) : /\ q[k].kind \in {"started", "resolved", "finished", "turnFinished"}
                               /\ q[k].kind = "resolved" => q[k].decision \in Decisions
      BY <2>3, <3>2
    <3> HIDE <3>2
    <3> QED
      BY <2>4, <2>5, <3>1, <3>3, EventsQuiet
  <2> QED
    BY <1>3, <2>1, <2>6, TurnBegins DEF AnswerTool
<1> QED
  BY <1>2, <1>3

LEMMA ApproverSteps ==
    ASSUME ToolInv, NEW a \in Approvers, ApproveReads(a) \/ ApproveIdentifies(a)
    PROVE  ToolInv'
<1>1. UNCHANGED <<log, active, worker, operator, perCall, perSession, global, effects>>
  BY DEF ApproveReads, ApproveIdentifies, grants
<1>2. approver \in [Approvers -> HandlerStates] /\ LogOK
  BY DEF ToolInv, ProcessOK
<1>3. PICK h \in HandlerStates :
         /\ approver' = [approver EXCEPT ![a] = h] /\ approver[a].pc # "claimed" /\ h.pc # "claimed"
         /\ h.pc \in {"read", "identified"} =>
               h.call \in Calls /\ \E i \in Requests : log[i].call = h.call
  <2>1. CASE ApproveReads(a)
    <3>1. PICK c \in Calls, d \in HumanDecisions :
             /\ Current(c) # None
             /\ approver' = [approver EXCEPT ![a] =
                   [NoHandler EXCEPT !.pc = "read", !.call = c, !.inv = log[Current(c)].inv,
                                     !.decision = Decision(d.approved, d.scope, "human", None)]]
      BY <2>1, Zenon DEF ApproveReads, Handler
    <3>2. PICK i \in Requests : i = Current(c) /\ log[i].call = c
      BY <1>2, <3>1, CurrentFacts
    <3>3. log[Current(c)].inv \in Invocations
      BY <1>2, <3>2 DEF LogOK
    <3>4. Decision(d.approved, d.scope, "human", None) \in Decisions
      <4>1. d.approved \in BOOLEAN /\ d.scope \in Scopes
        BY ToolAssumption
      <4> QED
        BY <4>1 DEF Decision, Decisions, None
    <3>5. PICK v \in Invocations, e \in Decisions :
             v = log[Current(c)].inv /\ e = Decision(d.approved, d.scope, "human", None)
      BY <3>3, <3>4
    <3>6. PICK h : h = [NoHandler EXCEPT !.pc = "read", !.call = c, !.inv = v, !.decision = e]
      OBVIOUS
    <3>7. h \in HandlerStates /\ h.pc = "read" /\ h.call = c
      BY <3>6, InitialValues DEF HandlerStates, NoHandler
    <3>8. approver' = [approver EXCEPT ![a] = h] /\ approver[a].pc = "idle"
      BY <2>1, <3>1, <3>5, <3>6 DEF ApproveReads
    <3> QED
      BY <3>2, <3>7, <3>8
  <2>2. CASE ApproveIdentifies(a)
    <3>1. PICK i : i = Current(approver[a].call)
      OBVIOUS
    <3>2. i \in Nat
      BY <1>2, <3>1, CurrentFacts, LogFacts DEF None
    <3>3. /\ approver[a].pc = "read"
          /\ \/ approver' = [approver EXCEPT ![a] = [approver[a] EXCEPT !.pc = "identified", !.req = i]]
             \/ approver' = [approver EXCEPT ![a] = NoHandler]
      BY <2>2, <3>1 DEF ApproveIdentifies, Handler
    <3>4. PICK g \in HandlerStates : g = approver[a]
      BY <1>2
    <3>5. PICK h : /\ approver' = [approver EXCEPT ![a] = h]
                   /\ h = NoHandler \/ h = [g EXCEPT !.pc = "identified", !.req = i]
      BY <3>3, <3>4
    <3>6. h \in HandlerStates /\ h.pc # "claimed" /\ (h.pc \in {"read", "identified"} => h.call = g.call)
      BY <3>2, <3>5, InitialValues DEF HandlerStates, NoHandler
    <3>7. g.call \in Calls /\ \E k \in Requests : log[k].call = g.call
      <4>1. approver[a].pc \in {"read", "identified"}
        BY <3>3
      <4>2. approver[a].call \in Calls /\ \E k \in Requests : log[k].call = approver[a].call
        BY <4>1, Zenon DEF ToolInv, ApproverOK
      <4> QED
        BY <3>4, <4>2
    <3>8. approver[a].pc # "claimed"
      BY <3>3
    <3>9. h.pc \in {"read", "identified"} =>
             h.call \in Calls /\ \E k \in Requests : log[k].call = h.call
      BY <3>6, <3>7
    <3> QED
      BY <3>5, <3>6, <3>8, <3>9, Zenon
  <2> QED
    BY <2>1, <2>2
<1>4. IsLog' /\ Quiet /\ NewDecisions
  BY <1>1, SameLogQuiet
<1>5. LogOK' /\ EffectsOK' /\ PendingOK' /\ OperatorOK'
  BY <1>1, <1>4, QuietParts
<1>6. /\ Requests' = Requests
      /\ \A i \in Requests : (Free(i) => Free(i)') /\ (Newest(i) => Newest(i)')
  BY <1>2, <1>4, QuietKeeps
<1>7. WorkerOK'
  <2>1. PICK w : w = worker
    OBVIOUS
  <2>2. /\ w.pc \in {"requested", "resolve", "ask", "execute", "resume"} => Free(w.req)'
        /\ w.pc \in {"requested", "resolve", "ask"} => Newest(w.req)'
    BY <1>6, <2>1 DEF ToolInv, WorkerOK, Free
  <2> QED
    BY <1>1, <2>1, <2>2 DEF WorkerOK, Free, Newest
<1>8. ProcessOK'
  BY <1>1, <1>2, <1>3 DEF ToolInv, ProcessOK
<1>9. ApproverOK'
  <2>1. \A b \in Approvers : approver'[b] = IF b = a THEN h ELSE approver[b]
    BY <1>2, <1>3
  <2>2. ASSUME NEW b \in Approvers, approver'[b].pc \in {"read", "identified"}
        PROVE  approver'[b].call \in Calls /\ \E i \in Requests' : log'[i].call = approver'[b].call
    BY <1>1, <1>3, <1>6, <2>1, <2>2 DEF ToolInv, ApproverOK
  <2>3. ASSUME NEW b \in Approvers, approver'[b].pc = "claimed"
        PROVE  /\ worker'.pc = "off" /\ active' # None
               /\ Free(approver[b].req)' /\ approver'[b] = approver[b]
               /\ \A x \in Approvers : approver'[x].pc = "claimed" => x = b
    <3>1. b # a /\ approver'[b] = approver[b]
      BY <1>3, <2>1, <2>3
    <3>2. /\ worker.pc = "off" /\ active # None /\ Free(approver[b].req)
          /\ \A x \in Approvers : approver[x].pc = "claimed" => x = b
      BY <2>3, <3>1 DEF ToolInv, ApproverOK
    <3>3. PICK r : r = approver[b].req
      OBVIOUS
    <3>4. Free(r)'
      BY <1>6, <3>2, <3>3 DEF Free
    <3>5. r = approver'[b].req
      BY <3>1, <3>3
    <3>6. \A x \in Approvers : approver'[x].pc = "claimed" => x = b
      BY <1>3, <2>1, <3>2
    <3> QED
      BY <1>1, <3>1, <3>2, <3>4, <3>5, <3>6 DEF Free
  <2> QED
    BY <2>2, <2>3 DEF ApproverOK
<1> QED
  BY <1>5, <1>7, <1>8, <1>9 DEF ToolInv

LEMMA ApproveClaimsKeeps ==
    ASSUME ToolInv, NEW a \in Approvers, ApproveClaims(a)
    PROVE  ToolInv'
<1>1. /\ UNCHANGED <<worker, operator, perCall, perSession, global, effects>>
      /\ approver[a].pc = "identified"
  BY DEF ApproveClaims, grants
<1>2. approver \in [Approvers -> HandlerStates] /\ LogOK
  BY DEF ToolInv, ProcessOK
<1>3. PICK h \in HandlerStates : h = approver[a]
  BY <1>2
<1>4. h.pc = "identified" /\ h.call \in Calls /\ \E i \in Requests : log[i].call = h.call
  <2>1. approver[a].pc \in {"read", "identified"}
    BY <1>1
  <2>2. approver[a].call \in Calls /\ \E i \in Requests : log[i].call = approver[a].call
    BY <2>1, Zenon DEF ToolInv, ApproverOK
  <2> QED
    BY <1>1, <1>3, <2>2
<1>5. PICK t \in Nat : t = TurnsStarted + 1 /\ t # None
  BY <1>2, TurnsStartedNat DEF None
<1>6. CASE /\ ~MayResume(h.call, h.req) /\ approver' = [approver EXCEPT ![a] = NoHandler]
           /\ UNCHANGED <<log, active>>
  <2>1. IsLog' /\ Quiet /\ NewDecisions
    BY <1>1, <1>6, SameLogQuiet
  <2>2. LogOK' /\ EffectsOK' /\ PendingOK' /\ OperatorOK'
    BY <1>1, <2>1, QuietParts
  <2>3. /\ Requests' = Requests
        /\ \A i \in Requests : (Free(i) => Free(i)') /\ (Newest(i) => Newest(i)')
    BY <1>2, <2>1, QuietKeeps
  <2>4. WorkerOK'
    <3>1. PICK w : w = worker
      OBVIOUS
    <3>2. /\ w.pc \in {"requested", "resolve", "ask", "execute", "resume"} => Free(w.req)'
          /\ w.pc \in {"requested", "resolve", "ask"} => Newest(w.req)'
      BY <2>3, <3>1 DEF ToolInv, WorkerOK, Free
    <3> QED
      BY <1>1, <3>1, <3>2 DEF WorkerOK, Free, Newest
  <2>5. ProcessOK'
    BY <1>1, <1>2, <1>6, InitialValues DEF ToolInv, ProcessOK
  <2>6. ApproverOK'
    <3>1. /\ NoHandler.pc = "idle"
          /\ \A b \in Approvers : approver'[b] = IF b = a THEN NoHandler ELSE approver[b]
      BY <1>2, <1>6 DEF NoHandler
    <3>2. ASSUME NEW b \in Approvers, approver'[b].pc \in {"read", "identified"}
          PROVE  approver'[b].call \in Calls /\ \E i \in Requests' : log'[i].call = approver'[b].call
      BY <1>6, <2>3, <3>1, <3>2 DEF ToolInv, ApproverOK
    <3>3. ASSUME NEW b \in Approvers, approver'[b].pc = "claimed"
          PROVE  /\ worker'.pc = "off" /\ active' # None
                 /\ Free(approver[b].req)'
                 /\ \A x \in Approvers : approver'[x].pc = "claimed" => x = b
      <4>1. b # a /\ approver'[b] = approver[b]
        BY <3>1, <3>3
      <4>2. /\ worker.pc = "off" /\ active # None /\ Free(approver[b].req)
            /\ \A x \in Approvers : approver[x].pc = "claimed" => x = b
        BY <3>3, <4>1 DEF ToolInv, ApproverOK
      <4>3. PICK r : r = approver[b].req
        OBVIOUS
      <4>4. Free(r)' /\ r = approver'[b].req
        BY <2>3, <4>1, <4>2, <4>3 DEF Free
      <4>5. \A x \in Approvers : approver'[x].pc = "claimed" => x = b
        BY <3>1, <4>2
      <4> QED
        BY <1>1, <1>6, <4>2, <4>4, <4>5 DEF Free
    <3> QED
      BY <3>2, <3>3 DEF ApproverOK
  <2> QED
    BY <2>2, <2>4, <2>5, <2>6 DEF ToolInv
<1>7. ASSUME NEW d, d = [h.decision EXCEPT !.for = h.req],
             MayResume(h.call, h.req), worker.pc = "off", active' = t,
             log' = log \o <<Started(t, h.req), Resolved(h.call, t, h.inv, d)>>,
             approver' = [approver EXCEPT ![a] = [h EXCEPT !.pc = "claimed", !.turn = t, !.decision = d]]
      PROVE  ToolInv'
  <2>1. d \in Decisions
    BY <1>7 DEF HandlerStates, Decisions
  <2>2. PICK e, f, q : /\ e = Started(t, h.req) /\ f = Resolved(h.call, t, h.inv, d)
                       /\ q = <<e, f>>
    OBVIOUS
  <2>3. e.kind = "started" /\ f.kind = "resolved" /\ f.call = h.call /\ f.decision = d
    BY <2>2 DEF Started, Resolved
  <2>4. q \in Seq({e, f}) /\ Len(q) = 2 /\ q[1] = e /\ q[2] = f
    BY <2>2
  <2>5. log' = log \o q
    BY <1>7, <2>2
  <2>6. IsLog' /\ Quiet /\ NewDecisions
    <3>1. \A k \in 1..Len(q) : q[k] = e \/ q[k] = f
      BY <2>4
    <3>2. \A k \in 1..Len(q) : /\ q[k].kind \in {"started", "resolved", "finished", "turnFinished"}
                               /\ q[k].kind = "resolved" => q[k].decision \in Decisions
      BY <2>1, <2>3, <3>1
    <3> HIDE <3>1
    <3> QED
      BY <1>1, <2>4, <2>5, <3>2, EventsQuiet
  <2>7. PICK n : n \in DOMAIN log' /\ n > Len(log) /\ log'[n] = f
    <3>1. /\ Len(log') = Len(log) + Len(q) /\ \A k \in 1..Len(q) : log'[Len(log) + k] = q[k]
      BY <1>2, <2>4, <2>5, ConcatGrows DEF LogOK, IsLog
    <3>2. Len(log) \in Nat /\ DOMAIN log' = 1..Len(log')
      BY <1>2, <2>6, LogFacts, LenProperties DEF IsLog
    <3> QED
      BY <2>4, <3>1, <3>2
  <2>8. PICK r : r = h.req
    OBVIOUS
  <2>9. /\ r \in Requests /\ log[r].call = h.call /\ Newest(r) /\ ApprovalPending(r)
        /\ active = None
    BY <1>2, <1>4, <1>7, <2>8, CurrentFacts DEF MayResume
  <2>10. ~ApprovalPending(r)'
    BY <1>2, <2>3, <2>6, <2>7, <2>9, ResolvedNotPending DEF Quiet
  <2>11. /\ Requests' = Requests /\ \A i \in Requests : log'[i] = log[i]
         /\ \A i \in Requests : /\ Ran(i)' <=> Ran(i)
                                /\ (Free(i) => Free(i)') /\ (Newest(i) => Newest(i)')
    BY <1>2, <2>6, QuietKeeps
  <2>12. Free(r)'
    <3>1. ~Ran(r)
      BY <2>9 DEF ToolInv, PendingOK
    <3> QED
      BY <1>4, <2>9, <2>10, <2>11, <3>1 DEF Free
  <2>13. LogOK' /\ EffectsOK' /\ PendingOK' /\ OperatorOK'
    BY <1>1, <2>6, QuietParts
  <2>14. WorkerOK'
    BY <1>1, <1>7 DEF WorkerOK
  <2>15. PICK g : g = [h EXCEPT !.pc = "claimed", !.turn = t, !.decision = d]
    OBVIOUS
  <2>16. g \in HandlerStates /\ g.pc = "claimed" /\ g.req = r
    BY <2>1, <2>8, <2>15 DEF HandlerStates
  <2>17. /\ approver' \in [Approvers -> HandlerStates]
         /\ \A b \in Approvers : approver'[b] = IF b = a THEN g ELSE approver[b]
    BY <1>2, <1>7, <2>15, <2>16
  <2>18. ProcessOK'
    BY <1>1, <1>7, <2>17 DEF ToolInv, ProcessOK
  <2>19. ApproverOK'
    <3>1. \A b \in Approvers : approver[b].pc # "claimed"
      BY <2>9 DEF ToolInv, ApproverOK
    <3>2. ASSUME NEW b \in Approvers, approver'[b].pc \in {"read", "identified"}
          PROVE  approver'[b].call \in Calls /\ \E i \in Requests' : log'[i].call = approver'[b].call
      <4>1. approver'[b] = approver[b]
        BY <2>16, <2>17, <3>2
      <4> QED
        BY <2>11, <3>2, <4>1 DEF ToolInv, ApproverOK
    <3>3. ASSUME NEW b \in Approvers, approver'[b].pc = "claimed"
          PROVE  /\ worker'.pc = "off" /\ active' # None
                 /\ Free(approver[b].req)'
                 /\ \A x \in Approvers : approver'[x].pc = "claimed" => x = b
      <4>1. b = a /\ approver'[b].req = r
        BY <2>16, <2>17, <3>1, <3>3
      <4>2. \A x \in Approvers : approver'[x].pc = "claimed" => x = b
        BY <2>17, <3>1, <4>1
      <4> QED
        BY <1>1, <1>5, <1>7, <2>12, <4>1, <4>2 DEF Free
    <3> QED
      BY <3>2, <3>3 DEF ApproverOK
  <2> QED
    BY <2>13, <2>14, <2>18, <2>19 DEF ToolInv
<1> QED
  BY <1>3, <1>5, <1>6, <1>7 DEF ApproveClaims, Handler

LEMMA ApproveDetachesKeeps ==
    ASSUME ToolInv, NEW a \in Approvers, ApproveDetaches(a)
    PROVE  ToolInv'
<1>1. UNCHANGED <<log, active, operator, perCall, effects>> /\ approver[a].pc = "claimed"
  BY DEF ApproveDetaches
<1>2. approver \in [Approvers -> HandlerStates] /\ LogOK /\ GrantsTyped
  BY DEF ToolInv, ProcessOK, GrantsTyped
<1>3. PICK h \in HandlerStates : h = approver[a]
  BY <1>2
<1>4. /\ Reuse(h.inv, h.decision) /\ approver' = [approver EXCEPT ![a] = NoHandler]
      /\ worker' = [Idle EXCEPT !.pc = "resume", !.turn = h.turn, !.req = h.req,
                                !.inv = h.inv, !.decision = h.decision]
  BY <1>3 DEF ApproveDetaches, Handler
<1>5. Free(h.req) /\ \A b \in Approvers : approver[b].pc = "claimed" => b = a
  BY <1>1, <1>3 DEF ToolInv, ApproverOK
<1>6. IsLog' /\ Quiet /\ NewDecisions
  BY <1>1, SameLogQuiet
<1>7. LogOK' /\ EffectsOK' /\ PendingOK' /\ OperatorOK'
  BY <1>1, <1>6, QuietParts
<1>8. /\ Requests' = Requests
      /\ \A i \in Requests : Free(i) => Free(i)'
  BY <1>2, <1>6, QuietKeeps
<1>9. worker' \in WorkerStates /\ worker'.pc = "resume" /\ worker'.req = h.req
  BY <1>3, <1>4, InitialValues DEF WorkerStates, WorkerPcs, HandlerStates, Idle
<1>10. perSession' \in [Guarded -> Decisions] /\ global' \in [Guarded -> Decisions]
  BY <1>2, <1>4, ReuseTyped DEF HandlerStates
<1>11. ProcessOK'
  BY <1>1, <1>2, <1>4, <1>9, <1>10, InitialValues DEF ToolInv, ProcessOK
<1>12. WorkerOK'
  <2>1. PICK r : r = h.req
    OBVIOUS
  <2>2. Free(r)' /\ worker'.req = r
    BY <1>5, <1>8, <1>9, <2>1 DEF Free
  <2> QED
    BY <1>9, <2>2 DEF WorkerOK, Free
<1>13. ApproverOK'
  <2>1. /\ NoHandler.pc = "idle"
        /\ \A b \in Approvers : approver'[b] = IF b = a THEN NoHandler ELSE approver[b]
    BY <1>2, <1>4 DEF NoHandler
  <2>2. \A b \in Approvers : approver'[b].pc # "claimed"
    BY <1>5, <2>1
  <2>3. ASSUME NEW b \in Approvers, approver'[b].pc \in {"read", "identified"}
        PROVE  approver'[b].call \in Calls /\ \E i \in Requests' : log'[i].call = approver'[b].call
    BY <1>1, <1>8, <2>1, <2>3 DEF ToolInv, ApproverOK
  <2> QED
    BY <2>2, <2>3 DEF ApproverOK
<1> QED
  BY <1>7, <1>11, <1>12, <1>13 DEF ToolInv

LEMMA RecoveredClosing ==
    ASSUME LogOK, NEW S, S \subseteq DOMAIN log, NEW t
    PROVE  Closing(RecoveredResults(S, t))
<1>1. PICK m \in Nat : DOMAIN log = 1..m
  BY LogFacts
<1>2. IsFiniteSet(1..m)
  BY FS_Interval
<1>3. PICK n \in Nat : n = Cardinality(S)
  BY <1>1, <1>2, FS_Subset, FS_CardinalityType
<1>4. PICK f : f = RecoveredResults(S, t)
  OBVIOUS
<1>5. /\ DOMAIN f = 1..n /\ f = [k \in 1..n |-> f[k]]
      /\ \A k \in 1..n : f[k].kind = "finished"
  BY <1>3, <1>4 DEF RecoveredResults, Finished
<1>6. PICK R : R = {f[k] : k \in 1..n}
  OBVIOUS
<1>7. \A k \in 1..n : f[k] \in R
  BY <1>6
<1>8. [k \in 1..n |-> f[k]] \in Seq(R)
  BY <1>7, IsASeq
<1> QED
  BY <1>4, <1>5, <1>6, <1>8 DEF Closing

LEMMA RecoveryClosing ==
    ASSUME LogOK
    PROVE  Closing(Recovery)
<1>1. \A e : e.kind = "turnFinished" => Closing(<<e>>)
  BY ClosingOne
<1>2. Closing(<<>>)
  BY ClosingOne
<1>3. PICK open : open = {i \in OperatorTools : Of(i, "finished") = {}}
  OBVIOUS
<1>4. open \subseteq DOMAIN log /\ Interrupted(active) \subseteq DOMAIN log
  BY <1>3 DEF OperatorTools, Interrupted, Requests
<1>5. PICK I, t, e : /\ I = Interrupted(active) /\ t = active
                     /\ e = TurnFinished(active, IF cancelRequested THEN "cancelled" ELSE "failed")
  OBVIOUS
<1>6. Closing(RecoveredResults(open, None)) /\ Closing(RecoveredResults(I, t)) /\ Closing(<<e>>)
  BY <1>1, <1>4, <1>5, RecoveredClosing DEF TurnFinished
<1>7. PICK p, q : p = RecoveredResults(open, None) /\ q = RecoveredResults(I, t)
  OBVIOUS
<1>8. Recovery = (IF t = None THEN <<>> ELSE q \o <<e>>) \o p
  BY <1>3, <1>5, <1>7 DEF Recovery
<1>9. Closing(q \o <<e>>)
  BY <1>6, <1>7, ClosingConcat
<1>10. PICK s : s = IF t = None THEN <<>> ELSE q \o <<e>>
  OBVIOUS
<1>11. Closing(s)
  BY <1>2, <1>9, <1>10
<1>12. Closing(s \o p)
  BY <1>6, <1>7, <1>11, ClosingConcat
<1> QED
  BY <1>8, <1>10, <1>12

LEMMA RehydratedTyped ==
    ASSUME LogOK, NEW v, NEW scope
    PROVE  Rehydrated(v, scope) \in Decisions
<1>1. Len(log) \in Nat /\ DOMAIN log = 1..Len(log)
  BY LogFacts
<1>2. PICK J : J = {j \in DOMAIN log : /\ log[j].kind = "resolved" /\ log[j].inv = v
                                       /\ log[j].decision.scope = scope}
  OBVIOUS
<1>3. Rehydrated(v, scope) = IF J = {} THEN NoDecision ELSE log[Max(J)].decision
  BY <1>2 DEF Rehydrated
<1>4. J # {} => Max(J) \in J
  BY <1>1, <1>2, LastOf
<1> QED
  BY <1>2, <1>3, <1>4, InitialValues DEF LogOK

LEMMA RestartKeeps ==
    ASSUME ToolInv, Restart
    PROVE  ToolInv'
<1>1. PICK q : q = Recovery
  OBVIOUS
<1>2. Closing(q)
  BY <1>1, RecoveryClosing DEF ToolInv
<1>3. PICK T : T = {q[k] : k \in DOMAIN q}
  OBVIOUS
<1>4. q \in Seq(T) /\ \A k \in 1..Len(q) : q[k].kind \in {"finished", "turnFinished"}
  BY <1>2, <1>3, LenProperties DEF Closing
<1>5. IsLog' /\ Quiet /\ NewDecisions
  BY <1>1, <1>4, EventsQuiet DEF Restart
<1>6. LogOK' /\ EffectsOK' /\ PendingOK'
  BY <1>5, QuietParts
<1>7. /\ perSession' \in [Guarded -> Decisions] /\ global' \in [Guarded -> Decisions]
      /\ perCall' \in [Calls -> [inv: Invocations, decision: Decisions]]
  BY RehydratedTyped, InitialValues DEF Restart, ToolInv
<1>8. ProcessOK'
  BY <1>7, InitialValues DEF Restart, ProcessOK, None
<1>9. WorkerOK' /\ ApproverOK' /\ OperatorOK'
  BY DEF Restart, WorkerOK, ApproverOK, OperatorOK, Idle, NoHandler, NoOperator
<1> QED
  BY <1>6, <1>8, <1>9 DEF ToolInv

-----------------------------------------------------------------------------
(* The steps that request, ask or execute. *)

LEMMA NewRequest ==
    ASSUME ToolInv, NEW e, log' = Append(log, e), effects' = effects,
           e.kind = "requested", e.call \in Calls \cup Nat, e.inv \in Invocations,
           NEW n, n = Len(log) + 1
    PROVE  /\ LogOK' /\ EffectsOK' /\ PendingOK'
           /\ Requests' = Requests \cup {n} /\ log'[n] = e /\ n \in Nat
           /\ ~Ran(n)' /\ ~ApprovalPending(n)'
           /\ \A i \in Requests : /\ i < n /\ log'[i] = log[i] /\ (Free(i) => Free(i)')
                                  /\ Ran(i)' <=> Ran(i)
                                  /\ Newest(i) /\ e.call # log[i].call => Newest(i)'
<1>1. Len(log) \in Nat /\ DOMAIN log = 1..Len(log) /\ IsLog /\ LogOK /\ n \in Nat
  BY LogFacts DEF ToolInv, LogOK, IsLog
<1>2. IsLog' /\ Grows /\ Len(log') = n /\ log'[n] = e
  BY <1>1, AppendGrows
<1>3. DOMAIN log' = 1..n
  BY <1>2, LenProperties DEF IsLog
<1>4. Requests' = Requests \cup {n} /\ \A i \in Requests : i < n /\ log'[i] = log[i]
  BY <1>1, <1>2, <1>3 DEF Requests, Grows
<1>5. \A i \in DOMAIN log' : i \in DOMAIN log \/ i = n
  BY <1>1, <1>3
<1>6. LogOK'
  <2>1. \A i \in Requests' : log'[i].call \in Calls \cup Nat /\ log'[i].inv \in Invocations
    BY <1>1, <1>2, <1>4 DEF LogOK
  <2>2. \A i \in DOMAIN log' : log'[i].kind = "resolved" => log'[i].decision \in Decisions
    BY <1>1, <1>2, <1>5 DEF LogOK, Grows
  <2> QED
    BY <1>2, <2>1, <2>2 DEF LogOK, IsLog
<1>7. EffectsOK'
  BY <1>4 DEF ToolInv, EffectsOK, NeverReexecuted
<1>8. ~Ran(n)'
  <2>1. \A x \in DOMAIN effects : effects[x][1] # n
    BY <1>4 DEF ToolInv, EffectsOK
  <2> QED
    BY <2>1 DEF Ran
<1>9. ~ApprovalPending(n)'
  <2>1. \A j : ~Belongs(j, n)'
    BY <1>1, <1>3 DEF Belongs
  <2> QED
    BY <2>1, Zenon DEF ApprovalPending, Of
<1>10. \A i \in Requests : ApprovalPending(i)' => ApprovalPending(i)
  <2>1. \A j \in DOMAIN log' : j > Len(log) => log'[j].kind # "approval"
    BY <1>1, <1>2, <1>3
  <2> QED
    BY <1>1, <1>2, <2>1, PendingStable, Zenon
<1>11. \A i \in Requests : Ran(i)' <=> Ran(i)
  BY RanSame
<1>12. \A i \in Requests : Free(i) => Free(i)'
  BY <1>4, <1>10, <1>11, Zenon DEF Free
<1>13. ASSUME NEW i \in Requests, Newest(i), e.call # log[i].call PROVE Newest(i)'
  BY <1>2, <1>4, <1>13 DEF Newest
<1>14. PendingOK'
  BY <1>4, <1>9, <1>10, <1>11, Zenon DEF ToolInv, PendingOK
<1> QED
  BY <1>1, <1>2, <1>4, <1>6, <1>7, <1>8, <1>9, <1>11, <1>12, <1>13, <1>14

LEMMA ExecutesOne ==
    ASSUME ToolInv, log' = log, NEW r \in Requests, NEW v \in Invocations,
           ~Ran(r), ~ApprovalPending(r), effects' = Append(effects, <<r, v>>)
    PROVE  /\ LogOK' /\ EffectsOK' /\ PendingOK'
           /\ Requests' = Requests
           /\ \A i \in Requests : /\ i # r => (Ran(i)' <=> Ran(i)) /\ (Free(i) => Free(i)')
                                  /\ Newest(i) => Newest(i)'
<1>1. r \in Nat /\ Requests' = Requests
  BY LogFacts DEF ToolInv, Requests
<1>2. PICK n \in Nat : n = Len(effects) /\ DOMAIN effects = 1..n
  BY LenProperties DEF ToolInv, EffectsOK
<1>3. /\ effects' \in Seq(Nat \X Invocations) /\ DOMAIN effects' = 1..n + 1
      /\ effects'[n + 1] = <<r, v>> /\ \A x \in 1..n : effects'[x] = effects[x]
  <2>1. effects \in Seq(Nat \X Invocations) /\ <<r, v>> \in Nat \X Invocations
    BY <1>1 DEF ToolInv, EffectsOK
  <2>2. PICK S : S = Nat \X Invocations
    OBVIOUS
  <2>3. PICK p \in S : p = <<r, v>>
    BY <2>1, <2>2
  <2>4. /\ effects' \in Seq(S) /\ Len(effects') = n + 1 /\ DOMAIN effects' = 1..Len(effects')
        /\ effects'[n + 1] = p /\ \A x \in 1..n : effects'[x] = effects[x]
    BY <1>2, <2>1, <2>2, <2>3, AppendProperties, LenProperties
  <2> QED
    BY <2>2, <2>3, <2>4
<1>4. effects'[n + 1][1] = r /\ \A x \in 1..n + 1 : x \in 1..n \/ x = n + 1
  BY <1>3
<1>5. \A i : Ran(i)' <=> Ran(i) \/ i = r
  <2>1. \A i : Ran(i) => Ran(i)'
    <3>1. 1..n \subseteq 1..n + 1
      OBVIOUS
    <3> QED
      BY <1>2, <1>3, <3>1 DEF Ran
  <2>2. Ran(r)'
    <3>1. n + 1 \in 1..n + 1
      OBVIOUS
    <3> QED
      BY <1>3, <1>4, <3>1 DEF Ran
  <2>3. \A i : Ran(i)' => Ran(i) \/ i = r
    BY <1>2, <1>3, <1>4 DEF Ran
  <2> QED
    BY <2>1, <2>2, <2>3
<1>6. EffectsOK'
  <2>1. \A x \in DOMAIN effects' : effects'[x][1] \in Requests'
    BY <1>1, <1>2, <1>3, <1>4 DEF ToolInv, EffectsOK
  <2>2. \A x \in 1..n : effects'[x][1] # r
    <3>1. \A x \in 1..n : effects[x][1] # r
      BY <1>2, Zenon DEF Ran
    <3> QED
      BY <1>3, <3>1
  <2>3. \A x, y \in 1..n : effects'[x][1] = effects'[y][1] => x = y
    <3>1. \A x, y \in 1..n : effects[x][1] = effects[y][1] => x = y
      BY <1>2, Zenon DEF ToolInv, EffectsOK, NeverReexecuted
    <3> QED
      BY <1>3, <3>1
  <2>4. NeverReexecuted'
    <3> SUFFICES ASSUME NEW x \in 1..n + 1, NEW y \in 1..n + 1, effects'[x][1] = effects'[y][1]
                 PROVE  x = y
      BY <1>3 DEF NeverReexecuted
    <3> QED
      BY <1>4, <2>2, <2>3
  <2> QED
    BY <1>3, <2>1, <2>4 DEF EffectsOK
<1>7. \A i : ApprovalPending(i)' <=> ApprovalPending(i)
  BY DEF ApprovalPending, Of, Belongs, Requests
<1>8. PendingOK'
  BY <1>1, <1>5, <1>7 DEF ToolInv, PendingOK
<1>9. LogOK'
  BY <1>1 DEF ToolInv, LogOK
<1>10. \A i \in Requests : i # r => (Free(i) => Free(i)')
  BY <1>1, <1>5, <1>7 DEF Free
<1>11. \A i \in Requests : Newest(i) => Newest(i)'
  BY <1>1 DEF Newest
<1> QED
  BY <1>1, <1>5, <1>6, <1>8, <1>9, <1>10, <1>11

(* What a step leaves of the approvers when no request and no claim goes. *)
LEMMA ApproversStay ==
    ASSUME ApproverOK, approver' = approver, worker.pc # "off",
           \A i \in Requests : i \in Requests' /\ log'[i] = log[i]
    PROVE  ApproverOK'
<1>1. \A a \in Approvers : approver[a].pc # "claimed"
  BY DEF ApproverOK
<1>2. ASSUME NEW a \in Approvers, approver[a].pc \in {"read", "identified"}
      PROVE  approver[a].call \in Calls /\ \E i \in Requests' : log'[i].call = approver[a].call
  BY <1>2 DEF ApproverOK
<1> QED
  BY <1>1, <1>2, Zenon DEF ApproverOK

LEMMA RequestToolKeeps ==
    ASSUME ToolInv, RequestTool
    PROVE  ToolInv'
<1>1. CASE EndTurn("cancelled", <<>>)
  BY <1>1, EndTurnKeeps DEF RequestTool, Results0
<1>2. CASE /\ Append1(Requested(worker.todo[1][1], active, worker.todo[1][2]))
           /\ worker' = [worker EXCEPT !.pc = "requested", !.todo = Tail(@), !.req = Len(log) + 1,
                                       !.inv = worker.todo[1][2]]
           /\ UNCHANGED <<active, cancelRequested, handlers, grants, effects, booted>>
  <2>1. /\ worker \in WorkerStates /\ worker.todo \in Seq(Calls \X Invocations)
        /\ worker.pc = "next" /\ worker.todo # <<>>
    BY DEF RequestTool, ToolInv, ProcessOK, WorkerStates
  <2>2. PICK c \in Calls, v \in Invocations : c = worker.todo[1][1] /\ v = worker.todo[1][2]
    <3>1. Len(worker.todo) \in Nat /\ Len(worker.todo) # 0
      BY <2>1, EmptySeq, LenProperties
    <3>2. worker.todo[1] \in Calls \X Invocations
      BY <2>1, <3>1, ElementOfSeq
    <3> QED
      BY <3>2
  <2>3. PICK e, n : e = Requested(c, active, v) /\ n = Len(log) + 1
    OBVIOUS
  <2>4. e.kind = "requested" /\ e.call = c /\ e.inv = v /\ log' = Append(log, e)
    BY <1>2, <2>2, <2>3 DEF Requested, Append1
  <2>5. /\ LogOK' /\ EffectsOK' /\ PendingOK'
        /\ Requests' = Requests \cup {n} /\ log'[n] = e /\ n \in Nat
        /\ ~Ran(n)' /\ ~ApprovalPending(n)'
        /\ \A i \in Requests : i < n /\ log'[i] = log[i] /\ (Ran(i)' <=> Ran(i))
    BY <1>2, <2>3, <2>4, NewRequest
  <2>6. PICK q \in Seq(Calls \X Invocations) : q = Tail(worker.todo)
    BY <2>1, HeadTailProperties
  <2>7. worker' = [worker EXCEPT !.pc = "requested", !.todo = q, !.req = n, !.inv = v]
    BY <1>2, <2>2, <2>3, <2>6
  <2>8. worker' \in WorkerStates /\ worker'.pc = "requested" /\ worker'.req = n
    BY <2>1, <2>5, <2>7 DEF WorkerStates, WorkerPcs
  <2>9. ProcessOK'
    BY <1>2, <2>8 DEF ToolInv, ProcessOK, handlers, grants
  <2>10. WorkerOK'
    <3>1. Free(n)'
      BY <2>4, <2>5, Zenon DEF Free
    <3>2. \A k \in Requests' : k <= n
      <4>1. \A k \in Requests : k \in Nat
        BY LogFacts DEF ToolInv
      <4> QED
        BY <2>5, <4>1
    <3>3. Newest(n)'
      BY <3>2, Zenon DEF Newest
    <3> QED
      BY <2>8, <3>1, <3>3 DEF WorkerOK, Free, Newest
  <2>11. ApproverOK'
    BY <1>2, <2>1, <2>5, ApproversStay DEF ToolInv, handlers
  <2>12. OperatorOK'
    BY <1>2, <2>5 DEF ToolInv, OperatorOK, handlers, Ran
  <2> QED
    BY <2>5, <2>9, <2>10, <2>11, <2>12 DEF ToolInv
<1> QED
  BY <1>1, <1>2 DEF RequestTool

(* An approval request makes the newest request of its call wait, no other. *)
LEMMA AskedOnly ==
    ASSUME LogOK, NEW r \in Requests, Newest(r), NEW e, log' = Append(log, e),
           e.kind = "approval", e.call = log[r].call, NEW i \in Requests, i # r
    PROVE  ApprovalPending(i)' => ApprovalPending(i)
<1>1. Len(log) \in Nat /\ DOMAIN log = 1..Len(log) /\ IsLog
  BY LogFacts DEF LogOK, IsLog
<1>2. PICK n \in Nat : n = Len(log) + 1
  BY <1>1
<1>3. IsLog' /\ Grows /\ Len(log') = n /\ log'[n] = e
  BY <1>1, <1>2, AppendGrows
<1>4. DOMAIN log' = 1..n
  BY <1>3, LenProperties DEF IsLog
<1>5. \A k \in Requests : k \in Requests' /\ k \in Nat /\ k < n /\ log'[k] = log[k]
  BY <1>1, <1>2, <1>3, <1>4 DEF Requests, Grows
<1>6. ~Belongs(n, i)'
  <2> SUFFICES ASSUME Belongs(n, i)' PROVE FALSE
    OBVIOUS
  <2>1. log'[n].call = log'[i].call /\ \A k \in Requests' : i < k /\ k < n => log'[k].call # log'[i].call
    BY Zenon DEF Belongs
  <2>2. log[i].call = log[r].call
    BY <1>3, <1>5, <2>1
  <2>3. i < r
    BY <1>5, <2>2 DEF Newest
  <2> QED
    BY <1>5, <2>1, <2>2, <2>3
<1>7. \A j \in DOMAIN log' : j > Len(log) /\ log'[j].kind = "approval" => ~Belongs(j, i)'
  <2>1. \A j \in DOMAIN log' : j > Len(log) => j = n
    BY <1>1, <1>2, <1>4
  <2> QED
    BY <1>6, <2>1, Zenon
<1> QED
  BY <1>3, <1>7, PendingStable

LEMMA RequestApprovalKeeps ==
    ASSUME ToolInv, RequestApproval
    PROVE  ToolInv'
<1>1. /\ worker \in WorkerStates /\ worker.pc = "ask" /\ effects' = effects
      /\ Free(worker.req) /\ Newest(worker.req)
  BY DEF RequestApproval, ToolInv, ProcessOK, WorkerOK
<1>2. PICK r, e : r = worker.req /\ e = Approval(Call, active)
  OBVIOUS
<1>3. /\ r \in Requests /\ log[r].call \in Calls /\ ~Ran(r) /\ Newest(r)
      /\ e.kind = "approval" /\ e.call = log[r].call /\ log' = Append(log, e)
  BY <1>1, <1>2 DEF Free, Call, Approval, RequestApproval, Append1
<1>4. PICK n : n = Len(log) + 1
  OBVIOUS
<1>5. Len(log) \in Nat /\ DOMAIN log = 1..Len(log) /\ IsLog /\ LogOK /\ n \in Nat
  BY <1>4, LogFacts DEF ToolInv, LogOK, IsLog
<1>6. IsLog' /\ Grows /\ Len(log') = n /\ log'[n] = e
  BY <1>3, <1>4, <1>5, AppendGrows
<1>7. DOMAIN log' = 1..n /\ \A i \in DOMAIN log' : i \in DOMAIN log \/ i = n
  BY <1>4, <1>5, <1>6, LenProperties DEF IsLog
<1>8. Requests' = Requests /\ \A i \in Requests : i < n /\ i \in Nat /\ log'[i] = log[i]
  BY <1>3, <1>4, <1>5, <1>6, <1>7 DEF Requests, Grows
<1>9. LogOK'
  <2>1. \A i \in Requests' : log'[i].call \in Calls \cup Nat /\ log'[i].inv \in Invocations
    BY <1>5, <1>8 DEF LogOK
  <2>2. \A i \in DOMAIN log' : log'[i].kind = "resolved" => log'[i].decision \in Decisions
    BY <1>3, <1>5, <1>6, <1>7 DEF LogOK, Grows
  <2> QED
    BY <1>6, <2>1, <2>2 DEF LogOK, IsLog
<1>10. EffectsOK' /\ \A i : Ran(i)' <=> Ran(i)
  BY <1>1, <1>8 DEF ToolInv, EffectsOK, NeverReexecuted, Ran
<1>11. ASSUME NEW i \in Requests, i # r PROVE ApprovalPending(i)' => ApprovalPending(i)
  BY <1>3, <1>5, <1>11, AskedOnly
<1>12. PendingOK'
  <2> SUFFICES ASSUME NEW i \in Requests', ApprovalPending(i)'
               PROVE  ~Ran(i)' /\ log'[i].call \in Calls
    BY DEF PendingOK
  <2>1. i \in Requests /\ log'[i] = log[i] /\ (Ran(i)' <=> Ran(i))
    BY <1>8, <1>10
  <2>2. CASE i = r
    BY <1>3, <2>1, <2>2
  <2>3. CASE i # r
    BY <1>11, <2>1, <2>3 DEF ToolInv, PendingOK
  <2> QED
    BY <2>2, <2>3
<1>13. worker' \in WorkerStates /\ worker'.pc = "pause"
  BY <1>1 DEF RequestApproval, Go, WorkerStates, WorkerPcs
<1>14. ProcessOK'
  BY <1>13 DEF ToolInv, ProcessOK, RequestApproval, handlers, grants
<1>15. WorkerOK'
  BY <1>13 DEF WorkerOK
<1>16. ApproverOK'
  BY <1>1, <1>8, ApproversStay DEF ToolInv, RequestApproval, handlers
<1>17. OperatorOK'
  BY <1>8, <1>10 DEF ToolInv, OperatorOK, RequestApproval, handlers, Ran
<1> QED
  BY <1>9, <1>10, <1>12, <1>14, <1>15, <1>16, <1>17 DEF ToolInv

LEMMA ExecuteKeeps ==
    ASSUME ToolInv, Execute
    PROVE  ToolInv'
<1>1. CASE effects' = effects
  BY <1>1, RunSteps
<1>2. CASE effects' # effects
  <2>1. /\ worker \in WorkerStates /\ worker.pc = "execute" /\ Free(worker.req)
        /\ effects' = Append(effects, <<worker.req, Inv>>) /\ Go("executing")
        /\ UNCHANGED <<log, active, handlers, grants>>
    BY <1>2 DEF Execute, ToolInv, ProcessOK, WorkerOK
  <2>2. PICK r \in Requests, v \in Invocations :
           r = worker.req /\ v = Inv /\ log[r].call \in Calls /\ ~Ran(r) /\ ~ApprovalPending(r)
    BY <2>1 DEF Free, WorkerStates, Inv
  <2>3. effects' = Append(effects, <<r, v>>)
    BY <2>1, <2>2
  <2>4. /\ LogOK' /\ EffectsOK' /\ PendingOK' /\ Requests' = Requests
        /\ \A i \in Requests : i # r => (Ran(i)' <=> Ran(i))
    BY <2>1, <2>2, <2>3, ExecutesOne
  <2>5. worker' \in WorkerStates /\ worker'.pc = "executing"
    BY <2>1 DEF Go, WorkerStates, WorkerPcs
  <2>6. ProcessOK'
    BY <2>1, <2>5 DEF ToolInv, ProcessOK, handlers, grants
  <2>7. WorkerOK'
    BY <2>5 DEF WorkerOK
  <2>8. ApproverOK'
    BY <2>1, <2>4, ApproversStay DEF ToolInv, handlers
  <2>9. OperatorOK'
    <3>1. operator' = operator /\ operator.req \in Nat
      BY <2>1 DEF ToolInv, ProcessOK, OperatorStates, handlers
    <3>2. operator.pc # "idle" => operator.req \in Requests /\ log[operator.req].call = operator.req
      BY DEF ToolInv, OperatorOK
    <3>3. operator.pc # "idle" => operator.req # r
      BY <2>2, <3>1, <3>2, ToolAssumption
    <3>4. PICK o : o = operator
      OBVIOUS
    <3>5. operator.pc = "execute" => ~Ran(o.req)'
      BY <2>4, <3>2, <3>3, <3>4 DEF ToolInv, OperatorOK
    <3> QED
      BY <2>1, <2>4, <3>1, <3>2, <3>4, <3>5 DEF OperatorOK, Ran
  <2> QED
    BY <2>4, <2>6, <2>7, <2>8, <2>9 DEF ToolInv
<1> QED
  BY <1>1, <1>2

(* The operator's steps: its requests have call identifiers no model gives. *)
LEMMA OperatorSteps ==
    ASSUME ToolInv, OperatorStep
    PROVE  ToolInv'
<1>1. /\ UNCHANGED <<active, worker, approver, perCall, perSession, global>>
      /\ operator \in OperatorStates /\ operator.req \in Nat /\ LogOK
  BY DEF OperatorStep, OperatorRequests, OperatorExecutes, OperatorRecords, OperatorFault,
         OperatorGone, grants, ToolInv, ProcessOK, OperatorStates
<1>2. PICK w : w = worker
  OBVIOUS
<1>3. /\ w.pc \in {"requested", "resolve", "ask", "execute", "resume"} => Free(w.req)
      /\ w.pc \in {"requested", "resolve", "ask"} => Newest(w.req)
  BY <1>2 DEF ToolInv, WorkerOK
<1>4. ASSUME operator' \in OperatorStates PROVE ProcessOK'
  BY <1>1, <1>4 DEF ToolInv, ProcessOK
(* Free requests stay free: so do the worker's and the approvers'. *)
<1>5. ASSUME \A i \in Requests : i \in Requests' /\ log'[i] = log[i] /\ (Free(i) => Free(i)'),
             w.pc \in {"requested", "resolve", "ask"} => Newest(w.req)'
      PROVE  WorkerOK' /\ ApproverOK'
  <2>1. w.pc \in {"requested", "resolve", "ask", "execute", "resume"} => Free(w.req)'
    BY <1>3, <1>5 DEF Free
  <2>2. WorkerOK'
    BY <1>1, <1>2, <1>5, <2>1 DEF WorkerOK, Free, Newest
  <2>3. ASSUME NEW a \in Approvers, approver'[a].pc \in {"read", "identified"}
        PROVE  approver'[a].call \in Calls /\ \E i \in Requests' : log'[i].call = approver'[a].call
    BY <1>1, <1>5, <2>3 DEF ToolInv, ApproverOK
  <2>4. ASSUME NEW a \in Approvers, approver'[a].pc = "claimed"
        PROVE  /\ worker'.pc = "off" /\ active' # None /\ Free(approver[a].req)'
               /\ \A b \in Approvers : approver'[b].pc = "claimed" => b = a
    <3>1. /\ worker.pc = "off" /\ active # None /\ Free(approver[a].req)
          /\ \A b \in Approvers : approver[b].pc = "claimed" => b = a
      BY <1>1, <2>4 DEF ToolInv, ApproverOK
    <3>2. PICK r : r = approver[a].req
      OBVIOUS
    <3>3. Free(r)' /\ r = approver'[a].req
      BY <1>1, <1>5, <3>1, <3>2 DEF Free
    <3> QED
      BY <1>1, <3>1, <3>3 DEF Free
  <2> QED
    BY <2>2, <2>3, <2>4 DEF ApproverOK
<1>6. CASE OperatorRequests
  <2>1. PICK v \in Guarded : log' = Append(log, Requested(Len(log) + 1, None, v))
    BY <1>6 DEF OperatorRequests, Append1
  <2>2. PICK n \in Nat : n = Len(log) + 1
    BY <1>1, LogFacts
  <2>3. PICK e : e = Requested(n, None, v)
    OBVIOUS
  <2>4. e.kind = "requested" /\ e.call = n /\ e.inv \in Invocations /\ log' = Append(log, e)
    BY <2>1, <2>2, <2>3 DEF Requested, Invocations
  <2>5. effects' = effects /\ operator' = [pc |-> "execute", req |-> n]
    BY <1>6, <2>2 DEF OperatorRequests
  <2>6. /\ LogOK' /\ EffectsOK' /\ PendingOK'
        /\ Requests' = Requests \cup {n} /\ log'[n] = e /\ ~Ran(n)'
        /\ \A i \in Requests : /\ log'[i] = log[i] /\ (Free(i) => Free(i)')
                               /\ Newest(i) /\ e.call # log[i].call => Newest(i)'
    BY <2>2, <2>4, <2>5, NewRequest
  <2>7. w.pc \in {"requested", "resolve", "ask"} => Newest(w.req)'
    <3>1. ASSUME w.pc \in {"requested", "resolve", "ask"} PROVE Newest(w.req)'
      <4>1. w.req \in Requests /\ log[w.req].call \in Calls /\ Newest(w.req)
        BY <1>3, <3>1 DEF Free
      <4>2. e.call # log[w.req].call
        BY <2>4, <4>1, ToolAssumption
      <4> QED
        BY <2>6, <4>1, <4>2
    <3> QED
      BY <3>1
  <2>8. WorkerOK' /\ ApproverOK'
    BY <1>5, <2>6, <2>7
  <2>9. ProcessOK'
    BY <1>4, <2>5 DEF OperatorStates
  <2>10. OperatorOK'
    BY <2>4, <2>5, <2>6 DEF OperatorOK, Ran
  <2> QED
    BY <2>6, <2>8, <2>9, <2>10 DEF ToolInv
<1>7. CASE OperatorExecutes
  <2>1. /\ operator.pc = "execute" /\ log' = log /\ operator' = [operator EXCEPT !.pc = "record"]
        /\ effects' = Append(effects, <<operator.req, log[operator.req].inv>>)
    BY <1>7 DEF OperatorExecutes
  <2>2. PICK r \in Requests : r = operator.req /\ log[r].call = r /\ ~Ran(r) /\ r \in Nat
    BY <1>1, <2>1 DEF ToolInv, OperatorOK
  <2>3. PICK v \in Invocations : v = log[r].inv
    BY <1>1 DEF LogOK
  <2>4. log[r].call \notin Calls
    BY <2>2, ToolAssumption
  <2>5. ~ApprovalPending(r)
    BY <2>4 DEF ToolInv, PendingOK
  <2>6. effects' = Append(effects, <<r, v>>)
    BY <2>1, <2>2, <2>3
  <2>7. /\ LogOK' /\ EffectsOK' /\ PendingOK' /\ Requests' = Requests
        /\ \A i \in Requests : (i # r /\ Free(i) => Free(i)') /\ (Newest(i) => Newest(i)')
    BY <2>1, <2>2, <2>5, <2>6, ExecutesOne
  <2>8. \A i \in Requests : Free(i) => Free(i)'
    BY <2>4, <2>7 DEF Free
  <2>9. w.pc \in {"requested", "resolve", "ask"} => Newest(w.req)'
    BY <1>3, <2>7 DEF Free
  <2>10. WorkerOK' /\ ApproverOK'
    BY <1>5, <2>1, <2>7, <2>8, <2>9
  <2>11. operator' \in OperatorStates /\ operator'.pc = "record" /\ operator'.req = r
    BY <1>1, <2>1, <2>2 DEF OperatorStates
  <2>12. OperatorOK'
    BY <2>1, <2>2, <2>7, <2>11 DEF OperatorOK
  <2> QED
    BY <1>4, <2>7, <2>10, <2>11, <2>12 DEF ToolInv
<1>8. CASE OperatorRecords \/ OperatorFault \/ OperatorGone
  <2>1. IsLog' /\ Quiet /\ NewDecisions
    <3>1. CASE OperatorRecords
      <4>1. PICK e : e = Finished(OperatorCall, None, "returned")
        OBVIOUS
      <4> QED
        BY <3>1, <4>1, OneEventQuiet DEF OperatorRecords, Append1, Finished
    <3>2. CASE OperatorFault \/ OperatorGone
      BY <3>2, SameLogQuiet DEF OperatorFault, OperatorGone
    <3> QED
      BY <1>8, <3>1, <3>2
  <2>2. LogOK' /\ EffectsOK' /\ PendingOK'
    BY <2>1, QuietParts
  <2>3. /\ Requests' = Requests /\ \A i \in Requests : log'[i] = log[i]
        /\ \A i \in Requests : /\ Ran(i)' <=> Ran(i)
                               /\ (Free(i) => Free(i)') /\ (Newest(i) => Newest(i)')
    BY <1>1, <2>1, QuietKeeps
  <2>4. w.pc \in {"requested", "resolve", "ask"} => Newest(w.req)'
    BY <1>3, <2>3 DEF Free
  <2>5. WorkerOK' /\ ApproverOK'
    BY <1>5, <2>3, <2>4
  <2>6. /\ operator' \in OperatorStates /\ operator'.pc \in {"idle", "recover"}
        /\ operator'.pc = "recover" => operator.pc # "idle" /\ operator'.req = operator.req
    BY <1>1, <1>8, InitialValues
       DEF OperatorRecords, OperatorFault, OperatorGone, OperatorStates, NoOperator
  <2>7. OperatorOK'
    BY <2>3, <2>6 DEF ToolInv, OperatorOK
  <2> QED
    BY <1>4, <2>2, <2>5, <2>6, <2>7 DEF ToolInv
<1> QED
  BY <1>6, <1>7, <1>8 DEF OperatorStep

LEMMA ToolInitOK ==
    ASSUME ToolInit
    PROVE  ToolInv
<1>1. LogOK /\ Requests = {}
  BY DEF ToolInit, LogOK, Requests
<1>2. ProcessOK
  BY InitialValues DEF ToolInit, ProcessOK, None
<1>3. EffectsOK /\ PendingOK
  BY <1>1 DEF ToolInit, EffectsOK, PendingOK, NeverReexecuted
<1>4. WorkerOK /\ ApproverOK /\ OperatorOK
  BY DEF ToolInit, WorkerOK, ApproverOK, OperatorOK, Idle, NoHandler, NoOperator
<1> QED
  BY <1>1, <1>2, <1>3, <1>4 DEF ToolInv

LEMMA ToolStep ==
    ASSUME ToolInv, [ToolNext]_vars
    PROVE  ToolInv'
<1>1. CASE SetAutoApproval \/ CancelSession \/ UNCHANGED vars
  BY <1>1, SwitchSteps
<1>2. CASE StartTurn \/ AnswerTool
  BY <1>2, StartSteps
<1>3. CASE WorkerStep
  BY <1>3, ModelSteps, RequestToolKeeps, ApprovalSteps, RequestApprovalKeeps, ExecuteKeeps, RunSteps
     DEF WorkerStep
<1>4. ASSUME NEW a \in Approvers,
             ApproveReads(a) \/ ApproveIdentifies(a) \/ ApproveClaims(a) \/ ApproveDetaches(a)
      PROVE  ToolInv'
  BY <1>4, ApproverSteps, ApproveClaimsKeeps, ApproveDetachesKeeps
<1>5. CASE OperatorStep
  BY <1>5, OperatorSteps
<1>6. CASE Panic \/ Watchdog
  BY <1>6, RunSteps
<1>7. CASE Restart
  BY <1>7, RestartKeeps
<1> QED
  BY <1>1, <1>2, <1>3, <1>4, <1>5, <1>6, <1>7 DEF ToolNext

(***************************************************************************)
(* No request is executed twice: not by a second approval of it, not by a  *)
(* resumed turn (bootstrap_resumed_approval_turn), not after a panic or a  *)
(* restart.                                                                *)
(***************************************************************************)
THEOREM ToolNeverReexecuted == ToolSpec => []NeverReexecuted
<1>1. ToolInit => ToolInv
  BY ToolInitOK
<1>2. ToolInv /\ [ToolNext]_vars => ToolInv'
  BY ToolStep
<1>3. ToolInv => NeverReexecuted
  BY DEF ToolInv, EffectsOK
<1> QED
  BY <1>1, <1>2, <1>3, PTL DEF ToolSpec

-----------------------------------------------------------------------------
(* What every step does to the log. *)

LEMMA AppendsKind ==
    ASSUME IsLog, NEW e, log' = Append(log, e), NEW K, e.kind \in K
    PROVE  IsLog' /\ Grows /\ NewKinds(K)
<1>1. IsLog' /\ Grows /\ Len(log') = Len(log) + 1 /\ log'[Len(log) + 1] = e
  BY AppendGrows
<1>2. Len(log) \in Nat /\ DOMAIN log' = 1..Len(log) + 1
  BY <1>1, LenProperties DEF IsLog
<1>3. \A j \in DOMAIN log' : j > Len(log) => j = Len(log) + 1
  BY <1>2
<1> QED
  BY <1>1, <1>3 DEF NewKinds

LEMMA ConcatKinds ==
    ASSUME IsLog, NEW T, NEW q \in Seq(T), log' = log \o q, NEW K,
           \A k \in 1..Len(q) : q[k].kind \in K
    PROVE  IsLog' /\ Grows /\ NewKinds(K)
<1>1. /\ IsLog' /\ Grows /\ Len(log') = Len(log) + Len(q)
      /\ \A k \in 1..Len(q) : log'[Len(log) + k] = q[k]
  BY ConcatGrows
<1>2. Len(log) \in Nat /\ Len(q) \in Nat /\ DOMAIN log' = 1..Len(log) + Len(q)
  BY <1>1, LenProperties DEF IsLog
<1>3. ASSUME NEW j \in DOMAIN log', j > Len(log) PROVE log'[j].kind \in K
  <2>1. PICK k : k = j - Len(log)
    OBVIOUS
  <2>2. k \in 1..Len(q) /\ j = Len(log) + k
    BY <1>2, <1>3, <2>1
  <2> QED
    BY <1>1, <2>2
<1> QED
  BY <1>1, <1>3 DEF NewKinds

LEMMA ClosingKinds ==
    ASSUME IsLog, NEW r, Closing(r), log' = log \o r
    PROVE  IsLog' /\ Grows /\ NewKinds({"finished", "turnFinished"})
<1>1. PICK T : T = {r[k] : k \in DOMAIN r}
  OBVIOUS
<1>2. r \in Seq(T) /\ \A k \in 1..Len(r) : r[k].kind \in {"finished", "turnFinished"}
  BY <1>1, LenProperties DEF Closing
<1> QED
  BY <1>2, ConcatKinds

LEMMA SameKinds ==
    ASSUME IsLog, log' = log, NEW K
    PROVE  IsLog' /\ Grows /\ NewKinds(K)
<1>1. Len(log) \in Nat /\ DOMAIN log = 1..Len(log)
  BY LenProperties DEF IsLog
<1> QED
  BY <1>1 DEF IsLog, Grows, NewKinds

LEMMA KindsWider ==
    ASSUME NEW K, NEW L, K \subseteq L, NewKinds(K)
    PROVE  NewKinds(L)
BY DEF NewKinds

(* A step that makes no request for a model's call, asks for no approval   *)
(* and takes no decision.                                                  *)
Calm ==
    /\ IsLog' /\ Grows /\ NewKinds({"started", "requested", "finished", "turnFinished"})
    /\ \A j \in DOMAIN log' : j > Len(log) /\ log'[j].kind = "requested" => log'[j].call \in Nat

LEMMA CalmKinds ==
    ASSUME IsLog', Grows, NewKinds({"started", "finished", "turnFinished"})
    PROVE  Calm
BY DEF Calm, NewKinds

LEMMA SameLogCalm ==
    ASSUME IsLog, log' = log
    PROVE  Calm
<1>1. IsLog' /\ Grows /\ NewKinds({"started", "finished", "turnFinished"})
  BY SameKinds
<1> QED
  BY <1>1, CalmKinds

LEMMA EndTurnCalm ==
    ASSUME IsLog, NEW s, NEW q, Results0(q), EndTurn(s, q)
    PROVE  Calm
<1>1. PICK r : Closing(r) /\ log' = log \o r
  BY EndTurnLog
<1>2. IsLog' /\ Grows /\ NewKinds({"finished", "turnFinished"})
  BY <1>1, ClosingKinds
<1>3. NewKinds({"started", "finished", "turnFinished"})
  BY <1>2, KindsWider
<1> QED
  BY <1>2, <1>3, CalmKinds

LEMMA AppendCalm ==
    ASSUME IsLog, NEW e, log' = Append(log, e), e.kind \in {"started", "finished", "turnFinished"}
    PROVE  Calm
<1>1. IsLog' /\ Grows /\ NewKinds({"started", "finished", "turnFinished"})
  BY AppendsKind
<1> QED
  BY <1>1, CalmKinds

LEMMA AnswerCalm ==
    ASSUME IsLog, AnswerTool
    PROVE  Calm
<1>1. PICK e, f : log' = log \o <<e, f>> /\ e.kind = "started" /\ f.kind = "finished"
  <2>1. PICK t, c : log' = log \o <<Started(t, Current(c)), Finished(c, t, "returned")>>
    BY Zenon DEF AnswerTool
  <2>2. Started(t, Current(c)).kind = "started" /\ Finished(c, t, "returned").kind = "finished"
    BY DEF Started, Finished
  <2> QED
    BY <2>1, <2>2, Zenon
<1>2. PICK q : q = <<e, f>>
  OBVIOUS
<1>3. q \in Seq({e, f}) /\ Len(q) = 2 /\ q[1] = e /\ q[2] = f
  BY <1>2
<1>4. \A k \in 1..Len(q) : q[k].kind \in {"started", "finished", "turnFinished"}
  BY <1>1, <1>3
<1>5. log' = log \o q
  BY <1>1, <1>2
<1>6. IsLog' /\ Grows /\ NewKinds({"started", "finished", "turnFinished"})
  BY <1>3, <1>4, <1>5, ConcatKinds
<1> QED
  BY <1>6, CalmKinds

LEMMA RestartCalm ==
    ASSUME IsLog, LogOK, Restart
    PROVE  Calm
<1>1. PICK r : Closing(r) /\ log' = log \o r
  BY RecoveryClosing DEF Restart
<1>2. IsLog' /\ Grows /\ NewKinds({"finished", "turnFinished"})
  BY <1>1, ClosingKinds
<1>3. NewKinds({"started", "finished", "turnFinished"})
  BY <1>2, KindsWider
<1> QED
  BY <1>2, <1>3, CalmKinds

LEMMA OperatorCalm ==
    ASSUME IsLog, LogOK, OperatorStep
    PROVE  Calm
<1>1. CASE OperatorRequests
  <2>1. PICK v : log' = Append(log, Requested(Len(log) + 1, None, v))
    BY <1>1 DEF OperatorRequests, Append1
  <2>2. PICK e : e = Requested(Len(log) + 1, None, v)
    OBVIOUS
  <2>3. e.kind = "requested" /\ e.call = Len(log) + 1 /\ log' = Append(log, e) /\ e.call \in Nat
    BY <2>1, <2>2, LogFacts DEF Requested
  <2>4. IsLog' /\ Grows /\ NewKinds({"requested"})
    BY <2>3, AppendsKind
  <2>5. \A j \in DOMAIN log' : j > Len(log) => log'[j] = e
    <3>1. Len(log') = Len(log) + 1 /\ log'[Len(log) + 1] = e /\ Len(log) \in Nat
      BY <2>3, AppendGrows, LogFacts
    <3>2. DOMAIN log' = 1..Len(log) + 1
      BY <2>4, <3>1, LenProperties DEF IsLog
    <3> QED
      BY <3>1, <3>2
  <2> QED
    BY <2>3, <2>4, <2>5 DEF Calm, NewKinds
<1>2. CASE OperatorRecords
  BY <1>2, AppendCalm DEF OperatorRecords, Append1, Finished
<1>3. CASE OperatorExecutes \/ OperatorFault \/ OperatorGone
  BY <1>3, SameLogCalm DEF OperatorExecutes, OperatorFault, OperatorGone
<1> QED
  BY <1>1, <1>2, <1>3 DEF OperatorStep

(* The steps of a worker that are not calm. *)
Commits ==
    \/ RecordApproval \/ RequestApproval
    \/ RequestTool /\ ~EndTurn("cancelled", <<>>)

LEMMA WorkerCalm ==
    ASSUME IsLog, WorkerStep \/ Watchdog \/ Panic
    PROVE  Calm \/ Commits
<1>1. Results0(<<>>) /\ \A c, t, x : Results0(<<Finished(c, t, x)>>)
  BY DEF Results0
<1>2. CASE \E s : EndTurn(s, <<>>)
  BY <1>1, <1>2, EndTurnCalm
<1>3. CASE ModelAnswers \/ ModelFails \/ PauseForApproval \/ FailTurn \/ Watchdog
  BY <1>2, <1>3 DEF ModelAnswers, ModelFails, PauseForApproval, FailTurn, Watchdog
<1>4. CASE TerminalFault \/ ResumeFault
  <2>1. PICK c, t, x : EndTurn("failed", <<Finished(c, t, x)>>)
    BY <1>4 DEF TerminalFault, ResumeFault
  <2> QED
    BY <1>1, <2>1, EndTurnCalm
<1>5. CASE RecordTerminal
  BY <1>5, AppendCalm DEF RecordTerminal, Append1, Finished
<1>6. CASE log' = log
  BY <1>6, SameLogCalm
<1>7. CASE Decide \/ ResumeCheck
  BY <1>2, <1>6, <1>7 DEF Decide, ResumeCheck
<1>8. CASE ModelCalls \/ NextCompletion \/ ApprovalFault \/ Execute \/ ToolReturns
           \/ ConsumeControls \/ ResumeTool \/ Panic
  BY <1>6, <1>8 DEF ModelCalls, NextCompletion, ApprovalFault, Execute, ToolReturns,
     ConsumeControls, ResumeTool, Panic
<1>9. CASE RecordApproval \/ RequestApproval \/ RequestTool
  BY <1>2, <1>9 DEF Commits
<1> QED
  BY <1>3, <1>4, <1>5, <1>7, <1>8, <1>9 DEF WorkerStep

(* A decision enters the log in RecordApproval and in ApproveClaims only.  *)
Undecided == {"started", "requested", "approval", "finished", "turnFinished"}

LEMMA LogSteps ==
    ASSUME IsLog, LogOK, ToolNext,
           ~RecordApproval, \A a \in Approvers : ~ApproveClaims(a)
    PROVE  IsLog' /\ Grows /\ NewKinds(Undecided)
<1>1. CASE Calm
  BY <1>1 DEF Calm, NewKinds, Undecided
<1>2. CASE log' = log
  BY <1>1, <1>2, SameLogCalm
<1>3. CASE Commits
  BY <1>3, AppendsKind
     DEF Commits, RequestApproval, RequestTool, Append1, Approval, Requested, Undecided
<1>4. CASE StartTurn
  BY <1>1, <1>4, AppendCalm DEF StartTurn, Append1, Started
<1>5. CASE AnswerTool \/ Restart \/ OperatorStep
  BY <1>1, <1>5, AnswerCalm, RestartCalm, OperatorCalm
<1>6. CASE WorkerStep \/ Watchdog \/ Panic
  BY <1>1, <1>3, <1>6, WorkerCalm
<1>7. CASE SetAutoApproval \/ CancelSession
  BY <1>2, <1>7 DEF SetAutoApproval, CancelSession
<1>8. CASE \E a \in Approvers : ApproveReads(a) \/ ApproveIdentifies(a) \/ ApproveDetaches(a)
  BY <1>2, <1>8 DEF ApproveReads, ApproveIdentifies, ApproveDetaches
<1> QED
  BY <1>4, <1>5, <1>6, <1>7, <1>8 DEF ToolNext

-----------------------------------------------------------------------------
(* The decisions that a restart reads back. *)

(* What approver a, that has claimed, is about to seed. *)
Seeded(a, v, scope, known) ==
    IF approver[a].inv = v /\ approver[a].decision.scope = scope
    THEN approver[a].decision ELSE known

(* GrantsAgree says nothing while a resume is between its claim and its    *)
(* seeding: then the log is ahead by the decision it is about to seed.     *)
GrantsOK ==
    /\ GrantsAgree
    /\ \A a \in Approvers : approver[a].pc = "claimed" =>
          \A v \in Guarded :
              /\ Rehydrated(v, "session") \in {NoDecision, Seeded(a, v, "session", perSession[v])}
              /\ Rehydrated(v, "always") \in {NoDecision, Seeded(a, v, "always", global[v])}

LEMMA RehydratedSame ==
    ASSUME IsLog, IsLog', Grows, NewKinds(Undecided), NEW v, NEW scope
    PROVE  Rehydrated(v, scope)' = Rehydrated(v, scope)
<1>1. /\ Len(log) \in Nat /\ DOMAIN log = 1..Len(log)
      /\ Len(log') \in Nat /\ DOMAIN log' = 1..Len(log')
  BY LenProperties DEF IsLog
<1>2. PICK J : J = {j \in DOMAIN log : /\ log[j].kind = "resolved" /\ log[j].inv = v
                                       /\ log[j].decision.scope = scope}
  OBVIOUS
<1>3. J = {j \in DOMAIN log' : /\ log'[j].kind = "resolved" /\ log'[j].inv = v
                               /\ log'[j].decision.scope = scope}
  BY <1>1, <1>2 DEF Grows, NewKinds, Undecided
<1>4. /\ Rehydrated(v, scope) = IF J = {} THEN NoDecision ELSE log[Max(J)].decision
      /\ Rehydrated(v, scope)' = IF J = {} THEN NoDecision ELSE log'[Max(J)].decision
  BY <1>2, <1>3 DEF Rehydrated
<1>5. J # {} => Max(J) \in DOMAIN log
  BY <1>1, <1>2, LastOf
<1> QED
  BY <1>4, <1>5 DEF Grows

LEMMA RehydratedNext ==
    ASSUME IsLog, IsLog', Grows, NEW n \in DOMAIN log', n > Len(log), log'[n].kind = "resolved",
           \A j \in DOMAIN log' : j > Len(log) /\ log'[j].kind = "resolved" => j = n,
           NEW v, NEW scope
    PROVE  Rehydrated(v, scope)' =
               IF log'[n].inv = v /\ log'[n].decision.scope = scope
               THEN log'[n].decision ELSE Rehydrated(v, scope)
<1>1. /\ Len(log) \in Nat /\ DOMAIN log = 1..Len(log)
      /\ Len(log') \in Nat /\ DOMAIN log' = 1..Len(log')
      /\ \A i \in DOMAIN log : i \in DOMAIN log' /\ log'[i] = log[i] /\ i < n
  BY LenProperties DEF IsLog, Grows
<1>2. PICK J, K : /\ J = {j \in DOMAIN log : /\ log[j].kind = "resolved" /\ log[j].inv = v
                                             /\ log[j].decision.scope = scope}
                  /\ K = {j \in DOMAIN log' : /\ log'[j].kind = "resolved" /\ log'[j].inv = v
                                              /\ log'[j].decision.scope = scope}
  OBVIOUS
<1>3. /\ Rehydrated(v, scope) = IF J = {} THEN NoDecision ELSE log[Max(J)].decision
      /\ Rehydrated(v, scope)' = IF K = {} THEN NoDecision ELSE log'[Max(K)].decision
  BY <1>2 DEF Rehydrated
<1>4. \A j \in DOMAIN log' : j \in DOMAIN log \/ j > Len(log)
  BY <1>1
<1>5. CASE log'[n].inv = v /\ log'[n].decision.scope = scope
  <2>1. n \in K /\ \A j \in K : j <= n
    BY <1>1, <1>2, <1>4, <1>5
  <2>2. Max(K) \in K /\ n <= Max(K)
    BY <1>1, <1>2, <2>1, LastOf
  <2>3. Max(K) = n
    BY <1>1, <1>2, <2>1, <2>2
  <2> QED
    BY <1>3, <1>5, <2>1, <2>3
<1>6. CASE ~(log'[n].inv = v /\ log'[n].decision.scope = scope)
  <2>1. \A j \in K : j \in DOMAIN log
    BY <1>2, <1>4, <1>6
  <2>2. K = J
    BY <1>1, <1>2, <2>1
  <2>3. J # {} => Max(J) \in DOMAIN log
    BY <1>1, <1>2, LastOf
  <2>4. J # {} => log'[Max(J)] = log[Max(J)]
    BY <1>1, <2>3
  <2> QED
    BY <1>3, <1>6, <2>2, <2>4
<1> QED
  BY <1>5, <1>6

LEMMA GrantsKept ==
    ASSUME GrantsOK, IsLog, IsLog', Grows, NewKinds(Undecided), UNCHANGED <<perSession, global>>,
           \A a \in Approvers : \/ approver'[a] = approver[a]
                                \/ approver[a].pc # "claimed" /\ approver'[a].pc # "claimed"
    PROVE  GrantsOK'
<1>1. \A v \in Guarded : /\ Rehydrated(v, "session")' = Rehydrated(v, "session")
                         /\ Rehydrated(v, "always")' = Rehydrated(v, "always")
  BY RehydratedSame
<1>2. GrantsAgree'
  BY <1>1 DEF GrantsOK, GrantsAgree
<1>3. ASSUME NEW a \in Approvers, approver'[a].pc = "claimed", NEW v \in Guarded
      PROVE  /\ Rehydrated(v, "session")' \in {NoDecision, Seeded(a, v, "session", perSession[v])'}
             /\ Rehydrated(v, "always")' \in {NoDecision, Seeded(a, v, "always", global[v])'}
  <2>1. approver'[a] = approver[a] /\ approver[a].pc = "claimed"
    BY <1>3
  <2>2. /\ Rehydrated(v, "session") \in {NoDecision, Seeded(a, v, "session", perSession[v])}
        /\ Rehydrated(v, "always") \in {NoDecision, Seeded(a, v, "always", global[v])}
    BY <2>1 DEF GrantsOK
  <2>3. /\ Seeded(a, v, "session", perSession[v])' = Seeded(a, v, "session", perSession[v])
        /\ Seeded(a, v, "always", global[v])' = Seeded(a, v, "always", global[v])
    BY <2>1 DEF Seeded
  <2> QED
    BY <1>1, <2>2, <2>3
<1> QED
  BY <1>2, <1>3 DEF GrantsOK

LEMMA ReuseSeeds ==
    ASSUME GrantsTyped, NEW v, NEW d, Reuse(v, d), NEW u \in Guarded
    PROVE  /\ perSession'[u] = IF v = u /\ d.scope = "session" THEN d ELSE perSession[u]
           /\ global'[u] = IF v = u /\ d.scope = "always" THEN d ELSE global[u]
BY DEF GrantsTyped, Reuse

LEMMA GrantsStep ==
    ASSUME ToolInv, GrantsOK, ToolNext
    PROVE  GrantsOK'
<1>1. IsLog /\ LogOK /\ GrantsTyped /\ worker \in WorkerStates
  BY DEF ToolInv, LogOK, IsLog, ProcessOK, GrantsTyped
<1>2. approver \in [Approvers -> HandlerStates]
  BY DEF ToolInv, ProcessOK
<1>3. ASSUME UNCHANGED <<perSession, global>>,
             \A a \in Approvers : \/ approver'[a] = approver[a]
                                  \/ approver[a].pc # "claimed" /\ approver'[a].pc # "claimed",
             ~RecordApproval, \A a \in Approvers : ~ApproveClaims(a)
      PROVE  GrantsOK'
  BY <1>1, <1>3, LogSteps, GrantsKept
<1>4. ASSUME worker.pc # "off" PROVE \A a \in Approvers : approver[a].pc # "claimed"
  BY <1>4 DEF ToolInv, ApproverOK
<1>5. ASSUME \A a \in Approvers : approver'[a].pc # "claimed",
             \A v \in Guarded : /\ Rehydrated(v, "session")' \in {NoDecision, perSession'[v]}
                                /\ Rehydrated(v, "always")' \in {NoDecision, global'[v]}
      PROVE  GrantsOK'
  BY <1>5 DEF GrantsOK, GrantsAgree
<1>6. ASSUME log' = log, NEW v, NEW scope
      PROVE  Rehydrated(v, scope)' = Rehydrated(v, scope)
  BY <1>6 DEF Rehydrated
<1>7. CASE RecordApproval
  <2>1. PICK e, w, d : /\ e = Resolved(Call, active, Inv, worker.decision)
                       /\ w = Inv /\ d = worker.decision
    OBVIOUS
  <2>2. e.kind = "resolved" /\ e.inv = w /\ e.decision = d /\ log' = Append(log, e) /\ Reuse(w, d)
    BY <1>7, <2>1 DEF RecordApproval, Append1, Resolved
  <2>3. IsLog' /\ Grows /\ Len(log') = Len(log) + 1 /\ log'[Len(log) + 1] = e
    BY <1>1, <2>2, AppendGrows
  <2>4. PICK n : n = Len(log) + 1
    OBVIOUS
  <2>5. n \in DOMAIN log' /\ n > Len(log) /\ \A j \in DOMAIN log' : j > Len(log) => j = n
    BY <1>1, <2>3, <2>4, LenProperties DEF IsLog
  <2>6. \A v \in Guarded : \A scope :
           Rehydrated(v, scope)' = IF w = v /\ d.scope = scope THEN d ELSE Rehydrated(v, scope)
    <3> SUFFICES ASSUME NEW v \in Guarded, NEW scope
                 PROVE  Rehydrated(v, scope)' =
                           IF w = v /\ d.scope = scope THEN d ELSE Rehydrated(v, scope)
      OBVIOUS
    <3>1. log'[n] = e /\ log'[n].kind = "resolved" /\ log'[n].inv = w /\ log'[n].decision = d
      BY <2>2, <2>3, <2>4
    <3>2. Rehydrated(v, scope)' = IF log'[n].inv = v /\ log'[n].decision.scope = scope
                                  THEN log'[n].decision ELSE Rehydrated(v, scope)
      BY <1>1, <2>3, <2>5, <3>1, RehydratedNext
    <3> QED
      BY <3>1, <3>2
  <2>7. \A u \in Guarded :
           /\ perSession'[u] = IF w = u /\ d.scope = "session" THEN d ELSE perSession[u]
           /\ global'[u] = IF w = u /\ d.scope = "always" THEN d ELSE global[u]
    BY <1>1, <2>2, ReuseSeeds
  <2>8. \A a \in Approvers : approver[a].pc # "claimed" /\ approver'[a].pc # "claimed"
    BY <1>4, <1>7 DEF RecordApproval, handlers
  <2>9. \A v \in Guarded : /\ Rehydrated(v, "session") \in {NoDecision, perSession[v]}
                           /\ Rehydrated(v, "always") \in {NoDecision, global[v]}
    BY <2>8 DEF GrantsOK, GrantsAgree
  <2> QED
    BY <1>5, <2>6, <2>7, <2>8, <2>9
<1>8. CASE Decide
  <2>1. \A a \in Approvers : approver[a].pc # "claimed" /\ approver'[a] = approver[a]
    BY <1>4, <1>8 DEF Decide, EndTurn, handlers
  <2>2. \A v \in Guarded : /\ Rehydrated(v, "session") \in {NoDecision, perSession[v]}
                           /\ Rehydrated(v, "always") \in {NoDecision, global[v]}
    BY <2>1 DEF GrantsOK, GrantsAgree
  <2>3. CASE UNCHANGED <<perSession, global>>
    <3>1. ~RecordApproval
      BY <1>8 DEF Decide, RecordApproval
    <3>2. \A a \in Approvers : ~ApproveClaims(a)
      <4>1. worker'.pc # "requested" /\ worker.pc = "requested"
        <5>1. worker.pc = "requested" /\ Idle.pc = "off"
          BY <1>8 DEF Decide, Idle
        <5>2. \/ worker' = [worker EXCEPT !.pc = "terminal", !.result = "cancelled"]
              \/ worker' = [Idle EXCEPT !.pc = "controls"] \/ worker' = Idle
              \/ worker' = [worker EXCEPT !.pc = "execute"]
              \/ \E x \in {"ask", "resolve"} : \E d : worker' = [worker EXCEPT !.pc = x, !.decision = d]
          BY <1>8 DEF Decide, EndTurn, Go
        <5> QED
          BY <1>1, <5>1, <5>2 DEF WorkerStates, Idle
      <4> QED
        BY <4>1 DEF ApproveClaims
    <3> QED
      BY <1>3, <2>1, <2>3, <3>1, <3>2
  <2>4. ASSUME NEW w \in Guarded, NEW d, Known(w) = NoDecision, Reuse(w, d), log' = log
        PROVE  GrantsOK'
    <3>1. perSession[w] = NoDecision /\ global[w] = NoDecision
      BY <2>4 DEF Known
    <3>2. \A u \in Guarded : u # w => perSession'[u] = perSession[u] /\ global'[u] = global[u]
      BY <1>1, <2>4, ReuseSeeds
    <3>3. \A v \in Guarded : /\ Rehydrated(v, "session")' \in {NoDecision, perSession'[v]}
                             /\ Rehydrated(v, "always")' \in {NoDecision, global'[v]}
      BY <1>6, <2>2, <2>4, <3>1, <3>2
    <3> QED
      BY <1>5, <2>1, <3>3
  <2>5. ASSUME Evaluate(Call, Inv, worker.req), Inv \in Guarded, log' = log
        PROVE  GrantsOK'
    <3>1. \/ UNCHANGED <<perSession, global>>
          \/ Known(Inv) = NoDecision /\ Reuse(Inv, Evaluated(Call, Inv, worker.req))
      BY <2>5 DEF Evaluate, grants
    <3>2. PICK w, d : w = Inv /\ d = Evaluated(Call, Inv, worker.req)
      OBVIOUS
    <3>3. UNCHANGED <<perSession, global>> \/ (Known(w) = NoDecision /\ Reuse(w, d))
      BY <3>1, <3>2
    <3> QED
      BY <2>3, <2>4, <2>5, <3>2, <3>3
  <2> QED
    BY <1>8, <2>3, <2>5 DEF Decide, EndTurn, grants
<1>9. ASSUME NEW a \in Approvers, ApproveDetaches(a) PROVE GrantsOK'
  <2>1. PICK h : h = approver[a]
    OBVIOUS
  <2>2. /\ h.pc = "claimed" /\ log' = log /\ Reuse(h.inv, h.decision)
        /\ approver' = [approver EXCEPT ![a] = NoHandler]
    BY <1>9, <2>1 DEF ApproveDetaches, Handler
  <2>3. \A b \in Approvers : approver'[b].pc # "claimed"
    <3>1. \A b \in Approvers : approver[b].pc = "claimed" => b = a
      BY <2>1, <2>2 DEF ToolInv, ApproverOK
    <3> QED
      BY <1>2, <2>2, <3>1 DEF NoHandler
  <2>4. \A v \in Guarded :
           /\ Rehydrated(v, "session") \in {NoDecision, Seeded(a, v, "session", perSession[v])}
           /\ Rehydrated(v, "always") \in {NoDecision, Seeded(a, v, "always", global[v])}
    BY <2>1, <2>2 DEF GrantsOK
  <2>5. \A v \in Guarded : /\ perSession'[v] = Seeded(a, v, "session", perSession[v])
                           /\ global'[v] = Seeded(a, v, "always", global[v])
    BY <1>1, <2>1, <2>2, ReuseSeeds DEF Seeded
  <2> QED
    BY <1>5, <1>6, <2>2, <2>3, <2>4, <2>5
<1>10. ASSUME NEW a \in Approvers, ApproveClaims(a) PROVE GrantsOK'
  <2>1. PICK h : h = approver[a]
    OBVIOUS
  <2>2. h.pc = "identified" /\ h \in HandlerStates
    BY <1>2, <1>10, <2>1 DEF ApproveClaims
  <2>3. CASE approver' = [approver EXCEPT ![a] = NoHandler] /\ log' = log
    <3>1. UNCHANGED <<perSession, global>>
      BY <1>10 DEF ApproveClaims, grants
    <3>2. \A b \in Approvers : \/ approver'[b] = approver[b]
                               \/ approver[b].pc # "claimed" /\ approver'[b].pc # "claimed"
      BY <1>2, <2>1, <2>2, <2>3 DEF NoHandler
    <3>3. IsLog' /\ Grows /\ NewKinds(Undecided)
      BY <1>1, <2>3, SameKinds
    <3> QED
      BY <1>1, <3>1, <3>2, <3>3, GrantsKept
  <2>4. CASE ~(approver' = [approver EXCEPT ![a] = NoHandler] /\ log' = log)
    <3>1. PICK t, d :
             /\ d = [h.decision EXCEPT !.for = h.req] /\ active = None
             /\ log' = log \o <<Started(t, h.req), Resolved(h.call, t, h.inv, d)>>
             /\ approver' = [approver EXCEPT ![a] = [h EXCEPT !.pc = "claimed", !.turn = t, !.decision = d]]
             /\ UNCHANGED <<perSession, global>>
      BY <1>10, <2>1, <2>4 DEF ApproveClaims, MayResume, Handler, grants
    <3>2. PICK e, f, q : /\ e = Started(t, h.req) /\ f = Resolved(h.call, t, h.inv, d)
                         /\ q = <<e, f>>
      OBVIOUS
    <3>3. e.kind = "started" /\ f.kind = "resolved" /\ f.inv = h.inv /\ f.decision = d
      BY <3>2 DEF Started, Resolved
    <3>4. q \in Seq({e, f}) /\ Len(q) = 2 /\ q[1] = e /\ q[2] = f /\ log' = log \o q
      BY <3>1, <3>2
    <3>5. /\ IsLog' /\ Grows /\ Len(log') = Len(log) + 2
          /\ log'[Len(log) + 1] = e /\ log'[Len(log) + 2] = f
      <4>1. /\ IsLog' /\ Grows /\ Len(log') = Len(log) + Len(q)
            /\ \A k \in 1..Len(q) : log'[Len(log) + k] = q[k]
        BY <1>1, <3>4, ConcatGrows
      <4>2. 1 \in 1..Len(q) /\ 2 \in 1..Len(q)
        BY <3>4
      <4> QED
        BY <3>4, <4>1, <4>2
    <3>6. PICK n : n = Len(log) + 2
      OBVIOUS
    <3>7. /\ n \in DOMAIN log' /\ n > Len(log) /\ log'[n] = f
          /\ \A j \in DOMAIN log' : j > Len(log) /\ log'[j].kind = "resolved" => j = n
      <4>1. Len(log) \in Nat /\ DOMAIN log' = 1..Len(log) + 2
        BY <1>1, <3>5, LenProperties DEF IsLog
      <4>2. \A j \in DOMAIN log' : j > Len(log) => j = Len(log) + 1 \/ j = n
        BY <3>6, <4>1
      <4> QED
        BY <3>3, <3>5, <3>6, <4>1, <4>2
    <3>8. \A v \in Guarded : \A scope :
             Rehydrated(v, scope)' = IF h.inv = v /\ d.scope = scope THEN d ELSE Rehydrated(v, scope)
      <4> SUFFICES ASSUME NEW v \in Guarded, NEW scope
                   PROVE  Rehydrated(v, scope)' =
                             IF h.inv = v /\ d.scope = scope THEN d ELSE Rehydrated(v, scope)
        OBVIOUS
      <4>1. log'[n].kind = "resolved" /\ log'[n].inv = h.inv /\ log'[n].decision = d
        BY <3>3, <3>7
      <4>2. Rehydrated(v, scope)' = IF log'[n].inv = v /\ log'[n].decision.scope = scope
                                    THEN log'[n].decision ELSE Rehydrated(v, scope)
        BY <1>1, <3>5, <3>7, <4>1, RehydratedNext
      <4> QED
        BY <4>1, <4>2
    <3>9. \A b \in Approvers : approver[b].pc # "claimed"
      BY <3>1 DEF ToolInv, ApproverOK
    <3>10. \A v \in Guarded : /\ Rehydrated(v, "session") \in {NoDecision, perSession[v]}
                              /\ Rehydrated(v, "always") \in {NoDecision, global[v]}
      BY <3>9 DEF GrantsOK, GrantsAgree
    <3>11. PICK g : g = [h EXCEPT !.pc = "claimed", !.turn = t, !.decision = d]
      OBVIOUS
    <3>12. g.pc = "claimed" /\ g.inv = h.inv /\ g.decision = d
      BY <2>2, <3>11 DEF HandlerStates
    <3>13. \A b \in Approvers : approver'[b] = IF b = a THEN g ELSE approver[b]
      BY <1>2, <3>1, <3>11
    <3>14. GrantsAgree'
      BY <3>12, <3>13 DEF GrantsAgree
    <3>15. ASSUME NEW b \in Approvers, approver'[b].pc = "claimed", NEW v \in Guarded
           PROVE  /\ Rehydrated(v, "session")' \in {NoDecision, Seeded(b, v, "session", perSession[v])'}
                  /\ Rehydrated(v, "always")' \in {NoDecision, Seeded(b, v, "always", global[v])'}
      <4>1. approver'[b] = g
        BY <3>9, <3>13, <3>15
      <4>2. /\ Seeded(b, v, "session", perSession[v])' =
                  IF h.inv = v /\ d.scope = "session" THEN d ELSE perSession[v]
            /\ Seeded(b, v, "always", global[v])' =
                  IF h.inv = v /\ d.scope = "always" THEN d ELSE global[v]
        BY <3>1, <3>12, <4>1 DEF Seeded
      <4> QED
        BY <3>8, <3>10, <4>2
    <3> QED
      BY <3>14, <3>15 DEF GrantsOK
  <2> QED
    BY <2>3, <2>4
<1>11. CASE Restart
  <2>1. PICK r : Closing(r) /\ log' = log \o r
    BY <1>1, <1>11, RecoveryClosing DEF Restart
  <2>2. IsLog' /\ Grows /\ NewKinds(Undecided)
    BY <1>1, <2>1, ClosingKinds, KindsWider DEF Undecided
  <2>3. \A v \in Guarded : /\ Rehydrated(v, "session")' = Rehydrated(v, "session")
                           /\ Rehydrated(v, "always")' = Rehydrated(v, "always")
    BY <1>1, <2>2, RehydratedSame
  <2>4. \A v \in Guarded : /\ perSession'[v] = Rehydrated(v, "session")
                           /\ global'[v] = Rehydrated(v, "always")
    BY <1>11 DEF Restart
  <2>5. \A a \in Approvers : approver'[a].pc # "claimed"
    BY <1>11 DEF Restart, NoHandler
  <2> QED
    BY <1>5, <2>3, <2>4, <2>5
<1>12. CASE /\ UNCHANGED <<perSession, global>>
            /\ \A a \in Approvers : \/ approver'[a] = approver[a]
                                    \/ approver[a].pc # "claimed" /\ approver'[a].pc # "claimed"
  BY <1>3, <1>7, <1>10, <1>12
<1>13. ASSUME NEW a \in Approvers, ApproveReads(a) \/ ApproveIdentifies(a) PROVE GrantsOK'
  <2>1. PICK h : /\ approver' = [approver EXCEPT ![a] = h] /\ h.pc # "claimed"
                 /\ approver[a].pc # "claimed"
    <3>2. CASE ApproveReads(a)
      <4>1. PICK c, d : approver' = [approver EXCEPT ![a] =
                     [NoHandler EXCEPT !.pc = "read", !.call = c, !.inv = log[Current(c)].inv,
                                       !.decision = d]]
        BY <3>2, Zenon DEF ApproveReads, Handler
      <4>2. approver[a].pc = "idle"
        BY <3>2 DEF ApproveReads
      <4>3. PICK h : h = [NoHandler EXCEPT !.pc = "read", !.call = c, !.inv = log[Current(c)].inv,
                                           !.decision = d]
        OBVIOUS
      <4>4. h.pc = "read"
        BY <4>3 DEF NoHandler
      <4> QED
        BY <4>1, <4>2, <4>3, <4>4
    <3>3. CASE ApproveIdentifies(a)
      <4>1. \/ approver' = [approver EXCEPT ![a] = NoHandler]
            \/ \E i : approver' = [approver EXCEPT ![a] = [approver[a] EXCEPT !.pc = "identified", !.req = i]]
        BY <3>3 DEF ApproveIdentifies, Handler
      <4>2. approver[a].pc = "read" /\ approver[a] \in HandlerStates
        BY <1>2, <3>3 DEF ApproveIdentifies
      <4>3. PICK h : /\ approver' = [approver EXCEPT ![a] = h]
                     /\ \/ h = NoHandler
                        \/ \E i : h = [approver[a] EXCEPT !.pc = "identified", !.req = i]
        BY <4>1, Zenon
      <4>4. h.pc # "claimed"
        <5>1. PICK g \in HandlerStates : g = approver[a]
          BY <4>2
        <5>2. h = NoHandler \/ \E i : h = [g EXCEPT !.pc = "identified", !.req = i]
          BY <4>3, <5>1
        <5>3. NoHandler.pc = "idle" /\ \A i : [g EXCEPT !.pc = "identified", !.req = i].pc = "identified"
          BY DEF NoHandler, HandlerStates
        <5> QED
          BY <5>2, <5>3
      <4> QED
        BY <4>2, <4>3, <4>4
    <3> QED
      BY <1>13, <3>2, <3>3
  <2>2. \A b \in Approvers : \/ approver'[b] = approver[b]
                             \/ approver[b].pc # "claimed" /\ approver'[b].pc # "claimed"
    BY <1>2, <2>1
  <2> QED
    BY <1>12, <1>13, <2>2 DEF ApproveReads, ApproveIdentifies, grants
<1>14. CASE WorkerStep /\ ~RecordApproval /\ ~Decide
  BY <1>12, <1>14, ZenonT(60)
     DEF WorkerStep, ModelCalls, ModelAnswers, ModelFails, RequestTool, NextCompletion,
         RequestApproval, PauseForApproval, ApprovalFault, Execute, ToolReturns, RecordTerminal,
         TerminalFault, FailTurn, ConsumeControls, ResumeTool, ResumeFault, ResumeCheck, EndTurn,
         handlers, grants
<1>15. CASE \/ StartTurn \/ AnswerTool \/ OperatorStep \/ SetAutoApproval \/ CancelSession
            \/ Panic \/ Watchdog
  BY <1>12, <1>15
     DEF StartTurn, AnswerTool, OperatorStep, OperatorRequests, OperatorExecutes, OperatorRecords,
         OperatorFault, OperatorGone, SetAutoApproval, CancelSession, Panic, Watchdog, EndTurn,
         handlers, grants
<1> QED
  BY <1>7, <1>8, <1>9, <1>10, <1>11, <1>13, <1>14, <1>15 DEF ToolNext

(***************************************************************************)
(* What a restart would read from the log (load_reusable_approvals) is     *)
(* what this process decides by, but between a resume's claim and its      *)
(* seeding.                                                                *)
(***************************************************************************)
THEOREM ToolGrantsAgree == ToolSpec => []GrantsAgree
<1>1. ToolInit => ToolInv /\ GrantsOK
  <2>1. ASSUME ToolInit PROVE GrantsOK
    <3>1. \A v, s : Rehydrated(v, s) = NoDecision
      BY <2>1 DEF ToolInit, Rehydrated
    <3> QED
      BY <2>1, <3>1 DEF ToolInit, GrantsOK, GrantsAgree, NoHandler
  <2> QED
    BY <2>1, ToolInitOK
<1>2. ToolInv /\ GrantsOK /\ [ToolNext]_vars => ToolInv' /\ GrantsOK'
  <2>1. ASSUME GrantsOK, UNCHANGED vars PROVE GrantsOK'
    <3>1. UNCHANGED <<log, approver, perSession, global>>
      BY <2>1 DEF vars
    <3>2. \A v, s : Rehydrated(v, s)' = Rehydrated(v, s)
      BY <3>1 DEF Rehydrated
    <3>3. \A a, v, s : /\ Seeded(a, v, s, perSession[v])' = Seeded(a, v, s, perSession[v])
                       /\ Seeded(a, v, s, global[v])' = Seeded(a, v, s, global[v])
      BY <3>1 DEF Seeded
    <3> QED
      BY <2>1, <3>1, <3>2, <3>3 DEF GrantsOK, GrantsAgree
  <2> QED
    BY <2>1, ToolStep, GrantsStep
<1>3. GrantsOK => GrantsAgree
  BY DEF GrantsOK
<1> QED
  BY <1>1, <1>2, <1>3, PTL DEF ToolSpec


-----------------------------------------------------------------------------
(* What runs has been approved. *)

(* The program counters of a worker with a request in hand, and those of a *)
(* session where nothing goes on with a request.                           *)
Busy == Before \cup {"executing", "terminal"}
Resting == {"off", "pause", "panicked", "controls"}
Reading == {"read", "identified"}

(* Request i is the newest of a model's call, and it is for v. *)
Holds(i, v) == i \in Requests /\ log[i].call \in Calls /\ Newest(i) /\ log[i].inv = v

(* The decision was made for a request of this very invocation. *)
Made(d, v) == d.for \in Requests /\ log[d.for].inv = v

(* The log has an approval of request i, as one for v. *)
Approved(i, v) == \E j \in Of(i, "resolved") : log[j].inv = v /\ log[j].decision.approved

(* Request i waits for an operator. *)
Pends(i) ==
    /\ i \in Requests /\ log[i].call \in Calls /\ Newest(i)
    /\ ApprovalPending(i) \/ InputPending(i)

(* Who has a request in hand has the newest of its call, as it was made.   *)
HoldsOK ==
    /\ worker.pc \in Busy => Holds(worker.req, worker.inv)
    /\ worker.pc \in {"resolve", "ask"} => worker.inv \in Guarded
    /\ \A a \in Approvers : approver[a].pc = "claimed" => Holds(approver[a].req, approver[a].inv)
    /\ operator.pc # "idle" => log[operator.req].turn = None

(* Every decision was made for the invocation that it is kept with.        *)
MadeOK ==
    /\ \A v \in Guarded : perSession[v] # NoDecision => Made(perSession[v], v)
    /\ \A v \in Guarded : global[v] # NoDecision => Made(global[v], v)
    /\ \A c \in Calls : perCall[c].decision # NoDecision => Made(perCall[c].decision, perCall[c].inv)
    /\ \A j \in DOMAIN log : log[j].kind = "resolved" => Made(log[j].decision, log[j].inv)
    /\ worker.pc = "resolve" => Made(worker.decision, worker.inv)
    /\ \A a \in Approvers : approver[a].pc = "claimed" => Made(approver[a].decision, approver[a].inv)

(* What ran, and what is about to run, was approved as what it runs as.    *)
RanOK ==
    \A e \in DOMAIN effects : effects[e][2] \in Guarded /\ log[effects[e][1]].turn # None =>
        effects[e][2] = log[effects[e][1]].inv /\ Approved(effects[e][1], effects[e][2])

ReadyOK ==
    /\ worker.pc = "execute" /\ worker.inv \in Guarded => Approved(worker.req, worker.inv)
    /\ worker.pc = "resume" /\ worker.decision.approved => Approved(worker.req, worker.inv)

ClaimOK ==
    \A a \in Approvers : approver[a].pc = "claimed" /\ approver[a].decision.approved =>
        Approved(approver[a].req, approver[a].inv)

(* A request that waits for an operator is the only one, and nothing runs. *)
AloneOK ==
    \A i \in Requests : Pends(i) =>
        /\ \A k \in Requests : Pends(k) => k = i
        /\ \/ worker.pc \in Resting
           \/ worker.pc \in {"requested", "terminal"} /\ worker.inv = Ask /\ worker.req = i
        /\ \A a \in Approvers : approver[a].pc # "claimed"

(* What a handler has read is still there.                                 *)
ReadOK ==
    /\ \A i \in Requests : ApprovalPending(i) => log[i].inv # Ask
    /\ \A a \in Approvers : approver[a].pc \in Reading =>
          \E i \in Requests : /\ Holds(i, approver[a].inv) /\ ApprovalPending(i)
                              /\ log[i].call = approver[a].call

ApprovedInv == HoldsOK /\ MadeOK /\ RanOK /\ ReadyOK /\ ClaimOK /\ AloneOK /\ ReadOK

(* A step that makes no request for a model's call. *)
NoNewCalls ==
    /\ IsLog' /\ Grows
    /\ \A j \in DOMAIN log' : j > Len(log) /\ log'[j].kind = "requested" => log'[j].call \in Nat

Unasked == \A j \in DOMAIN log' : j > Len(log) => log'[j].kind # "approval"

LEMMA GrowsKeeps ==
    ASSUME LogOK, IsLog', Grows
    PROVE  /\ \A i \in Requests : i \in Requests' /\ log'[i] = log[i]
           /\ \A d, v : Made(d, v) => Made(d, v)'
           /\ \A i \in Requests : \A v : Approved(i, v) => Approved(i, v)'
<1>1. /\ Len(log) \in Nat /\ DOMAIN log = 1..Len(log)
      /\ Len(log') \in Nat /\ DOMAIN log' = 1..Len(log')
  BY LenProperties DEF LogOK, IsLog
<1>2. \A j \in DOMAIN log : j \in DOMAIN log' /\ log'[j] = log[j]
  BY <1>1 DEF Grows
<1>3. \A i \in Requests : i \in Requests' /\ log'[i] = log[i]
  BY <1>2 DEF Requests
<1>4. \A d, v : Made(d, v) => Made(d, v)'
  BY <1>3 DEF Made
<1>5. ASSUME NEW i \in Requests, NEW v, Approved(i, v) PROVE Approved(i, v)'
  <2>1. PICK j \in Of(i, "resolved") : log[j].inv = v /\ log[j].decision.approved
    BY <1>5, Zenon DEF Approved
  <2>2. j \in Of(i, "resolved")' /\ j \in DOMAIN log
    BY OfStable
  <2> QED
    BY <1>2, <2>1, <2>2, Zenon DEF Approved
<1> QED
  BY <1>3, <1>4, <1>5

LEMMA CallsKept ==
    ASSUME LogOK, NoNewCalls
    PROVE  /\ \A i \in Requests' : log'[i].call \in Calls => i \in Requests
           /\ \A i, v : Holds(i, v) => Holds(i, v)'
<1>1. /\ Len(log) \in Nat /\ DOMAIN log = 1..Len(log)
      /\ Len(log') \in Nat /\ DOMAIN log' = 1..Len(log')
  BY LenProperties DEF LogOK, IsLog, NoNewCalls
<1>2. \A i \in Requests : i \in Requests' /\ log'[i] = log[i]
  BY GrowsKeeps DEF NoNewCalls
<1>3. \A j \in DOMAIN log' : (j \in DOMAIN log /\ log'[j] = log[j]) \/ j > Len(log)
  BY <1>1 DEF NoNewCalls, Grows
<1>4. \A i \in Requests' : log'[i].call \in Calls => i \in Requests
  <2>1. \A i \in Requests' : i \in DOMAIN log' /\ log'[i].kind = "requested"
    BY DEF Requests
  <2>2. \A c \in Calls : c \notin Nat
    BY ToolAssumption
  <2>3. \A i \in Requests' : i \in Requests \/ log'[i].call \in Nat
    BY <1>3, <2>1 DEF NoNewCalls, Requests
  <2> QED
    BY <2>2, <2>3
<1>5. ASSUME NEW i, NEW v, Holds(i, v) PROVE Holds(i, v)'
  <2>1. i \in Requests /\ log'[i] = log[i] /\ log[i].call \in Calls
    BY <1>2, <1>5 DEF Holds
  <2>2. Newest(i)'
    BY <1>2, <1>4, <1>5, <2>1 DEF Holds, Newest
  <2> QED
    BY <1>2, <1>5, <2>1, <2>2 DEF Holds
<1> QED
  BY <1>4, <1>5

LEMMA PendsOld ==
    ASSUME LogOK, IsLog', Grows, NEW i \in Requests,
           ApprovalPending(i)' => ApprovalPending(i), Pends(i)'
    PROVE  Pends(i)
<1>1. log'[i].call \in Calls /\ Newest(i)' /\ (ApprovalPending(i)' \/ InputPending(i)')
  BY DEF Pends
<1>2. \A k \in Requests : k \in Requests' /\ log'[k] = log[k]
  BY GrowsKeeps
<1>3. Newest(i)
  BY <1>1, <1>2 DEF Newest
<1>4. InputPending(i)' => InputPending(i)
  <2>1. Of(i, "finished") \subseteq Of(i, "finished")'
    BY OfStable
  <2> QED
    BY <1>2, <2>1 DEF InputPending
<1> QED
  BY <1>1, <1>2, <1>3, <1>4 DEF Pends

LEMMA PendsKept ==
    ASSUME LogOK, NoNewCalls, Unasked, NEW i, Pends(i)'
    PROVE  Pends(i) /\ i \in Requests
<1>1. i \in Requests
  BY CallsKept DEF Pends
<1>2. ApprovalPending(i)' => ApprovalPending(i)
  BY <1>1, PendingStable DEF NoNewCalls, Unasked
<1> QED
  BY <1>1, <1>2, PendsOld DEF NoNewCalls

(* A calm step leaves the waiting requests waiting. *)
LEMMA CalmPending ==
    ASSUME LogOK, Calm
    PROVE  /\ NoNewCalls /\ Unasked
           /\ \A i \in Requests : ApprovalPending(i) => ApprovalPending(i)'
<1>1. /\ Len(log) \in Nat /\ DOMAIN log = 1..Len(log)
      /\ Len(log') \in Nat /\ DOMAIN log' = 1..Len(log')
  BY LenProperties DEF LogOK, IsLog, Calm
<1>2. NoNewCalls /\ Unasked
  BY DEF Calm, NoNewCalls, Unasked, NewKinds
<1>3. ASSUME NEW i \in Requests, ApprovalPending(i) PROVE ApprovalPending(i)'
  <2>1. ASSUME NEW kind \in {"approval", "resolved"} PROVE Of(i, kind)' = Of(i, kind)
    <3>1. \A j \in Of(i, kind)' : j \in DOMAIN log' /\ log'[j].kind = kind
      BY Zenon DEF Of
    <3>2. \A j \in Of(i, kind)' : j \in DOMAIN log
      BY <1>1, <3>1 DEF Calm, NewKinds
    <3>3. /\ Of(i, kind) \subseteq Of(i, kind)'
          /\ \A j \in Of(i, kind)' : j \in DOMAIN log => j \in Of(i, kind)
      BY OfStable DEF Calm
    <3>4. PICK A, B : A = Of(i, kind) /\ B = Of(i, kind)'
      OBVIOUS
    <3>5. A = B
      BY <3>2, <3>3, <3>4
    <3> QED
      BY <3>4, <3>5
  <2>2. Of(i, "approval")' = Of(i, "approval") /\ Of(i, "resolved")' = Of(i, "resolved")
    BY <2>1
  <2> QED
    BY <1>3, <2>2 DEF ApprovalPending
<1> QED
  BY <1>2, <1>3

(* The result of a call belongs to the newest request of it. *)
LEMMA ResultOf ==
    ASSUME LogOK, IsLog', Grows, NEW i \in Requests, Newest(i),
           NEW n \in DOMAIN log', n > Len(log),
           log'[n].kind = "finished", log'[n].call = log[i].call,
           NewKinds({"started", "finished", "turnFinished"})
    PROVE  Of(i, "finished")' # {}
<1>1. /\ Len(log) \in Nat /\ DOMAIN log = 1..Len(log)
      /\ Len(log') \in Nat /\ DOMAIN log' = 1..Len(log')
      /\ i \in DOMAIN log /\ log'[i] = log[i]
  BY LenProperties DEF LogOK, IsLog, Grows, Requests
<1>2. \A k \in Requests' : k \in Requests /\ log'[k] = log[k]
  BY <1>1 DEF NewKinds, Requests, Grows
<1>3. \A k \in Requests' : i < k /\ k < n => log'[k].call # log'[i].call
  <2>1. \A k \in Requests : k \in Nat
    BY <1>1 DEF Requests
  <2> QED
    BY <1>1, <1>2, <2>1 DEF Newest
<1>4. Belongs(n, i)'
  BY <1>1, <1>3 DEF Belongs
<1>5. n \in Of(i, "finished")'
  BY <1>4, Zenon DEF Of
<1> QED
  BY <1>5

LEMMA CurrentIs ==
    ASSUME LogOK, NEW i \in Requests, Newest(i)
    PROVE  Current(log[i].call) = i
<1>1. PICK c : c = log[i].call
  OBVIOUS
<1>2. Current(c) \in Requests /\ log[Current(c)].call = c /\ Newest(Current(c))
  BY <1>1, CurrentFacts
<1>3. PICK k : k = Current(c)
  OBVIOUS
<1>4. k <= i /\ i <= k /\ k \in Nat /\ i \in Nat
  BY <1>1, <1>2, <1>3, LogFacts DEF Newest
<1> QED
  BY <1>1, <1>3, <1>4

(* While a handler is at a waiting request, no worker has one in hand. *)
LEMMA NoReader ==
    ASSUME ToolInv, ApprovedInv, worker.pc \notin Resting
    PROVE  \A a \in Approvers : approver[a].pc \notin Reading
<1> SUFFICES ASSUME NEW a \in Approvers, approver[a].pc \in Reading PROVE FALSE
  OBVIOUS
<1>1. PICK i \in Requests : /\ Holds(i, approver[a].inv) /\ ApprovalPending(i)
                            /\ log[i].call = approver[a].call
  BY Zenon DEF ApprovedInv, ReadOK
<1>2. Pends(i) /\ log[i].inv # Ask
  BY <1>1 DEF Holds, Pends, ApprovedInv, ReadOK
<1>3. worker.pc \in {"requested", "terminal"} /\ worker.inv = Ask /\ worker.req = i
  BY <1>2, Zenon DEF ApprovedInv, AloneOK
<1>4. Holds(worker.req, worker.inv)
  BY <1>3 DEF ApprovedInv, HoldsOK, Busy, Before, Asking
<1> QED
  BY <1>2, <1>3, <1>4 DEF Holds


NewTool == RequestTool /\ ~EndTurn("cancelled", <<>>)

(* Who has a request in hand after the step had it before. *)
Carries ==
    /\ worker'.pc \in Busy =>
          worker.pc \in Busy /\ worker'.req = worker.req /\ worker'.inv = worker.inv
    /\ worker'.pc \in {"resolve", "ask"} => worker.pc \in {"resolve", "ask"} \/ worker.inv \in Guarded
ApproverCarries == \A a \in Approvers : approver'[a].pc = "claimed" => approver'[a] = approver[a]
OperatorCarries ==
    operator'.pc # "idle" => \/ operator.pc # "idle" /\ operator'.req = operator.req
                             \/ log'[operator'.req].turn = None

(* How a worker gets to the tool, and what becomes of one that asked.      *)
WorkerWays ==
    /\ Carries /\ UNCHANGED <<approver, operator>>
    /\ worker.pc \in Resting => worker'.pc \in Resting
    /\ worker.pc \in {"requested", "terminal"} /\ worker.inv = Ask =>
          worker'.pc \in Resting \/ worker'.pc = "terminal" \/ RecordTerminal
    /\ worker'.pc = "execute" /\ worker.inv \in Guarded =>
          (RecordApproval \/ worker.pc = "resume") /\ worker.decision.approved
    /\ worker'.pc # "resume" /\ (worker'.pc = "resolve" => Decide)
    /\ effects' = effects \/ Execute
    /\ UNCHANGED grants \/ Decide \/ RecordApproval

LEMMA WorkerFrames ==
    ASSUME worker \in WorkerStates, WorkerStep \/ Panic \/ Watchdog, ~NewTool
    PROVE  WorkerWays
<1>1. Safe \cap Guarded = {} /\ Ask \notin Safe \cup Guarded
  BY ToolAssumption
<1>2. CASE \E s, q : EndTurn(s, q)
  <2>1. worker'.pc \in {"off", "controls"} /\ UNCHANGED <<approver, operator, grants, effects>>
    BY <1>2 DEF EndTurn, Idle, handlers
  <2> QED
    BY <2>1 DEF WorkerWays, Carries, Busy, Before, Asking, Resting
<1>3. CASE \/ ModelAnswers \/ ModelFails \/ PauseForApproval \/ TerminalFault \/ FailTurn
           \/ ResumeFault \/ Watchdog \/ RequestTool
  BY <1>2, <1>3
     DEF ModelAnswers, ModelFails, PauseForApproval, TerminalFault, FailTurn, ResumeFault, Watchdog,
         NewTool
<1>4. CASE ModelCalls \/ NextCompletion \/ ConsumeControls \/ Panic
  <2>1. /\ worker'.pc \in {"next", "model", "off", "panicked"}
        /\ UNCHANGED <<approver, operator, grants, effects>>
        /\ worker.pc \in Resting => worker'.pc \in Resting
        /\ worker.pc \in {"requested", "terminal"} => worker'.pc \in Resting
    <3>1. CASE ModelCalls
      BY <3>1 DEF ModelCalls, handlers, WorkerStates, Resting
    <3>2. CASE NextCompletion
      BY <3>2 DEF NextCompletion, Go, handlers, WorkerStates, Resting
    <3>3. CASE ConsumeControls
      BY <3>3 DEF ConsumeControls, Idle, handlers, Resting
    <3>4. CASE Panic
      BY <3>4 DEF Panic, Go, handlers, WorkerStates, Resting
    <3> QED
      BY <1>4, <3>1, <3>2, <3>3, <3>4
  <2> QED
    BY <2>1 DEF WorkerWays, Carries, Busy, Before, Asking
<1>5. CASE RecordTerminal
  <2>1. worker'.pc \in {"fail", "resumeCheck", "model", "next"} /\ worker.pc = "terminal"
        /\ UNCHANGED <<approver, operator, grants, effects>>
    BY <1>5 DEF RecordTerminal, Go, handlers, WorkerStates
  <2> QED
    BY <1>5, <2>1 DEF WorkerWays, Carries, Busy, Before, Asking, Resting
<1>6. CASE RequestApproval
  <2>1. worker'.pc = "pause" /\ worker.pc = "ask" /\ UNCHANGED <<approver, operator, grants, effects>>
    BY <1>6 DEF RequestApproval, Go, handlers, WorkerStates
  <2> QED
    BY <2>1 DEF WorkerWays, Carries, Busy, Before, Asking, Resting
<1>7. CASE RecordApproval
  <2>1. /\ worker.pc = "resolve" /\ UNCHANGED <<approver, operator, effects>>
        /\ worker'.req = worker.req /\ worker'.inv = worker.inv
        /\ \/ worker'.pc = "execute" /\ worker.decision.approved
           \/ worker'.pc = "terminal"
    BY <1>7 DEF RecordApproval, handlers, WorkerStates
  <2> QED
    BY <1>7, <2>1 DEF WorkerWays, Carries, Busy, Before, Asking, Resting
<1>8. CASE ApprovalFault \/ ToolReturns
  <2>1. /\ worker.pc \in {"resolve", "ask", "executing"} /\ worker'.pc = "terminal"
        /\ worker'.req = worker.req /\ worker'.inv = worker.inv
        /\ UNCHANGED <<approver, operator, grants, effects>>
    BY <1>8 DEF ApprovalFault, ToolReturns, handlers, WorkerStates
  <2> QED
    BY <2>1 DEF WorkerWays, Carries, Busy, Before, Asking, Resting
<1>9. CASE Execute
  <2>1. /\ worker.pc = "execute" /\ worker'.pc \in {"terminal", "executing"}
        /\ worker'.req = worker.req /\ worker'.inv = worker.inv
        /\ UNCHANGED <<approver, operator, grants>>
    BY <1>9 DEF Execute, Go, handlers, WorkerStates
  <2> QED
    BY <1>9, <2>1 DEF WorkerWays, Carries, Busy, Before, Asking, Resting
<1>10. CASE ResumeTool
  <2>1. /\ worker.pc = "resume" /\ worker'.req = worker.req /\ worker'.inv = worker.inv
        /\ \/ worker'.pc = "terminal"
           \/ worker'.pc = "execute" /\ worker.decision.approved
        /\ UNCHANGED <<approver, operator, grants, effects>>
    BY <1>10 DEF ResumeTool, handlers, WorkerStates
  <2> QED
    BY <2>1 DEF WorkerWays, Carries, Busy, Before, Asking, Resting
<1>11. CASE ResumeCheck
  <2>1. CASE Go("model") /\ UNCHANGED <<handlers, grants, effects>>
    <3>1. worker.pc = "resumeCheck" /\ worker'.pc = "model"
          /\ UNCHANGED <<approver, operator, grants, effects>>
      BY <1>11, <2>1 DEF ResumeCheck, Go, handlers, WorkerStates
    <3> QED
      BY <3>1 DEF WorkerWays, Carries, Busy, Before, Asking, Resting
  <2> QED
    BY <1>2, <1>11, <2>1 DEF ResumeCheck
<1>12. CASE Decide
  <2>1. worker.pc = "requested" /\ (UNCHANGED <<handlers, effects>> \/ \E s, q : EndTurn(s, q))
    BY <1>12 DEF Decide
  <2>2. CASE worker' = [worker EXCEPT !.pc = "terminal", !.result = "cancelled"]
             /\ UNCHANGED <<handlers, effects>>
    <3>1. worker'.pc = "terminal" /\ worker'.req = worker.req /\ worker'.inv = worker.inv
          /\ UNCHANGED <<approver, operator>>
      BY <2>2 DEF WorkerStates, handlers
    <3> QED
      BY <1>12, <2>1, <2>2, <3>1 DEF WorkerWays, Carries, Busy, Before, Asking, Resting
  <2>3. CASE Go("execute") /\ Inv \in Safe /\ UNCHANGED <<handlers, effects>>
    <3>1. worker'.pc = "execute" /\ worker'.req = worker.req /\ worker'.inv = worker.inv
          /\ UNCHANGED <<approver, operator>> /\ worker.inv \in Safe
      BY <2>3 DEF WorkerStates, handlers, Go, Inv
    <3> QED
      BY <1>1, <1>12, <2>1, <2>3, <3>1 DEF WorkerWays, Carries, Busy, Before, Asking, Resting
  <2>4. ASSUME NEW x \in {"ask", "resolve"}, NEW d, Inv \in Guarded, UNCHANGED <<handlers, effects>>,
               worker' = [worker EXCEPT !.pc = x, !.decision = d]
        PROVE  WorkerWays
    <3>1. worker'.pc = x /\ worker'.req = worker.req /\ worker'.inv = worker.inv
          /\ UNCHANGED <<approver, operator>> /\ worker.inv \in Guarded
      BY <2>4 DEF WorkerStates, handlers, Inv
    <3> QED
      BY <1>1, <1>12, <2>1, <2>4, <3>1 DEF WorkerWays, Carries, Busy, Before, Asking, Resting
  <2> QED
    BY <1>2, <1>12, <2>2, <2>3, <2>4 DEF Decide
<1> QED
  BY <1>3, <1>4, <1>5, <1>6, <1>7, <1>8, <1>9, <1>10, <1>11, <1>12 DEF WorkerStep


LEMMA HoldsKept ==
    ASSUME ToolInv, HoldsOK, NoNewCalls, Carries, ApproverCarries, OperatorCarries
    PROVE  HoldsOK'
<1>1. \A i, v : Holds(i, v) => Holds(i, v)'
  BY CallsKept DEF ToolInv
<1>2. ASSUME worker'.pc \in Busy PROVE Holds(worker.req, worker.inv)'
  <2>1. PICK i, v : i = worker.req /\ v = worker.inv
    OBVIOUS
  <2>2. Holds(i, v)' /\ worker'.req = i /\ worker'.inv = v
    BY <1>1, <1>2, <2>1 DEF Carries, HoldsOK
  <2> QED
    BY <2>2 DEF Holds, Newest
<1>3. ASSUME NEW a \in Approvers, approver'[a].pc = "claimed"
      PROVE  Holds(approver[a].req, approver[a].inv)'
  <2>1. PICK i, v : i = approver[a].req /\ v = approver[a].inv
    OBVIOUS
  <2>2. approver'[a] = approver[a]
    BY <1>3 DEF ApproverCarries
  <2>3. Holds(i, v)' /\ approver'[a].req = i /\ approver'[a].inv = v
    BY <1>1, <1>3, <2>1, <2>2 DEF HoldsOK
  <2> QED
    BY <2>3 DEF Holds, Newest
<1>4. ASSUME operator'.pc # "idle" PROVE log'[operator'.req].turn = None
  <2>1. CASE operator.pc # "idle" /\ operator'.req = operator.req
    <3>1. operator.req \in Requests /\ log[operator.req].turn = None
      BY <2>1 DEF ToolInv, OperatorOK, HoldsOK
    <3> QED
      BY <2>1, <3>1, GrowsKeeps DEF NoNewCalls, ToolInv
  <2> QED
    BY <1>4, <2>1 DEF OperatorCarries
<1>5. worker'.pc \in {"resolve", "ask"} => worker'.inv \in Guarded
  BY DEF Carries, HoldsOK, Busy, Before, Asking
<1> QED
  BY <1>2, <1>3, <1>4, <1>5 DEF HoldsOK

LEMMA LogMade ==
    ASSUME ToolInv, MadeOK, IsLog', Grows, NewKinds(Undecided)
    PROVE  \A j \in DOMAIN log' : log'[j].kind = "resolved" => Made(log[j].decision, log[j].inv)'
<1>1. \A i \in Requests : i \in Requests' /\ log'[i] = log[i]
  BY GrowsKeeps DEF ToolInv
<1>2. \A j \in DOMAIN log' : log'[j].kind = "resolved" => j \in DOMAIN log /\ log'[j] = log[j]
  <2>1. /\ Len(log) \in Nat /\ DOMAIN log = 1..Len(log)
        /\ Len(log') \in Nat /\ DOMAIN log' = 1..Len(log')
    BY LenProperties DEF ToolInv, LogOK, IsLog
  <2> QED
    BY <2>1 DEF Grows, NewKinds, Undecided
<1> QED
  BY <1>1, <1>2 DEF MadeOK, Made

(* The decisions in the log stay what they are, and those of a step that   *)
(* adds none to the log, the store or the worker.                          *)
LEMMA MadeKept ==
    ASSUME ToolInv, MadeOK, IsLog', Grows, NewKinds(Undecided), ApproverCarries, UNCHANGED grants,
           worker'.pc = "resolve" => worker' = worker
    PROVE  MadeOK'
<1>1. \A i \in Requests : i \in Requests' /\ log'[i] = log[i]
  BY GrowsKeeps DEF ToolInv
<1>3. /\ \A v \in Guarded : perSession'[v] # NoDecision => Made(perSession[v], v)'
      /\ \A v \in Guarded : global'[v] # NoDecision => Made(global[v], v)'
      /\ \A c \in Calls : perCall'[c].decision # NoDecision => Made(perCall[c].decision, perCall[c].inv)'
  BY <1>1 DEF MadeOK, Made, grants
<1>4. \A j \in DOMAIN log' : log'[j].kind = "resolved" => Made(log[j].decision, log[j].inv)'
  BY LogMade
<1>5. worker'.pc = "resolve" => Made(worker.decision, worker.inv)'
  BY <1>1 DEF MadeOK, Made
<1>6. \A a \in Approvers : approver'[a].pc = "claimed" => Made(approver[a].decision, approver[a].inv)'
  BY <1>1 DEF MadeOK, Made, ApproverCarries
<1> QED
  BY <1>3, <1>4, <1>5, <1>6 DEF MadeOK

LEMMA RanKept ==
    ASSUME ToolInv, RanOK, IsLog', Grows, effects' = effects
    PROVE  RanOK'
<1>1. /\ \A i \in Requests : log'[i] = log[i]
      /\ \A i \in Requests : \A v : Approved(i, v) => Approved(i, v)'
  BY GrowsKeeps DEF ToolInv
<1> SUFFICES ASSUME NEW e \in DOMAIN effects', effects'[e][2] \in Guarded, log'[effects'[e][1]].turn # None
             PROVE  effects'[e][2] = log'[effects'[e][1]].inv /\ Approved(effects[e][1], effects[e][2])'
  BY DEF RanOK
<1>2. PICK i, v : i = effects[e][1] /\ v = effects[e][2]
  OBVIOUS
<1>3. i \in Requests /\ effects'[e][1] = i /\ effects'[e][2] = v /\ e \in DOMAIN effects
  BY <1>2 DEF ToolInv, EffectsOK
<1>4. v = log[i].inv /\ Approved(i, v)
  BY <1>1, <1>2, <1>3 DEF RanOK
<1>5. v = log'[i].inv /\ Approved(i, v)'
  BY <1>1, <1>3, <1>4
<1> QED
  BY <1>3, <1>5 DEF Approved

LEMMA ClaimKept ==
    ASSUME ToolInv, ClaimOK, IsLog', Grows, ApproverCarries
    PROVE  ClaimOK'
<1>1. \A i \in Requests : \A v : Approved(i, v) => Approved(i, v)'
  BY GrowsKeeps DEF ToolInv
<1> SUFFICES ASSUME NEW a \in Approvers, approver'[a].pc = "claimed", approver'[a].decision.approved
             PROVE  Approved(approver[a].req, approver[a].inv)'
  BY DEF ClaimOK
<1>2. PICK i, v : i = approver[a].req /\ v = approver[a].inv
  OBVIOUS
<1>3. approver'[a] = approver[a]
  BY DEF ApproverCarries
<1>4. i \in Requests /\ Approved(i, v) /\ approver'[a].req = i /\ approver'[a].inv = v
  BY <1>2, <1>3 DEF ClaimOK, ToolInv, ApproverOK, Free
<1>5. Approved(i, v)'
  BY <1>1, <1>4
<1> QED
  BY <1>4, <1>5 DEF Approved

LEMMA ReadyKept ==
    ASSUME ToolInv, ReadyOK, IsLog', Grows, worker'.pc \in {"execute", "resume"} => worker' = worker
    PROVE  ReadyOK'
<1>1. \A i \in Requests : \A v : Approved(i, v) => Approved(i, v)'
  BY GrowsKeeps DEF ToolInv
<1> SUFFICES ASSUME worker'.pc \in {"execute", "resume"},
                    \/ worker'.pc = "execute" /\ worker'.inv \in Guarded
                    \/ worker'.pc = "resume" /\ worker'.decision.approved
             PROVE  Approved(worker.req, worker.inv)'
  BY DEF ReadyOK
<1>2. PICK i, v : i = worker.req /\ v = worker.inv
  OBVIOUS
<1>3. i \in Requests /\ Approved(i, v) /\ worker'.req = i /\ worker'.inv = v
  BY <1>2 DEF ReadyOK, ToolInv, WorkerOK, Free
<1>4. Approved(i, v)'
  BY <1>1, <1>3
<1> QED
  BY <1>3, <1>4 DEF Approved

(* Nothing new waits, and who runs beside what waits did before. *)
LEMMA AloneKept ==
    ASSUME ToolInv, AloneOK, NoNewCalls, Unasked,
           \A a \in Approvers : approver'[a].pc = "claimed" => approver[a].pc = "claimed",
           \A i \in Requests : Pends(i) /\ Pends(i)' =>
               \/ worker'.pc \in Resting
               \/ worker'.pc \in {"requested", "terminal"} /\ worker'.inv = Ask /\ worker'.req = i
    PROVE  AloneOK'
<1>1. \A i \in Requests' : Pends(i)' => Pends(i) /\ i \in Requests
  BY PendsKept DEF ToolInv
<1>2. \A i \in Requests : Pends(i) => /\ \A k \in Requests : Pends(k) => k = i
                                      /\ \A a \in Approvers : approver[a].pc # "claimed"
  BY Zenon DEF AloneOK
<1>3. \A i \in Requests' : Pends(i)' => /\ \A k \in Requests' : Pends(k)' => k = i
                                        /\ \A a \in Approvers : approver'[a].pc # "claimed"
  BY <1>1, <1>2, Zenon
<1>4. \A i \in Requests' : Pends(i)' =>
         \/ worker'.pc \in Resting
         \/ worker'.pc \in {"requested", "terminal"} /\ worker'.inv = Ask /\ worker'.req = i
  BY <1>1, Zenon
<1> QED
  BY <1>3, <1>4, Zenon DEF AloneOK

(* After a step without new approval requests, handlers are where they     *)
(* were and what they read still waits.                                    *)
LEMMA AskKept ==
    ASSUME ToolInv, ToolInv', ReadOK, NoNewCalls, Unasked
    PROVE  \A i \in Requests' : ApprovalPending(i)' => log'[i].inv # Ask
<1> SUFFICES ASSUME NEW i \in Requests', ApprovalPending(i)' PROVE log'[i].inv # Ask
  OBVIOUS
<1>1. log'[i].call \in Calls
  BY DEF ToolInv, PendingOK
<1>2. i \in Requests /\ log'[i] = log[i]
  BY <1>1, CallsKept, GrowsKeeps DEF ToolInv, NoNewCalls
<1>3. ApprovalPending(i)
  BY <1>2, PendingStable DEF ToolInv, NoNewCalls, Unasked
<1> QED
  BY <1>2, <1>3 DEF ReadOK

LEMMA ReadKept ==
    ASSUME ToolInv, ToolInv', ReadOK, Calm,
           \A a \in Approvers : approver'[a].pc \in Reading =>
               /\ approver[a].pc \in Reading
               /\ approver'[a].call = approver[a].call /\ approver'[a].inv = approver[a].inv
    PROVE  ReadOK'
<1>1. NoNewCalls /\ Unasked /\ \A i \in Requests : ApprovalPending(i) => ApprovalPending(i)'
  BY CalmPending DEF ToolInv
<1>2. \A i \in Requests' : ApprovalPending(i)' => log'[i].inv # Ask
  BY <1>1, AskKept
<1>3. ASSUME NEW a \in Approvers, approver'[a].pc \in Reading
      PROVE  \E i \in Requests' : /\ Holds(i, approver[a].inv)' /\ ApprovalPending(i)'
                                  /\ log'[i].call = approver'[a].call
  <2>1. PICK v : v = approver[a].inv
    OBVIOUS
  <2>2. PICK i \in Requests : Holds(i, v) /\ ApprovalPending(i) /\ log[i].call = approver[a].call
    BY <1>3, <2>1 DEF ReadOK
  <2>3. Holds(i, v)' /\ i \in Requests' /\ log'[i] = log[i]
    BY <1>1, <2>2, CallsKept, GrowsKeeps DEF ToolInv, NoNewCalls
  <2>4. Holds(i, approver[a].inv)'
    BY <1>3, <2>1, <2>3 DEF Holds, Newest
  <2> QED
    BY <1>1, <1>3, <2>2, <2>3, <2>4
<1> QED
  BY <1>2, <1>3 DEF ReadOK


(* A worker's step that makes no request, asks for no approval and records *)
(* no decision.                                                            *)
LEMMA CalmWorker ==
    ASSUME ToolInv, ToolInv', ApprovedInv, WorkerStep \/ Panic \/ Watchdog,
           ~NewTool, ~RecordApproval, Calm, MadeOK', RanOK', AloneOK'
    PROVE  ApprovedInv'
<1>1. LogOK /\ worker \in WorkerStates
  BY DEF ToolInv, ProcessOK
<1>2. WorkerWays
  BY <1>1, WorkerFrames
<1>3. NoNewCalls /\ Unasked /\ IsLog' /\ Grows
  BY <1>1, CalmPending DEF Calm
<1>4. Carries /\ ApproverCarries /\ OperatorCarries
  BY <1>2 DEF WorkerWays, ApproverCarries, OperatorCarries
<1>5. HoldsOK'
  BY <1>3, <1>4, HoldsKept DEF ApprovedInv
<1>6. ReadyOK'
  <2> SUFFICES ASSUME \/ worker'.pc = "execute" /\ worker'.inv \in Guarded
                      \/ worker'.pc = "resume" /\ worker'.decision.approved
               PROVE  Approved(worker.req, worker.inv)'
    BY DEF ReadyOK
  <2>1. worker'.pc = "execute" /\ worker'.inv \in Guarded
    BY <1>2 DEF WorkerWays
  <2>2. worker'.req = worker.req /\ worker'.inv = worker.inv
    BY <1>4, <2>1 DEF Carries, Busy, Before
  <2>3. worker.pc = "resume" /\ worker.decision.approved
    BY <1>2, <2>1, <2>2 DEF WorkerWays
  <2>4. PICK i, v : i = worker.req /\ v = worker.inv
    OBVIOUS
  <2>5. i \in Requests /\ Approved(i, v)
    BY <2>3, <2>4 DEF ApprovedInv, ReadyOK, ToolInv, WorkerOK, Free
  <2>6. Approved(i, v)'
    BY <1>1, <1>3, <2>5, GrowsKeeps
  <2> QED
    BY <2>2, <2>4, <2>6 DEF Approved
<1>7. ClaimOK'
  BY <1>3, <1>4, ClaimKept DEF ApprovedInv
<1>8. ReadOK'
  <2>1. approver' = approver
    BY <1>2 DEF WorkerWays
  <2> QED
    BY <2>1, ReadKept DEF ApprovedInv
<1> QED
  BY <1>5, <1>6, <1>7, <1>8 DEF ApprovedInv

LEMMA RunsOne ==
    ASSUME ToolInv, RanOK, log' = log, NEW r \in Requests, NEW v \in Invocations,
           effects' = Append(effects, <<r, v>>),
           v \in Guarded /\ log[r].turn # None => v = log[r].inv /\ Approved(r, v)
    PROVE  RanOK'
<1>1. effects \in Seq(Nat \X Invocations) /\ r \in Nat
  BY LogFacts DEF ToolInv, EffectsOK
<1>2. PICK n \in Nat : n = Len(effects) /\ DOMAIN effects = 1..n
  BY <1>1, LenProperties
<1>3. /\ DOMAIN effects' = 1..(n + 1) /\ effects'[n + 1] = <<r, v>>
      /\ \A x \in 1..n : effects'[x] = effects[x]
  <2>1. PICK S : S = Nat \X Invocations
    OBVIOUS
  <2>2. PICK p \in S : p = <<r, v>>
    BY <1>1, <2>1
  <2>3. /\ Len(effects') = n + 1 /\ DOMAIN effects' = 1..Len(effects')
        /\ effects'[n + 1] = p /\ \A x \in 1..n : effects'[x] = effects[x]
    BY <1>1, <1>2, <2>1, <2>2, AppendProperties, LenProperties
  <2> QED
    BY <2>2, <2>3
<1>4. \A i, u : Approved(i, u)' <=> Approved(i, u)
  BY DEF Approved, Of, Belongs, Requests
<1> SUFFICES ASSUME NEW e \in 1..(n + 1), effects'[e][2] \in Guarded, log'[effects'[e][1]].turn # None
             PROVE  effects'[e][2] = log'[effects'[e][1]].inv /\ Approved(effects[e][1], effects[e][2])'
  BY <1>3 DEF RanOK
<1>5. PICK i, u : i = effects'[e][1] /\ u = effects'[e][2]
  OBVIOUS
<1>6. u = log[i].inv /\ Approved(i, u)
  <2>1. CASE e = n + 1
    BY <1>3, <1>5, <2>1
  <2>2. CASE e \in 1..n
    <3>1. i = effects[e][1] /\ u = effects[e][2] /\ u \in Guarded /\ log[i].turn # None
      BY <1>3, <1>5, <2>2
    <3> QED
      BY <1>2, <2>2, <3>1 DEF RanOK
  <2> QED
    BY <2>1, <2>2
<1>7. Approved(i, u)'
  BY <1>4, <1>6
<1> QED
  BY <1>5, <1>6, <1>7 DEF Approved

LEMMA WorkerRan ==
    ASSUME ToolInv, ApprovedInv, IsLog', Grows, effects' = effects \/ Execute
    PROVE  RanOK'
<1>1. CASE effects' = effects
  BY <1>1, RanKept DEF ApprovedInv
<1>2. CASE worker.pc = "execute" /\ log' = log /\ effects' = Append(effects, <<worker.req, worker.inv>>)
  <2>1. PICK r, v : r = worker.req /\ v = worker.inv
    OBVIOUS
  <2>2. Holds(r, v) /\ (v \in Guarded => Approved(r, v)) /\ v \in Invocations
    BY <1>2, <2>1 DEF ApprovedInv, HoldsOK, ReadyOK, Busy, Before, ToolInv, ProcessOK, WorkerStates
  <2> QED
    BY <1>2, <2>1, <2>2, RunsOne DEF ApprovedInv, Holds
<1> QED
  BY <1>1, <1>2 DEF Execute, Inv

(* A result that the worker records ends the wait of an ask. *)
LEMMA WorkerAlone ==
    ASSUME ToolInv, ApprovedInv, WorkerWays, Calm
    PROVE  AloneOK'
<1>1. LogOK /\ NoNewCalls /\ Unasked /\ IsLog' /\ Grows
  BY CalmPending DEF Calm, ToolInv
<1>2. ASSUME NEW i \in Requests, Pends(i), Pends(i)'
      PROVE  \/ worker'.pc \in Resting
             \/ worker'.pc \in {"requested", "terminal"} /\ worker'.inv = Ask /\ worker'.req = i
  <2>1. CASE worker.pc \in Resting
    BY <2>1 DEF WorkerWays
  <2>2. CASE worker.pc \in {"requested", "terminal"} /\ worker.inv = Ask /\ worker.req = i
    <3>1. ~RecordTerminal
      <4> SUFFICES ASSUME RecordTerminal PROVE FALSE
        OBVIOUS
      <4>1. Newest(i) /\ log[i].inv = Ask
        BY <2>2 DEF ApprovedInv, HoldsOK, Busy, Before, Asking, Holds
      <4>2. PICK f : /\ f = Finished(Call, active, worker.result)
                     /\ log' = Append(log, f)
        BY DEF RecordTerminal, Append1
      <4>3. f.kind = "finished" /\ f.call = log[i].call
        BY <2>2, <4>2 DEF Finished, Call
      <4>4. NewKinds({"started", "finished", "turnFinished"})
        <5>1. NewKinds({"finished"})
          BY <1>1, <4>2, <4>3, AppendsKind DEF LogOK, IsLog
        <5> QED
          BY <5>1, KindsWider
      <4>5. PICK n : n \in DOMAIN log' /\ n > Len(log) /\ log'[n] = f
        <5>1. Len(log') = Len(log) + 1 /\ log'[Len(log) + 1] = f
          BY <1>1, <4>2, AppendGrows DEF LogOK, IsLog
        <5>2. Len(log) \in Nat /\ DOMAIN log' = 1..Len(log')
          BY <1>1, LogFacts, LenProperties DEF IsLog
        <5> QED
          BY <5>1, <5>2
      <4>6. Of(i, "finished")' # {}
        BY <1>1, <4>1, <4>3, <4>4, <4>5, ResultOf
      <4>7. ApprovalPending(i)' => ApprovalPending(i)
        BY <1>1, PendingStable DEF Unasked
      <4> QED
        BY <1>2, <4>1, <4>6, <4>7 DEF Pends, InputPending, ApprovedInv, ReadOK
    <3>2. worker'.pc \in Resting \/ worker'.pc = "terminal"
      BY <2>2, <3>1 DEF WorkerWays
    <3>3. worker'.pc = "terminal" => worker'.inv = Ask /\ worker'.req = i
      BY <2>2 DEF WorkerWays, Carries, Busy
    <3> QED
      BY <3>2, <3>3
  <2>3. \/ worker.pc \in Resting
        \/ worker.pc \in {"requested", "terminal"} /\ worker.inv = Ask /\ worker.req = i
    BY <1>2, Zenon DEF ApprovedInv, AloneOK
  <2> QED
    BY <2>1, <2>2, <2>3
<1>3. \A a \in Approvers : approver'[a].pc = "claimed" => approver[a].pc = "claimed"
  BY DEF WorkerWays
<1> QED
  BY <1>1, <1>2, <1>3, AloneKept DEF ApprovedInv

(* What the evaluator finds was decided for the invocation it is asked for. *)
LEMMA EvaluatedMade ==
    ASSUME MadeOK, NEW c \in Calls, NEW v \in Guarded, NEW i \in Requests, log[i].inv = v,
           Evaluated(c, v, i) # NoDecision
    PROVE  Made(Evaluated(c, v, i), v)
<1>1. CASE Matches(c, v)
  BY <1>1 DEF Evaluated, Matches, MadeOK
<1>2. CASE ~Matches(c, v) /\ Known(v) # NoDecision
  <2>1. Made(Known(v), v)
    BY <1>2 DEF Known, MadeOK
  <2> QED
    BY <1>2, <2>1 DEF Evaluated
<1>3. CASE ~Matches(c, v) /\ Known(v) = NoDecision
  <2>1. Evaluated(c, v, i) = AutoApprove(v, i)
    BY <1>3 DEF Evaluated
  <2>2. AutoApprove(v, i).for = i
    BY <1>3, <2>1 DEF AutoApprove, Decision
  <2> QED
    BY <2>1, <2>2 DEF Made
<1> QED
  BY <1>1, <1>2, <1>3

LEMMA ReuseMade ==
    ASSUME MadeOK, GrantsTyped, NEW v, NEW d, Made(d, v), Reuse(v, d)
    PROVE  /\ \A u \in Guarded : perSession'[u] # NoDecision => Made(perSession'[u], u)
           /\ \A u \in Guarded : global'[u] # NoDecision => Made(global'[u], u)
<1>1. \A u \in Guarded :
          /\ perSession'[u] = IF v = u /\ d.scope = "session" THEN d ELSE perSession[u]
          /\ global'[u] = IF v = u /\ d.scope = "always" THEN d ELSE global[u]
  BY ReuseSeeds
<1> QED
  BY <1>1 DEF MadeOK

LEMMA DecideMade ==
    ASSUME ToolInv, ApprovedInv, Decide, IsLog', Grows, NewKinds(Undecided), approver' = approver
    PROVE  MadeOK'
<1>1. worker \in WorkerStates /\ GrantsTyped /\ IsLog /\ LogOK /\ worker.pc = "requested"
  BY DEF ToolInv, ProcessOK, GrantsTyped, Decide, LogOK, IsLog
<1>2. CASE UNCHANGED grants /\ worker'.pc # "resolve"
  BY <1>2, MadeKept DEF ApprovedInv, ApproverCarries
<1>3. ASSUME Inv \in Guarded, Evaluate(Call, Inv, worker.req), log' = log,
             NEW d, d = Evaluated(Call, Inv, worker.req),
             worker' = [worker EXCEPT !.pc = IF d = NoDecision THEN "ask" ELSE "resolve",
                                      !.decision = d]
      PROVE  MadeOK'
  <2>1. PICK i, v, c : i = worker.req /\ v = worker.inv /\ c = log[i].call
    OBVIOUS
  <2>2. i \in Requests /\ log[i].inv = v /\ c \in Calls /\ v \in Guarded
    BY <1>1, <1>3, <2>1 DEF ApprovedInv, HoldsOK, Holds, Busy, Before, Asking, Inv
  <2>3. d = Evaluated(c, v, i) /\ Evaluate(c, v, i)
    BY <1>3, <2>1 DEF Call, Inv
  <2>4. d # NoDecision => Made(d, v)
    BY <2>2, <2>3, EvaluatedMade DEF ApprovedInv
  <2>6. /\ \A u \in Guarded : perSession'[u] # NoDecision => Made(perSession'[u], u)
        /\ \A u \in Guarded : global'[u] # NoDecision => Made(global'[u], u)
    <3>1. CASE Reuse(v, d) /\ d # NoDecision
      BY <1>1, <2>4, <3>1, ReuseMade DEF ApprovedInv
    <3>2. CASE UNCHANGED <<perSession, global>>
      BY <3>2 DEF ApprovedInv, MadeOK
    <3> QED
      BY <2>3, <3>1, <3>2 DEF Evaluate, grants
  <2>7. \A x \in Calls : perCall'[x].decision # NoDecision => Made(perCall'[x].decision, perCall'[x].inv)
    <3>1. Unrecorded.decision = NoDecision
      BY DEF Unrecorded
    <3>2. \/ perCall' = perCall
          \/ perCall' = [perCall EXCEPT ![c] = Unrecorded]
          \/ d # NoDecision /\ perCall' = [perCall EXCEPT ![c] = [inv |-> v, decision |-> d]]
      BY <2>3 DEF Evaluate, grants
    <3>3. \A x \in Calls : \/ perCall'[x] = perCall[x]
                           \/ perCall'[x] = Unrecorded
                           \/ d # NoDecision /\ perCall'[x] = [inv |-> v, decision |-> d]
      BY <1>1, <3>2 DEF GrantsTyped
    <3> QED
      BY <2>4, <3>1, <3>3 DEF ApprovedInv, MadeOK
  <2>8. worker'.pc = "resolve" => worker'.decision = d /\ worker'.inv = v /\ d # NoDecision
    BY <1>1, <1>3, <2>1 DEF WorkerStates
  <2>9. \A j \in DOMAIN log' : log'[j].kind = "resolved" => Made(log'[j].decision, log'[j].inv)
    BY <1>3 DEF ApprovedInv, MadeOK
  <2>10. \A a \in Approvers : approver'[a].pc = "claimed" => Made(approver'[a].decision, approver'[a].inv)
    BY DEF ApprovedInv, MadeOK
  <2>11. /\ \A u \in Guarded : perSession'[u] # NoDecision => Made(perSession[u], u)'
         /\ \A u \in Guarded : global'[u] # NoDecision => Made(global[u], u)'
         /\ \A x \in Calls : perCall'[x].decision # NoDecision => Made(perCall[x].decision, perCall[x].inv)'
    BY <1>3, <2>6, <2>7 DEF Made, Requests
  <2>12. \A j \in DOMAIN log' : log'[j].kind = "resolved" => Made(log[j].decision, log[j].inv)'
    BY <1>3, <2>9 DEF Made, Requests
  <2>13. worker'.pc = "resolve" => Made(worker.decision, worker.inv)'
    <3>1. ASSUME worker'.pc = "resolve" PROVE Made(worker'.decision, worker'.inv)
      BY <2>4, <2>8, <3>1
    <3> QED
      BY <1>3, <3>1 DEF Made, Requests
  <2>14. \A a \in Approvers : approver'[a].pc = "claimed" => Made(approver[a].decision, approver[a].inv)'
    BY <1>3, <2>10 DEF Made, Requests
  <2> QED
    BY <2>11, <2>12, <2>13, <2>14 DEF MadeOK
<1>4. CASE \E s, q : EndTurn(s, q)
  <2>1. UNCHANGED grants /\ worker'.pc \in {"off", "controls"}
    BY <1>4 DEF EndTurn, Idle
  <2> QED
    BY <1>2, <2>1
<1>5. CASE worker' = [worker EXCEPT !.pc = "terminal", !.result = "cancelled"] /\ UNCHANGED grants
  <2>1. worker'.pc = "terminal"
    BY <1>1, <1>5 DEF WorkerStates
  <2> QED
    BY <1>2, <1>5, <2>1
<1>6. CASE Go("execute") /\ UNCHANGED grants
  <2>1. worker'.pc = "execute"
    BY <1>1, <1>6 DEF WorkerStates, Go
  <2> QED
    BY <1>2, <1>6, <2>1
<1> QED
  BY <1>3, <1>4, <1>5, <1>6 DEF Decide

LEMMA CalmSteps ==
    ASSUME ToolInv, ToolInv', ApprovedInv, WorkerStep \/ Panic \/ Watchdog, ~Commits
    PROVE  ApprovedInv'
<1>1. LogOK /\ IsLog /\ worker \in WorkerStates
  BY DEF ToolInv, ProcessOK, LogOK, IsLog
<1>2. Calm /\ ~NewTool /\ ~RecordApproval
  BY <1>1, WorkerCalm DEF Commits, NewTool
<1>3. WorkerWays /\ IsLog' /\ Grows /\ NewKinds(Undecided)
  <2>1. NewKinds(Undecided)
    BY <1>2 DEF Calm, NewKinds, Undecided
  <2> QED
    BY <1>1, <1>2, <2>1, WorkerFrames DEF Calm
<1>4. RanOK'
  BY <1>3, WorkerRan DEF WorkerWays
<1>5. AloneOK'
  BY <1>2, <1>3, WorkerAlone
<1>6. MadeOK'
  <2>1. CASE Decide
    BY <1>3, <2>1, DecideMade DEF WorkerWays
  <2>2. CASE ~Decide
    BY <1>2, <1>3, <2>2, MadeKept DEF WorkerWays, ApprovedInv, ApproverCarries
  <2> QED
    BY <2>1, <2>2
<1> QED
  BY <1>2, <1>4, <1>5, <1>6, CalmWorker

(* The one event that a step appends. *)
LEMMA AppendedOne ==
    ASSUME IsLog, NEW e, log' = Append(log, e)
    PROVE  \E n \in DOMAIN log' :
              /\ n > Len(log) /\ log'[n] = e
              /\ \A j \in DOMAIN log' : j = n \/ (j \in DOMAIN log /\ log'[j] = log[j])
<1>1. IsLog' /\ Grows /\ Len(log') = Len(log) + 1 /\ log'[Len(log) + 1] = e
  BY AppendGrows
<1>2. /\ Len(log) \in Nat /\ DOMAIN log = 1..Len(log) /\ DOMAIN log' = 1..Len(log) + 1
  BY <1>1, LenProperties DEF IsLog
<1>3. \A j \in DOMAIN log' : j = Len(log) + 1 \/ (j \in DOMAIN log /\ log'[j] = log[j])
  BY <1>1, <1>2 DEF Grows
<1> QED
  BY <1>1, <1>2, <1>3

(* The decision recorded for the request in hand is the evaluator's. *)
LEMMA RecordApprovalApproved ==
    ASSUME ToolInv, ToolInv', ApprovedInv, RecordApproval
    PROVE  ApprovedInv'
<1>1. LogOK /\ IsLog /\ worker \in WorkerStates /\ GrantsTyped
  BY DEF ToolInv, ProcessOK, LogOK, IsLog, GrantsTyped
<1>2. PICK r, v, d : r = worker.req /\ v = worker.inv /\ d = worker.decision
  OBVIOUS
<1>3. worker.pc = "resolve" /\ Holds(r, v) /\ Made(d, v)
  BY <1>2 DEF RecordApproval, ApprovedInv, HoldsOK, MadeOK, Busy, Before, Asking
<1>4. PICK e : /\ log' = Append(log, e) /\ e.kind = "resolved" /\ e.call = log[r].call
               /\ e.inv = v /\ e.decision = d
  BY <1>2 DEF RecordApproval, Append1, Resolved, Call, Inv
<1>5. PICK n \in DOMAIN log' : /\ n > Len(log) /\ log'[n] = e
                               /\ \A j \in DOMAIN log' : j = n \/ (j \in DOMAIN log /\ log'[j] = log[j])
  BY <1>1, <1>4, AppendedOne
<1>6. IsLog' /\ Grows /\ NewKinds({"resolved"})
  BY <1>1, <1>4, AppendsKind
<1>7. NoNewCalls /\ Unasked
  BY <1>6 DEF NoNewCalls, Unasked, NewKinds
<1>8. WorkerWays
  BY <1>1, <1>3, WorkerFrames DEF NewTool, RequestTool, WorkerStep
<1>9. Carries /\ ApproverCarries /\ OperatorCarries /\ effects' = effects
  BY <1>8 DEF WorkerWays, ApproverCarries, OperatorCarries, RecordApproval
<1>10. HoldsOK' /\ RanOK' /\ ClaimOK'
  BY <1>6, <1>7, <1>9, HoldsKept, RanKept, ClaimKept DEF ApprovedInv
<1>11. n \in Of(r, "resolved")'
  <2>1. NewKinds({"started", "resolved", "finished", "turnFinished"})
    BY <1>6, KindsWider
  <2> QED
    BY <1>1, <1>3, <1>4, <1>5, <1>6, <2>1, ResolvedNotPending DEF Holds
<1>12. /\ worker'.pc \in {"execute", "terminal"} /\ worker'.req = r /\ worker'.inv = v
       /\ worker'.pc = "execute" => d.approved
  BY <1>1, <1>2 DEF RecordApproval, WorkerStates
<1>13. ReadyOK'
  <2>1. d.approved => Approved(r, v)'
    BY <1>4, <1>5, <1>11, Zenon DEF Approved
  <2> QED
    BY <1>12, <2>1 DEF ReadyOK, Approved
<1>14. AloneOK'
  <2>1. \A i \in Requests : ~Pends(i)
    BY <1>3, Zenon DEF ApprovedInv, AloneOK, Resting
  <2>2. \A a \in Approvers : approver'[a].pc = "claimed" => approver[a].pc = "claimed"
    BY <1>8 DEF WorkerWays
  <2> QED
    BY <1>7, <2>1, <2>2, AloneKept DEF ApprovedInv
<1>15. ReadOK'
  <2>1. \A a \in Approvers : approver'[a].pc \notin Reading
    BY <1>3, <1>8, NoReader DEF Resting, WorkerWays
  <2>2. \A i \in Requests' : ApprovalPending(i)' => log'[i].inv # Ask
    BY <1>7, AskKept DEF ApprovedInv
  <2> QED
    BY <2>1, <2>2 DEF ReadOK
<1>16. MadeOK'
  <2>1. \A i \in Requests : i \in Requests' /\ log'[i] = log[i]
    BY <1>1, <1>6, GrowsKeeps
  <2>2. Reuse(v, d) /\ perCall' = perCall
    BY <1>2 DEF RecordApproval, Inv
  <2>3. /\ \A u \in Guarded : perSession'[u] # NoDecision => Made(perSession'[u], u)
        /\ \A u \in Guarded : global'[u] # NoDecision => Made(global'[u], u)
    BY <1>1, <1>3, <2>2, ReuseMade DEF ApprovedInv
  <2>4. /\ \A u \in Guarded : perSession'[u] # NoDecision => Made(perSession[u], u)'
        /\ \A u \in Guarded : global'[u] # NoDecision => Made(global[u], u)'
    BY <2>1, <2>3 DEF Made
  <2>5. \A c \in Calls : perCall'[c].decision # NoDecision => Made(perCall[c].decision, perCall[c].inv)'
    BY <2>1, <2>2 DEF Made, ApprovedInv, MadeOK
  <2>6. \A j \in DOMAIN log' : log'[j].kind = "resolved" => Made(log[j].decision, log[j].inv)'
    <3> SUFFICES ASSUME NEW j \in DOMAIN log', log'[j].kind = "resolved"
                 PROVE  Made(log[j].decision, log[j].inv)'
      OBVIOUS
    <3>1. CASE j = n
      BY <1>3, <1>4, <1>5, <2>1, <3>1 DEF Made
    <3>2. CASE j \in DOMAIN log /\ log'[j] = log[j]
      <4>1. Made(log[j].decision, log[j].inv)
        BY <3>2 DEF ApprovedInv, MadeOK
      <4> QED
        BY <2>1, <3>2, <4>1 DEF Made
    <3> QED
      BY <1>5, <3>1, <3>2
  <2>7. \A a \in Approvers : approver'[a].pc = "claimed" => Made(approver[a].decision, approver[a].inv)'
    BY <1>8, <2>1 DEF Made, ApprovedInv, MadeOK, WorkerWays
  <2> QED
    BY <1>12, <2>4, <2>5, <2>6, <2>7 DEF MadeOK
<1> QED
  BY <1>10, <1>13, <1>14, <1>15, <1>16 DEF ApprovedInv

(* A request for an operator's decision is the only one that waits. *)
LEMMA RequestApprovalApproved ==
    ASSUME ToolInv, ToolInv', ApprovedInv, RequestApproval
    PROVE  ApprovedInv'
<1>1. LogOK /\ IsLog /\ worker \in WorkerStates
  BY DEF ToolInv, ProcessOK, LogOK, IsLog
<1>2. PICK r, v : r = worker.req /\ v = worker.inv
  OBVIOUS
<1>3. worker.pc = "ask" /\ Holds(r, v) /\ v \in Guarded
  BY <1>2 DEF RequestApproval, ApprovedInv, HoldsOK, Busy, Before, Asking
<1>4. PICK e : log' = Append(log, e) /\ e.kind = "approval" /\ e.call = log[r].call
  BY <1>2 DEF RequestApproval, Append1, Approval, Call
<1>5. IsLog' /\ Grows /\ NewKinds({"approval"})
  BY <1>1, <1>4, AppendsKind
<1>6. NoNewCalls /\ NewKinds(Undecided) /\ Requests' \subseteq Requests
  <2>1. Requests' \subseteq Requests
    BY <1>1, <1>4, AppendedOne DEF Requests
  <2> QED
    BY <1>5, <2>1 DEF NoNewCalls, NewKinds, Undecided
<1>7. /\ worker'.pc = "pause" /\ effects' = effects
      /\ UNCHANGED <<approver, operator, perCall, perSession, global>>
  BY <1>1 DEF RequestApproval, Go, WorkerStates, handlers, grants
<1>8. Carries /\ ApproverCarries /\ OperatorCarries /\ UNCHANGED grants
  BY <1>7 DEF Carries, ApproverCarries, OperatorCarries, Busy, Before, Asking, grants
<1>9. HoldsOK' /\ MadeOK' /\ RanOK' /\ ClaimOK' /\ ReadyOK'
  BY <1>5, <1>6, <1>7, <1>8, HoldsKept, MadeKept, RanKept, ClaimKept, ReadyKept DEF ApprovedInv
<1>10. \A i \in Requests : i # r => (ApprovalPending(i)' => ApprovalPending(i))
  BY <1>1, <1>3, <1>4, AskedOnly DEF Holds
<1>11. \A i \in Requests' : Pends(i)' => i = r
  <2> SUFFICES ASSUME NEW i \in Requests', Pends(i)', i # r PROVE FALSE
    OBVIOUS
  <2>1. i \in Requests /\ Pends(i)
    BY <1>1, <1>5, <1>6, <1>10, PendsOld
  <2> QED
    BY <1>3, <2>1, Zenon DEF ApprovedInv, AloneOK, Resting
<1>12. AloneOK'
  <2>1. \A a \in Approvers : approver'[a].pc # "claimed"
    BY <1>3, <1>7 DEF ToolInv, ApproverOK
  <2> QED
    BY <1>7, <1>11, <2>1 DEF AloneOK, Resting
<1>13. ReadOK'
  <2>1. \A a \in Approvers : approver'[a].pc \notin Reading
    BY <1>3, <1>7, NoReader DEF Resting
  <2>2. \A i \in Requests' : ApprovalPending(i)' => log'[i].inv # Ask
    <3> SUFFICES ASSUME NEW i \in Requests', ApprovalPending(i)' PROVE log'[i].inv # Ask
      OBVIOUS
    <3>1. i \in Requests /\ log'[i] = log[i]
      BY <1>1, <1>5, <1>6, GrowsKeeps
    <3>2. CASE i = r
      BY <1>3, <3>1, <3>2, ToolAssumption DEF Holds
    <3>3. CASE i # r
      BY <1>10, <3>1, <3>3 DEF ApprovedInv, ReadOK
    <3> QED
      BY <3>2, <3>3
  <2> QED
    BY <2>1, <2>2 DEF ReadOK
<1> QED
  BY <1>9, <1>12, <1>13 DEF ApprovedInv

(* A new request waits at most for an answer, and the worker has it. *)
LEMMA NewToolApproved ==
    ASSUME ToolInv, ToolInv', ApprovedInv, NewTool
    PROVE  ApprovedInv'
<1>1. /\ LogOK /\ IsLog /\ worker \in WorkerStates /\ worker.pc = "next" /\ worker.todo # <<>>
      /\ worker.todo \in Seq(Calls \X Invocations)
  BY DEF ToolInv, ProcessOK, LogOK, IsLog, WorkerStates, NewTool, RequestTool
<1>2. PICK c \in Calls, v \in Invocations : c = worker.todo[1][1] /\ v = worker.todo[1][2]
  <2>1. worker.todo[1] \in Calls \X Invocations
    BY <1>1, EmptySeq, LenProperties, ElementOfSeq
  <2> QED
    BY <2>1
<1>3. PICK n : n = Len(log) + 1
  OBVIOUS
<1>4. /\ log' = Append(log, Requested(c, active, v))
      /\ worker' = [worker EXCEPT !.pc = "requested", !.todo = Tail(@), !.req = n, !.inv = v]
      /\ UNCHANGED <<approver, operator, perCall, perSession, global, effects>>
  BY <1>2, <1>3 DEF NewTool, RequestTool, Append1, handlers, grants
<1>5. PICK e : log' = Append(log, e) /\ e.kind = "requested" /\ e.call = c /\ e.inv = v
  BY <1>4 DEF Requested
<1>6. worker'.pc = "requested" /\ worker'.req = n /\ worker'.inv = v
  BY <1>1, <1>4 DEF WorkerStates
<1>7. /\ Requests' = Requests \cup {n} /\ log'[n] = e /\ n \in Nat /\ ~ApprovalPending(n)'
      /\ \A i \in Requests : i < n /\ i \in Nat /\ log'[i] = log[i]
  BY <1>1, <1>3, <1>4, <1>5, NewRequest, LogFacts DEF ToolInv
<1>8. IsLog' /\ Grows /\ NewKinds({"requested"})
  BY <1>1, <1>5, AppendsKind
<1>9. NewKinds(Undecided) /\ Unasked
  BY <1>8 DEF NewKinds, Undecided, Unasked
<1>10. \A i \in Requests : ApprovalPending(i)' => ApprovalPending(i)
  BY <1>1, <1>8, <1>9, PendingStable DEF Unasked
<1>11. \A a \in Approvers : approver'[a].pc # "claimed"
  BY <1>1, <1>4 DEF ToolInv, ApproverOK
<1>12. HoldsOK'
  <2>1. \A k \in Requests' : k <= n
    BY <1>7
  <2>2. Holds(n, v)'
    BY <1>5, <1>7, <2>1 DEF Holds, Newest
  <2>3. Holds(worker.req, worker.inv)'
    BY <1>6, <2>2 DEF Holds, Newest
  <2>4. operator'.pc # "idle" => log'[operator'.req].turn = None
    BY <1>4, <1>7 DEF ToolInv, OperatorOK, ApprovedInv, HoldsOK
  <2> QED
    BY <1>6, <1>11, <2>3, <2>4 DEF HoldsOK
<1>13. MadeOK' /\ RanOK' /\ ClaimOK' /\ ReadyOK'
  BY <1>4, <1>6, <1>8, <1>9, <1>11, MadeKept, RanKept, ClaimKept, ReadyKept
     DEF ApprovedInv, ApproverCarries, grants
<1>14. \A i \in Requests' : Pends(i)' => i = n /\ v = Ask
  <2> SUFFICES ASSUME NEW i \in Requests', Pends(i)' PROVE i = n /\ v = Ask
    OBVIOUS
  <2>1. CASE i \in Requests
    <3>1. Pends(i)
      BY <1>1, <1>8, <1>10, <2>1, PendsOld
    <3> QED
      BY <1>1, <2>1, <3>1, Zenon DEF ApprovedInv, AloneOK, Resting
  <2>2. CASE i = n
    BY <1>5, <1>7, <2>2 DEF Pends, InputPending
  <2> QED
    BY <1>7, <2>1, <2>2
<1>15. AloneOK'
  <2>1. v = Ask => worker'.inv = Ask
    BY <1>6
  <2> QED
    BY <1>6, <1>11, <1>14, <2>1 DEF AloneOK
<1>16. ReadOK'
  <2>1. \A a \in Approvers : approver'[a].pc \notin Reading
    BY <1>1, <1>4, NoReader DEF Resting
  <2>2. \A i \in Requests' : ApprovalPending(i)' => log'[i].inv # Ask
    BY <1>7, <1>10 DEF ApprovedInv, ReadOK
  <2> QED
    BY <2>1, <2>2 DEF ReadOK
<1> QED
  BY <1>12, <1>13, <1>15, <1>16 DEF ApprovedInv

(* A turn that starts has nothing in hand yet. *)
LEMMA StartsApproved ==
    ASSUME ToolInv, ToolInv', ApprovedInv, Calm, worker'.pc = "model",
           UNCHANGED <<approver, operator, perCall, perSession, global, effects>>,
           \A i \in Requests : Pends(i) => ~Pends(i)'
    PROVE  ApprovedInv'
<1>1. NoNewCalls /\ Unasked /\ IsLog' /\ Grows /\ NewKinds(Undecided)
  BY CalmPending DEF Calm, NewKinds, Undecided, ToolInv
<1>2. Carries /\ ApproverCarries /\ OperatorCarries /\ UNCHANGED grants
  BY DEF Carries, ApproverCarries, OperatorCarries, Busy, Before, Asking, grants
<1>3. HoldsOK' /\ MadeOK' /\ RanOK' /\ ClaimOK' /\ ReadyOK'
  BY <1>1, <1>2, HoldsKept, MadeKept, RanKept, ClaimKept, ReadyKept DEF ApprovedInv
<1>4. AloneOK'
  BY <1>1, AloneKept DEF ApprovedInv
<1>5. ReadOK'
  BY ReadKept DEF ApprovedInv
<1> QED
  BY <1>3, <1>4, <1>5 DEF ApprovedInv

LEMMA StartTurnApproved ==
    ASSUME ToolInv, ToolInv', ApprovedInv, StartTurn
    PROVE  ApprovedInv'
<1>1. LogOK /\ IsLog /\ Requests \subseteq Nat \ {None}
  BY LogFacts DEF ToolInv, LogOK, IsLog, None
<1>2. Calm
  BY <1>1, AppendCalm DEF StartTurn, Append1, Started
<1>3. /\ UNCHANGED <<approver, operator, perCall, perSession, global, effects>>
      /\ worker'.pc = "model"
  BY DEF StartTurn, handlers, grants, Idle
<1>4. ASSUME NEW i \in Requests, Pends(i) PROVE FALSE
  <2>1. log[i].call \in Calls /\ Current(log[i].call) = i /\ i # None
    BY <1>1, <1>4, CurrentIs DEF Pends
  <2>2. log[i].call \in PendingCalls
    BY <1>4, <2>1 DEF Pends, PendingCalls
  <2> QED
    BY <2>2 DEF StartTurn
<1> QED
  BY <1>2, <1>3, <1>4, StartsApproved

(* The answer of an operator ends the wait for it. *)
LEMMA AnswerToolApproved ==
    ASSUME ToolInv, ToolInv', ApprovedInv, AnswerTool
    PROVE  ApprovedInv'
<1>1. LogOK /\ IsLog
  BY DEF ToolInv, LogOK, IsLog
<1>2. Calm
  BY <1>1, AnswerCalm
<1>3. /\ UNCHANGED <<approver, operator, perCall, perSession, global, effects>>
      /\ worker'.pc = "model"
  BY DEF AnswerTool, handlers, grants, Idle
<1>4. ASSUME NEW i \in Requests, Pends(i) PROVE ~Pends(i)'
  <2> DEFINE t == TurnsStarted + 1
  <2>1. PICK c \in Calls : /\ Current(c) # None /\ InputPending(Current(c))
                           /\ log' = log \o <<Started(t, Current(c)), Finished(c, t, "returned")>>
    BY DEF AnswerTool
  <2> HIDE DEF t
  <2>2. PICK k : k = Current(c)
    OBVIOUS
  <2>3. k \in Requests /\ log[k].call = c /\ Newest(k) /\ log[k].inv = Ask
    BY <1>1, <2>1, <2>2, CurrentFacts DEF InputPending
  <2>4. k = i
    <3>1. Pends(k)
      BY <2>1, <2>2, <2>3 DEF Pends
    <3> QED
      BY <1>4, <2>3, <3>1 DEF ApprovedInv, AloneOK
  <2>5. PICK e, f, q : e = Started(t, k) /\ f = Finished(c, t, "returned") /\ q = <<e, f>>
    OBVIOUS
  <2>6. e.kind = "started" /\ f.kind = "finished" /\ f.call = c /\ log' = log \o q
    BY <2>1, <2>2, <2>5 DEF Started, Finished
  <2>7. q \in Seq({e, f}) /\ Len(q) = 2 /\ q[1] = e /\ q[2] = f
    BY <2>5
  <2>8. IsLog' /\ Grows /\ NewKinds({"started", "finished", "turnFinished"})
    <3>1. \A x \in 1..Len(q) : q[x].kind \in {"started", "finished", "turnFinished"}
      BY <2>6, <2>7
    <3> QED
      BY <1>1, <2>6, <2>7, <3>1, ConcatKinds
  <2>9. PICK n \in DOMAIN log' : n > Len(log) /\ log'[n] = f
    <3>1. /\ Len(log') = Len(log) + Len(q) /\ \A x \in 1..Len(q) : log'[Len(log) + x] = q[x]
      BY <1>1, <2>6, <2>7, ConcatGrows
    <3>2. Len(log) \in Nat /\ DOMAIN log' = 1..Len(log')
      BY <1>1, <2>8, LogFacts, LenProperties DEF IsLog
    <3> QED
      BY <2>7, <3>1, <3>2
  <2>10. Of(i, "finished")' # {}
    BY <1>1, <2>3, <2>4, <2>6, <2>8, <2>9, ResultOf
  <2>11. ~ApprovalPending(i)'
    <3>1. log'[i] = log[i] /\ i \in Requests'
      BY <1>1, <2>8, GrowsKeeps
    <3>2. ~ApprovalPending(i)
      BY <2>3, <2>4 DEF ApprovedInv, ReadOK
    <3>3. Unasked
      BY <2>8 DEF Unasked, NewKinds
    <3> QED
      BY <1>1, <2>8, <3>2, <3>3, PendingStable DEF Unasked
  <2> QED
    BY <2>10, <2>11 DEF Pends, InputPending
<1> QED
  BY <1>2, <1>3, <1>4, StartsApproved

(* A step beside the worker that claims nothing. *)
LEMMA BesideApproved ==
    ASSUME ToolInv, ToolInv', ApprovedInv, Calm, worker' = worker, UNCHANGED grants,
           ApproverCarries, OperatorCarries, RanOK', ReadOK'
    PROVE  ApprovedInv'
<1>1. NoNewCalls /\ Unasked /\ IsLog' /\ Grows /\ NewKinds(Undecided)
  BY CalmPending DEF Calm, NewKinds, Undecided, ToolInv
<1>2. Carries
  BY DEF Carries
<1>3. HoldsOK' /\ MadeOK' /\ ClaimOK' /\ ReadyOK'
  BY <1>1, <1>2, HoldsKept, MadeKept, ClaimKept, ReadyKept DEF ApprovedInv
<1>4. AloneOK'
  <2>1. \A i \in Requests : Pends(i) =>
           \/ worker'.pc \in Resting
           \/ worker'.pc \in {"requested", "terminal"} /\ worker'.inv = Ask /\ worker'.req = i
    BY Zenon DEF ApprovedInv, AloneOK
  <2>2. \A a \in Approvers : approver'[a].pc = "claimed" => approver[a].pc = "claimed"
    BY DEF ApproverCarries
  <2> QED
    BY <1>1, <2>1, <2>2, AloneKept DEF ApprovedInv
<1> QED
  BY <1>3, <1>4 DEF ApprovedInv

LEMMA SwitchesApproved ==
    ASSUME ToolInv, ToolInv', ApprovedInv, SetAutoApproval \/ CancelSession \/ UNCHANGED vars
    PROVE  ApprovedInv'
<1>1. /\ UNCHANGED <<log, worker, approver, operator, perCall, perSession, global, effects>>
      /\ IsLog /\ LogOK
  BY DEF SetAutoApproval, CancelSession, handlers, grants, vars, ToolInv, LogOK, IsLog
<1>2. Calm
  BY <1>1, SameLogCalm
<1>3. RanOK' /\ ReadOK'
  BY <1>1, <1>2, RanKept, ReadKept DEF ApprovedInv, Calm
<1> QED
  BY <1>1, <1>2, <1>3, BesideApproved DEF grants, ApproverCarries, OperatorCarries

(* What the operator runs is no call of the model's. *)
LEMMA OperatorApproved ==
    ASSUME ToolInv, ToolInv', ApprovedInv, OperatorStep
    PROVE  ApprovedInv'
<1>1. /\ UNCHANGED <<worker, approver, perCall, perSession, global>>
      /\ operator \in OperatorStates /\ IsLog /\ LogOK
  BY DEF OperatorStep, OperatorRequests, OperatorExecutes, OperatorRecords, OperatorFault,
         OperatorGone, grants, ToolInv, ProcessOK, LogOK, IsLog
<1>2. Calm
  BY <1>1, OperatorCalm
<1>3. ReadOK'
  BY <1>1, <1>2, ReadKept DEF ApprovedInv
<1>4. RanOK' /\ OperatorCarries
  <2>1. CASE OperatorRequests
    <3>1. PICK v : log' = Append(log, Requested(Len(log) + 1, None, v))
      BY <2>1 DEF OperatorRequests, Append1
    <3>2. PICK e : e = Requested(Len(log) + 1, None, v)
      OBVIOUS
    <3>3. log'[Len(log) + 1] = e /\ e.turn = None
      BY <1>1, <3>1, <3>2, AppendGrows DEF Requested
    <3>4. operator'.req = Len(log) + 1 /\ effects' = effects
      BY <2>1 DEF OperatorRequests
    <3> QED
      BY <1>2, <3>3, <3>4, RanKept DEF ApprovedInv, Calm, OperatorCarries
  <2>2. CASE OperatorExecutes
    <3>1. /\ operator.pc = "execute" /\ log' = log
          /\ effects' = Append(effects, <<operator.req, log[operator.req].inv>>)
          /\ operator'.req = operator.req
      BY <1>1, <2>2 DEF OperatorExecutes, OperatorStates
    <3>2. PICK r \in Requests : r = operator.req /\ log[r].turn = None
      BY <3>1 DEF ToolInv, OperatorOK, ApprovedInv, HoldsOK
    <3>3. PICK v \in Invocations : v = log[r].inv
      BY <1>1 DEF LogOK
    <3>4. effects' = Append(effects, <<r, v>>)
      BY <3>1, <3>2, <3>3
    <3>5. RanOK'
      BY <3>1, <3>2, <3>4, RunsOne DEF ApprovedInv
    <3> QED
      BY <3>1, <3>5 DEF OperatorCarries
  <2>3. CASE OperatorRecords \/ OperatorFault \/ OperatorGone
    <3>1. /\ effects' = effects
          /\ operator'.pc # "idle" => operator.pc # "idle" /\ operator'.req = operator.req
      BY <1>1, <2>3 DEF OperatorRecords, OperatorFault, OperatorGone, NoOperator, OperatorStates
    <3> QED
      BY <1>2, <3>1, RanKept DEF ApprovedInv, Calm, OperatorCarries
  <2> QED
    BY <2>1, <2>2, <2>3 DEF OperatorStep
<1> QED
  BY <1>1, <1>2, <1>3, <1>4, BesideApproved DEF grants, ApproverCarries

(* A handler reads the call that waits and identifies its request. *)
LEMMA ReadersApproved ==
    ASSUME ToolInv, ToolInv', ApprovedInv, NEW a \in Approvers,
           ApproveReads(a) \/ ApproveIdentifies(a)
    PROVE  ApprovedInv'
<1>1. /\ UNCHANGED <<log, worker, operator, perCall, perSession, global, effects>>
      /\ IsLog /\ LogOK /\ approver \in [Approvers -> HandlerStates]
  BY DEF ApproveReads, ApproveIdentifies, grants, ToolInv, ProcessOK, LogOK, IsLog
<1>2. Calm
  BY <1>1, SameLogCalm
<1>3. RanOK' /\ OperatorCarries /\ UNCHANGED grants
  BY <1>1, <1>2, RanKept DEF ApprovedInv, Calm, OperatorCarries, grants
<1>4. CASE ApproveReads(a)
  <2>1. PICK c \in Calls, d \in HumanDecisions :
            /\ Current(c) # None /\ ApprovalPending(Current(c))
            /\ approver' = [approver EXCEPT ![a] =
                   [NoHandler EXCEPT !.pc = "read", !.call = c, !.inv = log[Current(c)].inv,
                            !.decision = Decision(d.approved, d.scope, "human", None)]]
    BY <1>4 DEF ApproveReads, Handler
  <2>2. PICK k : k = Current(c)
    OBVIOUS
  <2>3. k \in Requests /\ log[k].call = c /\ Newest(k) /\ ApprovalPending(k)
    BY <1>1, <2>1, <2>2, CurrentFacts
  <2>4. /\ approver'[a].pc = "read" /\ approver'[a].call = c /\ approver'[a].inv = log[k].inv
        /\ \A b \in Approvers : b # a => approver'[b] = approver[b]
    BY <1>1, <2>1, <2>2 DEF NoHandler
  <2>5. ApproverCarries
    BY <2>4 DEF ApproverCarries
  <2>6. /\ NoNewCalls /\ Unasked /\ \A i \in Requests : ApprovalPending(i) => ApprovalPending(i)'
        /\ Requests' = Requests /\ \A i, u : Holds(i, u) => Holds(i, u)'
    BY <1>1, <1>2, CalmPending, CallsKept DEF Requests
  <2>7. \A b \in Approvers : approver'[b].pc \in Reading =>
            \E i \in Requests : /\ Holds(i, approver'[b].inv) /\ ApprovalPending(i)
                                /\ log[i].call = approver'[b].call
    <3>1. Holds(k, log[k].inv)
      BY <2>3 DEF Holds
    <3>2. ASSUME NEW b \in Approvers, b # a, approver'[b].pc \in Reading
          PROVE  \E i \in Requests : /\ Holds(i, approver'[b].inv) /\ ApprovalPending(i)
                                     /\ log[i].call = approver'[b].call
      BY <2>4, <3>2 DEF ApprovedInv, ReadOK
    <3> QED
      BY <2>3, <2>4, <3>1, <3>2
  <2>8. \A b \in Approvers : approver'[b].pc \in Reading =>
            \E i \in Requests' : /\ Holds(i, approver[b].inv)' /\ ApprovalPending(i)'
                                 /\ log'[i].call = approver'[b].call
    <3> SUFFICES ASSUME NEW b \in Approvers, approver'[b].pc \in Reading
                 PROVE  \E i \in Requests' : /\ Holds(i, approver[b].inv)' /\ ApprovalPending(i)'
                                             /\ log'[i].call = approver'[b].call
      OBVIOUS
    <3>1. PICK u : u = approver'[b].inv
      OBVIOUS
    <3>2. PICK i \in Requests : Holds(i, u) /\ ApprovalPending(i) /\ log[i].call = approver'[b].call
      BY <2>7, <3>1
    <3>3. Holds(i, u)' /\ ApprovalPending(i)' /\ i \in Requests' /\ log'[i].call = approver'[b].call
      BY <1>1, <2>6, <3>2
    <3>4. Holds(i, approver[b].inv)'
      BY <3>1, <3>3 DEF Holds, Newest
    <3> QED
      BY <3>3, <3>4
  <2>9. \A i \in Requests' : ApprovalPending(i)' => log'[i].inv # Ask
    BY <2>6, AskKept DEF ApprovedInv
  <2>10. ReadOK'
    BY <2>8, <2>9 DEF ReadOK
  <2> QED
    BY <1>1, <1>2, <1>3, <2>5, <2>10, BesideApproved
<1>5. CASE ApproveIdentifies(a)
  <2>1. PICK h \in HandlerStates : h = approver[a]
    BY <1>1
  <2>2. /\ approver[a].pc = "read"
        /\ \E g : /\ approver' = [approver EXCEPT ![a] = g] /\ g.pc \in {"idle", "identified"}
                  /\ g.pc = "identified" => g.call = approver[a].call /\ g.inv = approver[a].inv
    <3>1. PICK i : i = Current(approver[a].call)
      OBVIOUS
    <3>2. PICK g : g = [h EXCEPT !.pc = "identified", !.req = i]
      OBVIOUS
    <3>3. g.pc = "identified" /\ g.call = h.call /\ g.inv = h.inv /\ NoHandler.pc = "idle"
      BY <3>2 DEF HandlerStates, NoHandler
    <3>4. approver' = [approver EXCEPT ![a] = g] \/ approver' = [approver EXCEPT ![a] = NoHandler]
      BY <1>5, <2>1, <3>1, <3>2, Zenon DEF ApproveIdentifies, Handler
    <3>5. approver[a].pc = "read"
      BY <1>5 DEF ApproveIdentifies
    <3> QED
      BY <2>1, <3>3, <3>4, <3>5
  <2>3. /\ \A b \in Approvers : b # a => approver'[b] = approver[b]
        /\ approver'[a].pc \in {"idle", "identified"}
        /\ approver'[a].pc = "identified" =>
              approver'[a].call = approver[a].call /\ approver'[a].inv = approver[a].inv
    BY <1>1, <2>2
  <2>4. ApproverCarries
    BY <2>3 DEF ApproverCarries
  <2>5. ReadOK'
    BY <1>2, <2>2, <2>3, ReadKept DEF ApprovedInv, Reading
  <2> QED
    BY <1>1, <1>2, <1>3, <2>4, <2>5, BesideApproved
<1> QED
  BY <1>4, <1>5

(* A claim finds the request whose arguments the handler has read, unless  *)
(* another handler had it decided in between.                              *)
LEMMA ClaimsApproved ==
    ASSUME ToolInv, ToolInv', ApprovedInv, \A x, y \in Approvers : x = y,
           NEW a \in Approvers, ApproveClaims(a)
    PROVE  ApprovedInv'
<1>1. /\ UNCHANGED <<worker, operator, perCall, perSession, global, effects>>
      /\ approver[a].pc = "identified"
      /\ IsLog /\ LogOK /\ approver \in [Approvers -> HandlerStates]
  BY DEF ApproveClaims, grants, ToolInv, ProcessOK, LogOK, IsLog
<1>2. PICK h \in HandlerStates : h = approver[a] /\ h.pc = "identified"
  BY <1>1
<1>3. CASE approver' = [approver EXCEPT ![a] = NoHandler] /\ log' = log
  <2>1. Calm
    BY <1>1, <1>3, SameLogCalm
  <2>2. \A b \in Approvers : approver'[b].pc = "idle" \/ approver'[b] = approver[b]
    BY <1>1, <1>3 DEF NoHandler
  <2>3. RanOK'
    BY <1>1, <2>1, RanKept DEF ApprovedInv, Calm
  <2>4. ReadOK'
    BY <2>1, <2>2, ReadKept DEF ApprovedInv, Reading
  <2> QED
    BY <1>1, <2>1, <2>2, <2>3, <2>4, BesideApproved DEF ApproverCarries, OperatorCarries, grants
<1>4. PICK t, d : t = TurnsStarted + 1 /\ d = [h.decision EXCEPT !.for = h.req]
  OBVIOUS
<1>5. CASE /\ MayResume(h.call, h.req) /\ worker.pc = "off"
           /\ log' = log \o <<Started(t, h.req), Resolved(h.call, t, h.inv, d)>>
           /\ approver' = [approver EXCEPT ![a] = [h EXCEPT !.pc = "claimed", !.turn = t, !.decision = d]]
  <2>1. PICK v : v = h.inv
    OBVIOUS
  <2>2. PICK i \in Requests : Holds(i, v) /\ ApprovalPending(i) /\ log[i].call = h.call
    BY <1>2, <2>1 DEF ApprovedInv, ReadOK, Reading
  <2>3. h.req = i
    BY <1>1, <1>5, <2>2, CurrentIs DEF MayResume, Holds
  <2>4. d.for = i /\ Made(d, v)
    BY <1>2, <1>4, <2>2, <2>3 DEF Made, Holds, HandlerStates, Decisions
  <2>5. PICK e, f, q : e = Started(t, h.req) /\ f = Resolved(h.call, t, v, d) /\ q = <<e, f>>
    OBVIOUS
  <2>6. /\ e.kind = "started" /\ f.kind = "resolved" /\ f.call = log[i].call
        /\ f.inv = v /\ f.decision = d /\ log' = log \o q
    BY <1>5, <2>1, <2>2, <2>5 DEF Started, Resolved
  <2>7. q \in Seq({e, f}) /\ Len(q) = 2 /\ q[1] = e /\ q[2] = f
    BY <2>5
  <2>8. IsLog' /\ Grows /\ NewKinds({"started", "resolved"})
    <3>1. \A x \in 1..Len(q) : q[x].kind \in {"started", "resolved"}
      BY <2>6, <2>7
    <3> QED
      BY <1>1, <2>6, <2>7, <3>1, ConcatKinds
  <2>9. PICK n \in DOMAIN log' :
            /\ n > Len(log) /\ log'[n] = f
            /\ \A j \in DOMAIN log' : \/ j \in DOMAIN log /\ log'[j] = log[j]
                                      \/ j = n \/ log'[j] = e
    <3>1. /\ Len(log') = Len(log) + 2
          /\ log'[Len(log) + 1] = e /\ log'[Len(log) + 2] = f
      <4>1. /\ Len(log') = Len(log) + Len(q) /\ \A x \in 1..Len(q) : log'[Len(log) + x] = q[x]
        BY <1>1, <2>6, <2>7, ConcatGrows
      <4> QED
        BY <2>7, <4>1
    <3>2. Len(log) \in Nat /\ DOMAIN log = 1..Len(log) /\ DOMAIN log' = 1..Len(log) + 2
      BY <1>1, <2>8, <3>1, LogFacts, LenProperties DEF IsLog
    <3>3. \A j \in DOMAIN log' : j \in DOMAIN log \/ j = Len(log) + 1 \/ j = Len(log) + 2
      BY <3>2
    <3> QED
      BY <2>8, <3>1, <3>2, <3>3 DEF Grows
  <2>10. n \in Of(i, "resolved")' /\ ~ApprovalPending(i)'
    <3>1. NewKinds({"started", "resolved", "finished", "turnFinished"})
      BY <2>8, KindsWider
    <3> QED
      BY <1>1, <2>2, <2>6, <2>8, <2>9, <3>1, ResolvedNotPending DEF Holds
  <2>11. NoNewCalls /\ Unasked
    BY <2>8 DEF NoNewCalls, Unasked, NewKinds
  <2>12. /\ approver'[a].pc = "claimed" /\ approver'[a].req = i /\ approver'[a].inv = v
         /\ approver'[a].decision = d
         /\ \A b \in Approvers : b = a
    BY <1>1, <1>5, <2>1, <2>3 DEF HandlerStates
  <2>13. \A k \in Requests : k \in Requests' /\ log'[k] = log[k]
    BY <1>1, <2>8, GrowsKeeps
  <2>14. HoldsOK'
    <3>1. Holds(i, v)'
      BY <1>1, <2>2, <2>11, CallsKept
    <3>2. Holds(approver[a].req, approver[a].inv)'
      BY <2>12, <3>1 DEF Holds, Newest
    <3>3. operator'.pc # "idle" => log'[operator'.req].turn = None
      BY <1>1, <2>13 DEF ApprovedInv, HoldsOK, ToolInv, OperatorOK
    <3> QED
      BY <1>1, <1>5, <2>12, <3>2, <3>3 DEF HoldsOK, Busy, Before, Asking
  <2>15. MadeOK'
    <3>1. /\ \A u \in Guarded : perSession'[u] # NoDecision => Made(perSession[u], u)'
          /\ \A u \in Guarded : global'[u] # NoDecision => Made(global[u], u)'
          /\ \A c \in Calls : perCall'[c].decision # NoDecision => Made(perCall[c].decision, perCall[c].inv)'
      BY <1>1, <2>13 DEF ApprovedInv, MadeOK, Made
    <3>2. \A j \in DOMAIN log' : log'[j].kind = "resolved" => Made(log[j].decision, log[j].inv)'
      <4> SUFFICES ASSUME NEW j \in DOMAIN log', log'[j].kind = "resolved"
                   PROVE  Made(log[j].decision, log[j].inv)'
        OBVIOUS
      <4>1. CASE j = n
        BY <2>4, <2>6, <2>9, <2>13, <4>1 DEF Made
      <4>2. CASE j \in DOMAIN log /\ log'[j] = log[j]
        <5>1. Made(log[j].decision, log[j].inv)
          BY <4>2 DEF ApprovedInv, MadeOK
        <5> QED
          BY <2>13, <4>2, <5>1 DEF Made
      <4> QED
        BY <2>6, <2>9, <4>1, <4>2
    <3>3. \A b \in Approvers : approver'[b].pc = "claimed" => Made(approver[b].decision, approver[b].inv)'
      BY <2>4, <2>12, <2>13 DEF Made
    <3> QED
      BY <1>1, <1>5, <3>1, <3>2, <3>3 DEF MadeOK
  <2>16. RanOK' /\ ReadyOK'
    BY <1>1, <1>5, <2>8, RanKept, ReadyKept DEF ApprovedInv
  <2>17. ClaimOK'
    <3>1. d.approved => Approved(i, v)'
      BY <2>6, <2>9, <2>10, Zenon DEF Approved
    <3> QED
      BY <2>12, <3>1 DEF ClaimOK, Approved
  <2>18. AloneOK'
    <3> SUFFICES ASSUME NEW k \in Requests', Pends(k)' PROVE FALSE
      BY DEF AloneOK
    <3>1. Pends(k) /\ k \in Requests
      BY <1>1, <2>11, PendsKept
    <3>2. Pends(i) /\ log[i].inv # Ask
      BY <2>2 DEF Pends, Holds, ApprovedInv, ReadOK
    <3>3. k = i
      BY <3>1, <3>2 DEF ApprovedInv, AloneOK
    <3> QED
      BY <2>10, <2>13, <3>2, <3>3 DEF Pends, InputPending
  <2>19. ReadOK'
    <3>1. \A k \in Requests' : ApprovalPending(k)' => log'[k].inv # Ask
      BY <2>11, AskKept DEF ApprovedInv
    <3> QED
      BY <2>12, <3>1 DEF ReadOK, Reading
  <2> QED
    BY <2>14, <2>15, <2>16, <2>17, <2>18, <2>19 DEF ApprovedInv
<1> QED
  BY <1>2, <1>3, <1>4, <1>5 DEF ApproveClaims, Handler

(* The resumed turn has the request that was claimed, as it was read. *)
LEMMA DetachesApproved ==
    ASSUME ToolInv, ToolInv', ApprovedInv, NEW a \in Approvers, ApproveDetaches(a)
    PROVE  ApprovedInv'
<1>1. /\ UNCHANGED <<log, operator, perCall, effects>> /\ approver[a].pc = "claimed"
      /\ IsLog /\ LogOK /\ GrantsTyped /\ approver \in [Approvers -> HandlerStates]
  BY DEF ApproveDetaches, ToolInv, ProcessOK, LogOK, IsLog, GrantsTyped
<1>2. PICK r, v, d : r = approver[a].req /\ v = approver[a].inv /\ d = approver[a].decision
  OBVIOUS
<1>3. Holds(r, v) /\ Made(d, v) /\ (d.approved => Approved(r, v))
  BY <1>1, <1>2 DEF ApprovedInv, HoldsOK, MadeOK, ClaimOK
<1>4. /\ Reuse(v, d) /\ worker'.pc = "resume" /\ worker'.req = r /\ worker'.inv = v
      /\ worker'.decision = d /\ approver' = [approver EXCEPT ![a] = NoHandler]
  BY <1>2 DEF ApproveDetaches, Handler, Idle
<1>5. Calm
  BY <1>1, SameLogCalm
<1>6. NoNewCalls /\ Unasked /\ IsLog' /\ Grows
  BY <1>1, <1>5, CalmPending DEF Calm
<1>7. \A b \in Approvers : /\ approver'[b].pc # "claimed"
                           /\ approver'[b].pc = "idle" \/ approver'[b] = approver[b]
  <2>1. /\ NoHandler.pc = "idle"
        /\ \A b \in Approvers : approver'[b] = IF b = a THEN NoHandler ELSE approver[b]
    BY <1>1, <1>4 DEF NoHandler
  <2>2. \A b \in Approvers : approver[b].pc = "claimed" => b = a
    BY <1>1 DEF ToolInv, ApproverOK
  <2> QED
    BY <2>1, <2>2
<1>8. HoldsOK'
  <2>1. Holds(r, v)'
    BY <1>1, <1>3, <1>6, CallsKept
  <2>2. Holds(worker.req, worker.inv)'
    BY <1>4, <2>1 DEF Holds, Newest
  <2> QED
    BY <1>1, <1>4, <1>7, <2>2 DEF ApprovedInv, HoldsOK
<1>9. MadeOK'
  <2>1. /\ \A u \in Guarded : perSession'[u] # NoDecision => Made(perSession'[u], u)
        /\ \A u \in Guarded : global'[u] # NoDecision => Made(global'[u], u)
    BY <1>1, <1>3, <1>4, ReuseMade DEF ApprovedInv
  <2>2. /\ \A u \in Guarded : perSession'[u] # NoDecision => Made(perSession[u], u)'
        /\ \A u \in Guarded : global'[u] # NoDecision => Made(global[u], u)'
    BY <1>1, <2>1 DEF Made, Requests
  <2>3. /\ \A c \in Calls : perCall'[c].decision # NoDecision => Made(perCall[c].decision, perCall[c].inv)'
        /\ \A j \in DOMAIN log' : log'[j].kind = "resolved" => Made(log[j].decision, log[j].inv)'
    BY <1>1 DEF ApprovedInv, MadeOK, Made, Requests
  <2> QED
    BY <1>4, <1>7, <2>2, <2>3 DEF MadeOK
<1>10. RanOK' /\ ClaimOK'
  BY <1>1, <1>6, <1>7, RanKept, ClaimKept DEF ApprovedInv, ApproverCarries
<1>11. ReadyOK'
  <2>1. d.approved => Approved(r, v)'
    BY <1>1, <1>3, <1>6, GrowsKeeps DEF Holds
  <2> QED
    BY <1>4, <2>1 DEF ReadyOK, Approved
<1>12. AloneOK'
  <2>1. \A i \in Requests : ~Pends(i)
    BY <1>1, Zenon DEF ApprovedInv, AloneOK
  <2> QED
    BY <1>6, <1>7, <2>1, AloneKept DEF ApprovedInv
<1>13. ReadOK'
  BY <1>5, <1>7, ReadKept DEF ApprovedInv, Reading
<1> QED
  BY <1>8, <1>9, <1>10, <1>11, <1>12, <1>13 DEF ApprovedInv

(* A restart decides by what the log has. *)
LEMMA RestartApproved ==
    ASSUME ToolInv, ToolInv', ApprovedInv, Restart
    PROVE  ApprovedInv'
<1>1. LogOK /\ IsLog /\ Len(log) \in Nat /\ DOMAIN log = 1..Len(log)
  BY LogFacts DEF ToolInv, LogOK, IsLog
<1>2. Calm
  BY <1>1, RestartCalm
<1>3. NoNewCalls /\ Unasked /\ IsLog' /\ Grows /\ NewKinds(Undecided)
  BY <1>1, <1>2, CalmPending DEF Calm, NewKinds, Undecided
<1>4. /\ worker'.pc = "off" /\ operator'.pc = "idle" /\ effects' = effects
      /\ \A a \in Approvers : approver'[a].pc = "idle"
  BY DEF Restart, Idle, NoOperator, NoHandler
<1>5. Carries /\ ApproverCarries /\ OperatorCarries
  BY <1>4 DEF Carries, ApproverCarries, OperatorCarries, Busy, Before, Asking
<1>6. HoldsOK' /\ RanOK' /\ ClaimOK' /\ ReadyOK'
  BY <1>3, <1>4, <1>5, HoldsKept, RanKept, ClaimKept, ReadyKept DEF ApprovedInv
<1>7. AloneOK'
  BY <1>3, <1>4, AloneKept DEF ApprovedInv, Resting
<1>8. ReadOK'
  BY <1>2, <1>4, ReadKept DEF ApprovedInv, Reading
<1>9. MadeOK'
  <2>1. \A i \in Requests : i \in Requests' /\ log'[i] = log[i]
    BY <1>1, <1>3, GrowsKeeps
  <2>2. ASSUME NEW v, NEW s, Rehydrated(v, s) # NoDecision PROVE Made(Rehydrated(v, s), v)
    <3>1. PICK J : J = {j \in DOMAIN log : /\ log[j].kind = "resolved" /\ log[j].inv = v
                                           /\ log[j].decision.scope = s}
      OBVIOUS
    <3>2. J # {} /\ Rehydrated(v, s) = log[Max(J)].decision
      BY <2>2, <3>1 DEF Rehydrated
    <3>3. Max(J) \in J
      BY <1>1, <3>1, <3>2, LastOf
    <3> QED
      BY <3>1, <3>2, <3>3 DEF ApprovedInv, MadeOK
  <2>3. \A v \in Guarded : perSession'[v] = Rehydrated(v, "session") /\ global'[v] = Rehydrated(v, "always")
    BY DEF Restart
  <2>4. /\ \A v \in Guarded : perSession'[v] # NoDecision => Made(perSession[v], v)'
        /\ \A v \in Guarded : global'[v] # NoDecision => Made(global[v], v)'
    BY <2>1, <2>2, <2>3 DEF Made
  <2>5. \A c \in Calls : perCall'[c].decision = NoDecision
    BY DEF Restart, Unrecorded
  <2>6. \A j \in DOMAIN log' : log'[j].kind = "resolved" => Made(log[j].decision, log[j].inv)'
    BY <1>3, LogMade DEF ApprovedInv
  <2> QED
    BY <1>4, <2>4, <2>5, <2>6 DEF MadeOK
<1> QED
  BY <1>6, <1>7, <1>8, <1>9 DEF ApprovedInv

LEMMA ApprovedInit ==
    ASSUME ToolInit
    PROVE  ApprovedInv
<1>1. /\ log = <<>> /\ Requests = {} /\ effects = <<>>
      /\ worker.pc = "off" /\ operator.pc = "idle"
      /\ \A a \in Approvers : approver[a].pc = "idle"
  BY DEF ToolInit, Idle, NoOperator, NoHandler, Requests
<1>2. HoldsOK /\ ReadyOK /\ ClaimOK
  BY <1>1 DEF HoldsOK, ReadyOK, ClaimOK, Busy, Before, Asking
<1>3. MadeOK
  BY <1>1 DEF MadeOK, ToolInit, Unrecorded
<1>4. RanOK /\ AloneOK /\ ReadOK
  BY <1>1 DEF RanOK, AloneOK, ReadOK, Reading
<1> QED
  BY <1>2, <1>3, <1>4 DEF ApprovedInv

LEMMA ApprovedStep ==
    ASSUME ToolInv, ApprovedInv, \A x, y \in Approvers : x = y, [ToolNext]_vars
    PROVE  ApprovedInv'
<1>1. ToolInv'
  BY ToolStep
<1>2. CASE SetAutoApproval \/ CancelSession \/ UNCHANGED vars
  BY <1>1, <1>2, SwitchesApproved
<1>3. CASE StartTurn \/ AnswerTool
  BY <1>1, <1>3, StartTurnApproved, AnswerToolApproved
<1>4. CASE WorkerStep \/ Panic \/ Watchdog
  <2>1. CASE Commits
    BY <1>1, <2>1, RecordApprovalApproved, RequestApprovalApproved, NewToolApproved DEF Commits, NewTool
  <2> QED
    BY <1>1, <1>4, <2>1, CalmSteps
<1>5. ASSUME NEW a \in Approvers,
             ApproveReads(a) \/ ApproveIdentifies(a) \/ ApproveClaims(a) \/ ApproveDetaches(a)
      PROVE  ApprovedInv'
  BY <1>1, <1>5, ReadersApproved, ClaimsApproved, DetachesApproved
<1>6. CASE OperatorStep
  BY <1>1, <1>6, OperatorApproved
<1>7. CASE Restart
  BY <1>1, <1>7, RestartApproved
<1> QED
  BY <1>2, <1>3, <1>4, <1>5, <1>6, <1>7 DEF ToolNext

(***************************************************************************)
(* A guarded tool that a turn requested (record_tool_request_transition)   *)
(* runs only after the log has a decision to approve this very request,    *)
(* with these arguments and made for them, whether the evaluator found the *)
(* decision (evaluate_request) or an operator gave it                      *)
(* (bootstrap_resumed_approval_turn): with any number of calls, repeated   *)
(* identifiers, scopes, turns, faults, panics and restarts, as long as     *)
(* operators do not answer with two approve_tool requests at the same      *)
(* time.  With two, one of them may read the arguments of a request and    *)
(* identify, under its second lock, a later one of the same call.          *)
(***************************************************************************)
THEOREM ToolApprovedFirst ==
    (\A x, y \in Approvers : x = y) => (ToolSpec => []ApprovedFirst)
<1> SUFFICES ASSUME \A x, y \in Approvers : x = y
             PROVE  ToolSpec => []ApprovedFirst
  OBVIOUS
<1>1. ToolInit => ToolInv /\ ApprovedInv
  BY ToolInitOK, ApprovedInit
<1>2. ToolInv /\ ApprovedInv /\ [ToolNext]_vars => ToolInv' /\ ApprovedInv'
  BY ToolStep, ApprovedStep
<1>3. ToolInv /\ ApprovedInv => ApprovedFirst
  <2> SUFFICES ASSUME ToolInv, ApprovedInv, NEW e \in DOMAIN effects,
                      effects[e][2] \in Guarded, log[effects[e][1]].turn # None
               PROVE  /\ effects[e][2] = log[effects[e][1]].inv
                      /\ \E j \in Of(effects[e][1], "resolved") :
                            /\ log[j].inv = effects[e][2] /\ log[j].decision.approved
                            /\ log[log[j].decision.for].inv = effects[e][2]
    BY DEF ApprovedFirst
  <2>1. PICK i, v : i = effects[e][1] /\ v = effects[e][2]
    OBVIOUS
  <2>2. v = log[i].inv /\ Approved(i, v)
    BY <2>1 DEF ApprovedInv, RanOK
  <2>3. PICK j \in Of(i, "resolved") : log[j].inv = v /\ log[j].decision.approved
    BY <2>2 DEF Approved
  <2>4. j \in DOMAIN log /\ log[j].kind = "resolved"
    BY Zenon DEF Of
  <2>5. log[log[j].decision.for].inv = v
    BY <2>3, <2>4 DEF ApprovedInv, MadeOK, Made
  <2> QED
    BY <2>1, <2>2, <2>3, <2>5
<1> QED
  BY <1>1, <1>2, <1>3, PTL DEF ToolSpec

-----------------------------------------------------------------------------
(***************************************************************************)
(* Every request gets one terminal event, and a true one.                  *)
(***************************************************************************)

(* Request i is the newest of a model's call and has no result yet. *)
Open(i) ==
    /\ i \in Requests /\ log[i].call \in Calls /\ Newest(i)
    /\ Of(i, "finished") = {}

(* The active turn made request i, or was resumed for it. *)
InTurn(i) == active # None /\ (log[i].turn = active \/ ResumedFrom(active) = i)

(* Somebody has request i in hand. *)
Hand(i) ==
    \/ worker.pc \in Busy /\ worker.req = i
    \/ \E a \in Approvers : approver[a].pc = "claimed" /\ approver[a].req = i

(* The last decision about request i was to deny it. *)
Denied(i) ==
    Of(i, "resolved") # {} /\ ~log[Max(Of(i, "resolved"))].decision.approved

(* A turn is started once, and it makes the requests that carry it.        *)
StartedOK ==
    /\ \A i \in DOMAIN log : log[i].kind = "started" => log[i].turn \in 1..TurnsStarted
    /\ \A i \in DOMAIN log : log[i].kind = "started" => log[i].resumed \in {None} \cup Requests
    /\ \A i, k \in DOMAIN log :
          log[i].kind = "started" /\ log[k].kind = "started" /\ log[i].turn = log[k].turn => i = k
    /\ active # None => \E i \in DOMAIN log : log[i].kind = "started" /\ log[i].turn = active
    /\ TurnsStarted <= MaxTurns

RequestsOK ==
    /\ \A i \in Requests : \/ log[i].turn = None /\ log[i].call = i
                           \/ log[i].turn \in 1..TurnsStarted /\ log[i].call \in Calls
    /\ \A j \in DOMAIN log : log[j].kind = "resolved" => log[j].call \in Calls

OneOK == \A i \in Requests : \A j, k \in Of(i, "finished") : j = k

HandOK ==
    /\ worker.pc \in Busy => /\ Open(worker.req) /\ InTurn(worker.req)
                             /\ ~ApprovalPending(worker.req)
    /\ worker.pc = "requested" => worker.inv = log[worker.req].inv /\ Of(worker.req, "resolved") = {}
    /\ worker.pc \in {"resolve", "ask"} => log[worker.req].inv # Ask
    /\ \A a \in Approvers : approver[a].pc = "claimed" =>
          Open(approver[a].req) /\ InTurn(approver[a].req) /\ approver[a].turn = active

(* Who waits for a decision is no question and has no result. *)
AskOK == \A i \in Requests : ApprovalPending(i) => log[i].inv # Ask /\ Of(i, "finished") = {}

(* One request waits at most, and nobody works beside it. *)
WaitOK ==
    \A i \in Requests : Pends(i) =>
        /\ \A k \in Requests : Pends(k) => k = i
        /\ worker.pc \in Resting \/ (worker.pc \in {"requested", "terminal"} /\ worker.req = i)
        /\ \A a \in Approvers : approver[a].pc # "claimed"

(* What the active turn has not closed yet. *)
TurnOK ==
    \A i \in Requests : InTurn(i) =>
        /\ \A j \in Of(i, "finished") : log[j].turn = active
        /\ Of(i, "finished") = {} =>
              /\ Open(i)
              /\ \/ Hand(i) \/ worker.pc = "panicked"
                 \/ worker.pc = "pause" /\ ApprovalPending(i)

(* Without panics, nothing is left behind. *)
LeftOK ==
    "panic" \notin Troubles =>
        /\ worker.pc # "panicked"
        /\ \A i \in Requests : log[i].call \in Calls /\ Of(i, "finished") = {} => InTurn(i) \/ Pends(i)

OperatorOpen ==
    /\ operator.pc # "idle" => /\ log[operator.req].turn = None
                               /\ Of(operator.req, "finished") = {}
    /\ operator.pc \in {"record", "recover"} => Ran(operator.req)
    /\ booted \in Nat /\ booted <= Len(log)
    /\ \A i \in OperatorTools : i <= booted => Of(i, "finished") # {}

(* The worker knows whether its request ran, and was denied. *)
WorkerTrue ==
    /\ worker.pc = "executing" => Ran(worker.req)
    /\ worker.pc = "terminal" => /\ worker.result = "denied" => ~Ran(worker.req)
                                 /\ worker.result = "returned" => Ran(worker.req)
    /\ worker.pc = "execute" => ~Denied(worker.req)
    /\ worker.pc = "resume" /\ worker.decision.approved => ~Denied(worker.req)

ResultOK ==
    /\ WorkerTrue
    /\ \A i \in Requests : Ran(i) => ~Denied(i)
    /\ \A a \in Approvers : approver[a].pc = "claimed" /\ approver[a].decision.approved =>
          ~Denied(approver[a].req)

NumbersOK ==
    /\ active \in {None} \cup Turns
    /\ worker.turn \in {None} \cup Turns /\ worker.req \in {None} \cup Requests
    /\ worker.pc \notin {"off", "controls"} => active # None /\ active = worker.turn

TermInv ==
    /\ StartedOK /\ RequestsOK /\ OneOK /\ HandOK /\ AskOK /\ WaitOK /\ TurnOK /\ LeftOK
    /\ OperatorOpen /\ ResultOK /\ NumbersOK /\ TerminalHonest

-----------------------------------------------------------------------------
(* The order in which recovery closes requests. *)

Ascending(s, m) == \A j, k \in 1..m : j < k => s[j] < s[k]

LEMMA AscendingExists ==
    ASSUME NEW n \in Nat, NEW S \in SUBSET (1..n)
    PROVE  \E s \in [1..Cardinality(S) -> S] : Ascending(s, Cardinality(S))
<1> DEFINE Fails(m) == \E T \in SUBSET (1..m) :
                          ~\E s \in [1..Cardinality(T) -> T] : Ascending(s, Cardinality(T))
<1> SUFFICES ASSUME Fails(n) PROVE FALSE
  OBVIOUS
<1>0. PICK R : R = {m \in Nat : Fails(m)}
  OBVIOUS
<1> HIDE DEF Fails
<1>1. PICK m \in R : \A k \in R : ~(<<k, m>> \in OpToRel(<, Nat))
  <2>1. R \subseteq Nat /\ R # {}
    BY <1>0
  <2> QED
    BY <2>1, WFMin, NatLessThanWellFounded, Zenon
<1>2. \A k \in Nat : k < m => ~Fails(k)
  BY <1>0, <1>1 DEF OpToRel
<1>3. PICK T \in SUBSET (1..m) : ~\E s \in [1..Cardinality(T) -> T] : Ascending(s, Cardinality(T))
  BY <1>0, <1>1 DEF Fails
<1>4. m \in Nat /\ IsFiniteSet(T) /\ Cardinality(T) \in Nat
  <2>1. m \in Nat
    BY <1>0, <1>1
  <2>2. IsFiniteSet(1..m)
    BY <2>1, FS_Interval
  <2> QED
    BY <2>1, <2>2, FS_Subset, FS_CardinalityType
<1>5. PICK U : U = T \ {m}
  OBVIOUS
<1>6. m # 0
  <2> SUFFICES ASSUME m = 0 PROVE FALSE
    OBVIOUS
  <2>1. T = {}
    BY <1>4
  <2>2. Cardinality(T) = 0
    BY <2>1, FS_EmptySet
  <2>3. PICK s : s = [x \in 1..0 |-> x]
    OBVIOUS
  <2>4. s \in [1..Cardinality(T) -> T] /\ Ascending(s, Cardinality(T))
    BY <2>2, <2>3 DEF Ascending
  <2> QED
    BY <1>3, <2>4
<1>7. PICK q \in Nat : q = Cardinality(U) /\ \E s \in [1..q -> U] : Ascending(s, q)
  <2>1. m - 1 \in Nat /\ m - 1 < m /\ U \in SUBSET (1..(m - 1))
    BY <1>4, <1>5, <1>6
  <2>2. ~Fails(m - 1)
    BY <1>2, <2>1
  <2>3. Cardinality(U) \in Nat
    BY <1>4, <1>5, FS_RemoveElement, FS_CardinalityType
  <2> QED
    BY <2>1, <2>2, <2>3 DEF Fails
<1>8. m \in T
  <2> SUFFICES ASSUME m \notin T PROVE FALSE
    OBVIOUS
  <2>1. U = T
    BY <1>5
  <2> QED
    BY <1>3, <1>7, <2>1
<1>9. Cardinality(T) = q + 1
  <2>1. Cardinality(U) = Cardinality(T) - 1
    BY <1>4, <1>5, <1>8, FS_RemoveElement
  <2> QED
    BY <1>4, <1>7, <2>1
<1>10. PICK s \in [1..q -> U] : Ascending(s, q)
  BY <1>7
<1>11. PICK f : f = [x \in 1..(q + 1) |-> IF x = q + 1 THEN m ELSE s[x]]
  OBVIOUS
<1>12. /\ \A x \in 1..q : s[x] \in U /\ s[x] \in T /\ s[x] < m /\ s[x] \in Nat
       /\ f \in [1..(q + 1) -> T]
  <2>1. \A x \in 1..q : s[x] \in U
    BY <1>10
  <2>2. \A u \in U : u \in T /\ u < m /\ u \in Nat
    BY <1>4, <1>5
  <2>3. \A x \in 1..(q + 1) : x # q + 1 => x \in 1..q
    OBVIOUS
  <2> QED
    BY <1>8, <1>11, <2>1, <2>2, <2>3
<1>13. Ascending(f, q + 1)
  <2> SUFFICES ASSUME NEW j \in 1..(q + 1), NEW k \in 1..(q + 1), j < k PROVE f[j] < f[k]
    BY DEF Ascending
  <2>1. j \in 1..q /\ f[j] = s[j]
    BY <1>11
  <2>2. CASE k = q + 1
    BY <1>11, <1>12, <2>1, <2>2
  <2>3. CASE k \in 1..q
    <3>1. f[k] = s[k]
      BY <1>11, <2>3
    <3> QED
      BY <1>10, <2>1, <2>3, <3>1 DEF Ascending
  <2> QED
    BY <2>2, <2>3
<1> QED
  BY <1>3, <1>9, <1>12, <1>13

(* Every request of the set is listed once. *)
LEMMA OrderedLists ==
    ASSUME NEW n \in Nat, NEW S \in SUBSET (1..n)
    PROVE  \E m \in Nat : /\ m = Cardinality(S)
                          /\ \A k \in 1..m : Ordered(S)[k] \in S
                          /\ \A j, k \in 1..m : Ordered(S)[j] = Ordered(S)[k] => j = k
                          /\ \A i \in S : \E k \in 1..m : Ordered(S)[k] = i
<1>1. IsFiniteSet(S) /\ Cardinality(S) \in Nat
  <2>1. IsFiniteSet(1..n)
    BY FS_Interval
  <2> QED
    BY <2>1, FS_Subset, FS_CardinalityType
<1>2. PICK m \in Nat : m = Cardinality(S)
  BY <1>1
<1>3. PICK f : f = Ordered(S)
  OBVIOUS
<1>4. f \in [1..m -> S] /\ \A j, k \in 1..m : j < k => f[j] < f[k]
  <2>1. \E s \in [1..m -> S] : \A j, k \in 1..m : j < k => s[j] < s[k]
    BY <1>2, AscendingExists DEF Ascending
  <2>2. f = CHOOSE s \in [1..m -> S] : \A j, k \in 1..m : j < k => s[j] < s[k]
    BY <1>2, <1>3 DEF Ordered
  <2> QED
    BY <2>1, <2>2, Zenon
<1>5. \A j, k \in 1..m : f[j] = f[k] => j = k
  <2>1. \A i \in S : i \in Nat
    OBVIOUS
  <2> SUFFICES ASSUME NEW j \in 1..m, NEW k \in 1..m, f[j] = f[k], j < k PROVE FALSE
    OBVIOUS
  <2>2. f[j] \in S /\ f[j] < f[k]
    BY <1>4
  <2>3. PICK x \in Nat : x = f[j]
    BY <2>1, <2>2
  <2> QED
    BY <2>2, <2>3
<1>6. f \in Injection(1..m, S)
  BY <1>4, <1>5 DEF Injection, IsInjective
<1>7. Cardinality(1..m) = m
  BY FS_Interval
<1>8. f \in Surjection(1..m, S)
  BY <1>1, <1>2, <1>6, <1>7, FS_Injection
<1>9. \A i \in S : \E k \in 1..m : f[k] = i
  BY <1>8 DEF Surjection
<1> QED
  BY <1>2, <1>3, <1>4, <1>5, <1>9

-----------------------------------------------------------------------------
(* What a step closes. *)

NewFin == {j \in DOMAIN log' : j > Len(log) /\ log'[j].kind = "finished"}

(* This result of request i tells the truth. *)
TrueResult(i, r) ==
    /\ r = "denied" => ~Ran(i)
    /\ r = "returned" => Ran(i) \/ log[i].inv = Ask

(* The step makes no request and gives those of S, and no others, a result. *)
Settles(S) ==
    /\ IsLog' /\ Grows /\ Requests' = Requests
    /\ \A i \in S : i \in Requests /\ Newest(i) /\ Of(i, "finished") = {}
    /\ \A j \in NewFin : \E i \in S : log'[j].call = log[i].call /\ TrueResult(i, log'[j].result)
    /\ \A j, k \in NewFin : log'[j].call = log'[k].call => j = k
    /\ \A i \in S : \E j \in NewFin : log'[j].call = log[i].call

LEMMA Lengths ==
    ASSUME LogOK, IsLog', Grows
    PROVE  /\ Len(log) \in Nat /\ DOMAIN log = 1..Len(log)
           /\ Len(log') \in Nat /\ DOMAIN log' = 1..Len(log')
           /\ \A j \in DOMAIN log : j \in DOMAIN log' /\ log'[j] = log[j] /\ ~(j > Len(log))
           /\ \A j \in DOMAIN log' : ~(j > Len(log)) => j \in DOMAIN log
           /\ \A i \in Requests : i \in DOMAIN log /\ i \in Nat
<1>1. /\ Len(log) \in Nat /\ DOMAIN log = 1..Len(log)
      /\ Len(log') \in Nat /\ DOMAIN log' = 1..Len(log')
  BY LenProperties DEF LogOK, IsLog
<1>2. \A j \in DOMAIN log : j \in DOMAIN log' /\ log'[j] = log[j] /\ ~(j > Len(log))
  BY <1>1 DEF Grows
<1>3. \A j \in DOMAIN log' : ~(j > Len(log)) => j \in DOMAIN log
  BY <1>1
<1>4. \A i \in Requests : i \in DOMAIN log /\ i \in Nat
  BY <1>1 DEF Requests
<1> QED
  BY <1>1, <1>2, <1>3, <1>4

(* What a new event belongs to. *)
LEMMA NewBelongs ==
    ASSUME LogOK, IsLog', Grows, Requests' = Requests,
           NEW i \in Requests, NEW j \in DOMAIN log', j > Len(log),
           log'[j].kind \in {"approval", "resolved", "finished"}
    PROVE  Belongs(j, i)' <=> Newest(i) /\ log'[j].call = log[i].call
<1>1. /\ Len(log) \in Nat /\ i \in Nat /\ i \in DOMAIN log /\ log'[i] = log[i] /\ j \in Nat /\ j > i
      /\ \A k \in Requests : log'[k] = log[k] /\ k \in Nat /\ k < j
  BY Lengths
<1>2. (\A k \in Requests' : i < k /\ k < j => log'[k].call # log'[i].call) <=> Newest(i)
  <2>1. ASSUME NEW k \in Requests
        PROVE  (i < k /\ k < j => log'[k].call # log'[i].call) <=> (log[k].call = log[i].call => k <= i)
    <3>1. k \in Nat /\ k < j /\ log'[k] = log[k] /\ log'[i] = log[i]
      BY <1>1
    <3>2. ~(i < k) <=> k <= i
      BY <1>1, <3>1
    <3> QED
      BY <3>1, <3>2
  <2>2. (\A k \in Requests : i < k /\ k < j => log'[k].call # log'[i].call)
        <=> (\A k \in Requests : log[k].call = log[i].call => k <= i)
    BY <2>1, Zenon
  <2> QED
    BY <2>2, Zenon DEF Newest
<1> QED
  BY <1>1, <1>2, Zenon DEF Belongs

LEMMA SettlesOwn ==
    ASSUME LogOK, NEW S, Settles(S), NEW i \in Requests
    PROVE  /\ i \notin S => Of(i, "finished")' = Of(i, "finished")
           /\ i \in S => \E j \in NewFin : /\ Of(i, "finished")' = {j} /\ log'[j].call = log[i].call
                                           /\ TrueResult(i, log'[j].result)
<1>1. IsLog' /\ Grows /\ Requests' = Requests
  BY DEF Settles
<1>2. PICK F, G : F = Of(i, "finished") /\ G = Of(i, "finished")'
  OBVIOUS
<1>3. F \subseteq G /\ \A j \in G : j \in DOMAIN log => j \in F
  BY <1>1, <1>2, OfStable
<1>4. \A j \in G : j \in DOMAIN log' /\ log'[j].kind = "finished" /\ Belongs(j, i)'
  BY <1>2, Zenon DEF Of
<1>5. \A j \in G \ F : j \in NewFin /\ Newest(i) /\ log'[j].call = log[i].call
  <2> SUFFICES ASSUME NEW j \in G \ F
               PROVE  j \in NewFin /\ Newest(i) /\ log'[j].call = log[i].call
    OBVIOUS
  <2>1. j \notin DOMAIN log /\ j \in DOMAIN log' /\ log'[j].kind = "finished" /\ Belongs(j, i)'
    BY <1>3, <1>4
  <2>2. j > Len(log)
    BY <1>1, <2>1, Lengths
  <2> QED
    BY <1>1, <2>1, <2>2, NewBelongs DEF NewFin
<1>6. \A k \in S : k \in Requests /\ Newest(k) /\ log[k].call = log[i].call /\ Newest(i) => k = i
  <2>1. \A k \in Requests : k \in Nat
    BY <1>1, Lengths
  <2> QED
    BY <2>1 DEF Newest
<1>7. \A j \in G \ F : i \in S
  BY <1>5, <1>6 DEF Settles
<1>8. ASSUME i \in S
      PROVE  \E j \in NewFin : /\ G = {j} /\ log'[j].call = log[i].call
                               /\ TrueResult(i, log'[j].result)
  <2>1. Newest(i) /\ F = {}
    BY <1>2, <1>8 DEF Settles
  <2>2. PICK j \in NewFin : log'[j].call = log[i].call
    BY <1>8 DEF Settles
  <2>3. j \in G
    <3>1. j \in DOMAIN log' /\ j > Len(log) /\ log'[j].kind = "finished"
      BY DEF NewFin
    <3>2. Belongs(j, i)'
      BY <1>1, <2>1, <2>2, <3>1, NewBelongs
    <3> QED
      BY <1>2, <3>1, <3>2, Zenon DEF Of
  <2>4. \A k \in G : k = j
    <3> SUFFICES ASSUME NEW k \in G PROVE k = j
      OBVIOUS
    <3>1. k \in NewFin /\ log'[k].call = log[i].call
      BY <1>5, <2>1
    <3> QED
      BY <2>2, <3>1 DEF Settles
  <2>5. TrueResult(i, log'[j].result)
    <3>1. PICK k \in S : log'[j].call = log[k].call /\ TrueResult(k, log'[j].result)
      BY DEF Settles
    <3>2. k = i
      BY <1>6, <2>1, <2>2, <3>1 DEF Settles
    <3> QED
      BY <3>1, <3>2
  <2> QED
    BY <2>2, <2>3, <2>4, <2>5
<1>9. i \notin S => G = F
  BY <1>3, <1>7
<1> QED
  BY <1>2, <1>8, <1>9

(* No request gets a second result, and none gets a wrong one. *)
LEMMA SettlesSound ==
    ASSUME LogOK, NEW S, Settles(S), OneOK, TerminalHonest, effects' = effects
    PROVE  OneOK' /\ TerminalHonest'
<1>1. IsLog' /\ Grows /\ Requests' = Requests
  BY DEF Settles
<1>2. OneOK'
  <2> SUFFICES ASSUME NEW i \in Requests PROVE \A j, k \in Of(i, "finished")' : j = k
    BY <1>1 DEF OneOK
  <2>1. CASE i \in S
    BY <2>1, SettlesOwn
  <2>2. CASE i \notin S
    BY <2>2, SettlesOwn DEF OneOK
  <2> QED
    BY <2>1, <2>2
<1>3. TerminalHonest'
  <2> SUFFICES ASSUME NEW i \in Requests, NEW j \in Of(i, "finished")'
               PROVE  /\ log'[j].result = "denied" => ~Ran(i)'
                      /\ log'[j].result = "returned" => Ran(i)' \/ log'[i].inv = Ask
    BY <1>1 DEF TerminalHonest, Ran
  <2>1. (Ran(i)' <=> Ran(i)) /\ log'[i] = log[i]
    BY <1>1, Lengths, RanSame
  <2>2. CASE i \in S
    BY <2>1, <2>2, SettlesOwn DEF TrueResult
  <2>3. CASE i \notin S
    <3>1. j \in Of(i, "finished")
      BY <2>3, SettlesOwn
    <3>2. log'[j] = log[j]
      <4>1. j \in DOMAIN log
        BY <3>1 DEF Of
      <4> QED
        BY <1>1, <4>1, Lengths
    <3>3. /\ log[j].result = "denied" => ~Ran(i)
          /\ log[j].result = "returned" => Ran(i) \/ log[i].inv = Ask
      BY <3>1 DEF TerminalHonest, Ran
    <3> QED
      BY <2>1, <3>2, <3>3
  <2> QED
    BY <2>2, <2>3
<1> QED
  BY <1>2, <1>3

LEMMA SettlesNone ==
    ASSUME IsLog', Grows, Requests' = Requests, NewFin = {}
    PROVE  Settles({})
BY DEF Settles

LEMMA SettlesOne ==
    ASSUME IsLog', Grows, Requests' = Requests, NEW n, NewFin = {n},
           NEW i \in Requests, Newest(i), Of(i, "finished") = {},
           log'[n].call = log[i].call, TrueResult(i, log'[n].result)
    PROVE  Settles({i})
BY DEF Settles

-----------------------------------------------------------------------------
(* What a step leaves as it was. *)

(* Nothing is decided about request i, and nothing newer replaces it. *)
Kept(i) ==
    /\ i \in Requests' /\ log'[i] = log[i]
    /\ Newest(i)' <=> Newest(i)
    /\ Of(i, "resolved")' = Of(i, "resolved")
    /\ ApprovalPending(i)' <=> ApprovalPending(i)
    /\ Denied(i)' <=> Denied(i)

LEMMA KindKept ==
    ASSUME LogOK, IsLog', Grows, NEW i \in Requests, NEW kind,
           \A j \in DOMAIN log' : j > Len(log) /\ log'[j].kind = kind => ~Belongs(j, i)'
    PROVE  Of(i, kind)' = Of(i, kind)
<1>1. PICK F, G : F = Of(i, kind) /\ G = Of(i, kind)'
  OBVIOUS
<1>2. F \subseteq G /\ \A j \in G : j \in DOMAIN log => j \in F
  BY <1>1, OfStable
<1>3. \A j \in G : j \in DOMAIN log' /\ log'[j].kind = kind /\ Belongs(j, i)'
  BY <1>1, Zenon DEF Of
<1>4. \A j \in G : j \in DOMAIN log
  BY <1>3, Lengths
<1> QED
  BY <1>1, <1>2, <1>4

LEMMA PendingKept ==
    ASSUME NEW i, Of(i, "approval")' = Of(i, "approval"), Of(i, "resolved")' = Of(i, "resolved")
    PROVE  ApprovalPending(i)' <=> ApprovalPending(i)
BY Zenon DEF ApprovalPending

LEMMA DeniedKept ==
    ASSUME LogOK, IsLog', Grows, NEW i \in Requests, Of(i, "resolved")' = Of(i, "resolved")
    PROVE  Denied(i)' <=> Denied(i)
<1>1. PICK R : R = Of(i, "resolved") /\ R = Of(i, "resolved")'
  OBVIOUS
<1>3. /\ Denied(i) <=> R # {} /\ ~log[Max(R)].decision.approved
      /\ Denied(i)' <=> R # {} /\ ~log'[Max(R)].decision.approved
  BY <1>1, Zenon DEF Denied
<1>4. R # {} => log'[Max(R)] = log[Max(R)]
  <2> SUFFICES ASSUME R # {} PROVE log'[Max(R)] = log[Max(R)]
    OBVIOUS
  <2>1. R \in SUBSET (1..Len(log)) /\ Len(log) \in Nat
    BY <1>1, OfStable, Lengths
  <2>2. Max(R) \in R
    BY <2>1, LastOf
  <2> QED
    BY <2>1, <2>2, Lengths
<1> QED
  BY <1>3, <1>4

LEMMA SameNewest ==
    ASSUME LogOK, IsLog', Grows, Requests' = Requests, NEW i \in Requests
    PROVE  Newest(i)' <=> Newest(i)
<1>1. \A k \in Requests : log'[k] = log[k]
  BY Lengths
<1> QED
  BY <1>1 DEF Newest

(* A step that decides nothing. *)
LEMMA SettlesKeeps ==
    ASSUME LogOK, NEW S, Settles(S), NewKinds({"started", "finished", "turnFinished"}),
           NEW i \in Requests
    PROVE  Kept(i)
<1>1. IsLog' /\ Grows /\ Requests' = Requests
  BY DEF Settles
<1>2. Of(i, "approval")' = Of(i, "approval") /\ Of(i, "resolved")' = Of(i, "resolved")
  <2>1. \A j \in DOMAIN log' : j > Len(log) => log'[j].kind # "approval" /\ log'[j].kind # "resolved"
    BY DEF NewKinds
  <2> QED
    BY <1>1, <2>1, KindKept
<1>3. (ApprovalPending(i)' <=> ApprovalPending(i)) /\ (Denied(i)' <=> Denied(i))
  BY <1>1, <1>2, PendingKept, DeniedKept
<1> QED
  BY <1>1, <1>2, <1>3, Lengths, SameNewest DEF Kept

-----------------------------------------------------------------------------
(* Who started the turn. *)

LEMMA TheStart ==
    ASSUME NEW L, NEW t, NEW i \in DOMAIN L, L[i].kind = "started", L[i].turn = t,
           \A k \in DOMAIN L : L[k].kind = "started" /\ L[k].turn = t => k = i
    PROVE  (CHOOSE k \in DOMAIN L : L[k].kind = "started" /\ L[k].turn = t) = i
<1> DEFINE P(k) == k \in DOMAIN L /\ L[k].kind = "started" /\ L[k].turn = t
<1>1. P(i) /\ \A k : P(k) => k = i
  OBVIOUS
<1>2. P(CHOOSE k \in DOMAIN L : L[k].kind = "started" /\ L[k].turn = t)
  BY <1>1
<1> QED
  BY <1>1, <1>2

LEMMA StartsKept ==
    ASSUME LogOK, IsLog', Grows, StartedOK, active' \in {active, None},
           \A j \in DOMAIN log' : j > Len(log) => log'[j].kind # "started"
    PROVE  /\ TurnsStarted' = TurnsStarted /\ StartedOK'
           /\ active' = active /\ active # None => ResumedFrom(active)' = ResumedFrom(active)
           /\ \A i \in Requests : active' = active => (InTurn(i)' <=> InTurn(i))
<1>1. /\ \A j \in DOMAIN log : j \in DOMAIN log' /\ log'[j] = log[j]
      /\ \A j \in DOMAIN log' : log'[j].kind = "started" => j \in DOMAIN log
  BY Lengths
<1>2. TurnsStarted' = TurnsStarted
  <2>1. {i \in DOMAIN log' : log'[i].kind = "started"} = {i \in DOMAIN log : log[i].kind = "started"}
    BY <1>1
  <2> QED
    BY <2>1, Zenon DEF TurnsStarted
<1>3. StartedOK'
  <2>1. PICK m : m = TurnsStarted /\ m = TurnsStarted'
    BY <1>2
  <2>4. \A i \in DOMAIN log' : log'[i].kind = "started" => log'[i].resumed \in {None} \cup Requests'
    <3>1. \A i \in Requests : i \in Requests'
      BY GrowsKeeps
    <3> QED
      BY <1>1, <3>1 DEF StartedOK
  <2>2. /\ \A i \in DOMAIN log' : log'[i].kind = "started" => log'[i].turn \in 1..m
        /\ \A i, k \in DOMAIN log' :
              log'[i].kind = "started" /\ log'[k].kind = "started" /\ log'[i].turn = log'[k].turn => i = k
        /\ m <= MaxTurns
    BY <1>1, <2>1 DEF StartedOK
  <2>3. active' # None => \E i \in DOMAIN log' : log'[i].kind = "started" /\ log'[i].turn = active'
    BY <1>1 DEF StartedOK
  <2> QED
    BY <2>1, <2>2, <2>3, <2>4, Zenon DEF StartedOK
<1>4. active' = active /\ active # None => ResumedFrom(active)' = ResumedFrom(active)
  <2> SUFFICES ASSUME active' = active, active # None
               PROVE  ResumedFrom(active)' = ResumedFrom(active)
    OBVIOUS
  <2>1. PICK i \in DOMAIN log : log[i].kind = "started" /\ log[i].turn = active
    BY DEF StartedOK
  <2>2. \A k \in DOMAIN log : log[k].kind = "started" /\ log[k].turn = active => k = i
    BY <2>1 DEF StartedOK
  <2>3. (CHOOSE k \in DOMAIN log : log[k].kind = "started" /\ log[k].turn = active) = i
    BY <2>1, <2>2, TheStart
  <2>4. /\ i \in DOMAIN log' /\ log'[i].kind = "started" /\ log'[i].turn = active
        /\ \A k \in DOMAIN log' : log'[k].kind = "started" /\ log'[k].turn = active => k = i
    BY <1>1, <2>1, <2>2
  <2>5. (CHOOSE k \in DOMAIN log' : log'[k].kind = "started" /\ log'[k].turn = active) = i
    BY <2>4, TheStart
  <2>6. ResumedFrom(active) = log[i].resumed
    BY <2>3, Zenon DEF ResumedFrom, TurnStart
  <2>7. ResumedFrom(active)' = log'[i].resumed
    BY <2>5, Zenon DEF ResumedFrom, TurnStart
  <2> QED
    BY <1>1, <2>1, <2>6, <2>7
<1>5. \A i \in Requests : active' = active => (InTurn(i)' <=> InTurn(i))
  <2> SUFFICES ASSUME NEW i \in Requests, active' = active PROVE InTurn(i)' <=> InTurn(i)
    OBVIOUS
  <2>1. log'[i] = log[i]
    BY Lengths
  <2>2. InTurn(i)' <=> active' # None /\ (log'[i].turn = active' \/ ResumedFrom(active)' = i)
    BY DEF InTurn
  <2>3. InTurn(i) <=> active # None /\ (log[i].turn = active \/ ResumedFrom(active) = i)
    BY DEF InTurn
  <2> QED
    BY <1>4, <2>1, <2>2, <2>3
<1> QED
  BY <1>2, <1>3, <1>4, <1>5

LEMMA StartsNext ==
    ASSUME LogOK, IsLog', Grows, StartedOK,
           NEW n \in DOMAIN log', n > Len(log), log'[n].kind = "started",
           log'[n].turn = TurnsStarted + 1, active' = TurnsStarted + 1,
           \A j \in DOMAIN log' : j > Len(log) /\ log'[j].kind = "started" => j = n,
           log'[n].resumed \in {None} \cup Requests, TurnsStarted + 1 <= MaxTurns
    PROVE  /\ TurnsStarted \in Nat /\ TurnsStarted' = TurnsStarted + 1 /\ StartedOK'
           /\ ResumedFrom(active)' = log'[n].resumed
<1>1. /\ \A j \in DOMAIN log : j \in DOMAIN log' /\ log'[j] = log[j]
      /\ \A j \in DOMAIN log' : log'[j].kind = "started" => j \in DOMAIN log \/ j = n
      /\ n \notin DOMAIN log
  BY Lengths
<1>2. PICK m \in Nat : m = TurnsStarted
  BY TurnsStartedNat
<1>3. TurnsStarted' = m + 1
  <2>1. PICK T : T = {i \in DOMAIN log : log[i].kind = "started"}
    OBVIOUS
  <2>2. {i \in DOMAIN log' : log'[i].kind = "started"} = T \cup {n}
    BY <1>1, <2>1
  <2>3. IsFiniteSet(T)
    <3>1. IsFiniteSet(1..Len(log)) /\ T \subseteq 1..Len(log)
      BY <2>1, FS_Interval, Lengths
    <3> QED
      BY <3>1, FS_Subset
  <2>4. Cardinality(T \cup {n}) = Cardinality(T) + 1
    BY <1>1, <2>1, <2>3, FS_AddElement
  <2>5. m = Cardinality(T)
    BY <1>2, <2>1, Zenon DEF TurnsStarted
  <2>6. TurnsStarted' = Cardinality(T \cup {n})
    BY <2>2, Zenon DEF TurnsStarted
  <2> QED
    BY <2>4, <2>5, <2>6
<1>4. /\ \A i \in DOMAIN log : log[i].kind = "started" => log[i].turn \in 1..m
      /\ \A i, k \in DOMAIN log :
            log[i].kind = "started" /\ log[k].kind = "started" /\ log[i].turn = log[k].turn => i = k
      /\ log'[n].turn = m + 1 /\ active' = m + 1 /\ m + 1 <= MaxTurns
  BY <1>2, Zenon DEF StartedOK
<1>5. \A k \in DOMAIN log' : log'[k].kind = "started" /\ log'[k].turn = m + 1 => k = n
  <2> SUFFICES ASSUME NEW k \in DOMAIN log, log[k].kind = "started", log[k].turn = m + 1
               PROVE  FALSE
    BY <1>1
  <2>1. log[k].turn \in 1..m
    BY <1>4
  <2> QED
    BY <1>2, <2>1
<1>6. StartedOK'
  <2>1. \A i \in DOMAIN log' : log'[i].kind = "started" => log'[i].turn \in 1..(m + 1)
    BY <1>1, <1>2, <1>4
  <2>2. \A i, k \in DOMAIN log' :
           log'[i].kind = "started" /\ log'[k].kind = "started" /\ log'[i].turn = log'[k].turn => i = k
    BY <1>1, <1>4, <1>5
  <2>3. \A i \in DOMAIN log' : log'[i].kind = "started" => log'[i].resumed \in {None} \cup Requests'
    <3>1. \A i \in Requests : i \in Requests'
      BY GrowsKeeps
    <3> QED
      BY <1>1, <3>1 DEF StartedOK
  <2> QED
    BY <1>3, <1>4, <2>1, <2>2, <2>3, Zenon DEF StartedOK
<1>7. ResumedFrom(active)' = log'[n].resumed
  <2>1. (CHOOSE k \in DOMAIN log' : log'[k].kind = "started" /\ log'[k].turn = active') = n
    BY <1>4, <1>5, TheStart
  <2> QED
    BY <2>1, Zenon DEF ResumedFrom, TurnStart
<1> QED
  BY <1>2, <1>3, <1>6, <1>7

-----------------------------------------------------------------------------
(* What holds of the log alone. *)

LEMMA RequestsKept ==
    ASSUME LogOK, IsLog', Grows, Requests' = Requests, RequestsOK,
           TurnsStarted \in Nat, TurnsStarted' \in Nat, TurnsStarted <= TurnsStarted',
           \A j \in DOMAIN log' : j > Len(log) /\ log'[j].kind = "resolved" => log'[j].call \in Calls
    PROVE  RequestsOK'
<1>1. PICK m, n \in Nat : m = TurnsStarted /\ n = TurnsStarted' /\ m <= n
  OBVIOUS
<1>2. \A i \in Requests : log'[i] = log[i]
  BY Lengths
<1>3. \A i \in Requests : \/ log'[i].turn = None /\ log'[i].call = i
                          \/ log'[i].turn \in 1..n /\ log'[i].call \in Calls
  <2> SUFFICES ASSUME NEW i \in Requests
               PROVE  \/ log'[i].turn = None /\ log'[i].call = i
                      \/ log'[i].turn \in 1..n /\ log'[i].call \in Calls
    OBVIOUS
  <2>1. \/ log[i].turn = None /\ log[i].call = i
        \/ log[i].turn \in 1..m /\ log[i].call \in Calls
    BY <1>1, Zenon DEF RequestsOK
  <2> QED
    BY <1>1, <1>2, <2>1
<1>4. \A j \in DOMAIN log' : log'[j].kind = "resolved" => log'[j].call \in Calls
  <2>1. \A j \in DOMAIN log' : j > Len(log) \/ (j \in DOMAIN log /\ log'[j] = log[j])
    BY Lengths
  <2> QED
    BY <2>1 DEF RequestsOK
<1> QED
  BY <1>1, <1>3, <1>4, Zenon DEF RequestsOK

(* Who waits after the step waited before and got no result. *)
LEMMA SettlesPends ==
    ASSUME LogOK, NEW S, Settles(S), NewKinds({"started", "finished", "turnFinished"}),
           \A i \in S : ~ApprovalPending(i), NEW i \in Requests
    PROVE  Pends(i)' <=> Pends(i) /\ i \notin S
<1>1. Requests' = Requests /\ Kept(i)
  BY SettlesKeeps DEF Settles
<1>2. /\ i \notin S => Of(i, "finished")' = Of(i, "finished")
      /\ i \in S => Of(i, "finished")' # {}
  BY SettlesOwn
<1>3. InputPending(i)' <=> log[i].inv = Ask /\ Of(i, "finished")' = {}
  BY <1>1 DEF InputPending, Kept
<1>4. InputPending(i) <=> log[i].inv = Ask /\ Of(i, "finished") = {}
  BY DEF InputPending
<1>5. Pends(i)' <=> log[i].call \in Calls /\ Newest(i) /\ (ApprovalPending(i) \/ InputPending(i)')
  BY <1>1 DEF Pends, Kept
<1>6. Pends(i) <=> log[i].call \in Calls /\ Newest(i) /\ (ApprovalPending(i) \/ InputPending(i))
  BY DEF Pends
<1> QED
  BY <1>2, <1>3, <1>4, <1>5, <1>6

LEMMA SettlesLog ==
    ASSUME LogOK, TermInv, NEW S, Settles(S), NewKinds({"started", "finished", "turnFinished"}),
           TurnsStarted' \in Nat, TurnsStarted <= TurnsStarted', \A i \in S : ~ApprovalPending(i)
    PROVE  RequestsOK' /\ AskOK' /\ \A i \in Requests : Denied(i)' <=> Denied(i)
<1>1. IsLog' /\ Grows /\ Requests' = Requests /\ \A i \in Requests : Kept(i)
  BY SettlesKeeps DEF Settles
<1>2. RequestsOK'
  <2>1. \A j \in DOMAIN log' : j > Len(log) => log'[j].kind # "resolved"
    BY DEF NewKinds
  <2> QED
    BY <1>1, <2>1, RequestsKept, TurnsStartedNat DEF TermInv
<1>3. AskOK'
  <2> SUFFICES ASSUME NEW i \in Requests, ApprovalPending(i)'
               PROVE  log'[i].inv # Ask /\ Of(i, "finished")' = {}
    BY <1>1 DEF AskOK
  <2>1. ApprovalPending(i) /\ log'[i] = log[i]
    BY <1>1 DEF Kept
  <2>2. Of(i, "finished")' = Of(i, "finished")
    BY <2>1, SettlesOwn
  <2> QED
    BY <2>1, <2>2 DEF TermInv, AskOK
<1> QED
  BY <1>1, <1>2, <1>3 DEF Kept

-----------------------------------------------------------------------------
(* Steps in the middle of a turn. *)

(* The worker still has its request in hand, or has just closed it. *)
WorkerOn(S) ==
    /\ worker'.pc \in Busy =>
          worker.pc \in Busy /\ worker'.req = worker.req /\ worker'.inv = worker.inv /\ worker.req \notin S
    /\ worker.pc \in Busy => worker'.pc \in Busy \/ worker'.pc = "panicked" \/ worker.req \in S
    /\ worker'.pc = "requested" => worker.pc = "requested"
    /\ worker'.pc \in {"resolve", "ask"} =>
          worker.pc \in {"resolve", "ask"} \/ (worker.pc = "requested" /\ worker.inv # Ask)
    /\ worker.pc \in Resting => worker'.pc \in Resting
    /\ worker.pc = "panicked" => worker'.pc = "panicked"
    /\ worker.pc = "pause" => worker'.pc \in {"pause", "panicked"}
    /\ worker'.pc = "panicked" => worker.pc = "panicked" \/ "panic" \in Troubles
    /\ worker.pc = "requested" /\ worker.inv = Ask =>
          worker'.pc \in {"requested", "terminal", "panicked"}
    /\ worker.pc = "terminal" => worker'.pc \in {"terminal", "panicked"} \/ worker.req \in S
    /\ \/ /\ worker'.turn = worker.turn /\ worker'.req = worker.req
          /\ worker'.pc \notin {"off", "controls"} => worker.pc \notin {"off", "controls"}
       \/ worker'.pc = "off" /\ worker'.turn = None /\ worker'.req = None

ClaimsSame ==
    \A a \in Approvers : /\ approver'[a].pc = "claimed" <=> approver[a].pc = "claimed"
                         /\ approver[a].pc = "claimed" => approver'[a] = approver[a]

(* The operator's handler has closed its request, or goes on with it, or is gone. *)
OperatorOn ==
    operator'.pc # "idle" =>
        /\ operator.pc # "idle" /\ operator'.req = operator.req
        /\ operator'.pc \in {"record", "recover"} =>
              operator.pc \in {"record", "recover"} \/ Ran(operator.req)'

LEMMA OperatorStays ==
    ASSUME ToolInv, TermInv, NEW S, Settles(S), OperatorOn,
           \A i \in Requests : Ran(i) => Ran(i)',
           operator'.pc # "idle" => operator.req \notin S, booted' = booted
    PROVE  OperatorOpen'
<1>1. IsLog' /\ Grows /\ Requests' = Requests /\ LogOK
  BY DEF Settles, ToolInv
<1>2. ASSUME operator'.pc # "idle"
      PROVE  \E r \in Requests :
                /\ operator'.req = r /\ log'[r].turn = None /\ Of(r, "finished")' = {}
                /\ operator'.pc \in {"record", "recover"} => Ran(r)'
  <2>1. PICK r \in Requests : r = operator.req /\ operator.pc # "idle" /\ operator'.req = r
    BY <1>2 DEF OperatorOn, ToolInv, OperatorOK
  <2>2. log'[r].turn = None /\ Of(r, "finished") = {}
    BY <1>1, <2>1, Lengths DEF TermInv, OperatorOpen
  <2>3. Of(r, "finished")' = Of(r, "finished")
    BY <1>1, <1>2, <2>1, SettlesOwn
  <2>4. operator'.pc \in {"record", "recover"} => Ran(r)'
    <3>1. operator.pc \in {"record", "recover"} => Ran(r)
      BY <2>1 DEF TermInv, OperatorOpen
    <3>2. operator'.pc \in {"record", "recover"} => operator.pc \in {"record", "recover"} \/ Ran(r)'
      BY <1>2, <2>1 DEF OperatorOn, Ran
    <3> QED
      BY <3>1, <3>2
  <2> QED
    BY <2>1, <2>2, <2>3, <2>4
<1>3. operator'.pc # "idle" =>
         /\ log'[operator'.req].turn = None /\ Of(operator.req, "finished")' = {}
         /\ operator'.pc \in {"record", "recover"} => Ran(operator.req)'
  <2> SUFFICES ASSUME operator'.pc # "idle"
               PROVE  /\ log'[operator'.req].turn = None /\ Of(operator.req, "finished")' = {}
                      /\ operator'.pc \in {"record", "recover"} => Ran(operator.req)'
    OBVIOUS
  <2>1. PICK r \in Requests :
                /\ operator'.req = r /\ log'[r].turn = None /\ Of(r, "finished")' = {}
                /\ operator'.pc \in {"record", "recover"} => Ran(r)'
    BY <1>2
  <2> QED
    BY <2>1, Zenon DEF Of, Belongs, Ran
<1>4. booted' \in Nat /\ booted' <= Len(log')
  <2>1. booted \in Nat /\ booted <= Len(log) /\ Len(log) <= Len(log')
    BY <1>1 DEF TermInv, OperatorOpen, Grows
  <2> QED
    BY <1>1, <2>1, Lengths
<1>5. ASSUME NEW i \in OperatorTools', i <= booted' PROVE Of(i, "finished")' # {}
  <2>1. i \in Requests /\ i \in OperatorTools /\ i <= booted
    BY <1>1, <1>5, Lengths DEF OperatorTools
  <2>2. Of(i, "finished") # {}
    BY <2>1 DEF TermInv, OperatorOpen
  <2> QED
    BY <1>1, <2>1, <2>2, SettlesOwn
<1> QED
  BY <1>2, <1>3, <1>4, <1>5 DEF OperatorOpen

(* Request i is as it was, but for its result if it is one of S. *)
Stays(i, S) ==
    /\ Newest(i)' <=> Newest(i)
    /\ ApprovalPending(i)' <=> ApprovalPending(i)
    /\ Pends(i)' <=> Pends(i) /\ i \notin S
    /\ i \notin S => Of(i, "finished")' = Of(i, "finished")
    /\ i \in S => Of(i, "finished")' # {}
    /\ i \in S /\ InTurn(i) => \A j \in Of(i, "finished")' : log'[j].turn = active
    /\ worker'.pc = "requested" => Of(i, "resolved")' = Of(i, "resolved")

LEMMA TurnCore ==
    ASSUME ToolInv, TermInv, NEW S, IsLog', Grows, Requests' = Requests, active' = active,
           \A j \in DOMAIN log' : j > Len(log) => log'[j].kind # "started",
           \A i \in Requests : Stays(i, S),
           WorkerOn(S), ClaimsSame, RequestsOK', OneOK', AskOK', TerminalHonest', OperatorOpen', ResultOK',
           \A a \in Approvers : approver[a].pc = "claimed" => approver[a].req \notin S
    PROVE  TermInv'
<1>1. LogOK /\ IsLog' /\ Grows /\ Requests' = Requests
  BY DEF ToolInv
<1>3. /\ TurnsStarted' = TurnsStarted /\ TurnsStarted \in Nat /\ StartedOK'
      /\ \A i \in Requests : InTurn(i)' <=> InTurn(i)
  BY <1>1, StartsKept, TurnsStartedNat DEF TermInv
<1>5. \A i \in Requests :
         /\ log'[i] = log[i] /\ (Newest(i)' <=> Newest(i))
         /\ ApprovalPending(i)' <=> ApprovalPending(i)
         /\ Pends(i)' <=> Pends(i) /\ i \notin S
         /\ i \notin S => Of(i, "finished")' = Of(i, "finished")
         /\ i \in S => Of(i, "finished")' # {}
         /\ i \in S /\ InTurn(i) => \A j \in Of(i, "finished")' : log'[j].turn = active
         /\ worker'.pc = "requested" => Of(i, "resolved")' = Of(i, "resolved")
  BY <1>1, Lengths DEF Stays
<1>6. \A i \in Requests : i \notin S /\ Open(i) => Open(i)'
  <2> SUFFICES ASSUME NEW i \in Requests, i \notin S, Open(i) PROVE Open(i)'
    OBVIOUS
  <2>1. /\ log'[i] = log[i] /\ Newest(i)' /\ Of(i, "finished")' = {}
        /\ log[i].call \in Calls
    BY <1>5 DEF Open
  <2> QED
    BY <1>1, <2>1 DEF Open
<1>7. ASSUME NEW a \in Approvers, approver'[a].pc = "claimed"
      PROVE  /\ approver'[a] = approver[a] /\ approver[a].pc = "claimed"
             /\ approver[a].req \in Requests /\ approver[a].req \notin S
             /\ Open(approver[a].req) /\ InTurn(approver[a].req) /\ approver[a].turn = active
  <2>1. approver'[a] = approver[a] /\ approver[a].pc = "claimed"
    BY <1>7 DEF ClaimsSame
  <2> QED
    BY <2>1 DEF TermInv, HandOK, Open
<1>8. ASSUME worker'.pc \in Busy
      PROVE  \E r \in Requests :
                /\ worker'.req = r /\ worker.req = r /\ worker.pc \in Busy /\ worker'.inv = worker.inv
                /\ Open(r)' /\ InTurn(r)' /\ ~ApprovalPending(r)'
  <2>1. PICK r : /\ worker'.req = r /\ worker.req = r /\ worker.pc \in Busy
                 /\ worker'.inv = worker.inv /\ r \notin S
    BY <1>8 DEF WorkerOn
  <2>2. Open(r) /\ InTurn(r) /\ ~ApprovalPending(r) /\ r \in Requests
    BY <2>1 DEF TermInv, HandOK, Open
  <2> QED
    BY <1>3, <1>5, <1>6, <2>1, <2>2
<1>9. HandOK'
  <2>1. worker'.pc \in Busy => (Open(worker.req) /\ InTurn(worker.req) /\ ~ApprovalPending(worker.req))'
    <3> SUFFICES ASSUME worker'.pc \in Busy
                 PROVE  (Open(worker.req) /\ InTurn(worker.req) /\ ~ApprovalPending(worker.req))'
      OBVIOUS
    <3>1. PICK r \in Requests : /\ worker'.req = r /\ Open(r)' /\ InTurn(r)' /\ ~ApprovalPending(r)'
      BY <1>8
    <3>2. (Open(worker.req) /\ InTurn(worker.req))'
      BY <3>1, Zenon DEF Open, InTurn, Of, Belongs, Newest
    <3>3. /\ Of(worker.req, "approval")' = Of(r, "approval")'
          /\ Of(worker.req, "resolved")' = Of(r, "resolved")'
      BY <3>1, Zenon DEF Of, Belongs
    <3>4. ~ApprovalPending(worker.req)'
      BY <3>1, <3>3, Zenon DEF ApprovalPending
    <3> QED
      BY <3>2, <3>4
  <2>2. ASSUME worker'.pc = "requested"
        PROVE  worker'.inv = log'[worker'.req].inv /\ Of(worker.req, "resolved")' = {}
    <3>1. worker'.pc \in Busy /\ worker.pc = "requested"
      BY <2>2 DEF Busy, Before, Asking, WorkerOn
    <3>2. PICK r \in Requests : worker'.req = r /\ worker.req = r /\ worker'.inv = worker.inv
      BY <1>8, <3>1
    <3>3. worker'.inv = log'[r].inv /\ Of(r, "resolved")' = {}
      BY <1>5, <3>1, <3>2, <2>2 DEF TermInv, HandOK
    <3> QED
      BY <3>2, <3>3, Zenon DEF Of, Belongs
  <2>3. worker'.pc \in {"resolve", "ask"} => log'[worker'.req].inv # Ask
    <3> SUFFICES ASSUME worker'.pc \in {"resolve", "ask"} PROVE log'[worker'.req].inv # Ask
      OBVIOUS
    <3>1. PICK r \in Requests : worker'.req = r /\ worker.req = r
      BY <1>8 DEF Busy, Before, Asking
    <3>2. log[r].inv # Ask
      BY <3>1 DEF WorkerOn, TermInv, HandOK
    <3> QED
      BY <1>5, <3>1, <3>2
  <2>4. ASSUME NEW a \in Approvers, approver'[a].pc = "claimed"
        PROVE  (Open(approver[a].req) /\ InTurn(approver[a].req) /\ approver[a].turn = active)'
    <3>1. PICK r : r = approver[a].req /\ r = approver'[a].req
      BY <1>7, <2>4
    <3>2. Open(r)' /\ InTurn(r)' /\ approver'[a].turn = active'
      BY <1>3, <1>6, <1>7, <2>4, <3>1
    <3> QED
      BY <3>1, <3>2, ZenonT(60) DEF Open, InTurn, Of, Belongs, Newest
  <2> QED
    BY <2>1, <2>2, <2>3, <2>4, Zenon DEF HandOK
<1>10. WaitOK'
  <2> SUFFICES ASSUME NEW i \in Requests, Pends(i)'
               PROVE  /\ \A k \in Requests : Pends(k)' => k = i
                      /\ worker'.pc \in Resting
                         \/ (worker'.pc \in {"requested", "terminal"} /\ worker'.req = i)
                      /\ \A a \in Approvers : approver'[a].pc # "claimed"
    BY <1>1, Zenon DEF WaitOK
  <2>1. Pends(i) /\ i \notin S
    BY <1>5
  <2>2. /\ \A k \in Requests : Pends(k) => k = i
        /\ worker.pc \in Resting \/ (worker.pc \in {"requested", "terminal"} /\ worker.req = i)
        /\ \A a \in Approvers : approver[a].pc # "claimed"
    BY <2>1, Zenon DEF TermInv, WaitOK
  <2>3. ASSUME worker.pc \in {"requested", "terminal"}, worker.req = i
        PROVE  worker'.pc \in Resting \/ (worker'.pc \in {"requested", "terminal"} /\ worker'.req = i)
    <3>1. ~ApprovalPending(i) /\ (worker.pc = "requested" => worker.inv = log[i].inv)
      BY <2>3 DEF TermInv, HandOK, Busy, Before, Asking
    <3>2. worker.pc = "requested" => worker.inv = Ask
      BY <2>1, <3>1 DEF Pends, InputPending
    <3>3. worker'.pc \in {"requested", "terminal", "panicked"}
      BY <2>1, <2>3, <3>2 DEF WorkerOn
    <3> QED
      BY <2>3, <3>3 DEF WorkerOn, Busy, Before, Asking, Resting
  <2>4. worker.pc \in Resting => worker'.pc \in Resting
    BY DEF WorkerOn
  <2> QED
    BY <1>5, <1>7, <2>2, <2>3, <2>4
<1>11. TurnOK'
  <2> SUFFICES ASSUME NEW i \in Requests, InTurn(i)'
               PROVE  /\ \A j \in Of(i, "finished")' : log'[j].turn = active'
                      /\ Of(i, "finished")' = {} =>
                            /\ Open(i)'
                            /\ \/ Hand(i)' \/ worker'.pc = "panicked"
                               \/ worker'.pc = "pause" /\ ApprovalPending(i)'
    BY <1>1, Zenon DEF TurnOK
  <2>1. /\ \A j \in Of(i, "finished") : log[j].turn = active
        /\ Of(i, "finished") = {} =>
              /\ Open(i)
              /\ Hand(i) \/ worker.pc = "panicked" \/ (worker.pc = "pause" /\ ApprovalPending(i))
    BY <1>3, Zenon DEF TermInv, TurnOK
  <2>2. \A j \in Of(i, "finished")' : log'[j].turn = active'
    <3>1. CASE i \in S
      BY <1>3, <1>5, <3>1
    <3>2. CASE i \notin S
      <4>1. \A j \in Of(i, "finished") : log'[j] = log[j]
        BY <1>1, Lengths, OfStable
      <4> QED
        BY <1>5, <2>1, <3>2, <4>1
    <3> QED
      BY <3>1, <3>2
  <2>3. ASSUME Of(i, "finished")' = {}
        PROVE  Open(i)' /\ (\/ Hand(i)' \/ worker'.pc = "panicked"
                            \/ worker'.pc = "pause" /\ ApprovalPending(i)')
    <3>1. i \notin S /\ Of(i, "finished") = {}
      BY <1>5, <2>3
    <3>2. Open(i)'
      BY <1>6, <2>1, <3>1
    <3>3. ASSUME Hand(i) PROVE Hand(i)' \/ worker'.pc = "panicked"
      <4>1. Hand(i)' <=> \/ worker'.pc \in Busy /\ worker'.req = i
                         \/ \E a \in Approvers : approver'[a].pc = "claimed" /\ approver'[a].req = i
        BY DEF Hand
      <4>2. CASE worker.pc \in Busy /\ worker.req = i
        BY <3>1, <4>1, <4>2 DEF WorkerOn
      <4>3. CASE \E a \in Approvers : approver[a].pc = "claimed" /\ approver[a].req = i
        BY <4>1, <4>3 DEF ClaimsSame
      <4> QED
        BY <3>3, <4>2, <4>3 DEF Hand
    <3>4. worker.pc = "pause" /\ ApprovalPending(i) =>
             worker'.pc = "panicked" \/ (worker'.pc = "pause" /\ ApprovalPending(i)')
      BY <1>5 DEF WorkerOn
    <3> QED
      BY <2>1, <3>1, <3>2, <3>3, <3>4 DEF WorkerOn
  <2> QED
    BY <2>2, <2>3
<1>12. LeftOK'
  <2> SUFFICES ASSUME "panic" \notin Troubles
               PROVE  /\ worker'.pc # "panicked"
                      /\ \A i \in Requests : log'[i].call \in Calls /\ Of(i, "finished")' = {}
                                                => InTurn(i)' \/ Pends(i)'
    BY <1>1, Zenon DEF LeftOK
  <2>1. worker'.pc # "panicked"
    BY DEF TermInv, LeftOK, WorkerOn
  <2>2. ASSUME NEW i \in Requests, log'[i].call \in Calls, Of(i, "finished")' = {}
        PROVE  InTurn(i)' \/ Pends(i)'
    <3>1. i \notin S /\ Of(i, "finished") = {} /\ log[i].call \in Calls
      BY <1>5, <2>2
    <3>2. InTurn(i) \/ Pends(i)
      BY <3>1, Zenon DEF TermInv, LeftOK
    <3> QED
      BY <1>3, <1>5, <3>1, <3>2
  <2> QED
    BY <2>1, <2>2
<1>14. NumbersOK'
  BY <1>1 DEF TermInv, NumbersOK, WorkerOn
<1> QED
  BY <1>3, <1>9, <1>10, <1>11, <1>12, <1>14, Zenon DEF TermInv

LEMMA TurnGoesOn ==
    ASSUME ToolInv, TermInv, NEW S, Settles(S), NewKinds({"finished"}), active' = active,
           WorkerOn(S), ClaimsSame, OperatorOpen', WorkerTrue', OneOK', TerminalHonest',
           \A i \in Requests : Ran(i)' => ~Denied(i), \A i \in S : ~ApprovalPending(i),
           \A a \in Approvers : approver[a].pc = "claimed" => approver[a].req \notin S,
           \A i \in S : InTurn(i) => \A j \in NewFin : log'[j].turn = active
    PROVE  TermInv'
<1>1. LogOK /\ IsLog' /\ Grows /\ Requests' = Requests
  BY DEF Settles, ToolInv
<1>2. /\ NewKinds({"started", "finished", "turnFinished"})
      /\ \A j \in DOMAIN log' : j > Len(log) => log'[j].kind # "started"
  BY DEF NewKinds
<1>3. TurnsStarted' = TurnsStarted /\ TurnsStarted \in Nat
  BY <1>1, <1>2, StartsKept, TurnsStartedNat DEF TermInv
<1>4. RequestsOK' /\ AskOK' /\ \A i \in Requests : Denied(i)' <=> Denied(i)
  BY <1>1, <1>2, <1>3, SettlesLog
<1>5. \A i \in Requests :
         /\ Kept(i) /\ (Pends(i)' <=> Pends(i) /\ i \notin S)
         /\ i \notin S => Of(i, "finished")' = Of(i, "finished")
         /\ i \in S => \E j \in NewFin : Of(i, "finished")' = {j}
  BY <1>1, <1>2, SettlesKeeps, SettlesPends, SettlesOwn
<1>6. ResultOK'
  <2>1. \A i \in Requests : Ran(i)' => ~Denied(i)'
    BY <1>4
  <2>2. ASSUME NEW a \in Approvers, approver'[a].pc = "claimed", approver'[a].decision.approved
        PROVE  ~Denied(approver[a].req)'
    <3>1. approver'[a] = approver[a] /\ approver[a].pc = "claimed"
      BY <2>2 DEF ClaimsSame
    <3>2. PICK r \in Requests : r = approver[a].req /\ r = approver'[a].req /\ ~Denied(r)
      BY <2>2, <3>1 DEF TermInv, ResultOK, HandOK, Open
    <3>3. ~Denied(r)'
      BY <1>4, <3>2
    <3>4. Of(approver[a].req, "resolved")' = Of(r, "resolved")'
      BY <3>2, Zenon DEF Of, Belongs
    <3> QED
      BY <3>3, <3>4, Zenon DEF Denied
  <2> QED
    BY <1>1, <2>1, <2>2, Zenon DEF ResultOK
<1>7. \A i \in Requests : Stays(i, S)
  BY <1>5 DEF Kept, Stays
<1> QED
  BY <1>1, <1>2, <1>4, <1>6, <1>7, TurnCore

-----------------------------------------------------------------------------
(* A turn ends, and a turn begins. *)

LEMMA TurnEnds ==
    ASSUME ToolInv, TermInv, NEW S, Settles(S), NewKinds({"finished", "turnFinished"}),
           effects' = effects, active' = None, worker'.pc \in {"off", "controls"},
           worker'.turn = None, worker'.req = None,
           \A a \in Approvers : approver'[a].pc # "claimed", OperatorOpen',
           \A i \in S : ~ApprovalPending(i),
           "panic" \notin Troubles => \A i \in Requests : InTurn(i) /\ Open(i) /\ i \notin S => Pends(i)
    PROVE  TermInv'
<1>1. LogOK /\ IsLog' /\ Grows /\ Requests' = Requests
  BY DEF Settles, ToolInv
<1>2. NewKinds({"started", "finished", "turnFinished"})
  BY DEF NewKinds
<1>3. TurnsStarted' = TurnsStarted /\ TurnsStarted \in Nat /\ StartedOK'
  <2>1. \A j \in DOMAIN log' : j > Len(log) => log'[j].kind # "started"
    BY DEF NewKinds
  <2> QED
    BY <1>1, <2>1, StartsKept, TurnsStartedNat DEF TermInv
<1>4. RequestsOK' /\ AskOK' /\ \A i \in Requests : Denied(i)' <=> Denied(i)
  BY <1>1, <1>2, <1>3, SettlesLog
<1>5. OneOK' /\ TerminalHonest'
  BY <1>1, SettlesSound DEF TermInv
<1>6. \A i \in Requests :
         /\ Kept(i) /\ (Pends(i)' <=> Pends(i) /\ i \notin S)
         /\ i \notin S => Of(i, "finished")' = Of(i, "finished")
         /\ i \in S => Of(i, "finished")' # {}
  BY <1>1, <1>2, SettlesKeeps, SettlesPends, SettlesOwn
<1>7. worker'.pc \notin Busy /\ worker'.pc \in Resting /\ worker'.pc # "panicked"
  BY DEF Busy, Before, Asking, Resting
<1>8. \A i \in Requests : ~InTurn(i)'
  BY DEF InTurn
<1>9. HandOK'
  BY <1>7 DEF HandOK, Busy, Before, Asking
<1>10. WaitOK'
  <2>1. \A i, k \in Requests : Pends(i)' /\ Pends(k)' => k = i
    BY <1>6, Zenon DEF TermInv, WaitOK
  <2> QED
    BY <1>1, <1>7, <2>1, Zenon DEF WaitOK
<1>11. TurnOK'
  BY <1>1, <1>8, Zenon DEF TurnOK
<1>12. LeftOK'
  <2> SUFFICES ASSUME "panic" \notin Troubles, NEW i \in Requests, log'[i].call \in Calls,
                      Of(i, "finished")' = {}
               PROVE  Pends(i)'
    BY <1>1, <1>7, Zenon DEF LeftOK
  <2>1. i \notin S /\ Of(i, "finished") = {} /\ log[i].call \in Calls
    BY <1>6 DEF Kept
  <2>2. InTurn(i) \/ Pends(i)
    BY <2>1, Zenon DEF TermInv, LeftOK
  <2>3. InTurn(i) => Open(i)
    BY <2>1, Zenon DEF TermInv, TurnOK
  <2> QED
    BY <1>6, <2>1, <2>2, <2>3
<1>13. ResultOK'
  <2>1. WorkerTrue'
    BY DEF WorkerTrue
  <2>2. \A i \in Requests : Ran(i)' => ~Denied(i)'
    <3>1. \A i \in Requests : Ran(i)' <=> Ran(i)
      BY RanSame
    <3> QED
      BY <1>4, <3>1 DEF TermInv, ResultOK
  <2> QED
    BY <1>1, <2>1, <2>2, Zenon DEF ResultOK
<1>14. NumbersOK'
  BY DEF NumbersOK
<1> QED
  BY <1>3, <1>4, <1>5, <1>9, <1>10, <1>11, <1>12, <1>13, <1>14, Zenon DEF TermInv

(* The turn that begins closes what waits, or nothing waits.               *)
LEMMA TurnStarts ==
    ASSUME ToolInv, TermInv, NEW S, Settles(S), NewKinds({"started", "finished"}),
           effects' = effects, active = None, NEW t, t = TurnsStarted + 1, t <= MaxTurns,
           NEW n \in DOMAIN log', n > Len(log), log'[n].kind = "started", log'[n].turn = t,
           \A j \in DOMAIN log' : j > Len(log) /\ log'[j].kind = "started" => j = n,
           active' = t, worker'.pc = "model", worker'.turn = t, worker'.req = None,
           UNCHANGED <<approver, operator, booted>>,
           log'[n].resumed \in {None} \cup Requests,
           \A i \in Requests : i \in S <=> log'[n].resumed = i,
           \A i \in Requests : Pends(i) => i \in S,
           \A i \in S : ~ApprovalPending(i) /\ log[i].call \in Calls,
           \A j \in NewFin : log'[j].turn = t
    PROVE  TermInv'
<1>1. LogOK /\ IsLog' /\ Grows /\ Requests' = Requests
  BY DEF Settles, ToolInv
<1>2. NewKinds({"started", "finished", "turnFinished"})
  BY DEF NewKinds
<1>3. PICK m \in Nat : /\ m = TurnsStarted /\ TurnsStarted' = m + 1 /\ t = m + 1 /\ StartedOK'
                       /\ ResumedFrom(active)' = log'[n].resumed
  BY <1>1, StartsNext DEF TermInv
<1>4. RequestsOK' /\ AskOK' /\ \A i \in Requests : Denied(i)' <=> Denied(i)
  BY <1>1, <1>2, <1>3, SettlesLog
<1>5. OneOK' /\ TerminalHonest'
  BY <1>1, SettlesSound DEF TermInv
<1>6. \A i \in Requests :
         /\ Kept(i) /\ ~Pends(i)'
         /\ i \notin S => Of(i, "finished")' = Of(i, "finished")
         /\ i \in S => \E j \in NewFin : Of(i, "finished")' = {j}
  BY <1>1, <1>2, SettlesKeeps, SettlesPends, SettlesOwn
<1>7. worker'.pc = "model" /\ worker'.turn = t /\ worker'.req = None
  OBVIOUS
<1>8. \A a \in Approvers : approver'[a].pc # "claimed"
  BY DEF ToolInv, ApproverOK
<1>9. \A i \in Requests : InTurn(i)' => i \in S
  <2> SUFFICES ASSUME NEW i \in Requests, InTurn(i)' PROVE i \in S
    OBVIOUS
  <2>1. log'[i].turn = t \/ log'[n].resumed = i
    BY <1>3 DEF InTurn
  <2>2. log'[i].turn # t
    <3>1. log[i].turn = None \/ log[i].turn \in 1..m
      BY <1>3 DEF TermInv, RequestsOK
    <3> QED
      BY <1>3, <1>6, <3>1 DEF Kept, None
  <2> QED
    BY <2>1, <2>2
<1>10. HandOK'
  BY <1>7, <1>8 DEF HandOK, Busy, Before, Asking
<1>11. WaitOK'
  BY <1>1, <1>6, Zenon DEF WaitOK
<1>12. TurnOK'
  <2> SUFFICES ASSUME NEW i \in Requests, InTurn(i)'
               PROVE  /\ \A j \in Of(i, "finished")' : log'[j].turn = active'
                      /\ Of(i, "finished")' # {}
    BY <1>1, Zenon DEF TurnOK
  <2>1. PICK j \in NewFin : Of(i, "finished")' = {j}
    BY <1>6, <1>9
  <2> QED
    BY <2>1
<1>13. LeftOK'
  <2> SUFFICES ASSUME "panic" \notin Troubles, NEW i \in Requests, log'[i].call \in Calls,
                      Of(i, "finished")' = {}
               PROVE  FALSE
    BY <1>1, <1>7, Zenon DEF LeftOK
  <2>1. i \notin S /\ Of(i, "finished") = {} /\ log[i].call \in Calls
    BY <1>6 DEF Kept
  <2>2. ~InTurn(i)
    BY DEF InTurn
  <2> QED
    BY <2>1, <2>2, Zenon DEF TermInv, LeftOK
<1>14. OperatorOpen'
  <2>1. \A i \in Requests : Ran(i) => Ran(i)'
    BY RanSame
  <2>2. operator'.pc # "idle" => operator.req \notin S
    <3> SUFFICES ASSUME operator.pc # "idle", operator.req \in S PROVE FALSE
      OBVIOUS
    <3>1. log[operator.req].call = operator.req /\ operator.req \in Nat /\ log[operator.req].call \in Calls
      BY <1>1, Lengths DEF ToolInv, OperatorOK
    <3> QED
      BY <3>1, ToolAssumption DEF ToolAssumption
  <2> QED
    BY <2>1, <2>2, OperatorStays DEF OperatorOn
<1>15. ResultOK'
  <2>1. WorkerTrue'
    BY <1>7 DEF WorkerTrue
  <2>2. \A i \in Requests : Ran(i)' => ~Denied(i)'
    <3>1. \A i \in Requests : Ran(i)' <=> Ran(i)
      BY RanSame
    <3> QED
      BY <1>4, <3>1 DEF TermInv, ResultOK
  <2> QED
    BY <1>1, <1>8, <2>1, <2>2, Zenon DEF ResultOK
<1>16. NumbersOK'
  <2>1. t \in Turns /\ t # None
    BY <1>3, ToolAssumption DEF ToolAssumption, Turns, None
  <2> QED
    BY <1>7, <2>1 DEF NumbersOK
<1> QED
  BY <1>3, <1>4, <1>5, <1>10, <1>11, <1>12, <1>13, <1>14, <1>15, <1>16, Zenon DEF TermInv

-----------------------------------------------------------------------------
(* Steps that write nothing. *)

LEMMA SameLogSettles ==
    ASSUME LogOK, log' = log
    PROVE  /\ IsLog' /\ Grows /\ Requests' = Requests /\ NewFin = {} /\ Settles({})
           /\ \A K : NewKinds(K)
           /\ \A i \in Requests : /\ Kept(i) /\ Of(i, "finished")' = Of(i, "finished")
<1>1. IsLog' /\ Grows /\ Requests' = Requests
  BY DEF IsLog, Grows, Requests, LogOK
<1>2. \A j \in DOMAIN log' : ~(j > Len(log))
  BY <1>1, Lengths
<1>3. NewFin = {} /\ \A K : NewKinds(K)
  BY <1>2 DEF NewFin, NewKinds
<1>4. Settles({})
  BY <1>1, <1>3, SettlesNone
<1> QED
  BY <1>1, <1>3, <1>4, SettlesKeeps, SettlesOwn

(* The worker is not concerned. *)
LEMMA WorkerTrueStays ==
    ASSUME ToolInv, TermInv, worker' = worker,
           \A i \in Requests : log[i].call \in Calls =>
               (Ran(i)' <=> Ran(i)) /\ (Denied(i)' <=> Denied(i))
    PROVE  WorkerTrue'
<1>1. PICK r : r = worker.req /\ worker'.req = r
  OBVIOUS
<1>2. worker.pc \in Busy => (Ran(r)' <=> Ran(r)) /\ (Denied(r)' <=> Denied(r))
  BY <1>1 DEF TermInv, HandOK, Open
<1>3. /\ worker'.pc = "executing" => Ran(r)'
      /\ worker'.pc = "terminal" => /\ worker'.result = "denied" => ~Ran(r)'
                                    /\ worker'.result = "returned" => Ran(r)'
      /\ worker'.pc = "execute" => ~Denied(r)'
      /\ worker'.pc = "resume" /\ worker'.decision.approved => ~Denied(r)'
  BY <1>1, <1>2 DEF TermInv, ResultOK, WorkerTrue, Busy, Before, Asking
<1>4. Of(r, "resolved")' = Of(worker.req, "resolved")'
  BY <1>1, Zenon DEF Of, Belongs
<1>5. (Ran(r)' <=> Ran(worker.req)') /\ (Denied(r)' <=> Denied(worker.req)')
  <2>1. Ran(r)' <=> Ran(worker.req)'
    BY <1>1, Zenon DEF Ran
  <2>2. Denied(r)' <=> Denied(worker.req)'
    BY <1>4, Zenon DEF Denied
  <2> QED
    BY <2>1, <2>2
<1> QED
  BY <1>3, <1>5, Zenon DEF WorkerTrue

(* The handlers of approvals and of the operator move, or the session's flags. *)
LEMMA AsideTerm ==
    ASSUME ToolInv, TermInv, UNCHANGED <<log, active, worker, effects, booted>>,
           ClaimsSame, OperatorOn
    PROVE  TermInv'
<1>1. /\ LogOK /\ NewFin = {} /\ Settles({}) /\ NewKinds({"finished"})
      /\ \A i \in Requests : Kept(i)
  BY SameLogSettles DEF ToolInv
<1>2. \A i : Ran(i)' <=> Ran(i)
  BY RanSame
<1>3. WorkerTrue'
  BY <1>1, <1>2, WorkerTrueStays DEF Kept
<1>4. OperatorOpen'
  BY <1>1, <1>2, OperatorStays
<1>5. OneOK' /\ TerminalHonest'
  BY <1>1, SettlesSound DEF TermInv
<1>6. WorkerOn({})
  BY DEF WorkerOn
<1> QED
  BY <1>1, <1>2, <1>3, <1>4, <1>5, <1>6, TurnGoesOn DEF TermInv, ResultOK

(* The worker goes on with its request r, if it has one. *)
WorkerKnows(r) ==
    /\ worker.req = r /\ worker'.pc # "executing" /\ worker'.pc # "resume"
    /\ worker'.pc \in {"execute", "terminal"} => worker'.req = r
    /\ worker'.pc = "terminal" => /\ worker'.result = "denied" => ~Ran(r)
                                  /\ worker'.result = "returned" => Ran(r)
    /\ worker'.pc = "execute" => ~Denied(r)

LEMMA WorkerTrueMoves ==
    ASSUME ToolInv, TermInv, UNCHANGED <<log, effects>>, WorkerOn({}), NEW r, WorkerKnows(r)
    PROVE  WorkerTrue'
<1>1. /\ worker'.pc = "terminal" => /\ worker'.result = "denied" => ~Ran(r)'
                                    /\ worker'.result = "returned" => Ran(r)'
      /\ worker'.pc = "execute" => ~Denied(r)'
      /\ worker'.pc \in {"execute", "terminal"} => worker'.req = r
      /\ worker'.pc # "executing" /\ worker'.pc # "resume"
  <2>1. worker'.pc \in {"execute", "terminal"} => r \in Requests
    BY DEF WorkerOn, WorkerKnows, TermInv, HandOK, Open, Busy, Before, Asking
  <2>2. \A i \in Requests : (Ran(i)' <=> Ran(i)) /\ (Denied(i)' <=> Denied(i))
    BY SameLogSettles, RanSame DEF ToolInv, Kept
  <2> QED
    BY <2>1, <2>2 DEF WorkerKnows
<1>2. ASSUME worker'.pc \in {"execute", "terminal"}
      PROVE  (Ran(r)' <=> Ran(worker.req)') /\ (Denied(r)' <=> Denied(worker.req)')
  <2>1. worker'.req = r
    BY <1>1, <1>2
  <2>2. Of(r, "resolved")' = Of(worker.req, "resolved")'
    BY <2>1, Zenon DEF Of, Belongs
  <2>3. Ran(r)' <=> Ran(worker.req)'
    BY <2>1, Zenon DEF Ran
  <2>4. Denied(r)' <=> Denied(worker.req)'
    BY <2>2, Zenon DEF Denied
  <2> QED
    BY <2>3, <2>4
<1> QED
  BY <1>1, <1>2 DEF WorkerTrue

LEMMA WorkerAsideTerm ==
    ASSUME ToolInv, TermInv, UNCHANGED <<log, active, approver, operator, effects, booted>>,
           WorkerOn({}), NEW r, WorkerKnows(r)
    PROVE  TermInv'
<1>1. /\ LogOK /\ NewFin = {} /\ Settles({}) /\ NewKinds({"finished"})
  BY SameLogSettles DEF ToolInv
<1>2. \A i : Ran(i)' <=> Ran(i)
  BY RanSame
<1>3. WorkerTrue'
  BY WorkerTrueMoves
<1>4. OperatorOpen'
  BY <1>1, <1>2, OperatorStays DEF OperatorOn
<1>5. OneOK' /\ TerminalHonest'
  BY <1>1, SettlesSound DEF TermInv
<1>6. ClaimsSame
  BY DEF ClaimsSame
<1> QED
  BY <1>1, <1>2, <1>3, <1>4, <1>5, <1>6, TurnGoesOn DEF TermInv, ResultOK

LEMMA AsideSteps ==
    ASSUME ToolInv, TermInv,
           \/ ModelCalls \/ NextCompletion \/ (Decide /\ ~EndTurn("awaiting_input", <<>>))
           \/ ApprovalFault \/ ToolReturns \/ ConsumeControls \/ ResumeTool \/ Panic
    PROVE  TermInv'
<1> USE DEF Busy, Before, Asking, Resting
<1>1. worker \in WorkerStates
  BY DEF ToolInv, ProcessOK
<1>2. /\ worker.pc \in Busy => Free(worker.req) \/ worker.pc \in {"executing", "terminal"}
      /\ Free(worker.req) => ~Ran(worker.req)
  BY DEF ToolInv, WorkerOK, Free
<1>3. WorkerTrue /\ \A i \in Requests : Of(i, "resolved") = {} => ~Denied(i)
  BY DEF TermInv, ResultOK, Denied
<1>4. CASE ModelCalls
  <2>1. worker.pc = "model" /\ worker'.pc = "next" /\ worker'.turn = worker.turn /\ worker'.req = worker.req
    BY <1>1, <1>4 DEF ModelCalls, WorkerStates
  <2>2. WorkerOn({}) /\ WorkerKnows(worker.req)
    BY <2>1 DEF WorkerOn, WorkerKnows
  <2> QED
    BY <1>4, <2>2, WorkerAsideTerm DEF ModelCalls, handlers
<1>5. CASE NextCompletion
  <2>1. worker.pc = "next" /\ worker'.pc = "model" /\ worker'.turn = worker.turn /\ worker'.req = worker.req
    BY <1>1, <1>5 DEF NextCompletion, Go, WorkerStates
  <2>2. WorkerOn({}) /\ WorkerKnows(worker.req)
    BY <2>1 DEF WorkerOn, WorkerKnows
  <2> QED
    BY <1>5, <2>2, WorkerAsideTerm DEF NextCompletion, handlers
<1>6. CASE Decide /\ ~EndTurn("awaiting_input", <<>>)
  <2>1. /\ worker.pc = "requested"
        /\ worker'.turn = worker.turn /\ worker'.req = worker.req /\ worker'.inv = worker.inv
        /\ \/ worker'.pc = "terminal" /\ worker'.result = "cancelled"
           \/ worker'.pc = "execute" /\ worker.inv \in Safe
           \/ worker'.pc \in {"ask", "resolve"} /\ worker.inv \in Guarded
    BY <1>1, <1>6 DEF Decide, Go, Inv, WorkerStates
  <2>2. ~Denied(worker.req)
    BY <1>3, <2>1 DEF TermInv, HandOK, Open
  <2>3. worker.inv = Ask => worker'.pc = "terminal"
    BY <2>1, ToolAssumption DEF ToolAssumption
  <2>4. WorkerOn({}) /\ WorkerKnows(worker.req)
    BY <2>1, <2>2, <2>3 DEF WorkerOn, WorkerKnows
  <2>5. UNCHANGED <<log, active, approver, operator, effects, booted>>
    BY <1>6 DEF Decide, handlers
  <2> QED
    BY <2>4, <2>5, WorkerAsideTerm
<1>7. CASE ApprovalFault
  <2>1. /\ worker.pc \in {"resolve", "ask"} /\ worker'.pc = "terminal" /\ worker'.result = "failed"
        /\ worker'.turn = worker.turn /\ worker'.req = worker.req /\ worker'.inv = worker.inv
    BY <1>1, <1>7 DEF ApprovalFault, WorkerStates
  <2>2. WorkerOn({}) /\ WorkerKnows(worker.req)
    BY <2>1 DEF WorkerOn, WorkerKnows
  <2> QED
    BY <1>7, <2>2, WorkerAsideTerm DEF ApprovalFault, handlers
<1>8. CASE ToolReturns
  <2>1. /\ worker.pc = "executing" /\ worker'.pc = "terminal" /\ worker'.result \in {"cancelled", "returned"}
        /\ worker'.turn = worker.turn /\ worker'.req = worker.req /\ worker'.inv = worker.inv
    BY <1>1, <1>8 DEF ToolReturns, WorkerStates
  <2>2. Ran(worker.req)
    BY <1>3, <2>1 DEF WorkerTrue
  <2>3. WorkerOn({}) /\ WorkerKnows(worker.req)
    BY <2>1, <2>2 DEF WorkerOn, WorkerKnows
  <2> QED
    BY <1>8, <2>3, WorkerAsideTerm DEF ToolReturns, handlers
<1>9. CASE ConsumeControls
  <2>1. /\ worker.pc = "controls" /\ worker'.pc = "off" /\ worker'.turn = None /\ worker'.req = None
    BY <1>9 DEF ConsumeControls, Idle
  <2>2. WorkerOn({}) /\ WorkerKnows(worker.req)
    BY <2>1 DEF WorkerOn, WorkerKnows
  <2> QED
    BY <1>9, <2>2, WorkerAsideTerm DEF ConsumeControls, handlers
<1>10. CASE ResumeTool
  <2>1. /\ worker.pc = "resume"
        /\ worker'.turn = worker.turn /\ worker'.req = worker.req /\ worker'.inv = worker.inv
        /\ \/ worker'.pc = "terminal" /\ worker'.result \in {"cancelled", "denied"}
           \/ worker'.pc = "execute" /\ worker.decision.approved
    BY <1>1, <1>10 DEF ResumeTool, WorkerStates
  <2>2. ~Ran(worker.req) /\ (worker'.pc = "execute" => ~Denied(worker.req))
    BY <1>2, <1>3, <2>1 DEF WorkerTrue
  <2>3. WorkerOn({}) /\ WorkerKnows(worker.req)
    BY <2>1, <2>2 DEF WorkerOn, WorkerKnows
  <2> QED
    BY <1>10, <2>3, WorkerAsideTerm DEF ResumeTool, handlers
<1>11. CASE Panic
  <2>1. /\ worker.pc \notin {"off", "panicked", "controls"} /\ worker'.pc = "panicked"
        /\ worker'.turn = worker.turn /\ worker'.req = worker.req /\ "panic" \in Troubles
    BY <1>1, <1>11 DEF Panic, Go, Trouble, WorkerStates
  <2>2. WorkerOn({}) /\ WorkerKnows(worker.req)
    BY <2>1 DEF WorkerOn, WorkerKnows
  <2> QED
    BY <1>11, <2>2, WorkerAsideTerm DEF Panic, handlers
<1> QED
  BY <1>4, <1>5, <1>6, <1>7, <1>8, <1>9, <1>10, <1>11

(* The execution of a request that nobody denied. *)
LEMMA RunsHonest ==
    ASSUME ToolInv, TermInv, UNCHANGED log, NEW r \in Requests,
           ~Denied(r), Of(r, "finished") = {}, NEW v, effects' = Append(effects, <<r, v>>)
    PROVE  /\ OneOK' /\ TerminalHonest' /\ Ran(r)'
           /\ \A i \in Requests : /\ Ran(i)' => ~Denied(i)
                                  /\ Ran(i) => Ran(i)'
                                  /\ i # r => (Ran(i)' <=> Ran(i))
<1>1. Requests' = Requests /\ \A i \in Requests : Of(i, "finished")' = Of(i, "finished")
  BY SameLogSettles DEF ToolInv
<1>2. OneOK'
  BY <1>1 DEF TermInv, OneOK
<1>3. \A i : Ran(i)' <=> Ran(i) \/ i = r
  <2>1. /\ Len(effects) \in Nat /\ DOMAIN effects = 1..Len(effects)
        /\ DOMAIN effects' = 1..(Len(effects) + 1)
        /\ \A e \in DOMAIN effects : effects'[e] = effects[e]
        /\ effects'[Len(effects) + 1] = <<r, v>>
    BY DEF ToolInv, EffectsOK
  <2> QED
    BY <2>1 DEF Ran
<1>4. \A i \in Requests : Ran(i)' => ~Denied(i)
  BY <1>3 DEF TermInv, ResultOK
<1>5. TerminalHonest'
  <2> SUFFICES ASSUME NEW i \in Requests, NEW j \in Of(i, "finished")'
               PROVE  /\ log'[j].result = "denied" => ~Ran(i)'
                      /\ log'[j].result = "returned" => Ran(i)' \/ log'[i].inv = Ask
    BY <1>1 DEF TerminalHonest, Ran
  <2>1. j \in Of(i, "finished") /\ i # r
    BY <1>1
  <2>2. /\ log[j].result = "denied" => ~Ran(i)
        /\ log[j].result = "returned" => Ran(i) \/ log[i].inv = Ask
    BY <2>1 DEF TermInv, TerminalHonest, Ran
  <2> QED
    BY <1>3, <2>1, <2>2
<1> QED
  BY <1>2, <1>3, <1>4, <1>5

LEMMA ExecuteTerm ==
    ASSUME ToolInv, TermInv, Execute
    PROVE  TermInv'
<1> USE DEF Busy, Before, Asking, Resting
<1>1. worker \in WorkerStates /\ worker.pc = "execute"
  BY DEF ToolInv, ProcessOK, Execute
<1>2. PICK r \in Requests : /\ r = worker.req /\ Open(r) /\ ~Denied(r) /\ Of(r, "finished") = {}
  BY <1>1 DEF TermInv, HandOK, Open, ResultOK, WorkerTrue
<1>3. CASE cancelRequested
  <2>1. /\ worker'.pc = "terminal" /\ worker'.result = "cancelled" /\ effects' = effects
        /\ worker'.turn = worker.turn /\ worker'.req = worker.req /\ worker'.inv = worker.inv
    BY <1>1, <1>3 DEF Execute, WorkerStates
  <2>2. WorkerOn({}) /\ WorkerKnows(worker.req)
    BY <1>1, <2>1 DEF WorkerOn, WorkerKnows
  <2> QED
    BY <2>1, <2>2, WorkerAsideTerm DEF Execute, handlers
<1>4. CASE ~cancelRequested
  <2>1. /\ worker'.pc = "executing" /\ effects' = Append(effects, <<r, Inv>>)
        /\ worker'.turn = worker.turn /\ worker'.req = r /\ worker'.inv = worker.inv
    BY <1>1, <1>2, <1>4 DEF Execute, Go, WorkerStates
  <2>2. UNCHANGED <<log, active, approver, operator, booted>>
    BY DEF Execute, handlers
  <2>3. /\ OneOK' /\ TerminalHonest' /\ Ran(r)'
        /\ \A i \in Requests : (Ran(i)' => ~Denied(i)) /\ (Ran(i) => Ran(i)')
    BY <1>2, <2>1, <2>2, RunsHonest
  <2>4. WorkerOn({})
    BY <1>1, <1>2, <2>1 DEF WorkerOn
  <2>5. WorkerTrue'
    <3>1. Ran(worker.req)'
      BY <2>1, <2>3, Zenon DEF Ran
    <3> QED
      BY <2>1, <3>1 DEF WorkerTrue
  <2>6. LogOK /\ NewFin = {} /\ Settles({}) /\ NewKinds({"finished"})
    BY <2>2, SameLogSettles DEF ToolInv
  <2>7. OperatorOpen'
    BY <2>2, <2>3, <2>6, OperatorStays DEF OperatorOn
  <2>8. ClaimsSame
    BY <2>2 DEF ClaimsSame
  <2> QED
    BY <2>2, <2>3, <2>4, <2>5, <2>6, <2>7, <2>8, TurnGoesOn
<1> QED
  BY <1>3, <1>4

-----------------------------------------------------------------------------
(* Steps that end the turn, and results. *)

(* The step appends these two events. *)
NewPair(e, f) ==
    \E n, m \in DOMAIN log' :
        /\ n > Len(log) /\ m > Len(log) /\ n < m /\ log'[n] = e /\ log'[m] = f
        /\ \A j \in DOMAIN log' : j > Len(log) => j = n \/ j = m

LEMMA TwoEvents ==
    ASSUME IsLog, NEW e, NEW f, NEW q, q = <<e, f>>, log' = log \o q
    PROVE  IsLog' /\ Grows /\ NewPair(e, f)
<1>1. <<e, f>> \in Seq({e, f}) /\ Len(<<e, f>>) = 2
  OBVIOUS
<1>2. q[1] = e /\ q[2] = f /\ Len(q) = 2 /\ q \in Seq({e, f})
  BY <1>1
<1>3. /\ IsLog' /\ Grows /\ Len(log') = Len(log) + 2
      /\ \A k \in 1..2 : log'[Len(log) + k] = q[k]
  BY <1>2, ConcatGrows
<1>4. Len(log) \in Nat /\ DOMAIN log' = 1..(Len(log) + 2)
  BY <1>3, LenProperties DEF IsLog
<1>5. log'[Len(log) + 1] = e /\ log'[Len(log) + 2] = f
  BY <1>2, <1>3
<1>6. PICK n, m : n = Len(log) + 1 /\ m = Len(log) + 2
  OBVIOUS
<1>7. /\ n \in DOMAIN log' /\ m \in DOMAIN log' /\ n > Len(log) /\ m > Len(log) /\ n < m
      /\ \A j \in DOMAIN log' : j > Len(log) => j = n \/ j = m
  BY <1>4, <1>6
<1>8. log'[n] = e /\ log'[m] = f
  BY <1>5, <1>6
<1>9. NewPair(e, f)
  BY <1>7, <1>8, ZenonT(60) DEF NewPair
<1> QED
  BY <1>3, <1>9

LEMMA EndLog ==
    ASSUME ToolInv, effects' = effects, NEW e, e.kind = "turnFinished", log' = Append(log, e)
    PROVE  /\ Settles({}) /\ NewKinds({"finished", "turnFinished"})
<1>1. IsLog /\ IsLog' /\ Grows
  BY AppendGrows DEF ToolInv, LogOK, IsLog
<1>2. PICK n \in DOMAIN log' : /\ n > Len(log) /\ log'[n] = e
                               /\ \A j \in DOMAIN log' : j = n \/ (j \in DOMAIN log /\ log'[j] = log[j])
  BY <1>1, AppendedOne
<1>3. \A j \in DOMAIN log' : j > Len(log) => j = n
  BY <1>1, <1>2, Lengths DEF ToolInv
<1>4. NewKinds({"finished", "turnFinished"}) /\ NewFin = {}
  BY <1>2, <1>3 DEF NewKinds, NewFin
<1>5. Requests' = Requests
  BY <1>1, <1>4, QuietKeeps DEF ToolInv, Quiet, NewKinds
<1> QED
  BY <1>1, <1>4, <1>5, SettlesNone

LEMMA ResultEndLog ==
    ASSUME ToolInv, effects' = effects, NEW e, e.kind = "turnFinished",
           NEW r \in Requests, Newest(r), Of(r, "finished") = {},
           NEW f, f.kind = "finished", f.call = log[r].call, TrueResult(r, f.result),
           NEW q, q = <<f, e>>, log' = log \o q
    PROVE  /\ Settles({r}) /\ NewKinds({"finished", "turnFinished"})
<1>1. IsLog /\ IsLog' /\ Grows /\ NewPair(f, e)
  <2>1. IsLog
    BY DEF ToolInv, LogOK, IsLog
  <2> QED
    BY <2>1, TwoEvents
<1>2. PICK n, m \in DOMAIN log' :
         /\ n > Len(log) /\ m > Len(log) /\ n < m /\ log'[n] = f /\ log'[m] = e
         /\ \A j \in DOMAIN log' : j > Len(log) => j = n \/ j = m
  BY <1>1, Zenon DEF NewPair
<1>3. NewKinds({"finished", "turnFinished"}) /\ NewFin = {n}
  BY <1>2 DEF NewKinds, NewFin
<1>4. Requests' = Requests
  BY <1>1, <1>3, QuietKeeps DEF ToolInv, Quiet, NewKinds
<1> QED
  BY <1>1, <1>2, <1>3, <1>4, SettlesOne

(* The events of EndTurn. *)
LEMMA EndTurnEvents ==
    ASSUME IsLog, NEW s
    PROVE  /\ EndTurn(s, <<>>) => \E e : e.kind = "turnFinished" /\ log' = Append(log, e)
           /\ \A f : EndTurn(s, <<f>>) => \E e : e.kind = "turnFinished" /\ log' = log \o <<f, e>>
<1>1. PICK T : log \in Seq(T)
  BY DEF IsLog
<1>2. \A e : log \o <<>> \o <<e>> = Append(log, e)
  BY <1>1
<1>3. \A e, f : log \o <<f>> \o <<e>> = log \o <<f, e>>
  <2> SUFFICES ASSUME NEW e, NEW f PROVE log \o <<f>> \o <<e>> = log \o <<f, e>>
    OBVIOUS
  <2>1. PICK U : U = T \cup {e, f}
    OBVIOUS
  <2>2. log \in Seq(U) /\ <<f>> \in Seq(U) /\ <<e>> \in Seq(U) /\ <<f, e>> \in Seq(U)
    <3>1. T \subseteq U /\ e \in U /\ f \in U
      BY <2>1
    <3> QED
      BY <1>1, <3>1
  <2>3. log \o <<f>> \o <<e>> = log \o (<<f>> \o <<e>>)
    BY <2>2, ConcatAssociative
  <2>4. <<f>> \o <<e>> = <<f, e>>
    <3>1. PICK p, q : p = <<f>> \o <<e>> /\ q = <<f, e>>
      OBVIOUS
    <3>2. Len(<<f>>) = 1 /\ Len(<<e>>) = 1 /\ <<f>>[1] = f /\ <<e>>[1] = e
      OBVIOUS
    <3>3. q \in Seq(U) /\ Len(q) = 2 /\ q[1] = f /\ q[2] = e
      BY <2>2, <3>1
    <3>4. p \in Seq(U) /\ Len(p) = 2 /\ p[1] = f /\ p[2] = e
      <4>1. PICK a, b : /\ a = <<f>> /\ b = <<e>> /\ a \in Seq(U) /\ b \in Seq(U)
                        /\ Len(a) = 1 /\ Len(b) = 1 /\ a[1] = f /\ b[1] = e
        BY <2>2, <3>2
      <4>2. p = a \o b
        BY <3>1, <4>1
      <4>3. a \in Seq(U) /\ b \in Seq(U) /\ Len(a) = 1 /\ Len(b) = 1 /\ a[1] = f /\ b[1] = e
        BY <4>1
      <4>4. /\ p \in Seq(U) /\ Len(p) = Len(a) + Len(b)
            /\ \A i \in 1..(Len(a) + Len(b)) : p[i] = IF i <= Len(a) THEN a[i] ELSE b[i - Len(a)]
        BY <4>2, <4>3, ConcatProperties, Zenon
      <4> QED
        BY <4>3, <4>4
    <3>5. \A i \in 1..Len(p) : p[i] = q[i]
      BY <3>3, <3>4
    <3>6. p = q
      BY <3>3, <3>4, <3>5, SeqEqual
    <3> QED
      BY <3>1, <3>6
  <2> QED
    BY <2>3, <2>4
<1>4. PICK e : e = TurnFinished(active, IF cancelRequested THEN "cancelled" ELSE s)
  OBVIOUS
<1>5. e.kind = "turnFinished"
  BY <1>4 DEF TurnFinished
<1>6. /\ EndTurn(s, <<>>) => log' = log \o <<>> \o <<e>>
      /\ \A f : EndTurn(s, <<f>>) => log' = log \o <<f>> \o <<e>>
  BY <1>4, Zenon DEF EndTurn
<1> QED
  BY <1>2, <1>3, <1>5, <1>6

LEMMA EndsTerm ==
    ASSUME ToolInv, TermInv, NEW s, NEW q, EndTurn(s, q), worker.pc \notin {"off", "controls"},
           \/ q = <<>> /\ (worker.pc \in Busy => worker.pc = "requested" /\ worker.inv = Ask)
           \/ \E x : /\ q = <<Finished(Call, active, x)>> /\ worker.pc \in Busy
                     /\ TrueResult(worker.req, x)
    PROVE  TermInv'
<1>1. /\ active' = None /\ worker'.pc \in {"off", "controls"}
      /\ worker'.turn = None /\ worker'.req = None
      /\ effects' = effects /\ UNCHANGED <<approver, operator, booted>>
  BY DEF EndTurn, Idle, handlers
<1>2. LogOK /\ IsLog /\ \A a \in Approvers : approver[a].pc # "claimed"
  BY DEF ToolInv, LogOK, IsLog, ApproverOK
<1>3. \A i : Ran(i)' <=> Ran(i)
  BY <1>1, RanSame
<1>4. ASSUME "panic" \notin Troubles, NEW i \in Requests, InTurn(i), Open(i)
      PROVE  (worker.pc \in Busy /\ worker.req = i) \/ Pends(i)
  <2>1. worker.pc # "panicked" /\ Of(i, "finished") = {}
    BY <1>4 DEF TermInv, LeftOK, Open
  <2>2. Hand(i) \/ ApprovalPending(i)
    BY <1>4, <2>1, Zenon DEF TermInv, TurnOK
  <2>3. Hand(i) => worker.pc \in Busy /\ worker.req = i
    BY <1>2 DEF Hand
  <2>4. ApprovalPending(i) => Pends(i)
    BY <1>4 DEF Pends, Open
  <2> QED
    BY <2>2, <2>3, <2>4
<1>5. CASE q = <<>>
  <2>1. Settles({}) /\ NewKinds({"finished", "turnFinished"})
    BY <1>1, <1>2, <1>5, EndLog, EndTurnEvents
  <2>2. OperatorOpen'
    BY <1>1, <1>3, <2>1, OperatorStays DEF OperatorOn
  <2>3. worker.pc \in Busy => worker.pc = "requested" /\ worker.inv = Ask
    BY <1>5
  <2>4. ASSUME NEW i \in Requests, worker.pc \in Busy, worker.req = i PROVE Pends(i)
    <3>1. Open(i) /\ log[i].inv = Ask
      BY <2>3, <2>4 DEF TermInv, HandOK
    <3> QED
      BY <3>1 DEF Open, Pends, InputPending
  <2> QED
    BY <1>1, <1>2, <1>4, <2>1, <2>2, <2>4, TurnEnds
<1>6. CASE \E x : /\ q = <<Finished(Call, active, x)>> /\ worker.pc \in Busy
                  /\ TrueResult(worker.req, x)
  <2>1. PICK x : /\ q = <<Finished(Call, active, x)>> /\ worker.pc \in Busy
                 /\ TrueResult(worker.req, x)
    BY <1>6
  <2>2. PICK r \in Requests : r = worker.req /\ Open(r) /\ ~ApprovalPending(r)
    BY <2>1 DEF TermInv, HandOK, Open
  <2>3. PICK f : f = Finished(Call, active, x)
    OBVIOUS
  <2>4. Settles({r}) /\ NewKinds({"finished", "turnFinished"})
    <3>1. f.kind = "finished" /\ f.call = log[r].call /\ f.result = x
      BY <2>2, <2>3 DEF Finished, Call
    <3>2. PICK e : e.kind = "turnFinished" /\ log' = log \o <<f, e>>
      <4>1. EndTurn(s, <<f>>)
        BY <2>1, <2>3
      <4> QED
        BY <1>2, <4>1, EndTurnEvents
    <3> QED
      BY <1>1, <2>1, <2>2, <3>1, <3>2, ResultEndLog DEF Open
  <2>5. operator.pc # "idle" => operator.req # r
    BY <2>2, ToolAssumption, LogFacts, <1>2 DEF ToolAssumption, ToolInv, OperatorOK, Open
  <2>6. OperatorOpen'
    BY <1>1, <1>3, <2>4, <2>5, OperatorStays DEF OperatorOn
  <2> QED
    BY <1>1, <1>2, <1>4, <2>2, <2>4, <2>6, TurnEnds
<1> QED
  BY <1>5, <1>6

LEMMA EndingSteps ==
    ASSUME ToolInv, TermInv,
           \/ ModelAnswers \/ ModelFails \/ (RequestTool /\ ~NewTool)
           \/ (Decide /\ EndTurn("awaiting_input", <<>>))
           \/ PauseForApproval \/ TerminalFault \/ FailTurn \/ ResumeFault \/ ResumeCheck \/ Watchdog
    PROVE  TermInv'
<1> USE DEF Busy, Before, Asking
<1>1. worker \in WorkerStates
  BY DEF ToolInv, ProcessOK
<1>2. CASE ModelAnswers
  BY <1>2, EndsTerm DEF ModelAnswers
<1>3. CASE ModelFails
  BY <1>3, EndsTerm DEF ModelFails
<1>4. CASE RequestTool /\ ~NewTool
  BY <1>4, EndsTerm DEF RequestTool, NewTool
<1>5. CASE Decide /\ EndTurn("awaiting_input", <<>>)
  <2>1. worker.pc = "requested" /\ worker'.pc \in {"off", "controls"}
    BY <1>5 DEF Decide, EndTurn, Idle
  <2>2. worker.inv = Ask
    BY <1>1, <1>5, <2>1 DEF Decide, Go, Inv, WorkerStates
  <2> QED
    BY <1>5, <2>1, <2>2, EndsTerm
<1>6. CASE PauseForApproval
  BY <1>6, EndsTerm DEF PauseForApproval
<1>7. CASE TerminalFault
  <2>1. TrueResult(worker.req, worker.result) /\ worker.pc = "terminal"
    BY <1>7 DEF TerminalFault, TrueResult, TermInv, ResultOK, WorkerTrue
  <2>2. EndTurn("failed", <<Finished(Call, active, worker.result)>>)
    BY <1>7 DEF TerminalFault
  <2> QED
    BY <2>1, <2>2, EndsTerm
<1>8. CASE FailTurn
  BY <1>8, EndsTerm DEF FailTurn
<1>9. CASE ResumeFault
  <2>1. TrueResult(worker.req, "failed") /\ worker.pc \in {"execute", "executing"}
    BY <1>9 DEF ResumeFault, TrueResult
  <2>2. EndTurn("failed", <<Finished(Call, active, "failed")>>)
    BY <1>9 DEF ResumeFault
  <2> QED
    BY <2>1, <2>2, EndsTerm
<1>10. CASE ResumeCheck
  <2>1. CASE EndTurn("cancelled", <<>>) \/ EndTurn("awaiting_approval", <<>>)
    BY <1>10, <2>1, EndsTerm DEF ResumeCheck
  <2>2. CASE ~(EndTurn("cancelled", <<>>) \/ EndTurn("awaiting_approval", <<>>))
    <3>1. /\ worker.pc = "resumeCheck" /\ worker'.pc = "model"
          /\ worker'.turn = worker.turn /\ worker'.req = worker.req
      BY <1>1, <1>10, <2>2 DEF ResumeCheck, Go, WorkerStates
    <3>2. WorkerOn({}) /\ WorkerKnows(worker.req)
      BY <3>1 DEF WorkerOn, WorkerKnows, Resting
    <3>3. UNCHANGED <<log, active, approver, operator, effects, booted>>
      BY <1>10, <2>2 DEF ResumeCheck, handlers
    <3> QED
      BY <3>2, <3>3, WorkerAsideTerm
  <2> QED
    BY <2>1, <2>2
<1>11. CASE Watchdog
  BY <1>11, EndsTerm DEF Watchdog
<1> QED
  BY <1>2, <1>3, <1>4, <1>5, <1>6, <1>7, <1>8, <1>9, <1>10, <1>11

(* One more event, a result of this request. *)
LEMMA ResultLog ==
    ASSUME ToolInv, effects' = effects, NEW r \in Requests, Newest(r), Of(r, "finished") = {},
           NEW e, e.kind = "finished", e.call = log[r].call, TrueResult(r, e.result),
           log' = Append(log, e)
    PROVE  /\ Settles({r}) /\ NewKinds({"finished"}) /\ \A j \in NewFin : log'[j] = e
<1>1. IsLog /\ IsLog' /\ Grows
  BY AppendGrows DEF ToolInv, LogOK, IsLog
<1>2. PICK n \in DOMAIN log' : /\ n > Len(log) /\ log'[n] = e
                               /\ \A j \in DOMAIN log' : j = n \/ (j \in DOMAIN log /\ log'[j] = log[j])
  BY <1>1, AppendedOne
<1>3. \A j \in DOMAIN log' : j > Len(log) => j = n
  BY <1>1, <1>2, Lengths DEF ToolInv
<1>4. NewKinds({"finished"}) /\ NewFin = {n}
  BY <1>2, <1>3 DEF NewKinds, NewFin
<1>5. Requests' = Requests
  BY <1>1, <1>4, QuietKeeps DEF ToolInv, Quiet, NewKinds
<1> QED
  BY <1>1, <1>2, <1>4, <1>5, SettlesOne

LEMMA RecordTerminalTerm ==
    ASSUME ToolInv, TermInv, RecordTerminal
    PROVE  TermInv'
<1> USE DEF Busy, Before, Asking
<1>1. /\ worker.pc = "terminal" /\ worker \in WorkerStates /\ LogOK
      /\ UNCHANGED <<active, approver, operator, effects, booted>>
  BY DEF RecordTerminal, handlers, ToolInv, ProcessOK
<1>2. PICK r \in Requests : /\ r = worker.req /\ Open(r) /\ ~ApprovalPending(r)
                            /\ TrueResult(r, worker.result)
  BY <1>1 DEF TermInv, HandOK, Open, ResultOK, WorkerTrue, TrueResult
<1>3. PICK e : e = Finished(Call, active, worker.result)
  OBVIOUS
<1>4. /\ log' = Append(log, e) /\ e.kind = "finished" /\ e.call = log[r].call
      /\ e.turn = active /\ e.result = worker.result
  BY <1>2, <1>3 DEF RecordTerminal, Append1, Finished, Call
<1>5. Settles({r}) /\ NewKinds({"finished"}) /\ \A j \in NewFin : log'[j] = e
  BY <1>1, <1>2, <1>4, ResultLog DEF Open
<1>6. /\ worker'.pc \in {"fail", "resumeCheck", "model", "next"}
      /\ worker'.turn = worker.turn /\ worker'.req = worker.req
  BY <1>1 DEF RecordTerminal, Go, WorkerStates
<1>7. WorkerOn({r})
  BY <1>1, <1>2, <1>6 DEF WorkerOn, Resting
<1>8. WorkerTrue'
  BY <1>6 DEF WorkerTrue
<1>9. \A i : Ran(i)' <=> Ran(i)
  BY <1>1, RanSame
<1>10. operator.pc # "idle" => operator.req # r
  BY <1>1, <1>2, ToolAssumption, LogFacts DEF ToolAssumption, ToolInv, OperatorOK, Open
<1>11. OperatorOpen'
  BY <1>1, <1>5, <1>9, <1>10, OperatorStays DEF OperatorOn
<1>12. OneOK' /\ TerminalHonest'
  BY <1>1, <1>5, SettlesSound DEF TermInv
<1>13. ClaimsSame /\ \A a \in Approvers : approver[a].pc # "claimed"
  BY <1>1 DEF ClaimsSame, ToolInv, ApproverOK
<1> QED
  BY <1>1, <1>2, <1>4, <1>5, <1>7, <1>8, <1>9, <1>11, <1>12, <1>13, TurnGoesOn
     DEF TermInv, ResultOK

LEMMA OperatorTerm ==
    ASSUME ToolInv, TermInv, OperatorExecutes \/ OperatorRecords \/ OperatorFault \/ OperatorGone
    PROVE  TermInv'
<1>1. /\ LogOK /\ UNCHANGED <<active, worker, approver, booted>>
      /\ operator.pc \in {"execute", "record", "recover"}
  BY DEF OperatorExecutes, OperatorRecords, OperatorFault, OperatorGone, ToolInv
<1>2. PICK r \in Requests : /\ r = operator.req /\ log[r].call = r /\ log[r].turn = None
                            /\ Of(r, "finished") = {} /\ r \notin Calls /\ r \in Nat
                            /\ operator.pc \in {"record", "recover"} => Ran(r)
  <2>1. operator.req \in Requests /\ operator.req \in Nat
    BY <1>1, LogFacts DEF ToolInv, OperatorOK
  <2> QED
    BY <1>1, <2>1, ToolAssumption DEF ToolAssumption, ToolInv, OperatorOK, TermInv, OperatorOpen
<1>3. \A i \in Requests : log[i].call \in Calls => i # r
  BY <1>2
<1>4. ClaimsSame
  BY <1>1 DEF ClaimsSame
<1>5. operator \in OperatorStates
  BY DEF ToolInv, ProcessOK
<1>6. CASE OperatorFault \/ OperatorGone
  <2>1. /\ UNCHANGED <<log, effects>>
        /\ operator'.pc # "idle" => operator'.req = operator.req /\ operator.pc \in {"record", "recover"}
    BY <1>5, <1>6 DEF OperatorFault, OperatorGone, NoOperator, OperatorStates
  <2>2. OperatorOn
    BY <1>1, <2>1 DEF OperatorOn
  <2> QED
    BY <1>1, <1>4, <2>1, <2>2, AsideTerm
<1>7. ~Denied(r) /\ ~InTurn(r) /\ ~ApprovalPending(r)
  <2>1. Of(r, "resolved") = {}
    BY <1>2 DEF Of, Belongs, TermInv, RequestsOK
  <2>2. ~InTurn(r)
    <3>1. ~Open(r)
      BY <1>2 DEF Open
    <3> QED
      BY <1>2, <3>1 DEF TermInv, TurnOK
  <2>3. ~ApprovalPending(r)
    BY <1>2 DEF ToolInv, PendingOK
  <2> QED
    BY <2>1, <2>2, <2>3 DEF Denied
<1>8. CASE OperatorExecutes
  <2>1. /\ log' = log /\ operator'.pc = "record" /\ operator'.req = operator.req
        /\ effects' = Append(effects, <<r, log[r].inv>>)
    BY <1>2, <1>5, <1>8 DEF OperatorExecutes, OperatorStates
  <2>2. /\ OneOK' /\ TerminalHonest' /\ Ran(r)'
        /\ \A i \in Requests : /\ Ran(i)' => ~Denied(i)
                               /\ Ran(i) => Ran(i)'
                               /\ i # r => (Ran(i)' <=> Ran(i))
    BY <1>2, <1>7, <2>1, RunsHonest
  <2>3. /\ NewFin = {} /\ Settles({}) /\ NewKinds({"finished"})
        /\ \A i \in Requests : Kept(i)
    BY <1>1, <2>1, SameLogSettles
  <2>4. WorkerTrue'
    BY <1>1, <1>3, <2>2, <2>3, WorkerTrueStays DEF Kept
  <2>5. OperatorOn
    <3>1. Ran(operator.req)'
      <4>1. operator'.req = r /\ Ran(r)'
        BY <1>2, <2>1, <2>2
      <4> QED
        BY <4>1, Zenon DEF Ran
    <3> QED
      BY <1>1, <2>1, <3>1 DEF OperatorOn
  <2>6. OperatorOpen'
    BY <1>1, <2>2, <2>3, <2>5, OperatorStays
  <2>7. WorkerOn({})
    BY <1>1 DEF WorkerOn
  <2> QED
    BY <1>1, <1>4, <2>2, <2>3, <2>4, <2>6, <2>7, TurnGoesOn
<1>9. CASE OperatorRecords
  <2>1. PICK e : e = Finished(OperatorCall, None, "returned")
    OBVIOUS
  <2>2. /\ log' = Append(log, e) /\ e.kind = "finished" /\ e.call = log[r].call /\ e.result = "returned"
        /\ effects' = effects /\ operator'.pc = "idle"
    BY <1>2, <1>9, <2>1 DEF OperatorRecords, Append1, Finished, OperatorCall, NoOperator
  <2>3. Newest(r)
    <3> SUFFICES ASSUME NEW k \in Requests, log[k].call = r PROVE k <= r
      BY <1>2 DEF Newest
    <3>1. log[k].call = k \/ log[k].call \in Calls
      BY DEF TermInv, RequestsOK
    <3> QED
      BY <1>2, <3>1
  <2>4. TrueResult(r, e.result)
    BY <1>2, <1>9, <2>2 DEF TrueResult, OperatorRecords
  <2>5. Settles({r}) /\ NewKinds({"finished"})
    BY <1>2, <2>2, <2>3, <2>4, ResultLog
  <2>6. \A i : Ran(i)' <=> Ran(i)
    BY <2>2, RanSame
  <2>7. \A i \in Requests : Kept(i)
    BY <1>1, <2>5, SettlesKeeps DEF NewKinds
  <2>8. WorkerTrue'
    BY <1>1, <2>6, <2>7, WorkerTrueStays DEF Kept
  <2>9. OperatorOpen'
    BY <1>1, <2>2, <2>5, <2>6, OperatorStays DEF OperatorOn
  <2>10. OneOK' /\ TerminalHonest'
    BY <1>1, <2>2, <2>5, SettlesSound DEF TermInv
  <2>11. worker.pc \in Busy => worker.req # r
    BY <1>2 DEF TermInv, HandOK, Open
  <2>12. WorkerOn({r})
    BY <1>1, <2>11 DEF WorkerOn, Busy
  <2>13. \A a \in Approvers : approver[a].pc = "claimed" => approver[a].req # r
    BY <1>2 DEF TermInv, HandOK, Open
  <2> QED
    BY <1>1, <1>4, <1>7, <2>5, <2>6, <2>8, <2>9, <2>10, <2>12, <2>13, TurnGoesOn
       DEF TermInv, ResultOK
<1> QED
  BY <1>6, <1>8, <1>9

LEMMA BesideTerm ==
    ASSUME ToolInv, TermInv,
           \/ SetAutoApproval \/ CancelSession \/ UNCHANGED vars
           \/ \E a \in Approvers :
                 \/ ApproveReads(a) \/ ApproveIdentifies(a)
                 \/ ApproveClaims(a) /\ ~MayResume(approver[a].call, approver[a].req)
    PROVE  TermInv'
<1>1. UNCHANGED <<log, active, worker, effects, booted, operator>>
  BY DEF SetAutoApproval, CancelSession, vars, ApproveReads, ApproveIdentifies, ApproveClaims,
         handlers
<1>2. ClaimsSame
  <2>1. CASE approver' = approver
    BY <2>1 DEF ClaimsSame
  <2>2. ASSUME NEW a \in Approvers,
               \/ ApproveReads(a) \/ ApproveIdentifies(a)
               \/ ApproveClaims(a) /\ ~MayResume(approver[a].call, approver[a].req)
        PROVE  ClaimsSame
    <3>1. approver[a].pc \in {"idle", "read", "identified"} /\ approver[a] \in HandlerStates
      BY <2>2 DEF ApproveReads, ApproveIdentifies, ApproveClaims, ToolInv, ProcessOK
    <3>2. \E h : approver' = [approver EXCEPT ![a] = h] /\ h.pc # "claimed"
      <4>1. CASE ApproveReads(a)
        <5>1. PICK c \in Calls, d \in HumanDecisions :
                 Handler(a, [NoHandler EXCEPT !.pc = "read", !.call = c,
                                !.inv = log[Current(c)].inv,
                                !.decision = Decision(d.approved, d.scope, "human", None)])
          BY <4>1, Zenon DEF ApproveReads
        <5>2. PICK h : h = [NoHandler EXCEPT !.pc = "read", !.call = c,
                               !.inv = log[Current(c)].inv,
                               !.decision = Decision(d.approved, d.scope, "human", None)]
          OBVIOUS
        <5>3. h.pc = "read"
          BY <5>2 DEF NoHandler
        <5> QED
          BY <5>1, <5>2, <5>3 DEF Handler
      <4>2. CASE ApproveIdentifies(a)
        <5>1. PICK i : i = Current(approver[a].call)
          OBVIOUS
        <5>2. PICK h : h = IF ApprovalPending(i) THEN [approver[a] EXCEPT !.pc = "identified", !.req = i]
                           ELSE NoHandler
          OBVIOUS
        <5>3. h.pc # "claimed"
          BY <3>1, <5>2 DEF NoHandler, HandlerStates
        <5>4. approver' = [approver EXCEPT ![a] = h]
          BY <4>2, <5>1, <5>2, Zenon DEF ApproveIdentifies, Handler
        <5> QED
          BY <5>3, <5>4
      <4>3. CASE ApproveClaims(a) /\ ~MayResume(approver[a].call, approver[a].req)
        BY <4>3 DEF ApproveClaims, Handler, NoHandler
      <4> QED
        BY <2>2, <4>1, <4>2, <4>3, ZenonT(60)
    <3> QED
      BY <3>1, <3>2, SMTT(40) DEF ClaimsSame, ToolInv, ProcessOK
  <2>3. \/ approver' = approver
        \/ \E a \in Approvers :
              \/ ApproveReads(a) \/ ApproveIdentifies(a)
              \/ ApproveClaims(a) /\ ~MayResume(approver[a].call, approver[a].req)
    BY DEF SetAutoApproval, CancelSession, vars, handlers
  <2> QED
    BY <2>1, <2>2, <2>3, Zenon
<1>3. OperatorOn
  BY <1>1 DEF OperatorOn
<1> QED
  BY <1>1, <1>2, <1>3, AsideTerm, SMTT(30)

-----------------------------------------------------------------------------
(* Steps that begin a turn. *)

LEMMA StartTurnTerm ==
    ASSUME ToolInv, TermInv, StartTurn
    PROVE  TermInv'
<1>1. /\ active = None /\ TurnsStarted < MaxTurns /\ PendingCalls = {} /\ LogOK
      /\ UNCHANGED <<approver, operator, effects, booted>>
  BY DEF StartTurn, handlers, ToolInv
<1>2. PICK t, e : t = TurnsStarted + 1 /\ e = Started(t, None)
  OBVIOUS
<1>3. /\ log' = Append(log, e) /\ active' = t /\ worker' = [Idle EXCEPT !.pc = "model", !.turn = t]
      /\ e.kind = "started" /\ e.turn = t /\ e.resumed = None
  BY <1>2 DEF StartTurn, Append1, Started
<1>4. t <= MaxTurns
  BY <1>1, <1>2, TurnsStartedNat, ToolAssumption DEF ToolAssumption
<1>5. IsLog /\ IsLog' /\ Grows
  BY <1>3, AppendGrows DEF ToolInv, LogOK, IsLog
<1>6. PICK n \in DOMAIN log' : /\ n > Len(log) /\ log'[n] = e
                               /\ \A j \in DOMAIN log' : j = n \/ (j \in DOMAIN log /\ log'[j] = log[j])
  BY <1>3, <1>5, AppendedOne
<1>7. \A j \in DOMAIN log' : j > Len(log) => j = n
  BY <1>1, <1>5, <1>6, Lengths
<1>8. NewKinds({"started", "finished"}) /\ NewFin = {}
  BY <1>3, <1>6, <1>7 DEF NewKinds, NewFin
<1>9. Requests' = Requests
  BY <1>1, <1>5, <1>8, QuietKeeps DEF Quiet, NewKinds
<1>10. Settles({})
  BY <1>5, <1>8, <1>9, SettlesNone
<1>11. \A i \in Requests : ~Pends(i)
  <2> SUFFICES ASSUME NEW i \in Requests, Pends(i) PROVE FALSE
    OBVIOUS
  <2>1. Current(log[i].call) = i /\ log[i].call \in Calls
    BY <1>1, CurrentIs DEF Pends
  <2>2. i # None
    BY <1>1, LogFacts DEF None
  <2>3. log[i].call \in PendingCalls
    BY <2>1, <2>2 DEF PendingCalls, Pends
  <2> QED
    BY <1>1, <2>3
<1>12. \A i \in Requests : i \in {} <=> log'[n].resumed = i
  BY <1>1, <1>3, <1>6, LogFacts DEF None
<1>13. worker'.pc = "model" /\ worker'.turn = t /\ worker'.req = None
  BY <1>3 DEF Idle
<1>14. active' = t /\ log'[n].kind = "started" /\ log'[n].turn = t /\ log'[n].resumed = None
  BY <1>3, <1>6
<1> QED
  BY <1>1, <1>2, <1>4, <1>6, <1>7, <1>8, <1>10, <1>11, <1>12, <1>13, <1>14, TurnStarts

LEMMA AnswerToolTerm ==
    ASSUME ToolInv, TermInv, AnswerTool
    PROVE  TermInv'
<1>1. /\ active = None /\ TurnsStarted < MaxTurns /\ LogOK /\ IsLog
      /\ UNCHANGED <<approver, operator, effects, booted>>
  BY DEF AnswerTool, handlers, ToolInv, LogOK, IsLog
<1>2. PICK t : t = TurnsStarted + 1
  OBVIOUS
<1>3. PICK c \in Calls :
         /\ Current(c) # None /\ InputPending(Current(c))
         /\ log' = log \o <<Started(t, Current(c)), Finished(c, t, "returned")>>
         /\ active' = t /\ worker' = [Idle EXCEPT !.pc = "model", !.turn = t]
  BY <1>2 DEF AnswerTool
<1>4. PICK r \in Requests : /\ r = Current(c) /\ log[r].call = c /\ Newest(r)
                            /\ log[r].inv = Ask /\ Of(r, "finished") = {}
  BY <1>1, <1>3, CurrentFacts DEF InputPending
<1>5. PICK e, f : e = Started(t, r) /\ f = Finished(c, t, "returned")
  OBVIOUS
<1>6. /\ e.kind = "started" /\ e.turn = t /\ e.resumed = r
      /\ f.kind = "finished" /\ f.call = log[r].call /\ f.turn = t /\ f.result = "returned"
  BY <1>4, <1>5 DEF Started, Finished
<1>7. IsLog' /\ Grows /\ NewPair(e, f)
  <2>1. PICK q : q = <<e, f>>
    OBVIOUS
  <2>2. log' = log \o q
    BY <1>3, <1>4, <1>5, <2>1
  <2> QED
    BY <1>1, <2>1, <2>2, TwoEvents
<1>8. PICK n, m \in DOMAIN log' :
         /\ n > Len(log) /\ m > Len(log) /\ n < m /\ log'[n] = e /\ log'[m] = f
         /\ \A j \in DOMAIN log' : j > Len(log) => j = n \/ j = m
  BY <1>7, Zenon DEF NewPair
<1>9. NewKinds({"started", "finished"}) /\ NewFin = {m}
  BY <1>6, <1>8 DEF NewKinds, NewFin
<1>10. Requests' = Requests
  BY <1>1, <1>7, <1>9, QuietKeeps DEF Quiet, NewKinds
<1>11. Settles({r})
  BY <1>4, <1>6, <1>7, <1>8, <1>9, <1>10, SettlesOne DEF TrueResult
<1>12. t <= MaxTurns
  BY <1>1, <1>2, TurnsStartedNat, ToolAssumption DEF ToolAssumption
<1>13. \A j \in DOMAIN log' : j > Len(log) /\ log'[j].kind = "started" => j = n
  BY <1>6, <1>8
<1>14. Pends(r) /\ ~ApprovalPending(r)
  BY <1>4 DEF Pends, InputPending, TermInv, AskOK
<1>15. \A i \in Requests : Pends(i) => i \in {r}
  BY <1>14, Zenon DEF TermInv, WaitOK
<1>16. /\ \A i \in Requests : i \in {r} <=> log'[n].resumed = i
       /\ \A i \in {r} : ~ApprovalPending(i) /\ log[i].call \in Calls
       /\ \A j \in NewFin : log'[j].turn = t
  BY <1>4, <1>6, <1>8, <1>9, <1>14
<1>17. log'[n].kind = "started" /\ log'[n].turn = t /\ log'[n].resumed \in Requests
  BY <1>6, <1>8
<1>18. worker'.pc = "model" /\ worker'.turn = t /\ worker'.req = None /\ active' = t
  BY <1>3 DEF Idle
<1> QED
  BY <1>1, <1>2, <1>18, <1>8, <1>9, <1>11, <1>12, <1>13, <1>15, <1>16, <1>17, TurnStarts

-----------------------------------------------------------------------------
(* Decisions. *)

(* A decision about request r is the last, and it is about nobody else.    *)
LEMMA NewDecision ==
    ASSUME LogOK, IsLog', Grows, Requests' = Requests, NEW r \in Requests, Newest(r),
           NEW n \in DOMAIN log', n > Len(log), log'[n].kind = "resolved",
           log'[n].call = log[r].call,
           \A j \in DOMAIN log' : j > Len(log) => j = n \/ log'[j].kind = "started"
    PROVE  /\ \A i \in Requests : Of(i, "finished")' = Of(i, "finished")
           /\ \A i \in Requests : i # r => Kept(i)
           /\ ~ApprovalPending(r)' /\ (Newest(r)' <=> Newest(r))
           /\ Denied(r)' <=> ~log'[n].decision.approved
<1>1. /\ \A j \in DOMAIN log' : j > Len(log) => log'[j].kind \notin {"finished", "approval"}
      /\ \A j \in DOMAIN log' : j > Len(log) /\ log'[j].kind = "resolved" => j = n
      /\ NewKinds({"started", "resolved", "finished", "turnFinished"})
  BY DEF NewKinds
<1>2. /\ Len(log) \in Nat /\ DOMAIN log = 1..Len(log)
      /\ Len(log') \in Nat /\ DOMAIN log' = 1..Len(log')
      /\ \A i \in Requests : i \in Nat /\ log'[i] = log[i]
      /\ \A j \in DOMAIN log' : ~(j > Len(log)) => j \in DOMAIN log
  BY Lengths
<1>3. \A i \in Requests : /\ Of(i, "finished")' = Of(i, "finished")
                          /\ Of(i, "approval")' = Of(i, "approval")
                          /\ Newest(i)' <=> Newest(i)
  BY <1>1, KindKept, SameNewest
<1>4. ASSUME NEW i \in Requests, i # r PROVE Kept(i)
  <2>1. ~Belongs(n, i)'
    <3> SUFFICES ASSUME Belongs(n, i)' PROVE FALSE
      OBVIOUS
    <3>1. Newest(i) /\ log'[n].call = log[i].call
      BY NewBelongs
    <3>2. i <= r /\ r <= i
      BY <3>1 DEF Newest
    <3> QED
      BY <1>2, <1>4, <3>2
  <2>2. Of(i, "resolved")' = Of(i, "resolved")
    BY <1>1, <2>1, KindKept
  <2> QED
    BY <1>2, <1>3, <2>2, PendingKept, DeniedKept DEF Kept
<1>5. ~ApprovalPending(r)' /\ n \in Of(r, "resolved")'
  BY <1>1, ResolvedNotPending
<1>6. Denied(r)' <=> ~log'[n].decision.approved
  <2>1. PICK R : R = Of(r, "resolved")'
    OBVIOUS
  <2>2. n \in R /\ R \subseteq DOMAIN log' /\ \A j \in R : log'[j].kind = "resolved"
    BY <1>5, <2>1, Zenon DEF Of
  <2>3. \A j \in R : j <= n
    BY <1>1, <1>2, <2>2
  <2>4. Max(R) \in R /\ n <= Max(R)
    BY <1>2, <2>2, LastOf
  <2>5. Max(R) = n
    BY <1>2, <2>2, <2>3, <2>4
  <2>6. Denied(r)' <=> R # {} /\ ~log'[Max(R)].decision.approved
    BY <2>1, Zenon DEF Denied
  <2> QED
    BY <2>2, <2>5, <2>6
<1> QED
  BY <1>3, <1>4, <1>5, <1>6

LEMMA DetachesTerm ==
    ASSUME ToolInv, TermInv, NEW a \in Approvers, ApproveDetaches(a)
    PROVE  TermInv'
<1> USE DEF Busy, Before, Asking, Resting
<1>1. PICK r \in Requests : /\ r = approver[a].req /\ Open(r) /\ InTurn(r) /\ ~ApprovalPending(r)
                            /\ approver[a].turn = active /\ active # None
                            /\ approver[a].decision.approved => ~Denied(r)
  BY DEF ApproveDetaches, TermInv, HandOK, Open, ToolInv, ApproverOK, Free, ResultOK
<1>2. /\ approver[a].pc = "claimed" /\ worker.pc = "off"
      /\ \A b \in Approvers : approver[b].pc = "claimed" => b = a
  BY DEF ApproveDetaches, ToolInv, ApproverOK
<1>3. /\ worker'.pc = "resume" /\ worker'.turn = active /\ worker'.req = r
      /\ worker'.decision = approver[a].decision
      /\ UNCHANGED <<log, active, operator, effects, booted>>
  BY <1>1 DEF ApproveDetaches, Idle
<1>4. \A b \in Approvers : approver'[b].pc # "claimed"
  <2>1. approver' = [approver EXCEPT ![a] = NoHandler] /\ NoHandler.pc = "idle"
    BY DEF ApproveDetaches, Handler, NoHandler
  <2> QED
    BY <1>2, <2>1 DEF ToolInv, ProcessOK
<1>5. /\ LogOK /\ IsLog' /\ Grows /\ Requests' = Requests /\ NewFin = {} /\ Settles({})
      /\ NewKinds({"started", "finished", "turnFinished"})
      /\ \A i \in Requests : Kept(i) /\ Of(i, "finished")' = Of(i, "finished")
      /\ \A j \in DOMAIN log' : j > Len(log) => log'[j].kind # "started"
  <2>1. LogOK
    BY DEF ToolInv
  <2>2. NewKinds({})
    BY <1>3, <2>1, SameLogSettles
  <2> QED
    BY <1>3, <2>1, <2>2, SameLogSettles DEF NewKinds
<1>6. /\ TurnsStarted' = TurnsStarted /\ TurnsStarted \in Nat /\ StartedOK'
      /\ \A i \in Requests : InTurn(i)' <=> InTurn(i)
  BY <1>3, <1>5, StartsKept, TurnsStartedNat DEF TermInv
<1>7. RequestsOK' /\ AskOK' /\ \A i \in Requests : Denied(i)' <=> Denied(i)
  BY <1>5, <1>6, SettlesLog
<1>8. OneOK' /\ TerminalHonest' /\ \A i : Ran(i)' <=> Ran(i)
  BY <1>3, <1>5, SettlesSound, RanSame DEF TermInv
<1>9. \A i \in Requests : ~Pends(i)' /\ ~Pends(i)
  <2>1. \A i \in Requests : ~Pends(i)
    BY <1>2, Zenon DEF TermInv, WaitOK
  <2> QED
    BY <1>5, <2>1, SettlesPends
<1>10. Open(r)' /\ InTurn(r)' /\ ~ApprovalPending(r)'
  BY <1>1, <1>5, <1>6 DEF Open, Kept
<1>11. HandOK'
  <2>1. (Open(worker.req) /\ InTurn(worker.req))'
    BY <1>3, <1>10, Zenon DEF Open, InTurn, Of, Belongs, Newest
  <2>2. /\ Of(worker.req, "approval")' = Of(r, "approval")'
        /\ Of(worker.req, "resolved")' = Of(r, "resolved")'
    BY <1>3, Zenon DEF Of, Belongs
  <2>3. ~ApprovalPending(worker.req)'
    BY <1>10, <2>2, Zenon DEF ApprovalPending
  <2> QED
    BY <1>3, <1>4, <2>1, <2>3 DEF HandOK
<1>12. WaitOK'
  BY <1>5, <1>9, Zenon DEF WaitOK
<1>13. TurnOK'
  <2> SUFFICES ASSUME NEW i \in Requests, InTurn(i)'
               PROVE  /\ \A j \in Of(i, "finished")' : log'[j].turn = active'
                      /\ Of(i, "finished")' = {} => Open(i)' /\ Hand(i)'
    BY <1>5, Zenon DEF TurnOK
  <2>1. /\ \A j \in Of(i, "finished") : log[j].turn = active
        /\ Of(i, "finished") = {} =>
              /\ Open(i)
              /\ Hand(i) \/ worker.pc = "panicked" \/ (worker.pc = "pause" /\ ApprovalPending(i))
    BY <1>6, Zenon DEF TermInv, TurnOK
  <2>2. Hand(i) => i = r
    BY <1>1, <1>2 DEF Hand
  <2>3. Hand(r)'
    BY <1>3 DEF Hand
  <2> QED
    BY <1>2, <1>3, <1>5, <1>10, <2>1, <2>2, <2>3
<1>14. LeftOK'
  <2> SUFFICES ASSUME "panic" \notin Troubles, NEW i \in Requests, log'[i].call \in Calls,
                      Of(i, "finished")' = {}
               PROVE  InTurn(i)'
    BY <1>3, <1>5, Zenon DEF LeftOK
  <2>1. log[i].call \in Calls /\ Of(i, "finished") = {}
    BY <1>3, <1>5
  <2> QED
    BY <1>6, <1>9, <2>1, Zenon DEF TermInv, LeftOK
<1>15. OperatorOpen'
  BY <1>3, <1>5, <1>8, OperatorStays DEF OperatorOn
<1>16. ResultOK'
  <2>1. worker'.decision.approved => ~Denied(r)'
    BY <1>1, <1>3, <1>7
  <2>2. Of(worker.req, "resolved")' = Of(r, "resolved")'
    BY <1>3, Zenon DEF Of, Belongs
  <2>3. worker'.decision.approved => ~Denied(worker.req)'
    BY <2>1, <2>2, Zenon DEF Denied
  <2>4. WorkerTrue'
    BY <1>3, <2>3 DEF WorkerTrue
  <2>5. \A i \in Requests : Ran(i)' => ~Denied(i)'
    BY <1>7, <1>8 DEF TermInv, ResultOK
  <2> QED
    BY <1>4, <1>5, <2>4, <2>5, Zenon DEF ResultOK
<1>17. NumbersOK'
  BY <1>1, <1>3, <1>5 DEF TermInv, NumbersOK
<1> QED
  BY <1>6, <1>7, <1>8, <1>11, <1>12, <1>13, <1>14, <1>15, <1>16, <1>17, Zenon DEF TermInv

LEMMA RecordApprovalTerm ==
    ASSUME ToolInv, TermInv, RecordApproval
    PROVE  TermInv'
<1> USE DEF Busy, Before, Asking, Resting
<1>1. /\ worker.pc = "resolve" /\ worker \in WorkerStates /\ LogOK /\ IsLog
      /\ UNCHANGED <<active, approver, operator, effects, booted>>
  BY DEF RecordApproval, handlers, ToolInv, ProcessOK, LogOK, IsLog
<1>2. PICK r \in Requests : r = worker.req /\ Open(r) /\ InTurn(r) /\ ~ApprovalPending(r) /\ ~Ran(r)
  BY <1>1 DEF TermInv, HandOK, Open, ToolInv, WorkerOK, Free
<1>3. PICK e : e = Resolved(Call, active, Inv, worker.decision)
  OBVIOUS
<1>4. /\ log' = Append(log, e) /\ e.kind = "resolved" /\ e.call = log[r].call
      /\ e.decision = worker.decision
  BY <1>2, <1>3 DEF RecordApproval, Append1, Resolved, Call
<1>5. IsLog' /\ Grows
  BY <1>1, <1>4, AppendGrows
<1>6. PICK n \in DOMAIN log' : /\ n > Len(log) /\ log'[n] = e
                               /\ \A j \in DOMAIN log' : j = n \/ (j \in DOMAIN log /\ log'[j] = log[j])
  BY <1>1, <1>4, AppendedOne
<1>7. \A j \in DOMAIN log' : j > Len(log) => j = n
  BY <1>1, <1>5, <1>6, Lengths
<1>8. Requests' = Requests /\ NewFin = {} /\ \A j \in DOMAIN log' : j > Len(log) => log'[j].kind # "started"
  <2>1. NewKinds({"started", "resolved", "finished", "turnFinished"})
    BY <1>4, <1>6, <1>7 DEF NewKinds
  <2> QED
    BY <1>1, <1>4, <1>5, <1>6, <1>7, <2>1, QuietKeeps DEF Quiet, NewFin
<1>9. Settles({})
  BY <1>5, <1>8, SettlesNone
<1>10. /\ \A i \in Requests : Of(i, "finished")' = Of(i, "finished") /\ log'[i] = log[i]
       /\ \A i \in Requests : i # r => Kept(i)
       /\ ~ApprovalPending(r)' /\ (Newest(r)' <=> Newest(r))
       /\ Denied(r)' <=> ~worker.decision.approved
  BY <1>1, <1>2, <1>4, <1>5, <1>6, <1>7, <1>8, NewDecision, Lengths DEF Open
<1>11. /\ worker'.turn = worker.turn /\ worker'.req = r /\ worker'.inv = worker.inv
       /\ \/ worker.decision.approved /\ worker'.pc = "execute"
          \/ ~worker.decision.approved /\ worker'.pc = "terminal" /\ worker'.result = "denied"
  BY <1>1, <1>2 DEF RecordApproval, WorkerStates
<1>12. \A i \in Requests : /\ Newest(i)' <=> Newest(i)
                           /\ ApprovalPending(i)' <=> ApprovalPending(i)
  BY <1>2, <1>10 DEF Kept
<1>13. \A i \in Requests : Stays(i, {})
  <2> SUFFICES ASSUME NEW i \in Requests PROVE Pends(i)' <=> Pends(i)
    BY <1>10, <1>11, <1>12 DEF Stays
  <2>1. /\ Pends(i)' <=> log[i].call \in Calls /\ Newest(i) /\ (ApprovalPending(i) \/ InputPending(i)')
        /\ Pends(i) <=> log[i].call \in Calls /\ Newest(i) /\ (ApprovalPending(i) \/ InputPending(i))
    BY <1>8, <1>10, <1>12 DEF Pends
  <2>2. InputPending(i)' <=> InputPending(i)
    BY <1>10 DEF InputPending
  <2> QED
    BY <2>1, <2>2
<1>14. WorkerOn({})
  BY <1>1, <1>2, <1>11 DEF WorkerOn
<1>15. RequestsOK'
  <2>1. TurnsStarted' = TurnsStarted /\ TurnsStarted \in Nat
    BY <1>1, <1>5, <1>8, StartsKept, TurnsStartedNat DEF TermInv
  <2>2. \A j \in DOMAIN log' : j > Len(log) /\ log'[j].kind = "resolved" => log'[j].call \in Calls
    BY <1>2, <1>4, <1>6, <1>7 DEF Open
  <2> QED
    BY <1>1, <1>5, <1>8, <2>1, <2>2, RequestsKept DEF TermInv
<1>16. AskOK'
  BY <1>8, <1>10, <1>12 DEF TermInv, AskOK
<1>17. OneOK' /\ TerminalHonest' /\ \A i : Ran(i)' <=> Ran(i)
  BY <1>1, <1>9, SettlesSound, RanSame DEF TermInv
<1>18. OperatorOpen'
  BY <1>1, <1>9, <1>17, OperatorStays DEF OperatorOn
<1>19. ClaimsSame /\ \A a \in Approvers : approver'[a].pc # "claimed"
  BY <1>1 DEF ClaimsSame, ToolInv, ApproverOK
<1>20. ResultOK'
  <2>1. WorkerTrue'
    <3>1. worker'.pc = "execute" => ~Denied(r)'
      BY <1>10, <1>11
    <3>2. Of(worker.req, "resolved")' = Of(r, "resolved")'
      BY <1>11, Zenon DEF Of, Belongs
    <3>3. worker'.pc = "execute" => ~Denied(worker.req)'
      BY <3>1, <3>2, Zenon DEF Denied
    <3>4. ~Ran(r)' /\ worker'.req = r
      BY <1>2, <1>11, <1>17
    <3>5. ~Ran(worker.req)'
      BY <3>4, Zenon DEF Ran
    <3> QED
      BY <1>11, <3>3, <3>5 DEF WorkerTrue
  <2>2. \A i \in Requests : Ran(i)' => ~Denied(i)'
    BY <1>2, <1>10, <1>17 DEF TermInv, ResultOK, Kept
  <2> QED
    BY <1>8, <1>19, <2>1, <2>2, Zenon DEF ResultOK
<1> QED
  BY <1>1, <1>5, <1>8, <1>13, <1>14, <1>15, <1>16, <1>17, <1>18, <1>19, <1>20, TurnCore

LEMMA RequestApprovalTerm ==
    ASSUME ToolInv, TermInv, RequestApproval
    PROVE  TermInv'
<1> USE DEF Busy, Before, Asking, Resting
<1>1. /\ worker.pc = "ask" /\ worker \in WorkerStates /\ LogOK /\ IsLog
      /\ UNCHANGED <<active, approver, operator, effects, booted>>
  BY DEF RequestApproval, handlers, ToolInv, ProcessOK, LogOK, IsLog
<1>2. PICK r \in Requests : r = worker.req /\ Open(r) /\ InTurn(r) /\ log[r].inv # Ask
  BY <1>1 DEF TermInv, HandOK, Open
<1>3. PICK e : e = Approval(Call, active)
  OBVIOUS
<1>4. log' = Append(log, e) /\ e.kind = "approval" /\ e.call = log[r].call
  BY <1>2, <1>3 DEF RequestApproval, Append1, Approval, Call
<1>5. IsLog' /\ Grows
  BY <1>1, <1>4, AppendGrows
<1>6. PICK n \in DOMAIN log' : /\ n > Len(log) /\ log'[n] = e
                               /\ \A j \in DOMAIN log' : j = n \/ (j \in DOMAIN log /\ log'[j] = log[j])
  BY <1>1, <1>4, AppendedOne
<1>7. \A j \in DOMAIN log' : j > Len(log) => j = n
  BY <1>1, <1>5, <1>6, Lengths
<1>8. /\ Requests' = Requests /\ NewFin = {}
      /\ \A j \in DOMAIN log' : j > Len(log) => log'[j].kind \notin {"started", "resolved", "finished"}
  <2>1. \A i \in DOMAIN log : i \in DOMAIN log' /\ log'[i] = log[i]
    BY <1>1, <1>5, Lengths
  <2>2. Requests' = Requests
    BY <1>4, <1>6, <2>1 DEF Requests
  <2> QED
    BY <1>4, <1>6, <1>7, <2>2 DEF NewFin
<1>9. Settles({})
  BY <1>5, <1>8, SettlesNone
<1>10. \A i \in Requests : /\ Of(i, "finished")' = Of(i, "finished")
                           /\ Of(i, "resolved")' = Of(i, "resolved")
                           /\ log'[i] = log[i] /\ (Newest(i)' <=> Newest(i))
                           /\ Denied(i)' <=> Denied(i)
  BY <1>1, <1>5, <1>8, KindKept, SameNewest, DeniedKept, Lengths
<1>11. /\ worker'.pc = "pause" /\ worker'.turn = worker.turn /\ worker'.req = r
       /\ \A a \in Approvers : approver'[a].pc # "claimed"
  BY <1>1, <1>2 DEF RequestApproval, Go, WorkerStates, ToolInv, ApproverOK
<1>12. /\ TurnsStarted' = TurnsStarted /\ TurnsStarted \in Nat /\ StartedOK'
       /\ \A i \in Requests : InTurn(i)' <=> InTurn(i)
  BY <1>1, <1>5, <1>8, StartsKept, TurnsStartedNat DEF TermInv
<1>13. \A i \in Requests : i # r /\ ApprovalPending(i)' => ApprovalPending(i)
  BY <1>1, <1>2, <1>4, AskedOnly DEF Open
<1>14. ApprovalPending(r)'
  <2>1. PICK A, R : A = Of(r, "approval")' /\ R = Of(r, "resolved")' /\ R = Of(r, "resolved")
    BY <1>10
  <2>2. n \in A
    <3>1. Belongs(n, r)'
      BY <1>1, <1>2, <1>4, <1>5, <1>6, <1>8, NewBelongs DEF Open
    <3> QED
      BY <1>4, <1>6, <2>1, <3>1, Zenon DEF Of
  <2>3. /\ Len(log) \in Nat /\ DOMAIN log = 1..Len(log)
        /\ Len(log') \in Nat /\ DOMAIN log' = 1..Len(log')
    BY <1>1, <1>5, Lengths
  <2>4. A \subseteq DOMAIN log'
    BY <2>1, Zenon DEF Of
  <2>5. Max(A) \in A /\ n <= Max(A)
    BY <2>2, <2>3, <2>4, LastOf
  <2>6. R \subseteq DOMAIN log
    BY <1>1, <1>5, <2>1, OfStable
  <2>7. \A j \in R : j < Max(A)
    BY <1>6, <2>3, <2>4, <2>5, <2>6
  <2> QED
    BY <2>1, <2>2, <2>7, Zenon DEF ApprovalPending
<1>15. \A i \in Requests : ~Pends(i)
  BY <1>1, Zenon DEF TermInv, WaitOK
<1>16. \A i \in Requests : Pends(i)' => i = r
  <2> SUFFICES ASSUME NEW i \in Requests, i # r, Pends(i)' PROVE FALSE
    OBVIOUS
  <2>1. Newest(i) /\ log[i].call \in Calls /\ (ApprovalPending(i)' \/ InputPending(i)')
    BY <1>10 DEF Pends
  <2>2. InputPending(i)' => InputPending(i)
    BY <1>10 DEF InputPending
  <2> QED
    BY <1>13, <1>15, <2>1, <2>2 DEF Pends
<1>17. RequestsOK'
  BY <1>1, <1>5, <1>8, <1>12, RequestsKept DEF TermInv
<1>18. OneOK' /\ TerminalHonest' /\ \A i : Ran(i)' <=> Ran(i)
  BY <1>1, <1>9, SettlesSound, RanSame DEF TermInv
<1>19. AskOK'
  BY <1>2, <1>8, <1>10, <1>13 DEF TermInv, AskOK, Open
<1>20. HandOK'
  BY <1>11 DEF HandOK
<1>21. WaitOK'
  BY <1>8, <1>11, <1>16 DEF WaitOK
<1>22. TurnOK'
  <2> SUFFICES ASSUME NEW i \in Requests, InTurn(i)'
               PROVE  /\ \A j \in Of(i, "finished")' : log'[j].turn = active'
                      /\ Of(i, "finished")' = {} => Open(i)' /\ ApprovalPending(i)'
    BY <1>8, <1>11, Zenon DEF TurnOK
  <2>1. /\ \A j \in Of(i, "finished") : log[j].turn = active
        /\ Of(i, "finished") = {} =>
              /\ Open(i)
              /\ Hand(i) \/ worker.pc = "panicked" \/ (worker.pc = "pause" /\ ApprovalPending(i))
    BY <1>12, Zenon DEF TermInv, TurnOK
  <2>2. Hand(i) => i = r
    BY <1>1, <1>2, <1>11 DEF Hand
  <2>3. Open(i) => Open(i)'
    BY <1>8, <1>10 DEF Open
  <2>4. \A j \in Of(i, "finished") : log'[j] = log[j]
    BY <1>1, <1>5, Lengths, OfStable
  <2> QED
    BY <1>1, <1>10, <1>14, <2>1, <2>2, <2>3, <2>4
<1>23. LeftOK'
  <2> SUFFICES ASSUME "panic" \notin Troubles, NEW i \in Requests, log'[i].call \in Calls,
                      Of(i, "finished")' = {}
               PROVE  InTurn(i)'
    BY <1>8, <1>11, Zenon DEF LeftOK
  <2>1. log[i].call \in Calls /\ Of(i, "finished") = {}
    BY <1>10
  <2> QED
    BY <1>12, <1>15, <2>1, Zenon DEF TermInv, LeftOK
<1>24. OperatorOpen'
  BY <1>1, <1>9, <1>18, OperatorStays DEF OperatorOn
<1>25. ResultOK'
  <2>1. WorkerTrue'
    BY <1>11 DEF WorkerTrue
  <2>2. \A i \in Requests : Ran(i)' => ~Denied(i)'
    BY <1>10, <1>18 DEF TermInv, ResultOK
  <2> QED
    BY <1>8, <1>11, <2>1, <2>2, Zenon DEF ResultOK
<1>26. NumbersOK'
  BY <1>1, <1>2, <1>8, <1>11 DEF TermInv, NumbersOK
<1> QED
  BY <1>12, <1>17, <1>18, <1>19, <1>20, <1>21, <1>22, <1>23, <1>24, <1>25, <1>26, Zenon DEF TermInv

LEMMA ClaimsTerm ==
    ASSUME ToolInv, TermInv, NEW a \in Approvers, ApproveClaims(a),
           MayResume(approver[a].call, approver[a].req)
    PROVE  TermInv'
<1> USE DEF Busy, Before, Asking, Resting
<1>1. PICK t, r, d, c :
         /\ t = TurnsStarted + 1 /\ r = approver[a].req /\ c = approver[a].call
         /\ d = [approver[a].decision EXCEPT !.for = r]
  OBVIOUS
<1>2. /\ approver[a].pc = "identified" /\ active = None /\ worker.pc = "off"
      /\ Current(c) = r /\ ApprovalPending(r) /\ t <= MaxTurns
      /\ log' = log \o <<Started(t, r), Resolved(c, t, approver[a].inv, d)>> /\ active' = t
      /\ Handler(a, [approver[a] EXCEPT !.pc = "claimed", !.turn = t, !.decision = d])
      /\ UNCHANGED <<worker, operator, effects, booted>>
  BY <1>1, Zenon DEF ApproveClaims, MayResume
<1>3. LogOK /\ IsLog /\ approver[a] \in HandlerStates
  BY DEF ToolInv, LogOK, IsLog, ProcessOK
<1>4. /\ r \in Requests /\ log[r].call = c /\ c \in Calls /\ Newest(r)
      /\ log[r].inv # Ask /\ Of(r, "finished") = {} /\ ~Ran(r) /\ Pends(r)
  <2>1. c \in Calls /\ \E i \in Requests : log[i].call = c
    BY <1>1, <1>2 DEF ToolInv, ApproverOK
  <2>2. r \in Requests /\ log[r].call = c /\ Newest(r)
    BY <1>2, <1>3, <2>1, CurrentFacts
  <2> QED
    BY <1>2, <2>1, <2>2 DEF TermInv, AskOK, ToolInv, PendingOK, Pends
<1>5. PICK e, f : e = Started(t, r) /\ f = Resolved(c, t, approver[a].inv, d)
  OBVIOUS
<1>6. /\ e.kind = "started" /\ e.turn = t /\ e.resumed = r
      /\ f.kind = "resolved" /\ f.call = log[r].call /\ f.decision = d
  BY <1>4, <1>5 DEF Started, Resolved
<1>7. IsLog' /\ Grows /\ NewPair(e, f)
  <2>1. PICK q : q = <<e, f>>
    OBVIOUS
  <2>2. log' = log \o q
    BY <1>2, <1>5, <2>1
  <2> QED
    BY <1>3, <2>1, <2>2, TwoEvents
<1>8. PICK n, m \in DOMAIN log' :
         /\ n > Len(log) /\ m > Len(log) /\ n < m /\ log'[n] = e /\ log'[m] = f
         /\ \A j \in DOMAIN log' : j > Len(log) => j = n \/ j = m
  BY <1>7, Zenon DEF NewPair
<1>9. Requests' = Requests /\ NewFin = {}
  <2>1. NewKinds({"started", "resolved", "finished", "turnFinished"})
    BY <1>6, <1>8 DEF NewKinds
  <2> QED
    BY <1>2, <1>3, <1>6, <1>7, <1>8, <2>1, QuietKeeps DEF Quiet, NewFin
<1>10. Settles({})
  BY <1>7, <1>9, SettlesNone
<1>11. PICK k \in Nat : /\ k = TurnsStarted /\ TurnsStarted' = k + 1 /\ t = k + 1 /\ StartedOK'
                        /\ ResumedFrom(active)' = r
  <2>1. \A j \in DOMAIN log' : j > Len(log) /\ log'[j].kind = "started" => j = n
    BY <1>6, <1>8
  <2>2. log'[n].kind = "started" /\ log'[n].turn = t /\ log'[n].resumed = r
    BY <1>6, <1>8
  <2>3. StartedOK
    BY DEF TermInv
  <2>4. /\ n > Len(log) /\ log'[n].turn = TurnsStarted + 1 /\ active' = TurnsStarted + 1
        /\ log'[n].resumed \in {None} \cup Requests /\ TurnsStarted + 1 <= MaxTurns
    BY <1>1, <1>2, <1>4, <1>8, <2>2
  <2>5. /\ TurnsStarted \in Nat /\ TurnsStarted' = TurnsStarted + 1 /\ StartedOK'
        /\ ResumedFrom(active)' = log'[n].resumed
    BY <1>3, <1>7, <2>1, <2>2, <2>3, <2>4, StartsNext
  <2> QED
    BY <1>1, <2>2, <2>5
<1>12. /\ \A i \in Requests : Of(i, "finished")' = Of(i, "finished") /\ log'[i] = log[i]
       /\ \A i \in Requests : i # r => Kept(i)
       /\ ~ApprovalPending(r)' /\ (Newest(r)' <=> Newest(r))
       /\ Denied(r)' <=> ~d.approved
  <2>1. \A j \in DOMAIN log' : j > Len(log) => j = m \/ log'[j].kind = "started"
    BY <1>6, <1>8
  <2>2. log'[m].kind = "resolved" /\ log'[m].call = log[r].call /\ log'[m].decision = d
    BY <1>6, <1>8
  <2> QED
    BY <1>3, <1>4, <1>7, <1>8, <1>9, <2>1, <2>2, NewDecision, Lengths
<1>13. /\ approver'[a].pc = "claimed" /\ approver'[a].req = r /\ approver'[a].turn = t
       /\ approver'[a].decision = d
       /\ \A b \in Approvers : approver'[b].pc = "claimed" => b = a
  <2>1. \A b \in Approvers : approver[b].pc # "claimed"
    BY <1>2 DEF ToolInv, ApproverOK
  <2>2. PICK h : /\ h = [approver[a] EXCEPT !.pc = "claimed", !.turn = t, !.decision = d]
                 /\ approver' = [approver EXCEPT ![a] = h]
    BY <1>2 DEF Handler
  <2>3. h.pc = "claimed" /\ h.req = r /\ h.turn = t /\ h.decision = d
    BY <1>1, <1>3, <2>2 DEF HandlerStates
  <2> QED
    BY <2>1, <2>2, <2>3 DEF ToolInv, ProcessOK
<1>14. \A i \in Requests : Pends(i) => i = r
  BY <1>4, Zenon DEF TermInv, WaitOK
<1>15. \A i \in Requests : ~Pends(i)'
  <2> SUFFICES ASSUME NEW i \in Requests, Pends(i)' PROVE FALSE
    OBVIOUS
  <2>1. InputPending(i)' <=> InputPending(i)
    BY <1>12 DEF InputPending
  <2>2. CASE i = r
    BY <1>4, <1>12, <2>1, <2>2 DEF Pends, InputPending
  <2>3. CASE i # r
    <3>1. Kept(i)
      BY <1>12, <2>3
    <3>2. Pends(i)
      BY <2>1, <3>1 DEF Pends, Kept
    <3> QED
      BY <1>14, <2>3, <3>2
  <2> QED
    BY <2>2, <2>3
<1>16. \A i \in Requests : InTurn(i)' <=> i = r
  <2> SUFFICES ASSUME NEW i \in Requests PROVE InTurn(i)' <=> i = r
    OBVIOUS
  <2>1. InTurn(i)' <=> t # None /\ (log'[i].turn = t \/ i = r)
    BY <1>2, <1>11 DEF InTurn
  <2>2. log'[i].turn # t /\ t # None
    <3>1. log[i].turn = None \/ log[i].turn \in 1..k
      BY <1>11 DEF TermInv, RequestsOK
    <3> QED
      BY <1>11, <1>12, <3>1 DEF None
  <2> QED
    BY <2>1, <2>2
<1>17. RequestsOK'
  <2>1. \A j \in DOMAIN log' : j > Len(log) /\ log'[j].kind = "resolved" => log'[j].call \in Calls
    BY <1>4, <1>6, <1>8
  <2> QED
    BY <1>3, <1>7, <1>9, <1>11, <2>1, RequestsKept DEF TermInv
<1>18. OneOK' /\ TerminalHonest' /\ \A i : Ran(i)' <=> Ran(i)
  BY <1>2, <1>3, <1>10, SettlesSound, RanSame DEF TermInv
<1>19. AskOK'
  BY <1>9, <1>12 DEF TermInv, AskOK, Kept
<1>20. Open(r)'
  BY <1>4, <1>9, <1>12 DEF Open
<1>21. HandOK'
  <2>1. ASSUME NEW b \in Approvers, approver'[b].pc = "claimed"
        PROVE  (Open(approver[b].req) /\ InTurn(approver[b].req) /\ approver[b].turn = active)'
    <3>1. approver'[b].req = r /\ approver'[b].turn = active'
      BY <1>2, <1>13, <2>1
    <3>2. InTurn(r)'
      BY <1>4, <1>16
    <3> QED
      BY <1>20, <3>1, <3>2, Zenon DEF Open, InTurn, Of, Belongs, Newest
  <2> QED
    BY <1>2, <2>1 DEF HandOK
<1>22. WaitOK'
  BY <1>9, <1>15, Zenon DEF WaitOK
<1>23. TurnOK'
  <2>1. Of(r, "finished")' = {} /\ Hand(r)'
    BY <1>4, <1>12, <1>13 DEF Hand
  <2> QED
    BY <1>9, <1>16, <1>20, <2>1 DEF TurnOK
<1>24. LeftOK'
  <2> SUFFICES ASSUME "panic" \notin Troubles, NEW i \in Requests, log'[i].call \in Calls,
                      Of(i, "finished")' = {}
               PROVE  InTurn(i)'
    BY <1>2, <1>9, Zenon DEF LeftOK
  <2>1. log[i].call \in Calls /\ Of(i, "finished") = {} /\ ~InTurn(i)
    BY <1>2, <1>12 DEF InTurn
  <2>2. Pends(i)
    BY <2>1, Zenon DEF TermInv, LeftOK
  <2> QED
    BY <1>14, <1>16, <2>2
<1>25. OperatorOpen'
  BY <1>2, <1>10, <1>18, OperatorStays DEF OperatorOn
<1>26. ResultOK'
  <2>1. WorkerTrue'
    BY <1>2 DEF WorkerTrue
  <2>2. \A i \in Requests : Ran(i)' => ~Denied(i)'
    BY <1>4, <1>12, <1>18 DEF TermInv, ResultOK, Kept
  <2>3. ASSUME NEW b \in Approvers, approver'[b].pc = "claimed", approver'[b].decision.approved
        PROVE  ~Denied(approver[b].req)'
    <3>1. approver'[b].req = r /\ ~Denied(r)'
      BY <1>12, <1>13, <2>3
    <3>2. Of(approver[b].req, "resolved")' = Of(r, "resolved")'
      BY <3>1, Zenon DEF Of, Belongs
    <3> QED
      BY <3>1, <3>2, Zenon DEF Denied
  <2> QED
    BY <1>9, <2>1, <2>2, <2>3, Zenon DEF ResultOK
<1>27. NumbersOK'
  <2>1. active' \in Turns
    BY <1>2, <1>11, ToolAssumption DEF ToolAssumption, Turns
  <2> QED
    BY <1>2, <1>9, <2>1 DEF TermInv, NumbersOK
<1> QED
  BY <1>11, <1>17, <1>18, <1>19, <1>21, <1>22, <1>23, <1>24, <1>25, <1>26, <1>27, Zenon DEF TermInv

-----------------------------------------------------------------------------
(* A request is made, by the model or by an operator. *)

(* Request i is as it was, but for a newer one of its call. *)
Remains(i) ==
    /\ log'[i] = log[i] /\ i \in Requests'
    /\ Of(i, "finished")' = Of(i, "finished") /\ Of(i, "resolved")' = Of(i, "resolved")
    /\ ApprovalPending(i)' <=> ApprovalPending(i)
    /\ Denied(i)' <=> Denied(i)
    /\ InTurn(i)' <=> InTurn(i)
    /\ Ran(i)' <=> Ran(i)
    /\ Newest(i)' => Newest(i)
    /\ Pends(i)' => Pends(i)

LEMMA Requesting ==
    ASSUME ToolInv, TermInv, NEW e, log' = Append(log, e), effects' = effects, active' = active,
           e.kind = "requested", e.call \in Calls \cup Nat, e.inv \in Invocations,
           NEW n, n = Len(log) + 1
    PROVE  /\ LogOK /\ IsLog' /\ Grows /\ Requests' = Requests \cup {n} /\ log'[n] = e
           /\ n \in Nat /\ n \notin Requests /\ n > Len(log) /\ Len(log') = n /\ Len(log) \in Nat
           /\ StartedOK' /\ TurnsStarted' = TurnsStarted
           /\ active # None => ResumedFrom(active)' = ResumedFrom(active)
           /\ \A i \in Requests : /\ Remains(i) /\ i < n
                                  /\ log[i].call # e.call /\ Newest(i) => Newest(i)'
           /\ Of(n, "finished")' = {} /\ Of(n, "resolved")' = {} /\ Of(n, "approval")' = {}
           /\ ~Ran(n)' /\ Newest(n)'
<1>1. /\ LogOK /\ IsLog /\ Len(log) \in Nat /\ DOMAIN log = 1..Len(log) /\ n \in Nat
  BY LogFacts DEF ToolInv, LogOK, IsLog
<1>2. /\ Requests' = Requests \cup {n} /\ log'[n] = e /\ ~Ran(n)'
      /\ \A i \in Requests : /\ i < n /\ i \in Nat /\ log'[i] = log[i] /\ (Ran(i)' <=> Ran(i))
                             /\ Newest(i) /\ e.call # log[i].call => Newest(i)'
  BY <1>1, NewRequest, LogFacts
<1>3. IsLog' /\ Grows /\ Len(log') = n /\ NewKinds({"requested"})
  BY <1>1, AppendGrows, AppendsKind
<1>4. DOMAIN log' = 1..n /\ n \notin Requests /\ n > Len(log)
  <2>1. DOMAIN log' = 1..n
    BY <1>3, LenProperties DEF IsLog
  <2>2. \A i \in Requests : i # n
    BY <1>1, <1>2
  <2> QED
    BY <1>1, <2>1, <2>2
<1>5. \A j \in DOMAIN log' : j > Len(log) => log'[j].kind = "requested"
  BY <1>3 DEF NewKinds
<1>6. /\ StartedOK' /\ TurnsStarted' = TurnsStarted
      /\ active # None => ResumedFrom(active)' = ResumedFrom(active)
      /\ \A i \in Requests : InTurn(i)' <=> InTurn(i)
  <2>1. StartedOK
    BY DEF TermInv
  <2>2. \A j \in DOMAIN log' : j > Len(log) => log'[j].kind # "started"
    BY <1>5
  <2> QED
    BY <1>1, <1>3, <2>1, <2>2, StartsKept
<1>7. Newest(n)'
  <2>1. \A k \in Requests' : k <= n
    BY <1>1, <1>2
  <2> QED
    BY <2>1, Zenon DEF Newest
<1>8. Of(n, "finished")' = {} /\ Of(n, "resolved")' = {} /\ Of(n, "approval")' = {}
  <2>1. \A j : ~Belongs(j, n)'
    BY <1>1, <1>4 DEF Belongs
  <2> QED
    BY <2>1, Zenon DEF Of
<1>9. ASSUME NEW i \in Requests PROVE Remains(i)
  <2>1. /\ Of(i, "finished")' = Of(i, "finished") /\ Of(i, "resolved")' = Of(i, "resolved")
        /\ Of(i, "approval")' = Of(i, "approval")
    <3>1. \A j \in DOMAIN log' : j > Len(log) =>
             log'[j].kind # "finished" /\ log'[j].kind # "resolved" /\ log'[j].kind # "approval"
      BY <1>5
    <3> QED
      BY <1>1, <1>3, <3>1, KindKept
  <2>2. (ApprovalPending(i)' <=> ApprovalPending(i)) /\ (Denied(i)' <=> Denied(i))
    BY <1>1, <1>3, <2>1, PendingKept, DeniedKept
  <2>3. Newest(i)' => Newest(i)
    BY <1>2 DEF Newest
  <2>4. log'[i] = log[i] /\ i \in Requests'
    BY <1>2
  <2>5. Pends(i)' => Pends(i)
    BY <2>1, <2>2, <2>3, <2>4 DEF Pends, InputPending
  <2> QED
    BY <1>2, <1>6, <2>1, <2>2, <2>3, <2>4, <2>5 DEF Remains
<1> QED
  BY <1>1, <1>2, <1>3, <1>4, <1>6, <1>7, <1>8, <1>9

(* What a request leaves true of the requests and their results. *)
LEMMA RequestingKeeps ==
    ASSUME TermInv, LogOK, IsLog', Grows, NEW n, Requests' = Requests \cup {n}, n \notin Requests,
           n = Len(log) + 1, log'[n].kind = "requested", Len(log') = n, Len(log) \in Nat,
           \A i \in Requests : Remains(i), TurnsStarted' = TurnsStarted,
           Of(n, "finished")' = {}, Of(n, "approval")' = {}, Of(n, "resolved")' = {}, ~Ran(n)',
           \/ log'[n].turn = None /\ log'[n].call = n
           \/ log'[n].turn \in 1..TurnsStarted /\ log'[n].call \in Calls,
           booted' = booted, booted < n
    PROVE  /\ RequestsOK' /\ OneOK' /\ AskOK' /\ TerminalHonest'
           /\ \A i \in Requests' : Ran(i)' => ~Denied(i)'
           /\ \A i \in OperatorTools' : i <= booted' => Of(i, "finished")' # {}
<1>1. ~ApprovalPending(n)'
  BY Zenon DEF ApprovalPending
<1>2. RequestsOK'
  <2>1. PICK m : m = TurnsStarted /\ m = TurnsStarted'
    OBVIOUS
  <2>2. ASSUME NEW i \in Requests
        PROVE  \/ log'[i].turn = None /\ log'[i].call = i
               \/ log'[i].turn \in 1..m /\ log'[i].call \in Calls
    <3>1. /\ log'[i] = log[i]
          /\ \/ log[i].turn = None /\ log[i].call = i
             \/ log[i].turn \in 1..m /\ log[i].call \in Calls
      BY <2>1, <2>2, Zenon DEF TermInv, RequestsOK, Remains
    <3> QED
      BY <3>1
  <2>3. \A j \in DOMAIN log' : log'[j].kind = "resolved" => log'[j].call \in Calls
    <3>1. ASSUME NEW j \in DOMAIN log' PROVE j = n \/ (j \in DOMAIN log /\ log'[j] = log[j])
      <4>1. j \in Nat /\ j <= n
        BY <3>1, Lengths
      <4>2. j # n => ~(j > Len(log))
        BY <4>1
      <4> QED
        BY <3>1, <4>2, Lengths
    <3> QED
      BY <3>1 DEF TermInv, RequestsOK
  <2> QED
    BY <2>1, <2>2, <2>3, Zenon DEF RequestsOK
<1>3. OneOK'
  BY DEF TermInv, OneOK, Remains
<1>4. AskOK'
  BY <1>1 DEF TermInv, AskOK, Remains
<1>5. TerminalHonest'
  <2> SUFFICES ASSUME NEW i \in Requests, NEW j \in Of(i, "finished")'
               PROVE  /\ log'[j].result = "denied" => ~Ran(i)'
                      /\ log'[j].result = "returned" => Ran(i)' \/ log'[i].inv = Ask
    BY DEF TerminalHonest, Ran
  <2>1. j \in Of(i, "finished") /\ log'[i] = log[i] /\ (Ran(i)' <=> Ran(i))
    BY DEF Remains
  <2>2. log'[j] = log[j]
    <3>1. j \in DOMAIN log
      BY <2>1 DEF Of
    <3> QED
      BY <3>1, Lengths
  <2>3. /\ log[j].result = "denied" => ~Ran(i)
        /\ log[j].result = "returned" => Ran(i) \/ log[i].inv = Ask
    BY <2>1 DEF TermInv, TerminalHonest, Ran
  <2> QED
    BY <2>1, <2>2, <2>3
<1>6. \A i \in Requests' : Ran(i)' => ~Denied(i)'
  BY DEF TermInv, ResultOK, Remains
<1>7. \A i \in OperatorTools' : i <= booted' => Of(i, "finished")' # {}
  <2> SUFFICES ASSUME NEW i \in Requests', log'[i].turn = None, i <= booted'
               PROVE  Of(i, "finished")' # {}
    BY DEF OperatorTools
  <2>1. i \in Requests
    <3>1. booted \in Nat
      BY DEF TermInv, OperatorOpen
    <3> QED
      BY <3>1
  <2>2. i \in OperatorTools /\ i <= booted
    BY <2>1 DEF OperatorTools, Remains
  <2> QED
    BY <2>1, <2>2 DEF TermInv, OperatorOpen, Remains
<1> QED
  BY <1>2, <1>3, <1>4, <1>5, <1>6, <1>7

LEMMA OperatorSame ==
    ASSUME ToolInv, TermInv, \A i \in Requests : Remains(i), UNCHANGED <<operator, booted>>,
           Grows, Len(log) \in Nat, Len(log') \in Nat,
           \A i \in OperatorTools' : i <= booted' => Of(i, "finished")' # {}
    PROVE  OperatorOpen'
<1>1. booted' \in Nat /\ booted' <= Len(log')
  <2>1. booted \in Nat /\ booted <= Len(log) /\ Len(log) <= Len(log')
    BY DEF TermInv, OperatorOpen, Grows
  <2> QED
    BY <2>1
<1>2. ASSUME operator'.pc # "idle"
      PROVE  /\ log'[operator'.req].turn = None /\ Of(operator.req, "finished")' = {}
             /\ operator'.pc \in {"record", "recover"} => Ran(operator.req)'
  <2>1. PICK r \in Requests : /\ r = operator.req /\ log[r].turn = None /\ Of(r, "finished") = {}
                              /\ operator.pc \in {"record", "recover"} => Ran(r)
    BY <1>2 DEF TermInv, OperatorOpen, ToolInv, OperatorOK
  <2>2. /\ operator'.req = r /\ log'[r].turn = None /\ Of(r, "finished")' = {}
        /\ operator'.pc \in {"record", "recover"} => Ran(r)'
    BY <2>1 DEF Remains
  <2> QED
    BY <2>2, Zenon DEF Of, Belongs, Ran
<1> QED
  BY <1>1, <1>2 DEF OperatorOpen

LEMMA NewToolTerm ==
    ASSUME ToolInv, TermInv, NewTool
    PROVE  TermInv'
<1> USE DEF Busy, Before, Asking, Resting
<1>1. /\ LogOK /\ worker \in WorkerStates /\ worker.pc = "next" /\ worker.todo # <<>>
      /\ worker.todo \in Seq(Calls \X Invocations)
  BY DEF ToolInv, ProcessOK, WorkerStates, NewTool, RequestTool
<1>2. PICK c \in Calls, v \in Invocations : c = worker.todo[1][1] /\ v = worker.todo[1][2]
  <2>1. worker.todo[1] \in Calls \X Invocations
    BY <1>1, EmptySeq, LenProperties, ElementOfSeq
  <2> QED
    BY <2>1
<1>3. PICK n : n = Len(log) + 1
  OBVIOUS
<1>4. /\ log' = Append(log, Requested(c, active, v))
      /\ worker' = [worker EXCEPT !.pc = "requested", !.todo = Tail(@), !.req = n, !.inv = v]
      /\ UNCHANGED <<active, approver, operator, effects, booted>>
  BY <1>2, <1>3 DEF NewTool, RequestTool, Append1, handlers
<1>5. PICK e : /\ e = Requested(c, active, v) /\ log' = Append(log, e) /\ e.kind = "requested"
               /\ e.call = c /\ e.inv = v /\ e.turn = active
  BY <1>4 DEF Requested
<1>6. worker'.pc = "requested" /\ worker'.req = n /\ worker'.inv = v /\ worker'.turn = worker.turn
  BY <1>1, <1>4 DEF WorkerStates
<1>7. /\ IsLog' /\ Grows /\ Requests' = Requests \cup {n} /\ log'[n] = e
      /\ n \in Nat /\ n \notin Requests /\ Len(log') = n /\ Len(log) \in Nat
      /\ StartedOK' /\ TurnsStarted' = TurnsStarted
      /\ \A i \in Requests : Remains(i)
      /\ Of(n, "finished")' = {} /\ Of(n, "resolved")' = {} /\ Of(n, "approval")' = {}
      /\ ~Ran(n)' /\ Newest(n)'
  BY <1>3, <1>4, <1>5, Requesting
<1>8. active # None /\ active = worker.turn /\ active \in 1..TurnsStarted
  <2>1. active # None /\ active = worker.turn
    BY <1>1 DEF TermInv, NumbersOK
  <2> QED
    BY <2>1 DEF TermInv, StartedOK
<1>9. /\ RequestsOK' /\ OneOK' /\ AskOK' /\ TerminalHonest'
      /\ \A i \in Requests' : Ran(i)' => ~Denied(i)'
      /\ \A i \in OperatorTools' : i <= booted' => Of(i, "finished")' # {}
  <2>1. booted' = booted /\ booted < n
    BY <1>3, <1>4, <1>7 DEF TermInv, OperatorOpen
  <2>2. /\ log'[n].kind = "requested" /\ log'[n].turn \in 1..TurnsStarted /\ log'[n].call \in Calls
    BY <1>5, <1>7, <1>8
  <2> QED
    BY <1>1, <1>3, <1>7, <2>1, <2>2, RequestingKeeps
<1>10. \A a \in Approvers : approver[a].pc # "claimed" /\ approver'[a].pc # "claimed"
  BY <1>1, <1>4 DEF ToolInv, ApproverOK
<1>11. \A i \in Requests : ~Pends(i)
  BY <1>1, Zenon DEF TermInv, WaitOK
<1>12. \A i \in Requests : InTurn(i) => Of(i, "finished") # {}
  BY <1>1, <1>10 DEF TermInv, TurnOK, Hand
<1>13. Open(n)' /\ InTurn(n)' /\ ~ApprovalPending(n)' /\ Hand(n)'
  <2>1. Open(n)'
    BY <1>2, <1>5, <1>7 DEF Open
  <2>2. InTurn(n)'
    BY <1>4, <1>5, <1>7, <1>8 DEF InTurn
  <2>3. ~ApprovalPending(n)'
    BY <1>7, Zenon DEF ApprovalPending
  <2>4. Hand(n)'
    BY <1>6 DEF Hand
  <2> QED
    BY <2>1, <2>2, <2>3, <2>4
<1>14. HandOK'
  <2>1. (Open(worker.req) /\ InTurn(worker.req))'
    BY <1>6, <1>13, Zenon DEF Open, InTurn, Of, Belongs, Newest
  <2>2. Of(worker.req, "resolved")' = {} /\ Of(worker.req, "approval")' = {}
    <3>1. /\ Of(worker.req, "resolved")' = Of(n, "resolved")'
          /\ Of(worker.req, "approval")' = Of(n, "approval")'
      BY <1>6, Zenon DEF Of, Belongs
    <3> QED
      BY <1>7, <3>1
  <2>3. ~ApprovalPending(worker.req)'
    BY <2>2, Zenon DEF ApprovalPending
  <2>4. worker'.inv = log'[worker'.req].inv
    BY <1>5, <1>6, <1>7
  <2> QED
    BY <1>6, <1>10, <2>1, <2>2, <2>3, <2>4 DEF HandOK
<1>15. WaitOK'
  <2>1. \A i \in Requests' : Pends(i)' => i = n
    BY <1>7, <1>11 DEF Remains
  <2> QED
    BY <1>6, <1>10, <2>1, Zenon DEF WaitOK
<1>16. TurnOK'
  <2> SUFFICES ASSUME NEW i \in Requests', InTurn(i)'
               PROVE  /\ \A j \in Of(i, "finished")' : log'[j].turn = active'
                      /\ Of(i, "finished")' = {} => Open(i)' /\ Hand(i)'
    BY Zenon DEF TurnOK
  <2>1. CASE i = n
    <3>1. \A j \in Of(i, "finished")' : log'[j].turn = active'
      BY <1>7, <2>1
    <3> QED
      BY <1>13, <2>1, <3>1
  <2>2. CASE i \in Requests
    <3>1. InTurn(i) /\ Of(i, "finished")' = Of(i, "finished")
      BY <1>7, <2>2 DEF Remains
    <3>2. \A j \in Of(i, "finished") : log'[j] = log[j]
      BY <1>1, <1>7, <2>2, Lengths, OfStable
    <3>3. /\ \A j \in Of(i, "finished") : log[j].turn = active
          /\ Of(i, "finished") # {}
      BY <1>12, <2>2, <3>1, Zenon DEF TermInv, TurnOK
    <3> QED
      BY <1>4, <3>1, <3>2, <3>3
  <2> QED
    BY <1>7, <2>1, <2>2
<1>17. LeftOK'
  <2> SUFFICES ASSUME "panic" \notin Troubles, NEW i \in Requests', log'[i].call \in Calls,
                      Of(i, "finished")' = {}
               PROVE  InTurn(i)'
    BY <1>6, Zenon DEF LeftOK
  <2>1. CASE i = n
    BY <1>13, <2>1
  <2>2. CASE i \in Requests
    <3>1. log[i].call \in Calls /\ Of(i, "finished") = {}
      BY <1>7, <2>2 DEF Remains
    <3>2. InTurn(i) \/ Pends(i)
      BY <2>2, <3>1, Zenon DEF TermInv, LeftOK
    <3> QED
      BY <1>11, <1>12, <2>2, <3>1, <3>2
  <2> QED
    BY <1>7, <2>1, <2>2
<1>18. OperatorOpen'
  BY <1>4, <1>7, <1>9, OperatorSame
<1>19. ResultOK'
  <2>1. WorkerTrue'
    BY <1>6 DEF WorkerTrue
  <2> QED
    BY <1>9, <1>10, <2>1, Zenon DEF ResultOK
<1>20. NumbersOK'
  BY <1>4, <1>6, <1>7, <1>8 DEF TermInv, NumbersOK
<1> QED
  BY <1>7, <1>9, <1>14, <1>15, <1>16, <1>17, <1>18, <1>19, <1>20, Zenon DEF TermInv

LEMMA OperatorRequestsTerm ==
    ASSUME ToolInv, TermInv, OperatorRequests
    PROVE  TermInv'
<1>1. LogOK /\ operator.pc = "idle" /\ UNCHANGED <<active, worker, approver, effects, booted>>
  BY DEF ToolInv, OperatorRequests
<1>2. PICK n : n = Len(log) + 1
  OBVIOUS
<1>3. PICK v \in Guarded : /\ Append1(Requested(n, None, v))
                           /\ operator' = [pc |-> "execute", req |-> n]
  BY <1>2 DEF OperatorRequests
<1>3a. PICK e : e = Requested(n, None, v) /\ log' = Append(log, e)
  BY <1>3 DEF Append1
<1>4. /\ e.kind = "requested" /\ e.call = n /\ e.turn = None /\ e.inv = v /\ v \in Invocations
      /\ operator'.pc = "execute" /\ operator'.req = n
  BY <1>3, <1>3a DEF Requested, Invocations
<1>5. n \in Nat
  BY <1>1, <1>2, Lengths, LogFacts
<1>6. /\ IsLog' /\ Grows /\ Requests' = Requests \cup {n} /\ log'[n] = e
      /\ n \notin Requests /\ Len(log') = n /\ Len(log) \in Nat
      /\ StartedOK' /\ TurnsStarted' = TurnsStarted
      /\ active # None => ResumedFrom(active)' = ResumedFrom(active)
      /\ \A i \in Requests : /\ Remains(i) /\ i < n
                             /\ log[i].call # n /\ Newest(i) => Newest(i)'
      /\ Of(n, "finished")' = {} /\ Of(n, "resolved")' = {} /\ Of(n, "approval")' = {}
      /\ ~Ran(n)' /\ Newest(n)'
  BY <1>1, <1>2, <1>3a, <1>4, <1>5, Requesting
<1>7. n \notin Calls
  BY <1>5, ToolAssumption DEF ToolAssumption
<1>8. /\ RequestsOK' /\ OneOK' /\ AskOK' /\ TerminalHonest'
      /\ \A i \in Requests' : Ran(i)' => ~Denied(i)'
      /\ \A i \in OperatorTools' : i <= booted' => Of(i, "finished")' # {}
  <2>1. booted' = booted /\ booted < n
    BY <1>1, <1>2, <1>6 DEF TermInv, OperatorOpen
  <2>2. log'[n].kind = "requested" /\ log'[n].turn = None /\ log'[n].call = n
    BY <1>4, <1>6
  <2> QED
    BY <1>1, <1>2, <1>6, <2>1, <2>2, RequestingKeeps
<1>9. ~InTurn(n)' /\ ~Pends(n)'
  <2>1. active # None => ResumedFrom(active) # n
    <3> SUFFICES ASSUME active # None PROVE ResumedFrom(active) # n
      OBVIOUS
    <3>1. PICK i \in DOMAIN log : log[i].kind = "started" /\ log[i].turn = active
      BY DEF TermInv, StartedOK
    <3>2. \A k \in DOMAIN log : log[k].kind = "started" /\ log[k].turn = active => k = i
      BY <3>1 DEF TermInv, StartedOK
    <3>3. (CHOOSE k \in DOMAIN log : log[k].kind = "started" /\ log[k].turn = active) = i
      BY <3>1, <3>2, TheStart
    <3>4. ResumedFrom(active) = log[i].resumed
      BY <3>3, Zenon DEF ResumedFrom, TurnStart
    <3>5. log[i].resumed \in {None} \cup Requests
      BY <3>1 DEF TermInv, StartedOK
    <3>6. n # None
      BY <1>2, <1>6 DEF None
    <3> QED
      BY <1>6, <3>4, <3>5, <3>6
  <2>2. ~InTurn(n)'
    BY <1>1, <1>4, <1>6, <2>1 DEF InTurn
  <2>3. ~Pends(n)'
    BY <1>4, <1>6, <1>7 DEF Pends
  <2> QED
    BY <2>2, <2>3
<1>10. \A i \in Requests : /\ Remains(i) /\ (Open(i) => Open(i)')
                           /\ log[i].call \in Calls => (Pends(i)' <=> Pends(i))
  <2> SUFFICES ASSUME NEW i \in Requests
               PROVE  /\ Remains(i) /\ (Open(i) => Open(i)')
                      /\ log[i].call \in Calls => (Pends(i)' <=> Pends(i))
    OBVIOUS
  <2>1. log[i].call \in Calls /\ Newest(i) => Newest(i)'
    BY <1>6, <1>7
  <2>2. InputPending(i)' <=> InputPending(i)
    BY <1>6 DEF InputPending, Remains
  <2> QED
    BY <1>6, <2>1, <2>2 DEF Open, Pends, Remains
<1>11. HandOK'
  <2>1. ASSUME worker.pc \in Busy
        PROVE  /\ (Open(worker.req) /\ InTurn(worker.req) /\ ~ApprovalPending(worker.req))'
               /\ worker.pc = "requested" => /\ worker.inv = log'[worker.req].inv
                                             /\ Of(worker.req, "resolved")' = {}
               /\ worker.pc \in {"resolve", "ask"} => log'[worker.req].inv # Ask
    <3>1. PICK r \in Requests : /\ r = worker.req /\ Open(r) /\ InTurn(r) /\ ~ApprovalPending(r)
                                /\ worker.pc = "requested" => /\ worker.inv = log[r].inv
                                                              /\ Of(r, "resolved") = {}
                                /\ worker.pc \in {"resolve", "ask"} => log[r].inv # Ask
      BY <2>1 DEF TermInv, HandOK, Open
    <3>2. /\ Open(r)' /\ InTurn(r)' /\ ~ApprovalPending(r)' /\ log'[r] = log[r] /\ worker'.req = r
          /\ Of(r, "resolved")' = Of(r, "resolved")
      BY <1>1, <1>10, <3>1 DEF Remains
    <3>3. (Open(worker.req) /\ InTurn(worker.req))'
      BY <3>2, ZenonT(60) DEF Open, InTurn, Of, Belongs, Newest
    <3>4. /\ Of(worker.req, "resolved")' = Of(r, "resolved")'
          /\ Of(worker.req, "approval")' = Of(r, "approval")'
      BY <3>2, Zenon DEF Of, Belongs
    <3>5. ~ApprovalPending(worker.req)'
      BY <3>2, <3>4, Zenon DEF ApprovalPending
    <3> QED
      BY <3>1, <3>2, <3>3, <3>4, <3>5
  <2>2. ASSUME NEW a \in Approvers, approver[a].pc = "claimed"
        PROVE  (Open(approver[a].req) /\ InTurn(approver[a].req) /\ approver[a].turn = active)'
    <3>1. PICK r \in Requests : r = approver[a].req /\ Open(r) /\ InTurn(r) /\ approver[a].turn = active
      BY <2>2 DEF TermInv, HandOK, Open
    <3>2. Open(r)' /\ InTurn(r)' /\ approver'[a].req = r /\ approver'[a].turn = active'
      BY <1>1, <1>10, <3>1 DEF Remains
    <3> QED
      BY <3>2, Zenon DEF Open, InTurn, Of, Belongs, Newest
  <2>3. worker' = worker /\ approver' = approver
    BY <1>1
  <2> QED
    BY <2>1, <2>2, <2>3 DEF HandOK, Busy, Before, Asking
<1>12. WaitOK'
  <2>1. \A i \in Requests' : Pends(i)' => i \in Requests /\ Pends(i)
    BY <1>6, <1>9 DEF Remains
  <2> QED
    BY <1>1, <2>1, Zenon DEF TermInv, WaitOK
<1>13. TurnOK'
  <2> SUFFICES ASSUME NEW i \in Requests, InTurn(i)'
               PROVE  /\ \A j \in Of(i, "finished")' : log'[j].turn = active'
                      /\ Of(i, "finished")' = {} =>
                            /\ Open(i)'
                            /\ \/ Hand(i)' \/ worker'.pc = "panicked"
                               \/ worker'.pc = "pause" /\ ApprovalPending(i)'
    BY <1>6, <1>9, Zenon DEF TurnOK
  <2>1. /\ InTurn(i) /\ Of(i, "finished")' = Of(i, "finished")
        /\ ApprovalPending(i)' <=> ApprovalPending(i)
        /\ Open(i) => Open(i)'
    BY <1>10 DEF Remains
  <2>2. Hand(i)' <=> Hand(i)
    BY <1>1 DEF Hand
  <2>3. \A j \in Of(i, "finished") : log'[j] = log[j]
    BY <1>1, <1>6, Lengths, OfStable
  <2>4. /\ \A j \in Of(i, "finished") : log[j].turn = active
        /\ Of(i, "finished") = {} =>
              /\ Open(i)
              /\ \/ Hand(i) \/ worker.pc = "panicked"
                 \/ worker.pc = "pause" /\ ApprovalPending(i)
    BY <2>1, Zenon DEF TermInv, TurnOK
  <2> QED
    BY <1>1, <2>1, <2>2, <2>3, <2>4
<1>14. LeftOK'
  <2> SUFFICES ASSUME "panic" \notin Troubles
               PROVE  /\ worker'.pc # "panicked"
                      /\ \A i \in Requests' : log'[i].call \in Calls /\ Of(i, "finished")' = {} =>
                            InTurn(i)' \/ Pends(i)'
    BY Zenon DEF LeftOK
  <2>1. worker'.pc # "panicked"
    BY <1>1 DEF TermInv, LeftOK
  <2>2. ASSUME NEW i \in Requests', log'[i].call \in Calls, Of(i, "finished")' = {}
        PROVE  InTurn(i)' \/ Pends(i)'
    <3>1. i \in Requests
      BY <1>4, <1>6, <1>7, <2>2
    <3>2. log[i].call \in Calls /\ Of(i, "finished") = {}
      BY <1>10, <2>2, <3>1 DEF Remains
    <3>3. InTurn(i) \/ Pends(i)
      BY <3>1, <3>2, Zenon DEF TermInv, LeftOK
    <3> QED
      BY <1>10, <3>1, <3>2, <3>3 DEF Remains
  <2> QED
    BY <2>1, <2>2
<1>15. OperatorOpen'
  <2>1. booted' \in Nat /\ booted' <= Len(log')
    <3>1. booted \in Nat /\ booted <= Len(log) /\ Len(log) <= Len(log')
      BY <1>6 DEF TermInv, OperatorOpen, Grows
    <3> QED
      BY <1>1, <1>5, <1>6, <3>1
  <2>2. Of(operator.req, "finished")' = {}
    <3>1. Of(operator.req, "finished")' = Of(n, "finished")'
      BY <1>4, Zenon DEF Of, Belongs
    <3> QED
      BY <1>6, <3>1
  <2>3. log'[operator'.req].turn = None
    BY <1>4, <1>6
  <2> QED
    BY <1>4, <1>8, <2>1, <2>2, <2>3 DEF OperatorOpen
<1>16. ResultOK'
  <2>1. WorkerTrue'
    <3>1. \A i \in Requests : log[i].call \in Calls => (Ran(i)' <=> Ran(i)) /\ (Denied(i)' <=> Denied(i))
      BY <1>6 DEF Remains
    <3> QED
      BY <1>1, <3>1, WorkerTrueStays
  <2>2. ASSUME NEW a \in Approvers, approver'[a].pc = "claimed", approver'[a].decision.approved
        PROVE  ~Denied(approver[a].req)'
    <3>1. approver' = approver
      BY <1>1
    <3>2. PICK r \in Requests : r = approver[a].req /\ r = approver'[a].req /\ ~Denied(r)
      BY <2>2, <3>1 DEF TermInv, ResultOK, HandOK, Open
    <3>3. ~Denied(r)'
      BY <1>10, <3>2 DEF Remains
    <3>4. Of(approver[a].req, "resolved")' = Of(r, "resolved")'
      BY <3>2, Zenon DEF Of, Belongs
    <3> QED
      BY <3>3, <3>4, Zenon DEF Denied
  <2> QED
    BY <1>8, <2>1, <2>2, Zenon DEF ResultOK
<1>17. NumbersOK'
  BY <1>1, <1>6 DEF TermInv, NumbersOK
<1> QED
  BY <1>6, <1>8, <1>11, <1>12, <1>13, <1>14, <1>15, <1>16, <1>17, Zenon DEF TermInv

-----------------------------------------------------------------------------
(* What recovery closes. *)

(* The events end turns and give each request of S, and no other, a result. *)
Closes(q, S) ==
    /\ Closing(q)
    /\ \A k \in DOMAIN q : q[k].kind = "finished" =>
          \E i \in S : q[k].call = log[i].call /\ TrueResult(i, q[k].result)
    /\ \A k, m \in DOMAIN q :
          q[k].kind = "finished" /\ q[m].kind = "finished" /\ q[k].call = q[m].call => k = m
    /\ \A i \in S : \E k \in DOMAIN q : q[k].kind = "finished" /\ q[k].call = log[i].call

LEMMA ClosingLength ==
    ASSUME NEW q, Closing(q)
    PROVE  Len(q) \in Nat /\ DOMAIN q = 1..Len(q)
BY LenProperties DEF Closing

LEMMA ClosesConcat ==
    ASSUME NEW p, NEW q, NEW S, NEW T, Closes(p, S), Closes(q, T),
           \A i \in S, k \in T : log[i].call # log[k].call
    PROVE  Closes(p \o q, S \cup T)
<1>1. Closing(p) /\ Closing(q)
  BY DEF Closes
<1>2. PICK m, n \in Nat : m = Len(p) /\ n = Len(q) /\ DOMAIN p = 1..m /\ DOMAIN q = 1..n
  BY <1>1, ClosingLength
<1>3. PICK s : s = p \o q
  OBVIOUS
<1>4. Closing(s)
  BY <1>1, <1>3, ClosingConcat
<1>5. /\ DOMAIN s = 1..(m + n)
      /\ \A k \in 1..m : s[k] = p[k]
      /\ \A k \in 1..n : s[m + k] = q[k]
  <2>1. PICK A, B : p \in Seq(A) /\ q \in Seq(B)
    BY <1>1 DEF Closing
  <2>2. p \in Seq(A \cup B) /\ q \in Seq(A \cup B)
    <3>1. \A X, Y : X \subseteq Y => Seq(X) \subseteq Seq(Y)
      OBVIOUS
    <3> QED
      BY <2>1, <3>1
  <2>3. /\ s \in Seq(A \cup B) /\ Len(s) = m + n
        /\ \A i \in 1..(m + n) : s[i] = IF i <= m THEN p[i] ELSE q[i - m]
    BY <1>2, <1>3, <2>2, ConcatProperties
  <2>4. DOMAIN s = 1..(m + n)
    BY <2>3, LenProperties
  <2>5. \A k \in 1..m : s[k] = p[k]
    BY <1>2, <2>3
  <2>6. ASSUME NEW k \in 1..n PROVE s[m + k] = q[k]
    <3>1. m + k \in 1..(m + n) /\ ~(m + k <= m) /\ m + k - m = k
      BY <1>2
    <3> QED
      BY <2>3, <3>1
  <2> QED
    BY <2>4, <2>5, <2>6
<1>6. ASSUME NEW k \in DOMAIN s
      PROVE  \/ k \in 1..m /\ s[k] = p[k]
             \/ \E x \in 1..n : k = m + x /\ s[k] = q[x]
  <2>1. CASE k <= m
    BY <1>2, <1>5, <1>6, <2>1
  <2>2. CASE ~(k <= m)
    <3>1. PICK x : x = k - m
      OBVIOUS
    <3>2. x \in 1..n /\ k = m + x
      BY <1>2, <1>5, <1>6, <2>2, <3>1
    <3> QED
      BY <1>5, <3>2
  <2> QED
    BY <2>1, <2>2
<1>7. /\ \A k \in 1..m : p[k].kind = "finished" =>
            \E i \in S : p[k].call = log[i].call /\ TrueResult(i, p[k].result)
      /\ \A k \in 1..n : q[k].kind = "finished" =>
            \E i \in T : q[k].call = log[i].call /\ TrueResult(i, q[k].result)
      /\ \A i \in S : \E k \in 1..m : p[k].kind = "finished" /\ p[k].call = log[i].call
      /\ \A i \in T : \E k \in 1..n : q[k].kind = "finished" /\ q[k].call = log[i].call
  BY <1>2 DEF Closes
<1>8. \A k \in DOMAIN s : s[k].kind = "finished" =>
         \E i \in S \cup T : s[k].call = log[i].call /\ TrueResult(i, s[k].result)
  BY <1>6, <1>7
<1>9. ASSUME NEW j \in DOMAIN s, NEW k \in DOMAIN s, s[j].kind = "finished", s[k].kind = "finished",
             s[j].call = s[k].call
      PROVE  j = k
  <2>1. CASE j \in 1..m /\ s[j] = p[j] /\ k \in 1..m /\ s[k] = p[k]
    BY <1>2, <1>9, <2>1 DEF Closes
  <2>2. ASSUME NEW x \in 1..n, NEW y \in 1..n, j = m + x, k = m + y, s[j] = q[x], s[k] = q[y]
        PROVE  j = k
    <3>1. x = y
      BY <1>2, <1>9, <2>2 DEF Closes
    <3> QED
      BY <2>2, <3>1
  <2>3. \A x \in 1..m, y \in 1..n :
           p[x].kind = "finished" /\ q[y].kind = "finished" => p[x].call # q[y].call
    BY <1>7
  <2> QED
    BY <1>6, <1>9, <2>1, <2>2, <2>3
<1>10. \A i \in S \cup T : \E k \in DOMAIN s : s[k].kind = "finished" /\ s[k].call = log[i].call
  <2>1. ASSUME NEW i \in S PROVE \E k \in DOMAIN s : s[k].kind = "finished" /\ s[k].call = log[i].call
    <3>1. PICK k \in 1..m : p[k].kind = "finished" /\ p[k].call = log[i].call
      BY <1>7, <2>1
    <3>2. k \in DOMAIN s /\ s[k] = p[k]
      BY <1>2, <1>5
    <3> QED
      BY <3>1, <3>2
  <2>2. ASSUME NEW i \in T PROVE \E k \in DOMAIN s : s[k].kind = "finished" /\ s[k].call = log[i].call
    <3>1. PICK k \in 1..n : q[k].kind = "finished" /\ q[k].call = log[i].call
      BY <1>7, <2>2
    <3>2. m + k \in DOMAIN s /\ s[m + k] = q[k]
      BY <1>2, <1>5
    <3> QED
      BY <3>1, <3>2
  <2> QED
    BY <2>1, <2>2
<1> QED
  BY <1>3, <1>4, <1>8, <1>9, <1>10 DEF Closes

LEMMA ClosesNothing ==
    /\ Closes(<<>>, {})
    /\ \A e : e.kind = "turnFinished" => Closes(<<e>>, {})
<1>1. Closes(<<>>, {})
  BY ClosingOne DEF Closes
<1>2. ASSUME NEW e, e.kind = "turnFinished" PROVE Closes(<<e>>, {})
  <2>1. Closing(<<e>>)
    BY <1>2, ClosingOne
  <2>2. \A k \in DOMAIN <<e>> : (<<e>>)[k] = e
    OBVIOUS
  <2> QED
    BY <1>2, <2>1, <2>2 DEF Closes
<1> QED
  BY <1>1, <1>2

(* The results of recovery, for requests of different calls. *)
LEMMA RecoveredCloses ==
    ASSUME LogOK, NEW S, S \subseteq Requests, NEW t,
           \A i, k \in S : log[i].call = log[k].call => i = k,
           \A i \in S : Denied(i) => ~Ran(i)
    PROVE  Closes(RecoveredResults(S, t), S)
<1>1. PICK n \in Nat : DOMAIN log = 1..n
  BY LogFacts
<1>2. S \in SUBSET (1..n)
  BY <1>1 DEF Requests
<1>3. PICK q, f : q = RecoveredResults(S, t) /\ f = Ordered(S)
  OBVIOUS
<1>4. PICK m \in Nat : /\ m = Cardinality(S)
                       /\ \A k \in 1..m : f[k] \in S
                       /\ \A j, k \in 1..m : f[j] = f[k] => j = k
                       /\ \A i \in S : \E k \in 1..m : f[k] = i
  <2>1. \E m \in Nat : /\ m = Cardinality(S)
                       /\ \A k \in 1..m : Ordered(S)[k] \in S
                       /\ \A j, k \in 1..m : Ordered(S)[j] = Ordered(S)[k] => j = k
                       /\ \A i \in S : \E k \in 1..m : Ordered(S)[k] = i
    BY <1>2, OrderedLists, ZenonT(40)
  <2> QED
    BY <1>3, <2>1, Zenon
<1>5. q = [k \in 1..m |-> Finished(log[f[k]].call, t, RecoveredResult(f[k]))]
  BY <1>3, <1>4, Zenon DEF RecoveredResults
<1>6. Closing(q)
  <2>1. S \subseteq DOMAIN log
    BY <1>1, <1>2
  <2> QED
    BY <1>3, <2>1, RecoveredClosing
<1>7. /\ DOMAIN q = 1..m
      /\ \A k \in 1..m : /\ q[k].kind = "finished" /\ q[k].call = log[f[k]].call
                         /\ q[k].result = RecoveredResult(f[k])
  BY <1>5 DEF Finished
<1>8. \A i \in S : TrueResult(i, RecoveredResult(i))
  <2> SUFFICES ASSUME NEW i \in S PROVE TrueResult(i, RecoveredResult(i))
    OBVIOUS
  <2>1. RecoveredResult(i) = IF Denied(i) THEN "denied" ELSE "unknown"
    BY Zenon DEF RecoveredResult, Denied
  <2> QED
    BY <2>1 DEF TrueResult
<1>9. \A j, k \in 1..m : q[j].call = q[k].call => j = k
  BY <1>4, <1>7
<1> QED
  BY <1>3, <1>4, <1>6, <1>7, <1>8, <1>9, SMTT(40) DEF Closes

LEMMA ClosesSettles ==
    ASSUME LogOK, NEW q, NEW S, Closes(q, S), log' = log \o q, effects' = effects,
           \A i \in S : i \in Requests /\ Newest(i) /\ Of(i, "finished") = {}
    PROVE  Settles(S) /\ NewKinds({"finished", "turnFinished"})
<1>1. IsLog /\ Closing(q)
  BY DEF LogOK, IsLog, Closes
<1>2. IsLog' /\ Grows /\ NewKinds({"finished", "turnFinished"})
  BY <1>1, ClosingKinds
<1>3. Requests' = Requests
  BY <1>2, QuietKeeps DEF Quiet, NewKinds
<1>4. PICK l, n \in Nat : /\ l = Len(log) /\ n = Len(q) /\ DOMAIN q = 1..n /\ DOMAIN log' = 1..(l + n)
                          /\ \A k \in 1..n : log'[l + k] = q[k]
  <2>1. PICK T : T = {q[k] : k \in DOMAIN q}
    OBVIOUS
  <2>2. q \in Seq(T)
    BY <1>1, <2>1 DEF Closing
  <2>3. Len(log') = Len(log) + Len(q) /\ \A k \in 1..Len(q) : log'[Len(log) + k] = q[k]
    BY <1>1, <2>2, ConcatGrows
  <2>4. Len(log) \in Nat /\ DOMAIN log' = 1..Len(log')
    BY <1>2, Lengths
  <2> QED
    BY <1>1, <2>3, <2>4, ClosingLength
<1>5. \A j \in NewFin : \E k \in 1..n : j = l + k /\ log'[j] = q[k] /\ q[k].kind = "finished"
  <2> SUFFICES ASSUME NEW j \in NewFin
               PROVE  \E k \in 1..n : j = l + k /\ log'[j] = q[k] /\ q[k].kind = "finished"
    OBVIOUS
  <2>1. j \in 1..(l + n) /\ j > l /\ log'[j].kind = "finished"
    BY <1>4 DEF NewFin
  <2>2. PICK k : k = j - l
    OBVIOUS
  <2>3. k \in 1..n /\ j = l + k
    BY <1>4, <2>1, <2>2
  <2> QED
    BY <1>4, <2>1, <2>3
<1>6. /\ \A k \in 1..n : q[k].kind = "finished" =>
            \E i \in S : q[k].call = log[i].call /\ TrueResult(i, q[k].result)
      /\ \A k, m \in 1..n :
            q[k].kind = "finished" /\ q[m].kind = "finished" /\ q[k].call = q[m].call => k = m
      /\ \A i \in S : \E k \in 1..n : q[k].kind = "finished" /\ q[k].call = log[i].call
  BY <1>4 DEF Closes
<1>7. \A j \in NewFin : \E i \in S : log'[j].call = log[i].call /\ TrueResult(i, log'[j].result)
  <2> SUFFICES ASSUME NEW j \in NewFin
               PROVE  \E i \in S : log'[j].call = log[i].call /\ TrueResult(i, log'[j].result)
    OBVIOUS
  <2>1. PICK k \in 1..n : log'[j] = q[k] /\ q[k].kind = "finished"
    BY <1>5
  <2>2. PICK i \in S : q[k].call = log[i].call /\ TrueResult(i, q[k].result)
    BY <1>6, <2>1
  <2> QED
    BY <2>1, <2>2 DEF TrueResult
<1>8. \A j, k \in NewFin : log'[j].call = log'[k].call => j = k
  <2> SUFFICES ASSUME NEW j \in NewFin, NEW k \in NewFin, log'[j].call = log'[k].call
               PROVE  j = k
    OBVIOUS
  <2>1. PICK x \in 1..n : j = l + x /\ log'[j] = q[x] /\ q[x].kind = "finished"
    BY <1>5
  <2>2. PICK y \in 1..n : k = l + y /\ log'[k] = q[y] /\ q[y].kind = "finished"
    BY <1>5
  <2>3. x = y
    BY <1>6, <2>1, <2>2
  <2> QED
    BY <2>1, <2>2, <2>3
<1>9. \A i \in S : \E j \in NewFin : log'[j].call = log[i].call
  <2> SUFFICES ASSUME NEW i \in S PROVE \E j \in NewFin : log'[j].call = log[i].call
    OBVIOUS
  <2>1. PICK k \in 1..n : q[k].kind = "finished" /\ q[k].call = log[i].call
    BY <1>6
  <2>2. l + k \in 1..(l + n) /\ l + k > l
    BY <1>4
  <2>3. l + k \in NewFin /\ log'[l + k].call = log[i].call
    BY <1>4, <2>1, <2>2 DEF NewFin
  <2> QED
    BY <2>3
<1> QED
  BY <1>2, <1>3, <1>7, <1>8, <1>9 DEF Settles

(* What recovery finds to close is open, and does not wait for anybody. *)
LEMMA RecoveryFinds ==
    ASSUME ToolInv, TermInv, NEW I, I = (IF active = None THEN {} ELSE Interrupted(active)),
           NEW P, P = {i \in OperatorTools : Of(i, "finished") = {}}
    PROVE  /\ \A i \in I : Open(i) /\ InTurn(i) /\ ~ApprovalPending(i)
           /\ \A i \in P : /\ i \in Requests /\ Newest(i) /\ Of(i, "finished") = {}
                           /\ log[i].call = i /\ i \notin Calls /\ ~ApprovalPending(i)
           /\ \A i \in Requests : InTurn(i) /\ Open(i) /\ i \notin I => Pends(i)
<1>1. ASSUME NEW i \in I PROVE Open(i) /\ InTurn(i) /\ ~ApprovalPending(i)
  <2>1. /\ active # None /\ i \in Requests /\ (log[i].turn = active \/ i = ResumedFrom(active))
        /\ \A j \in Of(i, "finished") : log[j].turn # active
        /\ ~ApprovalPending(i)
    BY <1>1, Zenon DEF Interrupted
  <2>2. InTurn(i)
    BY <2>1 DEF InTurn
  <2>3. Of(i, "finished") = {}
    BY <2>1, <2>2, Zenon DEF TermInv, TurnOK
  <2> QED
    BY <2>1, <2>2, <2>3, Zenon DEF TermInv, TurnOK
<1>2. ASSUME NEW i \in P
      PROVE  /\ i \in Requests /\ Newest(i) /\ Of(i, "finished") = {}
             /\ log[i].call = i /\ i \notin Calls /\ ~ApprovalPending(i)
  <2>1. i \in Requests /\ Of(i, "finished") = {} /\ log[i].turn = None
    BY <1>2 DEF OperatorTools
  <2>2. i \in Nat
    BY <2>1, LogFacts DEF ToolInv
  <2>3. log[i].call = i
    <3>1. PICK m \in Nat : m = TurnsStarted
      BY TurnsStartedNat DEF ToolInv
    <3>2. log[i].call = i \/ log[i].turn \in 1..m
      BY <2>1, <3>1 DEF TermInv, RequestsOK
    <3> QED
      BY <2>1, <3>1, <3>2 DEF None
  <2>4. i \notin Calls
    BY <2>2, ToolAssumption DEF ToolAssumption
  <2>5. Newest(i)
    <3> SUFFICES ASSUME NEW k \in Requests, log[k].call = i PROVE k <= i
      BY <2>3 DEF Newest
    <3>1. log[k].call = k \/ log[k].call \in Calls
      BY DEF TermInv, RequestsOK
    <3> QED
      BY <2>2, <2>4, <3>1
  <2>6. ~ApprovalPending(i)
    BY <2>1, <2>3, <2>4 DEF ToolInv, PendingOK
  <2> QED
    BY <2>1, <2>3, <2>4, <2>5, <2>6
<1>3. ASSUME NEW i \in Requests, InTurn(i), Open(i), i \notin I PROVE Pends(i)
  <2>1. active # None /\ (log[i].turn = active \/ i = ResumedFrom(active))
    BY <1>3 DEF InTurn
  <2>2. Of(i, "finished") = {} /\ log[i].call \in Calls /\ Newest(i)
    BY <1>3 DEF Open
  <2>3. ApprovalPending(i) \/ log[i].inv = Ask
    BY <1>3, <2>1, <2>2, Zenon DEF Interrupted
  <2> QED
    BY <2>2, <2>3 DEF Pends, InputPending
<1> QED
  BY <1>1, <1>2, <1>3

LEMMA RestartTerm ==
    ASSUME ToolInv, TermInv, Restart
    PROVE  TermInv'
<1>1. LogOK /\ log' = log \o Recovery /\ effects' = effects /\ active' = None
  BY DEF ToolInv, Restart
<1>2. PICK t, e, I, P : /\ t = active
                        /\ e = TurnFinished(active, IF cancelRequested THEN "cancelled" ELSE "failed")
                        /\ I = (IF active = None THEN {} ELSE Interrupted(active))
                        /\ P = {i \in OperatorTools : Of(i, "finished") = {}}
  OBVIOUS
<1>3. /\ \A i \in I : Open(i) /\ InTurn(i) /\ ~ApprovalPending(i)
      /\ \A i \in P : /\ i \in Requests /\ Newest(i) /\ Of(i, "finished") = {}
                      /\ log[i].call = i /\ i \notin Calls /\ ~ApprovalPending(i)
      /\ \A i \in Requests : InTurn(i) /\ Open(i) /\ i \notin I => Pends(i)
  BY <1>2, RecoveryFinds
<1>4. \A i \in Requests : Denied(i) => ~Ran(i)
  BY DEF TermInv, ResultOK
<1>5. Closes(RecoveredResults(I, t), I)
  <2>1. I \subseteq Requests
    BY <1>3 DEF Open
  <2>2. \A i, k \in I : log[i].call = log[k].call => i = k
    <3>1. \A i \in I : i \in Nat /\ i \in Requests /\ Newest(i)
      BY <1>1, <1>3, LogFacts DEF Open
    <3> QED
      BY <3>1 DEF Newest
  <2> QED
    BY <1>1, <1>4, <2>1, <2>2, RecoveredCloses
<1>6. Closes(RecoveredResults(P, None), P)
  <2>1. P \subseteq Requests /\ \A i, k \in P : log[i].call = log[k].call => i = k
    BY <1>3
  <2> QED
    BY <1>1, <1>4, <2>1, RecoveredCloses
<1>7. PICK p, q, s : /\ p = RecoveredResults(P, None) /\ q = RecoveredResults(I, t)
                     /\ s = (IF t = None THEN <<>> ELSE q \o <<e>>)
  OBVIOUS
<1>8. Recovery = s \o p
  <2>1. Recovery = (IF active = None THEN <<>> ELSE RecoveredResults(Interrupted(active), active) \o <<e>>)
                   \o RecoveredResults(P, None)
    BY <1>2 DEF Recovery
  <2> QED
    BY <1>2, <1>7, <2>1
<1>9. Closes(s, I)
  <2>1. CASE t = None
    <3>1. I = {} /\ s = <<>>
      BY <1>2, <1>7, <2>1
    <3> QED
      BY <3>1, ClosesNothing
  <2>2. CASE t # None
    <3>1. e.kind = "turnFinished"
      BY <1>2 DEF TurnFinished
    <3>2. Closes(<<e>>, {}) /\ Closes(q, I)
      BY <1>5, <1>7, <3>1, ClosesNothing
    <3>3. Closes(q \o <<e>>, I \cup {})
      BY <3>2, ClosesConcat
    <3>4. s = q \o <<e>> /\ I \cup {} = I
      BY <1>7, <2>2
    <3> QED
      BY <3>3, <3>4
  <2> QED
    BY <2>1, <2>2
<1>10. PICK S : S = I \cup P
  OBVIOUS
<1>11. Closes(s \o p, S)
  <2>1. \A i \in I, k \in P : log[i].call # log[k].call
    BY <1>3 DEF Open
  <2>2. Closes(p, P)
    BY <1>6, <1>7
  <2> QED
    BY <1>9, <1>10, <2>1, <2>2, ClosesConcat
<1>12. \A i \in S : i \in Requests /\ Newest(i) /\ Of(i, "finished") = {} /\ ~ApprovalPending(i)
  BY <1>3, <1>10 DEF Open
<1>13. Settles(S) /\ NewKinds({"finished", "turnFinished"})
  <2>1. PICK r : r = s \o p
    OBVIOUS
  <2> QED
    BY <1>1, <1>8, <1>11, <1>12, <2>1, ClosesSettles
<1>14. /\ worker'.pc = "off" /\ worker'.turn = None /\ worker'.req = None
       /\ \A a \in Approvers : approver'[a].pc # "claimed"
       /\ operator'.pc = "idle" /\ booted' = Len(log')
  BY DEF Restart, Idle, NoHandler, NoOperator
<1>15. OperatorOpen'
  <2>1. IsLog' /\ Grows /\ Requests' = Requests
    BY <1>13 DEF Settles
  <2>2. booted' \in Nat /\ booted' <= Len(log')
    BY <1>1, <1>14, <2>1, Lengths
  <2>3. ASSUME NEW i \in OperatorTools' PROVE Of(i, "finished")' # {}
    <3>1. i \in Requests /\ i \in OperatorTools
      BY <1>1, <2>1, <2>3, Lengths DEF OperatorTools
    <3>2. CASE i \in S
      BY <1>1, <1>13, <3>1, <3>2, SettlesOwn
    <3>3. CASE i \notin S
      <4>1. Of(i, "finished") # {}
        BY <1>2, <1>10, <3>1, <3>3
      <4>2. Of(i, "finished")' = Of(i, "finished")
        BY <1>1, <1>13, <3>1, <3>3, SettlesOwn
      <4> QED
        BY <4>1, <4>2
    <3> QED
      BY <3>2, <3>3
  <2> QED
    BY <1>14, <2>2, <2>3 DEF OperatorOpen
<1>16. \A i \in Requests : InTurn(i) /\ Open(i) /\ i \notin S => Pends(i)
  BY <1>3, <1>10
<1> QED
  BY <1>1, <1>12, <1>13, <1>14, <1>15, <1>16, TurnEnds

-----------------------------------------------------------------------------
(* All steps, and what the invariant says. *)

FlagsOK == cancelRequested \in BOOLEAN /\ auto \in BOOLEAN

LEMMA FlagsStep ==
    ASSUME FlagsOK, [ToolNext]_vars
    PROVE  FlagsOK'
<1>1. ASSUME ToolNext PROVE FlagsOK'
  <2>1. CASE WorkerStep
    <3>1. CASE ConsumeControls
      BY <3>1, Zenon DEF ConsumeControls, FlagsOK, handlers
    <3>2. CASE ~ConsumeControls
      <4>1. UNCHANGED <<cancelRequested, auto>>
        BY <2>1, <3>2, Zenon DEF WorkerStep, ModelCalls, ModelAnswers, ModelFails, RequestTool,
           NextCompletion, Decide, RecordApproval, RequestApproval, PauseForApproval,
           ApprovalFault, Execute, ToolReturns, RecordTerminal, TerminalFault, FailTurn,
           ResumeTool, ResumeFault, ResumeCheck, EndTurn, handlers
      <4> QED
        BY <4>1 DEF FlagsOK
    <3> QED
      BY <3>1, <3>2
  <2>2. CASE StartTurn \/ AnswerTool \/ OperatorStep \/ Panic \/ Watchdog
    <3>1. cancelRequested' \in {cancelRequested, FALSE} /\ auto' = auto
      BY <2>2 DEF StartTurn, AnswerTool, OperatorStep, OperatorRequests, OperatorExecutes,
         OperatorRecords, OperatorFault, OperatorGone, Panic, Watchdog, EndTurn, handlers
    <3> QED
      BY <3>1 DEF FlagsOK
  <2>3. ASSUME NEW a \in Approvers,
               \/ ApproveReads(a) \/ ApproveIdentifies(a) \/ ApproveClaims(a) \/ ApproveDetaches(a)
        PROVE  FlagsOK'
    <3>1. UNCHANGED <<cancelRequested, auto>>
      BY <2>3, Zenon DEF ApproveReads, ApproveIdentifies, ApproveClaims, ApproveDetaches
    <3> QED
      BY <3>1 DEF FlagsOK
  <2>4. CASE SetAutoApproval \/ CancelSession \/ Restart
    BY <2>4 DEF FlagsOK, SetAutoApproval, CancelSession, Restart, handlers
  <2> QED
    BY <1>1, <2>1, <2>2, <2>3, <2>4 DEF ToolNext
<1>2. ASSUME UNCHANGED vars PROVE FlagsOK'
  BY <1>2 DEF vars, FlagsOK
<1> QED
  BY <1>1, <1>2

LEMMA TermInit ==
    ASSUME ToolInit
    PROVE  TermInv /\ FlagsOK
<1>1. /\ log = <<>> /\ Requests = {} /\ DOMAIN log = {} /\ effects = <<>> /\ active = None
      /\ Len(log) = 0 /\ booted = 0
      /\ worker.pc = "off" /\ worker.turn = None /\ worker.req = None /\ operator.pc = "idle"
      /\ \A a \in Approvers : approver[a].pc = "idle"
  BY DEF ToolInit, Idle, NoOperator, NoHandler, Requests
<1>2. TurnsStarted = 0
  <2>1. {i \in DOMAIN log : log[i].kind = "started"} = {}
    BY <1>1
  <2> QED
    BY <2>1, FS_EmptySet DEF TurnsStarted
<1>3. StartedOK
  BY <1>1, <1>2, ToolAssumption DEF StartedOK, ToolAssumption
<1>4. RequestsOK /\ OneOK /\ AskOK /\ WaitOK /\ TurnOK /\ LeftOK /\ TerminalHonest
  BY <1>1 DEF RequestsOK, OneOK, AskOK, WaitOK, TurnOK, LeftOK, TerminalHonest
<1>5. HandOK /\ ResultOK /\ NumbersOK
  BY <1>1 DEF HandOK, ResultOK, WorkerTrue, NumbersOK, Busy, Before, Asking
<1>6. OperatorOpen
  BY <1>1 DEF OperatorOpen, OperatorTools
<1>7. FlagsOK
  BY DEF ToolInit, FlagsOK
<1> QED
  BY <1>3, <1>4, <1>5, <1>6, <1>7 DEF TermInv

LEMMA TermStep ==
    ASSUME ToolInv, TermInv, [ToolNext]_vars
    PROVE  TermInv'
<1>1. CASE SetAutoApproval \/ CancelSession \/ UNCHANGED vars
  BY <1>1, BesideTerm
<1>2. CASE StartTurn \/ AnswerTool
  BY <1>2, StartTurnTerm, AnswerToolTerm
<1>3. CASE WorkerStep \/ Panic \/ Watchdog
  <2>1. CASE ModelCalls \/ NextCompletion \/ ApprovalFault \/ ToolReturns \/ ConsumeControls \/ ResumeTool \/ Panic
    BY <2>1, AsideSteps
  <2>2. CASE ModelAnswers \/ ModelFails \/ PauseForApproval \/ TerminalFault \/ FailTurn
              \/ ResumeFault \/ ResumeCheck \/ Watchdog
    BY <2>2, EndingSteps
  <2>3. CASE RequestTool
    <3>1. CASE NewTool
      BY <3>1, NewToolTerm
    <3>2. CASE ~NewTool
      BY <2>3, <3>2, EndingSteps
    <3> QED
      BY <3>1, <3>2
  <2>4. CASE Decide
    <3>1. CASE EndTurn("awaiting_input", <<>>)
      BY <2>4, <3>1, EndingSteps
    <3>2. CASE ~EndTurn("awaiting_input", <<>>)
      BY <2>4, <3>2, AsideSteps
    <3> QED
      BY <3>1, <3>2
  <2>5. CASE RecordApproval \/ RequestApproval \/ Execute \/ RecordTerminal
    BY <2>5, RecordApprovalTerm, RequestApprovalTerm, ExecuteTerm, RecordTerminalTerm
  <2> QED
    BY <1>3, <2>1, <2>2, <2>3, <2>4, <2>5 DEF WorkerStep
<1>4. ASSUME NEW a \in Approvers,
             \/ ApproveReads(a) \/ ApproveIdentifies(a) \/ ApproveClaims(a) \/ ApproveDetaches(a)
      PROVE  TermInv'
  <2>1. CASE ApproveReads(a) \/ ApproveIdentifies(a)
    BY <2>1, BesideTerm
  <2>2. CASE ApproveClaims(a)
    <3>1. CASE MayResume(approver[a].call, approver[a].req)
      BY <2>2, <3>1, ClaimsTerm
    <3>2. CASE ~MayResume(approver[a].call, approver[a].req)
      BY <2>2, <3>2, BesideTerm
    <3> QED
      BY <3>1, <3>2
  <2>3. CASE ApproveDetaches(a)
    BY <2>3, DetachesTerm
  <2> QED
    BY <1>4, <2>1, <2>2, <2>3
<1>5. CASE OperatorStep
  BY <1>5, OperatorTerm, OperatorRequestsTerm DEF OperatorStep
<1>6. CASE Restart
  BY <1>6, RestartTerm
<1> QED
  BY <1>1, <1>2, <1>3, <1>4, <1>5, <1>6 DEF ToolNext

(* A request has at most one result. *)
AtMostOne == \A i \in Requests : Cardinality(Of(i, "finished")) <= 1

LEMMA ResultsCounted ==
    ASSUME OneOK, NEW i \in Requests
    PROVE  \/ Of(i, "finished") = {} /\ Cardinality(Of(i, "finished")) = 0
           \/ Cardinality(Of(i, "finished")) = 1
<1>1. PICK F : F = Of(i, "finished")
  OBVIOUS
<1>2. CASE F = {}
  BY <1>1, <1>2, FS_EmptySet
<1>3. CASE F # {}
  <2>1. PICK j : F = {j}
    BY <1>1, <1>3 DEF OneOK
  <2> QED
    BY <1>1, <2>1, FS_Singleton
<1> QED
  BY <1>2, <1>3

LEMMA TypesFollow ==
    ASSUME ToolInv, TermInv, FlagsOK
    PROVE  ToolTypeOK
<1>1. /\ worker \in WorkerStates /\ operator \in OperatorStates
      /\ \A a \in Approvers : approver[a] \in HandlerStates
  BY DEF ToolInv, ProcessOK
<1>2. booted \in 0..Len(log)
  <2>1. Len(log) \in Nat
    BY LogFacts DEF ToolInv
  <2> QED
    BY <2>1 DEF TermInv, OperatorOpen
<1>3. /\ active \in {None} \cup Turns
      /\ worker.turn \in {None} \cup Turns /\ worker.req \in {None} \cup Requests
  BY DEF TermInv, NumbersOK
<1>4. worker.pc \in WorkerPcs /\ worker.result \in Results
  BY <1>1 DEF WorkerStates
<1> QED
  BY <1>1, <1>2, <1>3, <1>4 DEF ToolTypeOK, FlagsOK, WorkerPcs, Results, HandlerStates, OperatorStates

LEMMA NothingLost ==
    ASSUME ToolInv, TermInv, "panic" \notin Troubles, NEW i \in Requests, Of(i, "finished") = {}
    PROVE  InFlight(i) \/ Waiting(i)
<1>1. LogOK /\ i \in Nat
  BY LogFacts DEF ToolInv
<1>2. CASE log[i].turn = None
  <2>1. ~(i <= booted) /\ booted \in Nat
    BY <1>2 DEF TermInv, OperatorOpen, OperatorTools
  <2> QED
    BY <1>1, <1>2, <2>1 DEF InFlight
<1>3. CASE log[i].turn # None
  <2>1. log[i].call \in Calls
    BY <1>3 DEF TermInv, RequestsOK
  <2>2. InTurn(i) \/ Pends(i)
    BY <2>1, Zenon DEF TermInv, LeftOK
  <2>3. InTurn(i) => InFlight(i)
    BY DEF InTurn, InFlight
  <2>4. Pends(i) => Waiting(i)
    BY <1>1, CurrentIs DEF Pends, Waiting
  <2> QED
    BY <2>2, <2>3, <2>4
<1> QED
  BY <1>2, <1>3

(***************************************************************************)
(* Whatever a provider repeats, operators answer, cancels, panics, failed  *)
(* appends and restarts do, a tool request never gets two                  *)
(* tool.execution.finished events, and the one it gets tells the truth:    *)
(* denied means it did not run, returned means it ran or that an operator  *)
(* answered (record_tool_finished, interrupted_tool_results,               *)
(* record_operator_tool_terminal_transition).                              *)
(***************************************************************************)
THEOREM ToolResultsHonest == ToolSpec => [](ToolTypeOK /\ AtMostOne /\ TerminalHonest)
<1>1. ToolInit => ToolInv /\ TermInv /\ FlagsOK
  BY ToolInitOK, TermInit
<1>2. ToolInv /\ TermInv /\ FlagsOK /\ [ToolNext]_vars => ToolInv' /\ TermInv' /\ FlagsOK'
  BY ToolStep, TermStep, FlagsStep
<1>3. ToolInv /\ TermInv /\ FlagsOK => ToolTypeOK /\ AtMostOne /\ TerminalHonest
  <2> SUFFICES ASSUME ToolInv, TermInv, FlagsOK
               PROVE  ToolTypeOK /\ AtMostOne /\ TerminalHonest
    OBVIOUS
  <2>1. \A i \in Requests : Cardinality(Of(i, "finished")) \in {0, 1}
    BY ResultsCounted DEF TermInv
  <2>2. AtMostOne
    BY <2>1 DEF AtMostOne
  <2> QED
    BY <2>2, TypesFollow DEF TermInv
<1> QED
  BY <1>1, <1>2, <1>3, PTL DEF ToolSpec

(***************************************************************************)
(* And it does get one: a request without a result belongs to the active   *)
(* turn, to a shell command of this process or to an operator who is still *)
(* to answer, in every execution of any number of turns, approvers,        *)
(* cancels, failed appends, lost clients and restarts in which no turn     *)
(* task panics.  (A panicked task leaves its request open, and             *)
(* detach_turn_work ends its turn: nothing closes it any more.)            *)
(***************************************************************************)
THEOREM ToolTerminalsSound ==
    "panic" \notin Troubles => (ToolSpec => []TerminalsSound)
<1> SUFFICES ASSUME "panic" \notin Troubles
             PROVE  ToolSpec => []TerminalsSound
  OBVIOUS
<1>1. ToolInit => ToolInv /\ TermInv /\ FlagsOK
  BY ToolInitOK, TermInit
<1>2. ToolInv /\ TermInv /\ FlagsOK /\ [ToolNext]_vars => ToolInv' /\ TermInv' /\ FlagsOK'
  BY ToolStep, TermStep, FlagsStep
<1>3. ToolInv /\ TermInv /\ FlagsOK => TerminalsSound
  <2> SUFFICES ASSUME ToolInv, TermInv, FlagsOK PROVE TerminalsSound
    OBVIOUS
  <2>1. OneTerminal
    <3> SUFFICES ASSUME NEW i \in Requests
                 PROVE  /\ Cardinality(Of(i, "finished")) <= 1
                        /\ InFlight(i) \/ Waiting(i) \/ Cardinality(Of(i, "finished")) = 1
      BY Zenon DEF OneTerminal
    <3>1. \/ Of(i, "finished") = {} /\ Cardinality(Of(i, "finished")) = 0
          \/ Cardinality(Of(i, "finished")) = 1
      BY ResultsCounted DEF TermInv
    <3> QED
      BY <3>1, NothingLost
  <2> QED
    BY <2>1, TypesFollow DEF TerminalsSound, TermInv
<1> QED
  BY <1>1, <1>2, <1>3, PTL DEF ToolSpec
=============================================================================
