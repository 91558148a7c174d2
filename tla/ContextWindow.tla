---------------------------- MODULE ContextWindow -----------------------------
(***************************************************************************)
(* What a branch's next completion is given of its history: the trigger of *)
(* a compaction, the retention of messages, the summary of the rest and    *)
(* the chain of summaries (bt-context lib.rs, bt-runtime context.rs and    *)
(* the preflight of turn_orchestrator.rs). The preflight plans, asks a     *)
(* model for the summary and builds, and reads the history each time.      *)
(*                                                                         *)
(* A message is its index in the history with a role, the tool call it     *)
(* belongs to and its estimated size; a summary is the set of messages it  *)
(* was written from. The system prompt and pinned messages are taken off   *)
(* the budgets.                                                            *)
(***************************************************************************)
EXTENDS Naturals, Sequences, FiniteSets, FiniteSetsExt, SequencesExt

CONSTANTS
    Calls,                     \* tool call ids
    Sizes,                     \* estimated tokens of a message
    PromptTokens,              \* the window less the reserve
    TriggerTokens,             \* compaction_trigger_fraction of the window
    UserBudget,                \* compaction_user_message_budget_tokens
    SummaryMin, SummaryMax,    \* the clamp of a summary's budget (64, 4096)
    InputTokens,               \* what the summarizer's prompt has room for
    DigestLines,               \* messages a digest mentions (8)
    Skews,                     \* observed tokens per estimated token
    MaxHistory, MaxTurns, MaxForced    \* bounds

ASSUME ContextAssumption ==
    /\ IsFiniteSet(Calls) /\ Sizes \subseteq Nat \ {0} /\ Skews \subseteq Nat \ {0}
    /\ {PromptTokens, TriggerTokens, UserBudget, SummaryMin, SummaryMax, InputTokens,
        DigestLines, MaxHistory, MaxTurns, MaxForced} \subseteq Nat
    /\ SummaryMin <= SummaryMax

VARIABLES
    history,     \* the branch's messages and the related-session messages sent to it
    prep,        \* the turn: its phase, the plan and the summary written from it
    chain,       \* summaries of the branch's context.compacted events
    request,     \* the last request built: messages, summary, and the history it is of
    usage,       \* the last completion: observed tokens and the history it followed
    used         \* how many turns and forced compactions there were

cvars == <<history, prep, chain, request, usage, used>>

NoCall == "none"
NoUsage == [tokens |-> 0, at |-> 0]
Idle == [phase |-> "idle", of |-> 0, observed |-> 0, trigger |-> "none", summary |-> {},
         by |-> "none"]
NoRequest == [messages |-> {}, summary |-> {}, by |-> "none", of |-> 0, planned |-> 0,
              budget |-> 0]

ContextInit ==
    /\ history = <<>> /\ prep = Idle /\ chain = <<>> /\ request = NoRequest
    /\ usage = NoUsage /\ used = [turns |-> 0, forced |-> 0]

-----------------------------------------------------------------------------
(* Estimates, trigger and budgets. *)

All == DOMAIN history
Size(i) == history[i].size
Tokens(S) == MapThenSumSet(Size, S)
Less(a, b) == IF a > b THEN a - b ELSE 0
Lower(a, b) == IF a < b THEN a ELSE b
PreviousSummary == IF chain = <<>> THEN {} ELSE Last(chain)

(* observed_context_tokens: 0 is None *)
Observed ==
    IF usage = NoUsage THEN 0 ELSE usage.tokens + Tokens({i \in All : i > usage.at})

Trigger(forced, obs) ==
    IF forced THEN "forced"
    ELSE IF Tokens(All) > PromptTokens \/ obs > TriggerTokens THEN "budget"
    ELSE "none"

EffectiveBudget(obs) ==
    IF obs > Tokens(All) THEN (PromptTokens * Tokens(All)) \div obs ELSE PromptTokens

-----------------------------------------------------------------------------
(* Retention. *)

CallsOf(i) == IF history[i].role = "call" THEN {history[i].call} ELSE {}
ResultsOf(i) == IF history[i].role = "result" THEN {history[i].call} ELSE {}

(* build_message_units, one message: an open call takes in what follows. *)
JoinUnit(acc, i) ==
    IF acc.pending = {} THEN [units |-> Append(acc.units, {i}), pending |-> CallsOf(i)]
    ELSE [units |-> [acc.units EXCEPT ![Len(acc.units)] = @ \cup {i}],
          pending |-> (acc.pending \ ResultsOf(i)) \cup CallsOf(i)]

Units ==
    FoldLeft(JoinUnit, [units |-> <<>>, pending |-> {}], [i \in All |-> i]).units

Flat(units, from) == UNION {units[k] : k \in {j \in DOMAIN units : j >= from}}

SummaryBudget(budget) ==
    LET share == budget \div 8 IN
    IF share < SummaryMin THEN SummaryMin ELSE Lower(share, SummaryMax)

(* The first unit of the tail: the last unit is kept, older ones while they *)
(* fit; a tail does not open on a tool result.                              *)
TailStart(units, tailBudget) ==
    LET n == Len(units)
        fits == {k \in 1..n : k = n \/ Tokens(Flat(units, k)) <= tailBudget}
        cut == Min(fits)
        opens(k) == history[Min(units[k])].role # "result"
    IN Min({k \in cut..n : k = n \/ opens(k)})

(* One step of the newest-first choice of older user messages. *)
KeepUser(userBudget, kept, i) ==
    IF history[i].role = "user" /\ Tokens(kept \cup {i}) <= userBudget
    THEN kept \cup {i} ELSE kept

(* The shrinking loop: how many user messages and then units are taken out. *)
Removals(most, fitting) == Min({j \in 0..most : j = most \/ j \in fitting})

(* The kept user messages and the tail's units, oldest first within each,   *)
(* without the ones that are removed until the others fit in the room.      *)
Shrunk(parts, room) ==
    LET most == Len(parts) - 1
    IN Flat(parts, 1 + Removals(most, {j \in 0..most : Tokens(Flat(parts, 1 + j)) <= room}))

(* The retained parts; a forced compaction that would drop nothing lets one *)
(* more unit of the tail go.                                                *)
Parts(units, start, userBudget, forced) ==
    LET older == All \ Flat(units, start)
        step(acc, i) == KeepUser(userBudget, acc, i)
        kept == FoldLeft(step, {}, Reverse(SetToSortSeq(older, <)))
        from == IF forced /\ older = kept /\ start < Len(units) THEN start + 1 ELSE start
    IN [k \in 1..Cardinality(kept) |-> {SetToSortSeq(kept, <)[k]}] \o SubSeq(units, from, Len(units))

(* resolve_retention_selection: what stays verbatim, the rest is dropped. *)
Retention(units, budget, forced) ==
    LET content == Less(budget, SummaryBudget(budget))
        userBudget == Lower(UserBudget, content \div 2)
        start == TailStart(units, content - userBudget)
    IN Shrunk(Parts(units, start, userBudget, forced), budget - SummaryBudget(budget))

NewestFitting(S, budget) ==
    {i \in S : i = Max(S) \/ Tokens({j \in S : j >= i}) <= budget}

(* The previous summary is put before the dropped messages; one of the      *)
(* least size is taken.                                                     *)
Header == IF chain = <<>> THEN 0 ELSE SummaryMin

(* render_summarization_transcript: the previous summary and the newest     *)
(* dropped messages that the input budget has room for beside it. The       *)
(* oldest are elided.                                                       *)
Transcript(dropped) ==
    PreviousSummary \cup
        (IF dropped = {} THEN {} ELSE NewestFitting(dropped, Less(InputTokens, Header)))

(* compose_fallback_summary_body *)
Digest(dropped) ==
    PreviousSummary \cup {i \in dropped : Cardinality({j \in dropped : j > i}) < DigestLines}

-----------------------------------------------------------------------------
(* The preflight of a turn. *)

Message(role, call, size) == [role |-> role, call |-> call, size |-> size]
Appended(m) == Len(history) < MaxHistory /\ history' = Append(history, m)

(* A user message is admitted, or a paused call is answered; a turn begins. *)
StartTurn ==
    /\ prep.phase = "idle" /\ used.turns < MaxTurns
    /\ \E s \in Sizes :
          \/ Appended(Message("user", NoCall, s))
          \/ \E c \in Calls : /\ \E i \in All : CallsOf(i) = {c}
                              /\ \A i \in All : ResultsOf(i) # {c}
                              /\ Appended(Message("result", c, s))
    /\ used' = [used EXCEPT !.turns = @ + 1]
    /\ prep' = [prep EXCEPT !.phase = "plan"]
    /\ UNCHANGED <<chain, request, usage>>

(* A related session delivers a message; it is part of the context at once. *)
Deliver ==
    /\ \E s \in Sizes : Appended(Message("user", NoCall, s))
    /\ UNCHANGED <<prep, chain, request, usage, used>>

(* Mutant of PlanBudget: the budget is not scaled to the observation. *)
PlanBudgetUnscaled == PromptTokens

(* plan_compaction's budget, as of build_request_with_options *)
PlanBudget == EffectiveBudget(Observed)

(* plan_turn_context_compaction: the observation is frozen here. *)
Plan ==
    /\ prep.phase = "plan"
    /\ LET trigger == Trigger(FALSE, Observed)
           dropped == All \ Retention(Units, PlanBudget, FALSE)
           work == trigger # "none" /\ (dropped # {} \/ chain # <<>>)
       IN prep' = [phase |-> IF work THEN "summarize" ELSE "build",
                   of |-> Len(history), observed |-> Observed, trigger |-> trigger,
                   summary |-> IF work THEN Transcript(dropped) ELSE {},
                   by |-> "digest"]
    /\ UNCHANGED <<history, chain, request, usage, used>>

(* run_planned_summarization: the model answers, or it fails and the digest *)
(* will do.                                                                 *)
Summarize(by) ==
    /\ prep.phase = "summarize"
    /\ prep' = [prep EXCEPT !.phase = "build", !.by = by]
    /\ UNCHANGED <<history, chain, request, usage, used>>

(* build_request_with_options: None when nothing is dropped and no chain is *)
(* carried, or when a forced compaction does not make the context smaller.  *)
Built(forced, obs, override, size) ==
    LET trigger == Trigger(forced, obs)
        budget == EffectiveBudget(obs)
        kept == Retention(Units, budget, forced)
        dropped == All \ kept
        summary == IF override.by = "model" THEN override.summary ELSE Digest(dropped)
        idle == dropped = {} /\ chain = <<>> /\ override.by # "model"
        smaller == Tokens(kept) + size < Tokens(All)
        whole == [messages |-> All, summary |-> {}, by |-> "none", of |-> Len(history),
                  planned |-> override.of, budget |-> budget]
    IN IF trigger = "none" \/ idle \/ (forced /\ ~smaller) THEN whole
       ELSE [whole EXCEPT !.messages = kept, !.summary = summary,
                          !.by = override.by]

(* record_context_compacted *)
Record(r) == chain' = IF r.by = "none" THEN chain ELSE Append(chain, r.summary)

Build ==
    /\ prep.phase = "build"
    /\ LET r == Built(FALSE, prep.observed, prep, SummaryMin) IN
       request' = r /\ Record(r)
    /\ prep' = [Idle EXCEPT !.phase = "run"]
    /\ UNCHANGED <<history, usage, used>>

(* compact_branch_context: a forced build with a digest, of any size. *)
Compact ==
    /\ used.forced < MaxForced /\ All # {}
    /\ \E size \in SummaryMin..SummaryMax :
          LET r == Built(TRUE, Observed, [Idle EXCEPT !.by = "digest", !.of = Len(history)], size) IN
          Record(r) /\ request' = IF prep.phase = "run" THEN request ELSE r
    /\ used' = [used EXCEPT !.forced = @ + 1]
    /\ UNCHANGED <<history, prep, usage>>

(* The preflight gives way to a cancel. *)
Cancel ==
    /\ prep.phase \in {"plan", "summarize", "build"}
    /\ prep' = Idle
    /\ UNCHANGED <<history, chain, request, usage, used>>

-----------------------------------------------------------------------------
(* The turn itself. *)

CallTool ==
    /\ prep.phase = "run"
    /\ \E c \in Calls, s \in Sizes :
          /\ \A i \in All : history[i].call # c
          /\ Appended(Message("call", c, s))
    /\ UNCHANGED <<prep, chain, request, usage, used>>

ToolReturns ==
    /\ prep.phase = "run"
    /\ \E c \in Calls, s \in Sizes :
          /\ \E i \in All : CallsOf(i) = {c}
          /\ \A i \in All : ResultsOf(i) # {c}
          /\ Appended(Message("result", c, s))
    /\ UNCHANGED <<prep, chain, request, usage, used>>

(* The seq_id of completion.finished, among the messages. *)
Boundary == Len(history)

(* completion.finished of the last call of the turn: what the provider      *)
(* counted of the request and of what the turn has appended.                *)
FinishTurn ==
    /\ prep.phase = "run"
    /\ \E skew \in Skews :
          LET sent == request.messages \cup {i \in All : i > request.of} IN
          usage' = [tokens |-> skew * Tokens(sent), at |-> Boundary]
    /\ prep' = Idle
    /\ UNCHANGED <<history, chain, request, used>>

ContextNext ==
    \/ StartTurn \/ Deliver \/ Plan \/ Build \/ Compact \/ Cancel
    \/ \E by \in {"model", "digest"} : Summarize(by)
    \/ CallTool \/ ToolReturns \/ FinishTurn

ContextSpec == ContextInit /\ [][ContextNext]_cvars

-----------------------------------------------------------------------------
(* Properties. *)

ContextTypeOK ==
    /\ \A i \in All : history[i].role \in {"user", "call", "result"} /\ history[i].size \in Sizes
    /\ prep.phase \in {"idle", "plan", "summarize", "build", "run"}
    /\ request.messages \cup request.summary \subseteq 1..request.of
    /\ request.of <= Len(history) /\ usage.at <= Len(history)

(* A tool call and its result are never separated by a compaction, however  *)
(* late the result came and whatever was delivered in between               *)
(* (build_message_units).                                                   *)
UnitsIntact ==
    \A i, j \in 1..request.of :
        (history[i].role = "call" /\ ResultsOf(j) = {history[i].call}) =>
            (i \in request.messages <=> j \in request.messages)

(* A compacted request fits the budget of its build, unless it is down to   *)
(* its last unit: the messages no older than some open call.                *)
Bare(S) == \E i \in S : i = Min(S) /\ (Cardinality(S) = 1 \/ CallsOf(i) # {})
FitsOrBare ==
    request.by # "none" =>
        \/ Tokens(request.messages) + SummaryMin <= request.budget
        \/ Bare(request.messages)

(* When the history has not changed since the plan, the summary that the    *)
(* model wrote was written from the messages that the request leaves out:   *)
(* plan and build select alike (the frozen observation). Only the oldest    *)
(* may be missing from it, where the summarizer's input had no room for     *)
(* them and for all that are newer (render_summarization_transcript).       *)
LeftOut == (1..request.of) \ request.messages
NoRoomFor(i) ==
    i # Max(LeftOut) /\ Tokens({j \in LeftOut : j >= i}) > Less(InputTokens, SummaryMin)
PlannedIsBuilt ==
    (request.by = "model" /\ request.planned = request.of) =>
        \A i \in LeftOut \ request.summary : NoRoomFor(i)

(* Messages elided from the summarizer's input "are covered by the previous *)
(* summary" (the comment and the text of render_summarization_transcript):  *)
(* nothing is lost while the history stays as planned.                      *)
ElidedWereCovered ==
    (request.by = "model" /\ request.planned = request.of) => LeftOut \subseteq request.summary

(* What a compacted request leaves out is covered by its summary or by an   *)
(* earlier one.                                                             *)
Remembered ==
    request.by = "model" => \A i \in 1..request.of : i \in request.messages \cup request.summary

(* A message that a compaction has dropped is not sent verbatim again.      *)
Dropped == UNION {chain[k] : k \in DOMAIN chain}
StaysCompacted == request.by = "none" => request.messages \cap Dropped = {}

(* A request keeps a tool call together with its result, fits the budget of *)
(* its build unless one unit alone exceeds it, and its model-written summary *)
(* was written from what it leaves out, as far as the summarizer's input    *)
(* had room, when the history has not grown since the plan (build_context,  *)
(* the frozen observation).                                                 *)
RequestsFit == ContextTypeOK /\ UnitsIntact /\ FitsOrBare /\ PlannedIsBuilt
=============================================================================
