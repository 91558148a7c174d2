-------------------------- MODULE RelatedSessions ----------------------------
(***************************************************************************)
(* Sessions that work for each other: spawning children within the bounds  *)
(* of a lineage, the durable mailbox between sessions of one tree, the     *)
(* claim of a wake message by a turn, and the reply that settles a claimed *)
(* instruction or question when the turn's work ends (bt-runtime           *)
(* related_sessions.rs, bt-server agent_tools.rs, bt-session store.rs).    *)
(*                                                                         *)
(* One session branch is modelled, and of a turn only what the mailbox     *)
(* sees of it; TurnControl covers the control of the turns of one session. *)
(* A message's sent and received copies commit together, so mail holds one *)
(* record for both; its index is the message's identity and its order.     *)
(***************************************************************************)
EXTENDS Naturals, Sequences, FiniteSets, Functions

CONSTANTS
    Sessions, Root,
    MaxDepth, MaxDescendants,     \* MAX_RELATED_SESSION_DEPTH, _DESCENDANTS
    Sendable,                     \* what agents send: kinds, and whether they wake
    Ends,                         \* how a turn may end
    MaxMessages,                  \* nothing more is sent to a mailbox of that length
    MaxTurns,                     \* bound on the turns of all sessions
    Troubles, MaxTroubles         \* "fault", "crash"; how often, together

Obliging == {"instruction", "question"}
Kinds == Obliging \cup {"answer", "progress", "result", "error"}

ASSUME RelatedAssumption ==
    /\ Sendable \subseteq Kinds \X BOOLEAN
    /\ Ends \subseteq {"completed", "failed", "cancelled", "awaiting", "exhausted"}
    /\ Root \in Sessions
    /\ MaxDepth \in Nat /\ MaxDescendants \in Nat /\ MaxMessages \in Nat /\ MaxTurns \in Nat

None == 0

VARIABLES
    parent,      \* parent_session_id of every session there is; Root's is Root
    mail,        \* related_session_message_projection
    turns,       \* the turns of each session, in order
    outcomes,    \* tasks that record what a finished turn owes its senders
    poked,       \* sessions somebody is about to claim a wake for
    phase,       \* "up", or "repair" while BelltowerRuntime::open repairs
    gaveUp,      \* history: sessions whose last settlement attempt failed
    troubles

vars == <<parent, mail, turns, outcomes, poked, phase, gaveUp, troubles>>

-----------------------------------------------------------------------------
(* Lineage. *)

Known == DOMAIN parent

(* The sessions from s up to the root: the least set that holds s and the   *)
(* parent of each of its members.                                           *)
Ancestors(s) ==
    {a \in Known : \A A \in SUBSET Known :
        s \in A /\ (\A x \in A : parent[x] \in A) => a \in A}
Depth(s) == Cardinality(Ancestors(s)) - 1

(* ensure_child_spawn_bounds_in_tx *)
MaySpawn(p) == Depth(p) < MaxDepth /\ Cardinality(Known) - 1 < MaxDescendants

-----------------------------------------------------------------------------
(* Turns and messages. *)

LastTurn(s) == Len(turns[s])
Status(s) == IF turns[s] = <<>> THEN "none" ELSE turns[s][LastTurn(s)]
Active(s) == Status(s) = "running"
Paused(s) == Status(s) = "awaiting"     \* an approval or an input is pending
Busy(s) == Active(s) \/ Paused(s)       \* session_has_pending_work_in_tx

(* The bound on the instance: no further turn is started. *)
TurnsLeft == FoldFunction(+, 0, [s \in Sessions |-> LastTurn(s)]) < MaxTurns
StartTurn(s) == TurnsLeft /\ turns' = [turns EXCEPT ![s] = Append(@, "running")]

Message(src, dst, kind, wake, reply) ==
    [src |-> src, dst |-> dst, kind |-> kind, wake |-> wake, reply |-> reply,
     status |-> IF wake THEN "pending" ELSE "delivered",
     turn |-> None,        \* resulting_turn_id: the turn that claimed it
     settledBy |-> None,   \* settlement: the reply, ...
     settlingTurn |-> None]                           \* ... and its turn

Received(s) == {i \in DOMAIN mail : mail[i].dst = s}
PendingWakes(s) == {i \in Received(s) : mail[i].status = "pending"}

(* What record_related_reply_obligations answers for: claimed, unsettled. *)
Owed(s) == {i \in Received(s) : /\ mail[i].status = "claimed" /\ mail[i].settledBy = None
                                /\ mail[i].kind \in Obliging}

Claim(M, t) == [i \in DOMAIN mail |->
                  IF i \in M THEN [mail[i] EXCEPT !.status = "claimed", !.turn = t] ELSE mail[i]]

Trouble(what) == what \in Troubles /\ troubles < MaxTroubles /\ troubles' = troubles + 1

RelatedInit ==
    /\ parent = [s \in {Root} |-> Root]
    /\ mail = <<>>
    /\ turns = [s \in Sessions |-> <<>>]
    /\ outcomes = {} /\ poked = {}
    /\ phase = "up" /\ gaveUp = {} /\ troubles = 0

-----------------------------------------------------------------------------
(* commit_child_session_spawn(_with_initial_message): the child, and with   *)
(* dispatch its objective as a wake instruction, in one transaction.        *)
CommitSpawn(p, c, dispatch) ==
    /\ MaySpawn(p)
    /\ parent' = [s \in Known \cup {c} |-> IF s = c THEN p ELSE parent[s]]
    /\ mail' = IF dispatch THEN Append(mail, Message(p, c, "instruction", TRUE, None)) ELSE mail

(* spawn_child_session_transition *)
Spawn(p, c, dispatch) ==
    /\ phase = "up" /\ p \in Known /\ c \in Sessions \ Known
    /\ dispatch => Len(mail) < MaxMessages
    /\ CommitSpawn(p, c, dispatch)
    /\ poked' = IF dispatch THEN poked \cup {c} ELSE poked
    /\ UNCHANGED <<turns, outcomes, phase, gaveUp, troubles>>

(* The spawn_agent tool of an active turn, and the operator's request. *)
SpawnAgent(p, c) == Active(p) /\ Spawn(p, c, TRUE)
SpawnSession(p, c) == \E dispatch \in BOOLEAN : Spawn(p, c, dispatch)

(* Between sessions of one tree; a reply reverses the edge of a message     *)
(* that the sender received.                                                *)
MayMessage(s, d, reply) ==
    /\ {s, d} \subseteq Known /\ s # d
    /\ reply # None => reply \in Received(s) /\ mail[reply].src = d

(* commit_related_session_message: both copies in one transaction. *)
CommitMessage(s, d, kind, wake, reply) ==
    MayMessage(s, d, reply) /\ mail' = Append(mail, Message(s, d, kind, wake, reply))

(* send_agent_message: only from an active turn; a wake is claimed next. *)
SendMessage(s, d, kind, wake, reply) ==
    /\ phase = "up" /\ Active(s) /\ Len(mail) < MaxMessages
    /\ CommitMessage(s, d, kind, wake, reply)
    /\ poked' = IF wake THEN poked \cup {d} ELSE poked
    /\ UNCHANGED <<parent, turns, outcomes, phase, gaveUp, troubles>>

(* claim_related_message_continuation: the oldest pending wake starts a     *)
(* turn, unless the session has other work.                                 *)
Claimable(s) == ~Busy(s) /\ PendingWakes(s) # {}
ClaimContinuation(s) ==
    LET oldest == CHOOSE i \in PendingWakes(s) : \A j \in PendingWakes(s) : i <= j
    IN StartTurn(s) /\ mail' = Claim({oldest}, LastTurn(s) + 1)

(* claim_next_related_session_message, for the sender, the wake pump, the   *)
(* post-turn controls or startup.                                           *)
ClaimNext(s) ==
    /\ phase = "up" /\ s \in poked
    /\ poked' = poked \ {s}
    /\ IF Claimable(s) THEN ClaimContinuation(s) ELSE UNCHANGED <<turns, mail>>
    /\ UNCHANGED <<parent, outcomes, phase, gaveUp, troubles>>

(* wait_agent: the active turn takes the pending wakes of one sender, or    *)
(* of all of them, for itself.                                              *)
WaitAgent(s) ==
    /\ phase = "up" /\ Active(s)
    /\ \E from \in {Sessions} \cup {{d} : d \in Sessions} :
          LET M == {i \in PendingWakes(s) : mail[i].src \in from}
          IN M # {} /\ mail' = Claim(M, LastTurn(s))
    /\ UNCHANGED <<parent, turns, outcomes, poked, phase, gaveUp, troubles>>

(* A message of the operator starts a turn. *)
UserTurn(s) ==
    /\ phase = "up" /\ s \in Known /\ ~Busy(s)
    /\ StartTurn(s)
    /\ UNCHANGED <<parent, mail, outcomes, poked, phase, gaveUp, troubles>>

(* The operator decides or answers, and the work goes on in a new turn. *)
ResumeTurn(s) ==
    /\ phase = "up" /\ Paused(s)
    /\ StartTurn(s)
    /\ UNCHANGED <<parent, mail, outcomes, poked, phase, gaveUp, troubles>>

-----------------------------------------------------------------------------
(* The end of a turn, and what it owes. *)

(* record_related_turn_outcome: the kind of the reply, by the stop reason. *)
ReplyKind(how) == CASE how = "completed" -> "result"
                    [] how = "awaiting" -> "progress"
                    [] OTHER -> "error"

(* What the turn is recorded as: a turn over budget has completed. *)
Recorded(how) == IF how = "exhausted" THEN "completed" ELSE how

Outcome(s, t, kind) ==
    [session |-> s, turn |-> t, kind |-> kind, todo |-> {}, pc |-> "read", last |-> FALSE]

(* Mutant of FinishTurn: nobody looks for a wake that came meanwhile. *)
FinishTurnQuietly(s, how) ==
    /\ phase = "up" /\ Active(s)
    /\ turns' = [turns EXCEPT ![s][LastTurn(s)] = Recorded(how)]
    /\ outcomes' = outcomes \cup {Outcome(s, LastTurn(s), ReplyKind(how))}
    /\ UNCHANGED <<parent, mail, poked, phase, gaveUp, troubles>>

(* The turn's terminal event commits, which wakes the pump; its worker goes *)
(* on to record the outcome under another lock.                             *)
FinishTurn(s, how) ==
    /\ phase = "up" /\ Active(s)
    /\ turns' = [turns EXCEPT ![s][LastTurn(s)] = Recorded(how)]
    /\ outcomes' = outcomes \cup {Outcome(s, LastTurn(s), ReplyKind(how))}
    /\ poked' = poked \cup {s}
    /\ UNCHANGED <<parent, mail, phase, gaveUp, troubles>>

Become(o, P) == outcomes' = (outcomes \ {o}) \cup P

(* Mutant of ReadOwed: only what the turn itself claimed is answered. *)
ReadOwedOwn(o) ==
    /\ o.pc = "read"
    /\ LET todo == {i \in Owed(o.session) : mail[i].turn = o.turn}
       IN Become(o, IF todo = {} THEN {} ELSE {[o EXCEPT !.pc = "reply", !.todo = todo]})
    /\ UNCHANGED <<parent, mail, turns, poked, phase, gaveUp, troubles>>

(* related_session_messages: the claimed, unsettled obligations ... *)
ReadOwed(o) ==
    /\ o.pc = "read"
    /\ LET todo == Owed(o.session)
       IN Become(o, IF todo = {} THEN {} ELSE {[o EXCEPT !.pc = "reply", !.todo = todo]})
    /\ UNCHANGED <<parent, mail, turns, poked, phase, gaveUp, troubles>>

(* The reply and the settlement, in one transaction. *)
Settled(i, kind, t) ==
    Append([mail EXCEPT ![i].settledBy = Len(mail) + 1, ![i].settlingTurn = t],
           Message(mail[i].dst, mail[i].src, kind, TRUE, i))

(* Mutant of Settle: an obligation is settled without looking. *)
SettleAgain(o, i) ==
    /\ mail' = Settled(i, o.kind, o.turn) /\ poked' = poked \cup {mail[i].src}

(* settle_related_session_message: the first settlement wins. *)
Settle(o, i) ==
    IF mail[i].settledBy = None
    THEN mail' = Settled(i, o.kind, o.turn) /\ poked' = poked \cup {mail[i].src}
    ELSE UNCHANGED <<mail, poked>>

(* Progress is sent once per obligation and text, and wakes nobody. *)
ReportProgress(i) ==
    /\ IF \E j \in DOMAIN mail : mail[j].reply = i /\ mail[j].kind = "progress"
       THEN UNCHANGED mail
       ELSE mail' = Append(mail, Message(mail[i].dst, mail[i].src, "progress", FALSE, i))
    /\ UNCHANGED poked

(* ... are answered one after the other. *)
Reply(o) ==
    /\ o.pc = "reply"
    /\ LET i == CHOOSE i \in o.todo : \A j \in o.todo : i <= j
       IN /\ IF o.kind = "progress" THEN ReportProgress(i) ELSE Settle(o, i)
          /\ Become(o, IF o.todo = {i} THEN {} ELSE {[o EXCEPT !.todo = @ \ {i}]})
    /\ UNCHANGED <<parent, turns, phase, gaveUp, troubles>>

(* A reply does not commit.  Lost progress is only logged; any other error  *)
(* ends the worker, and the watchdog tries once more, as a failure.         *)
ReplyFault(o) ==
    /\ ~o.last
    /\ Trouble("fault")
    /\ Become(o, IF o.kind = "progress" THEN {}
                 ELSE {[Outcome(o.session, o.turn, "error") EXCEPT !.last = TRUE]})
    /\ UNCHANGED <<parent, mail, turns, poked, phase, gaveUp>>

(* The fault persists: the watchdog logs it and the startup repair is left. *)
WatchdogFault(o) ==
    /\ o.last
    /\ Become(o, {})
    /\ gaveUp' = gaveUp \cup {o.session}
    /\ UNCHANGED <<parent, mail, turns, poked, phase, troubles>>

-----------------------------------------------------------------------------
(* The process dies.  The next one first records running turns as failed    *)
(* (recover_interrupted_turns) ...                                          *)
Crash ==
    /\ Trouble("crash")
    /\ turns' = [s \in Sessions |->
                   [t \in DOMAIN turns[s] |-> IF turns[s][t] = "running" THEN "failed"
                                              ELSE turns[s][t]]]
    /\ outcomes' = {} /\ poked' = {} /\ gaveUp' = {}
    /\ phase' = "repair"
    /\ UNCHANGED <<parent, mail>>

Repairable == {i \in DOMAIN mail : i \in Owed(mail[i].dst) /\ ~Paused(mail[i].dst)}

(* The last turn of the branch tells how the work ended. *)
RepairKind(status) == IF status = "completed" THEN "result" ELSE "error"

(* ... then repair_related_session_reply_settlements, one transaction at a  *)
(* time ...                                                                 *)
Repair ==
    /\ phase = "repair" /\ Repairable # {}
    /\ LET i == CHOOSE i \in Repairable : \A j \in Repairable : i <= j
           s == mail[i].dst
       IN mail' = Settled(i, RepairKind(Status(s)), LastTurn(s))
    /\ UNCHANGED <<parent, turns, outcomes, poked, phase, gaveUp, troubles>>

(* ... and then recover_pending_agent_turns looks at every pending wake.    *)
Serve ==
    /\ phase = "repair" /\ Repairable = {}
    /\ phase' = "up"
    /\ poked' = {s \in Known : PendingWakes(s) # {}}
    /\ UNCHANGED <<parent, mail, turns, outcomes, gaveUp, troubles>>

-----------------------------------------------------------------------------
AgentStep ==
    \/ \E p, c \in Sessions : SpawnAgent(p, c) \/ SpawnSession(p, c)
    \/ \E s, d \in Sessions : \E m \in Sendable :
          \E reply \in IF m[1] \in Obliging THEN {None} ELSE DOMAIN mail :
             SendMessage(s, d, m[1], m[2], reply)
    \/ \E s \in Sessions : WaitAgent(s)

ServerStep ==
    \/ \E s \in Sessions : ClaimNext(s)
    \/ \E o \in outcomes : ReadOwed(o) \/ Reply(o)
    \/ Repair \/ Serve

RelatedNext ==
    \/ AgentStep \/ ServerStep
    \/ \E s \in Sessions : \/ UserTurn(s) \/ ResumeTurn(s)
                           \/ \E how \in Ends : FinishTurn(s, how)
    \/ \E o \in outcomes : ReplyFault(o) \/ WatchdogFault(o)
    \/ Crash

RelatedSpec == RelatedInit /\ [][RelatedNext]_vars

-----------------------------------------------------------------------------
(***************************************************************************)
(* The types of the mailbox and of the process's tasks.                    *)
(***************************************************************************)
RelatedTypeOK ==
    /\ Root \in Known /\ Known \subseteq Sessions /\ \A s \in Known : parent[s] \in Known
    /\ \A i \in DOMAIN mail :
          /\ {mail[i].src, mail[i].dst} \subseteq Known /\ mail[i].kind \in Kinds
          /\ mail[i].status \in {"delivered", "pending", "claimed"}
          /\ mail[i].reply \in 0..(i - 1)
          /\ mail[i].turn \in 0..LastTurn(mail[i].dst)
          /\ mail[i].settledBy \in {None} \cup DOMAIN mail
    /\ \A s \in Sessions : Range(turns[s]) \subseteq
                              {"running", "completed", "failed", "cancelled", "awaiting"}
    /\ \A o \in outcomes : o.session \in Known /\ o.todo \subseteq DOMAIN mail
    /\ poked \subseteq Known /\ phase \in {"up", "repair"}

(***************************************************************************)
(* "depth four and eight descendants per lineage" (docs/subsystems/        *)
(* session-runtime-and-agent.md), whoever spawns from wherever.            *)
(***************************************************************************)
LineageBounded ==
    /\ \A s \in Known : Depth(s) <= MaxDepth
    /\ Cardinality(Known) - 1 <= MaxDescendants

(***************************************************************************)
(* "retries and startup repair cannot produce a second terminal reply"     *)
(* (event-taxonomy-and-write-path.md): the worker of a turn, the one of    *)
(* the next turn, the watchdog and the repair after a crash may all find   *)
(* the same obligation, and one of them answers it.                        *)
(***************************************************************************)
OneSettlement ==
    \A i \in DOMAIN mail :
        LET replies == {j \in DOMAIN mail : mail[j].reply = i /\ mail[j].kind \in {"result", "error"}}
        IN /\ Cardinality(replies) <= 1
           /\ mail[i].settledBy # None => replies = {mail[i].settledBy}

(***************************************************************************)
(* "at the end of every turn run on a child session, each claimed          *)
(* instruction/question message without a terminal reply receives one"     *)
(* (subagents-and-session-graphs.md): a claimed obligation that has none   *)
(* is one that a turn, an operator, a task or the repair still gets to,    *)
(* except after the worker's and the watchdog's attempts both failed.      *)
(***************************************************************************)
NothingStranded ==
    \A s \in Known : \A i \in Owed(s) :
        \/ Busy(s) \/ phase = "repair" \/ s \in gaveUp
        \/ \E o \in outcomes : o.session = s /\ o.kind # "progress"
                               /\ (o.pc = "reply" => i \in o.todo)

(***************************************************************************)
(* A wake message "is not stranded in process-local state": while one is   *)
(* pending its destination is busy, or somebody is about to claim it, also *)
(* when it arrived during a turn, a pause or a restart.                    *)
(***************************************************************************)
WakeHeard ==
    \A s \in Known : PendingWakes(s) # {} => Busy(s) \/ s \in poked \/ phase = "repair"

(***************************************************************************)
(* A result is reported only for a turn that completed: not for one that   *)
(* failed, was cancelled or was interrupted by a crash.                    *)
(***************************************************************************)
ResultHonest ==
    \A i \in DOMAIN mail :
        mail[i].settledBy # None /\ mail[mail[i].settledBy].kind = "result" =>
            turns[mail[i].dst][mail[i].settlingTurn] = "completed"

(***************************************************************************)
(* "each claimed ... message ... receives one derived from the outcome"    *)
(* (subagents-and-session-graphs.md): the reply to a message tells how the *)
(* turn that claimed it, or a later one, ended, not an earlier one.        *)
(***************************************************************************)
SettledByItsWork ==
    \A i \in DOMAIN mail : mail[i].settledBy # None => mail[i].settlingTurn >= mail[i].turn

(* Inside the limits of the lineage every claimed instruction is settled at  *)
(* most once, and a result is sent only for work that completed, also when   *)
(* repair sends it.                                                          *)
ObligationsSettled == RelatedTypeOK /\ LineageBounded /\ OneSettlement /\ ResultHonest
=============================================================================
