---------------------------- MODULE TurnSettings ----------------------------
(***************************************************************************)
(* The settings (connection, model, tool mode) of one session and the      *)
(* revision every piece of work runs under.  A revision is an immutable    *)
(* snapshot; the store allocates the next one inside the transaction that  *)
(* records the update.  Direct messages, steers, queued messages, wakes    *)
(* and resumed approvals each take their revision in their own way, most   *)
(* of them outside the transaction that uses it, while operators update    *)
(* the settings and the process restarts with another configuration.       *)
(* Budgets, cancels and branches are the business of SessionStore.         *)
(***************************************************************************)
EXTENDS Naturals, Sequences, SequencesExt, FiniteSets

CONSTANTS
    Configurations, \* the [connection -> default model] a start may find
    FirstSettings,  \* the settings a session is created with
    Patches,        \* the partial updates operators send
    Senders,        \* concurrent requests that send a message or a steer
    Patchers,       \* concurrent requests that update the settings
    Keep,           \* a field an update leaves alone
    Default,        \* model_id None: the connection's default model
    MaxRetries,     \* the tries of an admission or a wake (8 in the code)
    MaxRevisions,   \* bound on the settings revisions
    MaxStarts,      \* bound on the turns started
    MaxRequested,   \* bound on messages and steers sent
    MaxWakes,       \* bound on related-session messages received
    MaxRestarts     \* bound on restarts

ASSUME SettingsAssumption ==
    /\ MaxRetries \in Nat \ {0} /\ MaxRevisions \in Nat \ {0}
    /\ {MaxStarts, MaxRequested, MaxWakes, MaxRestarts} \subseteq Nat
    /\ \E c \in Configurations : FirstSettings.conn \in DOMAIN c

VARIABLES
    revisions, \* session_settings_revision_projection, with the patch of each
    configured,\* the connections of the running process
    started,   \* turn.started, in order, with what the turn then ran with
    turnNow,   \* the active turn, 0 if none
    asleep,    \* the turn that waits for an approval, 0 if none
    waiting,   \* queued messages: [rev, due]
    steering,  \* pending steers: the revision each captured
    mailbox,   \* related-session messages that wait for a turn
    sender, patcher, waker, resumer, worker, \* requests and tasks
    settingsUsed \* what the bounds count

settingsVars == <<revisions, configured, started, turnNow, asleep, waiting, steering,
                  mailbox, sender, patcher, waker, resumer, worker, settingsUsed>>

Current == Len(revisions)
Bare(s) == [conn |-> s.conn, model |-> s.model, mode |-> s.mode]
AtRest == [pc |-> "idle", rev |-> 0, conn |-> Keep, model |-> Keep, tries |-> 0]
Resting == [pc |-> "idle", steers |-> <<>>, head |-> 0, conn |-> Keep, model |-> Keep]
Untouched == [conn |-> Keep, model |-> Keep, mode |-> Keep]

-----------------------------------------------------------------------------
(* Revisions.                                                              *)

(* load_session_settings_revision and load_session_settings_snapshot. *)
SettingsSnapshot(r) == Bare(revisions[r])

(* Mutant of SessionForRevision: the session row as it is now. *)
SessionForCurrent(r) == SettingsSnapshot(Current)

(* session_for_settings_revision, which the tool mode is taken from. *)
SessionForRevision(r) == SettingsSnapshot(r)

(* ConnectionRegistry::get for the connection of a revision. *)
IsConfigured(r) == SettingsSnapshot(r).conn \in DOMAIN configured

(* resolve_turn_settings. *)
ResolveTurnSettings(r) ==
    LET s == SettingsSnapshot(r)
    IN [conn |-> s.conn, model |-> IF s.model = Default THEN configured[s.conn] ELSE s.model]

(* settings_revision_for_turn. *)
SettingsRevisionForTurn(t) == started[t].rev

Chosen(field, old) == IF field = Keep THEN old ELSE field

(* The next revision: the fields the request names, the others from a base. *)
PatchedFrom(base, p) ==
    [conn |-> Chosen(p.conn, base.conn), model |-> Chosen(p.model, base.model),
     mode |-> Chosen(p.mode, base.mode), patch |-> p]

(* Mutant of NextRevision: the fields come from the row the request read before the lock. *)
NextRevisionEarly(u) == PatchedFrom(SettingsSnapshot(patcher[u].rev), patcher[u].patch)

(* commit_session_settings_update: the base is read in the transaction. *)
NextRevision(u) == PatchedFrom(SettingsSnapshot(Current), patcher[u].patch)

(* update_session: what ensure_connection_configured looks at is read       *)
(* before the transaction.                                                 *)
UpdateValidate(u, p) ==
    /\ patcher[u].pc = "idle" /\ Current < MaxRevisions
    /\ LET target == Chosen(p.conn, SettingsSnapshot(Current).conn)
       IN target \in DOMAIN configured
    /\ patcher' = [patcher EXCEPT ![u] = [pc |-> "commit", rev |-> Current, patch |-> p]]
    /\ UNCHANGED <<revisions, configured, started, turnNow, asleep, waiting, steering,
                   mailbox, sender, waker, resumer, worker, settingsUsed>>

(* commit_session_settings_update and the settings projection. *)
UpdateCommit(u) ==
    /\ patcher[u].pc = "commit" /\ Current < MaxRevisions
    /\ revisions' = Append(revisions, NextRevision(u))
    /\ patcher' = [patcher EXCEPT ![u] = [pc |-> "idle", rev |-> 0, patch |-> Untouched]]
    /\ UNCHANGED <<configured, started, turnNow, asleep, waiting, steering, mailbox,
                   sender, waker, resumer, worker, settingsUsed>>

-----------------------------------------------------------------------------
(* Starting a turn.                                                        *)

(* session_has_pending_work_in_tx. *)
SessionBusy == turnNow # 0 \/ asleep # 0 \/ waiting # <<>> \/ steering # <<>>

(* turn.started: the revision and what it resolved to.  "due" remembers the *)
(* revision the work is owed, "ran" what the provider is later called with.*)
TurnStarted(source, r, s, due) ==
    /\ Len(started) < MaxStarts
    /\ started' = Append(started,
         [source |-> source, rev |-> r, conn |-> s.conn, model |-> s.model,
          due |-> due, ran |-> Untouched])
    /\ turnNow' = Len(started) + 1

(* The worker a started turn is given.  A worker that is still consuming    *)
(* the controls of an earlier turn makes way: its claim could only be Busy. *)
Detached == [Resting EXCEPT !.pc = "preflight"]

-----------------------------------------------------------------------------
(* Direct messages: admit_user_message.                                    *)

(* require_session in the handler. *)
AdmitRead(c) ==
    /\ sender[c].pc = "idle" /\ settingsUsed.requests < MaxRequested
    /\ sender' = [sender EXCEPT ![c] = [AtRest EXCEPT !.pc = "resolve", !.rev = Current]]
    /\ settingsUsed' = [settingsUsed EXCEPT !.requests = @ + 1]
    /\ UNCHANGED <<revisions, configured, started, turnNow, asleep, waiting, steering,
                   mailbox, patcher, waker, resumer, worker>>

(* One try: the snapshot is resolved outside the transaction. *)
AdmitResolve(c) ==
    /\ sender[c].pc = "resolve"
    /\ sender' = [sender EXCEPT ![c] =
         IF IsConfigured(@.rev)
         THEN LET s == ResolveTurnSettings(@.rev)
              IN [@ EXCEPT !.pc = "commit", !.conn = s.conn, !.model = s.model]
         ELSE AtRest]
    /\ UNCHANGED <<revisions, configured, started, turnNow, asleep, waiting, steering,
                   mailbox, patcher, waker, resumer, worker, settingsUsed>>

(* admit_turn_or_queue: the revision it was prepared for is still current. *)
AdmissionFresh(r) == r = Current

(* The for loop of admit_user_message (and MAX_STALE_RETRIES of the wakes). *)
TriesLeft(n) == n + 1 < MaxRetries

AdmitStart(c) ==
    /\ sender[c].pc = "commit" /\ AdmissionFresh(sender[c].rev)
    /\ ~SessionBusy
    /\ TurnStarted("message", sender[c].rev, sender[c], Current)
    /\ worker' = Detached
    /\ sender' = [sender EXCEPT ![c] = AtRest]
    /\ UNCHANGED <<revisions, configured, asleep, waiting, steering, mailbox, patcher,
                   waker, resumer, settingsUsed>>

AdmitQueue(c) ==
    /\ sender[c].pc = "commit" /\ AdmissionFresh(sender[c].rev)
    /\ SessionBusy
    /\ waiting' = Append(waiting, [rev |-> sender[c].rev, due |-> Current])
    /\ sender' = [sender EXCEPT ![c] = AtRest]
    /\ UNCHANGED <<revisions, configured, started, turnNow, asleep, steering, mailbox,
                   patcher, waker, resumer, worker, settingsUsed>>

(* RetryWithSettings, and the error after the last try. *)
AdmitRetry(c) ==
    /\ sender[c].pc = "commit" /\ ~AdmissionFresh(sender[c].rev)
    /\ sender' = [sender EXCEPT ![c] =
         IF TriesLeft(@.tries)
         THEN [AtRest EXCEPT !.pc = "resolve", !.rev = Current, !.tries = sender[c].tries + 1]
         ELSE AtRest]
    /\ UNCHANGED <<revisions, configured, started, turnNow, asleep, waiting, steering,
                   mailbox, patcher, waker, resumer, worker, settingsUsed>>

-----------------------------------------------------------------------------
(* Steers: steer_session.                                                  *)

SteerRead(c) ==
    /\ sender[c].pc = "idle" /\ settingsUsed.requests < MaxRequested
    /\ sender' = [sender EXCEPT ![c] = [AtRest EXCEPT !.pc = "steer", !.rev = Current]]
    /\ settingsUsed' = [settingsUsed EXCEPT !.requests = @ + 1]
    /\ UNCHANGED <<revisions, configured, started, turnNow, asleep, waiting, steering,
                   mailbox, patcher, waker, resumer, worker>>

(* The append checks the branch of the active turn, never the revision. *)
SteerCommit(c) ==
    /\ sender[c].pc = "steer"
    /\ steering' = Append(steering, sender[c].rev)
    /\ sender' = [sender EXCEPT ![c] = AtRest]
    /\ UNCHANGED <<revisions, configured, started, turnNow, asleep, waiting, mailbox,
                   patcher, waker, resumer, worker, settingsUsed>>

-----------------------------------------------------------------------------
(* The turn's worker: run_session_turns.                                   *)

(* The preflight loads the settings again, for the turn's revision; when    *)
(* its connection is not configured the turn fails and the worker stops.   *)
Preflight ==
    /\ worker.pc = "preflight"
    /\ LET r == started[turnNow].rev
       IN \/ /\ IsConfigured(r)
             /\ LET s == ResolveTurnSettings(r)
                IN started' = [started EXCEPT ![turnNow].ran =
                     [conn |-> s.conn, model |-> s.model, mode |-> SessionForRevision(r).mode]]
             /\ worker' = [Resting EXCEPT !.pc = "running"]
             /\ UNCHANGED turnNow
          \/ /\ ~IsConfigured(r)
             /\ turnNow' = 0 /\ worker' = Resting
             /\ UNCHANGED started
    /\ UNCHANGED <<revisions, configured, asleep, waiting, steering, mailbox, sender,
                   patcher, waker, resumer, settingsUsed>>

(* The turn asks for an approval and ends, to be resumed. *)
Pause ==
    /\ worker.pc = "running"
    /\ asleep' = turnNow /\ turnNow' = 0 /\ worker' = Resting
    /\ UNCHANGED <<revisions, configured, started, waiting, steering, mailbox, sender,
                   patcher, waker, resumer, settingsUsed>>

(* The turn ends; consume_post_turn_controls reads the steers ... *)
Finish ==
    /\ worker.pc = "running"
    /\ turnNow' = 0 /\ worker' = [Resting EXCEPT !.pc = "steers"]
    /\ UNCHANGED <<revisions, configured, started, asleep, waiting, steering, mailbox,
                   sender, patcher, waker, resumer, settingsUsed>>

(* ... resolves the last one's revision (an error ends the worker), ...     *)
ReadSteers ==
    /\ worker.pc = "steers"
    /\ worker' =
         IF steering = <<>> THEN [Resting EXCEPT !.pc = "queue"]
         ELSE IF IsConfigured(Last(steering))
         THEN LET s == ResolveTurnSettings(Last(steering))
              IN [Resting EXCEPT !.pc = "claimSteers", !.steers = steering,
                                 !.conn = s.conn, !.model = s.model]
         ELSE Resting
    /\ UNCHANGED <<revisions, configured, started, turnNow, asleep, waiting, steering,
                   mailbox, sender, patcher, waker, resumer, settingsUsed>>

(* ... and claims exactly the steers it read. *)
ClaimSteers ==
    /\ worker.pc = "claimSteers"
    /\ steering = worker.steers /\ turnNow = 0
    /\ TurnStarted("steer", Last(worker.steers), worker, Last(worker.steers))
    /\ steering' = <<>> /\ worker' = Detached
    /\ UNCHANGED <<revisions, configured, asleep, waiting, mailbox, sender, patcher, waker,
                   resumer, settingsUsed>>

ClaimSteersStale ==
    /\ worker.pc = "claimSteers" /\ steering # worker.steers
    /\ worker' = [Resting EXCEPT !.pc = "queue"]
    /\ UNCHANGED <<revisions, configured, started, turnNow, asleep, waiting, steering,
                   mailbox, sender, patcher, waker, resumer, settingsUsed>>

(* Then the head of the queue: dispatch_next_queued_message. *)
ReadQueue ==
    /\ worker.pc = "queue"
    /\ worker' =
         IF waiting = <<>> \/ ~IsConfigured(Head(waiting).rev) THEN Resting
         ELSE LET s == ResolveTurnSettings(Head(waiting).rev)
              IN [Resting EXCEPT !.pc = "claimQueue", !.head = Head(waiting).rev,
                                 !.conn = s.conn, !.model = s.model]
    /\ UNCHANGED <<revisions, configured, started, turnNow, asleep, waiting, steering,
                   mailbox, sender, patcher, waker, resumer, settingsUsed>>

(* The revision the dispatched turn starts under. *)
QueuedRevision(head) == head

ClaimQueue ==
    /\ worker.pc = "claimQueue" /\ turnNow = 0
    /\ TurnStarted("queued", QueuedRevision(worker.head), worker, Head(waiting).due)
    /\ waiting' = Tail(waiting) /\ worker' = Detached
    /\ UNCHANGED <<revisions, configured, asleep, steering, mailbox, sender, patcher, waker,
                   resumer, settingsUsed>>

-----------------------------------------------------------------------------
(* Resumed approvals: resumable_tool_call, bootstrap_resumed_approval_turn. *)

ResumeRead ==
    /\ asleep # 0 /\ resumer.pc = "idle"
    /\ LET r == SettingsRevisionForTurn(asleep)
       IN /\ IsConfigured(r)
          /\ LET s == ResolveTurnSettings(r)
             IN resumer' = [AtRest EXCEPT !.pc = "commit", !.rev = r,
                                          !.conn = s.conn, !.model = s.model]
    /\ UNCHANGED <<revisions, configured, started, turnNow, asleep, waiting, steering,
                   mailbox, sender, patcher, waker, worker, settingsUsed>>

(* claim_resumed_continuation; the pending steers are folded into the turn. *)
ResumeCommit ==
    /\ resumer.pc = "commit" /\ turnNow = 0 /\ asleep # 0
    /\ TurnStarted("resumed", resumer.rev, resumer, started[asleep].due)
    /\ asleep' = 0 /\ steering' = <<>>
    /\ resumer' = AtRest /\ worker' = Detached
    /\ UNCHANGED <<revisions, configured, waiting, mailbox, sender, patcher, waker,
                   settingsUsed>>

-----------------------------------------------------------------------------
(* Wakes: claim_next_related_session_message.                              *)

ReceiveWake ==
    /\ settingsUsed.wakes < MaxWakes
    /\ mailbox' = mailbox + 1
    /\ settingsUsed' = [settingsUsed EXCEPT !.wakes = @ + 1]
    /\ UNCHANGED <<revisions, configured, started, turnNow, asleep, waiting, steering,
                   sender, patcher, waker, resumer, worker>>

(* One try reads the session and resolves its settings. *)
WakeRead ==
    /\ waker.pc = "idle" /\ mailbox > 0 /\ IsConfigured(Current)
    /\ LET s == ResolveTurnSettings(Current)
       IN waker' = [waker EXCEPT !.pc = "commit", !.rev = Current,
                                 !.conn = s.conn, !.model = s.model]
    /\ UNCHANGED <<revisions, configured, started, turnNow, asleep, waiting, steering,
                   mailbox, sender, patcher, resumer, worker, settingsUsed>>

(* claim_related_message_continuation. *)
WakeStart ==
    /\ waker.pc = "commit" /\ ~SessionBusy /\ AdmissionFresh(waker.rev)
    /\ TurnStarted("wake", waker.rev, waker, Current)
    /\ mailbox' = mailbox - 1 /\ worker' = Detached /\ waker' = AtRest
    /\ UNCHANGED <<revisions, configured, asleep, waiting, steering, sender, patcher,
                   resumer, settingsUsed>>

(* Busy gives up, a stale revision tries again, up to MaxRetries times. *)
WakeAgain ==
    /\ waker.pc = "commit" /\ (SessionBusy \/ ~AdmissionFresh(waker.rev))
    /\ waker' = IF SessionBusy \/ ~TriesLeft(waker.tries) THEN AtRest
                ELSE [AtRest EXCEPT !.tries = waker.tries + 1]
    /\ UNCHANGED <<revisions, configured, started, turnNow, asleep, waiting, steering,
                   mailbox, sender, patcher, resumer, worker, settingsUsed>>

-----------------------------------------------------------------------------

(* The process ends and starts with another configuration; recovery closes  *)
(* the active turn, everything a request held is gone.                      *)
Restart(c) ==
    /\ settingsUsed.restarts < MaxRestarts
    /\ configured' = c
    /\ turnNow' = 0 /\ worker' = Resting /\ waker' = AtRest /\ resumer' = AtRest
    /\ sender' = [x \in Senders |-> AtRest]
    /\ patcher' = [u \in Patchers |-> [pc |-> "idle", rev |-> 0, patch |-> Untouched]]
    /\ settingsUsed' = [settingsUsed EXCEPT !.restarts = @ + 1]
    /\ UNCHANGED <<revisions, started, asleep, waiting, steering, mailbox>>

SettingsInit ==
    /\ revisions = <<[conn |-> FirstSettings.conn, model |-> FirstSettings.model,
                      mode |-> FirstSettings.mode, patch |-> FirstSettings]>>
    /\ configured \in {c \in Configurations : FirstSettings.conn \in DOMAIN c}
    /\ started = <<>> /\ turnNow = 0 /\ asleep = 0
    /\ waiting = <<>> /\ steering = <<>> /\ mailbox = 0
    /\ sender = [c \in Senders |-> AtRest]
    /\ patcher = [u \in Patchers |-> [pc |-> "idle", rev |-> 0, patch |-> Untouched]]
    /\ waker = AtRest /\ resumer = AtRest /\ worker = Resting
    /\ settingsUsed = [requests |-> 0, wakes |-> 0, restarts |-> 0]

SettingsNext ==
    \/ \E u \in Patchers : UpdateCommit(u) \/ \E p \in Patches : UpdateValidate(u, p)
    \/ \E c \in Senders :
         \/ AdmitRead(c) \/ AdmitResolve(c) \/ AdmitStart(c) \/ AdmitQueue(c)
         \/ AdmitRetry(c) \/ SteerRead(c) \/ SteerCommit(c)
    \/ Preflight \/ Pause \/ Finish
    \/ ReadSteers \/ ClaimSteers \/ ClaimSteersStale \/ ReadQueue \/ ClaimQueue
    \/ ResumeRead \/ ResumeCommit
    \/ ReceiveWake \/ WakeRead \/ WakeStart \/ WakeAgain
    \/ \E c \in Configurations : Restart(c)

SettingsSpec == SettingsInit /\ [][SettingsNext]_settingsVars

-----------------------------------------------------------------------------
(* Properties.                                                             *)

(* Revisions that are referred to exist: by turns, queue, steers, requests. *)
SettingsTypeOK ==
    /\ configured \in Configurations
    /\ \A i \in DOMAIN started : started[i].rev \in 1..Current
    /\ \A i \in DOMAIN waiting : waiting[i].rev \in 1..Current
    /\ \A i \in DOMAIN steering : steering[i] \in 1..Current
    /\ turnNow \in 0..Len(started) /\ asleep \in 0..Len(started)
    /\ mailbox \in 0..MaxWakes
    /\ \A c \in Senders : /\ sender[c].rev \in 0..Current
                          /\ sender[c].tries \in 0..(MaxRetries - 1)
    /\ waker.tries \in 0..(MaxRetries - 1)
    /\ worker.pc \in {"idle", "preflight", "running", "steers", "claimSteers", "queue",
                      "claimQueue"}
    /\ (turnNow # 0) <=> (worker.pc \in {"preflight", "running"})

(* commit_session_settings_update: two operators who change different       *)
(* fields at the same time both get their change; a revision differs from   *)
(* the one before it in the fields of its own request only.                 *)
UpdatesKept ==
    \A i \in 2..Current :
        LET p == revisions[i].patch
        IN Bare(revisions[i]) = Bare(PatchedFrom(revisions[i - 1], p))

(* The contract of docs/subsystems/session-runtime-and-agent.md: a direct   *)
(* message and a wake run under the revision that is current when their     *)
(* turn starts, a queued message under the one current when it was queued,  *)
(* a resumed turn under the one of the turn that paused.                    *)
RightRevision == \A i \in DOMAIN started : started[i].rev = started[i].due

(* What turn.started records (provider and model) is what the worker then   *)
(* calls, with the tool mode of the same revision, though the record and    *)
(* the call resolve the settings separately and updates come in between.    *)
RunsAsRecorded ==
    \A i \in DOMAIN started :
        LET t == started[i]
        IN t.ran # Untouched =>
             /\ t.ran.conn = t.conn /\ t.ran.model = t.model
             /\ t.conn = SettingsSnapshot(t.rev).conn
             /\ t.ran.mode = SettingsSnapshot(t.rev).mode

(* Not true, see the README: a follow-up turn for steers runs under         *)
(* settings at least as new as those of the turn it follows.                *)
SteersNotOlder ==
    \A i \in DOMAIN steering : \A j \in DOMAIN steering :
        i < j => steering[i] <= steering[j]

(* Not true, see the README: a revision that names a model has a connection *)
(* that some operator chose it for.                                         *)
ModelChosenForConnection ==
    \A i \in DOMAIN revisions : revisions[i].model = Default \/
        \E j \in DOMAIN revisions : /\ revisions[j].patch.model = revisions[i].model
                                    /\ revisions[j].conn = revisions[i].conn

(* Direct, queued, waking and resumed work starts under the revision its     *)
(* kind is entitled to, and the worker runs with the settings of the         *)
(* revision that was recorded, also after a restart.                         *)
WorkHasItsRevision == SettingsTypeOK /\ RightRevision /\ RunsAsRecorded
=============================================================================
