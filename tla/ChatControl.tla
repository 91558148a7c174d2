----------------------------- MODULE ChatControl -----------------------------
(***************************************************************************)
(* The terminal client's control plane (bt-tui command_actions, pending.rs,*)
(* session_control.rs, background_tasks.rs): slash commands and key        *)
(* bindings queue client calls on a serial chain of tasks that captured    *)
(* the session and branch of the moment they were issued, while messages,  *)
(* approvals and session loads run beside them. The event loop polls each  *)
(* and applies what it finds to the session shown.                         *)
(*                                                                         *)
(* A session has numbered branches and a branch is <<session, number>>. A  *)
(* command is its remaining requests to the server; a read that a write    *)
(* follows is left out. A task is aborted between two of its awaits, so the*)
(* request it was waiting for may still reach the server: it is adrift.    *)
(***************************************************************************)
EXTENDS Integers, Sequences, FiniteSets, SequencesExt

CONSTANTS
    FirstSessions,     \* the sessions that exist when the client opens
    NewSessions,       \* those /new may create
    NoSession,
    SlashCommands,     \* among the kinds below
    Keys,
    MaxCommands, MaxSends, MaxLoads

AllSessions == FirstSessions \cup NewSessions
SlashKinds == {"render", "settings", "refresh", "new", "resume", "branch",
               "cancel", "detach", "steer", "approve", "clear"}
KeyKinds == {"refresh", "cancel", "approve", "cycle_branch", "cycle_session", "new", "branch"}

ASSUME ChatAssumption ==
    /\ FirstSessions # {} /\ FirstSessions \cap NewSessions = {}
    /\ NoSession \notin AllSessions
    /\ SlashCommands \subseteq SlashKinds /\ Keys \subseteq KeyKinds
    /\ {MaxCommands, MaxSends, MaxLoads} \subseteq Nat

VARIABLES
    chat,          \* the session and branch shown, and the live turn
    inspection,    \* what the cached queue inspection says the session does
    commands,      \* pending_commands
    sending,       \* pending_send
    submissions,   \* pending_message_submissions
    approving,     \* pending_approval and its context
    loading,       \* pending_session_load
    server,        \* existing sessions, their branches and the active one
    adrift,        \* requests of aborted tasks that are still on the wire
    served,        \* by visit, the last command of which a write was carried out
    strays,        \* kinds of completion applied to another session than theirs
    issued, sends, loads

chatVars == <<chat, inspection, commands, sending, submissions, approving, loading,
              server, adrift, served, strays, issued, sends, loads>>

NoSend == [session |-> NoSession, shell |-> FALSE]
NoApproval == [session |-> NoSession, context |-> FALSE]
Visits == 1 .. 1 + MaxLoads + Cardinality(NewSessions)

-----------------------------------------------------------------------------
(* What the client asks of itself before it accepts an input.               *)

HasPendingRequest == sending # NoSend \/ approving # NoApproval
RuntimeBusy == inspection # "idle"
TurnIsBusy == HasPendingRequest \/ RuntimeBusy
AllowedDuringRequest == {"render", "cancel", "detach", "steer", "approve", "clear"}

MaySlash(kind) ==
    /\ kind \in SlashCommands
    /\ loading = NoSession
    /\ TurnIsBusy => kind \in AllowedDuringRequest

MayPress(kind) == kind \in Keys

(* How an input arrives: typed, to be recorded, or by a key binding. *)
Arrives(kind, slash) == chat.open /\ IF slash THEN MaySlash(kind) ELSE MayPress(kind)

-----------------------------------------------------------------------------
(* The queue.                                                               *)

(* record_slash_command: the last request of a command that was typed. *)
Recorded(slash) == IF slash THEN <<"write">> ELSE <<>>

(* The outcomes that only change caches or show a notice are one, "quiet". *)
Command(outcome, target, todo) ==
    [id |-> issued + 1, outcome |-> outcome, session |-> chat.session,
     visit |-> chat.visit, target |-> target, todo |-> todo, failed |-> FALSE]

Enqueue(outcome, target, todo) ==
    /\ issued < MaxCommands
    /\ commands' = Append(commands, Command(outcome, target, todo))
    /\ issued' = issued + 1

(* enqueue_command_feedback: a refusal of a typed command is recorded too. *)
Feedback(slash) ==
    IF slash THEN Enqueue("quiet", chat.branch, <<"write">>)
    ELSE UNCHANGED <<commands, issued>>

Input == UNCHANGED <<chat, inspection, submissions, server, adrift, served, strays, sends, loads>>

Render ==
    /\ Arrives("render", TRUE)
    /\ Enqueue("quiet", chat.branch, <<"write">>)
    /\ Input /\ UNCHANGED <<sending, approving, loading>>

Settings ==
    /\ Arrives("settings", TRUE)
    /\ Enqueue("quiet", chat.branch, <<"write">>)
    /\ Input /\ UNCHANGED <<sending, approving, loading>>

Refresh(slash) ==
    /\ Arrives("refresh", slash)
    /\ Enqueue("quiet", chat.branch, IF slash THEN <<"write">> ELSE <<"read">>)
    /\ Input /\ UNCHANGED <<sending, approving, loading>>

NewSession(slash) ==
    /\ Arrives("new", slash)
    /\ Enqueue("new", chat.branch, <<"create_session">>)
    /\ Input /\ UNCHANGED <<sending, approving, loading>>

NewBranch(slash) ==
    /\ Arrives("branch", slash)
    /\ Enqueue("branch", chat.branch, <<"create_branch">> \o Recorded(slash))
    /\ Input /\ UNCHANGED <<sending, approving, loading>>

NextBranch(n, known, step) == ((n - 1 + step + known) % known) + 1

(* The branch to go to is counted from the one shown when the key was hit. *)
CycleBranch(step) ==
    /\ Arrives("cycle_branch", FALSE)
    /\ Enqueue("branch",
               <<chat.session, NextBranch(chat.branch[2], chat.known, step)>>, <<"activate">>)
    /\ Input /\ UNCHANGED <<sending, approving, loading>>

CycleSession ==
    /\ Arrives("cycle_session", FALSE)
    /\ \E s \in server.exist \ {chat.session} :
           Enqueue("resume", <<s, 1>>, <<"read">>)
    /\ Input /\ UNCHANGED <<sending, approving, loading>>

CancelActive(slash) ==
    /\ Arrives("cancel", slash)
    /\ IF sending = NoSend /\ ~RuntimeBusy THEN Feedback(slash)
       ELSE Enqueue("cancel", chat.branch, <<"write">> \o Recorded(slash))
    /\ Input /\ UNCHANGED <<sending, approving, loading>>

SteerActive ==
    /\ Arrives("steer", TRUE)
    /\ IF sending = NoSend /\ ~RuntimeBusy THEN Feedback(TRUE)
       ELSE Enqueue("quiet", chat.branch, <<"write", "write">>)
    /\ Input /\ UNCHANGED <<sending, approving, loading>>

ClearQueue ==
    /\ Arrives("clear", TRUE)
    /\ submissions' = <<>>
    /\ Enqueue("quiet", chat.branch, <<"write", "write">>)
    /\ UNCHANGED <<chat, inspection, sending, approving, loading, server, adrift,
                   served, strays, sends, loads>>

DetachChat ==
    /\ Arrives("detach", TRUE)
    /\ Enqueue("detach", chat.branch, <<"write">>)
    /\ Input /\ UNCHANGED <<sending, approving, loading>>

(* start_resolve_last_pending: the approval runs beside the queue, its      *)
(* feedback in it.                                                          *)
Approve(slash) ==
    /\ Arrives("approve", slash)
    /\ Feedback(slash)
    /\ approving' = IF approving = NoApproval /\ inspection = "approval"
                    THEN [session |-> chat.session, context |-> TRUE] ELSE approving
    /\ Input /\ UNCHANGED <<sending, loading>>

-----------------------------------------------------------------------------
(* Messages.                                                                *)

Message ==
    UNCHANGED <<inspection, commands, approving, loading, server, adrift, served,
                strays, issued, loads>>

StartSend(shell) ==
    /\ sending' = [session |-> chat.session, shell |-> shell]
    /\ chat' = [chat EXCEPT !.live = @ \/ ~shell]
    /\ UNCHANGED submissions

(* start_background_message_submission *)
Submit ==
    /\ submissions' = Append(submissions, chat.session)
    /\ UNCHANGED <<chat, sending>>

AnswerInput ==
    /\ chat.open /\ loading = NoSession /\ sends < MaxSends
    /\ inspection = "input" /\ sending = NoSend
    /\ StartSend(FALSE)
    /\ sends' = sends + 1
    /\ Message

ShellCommand ==
    /\ chat.open /\ loading = NoSession /\ sends < MaxSends
    /\ ~TurnIsBusy
    /\ StartSend(TRUE)
    /\ sends' = sends + 1
    /\ Message

SendText ==
    /\ chat.open /\ loading = NoSession /\ sends < MaxSends
    /\ inspection # "input" /\ ~sending.shell
    /\ IF TurnIsBusy \/ chat.live THEN Submit ELSE StartSend(FALSE)
    /\ sends' = sends + 1
    /\ Message

-----------------------------------------------------------------------------
(* The tasks. A command waits for the one before it, and its requests are   *)
(* carried out, carried out with the answer lost, or not at all.            *)

Finished(c) == c.failed \/ c.todo = <<>>

(* Mutant of MayRun: no command waits for another. *)
MayRunAnytime(i) == TRUE
MayRun(i) == \A j \in 1 .. i - 1 : Finished(commands[j])

Written(c) == [served EXCEPT ![c.visit] = c.id]

(* What the server makes of a request, and the branch or session it answers. *)
Perform(what, c) ==
    CASE what = "create_branch" ->
             LET n == server.branches[c.session] + 1 IN
             server' = [server EXCEPT !.branches[c.session] = n, !.active[c.session] = n]
      [] what = "activate" ->
             server' = [server EXCEPT !.active[c.session] = c.target[2]]
      [] what = "create_session" ->
             \E s \in NewSessions \ server.exist : server' = [server EXCEPT !.exist = @ \cup {s}]
      [] OTHER -> server' = server

Answer(what, c) ==
    CASE what = "create_branch" -> <<c.session, server'.branches[c.session]>>
      [] what = "create_session" -> <<CHOOSE s \in server'.exist \ server.exist : TRUE, 1>>
      [] OTHER -> c.target

RunCommand ==
    /\ chat.open
    /\ \E i \in DOMAIN commands :
           LET c == commands[i] IN
           /\ ~Finished(c) /\ MayRun(i)
           /\ LET what == Head(c.todo) IN
              \/ /\ Perform(what, c)
                 /\ served' = IF what = "read" THEN served ELSE Written(c)
                 /\ \E answered \in BOOLEAN :
                        commands' = [commands EXCEPT ![i].todo = Tail(@), ![i].failed = ~answered,
                                                     ![i].target = Answer(what, c)]
              \/ /\ commands' = [commands EXCEPT ![i].failed = TRUE]
                 /\ UNCHANGED <<server, served>>
    /\ UNCHANGED <<chat, inspection, sending, submissions, approving, loading, adrift,
                   strays, issued, sends, loads>>

(* A request whose task was aborted arrives after all, or never. *)
Drifts ==
    \E c \in adrift :
        /\ adrift' = adrift \ {c}
        /\ \/ /\ Perform(Head(c.todo), c)
              /\ served' = Written(c)
           \/ UNCHANGED <<server, served>>
    /\ UNCHANGED <<chat, inspection, commands, sending, submissions, approving, loading,
                   strays, issued, sends, loads>>

-----------------------------------------------------------------------------
(* Switching sessions.                                                      *)

(* The request of the command that was running when the queue was aborted. *)
Aborted(queue) ==
    {queue[i] : i \in {i \in DOMAIN queue :
        /\ ~Finished(queue[i]) /\ Head(queue[i].todo) # "read"
        /\ \A j \in 1 .. i - 1 : Finished(queue[j])}}

(* What refresh_metadata and load_session_state read of a session. *)
KnownBranches(s) == server.branches[s]
LoadedBranch(s) == <<s, server.active[s]>>

ResetView(s, branch) ==
    [session |-> s, branch |-> branch, known |-> KnownBranches(s),
     visit |-> chat.visit + 1, live |-> FALSE, open |-> TRUE]

(* Mutant of PrepareSwitch: the queued commands stay. *)
PrepareSwitchKeeping(queue) ==
    /\ commands' = queue
    /\ adrift' = adrift
    /\ submissions' = <<>>
    /\ inspection' = "idle"
    /\ sending' = [sending EXCEPT !.shell = FALSE]
    /\ approving' = [approving EXCEPT !.context = FALSE]

PrepareSwitch(queue) ==
    /\ commands' = <<>>
    /\ adrift' = adrift \cup Aborted(queue)
    /\ submissions' = <<>>
    /\ inspection' = "idle"
    /\ sending' = [sending EXCEPT !.shell = FALSE]
    /\ approving' = [approving EXCEPT !.context = FALSE]

(* start_resume_session, with the commands that are pending. *)
StartResume(s, slash, queue) ==
    IF s = chat.session \/ loading # NoSession \/ HasPendingRequest \/ queue # <<>>
    THEN /\ IF slash THEN Feedback(slash) ELSE commands' = queue /\ UNCHANGED issued
         /\ UNCHANGED <<inspection, loading, loads>>
    ELSE /\ loads < MaxLoads
         /\ loading' = s
         /\ loads' = loads + 1
         /\ inspection' = "idle"
         /\ commands' = queue
         /\ UNCHANGED issued

Resume ==
    /\ Arrives("resume", TRUE)
    /\ \E s \in server.exist : StartResume(s, TRUE, commands)
    /\ UNCHANGED <<chat, sending, submissions, approving, server, adrift, served, strays, sends>>

(* apply_loaded_session: the branch that is active when the load reads it. *)
LoadCompletes ==
    /\ chat.open /\ loading # NoSession
    /\ PrepareSwitch(commands)
    /\ chat' = ResetView(loading, LoadedBranch(loading))
    /\ loading' = NoSession
    /\ UNCHANGED <<server, served, strays, issued, sends, loads>>

LoadFails ==
    /\ chat.open /\ loading # NoSession
    /\ loading' = NoSession
    /\ UNCHANGED <<chat, inspection, commands, sending, submissions, approving, server,
                   adrift, served, strays, issued, sends, loads>>

-----------------------------------------------------------------------------
(* Polling.                                                                 *)

Settle(what, of) == strays' = IF of = chat.session THEN strays ELSE strays \cup {what}

(* apply_command_outcome on the rest of the queue. *)
ApplyNew(c, rest) ==
    /\ PrepareSwitch(rest)
    /\ chat' = ResetView(c.target[1], c.target)
    /\ UNCHANGED <<loading, loads, issued>>

ApplyBranch(c, rest) ==
    /\ chat' = [chat EXCEPT !.branch = c.target, !.known = KnownBranches(chat.session)]
    /\ commands' = rest
    /\ UNCHANGED <<inspection, sending, submissions, approving, loading, adrift, loads, issued>>

ApplyCycle(c, rest) ==
    /\ StartResume(c.target[1], FALSE, rest)
    /\ UNCHANGED <<chat, sending, submissions, approving, adrift>>

(* clear_local_pending_turn_after_cancel *)
ApplyCancel(rest) ==
    /\ sending' = NoSend
    /\ submissions' = <<>>
    /\ chat' = [chat EXCEPT !.live = FALSE]
    /\ commands' = rest
    /\ UNCHANGED <<inspection, approving, loading, adrift, loads, issued>>

ApplyOther(c, rest) ==
    /\ chat' = [chat EXCEPT !.open = ~(c.outcome = "detach" /\ ~c.failed)]
    /\ commands' = rest
    /\ UNCHANGED <<inspection, sending, submissions, approving, loading, adrift, loads, issued>>

PollCommand ==
    /\ chat.open /\ commands # <<>> /\ Finished(Head(commands))
    /\ LET c == Head(commands) IN LET rest == Tail(commands) IN
       /\ Settle("command", c.session)
       /\ CASE c.failed -> ApplyOther(c, rest)
            [] ~c.failed /\ c.outcome = "new" -> ApplyNew(c, rest)
            [] ~c.failed /\ c.outcome = "branch" -> ApplyBranch(c, rest)
            [] ~c.failed /\ c.outcome = "resume" -> ApplyCycle(c, rest)
            [] ~c.failed /\ c.outcome = "cancel" -> ApplyCancel(rest)
            [] OTHER -> ApplyOther(c, rest)
    /\ UNCHANGED <<server, served, sends>>

(* poll_send_completion: a failure, a queued message and a shell command's  *)
(* end each clear the live turn; a dispatched message leaves it.            *)
PollSend ==
    /\ chat.open /\ sending # NoSend
    /\ Settle("send", sending.session)
    /\ \E cleared \in IF sending.shell THEN {TRUE} ELSE BOOLEAN :
           chat' = [chat EXCEPT !.live = @ /\ ~cleared]
    /\ sending' = NoSend
    /\ UNCHANGED <<inspection, commands, submissions, approving, loading, server, adrift,
                   served, issued, sends, loads>>

PollSubmission ==
    /\ chat.open
    /\ \E i \in DOMAIN submissions :
           /\ Settle("submission", submissions[i])
           /\ submissions' = RemoveAt(submissions, i)
    /\ UNCHANGED <<chat, inspection, commands, sending, approving, loading, server, adrift,
                   served, issued, sends, loads>>

PollApproval ==
    /\ chat.open /\ approving # NoApproval
    /\ Settle("approval", approving.session)
    /\ \E failed \in BOOLEAN : chat' = [chat EXCEPT !.live = @ /\ ~failed]
    /\ approving' = NoApproval
    /\ UNCHANGED <<inspection, commands, sending, submissions, loading, server, adrift,
                   served, issued, sends, loads>>

(* refresh_queue_cache: the server says what the session is doing. *)
Inspect ==
    /\ chat.open /\ loading = NoSession
    /\ inspection' \in {"idle", "working", "approval", "input"}
    /\ UNCHANGED <<chat, commands, sending, submissions, approving, loading, server, adrift,
                   served, strays, issued, sends, loads>>

(* The event stream of the session shown reports its turn's end. *)
TurnEnds ==
    /\ chat.open /\ chat.live
    /\ chat' = [chat EXCEPT !.live = FALSE]
    /\ UNCHANGED <<inspection, commands, sending, submissions, approving, loading, server,
                   adrift, served, strays, issued, sends, loads>>

-----------------------------------------------------------------------------
ChatInit ==
    /\ server = [exist |-> FirstSessions, branches |-> [s \in AllSessions |-> 1],
                 active |-> [s \in AllSessions |-> 1]]
    /\ chat = LET s == CHOOSE s \in FirstSessions : TRUE IN
              [session |-> s, branch |-> <<s, 1>>, known |-> 1, visit |-> 1,
               live |-> FALSE, open |-> TRUE]
    /\ inspection = "idle"
    /\ commands = <<>> /\ submissions = <<>> /\ adrift = {} /\ strays = {}
    /\ served = [v \in Visits |-> 0]
    /\ sending = NoSend /\ approving = NoApproval /\ loading = NoSession
    /\ issued = 0 /\ sends = 0 /\ loads = 0

Typed == Render \/ Settings \/ SteerActive \/ ClearQueue \/ DetachChat \/ Resume
Either(slash) ==
    Refresh(slash) \/ NewSession(slash) \/ NewBranch(slash) \/ CancelActive(slash) \/ Approve(slash)
Pressed == CycleSession \/ \E step \in {-1, 1} : CycleBranch(step)
Messages == AnswerInput \/ ShellCommand \/ SendText
Polled == LoadCompletes \/ LoadFails \/ PollCommand \/ PollSend \/ PollSubmission
          \/ PollApproval \/ Inspect \/ TurnEnds

ChatNext ==
    \/ Typed \/ Pressed \/ Messages \/ Polled
    \/ \E slash \in BOOLEAN : Either(slash)
    \/ RunCommand \/ Drifts

ChatSpec == ChatInit /\ [][ChatNext]_chatVars

-----------------------------------------------------------------------------
Branches == {<<s, n>> : s \in AllSessions, n \in 1 .. MaxCommands + 1}

(* The client shows a branch the server has, and the queue holds commands   *)
(* of existing sessions in the order they were issued (branch cycling       *)
(* wraps with rem_euclid, session_control.rs).                              *)
ChatTypeOK ==
    /\ chat.session \in server.exist /\ chat.branch \in Branches
    /\ chat.branch[2] \in 1 .. server.branches[chat.branch[1]]
    /\ chat.known \in 1 .. server.branches[chat.session]
    /\ {chat.live, chat.open} \subseteq BOOLEAN
    /\ inspection \in {"idle", "working", "approval", "input"}
    /\ \A i \in DOMAIN commands : /\ commands[i].session \in server.exist
                                  /\ commands[i].id \in 1 .. issued
                                  /\ i > 1 => commands[i - 1].id < commands[i].id
    /\ \A c \in adrift : c.todo # <<>>
    /\ sending.session \in AllSessions \cup {NoSession}
    /\ approving.session \in AllSessions \cup {NoSession}
    /\ loading \in server.exist \cup {NoSession}
    /\ ToSet(submissions) \subseteq server.exist

(* Of the commands issued during one visit to a session the server carries  *)
(* out the writes in the order they were issued, also when an answer is     *)
(* lost, a switch aborts the queue and an aborted request arrives later     *)
(* (enqueue_pending_command: each task waits for the one before it).        *)
SerialOrder == [][\A v \in Visits : served[v] <= served'[v]]_chatVars

(* What a command or a queued message answers is applied to the session it  *)
(* was issued in, and the branch shown belongs to the session shown,        *)
(* whatever switches happened in between (prepare_for_session_switch).      *)
OutcomeOwn ==
    /\ strays \cap {"command", "submission"} = {}
    /\ chat.branch[1] = chat.session

(* While a session is loading no message of the session it replaces is      *)
(* being sent in the foreground: resuming waits for one, and one waits for  *)
(* the load (start_resume_session, send_input).                             *)
LoadAlone == loading # NoSession => sending = NoSend

(* Not so: a message or an approval in flight survives /new and the new     *)
(* session key, and its failure clears the live turn of the session that    *)
(* took its place (prepare_for_session_switch, poll_send_completion).       *)
SendOwn == strays \cap {"send", "approval"} = {}

(* What a command or a queued message answers is applied to the session it   *)
(* was issued in, and while a session loads no message is being sent in the  *)
(* foreground (prepare_for_session_switch, start_resume_session).            *)
AnswersOwnSession == ChatTypeOK /\ OutcomeOwn /\ LoadAlone
=============================================================================
