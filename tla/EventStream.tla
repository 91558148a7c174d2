----------------------------- MODULE EventStream ------------------------------
(***************************************************************************)
(* The live event stream of one session and the terminal client that       *)
(* follows it: the server replays the log in pages and then follows a      *)
(* bounded broadcast channel (bt-server main.rs, stream_session_events);   *)
(* the client reconnects with Last-Event-ID and merges transcript pages    *)
(* that it loads beside the stream (bt-client lib.rs, bt-tui               *)
(* stream_state.rs, background_tasks.rs, session_loader.rs).               *)
(*                                                                         *)
(* An event's seq_id is its index in the log, which all sessions share;    *)
(* of its payload only the kind is kept. Most events are sent to the       *)
(* channel under the lock of the store that committed them; raw and        *)
(* completion chunks, the spawn of a child session and the steps of        *)
(* related-session messages are sent after that lock was given back, so    *)
(* another event may be committed and sent before them.                    *)
(***************************************************************************)
EXTENDS Naturals, Sequences, FiniteSets

CONSTANTS
    CommitKinds,       \* kinds of the events committed
    LateBatch,         \* events of a transaction that are sent late (1..6)
    ReplayPage,        \* events per replay query (500)
    BusCapacity,       \* of the broadcast channel (1024)
    Window,            \* TRANSCRIPT_PAGE_LIMIT (200)
    MaxEvents,         \* bound on the log
    MaxBreaks,         \* bound on failures of the stream
    MaxRefreshes       \* bound on refreshes besides the one at start

EventKinds == {"message", "command", "finished", "other", "foreign"}

(* The kinds among which are events that are sent late: no message of the   *)
(* transcript, operator command or end of a turn is.                        *)
LateKinds == {"other", "foreign"}

ASSUME StreamAssumption ==
    /\ CommitKinds \subseteq EventKinds /\ LateBatch \in Nat
    /\ ReplayPage \in Nat \ {0} /\ BusCapacity \in Nat \ {0} /\ Window \in Nat \ {0}
    /\ MaxEvents \in Nat \ {0} /\ MaxBreaks \in Nat /\ MaxRefreshes \in Nat

VARIABLES
    log,         \* kinds of the committed events
    bus,         \* seq_ids in the order in which they were sent to the channel
    unsent,      \* batches that are committed and not yet sent altogether
    feed,        \* the server's task for the client's stream
    pipe,        \* its frames, on the wire or in the client's channel, oldest first
    ui,          \* the terminal's transcript and its cursor
    load,        \* the transcript page being loaded
    breaks, refreshes

svars == <<log, bus, unsent, feed, pipe, ui, load, breaks, refreshes>>

Own(k) == k # "foreign"
Seqs == 1..MaxEvents
Closed == 0                         \* the frame after which nothing follows
NotYet == {0}                       \* a page that has not been answered

OwnAfter(n) == {i \in DOMAIN log : i > n /\ Own(log[i])}
OfKind(k) == {i \in DOMAIN log : log[i] = k}
LastOf(S, default) == IF S = {} THEN default ELSE CHOOSE i \in S : \A j \in S : j <= i

(* load_session_inspection_metrics: the session's last seq_id *)
LastOwn == LastOf(OwnAfter(0), 0)

(* Mutant of NewestRows: the rows are taken in ascending order. *)
OldestRows(S) == {i \in S : Cardinality({j \in S : j < i}) < Window}

(* load_page_rows: the newest rows, Window of them *)
NewestRows(S) == {i \in S : Cardinality({j \in S : j > i}) < Window}

NoLoad == [by |-> "none", full |-> FALSE, messages |-> NotYet, commands |-> NotYet, last |-> 0]
(* The client's loop waits for a load it started itself; one started by a   *)
(* command runs beside the loop.                                            *)
Blocked == load.by = "loop"

(* run_chat: the transcript is loaded before the stream is opened. *)
StreamInit ==
    /\ log = <<"other">>            \* session.started
    /\ bus = <<1>> /\ unsent = {}
    /\ feed = [phase |-> "none", seen |-> 0, rx |-> 0]
    /\ pipe = <<>>
    /\ ui = [cursor |-> 0, messages |-> {}, commands |-> {}, live |-> FALSE,
             stream |-> "none"]
    /\ load = [NoLoad EXCEPT !.by = "loop", !.full = TRUE]
    /\ breaks = 0 /\ refreshes = 0

-----------------------------------------------------------------------------
(* The server. *)

(* publish_committed_event under the lock of the store: nothing is committed *)
(* between the event and its sending.                                       *)
CommitEvent(k) ==
    /\ Len(log) < MaxEvents
    /\ log' = Append(log, k)
    /\ bus' = Append(bus, Len(log) + 1)
    /\ UNCHANGED <<unsent, feed, pipe, ui, load, breaks, refreshes>>

(* What a transaction whose events are sent late may consist of. *)
LateBatches == UNION {[1..n -> CommitKinds \cap LateKinds] : n \in 1..LateBatch}

(* The transaction is committed and the lock given back. *)
CommitLate(ks) ==
    /\ Len(log) + Len(ks) <= MaxEvents
    /\ log' = log \o ks
    /\ unsent' = unsent \cup {[next |-> Len(log) + 1, last |-> Len(log) + Len(ks)]}
    /\ UNCHANGED <<bus, feed, pipe, ui, load, breaks, refreshes>>

(* Its thread sends the events one by one. When the server dies before, the  *)
(* streams of its clients end and the next ones replay; an event sent after *)
(* that is one they have seen.                                              *)
PublishLate ==
    /\ \E b \in unsent :
           /\ bus' = Append(bus, b.next)
           /\ unsent' = (unsent \ {b}) \cup {c \in {[b EXCEPT !.next = @ + 1]} : c.next <= c.last}
    /\ UNCHANGED <<log, feed, pipe, ui, load, breaks, refreshes>>

(* The request is answered: subscribe, then replay from Last-Event-ID. *)
Subscribe ==
    /\ feed.phase = "request"
    /\ feed' = [feed EXCEPT !.phase = "replay", !.rx = Len(bus)]
    /\ UNCHANGED <<log, bus, unsent, pipe, ui, load, breaks, refreshes>>

Page == {i \in OwnAfter(feed.seen) :
             Cardinality({j \in OwnAfter(feed.seen) : j < i}) < ReplayPage}

(* ORDER BY seq_id: the one sequence of a page's events. *)
InOrder(S) == {q \in [1..Cardinality(S) -> S] : \A m, n \in DOMAIN q : m < n => q[m] < q[n]}

(* One page of the replay loop; a full page calls for another. *)
Replay ==
    /\ feed.phase = "replay"
    /\ \E q \in InOrder(Page) : pipe' = pipe \o q
    /\ feed' = [feed EXCEPT !.seen = LastOf(Page, @),
                            !.phase = IF Cardinality(Page) < ReplayPage THEN "live" ELSE @]
    /\ UNCHANGED <<log, bus, unsent, ui, load, breaks, refreshes>>

(* Mutant of Lagging: a receiver that lags goes on with what is left. *)
NeverLagging == FALSE

(* The channel keeps BusCapacity events; a receiver further behind has lost *)
(* some and is told so.                                                     *)
Lagging == Len(bus) - feed.rx > BusCapacity

Skipped == IF Len(bus) - feed.rx > BusCapacity THEN Len(bus) - BusCapacity ELSE feed.rx

Receive ==
    /\ feed.phase = "live" /\ feed.rx < Len(bus)
    /\ \/ /\ Lagging
          /\ feed' = [feed EXCEPT !.phase = "replay", !.rx = Skipped]
          /\ UNCHANGED pipe
       \/ LET i == bus[Skipped + 1] IN
          /\ ~Lagging
          /\ \/ /\ ~Own(log[i]) \/ i <= feed.seen
                /\ feed' = [feed EXCEPT !.rx = Skipped + 1]
                /\ UNCHANGED pipe
             \/ /\ Own(log[i]) /\ i > feed.seen
                /\ feed' = [feed EXCEPT !.rx = Skipped + 1, !.seen = i]
                /\ pipe' = Append(pipe, i)
    /\ UNCHANGED <<log, bus, unsent, ui, load, breaks, refreshes>>

(* The stream ends: the request fails, the replay query fails, the server   *)
(* stops or the connection breaks. Frames still on the wire are lost.       *)
Break ==
    /\ feed.phase # "none" /\ breaks < MaxBreaks
    /\ breaks' = breaks + 1
    /\ feed' = [feed EXCEPT !.phase = "none"]
    /\ \E n \in 0..Len(pipe) : pipe' = Append(SubSeq(pipe, 1, n), Closed)
    /\ UNCHANGED <<log, bus, unsent, ui, load, refreshes>>

-----------------------------------------------------------------------------
(* The terminal client. *)

(* ensure_event_stream: the task is given the cursor of this moment. *)
OpenStream ==
    /\ ~Blocked /\ ui.stream = "none"
    /\ ui' = [ui EXCEPT !.stream = "open"]
    /\ feed' = [phase |-> "request", seen |-> ui.cursor, rx |-> 0]
    /\ UNCHANGED <<log, bus, unsent, pipe, load, breaks, refreshes>>

(* apply_stream_event drops what the cursor has passed. *)
Fresh(i) == i > ui.cursor

Applied(i) ==
    [ui EXCEPT !.cursor = i,
               !.messages = IF log[i] = "message" THEN @ \cup {i} ELSE @,
               !.commands = IF log[i] = "command" THEN @ \cup {i} ELSE @,
               !.live = CASE log[i] = "message" -> TRUE
                          [] log[i] = "finished" -> FALSE
                          [] OTHER -> @]

(* poll_event_stream_background applies what has arrived, in order; on an   *)
(* error or at the end of the stream a retry is scheduled.                  *)
ApplyUpdate ==
    /\ ~Blocked /\ ui.stream = "open" /\ pipe # <<>>
    /\ \/ /\ Head(pipe) = Closed
          /\ ui' = [ui EXCEPT !.stream = "retry"]
          /\ pipe' = <<>>
       \/ /\ Head(pipe) # Closed
          /\ ui' = IF Fresh(Head(pipe)) THEN Applied(Head(pipe)) ELSE ui
          /\ pipe' = Tail(pipe)
    /\ UNCHANGED <<log, bus, unsent, feed, load, breaks, refreshes>>

(* schedule_stream_retry's delay has passed. *)
RetryDue ==
    /\ ~Blocked /\ ui.stream = "retry"
    /\ ui' = [ui EXCEPT !.stream = "none"]
    /\ UNCHANGED <<log, bus, unsent, feed, pipe, load, breaks, refreshes>>

(* refresh(), by the loop: a send failed, or there is no stream and nothing *)
(* was refreshed for a while; or by /refresh, beside the loop. An empty     *)
(* transcript is loaded back to its beginning (load_full_transcript).       *)
StartRefresh(by) ==
    /\ load = NoLoad /\ refreshes < MaxRefreshes
    /\ refreshes' = refreshes + 1
    /\ load' = [NoLoad EXCEPT !.by = by,
                              !.full = ui.messages = {} /\ ui.commands = {}]
    /\ UNCHANGED <<log, bus, unsent, feed, pipe, ui, breaks>>

(* The two requests of load_transcript_page, answered in either order.      *)
Rows(k) == IF load.full THEN OfKind(k) ELSE NewestRows(OfKind(k))

(* branch_messages_page reads the page and the last seq_id under one lock.  *)
FetchMessages ==
    /\ load.by # "none" /\ load.messages = NotYet
    /\ load' = [load EXCEPT !.messages = Rows("message"), !.last = LastOwn]
    /\ UNCHANGED <<log, bus, unsent, feed, pipe, ui, breaks, refreshes>>

FetchCommands ==
    /\ load.by # "none" /\ load.commands = NotYet
    /\ load' = [load EXCEPT !.commands = Rows("command")]
    /\ UNCHANGED <<log, bus, unsent, feed, pipe, ui, breaks, refreshes>>

PageCursor(cursor, last) == IF last > cursor THEN last ELSE cursor

(* merge_latest_transcript_page *)
MergePage ==
    /\ load.messages # NotYet /\ load.commands # NotYet
    /\ ui' = [ui EXCEPT !.messages = @ \cup load.messages,
                        !.commands = @ \cup load.commands,
                        !.cursor = PageCursor(@, load.last)]
    /\ load' = NoLoad
    /\ UNCHANGED <<log, bus, unsent, feed, pipe, breaks, refreshes>>

StreamNext ==
    \/ \E k \in CommitKinds : CommitEvent(k)
    \/ \E ks \in LateBatches : CommitLate(ks)
    \/ PublishLate
    \/ Subscribe \/ Replay \/ Receive \/ Break
    \/ OpenStream \/ ApplyUpdate \/ RetryDue
    \/ \E by \in {"loop", "command"} : StartRefresh(by)
    \/ FetchMessages \/ FetchCommands \/ MergePage

(* The server and the client keep running; requests are answered. *)
StreamFairness ==
    /\ WF_svars(PublishLate)
    /\ WF_svars(Subscribe) /\ WF_svars(Replay) /\ WF_svars(Receive)
    /\ WF_svars(OpenStream) /\ WF_svars(ApplyUpdate) /\ WF_svars(RetryDue)
    /\ WF_svars(FetchMessages) /\ WF_svars(FetchCommands) /\ WF_svars(MergePage)

StreamSpec == StreamInit /\ [][StreamNext]_svars /\ StreamFairness

-----------------------------------------------------------------------------
(* Properties. *)

StreamTypeOK ==
    /\ log \in Seq(EventKinds)
    /\ \A n \in DOMAIN bus : bus[n] \in DOMAIN log
    /\ \A b \in unsent : b.next \in DOMAIN log /\ b.last \in DOMAIN log
    /\ feed.phase \in {"none", "request", "replay", "live"}
    /\ feed.seen \in 0..MaxEvents /\ feed.rx \in 0..Len(bus)
    /\ \A i \in DOMAIN pipe : pipe[i] \in Seqs \cup {Closed}
    /\ ui.cursor \in 0..Len(log)
    /\ ui.messages \subseteq OfKind("message") /\ ui.commands \subseteq OfKind("command")
    /\ ui.stream \in {"none", "open", "retry"} /\ ui.live \in BOOLEAN
    /\ load.by \in {"none", "loop", "command"}

(* A later event of the session was sent to the channel before this one.   *)
Overtaken(i) ==
    \E m \in DOMAIN bus : /\ bus[m] > i /\ Own(log[bus[m]])
                          /\ \A n \in 1..m : bus[n] # i

Due(n) == {i \in OwnAfter(n) : ~Overtaken(i)}

(* Whatever the interleaving of commits, late publication, replay pages,   *)
(* lag of the channel and re-subscription in stream_session_events:        *)
(* between the client's cursor and what the server has sent, every event   *)
(* of the session that was not overtaken is in the pipe, once and in       *)
(* order; what the server has received and not sent it is about to replay. *)
FeedComplete ==
    feed.phase \in {"replay", "live"} =>
        /\ \A i \in Due(ui.cursor) : i <= feed.seen => \E n \in DOMAIN pipe : pipe[n] = i
        /\ \A m, n \in DOMAIN pipe : m < n => pipe[m] < pipe[n]
        /\ \A n \in 1..feed.rx :
              (Own(log[bus[n]]) /\ bus[n] > feed.seen) => feed.phase = "replay"

(* The same of the overtaken ones too. stream_session_events drops an event *)
(* whose seq_id is not beyond the last one it sent.                         *)
NoneMissed ==
    feed.phase \in {"replay", "live"} =>
        \A i \in OwnAfter(ui.cursor) : i <= feed.seen => \E n \in DOMAIN pipe : pipe[n] = i

(* The client that replays, follows, reconnects and merges pages gives what *)
(* LiveTranscript promises: its log moves forward only, each stretch it     *)
(* passes is shown, and it catches up with the log.                         *)
Live == INSTANCE LiveTranscript WITH upto <- ui.cursor, shown <- ui.messages
ImplementsLive == Live!LiveSpec

(* Once the client has moved past a recorded operator command it shows the  *)
(* command. load_transcript_page takes its cursor from the answer about     *)
(* messages, which may be newer than the answer about commands.             *)
CommandsShown == \A i \in OfKind("command") : i <= ui.cursor => i \in ui.commands

(* Once the client has moved past the end of a turn it no longer shows the  *)
(* turn as live; apply_stream_event drops a turn.finished that a page's     *)
(* cursor has passed, and no page clears active_turn.live.                  *)
FinishedSeen ==
    \A i \in OfKind("finished") :
        (i <= ui.cursor /\ ui.live) => \E j \in OfKind("message") : i < j /\ j <= ui.cursor

(* Between the client's cursor and what the server has sent, every event of  *)
(* the session that no later one overtook on the channel is in the pipe,     *)
(* once and in order, across the seam of replay and live events              *)
(* (stream_session_events).                                                  *)
FeedExact == StreamTypeOK /\ FeedComplete
=============================================================================
