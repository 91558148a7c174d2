------------------------------- MODULE McpHost -------------------------------
(***************************************************************************)
(* One external MCP server as bt-mcp's McpServerHandle uses it: a lazily   *)
(* opened session behind a mutex, a cache of the discovered tools, and the *)
(* last error, which are three separate locks.  Turn workers discover and  *)
(* call tools, HTTP handlers take the inventory (and may be dropped half   *)
(* way, when the client hangs up) or reload the server.                    *)
(*                                                                         *)
(* The server answers what it answers of a session's requests in order; it *)
(* may leave any of them unanswered.  A stdio session has one pipe for all *)
(* of its requests; an HTTP session has a connection per request.  Opening *)
(* number n of the server is "generation" n.                               *)
(***************************************************************************)
EXTENDS Naturals, Sequences, FiniteSets

CONSTANTS Workers,         \* turn workers: discover, then call
          Handlers,        \* HTTP handlers: inventory and reload
          MaxOpenings,     \* bound: sessions opened in a behaviour
          MaxRpc,          \* bound: requests made in one session
          MaxReloads       \* bound: reloads in a behaviour

ASSUME McpAssumption ==
    /\ Workers \cap Handlers = {} /\ "none" \notin Workers \union Handlers
    /\ MaxOpenings \in Nat /\ MaxRpc \in Nat /\ MaxReloads \in Nat

VARIABLES transport,       \* "stdio" or "http", from the configuration
          session,         \* the open session, or Unopened
          holder,          \* who holds the session's mutex
          cachedTools,     \* generation whose tool list is cached, or 0
          lastError,       \* whether an error is remembered
          openings,        \* sessions opened so far
          reloads,         \* reloads begun so far
          renewed,         \* sessions opened before the last completed reload
          peer             \* what each worker and handler is doing

mcpVars == <<transport, session, holder, cachedTools, lastError, openings, reloads, renewed, peer>>

Peers == Workers \union Handlers
NoHolder == "none"
(* A session: its generation, the id of the next request, whether it is   *)
(* initialized, the requests the server has to answer, the answers not    *)
(* yet read, whether a frame was left half read, and whether it is alive. *)
Unopened == [gen |-> 0, next |-> 1, ready |-> FALSE, asked |-> <<>>, pipe |-> <<>>,
           torn |-> FALSE, up |-> FALSE]

Open == session.gen # 0

AtRest == [at |-> "idle", op |-> "none", id |-> 0, answer |-> 0, since |-> 0, gen |-> 0]

At(p, op, place) == peer[p].op = op /\ peer[p].at = place

Goto(p, place) == [peer EXCEPT ![p].at = place]

(***************************************************************************)
(* Sessions                                                                *)
(***************************************************************************)

(* StdioSession::spawn puts nothing in the slot before initialize has     *)
(* succeeded, so whoever stops before that leaves the slot empty; an HTTP *)
(* session is in the slot from the start, not yet initialized.            *)
Abandoned(s) == IF transport = "stdio" /\ ~s.ready THEN Unopened ELSE s

(* The request loop: a frame that carries another id is skipped, the one  *)
(* with the request's own id is the answer.                               *)
AcceptedAny(s, id) == IF s.pipe = <<>> THEN {} ELSE {1}
Accepted(s, id) == {i \in DOMAIN s.pipe : s.pipe[i] = id}

Behind(s, i) == [s EXCEPT !.pipe = SubSeq(@, i + 1, Len(@))]

(* A request dropped while it waits.  The pipe of a stdio session keeps   *)
(* the answer, or has lost the half of it that was read; an HTTP          *)
(* connection is gone.                                                    *)
Forgotten(s, id, torn) ==
    CASE transport = "http" -> [s EXCEPT !.asked = <<>>, !.pipe = <<>>]
      [] transport = "stdio" /\ ~torn -> Abandoned(s)
      [] transport = "stdio" /\ torn ->
           Abandoned([Behind(s, CHOOSE i \in Accepted(s, id) : TRUE) EXCEPT !.torn = TRUE])

(* write_frame: the request has its id, and the server will take it up or  *)
(* leave it unanswered.                                                    *)
Sent(s, heard) ==
    [s EXCEPT !.next = @ + 1, !.asked = IF heard THEN Append(@, s.next) ELSE @]

(***************************************************************************)
(* Workers and handlers                                                    *)
(***************************************************************************)

(* discover_tools: a cached list is the answer; otherwise the session's   *)
(* mutex is next.  inventory asks for the status first, which takes the   *)
(* same mutex for a moment.                                               *)
Discover(p) ==
    /\ peer[p].at = "idle"
    /\ peer' = [peer EXCEPT ![p] = [AtRest EXCEPT !.at = "look", !.op = "discover", !.since = renewed]]
    /\ UNCHANGED <<transport, session, holder, cachedTools, lastError, openings, reloads, renewed>>

LookAtStatus(p) ==
    /\ peer[p].at = "idle" /\ p \in Handlers
    /\ peer' = [peer EXCEPT ![p] = [AtRest EXCEPT !.at = "status", !.op = "discover", !.since = renewed]]
    /\ UNCHANGED <<transport, session, holder, cachedTools, lastError, openings, reloads, renewed>>

Status(p) ==
    /\ At(p, "discover", "status")
    /\ holder = NoHolder
    /\ peer' = Goto(p, "look")
    /\ UNCHANGED <<transport, session, holder, cachedTools, lastError, openings, reloads, renewed>>

Look(p) ==
    /\ At(p, "discover", "look")
    /\ peer' = IF cachedTools # 0
               THEN [peer EXCEPT ![p].at = "listed", ![p].gen = cachedTools]
               ELSE Goto(p, "lock")
    /\ UNCHANGED <<transport, session, holder, cachedTools, lastError, openings, reloads, renewed>>

(* McpToolExecutor::execute on a tool the worker has listed.              *)
Call(p) ==
    /\ peer[p].at = "listed" /\ p \in Workers
    /\ peer' = [peer EXCEPT ![p] = [AtRest EXCEPT !.at = "lock", !.op = "call", !.since = renewed]]
    /\ UNCHANGED <<transport, session, holder, cachedTools, lastError, openings, reloads, renewed>>

Lock(p) ==
    /\ peer[p].at = "lock"
    /\ holder = NoHolder
    /\ holder' = p
    /\ peer' = Goto(p, "locked")
    /\ UNCHANGED <<transport, session, cachedTools, lastError, openings, reloads, renewed>>

(* ensure_stdio_session and ensure_http_session.                          *)
Ensure(p) ==
    /\ peer[p].at = "locked" /\ ~Open
    /\ openings < MaxOpenings
    /\ openings' = openings + 1
    /\ session' = [Unopened EXCEPT !.gen = openings + 1, !.up = TRUE]
    /\ UNCHANGED <<transport, holder, cachedTools, lastError, reloads, renewed, peer>>

(* The child cannot be spawned.                                           *)
SpawnFails(p) ==
    /\ peer[p].at = "locked" /\ ~Open
    /\ transport = "stdio"
    /\ lastError' = TRUE
    /\ holder' = NoHolder
    /\ peer' = [peer EXCEPT ![p] = AtRest]
    /\ UNCHANGED <<transport, session, cachedTools, openings, reloads, renewed>>

Ask(p) ==
    /\ peer[p].at = "locked" /\ Open
    /\ session.next <= MaxRpc
    /\ \E heard \in BOOLEAN : session' = Sent(session, heard /\ session.up)
    /\ peer' = [peer EXCEPT ![p].at = "waiting", ![p].id = session.next]
    /\ UNCHANGED <<transport, holder, cachedTools, lastError, openings, reloads, renewed>>

(* The answer to initialize makes the session ready and the same caller   *)
(* goes on with its own request.                                          *)
Initialized(p) ==
    /\ peer[p].at = "waiting" /\ ~session.ready
    /\ ~session.torn
    /\ \E i \in Accepted(session, peer[p].id) :
         session' = [Behind(session, i) EXCEPT !.ready = TRUE]
    /\ peer' = Goto(p, "locked")
    /\ UNCHANGED <<transport, holder, cachedTools, lastError, openings, reloads, renewed>>

(* A tool call answers its caller, and forgets the last error while it    *)
(* still holds the session.                                               *)
CallAnswered(p) ==
    /\ At(p, "call", "waiting") /\ session.ready
    /\ ~session.torn
    /\ \E i \in Accepted(session, peer[p].id) :
         /\ session' = Behind(session, i)
         /\ peer' = [peer EXCEPT ![p].at = "done", ![p].answer = session.pipe[i],
                                 ![p].gen = session.gen]
    /\ lastError' = FALSE
    /\ holder' = NoHolder
    /\ UNCHANGED <<transport, cachedTools, openings, reloads, renewed>>

(* The list arrives: the session is released first; the error is          *)
(* forgotten and the list cached in two later steps.                      *)
ListAnswered(p) ==
    /\ At(p, "discover", "waiting") /\ session.ready
    /\ ~session.torn
    /\ \E i \in Accepted(session, peer[p].id) :
         /\ session' = Behind(session, i)
         /\ peer' = [peer EXCEPT ![p].at = "clear", ![p].answer = session.pipe[i],
                                 ![p].gen = session.gen]
    /\ holder' = NoHolder
    /\ UNCHANGED <<transport, cachedTools, lastError, openings, reloads, renewed>>

ForgetError(p) ==
    /\ At(p, "discover", "clear")
    /\ lastError' = FALSE
    /\ peer' = Goto(p, "cache")
    /\ UNCHANGED <<transport, session, holder, cachedTools, openings, reloads, renewed>>

CacheList(p) ==
    /\ At(p, "discover", "cache")
    /\ cachedTools' = peer[p].gen
    /\ peer' = Goto(p, "listed")
    /\ UNCHANGED <<transport, session, holder, lastError, openings, reloads, renewed>>

(* A dead server, a torn frame or an error answer: the session is dropped *)
(* and the error remembered.                                              *)
Fails(p) ==
    /\ peer[p].at = "waiting"
    /\ ~session.up \/ Accepted(session, peer[p].id) # {} \/ (session.torn /\ session.pipe # <<>>)
    /\ session' = Unopened
    /\ lastError' = TRUE
    /\ holder' = NoHolder
    /\ peer' = [peer EXCEPT ![p] = AtRest]
    /\ UNCHANGED <<transport, cachedTools, openings, reloads, renewed>>

(* tokio::time::timeout surrounds only the call itself: a stdio session   *)
(* is opened before it, an HTTP session initializes within it.            *)
TimesNothing(p) == FALSE
TimesOut(p) == peer[p].op = "call" /\ (session.ready \/ transport = "http")

TimeOut(p) ==
    /\ peer[p].at = "waiting" /\ TimesOut(p)
    /\ session' = Unopened
    /\ lastError' = TRUE
    /\ holder' = NoHolder
    /\ peer' = [peer EXCEPT ![p] = AtRest]
    /\ UNCHANGED <<transport, cachedTools, openings, reloads, renewed>>

(* The client of a handler hangs up and its future is dropped wherever it *)
(* waits: the guard is released, the slot keeps what it has.              *)
HangUp(p) ==
    /\ p \in Handlers /\ peer[p].at \notin {"idle", "listed"}
    /\ \E torn \in BOOLEAN :
         /\ torn => (peer[p].at = "waiting" /\ Accepted(session, peer[p].id) # {})
         /\ session' = CASE holder # p -> session
                         [] holder = p /\ peer[p].at = "waiting" -> Forgotten(session, peer[p].id, torn)
                         [] holder = p /\ peer[p].at # "waiting" -> Abandoned(session)
    /\ holder' = IF holder = p THEN NoHolder ELSE holder
    /\ peer' = [peer EXCEPT ![p] = AtRest]
    /\ UNCHANGED <<transport, cachedTools, lastError, openings, reloads, renewed>>

(* reload: the cache and the error go first, then the session, under its  *)
(* mutex, and the child is killed.                                        *)
Reload(p) ==
    /\ peer[p].at = "idle" /\ p \in Handlers
    /\ reloads < MaxReloads
    /\ reloads' = reloads + 1
    /\ cachedTools' = 0
    /\ peer' = [peer EXCEPT ![p] = [AtRest EXCEPT !.at = "forget", !.op = "reload"]]
    /\ UNCHANGED <<transport, session, holder, lastError, openings, renewed>>

ReloadError(p) ==
    /\ At(p, "reload", "forget")
    /\ lastError' = FALSE
    /\ peer' = Goto(p, "take")
    /\ UNCHANGED <<transport, session, holder, cachedTools, openings, reloads, renewed>>

Taken == Unopened

ReloadSession(p) ==
    /\ At(p, "reload", "take")
    /\ holder = NoHolder
    /\ session' = Taken
    /\ renewed' = openings
    /\ peer' = [peer EXCEPT ![p] = AtRest]
    /\ UNCHANGED <<transport, holder, cachedTools, lastError, openings, reloads>>

(* A worker or handler is done with what it got.                          *)
Leave(p) ==
    /\ peer[p].at \in {"listed", "done"}
    /\ peer' = [peer EXCEPT ![p] = AtRest]
    /\ UNCHANGED <<transport, session, holder, cachedTools, lastError, openings, reloads, renewed>>

(***************************************************************************)
(* The server                                                              *)
(***************************************************************************)

Answer ==
    /\ session.up /\ session.asked # <<>>
    /\ session' = [session EXCEPT !.asked = Tail(@), !.pipe = Append(@, Head(session.asked))]
    /\ UNCHANGED <<transport, holder, cachedTools, lastError, openings, reloads, renewed, peer>>

Exits ==
    /\ session.up
    /\ session' = [session EXCEPT !.up = FALSE, !.asked = <<>>]
    /\ UNCHANGED <<transport, holder, cachedTools, lastError, openings, reloads, renewed, peer>>

McpInit ==
    /\ transport \in {"stdio", "http"}
    /\ session = Unopened
    /\ holder = NoHolder
    /\ cachedTools = 0 /\ lastError = FALSE
    /\ openings = 0 /\ reloads = 0 /\ renewed = 0
    /\ peer = [p \in Peers |-> AtRest]

(* Taking the session's mutex: for a request, to look at its state, to    *)
(* take the session out of it.                                            *)
Takes(p) == Lock(p) \/ Status(p) \/ ReloadSession(p)

(* The steps a request takes by itself once it is running.                *)
Proceeds(p) ==
    \/ Takes(p) \/ Look(p) \/ Ensure(p) \/ Ask(p)
    \/ Initialized(p) \/ CallAnswered(p) \/ ListAnswered(p) \/ Fails(p) \/ TimeOut(p)
    \/ ForgetError(p) \/ CacheList(p) \/ ReloadError(p)

McpNext ==
    \/ \E p \in Peers :
         \/ Proceeds(p)
         \/ Discover(p) \/ LookAtStatus(p) \/ Call(p) \/ SpawnFails(p)
         \/ HangUp(p) \/ Reload(p) \/ Leave(p)
    \/ Answer \/ Exits

(* tokio's mutex is first come, first served: strong fairness of taking   *)
(* it.  The server is under no obligation.                                *)
McpFairness == \A p \in Peers : WF_mcpVars(Proceeds(p)) /\ SF_mcpVars(Takes(p))

McpSpec == McpInit /\ [][McpNext]_mcpVars /\ McpFairness

(***************************************************************************)
(* Properties                                                              *)
(***************************************************************************)

(* Types; the mutex is held by a peer in the middle of a request, and a    *)
(* stdio session that is not initialized is seen by nobody but its opener  *)
(* (ensure_stdio_session).                                                 *)
McpTypeOK ==
    /\ transport \in {"stdio", "http"}
    /\ session \in [gen : 0..MaxOpenings, next : 1..(MaxRpc + 1), ready : BOOLEAN,
                    asked : Seq(1..MaxRpc), pipe : Seq(1..MaxRpc), torn : BOOLEAN, up : BOOLEAN]
    /\ holder \in Peers \union {NoHolder}
    /\ cachedTools \in 0..MaxOpenings /\ lastError \in BOOLEAN
    /\ openings \in 0..MaxOpenings /\ reloads \in 0..MaxReloads /\ renewed \in 0..openings
    /\ \A p \in Peers : peer[p].at \in {"locked", "waiting"} <=> holder = p
    /\ (transport = "stdio" /\ holder = NoHolder /\ Open) => session.ready

(* A tool call and a tools/list get the answer to their own request: what  *)
(* an earlier, dropped request left in the pipe is never handed to them    *)
(* (StdioSession::request).                                                *)
AnswerOwn ==
    \A p \in Peers : peer[p].at \in {"done", "clear", "cache"} => peer[p].answer = peer[p].id

(* Every call that began after a reload was answered by a session opened   *)
(* after that reload (McpServerHandle::reload): no session outlives it.    *)
SessionRenewed ==
    \A p \in Peers : peer[p].at = "done" => peer[p].gen > peer[p].since

(* A peer that waits for the mutex gets it, unless the holder waits for    *)
(* ever on a server that does not answer one of the requests that have no  *)
(* limit, to list its tools or to initialize a stdio session: a tool call  *)
(* that is not answered gives the mutex back after 120 s, and so does      *)
(* every failure.  (The bounds on openings and requests end the wait too.) *)
Unlimited ==
    \E p \in Peers : /\ peer[p].at = "waiting"
                     /\ peer[p].op = "discover" \/ (transport = "stdio" /\ ~session.ready)
Exhausted == (~Open /\ openings = MaxOpenings) \/ session.next > MaxRpc
Awaits(p) == peer[p].at \in {"lock", "status", "take"}
Freed == \A p \in Peers : Awaits(p) ~> (~Awaits(p) \/ Exhausted)
SessionFreed == []<>~Unlimited => Freed

(* The cached tools are those of a session opened after the last reload.   *)
CacheRenewed == cachedTools # 0 => cachedTools > renewed

(* A caller takes only the answer to its own request, whatever earlier       *)
(* requests left in the pipe, and a call that began after a reload is        *)
(* answered by a session opened after it (StdioSession::request, reload).    *)
AnswersMatched == McpTypeOK /\ AnswerOwn /\ SessionRenewed
=============================================================================
