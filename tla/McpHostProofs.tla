---------------------------- MODULE McpHostProofs ----------------------------
(***************************************************************************)
(* Two proofs about what arrives over a boundary of the process.           *)
(*                                                                         *)
(* A caller of an MCP server gets the answer to its own request from a     *)
(* session no reload has outlived, for every number of workers and         *)
(* handlers and every bound.  (SessionFreed, a liveness property, is left  *)
(* to the run agent_parts.)                                                *)
(*                                                                         *)
(* Session bundles are faithful and the registry's heads only go on, for   *)
(* every number of machines and every bound.  The argument: event ids are  *)
(* handed out once, so an event determines its history in every log there  *)
(* is (Agree), in whatever order exports read while servers commit; a push *)
(* holds the lock from reading heads.json to replacing it (PushOK); equal  *)
(* hashes mean equal events, whose tip is the head; and ordinals keep their*)
(* rank, so an import gives every chunk a local id of its own.             *)
(***************************************************************************)
EXTENDS McpHost, SessionBundles, SequenceTheorems, FiniteSetTheorems, WellFoundedInduction, TLAPS

Ids == 1..MaxRpc

Sessions == [gen : 0..MaxOpenings, next : 1..(MaxRpc + 1), ready : BOOLEAN,
             asked : Seq(Ids), pipe : Seq(Ids), torn : BOOLEAN, up : BOOLEAN]

Places == {"idle", "status", "look", "lock", "locked", "waiting", "clear", "cache",
           "listed", "done", "forget", "take"}

PeerStates == [at : Places, op : {"none", "discover", "call", "reload"},
               id : 0..MaxRpc, answer : 0..MaxRpc, since : 0..MaxOpenings, gen : 0..MaxOpenings]

(* What McpTypeOK says of the variables, with the type of a peer.          *)
Typed ==
    /\ transport \in {"stdio", "http"}
    /\ session \in Sessions
    /\ holder \in Peers \union {NoHolder}
    /\ cachedTools \in 0..MaxOpenings /\ lastError \in BOOLEAN
    /\ openings \in 0..MaxOpenings /\ reloads \in 0..MaxReloads /\ renewed \in 0..openings
    /\ peer \in [Peers -> PeerStates]

(* The session's mutex is held by the peer in the middle of a request.     *)
Mutex == \A p \in Peers : peer[p].at \in {"locked", "waiting"} <=> holder = p

(* A peer that waits for an answer waits in an open session.               *)
WaitsOpen == \A p \in Peers : peer[p].at = "waiting" => Open

StdioReady == (transport = "stdio" /\ holder = NoHolder /\ Open) => session.ready

(* The open session is younger than the last completed reload, which is    *)
(* what every operation under way began after.                             *)
Ages ==
    /\ session.gen <= openings
    /\ Open => session.gen > renewed
    /\ \A p \in Peers : peer[p].since <= renewed

McpInv ==
    /\ Typed /\ Mutex /\ WaitsOpen /\ StdioReady /\ Ages
    /\ AnswerOwn /\ SessionRenewed

(***************************************************************************)
(* What the operations on a session return                                 *)
(***************************************************************************)

(* Reading an answer leaves a well-formed session of the same opening.     *)
LEMMA BehindTyped ==
    ASSUME NEW s \in Sessions, NEW i \in DOMAIN s.pipe
    PROVE  /\ Behind(s, i) \in Sessions
           /\ Behind(s, i).gen = s.gen
           /\ Behind(s, i).ready = s.ready
           /\ s.pipe[i] \in Ids
  <1>1. s.pipe \in Seq(Ids)
    BY DEF Sessions
  <1>2. i \in 1..Len(s.pipe) /\ Len(s.pipe) \in Nat /\ s.pipe[i] \in Ids
    BY <1>1, LenProperties, ElementOfSeq
  <1>3. \A j \in (i + 1)..Len(s.pipe) : j \in 1..Len(s.pipe)
    BY <1>2
  <1>4. \A j \in (i + 1)..Len(s.pipe) : s.pipe[j] \in Ids
    BY <1>1, <1>3, ElementOfSeq
  <1>5. SubSeq(s.pipe, i + 1, Len(s.pipe)) \in Seq(Ids)
    BY <1>2, <1>4, SubSeqProperties
  <1> QED
    BY <1>2, <1>5 DEF Behind, Sessions

(* Writing a request gives it the next id.                                 *)
LEMMA SentTyped ==
    ASSUME NEW s \in Sessions, NEW heard \in BOOLEAN, s.next <= MaxRpc
    PROVE  /\ Sent(s, heard) \in Sessions
           /\ Sent(s, heard).gen = s.gen
           /\ Sent(s, heard).ready = s.ready
  <1> DEFINE asked == IF heard THEN Append(s.asked, s.next) ELSE s.asked
  <1>1. s.asked \in Seq(Ids) /\ s.next \in Ids /\ s.next + 1 \in 1..(MaxRpc + 1)
    BY McpAssumption DEF Sessions, Ids
  <1>2. asked \in Seq(Ids)
    BY <1>1, AppendProperties
  <1>3. Sent(s, heard) = [s EXCEPT !.next = s.next + 1, !.asked = asked]
    BY DEF Sent
  <1> HIDE DEF asked
  <1> QED
    BY <1>1, <1>2, <1>3 DEF Sessions

(* A slot with no session in it.                                           *)
LEMMA UnopenedTyped == Unopened \in Sessions /\ Unopened.gen = 0
  BY McpAssumption, EmptySeq DEF Unopened, Sessions

(* Whoever drops a session leaves its opening or an empty slot, and over   *)
(* stdio never an uninitialized session.                                   *)
LEMMA AbandonedTyped ==
    ASSUME NEW s \in Sessions
    PROVE  /\ Abandoned(s) \in Sessions
           /\ Abandoned(s).gen \in {0, s.gen}
           /\ (transport = "stdio" /\ Abandoned(s).gen # 0) => Abandoned(s).ready
  BY UnopenedTyped DEF Abandoned, Sessions

LEMMA ForgottenTyped ==
    ASSUME NEW s \in Sessions, NEW id, NEW torn \in BOOLEAN,
           transport \in {"stdio", "http"},
           torn => Accepted(s, id) # {}
    PROVE  /\ Forgotten(s, id, torn) \in Sessions
           /\ Forgotten(s, id, torn).gen \in {0, s.gen}
           /\ (transport = "stdio" /\ Forgotten(s, id, torn).gen # 0) => Forgotten(s, id, torn).ready
  <1>1. CASE transport = "http"
    <2>1. [s EXCEPT !.asked = <<>>, !.pipe = <<>>] \in Sessions
      BY EmptySeq DEF Sessions
    <2>2. Forgotten(s, id, torn) = [s EXCEPT !.asked = <<>>, !.pipe = <<>>]
      BY <1>1 DEF Forgotten
    <2> QED
      BY <1>1, <2>1, <2>2 DEF Sessions
  <1>2. CASE transport = "stdio" /\ ~torn
    <2>1. Forgotten(s, id, torn) = Abandoned(s)
      BY <1>2 DEF Forgotten
    <2> QED
      BY <2>1, AbandonedTyped
  <1>3. CASE transport = "stdio" /\ torn
    <2> DEFINE i == CHOOSE i \in Accepted(s, id) : TRUE
               b == Behind(s, i)
               t == [b EXCEPT !.torn = TRUE]
    <2>1. i \in DOMAIN s.pipe
      BY <1>3 DEF Accepted
    <2>2. b \in Sessions /\ b.gen = s.gen
      BY <2>1, BehindTyped
    <2> HIDE DEF b
    <2>3. t \in Sessions /\ t.gen = s.gen
      BY <2>2 DEF Sessions
    <2> HIDE DEF t
    <2>4. Forgotten(s, id, torn) = Abandoned(t)
      BY <1>3 DEF Forgotten, t, b
    <2> QED
      BY <2>3, <2>4, AbandonedTyped
  <1> QED
    BY <1>1, <1>2, <1>3

LEMMA AtRestTyped ==
    /\ AtRest \in PeerStates
    /\ AtRest.at = "idle" /\ AtRest.since = 0
  BY McpAssumption DEF AtRest, PeerStates, Places

(***************************************************************************)
(* The invariant is inductive                                              *)
(***************************************************************************)

LEMMA McpInitInv == McpInit => McpInv
  <1> SUFFICES ASSUME McpInit PROVE McpInv
    OBVIOUS
  <1> USE McpAssumption DEF McpInit
  <1>1. Typed
    <2>1. peer \in [Peers -> PeerStates]
      BY AtRestTyped
    <2>2. holder \in Peers \union {NoHolder} /\ lastError \in BOOLEAN
      OBVIOUS
    <2>3. cachedTools \in 0..MaxOpenings /\ openings \in 0..MaxOpenings
          /\ reloads \in 0..MaxReloads /\ renewed \in 0..openings
      OBVIOUS
    <2> QED
      BY <2>1, <2>2, <2>3, UnopenedTyped DEF Typed
  <1>2. Mutex /\ WaitsOpen /\ StdioReady /\ Ages /\ AnswerOwn /\ SessionRenewed
    BY DEF Mutex, WaitsOpen, StdioReady, Ages, AnswerOwn, SessionRenewed, AtRest, Open, Unopened,
           Peers, NoHolder
  <1> QED
    BY <1>1, <1>2 DEF McpInv

(* What is asked of a step in which only p moves, to the state r: the      *)
(* other peers neither gain nor lose the mutex, and a session one of them  *)
(* holds stays open.                                                       *)
Moves(p, r) ==
    /\ peer' = [peer EXCEPT ![p] = r]
    /\ r \in PeerStates
    /\ r.at \in {"locked", "waiting"} <=> holder' = p
    /\ \A q \in Peers \ {p} : holder' = q <=> holder = q
    /\ r.at = "waiting" => session'.gen # 0
    /\ holder # p => (session'.gen = session.gen \/ holder = NoHolder)
    /\ r.since <= renewed'
    /\ r.at \in {"done", "clear", "cache"} => r.answer = r.id
    /\ r.at = "done" => r.gen > r.since

(* The rest of the state after a step.                                     *)
Rest ==
    /\ transport' = transport
    /\ session' \in Sessions
    /\ holder' \in Peers \union {NoHolder}
    /\ cachedTools' \in 0..MaxOpenings /\ lastError' \in BOOLEAN
    /\ openings' \in 0..MaxOpenings /\ reloads' \in 0..MaxReloads
    /\ renewed' \in renewed..openings'
    /\ StdioReady'
    /\ session'.gen <= openings'
    /\ session'.gen # 0 => session'.gen > renewed'

LEMMA MovePreserves ==
    ASSUME McpInv, NEW p \in Peers, NEW r, Moves(p, r), Rest
    PROVE  McpInv'
  <1> USE McpAssumption DEF McpInv
  <1>1. NoHolder \notin Peers
    BY DEF NoHolder, Peers
  <1>2. peer' \in [Peers -> PeerStates] /\ peer'[p] = r /\ \A q \in Peers \ {p} : peer'[q] = peer[q]
    BY DEF Moves, Typed
  <1>3. Typed'
    BY <1>2 DEF Rest, Typed
  <1>4. Mutex'
    BY <1>2 DEF Mutex, Moves
  <1>5. WaitsOpen'
    BY <1>1, <1>2 DEF WaitsOpen, Mutex, Moves, Open
  <1>6. Ages'
    <2>1. \A q \in Peers : peer[q].since \in Nat /\ peer[q].since <= renewed
      BY DEF Typed, PeerStates, Ages
    <2>2. renewed \in Nat /\ renewed' \in Nat /\ renewed <= renewed'
      BY DEF Rest, Typed
    <2>3. \A q \in Peers : peer'[q].since <= renewed'
      BY <1>2, <2>1, <2>2 DEF Moves
    <2> QED
      BY <2>3 DEF Ages, Rest, Open
  <1>7. AnswerOwn' /\ SessionRenewed'
    BY <1>2 DEF AnswerOwn, SessionRenewed, Moves
  <1> QED
    BY <1>3, <1>4, <1>5, <1>6, <1>7 DEF Rest

(* What the invariant says of one peer, and of the session's generation.   *)
LEMMA McpFacts ==
    ASSUME McpInv
    PROVE  /\ NoHolder \notin Peers
           /\ \A q \in Peers : /\ peer[q] \in PeerStates
                               /\ peer[q].since <= renewed
                               /\ peer[q].at \in {"locked", "waiting"} <=> holder = q
           /\ session \in Sessions /\ session.gen \in 0..MaxOpenings
           /\ openings \in Nat /\ renewed \in 0..openings /\ renewed \in 0..MaxOpenings
  BY McpAssumption DEF McpInv, NoHolder, Peers, Typed, Ages, Mutex, Sessions

(* A step in which p moves between places where it does not hold the mutex *)
(* and nothing changes that the others see but the cache and the error.    *)
Aside(p, r) ==
    /\ peer' = [peer EXCEPT ![p] = r]
    /\ r \in PeerStates
    /\ {r.at, peer[p].at} \cap {"locked", "waiting"} = {}
    /\ r.since <= renewed
    /\ r.at # "done"
    /\ r.at \in {"clear", "cache"} => r.answer = r.id
    /\ UNCHANGED <<transport, session, holder, openings, renewed>>
    /\ cachedTools' \in 0..MaxOpenings /\ lastError' \in BOOLEAN /\ reloads' \in 0..MaxReloads

LEMMA AsidePreserves ==
    ASSUME McpInv, NEW p \in Peers, NEW r, Aside(p, r)
    PROVE  McpInv'
  <1>1. Moves(p, r)
    BY McpFacts DEF Moves, Aside
  <1>2. Rest
    BY McpFacts DEF Rest, Aside, McpInv, Typed, Ages, StdioReady, Open
  <1> QED
    BY <1>1, <1>2, MovePreserves

(* An operation that begins: what it knows is the last completed reload.   *)
Begun(place, op) == [AtRest EXCEPT !.at = place, !.op = op, !.since = renewed]

LEMMA BegunTyped ==
    ASSUME McpInv, NEW place \in Places, NEW op \in {"none", "discover", "call", "reload"}
    PROVE  /\ Begun(place, op) \in PeerStates
           /\ Begun(place, op).at = place
           /\ Begun(place, op).since = renewed
  BY AtRestTyped, McpFacts DEF Begun, PeerStates

LEMMA BeginPreserves ==
    ASSUME McpInv, NEW p \in Peers, Discover(p) \/ LookAtStatus(p) \/ Call(p)
    PROVE  McpInv'
  <1>1. \E place \in {"look", "status", "lock"}, op \in {"discover", "call"} : Aside(p, Begun(place, op))
    <2>1. \E place \in {"look", "status", "lock"}, op \in {"discover", "call"} :
            peer' = [peer EXCEPT ![p] = Begun(place, op)]
      BY DEF Discover, LookAtStatus, Call, Begun
    <2>2. UNCHANGED <<transport, session, holder, openings, renewed, cachedTools, lastError, reloads>>
          /\ peer[p].at \in {"idle", "listed"}
      BY DEF Discover, LookAtStatus, Call
    <2>3. \A place \in {"look", "status", "lock"}, op \in {"discover", "call"} :
            /\ Begun(place, op) \in PeerStates
            /\ Begun(place, op).at = place
            /\ Begun(place, op).since = renewed
      BY BegunTyped DEF Places
    <2>4. PICK place \in {"look", "status", "lock"}, op \in {"discover", "call"} :
            peer' = [peer EXCEPT ![p] = Begun(place, op)]
      BY <2>1
    <2>5. Aside(p, Begun(place, op))
      BY <2>2, <2>3, <2>4, McpFacts DEF Aside, McpInv, Typed
    <2> QED
      BY <2>5
  <1> QED
    BY <1>1, AsidePreserves

(* A peer that only changes its place.                                     *)
LEMMA GotoTyped ==
    ASSUME NEW r \in PeerStates, NEW place \in Places
    PROVE  LET t == [r EXCEPT !.at = place] IN
             /\ t \in PeerStates /\ t.at = place /\ t.op = r.op /\ t.id = r.id
             /\ t.answer = r.answer /\ t.since = r.since /\ t.gen = r.gen
  BY DEF PeerStates

LEMMA LookPreserves ==
    ASSUME McpInv, NEW p \in Peers, Status(p) \/ Look(p) \/ ForgetError(p) \/ CacheList(p) \/ ReloadError(p)
    PROVE  McpInv'
  <1> DEFINE to(place) == [peer[p] EXCEPT !.at = place]
             seen == [peer[p] EXCEPT !.at = "listed", !.gen = cachedTools]
  <1>1. \A place \in Places :
           to(place) \in PeerStates /\ to(place).at = place /\ to(place).since = peer[p].since
           /\ to(place).id = peer[p].id /\ to(place).answer = peer[p].answer
    BY McpFacts, GotoTyped
  <1>2. seen \in PeerStates /\ seen.at = "listed" /\ seen.since = peer[p].since
    BY McpFacts DEF McpInv, Typed, PeerStates, Places
  <1>3. UNCHANGED <<transport, session, holder, openings, renewed, reloads>>
    BY DEF Status, Look, ForgetError, CacheList, ReloadError
  <1>4. cachedTools' \in 0..MaxOpenings /\ lastError' \in BOOLEAN /\ reloads' \in 0..MaxReloads
    BY McpFacts DEF Status, Look, ForgetError, CacheList, ReloadError, McpInv, Typed, PeerStates
  <1>5. peer[p].at \in {"status", "look", "clear", "cache", "forget"}
    BY DEF Status, Look, ForgetError, CacheList, ReloadError, At
  <1>6. \/ \E place \in {"look", "lock", "listed", "take"} : peer' = [peer EXCEPT ![p] = to(place)]
        \/ peer' = [peer EXCEPT ![p] = seen]
        \/ peer' = [peer EXCEPT ![p] = to("cache")] /\ peer[p].at = "clear"
    BY DEF Status, Look, ForgetError, CacheList, ReloadError, At, Goto
  <1> HIDE DEF to, seen
  <1>7. (\E place \in {"look", "lock", "listed", "take", "cache"} : Aside(p, to(place))) \/ Aside(p, seen)
    <2>1. peer[p].at = "clear" => peer[p].answer = peer[p].id
      BY DEF McpInv, AnswerOwn
    <2> QED
      BY <1>1, <1>2, <1>3, <1>4, <1>5, <1>6, <2>1, McpFacts DEF Aside, Places
  <1> QED
    BY <1>7, AsidePreserves

LEMMA RestPreserves ==
    ASSUME McpInv, NEW p \in Peers, Reload(p) \/ Leave(p)
    PROVE  McpInv'
  <1> DEFINE begun == [AtRest EXCEPT !.at = "forget", !.op = "reload"]
  <1>1. begun \in PeerStates /\ begun.at = "forget" /\ begun.since = 0
    BY AtRestTyped DEF PeerStates, Places
  <1>2. peer' = [peer EXCEPT ![p] = begun] \/ peer' = [peer EXCEPT ![p] = AtRest]
    BY DEF Reload, Leave
  <1>3. /\ UNCHANGED <<transport, session, holder, openings, renewed>>
        /\ cachedTools' \in 0..MaxOpenings /\ lastError' \in BOOLEAN /\ reloads' \in 0..MaxReloads
        /\ peer[p].at \in {"idle", "listed", "done"}
    BY McpAssumption DEF Reload, Leave, McpInv, Typed
  <1> HIDE DEF begun
  <1>4. Aside(p, begun) \/ Aside(p, AtRest)
    BY <1>1, <1>2, <1>3, AtRestTyped, McpFacts DEF Aside
  <1> QED
    BY <1>4, AsidePreserves

(***************************************************************************)
(* The steps of the peer that holds the session                            *)
(***************************************************************************)

LEMMA LockPreserves ==
    ASSUME McpInv, NEW p \in Peers, Lock(p)
    PROVE  McpInv'
  <1> DEFINE r == [peer[p] EXCEPT !.at = "locked"]
  <1>1. r \in PeerStates /\ r.at = "locked" /\ r.since = peer[p].since
    BY McpFacts DEF PeerStates, Places
  <1>2. peer' = [peer EXCEPT ![p] = r]
    BY DEF Lock, Goto
  <1> HIDE DEF r
  <1>3. Moves(p, r)
    BY <1>1, <1>2, McpFacts DEF Lock, Moves
  <1>4. Rest
    BY McpFacts DEF Lock, Rest, McpInv, Typed, Ages, StdioReady, Open
  <1> QED
    BY <1>3, <1>4, MovePreserves

LEMMA EnsurePreserves ==
    ASSUME McpInv, NEW p \in Peers, Ensure(p)
    PROVE  McpInv'
  <1> DEFINE s == [Unopened EXCEPT !.gen = openings + 1, !.up = TRUE]
  <1>1. openings + 1 \in 0..MaxOpenings /\ openings \in 0..MaxOpenings
    BY McpAssumption DEF Ensure, McpInv, Typed
  <1>2. \A u \in Sessions, g \in 0..MaxOpenings :
           /\ [u EXCEPT !.gen = g, !.up = TRUE] \in Sessions
           /\ [u EXCEPT !.gen = g, !.up = TRUE].gen = g
    BY DEF Sessions
  <1>3. session' = s /\ s \in Sessions /\ s.gen = openings + 1
    BY <1>1, <1>2, UnopenedTyped DEF Ensure
  <1> HIDE DEF s
  <1>4. peer' = [peer EXCEPT ![p] = peer[p]] /\ holder = p /\ holder' = p /\ peer[p].at = "locked"
    BY McpFacts DEF Ensure, McpInv, Typed
  <1>5. Moves(p, peer[p])
    BY <1>4, McpFacts DEF Ensure, Moves
  <1>6. Rest
    BY <1>1, <1>3, <1>4, McpFacts DEF Ensure, Rest, McpInv, Typed, StdioReady
  <1> QED
    BY <1>5, <1>6, MovePreserves

(* A holder that gives up and leaves the slot empty.                       *)
LEMMA GiveUpPreserves ==
    ASSUME McpInv, NEW p \in Peers, SpawnFails(p) \/ Fails(p) \/ TimeOut(p)
    PROVE  McpInv'
  <1>1. /\ peer' = [peer EXCEPT ![p] = AtRest] /\ holder = p /\ holder' = NoHolder
        /\ session' \in Sessions /\ session'.gen = 0
        /\ UNCHANGED <<transport, cachedTools, openings, reloads, renewed>> /\ lastError' = TRUE
    BY McpFacts, UnopenedTyped DEF SpawnFails, Fails, TimeOut, Open
  <1>2. Moves(p, AtRest)
    BY <1>1, McpFacts, AtRestTyped DEF Moves
  <1>3. Rest
    BY <1>1, McpFacts DEF Rest, McpInv, Typed, StdioReady, Open
  <1> QED
    BY <1>2, <1>3, MovePreserves

LEMMA AskPreserves ==
    ASSUME McpInv, NEW p \in Peers, Ask(p)
    PROVE  McpInv'
  <1> DEFINE r == [peer[p] EXCEPT !.at = "waiting", !.id = session.next]
  <1>1. session.next <= MaxRpc /\ session.next \in 0..MaxRpc
    BY McpFacts, McpAssumption DEF Ask, Sessions
  <1>2. r \in PeerStates /\ r.at = "waiting" /\ r.since = peer[p].since
    BY <1>1, McpFacts DEF PeerStates, Places
  <1>3. PICK heard \in BOOLEAN : session' = Sent(session, heard /\ session.up)
    BY DEF Ask
  <1>4. session' \in Sessions /\ session'.gen = session.gen /\ session'.ready = session.ready
    BY <1>1, <1>3, SentTyped, McpFacts DEF Sessions
  <1>5. peer' = [peer EXCEPT ![p] = r] /\ holder = p /\ holder' = p /\ session.gen # 0
        /\ UNCHANGED <<transport, cachedTools, lastError, openings, reloads, renewed>>
    BY McpFacts DEF Ask, Open
  <1> HIDE DEF r
  <1>6. Moves(p, r)
    BY <1>2, <1>4, <1>5, McpFacts DEF Moves
  <1>7. Rest
    BY <1>4, <1>5, McpFacts DEF Rest, McpInv, Typed, StdioReady, Ages, Open
  <1> QED
    BY <1>6, <1>7, MovePreserves

LEMMA InitializedPreserves ==
    ASSUME McpInv, NEW p \in Peers, Initialized(p)
    PROVE  McpInv'
  <1> DEFINE r == [peer[p] EXCEPT !.at = "locked"]
  <1>1. r \in PeerStates /\ r.at = "locked" /\ r.since = peer[p].since
    BY McpFacts DEF PeerStates, Places
  <1>2. PICK i \in Accepted(session, peer[p].id) : session' = [Behind(session, i) EXCEPT !.ready = TRUE]
    BY DEF Initialized
  <1>3. Behind(session, i) \in Sessions /\ Behind(session, i).gen = session.gen
    BY McpFacts, BehindTyped DEF Accepted
  <1>4. session' \in Sessions /\ session'.gen = session.gen
    BY <1>2, <1>3 DEF Sessions
  <1>5. peer' = [peer EXCEPT ![p] = r] /\ holder = p /\ holder' = p
        /\ UNCHANGED <<transport, cachedTools, lastError, openings, reloads, renewed>>
    BY McpFacts DEF Initialized, Goto
  <1> HIDE DEF r
  <1>6. Moves(p, r)
    BY <1>1, <1>4, <1>5, McpFacts DEF Moves
  <1>7. Rest
    BY <1>4, <1>5, McpFacts DEF Rest, McpInv, Typed, StdioReady, Ages, Open
  <1> QED
    BY <1>6, <1>7, MovePreserves

(* The answer taken from the pipe carries the caller's own id and comes    *)
(* from the open session, which is younger than the caller's last reload.  *)
LEMMA AnsweredPreserves ==
    ASSUME McpInv, NEW p \in Peers, CallAnswered(p) \/ ListAnswered(p)
    PROVE  McpInv'
  <1>1. PICK i \in Accepted(session, peer[p].id), place \in {"done", "clear"} :
           /\ session' = Behind(session, i)
           /\ peer' = [peer EXCEPT ![p] = [peer[p] EXCEPT !.at = place, !.answer = session.pipe[i],
                                                          !.gen = session.gen]]
    BY ZenonT(60) DEF CallAnswered, ListAnswered
  <1> DEFINE r == [peer[p] EXCEPT !.at = place, !.answer = session.pipe[i], !.gen = session.gen]
  <1>2. /\ session' \in Sessions /\ session'.gen = session.gen /\ session'.ready = session.ready
        /\ session.pipe[i] \in Ids /\ session.pipe[i] = peer[p].id
    BY <1>1, McpFacts, BehindTyped DEF Accepted
  <1>3. r \in PeerStates /\ r.at = place /\ r.since = peer[p].since /\ r.gen = session.gen
        /\ r.answer = r.id
    BY <1>2, McpFacts DEF PeerStates, Places, Ids
  <1>4. /\ peer[p].at = "waiting" /\ holder = p /\ holder' = NoHolder /\ session.ready
        /\ UNCHANGED <<transport, cachedTools, openings, reloads, renewed>>
        /\ lastError' \in BOOLEAN
    BY McpFacts DEF CallAnswered, ListAnswered, At, McpInv, Typed
  <1>5. session.gen > renewed
    BY <1>4, McpFacts DEF McpInv, WaitsOpen, Ages
  <1>6. session.gen > peer[p].since
    BY <1>5, McpFacts DEF PeerStates
  <1> HIDE DEF r
  <1>7. Moves(p, r)
    BY <1>1, <1>2, <1>3, <1>4, <1>6, McpFacts DEF Moves, r
  <1>8. Rest
    BY <1>2, <1>4, McpFacts DEF Rest, McpInv, Typed, StdioReady, Ages, Open
  <1> QED
    BY <1>7, <1>8, MovePreserves

LEMMA HangUpPreserves ==
    ASSUME McpInv, NEW p \in Peers, HangUp(p)
    PROVE  McpInv'
  <1>1. PICK torn \in BOOLEAN :
           /\ torn => (peer[p].at = "waiting" /\ Accepted(session, peer[p].id) # {})
           /\ session' = CASE holder # p -> session
                           [] holder = p /\ peer[p].at = "waiting" -> Forgotten(session, peer[p].id, torn)
                           [] holder = p /\ peer[p].at # "waiting" -> Abandoned(session)
    BY DEF HangUp
  <1>2. transport \in {"stdio", "http"}
    BY DEF McpInv, Typed
  <1>3. CASE holder # p
    <2>1. Aside(p, AtRest)
      BY <1>1, <1>3, McpFacts, AtRestTyped DEF HangUp, Aside, McpInv, Typed
    <2> QED
      BY <2>1, AsidePreserves
  <1>4. CASE holder = p
    <2>1. session' \in {Forgotten(session, peer[p].id, torn), Abandoned(session)}
      BY <1>1, <1>4
    <2>2. /\ session' \in Sessions
          /\ session'.gen \in {0, session.gen}
          /\ (transport = "stdio" /\ session'.gen # 0) => session'.ready
      BY <1>1, <1>2, <2>1, McpFacts, ForgottenTyped, AbandonedTyped
    <2>3. /\ peer' = [peer EXCEPT ![p] = AtRest] /\ holder' = NoHolder
          /\ UNCHANGED <<transport, cachedTools, lastError, openings, reloads, renewed>>
      BY <1>4 DEF HangUp
    <2>4. Moves(p, AtRest)
      BY <1>4, <2>3, McpFacts, AtRestTyped DEF Moves
    <2>5. Rest
      BY <2>2, <2>3, McpFacts DEF Rest, McpInv, Typed, StdioReady, Ages, Open
    <2> QED
      BY <2>4, <2>5, MovePreserves
  <1> QED
    BY <1>3, <1>4

LEMMA ReloadSessionPreserves ==
    ASSUME McpInv, NEW p \in Peers, ReloadSession(p)
    PROVE  McpInv'
  <1>1. /\ session' \in Sessions /\ session'.gen = 0 /\ holder = NoHolder /\ renewed' = openings
        /\ peer' = [peer EXCEPT ![p] = AtRest]
        /\ UNCHANGED <<transport, holder, cachedTools, lastError, openings, reloads>>
    BY UnopenedTyped DEF ReloadSession, Taken
  <1>2. Moves(p, AtRest)
    BY <1>1, McpFacts, AtRestTyped DEF Moves
  <1>3. Rest
    BY <1>1, McpFacts DEF Rest, McpInv, Typed, StdioReady, Open
  <1> QED
    BY <1>2, <1>3, MovePreserves

(***************************************************************************)
(* The steps of the server                                                 *)
(***************************************************************************)

LEMMA ServerPreserves ==
    ASSUME McpInv, Answer \/ Exits
    PROVE  McpInv'
  <1>1. session.asked \in Seq(Ids) /\ session.pipe \in Seq(Ids)
    BY McpFacts DEF Sessions
  <1>2. session' \in Sessions /\ session'.gen = session.gen /\ session'.ready = session.ready
    <2>1. CASE Answer
      <3>1. Tail(session.asked) \in Seq(Ids) /\ Head(session.asked) \in Ids
        BY <1>1, <2>1, HeadTailProperties DEF Answer
      <3>2. Append(session.pipe, Head(session.asked)) \in Seq(Ids)
        BY <1>1, <3>1, AppendProperties
      <3> QED
        BY <2>1, <3>1, <3>2, McpFacts DEF Answer, Sessions
    <2>2. CASE Exits
      BY <2>2, McpFacts, EmptySeq DEF Exits, Sessions
    <2> QED
      BY <2>1, <2>2
  <1>3. UNCHANGED <<transport, holder, cachedTools, lastError, openings, reloads, renewed, peer>>
    BY DEF Answer, Exits
  <1> QED
    BY <1>2, <1>3 DEF McpInv, Typed, Mutex, WaitsOpen, StdioReady, Ages, AnswerOwn, SessionRenewed, Open

LEMMA McpStep == McpInv /\ [McpNext]_mcpVars => McpInv'
  <1> SUFFICES ASSUME McpInv, [McpNext]_mcpVars PROVE McpInv'
    OBVIOUS
  <1>1. ASSUME NEW p \in Peers, Proceeds(p) PROVE McpInv'
    BY <1>1, LookPreserves, LockPreserves, EnsurePreserves, AskPreserves, InitializedPreserves,
       AnsweredPreserves, GiveUpPreserves, ReloadSessionPreserves DEF Proceeds, Takes
  <1>2. ASSUME NEW p \in Peers, Discover(p) \/ LookAtStatus(p) \/ Call(p) \/ SpawnFails(p)
                                \/ HangUp(p) \/ Reload(p) \/ Leave(p)
        PROVE  McpInv'
    BY <1>2, BeginPreserves, GiveUpPreserves, HangUpPreserves, RestPreserves
  <1>3. CASE UNCHANGED mcpVars
    BY <1>3 DEF mcpVars, McpInv, Typed, Mutex, WaitsOpen, StdioReady, Ages, AnswerOwn, SessionRenewed, Open
  <1> QED
    BY <1>1, <1>2, <1>3, ServerPreserves DEF McpNext

(***************************************************************************)
(* The theorem                                                             *)
(***************************************************************************)

(* A tool call or a discovery is handed the answer to its own request,     *)
(* whatever dropped requests left in the pipe, and a call that began after *)
(* a reload is answered by a session opened after it; the session's mutex  *)
(* is held exactly by the peer in the middle of a request                  *)
(* (StdioSession::request, McpServerHandle::reload).                       *)
THEOREM McpAnswersMatched == McpSpec => []AnswersMatched
  <1>1. McpInv => AnswersMatched
    BY DEF McpInv, AnswersMatched, McpTypeOK, Typed, Sessions, Ids, Mutex, StdioReady, Ages
  <1>2. McpInit => McpInv
    BY McpInitInv
  <1>3. McpInv /\ [McpNext]_mcpVars => McpInv'
    BY McpStep
  <1> QED
    BY <1>1, <1>2, <1>3, PTL DEF McpSpec

(***************************************************************************)
(* Session bundles: what an event says of its history                      *)
(***************************************************************************)

AnyContent == Contents \cup {None, "missing"}
LiveEvents == [id : Nat, branch : Branches, chunk : Nat]
PortableEvents == [id : Nat, branch : Branches, content : AnyContent]
ChunkReferences == [ordinal : Nat, event : Nat, branch : Branches, content : AnyContent]

(* A log of the session: every log that is not empty starts with the event *)
(* that created the session, and ids were handed out.                      *)
LogOK(l, n) ==
    /\ l \in Seq(PortableEvents)
    /\ l # <<>> => l[1] = PortableEvent(1, Main, None)
    /\ \A i \in 1..Len(l) : l[i].id \in 1..n

(* An event that two logs have is at the same place, after the same events. *)
Agree(l, m) ==
    \A i \in 1..Len(l), j \in 1..Len(m) :
        l[i].id = m[j].id => i = j /\ \A k \in 1..i : l[k] = m[k]

Consistent(L, n) == \A l \in L : LogOK(l, n) /\ \A m \in L : Agree(l, m)

(* The portable form of a session's rows, and of a read-out of them.       *)
LogOf(s) == PortableLog(s.events, s.chunks)
ReadOut(r) == PortableLog(export[r].events, store[r].chunks)

(* Every log of the session there is, on any machine or in the registry.   *)
Logs == {LogOf(store[r]) : r \in Replicas}
          \cup {ReadOut(r) : r \in {q \in Replicas : export[q].phase = "chunks"}}
          \cup {dir[r].events : r \in Replicas}
          \cup {x.events : x \in remote.bundles}

(***************************************************************************)
(* Session bundles: the inductive invariant                                *)
(***************************************************************************)

(* Chunk rows: their ids are numbers, their contents are known.            *)
ChunkRowsOK(chunks) ==
    /\ IsFiniteSet(DOMAIN chunks) /\ DOMAIN chunks \subseteq Nat \ {0}
    /\ \A c \in DOMAIN chunks : chunks[c] \in AnyContent

ChunksStored(events, chunks) ==
    \A i \in 1..Len(events) : events[i].chunk # 0 => events[i].chunk \in DOMAIN chunks

(* The rows s of a session, with branches among B.                         *)
SessionOK(s, B) ==
    /\ DOMAIN s = {"events", "branches", "chunks", "origin"}
    /\ s.events \in Seq(LiveEvents)
    /\ DOMAIN s.branches \subseteq B
    /\ \A i \in 1..Len(s.events) : s.events[i].branch \in DOMAIN s.branches
    /\ ChunkRowsOK(s.chunks) /\ ChunksStored(s.events, s.chunks)
    /\ s.branches # <<>> => s.events # <<>>
    /\ s.origin \in Seq(PortableEvents) /\ IsPrefix(s.origin, LogOf(s))

ForkOK(r) ==
    /\ fork[r].phase \in {"idle", "default", "event"}
    /\ fork[r].phase = "idle" => fork[r] = IdleFork
    /\ fork[r].phase # "idle" =>
          /\ DOMAIN fork[r] = {"phase", "branch"}
          /\ fork[r].branch \in DOMAIN store[r].branches
          /\ store[r].events # <<>>

ExportOK(r) ==
    /\ export[r].phase \in {"idle", "events", "chunks"}
    /\ export[r].phase = "idle" => export[r] = IdleExport
    /\ export[r].phase # "idle" =>
          store[r].events # <<>> /\ DOMAIN export[r].rows \subseteq minted.branches
    /\ export[r].phase = "chunks" =>
          /\ export[r].events \in Seq(LiveEvents) /\ export[r].events # <<>>
          /\ ChunksStored(export[r].events, store[r].chunks)

(* A bundle directory, valid or not, with branches among B.                *)
BundleOK(b, B) ==
    /\ b.refs \subseteq ChunkReferences /\ IsFiniteSet(b.refs)
    /\ DOMAIN b.branches \subseteq B
    /\ b.written => b.events # <<>>

(* A push works on its machine's directory, holds the lock and therefore   *)
(* knows the registry's heads; the one it moves is the end of a prefix.    *)
PushOK(r) ==
    LET p == push[r]
    IN /\ p.phase \in {"idle", "copy", "write", "report"}
       /\ p.phase = "idle" => p = IdlePush
       /\ p.phase # "idle" =>
             /\ DOMAIN p = {"phase", "branch", "bundle", "head", "heads", "default"}
             /\ remote.lock = r /\ export[r] = IdleExport
             /\ p.bundle = dir[r] /\ Valid(p.bundle)
             /\ p.branch \in DOMAIN p.bundle.branches
             /\ p.head = p.bundle.branches[p.branch].head /\ p.head # NoEvent
       /\ p.phase \in {"copy", "write"} =>
             /\ p.heads = Heads /\ p.default = remote.default
             /\ p.branch \in DOMAIN Heads /\ Heads[p.branch].event # p.head =>
                   IsPrefix(Heads[p.branch].hash.events, p.bundle.events)
       /\ p.phase = "write" => \E x \in remote.bundles : Hash(x) = Hash(p.bundle)
       /\ p.phase = "report" =>
             /\ p.branch \in DOMAIN Heads
             /\ \E i \in 1..Len(Heads[p.branch].hash.events) :
                   Heads[p.branch].hash.events[i].id = p.head

RegistryOK ==
    /\ DOMAIN remote = {"lock", "heads", "default", "bundles"}
    /\ remote.lock \in {None} \cup Replicas
    /\ \A x \in remote.bundles : Valid(x) /\ BundleOK(x, minted.branches)
    /\ \A b \in DOMAIN Heads : Heads[b].event # NoEvent
    /\ HeadsResolve

CountsOK ==
    /\ scope \in Scopes
    /\ minted \in [events : 1..scope.events, branches : SUBSET Branches,
                   dirs : 0..scope.dirs, forks : 0..scope.forks]
    /\ Main \in minted.branches
    /\ crashes \in 0..scope.crashes
    /\ DOMAIN store = Replicas /\ DOMAIN fork = Replicas /\ DOMAIN export = Replicas
    /\ DOMAIN dir = Replicas /\ DOMAIN push = Replicas

BundlesInv ==
    /\ CountsOK
    /\ \A r \in Replicas : /\ SessionOK(store[r], minted.branches)
                           /\ ForkOK(r) /\ ExportOK(r) /\ PushOK(r)
                           /\ BundleOK(dir[r], minted.branches)
    /\ RegistryOK
    /\ AcceptedKept
    /\ Consistent(Logs, minted.events)

(***************************************************************************)
(* Session bundles: logs                                                   *)
(***************************************************************************)

LEMMA LogsFewer ==
    ASSUME NEW L, NEW n \in Nat, Consistent(L, n), NEW M, M \subseteq L,
           NEW k \in Nat, n <= k
    PROVE  Consistent(M, k)
  <1>1. \A l \in M : LogOK(l, k)
    BY DEF Consistent, LogOK
  <1> QED
    BY <1>1 DEF Consistent

(* Log a is log l with one more event, whose id is id.                     *)
LogGrows(l, a, id) ==
    l # <<>> /\ \E e \in PortableEvents : e.id = id /\ a = Append(l, e)

(* A log goes on with an event that no log has.                            *)
LEMMA LogAppended ==
    ASSUME NEW L, NEW n \in Nat, Consistent(L, n), NEW l \in L,
           NEW a, LogGrows(l, a, n + 1)
    PROVE  Consistent(L \cup {a}, n + 1)
  <1>1. PICK e \in PortableEvents : e.id = n + 1 /\ a = Append(l, e)
    BY DEF LogGrows
  <1>2. l \in Seq(PortableEvents) /\ l[1] = PortableEvent(1, Main, None) /\ Len(l) \in Nat \ {0}
    BY EmptySeq DEF Consistent, LogOK, LogGrows
  <1>3. /\ a \in Seq(PortableEvents) /\ Len(a) = Len(l) + 1
        /\ \A i \in 1..Len(l) : a[i] = l[i]
        /\ a[Len(l) + 1] = e
    BY <1>1, <1>2, AppendProperties
  <1>4. LogOK(a, n + 1)
    <2>1. \A i \in 1..Len(l) : l[i].id \in 1..n
      BY DEF Consistent, LogOK
    <2> QED
      BY <1>1, <1>2, <1>3, <2>1 DEF LogOK
  <1>5. \A m \in L : LogOK(m, n + 1) /\ (\A j \in 1..Len(m) : m[j].id # e.id) /\ Len(m) \in Nat
    BY <1>1, LenProperties DEF Consistent, LogOK
  <1>6. \A m \in L : Agree(l, m) /\ Agree(m, l)
    BY DEF Consistent
  <1>7. \A m \in L : Agree(a, m)
    BY <1>1, <1>2, <1>3, <1>5, <1>6 DEF Agree
  <1>8. \A m \in L : Agree(m, a)
    BY <1>1, <1>2, <1>3, <1>5, <1>6 DEF Agree
  <1>9. Agree(a, a)
    BY <1>1, <1>2, <1>3, <1>5, <1>6 DEF Agree
  <1> QED
    BY <1>4, <1>5, <1>7, <1>8, <1>9 DEF Consistent

LEMMA PrefixPointwise ==
    ASSUME NEW S, NEW s \in Seq(S), NEW t \in Seq(S)
    PROVE  IsPrefix(s, t) <=> Len(s) <= Len(t) /\ \A i \in 1..Len(s) : s[i] = t[i]
  <1>1. Len(s) \in Nat /\ Len(t) \in Nat
    BY LenProperties
  <1>2. SubSeq(s, 1, Len(s)) = s
    BY SubSeqFull
  <1>3. ASSUME Len(s) <= Len(t)
        PROVE  /\ SubSeq(t, 1, Len(s)) \in Seq(S) /\ Len(SubSeq(t, 1, Len(s))) = Len(s)
               /\ \A i \in 1..Len(s) : SubSeq(t, 1, Len(s))[i] = t[i]
    <2>1. \A i \in 1..Len(s) : t[i] \in S
      BY <1>1, <1>3, ElementOfSeq
    <2> QED
      BY <1>1, <2>1, SubSeqProperties
  <1>4. ASSUME Len(s) <= Len(t), \A i \in 1..Len(s) : s[i] = t[i]
        PROVE  s = SubSeq(t, 1, Len(s))
    <2> DEFINE u == SubSeq(t, 1, Len(s))
    <2>1. u \in Seq(S) /\ Len(s) = Len(u) /\ \A i \in 1..Len(s) : s[i] = u[i]
      BY <1>3, <1>4
    <2> HIDE DEF u
    <2>2. s = u
      BY <2>1, SeqEqual
    <2> QED
      BY <2>2 DEF u
  <1> QED
    BY <1>2, <1>3, <1>4 DEF IsPrefix

LEMMA EmptyPrefix ==
    ASSUME NEW S, NEW t \in Seq(S)
    PROVE  IsPrefix(<<>>, t)
  <1>1. <<>> \in Seq(S) /\ Len(<<>>) = 0 /\ Len(t) \in Nat
    BY EmptySeq, LenProperties
  <1>2. Len(<<>>) <= Len(t) /\ \A i \in 1..Len(<<>>) : <<>>[i] = t[i]
    BY <1>1
  <1> QED
    BY <1>1, <1>2, PrefixPointwise

LEMMA PrefixAppended ==
    ASSUME NEW S, NEW s \in Seq(S), NEW t \in Seq(S), IsPrefix(s, t), NEW e \in S
    PROVE  IsPrefix(s, Append(t, e))
  <1>1. /\ Len(s) \in Nat /\ Len(t) \in Nat
        /\ Append(t, e) \in Seq(S) /\ Len(Append(t, e)) = Len(t) + 1
        /\ \A i \in 1..Len(t) : Append(t, e)[i] = t[i]
    BY LenProperties, AppendProperties
  <1>2. Len(s) <= Len(t) /\ \A i \in 1..Len(s) : s[i] = t[i]
    BY PrefixPointwise
  <1>3. Len(s) <= Len(Append(t, e)) /\ \A i \in 1..Len(s) : s[i] = Append(t, e)[i]
    BY <1>1, <1>2
  <1> QED
    BY <1>1, <1>3, PrefixPointwise

(* The portable form of rows whose chunks are there.                       *)
LEMMA PortableLogTyped ==
    ASSUME NEW s \in Seq(LiveEvents), NEW chunks, ChunkRowsOK(chunks), ChunksStored(s, chunks)
    PROVE  /\ PortableLog(s, chunks) \in Seq(PortableEvents)
           /\ Len(PortableLog(s, chunks)) = Len(s)
           /\ \A i \in 1..Len(s) :
                 /\ PortableLog(s, chunks)[i] = Portable(s[i], chunks)
                 /\ PortableLog(s, chunks)[i].id = s[i].id
                 /\ PortableLog(s, chunks)[i].branch = s[i].branch
  <1> DEFINE l == PortableLog(s, chunks)
             n == Len(s)
  <1>1. n \in Nat /\ \A i \in 1..n : s[i] \in LiveEvents
    BY LenProperties, ElementOfSeq
  <1>2. \A i \in 1..n : Portable(s[i], chunks) \in PortableEvents
    BY <1>1 DEF Portable, PortableEvent, PortableEvents, LiveEvents, AnyContent,
                ChunkRowsOK, ChunksStored
  <1>3. l \in [1..n -> PortableEvents]
    BY <1>2 DEF PortableLog
  <1>4. l \in Seq(PortableEvents)
    BY <1>1, <1>3, SeqDef
  <1>5. Len(l) = n
    BY <1>1, <1>3, <1>4, LenProperties
  <1>6. \A i \in 1..n : l[i] = Portable(s[i], chunks)
    BY DEF PortableLog
  <1> QED
    BY <1>4, <1>5, <1>6 DEF Portable, PortableEvent

(* More chunk rows do not change what is said by events that are there.    *)
LEMMA PortableLogStable ==
    ASSUME NEW s \in Seq(LiveEvents), NEW chunks, NEW more,
           ChunksStored(s, chunks), DOMAIN chunks \subseteq DOMAIN more,
           \A c \in DOMAIN chunks : more[c] = chunks[c]
    PROVE  /\ PortableLog(s, more) = PortableLog(s, chunks)
           /\ ChunksStored(s, more)
  <1>1. \A i \in 1..Len(s) : Portable(s[i], more) = Portable(s[i], chunks)
    BY DEF Portable, ChunksStored
  <1> QED
    BY <1>1 DEF PortableLog, ChunksStored

(***************************************************************************)
(* Session bundles: heads, chunk references, imports                       *)
(***************************************************************************)

LEMMA LastPosition ==
    ASSUME NEW n \in Nat, NEW S \in SUBSET (1..n), S # {}
    PROVE  \E x \in S : \A y \in S : y <= x
  <1> DEFINE R == {m \in Nat : \A y \in S : y <= m}
  <1>1. n \in R
    OBVIOUS
  <1>2. PICK m \in R : \A k \in R : ~(<<k, m>> \in OpToRel(<, Nat))
    BY <1>1, WFMin, NatLessThanWellFounded, Zenon DEF R
  <1>3. \A k \in R : ~(k < m)
    BY <1>2 DEF OpToRel
  <1>4. m \in S
    <2> SUFFICES ASSUME m \notin S PROVE FALSE
      OBVIOUS
    <2>1. PICK y \in S : TRUE
      OBVIOUS
    <2>2. \A z \in S : z <= m - 1
      OBVIOUS
    <2>3. m - 1 \in R
      BY <2>1, <2>2
    <2> QED
      BY <1>3, <2>3
  <1> QED
    BY <1>4

(* A branch's tip is an event of the branch.                               *)
LEMMA TipIsEvent ==
    ASSUME NEW s, NEW b, Len(s) \in Nat, TipOf(s, b) # NoEvent
    PROVE  \E i \in 1..Len(s) : s[i].branch = b /\ s[i].id = TipOf(s, b)
  <1> DEFINE own == {i \in 1..Len(s) : s[i].branch = b}
             last == CHOOSE i \in own : \A j \in own : j <= i
  <1>1. own # {} /\ TipOf(s, b) = s[last].id
    BY DEF TipOf
  <1>2. \E x \in own : \A y \in own : y <= x
    BY <1>1, LastPosition
  <1>3. last \in own
    BY <1>2
  <1> QED
    BY <1>1, <1>3

LEMMA FiniteValues ==
    ASSUME NEW S, IsFiniteSet(S), NEW f, DOMAIN f = S, NEW T, T = {f[x] : x \in S},
           f = [x \in S |-> f[x]]
    PROVE  IsFiniteSet(T)
  <1>1. f \in Surjection(S, T)
    BY DEF Surjection
  <1> QED
    BY <1>1, FS_Surjection

LEMMA ChunkRefsTyped ==
    ASSUME NEW s \in Seq(LiveEvents), NEW chunks, ChunkRowsOK(chunks), ChunksStored(s, chunks)
    PROVE  ChunkRefs(s, chunks) \subseteq ChunkReferences /\ IsFiniteSet(ChunkRefs(s, chunks))
  <1> DEFINE used == {i \in 1..Len(s) : s[i].chunk # 0}
             Ref(i) == [ordinal |-> Ordinal(chunks, s[i].chunk), event |-> s[i].id,
                        branch |-> s[i].branch, content |-> chunks[s[i].chunk]]
             f == [i \in used |-> Ref(i)]
  <1>1. Len(s) \in Nat /\ \A i \in 1..Len(s) : s[i] \in LiveEvents
    BY LenProperties, ElementOfSeq
  <1>2. ChunkRefs(s, chunks) = {Ref(i) : i \in used}
    BY DEF ChunkRefs
  <1>3. ASSUME NEW i \in used PROVE Ref(i) \in ChunkReferences
    <2>1. Ordinal(chunks, s[i].chunk) \in Nat
      <3>1. {x \in DOMAIN chunks : x < s[i].chunk} \in SUBSET DOMAIN chunks
        OBVIOUS
      <3>2. IsFiniteSet({x \in DOMAIN chunks : x < s[i].chunk})
        BY <3>1, FS_Subset DEF ChunkRowsOK
      <3> QED
        BY <3>2, FS_CardinalityType DEF Ordinal
    <2>2. s[i] \in LiveEvents /\ chunks[s[i].chunk] \in AnyContent
      BY <1>1, <1>3 DEF ChunkRowsOK, ChunksStored
    <2> QED
      BY <2>1, <2>2 DEF LiveEvents, ChunkReferences
  <1>4. IsFiniteSet(used)
    <2>1. IsFiniteSet(1..Len(s))
      BY <1>1, FS_Interval
    <2> QED
      BY <2>1, FS_Subset
  <1>5. DOMAIN f = used /\ f = [i \in used |-> f[i]] /\ {Ref(i) : i \in used} = {f[i] : i \in used}
    OBVIOUS
  <1> HIDE DEF f, used, Ref
  <1>6. IsFiniteSet({Ref(i) : i \in used})
    BY <1>4, <1>5, FiniteValues
  <1> QED
    BY <1>2, <1>3, <1>6

(* Chunk ids are handed out in the order of the ordinals.                  *)
LEMMA LocalChunkRanks ==
    ASSUME NEW b, NEW B, BundleOK(b, B)
    PROVE  /\ \A ref \in b.refs : LocalChunk(b, ref.ordinal) \in Nat \ {0}
           /\ \A ref, other \in b.refs :
                 LocalChunk(b, ref.ordinal) = LocalChunk(b, other.ordinal)
                   => ref.ordinal = other.ordinal
  <1> DEFINE ordinals == {ref.ordinal : ref \in b.refs}
             UpTo(o) == {p \in ordinals : p <= o}
             f == [ref \in b.refs |-> ref.ordinal]
  <1>1. ordinals \subseteq Nat
    BY DEF BundleOK, ChunkReferences
  <1>2. IsFiniteSet(ordinals)
    <2>1. DOMAIN f = b.refs /\ f = [ref \in b.refs |-> f[ref]] /\ ordinals = {f[ref] : ref \in b.refs}
      OBVIOUS
    <2> HIDE DEF f, ordinals
    <2> QED
      BY <2>1, FiniteValues DEF BundleOK
  <1>3. \A o : LocalChunk(b, o) = 1 + Cardinality(UpTo(o))
    BY DEF LocalChunk, ImportShift
  <1>4. \A o : IsFiniteSet(UpTo(o)) /\ Cardinality(UpTo(o)) \in Nat
    <2>1. \A o : UpTo(o) \in SUBSET ordinals
      OBVIOUS
    <2> HIDE DEF ordinals, UpTo
    <2>2. \A o : IsFiniteSet(UpTo(o))
      BY <1>2, <2>1, FS_Subset
    <2> QED
      BY <2>2, FS_CardinalityType
  <1>5. ASSUME NEW o \in ordinals, NEW p \in ordinals, o < p
        PROVE  Cardinality(UpTo(o)) # Cardinality(UpTo(p))
    <2>1. UpTo(o) \in SUBSET UpTo(p) /\ p \in UpTo(p) /\ p \notin UpTo(o)
      BY <1>1, <1>5
    <2> HIDE DEF UpTo, ordinals
    <2> QED
      BY <1>4, <2>1, FS_Subset
  <1>6. \A ref \in b.refs : ref.ordinal \in ordinals
    OBVIOUS
  <1> HIDE DEF ordinals, UpTo
  <1>7. ASSUME NEW o \in ordinals, NEW p \in ordinals, LocalChunk(b, o) = LocalChunk(b, p)
        PROVE  o = p
    <2>1. Cardinality(UpTo(o)) = Cardinality(UpTo(p))
      BY <1>3, <1>4, <1>7
    <2> QED
      BY <1>1, <1>5, <2>1
  <1> QED
    BY <1>3, <1>4, <1>6, <1>7

(* The chunk row that an imported event refers to has the content that the *)
(* event came with.                                                        *)
LEMMA ImportedEvent ==
    ASSUME NEW b, NEW B, Valid(b), BundleOK(b, B), b.events \in Seq(PortableEvents),
           NEW i \in 1..Len(b.events)
    PROVE  LET e == LiveEvent(b, b.events[i])
           IN /\ e \in LiveEvents
              /\ e.chunk # 0 => e.chunk \in DOMAIN ImportedChunks(b)
              /\ Portable(e, ImportedChunks(b)) = b.events[i]
  <1> DEFINE p == b.events[i]
             ref == RefOf(b, p.id)
             Of(id) == CHOOSE r \in b.refs : LocalChunk(b, r.ordinal) = id
  <1>1. p \in PortableEvents
    BY ElementOfSeq
  <1>2. CASE p.content = None
    <2>1. LiveEvent(b, p) = [id |-> p.id, branch |-> p.branch, chunk |-> 0]
      BY <1>2 DEF LiveEvent
    <2> QED
      BY <1>1, <1>2, <2>1 DEF PortableEvents, LiveEvents, Portable, PortableEvent
  <1>3. CASE p.content # None
    <2>1. LiveEvent(b, p) = [id |-> p.id, branch |-> p.branch, chunk |-> LocalChunk(b, ref.ordinal)]
      BY <1>3 DEF LiveEvent
    <2>2. ref \in b.refs /\ ref.event = p.id
      <3>1. \E r \in b.refs : r.event = p.id
        BY <1>3 DEF Valid, ValidChunkRefs
      <3> QED
        BY <3>1 DEF RefOf
    <2>3. ref.content = p.content
      <3>1. EventOf(b, p.id) = i
        <4>1. \A j, k \in 1..Len(b.events) : b.events[j].id = b.events[k].id => j = k
          BY DEF Valid, ValidEvents
        <4> QED
          BY <4>1 DEF EventOf
      <3>2. b.events[EventOf(b, ref.event)].content = ref.content
        BY <2>2 DEF Valid, ValidChunkRefs
      <3> QED
        BY <2>2, <3>1, <3>2
    <2> DEFINE c == LocalChunk(b, ref.ordinal)
    <2>4. c \in Nat \ {0}
      BY <2>2, LocalChunkRanks
    <2>5. c \in DOMAIN ImportedChunks(b) /\ ImportedChunks(b)[c] = Of(c).content
      BY <2>2 DEF ImportedChunks
    <2>6. Of(c) \in b.refs /\ LocalChunk(b, Of(c).ordinal) = c
      BY <2>2
    <2>7. Of(c).ordinal = ref.ordinal
      BY <2>2, <2>6, LocalChunkRanks
    <2>8. Of(c).content = ref.content
      BY <2>2, <2>6, <2>7 DEF Valid, ValidChunkRefs
    <2> HIDE DEF c, Of
    <2>9. Portable(LiveEvent(b, p), ImportedChunks(b)) = PortableEvent(p.id, p.branch, p.content)
      BY <2>1, <2>3, <2>4, <2>5, <2>8 DEF Portable, c
    <2> QED
      BY <1>1, <2>1, <2>4, <2>5, <2>9 DEF PortableEvents, LiveEvents, PortableEvent, c
  <1> QED
    BY <1>2, <1>3

(* What an import stores is what the bundle says.                          *)
LEMMA ImportedOK ==
    ASSUME NEW b, NEW B, Valid(b), BundleOK(b, B), b.events \in Seq(PortableEvents)
    PROVE  /\ SessionOK(ImportedStore(b), B)
           /\ LogOf(ImportedStore(b)) = b.events
           /\ ImportedStore(b).events # <<>>
  <1> DEFINE s == ImportedStore(b)
             n == Len(b.events)
  <1>1. s = [events |-> LiveLog(b), branches |-> ImportedBranches(b),
             chunks |-> ImportedChunks(b), origin |-> b.events]
    BY DEF ImportedStore
  <1>2. /\ DOMAIN s = {"events", "branches", "chunks", "origin"}
        /\ s.events = LiveLog(b) /\ s.branches = ImportedBranches(b)
        /\ s.chunks = ImportedChunks(b) /\ s.origin = b.events
    BY <1>1
  <1> HIDE DEF s
  <1>3. n \in Nat
    BY LenProperties
  <1>4. LiveLog(b) \in Seq(LiveEvents) /\ Len(LiveLog(b)) = n
    <2>1. LiveLog(b) \in [1..n -> LiveEvents]
      BY ImportedEvent DEF LiveLog
    <2>2. LiveLog(b) \in Seq(LiveEvents)
      BY <1>3, <2>1, SeqDef
    <2> QED
      BY <1>3, <2>1, <2>2, LenProperties
  <1>5. \A i \in 1..n :
           /\ LiveLog(b)[i] = LiveEvent(b, b.events[i])
           /\ LiveLog(b)[i].branch = b.events[i].branch
    BY DEF LiveLog, LiveEvent
  <1>6. /\ DOMAIN ImportedBranches(b) = DOMAIN b.branches
        /\ \A i \in 1..n : b.events[i].branch \in DOMAIN b.branches
    BY DEF ImportedBranches, Valid, ValidBranches
  <1>7. ChunkRowsOK(ImportedChunks(b))
    <2> DEFINE ids == {LocalChunk(b, ref.ordinal) : ref \in b.refs}
               f == [ref \in b.refs |-> LocalChunk(b, ref.ordinal)]
               Of(id) == CHOOSE ref \in b.refs : LocalChunk(b, ref.ordinal) = id
    <2>1. ImportedChunks(b) = [id \in ids |-> Of(id).content]
      BY DEF ImportedChunks
    <2>2. DOMAIN f = b.refs /\ f = [ref \in b.refs |-> f[ref]] /\ ids = {f[ref] : ref \in b.refs}
      OBVIOUS
    <2>3. ids \subseteq Nat \ {0}
      BY LocalChunkRanks
    <2>4. \A id \in ids : Of(id) \in b.refs
      OBVIOUS
    <2> HIDE DEF f, ids, Of
    <2>5. IsFiniteSet(ids)
      BY <2>2, FiniteValues DEF BundleOK
    <2>6. \A id \in ids : Of(id).content \in AnyContent
      BY <2>4 DEF BundleOK, ChunkReferences
    <2> QED
      BY <2>1, <2>3, <2>5, <2>6 DEF ChunkRowsOK
  <1>8. ChunksStored(LiveLog(b), ImportedChunks(b))
    BY <1>4, <1>5, ImportedEvent DEF ChunksStored
  <1>9. LogOf(s) = b.events
    <2>1. /\ LogOf(s) \in Seq(PortableEvents) /\ Len(LogOf(s)) = n
          /\ \A i \in 1..n : LogOf(s)[i] = Portable(LiveLog(b)[i], ImportedChunks(b))
      BY <1>2, <1>4, <1>7, <1>8, PortableLogTyped DEF LogOf
    <2>2. \A i \in 1..n : LogOf(s)[i] = b.events[i]
      BY <1>5, <2>1, ImportedEvent
    <2> QED
      BY <2>1, <2>2, SeqEqual
  <1>10. b.events # <<>>
    BY DEF BundleOK, Valid, Complete
  <1>11. s.events # <<>>
    <2>1. n # 0
      BY <1>10, EmptySeq
    <2> QED
      BY <1>2, <1>4, <2>1, EmptySeq
  <1>12. IsPrefix(s.origin, LogOf(s))
    BY <1>2, <1>3, <1>9, PrefixPointwise
  <1>13. SessionOK(s, B)
    BY <1>2, <1>4, <1>5, <1>6, <1>7, <1>8, <1>11, <1>12 DEF SessionOK, BundleOK
  <1> QED
    BY <1>9, <1>11, <1>13 DEF s

(***************************************************************************)
(* Session bundles: rows                                                   *)
(***************************************************************************)

LEMMA FiniteMaximum ==
    ASSUME NEW D \in SUBSET Nat, IsFiniteSet(D), D # {}
    PROVE  \E x \in D : \A y \in D : y <= x
  <1> DEFINE Over(x) == {y \in D : y > x}
             sizes == {Cardinality(Over(x)) : x \in D}
  <1>1. \A x : IsFiniteSet(Over(x)) /\ Cardinality(Over(x)) \in Nat
    <2>1. \A x : Over(x) \in SUBSET D
      OBVIOUS
    <2> HIDE DEF Over
    <2>2. \A x : IsFiniteSet(Over(x))
      BY <2>1, FS_Subset
    <2> QED
      BY <2>2, FS_CardinalityType
  <1>2. ASSUME NEW x \in D, NEW y \in D, x < y
        PROVE  Over(y) \in SUBSET Over(x) /\ y \in Over(x) /\ y \notin Over(y)
    <2>1. \A z \in D : z > y => z > x
      BY <1>2
    <2>2. y > x /\ ~(y > y)
      BY <1>2
    <2> QED
      BY <2>1, <2>2
  <1> HIDE DEF Over
  <1>3. sizes \subseteq Nat /\ sizes # {}
    BY <1>1
  <1>4. PICK m \in sizes : \A k \in sizes : ~(<<k, m>> \in OpToRel(<, Nat))
    BY <1>3, WFMin, NatLessThanWellFounded, Zenon
  <1>5. \A k \in sizes : ~(k < m)
    BY <1>3, <1>4 DEF OpToRel
  <1>6. PICK x \in D : m = Cardinality(Over(x))
    OBVIOUS
  <1>7. ASSUME NEW y \in D, x < y PROVE FALSE
    <2>1. Over(y) \in SUBSET Over(x) /\ Over(x) # Over(y)
      BY <1>2, <1>7
    <2>2. Cardinality(Over(y)) <= Cardinality(Over(x)) /\ Cardinality(Over(x)) # Cardinality(Over(y))
      BY <1>1, <2>1, FS_Subset
    <2> QED
      BY <1>1, <1>5, <1>6, <2>2
  <1>8. \A y \in D : y <= x
    BY <1>7
  <1> QED
    BY <1>8

LEMMA NextChunkNew ==
    ASSUME NEW s, ChunkRowsOK(s.chunks)
    PROVE  /\ NextChunk(s) \in Nat \ {0} /\ NextChunk(s) \notin DOMAIN s.chunks
           /\ DOMAIN s.chunks # {} => NextChunk(s) - 1 \in DOMAIN s.chunks
  <1> DEFINE D == DOMAIN s.chunks
             last == CHOOSE x \in D : \A y \in D : y <= x
  <1>1. D \in SUBSET Nat /\ IsFiniteSet(D) /\ 0 \notin D
    BY DEF ChunkRowsOK
  <1>2. CASE D = {}
    BY <1>2 DEF NextChunk
  <1>3. CASE D # {}
    <2>1. \E x \in D : \A y \in D : y <= x
      BY <1>1, <1>3, FiniteMaximum
    <2>2. last \in D /\ \A y \in D : y <= last
      BY <2>1
    <2>3. NextChunk(s) = 1 + last
      BY <1>3 DEF NextChunk
    <2> QED
      BY <1>1, <2>2, <2>3
  <1> QED
    BY <1>2, <1>3

(* The rows t are the rows s with event e; chunks and branches are added.  *)
Records(s, t, e) ==
    /\ e \in LiveEvents
    /\ DOMAIN t = {"events", "branches", "chunks", "origin"}
    /\ t.events = Append(s.events, e) /\ t.origin = s.origin
    /\ DOMAIN s.branches \subseteq DOMAIN t.branches /\ e.branch \in DOMAIN t.branches
    /\ ChunkRowsOK(t.chunks) /\ DOMAIN s.chunks \subseteq DOMAIN t.chunks
    /\ \A c \in DOMAIN s.chunks : t.chunks[c] = s.chunks[c]
    /\ e.chunk # 0 => e.chunk \in DOMAIN t.chunks

LEMMA SessionAppended ==
    ASSUME NEW s, NEW B, SessionOK(s, B), s.events # <<>>,
           NEW t, NEW e, Records(s, t, e), NEW C, DOMAIN t.branches \subseteq C
    PROVE  /\ SessionOK(t, C) /\ t.events # <<>>
           /\ LogGrows(LogOf(s), LogOf(t), e.id)
  <1> DEFINE n == Len(s.events)
             p == Portable(e, t.chunks)
  <1>1. /\ e \in LiveEvents /\ DOMAIN t = {"events", "branches", "chunks", "origin"}
        /\ t.events = Append(s.events, e) /\ t.origin = s.origin
        /\ DOMAIN s.branches \subseteq DOMAIN t.branches /\ e.branch \in DOMAIN t.branches
        /\ ChunkRowsOK(t.chunks) /\ DOMAIN s.chunks \subseteq DOMAIN t.chunks
        /\ \A c \in DOMAIN s.chunks : t.chunks[c] = s.chunks[c]
        /\ e.chunk # 0 => e.chunk \in DOMAIN t.chunks
    BY DEF Records
  <1>2. s.events \in Seq(LiveEvents) /\ n \in Nat \ {0}
    BY EmptySeq DEF SessionOK
  <1>3. /\ t.events \in Seq(LiveEvents) /\ Len(t.events) = n + 1
        /\ \A i \in 1..n : t.events[i] = s.events[i]
        /\ t.events[n + 1] = e
    BY <1>1, <1>2, AppendProperties
  <1>4. ChunksStored(s.events, t.chunks) /\ PortableLog(s.events, t.chunks) = LogOf(s)
    <2>1. ChunksStored(s.events, s.chunks)
      BY DEF SessionOK
    <2> QED
      BY <1>1, <1>2, <2>1, PortableLogStable DEF LogOf
  <1>5. ChunksStored(t.events, t.chunks)
    BY <1>1, <1>2, <1>3, <1>4 DEF ChunksStored
  <1>6. /\ LogOf(t) \in Seq(PortableEvents) /\ Len(LogOf(t)) = n + 1
        /\ \A i \in 1..(n + 1) : LogOf(t)[i] = Portable(t.events[i], t.chunks)
    <2> DEFINE l == PortableLog(t.events, t.chunks)
    <2>1. /\ l \in Seq(PortableEvents) /\ Len(l) = Len(t.events)
          /\ \A i \in 1..Len(t.events) : l[i] = Portable(t.events[i], t.chunks)
      BY <1>1, <1>3, <1>5, PortableLogTyped
    <2> HIDE DEF l
    <2>2. /\ l \in Seq(PortableEvents) /\ Len(l) = n + 1
          /\ \A i \in 1..(n + 1) : l[i] = Portable(t.events[i], t.chunks)
      BY <1>3, <2>1
    <2> QED
      BY <2>2 DEF LogOf, l
  <1>7. /\ LogOf(s) \in Seq(PortableEvents) /\ Len(LogOf(s)) = n
        /\ \A i \in 1..n : LogOf(s)[i] = Portable(s.events[i], t.chunks)
    BY <1>1, <1>2, <1>4, PortableLogTyped
  <1>8. p \in PortableEvents /\ p.id = e.id
    <2>1. p = LogOf(t)[n + 1]
      BY <1>2, <1>3, <1>6
    <2>2. p \in PortableEvents
      BY <1>2, <1>6, <2>1, ElementOfSeq
    <2> QED
      BY <2>2 DEF Portable, PortableEvent
  <1> HIDE DEF p
  <1>9. LogOf(t) = Append(LogOf(s), p)
    <2>1. /\ Append(LogOf(s), p) \in Seq(PortableEvents) /\ Len(Append(LogOf(s), p)) = n + 1
          /\ \A i \in 1..n : Append(LogOf(s), p)[i] = LogOf(s)[i]
          /\ Append(LogOf(s), p)[n + 1] = p
      BY <1>7, <1>8, AppendProperties
    <2>2. \A i \in 1..n : LogOf(t)[i] = Append(LogOf(s), p)[i]
      BY <1>2, <1>3, <1>6, <1>7, <2>1
    <2>3. LogOf(t)[n + 1] = p
      BY <1>2, <1>3, <1>6 DEF p
    <2>4. \A i \in 1..Len(LogOf(t)) : LogOf(t)[i] = Append(LogOf(s), p)[i]
      BY <1>2, <1>6, <2>1, <2>2, <2>3
    <2> QED
      BY <1>6, <2>1, <2>4, SeqEqual
  <1>10. t.events # <<>> /\ LogOf(s) # <<>>
    BY <1>2, <1>3, <1>7, EmptySeq
  <1>11. IsPrefix(t.origin, LogOf(t))
    <2>1. s.origin \in Seq(PortableEvents) /\ IsPrefix(s.origin, LogOf(s))
      BY DEF SessionOK
    <2> QED
      BY <1>1, <1>7, <1>8, <1>9, <2>1, PrefixAppended
  <1>12. \A i \in 1..Len(t.events) : t.events[i].branch \in DOMAIN t.branches
    <2>1. \A i \in 1..n : s.events[i].branch \in DOMAIN s.branches
      BY DEF SessionOK
    <2> QED
      BY <1>1, <1>2, <1>3, <2>1
  <1>13. SessionOK(t, C)
    BY <1>1, <1>3, <1>5, <1>10, <1>11, <1>12 DEF SessionOK
  <1> QED
    BY <1>8, <1>9, <1>10, <1>13 DEF LogGrows

(* Only the branch rows change, and none goes away.                        *)
LEMMA SessionBranched ==
    ASSUME NEW s, NEW B, SessionOK(s, B), NEW t, NEW C,
           DOMAIN t = {"events", "branches", "chunks", "origin"},
           t.events = s.events, t.chunks = s.chunks, t.origin = s.origin,
           DOMAIN s.branches \subseteq DOMAIN t.branches, DOMAIN t.branches \subseteq C,
           s.events # <<>>
    PROVE  SessionOK(t, C) /\ LogOf(t) = LogOf(s)
  BY DEF SessionOK, LogOf

(***************************************************************************)
(* Session bundles: what the invariant says                                *)
(***************************************************************************)

LEMMA BundlesTyped == BundlesInv => BundlesTypeOK
  <1> SUFFICES ASSUME BundlesInv PROVE BundlesTypeOK
    OBVIOUS
  <1>1. CountsOK /\ RegistryOK /\ Consistent(Logs, minted.events)
    BY DEF BundlesInv
  <1>2. /\ minted.events \in 1..scope.events /\ minted.branches \subseteq Branches
        /\ minted.dirs \in 0..scope.dirs /\ minted.forks \in 0..scope.forks
    BY <1>1 DEF CountsOK
  <1>3. scope.events \in Nat
    BY <1>1, BundlesAssumption DEF CountsOK
  <1>4. ASSUME NEW r \in Replicas
        PROVE  /\ DOMAIN store[r].branches \subseteq minted.branches
               /\ \A i, j \in 1..Len(store[r].events) :
                    /\ store[r].events[i].branch \in DOMAIN store[r].branches
                    /\ store[r].events[i].id \in 1..minted.events
                    /\ store[r].events[i].id = store[r].events[j].id => i = j
    <2> DEFINE l == LogOf(store[r])
               e == store[r].events
    <2>1. SessionOK(store[r], minted.branches)
      BY DEF BundlesInv
    <2>2. /\ Len(l) = Len(e)
          /\ \A i \in 1..Len(e) : l[i].id = e[i].id
      BY <2>1, PortableLogTyped DEF SessionOK, LogOf
    <2>3. LogOK(l, minted.events) /\ Agree(l, l)
      BY <1>1 DEF Consistent, Logs
    <2>4. \A i, j \in 1..Len(e) : e[i].id \in 1..minted.events /\ (e[i].id = e[j].id => i = j)
      BY <2>2, <2>3 DEF LogOK, Agree
    <2> QED
      BY <2>1, <2>4 DEF SessionOK
  <1>5. ASSUME NEW b \in DOMAIN Heads
        PROVE  b \in minted.branches /\ Heads[b].event \in 1..scope.events
    <2>1. PICK x \in remote.bundles :
              Valid(x) /\ b \in DOMAIN x.branches /\ x.branches[b].head = Heads[b].event
      BY <1>1 DEF RegistryOK, HeadsResolve
    <2>2. Heads[b].event # NoEvent /\ BundleOK(x, minted.branches)
      BY <1>1 DEF RegistryOK
    <2>3. TipOf(x.events, b) = Heads[b].event
      BY <2>1 DEF Valid, ValidBranches
    <2>4. LogOK(x.events, minted.events)
      BY <1>1 DEF Consistent, Logs
    <2>5. Len(x.events) \in Nat
      BY <2>4, LenProperties DEF LogOK
    <2>6. Heads[b].event \in 1..minted.events
      BY <2>2, <2>3, <2>4, <2>5, TipIsEvent DEF LogOK
    <2> QED
      BY <1>2, <1>3, <2>1, <2>2, <2>6 DEF BundleOK
  <1>6. \A r \in Replicas : ForkOK(r) /\ ExportOK(r) /\ PushOK(r)
    BY DEF BundlesInv
  <1> QED
    BY <1>1, <1>2, <1>4, <1>5, <1>6
    DEF BundlesTypeOK, CountsOK, RegistryOK, ForkOK, ExportOK, PushOK

KnownIds(l) == {l[i].id : i \in 1..Len(l)}

LEMMA CommonPrefixSound ==
    ASSUME NEW n, NEW l, NEW m, LogOK(l, n), LogOK(m, n), Agree(l, m), l # <<>>, m # <<>>
    PROVE  /\ CommonPrefix(l, m) \in Nat \ {0}
           /\ CommonPrefix(l, m) = Len(l) <=> KnownIds(l) \subseteq KnownIds(m)
  <1> DEFINE k == IF Len(l) < Len(m) THEN Len(l) ELSE Len(m)
             same == {j \in 1..k : \A i \in 1..j : l[i] = m[i]}
  <1>1. Len(l) \in Nat \ {0} /\ Len(m) \in Nat \ {0}
    BY EmptySeq DEF LogOK
  <1>2. k \in Nat \ {0} /\ k <= Len(l) /\ k <= Len(m) /\ k \in {Len(l), Len(m)}
    BY <1>1
  <1>3. CommonPrefix(l, m) = Cardinality(same)
    BY DEF CommonPrefix
  <1> HIDE DEF k
  <1>4. same \in SUBSET (1..k) /\ IsFiniteSet(1..k) /\ Cardinality(1..k) = k
    <2>1. same \in SUBSET (1..k)
      OBVIOUS
    <2> QED
      BY <1>2, <2>1, FS_Interval
  <1>5. IsFiniteSet(same) /\ Cardinality(same) \in Nat /\ Cardinality(same) <= k
    BY <1>4, FS_Subset, FS_CardinalityType
  <1>6. 1 \in same
    <2>1. l[1] = m[1]
      BY DEF LogOK
    <2> QED
      BY <1>2, <2>1
  <1>7. Cardinality(same) # 0
    BY <1>5, <1>6, FS_EmptySet
  <1>8. ASSUME Cardinality(same) = Len(l)
        PROVE  KnownIds(l) \subseteq KnownIds(m)
    <2>1. k = Len(l)
      <3> HIDE DEF same
      <3> QED
        BY <1>1, <1>2, <1>5, <1>8
    <2>2. same = 1..k
      BY <1>4, <1>8, <2>1, FS_Subset
    <2>3. k \in same
      BY <1>2, <2>2
    <2>4. \A i \in 1..Len(l) : l[i] = m[i] /\ i \in 1..Len(m)
      BY <1>1, <1>2, <2>1, <2>3
    <2> QED
      BY <2>4 DEF KnownIds
  <1>9. ASSUME KnownIds(l) \subseteq KnownIds(m)
        PROVE  Cardinality(same) = Len(l)
    <2>1. PICK j \in 1..Len(m) : m[j].id = l[Len(l)].id
      BY SMTT(30), <1>1, <1>9 DEF KnownIds
    <2>2. Len(l) = j /\ \A i \in 1..Len(l) : l[i] = m[i]
      BY <1>1, <2>1 DEF Agree
    <2>3. k = Len(l)
      BY <1>1, <1>2, <2>2
    <2>4. same = 1..k
      BY <1>1, <2>2, <2>3
    <2> QED
      BY <1>4, <2>3, <2>4
  <1> QED
    BY <1>3, <1>5, <1>7, <1>8, <1>9

LEMMA CommonPrefixSymmetric ==
    ASSUME NEW l, NEW m, Len(l) \in Nat, Len(m) \in Nat
    PROVE  CommonPrefix(l, m) = CommonPrefix(m, l)
  <1> DEFINE k == IF Len(l) < Len(m) THEN Len(l) ELSE Len(m)
             h == IF Len(m) < Len(l) THEN Len(m) ELSE Len(l)
             f == {j \in 1..k : \A i \in 1..j : l[i] = m[i]}
             g == {j \in 1..h : \A i \in 1..j : m[i] = l[i]}
  <1>1. h = k
    OBVIOUS
  <1>2. f = g
    BY <1>1
  <1>3. CommonPrefix(l, m) = Cardinality(f) /\ CommonPrefix(m, l) = Cardinality(g)
    BY DEF CommonPrefix
  <1> HIDE DEF f, g
  <1> QED
    BY <1>2, <1>3

(* Comparing prefixes tells an update from a divergence.                   *)
LEMMA DiffTold == BundlesInv => DiffSound
  <1> DEFINE all == {x \in remote.bundles \union {dir[r] : r \in Replicas} : x.written}
  <1> SUFFICES ASSUME BundlesInv, NEW l \in all, NEW r \in all
               PROVE  /\ (KnownIds(l.events) \subseteq KnownIds(r.events)
                            \/ KnownIds(r.events) \subseteq KnownIds(l.events))
                            = (Relationship(l, r) \notin {"fork_divergence", "different_lineage"})
                      /\ Relationship(l, r) # "different_lineage"
    BY DEF DiffSound, KnownIds
  <1>1. \A x \in all : x.events \in Logs /\ x.events # <<>>
    BY DEF BundlesInv, RegistryOK, BundleOK, Logs
  <1> HIDE DEF all
  <1>2. Consistent(Logs, minted.events)
    BY DEF BundlesInv
  <1> DEFINE s == l.events
             t == r.events
             c == CommonPrefix(s, t)
  <1>3. s # <<>> /\ t # <<>> /\ LogOK(s, minted.events) /\ LogOK(t, minted.events)
    BY <1>1, <1>2 DEF Consistent
  <1>4. Agree(s, t) /\ Agree(t, s)
    BY <1>1, <1>2 DEF Consistent
  <1>5. Len(s) \in Nat /\ Len(t) \in Nat
    BY <1>3, LenProperties DEF LogOK
  <1>6. c \in Nat \ {0} /\ (c = Len(s) <=> KnownIds(s) \subseteq KnownIds(t))
    BY <1>3, <1>4, CommonPrefixSound
  <1>7. c = Len(t) <=> KnownIds(t) \subseteq KnownIds(s)
    BY <1>3, <1>4, <1>5, CommonPrefixSound, CommonPrefixSymmetric
  <1>8. Relationship(l, r) =
          IF s = t THEN IF SameInventory(l, r) THEN "equivalent" ELSE "structural_difference"
          ELSE IF c \in {Len(s), Len(t)} THEN "same_lineage_update"
          ELSE IF c > 0 THEN "fork_divergence" ELSE "different_lineage"
    BY DEF Relationship
  <1>9. s = t => KnownIds(s) \subseteq KnownIds(t)
    OBVIOUS
  <1> HIDE DEF s, t, c
  <1>10. c > 0
    BY <1>6
  <1>11. CASE s = t
    BY <1>8, <1>9, <1>11 DEF s, t
  <1>12. CASE s # t /\ c \in {Len(s), Len(t)}
    BY <1>6, <1>7, <1>8, <1>12 DEF s, t
  <1>13. CASE s # t /\ c \notin {Len(s), Len(t)}
    BY <1>6, <1>7, <1>8, <1>10, <1>13 DEF s, t
  <1> QED
    BY <1>11, <1>12, <1>13

(***************************************************************************)
(* Session bundles: steps on the rows, the directories and the registry    *)
(***************************************************************************)

LEMMA EmptyLog ==
    ASSUME NEW L, NEW n \in Nat, Consistent(L, n)
    PROVE  Consistent(L \cup {<<>>}, n)
  <1>1. LogOK(<<>>, n)
    BY EmptySeq DEF LogOK
  <1>2. \A m : Agree(<<>>, m) /\ Agree(m, <<>>)
    BY EmptySeq DEF Agree
  <1> QED
    BY <1>1, <1>2 DEF Consistent

(* The counters go up.                                                     *)
CountersGrow ==
    /\ minted' \in [events : 1..scope.events, branches : SUBSET Branches,
                    dirs : 0..scope.dirs, forks : 0..scope.forks]
    /\ minted.branches \subseteq minted'.branches
    /\ minted'.events >= minted.events

LEMMA EventsCounted ==
    ASSUME CountsOK
    PROVE  /\ scope.events \in Nat /\ scope.dirs \in Nat /\ scope.forks \in Nat
           /\ scope.crashes \in Nat
           /\ minted.events \in Nat /\ minted.events <= scope.events
  <1>1. scope.events \in Nat /\ scope.dirs \in Nat /\ scope.forks \in Nat /\ scope.crashes \in Nat
    BY BundlesAssumption DEF CountsOK
  <1> QED
    BY <1>1 DEF CountsOK

(* An event is counted, with a branch or without.                          *)
LEMMA EventCounted ==
    ASSUME CountsOK, minted.events < scope.events, NEW B \in SUBSET Branches,
           minted.branches \subseteq B,
           minted' = [minted EXCEPT !.events = @ + 1, !.branches = B]
    PROVE  /\ CountersGrow
           /\ minted'.events = minted.events + 1 /\ minted'.branches = B
  <1>1. scope.events \in Nat /\ minted.events \in Nat
    BY EventsCounted
  <1>2. minted \in [events : 1..scope.events, branches : SUBSET Branches,
                    dirs : 0..scope.dirs, forks : 0..scope.forks]
    BY DEF CountsOK
  <1>3. minted.events + 1 \in 1..scope.events
    BY <1>1
  <1>4. minted' \in [events : 1..scope.events, branches : SUBSET Branches,
                     dirs : 0..scope.dirs, forks : 0..scope.forks]
    BY <1>2, <1>3
  <1>5. minted'.events = minted.events + 1 /\ minted'.branches = B
    BY <1>2
  <1> QED
    BY <1>1, <1>4, <1>5 DEF CountersGrow

(* The rows of one machine change.                                         *)
LEMMA StoreStep ==
    ASSUME BundlesInv, NEW r \in Replicas, CountersGrow,
           UNCHANGED <<scope, export, dir, remote, push, crashes, acked>>,
           DOMAIN store' = Replicas, \A q \in Replicas \ {r} : store'[q] = store[q],
           DOMAIN fork' = Replicas, \A q \in Replicas \ {r} : fork'[q] = fork[q],
           SessionOK(store'[r], minted'.branches), store'[r].events # <<>>, ForkOK(r)',
           export[r].phase = "chunks" =>
               /\ DOMAIN store[r].chunks \subseteq DOMAIN store'[r].chunks
               /\ \A c \in DOMAIN store[r].chunks : store'[r].chunks[c] = store[r].chunks[c],
           Consistent(Logs \cup {LogOf(store'[r])}, minted'.events)
    PROVE  BundlesInv'
  <1>1. CountsOK /\ RegistryOK /\ AcceptedKept /\ minted.events \in Nat
    BY EventsCounted DEF BundlesInv
  <1>2. CountsOK'
    BY <1>1 DEF CountsOK, CountersGrow
  <1>3. ASSUME NEW q \in Replicas
        PROVE  SessionOK(store[q], minted.branches)' /\ ForkOK(q)' /\ BundleOK(dir[q], minted.branches)'
    <2>1. SessionOK(store[q], minted.branches) /\ ForkOK(q) /\ BundleOK(dir[q], minted.branches)
      BY DEF BundlesInv
    <2>2. CASE q = r
      BY <2>1, <2>2 DEF BundleOK, CountersGrow
    <2>3. CASE q # r
      <3>1. store'[q] = store[q] /\ fork'[q] = fork[q]
        BY <2>3
      <3> QED
        BY <2>1, <3>1 DEF BundleOK, SessionOK, ForkOK, CountersGrow
    <2> QED
      BY <2>2, <2>3
  <1>4. export[r].phase = "chunks" =>
           /\ ChunksStored(export[r].events, store'[r].chunks)
           /\ ReadOut(r)' = ReadOut(r)
    <2> SUFFICES ASSUME export[r].phase = "chunks"
                 PROVE  /\ ChunksStored(export[r].events, store'[r].chunks)
                        /\ PortableLog(export[r].events, store'[r].chunks)
                             = PortableLog(export[r].events, store[r].chunks)
      BY DEF ReadOut
    <2> DEFINE events == export[r].events
               chunks == store[r].chunks
               more == store'[r].chunks
    <2>1. events \in Seq(LiveEvents) /\ ChunksStored(events, chunks)
      BY DEF BundlesInv, ExportOK
    <2>2. DOMAIN chunks \subseteq DOMAIN more /\ \A c \in DOMAIN chunks : more[c] = chunks[c]
      OBVIOUS
    <2> HIDE DEF events, chunks, more
    <2>3. PortableLog(events, more) = PortableLog(events, chunks) /\ ChunksStored(events, more)
      BY <2>1, <2>2, PortableLogStable
    <2> QED
      BY <2>3 DEF events, chunks, more
  <1>5. ASSUME NEW q \in Replicas PROVE ExportOK(q)' /\ PushOK(q)'
    <2>1. ExportOK(q) /\ PushOK(q)
      BY DEF BundlesInv
    <2>2. PushOK(q)'
      BY <2>1 DEF PushOK, Heads
    <2>3. CASE q = r
      BY <1>4, <2>1, <2>2, <2>3 DEF ExportOK, CountersGrow
    <2>4. CASE q # r
      <3>1. store'[q] = store[q]
        BY <2>4
      <3> QED
        BY <2>1, <2>2, <3>1 DEF ExportOK, CountersGrow
    <2> QED
      BY <2>3, <2>4
  <1>6. RegistryOK'
    BY <1>1 DEF RegistryOK, HeadsResolve, Heads, BundleOK, CountersGrow
  <1>7. AcceptedKept'
    BY <1>1 DEF AcceptedKept, Heads
  <1>8. Logs' \subseteq Logs \cup {LogOf(store'[r])}
    <2>1. \A q \in Replicas : LogOf(store'[q]) \in Logs \cup {LogOf(store'[r])}
      BY DEF Logs
    <2>2. \A q \in Replicas : export[q].phase = "chunks" => ReadOut(q)' \in Logs
      BY <1>4 DEF Logs, ReadOut
    <2> QED
      BY <2>1, <2>2 DEF Logs
  <1>9. Consistent(Logs, minted.events)'
    <2>1. minted'.events \in Nat /\ minted'.events <= minted'.events
      BY <1>1 DEF CountersGrow
    <2>2. Consistent(Logs', minted'.events)
      BY <1>8, <2>1, LogsFewer
    <2> QED
      BY <2>2 DEF Consistent, LogOK, Agree
  <1> QED
    BY <1>2, <1>3, <1>5, <1>6, <1>7, <1>9 DEF BundlesInv

(* One machine's export or bundle directory changes.                       *)
LEMMA DirectoryStep ==
    ASSUME BundlesInv, NEW r \in Replicas, CountersGrow,
           minted'.branches = minted.branches, minted'.events = minted.events,
           UNCHANGED <<scope, store, fork, remote, push, acked>>,
           crashes' \in 0..scope.crashes, push[r].phase = "idle",
           DOMAIN export' = Replicas, \A q \in Replicas \ {r} : export'[q] = export[q],
           DOMAIN dir' = Replicas, \A q \in Replicas \ {r} : dir'[q] = dir[q],
           ExportOK(r)', BundleOK(dir'[r], minted.branches),
           export'[r].phase = "chunks" => ReadOut(r)' \in Logs,
           dir'[r].events \in Logs \cup {<<>>}
    PROVE  BundlesInv'
  <1>1. CountsOK /\ RegistryOK /\ AcceptedKept /\ minted.events \in Nat
    BY EventsCounted DEF BundlesInv
  <1>2. CountsOK'
    BY <1>1 DEF CountsOK, CountersGrow
  <1>3. ASSUME NEW q \in Replicas
        PROVE  /\ SessionOK(store[q], minted.branches)' /\ ForkOK(q)' /\ ExportOK(q)' /\ PushOK(q)'
               /\ BundleOK(dir[q], minted.branches)'
    <2>1. /\ SessionOK(store[q], minted.branches) /\ ForkOK(q) /\ ExportOK(q) /\ PushOK(q)
          /\ BundleOK(dir[q], minted.branches)
      BY DEF BundlesInv
    <2>2. SessionOK(store[q], minted.branches)' /\ ForkOK(q)'
      BY <2>1 DEF ForkOK
    <2>3. CASE q = r
      <3>1. PushOK(q)'
        BY <2>1, <2>3 DEF PushOK
      <3> QED
        BY <2>2, <2>3, <3>1
    <2>4. CASE q # r
      <3>1. export'[q] = export[q] /\ dir'[q] = dir[q]
        BY <2>4
      <3>2. PushOK(q)'
        BY <2>1, <3>1 DEF PushOK, Heads
      <3> QED
        BY <2>1, <2>2, <3>1, <3>2 DEF ExportOK
    <2> QED
      BY <2>3, <2>4
  <1>4. RegistryOK' /\ AcceptedKept'
    BY <1>1 DEF RegistryOK, HeadsResolve, Heads, AcceptedKept
  <1>5. Logs' \subseteq Logs \cup {<<>>}
    <2>1. \A q \in Replicas : export'[q].phase = "chunks" => ReadOut(q)' \in Logs
      BY DEF Logs, ReadOut
    <2>2. \A q \in Replicas : dir'[q].events \in Logs \cup {<<>>}
      BY DEF Logs
    <2> QED
      BY <2>1, <2>2 DEF Logs
  <1>6. Consistent(Logs, minted.events)'
    <2>1. Consistent(Logs \cup {<<>>}, minted.events)
      BY <1>1, EmptyLog DEF BundlesInv
    <2>2. Consistent(Logs', minted.events)
      BY <1>1, <1>5, <2>1, LogsFewer
    <2> QED
      BY <2>2 DEF Consistent, LogOK, Agree
  <1> QED
    BY <1>2, <1>3, <1>4, <1>6 DEF BundlesInv

(* The registry changes, and what a machine knows of its own push.         *)
LEMMA RegistryStep ==
    ASSUME BundlesInv, UNCHANGED <<scope, store, fork, export, dir, minted>>,
           crashes' \in 0..scope.crashes, DOMAIN push' = Replicas,
           \A q \in Replicas : PushOK(q)', RegistryOK', AcceptedKept',
           \A x \in remote'.bundles : x.events \in Logs
    PROVE  BundlesInv'
  <1>1. CountsOK'
    BY DEF BundlesInv, CountsOK
  <1>2. ASSUME NEW q \in Replicas
        PROVE  /\ SessionOK(store[q], minted.branches)' /\ ForkOK(q)' /\ ExportOK(q)'
               /\ BundleOK(dir[q], minted.branches)'
    BY DEF BundlesInv, ForkOK, ExportOK
  <1>3. Logs' \subseteq Logs
    BY DEF Logs, ReadOut
  <1>4. Consistent(Logs, minted.events)'
    <2>1. minted.events \in Nat
      BY EventsCounted DEF BundlesInv
    <2>2. Consistent(Logs', minted.events)
      BY <1>3, <2>1, LogsFewer DEF BundlesInv
    <2> QED
      BY <2>2 DEF Consistent, LogOK, Agree
  <1> QED
    BY <1>1, <1>2, <1>4 DEF BundlesInv

(***************************************************************************)
(* Session bundles: the initial states and the server's steps              *)
(***************************************************************************)

LEMMA BundlesInitOK == BundlesInit => BundlesInv
  <1> SUFFICES ASSUME BundlesInit PROVE BundlesInv
    OBVIOUS
  <1> DEFINE first == [id |-> 1, branch |-> Main, chunk |-> 0]
             s == [events |-> <<first>>, branches |-> [b \in {Main} |-> BranchRow(None, NoEvent, TRUE)],
                   chunks |-> <<>>, origin |-> <<>>]
             begun == <<PortableEvent(1, Main, None)>>
  <1>1. \A r \in Replicas : store[r] = IF r = Origin THEN s ELSE NoSession
    BY DEF BundlesInit
  <1>2. CountsOK
    <2>1. /\ scope.events \in Nat \ {0} /\ scope.dirs \in Nat /\ scope.crashes \in Nat
          /\ scope.forks \in Nat /\ Main \in Branches
      BY BundlesAssumption DEF BundlesInit
    <2> QED
      BY <2>1 DEF BundlesInit, CountsOK
  <1>3. ChunkRowsOK(<<>>)
    <2>1. DOMAIN <<>> = {}
      OBVIOUS
    <2> QED
      BY <2>1, FS_EmptySet DEF ChunkRowsOK
  <1>4. PortableEvent(1, Main, None) \in PortableEvents /\ first \in LiveEvents
    BY BundlesAssumption DEF PortableEvent, PortableEvents, LiveEvents, AnyContent
  <1>5. /\ <<first>> \in Seq(LiveEvents) /\ Len(<<first>>) = 1 /\ <<first>>[1] = first
        /\ begun \in Seq(PortableEvents) /\ Len(begun) = 1 /\ begun[1] = PortableEvent(1, Main, None)
    BY <1>4
  <1>6. LogOf(s) = begun /\ LogOf(NoSession) = <<>>
    <2>1. Portable(first, <<>>) = PortableEvent(1, Main, None)
      BY DEF Portable
    <2>2. PortableLog(<<first>>, <<>>) = [i \in 1..1 |-> Portable(<<first>>[i], <<>>)]
      BY <1>5 DEF PortableLog
    <2>3. \A i \in 1..1 : Portable(<<first>>[i], <<>>) = PortableEvent(1, Main, None)
      BY <2>1
    <2>4. PortableLog(<<first>>, <<>>) = [i \in 1..1 |-> PortableEvent(1, Main, None)]
      BY <2>2, <2>3
    <2>5. PortableLog(<<first>>, <<>>) = begun
      BY <2>4
    <2>6. PortableLog(<<>>, <<>>) = <<>>
      BY DEF PortableLog
    <2> QED
      BY <2>5, <2>6 DEF LogOf, NoSession
  <1>7. SessionOK(s, minted.branches)
    <2>1. IsPrefix(<<>>, begun)
      BY <1>5, EmptyPrefix
    <2>2. minted.branches = {Main} /\ <<>> \in Seq(PortableEvents)
      BY EmptySeq DEF BundlesInit
    <2>3. ChunksStored(<<first>>, <<>>)
      BY <1>5 DEF ChunksStored
    <2>4. \A i \in 1..Len(<<first>>) : <<first>>[i].branch \in {Main}
      BY <1>5
    <2>5. <<first>> # <<>>
      BY <1>5, EmptySeq
    <2> QED
      BY <1>3, <1>5, <1>6, <2>1, <2>2, <2>3, <2>4, <2>5 DEF SessionOK
  <1>8. SessionOK(NoSession, minted.branches)
    <2>1. IsPrefix(<<>>, <<>>)
      BY EmptySeq, EmptyPrefix
    <2>2. <<>> \in Seq(PortableEvents) /\ <<>> \in Seq(LiveEvents) /\ Len(<<>>) = 0 /\ DOMAIN <<>> = {}
      BY EmptySeq
    <2>3. ChunksStored(<<>>, <<>>)
      BY <2>2 DEF ChunksStored
    <2> QED
      BY <1>3, <1>6, <2>1, <2>2, <2>3 DEF SessionOK, NoSession
  <1> HIDE DEF s, begun
  <1>9. ASSUME NEW r \in Replicas
        PROVE  /\ SessionOK(store[r], minted.branches) /\ ForkOK(r) /\ ExportOK(r) /\ PushOK(r)
               /\ BundleOK(dir[r], minted.branches)
    <2>1. SessionOK(store[r], minted.branches)
      BY <1>1, <1>7, <1>8
    <2>2. fork[r] = IdleFork /\ export[r] = IdleExport /\ push[r] = IdlePush /\ dir[r] = NoBundle
      BY DEF BundlesInit
    <2>3. BundleOK(NoBundle, minted.branches)
      BY FS_EmptySet DEF BundleOK, NoBundle
    <2> QED
      BY <2>1, <2>2, <2>3 DEF ForkOK, ExportOK, PushOK, IdleFork, IdleExport, IdlePush
  <1>10. RegistryOK /\ AcceptedKept
    BY DEF BundlesInit, RegistryOK, AcceptedKept, HeadsResolve, Heads
  <1>11. Consistent(Logs, minted.events)
    <2>1. minted.events = 1
      BY DEF BundlesInit
    <2>2. Consistent({begun}, 1)
      <3>1. LogOK(begun, 1)
        <4>1. \A i \in 1..Len(begun) : begun[i].id = 1
          BY <1>5 DEF PortableEvent
        <4> QED
          BY <1>5, <4>1 DEF LogOK
      <3>2. Agree(begun, begun)
        <4>1. \A i \in 1..Len(begun) : i = 1
          BY <1>5
        <4> QED
          BY <4>1 DEF Agree
      <3> QED
        BY <3>1, <3>2 DEF Consistent
    <2>3. Logs \subseteq {begun} \cup {<<>>}
      BY <1>1, <1>6 DEF Logs, BundlesInit, IdleExport, NoBundle
    <2> QED
      BY <2>1, <2>2, <2>3, EmptyLog, LogsFewer
  <1> QED
    BY <1>2, <1>9, <1>10, <1>11 DEF BundlesInv

(* The next event goes to a log that exists.                               *)
LEMMA EventRecorded ==
    ASSUME BundlesInv, NEW s, SessionOK(s, minted.branches), s.events # <<>>, LogOf(s) \in Logs,
           NEW t, NEW e, Records(s, t, e), e.id = minted.events + 1,
           NEW C, DOMAIN t.branches \subseteq C
    PROVE  /\ SessionOK(t, C) /\ t.events # <<>>
           /\ Consistent(Logs \cup {LogOf(t)}, minted.events + 1)
  <1>1. SessionOK(t, C) /\ t.events # <<>> /\ LogGrows(LogOf(s), LogOf(t), minted.events + 1)
    <2>1. SessionOK(t, C) /\ t.events # <<>> /\ LogGrows(LogOf(s), LogOf(t), e.id)
      BY SessionAppended
    <2> QED
      BY <2>1
  <1>2. minted.events \in Nat /\ Consistent(Logs, minted.events)
    BY EventsCounted DEF BundlesInv
  <1>3. Consistent(Logs \cup {LogOf(t)}, minted.events + 1)
    BY <1>1, <1>2, LogAppended
  <1> QED
    BY <1>1, <1>3

LEMMA CommitKeeps ==
    ASSUME BundlesInv, UNCHANGED scope, NEW r \in Replicas, NEW b \in Branches, Commit(r, b)
    PROVE  BundlesInv'
  <1> DEFINE s == store[r]
             t == store'[r]
  <1>1. /\ CountsOK /\ DOMAIN store = Replicas /\ SessionOK(s, minted.branches) /\ s.events # <<>>
        /\ b \in DOMAIN s.branches /\ LogOf(s) \in Logs
    BY DEF BundlesInv, CountsOK, SessionOK, Commit, Present, Logs
  <1>2. /\ minted.events \in Nat /\ minted' = [minted EXCEPT !.events = @ + 1]
        /\ CountersGrow /\ minted'.events = minted.events + 1 /\ minted'.branches = minted.branches
    BY <1>1, EventsCounted DEF CountsOK, CountersGrow, Commit
  <1>3. /\ DOMAIN s = {"events", "branches", "chunks", "origin"} /\ DOMAIN s.branches \subseteq minted.branches
        /\ ChunkRowsOK(s.chunks)
    BY <1>1 DEF SessionOK
  <1>4. NextChunk(s) \in Nat \ {0} /\ NextChunk(s) \notin DOMAIN s.chunks
    BY <1>3, NextChunkNew
  <1> HIDE DEF s, t
  <1>5. /\ UNCHANGED <<fork, export, dir, remote, push, crashes, acked>>
        /\ DOMAIN store' = Replicas /\ \A q \in Replicas \ {r} : store'[q] = store[q]
        /\ t.branches = s.branches /\ \E e : Records(s, t, e) /\ e.id = minted.events + 1
    <2>1. ASSUME store' = [store EXCEPT ![r].events = Append(@, Event(b, 0))]
          PROVE  <1>5
      <3> DEFINE e == Event(b, 0)
      <3>1. e \in LiveEvents /\ e.id = minted.events + 1 /\ e.branch = b /\ e.chunk = 0
        BY <1>2 DEF Event, LiveEvents
      <3>2. t = [s EXCEPT !.events = Append(@, e)]
        BY <1>1, <2>1 DEF s, t
      <3> HIDE DEF e
      <3>3. /\ DOMAIN t = DOMAIN s /\ t.events = Append(s.events, e)
            /\ t.branches = s.branches /\ t.origin = s.origin /\ t.chunks = s.chunks
        BY SMTT(30), <1>3, <3>2
      <3> QED
        BY <1>1, <1>3, <2>1, <3>1, <3>3 DEF Commit, Records
    <2>2. ASSUME NEW c \in Contents,
                 store' = [store EXCEPT
                   ![r].events = Append(@, Event(b, NextChunk(s))),
                   ![r].chunks = [x \in DOMAIN @ \union {NextChunk(s)} |->
                                    IF x \in DOMAIN @ THEN @[x] ELSE c]]
          PROVE  <1>5
      <3> DEFINE e == Event(b, NextChunk(s))
                 more == [x \in DOMAIN s.chunks \union {NextChunk(s)} |->
                            IF x \in DOMAIN s.chunks THEN s.chunks[x] ELSE c]
      <3>1. /\ e \in LiveEvents /\ e.id = minted.events + 1 /\ e.branch = b
            /\ e.chunk = NextChunk(s)
        BY <1>2, <1>4 DEF Event, LiveEvents
      <3>2. t = [s EXCEPT !.events = Append(@, e), !.chunks = more]
        BY <1>1, <1>3, <2>2 DEF s, t
      <3>3. /\ DOMAIN more = DOMAIN s.chunks \cup {NextChunk(s)}
            /\ \A x \in DOMAIN s.chunks : more[x] = s.chunks[x]
            /\ more[NextChunk(s)] = c
        BY <1>4
      <3>4. ChunkRowsOK(more)
        BY <1>3, <1>4, <3>3, FS_AddElement DEF ChunkRowsOK, AnyContent
      <3> HIDE DEF e, more
      <3>5. /\ DOMAIN t = DOMAIN s /\ t.events = Append(s.events, e)
            /\ t.branches = s.branches /\ t.origin = s.origin /\ t.chunks = more
        BY <1>3, <3>2
      <3>6. /\ DOMAIN s.chunks \subseteq DOMAIN t.chunks
            /\ \A x \in DOMAIN s.chunks : t.chunks[x] = s.chunks[x]
            /\ e.chunk \in DOMAIN t.chunks /\ ChunkRowsOK(t.chunks)
        BY <3>1, <3>3, <3>4, <3>5
      <3>7. Records(s, t, e)
        BY ZenonT(60), <1>1, <1>3, <3>1, <3>5, <3>6 DEF Records
      <3>8. /\ UNCHANGED <<fork, export, dir, remote, push, crashes, acked>>
            /\ DOMAIN store' = Replicas /\ \A q \in Replicas \ {r} : store'[q] = store[q]
        BY ZenonT(30), <1>1, <2>2 DEF Commit
      <3> QED
        BY <3>1, <3>5, <3>7, <3>8, Zenon
    <2>3. ASSUME DOMAIN s.chunks # {},
                 store' = [store EXCEPT ![r].events = Append(@, Event(b, NextChunk(s) - 1))]
          PROVE  <1>5
      <3> DEFINE e == Event(b, NextChunk(s) - 1)
      <3>1. NextChunk(s) - 1 \in DOMAIN s.chunks /\ NextChunk(s) - 1 \in Nat
        BY <1>3, <2>3, NextChunkNew DEF ChunkRowsOK
      <3>2. /\ e \in LiveEvents /\ e.id = minted.events + 1 /\ e.branch = b
            /\ e.chunk \in DOMAIN s.chunks
        BY <1>2, <3>1 DEF Event, LiveEvents
      <3>3. t = [s EXCEPT !.events = Append(@, e)]
        BY <1>1, <2>3 DEF s, t
      <3> HIDE DEF e
      <3>4. /\ DOMAIN t = DOMAIN s /\ t.events = Append(s.events, e)
            /\ t.branches = s.branches /\ t.origin = s.origin /\ t.chunks = s.chunks
        BY <1>3, <3>3
      <3> QED
        BY <1>1, <1>3, <2>3, <3>2, <3>4 DEF Commit, Records
    <2> QED
      BY <2>1, <2>2, <2>3 DEF Commit, s
  <1>6. PICK e : Records(s, t, e) /\ e.id = minted.events + 1
    BY <1>5
  <1>7. /\ SessionOK(t, minted.branches) /\ t.events # <<>>
        /\ Consistent(Logs \cup {LogOf(t)}, minted.events + 1)
    BY <1>1, <1>3, <1>5, <1>6, EventRecorded
  <1>8. ForkOK(r)' /\ DOMAIN fork' = Replicas
    BY <1>5, <1>7 DEF BundlesInv, ForkOK, CountsOK, s, t
  <1>9. \A q \in Replicas \ {r} : fork'[q] = fork[q]
    BY <1>5
  <1> QED
    BY <1>2, <1>5, <1>6, <1>7, <1>8, <1>9, StoreStep DEF Records, s, t

LEMMA ForkBeginKeeps ==
    ASSUME BundlesInv, UNCHANGED scope, NEW r \in Replicas, NEW from \in Branches,
           NEW activate \in BOOLEAN, ForkBegin(r, from, activate)
    PROVE  BundlesInv'
  <1> DEFINE s == store[r]
             t == store'[r]
  <1>1. /\ CountsOK /\ DOMAIN store = Replicas /\ DOMAIN fork = Replicas
        /\ SessionOK(s, minted.branches) /\ s.events # <<>> /\ LogOf(s) \in Logs
        /\ DOMAIN s = {"events", "branches", "chunks", "origin"}
        /\ DOMAIN s.branches \subseteq minted.branches
    BY DEF BundlesInv, CountsOK, SessionOK, ForkBegin, Present, Logs
  <1>2. PICK b \in Branches \ minted.branches :
           /\ minted' = [minted EXCEPT !.branches = @ \union {b}, !.forks = @ + 1]
           /\ fork' = [fork EXCEPT ![r] =
                [phase |-> IF activate THEN "default" ELSE "event", branch |-> b]]
           /\ store' = [store EXCEPT ![r].branches =
                [x \in DOMAIN @ \union {b} |-> IF x = b
                   THEN BranchRow(from, TipOf(store[r].events, from), FALSE) ELSE @[x]]]
    BY DEF ForkBegin
  <1>3. CountersGrow /\ minted'.events = minted.events /\ minted'.branches = minted.branches \cup {b}
    <2>1. minted.forks < scope.forks /\ scope.forks \in Nat /\ minted.events \in Nat
      BY <1>1, EventsCounted DEF ForkBegin
    <2>2. minted \in [events : 1..scope.events, branches : SUBSET Branches,
                      dirs : 0..scope.dirs, forks : 0..scope.forks]
      BY <1>1 DEF CountsOK
    <2>3. minted.forks + 1 \in 0..scope.forks
      BY <2>1, <2>2
    <2>4. minted' \in [events : 1..scope.events, branches : SUBSET Branches,
                       dirs : 0..scope.dirs, forks : 0..scope.forks]
      BY <1>2, <2>2, <2>3
    <2>5. minted'.events = minted.events /\ minted'.branches = minted.branches \cup {b}
      BY <1>2, <2>2
    <2> QED
      BY <2>1, <2>4, <2>5 DEF CountersGrow
  <1> DEFINE rows == [x \in DOMAIN s.branches \union {b} |-> IF x = b
                        THEN BranchRow(from, TipOf(s.events, from), FALSE) ELSE s.branches[x]]
  <1>4. t = [s EXCEPT !.branches = rows]
    BY <1>1, <1>2
  <1>5. DOMAIN store' = Replicas /\ \A q \in Replicas \ {r} : store'[q] = store[q]
    BY <1>1, <1>2
  <1>6. DOMAIN rows = DOMAIN s.branches \cup {b}
    OBVIOUS
  <1> HIDE DEF s, t, rows
  <1>7. /\ DOMAIN t = DOMAIN s /\ t.events = s.events /\ t.chunks = s.chunks
        /\ t.origin = s.origin /\ t.branches = rows
    BY <1>1, <1>4
  <1>8. SessionOK(t, minted'.branches) /\ LogOf(t) = LogOf(s)
    BY <1>1, <1>3, <1>6, <1>7, SessionBranched
  <1>9. Consistent(Logs \cup {LogOf(t)}, minted'.events)
    <2>1. Logs \cup {LogOf(t)} = Logs
      BY <1>1, <1>8
    <2> QED
      BY <1>3, <2>1 DEF BundlesInv
  <1>10. /\ DOMAIN fork' = Replicas /\ \A q \in Replicas \ {r} : fork'[q] = fork[q]
         /\ ForkOK(r)'
    <2>1. fork'[r] = [phase |-> IF activate THEN "default" ELSE "event", branch |-> b]
      BY <1>1, <1>2
    <2>2. ForkOK(r)'
      BY <1>1, <1>6, <1>7, <2>1 DEF ForkOK, t
    <2> QED
      BY <1>1, <1>2, <2>2
  <1>11. UNCHANGED <<export, dir, remote, push, crashes, acked>>
    BY DEF ForkBegin
  <1> QED
    BY <1>1, <1>3, <1>5, <1>7, <1>8, <1>9, <1>10, <1>11, StoreStep DEF s, t

LEMMA ForkActivateKeeps ==
    ASSUME BundlesInv, UNCHANGED scope, NEW r \in Replicas, ForkActivate(r)
    PROVE  BundlesInv'
  <1> DEFINE s == store[r]
             t == store'[r]
             rows == WithDefault(s.branches, fork[r].branch)
  <1>1. /\ CountsOK /\ DOMAIN store = Replicas /\ DOMAIN fork = Replicas
        /\ SessionOK(s, minted.branches) /\ LogOf(s) \in Logs
        /\ DOMAIN s = {"events", "branches", "chunks", "origin"}
        /\ DOMAIN s.branches \subseteq minted.branches
    BY DEF BundlesInv, CountsOK, SessionOK, Logs
  <1>2. /\ fork[r].phase = "default" /\ DOMAIN fork[r] = {"phase", "branch"}
        /\ fork[r].branch \in DOMAIN s.branches /\ s.events # <<>>
    BY DEF BundlesInv, ForkOK, ForkActivate
  <1>3. CountersGrow /\ minted' = minted
    BY <1>1, EventsCounted DEF CountsOK, CountersGrow, ForkActivate
  <1>4. t = [s EXCEPT !.branches = rows]
    BY <1>1 DEF ForkActivate
  <1>5. DOMAIN store' = Replicas /\ \A q \in Replicas \ {r} : store'[q] = store[q]
    BY <1>1 DEF ForkActivate
  <1>6. DOMAIN rows = DOMAIN s.branches
    BY DEF WithDefault
  <1> HIDE DEF s, t, rows
  <1>7. /\ DOMAIN t = DOMAIN s /\ t.events = s.events /\ t.chunks = s.chunks
        /\ t.origin = s.origin /\ t.branches = rows
    BY <1>1, <1>4
  <1>8. SessionOK(t, minted.branches) /\ LogOf(t) = LogOf(s)
    BY <1>1, <1>2, <1>6, <1>7, SessionBranched
  <1>9. Consistent(Logs \cup {LogOf(t)}, minted.events)
    <2>1. Logs \cup {LogOf(t)} = Logs
      BY <1>1, <1>8
    <2> QED
      BY <2>1 DEF BundlesInv
  <1>10. /\ DOMAIN fork' = Replicas /\ \A q \in Replicas \ {r} : fork'[q] = fork[q]
         /\ ForkOK(r)'
    <2>1. DOMAIN fork' = Replicas /\ \A q \in Replicas \ {r} : fork'[q] = fork[q]
      BY <1>1 DEF ForkActivate
    <2>2. fork'[r] = [fork[r] EXCEPT !.phase = "event"]
      BY <1>1 DEF ForkActivate
    <2>3. /\ DOMAIN fork'[r] = {"phase", "branch"} /\ fork'[r].phase = "event"
          /\ fork'[r].branch = fork[r].branch
      BY <1>2, <2>2
    <2> QED
      BY <1>2, <1>6, <1>7, <2>1, <2>3 DEF ForkOK, t
  <1>11. UNCHANGED <<export, dir, remote, push, crashes, acked>>
    BY DEF ForkActivate
  <1> QED
    BY <1>2, <1>3, <1>5, <1>7, <1>8, <1>9, <1>10, <1>11, StoreStep DEF s, t

LEMMA ForkRecordKeeps ==
    ASSUME BundlesInv, UNCHANGED scope, NEW r \in Replicas, ForkRecord(r)
    PROVE  BundlesInv'
  <1> DEFINE s == store[r]
             t == store'[r]
             e == Event(fork[r].branch, 0)
  <1>1. /\ CountsOK /\ DOMAIN store = Replicas /\ DOMAIN fork = Replicas
        /\ SessionOK(s, minted.branches) /\ LogOf(s) \in Logs
        /\ DOMAIN s = {"events", "branches", "chunks", "origin"}
        /\ DOMAIN s.branches \subseteq minted.branches /\ ChunkRowsOK(s.chunks)
        /\ minted.branches \subseteq Branches
    BY DEF BundlesInv, CountsOK, SessionOK, Logs
  <1>2. fork[r].branch \in DOMAIN s.branches /\ s.events # <<>>
    BY DEF BundlesInv, ForkOK, ForkRecord
  <1>3. /\ minted.events \in Nat /\ CountersGrow
        /\ minted'.events = minted.events + 1 /\ minted'.branches = minted.branches
    <2>1. minted.events < scope.events /\ minted' = [minted EXCEPT !.events = @ + 1]
      BY DEF ForkRecord
    <2>2. minted' = [minted EXCEPT !.events = @ + 1, !.branches = minted.branches]
      BY <1>1, <2>1 DEF CountsOK
    <2> QED
      BY <1>1, <2>1, <2>2, EventCounted, EventsCounted
  <1>4. t = [s EXCEPT !.events = Append(@, e)]
    BY <1>1 DEF ForkRecord
  <1>5. DOMAIN store' = Replicas /\ \A q \in Replicas \ {r} : store'[q] = store[q]
    BY <1>1 DEF ForkRecord
  <1>6. e \in LiveEvents /\ e.id = minted.events + 1 /\ e.branch = fork[r].branch /\ e.chunk = 0
    BY <1>1, <1>2, <1>3 DEF Event, LiveEvents
  <1> HIDE DEF s, t, e
  <1>7. /\ DOMAIN t = DOMAIN s /\ t.events = Append(s.events, e) /\ t.chunks = s.chunks
        /\ t.origin = s.origin /\ t.branches = s.branches
    BY <1>1, <1>4
  <1>8. Records(s, t, e)
    BY <1>1, <1>2, <1>6, <1>7 DEF Records
  <1>9. /\ SessionOK(t, minted.branches) /\ t.events # <<>>
        /\ Consistent(Logs \cup {LogOf(t)}, minted.events + 1)
    BY <1>1, <1>2, <1>6, <1>7, <1>8, EventRecorded
  <1>10. /\ DOMAIN fork' = Replicas /\ \A q \in Replicas \ {r} : fork'[q] = fork[q]
         /\ ForkOK(r)'
    BY <1>1 DEF ForkOK, ForkRecord, IdleFork
  <1>11. UNCHANGED <<export, dir, remote, push, crashes, acked>>
    BY DEF ForkRecord
  <1> QED
    BY <1>3, <1>5, <1>7, <1>9, <1>10, <1>11, StoreStep DEF s, t

(***************************************************************************)
(* Session bundles: import and continuation                                *)
(***************************************************************************)

LEMMA ImportKeeps ==
    ASSUME BundlesInv, UNCHANGED scope, NEW r \in Replicas, Import(r)
    PROVE  BundlesInv'
  <1> DEFINE t == ImportedStore(dir[r])
  <1>1. /\ CountsOK /\ DOMAIN store = Replicas /\ DOMAIN fork = Replicas
        /\ BundleOK(dir[r], minted.branches) /\ Valid(dir[r]) /\ dir[r].events \in Logs
        /\ export[r] = IdleExport /\ minted' = minted
    BY DEF BundlesInv, CountsOK, Logs, Import, AtPrompt
  <1>2. dir[r].events \in Seq(PortableEvents)
    BY <1>1 DEF BundlesInv, Consistent, LogOK
  <1>3. SessionOK(t, minted.branches) /\ LogOf(t) = dir[r].events /\ t.events # <<>>
    BY <1>1, <1>2, ImportedOK
  <1>4. /\ DOMAIN store' = Replicas /\ store'[r] = t
        /\ \A q \in Replicas \ {r} : store'[q] = store[q]
    BY <1>1 DEF Import
  <1> HIDE DEF t
  <1>5. Consistent(Logs \cup {LogOf(t)}, minted.events)
    <2>1. Logs \cup {LogOf(t)} = Logs
      BY <1>1, <1>3
    <2> QED
      BY <2>1 DEF BundlesInv
  <1>6. CountersGrow
    BY <1>1, EventsCounted DEF CountsOK, CountersGrow
  <1>7. fork' = fork /\ ForkOK(r)'
    <2>1. ForkOK(r) /\ SessionOK(store[r], minted.branches) /\ store[r].branches = <<>>
      BY DEF BundlesInv, Import, Present
    <2>2. fork[r].phase = "idle"
      BY <2>1 DEF ForkOK
    <2> QED
      BY <2>1, <2>2 DEF Import, ForkOK
  <1>8. UNCHANGED <<fork, export, dir, remote, push, crashes, acked>> /\ export[r].phase # "chunks"
    BY <1>1 DEF Import, IdleExport
  <1> QED
    BY <1>1, <1>3, <1>4, <1>5, <1>6, <1>7, <1>8, StoreStep

LEMMA ContinueKeeps ==
    ASSUME BundlesInv, UNCHANGED scope, NEW r \in Replicas, NEW id \in 1..scope.events,
           Continue(r, id)
    PROVE  BundlesInv'
  <1> DEFINE s == IF Present(r) THEN store[r] ELSE ImportedStore(dir[r])
             parent == dir[r].events[EventOf(dir[r], id)].branch
             t == store'[r]
  <1>1. /\ CountsOK /\ DOMAIN store = Replicas /\ minted.branches \subseteq Branches
        /\ BundleOK(dir[r], minted.branches) /\ Valid(dir[r]) /\ dir[r].events \in Logs
        /\ export[r] = IdleExport /\ minted.events \in Nat
        /\ SessionOK(store[r], minted.branches)
    BY EventsCounted DEF BundlesInv, CountsOK, Logs, Continue, AtPrompt
  <1>2. dir[r].events \in Seq(PortableEvents)
    BY <1>1 DEF BundlesInv, Consistent, LogOK
  <1>3. SessionOK(s, minted.branches) /\ LogOf(s) \in Logs /\ s.events # <<>>
    <2>1. CASE Present(r)
      BY <1>1, <2>1 DEF SessionOK, Present, Logs
    <2>2. CASE ~Present(r)
      BY <1>1, <1>2, <2>2, ImportedOK
    <2> QED
      BY <2>1, <2>2
  <1>4. PICK b \in Branches \ minted.branches :
           /\ minted' = [minted EXCEPT !.events = @ + 1, !.branches = @ \union {b}]
           /\ store' = [store EXCEPT ![r] = [s EXCEPT
                !.events = Append(@, Event(b, 0)),
                !.branches = WithDefault(
                   [x \in DOMAIN @ \union {b} |-> IF x = b
                      THEN BranchRow(parent, id, FALSE) ELSE @[x]], b)]]
    BY DEF Continue
  <1> DEFINE e == Event(b, 0)
             rows == WithDefault([x \in DOMAIN s.branches \union {b} |-> IF x = b
                                    THEN BranchRow(parent, id, FALSE) ELSE s.branches[x]], b)
  <1> HIDE DEF s
  <1>5. t = [s EXCEPT !.events = Append(@, e), !.branches = rows]
    BY <1>1, <1>3, <1>4 DEF SessionOK
  <1>6. DOMAIN store' = Replicas /\ \A q \in Replicas \ {r} : store'[q] = store[q]
    BY <1>1, <1>4
  <1>7. /\ minted'.events = minted.events + 1 /\ minted'.branches = minted.branches \cup {b}
        /\ CountersGrow
    <2>1. minted.events < scope.events
      BY DEF Continue
    <2>2. minted.branches \cup {b} \in SUBSET Branches
      BY <1>1
    <2> QED
      BY <1>1, <1>4, <2>1, <2>2, EventCounted
  <1>8. DOMAIN rows = DOMAIN s.branches \cup {b}
    BY DEF WithDefault
  <1>9. e \in LiveEvents /\ e.id = minted.events + 1 /\ e.branch = b /\ e.chunk = 0
    BY <1>1 DEF Event, LiveEvents
  <1> HIDE DEF t, rows, e
  <1>10. /\ DOMAIN t = {"events", "branches", "chunks", "origin"}
         /\ t.events = Append(s.events, e) /\ t.chunks = s.chunks
         /\ t.origin = s.origin /\ t.branches = rows
    BY <1>3, <1>5 DEF SessionOK
  <1>11. Records(s, t, e)
    BY <1>3, <1>8, <1>9, <1>10 DEF Records, SessionOK
  <1>12. DOMAIN t.branches \subseteq minted'.branches
    BY <1>3, <1>7, <1>8, <1>10 DEF SessionOK
  <1>13. /\ SessionOK(t, minted'.branches) /\ t.events # <<>>
         /\ Consistent(Logs \cup {LogOf(t)}, minted.events + 1)
    BY <1>3, <1>9, <1>11, <1>12, EventRecorded
  <1>14. UNCHANGED <<fork, export, dir, remote, push, crashes, acked>> /\ export[r].phase # "chunks"
    <2>1. UNCHANGED <<fork, export, dir, remote, push, crashes, acked>>
      BY DEF Continue
    <2> QED
      BY <1>1, <2>1 DEF IdleExport
  <1>15. DOMAIN fork' = Replicas /\ ForkOK(r)'
    <2>1. ForkOK(r) /\ fork' = fork /\ DOMAIN fork = Replicas
      BY <1>1, <1>14 DEF BundlesInv, CountsOK
    <2>2. ASSUME fork[r].phase # "idle"
          PROVE  fork[r].branch \in DOMAIN t.branches
      <3>1. fork[r].branch \in DOMAIN store[r].branches
        BY <2>1, <2>2 DEF ForkOK
      <3>2. Present(r)
        BY <3>1 DEF Present
      <3> QED
        BY <1>8, <1>10, <3>1, <3>2 DEF s
    <2> QED
      BY <1>13, <2>1, <2>2 DEF ForkOK, t
  <1> QED
    BY <1>6, <1>7, <1>13, <1>14, <1>15, StoreStep DEF t

(***************************************************************************)
(* Session bundles: export and pull                                        *)
(***************************************************************************)

(* A directory is handed out, or nothing is.                               *)
LEMMA DirectoryMinted ==
    ASSUME CountsOK,
           \/ minted' = minted
           \/ minted.dirs < scope.dirs /\ minted' = [minted EXCEPT !.dirs = @ + 1]
    PROVE  /\ CountersGrow
           /\ minted'.branches = minted.branches /\ minted'.events = minted.events
  <1>1. scope.dirs \in Nat /\ minted.events \in Nat
    BY EventsCounted
  <1>2. minted \in [events : 1..scope.events, branches : SUBSET Branches,
                    dirs : 0..scope.dirs, forks : 0..scope.forks]
    BY DEF CountsOK
  <1>3. minted' \in [events : 1..scope.events, branches : SUBSET Branches,
                     dirs : 0..scope.dirs, forks : 0..scope.forks]
    <2>1. CASE minted' = minted
      BY <1>2, <2>1
    <2>2. CASE minted.dirs < scope.dirs /\ minted' = [minted EXCEPT !.dirs = @ + 1]
      <3>1. minted.dirs + 1 \in 0..scope.dirs
        BY <1>1, <1>2, <2>2
      <3> QED
        BY <1>2, <2>2, <3>1
    <2> QED
      BY <2>1, <2>2
  <1>4. minted'.branches = minted.branches /\ minted'.events = minted.events
    BY <1>2
  <1> QED
    BY <1>1, <1>3, <1>4 DEF CountersGrow

(* While an export runs, its machine does not push.                        *)
LEMMA ExportAlone ==
    ASSUME BundlesInv, NEW r \in Replicas, export[r].phase # "idle" \/ AtPrompt(r)
    PROVE  push[r].phase = "idle"
  <1>1. PushOK(r)
    BY DEF BundlesInv
  <1>2. CASE export[r].phase # "idle"
    BY <1>1, <1>2 DEF PushOK, IdleExport
  <1>3. CASE AtPrompt(r)
    BY <1>1, <1>3 DEF AtPrompt, IdlePush
  <1> QED
    BY <1>2, <1>3

LEMMA ExportBranchesKeeps ==
    ASSUME BundlesInv, UNCHANGED scope, NEW r \in Replicas, ExportBranches(r)
    PROVE  BundlesInv'
  <1>1. /\ CountsOK /\ DOMAIN export = Replicas /\ DOMAIN dir = Replicas
        /\ BundleOK(dir[r], minted.branches) /\ dir[r].events \in Logs
        /\ SessionOK(store[r], minted.branches) /\ push[r].phase = "idle"
    BY ExportAlone DEF BundlesInv, CountsOK, Logs, ExportBranches
  <1>2. minted.dirs < scope.dirs /\ minted' = [minted EXCEPT !.dirs = @ + 1]
    BY DEF ExportBranches
  <1>3. CountersGrow /\ minted'.branches = minted.branches /\ minted'.events = minted.events
    BY <1>1, <1>2, DirectoryMinted
  <1>4. /\ export' = [export EXCEPT ![r] = [phase |-> "events", rows |-> Rows(store[r])]]
        /\ UNCHANGED <<store, fork, dir, remote, push, crashes, acked>>
    BY DEF ExportBranches
  <1>5. ExportOK(r)'
    <2>1. /\ export'[r].phase = "events"
          /\ DOMAIN export'[r].rows = DOMAIN store[r].branches
      BY <1>1, <1>4 DEF Rows
    <2>2. store[r].events # <<>> /\ DOMAIN store[r].branches \subseteq minted.branches
      BY <1>1 DEF ExportBranches, Present, SessionOK
    <2> QED
      BY <1>3, <1>4, <2>1, <2>2 DEF ExportOK
  <1>6. export'[r].phase # "chunks" /\ crashes' \in 0..scope.crashes
    BY <1>1, <1>4 DEF CountsOK
  <1> QED
    BY <1>1, <1>3, <1>4, <1>5, <1>6, DirectoryStep

LEMMA ExportEventsKeeps ==
    ASSUME BundlesInv, UNCHANGED scope, NEW r \in Replicas, ExportEvents(r)
    PROVE  BundlesInv'
  <1>1. /\ CountsOK /\ DOMAIN export = Replicas /\ DOMAIN dir = Replicas
        /\ BundleOK(dir[r], minted.branches) /\ dir[r].events \in Logs
        /\ SessionOK(store[r], minted.branches) /\ push[r].phase = "idle"
        /\ ExportOK(r) /\ export[r].phase = "events"
    BY ExportAlone DEF BundlesInv, CountsOK, Logs, ExportEvents
  <1>2. CountersGrow /\ minted' = minted
    BY <1>1, DirectoryMinted DEF ExportEvents
  <1>3. /\ export' = [export EXCEPT ![r] =
             [phase |-> "chunks", rows |-> export[r].rows, events |-> store[r].events]]
        /\ UNCHANGED <<store, fork, dir, remote, push, crashes, acked>>
    BY DEF ExportEvents
  <1>4. /\ export'[r].phase = "chunks" /\ export'[r].rows = export[r].rows
        /\ export'[r].events = store[r].events
    BY <1>1, <1>3
  <1>5. ExportOK(r)'
    BY <1>1, <1>2, <1>3, <1>4 DEF ExportOK, SessionOK
  <1>6. ReadOut(r)' \in Logs
    <2>1. ReadOut(r)' = LogOf(store[r])
      BY <1>3, <1>4 DEF ReadOut, LogOf
    <2> QED
      BY <2>1 DEF Logs
  <1>7. crashes' \in 0..scope.crashes
    BY <1>1, <1>3 DEF CountsOK
  <1> QED
    BY <1>1, <1>2, <1>3, <1>5, <1>6, <1>7, DirectoryStep

LEMMA ExportWriteKeeps ==
    ASSUME BundlesInv, UNCHANGED scope, NEW r \in Replicas, NEW withArtifact, ExportWrite(r, withArtifact)
    PROVE  BundlesInv'
  <1> DEFINE rows == export[r].rows
             events == export[r].events
             chunks == store[r].chunks
             b == Bundle(rows, events, chunks, withArtifact)
  <1>1. /\ CountsOK /\ DOMAIN export = Replicas /\ DOMAIN dir = Replicas
        /\ SessionOK(store[r], minted.branches) /\ push[r].phase = "idle"
        /\ ExportOK(r) /\ export[r].phase = "chunks"
    BY ExportAlone DEF BundlesInv, CountsOK, ExportWrite
  <1>2. CountersGrow /\ minted' = minted
    BY <1>1, DirectoryMinted DEF ExportWrite
  <1>3. /\ dir' = [dir EXCEPT ![r] = b]
        /\ export' = [export EXCEPT ![r] = IdleExport]
        /\ UNCHANGED <<store, fork, remote, push, crashes, acked>>
    BY DEF ExportWrite
  <1>4. /\ events \in Seq(LiveEvents) /\ events # <<>> /\ ChunksStored(events, chunks)
        /\ ChunkRowsOK(chunks) /\ DOMAIN rows \subseteq minted.branches
    BY <1>1 DEF ExportOK, SessionOK
  <1>5. ReadOut(r) = PortableLog(events, chunks) /\ ReadOut(r) \in Logs
    BY <1>1 DEF ReadOut, Logs
  <1> HIDE DEF rows, events, chunks
  <1>6. /\ b.events = PortableLog(events, chunks) /\ b.refs = ChunkRefs(events, chunks)
        /\ b.branches = ManifestBranches(rows, events) /\ b.written
    BY DEF Bundle
  <1> HIDE DEF b
  <1>7. BundleOK(b, minted.branches)
    <2>1. b.refs \subseteq ChunkReferences /\ IsFiniteSet(b.refs)
      BY <1>4, <1>6, ChunkRefsTyped
    <2>2. DOMAIN b.branches = DOMAIN rows
      BY <1>6 DEF ManifestBranches
    <2>3. b.events # <<>>
      <3>1. b.events \in Seq(PortableEvents) /\ Len(b.events) = Len(events)
        BY <1>4, <1>6, PortableLogTyped
      <3>2. Len(events) # 0
        BY <1>4, EmptySeq
      <3> QED
        BY <3>1, <3>2, EmptySeq
    <2> QED
      BY <1>4, <2>1, <2>2, <2>3 DEF BundleOK
  <1>8. dir'[r] = b /\ export'[r] = IdleExport
    BY <1>1, <1>3
  <1>9. ExportOK(r)' /\ export'[r].phase # "chunks"
    BY <1>8 DEF ExportOK, IdleExport
  <1>10. crashes' \in 0..scope.crashes
    BY <1>1, <1>3 DEF CountsOK
  <1>11. DOMAIN export' = Replicas /\ \A q \in Replicas \ {r} : export'[q] = export[q]
    BY <1>1, <1>3
  <1>12. DOMAIN dir' = Replicas /\ \A q \in Replicas \ {r} : dir'[q] = dir[q]
    BY <1>1, <1>3
  <1> QED
    BY <1>1, <1>2, <1>3, <1>5, <1>6, <1>7, <1>8, <1>9, <1>10, <1>11, <1>12, DirectoryStep

LEMMA PullKeeps ==
    ASSUME BundlesInv, UNCHANGED scope, NEW r \in Replicas, NEW b \in Branches, Pull(r, b)
    PROVE  BundlesInv'
  <1> DEFINE x == StoredBundle(Heads[b].hash)
  <1>1. /\ CountsOK /\ DOMAIN export = Replicas /\ DOMAIN dir = Replicas
        /\ push[r].phase = "idle" /\ ExportOK(r) /\ export[r] = IdleExport
    BY ExportAlone DEF BundlesInv, CountsOK, Pull, AtPrompt
  <1>2. minted.dirs < scope.dirs /\ minted' = [minted EXCEPT !.dirs = @ + 1]
    BY DEF Pull
  <1>3. CountersGrow /\ minted'.branches = minted.branches /\ minted'.events = minted.events
    BY <1>1, <1>2, DirectoryMinted
  <1>4. /\ dir' = [dir EXCEPT ![r] = x]
        /\ UNCHANGED <<store, fork, export, remote, push, crashes, acked>>
    BY DEF Pull
  <1>5. x \in remote.bundles
    <2>1. \E y \in remote.bundles : Hash(y) = Heads[b].hash
      BY DEF Pull
    <2> QED
      BY <2>1 DEF StoredBundle
  <1> HIDE DEF x
  <1>6. BundleOK(x, minted.branches) /\ x.events \in Logs
    BY <1>5 DEF BundlesInv, RegistryOK, Logs
  <1>7. DOMAIN dir' = Replicas /\ dir'[r] = x /\ \A q \in Replicas \ {r} : dir'[q] = dir[q]
    BY <1>1, <1>4
  <1>8. ExportOK(r)' /\ export'[r].phase # "chunks" /\ crashes' \in 0..scope.crashes
    BY <1>1, <1>4 DEF ExportOK, IdleExport, CountsOK
  <1> QED
    BY <1>1, <1>3, <1>4, <1>6, <1>7, <1>8, DirectoryStep


(***************************************************************************)
(* Session bundles: pushes                                                 *)
(***************************************************************************)

(* The lock file keeps pushes apart.                                       *)
LEMMA OnePush ==
    ASSUME BundlesInv, NEW r \in Replicas, remote.lock = None \/ remote.lock = r,
           NEW q \in Replicas \ {r}
    PROVE  push[q] = IdlePush
  <1>1. PushOK(q)
    BY DEF BundlesInv
  <1>2. remote.lock # q
    BY BundlesAssumption
  <1> QED
    BY <1>1, <1>2 DEF PushOK

LEMMA IdlePushOK ==
    ASSUME NEW q, push'[q] = IdlePush
    PROVE  PushOK(q)'
  BY DEF PushOK, IdlePush

(* What the bundle under a head's hash says.                               *)
LEMMA HeadKnown ==
    ASSUME BundlesInv, NEW b \in DOMAIN Heads
    PROVE  /\ StoredBundle(Heads[b].hash) \in remote.bundles
           /\ StoredBundle(Heads[b].hash).events = Heads[b].hash.events
           /\ Heads[b].hash.events \in Logs
           /\ Heads[b].hash.events \in Seq(PortableEvents)
           /\ \E i \in 1..Len(Heads[b].hash.events) : Heads[b].hash.events[i].id = Heads[b].event
  <1> DEFINE h == Heads[b].hash
             y == StoredBundle(h)
  <1>1. PICK x \in remote.bundles : /\ Hash(x) = h /\ Valid(x)
                                    /\ b \in DOMAIN x.branches /\ x.branches[b].head = Heads[b].event
    BY DEF BundlesInv, RegistryOK, HeadsResolve
  <1>2. y \in remote.bundles /\ Hash(y) = h
    BY <1>1 DEF StoredBundle
  <1> HIDE DEF y
  <1>3. h.events = x.events /\ y.events = h.events
    BY <1>1, <1>2 DEF Hash
  <1>4. x.events \in Logs /\ x.events \in Seq(PortableEvents)
    <2>1. x.events \in Logs
      BY <1>1 DEF Logs
    <2> QED
      BY <2>1 DEF BundlesInv, Consistent, LogOK
  <1>5. TipOf(x.events, b) = Heads[b].event /\ Heads[b].event # NoEvent
    BY <1>1 DEF Valid, ValidBranches, BundlesInv, RegistryOK
  <1>6. \E i \in 1..Len(x.events) : x.events[i].id = Heads[b].event
    <2>1. Len(x.events) \in Nat
      BY <1>4, LenProperties
    <2> QED
      BY <1>5, <2>1, TipIsEvent
  <1> QED
    BY <1>2, <1>3, <1>4, <1>6 DEF y

LEMMA PushBeginKeeps ==
    ASSUME BundlesInv, UNCHANGED scope, NEW r \in Replicas, NEW b \in Branches, NEW e,
           PushBegin(r, b, e)
    PROVE  BundlesInv'
  <1> DEFINE p == [phase |-> "copy", branch |-> b, bundle |-> dir[r],
                   head |-> dir[r].branches[b].head,
                   heads |-> Heads, default |-> remote.default]
  <1>1. /\ CountsOK /\ RegistryOK /\ AcceptedKept
        /\ DOMAIN remote = {"lock", "heads", "default", "bundles"} /\ DOMAIN push = Replicas
    BY DEF BundlesInv, CountsOK, RegistryOK
  <1>2. /\ remote' = [remote EXCEPT !.lock = r]
        /\ push' = [push EXCEPT ![r] = p]
        /\ UNCHANGED <<store, fork, export, dir, minted, crashes, acked>>
        /\ remote.lock = None /\ export[r] = IdleExport
        /\ Valid(dir[r]) /\ b \in DOMAIN dir[r].branches
        /\ dir[r].branches[b].head # NoEvent
        /\ b \in DOMAIN Heads /\ Heads[b].event # dir[r].branches[b].head => Extends(dir[r], b)
    BY DEF PushBegin, AtPrompt, LockFree
  <1>3. /\ remote'.lock = r /\ remote'.heads = remote.heads
        /\ remote'.default = remote.default /\ remote'.bundles = remote.bundles
        /\ DOMAIN remote' = {"lock", "heads", "default", "bundles"}
    BY <1>1, <1>2
  <1>4. RegistryOK' /\ AcceptedKept'
    BY <1>1, <1>2, <1>3 DEF RegistryOK, HeadsResolve, AcceptedKept, Heads
  <1>5. b \in DOMAIN Heads /\ Heads[b].event # dir[r].branches[b].head =>
           IsPrefix(Heads[b].hash.events, dir[r].events)
    BY <1>2, HeadKnown DEF Extends
  <1>6. PushOK(r)'
    <2>1. push'[r] = p
      BY <1>1, <1>2
    <2> QED
      BY <1>2, <1>3, <1>5, <2>1 DEF PushOK, Heads
  <1>7. ASSUME NEW q \in Replicas PROVE PushOK(q)'
    <2>1. CASE q = r
      BY <1>6, <2>1
    <2>2. CASE q # r
      BY <1>2, <2>2, OnePush, IdlePushOK
    <2> QED
      BY <2>1, <2>2
  <1>8. crashes' \in 0..scope.crashes /\ DOMAIN push' = Replicas
    BY <1>1, <1>2 DEF CountsOK
  <1>9. \A x \in remote'.bundles : x.events \in Logs
    BY <1>3 DEF Logs
  <1> QED
    BY <1>2, <1>4, <1>7, <1>8, <1>9, RegistryStep

LEMMA PushCopyKeeps ==
    ASSUME BundlesInv, UNCHANGED scope, NEW r \in Replicas, PushCopy(r)
    PROVE  BundlesInv'
  <1> DEFINE b == push[r].bundle
  <1>1. /\ CountsOK /\ RegistryOK /\ AcceptedKept /\ PushOK(r)
        /\ DOMAIN remote = {"lock", "heads", "default", "bundles"} /\ DOMAIN push = Replicas
    BY DEF BundlesInv, CountsOK, RegistryOK
  <1>2. /\ push[r].phase = "copy" /\ push' = [push EXCEPT ![r].phase = "write"]
        /\ UNCHANGED <<store, fork, export, dir, minted, crashes, acked>>
    BY DEF PushCopy
  <1>3. /\ remote.lock = r /\ b = dir[r] /\ Valid(b) /\ BundleOK(b, minted.branches)
        /\ b.events \in Logs
    BY <1>1, <1>2 DEF PushOK, BundlesInv, Logs
  <1> HIDE DEF b
  <1>4. /\ DOMAIN remote' = {"lock", "heads", "default", "bundles"}
        /\ remote'.lock = r /\ remote'.heads = remote.heads /\ remote'.default = remote.default
        /\ remote'.bundles \in {remote.bundles, remote.bundles \cup {b}}
        /\ \E x \in remote'.bundles : Hash(x) = Hash(b)
    BY <1>1, <1>3 DEF PushCopy, b
  <1>5. RegistryOK'
    <2>1. \A x \in remote'.bundles : Valid(x) /\ BundleOK(x, minted.branches)
      BY <1>1, <1>3, <1>4 DEF RegistryOK
    <2>2. HeadsResolve'
      BY <1>1, <1>4 DEF RegistryOK, HeadsResolve, Heads
    <2> QED
      BY <1>1, <1>2, <1>4, <2>1, <2>2 DEF RegistryOK, Heads
  <1>6. AcceptedKept'
    BY <1>1, <1>2, <1>4 DEF AcceptedKept, Heads
  <1>7. PushOK(r)'
    <2>1. push'[r] = [push[r] EXCEPT !.phase = "write"]
      BY <1>1, <1>2
    <2>2. DOMAIN push[r] = {"phase", "branch", "bundle", "head", "heads", "default"}
      BY <1>1, <1>2 DEF PushOK
    <2>3. /\ push'[r].phase = "write" /\ DOMAIN push'[r] = DOMAIN push[r]
          /\ push'[r].branch = push[r].branch /\ push'[r].bundle = b
          /\ push'[r].head = push[r].head /\ push'[r].heads = push[r].heads
          /\ push'[r].default = push[r].default
      BY <2>1, <2>2 DEF b
    <2> QED
      BY <1>1, <1>2, <1>4, <2>2, <2>3 DEF PushOK, Heads, b
  <1>8. ASSUME NEW q \in Replicas PROVE PushOK(q)'
    <2>1. CASE q = r
      BY <1>7, <2>1
    <2>2. CASE q # r
      BY <1>2, <1>3, <2>2, OnePush, IdlePushOK
    <2> QED
      BY <2>1, <2>2
  <1>9. crashes' \in 0..scope.crashes /\ DOMAIN push' = Replicas
    BY <1>1, <1>2 DEF CountsOK
  <1>10. \A x \in remote'.bundles : x.events \in Logs
    BY <1>3, <1>4 DEF Logs
  <1> QED
    BY <1>2, <1>5, <1>6, <1>8, <1>9, <1>10, RegistryStep


(* A head that is not moved stays, one that is moved goes on.              *)
HeadsGrow ==
    \A b \in DOMAIN remote.heads :
        /\ b \in DOMAIN remote'.heads
        /\ IsPrefix(remote.heads[b].hash.events, remote'.heads[b].hash.events)

LEMMA HeadsLeftGrow ==
    ASSUME BundlesInv, remote'.heads = remote.heads
    PROVE  HeadsGrow
  <1>1. ASSUME NEW b \in DOMAIN Heads
        PROVE  IsPrefix(Heads[b].hash.events, Heads[b].hash.events)
    <2>1. Heads[b].hash.events \in Seq(PortableEvents)
      BY HeadKnown
    <2>2. Len(Heads[b].hash.events) \in Nat
      BY <2>1, LenProperties
    <2> QED
      BY <2>1, <2>2, PrefixPointwise
  <1> QED
    BY <1>1 DEF HeadsGrow, Heads

(* Heads that go on keep what was accepted.                                *)
LEMMA GrowthKeepsAccepted ==
    ASSUME BundlesInv, HeadsGrow, acked' = acked,
           \A b \in DOMAIN remote'.heads : remote'.heads[b].hash.events \in Seq(PortableEvents)
    PROVE  AcceptedKept'
  <1> SUFFICES ASSUME NEW a \in acked
               PROVE  /\ a.branch \in DOMAIN remote'.heads
                      /\ \E i \in 1..Len(remote'.heads[a.branch].hash.events) :
                            remote'.heads[a.branch].hash.events[i].id = a.event
    BY DEF AcceptedKept, Heads
  <1> DEFINE b == a.branch
             old == remote.heads[b].hash.events
             new == remote'.heads[b].hash.events
  <1>1. b \in DOMAIN Heads /\ \E i \in 1..Len(old) : old[i].id = a.event
    BY DEF BundlesInv, AcceptedKept, Heads
  <1>2. b \in DOMAIN remote'.heads /\ IsPrefix(old, new)
    BY <1>1 DEF HeadsGrow, Heads
  <1>3. old \in Seq(PortableEvents) /\ new \in Seq(PortableEvents)
    BY <1>1, <1>2, HeadKnown DEF Heads
  <1> HIDE DEF old, new
  <1>4. Len(old) \in Nat /\ Len(new) \in Nat /\ Len(old) <= Len(new)
        /\ \A i \in 1..Len(old) : old[i] = new[i]
    BY <1>2, <1>3, LenProperties, PrefixPointwise
  <1>5. \E i \in 1..Len(new) : new[i].id = a.event
    BY <1>1, <1>4
  <1> QED
    BY <1>2, <1>5 DEF new

(* heads.json after a push is what it was before, but for the branch.      *)
LEMMA HeadsAfterWrite ==
    ASSUME BundlesInv, NEW r \in Replicas, PushWrite(r)
    PROVE  LET p == push[r]
           IN /\ DOMAIN remote'.heads = DOMAIN Heads \cup {p.branch}
              /\ \A b \in DOMAIN Heads :
                    b # p.branch \/ Heads[b].event = p.head => remote'.heads[b] = Heads[b]
              /\ p.branch \notin DOMAIN Heads \/ Heads[p.branch].event # p.head =>
                    remote'.heads[p.branch] = [event |-> p.head, hash |-> Hash(p.bundle)]
              /\ DOMAIN remote' = {"lock", "heads", "default", "bundles"}
              /\ remote'.lock = remote.lock /\ remote'.bundles = remote.bundles
  <1>1. push[r].phase = "write" /\ push[r].heads = Heads
    BY DEF BundlesInv, PushOK, PushWrite
  <1>2. DOMAIN remote = {"lock", "heads", "default", "bundles"}
    BY DEF BundlesInv, RegistryOK
  <1>3. remote' = [remote EXCEPT !.heads = AdvancedHeads(push[r], push[r]),
                                 !.default = DefaultAfter(push[r], push[r])]
    BY DEF PushWrite
  <1>4. remote'.heads = AdvancedHeads(push[r], push[r])
    BY <1>2, <1>3
  <1>5. remote'.heads =
           [b \in DOMAIN Heads \cup {push[r].branch} |->
              IF b = push[r].branch /\ (b \notin DOMAIN Heads \/ Heads[b].event # push[r].head)
              THEN [event |-> push[r].head, hash |-> Hash(push[r].bundle)] ELSE Heads[b]]
    BY <1>1, <1>4 DEF AdvancedHeads
  <1>6. /\ DOMAIN remote' = {"lock", "heads", "default", "bundles"}
        /\ remote'.lock = remote.lock /\ remote'.bundles = remote.bundles
    BY <1>2, <1>3
  <1> HIDE DEF Heads
  <1> QED
    BY <1>5, <1>6

(* The bundle that a push is about to name is there, with its tip as head. *)
LEMMA PushedStored ==
    ASSUME BundlesInv, NEW r \in Replicas, push[r].phase = "write"
    PROVE  \E x \in remote.bundles :
              /\ Hash(x) = Hash(push[r].bundle) /\ Valid(x) /\ x.events = push[r].bundle.events
              /\ push[r].branch \in DOMAIN x.branches
              /\ x.branches[push[r].branch].head = push[r].head
  <1> DEFINE b == push[r].bundle
             n == push[r].branch
  <1>1. /\ \E x \in remote.bundles : Hash(x) = Hash(b)
        /\ Valid(b) /\ n \in DOMAIN b.branches
        /\ push[r].head = b.branches[n].head /\ push[r].head # NoEvent
        /\ b = dir[r]
    BY DEF BundlesInv, PushOK
  <1>2. PICK x \in remote.bundles : Hash(x) = Hash(b)
    BY <1>1
  <1>3. Valid(x) /\ x.events = b.events
    BY SMTT(30), <1>2 DEF BundlesInv, RegistryOK, Hash
  <1>4. push[r].head = TipOf(x.events, n)
    BY <1>1, <1>3 DEF Valid, ValidBranches
  <1>5. n \in DOMAIN x.branches
    <2>1. x.events \in Seq(PortableEvents)
      BY <1>2 DEF BundlesInv, Consistent, LogOK, Logs
    <2>2. \E i \in 1..Len(x.events) : x.events[i].branch = n
      BY <1>1, <1>4, <2>1, LenProperties, TipIsEvent
    <2> QED
      BY <1>3, <2>2 DEF Valid, ValidBranches
  <1>6. x.branches[n].head = TipOf(x.events, n)
    BY <1>3, <1>5 DEF Valid, ValidBranches
  <1> QED
    BY <1>2, <1>3, <1>4, <1>5, <1>6

LEMMA WriteGrows ==
    ASSUME BundlesInv, NEW r \in Replicas, PushWrite(r)
    PROVE  /\ HeadsGrow
           /\ \A b \in DOMAIN remote'.heads : remote'.heads[b].hash.events \in Seq(PortableEvents)
  <1> DEFINE p == push[r]
             moved == p.branch \notin DOMAIN Heads \/ Heads[p.branch].event # p.head
  <1>1. /\ DOMAIN remote'.heads = DOMAIN Heads \cup {p.branch}
        /\ \A b \in DOMAIN Heads :
              b # p.branch \/ Heads[b].event = p.head => remote'.heads[b] = Heads[b]
        /\ moved => remote'.heads[p.branch] = [event |-> p.head, hash |-> Hash(p.bundle)]
    BY HeadsAfterWrite
  <1>2. /\ p.phase = "write" /\ p.bundle = dir[r]
        /\ p.branch \in DOMAIN Heads /\ Heads[p.branch].event # p.head =>
              IsPrefix(Heads[p.branch].hash.events, p.bundle.events)
    BY DEF BundlesInv, PushOK, PushWrite
  <1>3. p.bundle.events \in Seq(PortableEvents)
    BY <1>2 DEF BundlesInv, Consistent, LogOK, Logs
  <1>4. moved => remote'.heads[p.branch].hash.events = p.bundle.events
    BY <1>1 DEF Hash
  <1>5. \A b \in DOMAIN Heads :
           /\ Heads[b].hash.events \in Seq(PortableEvents)
           /\ IsPrefix(Heads[b].hash.events, Heads[b].hash.events)
    <2> SUFFICES ASSUME NEW b \in DOMAIN Heads
                 PROVE  /\ Heads[b].hash.events \in Seq(PortableEvents)
                        /\ IsPrefix(Heads[b].hash.events, Heads[b].hash.events)
      OBVIOUS
    <2>1. Heads[b].hash.events \in Seq(PortableEvents)
      BY HeadKnown
    <2>2. Len(Heads[b].hash.events) \in Nat
      BY <2>1, LenProperties
    <2> QED
      BY <2>1, <2>2, PrefixPointwise
  <1> HIDE DEF p
  <1>6. ASSUME NEW b \in DOMAIN remote'.heads
        PROVE  /\ remote'.heads[b].hash.events \in Seq(PortableEvents)
               /\ b \in DOMAIN Heads =>
                     IsPrefix(Heads[b].hash.events, remote'.heads[b].hash.events)
    <2>1. CASE b = p.branch /\ moved
      BY <1>2, <1>3, <1>4, <2>1
    <2>2. CASE ~(b = p.branch /\ moved)
      <3>1. b \in DOMAIN Heads /\ remote'.heads[b] = Heads[b]
        BY <1>1, <2>2
      <3> QED
        BY <1>5, <3>1
    <2> QED
      BY <2>1, <2>2
  <1>7. HeadsGrow
    BY <1>1, <1>6 DEF HeadsGrow, Heads
  <1> QED
    BY <1>6, <1>7


LEMMA PushWriteKeeps ==
    ASSUME BundlesInv, UNCHANGED scope, NEW r \in Replicas, PushWrite(r)
    PROVE  BundlesInv'
  <1> DEFINE p == push[r]
             moved == p.branch \notin DOMAIN Heads \/ Heads[p.branch].event # p.head
  <1>1. /\ CountsOK /\ RegistryOK /\ PushOK(r) /\ DOMAIN push = Replicas
        /\ p.phase = "write" /\ p.head # NoEvent /\ remote.lock = r
        /\ DOMAIN p = {"phase", "branch", "bundle", "head", "heads", "default"}
    BY DEF BundlesInv, CountsOK, PushOK, PushWrite
  <1>2. /\ push' = [push EXCEPT ![r].phase = "report"]
        /\ UNCHANGED <<store, fork, export, dir, minted, crashes, acked>>
    BY DEF PushWrite
  <1>3. /\ DOMAIN remote'.heads = DOMAIN Heads \cup {p.branch}
        /\ \A b \in DOMAIN Heads :
              b # p.branch \/ Heads[b].event = p.head => remote'.heads[b] = Heads[b]
        /\ moved => remote'.heads[p.branch] = [event |-> p.head, hash |-> Hash(p.bundle)]
        /\ DOMAIN remote' = {"lock", "heads", "default", "bundles"}
        /\ remote'.lock = remote.lock /\ remote'.bundles = remote.bundles
    BY HeadsAfterWrite
  <1>4. PICK x \in remote.bundles :
              /\ Hash(x) = Hash(p.bundle) /\ Valid(x) /\ x.events = p.bundle.events
              /\ p.branch \in DOMAIN x.branches
              /\ x.branches[p.branch].head = p.head
    BY <1>1, PushedStored
  <1>5. AcceptedKept'
    BY <1>2, WriteGrows, GrowthKeepsAccepted
  <1>6. ASSUME NEW b \in DOMAIN remote'.heads
        PROVE  /\ remote'.heads[b].event # NoEvent
               /\ \E y \in remote.bundles :
                     /\ Hash(y) = remote'.heads[b].hash /\ Valid(y)
                     /\ b \in DOMAIN y.branches /\ y.branches[b].head = remote'.heads[b].event
    <2>1. CASE b = p.branch /\ moved
      BY <1>1, <1>3, <1>4, <2>1
    <2>2. CASE ~(b = p.branch /\ moved)
      <3>1. b \in DOMAIN Heads /\ remote'.heads[b] = Heads[b]
        BY <1>3, <2>2
      <3> QED
        BY <1>1, <3>1 DEF RegistryOK, HeadsResolve
    <2> QED
      BY <2>1, <2>2
  <1>7. RegistryOK'
    <2>1. HeadsResolve'
      BY <1>3, <1>6 DEF HeadsResolve, Heads
    <2> QED
      BY <1>1, <1>2, <1>3, <1>6, <2>1 DEF RegistryOK, Heads
  <1>8. \E i \in 1..Len(remote'.heads[p.branch].hash.events) :
           remote'.heads[p.branch].hash.events[i].id = p.head
    <2>1. CASE moved
      <3>1. remote'.heads[p.branch].hash.events = x.events
        BY <1>3, <1>4, <2>1 DEF Hash
      <3>2. Len(x.events) \in Nat
        <4>1. x.events \in Seq(PortableEvents)
          BY DEF BundlesInv, Consistent, LogOK, Logs
        <4> QED
          BY <4>1, LenProperties
      <3>3. TipOf(x.events, p.branch) = p.head
        BY <1>4 DEF Valid, ValidBranches
      <3>4. \E i \in 1..Len(x.events) : x.events[i].id = p.head
        BY <1>1, <3>2, <3>3, TipIsEvent
      <3> QED
        BY <3>1, <3>4
    <2>2. CASE ~moved
      <3>1. p.branch \in DOMAIN Heads /\ remote'.heads[p.branch] = Heads[p.branch]
            /\ Heads[p.branch].event = p.head
        BY <1>3, <2>2
      <3> QED
        BY <3>1, HeadKnown
    <2> QED
      BY <2>1, <2>2
  <1>9. PushOK(r)'
    <2>1. push'[r] = [p EXCEPT !.phase = "report"]
      BY <1>1, <1>2
    <2>2. /\ push'[r].phase = "report" /\ DOMAIN push'[r] = DOMAIN p
          /\ push'[r].branch = p.branch /\ push'[r].bundle = p.bundle /\ push'[r].head = p.head
      BY <1>1, <2>1
    <2>3. p.bundle = dir[r] /\ Valid(p.bundle) /\ p.branch \in DOMAIN p.bundle.branches
          /\ p.head = p.bundle.branches[p.branch].head /\ export[r] = IdleExport
      BY <1>1 DEF PushOK
    <2>4. /\ remote'.lock = r /\ export'[r] = IdleExport /\ dir'[r] = dir[r]
          /\ p.branch \in DOMAIN remote'.heads
          /\ DOMAIN p = {"phase", "branch", "bundle", "head", "heads", "default"}
          /\ p.head # NoEvent
      BY <1>1, <1>2, <1>3, <2>3
    <2> HIDE DEF p
    <2> QED
      BY <1>8, <2>2, <2>3, <2>4 DEF PushOK, Heads
  <1>10. ASSUME NEW q \in Replicas PROVE PushOK(q)'
    <2>1. CASE q = r
      BY <1>9, <2>1
    <2>2. CASE q # r
      BY <1>1, <1>2, <2>2, OnePush, IdlePushOK
    <2> QED
      BY <2>1, <2>2
  <1>11. crashes' \in 0..scope.crashes /\ DOMAIN push' = Replicas
    BY <1>1, <1>2 DEF CountsOK
  <1>12. \A y \in remote'.bundles : y.events \in Logs
    BY <1>3 DEF Logs
  <1> QED
    BY <1>2, <1>5, <1>7, <1>10, <1>11, <1>12, RegistryStep

LEMMA PushReportKeeps ==
    ASSUME BundlesInv, UNCHANGED scope, NEW r \in Replicas, PushReport(r)
    PROVE  BundlesInv'
  <1> DEFINE p == push[r]
  <1>1. /\ CountsOK /\ RegistryOK /\ AcceptedKept /\ PushOK(r) /\ DOMAIN push = Replicas
        /\ DOMAIN remote = {"lock", "heads", "default", "bundles"}
        /\ p.phase = "report" /\ remote.lock = r
    BY DEF BundlesInv, CountsOK, RegistryOK, PushOK, PushReport
  <1>2. /\ remote' = [remote EXCEPT !.lock = None]
        /\ push' = [push EXCEPT ![r] = IdlePush]
        /\ acked' = acked \union {[branch |-> p.branch, event |-> p.head]}
        /\ UNCHANGED <<store, fork, export, dir, minted, crashes>>
    BY DEF PushReport
  <1>3. /\ remote'.lock = None /\ remote'.heads = remote.heads
        /\ remote'.default = remote.default /\ remote'.bundles = remote.bundles
        /\ DOMAIN remote' = {"lock", "heads", "default", "bundles"}
    BY <1>1, <1>2
  <1>4. RegistryOK'
    BY <1>1, <1>2, <1>3 DEF RegistryOK, HeadsResolve, Heads
  <1>5. AcceptedKept'
    <2>1. /\ p.branch \in DOMAIN Heads
          /\ \E i \in 1..Len(Heads[p.branch].hash.events) :
                Heads[p.branch].hash.events[i].id = p.head
      BY <1>1 DEF PushOK
    <2> HIDE DEF p
    <2> QED
      BY <1>1, <1>2, <1>3, <2>1 DEF AcceptedKept, Heads
  <1>6. ASSUME NEW q \in Replicas PROVE PushOK(q)'
    <2>1. push'[q] = IdlePush
      BY <1>1, <1>2, OnePush
    <2> QED
      BY <2>1, IdlePushOK
  <1>7. crashes' \in 0..scope.crashes /\ DOMAIN push' = Replicas
    BY <1>1, <1>2 DEF CountsOK
  <1>8. \A x \in remote'.bundles : x.events \in Logs
    BY <1>3 DEF Logs
  <1> QED
    BY <1>2, <1>4, <1>5, <1>6, <1>7, <1>8, RegistryStep

LEMMA CrashKeeps ==
    ASSUME BundlesInv, UNCHANGED scope, NEW r \in Replicas, Crash(r)
    PROVE  BundlesInv'
  <1>1. /\ CountsOK /\ RegistryOK /\ AcceptedKept
        /\ DOMAIN fork = Replicas /\ DOMAIN export = Replicas
        /\ DOMAIN dir = Replicas /\ DOMAIN push = Replicas
    BY DEF BundlesInv, CountsOK
  <1>2. /\ UNCHANGED <<store, remote, minted, acked>>
        /\ crashes < scope.crashes /\ crashes' = crashes + 1
    BY DEF Crash
  <1>3. crashes' \in 0..scope.crashes
    <2>1. scope.crashes \in Nat /\ crashes \in 0..scope.crashes
      BY <1>1, BundlesAssumption DEF CountsOK
    <2> QED
      BY <1>2, <2>1
  <1>4. CASE push' = [push EXCEPT ![r] = IdlePush] /\ UNCHANGED <<fork, export, dir>>
    <2>1. ASSUME NEW q \in Replicas PROVE PushOK(q)'
      <3>1. CASE q = r
        <4>1. push'[q] = IdlePush
          BY <1>1, <1>4, <3>1
        <4> QED
          BY <4>1, IdlePushOK
      <3>2. CASE q # r
        <4>1. push'[q] = push[q] /\ PushOK(q)
          BY <1>4, <3>2 DEF BundlesInv
        <4> QED
          BY <1>2, <1>4, <4>1 DEF PushOK, Heads
      <3> QED
        BY <3>1, <3>2
    <2>2. RegistryOK' /\ AcceptedKept'
      BY <1>1, <1>2 DEF RegistryOK, HeadsResolve, AcceptedKept, Heads
    <2>3. \A x \in remote'.bundles : x.events \in Logs
      BY <1>2 DEF Logs
    <2>4. DOMAIN push' = Replicas
      BY <1>1, <1>4
    <2> QED
      BY <1>2, <1>3, <1>4, <2>1, <2>2, <2>3, <2>4, RegistryStep
  <1>5. CASE /\ export[r].phase = "chunks"
             /\ export' = [export EXCEPT ![r] = IdleExport]
             /\ dir' = [dir EXCEPT ![r] = TornBundle]
             /\ UNCHANGED <<fork, push>>
    <2>1. push[r].phase = "idle"
      BY <1>5, ExportAlone
    <2>2. CountersGrow /\ minted'.branches = minted.branches /\ minted'.events = minted.events
      BY <1>1, <1>2, DirectoryMinted
    <2>3. export'[r] = IdleExport /\ dir'[r] = TornBundle
      BY <1>1, <1>5
    <2>4. BundleOK(TornBundle, minted.branches) /\ TornBundle.events = <<>>
      <3>1. /\ TornBundle.events = <<>> /\ TornBundle.refs = {} /\ ~TornBundle.written
            /\ DOMAIN TornBundle.branches = {Main}
        BY DEF TornBundle, NoBundle
      <3>2. Main \in minted.branches
        BY <1>1 DEF CountsOK
      <3> QED
        BY <3>1, <3>2, FS_EmptySet DEF BundleOK
    <2>5. ExportOK(r)' /\ export'[r].phase # "chunks"
      BY <2>3 DEF ExportOK, IdleExport
    <2>6. DOMAIN export' = Replicas /\ \A q \in Replicas \ {r} : export'[q] = export[q]
      BY <1>1, <1>5
    <2>7. DOMAIN dir' = Replicas /\ \A q \in Replicas \ {r} : dir'[q] = dir[q]
      BY <1>1, <1>5
    <2> QED
      BY <1>2, <1>3, <1>5, <2>1, <2>2, <2>3, <2>4, <2>5, <2>6, <2>7, DirectoryStep
  <1>6. CASE fork' = [fork EXCEPT ![r] = IdleFork] /\ UNCHANGED <<export, dir, push>>
    <2>1. CountsOK'
      BY <1>1, <1>2, <1>3, <1>6 DEF CountsOK
    <2>2. ASSUME NEW q \in Replicas
          PROVE  /\ SessionOK(store[q], minted.branches)' /\ ForkOK(q)' /\ ExportOK(q)' /\ PushOK(q)'
                 /\ BundleOK(dir[q], minted.branches)'
      <3>1. /\ SessionOK(store[q], minted.branches) /\ ForkOK(q) /\ ExportOK(q) /\ PushOK(q)
            /\ BundleOK(dir[q], minted.branches)
        BY DEF BundlesInv
      <3>2. ForkOK(q)'
        <4>1. CASE q = r
          <5>1. fork'[q] = IdleFork
            BY <1>1, <1>6, <4>1
          <5> QED
            BY <5>1 DEF ForkOK, IdleFork
        <4>2. CASE q # r
          <5>1. fork'[q] = fork[q]
            BY <1>6, <4>2
          <5> QED
            BY <1>2, <3>1, <5>1 DEF ForkOK
        <4> QED
          BY <4>1, <4>2
      <3>3. PushOK(q)'
        BY <1>2, <1>6, <3>1 DEF PushOK, Heads
      <3>4. SessionOK(store[q], minted.branches)' /\ ExportOK(q)' /\ BundleOK(dir[q], minted.branches)'
        BY <1>2, <1>6, <3>1 DEF ExportOK
      <3> QED
        BY <3>2, <3>3, <3>4
    <2>3. RegistryOK' /\ AcceptedKept'
      BY <1>1, <1>2 DEF RegistryOK, HeadsResolve, AcceptedKept, Heads
    <2>4. Consistent(Logs, minted.events)'
      <3>1. Logs' = Logs
        BY <1>2, <1>6 DEF Logs, ReadOut
      <3>2. Consistent(Logs', minted.events)
        BY <3>1 DEF BundlesInv
      <3> QED
        BY <1>2, <3>2 DEF Consistent, LogOK, Agree
    <2> QED
      BY <2>1, <2>2, <2>3, <2>4 DEF BundlesInv
  <1> QED
    BY <1>4, <1>5, <1>6 DEF Crash


(***************************************************************************)
(* Session bundles: the theorems                                           *)
(***************************************************************************)

LEMMA BundlesStutter ==
    ASSUME BundlesInv, UNCHANGED bundleVars
    PROVE  BundlesInv'
  <1>1. UNCHANGED <<scope, store, fork, export, dir, minted, remote, push, acked, crashes>>
    BY DEF bundleVars
  <1>2. CountsOK' /\ RegistryOK' /\ AcceptedKept'
    BY <1>1 DEF BundlesInv, CountsOK, RegistryOK, HeadsResolve, AcceptedKept, Heads
  <1>3. ASSUME NEW q \in Replicas PROVE PushOK(q)'
    <2>1. PushOK(q)
      BY DEF BundlesInv
    <2> QED
      BY <1>1, <2>1 DEF PushOK, Heads
  <1>4. crashes' \in 0..scope.crashes /\ DOMAIN push' = Replicas
    BY <1>1 DEF BundlesInv, CountsOK
  <1>5. \A x \in remote'.bundles : x.events \in Logs
    BY <1>1 DEF Logs
  <1> QED
    BY <1>1, <1>2, <1>3, <1>4, <1>5, RegistryStep

LEMMA BundlesNextKeeps ==
    ASSUME BundlesInv, [BundlesNext]_bundleVars
    PROVE  BundlesInv'
  <1>1. CASE UNCHANGED bundleVars
    BY <1>1, BundlesStutter
  <1>2. ASSUME UNCHANGED scope, NEW r \in Replicas
        PROVE  /\ \A b \in Branches : Commit(r, b) => BundlesInv'
               /\ \A b \in Branches : Pull(r, b) => BundlesInv'
               /\ \A b \in Branches, activate \in BOOLEAN : ForkBegin(r, b, activate) => BundlesInv'
               /\ ForkActivate(r) => BundlesInv'
               /\ ForkRecord(r) => BundlesInv'
    BY <1>2, CommitKeeps, PullKeeps, ForkBeginKeeps, ForkActivateKeeps, ForkRecordKeeps
  <1>3. ASSUME UNCHANGED scope, NEW r \in Replicas
        PROVE  /\ ExportBranches(r) => BundlesInv'
               /\ ExportEvents(r) => BundlesInv'
               /\ \A withArtifact : ExportWrite(r, withArtifact) => BundlesInv'
               /\ Import(r) => BundlesInv'
               /\ \A id \in 1..scope.events : Continue(r, id) => BundlesInv'
    BY <1>3, ExportBranchesKeeps, ExportEventsKeeps, ExportWriteKeeps, ImportKeeps, ContinueKeeps
  <1>4. ASSUME UNCHANGED scope, NEW r \in Replicas
        PROVE  /\ \A b \in Branches : \A e : PushBegin(r, b, e) => BundlesInv'
               /\ PushCopy(r) => BundlesInv'
               /\ PushWrite(r) => BundlesInv'
               /\ PushReport(r) => BundlesInv'
               /\ Crash(r) => BundlesInv'
    BY <1>4, PushBeginKeeps, PushCopyKeeps, PushWriteKeeps, PushReportKeeps, CrashKeeps
  <1> QED
    BY <1>1, <1>2, <1>3, <1>4 DEF BundlesNext

LEMMA BundlesInductive == BundlesSpec => []BundlesInv
  BY BundlesInitOK, BundlesNextKeeps, PTL DEF BundlesSpec

(* The heads move in one step only.                                        *)
LEMMA HeadsOnlyGrow ==
    ASSUME BundlesInv, [BundlesNext]_bundleVars
    PROVE  HeadsGrow
  <1>1. CASE \E r \in Replicas : PushWrite(r)
    BY <1>1, WriteGrows
  <1>2. CASE remote'.heads = remote.heads
    BY <1>2, HeadsLeftGrow
  <1>3. DOMAIN remote = {"lock", "heads", "default", "bundles"}
    BY DEF BundlesInv, RegistryOK
  <1>4. ASSUME NEW r \in Replicas
        PROVE  /\ \A b, e : PushBegin(r, b, e) => remote'.heads = remote.heads
               /\ PushCopy(r) => remote'.heads = remote.heads
               /\ PushReport(r) => remote'.heads = remote.heads
    <2>1. ASSUME NEW b, NEW e, PushBegin(r, b, e) PROVE remote'.heads = remote.heads
      <3>1. remote' = [remote EXCEPT !.lock = r]
        BY <2>1 DEF PushBegin
      <3> QED
        BY <1>3, <3>1
    <2>2. ASSUME PushCopy(r) PROVE remote'.heads = remote.heads
      BY <1>3, <2>2 DEF PushCopy
    <2>3. ASSUME PushReport(r) PROVE remote'.heads = remote.heads
      <3>1. remote' = [remote EXCEPT !.lock = None]
        BY <2>3 DEF PushReport
      <3> QED
        BY <1>3, <3>1
    <2> QED
      BY <2>1, <2>2, <2>3
  <1>5. ASSUME BundlesNext, ~\E r \in Replicas : PushWrite(r)
        PROVE  remote'.heads = remote.heads
    <2>1. ASSUME NEW r \in Replicas
          PROVE  /\ \A b : Commit(r, b) \/ Pull(r, b) => remote' = remote
                 /\ \A b, activate : ForkBegin(r, b, activate) => remote' = remote
                 /\ ForkActivate(r) \/ ForkRecord(r) => remote' = remote
                 /\ ExportBranches(r) \/ ExportEvents(r) => remote' = remote
                 /\ \A withArtifact : ExportWrite(r, withArtifact) => remote' = remote
                 /\ Import(r) \/ Crash(r) => remote' = remote
                 /\ \A id : Continue(r, id) => remote' = remote
      <3>1. \A b : Commit(r, b) \/ Pull(r, b) => remote' = remote
        BY DEF Commit, Pull
      <3>2. \A b, activate : ForkBegin(r, b, activate) => remote' = remote
        BY ZenonT(30) DEF ForkBegin
      <3>3. ForkActivate(r) \/ ForkRecord(r) => remote' = remote
        BY ZenonT(30) DEF ForkActivate, ForkRecord
      <3>4. ExportBranches(r) \/ ExportEvents(r) => remote' = remote
        BY ZenonT(30) DEF ExportBranches, ExportEvents
      <3>5. \A withArtifact : ExportWrite(r, withArtifact) => remote' = remote
        BY ZenonT(30) DEF ExportWrite
      <3>6. Import(r) \/ Crash(r) => remote' = remote
        BY ZenonT(30) DEF Import, Crash
      <3>7. \A id : Continue(r, id) => remote' = remote
        BY ZenonT(30) DEF Continue
      <3> QED
        BY <3>1, <3>2, <3>3, <3>4, <3>5, <3>6, <3>7
    <2> QED
      BY <1>4, <1>5, <2>1 DEF BundlesNext
  <1>6. CASE UNCHANGED bundleVars
    BY <1>2, <1>6 DEF bundleVars
  <1> QED
    BY <1>1, <1>2, <1>5, <1>6

LEMMA InvFaithful == BundlesInv => BundlesFaithful
  <1> SUFFICES ASSUME BundlesInv PROVE BundlesFaithful
    OBVIOUS
  <1>1. BundlesTypeOK /\ DiffSound
    BY BundlesTyped, DiffTold
  <1>2. AcceptedKept /\ HeadsResolve
    BY DEF BundlesInv, RegistryOK
  <1>3. ImportedExact
    BY DEF BundlesInv, SessionOK, LogOf, ImportedExact
  <1> QED
    BY <1>1, <1>2, <1>3 DEF BundlesFaithful

(* Whatever is committed, forked, exported, pushed, pulled, imported or    *)
(* continued on any machines, with two pushes that race for the lock file  *)
(* and processes killed between two writes: a push reported as accepted is *)
(* in its branch's history from then on, every head of heads.json names a  *)
(* stored bundle that validates and ends in it, an imported session reads  *)
(* back as the bundle it came from, and `session diff` tells an update     *)
(* from a divergence for every two bundles (sync.rs, export.rs).           *)
THEOREM BundlesStayFaithful == BundlesSpec => []BundlesFaithful
  BY BundlesInductive, InvFaithful, PTL

(* A branch of the registry never moves to a history that rewrites the one *)
(* it had (push_session_bundle_directory: the lock file, compare-and-swap, *)
(* the byte prefix of events.jsonl, and heads.json replaced by the state   *)
(* that was read under the lock, advanced).                                *)
THEOREM BundleHeadsAppendOnly == BundlesSpec => HeadsAppendOnly
  <1>1. BundlesInv /\ [BundlesNext]_bundleVars
          => [\A b \in DOMAIN remote.heads :
                /\ b \in DOMAIN remote'.heads
                /\ IsPrefix(remote.heads[b].hash.events, remote'.heads[b].hash.events)]_bundleVars
    BY HeadsOnlyGrow DEF HeadsGrow
  <1> QED
    BY <1>1, BundlesInductive, PTL DEF BundlesSpec, HeadsAppendOnly
==============================================================================
