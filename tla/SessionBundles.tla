--------------------------- MODULE SessionBundles ---------------------------
(***************************************************************************)
(* Portable session bundles and their filesystem registry: one session     *)
(* that starts on one machine and travels.  `belltower session` opens the  *)
(* store on a connection of its own, so an export reads the branches, the  *)
(* events and the raw chunks in separate SELECTs while the server commits; *)
(* a push holds a lock file over read, compare-and-swap, copy and write;   *)
(* an import gives events and chunks local ids; a continuation forks.      *)
(*                                                                         *)
(* An event is its id, its branch and the local id of the raw chunk it     *)
(* refers to (0: none); what it says is left out.  A bundle's hash covers  *)
(* its events, chunk references and artifacts, as in the code, and not its *)
(* manifest.  Each replica stands for a machine with one store, whose      *)
(* operator works with the bundle directory made last.                     *)
(***************************************************************************)
EXTENDS Naturals, Sequences, FiniteSets, SequencesExt

CONSTANTS
    Replicas,     \* machines, each with a store and a bundle directory
    Origin,       \* the machine on which the session was created
    Branches,     \* branch ids
    Main,         \* the branch the session is created with
    Contents,     \* raw chunk contents
    Scopes        \* the bounds to explore under: events committed anywhere,
                  \* bundle directories exported or pulled, processes killed,
                  \* branches created by the server, exports with artifacts

None == "none"

ASSUME BundlesAssumption ==
    /\ None \notin Replicas
    /\ Origin \in Replicas /\ Main \in Branches
    /\ \A x \in Scopes : /\ x.events \in Nat \ {0} /\ x.dirs \in Nat /\ x.crashes \in Nat
                         /\ x.forks \in Nat /\ x.artifacts \subseteq BOOLEAN

VARIABLES
    scope,    \* the bounds of this behaviour, an element of Scopes
    store,    \* per replica: the session's rows in its database
    fork,     \* per replica: the create_branch request in progress
    export,   \* per replica: what the running export has read so far
    dir,      \* per replica: the bundle directory exported or pulled last
    remote,   \* the registry: lock file, head file, bundle directories
    push,     \* per replica: the push in progress
    minted,   \* what was handed out: events, branches, directories, forks
    crashes,  \* processes killed so far
    acked     \* branch heads that a push reported as accepted

bundleVars == <<scope, store, fork, export, dir, remote, push, minted, crashes, acked>>

NoEvent == 0
ImportShift == 1   \* chunk rows of other sessions in an importing database

----------------------------------------------------------------------------
(* The store's rows.                                                       *)

NoSession == [events |-> <<>>, branches |-> <<>>, chunks |-> <<>>, origin |-> <<>>]

Present(r) == store[r].branches # <<>>

BranchRow(parent, from, default) == [parent |-> parent, from |-> from, default |-> default]

\* The branches row's head is moved by every append to the branch.
TipOf(events, b) ==
    LET own == {i \in 1..Len(events) : events[i].branch = b}
    IN IF own = {} THEN NoEvent
       ELSE events[CHOOSE i \in own : \A j \in own : j <= i].id

\* set_default_branch_in_tx: one UPDATE over the session's branches.
WithDefault(rows, b) == [x \in DOMAIN rows |-> [rows[x] EXCEPT !.default = (x = b)]]

Rows(s) == [x \in DOMAIN s.branches |->
    [parent |-> s.branches[x].parent, from |-> s.branches[x].from,
     default |-> s.branches[x].default, head |-> TipOf(s.events, x)]]

----------------------------------------------------------------------------
(* Export.                                                                 *)

\* What travels of an event: no sequence ids, no local chunk ids.
PortableEvent(id, branch, content) == [id |-> id, branch |-> branch, content |-> content]

\* A live event's chunk id is replaced by the hash of the chunk's content.
Portable(e, chunks) ==
    PortableEvent(e.id, e.branch,
                  IF e.chunk = 0 THEN None
                  ELSE IF e.chunk \in DOMAIN chunks THEN chunks[e.chunk] ELSE "missing")

PortableLog(events, chunks) == [i \in 1..Len(events) |-> Portable(events[i], chunks)]

\* chunk_ordinal: the position of the chunk among all chunks of the session.
Ordinal(chunks, id) == Cardinality({x \in DOMAIN chunks : x < id})

ChunkRefs(events, chunks) ==
    {[ordinal |-> Ordinal(chunks, events[i].chunk),
      event   |-> events[i].id,
      branch  |-> events[i].branch,
      content |-> chunks[events[i].chunk]] : i \in {j \in 1..Len(events) : events[j].chunk # 0}}

\* The head named by the branch row if the events hold it, else the tip.
ManifestHead(rows, events, b) ==
    IF \E i \in 1..Len(events) : events[i].id = rows[b].head
    THEN rows[b].head ELSE TipOf(events, b)

ManifestBranches(rows, events) ==
    [b \in DOMAIN rows |-> [rows[b] EXCEPT !.head = ManifestHead(rows, events, b)]]

\* Maximal runs of consecutive events of one known branch.
EventRanges(rows, events) ==
    LET n == Len(events)
        SameTo(i, j) == \A k \in i..j : events[k].branch = events[i].branch
    IN {[branch |-> events[p[1]].branch, first |-> p[1], last |-> p[2]] :
          p \in {q \in (1..n) \X (1..n) :
                   /\ q[1] <= q[2] /\ SameTo(q[1], q[2])
                   /\ q[1] = 1 \/ events[q[1] - 1].branch # events[q[1]].branch
                   /\ q[2] = n \/ events[q[2] + 1].branch # events[q[2]].branch
                   /\ events[q[1]].branch \in DOMAIN rows}}

\* An artifact hangs on the head of the default branch.
ArtifactNode(rows, events) ==
    ManifestHead(rows, events, CHOOSE b \in DOMAIN rows : rows[b].default)

NoBundle == [events |-> <<>>, refs |-> {}, branches |-> <<>>, ranges |-> {},
             artifact |-> NoEvent, written |-> FALSE]

Bundle(rows, events, chunks, withArtifact) ==
    [events   |-> PortableLog(events, chunks),
     refs     |-> ChunkRefs(events, chunks),
     branches |-> ManifestBranches(rows, events),
     ranges   |-> EventRanges(rows, events),
     artifact |-> IF withArtifact THEN ArtifactNode(rows, events) ELSE NoEvent,
     written  |-> TRUE]

Hash(b) == [events |-> b.events, refs |-> b.refs, artifact |-> b.artifact]

\* The same bundle, cut off while its files were being written: no manifest.
TornBundle == [NoBundle EXCEPT !.branches = [b \in {Main} |-> None]]

----------------------------------------------------------------------------
(* Validation.                                                             *)

EventOf(b, id) == CHOOSE i \in 1..Len(b.events) : b.events[i].id = id

HasEvent(b, id) == \E i \in 1..Len(b.events) : b.events[i].id = id

\* Event ids are unique and every chunk an event names is referenced.
ValidEvents(b) ==
    /\ \A i, j \in 1..Len(b.events) : b.events[i].id = b.events[j].id => i = j
    /\ \A i \in 1..Len(b.events) : b.events[i].content # None =>
         \E ref \in b.refs : ref.content = b.events[i].content

ValidChunkRefs(b) ==
    /\ \A ref \in b.refs :
         /\ ref.branch \in DOMAIN b.branches
         /\ HasEvent(b, ref.event)
         /\ LET e == b.events[EventOf(b, ref.event)]
            IN e.branch = ref.branch /\ e.content = ref.content
    /\ \A ref, other \in b.refs :
         /\ ref.ordinal = other.ordinal => ref.content = other.content
         /\ ref.event = other.event => ref = other
    /\ \A i \in 1..Len(b.events) : b.events[i].content # None =>
         \E ref \in b.refs : ref.event = b.events[i].id

\* One default branch, parents inside the bundle, every head the branch's tip.
ValidBranches(b) ==
    /\ Cardinality({x \in DOMAIN b.branches : b.branches[x].default}) = 1
    /\ \A x \in DOMAIN b.branches :
         LET row == b.branches[x]
         IN /\ row.parent # None => row.parent \in DOMAIN b.branches
            /\ row.from # NoEvent => /\ HasEvent(b, row.from)
                                  /\ b.events[EventOf(b, row.from)].branch = row.parent
            /\ row.head = TipOf(b.events, x)
    /\ \A i \in 1..Len(b.events) : b.events[i].branch \in DOMAIN b.branches

\* The ranges stay within a branch and cover every event once.
ValidRanges(b) ==
    /\ \A g \in b.ranges : \A i \in g.first..g.last : b.events[i].branch = g.branch
    /\ \A i \in 1..Len(b.events) :
         Cardinality({g \in b.ranges : i \in g.first..g.last}) = 1

ValidArtifacts(b) == b.artifact # NoEvent => HasEvent(b, b.artifact)

\* Every file is there and has its checksum; the manifest is written last.
Complete(b) == b.written

Valid(b) ==
    /\ Complete(b)
    /\ ValidEvents(b) /\ ValidChunkRefs(b)
    /\ ValidBranches(b) /\ ValidRanges(b) /\ ValidArtifacts(b)

----------------------------------------------------------------------------
(* Import.                                                                 *)

\* Chunks enter the importing database in the order of their ordinals.
LocalChunk(b, ordinal) ==
    LET ordinals == {ref.ordinal : ref \in b.refs}
    IN ImportShift + Cardinality({o \in ordinals : o <= ordinal})

RefOf(b, id) == CHOOSE ref \in b.refs : ref.event = id

LiveEvent(b, e) ==
    [id |-> e.id, branch |-> e.branch,
     chunk |-> IF e.content = None THEN 0
               ELSE LocalChunk(b, RefOf(b, e.id).ordinal)]

LiveLog(b) == [i \in 1..Len(b.events) |-> LiveEvent(b, b.events[i])]

ImportedChunks(b) ==
    LET ids == {LocalChunk(b, ref.ordinal) : ref \in b.refs}
        Of(id) == CHOOSE ref \in b.refs : LocalChunk(b, ref.ordinal) = id
    IN [id \in ids |-> Of(id).content]

ImportedBranches(b) ==
    [x \in DOMAIN b.branches |->
       BranchRow(b.branches[x].parent, b.branches[x].from, b.branches[x].default)]

\* One transaction: session, branches, chunks, then the events in order.
ImportedStore(b) ==
    [events |-> LiveLog(b), branches |-> ImportedBranches(b),
     chunks |-> ImportedChunks(b), origin |-> b.events]

\* The event a continuation forks from, checked against the local log.
ParentImported(s, b, id) ==
    \E i \in 1..Len(s.events) :
       /\ s.events[i].id = id
       /\ Portable(s.events[i], s.chunks) = b.events[EventOf(b, id)]

----------------------------------------------------------------------------
(* Diff.                                                                   *)

CommonPrefix(l, r) ==
    LET n == IF Len(l) < Len(r) THEN Len(l) ELSE Len(r)
    IN Cardinality({k \in 1..n : \A i \in 1..k : l[i] = r[i]})

SameInventory(l, r) ==
    /\ DOMAIN l.branches = DOMAIN r.branches
    /\ {ref.content : ref \in l.refs} = {ref.content : ref \in r.refs}
    /\ l.artifact = r.artifact

Relationship(l, r) ==
    LET common == CommonPrefix(l.events, r.events)
    IN IF l.events = r.events
       THEN IF SameInventory(l, r) THEN "equivalent" ELSE "structural_difference"
       ELSE IF common \in {Len(l.events), Len(r.events)} THEN "same_lineage_update"
       ELSE IF common > 0 THEN "fork_divergence"
       ELSE "different_lineage"

----------------------------------------------------------------------------
(* The registry.                                                           *)

Heads == remote.heads

\* Without the file, any process may go ahead.
LockIgnored == TRUE

\* The lock is a file that only one process can create.
LockFree == remote.lock = None

\* enforce_cas: the caller names the head it expects, or there is none yet,
\* or the push changes nothing.
CasHolds(b, expected, new) ==
    IF b \in DOMAIN Heads
    THEN IF expected = NoEvent THEN Heads[b].event = new ELSE Heads[b].event = expected
    ELSE expected = NoEvent

StoredBundle(hash) == CHOOSE x \in remote.bundles : Hash(x) = hash

\* events.jsonl of the stored head is a byte prefix of the pushed one.
Extends(bundle, b) == IsPrefix(StoredBundle(Heads[b].hash).events, bundle.events)

\* A known branch left where it was.
AdvancedHeadsNewOnly(state, p) ==
    [b \in DOMAIN state.heads \union {p.branch} |->
       IF b \notin DOMAIN state.heads
       THEN [event |-> p.head, hash |-> Hash(p.bundle)] ELSE state.heads[b]]

AdvancedHeads(state, p) ==
    [b \in DOMAIN state.heads \union {p.branch} |->
       IF b = p.branch /\ (b \notin DOMAIN state.heads \/ state.heads[b].event # p.head)
       THEN [event |-> p.head, hash |-> Hash(p.bundle)] ELSE state.heads[b]]

DefaultAfter(state, p) ==
    IF state.default = None \/ p.bundle.branches[p.branch].default
    THEN p.branch ELSE state.default

----------------------------------------------------------------------------
(* Steps.                                                                  *)

IdlePush == [phase |-> "idle"]
IdleExport == [phase |-> "idle"]
IdleFork == [phase |-> "idle"]

\* A machine's operator runs one `belltower session` command at a time.
AtPrompt(r) == push[r] = IdlePush /\ export[r] = IdleExport

Event(b, chunk) == [id |-> minted.events + 1, branch |-> b, chunk |-> chunk]

NextChunk(s) == IF DOMAIN s.chunks = {} THEN 1
                ELSE 1 + CHOOSE x \in DOMAIN s.chunks : \A y \in DOMAIN s.chunks : y <= x

\* The server appends an event, with a new raw chunk, or naming the last one.
Commit(r, b) ==
    /\ Present(r) /\ b \in DOMAIN store[r].branches
    /\ minted.events < scope.events
    /\ minted' = [minted EXCEPT !.events = @ + 1]
    /\ LET s == store[r]
       IN \/ store' = [store EXCEPT ![r].events = Append(@, Event(b, 0))]
          \/ \E c \in Contents :
               store' = [store EXCEPT
                 ![r].events = Append(@, Event(b, NextChunk(s))),
                 ![r].chunks = [x \in DOMAIN @ \union {NextChunk(s)} |->
                                  IF x \in DOMAIN @ THEN @[x] ELSE c]]
          \/ /\ DOMAIN s.chunks # {}
             /\ s.events # <<>> /\ Last(s.events).chunk = NextChunk(s) - 1
             /\ Last(s.events).branch = b
             /\ store' = [store EXCEPT ![r].events = Append(@, Event(b, NextChunk(s) - 1))]
    /\ UNCHANGED <<fork, export, dir, remote, push, crashes, acked>>

\* create_branch commits the row, the default flag and the event apart.
ForkBegin(r, from, activate) ==
    /\ Present(r) /\ fork[r] = IdleFork
    /\ minted.events < scope.events /\ minted.forks < scope.forks
    /\ from \in DOMAIN store[r].branches
    /\ \E b \in Branches \ minted.branches :
         /\ minted' = [minted EXCEPT !.branches = @ \union {b}, !.forks = @ + 1]
         /\ fork' = [fork EXCEPT ![r] =
              [phase |-> IF activate THEN "default" ELSE "event", branch |-> b]]
         /\ store' = [store EXCEPT ![r].branches =
              [x \in DOMAIN @ \union {b} |-> IF x = b
                 THEN BranchRow(from, TipOf(store[r].events, from), FALSE) ELSE @[x]]]
    /\ UNCHANGED <<export, dir, remote, push, crashes, acked>>

ForkActivate(r) ==
    /\ fork[r].phase = "default"
    /\ store' = [store EXCEPT ![r].branches = WithDefault(@, fork[r].branch)]
    /\ fork' = [fork EXCEPT ![r].phase = "event"]
    /\ UNCHANGED <<export, dir, remote, push, minted, crashes, acked>>

ForkRecord(r) ==
    /\ fork[r].phase = "event" /\ minted.events < scope.events
    /\ store' = [store EXCEPT ![r].events = Append(@, Event(fork[r].branch, 0))]
    /\ minted' = [minted EXCEPT !.events = @ + 1]
    /\ fork' = [fork EXCEPT ![r] = IdleFork]
    /\ UNCHANGED <<export, dir, remote, push, crashes, acked>>

\* `session export` into a directory that must be empty: three SELECTs.
ExportBranches(r) ==
    /\ Present(r) /\ AtPrompt(r)
    /\ minted.dirs < scope.dirs
    /\ minted' = [minted EXCEPT !.dirs = @ + 1]
    /\ export' = [export EXCEPT ![r] = [phase |-> "events", rows |-> Rows(store[r])]]
    /\ UNCHANGED <<store, fork, dir, remote, push, crashes, acked>>

ExportEvents(r) ==
    /\ export[r].phase = "events"
    /\ export' = [export EXCEPT ![r] =
         [phase |-> "chunks", rows |-> export[r].rows, events |-> store[r].events]]
    /\ UNCHANGED <<store, fork, dir, remote, push, minted, crashes, acked>>

ExportWrite(r, withArtifact) ==
    /\ export[r].phase = "chunks"
    /\ dir' = [dir EXCEPT ![r] =
         Bundle(export[r].rows, export[r].events, store[r].chunks, withArtifact)]
    /\ export' = [export EXCEPT ![r] = IdleExport]
    /\ UNCHANGED <<store, fork, remote, push, minted, crashes, acked>>

\* `session push`: everything that can refuse it, under the lock.
PushBegin(r, b, expected) ==
    /\ AtPrompt(r) /\ dir[r] # NoBundle /\ Valid(dir[r])
    /\ b \in DOMAIN dir[r].branches /\ dir[r].branches[b].head # NoEvent
    /\ LockFree
    /\ CasHolds(b, expected, dir[r].branches[b].head)
    /\ (b \in DOMAIN Heads /\ Heads[b].event # dir[r].branches[b].head) => Extends(dir[r], b)
    /\ remote' = [remote EXCEPT !.lock = r]
    /\ push' = [push EXCEPT ![r] = [phase |-> "copy", branch |-> b, bundle |-> dir[r],
                                    head |-> dir[r].branches[b].head,
                                    heads |-> Heads, default |-> remote.default]]
    /\ UNCHANGED <<store, fork, export, dir, minted, crashes, acked>>

\* Copied aside and renamed into place, unless the hash is already there.
PushCopy(r) ==
    /\ push[r].phase = "copy"
    /\ remote' = IF \E x \in remote.bundles : Hash(x) = Hash(push[r].bundle) THEN remote
                 ELSE [remote EXCEPT !.bundles = @ \union {push[r].bundle}]
    /\ push' = [push EXCEPT ![r].phase = "write"]
    /\ UNCHANGED <<store, fork, export, dir, minted, crashes, acked>>

\* heads.json is replaced by the state read at the start, advanced.
PushWrite(r) ==
    /\ push[r].phase = "write"
    /\ remote' = [remote EXCEPT !.heads = AdvancedHeads(push[r], push[r]),
                                !.default = DefaultAfter(push[r], push[r])]
    /\ push' = [push EXCEPT ![r].phase = "report"]
    /\ UNCHANGED <<store, fork, export, dir, minted, crashes, acked>>

\* Dropping the guard removes the lock file; the command reports its push.
PushReport(r) ==
    /\ push[r].phase = "report"
    /\ remote' = [remote EXCEPT !.lock = None]
    /\ push' = [push EXCEPT ![r] = IdlePush]
    /\ acked' = acked \union {[branch |-> push[r].branch, event |-> push[r].head]}
    /\ UNCHANGED <<store, fork, export, dir, minted, crashes>>

\* `session pull`: the selected head's bundle, copied and validated.
Pull(r, b) ==
    /\ AtPrompt(r)
    /\ minted.dirs < scope.dirs
    /\ minted' = [minted EXCEPT !.dirs = @ + 1]
    /\ b \in DOMAIN Heads
    /\ \E x \in remote.bundles : Hash(x) = Heads[b].hash
    /\ Valid(StoredBundle(Heads[b].hash))
    /\ dir' = [dir EXCEPT ![r] = StoredBundle(Heads[b].hash)]
    /\ UNCHANGED <<store, fork, export, remote, push, crashes, acked>>

\* `session import`: refused when the session is there already.
Import(r) ==
    /\ AtPrompt(r) /\ ~Present(r) /\ dir[r] # NoBundle /\ Valid(dir[r])
    /\ store' = [store EXCEPT ![r] = ImportedStore(dir[r])]
    /\ UNCHANGED <<fork, export, dir, remote, push, minted, crashes, acked>>

\* `session continue`: import if absent, then branch, event and default at once.
Continue(r, id) ==
    /\ AtPrompt(r) /\ dir[r] # NoBundle /\ Valid(dir[r]) /\ HasEvent(dir[r], id)
    /\ minted.events < scope.events
    /\ LET s == IF Present(r) THEN store[r] ELSE ImportedStore(dir[r])
           parent == dir[r].events[EventOf(dir[r], id)].branch
       IN /\ ParentImported(s, dir[r], id)
          /\ \E b \in Branches \ minted.branches :
               /\ minted' = [minted EXCEPT !.events = @ + 1, !.branches = @ \union {b}]
               /\ store' = [store EXCEPT ![r] = [s EXCEPT
                    !.events = Append(@, Event(b, 0)),
                    !.branches = WithDefault(
                       [x \in DOMAIN @ \union {b} |-> IF x = b
                          THEN BranchRow(parent, id, FALSE) ELSE @[x]], b)]]
    /\ UNCHANGED <<fork, export, dir, remote, push, crashes, acked>>

\* A killed push leaves its lock file; a killed export, a torn directory; a
\* killed server, a branch without its event.
Crash(r) ==
    /\ crashes < scope.crashes
    /\ crashes' = crashes + 1
    /\ \/ /\ push[r] # IdlePush
          /\ push' = [push EXCEPT ![r] = IdlePush]
          /\ UNCHANGED <<fork, export, dir>>
       \/ /\ export[r].phase = "chunks"
          /\ export' = [export EXCEPT ![r] = IdleExport]
          /\ dir' = [dir EXCEPT ![r] = TornBundle]
          /\ UNCHANGED <<fork, push>>
       \/ /\ fork[r] # IdleFork
          /\ fork' = [fork EXCEPT ![r] = IdleFork]
          /\ UNCHANGED <<export, dir, push>>
    /\ UNCHANGED <<store, remote, minted, acked>>

BundlesInit ==
    /\ scope \in Scopes
    /\ store = [r \in Replicas |->
         IF r = Origin
         THEN [events |-> <<[id |-> 1, branch |-> Main, chunk |-> 0]>>,
               branches |-> [b \in {Main} |-> BranchRow(None, NoEvent, TRUE)],
               chunks |-> <<>>, origin |-> <<>>]
         ELSE NoSession]
    /\ fork = [r \in Replicas |-> IdleFork]
    /\ export = [r \in Replicas |-> IdleExport]
    /\ dir = [r \in Replicas |-> NoBundle]
    /\ push = [r \in Replicas |-> IdlePush]
    /\ remote = [lock |-> None, heads |-> <<>>, default |-> None, bundles |-> {}]
    /\ minted = [events |-> 1, branches |-> {Main}, dirs |-> 0, forks |-> 0]
    /\ crashes = 0
    /\ acked = {}

BundlesNext ==
    /\ UNCHANGED scope
    /\ \E r \in Replicas :
         \/ \E b \in Branches : Commit(r, b) \/ Pull(r, b)
         \/ \E b \in Branches, activate \in BOOLEAN : ForkBegin(r, b, activate)
         \/ ForkActivate(r) \/ ForkRecord(r)
         \/ ExportBranches(r) \/ ExportEvents(r)
         \/ \E withArtifact \in scope.artifacts : ExportWrite(r, withArtifact)
         \/ \E b \in Branches, e \in 0..scope.events : PushBegin(r, b, e)
         \/ PushCopy(r) \/ PushWrite(r) \/ PushReport(r)
         \/ Import(r)
         \/ \E id \in 1..scope.events : Continue(r, id)
         \/ Crash(r)

BundlesSpec == BundlesInit /\ [][BundlesNext]_bundleVars
----------------------------------------------------------------------------
(* Properties.                                                             *)

\* The type invariant: event ids are handed out once per log, every branch
\* an event is on has a row, and the registry's heads name events.
BundlesTypeOK ==
    /\ scope \in Scopes
    /\ \A r \in Replicas :
         /\ DOMAIN store[r].branches \subseteq minted.branches
         /\ \A i, j \in 1..Len(store[r].events) :
              /\ store[r].events[i].branch \in DOMAIN store[r].branches
              /\ store[r].events[i].id \in 1..minted.events
              /\ store[r].events[i].id = store[r].events[j].id => i = j
         /\ fork[r].phase \in {"idle", "default", "event"}
         /\ export[r].phase \in {"idle", "events", "chunks"}
         /\ push[r].phase \in {"idle", "copy", "write", "report"}
    /\ minted.events \in 1..scope.events /\ minted.branches \subseteq Branches
    /\ minted.dirs \in 0..scope.dirs /\ minted.forks \in 0..scope.forks
    /\ remote.lock \in {None} \union Replicas
    /\ DOMAIN Heads \subseteq minted.branches
    /\ \A b \in DOMAIN Heads : Heads[b].event \in 1..scope.events
    /\ crashes \in 0..scope.crashes

\* A registry's branch never moves to a history that rewrites the one it
\* had: whatever two pushers do, and whichever dies, the events behind a head
\* only grow (sync.rs: "divergent histories must fork, never rewrite").
HeadsAppendOnly ==
    [][\A b \in DOMAIN remote.heads :
         /\ b \in DOMAIN remote'.heads
         /\ IsPrefix(remote.heads[b].hash.events, remote'.heads[b].hash.events)]_bundleVars

\* A push that was reported as accepted stays: its event is in the history of
\* the branch's present head, however many pushes followed or raced it.
AcceptedKept ==
    \A a \in acked :
       /\ a.branch \in DOMAIN Heads
       /\ \E i \in 1..Len(Heads[a.branch].hash.events) :
             Heads[a.branch].hash.events[i].id = a.event

\* A head can always be pulled: the bundle it names is in place and valid, and
\* the branch's tip in that bundle is the head, also after a crash between
\* the two renames and when another manifest arrived first under that hash.
HeadsResolve ==
    \A b \in DOMAIN Heads :
       \E x \in remote.bundles :
          /\ Hash(x) = Heads[b].hash /\ Valid(x)
          /\ b \in DOMAIN x.branches /\ x.branches[b].head = Heads[b].event

\* An imported session says what the bundle said: the portable form of the
\* imported rows, whose chunk ids are new, is the bundle's log, unchanged by
\* whatever was committed or continued on top.
ImportedExact ==
    \A r \in Replicas : Present(r) =>
       IsPrefix(store[r].origin, PortableLog(store[r].events, store[r].chunks))

\* The prefix comparison of `session diff` tells an update from a divergence
\* as comparing what the two bundles contain would, for any two bundles of
\* the session that exist anywhere: exported, pulled or stored.
DiffSound ==
    LET all == {x \in remote.bundles \union {dir[r] : r \in Replicas} : x.written}
        Known(x) == {x.events[i].id : i \in 1..Len(x.events)}
    IN \A l, r \in all :
         /\ (Known(l) \subseteq Known(r) \/ Known(r) \subseteq Known(l))
              = (Relationship(l, r) \notin {"fork_divergence", "different_lineage"})
         /\ Relationship(l, r) # "different_lineage"

\* Not what the code does: an export that finishes is a bundle that validates.
ExportValid == \A r \in Replicas : dir[r].written => Valid(dir[r])

\* Not what the code does: a lock file has a living push behind it.
LockHasOwner == remote.lock # None => push[remote.lock] # IdlePush

\* An event that a push reported accepted stays in the history of its branch's
\* head, every head names a stored, valid bundle, an imported session says what
\* its bundle said, and `session diff` tells an update from a divergence: with
\* pushes that race and processes killed between two steps.
BundlesFaithful == BundlesTypeOK /\ AcceptedKept /\ HeadsResolve /\ ImportedExact /\ DiffSound
=============================================================================
