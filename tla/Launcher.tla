------------------------------ MODULE Launcher ------------------------------
(***************************************************************************)
(* `belltower` as it starts: several launchers on one machine choose a     *)
(* connection (running setup when it is not usable), find or spawn a       *)
(* bt-server, and talk to it with the bearer token they discover.  All     *)
(* servers share one database; each writes its token record, opens the     *)
(* runtime (which recovers interrupted turns) and only then binds its      *)
(* port.  Processes share files and ports and nothing else.                *)
(***************************************************************************)
EXTENDS Naturals, FiniteSets

CONSTANTS
    Launchers,   \* the terminals `belltower` is run in
    Servers,     \* bt-server processes, one spawn each; also their tokens
    Ports,       \* the endpoints; a token record each
    Home,        \* the configured endpoint
    Shared,      \* the legacy token record every server writes too
    Conns,       \* the connections
    Local,       \* the local one
    Supported,   \* those with a provider implementation
    FirstDefaults,\* the default connections config.toml may name at first
    Readiness,   \* what probing a connection may find at the start
    Explicit,    \* the launchers started with --connection
    NoSetup,     \* the launchers started with --no-setup
    CargoRun,    \* the launchers in WorkspaceHelperMode::CargoRun
    Nobody,      \* no server, no connection
    MaxSlow,     \* bound on servers that are too slow for wait_for_server
    MaxAgain     \* bound on relaunches

ASSUME LauncherAssumption ==
    /\ Home \in Ports /\ Shared \notin Ports /\ Local \in Supported
    /\ Supported \subseteq Conns /\ FirstDefaults \subseteq Conns
    /\ Nobody \notin Servers \cup Conns /\ MaxSlow \in Nat /\ MaxAgain \in Nat

VARIABLES
    defaults,  \* the default connection of config.toml
    ready,     \* what a readiness probe of each connection finds
    launcher,  \* the runs of `belltower`
    process,   \* the bt-server processes
    record,    \* the token records, by endpoint, and the shared one
    bound,     \* who listens on each port
    dbTurn,    \* the turn each launcher's session has in the database
    slow,      \* how many servers were too slow
    again      \* how often `belltower` was run again

launcherVars == <<defaults, ready, launcher, process, record, bound, dbTurn, slow, again>>

Unborn == [pc |-> "unborn", port |-> Home, gone |-> {}, found |-> {}]
Ended == [Unborn EXCEPT !.pc = "dead"]
NewLaunch == [pc |-> "start", conn |-> Nobody, port |-> Home, child |-> Nobody,
              draft |-> Nobody, chosen |-> Nobody]
NoTurn == [state |-> "none", by |-> Nobody]
Gone == {s \in Servers : process[s].pc = "dead"}

-----------------------------------------------------------------------------
(* Choosing a connection: prepare_local_runtime, first half.               *)

Enter(l, pc) == launcher' = [launcher EXCEPT ![l].pc = pc]

(* A launcher that is no more has no state but its process exit. *)
Leave(l, pc) == launcher' = [launcher EXCEPT ![l] = [NewLaunch EXCEPT !.pc = pc]]

(* --connection names one of the supported ones here; else the default. *)
SelectConnection(l, c) ==
    /\ launcher[l].pc = "start"
    /\ IF l \in Explicit THEN c \in Supported ELSE c = defaults
    /\ launcher' = [launcher EXCEPT ![l].conn = c, ![l].chosen = c,
         ![l].pc = IF c \in Supported THEN "readiness"
                   ELSE IF l \in NoSetup THEN "failed" ELSE "setupFirst"]
    /\ UNCHANGED <<defaults, ready, process, record, bound, dbTurn, slow, again>>

(* connection_needs_launch_setup. *)
NeedsLaunchSetup(c) ==
    IF c = Local THEN ready[c] # "ready" ELSE ready[c] = "missing_auth"

(* should_fallback_to_local_connection. *)
ShouldFallBack(l) ==
    /\ l \notin Explicit /\ launcher[l].conn # Local
    /\ ready[launcher[l].conn] # "ready"

(* apply_local_fallback: the connection the launch goes on with. *)
AfterFallback(l) ==
    IF ShouldFallBack(l) /\ ready[Local] = "ready" THEN Local ELSE launcher[l].conn

(* launch_connection_readiness, the fallback, setup when it is needed; the  *)
(* second time, after setup, there is no third.                            *)
CheckReadiness(l) ==
    /\ launcher[l].pc \in {"readiness", "readinessAgain"}
    /\ LET c == AfterFallback(l)
           mayset == launcher[l].pc = "readiness" /\ l \notin NoSetup
       IN launcher' = [launcher EXCEPT ![l].conn = c,
            ![l].pc = IF mayset /\ NeedsLaunchSetup(c) THEN "setup"
                      ELSE IF ready[c] = "ready" THEN "probe" ELSE "failed"]
    /\ UNCHANGED <<defaults, ready, process, record, bound, dbTurn, slow, again>>

(* run_setup: the operator picks a connection (an explicit one is given),   *)
(* credentials are stored, and config.toml is read for the first update.   *)
SetupPick(l, c) ==
    /\ launcher[l].pc \in {"setupFirst", "setup"}
    /\ IF l \in Explicit THEN c = launcher[l].conn ELSE c \in Supported
    /\ ready' = [ready EXCEPT ![c] = IF @ = "missing_auth" THEN "ready" ELSE @]
    /\ launcher' = [launcher EXCEPT ![l].chosen = c,
         ![l].pc = IF launcher[l].pc = "setup" THEN "persist" ELSE "persistFirst"]
    /\ UNCHANGED <<defaults, process, record, bound, dbTurn, slow, again>>

SetupAbandoned(l) ==
    /\ launcher[l].pc \in {"setupFirst", "setup"}
    /\ Enter(l, "failed")
    /\ UNCHANGED <<defaults, ready, process, record, bound, dbTurn, slow, again>>

(* persist_default_connection writes its connection into the table it read; *)
(* then persist_connection_default_model reads the file again ...           *)
PersistDefault(l) ==
    /\ launcher[l].pc \in {"persist", "persistFirst"}
    /\ defaults' = launcher[l].chosen
    /\ launcher' = [launcher EXCEPT ![l].draft = defaults',
         ![l].pc = IF @ = "persist" THEN "persistModel" ELSE "persistModelFirst"]
    /\ UNCHANGED <<ready, process, record, bound, dbTurn, slow, again>>

(* ... and writes all it read back, with the model.  After the setup for an *)
(* unsupported default the new default is used, after the other one the     *)
(* connection of before.                                                   *)
PersistModel(l) ==
    /\ launcher[l].pc \in {"persistModel", "persistModelFirst"}
    /\ defaults' = launcher[l].draft
    /\ launcher' = [launcher EXCEPT ![l].draft = NewLaunch.draft,
         ![l].conn = IF launcher[l].pc = "persistModelFirst" THEN defaults' ELSE @,
         ![l].pc = IF @ = "persistModel" THEN "readinessAgain" ELSE "readiness"]
    /\ UNCHANGED <<ready, process, record, bound, dbTurn, slow, again>>

-----------------------------------------------------------------------------
(* Finding a server: prepare_local_runtime, second half.                   *)

(* spawn_server: the first process that does not exist yet. *)
Spawn(l, p) ==
    LET unborn == {s \in Servers : process[s].pc = "unborn"}
        s == CHOOSE s \in unborn : TRUE
    IN  /\ unborn # {}
        /\ process' = [process EXCEPT ![s] =
             [pc |-> "token", port |-> p, gone |-> Gone, found |-> {}]]
        /\ launcher' = [launcher EXCEPT ![l].child = s, ![l].port = p, ![l].pc = "wait"]

(* pick_unused_port: free when it is looked at, and released at once. *)
UnusedPort(p) == p # Home /\ bound[p] = Nobody

(* server_healthy on the configured endpoint. *)
ProbeHealth(l) ==
    /\ launcher[l].pc = "probe"
    /\ \/ bound[Home] = Nobody /\ Spawn(l, Home)
       \/ /\ bound[Home] # Nobody /\ l \in CargoRun
          /\ \E p \in Ports : UnusedPort(p) /\ Spawn(l, p)
       \/ /\ bound[Home] # Nobody /\ l \notin CargoRun
          /\ Enter(l, "auth") /\ UNCHANGED process
    /\ UNCHANGED <<defaults, ready, record, bound, dbTurn, slow, again>>

(* server_auth_compatible: one of the two records opens the server. *)
AuthCompatible(p) == bound[p] # Nobody /\ bound[p] \in {record[p], record[Shared]}

ProbeAuth(l) ==
    /\ launcher[l].pc = "auth"
    /\ \/ AuthCompatible(Home) /\ Enter(l, "chat") /\ UNCHANGED process
       \/ /\ ~AuthCompatible(Home)
          /\ \E p \in Ports : UnusedPort(p) /\ Spawn(l, p)
    /\ UNCHANGED <<defaults, ready, record, bound, dbTurn, slow, again>>

(* wait_for_server: anybody who accepts a connection on the port will do. *)
WaitAccepted(l) ==
    /\ launcher[l].pc = "wait" /\ bound[launcher[l].port] # Nobody
    /\ Enter(l, "chat")
    /\ UNCHANGED <<defaults, ready, process, record, bound, dbTurn, slow, again>>

(* The timeout returns through `?`: the child is neither killed nor waited  *)
(* for.  A server that has exited is only noticed this way.                *)
WaitTimesOut(l) ==
    /\ launcher[l].pc = "wait" /\ bound[launcher[l].port] = Nobody
    /\ slow < MaxSlow
    /\ slow' = slow + 1
    /\ Enter(l, "failed")
    /\ UNCHANGED <<defaults, ready, process, record, bound, dbTurn, again>>

-----------------------------------------------------------------------------
(* The server: main of bt-server.                                          *)

(* write_auth_token for the endpoint: a temporary file that is renamed. *)
WriteToken(s) ==
    /\ process[s].pc = "token"
    /\ record' = [record EXCEPT ![process[s].port] = s]
    /\ process' = [process EXCEPT ![s].pc = "shared"]
    /\ UNCHANGED <<defaults, ready, launcher, bound, dbTurn, slow, again>>

WriteSharedToken(s) ==
    /\ process[s].pc = "shared"
    /\ record' = [record EXCEPT ![Shared] = s]
    /\ process' = [process EXCEPT ![s].pc = "open"]
    /\ UNCHANGED <<defaults, ready, launcher, bound, dbTurn, slow, again>>

(* Mutant of Recovered: recovery keeps what another process started. *)
RecoveredNone(t) == t

(* recover_interrupted_turns: every turn.started without turn.finished,     *)
(* whoever runs it, is failed as interrupted_after_restart.                *)
Recovered(t) == IF t.state = "active" THEN [t EXCEPT !.state = "recovered"] ELSE t

(* BelltowerRuntime::open. *)
OpenRuntime(s) ==
    /\ process[s].pc = "open"
    /\ dbTurn' = [l \in Launchers |-> Recovered(dbTurn[l])]
    /\ process' = [process EXCEPT ![s].pc = "bind", ![s].found = Gone]
    /\ UNCHANGED <<defaults, ready, launcher, record, bound, slow, again>>

(* TcpListener::bind; when the port is taken the process exits. *)
Bind(s) ==
    /\ process[s].pc = "bind"
    /\ LET free == bound[process[s].port] = Nobody
       IN /\ bound' = IF free THEN [bound EXCEPT ![process[s].port] = s] ELSE bound
          /\ process' = [process EXCEPT ![s] =
               IF free THEN [@ EXCEPT !.pc = "serving"] ELSE Ended]
    /\ UNCHANGED <<defaults, ready, launcher, record, dbTurn, slow, again>>

-----------------------------------------------------------------------------
(* Using it.                                                               *)

(* load_auth_token_from_paths: the endpoint's record, else the shared one. *)
DiscoveredToken(p) == IF record[p] # Nobody THEN record[p] ELSE record[Shared]

(* require_bearer_token: the token the client sends is the server's own. *)
Authorized(p) == bound[p] # Nobody /\ DiscoveredToken(p) = bound[p]

(* A message that is let in starts a turn; a refused request changes        *)
(* nothing.                                                                *)
SendMessage(l) ==
    LET p == launcher[l].port
    IN /\ launcher[l].pc = "chat" /\ dbTurn[l].state = "none"
       /\ Authorized(p)
       /\ dbTurn' = [dbTurn EXCEPT ![l] = [state |-> "active", by |-> bound[p]]]
       /\ UNCHANGED <<defaults, ready, launcher, process, record, bound, slow, again>>

(* The worker records turn.finished; for a recovered turn the append is     *)
(* refused, there is no active turn.                                       *)
TurnFinishes(l) ==
    /\ dbTurn[l].state = "active" /\ process[dbTurn[l].by].pc = "serving"
    /\ dbTurn' = [dbTurn EXCEPT ![l].state = "finished"]
    /\ UNCHANGED <<defaults, ready, launcher, process, record, bound, slow, again>>

(* child.kill() and child.wait(). *)
Killed(s) ==
    /\ process' = [process EXCEPT ![s] = Ended]
    /\ bound' = [p \in Ports |-> IF bound[p] = s THEN Nobody ELSE bound[p]]

(* The TUI (or the headless run) ends: shutdown_launched_server. *)
Quit(l) ==
    /\ launcher[l].pc = "chat"
    /\ Leave(l, "done")
    /\ IF launcher[l].child # Nobody THEN Killed(launcher[l].child)
       ELSE UNCHANGED <<process, bound>>
    /\ UNCHANGED <<defaults, ready, record, dbTurn, slow, again>>

(* TUI_DETACH_EXIT_CODE leaves the server to the others. *)
Detach(l) ==
    /\ launcher[l].pc = "chat"
    /\ Leave(l, "detached")
    /\ UNCHANGED <<defaults, ready, process, record, bound, dbTurn, slow, again>>

(* The operator starts `belltower` again and resumes the session. *)
Relaunch(l) ==
    /\ launcher[l].pc \in {"done", "detached", "failed"} /\ again < MaxAgain
    /\ again' = again + 1
    /\ launcher' = [launcher EXCEPT ![l] = NewLaunch]
    /\ UNCHANGED <<defaults, ready, process, record, bound, dbTurn, slow>>

LauncherInit ==
    /\ defaults \in FirstDefaults
    /\ ready \in [Supported -> Readiness]
    /\ launcher = [l \in Launchers |-> NewLaunch]
    /\ process = [s \in Servers |-> Unborn]
    /\ record = [p \in Ports \cup {Shared} |-> Nobody]
    /\ bound = [p \in Ports |-> Nobody]
    /\ dbTurn = [l \in Launchers |-> NoTurn]
    /\ slow = 0 /\ again = 0

LauncherNext ==
    \/ \E l \in Launchers :
         \/ \E c \in Conns : SelectConnection(l, c) \/ SetupPick(l, c)
         \/ CheckReadiness(l) \/ SetupAbandoned(l) \/ PersistDefault(l) \/ PersistModel(l)
         \/ ProbeHealth(l) \/ ProbeAuth(l) \/ WaitAccepted(l) \/ WaitTimesOut(l)
         \/ SendMessage(l) \/ TurnFinishes(l) \/ Quit(l) \/ Detach(l)
         \/ Relaunch(l)
    \/ \E s \in Servers : WriteToken(s) \/ WriteSharedToken(s) \/ OpenRuntime(s) \/ Bind(s)

LauncherSpec == LauncherInit /\ [][LauncherNext]_launcherVars

-----------------------------------------------------------------------------
(* Properties.                                                             *)

(* A process that listens serves, a launcher past the search has a port. *)
LauncherTypeOK ==
    /\ defaults \in Conns
    /\ \A p \in Ports : bound[p] # Nobody =>
         process[bound[p]].pc = "serving" /\ process[bound[p]].port = p
    /\ \A l \in Launchers :
         /\ launcher[l].pc \in {"start", "readiness", "readinessAgain", "setupFirst", "setup",
              "persist", "persistFirst", "persistModel", "persistModelFirst", "probe", "auth",
              "wait", "chat", "done", "detached", "failed"}
         /\ launcher[l].child # Nobody => process[launcher[l].child].pc # "unborn"
    /\ \A l \in Launchers : dbTurn[l].state \in {"none", "active", "finished", "recovered"}
    /\ slow \in 0..MaxSlow /\ again \in 0..MaxAgain

(* bt-server writes its records before it binds: whoever reaches a server   *)
(* never finds the record of a server that was gone before this one was     *)
(* even spawned, so a restart does not strand clients with a stale token.   *)
NeverStale ==
    \A p \in Ports : bound[p] # Nobody =>
        /\ record[p] # Nobody
        /\ record[p] \notin process[bound[p]].gone

(* A launch with --connection talks to that connection or fails; any other  *)
(* one uses a default, or local in place of one that is not ready.          *)
ExplicitKept ==
    \A l \in Launchers : launcher[l].pc \in {"probe", "auth", "wait", "chat"} =>
        /\ ready[launcher[l].conn] = "ready"
        /\ launcher[l].conn \in Supported
        /\ l \in Explicit => launcher[l].conn = launcher[l].chosen

(* A server that serves has closed every turn of the processes that were    *)
(* gone when it opened the database: no session stays busy for a turn that  *)
(* nobody runs.                                                            *)
NoGhostTurn ==
    \A s \in Servers : process[s].pc \in {"bind", "serving"} =>
        \A l \in Launchers :
            dbTurn[l].state = "active" => dbTurn[l].by \notin process[s].found

(* docs/subsystems/launcher-and-tui.md: the listener of a spawned server    *)
(* accepts only after that server has written its record and bound.  Not    *)
(* so when two launchers start at once: see the README.                     *)
WaitReachesChild ==
    \A l \in Launchers : launcher[l].pc = "chat" =>
        LET s == bound[launcher[l].port]
        IN s # Nobody => DiscoveredToken(launcher[l].port) = s

(* Not true, see the README: recovery fails only turns nobody runs. *)
OnlyDeadRecovered ==
    \A l \in Launchers : dbTurn[l].state = "recovered" =>
        process[dbTurn[l].by].pc = "dead"

(* Not true, see the README: a launch that ends without detaching leaves no *)
(* server behind.                                                          *)
NoOrphan ==
    \A l \in Launchers : launcher[l].pc = "failed" /\ launcher[l].child # Nobody =>
        process[launcher[l].child].pc = "dead"

(* Not true, see the README: a launch does not fail for want of a          *)
(* connection when the operator has just set a working one up.              *)
SetupHonoured ==
    \A l \in Launchers :
        launcher[l].pc = "failed" /\ launcher[l].chosen \in Supported =>
            ready[launcher[l].chosen] # "ready" \/ launcher[l].child # Nobody

(* Whoever reaches a server never finds the record of one that was gone      *)
(* before this one was spawned, an explicit connection is the one used, and  *)
(* a serving server has closed every turn of the processes that were gone    *)
(* when it opened the database (belltower launch, bt-server startup).        *)
LaunchesSafe == LauncherTypeOK /\ NeverStale /\ ExplicitKept /\ NoGhostTurn
=============================================================================
