---------------------------- MODULE TerminalProofs ----------------------------
(***************************************************************************)
(* Proofs about the operator's side, for every set of terminals, servers,  *)
(* sessions and commands. Of the launcher: a server that answers has       *)
(* written its token record after every server that was gone when it was   *)
(* spawned, and has closed the turns those left. Of the chat: what a       *)
(* command answers is applied to the session it was issued in, and the     *)
(* writes of one visit arrive in the order they were issued. Of the        *)
(* readiness: a verdict is what using the connection would show, and a     *)
(* model that was picked is not refused.                                   *)
(***************************************************************************)
EXTENDS ChatControl, Launcher, Readiness, FiniteSetTheorems, SequenceTheorems, TLAPS

(***************************************************************************)
(* The launcher: the inductive invariant                                   *)
(***************************************************************************)

Answering == {"probe", "auth", "wait", "chat"}

(* The launch has settled on a connection, for now or for good.            *)
Settled == Answering \cup {"readiness", "readinessAgain", "setup", "persist", "persistModel"}
FirstSetup == {"setupFirst", "persistFirst", "persistModelFirst"}

Launches == [pc : Settled \cup FirstSetup \cup {"start", "done", "detached", "failed"},
             conn : Conns \cup {Nobody}, port : Ports, child : Servers \cup {Nobody},
             draft : Conns \cup {Nobody}, chosen : Conns \cup {Nobody}]

Running == {"token", "shared", "open", "bind", "serving"}

BtServers == [pc : Running \cup {"unborn", "dead"}, port : Ports,
              gone : SUBSET Servers, found : SUBSET Servers]

SessionTurns == [state : {"none", "active", "finished", "recovered"}, by : Servers \cup {Nobody}]

LaunchTypes ==
    /\ defaults \in Conns
    /\ DOMAIN ready = Supported
    /\ launcher \in [Launchers -> Launches]
    /\ process \in [Servers -> BtServers]
    /\ record \in [Ports \cup {Shared} -> Servers \cup {Nobody}]
    /\ bound \in [Ports -> Servers \cup {Nobody}]
    /\ dbTurn \in [Launchers -> SessionTurns]
    /\ slow \in 0..MaxSlow /\ again \in 0..MaxAgain

(* An explicit connection is supported, and no setup puts another one in   *)
(* its place; what setup is about to make the default is supported too.    *)
ChoiceOK ==
    \A l \in Launchers :
        /\ launcher[l].pc \in Settled =>
              launcher[l].conn \in Supported /\ (l \in Explicit => launcher[l].conn = launcher[l].chosen)
        /\ launcher[l].pc \in FirstSetup => l \notin Explicit
        /\ launcher[l].pc \in {"persist", "persistFirst", "persistModel", "persistModelFirst"} =>
              launcher[l].chosen \in Supported
        /\ launcher[l].pc \in {"persistModel", "persistModelFirst"} => launcher[l].draft \in Supported
        /\ launcher[l].pc \in Answering => ready[launcher[l].conn] = "ready"
        /\ launcher[l].child # Nobody => process[launcher[l].child].pc # "unborn"

BoundOK ==
    \A p \in Ports : bound[p] # Nobody =>
        process[bound[p]].pc = "serving" /\ process[bound[p]].port = p

(* What a server remembers as gone is dead, and the record of its endpoint *)
(* is its own or that of one that lived when it was spawned.               *)
RecordOK ==
    \A s \in Servers :
        /\ \A t \in process[s].gone \cup process[s].found : process[t].pc = "dead"
        /\ process[s].pc \in {"shared", "open", "bind", "serving"} =>
              record[process[s].port] \in Servers \ process[s].gone

LaunchInv == LaunchTypes /\ ChoiceOK /\ BoundOK /\ RecordOK /\ NoGhostTurn

(* The invariant says what the run's property says.                        *)
LEMMA LaunchInvSafe ==
    ASSUME LauncherAssumption, LaunchInv
    PROVE  LaunchesSafe
<1>1. LauncherTypeOK
  BY DEF LaunchInv, LaunchTypes, ChoiceOK, BoundOK, LauncherTypeOK, Launches, SessionTurns, Settled,
         FirstSetup, Answering
<1>2. NeverStale
  BY DEF LauncherAssumption, LaunchInv, LaunchTypes, BoundOK, RecordOK, NeverStale
<1>3. ExplicitKept
  BY DEF LaunchInv, ChoiceOK, ExplicitKept, Settled, Answering
<1>4. QED
  BY <1>1, <1>2, <1>3 DEF LaunchesSafe, LaunchInv

LEMMA LaunchInit ==
    ASSUME LauncherAssumption, LauncherInit
    PROVE  LaunchInv
<1>1. NewLaunch \in Launches /\ Unborn \in BtServers /\ NoTurn \in SessionTurns
  BY DEF LauncherAssumption, NewLaunch, Unborn, NoTurn, Launches, BtServers, SessionTurns
<1>2. LaunchTypes
  BY <1>1 DEF LauncherAssumption, LauncherInit, LaunchTypes
<1>3. ChoiceOK
  BY DEF LauncherInit, ChoiceOK, NewLaunch, Settled, FirstSetup, Answering
<1>4. BoundOK /\ RecordOK /\ NoGhostTurn
  BY DEF LauncherAssumption, LauncherInit, BoundOK, RecordOK, NoGhostTurn, Unborn
<1>5. QED
  BY <1>2, <1>3, <1>4 DEF LaunchInv

(* Choosing a connection: only the launcher moves.                         *)
LEMMA LaunchChooses ==
    ASSUME LauncherAssumption, LaunchInv, NEW l \in Launchers, NEW c \in Conns,
           \/ SelectConnection(l, c) \/ SetupPick(l, c) \/ CheckReadiness(l) \/ SetupAbandoned(l)
           \/ PersistDefault(l) \/ PersistModel(l)
    PROVE  LaunchInv'
<1> USE DEF LaunchInv
<1>0. launcher[l] \in Launches
  BY DEF LaunchTypes
<1>1. CASE SelectConnection(l, c)
  <2>1. LaunchTypes'
    BY <1>0, <1>1 DEF LaunchTypes, Launches, SelectConnection, Settled, FirstSetup
  <2>2. ChoiceOK'
    BY <1>0, <1>1 DEF LaunchTypes, ChoiceOK, Launches, SelectConnection, Settled, FirstSetup, Answering
  <2>3. BoundOK' /\ RecordOK' /\ NoGhostTurn'
    BY <1>1 DEF SelectConnection, BoundOK, RecordOK, NoGhostTurn
  <2>4. QED
    BY <2>1, <2>2, <2>3
<1>2. CASE SetupPick(l, c)
  <2>1. c \in Supported /\ (l \in Explicit => c = launcher[l].conn)
    BY <1>2 DEF SetupPick, ChoiceOK, Settled, FirstSetup
  <2>2. LaunchTypes'
    BY <1>0, <1>2 DEF LaunchTypes, Launches, SetupPick, Settled, FirstSetup
  <2>3. ChoiceOK'
    BY <1>0, <1>2, <2>1 DEF LaunchTypes, ChoiceOK, Launches, SetupPick, Settled, FirstSetup, Answering
  <2>4. BoundOK' /\ RecordOK' /\ NoGhostTurn'
    BY <1>2 DEF SetupPick, BoundOK, RecordOK, NoGhostTurn
  <2>5. QED
    BY <2>2, <2>3, <2>4
<1>3. CASE CheckReadiness(l)
  <2>1. AfterFallback(l) \in Supported /\ (l \in Explicit => AfterFallback(l) = launcher[l].conn)
    BY <1>3 DEF CheckReadiness, AfterFallback, ShouldFallBack, ChoiceOK, Settled, LauncherAssumption
  <2>2. LaunchTypes'
    BY <1>0, <1>3, <2>1 DEF LaunchTypes, Launches, CheckReadiness, Settled, FirstSetup, Answering, LauncherAssumption
  <2>3. ChoiceOK'
    BY <1>0, <1>3, <2>1 DEF LaunchTypes, ChoiceOK, Launches, CheckReadiness, Settled, FirstSetup, Answering
  <2>4. BoundOK' /\ RecordOK' /\ NoGhostTurn'
    BY <1>3 DEF CheckReadiness, BoundOK, RecordOK, NoGhostTurn
  <2>5. QED
    BY <2>2, <2>3, <2>4
<1>4. CASE SetupAbandoned(l)
  <2>1. LaunchTypes'
    BY <1>0, <1>4 DEF LaunchTypes, Launches, SetupAbandoned, Enter, Settled, FirstSetup
  <2>2. ChoiceOK'
    BY <1>0, <1>4 DEF LaunchTypes, ChoiceOK, Launches, SetupAbandoned, Enter, Settled, FirstSetup, Answering
  <2>3. BoundOK' /\ RecordOK' /\ NoGhostTurn'
    BY <1>4 DEF SetupAbandoned, BoundOK, RecordOK, NoGhostTurn
  <2>4. QED
    BY <2>1, <2>2, <2>3
<1>5. CASE PersistDefault(l)
  <2>1. LaunchTypes'
    BY <1>0, <1>5 DEF LaunchTypes, ChoiceOK, Launches, PersistDefault, Settled, FirstSetup, LauncherAssumption
  <2>2. ChoiceOK'
    BY <1>0, <1>5 DEF LaunchTypes, ChoiceOK, Launches, PersistDefault, Settled, FirstSetup, Answering
  <2>3. BoundOK' /\ RecordOK' /\ NoGhostTurn'
    BY <1>5 DEF PersistDefault, BoundOK, RecordOK, NoGhostTurn
  <2>4. QED
    BY <2>1, <2>2, <2>3
<1>6. CASE PersistModel(l)
  <2>1. launcher[l].draft \in Supported
    BY <1>6 DEF PersistModel, ChoiceOK
  <2>2. LaunchTypes'
    BY <1>0, <1>6, <2>1 DEF LaunchTypes, Launches, PersistModel, Settled, FirstSetup, NewLaunch, LauncherAssumption
  <2>3. ChoiceOK'
    BY <1>0, <1>6, <2>1 DEF LaunchTypes, ChoiceOK, Launches, PersistModel, Settled, FirstSetup, Answering
  <2>4. BoundOK' /\ RecordOK' /\ NoGhostTurn'
    BY <1>6 DEF PersistModel, BoundOK, RecordOK, NoGhostTurn
  <2>5. QED
    BY <2>2, <2>3, <2>4
<1>7. QED
  BY <1>1, <1>2, <1>3, <1>4, <1>5, <1>6

(* A server that is spawned remembers who was gone.                        *)
LEMMA LaunchSpawns ==
    ASSUME LauncherAssumption, LaunchInv, NEW l \in Launchers, NEW p \in Ports, Spawn(l, p),
           launcher[l].pc \in Answering,
           UNCHANGED <<defaults, ready, record, bound, dbTurn, slow, again>>
    PROVE  LaunchInv'
<1> USE DEF LaunchInv
<1> DEFINE s == CHOOSE s \in {s \in Servers : process[s].pc = "unborn"} : TRUE
           new == [pc |-> "token", port |-> p, gone |-> Gone, found |-> {}]
<1>1. /\ s \in Servers /\ process[s].pc = "unborn"
      /\ process' = [process EXCEPT ![s] = new]
      /\ launcher' = [launcher EXCEPT ![l].child = s, ![l].port = p, ![l].pc = "wait"]
  BY DEF Spawn
<1>2. launcher[l] \in Launches /\ process[s] \in BtServers /\ new \in BtServers
  BY <1>1 DEF LaunchTypes, BtServers, Running, Gone
<1> HIDE DEF s
<1>3. LaunchTypes'
  <2>1. launcher' \in [Launchers -> Launches]
    BY ZenonT(40), <1>1, <1>2 DEF LaunchTypes, Launches, Settled, Answering
  <2>2. process' \in [Servers -> BtServers]
    BY <1>1, <1>2 DEF LaunchTypes
  <2>3. QED
    BY <2>1, <2>2 DEF LaunchTypes
<1>4. /\ \A t \in Servers \ {s} : process'[t] = process[t]
      /\ process'[s] = new
  BY <1>1, <1>2 DEF LaunchTypes
<1>5. ChoiceOK'
  <2>1. \A k \in Launchers : launcher'[k].child # Nobody => process'[launcher'[k].child].pc # "unborn"
    BY <1>1, <1>2, <1>4 DEF LaunchTypes, ChoiceOK, Launches
  <2>2. QED
    BY <1>1, <1>2, <2>1 DEF LaunchTypes, ChoiceOK, Launches, Settled, FirstSetup, Answering
<1>6. BoundOK'
  BY <1>1, <1>4 DEF BoundOK
<1>7. RecordOK'
  <2> SUFFICES ASSUME NEW t \in Servers
      PROVE  /\ \A u \in process'[t].gone \cup process'[t].found : process'[u].pc = "dead"
             /\ process'[t].pc \in {"shared", "open", "bind", "serving"} =>
                   record[process'[t].port] \in Servers \ process'[t].gone
    BY DEF RecordOK
  <2>1. CASE t = s
    BY <1>1, <1>4, <2>1 DEF Gone
  <2>2. CASE t # s
    <3>1. \A u \in process[t].gone \cup process[t].found : u # s /\ u \in Servers
      BY <1>1 DEF RecordOK, LaunchTypes, BtServers
    <3>2. QED
      BY <1>4, <2>2, <3>1 DEF RecordOK
  <2>3. QED
    BY <2>1, <2>2
<1>8. NoGhostTurn'
  BY <1>1, <1>4 DEF NoGhostTurn
<1>9. QED
  BY <1>3, <1>5, <1>6, <1>7, <1>8

(* Finding a server, using it and leaving it to others.                    *)
LEMMA LaunchConnects ==
    ASSUME LauncherAssumption, LaunchInv, NEW l \in Launchers,
           \/ ProbeHealth(l) \/ ProbeAuth(l) \/ WaitAccepted(l) \/ WaitTimesOut(l)
           \/ Detach(l) \/ Relaunch(l)
    PROVE  LaunchInv'
<1> USE DEF LaunchInv
<1>0. launcher[l] \in Launches /\ NewLaunch \in Launches
  BY DEF LaunchTypes, LauncherAssumption, NewLaunch, Launches
<1>1. ASSUME NEW pc \in Answering \cup {"failed"}, Enter(l, pc), launcher[l].pc \in Answering,
             slow' \in 0..MaxSlow,
             UNCHANGED <<defaults, ready, process, record, bound, dbTurn, again>>
      PROVE  LaunchInv'
  <2>1. LaunchTypes'
    BY <1>0, <1>1 DEF LaunchTypes, Launches, Enter, Settled
  <2>2. ChoiceOK'
    BY <1>0, <1>1 DEF LaunchTypes, ChoiceOK, Launches, Enter, Settled, FirstSetup, Answering
  <2>3. BoundOK' /\ RecordOK' /\ NoGhostTurn'
    BY <1>1 DEF BoundOK, RecordOK, NoGhostTurn
  <2>4. QED
    BY <2>1, <2>2, <2>3
<1>2. ASSUME NEW pc \in {"start", "detached"}, Leave(l, pc), again' \in 0..MaxAgain,
             UNCHANGED <<defaults, ready, process, record, bound, dbTurn, slow>>
      PROVE  LaunchInv'
  <2>1. LaunchTypes'
    BY <1>0, <1>2 DEF LaunchTypes, Launches, Leave
  <2>2. ChoiceOK'
    BY <1>0, <1>2 DEF LaunchTypes, ChoiceOK, Launches, Leave, NewLaunch, Settled, FirstSetup, Answering
  <2>3. BoundOK' /\ RecordOK' /\ NoGhostTurn'
    BY <1>2 DEF BoundOK, RecordOK, NoGhostTurn
  <2>4. QED
    BY <2>1, <2>2, <2>3
<1>3. CASE ProbeHealth(l)
  <2>1. CASE Spawn(l, Home)
    BY <1>3, <2>1, LaunchSpawns DEF ProbeHealth, Answering, LauncherAssumption
  <2>2. CASE \E p \in Ports : Spawn(l, p)
    BY <1>3, <2>2, LaunchSpawns DEF ProbeHealth, Answering
  <2>3. CASE Enter(l, "auth") /\ UNCHANGED process
    BY <1>1, <1>3, <2>3 DEF ProbeHealth, Answering, LaunchTypes
  <2>4. QED
    BY <1>3, <2>1, <2>2, <2>3 DEF ProbeHealth
<1>4. CASE ProbeAuth(l)
  <2>1. CASE \E p \in Ports : Spawn(l, p)
    BY <1>4, <2>1, LaunchSpawns DEF ProbeAuth, Answering
  <2>2. CASE Enter(l, "chat") /\ UNCHANGED process
    BY <1>1, <1>4, <2>2 DEF ProbeAuth, Answering, LaunchTypes
  <2>3. QED
    BY <1>4, <2>1, <2>2 DEF ProbeAuth
<1>5. CASE WaitAccepted(l)
  BY <1>1, <1>5 DEF WaitAccepted, Answering, LaunchTypes
<1>6. CASE WaitTimesOut(l)
  BY <1>1, <1>6 DEF WaitTimesOut, Answering, LaunchTypes, LauncherAssumption
<1>7. CASE Detach(l)
  BY <1>2, <1>7 DEF Detach, LaunchTypes
<1>8. CASE Relaunch(l)
  <2>1. [NewLaunch EXCEPT !.pc = "start"] = NewLaunch
    BY DEF NewLaunch
  <2>2. again' \in 0..MaxAgain
    BY <1>8 DEF Relaunch, LaunchTypes, LauncherAssumption
  <2>3. Leave(l, "start")
    BY <1>8, <2>1, Zenon DEF Relaunch, Leave
  <2>4. UNCHANGED <<defaults, ready, process, record, bound, dbTurn, slow>>
    BY <1>8 DEF Relaunch
  <2>5. QED
    BY <1>2, <2>2, <2>3, <2>4
<1>9. QED
  BY <1>3, <1>4, <1>5, <1>6, <1>7, <1>8

(* A server's own steps: its records, the recovery, the port.              *)
LEMMA ServerSteps ==
    ASSUME LauncherAssumption, LaunchInv, NEW s \in Servers,
           \/ WriteToken(s) \/ WriteSharedToken(s) \/ OpenRuntime(s) \/ Bind(s)
    PROVE  LaunchInv'
<1> USE DEF LaunchInv
<1>0. process[s] \in BtServers
  BY DEF LaunchTypes
<1>1. ASSUME NEW e \in BtServers, process' = [process EXCEPT ![s] = e],
             process[s].pc \in Running \ {"serving"}, e.pc # "unborn",
             e.gone \subseteq process[s].gone, e.found \subseteq process[s].found \cup Gone,
             UNCHANGED <<defaults, ready, launcher, slow, again>>
      PROVE  /\ \A t \in Servers \ {s} : process'[t] = process[t]
             /\ process'[s] = e
             /\ process' \in [Servers -> BtServers]
             /\ ChoiceOK'
             /\ \A t \in Servers : \A u \in process'[t].gone \cup process'[t].found :
                   u \in Servers /\ process[u].pc = "dead" /\ process'[u].pc = "dead"
  <2>1. /\ \A t \in Servers \ {s} : process'[t] = process[t]
        /\ process'[s] = e
        /\ process' \in [Servers -> BtServers]
    BY <1>1 DEF LaunchTypes
  <2>2. ChoiceOK'
    <3>1. \A k \in Launchers : launcher[k].child # Nobody => launcher[k].child \in Servers
      BY DEF LaunchTypes, Launches
    <3>2. \A k \in Launchers : launcher[k].child # Nobody => process'[launcher[k].child].pc # "unborn"
      BY <1>1, <2>1, <3>1 DEF ChoiceOK
    <3>3. QED
      BY <1>1, <3>2 DEF ChoiceOK
  <2>3. ASSUME NEW t \in Servers, NEW u \in process'[t].gone \cup process'[t].found
        PROVE  u \in Servers /\ process[u].pc = "dead" /\ process'[u].pc = "dead"
    <3>1. u \in process[t].gone \cup process[t].found \/ u \in Gone
      BY <1>1, <2>1, <2>3
    <3>2. u \in Servers /\ process[u].pc = "dead"
      BY <3>1 DEF RecordOK, Gone, LaunchTypes, BtServers
    <3>3. u # s
      BY <1>1, <3>2 DEF Running
    <3>4. QED
      BY <2>1, <3>2, <3>3
  <2>4. QED
    BY <2>1, <2>2, <2>3
<1>2. CASE WriteToken(s)
  <2> DEFINE e == [process[s] EXCEPT !.pc = "shared"]
  <2>1. /\ e \in BtServers /\ process' = [process EXCEPT ![s] = e] /\ process[s].pc = "token"
        /\ e.pc = "shared" /\ e.gone = process[s].gone /\ e.found = process[s].found
        /\ e.port = process[s].port /\ process[s].port \in Ports
    BY <1>0, <1>2 DEF WriteToken, BtServers, Running
  <2>2. UNCHANGED <<defaults, ready, launcher, bound, dbTurn, slow, again>>
    BY <1>2 DEF WriteToken
  <2> HIDE DEF e
  <2>3. /\ \A t \in Servers \ {s} : process'[t] = process[t]
        /\ process'[s] = e
        /\ process' \in [Servers -> BtServers]
        /\ ChoiceOK'
        /\ \A t \in Servers : \A u \in process'[t].gone \cup process'[t].found :
              u \in Servers /\ process[u].pc = "dead" /\ process'[u].pc = "dead"
    BY <1>1, <2>1, <2>2 DEF Running
  <2>4. record' = [record EXCEPT ![process[s].port] = s]
    BY <1>2 DEF WriteToken
  <2>5. LaunchTypes'
    BY <2>1, <2>2, <2>3, <2>4 DEF LaunchTypes
  <2>6. RecordOK'
    <3> SUFFICES ASSUME NEW t \in Servers, process'[t].pc \in {"shared", "open", "bind", "serving"}
        PROVE  record'[process'[t].port] \in Servers \ process'[t].gone
      BY <2>3 DEF RecordOK
    <3>1. process'[t].port = process[t].port /\ process[t].port \in Ports
      BY <2>1, <2>3 DEF LaunchTypes, BtServers
    <3>2. s \notin process'[t].gone
      BY <2>1, <2>3
    <3>3. CASE process[t].port = process[s].port
      BY <2>4, <3>1, <3>2, <3>3 DEF LaunchTypes
    <3>4. CASE process[t].port # process[s].port
      BY <2>3, <2>4, <3>1, <3>4 DEF RecordOK, LaunchTypes
    <3>5. QED
      BY <3>3, <3>4
  <2>7. BoundOK'
    BY <2>1, <2>2, <2>3 DEF BoundOK, LaunchTypes
  <2>8. NoGhostTurn'
    BY <2>1, <2>2, <2>3 DEF NoGhostTurn
  <2>9. QED
    BY <2>3, <2>5, <2>6, <2>7, <2>8
<1>3. CASE WriteSharedToken(s)
  <2> DEFINE e == [process[s] EXCEPT !.pc = "open"]
  <2>1. /\ e \in BtServers /\ process' = [process EXCEPT ![s] = e] /\ process[s].pc = "shared"
        /\ e.pc = "open" /\ e.gone = process[s].gone /\ e.found = process[s].found
        /\ e.port = process[s].port /\ process[s].port \in Ports
    BY <1>0, <1>3 DEF WriteSharedToken, BtServers, Running
  <2>2. UNCHANGED <<defaults, ready, launcher, bound, dbTurn, slow, again>>
    BY <1>3 DEF WriteSharedToken
  <2> HIDE DEF e
  <2>3. /\ \A t \in Servers \ {s} : process'[t] = process[t]
        /\ process'[s] = e
        /\ process' \in [Servers -> BtServers]
        /\ ChoiceOK'
        /\ \A t \in Servers : \A u \in process'[t].gone \cup process'[t].found :
              u \in Servers /\ process[u].pc = "dead" /\ process'[u].pc = "dead"
    BY <1>1, <2>1, <2>2 DEF Running
  <2>4. record' = [record EXCEPT ![Shared] = s]
    BY <1>3 DEF WriteSharedToken
  <2>5. LaunchTypes'
    BY <2>1, <2>2, <2>3, <2>4 DEF LaunchTypes
  <2>6. RecordOK'
    <3> SUFFICES ASSUME NEW t \in Servers, process'[t].pc \in {"shared", "open", "bind", "serving"}
        PROVE  record'[process'[t].port] \in Servers \ process'[t].gone
      BY <2>3 DEF RecordOK
    <3>1. /\ process'[t].port = process[t].port /\ process[t].port \in Ports
          /\ process'[t].gone = process[t].gone
          /\ process[t].pc \in {"shared", "open", "bind", "serving"}
      BY <2>1, <2>3 DEF LaunchTypes, BtServers
    <3>2. record'[process[t].port] = record[process[t].port]
      BY <2>4, <3>1 DEF LauncherAssumption, LaunchTypes
    <3>3. QED
      BY <3>1, <3>2 DEF RecordOK
  <2>7. BoundOK'
    BY <2>1, <2>2, <2>3 DEF BoundOK, LaunchTypes
  <2>8. NoGhostTurn'
    BY <2>1, <2>2, <2>3 DEF NoGhostTurn
  <2>9. QED
    BY <2>3, <2>5, <2>6, <2>7, <2>8
<1>4. CASE OpenRuntime(s)
  <2> DEFINE e == [process[s] EXCEPT !.pc = "bind", !.found = Gone]
  <2>1. /\ e \in BtServers /\ process' = [process EXCEPT ![s] = e] /\ process[s].pc = "open"
        /\ e.pc = "bind" /\ e.gone = process[s].gone /\ e.found = Gone
        /\ e.port = process[s].port
    BY <1>0, <1>4 DEF OpenRuntime, BtServers, Running, Gone
  <2>2. UNCHANGED <<defaults, ready, launcher, record, bound, slow, again>>
    BY <1>4 DEF OpenRuntime
  <2> HIDE DEF e
  <2>3. /\ \A t \in Servers \ {s} : process'[t] = process[t]
        /\ process'[s] = e
        /\ process' \in [Servers -> BtServers]
        /\ ChoiceOK'
        /\ \A t \in Servers : \A u \in process'[t].gone \cup process'[t].found :
              u \in Servers /\ process[u].pc = "dead" /\ process'[u].pc = "dead"
    BY <1>1, <2>1, <2>2 DEF Running
  <2>4. \A l \in Launchers : dbTurn'[l] \in SessionTurns /\ dbTurn'[l].state # "active"
    BY <1>4 DEF OpenRuntime, Recovered, LaunchTypes, SessionTurns
  <2>5. dbTurn' \in [Launchers -> SessionTurns]
    BY <1>4, <2>4 DEF OpenRuntime
  <2>6. LaunchTypes'
    BY <2>2, <2>3, <2>5 DEF LaunchTypes
  <2>7. RecordOK'
    BY <2>1, <2>2, <2>3 DEF RecordOK
  <2>8. BoundOK'
    BY <2>1, <2>2, <2>3 DEF BoundOK, LaunchTypes
  <2>9. NoGhostTurn'
    BY <2>4 DEF NoGhostTurn
  <2>10. QED
    BY <2>3, <2>6, <2>7, <2>8, <2>9
<1>5. CASE Bind(s) /\ bound[process[s].port] = Nobody
  <2> DEFINE e == [process[s] EXCEPT !.pc = "serving"]
  <2>1. /\ e \in BtServers /\ process' = [process EXCEPT ![s] = e] /\ process[s].pc = "bind"
        /\ e.pc = "serving" /\ e.gone = process[s].gone /\ e.found = process[s].found
        /\ e.port = process[s].port /\ process[s].port \in Ports
    BY <1>0, <1>5 DEF Bind, BtServers, Running
  <2>2. UNCHANGED <<defaults, ready, launcher, record, dbTurn, slow, again>>
    BY <1>5 DEF Bind
  <2> HIDE DEF e
  <2>3. /\ \A t \in Servers \ {s} : process'[t] = process[t]
        /\ process'[s] = e
        /\ process' \in [Servers -> BtServers]
        /\ ChoiceOK'
        /\ \A t \in Servers : \A u \in process'[t].gone \cup process'[t].found :
              u \in Servers /\ process[u].pc = "dead" /\ process'[u].pc = "dead"
    BY <1>1, <2>1, <2>2 DEF Running
  <2>4. bound' = [bound EXCEPT ![process[s].port] = s]
    BY <1>5 DEF Bind
  <2>5. LaunchTypes'
    BY <2>1, <2>2, <2>3, <2>4 DEF LaunchTypes
  <2>6. RecordOK'
    BY <2>1, <2>2, <2>3 DEF RecordOK
  <2>7. BoundOK'
    BY <2>1, <2>3, <2>4 DEF BoundOK, LaunchTypes
  <2>8. NoGhostTurn'
    BY <2>1, <2>2, <2>3 DEF NoGhostTurn
  <2>9. QED
    BY <2>3, <2>5, <2>6, <2>7, <2>8
<1>6. CASE Bind(s) /\ bound[process[s].port] # Nobody
  <2>1. /\ Ended \in BtServers /\ process' = [process EXCEPT ![s] = Ended] /\ process[s].pc = "bind"
        /\ Ended.pc = "dead" /\ Ended.gone = {} /\ Ended.found = {}
    BY <1>6 DEF Bind, Ended, Unborn, BtServers, LauncherAssumption
  <2>2. UNCHANGED <<defaults, ready, launcher, record, bound, dbTurn, slow, again>>
    BY <1>6 DEF Bind
  <2>3. /\ \A t \in Servers \ {s} : process'[t] = process[t]
        /\ process'[s] = Ended
        /\ process' \in [Servers -> BtServers]
        /\ ChoiceOK'
        /\ \A t \in Servers : \A u \in process'[t].gone \cup process'[t].found :
              u \in Servers /\ process[u].pc = "dead" /\ process'[u].pc = "dead"
    BY <1>1, <2>1, <2>2 DEF Running
  <2>4. LaunchTypes'
    BY <2>2, <2>3 DEF LaunchTypes
  <2>5. RecordOK'
    BY <2>1, <2>2, <2>3 DEF RecordOK
  <2>6. BoundOK'
    BY <2>1, <2>2, <2>3 DEF BoundOK, LaunchTypes
  <2>7. NoGhostTurn'
    BY <2>1, <2>2, <2>3 DEF NoGhostTurn
  <2>8. QED
    BY <2>3, <2>4, <2>5, <2>6, <2>7
<1>7. QED
  BY <1>2, <1>3, <1>4, <1>5, <1>6

(* Turns, and the end of a launch that takes its server with it.           *)
LEMMA LaunchUses ==
    ASSUME LauncherAssumption, LaunchInv, NEW l \in Launchers,
           SendMessage(l) \/ TurnFinishes(l) \/ Quit(l)
    PROVE  LaunchInv'
<1> USE DEF LaunchInv
<1>0. launcher[l] \in Launches /\ dbTurn[l] \in SessionTurns
  BY DEF LaunchTypes
<1>1. CASE SendMessage(l)
  <2> DEFINE p == launcher[l].port
             t == [state |-> "active", by |-> bound[p]]
  <2>1. p \in Ports /\ bound[p] \in Servers /\ process[bound[p]].pc = "serving"
    BY <1>0, <1>1 DEF SendMessage, Authorized, Launches, LaunchTypes, BoundOK
  <2>2. t \in SessionTurns /\ dbTurn' = [dbTurn EXCEPT ![l] = t]
    BY <1>1, <2>1 DEF SendMessage, SessionTurns
  <2>3. UNCHANGED <<defaults, ready, launcher, process, record, bound, slow, again>>
    BY <1>1 DEF SendMessage
  <2> HIDE DEF p, t
  <2>4. LaunchTypes'
    BY <2>2, <2>3 DEF LaunchTypes
  <2>5. ChoiceOK' /\ BoundOK' /\ RecordOK'
    BY <2>3 DEF ChoiceOK, BoundOK, RecordOK
  <2>6. NoGhostTurn'
    <3> SUFFICES ASSUME NEW s \in Servers, process[s].pc \in {"bind", "serving"},
                        NEW k \in Launchers, dbTurn'[k].state = "active"
                 PROVE  dbTurn'[k].by \notin process[s].found
      BY <2>3 DEF NoGhostTurn
    <3>1. CASE k = l
      BY <2>1, <2>2, <3>1 DEF t, LaunchTypes, RecordOK
    <3>2. CASE k # l
      BY <2>2, <3>2 DEF LaunchTypes, NoGhostTurn
    <3>3. QED
      BY <3>1, <3>2
  <2>7. QED
    BY <2>4, <2>5, <2>6
<1>2. CASE TurnFinishes(l)
  <2>1. LaunchTypes'
    BY <1>0, <1>2 DEF TurnFinishes, LaunchTypes, SessionTurns
  <2>2. ChoiceOK' /\ BoundOK' /\ RecordOK'
    BY <1>2 DEF TurnFinishes, ChoiceOK, BoundOK, RecordOK
  <2>3. NoGhostTurn'
    BY <1>0, <1>2 DEF TurnFinishes, LaunchTypes, NoGhostTurn, SessionTurns
  <2>4. QED
    BY <2>1, <2>2, <2>3
<1>3. CASE Quit(l)
  <2> DEFINE s == launcher[l].child
             e == [NewLaunch EXCEPT !.pc = "done"]
  <2>1. e \in Launches /\ e.pc = "done" /\ e.child = Nobody
    BY DEF LauncherAssumption, NewLaunch, Launches
  <2>2. launcher' = [launcher EXCEPT ![l] = e]
    BY <1>3 DEF Quit, Leave
  <2>3. UNCHANGED <<defaults, ready, record, dbTurn, slow, again>>
    BY <1>3 DEF Quit
  <2>4. Ended \in BtServers /\ Ended.pc = "dead" /\ Ended.gone = {} /\ Ended.found = {}
    BY DEF Ended, Unborn, BtServers, LauncherAssumption
  <2>5. CASE s = Nobody
    <3>1. UNCHANGED <<process, bound>>
      BY <1>3, <2>5 DEF Quit
    <3>2. LaunchTypes'
      BY <2>1, <2>2, <2>3, <3>1 DEF LaunchTypes
    <3>3. ChoiceOK'
      BY <2>1, <2>2, <2>3, <3>1 DEF LaunchTypes, ChoiceOK, Settled, FirstSetup, Answering
    <3>4. BoundOK' /\ RecordOK' /\ NoGhostTurn'
      BY <2>3, <3>1 DEF BoundOK, RecordOK, NoGhostTurn
    <3>5. QED
      BY <3>2, <3>3, <3>4
  <2>6. CASE s # Nobody
    <3>1. s \in Servers /\ Killed(s)
      BY <1>0, <1>3, <2>6 DEF Quit, Launches
    <3>2. /\ \A t \in Servers \ {s} : process'[t] = process[t]
          /\ process'[s] = Ended
          /\ process' \in [Servers -> BtServers]
      BY <2>4, <3>1 DEF Killed, LaunchTypes
    <3> HIDE DEF e, s
    <3>3. bound' \in [Ports -> Servers \cup {Nobody}]
      BY <3>1 DEF Killed, LaunchTypes
    <3>4. LaunchTypes'
      BY <2>1, <2>2, <2>3, <3>2, <3>3 DEF LaunchTypes
    <3>5. ChoiceOK'
      <4>1. \A k \in Launchers : launcher'[k] = launcher[k] \/ launcher'[k] = e
        BY <2>2 DEF LaunchTypes
      <4>2. \A k \in Launchers : launcher[k].child # Nobody =>
               launcher[k].child \in Servers /\ process'[launcher[k].child].pc # "unborn"
        BY <2>4, <3>2 DEF LaunchTypes, Launches, ChoiceOK
      <4>3. QED
        BY <2>1, <2>3, <4>1, <4>2 DEF ChoiceOK, Settled, FirstSetup, Answering
    <3>6. BoundOK'
      BY <2>3, <3>1, <3>2 DEF Killed, LaunchTypes, BoundOK
    <3>7. RecordOK'
      <4> SUFFICES ASSUME NEW t \in Servers
          PROVE  /\ \A u \in process'[t].gone \cup process'[t].found : process'[u].pc = "dead"
                 /\ process'[t].pc \in {"shared", "open", "bind", "serving"} =>
                       record[process'[t].port] \in Servers \ process'[t].gone
        BY <2>3 DEF RecordOK
      <4>1. CASE t = s
        BY <2>4, <3>2, <4>1
      <4>2. CASE t # s
        <5>1. \A u \in process[t].gone \cup process[t].found : u \in Servers
          BY DEF LaunchTypes, BtServers
        <5>2. QED
          BY <2>4, <3>1, <3>2, <4>2, <5>1 DEF RecordOK
      <4>3. QED
        BY <4>1, <4>2
    <3>8. NoGhostTurn'
      BY <2>3, <2>4, <3>1, <3>2 DEF NoGhostTurn
    <3>9. QED
      BY <3>4, <3>5, <3>6, <3>7, <3>8
  <2>7. QED
    BY <2>5, <2>6
<1>4. QED
  BY <1>1, <1>2, <1>3

LEMMA LaunchStep ==
    ASSUME LauncherAssumption, LaunchInv, [LauncherNext]_launcherVars
    PROVE  LaunchInv'
<1>1. CASE UNCHANGED launcherVars
  BY <1>1 DEF launcherVars, LaunchInv, LaunchTypes, ChoiceOK, BoundOK, RecordOK, NoGhostTurn
<1>2. ASSUME NEW l \in Launchers, NEW c \in Conns, SelectConnection(l, c) \/ SetupPick(l, c)
      PROVE  LaunchInv'
  BY <1>2, LaunchChooses
<1>3. ASSUME NEW l \in Launchers,
             CheckReadiness(l) \/ SetupAbandoned(l) \/ PersistDefault(l) \/ PersistModel(l)
      PROVE  LaunchInv'
  <2>1. Local \in Conns
    BY DEF LauncherAssumption
  <2>2. QED
    BY <1>3, <2>1, LaunchChooses
<1>4. ASSUME NEW l \in Launchers,
             \/ ProbeHealth(l) \/ ProbeAuth(l) \/ WaitAccepted(l) \/ WaitTimesOut(l)
             \/ Detach(l) \/ Relaunch(l)
      PROVE  LaunchInv'
  BY <1>4, LaunchConnects
<1>5. ASSUME NEW l \in Launchers, SendMessage(l) \/ TurnFinishes(l) \/ Quit(l)
      PROVE  LaunchInv'
  BY <1>5, LaunchUses
<1>6. ASSUME NEW s \in Servers,
             WriteToken(s) \/ WriteSharedToken(s) \/ OpenRuntime(s) \/ Bind(s)
      PROVE  LaunchInv'
  BY <1>6, ServerSteps
<1>7. QED
  BY <1>1, <1>2, <1>3, <1>4, <1>5, <1>6 DEF LauncherNext

(* Every step of the launchers and servers, whatever is spawned, killed,   *)
(* left behind or run again: the record a client finds at an answering     *)
(* server is not that of one that was gone before it was spawned, an       *)
(* explicit connection is the one used, and no turn of a process that was  *)
(* gone at a server's start is still active (prepare_local_runtime and     *)
(* bt-server's main).                                                      *)
THEOREM LauncherSafe == LauncherSpec => []LaunchesSafe
<1>1. LauncherInit => LaunchInv
  BY LauncherAssumption, LaunchInit
<1>2. LaunchInv /\ [LauncherNext]_launcherVars => LaunchInv'
  BY LauncherAssumption, LaunchStep
<1>3. LaunchInv => LaunchesSafe
  BY LauncherAssumption, LaunchInvSafe
<1>4. QED
  BY <1>1, <1>2, <1>3, PTL DEF LauncherSpec

(***************************************************************************)
(* The chat: the inductive invariant                                       *)
(***************************************************************************)

Requests == {"read", "write", "create_session", "create_branch", "activate"}

(* What a command has left to ask of the server.                           *)
Todos == {<<>>, <<"create_branch", "write">>, <<"write", "write">>} \cup {<<what>> : what \in Requests}

ChatCommands == [id : Nat, outcome : {"quiet", "new", "branch", "resume", "cancel", "detach"},
                 session : AllSessions, visit : Nat, target : AllSessions \X Nat,
                 todo : Todos, failed : BOOLEAN]

ChatTypes ==
    /\ chat \in [session : AllSessions, branch : AllSessions \X Nat, known : Nat, visit : Nat,
                 live : BOOLEAN, open : BOOLEAN]
    /\ inspection \in {"idle", "working", "approval", "input"}
    /\ commands \in Seq(ChatCommands) /\ adrift \subseteq ChatCommands
    /\ sending \in [session : AllSessions \cup {NoSession}, shell : BOOLEAN]
    /\ approving \in [session : AllSessions \cup {NoSession}, context : BOOLEAN]
    /\ submissions \in Seq(AllSessions)
    /\ loading \in AllSessions \cup {NoSession}
    /\ server \in [exist : SUBSET AllSessions, branches : [AllSessions -> Nat \ {0}],
                   active : [AllSessions -> Nat]]
    /\ DOMAIN served = Visits /\ \A v \in Visits : served[v] \in Nat
    /\ issued \in 0..MaxCommands

(* A branch that server `on` has, and a command of the first n that asks   *)
(* for what there is.                                                      *)
Has(on, b) == b[1] \in on.exist /\ b[2] \in 1..on.branches[b[1]]

CommandOK(on, n, c) ==
    /\ c.id \in 1..n /\ c.session \in on.exist
    /\ Has(on, c.target)
    /\ c.outcome = "branch" => c.target[1] = c.session
    /\ c.todo # <<>> =>
         /\ Head(c.todo) \in {"create_branch", "activate"} => c.outcome = "branch"
         /\ Head(c.todo) = "create_session" => c.outcome = "new"

ServerOK == \A s \in AllSessions : server.active[s] \in 1..server.branches[s]

(* What is shown exists, and all that is queued belongs to it.             *)
ViewOK ==
    /\ Has(server, chat.branch) /\ chat.branch[1] = chat.session
    /\ chat.known \in 1..server.branches[chat.session]
    /\ \A i \in DOMAIN submissions : submissions[i] = chat.session
    /\ loading # NoSession => loading \in server.exist /\ sending = NoSend
    /\ strays \cap {"command", "submission"} = {}

(* Commands are of the visit they were queued in, and what is adrift was   *)
(* the one request on its way when its visit ended.                        *)
QueueOK ==
    /\ \A i \in DOMAIN commands :
         /\ CommandOK(server, issued, commands[i])
         /\ commands[i].session = chat.session /\ commands[i].visit = chat.visit
         /\ \A j \in DOMAIN commands : j < i => commands[j].id < commands[i].id
    /\ \A c \in adrift :
         /\ CommandOK(server, issued, c) /\ c.todo # <<>> /\ ~c.failed /\ c.visit < chat.visit
         /\ \A d \in adrift : d # c => d.visit # c.visit /\ d.id # c.id
         /\ \A i \in DOMAIN commands : c.id < commands[i].id

(* The writes of a command that is not done come after the last one that   *)
(* was carried out in its visit.                                           *)
OrderOK ==
    /\ \A v \in Visits : served[v] <= issued /\ (v > chat.visit => served[v] = 0)
    /\ \A c \in adrift : c.visit \in Visits => served[c.visit] <= c.id
    /\ \A i \in DOMAIN commands :
         ~Finished(commands[i]) /\ chat.visit \in Visits => served[chat.visit] <= commands[i].id

(* Commands whose create_branch may still be carried out, and the others:  *)
(* a branch beyond a session's first is the doing of one of those.         *)
Pends(c) == ~c.failed /\ c.todo # <<>> /\ Head(c.todo) = "create_branch"
Done == {n \in 1..issued : /\ \A i \in DOMAIN commands : Pends(commands[i]) => commands[i].id # n
                           /\ \A c \in adrift : Pends(c) => c.id # n}
BranchesOK == \A s \in AllSessions : server.branches[s] <= 1 + Cardinality(Done)

ChatInv == ChatTypes /\ ServerOK /\ ViewOK /\ QueueOK /\ OrderOK /\ BranchesOK

LEMMA TodoParts ==
    ASSUME NEW q \in Todos, q # <<>>
    PROVE  Tail(q) \in Todos /\ Head(q) \in Requests /\ (Tail(q) # <<>> => Head(Tail(q)) = "write")
<1>1. ASSUME NEW first \in {"create_branch", "write"}, q = <<first, "write">>
      PROVE  Tail(q) = <<"write">> /\ Head(q) = first
  <2>1. Len(q) = 2 /\ q[1] = first /\ q[2] = "write" /\ q \in Seq(Requests)
    BY <1>1 DEF Requests
  <2>2. PICK u, t : u = Tail(q) /\ t = <<"write">>
    OBVIOUS
  <2>3. Tail(q) = <<"write">>
    <3>1. u \in Seq(Requests) /\ Len(u) = Len(q) - 1 /\ \A i \in 1..Len(u) : u[i] = q[i + 1]
      BY <2>1, <2>2, HeadTailProperties, Zenon
    <3>2. t \in Seq(Requests) /\ Len(t) = 1 /\ t[1] = "write"
      BY <2>2 DEF Requests
    <3>3. Len(u) = 1 /\ u[1] = "write"
      BY <2>1, <3>1
    <3>4. u = t
      BY <3>1, <3>2, <3>3, SeqEqual
    <3>5. QED
      BY <2>2, <3>4
  <2>4. QED
    BY <1>1, <2>3
<1>2. CASE \E what \in Requests : q = <<what>>
  <2>1. PICK what \in Requests : q = <<what>>
    BY <1>2
  <2>2. Tail(q) = <<>> /\ Head(q) = what
    BY <2>1
  <2>3. QED
    BY <2>2 DEF Todos
<1>3. CASE \E first \in {"create_branch", "write"} : q = <<first, "write">>
  <2>1. PICK first \in {"create_branch", "write"} : q = <<first, "write">>
    BY <1>3
  <2>2. Tail(q) = <<"write">> /\ Head(q) = first
    BY <1>1, <2>1
  <2>3. Tail(q) \in Todos /\ Head(Tail(q)) = "write"
    BY <2>2 DEF Todos, Requests
  <2>4. QED
    BY <2>2, <2>3 DEF Requests
<1>4. QED
  BY <1>2, <1>3 DEF Todos

LEMMA DoneFinite ==
    ASSUME NEW n \in Nat, NEW S \in SUBSET (1..n)
    PROVE  IsFiniteSet(S) /\ Cardinality(S) \in Nat /\ Cardinality(S) <= n
<1>1. IsFiniteSet(1..n) /\ Cardinality(1..n) = n
  BY FS_Interval
<1>2. QED
  BY <1>1, FS_Subset, FS_CardinalityType

(* What the run's property says, the number of branches included.          *)
LEMMA ChatInvSafe ==
    ASSUME ChatAssumption, ChatInv
    PROVE  AnswersOwnSession
<1> USE DEF ChatInv
<1>1. chat.branch \in Branches
  <2>1. issued \in Nat /\ issued <= MaxCommands /\ MaxCommands \in Nat
    BY DEF ChatTypes, ChatAssumption
  <2>2. Cardinality(Done) \in Nat /\ Cardinality(Done) <= issued
    BY <2>1, DoneFinite DEF Done
  <2>3. chat.branch[1] \in AllSessions /\ chat.branch[2] \in Nat /\ chat.branch = <<chat.branch[1], chat.branch[2]>>
    <3>1. chat.branch \in AllSessions \X Nat
      BY DEF ChatTypes
    <3>2. QED
      BY <3>1
  <2>4. chat.branch[2] \in 1..server.branches[chat.branch[1]] /\ server.branches[chat.branch[1]] \in Nat
    BY <2>3 DEF ChatTypes, ViewOK, Has
  <2>5. server.branches[chat.branch[1]] <= 1 + Cardinality(Done)
    BY <2>3 DEF BranchesOK
  <2>6. chat.branch[2] \in 1..MaxCommands + 1
    BY <2>1, <2>2, <2>3, <2>4, <2>5
  <2>7. QED
    BY <2>3, <2>6 DEF Branches
<1>2. \A i \in DOMAIN commands : /\ commands[i].session \in server.exist
                                 /\ commands[i].id \in 1 .. issued
                                 /\ i > 1 => commands[i - 1].id < commands[i].id
  <2>1. \A i \in DOMAIN commands : i > 1 => i - 1 \in DOMAIN commands /\ i - 1 < i
    <3>1. Len(commands) \in Nat /\ DOMAIN commands = 1..Len(commands)
      BY DEF ChatTypes
    <3>2. QED
      BY <3>1
  <2>2. QED
    BY <2>1 DEF QueueOK, CommandOK
<1>3. ToSet(submissions) \subseteq server.exist
  BY DEF ToSet, ViewOK, Has
<1>4. /\ chat.session \in server.exist
      /\ chat.branch[2] \in 1..server.branches[chat.branch[1]]
      /\ chat.known \in 1..server.branches[chat.session]
      /\ loading \in server.exist \cup {NoSession}
  BY DEF ViewOK, Has, ChatTypes
<1>5. /\ {chat.live, chat.open} \subseteq BOOLEAN
      /\ inspection \in {"idle", "working", "approval", "input"}
      /\ sending.session \in AllSessions \cup {NoSession}
      /\ approving.session \in AllSessions \cup {NoSession}
  BY DEF ChatTypes
<1>6. ChatTypeOK
  BY <1>1, <1>2, <1>3, <1>4, <1>5 DEF ChatTypeOK, QueueOK
<1>7. OutcomeOwn /\ LoadAlone
  BY DEF OutcomeOwn, LoadAlone, ViewOK
<1>8. QED
  BY <1>6, <1>7 DEF AnswersOwnSession

LEMMA ChatStart ==
    ASSUME ChatAssumption, ChatInit
    PROVE  ChatInv
<1>1. PICK s \in FirstSessions :
         chat = [session |-> s, branch |-> <<s, 1>>, known |-> 1, visit |-> 1, live |-> FALSE, open |-> TRUE]
  BY DEF ChatInit, ChatAssumption
<1>2. s \in AllSessions /\ FirstSessions \subseteq AllSessions
  BY DEF AllSessions
<1>3. commands = <<>> /\ submissions = <<>> /\ commands \in Seq(ChatCommands) /\ submissions \in Seq(AllSessions)
  BY DEF ChatInit
<1>4. /\ server \in [exist : SUBSET AllSessions, branches : [AllSessions -> Nat \ {0}], active : [AllSessions -> Nat]]
      /\ server.exist = FirstSessions
      /\ \A t \in AllSessions : server.branches[t] = 1 /\ server.active[t] = 1
  BY <1>2 DEF ChatInit
<1>5. ChatTypes
  BY <1>1, <1>2, <1>3, <1>4 DEF ChatInit, ChatTypes, ChatAssumption, NoSend, NoApproval
<1>6. ServerOK /\ ViewOK
  BY <1>1, <1>2, <1>3, <1>4 DEF ChatInit, ServerOK, ViewOK, Has
<1>7. QueueOK /\ OrderOK
  BY <1>3 DEF ChatInit, QueueOK, OrderOK
<1>8. BranchesOK
  <2>1. Cardinality(Done) \in Nat
    BY DoneFinite DEF Done, ChatInit
  <2>2. QED
    BY <1>4, <2>1 DEF BranchesOK
<1>9. QED
  BY <1>5, <1>6, <1>7, <1>8 DEF ChatInv

-----------------------------------------------------------------------------
(* Steps that leave the server alone.                                      *)

(* A step that carries out no create_branch makes nothing pending but what *)
(* it issues.                                                              *)
LEMMA BranchesKept ==
    ASSUME ChatInv, issued \in Nat, issued' \in Nat, Done \subseteq Done',
           \A s \in AllSessions : server'.branches[s] = server.branches[s]
    PROVE  BranchesOK'
<1>1. IsFiniteSet(Done') /\ Cardinality(Done') \in Nat
  BY DoneFinite DEF Done
<1>2. Cardinality(Done) \in Nat /\ Cardinality(Done) <= Cardinality(Done')
  BY <1>1, DoneFinite, FS_Subset DEF Done
<1>3. \A s \in AllSessions : server.branches[s] \in Nat
  BY DEF ChatInv, ChatTypes
<1>4. QED
  BY <1>1, <1>2, <1>3 DEF ChatInv, BranchesOK

(* Nothing is issued, taken off the queue or carried out.                  *)
LEMMA QueueKept ==
    ASSUME ChatInv, chat'.session = chat.session, chat'.visit = chat.visit,
           UNCHANGED <<commands, adrift, server, served, issued>>
    PROVE  ServerOK' /\ QueueOK' /\ OrderOK' /\ BranchesOK'
<1>1. ServerOK'
  BY DEF ChatInv, ServerOK
<1>2. QueueOK'
  BY DEF ChatInv, QueueOK, CommandOK, Has
<1>3. OrderOK'
  BY DEF ChatInv, OrderOK
<1>4. BranchesOK'
  BY DEF ChatInv, BranchesOK, Done
<1>5. QED
  BY <1>1, <1>2, <1>3, <1>4

(* A command is taken off the queue.                                       *)
LEMMA QueuePolled ==
    ASSUME ChatInv, chat'.session = chat.session, chat'.visit = chat.visit, commands # <<>>,
           commands' = Tail(commands), UNCHANGED <<adrift, server, served, issued>>
    PROVE  commands' \in Seq(ChatCommands) /\ ServerOK' /\ QueueOK' /\ OrderOK' /\ BranchesOK'
<1>1. commands \in Seq(ChatCommands) /\ issued \in Nat
  BY DEF ChatInv, ChatTypes
<1>2. /\ commands' \in Seq(ChatCommands) /\ Len(commands') = Len(commands) - 1
      /\ \A i \in 1..Len(commands') : commands'[i] = commands[i + 1]
  BY <1>1, HeadTailProperties, Zenon
<1>3. \A i \in DOMAIN commands' : i + 1 \in DOMAIN commands /\ commands'[i] = commands[i + 1]
  BY <1>1, <1>2
<1>4. \A i, j \in DOMAIN commands' : j < i => j + 1 < i + 1
  BY <1>2
<1>5. ServerOK'
  BY DEF ChatInv, ServerOK
<1>6. QueueOK'
  <2>1. \A i \in DOMAIN commands' :
            /\ CommandOK(server', issued', commands'[i])
            /\ commands'[i].session = chat.session /\ commands'[i].visit = chat.visit
            /\ \A j \in DOMAIN commands' : j < i => commands'[j].id < commands'[i].id
    BY <1>3, <1>4 DEF ChatInv, QueueOK, CommandOK, Has
  <2>2. \A c \in adrift :
            /\ CommandOK(server', issued', c) /\ c.todo # <<>> /\ ~c.failed /\ c.visit < chat.visit
            /\ \A d \in adrift : d # c => d.visit # c.visit /\ d.id # c.id
            /\ \A i \in DOMAIN commands' : c.id < commands'[i].id
    BY <1>3 DEF ChatInv, QueueOK, CommandOK, Has
  <2>3. QED
    BY <2>1, <2>2 DEF QueueOK
<1>7. OrderOK'
  BY <1>3 DEF ChatInv, OrderOK
<1>8. BranchesOK'
  <2>1. Done \subseteq Done'
    BY <1>3 DEF Done
  <2>2. QED
    BY <1>1, <2>1, BranchesKept
<1>9. QED
  BY <1>2, <1>5, <1>6, <1>7, <1>8

(* What a new command starts with is in order.                             *)
Fresh(outcome, target, todo) ==
    /\ outcome \in {"quiet", "new", "branch", "resume", "cancel", "detach"}
    /\ target \in AllSessions \X Nat /\ Has(server, target)
    /\ outcome = "branch" => target[1] = chat.session
    /\ todo \in Todos /\ todo # <<>>
    /\ Head(todo) \in {"create_branch", "activate"} => outcome = "branch"
    /\ Head(todo) = "create_session" => outcome = "new"

LEMMA QueueGrows ==
    ASSUME ChatAssumption, ChatInv, NEW outcome, NEW target, NEW todo, Fresh(outcome, target, todo),
           Enqueue(outcome, target, todo), UNCHANGED <<chat, adrift, server, served>>
    PROVE  /\ commands' \in Seq(ChatCommands) /\ issued' \in 0..MaxCommands
           /\ ServerOK' /\ QueueOK' /\ OrderOK' /\ BranchesOK'
<1> DEFINE n == Len(commands)
<1>1. PICK c : c = Command(outcome, target, todo)
  OBVIOUS
<1>2. /\ c.id = issued + 1 /\ c.session = chat.session /\ c.visit = chat.visit
      /\ c.outcome = outcome /\ c.target = target /\ c.todo = todo /\ c.failed = FALSE
  BY <1>1 DEF Command
<1>3. issued \in Nat /\ issued' = issued + 1 /\ issued' \in 0..MaxCommands
  BY DEF ChatInv, ChatTypes, Enqueue, ChatAssumption
<1>4. c \in ChatCommands
  BY <1>1, <1>3 DEF Command, ChatCommands, ChatInv, ChatTypes, Fresh
<1>5. commands \in Seq(ChatCommands) /\ commands' = Append(commands, c)
  BY <1>1 DEF ChatInv, ChatTypes, Enqueue
<1>6. /\ commands' \in Seq(ChatCommands) /\ n \in Nat
      /\ DOMAIN commands = 1..n /\ DOMAIN commands' = 1..n + 1
      /\ \A i \in 1..n : commands'[i] = commands[i]
      /\ commands'[n + 1] = c
  BY <1>4, <1>5
<1> HIDE DEF n
<1>7. \A i \in DOMAIN commands' : (i \in DOMAIN commands /\ commands'[i] = commands[i]) \/ (i = n + 1 /\ commands'[i] = c)
  BY <1>6
<1>8. ServerOK'
  BY DEF ChatInv, ServerOK
<1>9. QueueOK'
  <2>1. \A d : CommandOK(server, issued, d) => CommandOK(server', issued', d) /\ d.id < c.id
    BY <1>2, <1>3 DEF CommandOK, Has
  <2>2. CommandOK(server', issued', c)
    <3>1. chat.session \in server.exist
      BY DEF ChatInv, ViewOK, Has
    <3>2. QED
      BY <1>2, <1>3, <3>1 DEF CommandOK, Has, Fresh
  <2>3. ASSUME NEW i \in DOMAIN commands'
        PROVE  /\ CommandOK(server', issued', commands'[i])
               /\ commands'[i].session = chat.session /\ commands'[i].visit = chat.visit
               /\ \A j \in DOMAIN commands' : j < i => commands'[j].id < commands'[i].id
    <3>1. CASE i \in 1..n
      <4>1. \A j \in DOMAIN commands' : j < i => j \in DOMAIN commands /\ commands'[j] = commands[j]
        BY <1>6, <3>1
      <4>2. QED
        BY <1>6, <2>1, <3>1, <4>1 DEF ChatInv, QueueOK
    <3>2. CASE i = n + 1
      <4>1. \A j \in DOMAIN commands' : j < i => j \in DOMAIN commands /\ commands'[j] = commands[j]
        BY <1>6, <3>2
      <4>2. QED
        BY <1>2, <1>6, <2>1, <2>2, <3>2, <4>1 DEF ChatInv, QueueOK
    <3>3. QED
      BY <1>6, <2>3, <3>1, <3>2
  <2>4. \A d \in adrift :
            /\ CommandOK(server', issued', d) /\ d.todo # <<>> /\ ~d.failed /\ d.visit < chat.visit
            /\ \A e \in adrift : e # d => e.visit # d.visit /\ e.id # d.id
            /\ \A i \in DOMAIN commands' : d.id < commands'[i].id
    BY <1>7, <2>1 DEF ChatInv, QueueOK
  <2>5. QED
    BY <2>3, <2>4 DEF QueueOK
<1>10. OrderOK'
  <2>1. \A v \in Visits : served[v] \in Nat /\ served[v] <= issued
    BY DEF ChatInv, ChatTypes, OrderOK
  <2>2. \A i \in DOMAIN commands' :
            ~Finished(commands'[i]) /\ chat.visit \in Visits => served[chat.visit] <= commands'[i].id
    BY <1>2, <1>3, <1>7, <2>1 DEF ChatInv, OrderOK
  <2>3. QED
    BY <1>3, <2>1, <2>2 DEF ChatInv, OrderOK
<1>11. BranchesOK'
  <2>1. Done \subseteq Done'
    BY <1>2, <1>3, <1>7 DEF Done
  <2>2. QED
    BY <1>3, <2>1, BranchesKept
<1>12. QED
  BY <1>3, <1>6, <1>8, <1>9, <1>10, <1>11

-----------------------------------------------------------------------------
(* Steps in which the server carries out a request.                        *)

(* What is still there, and what is answered is there too.                 *)
LEMMA Performs ==
    ASSUME ChatAssumption, ChatInv, NEW c \in ChatCommands, CommandOK(server, issued, c), c.todo # <<>>,
           Perform(Head(c.todo), c)
    PROVE  /\ server' \in [exist : SUBSET AllSessions, branches : [AllSessions -> Nat \ {0}],
                           active : [AllSessions -> Nat]]
           /\ server.exist \subseteq server'.exist
           /\ \A s \in AllSessions : server'.branches[s] =
                 IF Head(c.todo) = "create_branch" /\ s = c.session THEN server.branches[s] + 1
                 ELSE server.branches[s]
           /\ ServerOK'
           /\ Answer(Head(c.todo), c) \in AllSessions \X Nat
           /\ Has(server', Answer(Head(c.todo), c))
           /\ c.outcome = "branch" => Answer(Head(c.todo), c)[1] = c.session
<1> DEFINE what == Head(c.todo)
           Servers1 == [exist : SUBSET AllSessions, branches : [AllSessions -> Nat \ {0}],
                        active : [AllSessions -> Nat]]
<1>1. /\ server \in Servers1 /\ c.session \in AllSessions /\ c.session \in server.exist
      /\ c.target \in AllSessions \X Nat /\ Has(server, c.target)
      /\ c.outcome = "branch" => c.target[1] = c.session
      /\ what \in {"create_branch", "activate"} => c.outcome = "branch"
      /\ what = "create_session" => c.outcome = "new"
      /\ \A s \in AllSessions : server.active[s] \in 1..server.branches[s]
  BY DEF ChatInv, ChatTypes, ServerOK, CommandOK, ChatCommands
<1>2. CASE what = "create_branch"
  <2>1. PICK n : n = server.branches[c.session] + 1
    OBVIOUS
  <2>2. server' = [server EXCEPT !.branches[c.session] = n, !.active[c.session] = n]
    BY <1>2, <2>1 DEF Perform
  <2>3. n \in Nat /\ n > 0 /\ server.branches[c.session] \in Nat
    BY <1>1, <2>1
  <2>4. /\ server'.exist = server.exist
        /\ server'.branches = [server.branches EXCEPT ![c.session] = n]
        /\ server'.active = [server.active EXCEPT ![c.session] = n]
    BY <1>1, <2>2
  <2>5. server' \in Servers1
    <3> DEFINE B == [server.branches EXCEPT ![c.session] = n]
               A == [server.active EXCEPT ![c.session] = n]
    <3>1. B \in [AllSessions -> Nat \ {0}] /\ A \in [AllSessions -> Nat]
      BY <1>1, <2>3
    <3>2. server' = [exist |-> server.exist, branches |-> B, active |-> A]
      BY <1>1, <2>2
    <3>3. server.exist \in SUBSET AllSessions
      BY <1>1
    <3> HIDE DEF A, B
    <3>4. QED
      BY <3>1, <3>2, <3>3
  <2>6. \A s \in AllSessions : /\ server'.branches[s] = IF s = c.session THEN n ELSE server.branches[s]
                               /\ server'.active[s] = IF s = c.session THEN n ELSE server.active[s]
    BY <1>1, <2>4
  <2>7. ServerOK'
    <3> SUFFICES ASSUME NEW s \in AllSessions PROVE server'.active[s] \in 1..server'.branches[s]
      BY DEF ServerOK
    <3>1. CASE s = c.session
      BY <2>3, <2>6, <3>1
    <3>2. CASE s # c.session
      BY <1>1, <2>6, <3>2
    <3>3. QED
      BY <3>1, <3>2
  <2>8. Answer(what, c) = <<c.session, n>>
    BY <1>1, <1>2, <2>6 DEF Answer
  <2>9. Has(server', <<c.session, n>>) /\ <<c.session, n>> \in AllSessions \X Nat /\ <<c.session, n>>[1] = c.session
    BY <1>1, <2>3, <2>4, <2>6 DEF Has
  <2>10. QED
    BY <1>1, <1>2, <2>1, <2>4, <2>5, <2>6, <2>7, <2>8, <2>9
<1>3. CASE what = "activate"
  <2>1. PICK n : n = c.target[2]
    OBVIOUS
  <2>2. server' = [server EXCEPT !.active[c.session] = n]
    BY <1>3, <2>1 DEF Perform
  <2>3. n \in Nat /\ n \in 1..server.branches[c.session]
    BY <1>1, <1>3, <2>1 DEF Has
  <2>4. /\ server'.exist = server.exist
        /\ server'.branches = server.branches
        /\ server'.active = [server.active EXCEPT ![c.session] = n]
    BY <1>1, <2>2
  <2>5. server' \in Servers1
    BY <1>1, <2>2, <2>3
  <2>6. ServerOK'
    BY <1>1, <2>3, <2>4 DEF ServerOK
  <2>7. Answer(what, c) = c.target
    BY <1>3 DEF Answer
  <2>8. Has(server', c.target)
    BY <1>1, <2>4 DEF Has
  <2>9. QED
    BY <1>1, <1>3, <2>4, <2>5, <2>6, <2>7, <2>8
<1>4. CASE what = "create_session"
  <2>1. PICK t \in NewSessions \ server.exist : server' = [server EXCEPT !.exist = @ \cup {t}]
    BY <1>4 DEF Perform
  <2>2. t \in AllSessions
    BY DEF AllSessions
  <2>3. /\ server'.exist = server.exist \cup {t}
        /\ server'.branches = server.branches
        /\ server'.active = server.active
    BY <1>1, <2>1
  <2>4. server' \in Servers1
    BY <1>1, <2>1, <2>2
  <2>5. ServerOK'
    BY <1>1, <2>3 DEF ServerOK
  <2>6. (CHOOSE s \in server'.exist \ server.exist : TRUE) = t
    BY <2>1, <2>3
  <2>7. Answer(what, c) = <<t, 1>>
    BY <1>4, <2>6 DEF Answer
  <2>8. Has(server', <<t, 1>>) /\ <<t, 1>> \in AllSessions \X Nat
    <3>1. server.branches[t] \in Nat \ {0}
      BY <1>1, <2>2
    <3>2. QED
      BY <2>2, <2>3, <3>1 DEF Has
  <2>9. QED
    BY <1>1, <1>4, <2>3, <2>4, <2>5, <2>7, <2>8
<1>5. CASE what \notin {"create_branch", "activate", "create_session"}
  <2>1. server' = server
    BY <1>5 DEF Perform
  <2>2. Answer(what, c) = c.target
    BY <1>5 DEF Answer
  <2>3. ServerOK'
    BY <1>1, <2>1 DEF ServerOK
  <2>4. QED
    BY <1>1, <1>5, <2>1, <2>2, <2>3
<1>6. QED
  BY <1>2, <1>3, <1>4, <1>5

(* What a client knows of the server stays true.                           *)
LEMMA StillThere ==
    ASSUME ChatInv, server'.exist \in SUBSET AllSessions, server.exist \subseteq server'.exist,
           \A s \in AllSessions : server'.branches[s] \in Nat /\ server.branches[s] <= server'.branches[s]
    PROVE  /\ \A b : Has(server, b) => Has(server', b)
           /\ \A n, d : CommandOK(server, n, d) => CommandOK(server', n, d)
<1>1. \A s \in AllSessions : server.branches[s] \in Nat
  BY DEF ChatInv, ChatTypes
<1>2. server.exist \subseteq AllSessions
  BY DEF ChatInv, ChatTypes
<1>3. \A b : Has(server, b) => Has(server', b)
  BY <1>1, <1>2 DEF Has
<1>4. QED
  BY <1>3 DEF CommandOK

(* A create_branch that is carried out was pending and is done.            *)
LEMMA BranchDone ==
    ASSUME ChatInv, issued \in Nat, issued' = issued, NEW k \in 1..issued, k \notin Done, k \in Done',
           Done \subseteq Done', NEW s \in AllSessions,
           \A t \in AllSessions :
               server'.branches[t] = IF t = s THEN server.branches[t] + 1 ELSE server.branches[t]
    PROVE  BranchesOK'
<1>1. IsFiniteSet(Done') /\ Cardinality(Done') \in Nat /\ IsFiniteSet(Done) /\ Cardinality(Done) \in Nat
  BY DoneFinite DEF Done
<1>2. Cardinality(Done \cup {k}) = Cardinality(Done) + 1
  BY <1>1, FS_AddElement
<1>3. Cardinality(Done \cup {k}) <= Cardinality(Done')
  BY <1>1, FS_Subset
<1>4. \A t \in AllSessions : server.branches[t] \in Nat /\ server.branches[t] <= 1 + Cardinality(Done)
  BY DEF ChatInv, ChatTypes, BranchesOK
<1>5. QED
  BY <1>1, <1>2, <1>3, <1>4 DEF BranchesOK

(* What the server has of the view and of the queue when it has grown.     *)
LEMMA ViewKept ==
    ASSUME ChatInv, server'.exist \in SUBSET AllSessions, server.exist \subseteq server'.exist,
           \A s \in AllSessions : server'.branches[s] \in Nat /\ server.branches[s] <= server'.branches[s],
           UNCHANGED <<chat, submissions, loading, sending, strays>>
    PROVE  ViewOK'
<1>1. Has(server', chat.branch)
  BY StillThere DEF ChatInv, ViewOK
<1>2. chat.session \in AllSessions /\ chat.known \in 1..server.branches[chat.session]
  BY DEF ChatInv, ViewOK, ChatTypes
<1>3. chat.known \in 1..server'.branches[chat.session]
  <2>1. server.branches[chat.session] \in Nat
    BY <1>2 DEF ChatInv, ChatTypes
  <2>2. QED
    BY <1>2, <2>1
<1>4. QED
  BY <1>1, <1>3 DEF ChatInv, ViewOK

(* A request of an aborted task arrives, or never will.                    *)
LEMMA Drifting ==
    ASSUME ChatAssumption, ChatInv, Drifts
    PROVE  ChatInv' /\ \A v \in Visits : served[v] <= served'[v]
<1>1. PICK c \in adrift :
         /\ adrift' = adrift \ {c}
         /\ \/ Perform(Head(c.todo), c) /\ served' = Written(c)
            \/ UNCHANGED <<server, served>>
  BY DEF Drifts
<1>2. /\ UNCHANGED <<chat, inspection, commands, sending, submissions, approving, loading, strays, issued>>
      /\ issued \in Nat
  BY DEF Drifts, ChatInv, ChatTypes
<1>3. /\ c \in ChatCommands /\ CommandOK(server, issued, c) /\ c.todo # <<>> /\ ~c.failed
      /\ c.visit < chat.visit /\ c.id \in 1..issued /\ c.id \in Nat /\ c.visit \in Nat
      /\ \A d \in adrift' : d.visit # c.visit /\ d.id # c.id
      /\ \A i \in DOMAIN commands : c.id < commands[i].id
  BY <1>1 DEF ChatInv, ChatTypes, QueueOK, ChatCommands, CommandOK
<1>4. \A v \in Visits : served[v] \in Nat
  BY DEF ChatInv, ChatTypes
<1>5. Done \subseteq Done'
  BY <1>1, <1>2 DEF Done
<1>6. CASE Perform(Head(c.todo), c) /\ served' = Written(c)
  <2>1. /\ server' \in [exist : SUBSET AllSessions, branches : [AllSessions -> Nat \ {0}],
                        active : [AllSessions -> Nat]]
        /\ server.exist \subseteq server'.exist
        /\ \A s \in AllSessions : server'.branches[s] =
              IF Head(c.todo) = "create_branch" /\ s = c.session THEN server.branches[s] + 1
              ELSE server.branches[s]
        /\ ServerOK'
    BY <1>3, <1>6, Performs
  <2>2. /\ server'.exist \in SUBSET AllSessions
        /\ \A s \in AllSessions : server'.branches[s] \in Nat /\ server.branches[s] <= server'.branches[s]
    <3>1. server'.exist \in SUBSET AllSessions /\ server'.branches \in [AllSessions -> Nat \ {0}]
      BY <2>1
    <3>2. server.branches \in [AllSessions -> Nat \ {0}]
      BY DEF ChatInv, ChatTypes
    <3>3. \A s \in AllSessions : server.branches[s] \in Nat /\ server'.branches[s] \in Nat
      BY <3>1, <3>2
    <3>4. \A s \in AllSessions : server.branches[s] <= server'.branches[s]
      BY <2>1, <3>3
    <3>5. QED
      BY <3>1, <3>3, <3>4
  <2>3. \A n, d : CommandOK(server, n, d) => CommandOK(server', n, d)
    BY <2>1, <2>2, StillThere
  <2>4. /\ DOMAIN served' = Visits
        /\ \A v \in Visits : served'[v] = IF v = c.visit THEN c.id ELSE served[v]
    BY <1>6 DEF Written, ChatInv, ChatTypes
  <2>5. \A v \in Visits : served'[v] \in Nat /\ served[v] <= served'[v] /\ served'[v] <= issued
    BY <1>1, <1>3, <1>4, <2>4 DEF ChatInv, OrderOK
  <2>6. ChatTypes'
    BY <1>1, <1>2, <2>1, <2>4, <2>5 DEF ChatInv, ChatTypes
  <2>7. ViewOK'
    BY <1>2, <2>1, <2>2, ViewKept
  <2>8. QueueOK'
    BY <1>1, <1>2, <2>3 DEF ChatInv, QueueOK
  <2>9. OrderOK'
    <3>1. \A v \in Visits : v > chat.visit => served'[v] = 0
      <4>1. chat.visit \in Nat
        BY DEF ChatInv, ChatTypes
      <4>2. QED
        BY <1>3, <2>4, <4>1 DEF ChatInv, OrderOK, Visits
    <3>2. \A d \in adrift' : d.visit \in Visits => served'[d.visit] <= d.id
      BY <1>1, <1>3, <2>4 DEF ChatInv, OrderOK
    <3>3. \A i \in DOMAIN commands :
              ~Finished(commands[i]) /\ chat.visit \in Visits => served'[chat.visit] <= commands[i].id
      BY <1>3, <2>4 DEF ChatInv, OrderOK
    <3>4. QED
      BY <1>2, <2>5, <3>1, <3>2, <3>3 DEF OrderOK
  <2>10. BranchesOK'
    <3>1. CASE Head(c.todo) = "create_branch"
      <4>1. c.id \notin Done
        BY <1>3, <3>1 DEF Done, Pends
      <4>2. c.id \in Done'
        BY <1>2, <1>3 DEF Done
      <4>3. c.session \in AllSessions
        BY <1>3 DEF ChatCommands
      <4>4. \A t \in AllSessions :
               server'.branches[t] = IF t = c.session THEN server.branches[t] + 1 ELSE server.branches[t]
        BY <2>1, <3>1
      <4>5. QED
        BY <1>2, <1>3, <1>5, <4>1, <4>2, <4>3, <4>4, BranchDone
    <3>2. CASE Head(c.todo) # "create_branch"
      BY <1>2, <1>5, <2>1, <3>2, BranchesKept
    <3>3. QED
      BY <3>1, <3>2
  <2>11. QED
    BY <2>1, <2>5, <2>6, <2>7, <2>8, <2>9, <2>10 DEF ChatInv
<1>7. CASE UNCHANGED <<server, served>>
  <2>1. ChatTypes' /\ ServerOK' /\ ViewOK'
    BY ZenonT(40), <1>1, <1>2, <1>7 DEF ChatInv, ChatTypes, ServerOK, ViewOK
  <2>2. QueueOK' /\ OrderOK'
    BY <1>1, <1>2, <1>7 DEF ChatInv, QueueOK, OrderOK
  <2>3. BranchesOK'
    BY <1>2, <1>5, <1>7, BranchesKept
  <2>4. QED
    BY <1>4, <1>7, <2>1, <2>2, <2>3 DEF ChatInv
<1>8. QED
  BY <1>1, <1>6, <1>7

LEMMA QueueFacts ==
    ASSUME ChatInv
    PROVE  /\ commands \in Seq(ChatCommands) /\ Len(commands) \in Nat /\ DOMAIN commands = 1..Len(commands)
           /\ \A j \in DOMAIN commands : commands[j] \in ChatCommands /\ commands[j].id \in Nat
           /\ \A d \in adrift : d \in ChatCommands /\ d.visit \in Nat /\ d.id \in Nat
           /\ issued \in Nat
<1>1. commands \in Seq(ChatCommands) /\ adrift \subseteq ChatCommands /\ issued \in Nat
  BY DEF ChatInv, ChatTypes
<1>2. Len(commands) \in Nat /\ DOMAIN commands = 1..Len(commands)
  BY <1>1, LenProperties
<1>3. \A j \in DOMAIN commands : commands[j] \in ChatCommands
  BY <1>1, <1>2, ElementOfSeq
<1>4. \A d \in ChatCommands : d.visit \in Nat /\ d.id \in Nat
  BY DEF ChatCommands
<1>5. QED
  BY <1>1, <1>2, <1>3, <1>4

(* A command's next request is carried out, its answer lost, or it fails.  *)
LEMMA RunsCommand ==
    ASSUME ChatAssumption, ChatInv, RunCommand
    PROVE  ChatInv' /\ \A v \in Visits : served[v] <= served'[v]
<1> DEFINE carried(c, i) == /\ Perform(Head(c.todo), c)
                            /\ served' = IF Head(c.todo) = "read" THEN served ELSE Written(c)
                            /\ \E answered \in BOOLEAN :
                                   commands' = [commands EXCEPT ![i].todo = Tail(@), ![i].failed = ~answered,
                                                                ![i].target = Answer(Head(c.todo), c)]
           fails(i) == commands' = [commands EXCEPT ![i].failed = TRUE] /\ UNCHANGED <<server, served>>
<1>0. \E i \in DOMAIN commands :
         /\ ~Finished(commands[i]) /\ MayRun(i)
         /\ carried(commands[i], i) \/ fails(i)
  BY Zenon DEF RunCommand
<1> HIDE DEF carried, fails
<1>1. PICK i \in DOMAIN commands :
         ~Finished(commands[i]) /\ MayRun(i) /\ (carried(commands[i], i) \/ fails(i))
  BY <1>0
<1>2. PICK c : c = commands[i]
  OBVIOUS
<1>3. /\ UNCHANGED <<chat, inspection, sending, submissions, approving, loading, adrift, strays, issued>>
      /\ issued \in Nat
  BY QueueFacts, Zenon DEF RunCommand
<1>4. /\ commands \in Seq(ChatCommands) /\ DOMAIN commands = 1..Len(commands) /\ Len(commands) \in Nat
      /\ i \in 1..Len(commands) /\ c \in ChatCommands
  BY <1>1, <1>2, QueueFacts
<1>4a. /\ \A j \in DOMAIN commands : commands[j] \in ChatCommands /\ commands[j].id \in Nat
       /\ \A d \in adrift : d.visit \in Nat /\ d.id \in Nat
  BY QueueFacts
<1>5. /\ CommandOK(server, issued, c) /\ c.todo # <<>> /\ c.failed = FALSE
      /\ c.visit = chat.visit /\ c.session = chat.session /\ c.id \in 1..issued /\ c.id \in Nat
      /\ \A d \in adrift : d.id # c.id
  <2>1. /\ CommandOK(server, issued, c) /\ c.visit = chat.visit /\ c.session = chat.session
        /\ \A d \in adrift : d.id < c.id
    BY <1>1, <1>2 DEF ChatInv, QueueOK
  <2>2. c.failed \in BOOLEAN /\ c.id \in Nat
    BY <1>4 DEF ChatCommands
  <2>3. c.todo # <<>> /\ c.failed = FALSE
    BY <1>1, <1>2, <2>2 DEF Finished
  <2>4. QED
    BY <1>4a, <2>1, <2>2, <2>3 DEF CommandOK
<1>6. /\ \A j \in DOMAIN commands : j < i => Finished(commands[j]) /\ commands[j].id < c.id
      /\ \A j \in DOMAIN commands : j > i => c.id < commands[j].id
  <2>1. \A j \in DOMAIN commands : j < i => Finished(commands[j])
    BY <1>1, <1>4 DEF MayRun
  <2>2. \A j, k \in DOMAIN commands : j < k => commands[j].id < commands[k].id
    BY DEF ChatInv, QueueOK
  <2>3. QED
    BY <1>2, <1>4, <2>1, <2>2
<1>7. /\ \A v \in Visits : served[v] \in Nat /\ served[v] <= issued
      /\ chat.visit \in Visits => served[chat.visit] <= c.id
      /\ chat.visit \in Nat
  BY <1>1, <1>2 DEF ChatInv, ChatTypes, OrderOK

(* The queue, when c has become e.                                         *)
<1>8. ASSUME NEW e \in ChatCommands, commands' = [commands EXCEPT ![i] = e],
             e.id = c.id, e.session = c.session, e.visit = c.visit, ~Pends(e),
             CommandOK(server', issued, e),
             \A d : CommandOK(server, issued, d) => CommandOK(server', issued, d),
             served' = served \/ served' = Written(c)
      PROVE  /\ commands' \in Seq(ChatCommands) /\ DOMAIN served' = Visits
             /\ \A v \in Visits : served'[v] \in Nat /\ served[v] <= served'[v]
             /\ QueueOK' /\ OrderOK' /\ Done \subseteq Done' /\ c.id \in Done'
  <2>1. /\ commands' \in Seq(ChatCommands) /\ DOMAIN commands' = DOMAIN commands
        /\ \A j \in DOMAIN commands : commands'[j] = IF j = i THEN e ELSE commands[j]
    BY <1>4, <1>8, ExceptSeq
  <2>2. \A j \in DOMAIN commands : /\ commands'[j].id = commands[j].id
                                   /\ commands'[j].session = commands[j].session
                                   /\ commands'[j].visit = commands[j].visit
    BY <1>2, <1>8, <2>1
  <2>3. QueueOK'
    <3>1. \A j \in DOMAIN commands' :
              /\ CommandOK(server', issued', commands'[j])
              /\ commands'[j].session = chat'.session /\ commands'[j].visit = chat'.visit
              /\ \A k \in DOMAIN commands' : k < j => commands'[k].id < commands'[j].id
      <4>1. \A j \in DOMAIN commands : CommandOK(server', issued, commands'[j])
        BY <1>8, <2>1 DEF ChatInv, QueueOK
      <4>2. QED
        BY <1>3, <2>1, <2>2, <4>1 DEF ChatInv, QueueOK
    <3>2. \A d \in adrift' :
              /\ CommandOK(server', issued', d) /\ d.todo # <<>> /\ ~d.failed /\ d.visit < chat'.visit
              /\ \A f \in adrift' : f # d => f.visit # d.visit /\ f.id # d.id
              /\ \A j \in DOMAIN commands' : d.id < commands'[j].id
      BY <1>3, <1>8, <2>1, <2>2 DEF ChatInv, QueueOK
    <3>3. QED
      BY <3>1, <3>2 DEF QueueOK
  <2>4. /\ DOMAIN served' = Visits
        /\ \A v \in Visits : /\ v # c.visit => served'[v] = served[v]
                             /\ v = c.visit => served'[v] \in {served[v], c.id}
    BY <1>8 DEF Written, ChatInv, ChatTypes
  <2>5. \A v \in Visits : served'[v] \in Nat /\ served[v] <= served'[v] /\ served'[v] <= issued
    BY <1>5, <1>7, <2>4
  <2>6. \A v \in Visits : v > chat.visit => served'[v] = 0
    BY <1>5, <1>7, <2>4 DEF ChatInv, OrderOK, Visits
  <2>7. \A d \in adrift : d.visit \in Visits => served'[d.visit] <= d.id
    <3>1. \A d \in adrift : d.visit # c.visit
      BY <1>4a, <1>5, <1>7 DEF ChatInv, QueueOK
    <3>2. QED
      BY <2>4, <3>1 DEF ChatInv, OrderOK
  <2>8. ASSUME NEW j \in DOMAIN commands, ~Finished(commands'[j]), chat.visit \in Visits
        PROVE  served'[chat.visit] <= commands'[j].id
    <3>1. served'[chat.visit] <= c.id
      BY <1>5, <1>7, <2>4, <2>8
    <3>2. j = i \/ j > i
      BY <1>4, <1>6, <2>1, <2>8
    <3>3. c.id <= commands[j].id /\ commands[j].id \in Nat
      BY <1>2, <1>4a, <1>6, <3>2
    <3>4. served'[chat.visit] \in Nat
      BY <2>5, <2>8
    <3>5. QED
      BY <1>5, <2>2, <3>1, <3>3, <3>4
  <2>9. OrderOK'
    BY <1>3, <2>1, <2>5, <2>6, <2>7, <2>8 DEF OrderOK
  <2>10. Done \subseteq Done' /\ c.id \in Done'
    <3>1. \A j \in DOMAIN commands' : Pends(commands'[j]) => Pends(commands[j]) /\ commands'[j].id # c.id
      <4>1. \A j \in DOMAIN commands : j # i => commands[j].id # c.id
        BY <1>4, <1>4a, <1>5, <1>6
      <4>2. QED
        BY <1>8, <2>1, <4>1
    <3>2. QED
      BY <1>3, <1>5, <2>1, <2>2, <3>1 DEF Done
  <2>11. QED
    BY <2>1, <2>3, <2>4, <2>5, <2>9, <2>10

<1>9. CASE carried(c, i)
  <2>0. /\ Perform(Head(c.todo), c)
        /\ served' = served \/ served' = Written(c)
    BY <1>9 DEF carried
  <2>1. /\ server' \in [exist : SUBSET AllSessions, branches : [AllSessions -> Nat \ {0}],
                        active : [AllSessions -> Nat]]
        /\ server.exist \subseteq server'.exist
        /\ \A s \in AllSessions : server'.branches[s] =
              IF Head(c.todo) = "create_branch" /\ s = c.session THEN server.branches[s] + 1
              ELSE server.branches[s]
        /\ ServerOK'
        /\ Answer(Head(c.todo), c) \in AllSessions \X Nat
        /\ Has(server', Answer(Head(c.todo), c))
        /\ c.outcome = "branch" => Answer(Head(c.todo), c)[1] = c.session
    BY <1>4, <1>5, <2>0, Performs
  <2>2. /\ server'.exist \in SUBSET AllSessions
        /\ \A s \in AllSessions : server'.branches[s] \in Nat /\ server.branches[s] <= server'.branches[s]
    <3>1. server'.exist \in SUBSET AllSessions /\ server'.branches \in [AllSessions -> Nat \ {0}]
      BY <2>1
    <3>2. server.branches \in [AllSessions -> Nat \ {0}]
      BY DEF ChatInv, ChatTypes
    <3>3. \A s \in AllSessions : server.branches[s] \in Nat /\ server'.branches[s] \in Nat
      BY <3>1, <3>2
    <3>4. \A s \in AllSessions : server.branches[s] <= server'.branches[s]
      BY <2>1, <3>3
    <3>5. QED
      BY <3>1, <3>3, <3>4
  <2>3. \A n, d : CommandOK(server, n, d) => CommandOK(server', n, d)
    BY <2>1, <2>2, StillThere
  <2>4. PICK answered \in BOOLEAN :
           commands' = [commands EXCEPT ![i].todo = Tail(@), ![i].failed = ~answered,
                                        ![i].target = Answer(Head(c.todo), c)]
    BY <1>9 DEF carried
  <2>5. PICK q, b : q = Tail(c.todo) /\ b = Answer(Head(c.todo), c)
    OBVIOUS
  <2>6. PICK e : e = [c EXCEPT !.todo = q, !.failed = ~answered, !.target = b]
    OBVIOUS
  <2>7. commands' = [commands EXCEPT ![i] = e]
    BY <1>2, <1>4, <2>4, <2>5, <2>6
  <2>8. q \in Todos /\ (q # <<>> => Head(q) = "write")
    BY <1>4, <1>5, <2>5, TodoParts DEF ChatCommands
  <2>9. /\ e \in ChatCommands /\ e.id = c.id /\ e.session = c.session /\ e.visit = c.visit
        /\ e.outcome = c.outcome /\ e.target = b /\ e.todo = q
    BY <1>4, <2>1, <2>5, <2>6, <2>8 DEF ChatCommands
  <2>10. ~Pends(e)
    BY <2>8, <2>9 DEF Pends
  <2>11. CommandOK(server', issued, e)
    BY ZenonT(60), <1>5, <2>1, <2>5, <2>8, <2>9 DEF CommandOK
  <2>12. /\ commands' \in Seq(ChatCommands) /\ DOMAIN served' = Visits
         /\ \A v \in Visits : served'[v] \in Nat /\ served[v] <= served'[v]
         /\ QueueOK' /\ OrderOK' /\ Done \subseteq Done' /\ c.id \in Done'
    BY <1>8, <2>0, <2>3, <2>7, <2>9, <2>10, <2>11
  <2>13. ChatTypes'
    BY <1>3, <2>1, <2>12 DEF ChatInv, ChatTypes
  <2>14. ViewOK'
    BY <1>3, <2>1, <2>2, ViewKept
  <2>15. BranchesOK'
    <3>1. CASE Head(c.todo) = "create_branch"
      <4>1. c.id \notin Done
        BY <1>2, <1>4, <1>5, <3>1 DEF Done, Pends
      <4>2. c.session \in AllSessions
        BY <1>4 DEF ChatCommands
      <4>3. \A t \in AllSessions :
               server'.branches[t] = IF t = c.session THEN server.branches[t] + 1 ELSE server.branches[t]
        BY <2>1, <3>1
      <4>4. QED
        BY <1>3, <1>5, <2>12, <4>1, <4>2, <4>3, BranchDone
    <3>2. CASE Head(c.todo) # "create_branch"
      BY <1>3, <2>1, <2>12, <3>2, BranchesKept
    <3>3. QED
      BY <3>1, <3>2
  <2>16. QED
    BY <2>1, <2>12, <2>13, <2>14, <2>15 DEF ChatInv
<1>10. CASE fails(i)
  <2>0. commands' = [commands EXCEPT ![i].failed = TRUE] /\ UNCHANGED <<server, served>>
    BY <1>10 DEF fails
  <2>1. PICK e : e = [c EXCEPT !.failed = TRUE]
    OBVIOUS
  <2>2. commands' = [commands EXCEPT ![i] = e]
    BY <1>2, <1>4, <2>0, <2>1
  <2>3. /\ e \in ChatCommands /\ e.id = c.id /\ e.session = c.session /\ e.visit = c.visit
        /\ e.outcome = c.outcome /\ e.target = c.target /\ e.todo = c.todo /\ e.failed = TRUE
    BY <1>4, <2>1 DEF ChatCommands
  <2>4. ~Pends(e) /\ CommandOK(server', issued, e)
    BY <1>5, <2>0, <2>3 DEF Pends, CommandOK
  <2>5. /\ commands' \in Seq(ChatCommands) /\ DOMAIN served' = Visits
        /\ \A v \in Visits : served'[v] \in Nat /\ served[v] <= served'[v]
        /\ QueueOK' /\ OrderOK' /\ Done \subseteq Done' /\ c.id \in Done'
    BY <1>8, <2>0, <2>2, <2>3, <2>4
  <2>6. ChatTypes' /\ ServerOK' /\ ViewOK'
    BY <1>3, <2>0, <2>5 DEF ChatInv, ChatTypes, ServerOK, ViewOK
  <2>7. BranchesOK'
    BY <1>3, <2>0, <2>5, BranchesKept
  <2>8. QED
    BY <2>5, <2>6, <2>7 DEF ChatInv
<1>11. QED
  BY <1>1, <1>2, <1>9, <1>10

-----------------------------------------------------------------------------
(* Switching sessions.                                                     *)

(* The queue is dropped; what was on its way is the one request adrift of  *)
(* the visit that ends.                                                    *)
LEMMA QueueDropped ==
    ASSUME ChatInv, NEW queue,
           queue = commands \/ (commands # <<>> /\ queue = Tail(commands)),
           commands' = <<>>, adrift' = adrift \cup Aborted(queue), chat'.visit = chat.visit + 1,
           UNCHANGED <<server, served, issued>>
    PROVE  /\ commands' \in Seq(ChatCommands) /\ adrift' \subseteq ChatCommands
           /\ ServerOK' /\ QueueOK' /\ OrderOK' /\ BranchesOK'
<1>1. /\ queue \in Seq(ChatCommands) /\ DOMAIN queue = 1..Len(queue) /\ Len(queue) \in Nat
      /\ \A i \in DOMAIN queue : \E j \in DOMAIN commands : queue[i] = commands[j]
  <2>1. CASE queue = commands
    BY <2>1, QueueFacts
  <2>2. CASE commands # <<>> /\ queue = Tail(commands)
    <3>1. /\ queue \in Seq(ChatCommands) /\ Len(queue) = Len(commands) - 1
          /\ \A i \in 1..Len(queue) : queue[i] = commands[i + 1]
      BY <2>2, QueueFacts, HeadTailProperties, Zenon
    <3>2. Len(queue) \in Nat /\ DOMAIN queue = 1..Len(queue)
      BY <3>1, LenProperties
    <3>3. \A i \in DOMAIN queue : i + 1 \in DOMAIN commands
      BY <3>1, <3>2, QueueFacts
    <3>4. QED
      BY <3>1, <3>2, <3>3
  <2>3. QED
    BY <2>1, <2>2
<1>2. ASSUME NEW a \in Aborted(queue)
      PROVE  /\ a \in ChatCommands /\ CommandOK(server, issued, a) /\ a.todo # <<>> /\ ~a.failed
             /\ a.visit = chat.visit /\ a.id \in Nat
             /\ \A d \in adrift : d.id < a.id /\ d.visit < a.visit
             /\ chat.visit \in Visits => served[chat.visit] <= a.id
             /\ \E j \in DOMAIN commands : a = commands[j]
  <2>1. PICK i \in DOMAIN queue : a = queue[i] /\ ~Finished(queue[i])
    BY DEF Aborted
  <2>2. PICK j \in DOMAIN commands : a = commands[j]
    BY <1>1, <2>1
  <2>3. ~Finished(a)
    BY <2>1
  <2>4. QED
    BY <2>2, <2>3, QueueFacts DEF ChatInv, QueueOK, OrderOK, Finished
<1>3. \A a, b \in Aborted(queue) : a = b
  <2> SUFFICES ASSUME NEW a \in Aborted(queue), NEW b \in Aborted(queue) PROVE a = b
    OBVIOUS
  <2>1. PICK i \in DOMAIN queue :
           a = queue[i] /\ ~Finished(queue[i]) /\ \A j \in 1..i - 1 : Finished(queue[j])
    BY DEF Aborted
  <2>2. PICK k \in DOMAIN queue :
           b = queue[k] /\ ~Finished(queue[k]) /\ \A j \in 1..k - 1 : Finished(queue[j])
    BY DEF Aborted
  <2>3. i = k
    BY <1>1, <2>1, <2>2
  <2>4. QED
    BY <2>1, <2>2, <2>3
<1>4. chat.visit \in Nat /\ chat'.visit \in Nat /\ chat.visit < chat'.visit
  <2>1. chat.visit \in Nat
    BY DEF ChatInv, ChatTypes
  <2>2. QED
    BY <2>1
<1>5. ServerOK'
  BY DEF ChatInv, ServerOK
<1>6. commands' \in Seq(ChatCommands) /\ DOMAIN commands' = {} /\ adrift' \subseteq ChatCommands
  BY <1>2 DEF ChatInv, ChatTypes
<1>7. QueueOK'
  <2>1. ASSUME NEW c \in adrift'
        PROVE  /\ CommandOK(server', issued', c) /\ c.todo # <<>> /\ ~c.failed /\ c.visit < chat'.visit
               /\ \A d \in adrift' : d # c => d.visit # c.visit /\ d.id # c.id
    <3>1. CASE c \in adrift
      <4>1. CommandOK(server, issued, c) /\ c.todo # <<>> /\ ~c.failed /\ c.visit < chat.visit /\ c.visit \in Nat /\ c.id \in Nat
        BY <3>1, QueueFacts DEF ChatInv, QueueOK
      <4>2. \A d \in adrift : d # c => d.visit # c.visit /\ d.id # c.id
        BY <3>1 DEF ChatInv, QueueOK
      <4>3. \A d \in Aborted(queue) : d.visit # c.visit /\ d.id # c.id
        BY <1>2, <1>4, <3>1, <4>1
      <4>4. QED
        BY <1>4, <4>1, <4>2, <4>3
    <3>2. CASE c \in Aborted(queue)
      <4>1. \A d \in adrift : d.visit # c.visit /\ d.id # c.id
        BY <1>2, <1>4, <3>2, QueueFacts
      <4>2. QED
        BY <1>2, <1>3, <1>4, <3>2, <4>1
    <3>3. QED
      BY <3>1, <3>2
  <2>2. QED
    BY <1>6, <2>1 DEF QueueOK
<1>8. OrderOK'
  <2>1. \A v \in Visits : served[v] <= issued /\ (v > chat'.visit => served[v] = 0)
    BY <1>4 DEF ChatInv, OrderOK, Visits
  <2>2. \A c \in adrift' : c.visit \in Visits => served[c.visit] <= c.id
    BY <1>2 DEF ChatInv, OrderOK
  <2>3. QED
    BY <1>6, <2>1, <2>2 DEF OrderOK
<1>9. BranchesOK'
  <2>1. Done \subseteq Done'
    BY <1>2, <1>6 DEF Done
  <2>2. QED
    BY <2>1, QueueFacts, BranchesKept
<1>10. QED
  BY <1>5, <1>6, <1>7, <1>8, <1>9

LEMMA Reset ==
    /\ [NoSend EXCEPT !.shell = FALSE] = NoSend
    /\ \A t \in [session : AllSessions \cup {NoSession}, shell : BOOLEAN] :
          [t EXCEPT !.shell = FALSE] \in [session : AllSessions \cup {NoSession}, shell : BOOLEAN]
    /\ \A t \in [session : AllSessions \cup {NoSession}, context : BOOLEAN] :
          [t EXCEPT !.context = FALSE] \in [session : AllSessions \cup {NoSession}, context : BOOLEAN]
<1>1. [NoSend EXCEPT !.shell = FALSE] = NoSend
  <2>1. ASSUME NEW v PROVE [[session |-> NoSession, shell |-> v] EXCEPT !.shell = v] = [session |-> NoSession, shell |-> v]
    OBVIOUS
  <2>2. QED
    BY <2>1, Zenon DEF NoSend
<1>2. \A t \in [session : AllSessions \cup {NoSession}, shell : BOOLEAN] :
         [t EXCEPT !.shell = FALSE] \in [session : AllSessions \cup {NoSession}, shell : BOOLEAN]
  OBVIOUS
<1>3. \A t \in [session : AllSessions \cup {NoSession}, context : BOOLEAN] :
         [t EXCEPT !.context = FALSE] \in [session : AllSessions \cup {NoSession}, context : BOOLEAN]
  OBVIOUS
<1>4. QED
  BY <1>1, <1>2, <1>3

(* The view of the session that takes its place.                           *)
LEMMA Switches ==
    ASSUME ChatAssumption, ChatInv, NEW queue, NEW s \in AllSessions, NEW b \in AllSessions \X Nat,
           queue = commands \/ (commands # <<>> /\ queue = Tail(commands)),
           Has(server, b), b[1] = s, PrepareSwitch(queue), chat' = ResetView(s, b),
           loading' = NoSession \/ loading' = loading,
           UNCHANGED <<server, served, issued, strays>>
    PROVE  ChatInv'
<1>1. /\ commands' = <<>> /\ adrift' = adrift \cup Aborted(queue) /\ submissions' = <<>>
      /\ inspection' = "idle" /\ sending' = [sending EXCEPT !.shell = FALSE]
      /\ approving' = [approving EXCEPT !.context = FALSE]
  BY DEF PrepareSwitch
<1>2. /\ chat'.session = s /\ chat'.branch = b /\ chat'.known = server.branches[s]
      /\ chat'.visit = chat.visit + 1 /\ chat'.live = FALSE /\ chat'.open = TRUE
  BY DEF ResetView, KnownBranches
<1>3. /\ commands' \in Seq(ChatCommands) /\ adrift' \subseteq ChatCommands
      /\ ServerOK' /\ QueueOK' /\ OrderOK' /\ BranchesOK'
  BY <1>1, <1>2, QueueDropped
<1>4. server.branches[s] \in Nat /\ server.branches[s] > 0 /\ chat.visit \in Nat
  BY SMTT(30) DEF ChatInv, ChatTypes
<1>5. /\ chat' \in [session : AllSessions, branch : AllSessions \X Nat, known : Nat, visit : Nat,
                    live : BOOLEAN, open : BOOLEAN]
  BY <1>4 DEF ResetView, KnownBranches
<1>6. /\ sending' \in [session : AllSessions \cup {NoSession}, shell : BOOLEAN]
      /\ approving' \in [session : AllSessions \cup {NoSession}, context : BOOLEAN]
      /\ submissions' \in Seq(AllSessions)
  <2>1. /\ sending \in [session : AllSessions \cup {NoSession}, shell : BOOLEAN]
        /\ approving \in [session : AllSessions \cup {NoSession}, context : BOOLEAN]
    BY DEF ChatInv, ChatTypes
  <2>2. submissions' \in Seq(AllSessions)
    BY <1>1
  <2>3. QED
    BY <1>1, <2>1, <2>2, Reset, Zenon
<1>7. ChatTypes'
  <2>1. loading' \in AllSessions \cup {NoSession} /\ issued \in 0..MaxCommands
        /\ DOMAIN served = Visits /\ \A v \in Visits : served[v] \in Nat
    BY DEF ChatInv, ChatTypes
  <2>2. server \in [exist : SUBSET AllSessions, branches : [AllSessions -> Nat \ {0}], active : [AllSessions -> Nat]]
    BY DEF ChatInv, ChatTypes
  <2>3. QED
    BY <1>1, <1>3, <1>5, <1>6, <2>1, <2>2 DEF ChatTypes
<1>8. ViewOK'
  <2>1. loading' # NoSession => loading' \in server.exist /\ sending' = NoSend
    <3>1. sending = NoSend => sending' = NoSend
      BY <1>1, Reset, Zenon
    <3>2. QED
      BY <3>1 DEF ChatInv, ViewOK
  <2>2. QED
    BY <1>1, <1>2, <1>4, <2>1 DEF ChatInv, ViewOK
<1>9. QED
  BY <1>3, <1>7, <1>8 DEF ChatInv

-----------------------------------------------------------------------------
(* What the operator types and presses.                                    *)

(* An input that queues a command, or is refused without a word.           *)
LEMMA InputQueues ==
    ASSUME ChatAssumption, ChatInv,
           \/ UNCHANGED <<commands, issued>>
           \/ \E outcome, target, todo : Fresh(outcome, target, todo) /\ Enqueue(outcome, target, todo),
           approving' \in [session : AllSessions \cup {NoSession}, context : BOOLEAN],
           submissions' = submissions \/ submissions' = <<>>,
           UNCHANGED <<chat, inspection, sending, loading, server, adrift, served, strays>>
    PROVE  ChatInv'
<1>1. /\ commands' \in Seq(ChatCommands) /\ issued' \in 0..MaxCommands
      /\ ServerOK' /\ QueueOK' /\ OrderOK' /\ BranchesOK'
  <2>1. CASE UNCHANGED <<commands, issued>>
    <3>1. commands \in Seq(ChatCommands) /\ issued \in 0..MaxCommands
      BY DEF ChatInv, ChatTypes
    <3>2. QED
      BY <2>1, <3>1, QueueKept
  <2>2. CASE \E outcome, target, todo : Fresh(outcome, target, todo) /\ Enqueue(outcome, target, todo)
    BY <2>2, QueueGrows
  <2>3. QED
    BY <2>1, <2>2
<1>2. submissions' \in Seq(AllSessions) /\ \A i \in DOMAIN submissions' : submissions'[i] = chat.session
  <2>1. submissions \in Seq(AllSessions) /\ \A i \in DOMAIN submissions : submissions[i] = chat.session
    BY DEF ChatInv, ChatTypes, ViewOK
  <2>2. CASE submissions' = submissions
    BY <2>1, <2>2
  <2>3. CASE submissions' = <<>>
    BY <2>3
  <2>4. QED
    BY <2>2, <2>3
<1>3. ChatTypes'
  BY <1>1, <1>2 DEF ChatInv, ChatTypes
<1>4. ViewOK'
  BY <1>2 DEF ChatInv, ViewOK
<1>5. QED
  BY <1>1, <1>3, <1>4 DEF ChatInv

(* A command starts at the branch shown.                                   *)
LEMMA FreshHere ==
    ASSUME ChatInv, NEW outcome \in {"quiet", "new", "branch", "resume", "cancel", "detach"},
           NEW todo \in Todos, todo # <<>>,
           Head(todo) \in {"create_branch", "activate"} => outcome = "branch",
           Head(todo) = "create_session" => outcome = "new"
    PROVE  Fresh(outcome, chat.branch, todo)
  BY DEF Fresh, ChatInv, ChatTypes, ViewOK

LEMMA SomeTodos ==
    /\ \A what \in Requests : <<what>> \in Todos /\ <<what>> # <<>> /\ Head(<<what>>) = what
    /\ \A what \in {"write", "create_branch"} :
          <<what, "write">> \in Todos /\ <<what, "write">> # <<>> /\ Head(<<what, "write">>) = what
    /\ \A what \in {"write", "create_branch"} : \A slash \in BOOLEAN :
          <<what>> \o Recorded(slash) = IF slash THEN <<what, "write">> ELSE <<what>>
<1>1. ASSUME NEW what \in Requests
      PROVE  <<what>> \in Todos /\ <<what>> # <<>> /\ Head(<<what>>) = what
  BY DEF Todos
<1>2. ASSUME NEW what \in {"write", "create_branch"}
      PROVE  <<what, "write">> \in Todos /\ <<what, "write">> # <<>> /\ Head(<<what, "write">>) = what
  BY DEF Todos
<1>3. ASSUME NEW what \in {"write", "create_branch"}, NEW slash \in BOOLEAN
      PROVE  <<what>> \o Recorded(slash) = IF slash THEN <<what, "write">> ELSE <<what>>
  <2>1. PICK p, q, r : p = <<what>> /\ q = <<"write">> /\ r = <<what, "write">>
    OBVIOUS
  <2>2. /\ p \in Seq(Requests) /\ q \in Seq(Requests) /\ r \in Seq(Requests)
        /\ Len(p) = 1 /\ Len(q) = 1 /\ Len(r) = 2
        /\ p[1] = what /\ q[1] = "write" /\ r[1] = what /\ r[2] = "write"
    BY <2>1 DEF Requests
  <2>3. PICK s : s = p \o q
    OBVIOUS
  <2>4. /\ s \in Seq(Requests) /\ Len(s) = Len(p) + Len(q)
        /\ \A i \in 1..Len(p) + Len(q) : s[i] = IF i <= Len(p) THEN p[i] ELSE q[i - Len(p)]
    BY <2>2, <2>3, ConcatProperties, Zenon
  <2>5. s = r
    <3>1. Len(s) = Len(r) /\ \A i \in 1..Len(s) : s[i] = r[i]
      BY <2>2, <2>4
    <3>2. QED
      BY <2>2, <2>4, <3>1, SeqEqual
  <2>6. p \o <<>> = p
    BY <2>2, ConcatEmptySeq
  <2>7. QED
    BY <2>1, <2>3, <2>5, <2>6 DEF Recorded
<1>4. QED
  BY <1>1, <1>2, <1>3

LEMMA TypedInputs ==
    ASSUME ChatAssumption, ChatInv,
           Render \/ Settings \/ SteerActive \/ ClearQueue \/ DetachChat
    PROVE  ChatInv'
<1>1. approving \in [session : AllSessions \cup {NoSession}, context : BOOLEAN]
  BY DEF ChatInv, ChatTypes
<1>2. /\ Fresh("quiet", chat.branch, <<"write">>)
      /\ Fresh("quiet", chat.branch, <<"write", "write">>)
      /\ Fresh("detach", chat.branch, <<"write">>)
  BY SomeTodos, FreshHere DEF Requests
<1>3. CASE Render
  BY <1>1, <1>2, <1>3, InputQueues DEF Render, Input
<1>4. CASE Settings
  BY <1>1, <1>2, <1>4, InputQueues DEF Settings, Input
<1>5. CASE SteerActive
  BY <1>1, <1>2, <1>5, InputQueues DEF SteerActive, Feedback, Input
<1>6. CASE ClearQueue
  BY <1>1, <1>2, <1>6, InputQueues DEF ClearQueue
<1>7. CASE DetachChat
  BY <1>1, <1>2, <1>7, InputQueues DEF DetachChat, Input
<1>8. QED
  BY <1>3, <1>4, <1>5, <1>6, <1>7

LEMMA EitherInputs ==
    ASSUME ChatAssumption, ChatInv, NEW slash \in BOOLEAN, Either(slash)
    PROVE  ChatInv'
<1>1. approving \in [session : AllSessions \cup {NoSession}, context : BOOLEAN]
  BY DEF ChatInv, ChatTypes
<1>2. /\ Fresh("quiet", chat.branch, <<"write">>)
      /\ Fresh("quiet", chat.branch, <<"read">>)
      /\ Fresh("new", chat.branch, <<"create_session">>)
      /\ Fresh("branch", chat.branch, <<"create_branch">> \o Recorded(slash))
      /\ Fresh("cancel", chat.branch, <<"write">> \o Recorded(slash))
  <2>1. /\ Fresh("quiet", chat.branch, <<"write">>)
        /\ Fresh("quiet", chat.branch, <<"read">>)
        /\ Fresh("new", chat.branch, <<"create_session">>)
    BY SomeTodos, FreshHere DEF Requests
  <2>2. /\ Fresh("branch", chat.branch, <<"create_branch">>)
        /\ Fresh("branch", chat.branch, <<"create_branch", "write">>)
        /\ Fresh("cancel", chat.branch, <<"write">>)
        /\ Fresh("cancel", chat.branch, <<"write", "write">>)
    BY SomeTodos, FreshHere DEF Requests
  <2>3. QED
    BY <2>1, <2>2, SomeTodos
<1>3. CASE Refresh(slash)
  BY <1>1, <1>2, <1>3, InputQueues DEF Refresh, Input
<1>4. CASE NewSession(slash)
  BY <1>1, <1>2, <1>4, InputQueues DEF NewSession, Input
<1>5. CASE NewBranch(slash)
  BY <1>1, <1>2, <1>5, InputQueues DEF NewBranch, Input
<1>6. CASE CancelActive(slash)
  BY <1>1, <1>2, <1>6, InputQueues DEF CancelActive, Feedback, Input
<1>7. CASE Approve(slash)
  <2>1. approving' \in [session : AllSessions \cup {NoSession}, context : BOOLEAN]
    <3>1. chat.session \in AllSessions
      BY DEF ChatInv, ChatTypes
    <3>2. QED
      BY <1>1, <1>7, <3>1 DEF Approve
  <2>2. QED
    BY <1>2, <1>7, <2>1, InputQueues DEF Approve, Feedback, Input
<1>8. QED
  BY <1>3, <1>4, <1>5, <1>6, <1>7 DEF Either

LEMMA PressedInputs ==
    ASSUME ChatAssumption, ChatInv, Pressed
    PROVE  ChatInv'
<1>1. /\ approving \in [session : AllSessions \cup {NoSession}, context : BOOLEAN]
      /\ chat.session \in AllSessions /\ chat.branch \in AllSessions \X Nat /\ chat.known \in Nat
      /\ Has(server, chat.branch) /\ chat.branch[1] = chat.session
      /\ chat.known \in 1..server.branches[chat.session]
      /\ \A s \in AllSessions : server.branches[s] \in Nat /\ server.branches[s] > 0
      /\ server.exist \subseteq AllSessions
  <2>1. approving \in [session : AllSessions \cup {NoSession}, context : BOOLEAN]
    BY DEF ChatInv, ChatTypes
  <2>2. chat.session \in AllSessions /\ chat.branch \in AllSessions \X Nat /\ chat.known \in Nat
    BY DEF ChatInv, ChatTypes
  <2>3. /\ Has(server, chat.branch) /\ chat.branch[1] = chat.session
        /\ chat.known \in 1..server.branches[chat.session]
    BY DEF ChatInv, ViewOK
  <2>4. server.exist \subseteq AllSessions /\ server.branches \in [AllSessions -> Nat \ {0}]
    BY DEF ChatInv, ChatTypes
  <2>5. \A s \in AllSessions : server.branches[s] \in Nat /\ server.branches[s] > 0
    BY <2>4
  <2>6. QED
    BY <2>1, <2>2, <2>3, <2>4, <2>5
<1>2. CASE CycleSession
  <2>1. PICK s \in server.exist \ {chat.session} : Enqueue("resume", <<s, 1>>, <<"read">>)
    BY <1>2 DEF CycleSession
  <2>2. Fresh("resume", <<s, 1>>, <<"read">>)
    BY <1>1, SomeTodos DEF Fresh, Has, Requests
  <2>3. QED
    BY <1>1, <1>2, <2>1, <2>2, InputQueues DEF CycleSession, Input
<1>3. ASSUME NEW step \in {-1, 1}, CycleBranch(step)
      PROVE  ChatInv'
  <2>1. PICK n : n = NextBranch(chat.branch[2], chat.known, step)
    OBVIOUS
  <2>2. n \in 1..chat.known
    <3>1. chat.branch[2] \in Nat
      BY <1>1
    <3>2. \A a \in Int, k \in Nat : k > 0 => a % k \in 0..k - 1
      OBVIOUS
    <3>3. chat.branch[2] - 1 + step + chat.known \in Int
      BY <1>1, <3>1
    <3>4. PICK r \in 0..chat.known - 1 : n = r + 1
      BY <1>1, <2>1, <3>2, <3>3 DEF NextBranch
    <3>5. QED
      BY <1>1, <3>4
  <2>3. Fresh("branch", <<chat.session, n>>, <<"activate">>)
    <3>1. n \in Nat /\ n \in 1..server.branches[chat.session] /\ chat.session \in server.exist
      BY <1>1, <2>2 DEF Has
    <3>2. Has(server, <<chat.session, n>>) /\ <<chat.session, n>> \in AllSessions \X Nat
      BY <1>1, <3>1 DEF Has
    <3>3. QED
      BY <3>2, SomeTodos DEF Fresh, Requests
  <2>4. QED
    BY <1>1, <1>3, <2>1, <2>3, InputQueues DEF CycleBranch, Input
<1>4. QED
  BY <1>2, <1>3 DEF Pressed

-----------------------------------------------------------------------------
(* What is sent beside the queue, and what the event loop polls.           *)

Views == [session : AllSessions, branch : AllSessions \X Nat, known : Nat, visit : Nat,
          live : BOOLEAN, open : BOOLEAN]

(* The view as it is after a step that stays in the session.               *)
Stays(view) ==
    /\ view \in Views /\ view.session = chat.session /\ view.visit = chat.visit
    /\ Has(server, view.branch) /\ view.branch[1] = chat.session
    /\ view.known \in 1..server.branches[chat.session]

LEMMA ViewFacts ==
    ASSUME ChatInv
    PROVE  /\ Stays(chat) /\ {chat.live, chat.open} \subseteq BOOLEAN
           /\ \A v \in BOOLEAN : Stays([chat EXCEPT !.live = v]) /\ Stays([chat EXCEPT !.open = v])
           /\ inspection \in {"idle", "working", "approval", "input"}
           /\ sending \in [session : AllSessions \cup {NoSession}, shell : BOOLEAN]
           /\ approving \in [session : AllSessions \cup {NoSession}, context : BOOLEAN]
           /\ submissions \in Seq(AllSessions) /\ \A i \in DOMAIN submissions : submissions[i] = chat.session
           /\ loading \in server.exist \cup {NoSession} /\ (loading # NoSession => sending = NoSend)
           /\ strays \cap {"command", "submission"} = {}
           /\ commands \in Seq(ChatCommands) /\ issued \in 0..MaxCommands
           /\ server.exist \subseteq AllSessions
<1>1. Stays(chat)
  BY DEF ChatInv, ChatTypes, ViewOK, Stays, Views
<1>2. \A v \in BOOLEAN : Stays([chat EXCEPT !.live = v]) /\ Stays([chat EXCEPT !.open = v])
  BY <1>1 DEF Stays, Views
<1>3. /\ inspection \in {"idle", "working", "approval", "input"}
      /\ sending \in [session : AllSessions \cup {NoSession}, shell : BOOLEAN]
      /\ approving \in [session : AllSessions \cup {NoSession}, context : BOOLEAN]
      /\ submissions \in Seq(AllSessions) /\ commands \in Seq(ChatCommands) /\ issued \in 0..MaxCommands
  BY DEF ChatInv, ChatTypes
<1>4. /\ \A i \in DOMAIN submissions : submissions[i] = chat.session
      /\ loading \in server.exist \cup {NoSession} /\ (loading # NoSession => sending = NoSend)
      /\ strays \cap {"command", "submission"} = {}
  BY DEF ChatInv, ViewOK
<1>5. {chat.live, chat.open} \subseteq BOOLEAN /\ server.exist \subseteq AllSessions
  BY DEF ChatInv, ChatTypes
<1>6. QED
  BY <1>1, <1>2, <1>3, <1>4, <1>5

LEMMA ViewMoves ==
    ASSUME ChatInv, Stays(chat'),
           inspection' \in {"idle", "working", "approval", "input"},
           sending' \in [session : AllSessions \cup {NoSession}, shell : BOOLEAN],
           approving' \in [session : AllSessions \cup {NoSession}, context : BOOLEAN],
           submissions' \in Seq(AllSessions), \A i \in DOMAIN submissions' : submissions'[i] = chat.session,
           loading' \in server.exist \cup {NoSession}, loading' # NoSession => sending' = NoSend,
           strays' \cap {"command", "submission"} = {},
           UNCHANGED <<server, adrift, served, issued>>,
           commands' = commands \/ (commands # <<>> /\ commands' = Tail(commands))
    PROVE  ChatInv'
<1>1. /\ chat'.session = chat.session /\ chat'.visit = chat.visit
      /\ chat' \in Views /\ Has(server, chat'.branch) /\ chat'.branch[1] = chat.session
      /\ chat'.known \in 1..server.branches[chat.session]
  BY DEF Stays
<1>2. commands' \in Seq(ChatCommands) /\ ServerOK' /\ QueueOK' /\ OrderOK' /\ BranchesOK'
  <2>1. CASE commands' = commands
    <3>1. commands' \in Seq(ChatCommands)
      BY <2>1, ViewFacts
    <3>2. QED
      BY <1>1, <2>1, <3>1, QueueKept
  <2>2. CASE commands # <<>> /\ commands' = Tail(commands)
    BY <1>1, <2>2, QueuePolled
  <2>3. QED
    BY <2>1, <2>2
<1>3. loading' \in AllSessions \cup {NoSession}
  BY ViewFacts
<1>4. ChatTypes'
  <2>1. /\ server \in [exist : SUBSET AllSessions, branches : [AllSessions -> Nat \ {0}],
                       active : [AllSessions -> Nat]]
        /\ adrift \subseteq ChatCommands /\ issued \in 0..MaxCommands
        /\ DOMAIN served = Visits /\ \A v \in Visits : served[v] \in Nat
    BY DEF ChatInv, ChatTypes
  <2>2. QED
    BY <1>1, <1>2, <1>3, <2>1 DEF ChatTypes, Views
<1>5. ViewOK'
  BY <1>1 DEF ViewOK
<1>6. QED
  BY <1>2, <1>4, <1>5 DEF ChatInv

LEMMA MessageSteps ==
    ASSUME ChatAssumption, ChatInv, Messages
    PROVE  ChatInv'
<1>1. chat.session \in AllSessions
  BY DEF ChatInv, ChatTypes
<1>2. ASSUME NEW shell \in BOOLEAN, StartSend(shell), Message, loading = NoSession
      PROVE  ChatInv'
  <2>1. (chat.live \/ ~shell) \in BOOLEAN
    OBVIOUS
  <2>2. Stays(chat')
    BY <1>2, ViewFacts DEF StartSend
  <2>3. sending' \in [session : AllSessions \cup {NoSession}, shell : BOOLEAN]
    BY <1>1, <1>2 DEF StartSend
  <2>4. submissions' = submissions /\ UNCHANGED <<inspection, commands, approving, loading, server, adrift, served,
                                                  strays, issued>>
    BY <1>2 DEF StartSend, Message
  <2>5. QED
    BY <1>2, <2>2, <2>3, <2>4, ViewFacts, ViewMoves
<1>3. ASSUME Submit, Message
      PROVE  ChatInv'
  <2>1. submissions' = Append(submissions, chat.session) /\ UNCHANGED <<chat, sending>>
    BY <1>3 DEF Submit
  <2>2. /\ submissions' \in Seq(AllSessions)
        /\ \A i \in DOMAIN submissions' : submissions'[i] = chat.session
    BY <1>1, <2>1, ViewFacts
  <2>3. UNCHANGED <<inspection, commands, approving, loading, server, adrift, served, strays, issued>>
    BY <1>3 DEF Message
  <2>4. QED
    BY <2>1, <2>2, <2>3, ViewFacts, ViewMoves
<1>4. CASE AnswerInput
  BY <1>2, <1>4 DEF AnswerInput
<1>5. CASE ShellCommand
  BY <1>2, <1>5 DEF ShellCommand
<1>6. CASE SendText
  BY <1>2, <1>3, <1>6 DEF SendText
<1>7. QED
  BY <1>4, <1>5, <1>6 DEF Messages

LEMMA ResumeSteps ==
    ASSUME ChatAssumption, ChatInv, Resume
    PROVE  ChatInv'
<1>1. PICK s \in server.exist : StartResume(s, TRUE, commands)
  BY DEF Resume
<1>2. UNCHANGED <<chat, sending, submissions, approving, server, adrift, served, strays>>
  BY DEF Resume
<1>3. CASE Feedback(TRUE) /\ UNCHANGED <<inspection, loading>>
  <2>1. Fresh("quiet", chat.branch, <<"write">>)
    BY SomeTodos, FreshHere DEF Requests
  <2>2. Enqueue("quiet", chat.branch, <<"write">>)
    BY <1>3 DEF Feedback
  <2>3. approving' \in [session : AllSessions \cup {NoSession}, context : BOOLEAN]
    BY <1>2, ViewFacts
  <2>4. QED
    BY <1>2, <1>3, <2>1, <2>2, <2>3, InputQueues
<1>4. CASE ~HasPendingRequest /\ loading' = s /\ inspection' = "idle" /\ commands' = commands /\ UNCHANGED issued
  <2>1. sending = NoSend
    BY <1>4 DEF HasPendingRequest
  <2>2. QED
    BY <1>1, <1>2, <1>4, <2>1, ViewFacts, ViewMoves
<1>5. QED
  BY <1>1, <1>3, <1>4 DEF StartResume

(* A load's answer: its view is the active branch's.                       *)
LEMMA LoadSteps ==
    ASSUME ChatAssumption, ChatInv, LoadCompletes \/ LoadFails
    PROVE  ChatInv'
<1>1. CASE LoadCompletes
  <2>1. loading \in AllSessions /\ loading \in server.exist
    BY <1>1, ViewFacts DEF LoadCompletes
  <2>2. server.active[loading] \in 1..server.branches[loading] /\ server.active[loading] \in Nat
    BY <2>1 DEF ChatInv, ServerOK, ChatTypes
  <2>3. PICK b : b = <<loading, server.active[loading]>>
    OBVIOUS
  <2>4. b \in AllSessions \X Nat /\ b[1] = loading /\ Has(server, b)
    BY <2>1, <2>2, <2>3 DEF Has
  <2>5. /\ PrepareSwitch(commands) /\ chat' = ResetView(loading, b) /\ loading' = NoSession
        /\ UNCHANGED <<server, served, issued, strays>>
    BY <1>1, <2>3 DEF LoadCompletes, LoadedBranch
  <2>6. QED
    BY <2>1, <2>4, <2>5, Switches
<1>2. CASE LoadFails
  BY <1>2, ViewFacts, ViewMoves DEF LoadFails
<1>3. QED
  BY <1>1, <1>2

(* What the command at the head of the queue answers is applied.           *)
LEMMA CommandApplied ==
    ASSUME ChatAssumption, ChatInv, PollCommand
    PROVE  ChatInv'
<1> DEFINE c == Head(commands)
           rest == Tail(commands)
<1>1. commands # <<>> /\ Settle("command", c.session) /\ UNCHANGED <<server, served>>
  BY DEF PollCommand
<1>2. \/ ApplyOther(c, rest)
      \/ c.outcome = "new" /\ ApplyNew(c, rest)
      \/ c.outcome = "branch" /\ ApplyBranch(c, rest)
      \/ ApplyCycle(c, rest)
      \/ ApplyCancel(rest)
  BY DEF PollCommand
<1>3. /\ 1 \in DOMAIN commands /\ c = commands[1] /\ c \in ChatCommands
      /\ CommandOK(server, issued, c) /\ c.session = chat.session
  <2>1. commands \in Seq(ChatCommands) /\ 1 \in DOMAIN commands /\ c = commands[1]
    BY <1>1, QueueFacts
  <2>2. QED
    BY <2>1, QueueFacts DEF ChatInv, QueueOK
<1>4. strays' = strays
  BY <1>1, <1>3 DEF Settle
<1>5. /\ c.target \in AllSessions \X Nat /\ c.target[1] \in server.exist /\ Has(server, c.target)
      /\ c.outcome = "branch" => c.target[1] = chat.session
  BY <1>3 DEF ChatCommands, CommandOK, Has
<1>6. CASE ApplyOther(c, rest)
  <2>1. /\ chat' = [chat EXCEPT !.open = ~(c.outcome = "detach" /\ ~c.failed)] /\ commands' = rest
        /\ UNCHANGED <<inspection, sending, submissions, approving, loading, adrift, issued>>
    BY <1>6 DEF ApplyOther
  <2>2. (~(c.outcome = "detach" /\ ~c.failed)) \in BOOLEAN
    OBVIOUS
  <2>3. Stays(chat')
    BY <2>1, <2>2, ViewFacts
  <2>4. QED
    BY <1>1, <1>4, <2>1, <2>3, ViewFacts, ViewMoves
<1>7. CASE c.outcome = "new" /\ ApplyNew(c, rest)
  <2>1. PICK queue, b : queue = rest /\ b = c.target
    OBVIOUS
  <2>2. PICK s \in AllSessions : s = b[1]
    BY <1>5, <2>1
  <2>3. PrepareSwitch(queue) /\ chat' = ResetView(s, b) /\ UNCHANGED <<loading, issued>>
    BY <1>7, <2>1, <2>2 DEF ApplyNew
  <2>4. QED
    BY <1>1, <1>4, <1>5, <2>1, <2>2, <2>3, Switches
<1>8. CASE c.outcome = "branch" /\ ApplyBranch(c, rest)
  <2>1. /\ chat' = [chat EXCEPT !.branch = c.target, !.known = server.branches[chat.session]]
        /\ commands' = rest
        /\ UNCHANGED <<inspection, sending, submissions, approving, loading, adrift, issued>>
    BY <1>8 DEF ApplyBranch, KnownBranches
  <2>2. chat \in Views /\ chat.session \in AllSessions
    BY DEF ChatInv, ChatTypes, Views
  <2>3. server.branches[chat.session] \in Nat /\ server.branches[chat.session] > 0
    BY <2>2 DEF ChatInv, ChatTypes
  <2>4. PICK b, k : b = c.target /\ k = server.branches[chat.session]
    OBVIOUS
  <2>5. b \in AllSessions \X Nat /\ b[1] = chat.session /\ Has(server, b) /\ k \in Nat /\ k \in 1..k
    BY <1>5, <1>8, <2>3, <2>4
  <2>6. PICK view : view = [chat EXCEPT !.branch = b, !.known = k]
    OBVIOUS
  <2>7. /\ view \in Views /\ view.session = chat.session /\ view.visit = chat.visit
        /\ view.branch = b /\ view.known = k
    BY <2>2, <2>5, <2>6 DEF Views
  <2>8. Stays(view) /\ chat' = view
    BY <2>1, <2>4, <2>5, <2>6, <2>7 DEF Stays
  <2>9. QED
    BY <1>1, <1>4, <2>1, <2>8, ViewFacts, ViewMoves
<1>9. CASE ApplyCycle(c, rest)
  <2>1. StartResume(c.target[1], FALSE, rest) /\ UNCHANGED <<chat, sending, submissions, approving, adrift>>
    BY <1>9 DEF ApplyCycle
  <2>2. commands' = rest /\ UNCHANGED issued
    BY <2>1 DEF StartResume
  <2>3. \/ UNCHANGED <<inspection, loading>>
        \/ ~HasPendingRequest /\ loading' = c.target[1] /\ inspection' = "idle"
    BY <2>1 DEF StartResume
  <2>4. CASE UNCHANGED <<inspection, loading>>
    BY <1>1, <1>4, <2>1, <2>2, <2>4, ViewFacts, ViewMoves
  <2>5. CASE ~HasPendingRequest /\ loading' = c.target[1] /\ inspection' = "idle"
    <3>1. sending = NoSend
      BY <2>5 DEF HasPendingRequest
    <3>2. QED
      BY <1>1, <1>4, <1>5, <2>1, <2>2, <2>5, <3>1, ViewFacts, ViewMoves
  <2>6. QED
    BY <2>3, <2>4, <2>5
<1>10. CASE ApplyCancel(rest)
  <2>1. /\ sending' = NoSend /\ submissions' = <<>> /\ chat' = [chat EXCEPT !.live = FALSE] /\ commands' = rest
        /\ UNCHANGED <<inspection, approving, loading, adrift, issued>>
    BY <1>10 DEF ApplyCancel
  <2>2. NoSend \in [session : AllSessions \cup {NoSession}, shell : BOOLEAN]
    BY DEF NoSend
  <2>3. submissions' \in Seq(AllSessions) /\ DOMAIN submissions' = {}
    BY <2>1
  <2>4. Stays(chat')
    BY <2>1, ViewFacts
  <2>5. QED
    BY <1>1, <1>4, <2>1, <2>2, <2>3, <2>4, ViewFacts, ViewMoves
<1>11. QED
  BY <1>2, <1>6, <1>7, <1>8, <1>9, <1>10

(* A send, a submission or an approval settles beside the queue.           *)
LEMMA PolledBeside ==
    ASSUME ChatAssumption, ChatInv, PollSend \/ PollSubmission \/ PollApproval \/ Inspect \/ TurnEnds
    PROVE  ChatInv'
<1>1. \A what, of : what \in {"send", "approval"} /\ Settle(what, of) => strays' \cap {"command", "submission"} = {}
  BY ViewFacts DEF Settle
<1>2. NoSend \in [session : AllSessions \cup {NoSession}, shell : BOOLEAN]
      /\ NoApproval \in [session : AllSessions \cup {NoSession}, context : BOOLEAN]
  BY DEF NoSend, NoApproval
<1>3. CASE PollSend
  <2>1. PICK cleared \in BOOLEAN : chat' = [chat EXCEPT !.live = @ /\ ~cleared]
    BY <1>3 DEF PollSend
  <2>2. Stays(chat')
    BY <2>1, ViewFacts
  <2>3. /\ sending' = NoSend /\ Settle("send", sending.session)
        /\ UNCHANGED <<inspection, commands, submissions, approving, loading, server, adrift, served, issued>>
    BY <1>3 DEF PollSend
  <2>4. QED
    BY <1>1, <1>2, <2>2, <2>3, ViewFacts, ViewMoves
<1>4. CASE PollSubmission
  <2>1. PICK i \in DOMAIN submissions :
           Settle("submission", submissions[i]) /\ submissions' = RemoveAt(submissions, i)
    BY <1>4 DEF PollSubmission
  <2>2. UNCHANGED <<chat, inspection, commands, sending, approving, loading, server, adrift, served, issued>>
    BY <1>4 DEF PollSubmission
  <2>3. /\ submissions \in Seq(AllSessions) /\ \A j \in DOMAIN submissions : submissions[j] = chat.session
        /\ DOMAIN submissions = 1..Len(submissions) /\ Len(submissions) \in Nat
    BY ViewFacts
  <2>4. strays' = strays
    BY <2>1, <2>3 DEF Settle
  <2>5. PICK front, back : front = SubSeq(submissions, 1, i - 1) /\ back = SubSeq(submissions, i + 1, Len(submissions))
    OBVIOUS
  <2>6. /\ front \in Seq({chat.session}) /\ back \in Seq({chat.session})
    <3>1. submissions \in Seq({chat.session})
      BY <2>3
    <3>2. i \in Nat /\ 1 <= i /\ i <= Len(submissions)
      BY <2>3
    <3>3. \A j \in 1..i - 1 : submissions[j] \in {chat.session}
      BY <2>3, <3>2
    <3>4. \A j \in i + 1..Len(submissions) : submissions[j] \in {chat.session}
      BY <2>3, <3>2
    <3>5. QED
      BY <2>3, <2>5, <3>1, <3>2, <3>3, <3>4, SubSeqProperties
  <2>7. submissions' = front \o back
    BY <2>1, <2>5 DEF RemoveAt
  <2>8. submissions' \in Seq({chat.session})
    BY <2>6, <2>7, ConcatProperties
  <2>9. submissions' \in Seq(AllSessions) /\ \A j \in DOMAIN submissions' : submissions'[j] = chat.session
    <3>1. chat.session \in AllSessions
      BY DEF ChatInv, ChatTypes
    <3>2. QED
      BY <2>8, <3>1
  <2>10. QED
    BY <2>2, <2>4, <2>9, ViewFacts, ViewMoves
<1>5. CASE PollApproval
  <2>1. PICK failed \in BOOLEAN : chat' = [chat EXCEPT !.live = @ /\ ~failed]
    BY <1>5 DEF PollApproval
  <2>2. Stays(chat')
    BY <2>1, ViewFacts
  <2>3. /\ approving' = NoApproval /\ Settle("approval", approving.session)
        /\ UNCHANGED <<inspection, commands, sending, submissions, loading, server, adrift, served, issued>>
    BY <1>5 DEF PollApproval
  <2>4. QED
    BY <1>1, <1>2, <2>2, <2>3, ViewFacts, ViewMoves
<1>6. CASE Inspect
  BY <1>6, ViewFacts, ViewMoves DEF Inspect
<1>7. CASE TurnEnds
  <2>1. chat' = [chat EXCEPT !.live = FALSE]
        /\ UNCHANGED <<inspection, commands, sending, submissions, approving, loading, server, adrift,
                       served, strays, issued>>
    BY <1>7 DEF TurnEnds
  <2>2. Stays(chat')
    BY <2>1, ViewFacts
  <2>3. QED
    BY <2>1, <2>2, ViewFacts, ViewMoves
<1>8. QED
  BY <1>3, <1>4, <1>5, <1>6, <1>7

(* Only a request that is carried out changes what was served.             *)
LEMMA ServedStays ==
    ASSUME Typed \/ Pressed \/ Messages \/ Polled \/ \E slash \in BOOLEAN : Either(slash)
    PROVE  served' = served
<1>1. CASE Typed
  BY <1>1 DEF Typed, Render, Settings, SteerActive, ClearQueue, DetachChat, Resume, Input
<1>2. CASE Pressed
  BY <1>2 DEF Pressed, CycleSession, CycleBranch, Input
<1>3. CASE Messages
  BY <1>3 DEF Messages, AnswerInput, ShellCommand, SendText, Message
<1>4. CASE Polled
  BY <1>4 DEF Polled, LoadCompletes, LoadFails, PollCommand, PollSend, PollSubmission, PollApproval, Inspect, TurnEnds
<1>5. CASE \E slash \in BOOLEAN : Either(slash)
  BY <1>5 DEF Either, Refresh, NewSession, NewBranch, CancelActive, Approve, Input
<1>6. QED
  BY <1>1, <1>2, <1>3, <1>4, <1>5

LEMMA ChatStep ==
    ASSUME ChatAssumption, ChatInv, [ChatNext]_chatVars
    PROVE  ChatInv' /\ \A v \in Visits : served[v] <= served'[v]
<1>1. \A v \in Visits : served[v] \in Nat
  BY DEF ChatInv, ChatTypes
<1>2. CASE Typed \/ Pressed \/ Messages \/ Polled \/ \E slash \in BOOLEAN : Either(slash)
  <2>1. served' = served
    BY <1>2, ServedStays
  <2>2. ChatInv'
    BY <1>2, TypedInputs, ResumeSteps, PressedInputs, MessageSteps, LoadSteps, CommandApplied, PolledBeside,
       EitherInputs DEF Typed, Polled
  <2>3. QED
    BY <1>1, <2>1, <2>2
<1>3. CASE RunCommand
  BY <1>3, RunsCommand
<1>4. CASE Drifts
  BY <1>4, Drifting
<1>5. CASE UNCHANGED chatVars
  <2>1. ChatInv'
    BY <1>5, ViewFacts, ViewMoves DEF chatVars
  <2>2. QED
    BY <1>1, <1>5, <2>1 DEF chatVars
<1>6. QED
  BY <1>2, <1>3, <1>4, <1>5 DEF ChatNext

(* What a command or a queued message answers is applied to the session it *)
(* was issued in, the branch shown is one the server has of the session    *)
(* shown, and a session is never replaced under a message that is being    *)
(* sent, for every number of sessions, commands and loads                  *)
(* (apply_command_outcome, apply_loaded_session, prepare_for_session_switch*)
(* and start_resume_session).                                              *)
THEOREM ChatAnswersOwnSession == ChatSpec => []AnswersOwnSession
<1>1. ChatInit => ChatInv
  BY ChatAssumption, ChatStart
<1>2. ChatInv /\ [ChatNext]_chatVars => ChatInv'
  BY ChatAssumption, ChatStep
<1>3. ChatInv => AnswersOwnSession
  BY ChatAssumption, ChatInvSafe
<1>4. QED
  BY <1>1, <1>2, <1>3, PTL DEF ChatSpec

(* The server carries out the writes of one visit in the order in which    *)
(* their commands were issued, also when the queue was aborted between two *)
(* awaits and the request that was on its way arrives in a later visit     *)
(* (enqueue_pending_command and prepare_for_session_switch).               *)
THEOREM ChatSerialOrder == ChatSpec => SerialOrder
<1>1. ChatInit => ChatInv
  BY ChatAssumption, ChatStart
<1>2. ChatInv /\ [ChatNext]_chatVars => ChatInv'
  BY ChatAssumption, ChatStep
<1>3. ChatInv /\ [ChatNext]_chatVars => [\A v \in Visits : served[v] <= served'[v]]_chatVars
  BY ChatAssumption, ChatStep
<1>4. QED
  BY <1>1, <1>2, <1>3, PTL DEF ChatSpec, SerialOrder

(***************************************************************************)
(* The readiness: the inductive invariant                                  *)
(***************************************************************************)

Worlds == [cred : CredentialKinds, auth : AuthTroubles, health : Healths, listing : Listings,
           backend : BackendStates]

Asking == {"validate", "discover", "once"}
Decided == {"list", "done"}
InspectionPcs == {"idle", "credential"} \cup Asking \cup Decided
Refusals == {"runtime_unsupported", "missing_auth", "unsupported_auth_method", "validation_failed",
             "unreachable", "degraded", "no_local_models", "model_unavailable"}
AuthStates == {"configured", "missing", "not_required"}

Inspections ==
    [pc : InspectionPcs, what : {"status", "timed", "inventory"}, cred : CredentialKinds,
     failed : BOOLEAN, state : Refusals \cup {"none", "ready"}, auth : AuthStates \cup {"none"},
     source : BOOLEAN, offered : SUBSET Models, changed : BOOLEAN, cut : BOOLEAN,
     had : CredentialKinds]

ReadinessTyped ==
    /\ kind \in Kinds /\ world \in Worlds /\ model \in Models /\ moves \in 0..MaxMoves
    /\ inspected \in Inspections
    /\ chosen \in [model : Models \cup {NoModel}, listed : BOOLEAN, changed : BOOLEAN]
    /\ kind # "remote" => world.cred = "none" /\ world.auth = "fine"
    /\ kind # "local" => world.backend = "none"

(* How far inspection i is, and what it may say there.                     *)
ShapeOK(i) ==
    /\ i.state # "none" <=> i.pc \in Decided
    /\ i.what = "timed" => kind = "remote"
    /\ i.pc \in {"once", "list"} => i.what = "inventory"
    /\ i.pc = "once" => kind # "local"
    /\ i.pc \in {"validate", "discover"} /\ i.what = "inventory" => kind = "local"
    /\ i.cut => i.pc = "done" /\ i.state = "unreachable" /\ i.auth # "missing"
    /\ i.pc # "done" => ~i.source
    /\ i.pc \in Asking => EarlyVerdict(i.cred) = "none"
    /\ i.had = i.cred
    /\ i.pc \in Decided => i.auth \in AuthStates /\ (~i.cut => i.auth = AuthState(i.cred))
    /\ i.state = "missing_auth" => NeedsAuth /\ i.cred = "none"

(* The model is among those the connection would list.                     *)
Accepted == IF kind = "local" THEN model \in LocalModels ELSE model \in Curated(ListModels)

(* What an inspection has seen still holds unless something changed.       *)
TrueOK(i) ==
    ~i.changed =>
        /\ i.pc \in Asking /\ NeedsAuth => world.auth = "fine" /\ world.cred = "key"
        /\ i.pc = "discover" => world.health = "ok"
        /\ i.pc \in Decided /\ ~i.cut /\ ~(kind = "cli" /\ i.what = "inventory") =>
               (i.state = "ready" <=> Usable)
        /\ i.pc \in Decided /\ Accepted => i.state # "model_unavailable"
        /\ i.source /\ kind # "local" => i.offered = Curated(ListModels)

ChosenOK == chosen.listed /\ ~chosen.changed => Accepted

ReadinessInv == ReadinessTyped /\ ShapeOK(inspected) /\ TrueOK(inspected) /\ ChosenOK

(***************************************************************************)
(* The readiness: what the verdicts mean                                   *)
(***************************************************************************)

(* Listed or chosen by its selector: for a connection that asks a provider *)
(* this is what Usable says of the model.                                  *)
LEMMA ListedIsUsable ==
    ASSUME kind \in {"cli", "remote"}, world.health = "ok", world.backend = "none",
           NeedsAuth => world.auth = "fine" /\ world.cred = "key"
    PROVE  AugmentRemote(ListModels) = "ready" <=> Usable
  <1>1. CASE kind = "cli"
    <2>1. Curated(ListModels) = KnownModels /\ ListModels = KnownModels /\ KnownModels # {}
      BY <1>1, ReadinessAssumption DEF Curated, ListModels
    <2>2. Available(KnownModels, model) <=> model \in KnownModels
      BY <1>1 DEF Available
    <2>3. AugmentRemote(ListModels) = "ready" <=> model \in KnownModels
      BY <2>1, <2>2 DEF AugmentRemote
    <2>4. Usable <=> model \in KnownModels
      BY <1>1 DEF Usable, NeedsAuth
    <2> QED
      BY <2>3, <2>4
  <1>2. CASE kind = "remote"
    <2>1. ListModels = world.listing
      BY <1>2 DEF ListModels
    <2>2. Usable <=> \/ world.listing = {}
                     \/ \E s \in Selectors :
                          /\ s.hits \cap world.listing # {}
                          /\ model = s.value \/ model \in s.hits \cap world.listing
                     \/ Selectors = {} /\ model \in world.listing
      BY <1>2 DEF Usable
    <2>3. AugmentRemote(ListModels) = "ready" <=>
              world.listing = {} \/ Available(Curated(world.listing), model)
      BY <2>1 DEF AugmentRemote
    <2>4. CASE Selectors = {}
      <3>1. Curated(world.listing) = world.listing
        BY <2>4 DEF Curated
      <3>2. Available(world.listing, model) <=> model \in world.listing
        BY <2>4 DEF Available
      <3> QED
        BY <2>2, <2>3, <2>4, <3>1, <3>2
    <2>5. CASE Selectors # {}
      <3>1. PICK names : names = Curated(world.listing)
        OBVIOUS
      <3>2. names = world.listing \cap UNION {s.hits : s \in Selectors}
        BY <1>2, <2>5, <3>1 DEF Curated
      <3>3. model \in names <=> model \in world.listing /\ \E s \in Selectors : model \in s.hits
        BY <3>2
      <3>4. \A s \in Selectors : s.hits \cap names = s.hits \cap world.listing
        BY <3>2
      <3>5. Available(names, model) <=>
                \/ model \in names
                \/ \E s \in Selectors : s.value = model /\ s.hits \cap names # {}
        BY <1>2 DEF Available
      <3>6. Available(names, model) <=>
                \E s \in Selectors : /\ s.hits \cap world.listing # {}
                                     /\ model = s.value \/ model \in s.hits \cap world.listing
        BY <3>3, <3>4, <3>5
      <3> QED
        BY <2>2, <2>3, <2>5, <3>1, <3>6
    <2> QED
      BY <2>4, <2>5
  <1> QED
    BY <1>1, <1>2

LEMMA LocalIsUsable ==
    ASSUME kind = "local", world.health = "ok", world.backend \in BackendStates
    PROVE  (AugmentLocal = "ready" <=> Usable) /\ (Accepted => AugmentLocal # "model_unavailable")
  <1>1. Usable <=> /\ world.backend # "unreachable"
                   /\ world.backend = "ready" => model \in world.listing
    BY DEF Usable, NeedsAuth
  <1>2. CASE world.backend = "none"
    BY <1>1, <1>2 DEF AugmentLocal, LocalBackend
  <1>3. CASE world.backend = "unreachable"
    <2>1. LocalBackend /\ LocalModels = {}
      BY <1>3 DEF LocalBackend, LocalModels
    <2> QED
      BY <1>1, <1>3, <2>1 DEF AugmentLocal
  <1>4. CASE world.backend = "ready"
    <2>1. LocalBackend /\ LocalModels = world.listing
      BY <1>4 DEF LocalBackend, LocalModels
    <2>2. model \in world.listing => world.listing # {}
      OBVIOUS
    <2> QED
      BY <1>1, <1>4, <2>1, <2>2 DEF AugmentLocal, Accepted
  <1> QED
    BY <1>2, <1>3, <1>4 DEF BackendStates

LEMMA AcceptedIsListed ==
    ASSUME kind # "local", Accepted
    PROVE  AugmentRemote(ListModels) = "ready"
  BY DEF Accepted, AugmentRemote, Available

(***************************************************************************)
(* The readiness: every step                                               *)
(***************************************************************************)

(* A step of the inspection.                                               *)
LEMMA InspectionMoves ==
    ASSUME ReadinessInv, NEW j \in Inspections, inspected' = j, ShapeOK(j), TrueOK(j),
           UNCHANGED <<kind, world, model, chosen, moves>>
    PROVE  ReadinessInv'
  <1>1. ReadinessTyped /\ ChosenOK
    BY DEF ReadinessInv
  <1>2. ReadinessTyped'
    BY <1>1 DEF ReadinessTyped
  <1>3. ShapeOK(inspected)'
    BY DEF ShapeOK, EarlyVerdict, ConnectionSupported, NeedsAuth, CredentialSupported, AuthState
  <1>4. Accepted' <=> Accepted
    BY DEF Accepted, LocalModels, Curated, ListModels
  <1>5. (Usable' <=> Usable) /\ Curated(ListModels)' = Curated(ListModels) /\ (NeedsAuth' <=> NeedsAuth)
    BY DEF Usable, NeedsAuth, Curated, ListModels
  <1>6. TrueOK(inspected)'
    BY <1>4, <1>5 DEF TrueOK
  <1>7. ChosenOK'
    BY <1>1, <1>4 DEF ChosenOK
  <1> QED
    BY <1>2, <1>3, <1>6, <1>7 DEF ReadinessInv

FreshInspection(pc, what) == [NoInspection EXCEPT !.pc = pc, !.what = what]

LEMMA EmptyInspection ==
    ASSUME ReadinessTyped, NEW pc \in {"idle", "credential"}, NEW what \in {"status", "timed", "inventory"},
           what = "timed" => kind = "remote"
    PROVE  /\ FreshInspection(pc, what) \in Inspections
           /\ ShapeOK(FreshInspection(pc, what)) /\ TrueOK(FreshInspection(pc, what))
  <1>1. PICK w \in Inspections : w = NoInspection
    BY DEF NoInspection, Inspections, InspectionPcs, CredentialKinds
  <1>2. /\ w.cred = "none" /\ w.state = "none" /\ w.source = FALSE /\ w.cut = FALSE /\ w.had = "none"
    BY <1>1 DEF NoInspection
  <1>3. PICK j : j = [w EXCEPT !.pc = pc, !.what = what]
    OBVIOUS
  <1>4. /\ j \in Inspections /\ j.pc = pc /\ j.what = what /\ j.cred = "none" /\ j.state = "none"
        /\ j.source = FALSE /\ j.cut = FALSE /\ j.had = "none"
    BY <1>2, <1>3 DEF Inspections, InspectionPcs
  <1>5. ShapeOK(j) /\ TrueOK(j)
    BY <1>4 DEF ShapeOK, TrueOK, Asking, Decided
  <1> QED
    BY <1>1, <1>3, <1>4, <1>5 DEF FreshInspection

LEMMA NothingInspected ==
    /\ FreshInspection("idle", "status") = NoInspection
    /\ NoInspection \in Inspections /\ NoInspection.pc = "idle" /\ ~NoInspection.source
  <1>1. PICK w \in Inspections : w = NoInspection
    BY DEF NoInspection, Inspections, InspectionPcs, CredentialKinds
  <1>2. w.pc = "idle" /\ w.what = "status" /\ ~w.source
    BY <1>1 DEF NoInspection
  <1>3. [w EXCEPT !.pc = "idle", !.what = "status"] = w
    BY <1>2 DEF Inspections
  <1> QED
    BY <1>1, <1>2, <1>3 DEF FreshInspection

LEMMA BeginInspection ==
    ASSUME ReadinessInv, NEW what \in {"status", "timed", "inventory"}, Begin(what)
    PROVE  ReadinessInv'
  <1>1. PICK j : j = FreshInspection("credential", what)
    OBVIOUS
  <1>2. j \in Inspections /\ ShapeOK(j) /\ TrueOK(j)
    BY <1>1, EmptyInspection DEF Begin, ReadinessInv
  <1>3. inspected' = j /\ UNCHANGED <<kind, world, model, chosen, moves>>
    BY <1>1 DEF Begin, FreshInspection
  <1> QED
    BY <1>2, <1>3, InspectionMoves

LEMMA UsableNeeds ==
    Usable => kind # "planned" /\ world.health = "ok" /\ (NeedsAuth => world.auth = "fine" /\ world.cred = "key")
  BY DEF Usable

LEMMA CredentialResolves ==
    ASSUME ReadinessInv, ResolveCredential
    PROVE  ReadinessInv'
  <1>1. ReadinessTyped /\ ShapeOK(inspected)
    BY DEF ReadinessInv
  <1>2. PICK w \in Inspections : w = inspected
    BY <1>1 DEF ReadinessTyped
  <1>3. /\ w.pc = "credential" /\ w.state = "none" /\ w.cut = FALSE /\ w.source = FALSE
        /\ w.what = "timed" => kind = "remote"
    <2>1. w.cut \in BOOLEAN /\ w.source \in BOOLEAN
      BY DEF Inspections
    <2> QED
      BY <1>1, <1>2, <2>1 DEF ResolveCredential, ShapeOK, Decided
  <1>4. PICK failed, cred, done :
             /\ failed = (world.auth # "fine" /\ NeedsAuth)
             /\ cred = IF ~NeedsAuth \/ world.auth = "unreadable" THEN "none" ELSE world.cred
             /\ done = IF w.what = "inventory" THEN "list" ELSE "done"
    OBVIOUS
  <1>5. PICK n : n = [w EXCEPT !.cred = cred, !.had = cred, !.failed = failed]
    OBVIOUS
  <1>6. inspected' =
            IF failed THEN [n EXCEPT !.pc = done, !.state = "validation_failed", !.auth = AuthState(cred)]
            ELSE IF EarlyVerdict(cred) # "none"
            THEN [n EXCEPT !.pc = done, !.state = EarlyVerdict(cred), !.auth = AuthState(cred)]
            ELSE [n EXCEPT !.pc = IF w.what = "inventory" /\ kind # "local" THEN "once" ELSE "validate"]
    BY <1>2, <1>4, <1>5 DEF ResolveCredential
  <1>7. cred \in CredentialKinds /\ failed \in BOOLEAN
    BY <1>1, <1>4 DEF ReadinessTyped, Worlds, CredentialKinds
  <1>8. n \in Inspections /\ n.cred = cred /\ n.had = cred /\ n.pc = w.pc /\ n.what = w.what
        /\ n.state = "none" /\ n.cut = FALSE /\ n.source = FALSE /\ n.changed = w.changed /\ n.auth = w.auth
    BY <1>3, <1>5, <1>7 DEF Inspections
  <1>9. AuthState(cred) \in AuthStates /\ done \in {"list", "done"} /\ (done = "list" => w.what = "inventory")
    BY <1>4 DEF AuthState, AuthStates
  <1>10. UNCHANGED <<kind, world, model, chosen, moves>>
    BY DEF ResolveCredential
  <1>11. CASE failed
    <2>1. PICK j : j = [n EXCEPT !.pc = done, !.state = "validation_failed", !.auth = AuthState(cred)]
      OBVIOUS
    <2>2. /\ j \in Inspections /\ j.pc = done /\ j.state = "validation_failed" /\ j.auth = AuthState(cred)
          /\ j.cred = cred /\ j.had = cred /\ j.what = w.what /\ j.cut = FALSE /\ j.source = FALSE
      BY <1>8, <1>9, <2>1 DEF Inspections, InspectionPcs, Decided, Refusals
    <2>3. ShapeOK(j)
      BY <1>3, <1>9, <2>2 DEF ShapeOK, Asking, Decided
    <2>4. TrueOK(j)
      BY <1>4, <1>9, <1>11, <2>2, UsableNeeds DEF TrueOK, Asking
    <2> QED
      BY <1>6, <1>10, <1>11, <2>1, <2>2, <2>3, <2>4, InspectionMoves
  <1>12. CASE ~failed /\ EarlyVerdict(cred) # "none"
    <2>1. PICK early : early = EarlyVerdict(cred)
      OBVIOUS
    <2>2. /\ early \in {"runtime_unsupported", "missing_auth", "unsupported_auth_method"}
          /\ early = "missing_auth" => NeedsAuth /\ cred = "none"
      BY <1>12, <2>1 DEF EarlyVerdict
    <2>3. ~Usable
      <3>1. CASE kind = "planned"
        BY <3>1, UsableNeeds
      <3>2. CASE kind # "planned"
        <4>1. NeedsAuth /\ cred # "key"
          BY <1>12, <3>2 DEF EarlyVerdict, ConnectionSupported, CredentialSupported
        <4>2. cred = world.cred
          BY <1>4, <1>12, <4>1
        <4> QED
          BY <4>1, <4>2, UsableNeeds
      <3> QED
        BY <3>1, <3>2
    <2>4. PICK j : j = [n EXCEPT !.pc = done, !.state = early, !.auth = AuthState(cred)]
      OBVIOUS
    <2>5. /\ j \in Inspections /\ j.pc = done /\ j.state = early /\ j.auth = AuthState(cred)
          /\ j.cred = cred /\ j.had = cred /\ j.what = w.what /\ j.cut = FALSE /\ j.source = FALSE
      <3>1. early \in Refusals \cup {"none", "ready"}
        BY <2>2 DEF Refusals
      <3> QED
        BY <1>8, <1>9, <2>4, <3>1 DEF Inspections, InspectionPcs, Decided
    <2>6. ShapeOK(j)
      BY <1>3, <1>9, <2>2, <2>5 DEF ShapeOK, Asking, Decided
    <2>7. TrueOK(j)
      BY <1>9, <2>2, <2>3, <2>5 DEF TrueOK, Asking
    <2> QED
      BY <1>6, <1>10, <1>12, <2>1, <2>4, <2>5, <2>6, <2>7, InspectionMoves
  <1>13. CASE ~failed /\ EarlyVerdict(cred) = "none"
    <2>1. PICK pc : pc = IF w.what = "inventory" /\ kind # "local" THEN "once" ELSE "validate"
      OBVIOUS
    <2>2. PICK j : j = [n EXCEPT !.pc = pc]
      OBVIOUS
    <2>3. /\ j \in Inspections /\ j.pc = pc /\ j.state = "none" /\ j.auth = w.auth
          /\ j.cred = cred /\ j.had = cred /\ j.what = w.what /\ j.cut = FALSE /\ j.source = FALSE
      BY <1>8, <2>1, <2>2 DEF Inspections, InspectionPcs, Asking
    <2>4. ShapeOK(j)
      BY <1>3, <1>13, <2>1, <2>3 DEF ShapeOK, Asking, Decided
    <2>5. NeedsAuth => world.auth = "fine" /\ world.cred = "key"
      <3> SUFFICES ASSUME NeedsAuth PROVE world.auth = "fine" /\ world.cred = "key"
        OBVIOUS
      <3>1. world.auth = "fine" /\ cred = world.cred
        BY <1>4, <1>13
      <3>2. cred = "key"
        BY <1>13 DEF EarlyVerdict, CredentialSupported
      <3> QED
        BY <3>1, <3>2
    <2>6. TrueOK(j)
      BY <2>1, <2>3, <2>5 DEF TrueOK, Decided
    <2> QED
      BY <1>6, <1>10, <1>13, <2>1, <2>2, <2>3, <2>4, <2>6, InspectionMoves
  <1> QED
    BY <1>11, <1>12, <1>13

(* A step that gives an inspection its verdict.                            *)
LEMMA VerdictGiven ==
    ASSUME ReadinessInv, NEW w \in Inspections, w = inspected, w.pc \in {"validate", "discover"},
           NEW state \in Refusals \cup {"ready"}, state # "missing_auth",
           Verdict(state, AuthState(w.cred)), UNCHANGED <<kind, world, model, chosen, moves>>,
           ~w.changed => /\ ~(kind = "cli" /\ w.what = "inventory") => (state = "ready" <=> Usable)
                         /\ Accepted => state # "model_unavailable"
    PROVE  ReadinessInv'
  <1>1. ShapeOK(w)
    BY DEF ReadinessInv
  <1>2. w.cut = FALSE /\ w.source = FALSE /\ w.had = w.cred
    <2>1. w.cut \in BOOLEAN /\ w.source \in BOOLEAN
      BY DEF Inspections
    <2> QED
      BY <1>1, <2>1 DEF ShapeOK, Asking
  <1>3. PICK done : done = IF w.what = "inventory" THEN "list" ELSE "done"
    OBVIOUS
  <1>4. PICK j : j = [w EXCEPT !.pc = done, !.state = state, !.auth = AuthState(w.cred)]
    OBVIOUS
  <1>5. inspected' = j
    BY <1>3, <1>4 DEF Verdict
  <1>6. AuthState(w.cred) \in AuthStates /\ done \in {"list", "done"} /\ (done = "list" => w.what = "inventory")
    BY <1>3 DEF AuthState, AuthStates
  <1>7. /\ j \in Inspections /\ j.pc = done /\ j.state = state /\ j.auth = AuthState(w.cred)
        /\ j.cred = w.cred /\ j.had = w.cred /\ j.what = w.what /\ j.cut = FALSE /\ j.source = FALSE
        /\ j.changed = w.changed
    BY <1>2, <1>4, <1>6 DEF Inspections, InspectionPcs, Decided
  <1>8. state # "none"
    BY DEF Refusals
  <1>9. ShapeOK(j)
    BY <1>1, <1>6, <1>7, <1>8 DEF ShapeOK, Asking, Decided
  <1>10. TrueOK(j)
    BY <1>6, <1>7 DEF TrueOK, Asking
  <1> QED
    BY <1>5, <1>7, <1>9, <1>10, InspectionMoves

LEMMA ValidatedMeans ==
    /\ Validated \in {"ready", "degraded", "validation_failed", "unreachable"}
    /\ Validated = "ready" <=> world.health = "ok"
  <1>1. CASE kind = "cli"
    BY <1>1 DEF Validated, CliStatus
  <1>2. CASE kind # "cli"
    <2>1. Validated = HttpStatus
      BY <1>2 DEF Validated
    <2>2. CASE world.health = "ok"
      BY <2>1, <2>2 DEF HttpStatus
    <2>3. CASE world.health = "refused"
      BY <2>1, <2>3 DEF HttpStatus
    <2>4. CASE world.health = "down"
      BY <2>1, <2>4 DEF HttpStatus
    <2>5. CASE world.health \notin {"ok", "refused", "down"}
      BY <2>1, <2>5 DEF HttpStatus
    <2> QED
      BY <2>2, <2>3, <2>4, <2>5
  <1> QED
    BY <1>1, <1>2

LEMMA ConnectionValidated ==
    ASSUME ReadinessInv, ValidateConnection
    PROVE  ReadinessInv'
  <1>1. ReadinessTyped /\ ShapeOK(inspected) /\ TrueOK(inspected)
    BY DEF ReadinessInv
  <1>2. PICK w \in Inspections : w = inspected
    BY <1>1 DEF ReadinessTyped
  <1>3. w.pc = "validate" /\ UNCHANGED <<kind, world, model, chosen, moves>>
    BY <1>2 DEF ValidateConnection
  <1>4. CASE Validated # "ready"
    <2>1. Verdict(Validated, AuthState(w.cred))
      BY <1>2, <1>4 DEF ValidateConnection
    <2>2. PICK state \in {"degraded", "validation_failed", "unreachable"} : state = Validated
      BY <1>4, ValidatedMeans
    <2>3. ~Usable
      BY <1>4, ValidatedMeans, UsableNeeds
    <2>4. state \in Refusals \cup {"ready"} /\ state # "missing_auth" /\ state # "ready"
          /\ state # "model_unavailable"
      BY DEF Refusals
    <2> QED
      BY <1>2, <1>3, <2>1, <2>2, <2>3, <2>4, VerdictGiven
  <1>5. CASE Validated = "ready"
    <2>1. PICK j : j = [w EXCEPT !.pc = "discover"]
      OBVIOUS
    <2>2. inspected' = j
      BY <1>2, <1>5, <2>1 DEF ValidateConnection
    <2>3. /\ j \in Inspections /\ j.pc = "discover" /\ j.state = w.state /\ j.auth = w.auth
          /\ j.cred = w.cred /\ j.had = w.had /\ j.what = w.what /\ j.cut = w.cut /\ j.source = w.source
          /\ j.changed = w.changed
      BY <2>1 DEF Inspections, InspectionPcs, Asking
    <2>4. ShapeOK(j)
      BY <1>1, <1>2, <1>3, <2>3 DEF ShapeOK, Asking, Decided
    <2>5. world.health = "ok"
      BY <1>5, ValidatedMeans
    <2>6. ~j.source
      BY <1>1, <1>2, <1>3, <2>3 DEF ShapeOK
    <2>7. TrueOK(j)
      BY <1>1, <1>2, <1>3, <2>3, <2>5, <2>6 DEF TrueOK, Asking, Decided
    <2> QED
      BY <1>3, <2>2, <2>3, <2>4, <2>7, InspectionMoves
  <1> QED
    BY <1>4, <1>5

(* A connection past the early verdicts is one of three kinds.             *)
LEMMA AskedKinds ==
    ASSUME ReadinessTyped, ShapeOK(inspected), inspected.pc \in Asking
    PROVE  kind \in {"local", "cli", "remote"}
  <1>1. kind # "planned"
    BY DEF ShapeOK, EarlyVerdict, ConnectionSupported
  <1> QED
    BY <1>1, ReadinessAssumption DEF ReadinessTyped

LEMMA ModelsDiscovered ==
    ASSUME ReadinessInv, DiscoverModels
    PROVE  ReadinessInv'
  <1>1. ReadinessTyped /\ ShapeOK(inspected) /\ TrueOK(inspected)
    BY DEF ReadinessInv
  <1>2. PICK w \in Inspections : w = inspected
    BY <1>1 DEF ReadinessTyped
  <1>3. w.pc = "discover" /\ UNCHANGED <<kind, world, model, chosen, moves>>
    BY <1>2 DEF DiscoverModels
  <1>4. kind \in {"local", "cli", "remote"}
    BY <1>1, <1>2, <1>3, AskedKinds DEF Asking
  <1>5. PICK state : state = IF kind = "local" THEN AugmentLocal
                             ELSE IF ListFails THEN "ready" ELSE AugmentRemote(ListModels)
    OBVIOUS
  <1>6. Verdict(state, AuthState(w.cred))
    BY <1>2, <1>5 DEF DiscoverModels
  <1>7. state \in {"ready", "no_local_models", "model_unavailable"}
    BY <1>5 DEF AugmentLocal, AugmentRemote
  <1>8. state \in Refusals \cup {"ready"} /\ state # "missing_auth"
    BY <1>7 DEF Refusals
  <1>9. Accepted => state # "model_unavailable"
    <2> SUFFICES ASSUME Accepted PROVE state # "model_unavailable"
      OBVIOUS
    <2>1. CASE kind = "local"
      <3>1. model \in LocalModels /\ LocalModels # {}
        BY <2>1 DEF Accepted
      <3> QED
        BY <1>5, <2>1, <3>1 DEF AugmentLocal
    <2>2. CASE kind # "local"
      BY <1>5, <2>2, AcceptedIsListed
    <2> QED
      BY <2>1, <2>2
  <1>10. ~w.changed => (state = "ready" <=> Usable)
    <2> SUFFICES ASSUME ~w.changed PROVE state = "ready" <=> Usable
      OBVIOUS
    <2>1. world.health = "ok" /\ (NeedsAuth => world.auth = "fine" /\ world.cred = "key")
      BY <1>1, <1>2, <1>3 DEF TrueOK, Asking
    <2>2. CASE kind = "local"
      <3>1. world.backend \in BackendStates
        BY <1>1 DEF ReadinessTyped, Worlds
      <3> QED
        BY <1>5, <2>1, <2>2, <3>1, LocalIsUsable
    <2>3. CASE kind # "local"
      <3>1. world.backend = "none" /\ kind \in {"cli", "remote"} /\ ~ListFails
        BY <1>1, <1>4, <2>1, <2>3 DEF ReadinessTyped, ListFails
      <3> QED
        BY <1>5, <2>1, <2>3, <3>1, ListedIsUsable
    <2> QED
      BY <2>2, <2>3
  <1> QED
    BY <1>2, <1>3, <1>6, <1>8, <1>9, <1>10, VerdictGiven

LEMMA ListedModels == ASSUME ReadinessTyped
                      PROVE  Curated(ListModels) \subseteq Models /\ Curated(LocalModels) \subseteq Models
  <1>1. world.listing \subseteq Models /\ KnownModels \subseteq Models
    BY ReadinessAssumption DEF ReadinessTyped, Worlds
  <1>2. ListModels \subseteq Models /\ LocalModels \subseteq Models
    BY <1>1 DEF ListModels, LocalModels
  <1> QED
    BY <1>2 DEF Curated

LEMMA InventoryTaken ==
    ASSUME ReadinessInv, InventoryOnce
    PROVE  ReadinessInv'
  <1>1. ReadinessTyped /\ ShapeOK(inspected) /\ TrueOK(inspected)
    BY DEF ReadinessInv
  <1>2. PICK w \in Inspections : w = inspected
    BY <1>1 DEF ReadinessTyped
  <1>3. /\ w.pc = "once" /\ w.what = "inventory" /\ kind # "local" /\ w.had = w.cred /\ w.cut = FALSE
        /\ UNCHANGED <<kind, world, model, chosen, moves>>
    <2>1. w.cut \in BOOLEAN
      BY DEF Inspections
    <2> QED
      BY <1>1, <1>2, <2>1 DEF InventoryOnce, ShapeOK, Asking
  <1>4. PICK listed, offered, state :
             /\ listed = (~ListFails /\ ~ListHangs)
             /\ offered = (IF listed THEN Curated(ListModels) ELSE {})
             /\ state = IF listed THEN AugmentRemote(ListModels)
                        ELSE IF ListFails THEN "validation_failed" ELSE "unreachable"
    OBVIOUS
  <1>5. PICK j : j = [w EXCEPT !.pc = "done", !.source = listed, !.offered = offered,
                               !.auth = AuthState(w.cred), !.state = state]
    OBVIOUS
  <1>6. inspected' = j
    BY <1>2, <1>4, <1>5 DEF InventoryOnce, Inventory
  <1>7. state \in {"ready", "model_unavailable", "validation_failed", "unreachable"}
    BY <1>4 DEF AugmentRemote
  <1>8. listed \in BOOLEAN /\ offered \in SUBSET Models /\ AuthState(w.cred) \in AuthStates
        /\ state \in Refusals \cup {"ready"}
    BY <1>1, <1>4, <1>7, ListedModels DEF AuthState, AuthStates, Refusals
  <1>9. /\ j \in Inspections /\ j.pc = "done" /\ j.state = state /\ j.auth = AuthState(w.cred)
        /\ j.cred = w.cred /\ j.had = w.cred /\ j.what = "inventory" /\ j.cut = FALSE
        /\ j.source = listed /\ j.offered = offered /\ j.changed = w.changed
    BY <1>3, <1>5, <1>8 DEF Inspections, InspectionPcs, Decided
  <1>10. ShapeOK(j)
    BY <1>7, <1>8, <1>9 DEF ShapeOK, Asking, Decided
  <1>11. Accepted => state # "model_unavailable"
    BY <1>3, <1>4, AcceptedIsListed
  <1>12. ~w.changed /\ kind # "cli" => (state = "ready" <=> Usable)
    <2> SUFFICES ASSUME ~w.changed, kind # "cli" PROVE state = "ready" <=> Usable
      OBVIOUS
    <2>1. /\ kind = "remote" /\ world.backend = "none" /\ world.health \in Healths
          /\ NeedsAuth => world.auth = "fine" /\ world.cred = "key"
      BY <1>1, <1>2, <1>3, AskedKinds DEF TrueOK, Asking, ReadinessTyped, Worlds
    <2>2. listed <=> world.health = "ok"
      BY <1>4, <2>1 DEF ListFails, ListHangs, Healths
    <2>3. CASE listed
      BY <1>4, <2>1, <2>2, <2>3, ListedIsUsable
    <2>4. CASE ~listed
      BY <1>4, <2>2, <2>4, UsableNeeds
    <2> QED
      BY <2>3, <2>4
  <1>13. TrueOK(j)
    BY <1>4, <1>9, <1>11, <1>12 DEF TrueOK, Asking
  <1> QED
    BY <1>3, <1>6, <1>9, <1>10, <1>13, InspectionMoves

LEMMA InventoryListed ==
    ASSUME ReadinessInv, InventoryList
    PROVE  ReadinessInv'
  <1>1. ReadinessTyped /\ ShapeOK(inspected) /\ TrueOK(inspected)
    BY DEF ReadinessInv
  <1>2. PICK w \in Inspections : w = inspected
    BY <1>1 DEF ReadinessTyped
  <1>3. w.pc = "list" /\ UNCHANGED <<kind, world, model, chosen, moves>>
    BY <1>2 DEF InventoryList
  <1>4. PICK listed, offered : /\ listed = (kind = "local" /\ LocalBackend)
                               /\ offered = (IF listed THEN Curated(LocalModels) ELSE {})
    OBVIOUS
  <1>5. PICK j : j = [w EXCEPT !.pc = "done", !.source = listed, !.offered = offered]
    OBVIOUS
  <1>6. inspected' = j
    BY <1>2, <1>4, <1>5 DEF InventoryList, Inventory
  <1>7. listed \in BOOLEAN /\ offered \in SUBSET Models
    BY <1>1, <1>4, ListedModels
  <1>8. /\ j \in Inspections /\ j.pc = "done" /\ j.state = w.state /\ j.auth = w.auth
        /\ j.cred = w.cred /\ j.had = w.had /\ j.what = w.what /\ j.cut = w.cut
        /\ j.source = listed /\ j.offered = offered /\ j.changed = w.changed
    BY <1>5, <1>7 DEF Inspections, InspectionPcs, Decided
  <1>9. ShapeOK(j)
    BY <1>1, <1>2, <1>3, <1>8 DEF ShapeOK, Asking, Decided
  <1>10. TrueOK(j)
    BY <1>1, <1>2, <1>3, <1>4, <1>8 DEF TrueOK, Asking, Decided
  <1> QED
    BY <1>3, <1>6, <1>8, <1>9, <1>10, InspectionMoves

LEMMA LaunchTimesOut ==
    ASSUME ReadinessInv, LaunchTimeout
    PROVE  ReadinessInv'
  <1>1. ReadinessTyped /\ ShapeOK(inspected)
    BY DEF ReadinessInv
  <1>2. PICK w \in Inspections : w = inspected
    BY <1>1 DEF ReadinessTyped
  <1>3. /\ w.what = "timed" /\ w.pc \notin {"idle", "done"} /\ kind = "remote"
        /\ UNCHANGED <<kind, world, model, chosen, moves>>
    BY <1>1, <1>2 DEF LaunchTimeout, ShapeOK
  <1>4. w.pc \notin {"once", "list"} /\ ~w.source
    BY <1>1, <1>2, <1>3 DEF ShapeOK
  <1>5. PICK j : j = [w EXCEPT !.pc = "done", !.state = "unreachable", !.auth = "configured", !.cut = TRUE]
    OBVIOUS
  <1>6. inspected' = j
    BY <1>2, <1>3, <1>5 DEF LaunchTimeout, TimeoutAuthState, NeedsAuth
  <1>7. /\ j \in Inspections /\ j.pc = "done" /\ j.state = "unreachable" /\ j.auth = "configured"
        /\ j.cred = w.cred /\ j.had = w.had /\ j.what = w.what /\ j.cut = TRUE
        /\ j.source = w.source /\ j.changed = w.changed
    BY <1>5 DEF Inspections, InspectionPcs, Decided, Refusals, AuthStates
  <1>8. w.had = w.cred
    BY <1>1, <1>2 DEF ShapeOK
  <1>9. ShapeOK(j)
    BY <1>3, <1>7, <1>8 DEF ShapeOK, Asking, Decided, AuthStates
  <1>10. TrueOK(j)
    BY <1>4, <1>7 DEF TrueOK, Asking
  <1> QED
    BY <1>3, <1>6, <1>7, <1>9, <1>10, InspectionMoves

(* What was listed is still what would be listed, when nothing changed.    *)
LEMMA ModelChosen ==
    ASSUME ReadinessInv, NEW m \in Models, RemoteChoice(m) \/ LocalChoice(m)
    PROVE  ReadinessInv'
  <1>1. ReadinessTyped /\ TrueOK(inspected)
    BY DEF ReadinessInv
  <1>2. PICK w \in Inspections : w = inspected
    BY <1>1 DEF ReadinessTyped
  <1>3. PICK listed \in BOOLEAN, changed \in BOOLEAN :
             /\ Choose(m, listed, changed)
             /\ listed /\ ~changed => IF kind = "local" THEN m \in LocalModels ELSE m \in Curated(ListModels)
    <2>1. CASE RemoteChoice(m)
      <3>1. /\ kind # "local" /\ (w.source => m \in w.offered) /\ Choose(m, w.source, w.changed)
            /\ w.source \in BOOLEAN /\ w.changed \in BOOLEAN
        BY <1>2, <2>1 DEF RemoteChoice, Inspections
      <3>2. w.source /\ ~w.changed => m \in Curated(ListModels)
        BY <1>1, <1>2, <3>1 DEF TrueOK
      <3> QED
        BY <3>1, <3>2
    <2>2. CASE LocalChoice(m)
      <3>1. kind = "local" /\ Choose(m, m \in LocalModels, FALSE)
        BY <2>2 DEF LocalChoice
      <3>2. (m \in LocalModels) \in BOOLEAN
        OBVIOUS
      <3> QED
        BY <3>1, <3>2, Zenon
    <2> QED
      BY <2>1, <2>2
  <1>4. /\ chosen' = [model |-> m, listed |-> listed, changed |-> changed] /\ model' = m
        /\ inspected' = NoInspection /\ UNCHANGED <<kind, world, moves>>
    BY <1>3 DEF Choose
  <1>5. PICK j : j = FreshInspection("idle", "status")
    OBVIOUS
  <1>6. j \in Inspections /\ ShapeOK(j) /\ TrueOK(j)
    BY <1>1, <1>5, EmptyInspection
  <1>7. inspected' = j
    BY <1>4, <1>5, NothingInspected
  <1>8. j.pc = "idle" /\ ~j.source
    BY <1>5, NothingInspected
  <1>9. ReadinessTyped'
    BY <1>1, <1>4, <1>6, <1>7 DEF ReadinessTyped
  <1>10. ShapeOK(inspected)'
    BY <1>4, <1>6, <1>7
      DEF ShapeOK, EarlyVerdict, ConnectionSupported, NeedsAuth, CredentialSupported, AuthState
  <1>11. TrueOK(inspected)'
    BY <1>7, <1>8 DEF TrueOK, Asking, Decided
  <1>12. ChosenOK'
    <2>1. LocalModels' = LocalModels /\ Curated(ListModels)' = Curated(ListModels)
      BY <1>4 DEF LocalModels, Curated, ListModels
    <2>2. chosen'.listed = listed /\ chosen'.changed = changed
      BY <1>4
    <2> QED
      BY <1>3, <1>4, <2>1, <2>2 DEF ChosenOK, Accepted
  <1> QED
    BY <1>9, <1>10, <1>11, <1>12 DEF ReadinessInv

LEMMA WorldChanges ==
    ASSUME ReadinessInv, WorldMoves
    PROVE  ReadinessInv'
  <1>1. ReadinessTyped /\ ShapeOK(inspected)
    BY DEF ReadinessInv
  <1>2. PICK w \in Inspections : w = inspected
    BY <1>1 DEF ReadinessTyped
  <1>3. PICK j : j = [w EXCEPT !.changed = TRUE]
    OBVIOUS
  <1>4. /\ inspected' = j /\ chosen' = [chosen EXCEPT !.changed = TRUE] /\ UNCHANGED <<kind, model>>
        /\ moves' \in 0..MaxMoves
    BY <1>1, <1>2, <1>3, ReadinessAssumption DEF WorldMoves, ReadinessTyped
  <1>5. /\ j \in Inspections /\ j.pc = w.pc /\ j.state = w.state /\ j.auth = w.auth
        /\ j.cred = w.cred /\ j.had = w.had /\ j.what = w.what /\ j.cut = w.cut
        /\ j.source = w.source /\ j.changed = TRUE
    BY <1>3 DEF Inspections
  <1>6. /\ world' \in Worlds
        /\ kind # "remote" => world'.cred = "none" /\ world'.auth = "fine"
        /\ kind # "local" => world'.backend = "none"
    <2>1. world \in Worlds /\ (kind # "remote" => world.cred = "none" /\ world.auth = "fine")
          /\ (kind # "local" => world.backend = "none")
      BY <1>1 DEF ReadinessTyped
    <2>2. CASE \E c \in CredentialKinds : NeedsAuth /\ world' = [world EXCEPT !.cred = c]
      BY <2>1, <2>2 DEF Worlds, NeedsAuth
    <2>3. CASE \E a \in AuthTroubles : NeedsAuth /\ world' = [world EXCEPT !.auth = a]
      BY <2>1, <2>3 DEF Worlds, NeedsAuth
    <2>4. CASE \E h \in Healths : world' = [world EXCEPT !.health = h]
      BY <2>1, <2>4 DEF Worlds
    <2>5. CASE \E b \in BackendStates : kind = "local" /\ world' = [world EXCEPT !.backend = b]
      BY <2>1, <2>5 DEF Worlds
    <2>6. CASE \E l \in Listings : world' = [world EXCEPT !.listing = l]
      BY <2>1, <2>6 DEF Worlds
    <2> QED
      BY <2>2, <2>3, <2>4, <2>5, <2>6 DEF WorldMoves
  <1>7. ReadinessTyped'
    <2>1. chosen' \in [model : Models \cup {NoModel}, listed : BOOLEAN, changed : BOOLEAN]
      BY <1>1, <1>4 DEF ReadinessTyped
    <2> QED
      BY <1>1, <1>4, <1>5, <1>6, <2>1 DEF ReadinessTyped
  <1>8. ShapeOK(inspected)'
    BY <1>1, <1>2, <1>4, <1>5
      DEF ShapeOK, EarlyVerdict, ConnectionSupported, NeedsAuth, CredentialSupported, AuthState
  <1>9. TrueOK(inspected)'
    BY <1>4, <1>5 DEF TrueOK
  <1>10. ChosenOK'
    <2>1. chosen'.changed = TRUE
      BY <1>1, <1>4 DEF ReadinessTyped
    <2> QED
      BY <2>1 DEF ChosenOK
  <1> QED
    BY <1>7, <1>8, <1>9, <1>10 DEF ReadinessInv

(***************************************************************************)
(* The readiness: the theorem                                              *)
(***************************************************************************)

LEMMA ReadinessStarts == ReadinessInit => ReadinessInv
  <1> SUFFICES ASSUME ReadinessInit PROVE ReadinessInv
    OBVIOUS
  <1>1. PICK w \in Worlds : /\ w = world
                            /\ kind # "remote" => w.cred = "none" /\ w.auth = "fine"
                            /\ kind # "local" => w.backend = "none"
    <2>1. world \in [cred : IF kind = "remote" THEN CredentialKinds ELSE {"none"},
                     auth : IF kind = "remote" THEN AuthTroubles ELSE {"fine"},
                     health : Healths, listing : Listings,
                     backend : IF kind = "local" THEN BackendStates ELSE {"none"}]
      BY DEF ReadinessInit
    <2>2. /\ world.cred \in CredentialKinds /\ world.auth \in AuthTroubles /\ world.backend \in BackendStates
          /\ world.health \in Healths /\ world.listing \in Listings
      BY <2>1 DEF CredentialKinds, AuthTroubles, BackendStates
    <2>3. world = [cred |-> world.cred, auth |-> world.auth, health |-> world.health,
                   listing |-> world.listing, backend |-> world.backend]
      BY <2>1
    <2> QED
      BY <2>1, <2>2, <2>3 DEF Worlds
  <1>2. chosen \in [model : Models \cup {NoModel}, listed : BOOLEAN, changed : BOOLEAN] /\ ~chosen.listed
    BY DEF ReadinessInit, NothingChosen
  <1>3. ReadinessTyped
    BY <1>1, <1>2, NothingInspected, ReadinessAssumption DEF ReadinessInit, ReadinessTyped
  <1>4. ShapeOK(NoInspection) /\ TrueOK(NoInspection)
    BY <1>3, NothingInspected, EmptyInspection
  <1> QED
    BY <1>2, <1>3, <1>4 DEF ReadinessInit, ReadinessInv, ChosenOK

LEMMA ReadinessSteps == ReadinessInv /\ [ReadinessNext]_readinessVars => ReadinessInv'
  <1> SUFFICES ASSUME ReadinessInv, [ReadinessNext]_readinessVars PROVE ReadinessInv'
    OBVIOUS
  <1>1. CASE UNCHANGED readinessVars
    <2>1. PICK j : j = inspected
      OBVIOUS
    <2>2. j \in Inspections /\ ShapeOK(j) /\ TrueOK(j)
      BY <2>1 DEF ReadinessInv, ReadinessTyped
    <2>3. inspected' = j /\ UNCHANGED <<kind, world, model, chosen, moves>>
      BY <1>1, <2>1 DEF readinessVars
    <2> QED
      BY <2>2, <2>3, InspectionMoves
  <1>2. CASE \E what \in {"status", "timed", "inventory"} : Begin(what)
    BY <1>2, BeginInspection
  <1>3. CASE ResolveCredential
    BY <1>3, CredentialResolves
  <1>4. CASE ValidateConnection
    BY <1>4, ConnectionValidated
  <1>5. CASE DiscoverModels
    BY <1>5, ModelsDiscovered
  <1>6. CASE InventoryOnce
    BY <1>6, InventoryTaken
  <1>7. CASE InventoryList
    BY <1>7, InventoryListed
  <1>8. CASE LaunchTimeout
    BY <1>8, LaunchTimesOut
  <1>9. CASE \E m \in Models : RemoteChoice(m) \/ LocalChoice(m)
    BY <1>9, ModelChosen
  <1>10. CASE WorldMoves
    BY <1>10, WorldChanges
  <1> QED
    BY <1>1, <1>2, <1>3, <1>4, <1>5, <1>6, <1>7, <1>8, <1>9, <1>10 DEF ReadinessNext

LEMMA ReadinessFollow == ReadinessInv => VerdictsRight
  <1> SUFFICES ASSUME ReadinessInv PROVE VerdictsRight
    OBVIOUS
  <1>1. ReadinessTyped /\ ShapeOK(inspected) /\ TrueOK(inspected) /\ ChosenOK
    BY DEF ReadinessInv
  <1>2. PICK w \in Inspections : w = inspected
    BY <1>1 DEF ReadinessTyped
  <1>3. ReadinessTypeOK
    BY <1>1, <1>2 DEF ReadinessTypeOK, ReadinessTyped, ShapeOK, Inspections, InspectionPcs, Asking, Decided,
                      AuthStates
  <1>4. VerdictExact
    BY <1>1 DEF VerdictExact, TrueOK, Decided
  <1>5. SetupOnlyForAuth
    <2> SUFFICES ASSUME inspected.pc = "done", NeedsAuthSetup(inspected)
                 PROVE  NeedsAuth /\ ~inspected.cut /\ inspected.had = "none"
      BY DEF SetupOnlyForAuth
    <2>1. inspected.auth = "missing" \/ inspected.state = "missing_auth"
      BY DEF NeedsAuthSetup
    <2>2. ~inspected.cut /\ inspected.had = inspected.cred
      BY <1>1, <2>1 DEF ShapeOK, Decided
    <2>3. CASE inspected.auth = "missing"
      BY <1>1, <2>2, <2>3 DEF ShapeOK, Decided, AuthState
    <2>4. CASE inspected.state = "missing_auth"
      BY <1>1, <2>2, <2>4 DEF ShapeOK
    <2> QED
      BY <2>1, <2>2, <2>3, <2>4
  <1>6. PickAccepted
    BY <1>1 DEF PickAccepted, TrueOK, ChosenOK, Decided
  <1> QED
    BY <1>3, <1>4, <1>5, <1>6 DEF VerdictsRight

(* probe_connection_readiness and the inventory, for any selectors,         *)
(* listings and models and any changes of the machine and the provider: a   *)
(* verdict that nothing changed under is what using the connection would    *)
(* show, setup is offered for want of a credential only, and a model that   *)
(* was picked from a list is not refused by the next inspection.            *)
THEOREM ReadinessVerdictsRight == ReadinessSpec => []VerdictsRight
  <1>1. ReadinessInit => ReadinessInv
    BY ReadinessStarts
  <1>2. ReadinessInv /\ [ReadinessNext]_readinessVars => ReadinessInv'
    BY ReadinessSteps
  <1>3. ReadinessInv => VerdictsRight
    BY ReadinessFollow
  <1> QED
    BY <1>1, <1>2, <1>3, PTL DEF ReadinessSpec
===============================================================================
