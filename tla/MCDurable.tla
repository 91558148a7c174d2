----------------------------- MODULE MCDurable ------------------------------
(***************************************************************************)
(* What outlives a process: session bundles and their remotes, and the     *)
(* read models over the event log. A behaviour runs one of them while the  *)
(* other stays in an initial state. The bundles have three bounds: two     *)
(* machines that commit, export and push at once; a session that forks     *)
(* while a process is killed; artifacts.                                   *)
(***************************************************************************)
EXTENDS SessionBundles, ReadModels, TLC

VARIABLE part    \* the component this behaviour runs

Racing   == [events |-> 3, dirs |-> 4, crashes |-> 1, forks |-> 0, artifacts |-> {FALSE}]
Forking  == [events |-> 3, dirs |-> 2, crashes |-> 1, forks |-> 1, artifacts |-> {FALSE}]
Packing  == [events |-> 2, dirs |-> 3, crashes |-> 1, forks |-> 0, artifacts |-> BOOLEAN]

LogSymmetry == Permutations(LogBranches) \cup Permutations(Args)

MCScopes == {Racing, Forking, Packing}

(* One turn of a log is cancelled at most, and that log is not inspected. A *)
(* log with an operator's command has two turns with one completion and one *)
(* request, no cancelled turn, and up to nine events; its inspection is of  *)
(* that command.                                                            *)
Cancelled == {i \in DOMAIN log : log[i].kind = "finished" /\ log[i].status = "cancelled"}

CancelBound == Cardinality(Cancelled) <= 1 /\ (Cancelled = {} \/ look = <<>>)

CommandBound ==
    (\E c \in OperatorCalls : Positions("call", c) # {}) =>
        /\ used.turns <= 2 /\ used.requests <= 1 /\ Len(log) <= 9 /\ Cancelled = {}
        /\ \A i \in DOMAIN log : log[i].ord <= 1 /\ log[i].kind # "raw"
        /\ \A i \in DOMAIN look : look[i].call \in OperatorCalls

Init ==
    /\ part \in {"bundles", "read_models"}
    /\ BundlesInit
    /\ part # "bundles" => scope = Racing
    /\ ReadInit
    /\ part # "read_models" => proc = "serving"

RunBundles ==
    /\ part = "bundles"
    /\ BundlesNext
    /\ UNCHANGED <<part, readVars>>

RunReadModels ==
    /\ part = "read_models"
    /\ ReadNext
    /\ UNCHANGED <<part, bundleVars>>

Next == RunBundles \/ RunReadModels

Spec == Init /\ [][Next]_<<part, bundleVars, readVars>>
=============================================================================
