----------------------------- MODULE Readiness -----------------------------
(***************************************************************************)
(* bt-readiness: how `belltower` decides whether a connection can be used, *)
(* and which model is chosen for it.  A status inspection resolves the     *)
(* credential, validates the provider and discovers its models, one        *)
(* request after the other; a model inventory does it in one request for   *)
(* a remote connection.  The machine and the provider may change between   *)
(* any two of these steps, and a launch bounds the whole by a timeout.     *)
(* A behaviour is about one connection.                                    *)
(***************************************************************************)
EXTENDS Naturals, FiniteSets

CONSTANTS
    Kinds,       \* the connections: "local", "cli", "remote", "planned"
    Models,      \* the model names
    KnownModels, \* the models claude-cli names without asking anybody
    NoModel,     \* nothing picked yet
    Selectors,   \* discoverable_model_selectors of the remote connection:
                 \*   records [value, hits], the names each one matches
    Listings,    \* what a provider or a local backend may list
    MaxMoves     \* bound on changes of the world

ASSUME ReadinessAssumption ==
    /\ Kinds \subseteq {"local", "cli", "remote", "planned"}
    /\ KnownModels \subseteq Models /\ KnownModels # {} /\ NoModel \notin Models
    /\ \A s \in Selectors : s.value \in Models /\ s.hits \subseteq Models
    /\ \A l \in Listings : l \subseteq Models
    /\ MaxMoves \in Nat

VARIABLES
    kind,      \* the connection
    world,     \* the machine and the provider
    model,     \* its default_model in config.toml
    inspected, \* the inspection that runs, or the last one
    chosen,    \* what resolve_model_selection picked last, and from what
    moves      \* how often the world changed

readinessVars == <<kind, world, model, inspected, chosen, moves>>

CredentialKinds == {"none", "key", "oauth"}
AuthTroubles == {"fine", "refreshFails", "unreadable"}
Healths == {"ok", "refused", "down", "slow"}
BackendStates == {"none", "unreachable", "ready"}

(* Only the remote connection has auth_sources; its auth_methods take keys. *)
NeedsAuth == kind = "remote"

(* what: "status", "timed" (a launch of the implicit default) or         *)
(* "inventory"; changed: the world is not what it was when it began.        *)
NoInspection == [pc |-> "idle", what |-> "status", cred |-> "none", failed |-> FALSE,
    state |-> "none", auth |-> "none", source |-> FALSE, offered |-> {},
    changed |-> FALSE, cut |-> FALSE, had |-> "none"]
NothingChosen == [model |-> NoModel, listed |-> FALSE, changed |-> FALSE]

-----------------------------------------------------------------------------
(* The pure parts.                                                          *)

(* connection_supported *)
ConnectionSupported == kind # "planned"

(* credential_supported_by_connection *)
CredentialSupported(cred) == NeedsAuth /\ cred # "none" => cred = "key"

(* curated_connection_models *)
Curated(raw) ==
    IF kind # "remote" \/ Selectors = {} THEN raw
    ELSE raw \cap UNION {s.hits : s \in Selectors}

(* Mutant of Available: only a name that is listed itself will do. *)
AvailableByName(names, m) == m \in names

(* model_is_available_for_connection: listed, or the very selector whose    *)
(* hits are listed (an alias such as a family name).                        *)
Available(names, m) ==
    \/ m \in names
    \/ kind = "remote" /\ \E s \in Selectors : s.value = m /\ s.hits \cap names # {}

(* connection_inspection_from_probe: the auth state beside the verdict.  *)
AuthState(cred) ==
    IF ~NeedsAuth THEN "not_required" ELSE IF cred = "none" THEN "missing" ELSE "configured"

(* connection_timeout_inspection: a timeout proves nothing about auth. *)
TimeoutAuthState == IF NeedsAuth THEN "configured" ELSE "not_required"

(* connection_needs_auth_setup / inventory_needs_auth_setup *)
NeedsAuthSetup(i) == i.auth = "missing" \/ i.state = "missing_auth"

(* probe_connection_readiness before it asks the provider. *)
EarlyVerdict(cred) ==
    IF ~ConnectionSupported THEN "runtime_unsupported"
    ELSE IF NeedsAuth /\ cred = "none" THEN "missing_auth"
    ELSE IF ~CredentialSupported(cred) THEN "unsupported_auth_method" ELSE "none"

(* Provider::validate of claude-cli calls every failure degraded. *)
CliStatus == IF world.health = "ok" THEN "ready" ELSE "degraded"

(* Provider::validate of the HTTP providers asks for the models. *)
HttpStatus ==
    CASE world.health = "ok" -> "ready"
      [] world.health = "refused" -> "degraded"
      [] world.health = "down" -> "validation_failed"
      [] OTHER -> "unreachable"

(* validate_connection, with its timeout for one that is slow. *)
Validated == IF kind = "cli" THEN CliStatus ELSE HttpStatus

(* configured_local_models of a backend that has the connection's URL:      *)
(* its models when it answers, none when it does not.                       *)
LocalModels == IF world.backend = "ready" THEN world.listing ELSE {}

(* LocalModelManager::probe_backend and the URL match: is there a backend? *)
LocalBackend == world.backend # "none"

(* Provider::list_models; only claude-cli asks nobody. *)
ListModels == IF kind = "cli" THEN KnownModels ELSE world.listing
ListFails == kind # "cli" /\ world.health \in {"refused", "down"}
ListHangs == kind # "cli" /\ world.health = "slow"

(* augment_local_probe of a healthy connection. *)
AugmentLocal ==
    IF ~LocalBackend THEN "ready"
    ELSE IF LocalModels = {} THEN "no_local_models"
    ELSE IF model \in LocalModels THEN "ready" ELSE "model_unavailable"

(* augment_remote_probe, remote_model_discovery_probe. *)
AugmentRemote(raw) ==
    IF raw = {} \/ Available(Curated(raw), model) THEN "ready" ELSE "model_unavailable"

-----------------------------------------------------------------------------
(* An inspection, step by step.                                             *)

Verdict(state, auth) ==
    inspected' = [inspected EXCEPT !.pc = IF inspected.what = "inventory" THEN "list" ELSE "done",
                                   !.state = state, !.auth = auth]

(* inspect_connection_status, ..._with_timeout, ..._model_inventory *)
Begin(what) ==
    /\ inspected.pc \in {"idle", "done"}
    /\ what = "timed" => kind = "remote"
    /\ inspected' = [NoInspection EXCEPT !.pc = "credential", !.what = what]
    /\ UNCHANGED <<kind, world, model, chosen, moves>>

(* resolve_credential_for_readiness: resolve_fresh may fail, and then what  *)
(* the store still holds is reported beside the failure.                    *)
ResolveCredential ==
    LET failed == world.auth # "fine" /\ NeedsAuth
        cred == IF ~NeedsAuth \/ world.auth = "unreadable" THEN "none" ELSE world.cred
        early == EarlyVerdict(cred)
        next == [inspected EXCEPT !.cred = cred, !.had = cred, !.failed = failed]
        done == IF inspected.what = "inventory" THEN "list" ELSE "done"
    IN /\ inspected.pc = "credential"
       /\ inspected' =
            IF failed THEN [next EXCEPT !.pc = done, !.state = "validation_failed",
                                        !.auth = AuthState(cred)]
            ELSE IF early # "none" THEN [next EXCEPT !.pc = done, !.state = early,
                                                     !.auth = AuthState(cred)]
            ELSE [next EXCEPT !.pc = IF inspected.what = "inventory" /\ kind # "local"
                                     THEN "once" ELSE "validate"]
       /\ UNCHANGED <<kind, world, model, chosen, moves>>

ValidateConnection ==
    /\ inspected.pc = "validate"
    /\ IF Validated = "ready" THEN inspected' = [inspected EXCEPT !.pc = "discover"]
       ELSE Verdict(Validated, AuthState(inspected.cred))
    /\ UNCHANGED <<kind, world, model, chosen, moves>>

(* Models that cannot be listed leave the verdict of the validation.       *)
DiscoverModels ==
    /\ inspected.pc = "discover"
    /\ kind # "local" => ~ListHangs
    /\ Verdict(IF kind = "local" THEN AugmentLocal
               ELSE IF ListFails THEN "ready" ELSE AugmentRemote(ListModels),
               AuthState(inspected.cred))
    /\ UNCHANGED <<kind, world, model, chosen, moves>>

(* build_connection_model_inventory: the curated models, the default among  *)
(* them first; without discovery the default and its fallbacks are shown.   *)
Inventory(i, listed, raw) ==
    [i EXCEPT !.pc = "done", !.source = listed, !.offered = IF listed THEN Curated(raw) ELSE {}]

(* inspect_remote_connection_model_inventory_once *)
InventoryOnce ==
    /\ inspected.pc = "once"
    /\ LET listed == ~ListFails /\ ~ListHangs
       IN inspected' = [Inventory(inspected, listed, ListModels) EXCEPT
            !.auth = AuthState(inspected.cred),
            !.state = IF listed THEN AugmentRemote(ListModels)
                      ELSE IF ListFails THEN "validation_failed" ELSE "unreachable"]
    /\ UNCHANGED <<kind, world, model, chosen, moves>>

(* discover_connection_models after the verdict: for a local connection a   *)
(* second look at the backend, else nothing is discovered.                  *)
InventoryList ==
    /\ inspected.pc = "list"
    /\ inspected' = Inventory(inspected, kind = "local" /\ LocalBackend, LocalModels)
    /\ UNCHANGED <<kind, world, model, chosen, moves>>

(* IMPLICIT_REMOTE_READINESS_TIMEOUT: inspect_connection_status_with_timeout *)
LaunchTimeout ==
    /\ inspected.what = "timed" /\ inspected.pc \notin {"idle", "done"}
    /\ inspected' = [inspected EXCEPT !.pc = "done", !.state = "unreachable",
                                      !.auth = TimeoutAuthState, !.cut = TRUE]
    /\ UNCHANGED <<kind, world, model, chosen, moves>>

-----------------------------------------------------------------------------
(* Choosing a model: resolve_model_selection.                               *)

Choose(m, listed, changed) ==
    /\ chosen' = [model |-> m, listed |-> listed, changed |-> changed]
    /\ model' = m
    /\ inspected' = NoInspection
    /\ UNCHANGED <<kind, world, moves>>

(* Discovered models must be chosen from (none: an error, nothing is kept);  *)
(* without discovery any name is taken.                                     *)
RemoteChoice(m) ==
    /\ kind # "local" /\ inspected.pc = "done" /\ inspected.what = "inventory"
    /\ inspected.source => m \in inspected.offered
    /\ Choose(m, inspected.source, inspected.changed)

(* The local list is read when it is shown; a typed name may be any one.    *)
LocalChoice(m) ==
    /\ kind = "local" /\ inspected.pc \in {"idle", "done"}
    /\ LocalModels = {} => m = model
    /\ Choose(m, m \in LocalModels, FALSE)

(* The credential, the provider or the backend changes.                     *)
WorldMoves ==
    /\ moves < MaxMoves /\ moves' = moves + 1
    /\ \/ \E c \in CredentialKinds : NeedsAuth /\ world' = [world EXCEPT !.cred = c]
       \/ \E a \in AuthTroubles : NeedsAuth /\ world' = [world EXCEPT !.auth = a]
       \/ \E h \in Healths : world' = [world EXCEPT !.health = h]
       \/ \E b \in BackendStates : kind = "local" /\ world' = [world EXCEPT !.backend = b]
       \/ \E l \in Listings : world' = [world EXCEPT !.listing = l]
    /\ world' # world
    /\ inspected' = [inspected EXCEPT !.changed = TRUE]
    /\ chosen' = [chosen EXCEPT !.changed = TRUE]
    /\ UNCHANGED <<kind, model>>

ReadinessInit ==
    /\ kind \in Kinds
    /\ world \in [cred : IF kind = "remote" THEN CredentialKinds ELSE {"none"},
                  auth : IF kind = "remote" THEN AuthTroubles ELSE {"fine"},
                  health : Healths, listing : Listings,
                  backend : IF kind = "local" THEN BackendStates ELSE {"none"}]
    /\ model \in Models
    /\ inspected = NoInspection /\ chosen = NothingChosen /\ moves = 0

ReadinessNext ==
    \/ \E what \in {"status", "timed", "inventory"} : Begin(what)
    \/ ResolveCredential \/ ValidateConnection \/ DiscoverModels
    \/ InventoryOnce \/ InventoryList \/ LaunchTimeout
    \/ \E m \in Models : RemoteChoice(m) \/ LocalChoice(m)
    \/ WorldMoves

ReadinessSpec == ReadinessInit /\ [][ReadinessNext]_readinessVars

-----------------------------------------------------------------------------
(* Properties.                                                              *)

(* What can be said of the connection when nothing changes: it has a        *)
(* credential it takes, it answers, and no listing rules its model out.     *)
Usable ==
    /\ kind # "planned"
    /\ NeedsAuth => world.auth = "fine" /\ world.cred = "key"
    /\ world.health = "ok" /\ world.backend # "unreachable"
    /\ CASE kind = "local" -> world.backend = "ready" => model \in world.listing
         [] kind = "cli" -> model \in KnownModels
         [] OTHER -> \/ world.listing = {}
                     \/ \E s \in Selectors :
                          /\ s.hits \cap world.listing # {}
                          /\ model = s.value \/ model \in s.hits \cap world.listing
                     \/ Selectors = {} /\ model \in world.listing

(* An inspection in progress has no verdict, one that is done has one.      *)
ReadinessTypeOK ==
    /\ inspected.pc \in {"idle", "credential", "validate", "discover", "once", "list", "done"}
    /\ inspected.state # "none" <=> inspected.pc \in {"list", "done"}
    /\ inspected.pc = "done" => inspected.auth \in {"configured", "missing", "not_required"}
    /\ inspected.offered \subseteq Models /\ model \in Models /\ moves \in 0..MaxMoves

(* Status and inventory take different requests to the same verdict: ready  *)
(* exactly when the connection can be used, if nothing changed meanwhile    *)
(* and no launch cut it short.  (claude-cli's inventory: see the README.)   *)
VerdictExact ==
    inspected.pc = "done" /\ ~inspected.changed /\ ~inspected.cut
        /\ ~(kind = "cli" /\ inspected.what = "inventory")
    => (inspected.state = "ready" <=> Usable)

(* Setup is offered for want of a credential only: never because a bounded  *)
(* probe was cut, a provider was down or a token could not be refreshed.    *)
SetupOnlyForAuth ==
    inspected.pc = "done" /\ NeedsAuthSetup(inspected) =>
        NeedsAuth /\ ~inspected.cut /\ inspected.had = "none"

(* A model picked from a list the program showed is accepted by the next    *)
(* inspection: setup does not leave a connection it then calls unusable.    *)
PickAccepted ==
    inspected.pc = "done" /\ chosen.listed /\ ~chosen.changed /\ ~inspected.changed =>
        inspected.state # "model_unavailable"

(* Not true, see the README: claude-cli's inventory is honest about a CLI   *)
(* that is not logged in.                                                   *)
CliInventoryHonest ==
    inspected.pc = "done" /\ ~inspected.changed /\ inspected.what = "inventory" =>
        (inspected.state = "ready" => Usable)

(* When nothing changed under an inspection its verdict is what using the    *)
(* connection would show; setup is offered for missing credentials only, and *)
(* a model that was picked is one the provider accepts.                      *)
VerdictsRight == ReadinessTypeOK /\ VerdictExact /\ SetupOnlyForAuth /\ PickAccepted
=============================================================================
