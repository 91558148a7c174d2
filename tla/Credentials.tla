---------------------------- MODULE Credentials ----------------------------
(***************************************************************************)
(* Resolving a connection's credential, and refreshing a ChatGPT token     *)
(* whose refresh secret can be spent once.  Turns of the server, and the   *)
(* readiness probe of another belltower process, resolve at the same time; *)
(* each process has its own refresh lock; the store layers environment,    *)
(* keychain and file, asks the keychain anew for every load and store, and *)
(* the keychain may be locked and unlocked between any two of them; logins,*)
(* logouts and the clock go on meanwhile.                                  *)
(*                                                                         *)
(* A stored bundle is one generation number: the access token and the      *)
(* refresh token the issuer handed out together.  Everything about token   *)
(* shapes, metadata and labels is left out.                                *)
(***************************************************************************)
EXTENDS Naturals, Sequences, FiniteSets, FiniteSetsExt

CONSTANTS
    Tasks,            \* credential resolutions that can be under way
    ProcessOf(_),     \* the process a task runs in
    EnvBundle,        \* TRUE: BELLTOWER_*_ACCESS/REFRESH_TOKEN are exported
    AuthSources,      \* what each of the connection's auth_sources holds, in order
    Mishaps,          \* subset of {"refused", "lost", "unsaved", "crash"}
    MaxGenerations,   \* bound on the bundles the issuer hands out
    MaxMishaps,       \* bound on the mishaps of a behaviour
    MaxChanges        \* bound on how often the keychain is locked or unlocked

ASSUME CredentialsAssumption ==
    /\ "nobody" \notin Tasks \union {ProcessOf(t) : t \in Tasks}
    /\ EnvBundle \in BOOLEAN /\ AuthSources \in Seq({"empty", "secret", "unreadable"})
    /\ MaxGenerations \in Nat \ {0} /\ MaxMishaps \in Nat /\ MaxChanges \in Nat

VARIABLES
    vault,     \* what each layer of the store holds: a generation or 0
    indexed,   \* whether the keychain's index lists the connection
    keychainUp,\* whether the platform's keychain answers
    changes,   \* how often that has changed
    task,      \* per task: where it is, what it saw and what it served
    refreshing,\* per process: the task that holds its refresh lock
    issuer,    \* live refresh tokens, and how many bundles were issued
    due,       \* generations whose access token is near expiry
    rotation,  \* per generation: the process that rotated it, and into what
    lost,      \* generations whose successor never reached the store
    unsettled, \* generations whose place in the layers came into question
    again,     \* generations presented again by the process that rotated them
    mishaps    \* mishaps so far

credVars == <<vault, indexed, keychainUp, changes, task, refreshing, issuer, due,
              rotation, lost, unsettled, again, mishaps>>
storeVars == <<vault, indexed, keychainUp, changes>>

NoBundleGen == 0
Processes == {ProcessOf(t) : t \in Tasks}
Nobody == "nobody"
Generations == 1..MaxGenerations
Layers == {"env", "keychain", "file"}

----------------------------------------------------------------------------
(* The layered store.                                                      *)

\* The environment's variables, read before anything that is stored.
EnvLayer == vault.env

\* The keychain's entry; one that does not answer counts as empty.
KeychainLayer == IF keychainUp THEN vault.keychain ELSE NoBundleGen

\* The entry of auth.json, read and written under the file's lock.
FileLayer == vault.file

\* AutoStore.load: the first layer that holds the connection.
Load ==
    IF EnvLayer # NoBundleGen THEN EnvLayer
    ELSE IF KeychainLayer # NoBundleGen THEN KeychainLayer
    ELSE FileLayer

\* The file backend whatever holds the entry.
StoreLayerFile == "file"

\* KeychainStore.list reads the index, not the entries; unreadable counts as
\* not listed.
Listed == keychainUp /\ indexed

\* AutoStore.store: the keychain if its index lists the connection, else the
\* file if the connection is there, else the keychain if its index is readable.
StoreLayer ==
    IF Listed THEN "keychain"
    ELSE IF FileLayer # NoBundleGen THEN "file"
    ELSE IF keychainUp THEN "keychain"
    ELSE "file"

\* An entry that the index does not list stands in front of the file's: what is
\* stored goes past it.
PassedBy == {g \in Generations : g = KeychainLayer /\ ~Listed /\ FileLayer # NoBundleGen}

\* AutoStore.delete: both backends, the keychain only if it answers.
Deleted == [vault EXCEPT !.keychain = IF keychainUp THEN NoBundleGen ELSE @,
                         !.file = NoBundleGen]

----------------------------------------------------------------------------
(* Deciding.                                                               *)

\* chatgpt_refresh_needed: within five minutes of its expiry, or unreadable.
RefreshNeeded(g) == g \in due

\* reloaded_chatgpt_credential_is_usable: another bundle, and a fresh one.
ReloadUsable(previous, g) == g # NoBundleGen /\ g # previous /\ ~RefreshNeeded(g)

\* The value of a source: an environment variable, a file or a service account.
SourceValue(source) == CASE source = "empty" -> "none"
                         [] source = "secret" -> "source"
                         [] source = "unreadable" -> "error"

\* resolve_source over auth_sources: the first that has something to say.
FromSources ==
    LET telling == {i \in DOMAIN AuthSources : SourceValue(AuthSources[i]) # "none"}
    IN IF telling = {} THEN "none" ELSE SourceValue(AuthSources[Min(telling)])

Idle == [at |-> "idle", bundle |-> 0, minted |-> 0, served |-> "none", dueAtStart |-> {}]

\* Of what was due at its start a finished resolution keeps what it served.
Done(at, g, served, start) ==
    [at |-> at, bundle |-> g, minted |-> 0, served |-> served, dueAtStart |-> start \cap {g}]

Serve(t, g) == Done("served", g, "bundle", task[t].dueAtStart)

Fail == Done("failed", NoBundleGen, "none", {})

\* No stored bundle: the sources; require_runtime_credential_fresh makes finding
\* nothing an error if there are sources.
Fall ==
    IF FromSources = "error" \/ (FromSources = "none" /\ AuthSources # <<>>)
    THEN Fail
    ELSE Done("served", NoBundleGen, FromSources, {})

\* A device login that was authorised, or a rotation: one more live bundle.
Issue == [live |-> issuer.live \union {issuer.issued + 1}, issued |-> issuer.issued + 1]

\* The guard goes out of scope with the resolution.
Release(t) == [refreshing EXCEPT ![ProcessOf(t)] = Nobody]

Trouble(m) ==
    /\ m \in Mishaps /\ mishaps < MaxMishaps
    /\ mishaps' = mishaps + 1

----------------------------------------------------------------------------
(* A resolution.                                                           *)

\* resolve_fresh: serve what is stored unless it needs a refresh.
Resolve(t) ==
    /\ task[t].at \in {"idle", "served", "failed"}
    /\ task' = [task EXCEPT ![t] =
         IF Load = NoBundleGen THEN Fall
         ELSE IF RefreshNeeded(Load) THEN [Idle EXCEPT !.at = "waiting", !.dueAtStart = due]
         ELSE Done("served", Load, "bundle", due)]
    /\ UNCHANGED <<storeVars, refreshing, issuer, due, rotation, lost, unsettled, again, mishaps>>

\* No lock: every turn that sees a due token refreshes it.
RefreshFreeAlways(t) == TRUE

\* oauth_refresh_lock: one asynchronous mutex per provider and process.
RefreshFree(t) == refreshing[ProcessOf(t)] = Nobody

\* The process-wide lock, and a second look at the store under it.
LockAndRecheck(t) ==
    /\ task[t].at = "waiting" /\ RefreshFree(t)
    /\ IF Load = NoBundleGen
       THEN task' = [task EXCEPT ![t] = Fall] /\ UNCHANGED refreshing
       ELSE IF RefreshNeeded(Load)
       THEN /\ task' = [task EXCEPT ![t].at = "sending", ![t].bundle = Load]
            /\ refreshing' = [refreshing EXCEPT ![ProcessOf(t)] = t]
       ELSE task' = [task EXCEPT ![t] = Serve(t, Load)] /\ UNCHANGED refreshing
    /\ UNCHANGED <<storeVars, issuer, due, rotation, lost, unsettled, again, mishaps>>

\* refresh_chatgpt_token_bundle loads the bundle again and posts its token.
Present(t) ==
    /\ task[t].at = "sending"
    /\ LET g == Load
           p == ProcessOf(t)
       IN IF g = NoBundleGen
          THEN /\ task' = [task EXCEPT ![t].at = "refused"]
               /\ UNCHANGED <<issuer, rotation, lost, again, mishaps>>
          ELSE /\ again' = IF rotation[g].by = p THEN again \union {g} ELSE again
               /\ \/ /\ g \in issuer.live /\ issuer.issued < MaxGenerations
                     /\ issuer' = [Issue EXCEPT !.live = @ \ {g}]
                     /\ rotation' = [rotation EXCEPT ![g] = [by |-> p, to |-> issuer.issued + 1]]
                     /\ \/ /\ task' = [task EXCEPT ![t].at = "storing",
                                                   ![t].minted = issuer.issued + 1]
                           /\ UNCHANGED <<lost, mishaps>>
                        \/ /\ Trouble("lost")
                           /\ lost' = lost \union {g}
                           /\ task' = [task EXCEPT ![t].at = "refused"]
                  \/ /\ g \notin issuer.live
                     /\ task' = [task EXCEPT ![t].at = "refused"]
                     /\ UNCHANGED <<issuer, rotation, lost, mishaps>>
                  \/ /\ Trouble("refused")
                     /\ task' = [task EXCEPT ![t].at = "refused"]
                     /\ UNCHANGED <<issuer, rotation, lost>>
    /\ UNCHANGED <<storeVars, refreshing, due, unsettled>>

\* The generations that a task holds the successor of.
Predecessors(t) == {g \in Generations : rotation[g].to = task[t].minted}

\* The bundle goes to one backend; if that fails nothing is stored and the
\* refresh is an error.
Store(t) ==
    /\ task[t].at = "storing"
    /\ \/ /\ vault' = [vault EXCEPT ![StoreLayer] = task[t].minted]
          /\ task' = [task EXCEPT ![t].at = IF StoreLayer = "keychain" THEN "indexing" ELSE "reloading"]
          /\ unsettled' = unsettled \union PassedBy
          /\ UNCHANGED <<lost, mishaps>>
       \/ /\ Trouble("unsaved")
          /\ lost' = lost \union Predecessors(t)
          /\ task' = [task EXCEPT ![t].at = "refused"]
          /\ UNCHANGED <<vault, unsettled>>
    /\ UNCHANGED <<indexed, keychainUp, changes, refreshing, issuer, due, rotation, again>>

\* KeychainStore.store writes the entry first and the index after it; when the
\* index cannot be written the store is an error although the entry is there.
Index(t) ==
    /\ task[t].at = "indexing"
    /\ \/ /\ keychainUp
          /\ indexed' = TRUE
          /\ task' = [task EXCEPT ![t].at = "reloading"]
          /\ UNCHANGED mishaps
       \/ /\ (~keychainUp /\ UNCHANGED mishaps) \/ (keychainUp /\ Trouble("unsaved"))
          /\ task' = [task EXCEPT ![t].at = "refused"]
          /\ UNCHANGED indexed
    /\ UNCHANGED <<vault, keychainUp, changes, refreshing, issuer, due, rotation, lost, unsettled, again>>

\* After the refresh the bundle is read back; the guard is dropped.
Reload(t) ==
    /\ task[t].at = "reloading"
    /\ task' = [task EXCEPT ![t] = IF Load = NoBundleGen THEN Fail
                                    ELSE [Serve(t, Load) EXCEPT !.served = "refreshed"]]
    /\ refreshing' = Release(t)
    /\ UNCHANGED <<storeVars, issuer, due, rotation, lost, unsettled, again, mishaps>>

\* A refused refresh may have lost a race: look once more before giving up.
Recover(t) ==
    /\ task[t].at = "refused"
    /\ task' = [task EXCEPT ![t] =
         IF ReloadUsable(task[t].bundle, Load) THEN Serve(t, Load) ELSE Fail]
    /\ refreshing' = Release(t)
    /\ UNCHANGED <<storeVars, issuer, due, rotation, lost, unsettled, again, mishaps>>

----------------------------------------------------------------------------
(* The rest of the world.                                                  *)

\* configured_credential_store: the backend named, or the automatic choice.
LoginLayer(mode) == IF mode = "auto" THEN StoreLayer ELSE mode

\* `belltower login`: a new grant, into the configured or the named backend;
\* the keychain's index may fail after its entry was written.
Login(layer) ==
    /\ issuer.issued < MaxGenerations
    /\ issuer' = Issue
    /\ layer = "keychain" => keychainUp
    /\ vault' = [vault EXCEPT ![LoginLayer(layer)] = issuer.issued + 1]
    /\ \/ /\ indexed' = (indexed \/ LoginLayer(layer) = "keychain")
          /\ UNCHANGED mishaps
       \/ /\ LoginLayer(layer) = "keychain" /\ Trouble("unsaved")
          /\ UNCHANGED indexed
    /\ UNCHANGED <<keychainUp, changes, task, refreshing, due, rotation, lost, unsettled, again>>

\* `belltower logout`.
Logout ==
    /\ vault # Deleted
    /\ vault' = Deleted
    /\ indexed' = (indexed /\ ~keychainUp)
    /\ UNCHANGED <<keychainUp, changes, task, refreshing, issuer, due, rotation, lost,
                   unsettled, again, mishaps>>

\* A logout that fails once the keychain's entry is gone, at its index or at the
\* file: the file's entry stays and is the one in front.
LogoutHalf ==
    /\ Trouble("unsaved")
    /\ keychainUp /\ vault.keychain # NoBundleGen
    /\ vault' = [vault EXCEPT !.keychain = NoBundleGen]
    /\ indexed' \in {FALSE, indexed}
    /\ unsettled' = 1..issuer.issued
    /\ UNCHANGED <<keychainUp, changes, task, refreshing, issuer, due, rotation, lost, again>>

\* The keychain is locked, or unlocked.
KeychainTurns ==
    /\ changes < MaxChanges
    /\ changes' = changes + 1
    /\ keychainUp' = ~keychainUp
    /\ unsettled' = 1..issuer.issued
    /\ UNCHANGED <<vault, indexed, task, refreshing, issuer, due, rotation, lost, again, mishaps>>

\* An access token comes within five minutes of its expiry.
Expire(g) ==
    /\ g \in 1..issuer.issued /\ g \notin due
    /\ due' = due \union {g}
    /\ UNCHANGED <<storeVars, task, refreshing, issuer, rotation, lost, unsettled, again, mishaps>>

\* A process dies: its lock and its resolutions are gone.
Die(p) ==
    /\ Trouble("crash")
    /\ lost' = lost \union {g \in Generations : \E t \in Tasks :
                 ProcessOf(t) = p /\ task[t].at = "storing" /\ g \in Predecessors(t)}
    /\ task' = [t \in Tasks |-> IF ProcessOf(t) = p THEN Idle ELSE task[t]]
    /\ refreshing' = [refreshing EXCEPT ![p] = Nobody]
    /\ UNCHANGED <<storeVars, issuer, due, rotation, unsettled, again>>

CredInit ==
    /\ vault = [env |-> IF EnvBundle THEN 1 ELSE NoBundleGen,
                keychain |-> NoBundleGen,
                file |-> IF EnvBundle THEN NoBundleGen ELSE 1]
    /\ keychainUp \in BOOLEAN /\ indexed = FALSE /\ changes = 0
    /\ task = [t \in Tasks |-> Idle]
    /\ refreshing = [p \in Processes |-> Nobody]
    /\ issuer = [live |-> {1}, issued |-> 1]
    /\ due = {}
    /\ rotation = [g \in Generations |-> [by |-> Nobody, to |-> 0]]
    /\ lost = {}
    /\ unsettled = {}
    /\ again = {}
    /\ mishaps = 0

CredNext ==
    \/ \E t \in Tasks : \/ Resolve(t) \/ LockAndRecheck(t) \/ Present(t)
                        \/ Store(t) \/ Index(t) \/ Reload(t) \/ Recover(t)
    \/ \E layer \in {"auto", "keychain", "file"} : Login(layer)
    \/ Logout \/ LogoutHalf \/ KeychainTurns
    \/ \E g \in Generations : Expire(g)
    \/ \E p \in Processes : Die(p)

CredSpec == CredInit /\ [][CredNext]_credVars

----------------------------------------------------------------------------
(* Properties.                                                             *)

\* The type invariant; a lock is held by a task that is refreshing.
CredTypeOK ==
    /\ vault \in [Layers -> 0..MaxGenerations]
    /\ indexed \in BOOLEAN /\ keychainUp \in BOOLEAN
    /\ \A t \in Tasks :
         /\ task[t].at \in {"idle", "waiting", "sending", "storing", "indexing", "refused",
                            "reloading", "served", "failed"}
         /\ task[t].bundle \in 0..issuer.issued /\ task[t].minted \in 0..issuer.issued
         /\ task[t].served \in {"none", "source", "bundle", "refreshed"}
         /\ refreshing[ProcessOf(t)] = t =>
              task[t].at \in {"sending", "storing", "indexing", "refused", "reloading"}
    /\ issuer.issued \in Generations /\ issuer.live \subseteq 1..issuer.issued
    /\ due \subseteq 1..issuer.issued /\ lost \subseteq Generations
    /\ unsettled \subseteq 1..issuer.issued
    /\ mishaps \in 0..MaxMishaps /\ changes \in 0..MaxChanges

\* "Rotating refresh tokens must never be spent twice by racing turns": a
\* process never presents a token that one of its own requests rotated, unless
\* the successor was lost (its answer did not arrive, or storing it failed or
\* was cut off by a crash) or the token is unsettled. A token is unsettled when
\* the keychain was locked or unlocked, or a logout failed half-way, since it
\* was issued, and when its successor went to the file past a keychain entry
\* that the index does not list.
SpentOnce == again \subseteq lost \union unsettled

\* Not what the code does: the same with the keychain coming and going. A load
\* that finds the keychain and a store that does not leave the spent bundle in
\* the keychain, and the next load that finds the keychain presents it.
SpentOnceAnyway == again \subseteq lost

\* The bundle that resolutions would use next can still be refreshed: when no
\* refresh is under way, its token is live at the issuer, unless its successor
\* was lost or the token is unsettled.
StoredUsable ==
    ((\A p \in Processes : refreshing[p] = Nobody) /\ Load # NoBundleGen) =>
        Load \in issuer.live \union lost \union unsettled

\* A resolution that did not refresh by itself, because nothing was due or
\* because another task or process won the race, never serves a bundle that
\* was due for a refresh before the resolution began.
ServedLive ==
    \A t \in Tasks : (task[t].at = "served" /\ task[t].served = "bundle") =>
        task[t].bundle \notin task[t].dueAtStart

\* Not what the code does: a logout stays in force until the next login.
LogoutKept ==
    [][\A t \in Tasks : Store(t) => Load # NoBundleGen]_credVars

\* While no refresh is under way the bundle that the next load finds can still
\* be refreshed (it is live at the issuer, unless its successor was lost or the
\* keychain changed after it was issued), and no resolution serves a bundle that
\* was due before it began: with refreshes, logins and logouts, with a keychain,
\* without one, and for the bundles issued after the keychain changed.
BundlesServed == CredTypeOK /\ StoredUsable /\ ServedLive
=============================================================================
