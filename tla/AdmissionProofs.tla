---------------------------- MODULE AdmissionProofs ---------------------------
(***************************************************************************)
(* Proofs about what the turns of several sessions share, for every set of *)
(* tasks, processes, operators, senders, runners and files and every       *)
(* bound. Of the credential: racing resolutions spend a refresh token once *)
(* and leave the store with a bundle that can be refreshed, for the bundles*)
(* that the keychain or the file has held since the keychain last came or  *)
(* went; what is exported in the environment is never replaced, and with   *)
(* EnvBundle the properties do not hold. Of the settings: updates do not undo each other, and every    *)
(* turn runs under the revision its kind of work is entitled to. Of the    *)
(* files: no edit undoes another, none reads a half-written file, and      *)
(* results say what was done.                                              *)
(***************************************************************************)
EXTENDS Credentials, TurnSettings, FileTools, SequenceTheorems, FiniteSetTheorems, WellFoundedInduction, TLAPS

(***************************************************************************)
(* The credential: the inductive invariant                                 *)
(***************************************************************************)

InRefresh == {"sending", "storing", "indexing", "refused", "reloading"}

TaskStates == [at : InRefresh \union {"idle", "waiting", "served", "failed"}, bundle : 0..MaxGenerations,
               minted : 0..MaxGenerations,
               served : {"none", "source", "bundle", "refreshed"}, dueAtStart : SUBSET Generations]

Typed ==
    /\ vault \in [Layers -> 0..MaxGenerations]
    /\ indexed \in BOOLEAN /\ keychainUp \in BOOLEAN /\ changes \in 0..MaxChanges
    /\ task \in [Tasks -> TaskStates]
    /\ refreshing \in [Processes -> Tasks \union {Nobody}]
    /\ issuer \in [live : SUBSET Generations, issued : Generations]
    /\ rotation \in [Generations -> [by : Processes \union {Nobody}, to : 0..MaxGenerations]]
    /\ lost \subseteq Generations /\ again \subseteq Generations
    /\ mishaps \in 0..MaxMishaps

(* Whatever is stored, held or due has been issued.                        *)
Issued ==
    /\ \A l \in Layers : vault[l] <= issuer.issued
    /\ \A t \in Tasks : task[t].bundle <= issuer.issued /\ task[t].minted <= issuer.issued
    /\ issuer.live \subseteq 1..issuer.issued /\ due \subseteq 1..issuer.issued
    /\ unsettled \subseteq 1..issuer.issued

(* A process's lock is held by its one task that refreshes.                *)
Locked == \A t \in Tasks : task[t].at \in InRefresh <=> refreshing[ProcessOf(t)] = t

(* Nothing comes from the environment.                                     *)
Layered == vault.env = NoBundleGen

(* A generation is rotated exactly when its token is spent.                *)
Spent == \A g \in 1..issuer.issued : rotation[g].by = Nobody <=> g \in issuer.live
Unissued == \A g \in Generations : g > issuer.issued => rotation[g].by = Nobody

(* A bundle on its way into the store is unspent, is nowhere in the store  *)
(* and is on its way once.                                                 *)
OnItsWay(t, g) == task[t].at = "storing" /\ task[t].minted = g
Fresh ==
    /\ \A t \in Tasks, g \in 0..MaxGenerations : OnItsWay(t, g) =>
         g # NoBundleGen /\ g \in issuer.live /\ \A l \in Layers : vault[l] # g
    /\ \A t, u \in Tasks, g \in 0..MaxGenerations : OnItsWay(t, g) /\ OnItsWay(u, g) => t = u

(* When the bundle the store would hand out is spent and settled, its      *)
(* successor is on its way, held by a task of the process that spent it,   *)
(* or was lost.                                                            *)
Succeeded ==
    \A g \in Generations : (Load = g /\ rotation[g].by # Nobody /\ g \notin lost \union unsettled) =>
        \E t \in Tasks : ProcessOf(t) = rotation[g].by /\ OnItsWay(t, rotation[g].to)

(* What was due when a resolution began is due still.                      *)
DueKept == \A t \in Tasks : task[t].dueAtStart \subseteq due

CredInv ==
    /\ Typed /\ Issued /\ Locked /\ Layered /\ Spent /\ Unissued
    /\ Fresh /\ Succeeded /\ DueKept
    /\ SpentOnce /\ ServedLive

(***************************************************************************)
(* What the operators return                                               *)
(***************************************************************************)

LEMMA MinSound ==
    ASSUME NEW S, S \subseteq Nat, S # {}
    PROVE  Min(S) \in S
  <1> DEFINE R == OpToRel(<, Nat)
  <1>1. IsWellFoundedOn(R, Nat)
    BY NatLessThanWellFounded
  <1>2. \A x, y \in Nat : x < y => <<x, y>> \in R
    BY DEF OpToRel
  <1> HIDE DEF R
  <1>3. PICK x \in S : \A y \in S : ~(<<y, x>> \in R)
    BY <1>1, WFMin
  <1>4. \A y \in S : ~(y < x)
    BY <1>2, <1>3, Zenon
  <1>5. \A y \in S : x <= y
    BY <1>4
  <1> QED
    BY <1>5 DEF Min

(* The first source that has something to say gives a secret or an error.  *)
LEMMA FromSourcesTyped == FromSources \in {"none", "source", "error"}
  <1> DEFINE telling == {i \in DOMAIN AuthSources : SourceValue(AuthSources[i]) # "none"}
  <1>1. CASE telling = {}
    BY <1>1 DEF FromSources
  <1>2. CASE telling # {}
    <2>1. AuthSources \in Seq({"empty", "secret", "unreadable"})
      BY CredentialsAssumption
    <2>2. telling \subseteq Nat
      BY <2>1
    <2>3. Min(telling) \in telling
      BY <1>2, <2>2, MinSound
    <2>4. AuthSources[Min(telling)] \in {"empty", "secret", "unreadable"}
      BY <2>1, <2>3
    <2>5. SourceValue(AuthSources[Min(telling)]) \in {"none", "source", "error"}
      BY <2>4 DEF SourceValue
    <2> QED
      BY <1>2, <2>5 DEF FromSources
  <1> QED
    BY <1>1, <1>2

LEMMA GenerationsAre ==
    /\ MaxGenerations \in Nat \ {0} /\ 1 \in Generations
    /\ \A g : g \in Generations <=> g \in 0..MaxGenerations /\ g # 0
  BY CredentialsAssumption DEF Generations

(* The record of a resolution that has ended.                              *)
LEMMA DoneFields ==
    ASSUME NEW at, NEW g, NEW served, NEW start
    PROVE  /\ Done(at, g, served, start).at = at /\ Done(at, g, served, start).bundle = g
           /\ Done(at, g, served, start).minted = 0 /\ Done(at, g, served, start).served = served
           /\ Done(at, g, served, start).dueAtStart = start \cap {g}
  BY DEF Done

LEMMA DoneTyped ==
    ASSUME NEW at \in {"served", "failed"}, NEW g \in 0..MaxGenerations,
           NEW served \in {"none", "source", "bundle", "refreshed"}, NEW start, start \subseteq Generations
    PROVE  Done(at, g, served, start) \in TaskStates
  <1>1. start \cap {g} \in SUBSET Generations /\ 0 \in 0..MaxGenerations
    BY GenerationsAre
  <1> QED
    BY <1>1 DEF Done, TaskStates

(* A resolution without a stored bundle takes what the sources have.       *)
LEMMA FallTyped ==
    /\ Fall \in TaskStates /\ Fall.at \in {"served", "failed"} /\ Fall.served \in {"none", "source"}
    /\ Fall.bundle = 0 /\ Fall.minted = 0 /\ Fall.dueAtStart = {}
  <1> DEFINE f == Done("served", NoBundleGen, FromSources, {})
  <1>1. /\ f.at = "served" /\ f.bundle = 0 /\ f.minted = 0 /\ f.served = FromSources /\ f.dueAtStart = {}
        /\ Fail.at = "failed" /\ Fail.bundle = 0 /\ Fail.minted = 0 /\ Fail.served = "none"
        /\ Fail.dueAtStart = {}
    BY DoneFields DEF NoBundleGen, Fail
  <1>2. NoBundleGen \in 0..MaxGenerations
    BY GenerationsAre DEF NoBundleGen
  <1>3. Fail \in TaskStates /\ (FromSources \in {"none", "source"} => f \in TaskStates)
    BY <1>2, DoneTyped DEF Fail
  <1>4. Fall = Fail \/ (Fall = f /\ FromSources # "error")
    BY DEF Fall
  <1> HIDE DEF f
  <1> QED
    BY <1>1, <1>3, <1>4, FromSourcesTyped

LEMMA FailTyped ==
    /\ Fail \in TaskStates /\ Fail.at = "failed" /\ Fail.bundle = 0 /\ Fail.minted = 0 /\ Fail.dueAtStart = {}
  BY GenerationsAre DEF Fail, Done, TaskStates, NoBundleGen

LEMMA LoadIs ==
    ASSUME Typed, Layered
    PROVE  /\ Load = IF KeychainLayer # NoBundleGen THEN vault.keychain ELSE vault.file
           /\ KeychainLayer = IF keychainUp THEN vault.keychain ELSE NoBundleGen
           /\ Load \in 0..MaxGenerations
           /\ \E l \in Layers : Load = vault[l]
  <1>1. vault.env \in 0..MaxGenerations /\ vault.keychain \in 0..MaxGenerations /\ vault.file \in 0..MaxGenerations
    BY DEF Typed, Layers
  <1>2. Load = IF KeychainLayer # NoBundleGen THEN vault.keychain ELSE vault.file
    BY DEF Load, EnvLayer, KeychainLayer, FileLayer, Layered
  <1> QED
    BY <1>1, <1>2 DEF Layers, KeychainLayer

(* What is written where the store writes is what it then hands out, unless*)
(* it was written past an entry that the index does not list.              *)
LEMMA WrittenLoads ==
    ASSUME Typed, Layered, NEW h \in Generations, NEW layer \in {"keychain", "file"},
           vault' = [vault EXCEPT ![layer] = h], keychainUp' = keychainUp
    PROVE  /\ vault' \in [Layers -> 0..MaxGenerations] /\ Layered'
           /\ \A l \in Layers : vault'[l] \in {vault[l], h}
           /\ layer = StoreLayer => Load' \in {h} \union PassedBy
           /\ Load' \in {Load, h}
  <1>1. vault' \in [Layers -> 0..MaxGenerations] /\ \A l \in Layers : vault'[l] = IF l = layer THEN h ELSE vault[l]
    BY GenerationsAre DEF Typed, Layers
  <1>2. /\ vault'.env = vault.env
        /\ vault'.keychain = IF layer = "keychain" THEN h ELSE vault.keychain
        /\ vault'.file = IF layer = "file" THEN h ELSE vault.file
    BY <1>1 DEF Layers
  <1>3. Layered'
    BY <1>2 DEF Layered
  <1>4. /\ Load' = IF KeychainLayer' # NoBundleGen THEN vault'.keychain ELSE vault'.file
        /\ KeychainLayer' = IF keychainUp THEN vault'.keychain ELSE NoBundleGen
    BY <1>2 DEF Load, EnvLayer, KeychainLayer, FileLayer, Layered
  <1>5. h # NoBundleGen /\ vault.keychain \in 0..MaxGenerations
    BY GenerationsAre DEF NoBundleGen, Typed, Layers
  <1>6. ASSUME layer = StoreLayer PROVE Load' \in {h} \union PassedBy
    <2>1. CASE keychainUp /\ ~indexed /\ vault.file # NoBundleGen /\ vault.keychain # NoBundleGen
      <3>1. vault.keychain \in PassedBy
        BY <1>5, <2>1, GenerationsAre DEF PassedBy, Listed, KeychainLayer, FileLayer, NoBundleGen
      <3>2. layer = "file"
        BY <1>6, <2>1 DEF StoreLayer, Listed, FileLayer
      <3> QED
        BY <1>2, <1>4, <2>1, <3>1, <3>2
    <2>2. CASE ~(keychainUp /\ ~indexed /\ vault.file # NoBundleGen /\ vault.keychain # NoBundleGen)
      BY <1>2, <1>4, <1>5, <1>6, <2>2 DEF StoreLayer, Listed, FileLayer
    <2> QED
      BY <2>1, <2>2
  <1>7. Load' \in {Load, h}
    BY <1>2, <1>4, <1>5, LoadIs
  <1> QED
    BY <1>1, <1>3, <1>6, <1>7

LEMMA StoreLayerIs == StoreLayer \in {"keychain", "file"}
  BY DEF StoreLayer

LEMMA IdleTaskTyped ==
    /\ Idle \in TaskStates /\ Idle.at = "idle" /\ Idle.bundle = 0 /\ Idle.minted = 0
    /\ Idle.served = "none" /\ Idle.dueAtStart = {}
  BY GenerationsAre DEF Idle, TaskStates

LEMMA CredInitInv == ~EnvBundle /\ CredInit => CredInv
  <1> SUFFICES ASSUME ~EnvBundle, CredInit PROVE CredInv
    OBVIOUS
  <1> USE DEF CredInit
  <1>0. Nobody \notin Tasks /\ Nobody \notin Processes
    BY CredentialsAssumption DEF Nobody, Processes
  <1>1. vault = [env |-> 0, keychain |-> 0, file |-> 1] /\ vault \in [Layers -> 0..MaxGenerations]
    BY GenerationsAre DEF Layers, NoBundleGen
  <1>2. \A t \in Tasks : task[t] = Idle
    OBVIOUS
  <1>3. Typed
    <2>1. task \in [Tasks -> TaskStates] /\ refreshing \in [Processes -> Tasks \union {Nobody}]
      BY IdleTaskTyped
    <2>2. issuer \in [live : SUBSET Generations, issued : Generations]
      BY GenerationsAre
    <2>3. rotation \in [Generations -> [by : Processes \union {Nobody}, to : 0..MaxGenerations]]
      BY GenerationsAre
    <2>4. mishaps \in 0..MaxMishaps /\ changes \in 0..MaxChanges
      BY CredentialsAssumption
    <2> QED
      BY <1>1, <2>1, <2>2, <2>3, <2>4 DEF Typed
  <1>4. Issued
    <2>1. \A l \in Layers : vault[l] <= issuer.issued
      BY <1>1 DEF Layers
    <2> QED
      BY <1>2, <2>1, IdleTaskTyped DEF Issued
  <1>5. Locked
    BY <1>0, <1>2, IdleTaskTyped DEF Locked, Processes, InRefresh
  <1>6. Layered
    BY <1>1 DEF Layered, NoBundleGen
  <1>7. Spent /\ Unissued
    BY GenerationsAre DEF Spent, Unissued
  <1>8. Fresh /\ Succeeded /\ DueKept
    BY <1>2, IdleTaskTyped DEF Fresh, OnItsWay, Succeeded, DueKept
  <1>9. SpentOnce /\ ServedLive
    BY <1>2, IdleTaskTyped DEF SpentOnce, ServedLive
  <1> QED
    BY <1>3, <1>4, <1>5, <1>6, <1>7, <1>8, <1>9 DEF CredInv

(***************************************************************************)
(* The steps                                                               *)
(***************************************************************************)

LEMMA CredFacts ==
    ASSUME CredInv
    PROVE  /\ Nobody \notin Tasks /\ Nobody \notin Processes
           /\ \A t \in Tasks : /\ ProcessOf(t) \in Processes
                               /\ task[t] \in TaskStates
                               /\ task[t].bundle <= issuer.issued /\ task[t].minted <= issuer.issued
                               /\ task[t].at \in InRefresh <=> refreshing[ProcessOf(t)] = t
           /\ Load \in 0..MaxGenerations /\ Load <= issuer.issued
           /\ issuer.issued \in Generations /\ issuer.issued \in Nat
  <1>1. Nobody \notin Tasks /\ Nobody \notin Processes
    BY CredentialsAssumption DEF Nobody, Processes
  <1>2. issuer.issued \in Generations /\ issuer.issued \in Nat
    BY DEF CredInv, Typed, Generations
  <1>3. Load \in 0..MaxGenerations /\ Load <= issuer.issued
    BY LoadIs DEF CredInv, Issued
  <1> QED
    BY <1>1, <1>2, <1>3 DEF CredInv, Typed, Issued, Locked, Processes

(* A step of one task that neither puts a bundle on its way nor takes one  *)
(* off it: t becomes r.                                                    *)
Quiet(t, r) ==
    /\ task' = [task EXCEPT ![t] = r]
    /\ r \in TaskStates /\ r.bundle <= issuer.issued /\ r.minted <= issuer.issued
    /\ r.at # "storing" /\ task[t].at # "storing"
    /\ r.dueAtStart \subseteq due
    /\ (r.at = "served" /\ r.served = "bundle") => r.bundle \notin r.dueAtStart
    /\ refreshing' \in [Processes -> Tasks \union {Nobody}]
    /\ r.at \in InRefresh <=> refreshing'[ProcessOf(t)] = t
    /\ \A u \in Tasks \ {t} : refreshing'[ProcessOf(u)] = u <=> refreshing[ProcessOf(u)] = u
    /\ again' \subseteq Generations /\ again' \subseteq lost \union unsettled
    /\ mishaps' \in 0..MaxMishaps /\ indexed' \in BOOLEAN
    /\ UNCHANGED <<vault, keychainUp, changes, issuer, due, rotation, lost, unsettled>>

LEMMA QuietPreserves ==
    ASSUME CredInv, NEW t \in Tasks, NEW r, Quiet(t, r)
    PROVE  CredInv'
  <1>1. /\ task' \in [Tasks -> TaskStates]
        /\ task'[t] = r /\ \A u \in Tasks \ {t} : task'[u] = task[u]
    BY DEF CredInv, Typed, Quiet
  <1>2. Load' = Load
    BY DEF Quiet, Load, EnvLayer, KeychainLayer, FileLayer
  <1>3. Typed'
    BY <1>1 DEF CredInv, Typed, Quiet
  <1>4. Issued'
    BY <1>1 DEF CredInv, Issued, Quiet
  <1>5. Locked'
    BY <1>1 DEF CredInv, Locked, Quiet
  <1>6. Layered' /\ Spent' /\ Unissued'
    BY DEF CredInv, Layered, Spent, Unissued, Quiet
  <1>7. \A u \in Tasks : \A g : OnItsWay(u, g)' <=> OnItsWay(u, g)
    BY <1>1 DEF OnItsWay, Quiet
  <1>8. Fresh'
    BY <1>7 DEF CredInv, Fresh, Quiet
  <1>9. Succeeded'
    BY <1>2, <1>7 DEF CredInv, Succeeded, Quiet
  <1>10. DueKept' /\ SpentOnce' /\ ServedLive'
    BY <1>1 DEF CredInv, DueKept, SpentOnce, ServedLive, Quiet
  <1> QED
    BY <1>3, <1>4, <1>5, <1>6, <1>8, <1>9, <1>10 DEF CredInv

LEMMA ResolvePreserves ==
    ASSUME CredInv, NEW t \in Tasks, Resolve(t)
    PROVE  CredInv'
  <1> DEFINE wait == [Idle EXCEPT !.at = "waiting", !.dueAtStart = due]
             serve == Done("served", Load, "bundle", due)
  <1>1. due \in SUBSET Generations /\ due \cap {Load} \subseteq due
    BY CredFacts, GenerationsAre DEF CredInv, Issued, Generations
  <1>2. \/ task' = [task EXCEPT ![t] = Fall]
        \/ task' = [task EXCEPT ![t] = wait]
        \/ task' = [task EXCEPT ![t] = serve] /\ Load \notin due
    BY DEF Resolve, RefreshNeeded
  <1>3. /\ wait \in TaskStates /\ wait.at = "waiting" /\ wait.bundle = 0 /\ wait.minted = 0
        /\ wait.dueAtStart = due
    BY <1>1, IdleTaskTyped DEF TaskStates
  <1>4. /\ serve \in TaskStates /\ serve.at = "served" /\ serve.bundle = Load /\ serve.minted = 0
        /\ serve.dueAtStart = due \cap {Load}
    <2>1. Load \in 0..MaxGenerations
      BY CredFacts
    <2>2. serve \in TaskStates
      BY <1>1, <2>1, DoneTyped
    <2> QED
      BY <2>2, DoneFields
  <1> HIDE DEF wait, serve
  <1>5. PICK r \in TaskStates :
        /\ task' = [task EXCEPT ![t] = r] /\ r.at \in {"waiting", "served", "failed"}
        /\ r.dueAtStart \subseteq due /\ r.bundle \in {0, Load} /\ r.minted = 0
        /\ (r.at = "served" /\ r.served = "bundle") => r.bundle \notin due
    BY <1>1, <1>2, <1>3, <1>4, FallTyped
  <1>6. /\ task[t].at \in {"idle", "served", "failed"}
        /\ UNCHANGED <<storeVars, refreshing, issuer, due, rotation, lost, unsettled, again, mishaps>>
    BY DEF Resolve
  <1>7. Quiet(t, r)
    BY <1>5, <1>6, CredFacts DEF Quiet, InRefresh, CredInv, Typed, SpentOnce, storeVars
  <1> QED
    BY <1>7, QuietPreserves

LEMMA LockPreserves ==
    ASSUME CredInv, NEW t \in Tasks, LockAndRecheck(t)
    PROVE  CredInv'
  <1> DEFINE send == [task[t] EXCEPT !.at = "sending", !.bundle = Load]
             serve == Serve(t, Load)
  <1>0. /\ task[t].dueAtStart \subseteq due /\ task[t] \in TaskStates /\ ProcessOf(t) \in Processes
        /\ Load \in 0..MaxGenerations /\ 0 \in 0..MaxGenerations
        /\ task[t].dueAtStart \in SUBSET Generations
    BY CredFacts, GenerationsAre DEF CredInv, DueKept, TaskStates
  <1>1. /\ send \in TaskStates /\ send.at = "sending" /\ send.bundle = Load
        /\ send.dueAtStart = task[t].dueAtStart /\ send.minted = task[t].minted
    BY CredFacts, ZenonT(90) DEF TaskStates, InRefresh
  <1>2. /\ serve \in TaskStates /\ serve.at = "served" /\ serve.bundle = Load /\ serve.minted = 0
        /\ serve.dueAtStart = task[t].dueAtStart \cap {Load}
    BY <1>0, DoneTyped, DoneFields DEF Serve
  <1>3. \/ task' = [task EXCEPT ![t] = Fall] /\ UNCHANGED refreshing
        \/ task' = [task EXCEPT ![t] = send] /\ refreshing' = [refreshing EXCEPT ![ProcessOf(t)] = t]
        \/ task' = [task EXCEPT ![t] = serve] /\ UNCHANGED refreshing /\ Load \notin due
    BY DEF LockAndRecheck, RefreshNeeded
  <1>4. /\ task[t].at = "waiting" /\ refreshing[ProcessOf(t)] = Nobody
        /\ UNCHANGED <<vault, indexed, keychainUp, changes, issuer, due, rotation, lost, unsettled, again, mishaps>>
    BY DEF LockAndRecheck, RefreshFree, storeVars
  <1>5. refreshing \in [Processes -> Tasks \union {Nobody}] /\ again \subseteq Generations
        /\ again \subseteq lost \union unsettled /\ mishaps \in 0..MaxMishaps /\ indexed \in BOOLEAN
    BY DEF CredInv, Typed, SpentOnce
  <1> HIDE DEF send, serve
  <1>6. CASE task' = [task EXCEPT ![t] = Fall] /\ UNCHANGED refreshing
    <2>1. Quiet(t, Fall)
      BY <1>0, <1>4, <1>5, <1>6, FallTyped, CredFacts DEF Quiet, InRefresh
    <2> QED
      BY <2>1, QuietPreserves
  <1>7. CASE task' = [task EXCEPT ![t] = serve] /\ UNCHANGED refreshing /\ Load \notin due
    <2>1. Quiet(t, serve)
      BY <1>0, <1>2, <1>4, <1>5, <1>7, CredFacts DEF Quiet, InRefresh
    <2> QED
      BY <2>1, QuietPreserves
  <1>8. CASE task' = [task EXCEPT ![t] = send] /\ refreshing' = [refreshing EXCEPT ![ProcessOf(t)] = t]
    <2>1. /\ refreshing' \in [Processes -> Tasks \union {Nobody}]
          /\ refreshing'[ProcessOf(t)] = t
          /\ \A u \in Tasks \ {t} : refreshing'[ProcessOf(u)] = u <=> refreshing[ProcessOf(u)] = u
      BY <1>0, <1>4, <1>5, <1>8, CredFacts
    <2>2. Quiet(t, send)
      BY <1>0, <1>1, <1>4, <1>5, <1>8, <2>1, CredFacts DEF Quiet, InRefresh
    <2> QED
      BY <2>2, QuietPreserves
  <1> QED
    BY <1>3, <1>6, <1>7, <1>8

(* The index is written, or not.                                           *)
LEMMA IndexPreserves ==
    ASSUME CredInv, NEW t \in Tasks, Index(t)
    PROVE  CredInv'
  <1> DEFINE r(a) == [task[t] EXCEPT !.at = a]
  <1>1. PICK a \in {"reloading", "refused"} : task' = [task EXCEPT ![t] = r(a)]
    BY DEF Index
  <1>2. /\ task[t].at = "indexing" /\ indexed' \in BOOLEAN /\ mishaps' \in 0..MaxMishaps
        /\ UNCHANGED <<vault, keychainUp, changes, refreshing, issuer, due, rotation, lost, unsettled, again>>
    <2>1. mishaps' = mishaps \/ (mishaps < MaxMishaps /\ mishaps' = mishaps + 1)
      BY DEF Index, Trouble
    <2>2. mishaps' \in 0..MaxMishaps
      BY <2>1, CredentialsAssumption DEF CredInv, Typed
    <2>3. indexed' \in BOOLEAN
      BY DEF Index, CredInv, Typed
    <2> QED
      BY <2>2, <2>3 DEF Index
  <1>3. /\ r(a) \in TaskStates /\ r(a).at = a /\ r(a).bundle = task[t].bundle
        /\ r(a).minted = task[t].minted /\ r(a).dueAtStart = task[t].dueAtStart
    BY CredFacts DEF TaskStates, InRefresh
  <1> HIDE DEF r
  <1>4. task[t].dueAtStart \subseteq due /\ again \subseteq Generations /\ again \subseteq lost \union unsettled
        /\ refreshing \in [Processes -> Tasks \union {Nobody}]
    BY DEF CredInv, DueKept, Typed, SpentOnce
  <1>5. Quiet(t, r(a))
    BY <1>1, <1>2, <1>3, <1>4, CredFacts DEF Quiet, InRefresh
  <1> QED
    BY <1>5, QuietPreserves

(* The resolution ends and its guard is dropped.                           *)
LEMMA ReleasePreserves ==
    ASSUME CredInv, NEW t \in Tasks, Reload(t) \/ Recover(t)
    PROVE  CredInv'
  <1> DEFINE serve == Serve(t, Load)
             again1 == [serve EXCEPT !.served = "refreshed"]
  <1>0. /\ task[t].dueAtStart \subseteq due /\ task[t] \in TaskStates /\ ProcessOf(t) \in Processes
        /\ Load \in 0..MaxGenerations /\ 0 \in 0..MaxGenerations
        /\ task[t].dueAtStart \in SUBSET Generations
    BY CredFacts, GenerationsAre DEF CredInv, DueKept, TaskStates
  <1>2. /\ serve \in TaskStates /\ serve.at = "served" /\ serve.bundle = Load /\ serve.minted = 0
        /\ serve.dueAtStart = task[t].dueAtStart \cap {Load}
    BY <1>0, DoneTyped, DoneFields DEF Serve
  <1>3. PICK r \in {Fail, serve, again1} :
          /\ task' = [task EXCEPT ![t] = r]
          /\ r = serve => Load \notin due \/ r = again1 \/ r = Fail
    <2>1. CASE task' = [task EXCEPT ![t] = Fail]
      BY <2>1
    <2>2. CASE task' = [task EXCEPT ![t] = again1]
      BY <2>2
    <2>3. CASE task' = [task EXCEPT ![t] = serve] /\ Load \notin due
      BY <2>3
    <2> QED
      BY <2>1, <2>2, <2>3 DEF Reload, Recover, ReloadUsable, RefreshNeeded
  <1> HIDE DEF serve
  <1>4. /\ again1 \in TaskStates /\ again1.at = "served" /\ again1.bundle = Load /\ again1.minted = 0
        /\ again1.dueAtStart = task[t].dueAtStart \cap {Load} /\ again1.served = "refreshed"
    BY <1>2 DEF TaskStates
  <1>5. /\ task[t].at \in {"refused", "reloading"} /\ refreshing' = Release(t)
        /\ UNCHANGED <<vault, indexed, keychainUp, changes, issuer, due, rotation, lost, unsettled, again, mishaps>>
    BY DEF Reload, Recover, storeVars
  <1>6. /\ refreshing[ProcessOf(t)] = t
        /\ refreshing' \in [Processes -> Tasks \union {Nobody}]
        /\ refreshing'[ProcessOf(t)] = Nobody
        /\ \A u \in Tasks \ {t} : refreshing'[ProcessOf(u)] = u <=> refreshing[ProcessOf(u)] = u
    BY <1>0, <1>5, CredFacts DEF Release, CredInv, Typed, InRefresh
  <1> HIDE DEF again1
  <1>7. Quiet(t, r)
    BY <1>0, <1>2, <1>3, <1>4, <1>5, <1>6, CredFacts, FailTyped DEF Quiet, InRefresh, CredInv, Typed, SpentOnce
  <1> QED
    BY <1>7, QuietPreserves

(* A task that presents a token its own process has rotated before does so *)
(* because the successor was lost or it is unsettled: otherwise the successor would be on its *)
(* way, in the hands of a task that holds the process's lock.              *)
LEMMA PresentedAgain ==
    ASSUME CredInv, NEW t \in Tasks, task[t].at = "sending", Load # NoBundleGen
    PROVE  rotation[Load].by = ProcessOf(t) => Load \in lost \union unsettled
  <1> SUFFICES ASSUME rotation[Load].by = ProcessOf(t), Load \notin lost \union unsettled PROVE FALSE
    OBVIOUS
  <1>1. Load \in Generations /\ rotation[Load].by # Nobody
    BY CredFacts, GenerationsAre DEF NoBundleGen
  <1>2. PICK u \in Tasks : ProcessOf(u) = rotation[Load].by /\ OnItsWay(u, rotation[Load].to)
    BY <1>1 DEF CredInv, Succeeded
  <1>3. refreshing[ProcessOf(t)] = u /\ refreshing[ProcessOf(t)] = t
    BY <1>2, CredFacts DEF OnItsWay, InRefresh
  <1> QED
    BY <1>2, <1>3 DEF OnItsWay

LEMMA PresentPreserves ==
    ASSUME CredInv, NEW t \in Tasks, Present(t)
    PROVE  CredInv'
  <1> DEFINE g == Load
             h == issuer.issued + 1
             p == ProcessOf(t)
             refuse == [task[t] EXCEPT !.at = "refused"]
             store == [task[t] EXCEPT !.at = "storing", !.minted = h]
  <1>1. task[t].at = "sending" /\ UNCHANGED <<vault, indexed, keychainUp, changes, refreshing, due, unsettled>>
    BY DEF Present, storeVars
  <1>2. /\ refuse \in TaskStates /\ refuse.at = "refused" /\ refuse.bundle = task[t].bundle
        /\ refuse.minted = task[t].minted
        /\ refuse.dueAtStart = task[t].dueAtStart
    BY CredFacts DEF TaskStates, InRefresh
  <1>3. /\ task[t] \in TaskStates /\ task[t].dueAtStart \subseteq due /\ p \in Processes
        /\ refreshing[p] = t /\ refreshing \in [Processes -> Tasks \union {Nobody}]
    BY <1>1, CredFacts DEF CredInv, DueKept, Typed, InRefresh
  (* The token is refused: nothing of the store or the issuer changes. *)
  <1>4. ASSUME task' = [task EXCEPT ![t] = refuse], UNCHANGED <<issuer, rotation, lost>>,
               again' = again \/ (again' = again \union {g} /\ g \in lost \union unsettled), mishaps' \in 0..MaxMishaps
        PROVE  CredInv'
    <2>1. again' \subseteq Generations /\ again' \subseteq lost \union unsettled /\ indexed \in BOOLEAN
      <3>1. unsettled \subseteq Generations
        <4>1. unsettled \subseteq 1..issuer.issued
          BY DEF CredInv, Issued
        <4> QED
          BY <4>1, CredFacts, GenerationsAre DEF Generations
      <3> QED
        BY <1>4, <3>1 DEF CredInv, Typed, SpentOnce
    <2> HIDE DEF refuse
    <2>2. Quiet(t, refuse)
      BY <1>1, <1>2, <1>3, <1>4, <2>1, CredFacts DEF Quiet, InRefresh
    <2> QED
      BY <2>2, QuietPreserves
  (* The token is rotated: its successor is on its way, or lost. *)
  <1>5. ASSUME g # NoBundleGen, g \in issuer.live, h \in Generations,
               issuer' = [Issue EXCEPT !.live = @ \ {g}],
               rotation' = [rotation EXCEPT ![g] = [by |-> p, to |-> h]],
               again' = again \/ (again' = again \union {g} /\ g \in lost \union unsettled), mishaps' \in 0..MaxMishaps,
               \/ task' = [task EXCEPT ![t] = store] /\ lost' = lost
               \/ task' = [task EXCEPT ![t] = refuse] /\ lost' = lost \union {g}
        PROVE  CredInv'
    <2>1. g \in Generations /\ g \in 1..issuer.issued
      BY <1>5, CredFacts, GenerationsAre DEF NoBundleGen, CredInv, Issued
    <2>2. /\ store \in TaskStates /\ store.at = "storing" /\ store.minted = h
          /\ store.bundle = task[t].bundle /\ store.dueAtStart = task[t].dueAtStart
      BY <1>3, <1>5, GenerationsAre DEF TaskStates, InRefresh
    <2>3. issuer'.issued = h /\ issuer'.live = (issuer.live \union {h}) \ {g} /\ g # h
          /\ issuer' \in [live : SUBSET Generations, issued : Generations]
      BY <1>5, <2>1, CredFacts DEF Issue, CredInv, Typed
    <2> DEFINE r == IF lost' = lost /\ task' = [task EXCEPT ![t] = store] THEN store ELSE refuse
    <2>4. /\ task' = [task EXCEPT ![t] = r] /\ r \in {store, refuse}
          /\ r = refuse => lost' = lost \union {g}
          /\ lost \subseteq lost' /\ lost' \subseteq Generations
      BY <1>5, <2>1, <2>2, <1>2 DEF CredInv, Typed
    <2> HIDE DEF r, store, refuse
    <2>5. /\ r \in TaskStates /\ r.at \in {"storing", "refused"} /\ r.bundle <= h /\ r.minted <= h
          /\ r.dueAtStart = task[t].dueAtStart
          /\ r.at = "storing" => r.minted = h
          /\ r.at # "storing" => g \in lost'
      BY <1>2, <2>2, <2>4, CredFacts DEF TaskStates, Generations
    <2>6. /\ task' \in [Tasks -> TaskStates] /\ task'[t] = r
          /\ \A u \in Tasks \ {t} : task'[u] = task[u]
      BY <2>4, <2>5 DEF CredInv, Typed
    <2>7. /\ rotation' \in [Generations -> [by : Processes \union {Nobody}, to : 0..MaxGenerations]]
          /\ rotation'[g].by = p /\ rotation'[g].to = h
          /\ \A k \in Generations \ {g} : rotation'[k] = rotation[k]
      BY <1>3, <1>5, <2>1, GenerationsAre DEF CredInv, Typed
    <2>8. Load' = g
      BY <1>1 DEF Load, EnvLayer, KeychainLayer, FileLayer
    <2> HIDE DEF g, h, p
    <2>9. Typed'
      BY <1>1, <1>3, <1>5, <2>3, <2>4, <2>6, <2>7 DEF CredInv, Typed
    <2>10. issuer.issued \in Nat /\ h = issuer.issued + 1
      BY CredFacts DEF h
    <2>11. Issued'
      <3>1. \A l \in Layers : vault[l] \in Nat /\ vault[l] <= h
        BY <2>10, GenerationsAre DEF CredInv, Typed, Issued
      <3>2. \A u \in Tasks : task'[u].bundle <= h /\ task'[u].minted <= h
        BY <2>5, <2>6, <2>10, CredFacts, GenerationsAre DEF TaskStates
      <3>3. issuer'.live \subseteq 1..h /\ due \subseteq 1..h /\ unsettled \subseteq 1..h
        BY <2>3, <2>10 DEF CredInv, Issued
      <3> QED
        BY <1>1, <2>3, <3>1, <3>2, <3>3 DEF Issued
    <2>12. Locked'
      BY <1>1, <1>3, <2>5, <2>6, CredFacts DEF CredInv, Locked, InRefresh, p
    <2>13. Layered'
      BY <1>1 DEF CredInv, Layered
    <2>14. rotation[h].by = Nobody /\ h \notin issuer.live
      BY <1>5, <2>10 DEF CredInv, Unissued, Issued
    <2>15. Spent'
      <3> SUFFICES ASSUME NEW k \in 1..h
                   PROVE  rotation'[k].by = Nobody <=> k \in issuer'.live
        BY <2>3 DEF Spent
      <3>1. k \in Generations
        BY <1>5, <2>10, GenerationsAre DEF Generations
      <3>2. CASE k = g
        BY <1>3, <2>3, <2>7, <3>2, CredFacts DEF p
      <3>3. CASE k = h /\ k # g
        BY <2>3, <2>7, <2>14, <3>1, <3>3
      <3>4. CASE k # g /\ k # h
        <4>1. k \in 1..issuer.issued
          BY <2>10, <3>4
        <4> QED
          BY <2>3, <2>7, <3>1, <3>4, <4>1 DEF CredInv, Spent
      <3> QED
        BY <3>2, <3>3, <3>4
    <2>16. Unissued'
      <3> SUFFICES ASSUME NEW k \in Generations, k > h PROVE rotation'[k].by = Nobody
        BY <2>3 DEF Unissued
      <3>1. k # g /\ k > issuer.issued
        BY <2>1, <2>10 DEF Generations
      <3> QED
        BY <2>7, <3>1 DEF CredInv, Unissued
    <2>17. \A u \in Tasks : \A k : OnItsWay(u, k)' <=> (IF u = t THEN r.at = "storing" /\ k = h ELSE OnItsWay(u, k))
      BY <2>5, <2>6 DEF OnItsWay
    <2>18. \A l \in Layers : vault[l] # h
      BY <2>10 DEF CredInv, Issued, Typed
    <2>19. \A u \in Tasks \ {t}, k \in 0..MaxGenerations : OnItsWay(u, k) => k # h /\ k # g
      <3> SUFFICES ASSUME NEW u \in Tasks \ {t}, NEW k \in 0..MaxGenerations, OnItsWay(u, k)
                   PROVE  k # h /\ k # g
        OBVIOUS
      <3>1. k # h
        BY <2>14 DEF CredInv, Fresh
      <3>2. \E l \in Layers : g = vault[l]
        BY LoadIs DEF CredInv, g
      <3> QED
        BY <3>1, <3>2 DEF CredInv, Fresh
    <2>20. Fresh'
      <3>1. h # NoBundleGen /\ h \in issuer'.live
        BY <1>5, <2>3, GenerationsAre DEF NoBundleGen
      <3>2. ASSUME NEW u \in Tasks, NEW k \in 0..MaxGenerations, OnItsWay(u, k)'
            PROVE  k # NoBundleGen /\ k \in issuer'.live /\ \A l \in Layers : vault'[l] # k
        <4>1. CASE u = t
          BY <1>1, <2>17, <2>18, <3>1, <3>2, <4>1
        <4>2. CASE u # t
          <5>1. OnItsWay(u, k) /\ k # g
            BY <2>17, <2>19, <3>2, <4>2
          <5> QED
            BY <1>1, <2>3, <5>1 DEF CredInv, Fresh
        <4> QED
          BY <4>1, <4>2
      <3>3. ASSUME NEW u \in Tasks, NEW v \in Tasks, NEW k \in 0..MaxGenerations,
                   OnItsWay(u, k)', OnItsWay(v, k)'
            PROVE  u = v
        BY <2>17, <2>19, <3>3 DEF CredInv, Fresh
      <3> QED
        BY <3>2, <3>3 DEF Fresh
    <2>21. Succeeded'
      <3> SUFFICES ASSUME NEW k \in Generations, Load' = k, k \notin lost'
                   PROVE  \E u \in Tasks : /\ ProcessOf(u) = rotation'[k].by
                                        /\ task'[u].at = "storing" /\ task'[u].minted = rotation'[k].to
        BY DEF Succeeded, OnItsWay
      <3>1. r.at = "storing" /\ k = g
        BY <2>5, <2>8
      <3>2. task'[t].at = "storing" /\ task'[t].minted = h
        BY <2>5, <2>6, <3>1
      <3> QED
        BY <2>7, <3>1, <3>2 DEF p
    <2>22. DueKept' /\ SpentOnce' /\ ServedLive'
      <3>1. DueKept' /\ ServedLive'
        BY <1>1, <1>3, <2>5, <2>6 DEF CredInv, DueKept, ServedLive
      <3>2. SpentOnce'
        BY <1>1, <1>5, <2>4 DEF CredInv, SpentOnce
      <3> QED
        BY <3>1, <3>2
    <2> QED
      BY <2>9, <2>11, <2>12, <2>13, <2>15, <2>16, <2>20, <2>21, <2>22 DEF CredInv
  <1>6. mishaps \in 0..MaxMishaps /\ \A m : Trouble(m) => mishaps' \in 0..MaxMishaps
    BY CredentialsAssumption DEF CredInv, Typed, Trouble
  <1>7. CASE g = NoBundleGen
    <2>1. task' = [task EXCEPT ![t] = refuse] /\ UNCHANGED <<issuer, rotation, lost, again, mishaps>>
      BY <1>7 DEF Present
    <2> HIDE DEF refuse
    <2> QED
      BY <1>4, <1>6, <2>1
  <1>8. CASE g # NoBundleGen
    <2>1. again' = again \/ (again' = again \union {g} /\ g \in lost \union unsettled)
      BY <1>1, <1>8, PresentedAgain DEF Present
    <2>2. \/ /\ g \in issuer.live /\ issuer.issued < MaxGenerations
             /\ issuer' = [Issue EXCEPT !.live = @ \ {g}]
             /\ rotation' = [rotation EXCEPT ![g] = [by |-> p, to |-> h]]
             /\ \/ task' = [task EXCEPT ![t] = store] /\ UNCHANGED <<lost, mishaps>>
                \/ Trouble("lost") /\ lost' = lost \union {g} /\ task' = [task EXCEPT ![t] = refuse]
          \/ task' = [task EXCEPT ![t] = refuse] /\ UNCHANGED <<issuer, rotation, lost, mishaps>>
          \/ Trouble("refused") /\ task' = [task EXCEPT ![t] = refuse] /\ UNCHANGED <<issuer, rotation, lost>>
      BY <1>8 DEF Present
    <2>3. issuer.issued < MaxGenerations => h \in Generations
      BY CredFacts, GenerationsAre DEF Generations
    <2> HIDE DEF refuse, store, g, h, p
    <2> QED
      BY <1>4, <1>5, <1>6, <1>8, <2>1, <2>2, <2>3
  <1> QED
    BY <1>7, <1>8

(* The rotated bundle reaches one of the backends.                         *)
LEMMA StoredPreserves ==
    ASSUME CredInv, NEW t \in Tasks, Store(t), task'[t].at # "refused"
    PROVE  CredInv'
  <1> DEFINE h == task[t].minted
             a == IF StoreLayer = "keychain" THEN "indexing" ELSE "reloading"
             r == [task[t] EXCEPT !.at = a]
  <1>0. task[t] \in TaskStates /\ task \in [Tasks -> TaskStates]
    BY CredFacts DEF CredInv, Typed
  <1>1. /\ task[t].at = "storing" /\ vault' = [vault EXCEPT ![StoreLayer] = h]
        /\ task' = [task EXCEPT ![t] = r]
        /\ unsettled' = unsettled \union PassedBy
        /\ UNCHANGED <<indexed, keychainUp, changes, refreshing, issuer, due, rotation, lost, again, mishaps>>
    <2>1. ~(task' = [task EXCEPT ![t].at = "refused"])
      BY <1>0 DEF TaskStates
    <2> QED
      BY <2>1 DEF Store
  <1>2. /\ r \in TaskStates /\ r.at \in {"indexing", "reloading"} /\ r.minted = h
        /\ r.bundle = task[t].bundle /\ r.dueAtStart = task[t].dueAtStart
    <2>1. a \in {"indexing", "reloading"}
      OBVIOUS
    <2> HIDE DEF a
    <2> QED
      BY <1>0, <2>1 DEF TaskStates, InRefresh
  <1> HIDE DEF r
  <1>3. /\ task' \in [Tasks -> TaskStates] /\ task'[t] = r
        /\ \A u \in Tasks \ {t} : task'[u] = task[u]
    BY <1>1, <1>2 DEF CredInv, Typed
  <1>4. /\ h \in 0..MaxGenerations /\ h # NoBundleGen /\ h \in issuer.live
        /\ \A u \in Tasks \ {t} : ~OnItsWay(u, h)
        /\ h <= issuer.issued /\ h \in 1..issuer.issued
    <2>1. h \in 0..MaxGenerations /\ OnItsWay(t, h) /\ h <= issuer.issued
      BY <1>1, CredFacts DEF OnItsWay, TaskStates
    <2> HIDE DEF h
    <2> QED
      BY <2>1 DEF CredInv, Fresh, Issued
  <1>5. h \in Generations
    BY <1>4, GenerationsAre DEF NoBundleGen
  <1> HIDE DEF h
  <1>6. /\ vault' \in [Layers -> 0..MaxGenerations] /\ Layered' /\ Load' \in {h} \union PassedBy
        /\ \A l \in Layers : vault'[l] \in {vault[l], h}
    BY <1>1, <1>5, StoreLayerIs, WrittenLoads DEF CredInv
  <1>6a. PassedBy \subseteq 1..issuer.issued
    <2>1. \A g \in PassedBy : g \in Generations /\ g = Load
      BY GenerationsAre, LoadIs DEF PassedBy, NoBundleGen, CredInv, KeychainLayer
    <2> QED
      BY <2>1, CredFacts DEF Generations
  <1>7. Typed'
    BY <1>1, <1>3, <1>6 DEF CredInv, Typed
  <1>8. Issued'
    <2>1. \A u \in Tasks : task'[u].bundle <= issuer.issued /\ task'[u].minted <= issuer.issued
      BY <1>2, <1>3, <1>4, CredFacts
    <2>2. \A l \in Layers : vault'[l] <= issuer.issued
      BY <1>4, <1>6 DEF CredInv, Issued
    <2>3. unsettled' \subseteq 1..issuer.issued
      BY <1>1, <1>6a DEF CredInv, Issued
    <2> QED
      BY <1>1, <2>1, <2>2, <2>3 DEF CredInv, Issued
  <1>9. Locked'
    BY <1>1, <1>2, <1>3 DEF CredInv, Locked, InRefresh
  <1>10. Spent' /\ Unissued'
    BY <1>1 DEF CredInv, Spent, Unissued
  <1>11. \A u \in Tasks : \A k : OnItsWay(u, k)' <=> (u # t /\ OnItsWay(u, k))
    BY <1>2, <1>3 DEF OnItsWay
  <1>12. Fresh'
    <2>1. ASSUME NEW u \in Tasks, NEW k \in 0..MaxGenerations, OnItsWay(u, k)'
          PROVE  k # NoBundleGen /\ k \in issuer'.live /\ \A l \in Layers : vault'[l] # k
      <3>1. OnItsWay(u, k) /\ k # h
        BY <1>4, <1>11, <2>1
      <3> QED
        BY <1>1, <1>6, <3>1 DEF CredInv, Fresh
    <2> QED
      BY <1>11, <2>1 DEF CredInv, Fresh
  <1>13. Succeeded'
    <2>1. rotation'[h].by = Nobody
      BY <1>1, <1>4 DEF CredInv, Spent
    <2>2. PassedBy \subseteq unsettled'
      BY <1>1
    <2> QED
      BY <1>6, <2>1, <2>2 DEF Succeeded
  <1>14. DueKept' /\ SpentOnce' /\ ServedLive'
    BY <1>1, <1>2, <1>3 DEF CredInv, DueKept, SpentOnce, ServedLive
  <1> QED
    BY <1>6, <1>7, <1>8, <1>9, <1>10, <1>12, <1>13, <1>14 DEF CredInv

(* The rotated bundle reaches none: it is lost.                            *)
LEMMA UnsavedPreserves ==
    ASSUME CredInv, NEW t \in Tasks, Store(t), task'[t].at = "refused"
    PROVE  CredInv'
  <1> DEFINE r == [task[t] EXCEPT !.at = "refused"]
  <1>0. task[t] \in TaskStates /\ task \in [Tasks -> TaskStates]
    BY CredFacts DEF CredInv, Typed
  <1>1. /\ task[t].at = "storing" /\ task' = [task EXCEPT ![t] = r]
        /\ lost' = lost \union Predecessors(t)
        /\ UNCHANGED <<vault, indexed, keychainUp, changes, refreshing, issuer, due, rotation, unsettled, again>>
    <2>1. ~(task' = [task EXCEPT ![t].at = IF StoreLayer = "keychain" THEN "indexing" ELSE "reloading"])
      BY <1>0 DEF TaskStates
    <2> QED
      BY <2>1 DEF Store
  <1>1a. mishaps' \in 0..MaxMishaps
    <2>1. mishaps' = mishaps \/ (mishaps < MaxMishaps /\ mishaps' = mishaps + 1)
      BY DEF Store, Trouble
    <2> QED
      BY <2>1, CredentialsAssumption DEF CredInv, Typed
  <1>2. /\ r \in TaskStates /\ r.at = "refused" /\ r.minted = task[t].minted
        /\ r.bundle = task[t].bundle /\ r.dueAtStart = task[t].dueAtStart
    BY <1>0 DEF TaskStates, InRefresh
  <1> HIDE DEF r
  <1>3. /\ task' \in [Tasks -> TaskStates] /\ task'[t] = r
        /\ \A u \in Tasks \ {t} : task'[u] = task[u]
    BY <1>0, <1>1, <1>2
  <1>4. /\ lost \subseteq lost' /\ lost' \subseteq Generations
        /\ \A g \in Generations : OnItsWay(t, rotation[g].to) => g \in lost'
    BY <1>1 DEF Predecessors, OnItsWay, CredInv, Typed
  <1>5. Load' = Load
    BY <1>1 DEF Load, EnvLayer, KeychainLayer, FileLayer
  <1>6. Typed'
    BY <1>1, <1>1a, <1>3, <1>4 DEF CredInv, Typed
  <1>7. Issued'
    BY <1>1, <1>2, <1>3, CredFacts DEF CredInv, Issued
  <1>8. Locked'
    BY <1>1, <1>2, <1>3 DEF CredInv, Locked, InRefresh
  <1>9. Layered' /\ Spent' /\ Unissued'
    BY <1>1 DEF CredInv, Layered, Spent, Unissued
  <1>10. \A u \in Tasks : \A k : OnItsWay(u, k)' <=> (u # t /\ OnItsWay(u, k))
    BY <1>2, <1>3 DEF OnItsWay
  <1>11. Fresh'
    BY <1>1, <1>10 DEF CredInv, Fresh
  <1>12. Succeeded'
    <2> SUFFICES ASSUME NEW k \in Generations, Load' = k, rotation'[k].by # Nobody, k \notin lost' \union unsettled'
                 PROVE  \E u \in Tasks : /\ ProcessOf(u) = rotation'[k].by
                                         /\ task'[u].at = "storing" /\ task'[u].minted = rotation'[k].to
      BY DEF Succeeded, OnItsWay
    <2>1. PICK u \in Tasks : ProcessOf(u) = rotation[k].by /\ OnItsWay(u, rotation[k].to)
      BY <1>1, <1>4, <1>5 DEF CredInv, Succeeded
    <2>2. u # t
      BY <1>4, <2>1
    <2> QED
      BY <1>1, <1>3, <2>1, <2>2 DEF OnItsWay
  <1>13. DueKept' /\ SpentOnce' /\ ServedLive'
    BY <1>1, <1>2, <1>3, <1>4 DEF CredInv, DueKept, SpentOnce, ServedLive
  <1> QED
    BY <1>6, <1>7, <1>8, <1>9, <1>11, <1>12, <1>13 DEF CredInv

LEMMA StorePreserves ==
    ASSUME CredInv, NEW t \in Tasks, Store(t)
    PROVE  CredInv'
  BY StoredPreserves, UnsavedPreserves

(* A login stores a bundle nobody has seen, in front of the others or      *)
(* behind them.                                                            *)
LEMMA LoginPreserves ==
    ASSUME CredInv, NEW mode \in {"auto", "keychain", "file"}, Login(mode)
    PROVE  CredInv'
  <1>0. PICK h : h = issuer.issued + 1
    OBVIOUS
  <1>1. /\ issuer.issued < MaxGenerations
        /\ vault' = [vault EXCEPT ![LoginLayer(mode)] = h]
        /\ UNCHANGED <<keychainUp, changes, task, refreshing, due, rotation, lost, unsettled, again>>
    BY <1>0 DEF Login
  <1>1a. indexed' \in BOOLEAN /\ mishaps' \in 0..MaxMishaps
    <2>1. mishaps' = mishaps \/ (mishaps < MaxMishaps /\ mishaps' = mishaps + 1)
      BY DEF Login, Trouble
    <2>2. mishaps' \in 0..MaxMishaps
      BY <2>1, CredentialsAssumption DEF CredInv, Typed
    <2>3. indexed' \in BOOLEAN
      BY DEF Login, CredInv, Typed
    <2> QED
      BY <2>2, <2>3
  <1>2. h \in Generations /\ issuer.issued \in Nat /\ issuer.issued \in Generations
    BY <1>0, <1>1, CredFacts, GenerationsAre DEF Generations
  <1>3. /\ issuer'.issued = h /\ issuer'.live = issuer.live \union {h}
        /\ issuer' \in [live : SUBSET Generations, issued : Generations]
    BY <1>0, <1>2 DEF Login, Issue, CredInv, Typed
  <1>4. LoginLayer(mode) \in {"keychain", "file"}
    BY StoreLayerIs DEF LoginLayer
  <1>5. /\ vault' \in [Layers -> 0..MaxGenerations] /\ Layered' /\ Load' \in {Load, h}
        /\ \A l \in Layers : vault'[l] \in {vault[l], h}
    BY <1>1, <1>2, <1>4, WrittenLoads DEF CredInv
  <1>6. Typed'
    BY <1>1, <1>1a, <1>3, <1>5 DEF CredInv, Typed
  <1>7. Issued'
    <2>1. \A l \in Layers : vault[l] \in Nat /\ vault[l] <= h
      BY <1>0, <1>2, GenerationsAre DEF CredInv, Typed, Issued
    <2>2. \A l \in Layers : vault'[l] <= h
      BY <1>2, <1>5, <2>1 DEF Generations
    <2>3. \A u \in Tasks : task[u].bundle <= h /\ task[u].minted <= h
      BY <1>0, <1>2, CredFacts, GenerationsAre DEF TaskStates
    <2>4. issuer'.live \subseteq 1..h /\ due \subseteq 1..h /\ unsettled \subseteq 1..h
      BY <1>0, <1>2, <1>3 DEF CredInv, Issued
    <2> QED
      BY <1>1, <1>3, <2>2, <2>3, <2>4 DEF Issued
  <1>8. Locked'
    BY <1>1 DEF CredInv, Locked
  <1>9. rotation[h].by = Nobody
    BY <1>0, <1>2 DEF CredInv, Unissued
  <1>10. Spent'
    <2> SUFFICES ASSUME NEW k \in 1..h PROVE rotation[k].by = Nobody <=> k \in issuer'.live
      BY <1>1, <1>3 DEF Spent
    <2>1. CASE k = h
      BY <1>3, <1>9, <2>1
    <2>2. CASE k # h
      <3>1. k \in 1..issuer.issued
        BY <1>0, <1>2, <2>2
      <3> QED
        BY <1>3, <2>2, <3>1 DEF CredInv, Spent
    <2> QED
      BY <2>1, <2>2
  <1>11. Unissued'
    <2> SUFFICES ASSUME NEW k \in Generations, k > h PROVE rotation[k].by = Nobody
      BY <1>1, <1>3 DEF Unissued
    <2>1. k > issuer.issued
      BY <1>0, <1>2 DEF Generations
    <2> QED
      BY <2>1 DEF CredInv, Unissued
  <1>12. \A u \in Tasks : \A k : OnItsWay(u, k)' <=> OnItsWay(u, k)
    BY <1>1 DEF OnItsWay
  <1>13. h \notin issuer.live
    BY <1>0, <1>2 DEF CredInv, Issued
  <1>14. Fresh'
    BY <1>3, <1>5, <1>12, <1>13 DEF CredInv, Fresh
  <1>15. Succeeded'
    <2> SUFFICES ASSUME NEW k \in Generations, Load' = k, rotation[k].by # Nobody, k \notin lost \union unsettled
                 PROVE  \E u \in Tasks : ProcessOf(u) = rotation[k].by /\ OnItsWay(u, rotation[k].to)
      BY <1>1 DEF Succeeded, OnItsWay
    <2>1. Load = k
      BY <1>5, <1>9
    <2> QED
      BY <2>1 DEF CredInv, Succeeded
  <1>16. DueKept' /\ SpentOnce' /\ ServedLive'
    BY <1>1 DEF CredInv, DueKept, SpentOnce, ServedLive
  <1> QED
    BY <1>5, <1>6, <1>7, <1>8, <1>10, <1>11, <1>14, <1>15, <1>16 DEF CredInv

(* A logout leaves nothing that could be handed out.                       *)
LEMMA LogoutPreserves ==
    ASSUME CredInv, Logout
    PROVE  CredInv'
  <1>1. /\ UNCHANGED <<keychainUp, changes, task, refreshing, issuer, due, rotation, lost, unsettled, again, mishaps>>
        /\ indexed' \in BOOLEAN
    BY DEF Logout
  <1>2. /\ vault' \in [Layers -> 0..MaxGenerations]
        /\ vault'.env = vault.env /\ vault'.file = 0
        /\ vault'.keychain = IF keychainUp THEN 0 ELSE vault.keychain
        /\ \A l \in Layers : vault'[l] \in {vault[l], 0}
    <2> DEFINE k == IF keychainUp THEN 0 ELSE vault.keychain
    <2>1. vault' = [vault EXCEPT !.keychain = k, !.file = 0]
      BY DEF Logout, Deleted, NoBundleGen
    <2>2. vault \in [Layers -> 0..MaxGenerations] /\ k \in {vault.keychain, 0}
          /\ vault.keychain \in 0..MaxGenerations /\ 0 \in 0..MaxGenerations
      BY GenerationsAre DEF CredInv, Typed, Layers
    <2> HIDE DEF k
    <2>3. \A l \in Layers : vault'[l] = CASE l = "env" -> vault.env [] l = "keychain" -> k [] l = "file" -> 0
      BY <2>1, <2>2 DEF Layers
    <2>4. vault' \in [Layers -> 0..MaxGenerations]
      BY <2>1, <2>2 DEF Layers
    <2> QED
      BY <2>2, <2>3, <2>4 DEF Layers, k
  <1>3. Layered' /\ Load' = NoBundleGen
    BY <1>1, <1>2 DEF CredInv, Layered, Load, EnvLayer, KeychainLayer, FileLayer, NoBundleGen
  <1>4. Typed'
    BY <1>1, <1>2 DEF CredInv, Typed
  <1>5. Issued'
    BY <1>1, <1>2, CredFacts DEF CredInv, Issued
  <1>6. Locked' /\ Spent' /\ Unissued' /\ DueKept' /\ SpentOnce' /\ ServedLive'
    BY <1>1 DEF CredInv, Locked, Spent, Unissued, DueKept, SpentOnce, ServedLive
  <1>7. Fresh'
    <2>1. \A u \in Tasks : \A k : OnItsWay(u, k)' <=> OnItsWay(u, k)
      BY <1>1 DEF OnItsWay
    <2> QED
      BY <1>1, <1>2, <2>1 DEF CredInv, Fresh, NoBundleGen
  <1>8. Succeeded'
    BY <1>3, GenerationsAre DEF Succeeded, NoBundleGen
  <1> QED
    BY <1>3, <1>4, <1>5, <1>6, <1>7, <1>8 DEF CredInv

(* What came into question all at once: the keychain, or the entry that a  *)
(* logout left in front.                                                   *)
LEMMA UnsettlingPreserves ==
    ASSUME CredInv, LogoutHalf \/ KeychainTurns
    PROVE  CredInv'
  <1>1. /\ UNCHANGED <<task, refreshing, issuer, due, rotation, lost, again>>
        /\ unsettled' = 1..issuer.issued
    BY DEF LogoutHalf, KeychainTurns
  <1>2. /\ vault' \in [Layers -> 0..MaxGenerations] /\ vault'.env = vault.env
        /\ \A l \in Layers : vault'[l] \in {vault[l], 0}
    <2>1. vault' = vault \/ vault' = [vault EXCEPT !.keychain = 0]
      BY DEF LogoutHalf, KeychainTurns, NoBundleGen
    <2> QED
      BY <2>1, GenerationsAre DEF CredInv, Typed, Layers
  <1>3. /\ keychainUp' \in BOOLEAN /\ indexed' \in BOOLEAN
        /\ changes' \in 0..MaxChanges /\ mishaps' \in 0..MaxMishaps
    <2>1. mishaps' = mishaps \/ (mishaps < MaxMishaps /\ mishaps' = mishaps + 1)
      BY DEF LogoutHalf, KeychainTurns, Trouble
    <2>2. changes' = changes \/ (changes < MaxChanges /\ changes' = changes + 1)
      BY DEF LogoutHalf, KeychainTurns
    <2>3. mishaps' \in 0..MaxMishaps /\ changes' \in 0..MaxChanges
      BY <2>1, <2>2, CredentialsAssumption DEF CredInv, Typed
    <2>4. keychainUp' \in BOOLEAN /\ indexed' \in BOOLEAN
      BY DEF LogoutHalf, KeychainTurns, CredInv, Typed
    <2> QED
      BY <2>3, <2>4
  <1>4. Typed' /\ Layered'
    BY <1>1, <1>2, <1>3, CredFacts DEF CredInv, Typed, Layered
  <1>5. Issued'
    BY <1>1, <1>2, CredFacts DEF CredInv, Issued
  <1>6. Locked' /\ Spent' /\ Unissued' /\ DueKept' /\ ServedLive'
    BY <1>1 DEF CredInv, Locked, Spent, Unissued, DueKept, ServedLive
  <1>7. SpentOnce'
    BY <1>1 DEF CredInv, SpentOnce, Issued
  <1>8. Fresh'
    <2>1. \A u \in Tasks : \A k : OnItsWay(u, k)' <=> OnItsWay(u, k)
      BY <1>1 DEF OnItsWay
    <2> QED
      BY <1>1, <1>2, <2>1 DEF CredInv, Fresh, NoBundleGen
  <1>9. Succeeded'
    <2> SUFFICES ASSUME NEW k \in Generations, Load' = k PROVE k \in unsettled'
      BY DEF Succeeded
    <2>1. \E l \in Layers : k = vault'[l]
      BY DEF Load, EnvLayer, KeychainLayer, FileLayer, Layers, NoBundleGen, Generations
    <2>2. k <= issuer.issued
      BY <1>1, <1>5, <2>1 DEF Issued
    <2> QED
      BY <1>1, <2>2, CredFacts DEF Generations
  <1> QED
    BY <1>4, <1>5, <1>6, <1>7, <1>8, <1>9 DEF CredInv

(* Time passes.                                                            *)
LEMMA ExpirePreserves ==
    ASSUME CredInv, NEW g \in Generations, Expire(g)
    PROVE  CredInv'
  <1>1. /\ g \in 1..issuer.issued /\ due' = due \union {g}
        /\ UNCHANGED <<vault, indexed, keychainUp, changes, task, refreshing, issuer, rotation, lost, unsettled, again, mishaps>>
    BY DEF Expire, storeVars
  <1>2. Load' = Load
    BY <1>1 DEF Load, EnvLayer, KeychainLayer, FileLayer
  <1>3. \A u \in Tasks : \A k : OnItsWay(u, k)' <=> OnItsWay(u, k)
    BY <1>1 DEF OnItsWay
  <1>4. Typed' /\ Issued' /\ Locked' /\ Layered' /\ Spent' /\ Unissued'
    BY <1>1 DEF CredInv, Typed, Issued, Locked, Layered, Spent, Unissued
  <1>5. Fresh' /\ Succeeded'
    BY <1>1, <1>2, <1>3 DEF CredInv, Fresh, Succeeded
  <1>6. DueKept' /\ SpentOnce' /\ ServedLive'
    BY <1>1 DEF CredInv, DueKept, SpentOnce, ServedLive
  <1> QED
    BY <1>4, <1>5, <1>6 DEF CredInv

(* A process dies: the bundle it had on its way is lost.                   *)
LEMMA DiePreserves ==
    ASSUME CredInv, NEW p \in Processes, Die(p)
    PROVE  CredInv'
  <1>1. /\ UNCHANGED <<vault, indexed, keychainUp, changes, issuer, due, rotation, unsettled, again>>
        /\ mishaps' \in 0..MaxMishaps
    BY CredentialsAssumption DEF Die, Trouble, CredInv, Typed, storeVars
  <1>2. /\ task' \in [Tasks -> TaskStates]
        /\ \A u \in Tasks : task'[u] = IF ProcessOf(u) = p THEN Idle ELSE task[u]
    BY IdleTaskTyped DEF Die, CredInv, Typed
  <1>3. /\ refreshing' \in [Processes -> Tasks \union {Nobody}]
        /\ refreshing'[p] = Nobody /\ \A q \in Processes \ {p} : refreshing'[q] = refreshing[q]
    BY DEF Die, CredInv, Typed
  <1>4. /\ lost \subseteq lost' /\ lost' \subseteq Generations
        /\ \A g \in Generations, u \in Tasks :
             ProcessOf(u) = p /\ OnItsWay(u, rotation[g].to) => g \in lost'
    BY DEF Die, Predecessors, CredInv, Typed, OnItsWay
  <1>5. Load' = Load
    BY <1>1 DEF Load, EnvLayer, KeychainLayer, FileLayer
  <1>6. Typed'
    BY <1>1, <1>2, <1>3, <1>4 DEF CredInv, Typed
  <1>7. Issued'
    BY <1>1, <1>2, IdleTaskTyped, CredFacts DEF CredInv, Issued
  <1>8. Locked'
    BY <1>2, <1>3, IdleTaskTyped, CredFacts DEF Locked, InRefresh
  <1>9. Layered' /\ Spent' /\ Unissued'
    BY <1>1 DEF CredInv, Layered, Spent, Unissued
  <1>10. \A u \in Tasks : \A k : OnItsWay(u, k)' <=> (ProcessOf(u) # p /\ OnItsWay(u, k))
    BY <1>2, IdleTaskTyped DEF OnItsWay
  <1>11. Fresh'
    BY <1>1, <1>10 DEF CredInv, Fresh
  <1>12. Succeeded'
    <2> SUFFICES ASSUME NEW k \in Generations, Load' = k, rotation'[k].by # Nobody, k \notin lost' \union unsettled'
                 PROVE  \E u \in Tasks : /\ ProcessOf(u) = rotation'[k].by
                                         /\ task'[u].at = "storing" /\ task'[u].minted = rotation'[k].to
      BY DEF Succeeded, OnItsWay
    <2>1. PICK u \in Tasks : ProcessOf(u) = rotation[k].by /\ OnItsWay(u, rotation[k].to)
      BY <1>1, <1>4, <1>5 DEF CredInv, Succeeded
    <2>2. ProcessOf(u) # p
      BY <1>4, <2>1
    <2> QED
      BY <1>1, <1>2, <2>1, <2>2 DEF OnItsWay
  <1>13. DueKept' /\ SpentOnce' /\ ServedLive'
    BY <1>1, <1>2, <1>4, IdleTaskTyped DEF CredInv, DueKept, SpentOnce, ServedLive
  <1> QED
    BY <1>6, <1>7, <1>8, <1>9, <1>11, <1>12, <1>13 DEF CredInv

LEMMA CredStep == CredInv /\ [CredNext]_credVars => CredInv'
  <1> SUFFICES ASSUME CredInv, [CredNext]_credVars PROVE CredInv'
    OBVIOUS
  <1>1. CASE UNCHANGED credVars
    <2>1. /\ Load' = Load /\ \A u \in Tasks : \A k : OnItsWay(u, k)' <=> OnItsWay(u, k)
      BY <1>1 DEF credVars, storeVars, Load, EnvLayer, KeychainLayer, FileLayer, OnItsWay
    <2>2. Typed' /\ Issued' /\ Locked' /\ Layered' /\ Spent' /\ Unissued'
      BY <1>1 DEF credVars, storeVars, CredInv, Typed, Issued, Locked, Layered, Spent, Unissued
    <2>3. Fresh' /\ Succeeded'
      BY <1>1, <2>1 DEF credVars, CredInv, Fresh, Succeeded
    <2>4. DueKept' /\ SpentOnce' /\ ServedLive'
      BY <1>1 DEF credVars, storeVars, CredInv, DueKept, SpentOnce, ServedLive
    <2> QED
      BY <2>2, <2>3, <2>4 DEF CredInv
  <1>2. ASSUME NEW t \in Tasks, Resolve(t) \/ LockAndRecheck(t) \/ Present(t)
                                \/ Store(t) \/ Index(t) \/ Reload(t) \/ Recover(t)
        PROVE  CredInv'
    BY <1>2, ResolvePreserves, LockPreserves, PresentPreserves, StorePreserves, IndexPreserves, ReleasePreserves
  <1>3. ASSUME NEW mode \in {"auto", "keychain", "file"}, Login(mode) PROVE CredInv'
    BY <1>3, LoginPreserves
  <1>4. CASE Logout
    BY <1>4, LogoutPreserves
  <1>4a. CASE LogoutHalf \/ KeychainTurns
    BY <1>4a, UnsettlingPreserves
  <1>5. ASSUME NEW g \in Generations, Expire(g) PROVE CredInv'
    BY <1>5, ExpirePreserves
  <1>6. ASSUME NEW p \in Processes, Die(p) PROVE CredInv'
    BY <1>6, DiePreserves
  <1> QED
    BY <1>1, <1>2, <1>3, <1>4, <1>4a, <1>5, <1>6 DEF CredNext

(***************************************************************************)
(* The theorems                                                            *)
(***************************************************************************)

LEMMA CredInvariant == ~EnvBundle => (CredSpec => []CredInv)
  <1> SUFFICES ASSUME ~EnvBundle PROVE CredSpec => []CredInv
    OBVIOUS
  <1>1. CredInit => CredInv
    BY CredInitInv
  <1> QED
    BY <1>1, CredStep, PTL DEF CredSpec

LEMMA CredTyped == CredInv => CredTypeOK
  <1> SUFFICES ASSUME CredInv PROVE CredTypeOK
    OBVIOUS
  <1>1. issuer.issued \in Generations /\ issuer.issued \in Nat
    BY CredFacts
  <1>2. \A t \in Tasks :
         /\ task[t].at \in {"idle", "waiting", "sending", "storing", "indexing", "refused",
                            "reloading", "served", "failed"}
         /\ task[t].bundle \in 0..issuer.issued /\ task[t].minted \in 0..issuer.issued
         /\ task[t].served \in {"none", "source", "bundle", "refreshed"}
         /\ refreshing[ProcessOf(t)] = t =>
              task[t].at \in {"sending", "storing", "indexing", "refused", "reloading"}
    BY <1>1, CredFacts, GenerationsAre DEF TaskStates, InRefresh
  <1> QED
    BY <1>1, <1>2 DEF CredInv, Typed, Issued, CredTypeOK

(* While nobody refreshes, no successor is on its way, so the bundle that  *)
(* the store hands out is unspent, unsettled, or its successor was lost.   *)
LEMMA CredUsable == CredInv => StoredUsable
  <1> SUFFICES ASSUME CredInv, \A p \in Processes : refreshing[p] = Nobody, Load # NoBundleGen
               PROVE  Load \in issuer.live \union lost \union unsettled
    BY DEF StoredUsable
  <1>1. Load \in Generations /\ Load \in 1..issuer.issued
    BY CredFacts, GenerationsAre DEF NoBundleGen
  <1>2. \A t \in Tasks : \A g : ~OnItsWay(t, g)
    BY CredFacts DEF OnItsWay, InRefresh
  <1>3. rotation[Load].by = Nobody \/ Load \in lost \union unsettled
    BY <1>1, <1>2 DEF CredInv, Succeeded
  <1> QED
    BY <1>1, <1>3 DEF CredInv, Spent

\* A process never presents a refresh token that one of its own requests
\* rotated, unless its successor was lost before it was stored or the token is
\* unsettled: the keychain was locked or unlocked, or a logout failed half-way,
\* since it was issued, or its successor went to the file past an entry that
\* the keychain's index does not list (refresh_chatgpt_token_bundle under
\* oauth_refresh_lock, AutoStore.load and AutoStore.store). The bundle must not
\* be exported in the environment, where no refresh replaces it.
THEOREM CredSpentOnce == ~EnvBundle => (CredSpec => []SpentOnce)
  <1>1. CredInv => SpentOnce
    BY DEF CredInv
  <1> QED
    BY <1>1, CredInvariant, PTL

\* While no refresh is under way the stored bundle can still be refreshed, and
\* no resolution serves a bundle that was due before it began (resolve_fresh,
\* AutoStore.load and AutoStore.store), under the same condition.
THEOREM CredBundlesServed == ~EnvBundle => (CredSpec => []BundlesServed)
  <1>1. CredInv => BundlesServed
    BY CredTyped, CredUsable DEF BundlesServed, CredInv
  <1> QED
    BY <1>1, CredInvariant, PTL

(***************************************************************************)
(* The settings: the inductive invariant                                   *)
(***************************************************************************)

Conns == {FirstSettings.conn} \union {p.conn : p \in Patches}
Models == {FirstSettings.model} \union {p.model : p \in Patches}
Modes == {FirstSettings.mode} \union {p.mode : p \in Patches}
RunModels == Models \union UNION {{c[x] : x \in DOMAIN c} : c \in Configurations}

Revisions == [conn : Conns, model : Models, mode : Modes, patch : Patches \union {FirstSettings}]

Ran == [conn : Conns \union {Keep}, model : RunModels \union {Keep}, mode : Modes \union {Keep}]

Started == [source : {"message", "steer", "queued", "resumed", "wake"}, rev : Nat,
            conn : Conns, model : RunModels, due : Nat, ran : Ran]

Requests == [pc : {"idle", "resolve", "commit", "steer"}, rev : Nat, conn : Conns \union {Keep},
             model : RunModels \union {Keep}, tries : 0..(MaxRetries - 1)]

Workers == [pc : {"idle", "preflight", "running", "steers", "claimSteers", "queue", "claimQueue"},
            steers : Seq(Nat), head : Nat, conn : Conns \union {Keep}, model : RunModels \union {Keep}]

Updates == [pc : {"idle", "commit"}, rev : Nat, patch : Patches \union {Untouched}]

(* conn and model are what revision r means to the running process.        *)
Resolved(r, conn, model) ==
    /\ r \in 1..Current
    /\ IsConfigured(r)
    /\ conn = ResolveTurnSettings(r).conn
    /\ model = ResolveTurnSettings(r).model

RevisionsOK ==
    /\ configured \in Configurations
    /\ revisions \in Seq(Revisions) /\ Len(revisions) \in Nat \ {0}
    /\ UpdatesKept

(* A turn has the revision it is owed, and ran with what it recorded.      *)
TurnOK(t) ==
    /\ t.rev \in 1..Current
    /\ t.rev = t.due
    /\ t.conn = SettingsSnapshot(t.rev).conn
    /\ t.ran # Untouched => /\ t.ran.conn = t.conn /\ t.ran.model = t.model
                            /\ t.ran.mode = SettingsSnapshot(t.rev).mode

StartedOK ==
    /\ started \in Seq(Started) /\ Len(started) \in Nat
    /\ \A i \in 1..Len(started) : TurnOK(started[i])

QueuesOK ==
    /\ waiting \in Seq([rev : Nat, due : Nat]) /\ Len(waiting) \in Nat
    /\ \A i \in 1..Len(waiting) : waiting[i].rev \in 1..Current /\ waiting[i].rev = waiting[i].due
    /\ steering \in Seq(Nat) /\ Len(steering) \in Nat
    /\ \A i \in 1..Len(steering) : steering[i] \in 1..Current
    /\ settingsUsed \in [requests : Nat, wakes : 0..MaxWakes, restarts : Nat]
    /\ mailbox \in 0..settingsUsed.wakes

PatchersOK ==
    /\ patcher \in [Patchers -> Updates]
    /\ \A u \in Patchers : patcher[u].pc = "commit" => patcher[u].patch \in Patches

(* A request that is about to commit still holds what its revision means.  *)
RequestOK(q) ==
    /\ q.rev \in 0..Current
    /\ q.pc \in {"resolve", "steer"} => q.rev # 0
    /\ q.pc = "commit" => Resolved(q.rev, q.conn, q.model)

SendersOK == sender \in [Senders -> Requests] /\ \A c \in Senders : RequestOK(sender[c])

WakerOK ==
    /\ waker \in Requests /\ RequestOK(waker)
    /\ waker.pc = "commit" => mailbox # 0

(* While a turn sleeps no other turn can start, so the one a resumption    *)
(* has read stays the one that sleeps.                                     *)
ResumerOK ==
    /\ resumer \in Requests /\ RequestOK(resumer)
    /\ asleep \in 0..Len(started)
    /\ asleep # 0 => worker.pc = "idle"
    /\ resumer.pc = "commit" => asleep # 0 /\ resumer.rev = started[asleep].rev

(* What the worker read of the steers and of the queue is still there when *)
(* it claims: the head of the queue leaves only with its claim.            *)
WorkerOK ==
    /\ worker \in Workers
    /\ turnNow \in 0..Len(started)
    /\ turnNow # 0 <=> worker.pc \in {"preflight", "running"}
    /\ worker.pc = "preflight" =>
         Resolved(started[turnNow].rev, started[turnNow].conn, started[turnNow].model)
    /\ worker.pc = "claimSteers" =>
         /\ worker.steers # <<>>
         /\ Resolved(Last(worker.steers), worker.conn, worker.model)
    /\ worker.pc = "claimQueue" =>
         /\ waiting # <<>> /\ worker.head = Head(waiting).rev
         /\ Resolved(worker.head, worker.conn, worker.model)

SettingsInv ==
    /\ RevisionsOK /\ StartedOK /\ QueuesOK /\ PatchersOK
    /\ SendersOK /\ WakerOK /\ ResumerOK /\ WorkerOK

(***************************************************************************)
(* Revisions                                                               *)
(***************************************************************************)

(* What a revision resolves to, and that the process can call it.          *)
LEMMA ResolveSound ==
    ASSUME RevisionsOK, NEW r \in 1..Current, IsConfigured(r)
    PROVE  /\ Resolved(r, ResolveTurnSettings(r).conn, ResolveTurnSettings(r).model)
           /\ ResolveTurnSettings(r).conn \in Conns
           /\ ResolveTurnSettings(r).model \in RunModels
           /\ ResolveTurnSettings(r).conn = SettingsSnapshot(r).conn
  <1>1. Resolved(r, ResolveTurnSettings(r).conn, ResolveTurnSettings(r).model)
    BY DEF Resolved
  <1>2. revisions[r] \in Revisions
    BY ElementOfSeq DEF RevisionsOK, Current
  <1>3. revisions[r].conn \in Conns /\ revisions[r].model \in Models
    BY <1>2 DEF Revisions
  <1>4. revisions[r].conn \in DOMAIN configured => configured[revisions[r].conn] \in RunModels
    BY DEF RunModels, RevisionsOK
  <1> QED
    BY <1>1, <1>3, <1>4 DEF ResolveTurnSettings, SettingsSnapshot, Bare, IsConfigured, RunModels

(* A revision never changes once it is recorded.                           *)
LEMMA RevisionsAppend ==
    ASSUME RevisionsOK, NEW x \in Revisions, revisions' = Append(revisions, x),
           configured' = configured
    PROVE  /\ revisions' \in Seq(Revisions)
           /\ Current' = Current + 1 /\ Current \in Nat
           /\ revisions'[Current + 1] = x
           /\ \A i \in 1..Current : revisions'[i] = revisions[i]
           /\ \A r, conn, model : Resolved(r, conn, model) => Resolved(r, conn, model)'
           /\ \A t : TurnOK(t) => TurnOK(t)'
           /\ \A q : RequestOK(q) => RequestOK(q)'
  <1>1. /\ revisions' \in Seq(Revisions)
        /\ Current' = Current + 1 /\ Current \in Nat
        /\ revisions'[Current + 1] = x
        /\ \A i \in 1..Current : revisions'[i] = revisions[i]
    BY AppendProperties DEF RevisionsOK, Current
  <1>0. \A i \in 1..Current : i \in 1..Current' /\ revisions'[i] = revisions[i]
    <2>1. 1..Current \subseteq 1..Current'
      BY <1>1
    <2> QED
      BY <1>1, <2>1, Zenon
  <1>2. \A r, conn, model : Resolved(r, conn, model) => Resolved(r, conn, model)'
    <2> SUFFICES ASSUME NEW r, NEW conn, NEW model, Resolved(r, conn, model)
                 PROVE  Resolved(r, conn, model)'
      OBVIOUS
    <2>1. r \in 1..Current
      BY DEF Resolved
    <2>2. r \in 1..Current' /\ revisions'[r] = revisions[r]
      BY <1>0, <2>1
    <2> QED
      BY <2>1, <2>2 DEF Resolved, ResolveTurnSettings, SettingsSnapshot, Bare, IsConfigured
  <1>3. \A t : TurnOK(t) => TurnOK(t)'
    <2> SUFFICES ASSUME NEW t, TurnOK(t) PROVE TurnOK(t)'
      OBVIOUS
    <2>1. t.rev \in 1..Current
      BY DEF TurnOK
    <2>2. t.rev \in 1..Current' /\ revisions'[t.rev] = revisions[t.rev]
      BY <1>0, <2>1
    <2> QED
      BY <2>1, <2>2 DEF TurnOK, SettingsSnapshot, Bare
  <1>4. \A q : RequestOK(q) => RequestOK(q)'
    BY <1>1, <1>2 DEF RequestOK
  <1> QED
    BY <1>1, <1>2, <1>3, <1>4

(* A step that leaves the revisions and the configuration alone.           *)
LEMMA SameMeaning ==
    ASSUME UNCHANGED <<revisions, configured>>
    PROVE  /\ RevisionsOK => RevisionsOK'
           /\ Current' = Current
           /\ \A r, conn, model : Resolved(r, conn, model)' <=> Resolved(r, conn, model)
           /\ \A t : TurnOK(t)' <=> TurnOK(t)
           /\ \A q : RequestOK(q)' <=> RequestOK(q)
  BY DEF RevisionsOK, UpdatesKept, Current, Resolved, ResolveTurnSettings, SettingsSnapshot, Bare,
         IsConfigured, TurnOK, RequestOK

(* The fields of a patched revision are the settings' own values.          *)
LEMMA PatchedTyped ==
    ASSUME NEW b \in Revisions, NEW p \in Patches
    PROVE  /\ PatchedFrom(b, p) \in Revisions
           /\ PatchedFrom(b, p).patch = p
           /\ PatchedFrom(Bare(b), p) = PatchedFrom(b, p)
           /\ Bare(PatchedFrom(b, p)) = Bare(PatchedFrom(b, PatchedFrom(b, p).patch))
  <1>1. /\ Chosen(p.conn, b.conn) \in Conns
        /\ Chosen(p.model, b.model) \in Models
        /\ Chosen(p.mode, b.mode) \in Modes
    BY DEF Chosen, Conns, Models, Modes, Revisions
  <1>2. PatchedFrom(b, p).patch = p
    BY DEF PatchedFrom
  <1>3. PatchedFrom(b, p) \in Revisions
    BY <1>1 DEF PatchedFrom, Revisions
  <1>4. PatchedFrom(Bare(b), p) = PatchedFrom(b, p)
    BY DEF PatchedFrom, Bare
  <1> QED
    BY <1>2, <1>3, <1>4

(***************************************************************************)
(* Requests and workers                                                    *)
(***************************************************************************)

LEMMA IdleWorkerTyped ==
    /\ AtRest \in Requests /\ AtRest.pc = "idle" /\ AtRest.rev = 0 /\ AtRest.tries = 0
    /\ Resting \in Workers /\ Resting.pc = "idle"
    /\ RevisionsOK => RequestOK(AtRest)
  <1>1. 0 \in 0..(MaxRetries - 1)
    BY SettingsAssumption
  <1>2. AtRest \in Requests /\ AtRest.pc = "idle" /\ AtRest.rev = 0 /\ AtRest.tries = 0
    BY <1>1 DEF AtRest, Requests
  <1>3. Resting \in Workers /\ Resting.pc = "idle"
    BY EmptySeq DEF Resting, Workers
  <1>4. RevisionsOK => RequestOK(AtRest)
    BY <1>2 DEF RequestOK, RevisionsOK, Current
  <1> QED
    BY <1>2, <1>3, <1>4

(* A worker that only has a place.                                         *)
LEMMA PlacedTyped ==
    ASSUME NEW place \in {"preflight", "running", "steers", "queue"}
    PROVE  [Resting EXCEPT !.pc = place] \in Workers /\ [Resting EXCEPT !.pc = place].pc = place
  BY IdleWorkerTyped DEF Workers

LEMMA DetachedTyped == Detached \in Workers /\ Detached.pc = "preflight"
  BY PlacedTyped DEF Detached

LEMMA SettingsInitInv == SettingsInit => SettingsInv
  <1> SUFFICES ASSUME SettingsInit PROVE SettingsInv
    OBVIOUS
  <1> USE DEF SettingsInit
  <1> DEFINE first == [conn |-> FirstSettings.conn, model |-> FirstSettings.model,
                       mode |-> FirstSettings.mode, patch |-> FirstSettings]
  <1>1. first \in Revisions
    BY DEF Revisions, Conns, Models, Modes
  <1> HIDE DEF first
  <1>2. revisions = <<first>>
    BY DEF first
  <1>3. RevisionsOK
    <2>1. revisions \in Seq(Revisions) /\ Len(revisions) = 1
      BY <1>1, <1>2
    <2> QED
      BY <2>1 DEF RevisionsOK, UpdatesKept, Current
  <1>4. StartedOK
    BY EmptySeq DEF StartedOK
  <1>5. QueuesOK
    BY EmptySeq, SettingsAssumption DEF QueuesOK
  <1>6. PatchersOK
    BY DEF PatchersOK, Updates, Untouched
  <1>7. SendersOK /\ WakerOK /\ ResumerOK
    BY <1>3, IdleWorkerTyped, EmptySeq DEF SendersOK, WakerOK, ResumerOK
  <1>8. WorkerOK
    BY IdleWorkerTyped, EmptySeq DEF WorkerOK
  <1> QED
    BY <1>3, <1>4, <1>5, <1>6, <1>7, <1>8 DEF SettingsInv

(* Adding to a queue that is not empty keeps its head.                     *)
LEMMA HeadAppend ==
    ASSUME NEW S, NEW s \in Seq(S), NEW e \in S, s # <<>>
    PROVE  Head(Append(s, e)) = Head(s)
  <1>1. Len(s) \in Nat /\ Len(s) # 0
    BY EmptySeq, LenProperties
  <1>2. Append(s, e)[1] = s[1]
    BY <1>1, AppendProperties
  <1>3. Append(s, e) \in Seq(S) /\ Append(s, e) # <<>>
    BY AppendProperties
  <1> QED
    BY <1>2, <1>3

(***************************************************************************)
(* The steps                                                               *)
(***************************************************************************)

(* Each part of the invariant survives a step that leaves its variables    *)
(* alone.                                                                  *)
LEMMA Frame ==
    ASSUME SettingsInv, UNCHANGED <<revisions, configured>>
    PROVE  /\ RevisionsOK'
           /\ UNCHANGED started => StartedOK'
           /\ UNCHANGED <<waiting, steering, mailbox, settingsUsed>> => QueuesOK'
           /\ UNCHANGED patcher => PatchersOK'
           /\ UNCHANGED sender => SendersOK'
           /\ UNCHANGED <<waker, mailbox>> => WakerOK'
           /\ UNCHANGED <<resumer, asleep, worker, started>> => ResumerOK'
           /\ UNCHANGED <<worker, turnNow, started, waiting>> => WorkerOK'
  <1> USE SameMeaning DEF SettingsInv
  <1>1. RevisionsOK'
    OBVIOUS
  <1>2. UNCHANGED started => StartedOK'
    BY DEF StartedOK
  <1>3. UNCHANGED <<waiting, steering, mailbox, settingsUsed>> => QueuesOK'
    BY DEF QueuesOK
  <1>4. UNCHANGED patcher => PatchersOK'
    BY DEF PatchersOK
  <1>5. UNCHANGED sender => SendersOK'
    BY DEF SendersOK
  <1>6. UNCHANGED <<waker, mailbox>> => WakerOK'
    BY DEF WakerOK
  <1>7. UNCHANGED <<resumer, asleep, worker, started>> => ResumerOK'
    BY DEF ResumerOK
  <1>8. UNCHANGED <<worker, turnNow, started, waiting>> => WorkerOK'
    BY DEF WorkerOK, Last
  <1> QED
    BY <1>1, <1>2, <1>3, <1>4, <1>5, <1>6, <1>7, <1>8

(* What the invariant says of revisions and of one request.                *)
LEMMA SettingsFacts ==
    ASSUME SettingsInv
    PROVE  /\ RevisionsOK /\ Current \in Nat \ {0} /\ Current \in 1..Current
           /\ \A c \in Senders : sender[c] \in Requests /\ RequestOK(sender[c])
           /\ waker \in Requests /\ RequestOK(waker)
           /\ resumer \in Requests /\ RequestOK(resumer)
  BY DEF SettingsInv, RevisionsOK, Current, SendersOK, WakerOK, ResumerOK

(* A request that has resolved revision r.                                 *)
LEMMA PreparedTyped ==
    ASSUME SettingsInv, NEW q \in Requests, NEW r \in 1..Current, IsConfigured(r)
    PROVE  LET s == ResolveTurnSettings(r)
               t == [q EXCEPT !.pc = "commit", !.rev = r, !.conn = s.conn, !.model = s.model]
           IN  t \in Requests /\ t.pc = "commit" /\ t.rev = r /\ RequestOK(t)
  <1> DEFINE s == ResolveTurnSettings(r)
             t == [q EXCEPT !.pc = "commit", !.rev = r, !.conn = s.conn, !.model = s.model]
  <1>1. s.conn \in Conns /\ s.model \in RunModels /\ Resolved(r, s.conn, s.model)
    BY SettingsFacts, ResolveSound
  <1> HIDE DEF s
  <1>2. r \in Nat /\ r \in 0..Current
    BY SettingsFacts
  <1>3. t \in Requests /\ t.pc = "commit" /\ t.rev = r /\ t.conn = s.conn /\ t.model = s.model
    BY <1>1, <1>2 DEF Requests
  <1>4. RequestOK(t)
    BY <1>1, <1>2, <1>3 DEF RequestOK
  <1> QED
    BY <1>3, <1>4 DEF s

LEMMA SenderMoves ==
    ASSUME SettingsInv, NEW c \in Senders, NEW q \in Requests, RequestOK(q),
           sender' = [sender EXCEPT ![c] = q],
           UNCHANGED <<revisions, configured, started, turnNow, asleep, waiting, steering,
                       mailbox, patcher, waker, resumer, worker>>,
           UNCHANGED settingsUsed \/ settingsUsed' = [settingsUsed EXCEPT !.requests = @ + 1]
    PROVE  SettingsInv'
  <1>1. SendersOK'
    BY SameMeaning DEF SettingsInv, SendersOK
  <1>2. QueuesOK'
    <2>1. settingsUsed' \in [requests : Nat, wakes : 0..MaxWakes, restarts : Nat]
          /\ settingsUsed'.wakes = settingsUsed.wakes
      <3>1. settingsUsed \in [requests : Nat, wakes : 0..MaxWakes, restarts : Nat]
        BY Zenon DEF SettingsInv, QueuesOK
      <3> HIDE DEF SettingsInv
      <3> QED
        BY <3>1
    <2>2. Current' = Current
      BY SameMeaning
    <2> QED
      BY <2>1, <2>2 DEF SettingsInv, QueuesOK
  <1> QED
    BY <1>1, <1>2, Frame DEF SettingsInv

LEMMA SenderSteps ==
    ASSUME SettingsInv, NEW c \in Senders,
           AdmitRead(c) \/ AdmitResolve(c) \/ AdmitRetry(c) \/ SteerRead(c)
    PROVE  SettingsInv'
  <1> DEFINE begun(place) == [AtRest EXCEPT !.pc = place, !.rev = Current]
             anew == [AtRest EXCEPT !.pc = "resolve", !.rev = Current, !.tries = sender[c].tries + 1]
  <1>1. \A place \in {"resolve", "steer"} : begun(place) \in Requests /\ RequestOK(begun(place))
    <2> SUFFICES ASSUME NEW place \in {"resolve", "steer"}
                 PROVE  begun(place) \in Requests /\ RequestOK(begun(place))
      OBVIOUS
    <2>1. begun(place) \in Requests /\ begun(place).pc = place /\ begun(place).rev = Current
      BY SettingsFacts, IdleWorkerTyped DEF Requests
    <2> QED
      BY <2>1, SettingsFacts DEF RequestOK
  <1>2. CASE AdmitRead(c)
    BY <1>1, <1>2, SenderMoves DEF AdmitRead
  <1>3. CASE SteerRead(c)
    BY <1>1, <1>3, SenderMoves DEF SteerRead
  <1>4. CASE AdmitRetry(c)
    <2>1. TriesLeft(sender[c].tries) => anew \in Requests /\ RequestOK(anew)
      <3> SUFFICES ASSUME TriesLeft(sender[c].tries) PROVE anew \in Requests /\ RequestOK(anew)
        OBVIOUS
      <3>1. sender[c].tries + 1 \in 0..(MaxRetries - 1)
        BY SettingsFacts, SettingsAssumption DEF Requests, TriesLeft
      <3>2. anew \in Requests /\ anew.pc = "resolve" /\ anew.rev = Current
        BY <3>1, SettingsFacts, IdleWorkerTyped DEF Requests
      <3> QED
        BY <3>2, SettingsFacts DEF RequestOK
    <2>2. AtRest \in Requests /\ RequestOK(AtRest)
      BY SettingsFacts, IdleWorkerTyped
    <2>3. \/ sender' = [sender EXCEPT ![c] = AtRest]
          \/ TriesLeft(sender[c].tries) /\ sender' = [sender EXCEPT ![c] = anew]
      BY <1>4 DEF AdmitRetry
    <2>4. UNCHANGED <<revisions, configured, started, turnNow, asleep, waiting, steering,
                      mailbox, patcher, waker, resumer, worker, settingsUsed>>
      BY <1>4 DEF AdmitRetry
    <2> HIDE DEF anew
    <2> QED
      BY <2>1, <2>2, <2>3, <2>4, SenderMoves
  <1>5. CASE AdmitResolve(c)
    <2> DEFINE s == ResolveTurnSettings(sender[c].rev)
               q == [sender[c] EXCEPT !.pc = "commit", !.conn = s.conn, !.model = s.model]
    <2>1. sender[c].rev \in 1..Current
      BY <1>5, SettingsFacts DEF AdmitResolve, RequestOK
    <2>2. IsConfigured(sender[c].rev) => q \in Requests /\ RequestOK(q)
      <3> SUFFICES ASSUME IsConfigured(sender[c].rev) PROVE q \in Requests /\ RequestOK(q)
        OBVIOUS
      <3>1. s.conn \in Conns /\ s.model \in RunModels /\ Resolved(sender[c].rev, s.conn, s.model)
        BY <2>1, SettingsFacts, ResolveSound
      <3> HIDE DEF s
      <3>2. q \in Requests /\ q.pc = "commit" /\ q.conn = s.conn /\ q.model = s.model /\ q.rev = sender[c].rev
        BY <3>1, SettingsFacts DEF Requests
      <3> QED
        BY <2>1, <3>1, <3>2, SettingsFacts DEF RequestOK
    <2>3. AtRest \in Requests /\ RequestOK(AtRest)
      BY SettingsFacts, IdleWorkerTyped
    <2>4. \/ sender' = [sender EXCEPT ![c] = AtRest]
          \/ IsConfigured(sender[c].rev) /\ sender' = [sender EXCEPT ![c] = q]
      BY <1>5 DEF AdmitResolve
    <2>5. UNCHANGED <<revisions, configured, started, turnNow, asleep, waiting, steering,
                      mailbox, patcher, waker, resumer, worker, settingsUsed>>
      BY <1>5 DEF AdmitResolve
    <2> HIDE DEF q
    <2> QED
      BY <2>2, <2>3, <2>4, <2>5, SenderMoves
  <1> QED
    BY <1>2, <1>3, <1>4, <1>5

LEMMA QueueSteps ==
    ASSUME SettingsInv, NEW c \in Senders, AdmitQueue(c) \/ SteerCommit(c)
    PROVE  SettingsInv'
  <1>1. UNCHANGED <<revisions, configured, started, turnNow, asleep, mailbox, patcher, waker, resumer,
                    worker, settingsUsed>>
        /\ sender' = [sender EXCEPT ![c] = AtRest]
    BY DEF AdmitQueue, SteerCommit
  <1>2. SendersOK'
    BY <1>1, SameMeaning, SettingsFacts, IdleWorkerTyped DEF SettingsInv, SendersOK
  <1>3. CASE AdmitQueue(c)
    <2> DEFINE m == [rev |-> sender[c].rev, due |-> Current]
    <2>1. m \in [rev : Nat, due : Nat] /\ m.rev \in 1..Current /\ m.rev = m.due
      BY <1>3, SettingsFacts DEF AdmitQueue, AdmissionFresh, Requests
    <2>2. waiting' = Append(waiting, m) /\ UNCHANGED steering
      BY <1>3 DEF AdmitQueue
    <2> HIDE DEF m
    <2>3. /\ waiting' \in Seq([rev : Nat, due : Nat]) /\ Len(waiting') = Len(waiting) + 1
          /\ \A i \in 1..Len(waiting) : waiting'[i] = waiting[i]
          /\ waiting'[Len(waiting) + 1] = m
      BY <2>1, <2>2, AppendProperties DEF SettingsInv, QueuesOK
    <2>4. QueuesOK'
      <3>1. \A i \in 1..Len(waiting') : waiting'[i].rev \in 1..Current /\ waiting'[i].rev = waiting'[i].due
        <4> TAKE i \in 1..Len(waiting')
        <4>1. i \in 1..Len(waiting) \/ i = Len(waiting) + 1
          BY <2>3 DEF SettingsInv, QueuesOK
        <4> QED
          BY <2>1, <2>3, <4>1 DEF SettingsInv, QueuesOK
      <3>2. Current' = Current /\ Len(waiting') \in Nat /\ UNCHANGED <<steering, mailbox, settingsUsed>>
        BY <1>1, <2>2, <2>3, SameMeaning DEF SettingsInv, QueuesOK
      <3>3. \A i \in 1..Len(waiting') : waiting'[i].rev \in 1..Current' /\ waiting'[i].rev = waiting'[i].due
        BY <3>1, <3>2
      <3> QED
        BY <2>3, <3>2, <3>3 DEF SettingsInv, QueuesOK
    <2>5. WorkerOK'
      <3>1. waiting \in Seq([rev : Nat, due : Nat]) /\ Len(waiting) \in Nat
        BY DEF SettingsInv, QueuesOK
      <3>2. waiting # <<>> => waiting' # <<>> /\ Head(waiting') = Head(waiting)
        BY <2>1, <2>2, <3>1, AppendProperties, HeadAppend
      <3> QED
        BY <1>1, <3>2, SameMeaning DEF SettingsInv, WorkerOK, Last
    <2> QED
      BY <1>1, <1>2, <2>4, <2>5, Frame DEF SettingsInv
  <1>4. CASE SteerCommit(c)
    <2>1. sender[c].rev \in 1..Current /\ sender[c].rev \in Nat
      BY <1>4, SettingsFacts DEF SteerCommit, RequestOK, Requests
    <2>2. steering' = Append(steering, sender[c].rev) /\ UNCHANGED waiting
      BY <1>4 DEF SteerCommit
    <2>3. /\ steering' \in Seq(Nat) /\ Len(steering') = Len(steering) + 1
          /\ \A i \in 1..Len(steering) : steering'[i] = steering[i]
          /\ steering'[Len(steering) + 1] = sender[c].rev
      BY <2>1, <2>2, AppendProperties DEF SettingsInv, QueuesOK
    <2>4. QueuesOK'
      <3>1. \A i \in 1..Len(steering') : steering'[i] \in 1..Current
        <4> TAKE i \in 1..Len(steering')
        <4>1. i \in 1..Len(steering) \/ i = Len(steering) + 1
          BY <2>3 DEF SettingsInv, QueuesOK
        <4> QED
          BY <2>1, <2>3, <4>1 DEF SettingsInv, QueuesOK
      <3>2. Current' = Current /\ Len(steering') \in Nat /\ UNCHANGED <<waiting, mailbox, settingsUsed>>
        BY <1>1, <2>2, <2>3, SameMeaning DEF SettingsInv, QueuesOK
      <3>3. \A i \in 1..Len(steering') : steering'[i] \in 1..Current'
        BY <3>1, <3>2
      <3>4. \A i \in 1..Len(waiting') : waiting'[i].rev \in 1..Current' /\ waiting'[i].rev = waiting'[i].due
        BY <3>2 DEF SettingsInv, QueuesOK
      <3>5. /\ waiting' \in Seq([rev : Nat, due : Nat]) /\ Len(waiting') \in Nat
            /\ settingsUsed' \in [requests : Nat, wakes : 0..MaxWakes, restarts : Nat]
            /\ mailbox' \in 0..settingsUsed'.wakes
        BY <3>2 DEF SettingsInv, QueuesOK
      <3> QED
        BY <2>3, <3>2, <3>3, <3>4, <3>5 DEF QueuesOK
    <2> QED
      BY <1>1, <1>2, <2>2, <2>4, Frame DEF SettingsInv
  <1> QED
    BY <1>3, <1>4

(* A turn starts: its record holds what its revision means, so its worker  *)
(* will resolve the same.                                                  *)
LEMMA StartSound ==
    ASSUME SettingsInv, UNCHANGED <<revisions, configured>>, turnNow = 0,
           NEW source \in {"message", "steer", "queued", "resumed", "wake"},
           NEW r, NEW s, Resolved(r, s.conn, s.model),
           TurnStarted(source, r, s, r), worker' = Detached
    PROVE  StartedOK' /\ WorkerOK'
  <1> DEFINE t == [source |-> source, rev |-> r, conn |-> s.conn, model |-> s.model,
                   due |-> r, ran |-> Untouched]
  <1>1. started' = Append(started, t) /\ turnNow' = Len(started) + 1
    BY DEF TurnStarted
  <1>2. r \in 1..Current /\ r \in Nat
    BY SettingsFacts DEF Resolved
  <1>3. s.conn \in Conns /\ s.model \in RunModels /\ s.conn = SettingsSnapshot(r).conn
    BY <1>2, SettingsFacts, ResolveSound DEF Resolved
  <1>4. t \in Started
    <2>1. Untouched \in Ran
      BY DEF Untouched, Ran
    <2> QED
      BY <1>2, <1>3, <2>1 DEF Started
  <1>5. t.rev = r /\ t.due = r /\ t.conn = s.conn /\ t.model = s.model /\ t.ran = Untouched
    OBVIOUS
  <1>6. TurnOK(t)
    BY <1>2, <1>3, <1>5 DEF TurnOK
  <1> HIDE DEF t
  <1>7. /\ started' \in Seq(Started) /\ Len(started') = Len(started) + 1
        /\ Len(started) \in Nat
        /\ \A i \in 1..Len(started) : started'[i] = started[i]
        /\ started'[Len(started) + 1] = t
    BY <1>1, <1>4, AppendProperties DEF SettingsInv, StartedOK
  <1>8. StartedOK'
    <2>1. \A i \in 1..Len(started') : TurnOK(started'[i])
      <3> TAKE i \in 1..Len(started')
      <3>1. i \in 1..Len(started) \/ i = Len(started) + 1
        BY <1>7
      <3> QED
        BY <1>6, <1>7, <3>1 DEF SettingsInv, StartedOK
    <2> QED
      BY <1>7, <2>1, SameMeaning DEF StartedOK
  <1>9. WorkerOK'
    <2>1. Resolved(started'[turnNow'].rev, started'[turnNow'].conn, started'[turnNow'].model)
      BY <1>1, <1>5, <1>7
    <2>2. turnNow' \in 0..Len(started') /\ turnNow' # 0
      BY <1>1, <1>7
    <2> QED
      BY <2>1, <2>2, DetachedTyped, SameMeaning DEF WorkerOK
  <1> QED
    BY <1>8, <1>9

(* Nothing sleeps while another turn starts.                               *)
LEMMA AwakeResumer ==
    ASSUME SettingsInv, UNCHANGED <<revisions, configured>>, asleep' = 0, StartedOK',
           (UNCHANGED resumer /\ asleep = 0) \/ resumer' = AtRest
    PROVE  ResumerOK'
  <1>1. resumer' \in Requests /\ RequestOK(resumer') /\ resumer'.pc # "commit"
    BY SettingsFacts, IdleWorkerTyped DEF SettingsInv, ResumerOK
  <1> QED
    BY <1>1, SameMeaning DEF ResumerOK, StartedOK

LEMMA StartSteps ==
    ASSUME SettingsInv,
           \/ \E c \in Senders : AdmitStart(c)
           \/ ClaimSteers \/ ClaimQueue \/ ResumeCommit \/ WakeStart
    PROVE  SettingsInv'
  <1>1. ASSUME NEW c \in Senders, AdmitStart(c) PROVE SettingsInv'
    <2>1. /\ TurnStarted("message", sender[c].rev, sender[c], sender[c].rev)
          /\ turnNow = 0 /\ asleep = 0 /\ asleep' = 0 /\ worker' = Detached
          /\ UNCHANGED <<revisions, configured, waiting, steering, mailbox, patcher, waker, resumer,
                         settingsUsed>>
          /\ sender' = [sender EXCEPT ![c] = AtRest]
      BY <1>1 DEF AdmitStart, AdmissionFresh, SessionBusy
    <2>2. Resolved(sender[c].rev, sender[c].conn, sender[c].model)
      BY <1>1, SettingsFacts DEF AdmitStart, RequestOK
    <2>3. StartedOK' /\ WorkerOK'
      BY <2>1, <2>2, StartSound
    <2>4. SendersOK'
      BY <2>1, SameMeaning, SettingsFacts, IdleWorkerTyped DEF SettingsInv, SendersOK
    <2> QED
      BY <2>1, <2>3, <2>4, AwakeResumer, Frame DEF SettingsInv
  <1>2. CASE ClaimSteers
    <2>1. /\ TurnStarted("steer", Last(worker.steers), worker, Last(worker.steers))
          /\ turnNow = 0 /\ worker' = Detached /\ steering' = <<>>
          /\ UNCHANGED <<revisions, configured, asleep, waiting, mailbox, sender, patcher, waker,
                         resumer, settingsUsed>>
      BY <1>2 DEF ClaimSteers
    <2>2. Resolved(Last(worker.steers), worker.conn, worker.model) /\ asleep = 0
      BY <1>2 DEF ClaimSteers, SettingsInv, WorkerOK, ResumerOK
    <2>3. StartedOK' /\ WorkerOK'
      BY <2>1, <2>2, StartSound
    <2>4. QueuesOK'
      BY <2>1, SameMeaning, EmptySeq DEF SettingsInv, QueuesOK
    <2> QED
      BY <2>1, <2>2, <2>3, <2>4, AwakeResumer, Frame DEF SettingsInv
  <1>3. CASE ClaimQueue
    <2>1. waiting # <<>> /\ worker.head = Head(waiting).rev /\ asleep = 0
          /\ Resolved(worker.head, worker.conn, worker.model)
      BY <1>3 DEF ClaimQueue, SettingsInv, WorkerOK, ResumerOK
    <2>6. waiting' = Tail(waiting) /\ waiting \in Seq([rev : Nat, due : Nat]) /\ Len(waiting) \in Nat
      BY <1>3 DEF ClaimQueue, SettingsInv, QueuesOK
    <2>7. Head(waiting) = waiting[1] /\ Len(waiting) # 0
      BY <2>1, <2>6, EmptySeq
    <2>2. /\ Head(waiting).rev = Head(waiting).due
          /\ waiting' \in Seq([rev : Nat, due : Nat]) /\ Len(waiting') = Len(waiting) - 1
          /\ Len(waiting) \in Nat /\ Len(waiting) # 0
          /\ \A i \in 1..Len(waiting') : waiting'[i] = waiting[i + 1]
      <3>1. Head(waiting).rev = Head(waiting).due
        BY <2>6, <2>7, SMTT(40) DEF SettingsInv, QueuesOK
      <3> QED
        BY <2>1, <2>6, <2>7, <3>1, HeadTailProperties
    <2>3. /\ TurnStarted("queued", worker.head, worker, worker.head)
          /\ turnNow = 0 /\ worker' = Detached
          /\ UNCHANGED <<revisions, configured, asleep, steering, mailbox, sender, patcher, waker,
                         resumer, settingsUsed>>
      BY <1>3, <2>1, <2>2 DEF ClaimQueue, QueuedRevision
    <2>4. StartedOK' /\ WorkerOK'
      BY <2>1, <2>3, StartSound
    <2>5. QueuesOK'
      <3>1. \A i \in 1..Len(waiting') : waiting'[i].rev \in 1..Current /\ waiting'[i].rev = waiting'[i].due
        <4> TAKE i \in 1..Len(waiting')
        <4>1. i + 1 \in 1..Len(waiting)
          BY <2>2
        <4> QED
          BY <2>2, <4>1 DEF SettingsInv, QueuesOK
      <3>2. Current' = Current /\ Len(waiting') \in Nat
        BY <2>2, <2>3, SameMeaning
      <3> QED
        BY <2>2, <2>3, <3>1, <3>2 DEF SettingsInv, QueuesOK
    <2> QED
      BY <2>1, <2>3, <2>4, <2>5, AwakeResumer, Frame DEF SettingsInv
  <1>4. CASE ResumeCommit
    <2>1. /\ resumer.rev = started[asleep].rev /\ asleep \in 1..Len(started)
          /\ Resolved(resumer.rev, resumer.conn, resumer.model)
      BY <1>4, SettingsFacts DEF ResumeCommit, SettingsInv, ResumerOK, RequestOK, StartedOK
    <2>2. started[asleep].due = resumer.rev
      BY <2>1 DEF SettingsInv, StartedOK, TurnOK
    <2>3. /\ TurnStarted("resumed", resumer.rev, resumer, resumer.rev)
          /\ turnNow = 0 /\ worker' = Detached /\ asleep' = 0 /\ steering' = <<>> /\ resumer' = AtRest
          /\ UNCHANGED <<revisions, configured, waiting, mailbox, sender, patcher, waker, settingsUsed>>
      BY <1>4, <2>2 DEF ResumeCommit
    <2>4. StartedOK' /\ WorkerOK'
      BY <2>1, <2>3, StartSound
    <2>5. QueuesOK'
      BY <2>3, SameMeaning, EmptySeq DEF SettingsInv, QueuesOK
    <2> QED
      BY <2>3, <2>4, <2>5, AwakeResumer, Frame DEF SettingsInv
  <1>5. CASE WakeStart
    <2>1. /\ TurnStarted("wake", waker.rev, waker, waker.rev)
          /\ turnNow = 0 /\ worker' = Detached /\ asleep = 0 /\ asleep' = 0 /\ waker' = AtRest
          /\ mailbox' = mailbox - 1
          /\ UNCHANGED <<revisions, configured, waiting, steering, sender, patcher, resumer, settingsUsed>>
      BY <1>5 DEF WakeStart, AdmissionFresh, SessionBusy
    <2>2. Resolved(waker.rev, waker.conn, waker.model)
      BY <1>5, SettingsFacts DEF WakeStart, RequestOK
    <2>3. StartedOK' /\ WorkerOK'
      BY <2>1, <2>2, StartSound
    <2>4. WakerOK'
      BY <2>1, SameMeaning, SettingsFacts, IdleWorkerTyped DEF WakerOK
    <2>5. mailbox' \in 0..settingsUsed.wakes
      BY <1>5, <2>1 DEF WakeStart, SettingsInv, QueuesOK, WakerOK
    <2>6. QueuesOK'
      BY <2>1, <2>5, SameMeaning DEF SettingsInv, QueuesOK
    <2> QED
      BY <2>1, <2>3, <2>4, <2>6, AwakeResumer, Frame DEF SettingsInv
  <1> QED
    BY <1>1, <1>2, <1>3, <1>4, <1>5

(* The transaction that records an update reads its base itself, so the    *)
(* new revision differs from the last one in the named fields only.        *)
LEMMA UpdateSteps ==
    ASSUME SettingsInv, NEW u \in Patchers, UpdateCommit(u) \/ \E p \in Patches : UpdateValidate(u, p)
    PROVE  SettingsInv'
  <1> DEFINE idle == [pc |-> "idle", rev |-> 0, patch |-> Untouched]
  <1>1. ASSUME NEW p \in Patches, UpdateValidate(u, p) PROVE SettingsInv'
    <2> DEFINE begun == [pc |-> "commit", rev |-> Current, patch |-> p]
    <2>1. begun \in Updates /\ begun.patch = p
      BY SettingsFacts DEF Updates
    <2>2. /\ patcher' = [patcher EXCEPT ![u] = begun]
          /\ UNCHANGED <<revisions, configured, started, turnNow, asleep, waiting, steering,
                         mailbox, sender, waker, resumer, worker, settingsUsed>>
      BY <1>1 DEF UpdateValidate
    <2> HIDE DEF begun
    <2>3. PatchersOK'
      BY <2>1, <2>2 DEF SettingsInv, PatchersOK
    <2> QED
      BY <2>2, <2>3, Frame DEF SettingsInv
  <1>2. CASE UpdateCommit(u)
    <2> DEFINE b == revisions[Current]
               p == patcher[u].patch
               x == PatchedFrom(b, p)
    <2>1. b \in Revisions /\ p \in Patches
      BY <1>2, SettingsFacts, ElementOfSeq DEF UpdateCommit, SettingsInv, RevisionsOK, Current, PatchersOK
    <2>2. x \in Revisions /\ x.patch = p /\ NextRevision(u) = x /\ Bare(x) = Bare(PatchedFrom(b, x.patch))
      BY <2>1, PatchedTyped DEF NextRevision, SettingsSnapshot
    <2> HIDE DEF x
    <2>3. /\ revisions' = Append(revisions, x)
          /\ patcher' = [patcher EXCEPT ![u] = idle]
          /\ UNCHANGED <<configured, started, turnNow, asleep, waiting, steering, mailbox,
                         sender, waker, resumer, worker, settingsUsed>>
      BY <1>2, <2>2 DEF UpdateCommit
    <2>4. /\ revisions' \in Seq(Revisions)
          /\ Current' = Current + 1 /\ Current \in Nat
          /\ revisions'[Current + 1] = x
          /\ \A i \in 1..Current : revisions'[i] = revisions[i]
      BY <2>2, <2>3, SettingsFacts, RevisionsAppend
    <2>5. /\ \A r, conn, model : Resolved(r, conn, model) => Resolved(r, conn, model)'
          /\ \A t : TurnOK(t) => TurnOK(t)'
          /\ \A q : RequestOK(q) => RequestOK(q)'
      BY <2>2, <2>3, SettingsFacts, RevisionsAppend
    <2>6. RevisionsOK'
      <3>1. \A i \in 2..Current' : Bare(revisions'[i]) = Bare(PatchedFrom(revisions'[i - 1], revisions'[i].patch))
        <4> TAKE i \in 2..Current'
        <4>1. CASE i = Current + 1
          <5>1. i - 1 = Current /\ Current \in 1..Current
            BY <2>4, <4>1, SettingsFacts
          <5>2. revisions'[i] = x /\ revisions'[i - 1] = b
            BY <2>4, <4>1, <5>1
          <5> QED
            BY <2>2, <5>2
        <4>2. CASE i # Current + 1
          <5>1. i \in 1..Current /\ i - 1 \in 1..Current /\ i \in 2..Current
            BY <2>4, <4>2
          <5>2. revisions'[i] = revisions[i] /\ revisions'[i - 1] = revisions[i - 1]
            BY <2>4, <5>1
          <5>3. Bare(revisions[i]) = Bare(PatchedFrom(revisions[i - 1], revisions[i].patch))
            BY <5>1 DEF SettingsInv, RevisionsOK, UpdatesKept
          <5> QED
            BY <5>2, <5>3
        <4> QED
          BY <4>1, <4>2
      <3>2. UpdatesKept'
        BY <3>1 DEF UpdatesKept, Bare, PatchedFrom
      <3>3. Len(revisions') \in Nat \ {0} /\ configured' \in Configurations
        BY <2>3, <2>4 DEF Current, SettingsInv, RevisionsOK
      <3> QED
        BY <2>4, <3>2, <3>3 DEF RevisionsOK
    <2>7. StartedOK'
      BY <2>3, <2>5 DEF SettingsInv, StartedOK
    <2>8. QueuesOK'
      <3>1. 1..Current \subseteq 1..Current'
        BY <2>4
      <3> QED
        BY <2>3, <3>1 DEF SettingsInv, QueuesOK
    <2>9. PatchersOK'
      <3>1. idle \in Updates /\ idle.pc = "idle"
        BY DEF Updates
      <3> HIDE DEF idle
      <3> QED
        BY <2>3, <3>1 DEF SettingsInv, PatchersOK
    <2>10. SendersOK' /\ WakerOK' /\ ResumerOK'
      BY <2>3, <2>5 DEF SettingsInv, SendersOK, WakerOK, ResumerOK
    <2>11. WorkerOK'
      BY <2>3, <2>5 DEF SettingsInv, WorkerOK, Last
    <2> QED
      BY <2>6, <2>7, <2>8, <2>9, <2>10, <2>11 DEF SettingsInv
  <1> QED
    BY <1>1, <1>2

(* The worker resolves the turn's revision again and gets what the record  *)
(* says: the configuration has not changed since.                          *)
LEMMA PreflightStep ==
    ASSUME SettingsInv, Preflight
    PROVE  SettingsInv'
  <1> DEFINE t == started[turnNow]
             s == ResolveTurnSettings(t.rev)
             ran == [conn |-> s.conn, model |-> s.model, mode |-> SessionForRevision(t.rev).mode]
  <1>1. /\ turnNow \in 1..Len(started) /\ t \in Started /\ TurnOK(t)
        /\ Resolved(t.rev, t.conn, t.model)
        /\ asleep = 0 /\ resumer.pc # "commit"
    BY ElementOfSeq DEF Preflight, SettingsInv, WorkerOK, StartedOK, ResumerOK
  <1>2. /\ s.conn = t.conn /\ s.model = t.model /\ t.rev \in 1..Current /\ IsConfigured(t.rev)
        /\ t.conn \in Conns /\ t.model \in RunModels
    BY <1>1 DEF Resolved, Started
  <1>3. SessionForRevision(t.rev).mode \in Modes
    <2>1. revisions[t.rev] \in Revisions
      BY <1>2, ElementOfSeq DEF SettingsInv, RevisionsOK, Current
    <2> QED
      BY <2>1 DEF SessionForRevision, SettingsSnapshot, Bare, Revisions
  <1>4. ran \in Ran /\ ran.conn = t.conn /\ ran.model = t.model
        /\ ran.mode = SettingsSnapshot(t.rev).mode
    BY <1>2, <1>3 DEF Ran, SessionForRevision
  <1>5. /\ started' = [started EXCEPT ![turnNow] = [t EXCEPT !.ran = ran]]
        /\ worker' = [Resting EXCEPT !.pc = "running"]
        /\ UNCHANGED <<revisions, configured, turnNow, asleep, waiting, steering, mailbox, sender,
                       patcher, waker, resumer, settingsUsed>>
    BY <1>2 DEF Preflight
  <1> DEFINE done == [t EXCEPT !.ran = ran]
  <1> HIDE DEF ran
  <1>6. done \in Started /\ TurnOK(done)
    <2>1. done \in Started /\ done.rev = t.rev /\ done.due = t.due /\ done.conn = t.conn
          /\ done.model = t.model /\ done.ran = ran
      BY <1>1, <1>4 DEF Started
    <2> HIDE DEF done
    <2> QED
      BY <1>1, <1>4, <2>1 DEF TurnOK
  <1> HIDE DEF done
  <1>7. /\ started' \in Seq(Started) /\ Len(started') = Len(started)
        /\ \A i \in 1..Len(started) : started'[i] = IF i = turnNow THEN done ELSE started[i]
    BY <1>1, <1>5, <1>6 DEF SettingsInv, StartedOK, done
  <1>8. StartedOK'
    <2>1. \A i \in 1..Len(started') : TurnOK(started'[i])
      BY <1>6, <1>7 DEF SettingsInv, StartedOK
    <2> QED
      BY <1>5, <1>7, <2>1, SameMeaning DEF SettingsInv, StartedOK
  <1>9. ResumerOK'
    BY <1>1, <1>5, <1>7, <1>8, SameMeaning DEF SettingsInv, ResumerOK, StartedOK
  <1>10. WorkerOK'
    BY <1>1, <1>5, <1>7, PlacedTyped DEF SettingsInv, WorkerOK
  <1> QED
    BY <1>5, <1>8, <1>9, <1>10, Frame DEF SettingsInv

(* The worker's other steps, which start nothing.                          *)
LEMMA WorkerSteps ==
    ASSUME SettingsInv, Pause \/ Finish \/ ReadSteers \/ ClaimSteersStale \/ ReadQueue
    PROVE  SettingsInv'
  <1>1. UNCHANGED <<revisions, configured, started, waiting, steering, mailbox, sender, patcher, waker,
                    resumer, settingsUsed>>
    BY DEF Pause, Finish, ReadSteers, ClaimSteersStale, ReadQueue
  <1>2. WorkerOK' /\ ResumerOK' => SettingsInv'
    BY <1>1, Frame DEF SettingsInv
  <1>3. CASE Pause
    <2>1. WorkerOK'
      BY <1>1, <1>3, IdleWorkerTyped DEF Pause, SettingsInv, WorkerOK, StartedOK
    <2>2. ResumerOK'
      BY <1>1, <1>3, IdleWorkerTyped, SameMeaning DEF Pause, SettingsInv, WorkerOK, ResumerOK
    <2> QED
      BY <1>2, <2>1, <2>2
  <1>4. CASE Finish
    <2>1. WorkerOK'
      BY <1>1, <1>4, PlacedTyped DEF Finish, SettingsInv, WorkerOK, StartedOK
    <2>2. ResumerOK'
      BY <1>1, <1>4, PlacedTyped, SameMeaning DEF Finish, SettingsInv, WorkerOK, ResumerOK
    <2> QED
      BY <1>2, <2>1, <2>2
  <1>5. CASE ClaimSteersStale
    <2>1. WorkerOK'
      BY <1>1, <1>5, PlacedTyped DEF ClaimSteersStale, SettingsInv, WorkerOK, StartedOK
    <2>2. ResumerOK'
      BY <1>1, <1>5, PlacedTyped, SameMeaning DEF ClaimSteersStale, SettingsInv, WorkerOK, ResumerOK
    <2> QED
      BY <1>2, <2>1, <2>2
  <1>6. CASE ReadSteers
    <2> DEFINE s == ResolveTurnSettings(Last(steering))
               w == [Resting EXCEPT !.pc = "claimSteers", !.steers = steering,
                                    !.conn = s.conn, !.model = s.model]
    <2>1. UNCHANGED <<turnNow, asleep>> /\ turnNow = 0 /\ asleep = 0
      BY <1>6 DEF ReadSteers, SettingsInv, WorkerOK, ResumerOK
    <2>2. \/ worker' = [Resting EXCEPT !.pc = "queue"] \/ worker' = Resting
          \/ steering # <<>> /\ IsConfigured(Last(steering)) /\ worker' = w
      BY <1>6 DEF ReadSteers
    <2>3. ASSUME steering # <<>>, IsConfigured(Last(steering))
          PROVE  /\ w \in Workers /\ w.pc = "claimSteers" /\ w.steers = steering
                 /\ Resolved(Last(steering), w.conn, w.model)
      <3>1. Last(steering) \in 1..Current
        <4>1. Len(steering) \in 1..Len(steering)
          BY <2>3, EmptySeq DEF SettingsInv, QueuesOK
        <4> QED
          BY <4>1 DEF SettingsInv, QueuesOK, Last
      <3>2. s.conn \in Conns /\ s.model \in RunModels /\ Resolved(Last(steering), s.conn, s.model)
        BY <2>3, <3>1, SettingsFacts, ResolveSound
      <3> HIDE DEF s
      <3>3. w \in Workers /\ w.pc = "claimSteers" /\ w.steers = steering /\ w.conn = s.conn /\ w.model = s.model
        BY <3>2, IdleWorkerTyped DEF Workers, SettingsInv, QueuesOK
      <3> QED
        BY <3>2, <3>3
    <2> HIDE DEF w
    <2>4. WorkerOK'
      BY <1>1, <2>1, <2>2, <2>3, IdleWorkerTyped, PlacedTyped, SameMeaning DEF SettingsInv, WorkerOK
    <2>5. ResumerOK'
      BY <1>1, <2>1, SameMeaning DEF SettingsInv, ResumerOK
    <2> QED
      BY <1>2, <2>4, <2>5
  <1>7. CASE ReadQueue
    <2> DEFINE r == Head(waiting).rev
               s == ResolveTurnSettings(r)
               w == [Resting EXCEPT !.pc = "claimQueue", !.head = r, !.conn = s.conn, !.model = s.model]
    <2>1. UNCHANGED <<turnNow, asleep>> /\ turnNow = 0 /\ asleep = 0
      BY <1>7 DEF ReadQueue, SettingsInv, WorkerOK, ResumerOK
    <2>2. worker' = Resting \/ (waiting # <<>> /\ IsConfigured(r) /\ worker' = w)
      BY <1>7 DEF ReadQueue
    <2>3. ASSUME waiting # <<>>, IsConfigured(r)
          PROVE  /\ w \in Workers /\ w.pc = "claimQueue" /\ w.head = r
                 /\ Resolved(r, w.conn, w.model)
      <3>1. r \in 1..Current /\ r \in Nat
        <4>1. Head(waiting) = waiting[1] /\ 1 \in 1..Len(waiting)
          BY <2>3, EmptySeq DEF SettingsInv, QueuesOK
        <4> QED
          BY <4>1 DEF SettingsInv, QueuesOK
      <3>2. s.conn \in Conns /\ s.model \in RunModels /\ Resolved(r, s.conn, s.model)
        BY <2>3, <3>1, SettingsFacts, ResolveSound
      <3> HIDE DEF s, r
      <3>3. w \in Workers /\ w.pc = "claimQueue" /\ w.head = r /\ w.conn = s.conn /\ w.model = s.model
        BY <3>1, <3>2, IdleWorkerTyped DEF Workers
      <3> QED
        BY <3>2, <3>3
    <2> HIDE DEF w
    <2>4. WorkerOK'
      BY <1>1, <2>1, <2>2, <2>3, IdleWorkerTyped, SameMeaning DEF SettingsInv, WorkerOK
    <2>5. ResumerOK'
      BY <1>1, <2>1, SameMeaning DEF SettingsInv, ResumerOK
    <2> QED
      BY <1>2, <2>4, <2>5
  <1> QED
    BY <1>3, <1>4, <1>5, <1>6, <1>7

(* Resumptions and wakes that read or give up.                             *)
LEMMA ReadSteps ==
    ASSUME SettingsInv, ResumeRead \/ ReceiveWake \/ WakeRead \/ WakeAgain
    PROVE  SettingsInv'
  <1>1. CASE ResumeRead
    <2> DEFINE r == SettingsRevisionForTurn(asleep)
               s == ResolveTurnSettings(r)
               q == [AtRest EXCEPT !.pc = "commit", !.rev = r, !.conn = s.conn, !.model = s.model]
    <2>1. r \in 1..Current /\ IsConfigured(r) /\ r = started[asleep].rev /\ asleep # 0
      BY <1>1 DEF ResumeRead, SettingsRevisionForTurn, SettingsInv, ResumerOK, StartedOK, TurnOK
    <2>2. q \in Requests /\ q.pc = "commit" /\ q.rev = r /\ RequestOK(q)
      BY <2>1, IdleWorkerTyped, PreparedTyped
    <2>3. /\ resumer' = q
          /\ UNCHANGED <<revisions, configured, started, turnNow, asleep, waiting, steering,
                         mailbox, sender, patcher, waker, worker, settingsUsed>>
      BY <1>1 DEF ResumeRead
    <2> HIDE DEF q, r
    <2>4. ResumerOK'
      BY <2>1, <2>2, <2>3, SameMeaning DEF SettingsInv, ResumerOK
    <2> QED
      BY <2>3, <2>4, Frame DEF SettingsInv
  <1>2. CASE ReceiveWake
    <2>1. /\ mailbox' = mailbox + 1 /\ settingsUsed' = [settingsUsed EXCEPT !.wakes = @ + 1]
          /\ settingsUsed.wakes < MaxWakes
          /\ UNCHANGED <<revisions, configured, started, turnNow, asleep, waiting, steering,
                         sender, patcher, waker, resumer, worker>>
      BY <1>2 DEF ReceiveWake
    <2>2. settingsUsed' \in [requests : Nat, wakes : 0..MaxWakes, restarts : Nat]
          /\ mailbox' \in 0..settingsUsed'.wakes /\ mailbox' # 0
      <3>1. /\ settingsUsed \in [requests : Nat, wakes : 0..MaxWakes, restarts : Nat]
            /\ mailbox \in 0..settingsUsed.wakes /\ MaxWakes \in Nat
        BY SettingsAssumption DEF SettingsInv, QueuesOK
      <3>2. settingsUsed.wakes + 1 \in 0..MaxWakes
        BY <2>1, <3>1
      <3>3. settingsUsed' \in [requests : Nat, wakes : 0..MaxWakes, restarts : Nat]
            /\ settingsUsed'.wakes = settingsUsed.wakes + 1
        BY <2>1, <3>1, <3>2
      <3> QED
        BY <2>1, <3>1, <3>3
    <2>3. QueuesOK' /\ WakerOK'
      BY <2>1, <2>2, SameMeaning DEF SettingsInv, QueuesOK, WakerOK
    <2> QED
      BY <2>1, <2>3, Frame DEF SettingsInv
  <1>3. CASE WakeRead
    <2> DEFINE s == ResolveTurnSettings(Current)
               q == [waker EXCEPT !.pc = "commit", !.rev = Current, !.conn = s.conn, !.model = s.model]
    <2>1. q \in Requests /\ RequestOK(q)
      BY <1>3, SettingsFacts, PreparedTyped DEF WakeRead
    <2>2. /\ waker' = q /\ mailbox # 0
          /\ UNCHANGED <<revisions, configured, started, turnNow, asleep, waiting, steering,
                         mailbox, sender, patcher, resumer, worker, settingsUsed>>
      BY <1>3 DEF WakeRead
    <2> HIDE DEF q
    <2>3. WakerOK'
      BY <2>1, <2>2, SameMeaning DEF WakerOK
    <2> QED
      BY <2>2, <2>3, Frame DEF SettingsInv
  <1>4. CASE WakeAgain
    <2> DEFINE q == [AtRest EXCEPT !.tries = waker.tries + 1]
    <2>1. TriesLeft(waker.tries) => q \in Requests /\ RequestOK(q) /\ q.pc = "idle"
      <3> SUFFICES ASSUME TriesLeft(waker.tries) PROVE q \in Requests /\ RequestOK(q) /\ q.pc = "idle"
        OBVIOUS
      <3>1. waker.tries + 1 \in 0..(MaxRetries - 1)
        BY SettingsFacts, SettingsAssumption DEF Requests, TriesLeft
      <3>2. q \in Requests /\ q.pc = "idle" /\ q.rev = 0
        BY <3>1, IdleWorkerTyped DEF Requests
      <3> QED
        BY <3>2, SettingsFacts DEF RequestOK
    <2>2. /\ waker' = AtRest \/ (TriesLeft(waker.tries) /\ waker' = q)
          /\ UNCHANGED <<revisions, configured, started, turnNow, asleep, waiting, steering,
                         mailbox, sender, patcher, resumer, worker, settingsUsed>>
      BY <1>4 DEF WakeAgain
    <2> HIDE DEF q
    <2>3. WakerOK'
      BY <2>1, <2>2, SettingsFacts, IdleWorkerTyped, SameMeaning DEF WakerOK
    <2> QED
      BY <2>2, <2>3, Frame DEF SettingsInv
  <1> QED
    BY <1>1, <1>2, <1>3, <1>4

(* After a restart the configuration is another one, and nobody holds what *)
(* a revision meant before.                                                *)
LEMMA RestartStep ==
    ASSUME SettingsInv, NEW c \in Configurations, Restart(c)
    PROVE  SettingsInv'
  <1> USE DEF Restart
  <1>1. Current' = Current /\ UNCHANGED <<revisions, started, asleep, waiting, steering, mailbox>>
    BY DEF Current
  <1>2. RevisionsOK'
    BY DEF SettingsInv, RevisionsOK, UpdatesKept, Current
  <1>3. StartedOK'
    BY DEF SettingsInv, StartedOK, TurnOK, Current, SettingsSnapshot
  <1>4. QueuesOK'
    <2>1. settingsUsed' \in [requests : Nat, wakes : 0..MaxWakes, restarts : Nat]
          /\ settingsUsed'.wakes = settingsUsed.wakes
      <3>1. settingsUsed' = [settingsUsed EXCEPT !.restarts = @ + 1]
        OBVIOUS
      <3> HIDE DEF Restart
      <3>2. settingsUsed \in [requests : Nat, wakes : 0..MaxWakes, restarts : Nat]
        BY DEF SettingsInv, QueuesOK
      <3> QED
        BY <3>1, <3>2
    <2> HIDE DEF Restart
    <2> QED
      BY <1>1, <2>1 DEF SettingsInv, QueuesOK
  <1>5. PatchersOK'
    BY DEF PatchersOK, Updates
  <1>6. RequestOK(AtRest)'
    BY <1>1, IdleWorkerTyped, SettingsFacts DEF RequestOK, AtRest
  <1>7. SendersOK' /\ WakerOK'
    BY <1>6, IdleWorkerTyped DEF SendersOK, WakerOK
  <1>8. WorkerOK' /\ ResumerOK'
    BY <1>6, IdleWorkerTyped DEF SettingsInv, WorkerOK, ResumerOK, StartedOK
  <1> QED
    BY <1>2, <1>3, <1>4, <1>5, <1>7, <1>8 DEF SettingsInv

LEMMA SettingsStep == SettingsInv /\ [SettingsNext]_settingsVars => SettingsInv'
  <1> SUFFICES ASSUME SettingsInv, [SettingsNext]_settingsVars PROVE SettingsInv'
    OBVIOUS
  <1>1. CASE UNCHANGED settingsVars
    BY <1>1, Frame DEF settingsVars, SettingsInv
  <1> QED
    BY <1>1, UpdateSteps, SenderSteps, QueueSteps, StartSteps, PreflightStep, WorkerSteps, ReadSteps,
       RestartStep DEF SettingsNext

(***************************************************************************)
(* The theorems                                                            *)
(***************************************************************************)

LEMMA SettingsInvariant == SettingsSpec => []SettingsInv
  BY SettingsInitInv, SettingsStep, PTL DEF SettingsSpec

(* Whatever operators do at the same time, a revision differs from the one *)
(* before it only in the fields its own request named                      *)
(* (commit_session_settings_update).                                       *)
THEOREM SettingsUpdatesKept == SettingsSpec => []UpdatesKept
  <1>1. SettingsInv => UpdatesKept
    BY DEF SettingsInv, RevisionsOK
  <1> QED
    BY <1>1, SettingsInvariant, PTL

(* Direct messages, wakes, queued messages and resumed turns start under   *)
(* the revision each is owed, and the worker calls the provider with what  *)
(* turn.started recorded, though both resolve the settings by themselves   *)
(* (admit_turn_or_queue, dispatch_next_queued_message, claim_resumed_      *)
(* continuation, run_session_turns).                                       *)
THEOREM SettingsWorkHasItsRevision == SettingsSpec => []WorkHasItsRevision
  <1>1. SettingsInv => WorkHasItsRevision
    <2> SUFFICES ASSUME SettingsInv PROVE WorkHasItsRevision
      OBVIOUS
    <2>1. DOMAIN started = 1..Len(started) /\ DOMAIN waiting = 1..Len(waiting)
          /\ DOMAIN steering = 1..Len(steering)
      BY LenProperties DEF SettingsInv, StartedOK, QueuesOK
    <2>2. RightRevision /\ RunsAsRecorded
      BY <2>1 DEF SettingsInv, StartedOK, TurnOK, RightRevision, RunsAsRecorded
    <2>3. \A c \in Senders : sender[c].rev \in 0..Current /\ sender[c].tries \in 0..(MaxRetries - 1)
      BY SettingsFacts DEF RequestOK, Requests
    <2>4. waker.tries \in 0..(MaxRetries - 1)
      BY SettingsFacts DEF Requests
    <2>5. mailbox \in 0..MaxWakes
      BY SettingsAssumption DEF SettingsInv, QueuesOK
    <2>6. SettingsTypeOK
      BY <2>1, <2>3, <2>4, <2>5 DEF SettingsInv, RevisionsOK, StartedOK, TurnOK, QueuesOK, WorkerOK,
         Workers, ResumerOK, SettingsTypeOK
    <2> QED
      BY <2>2, <2>6 DEF WorkHasItsRevision
  <1> QED
    BY <1>1, SettingsInvariant, PTL

(***************************************************************************)
(* The files: the invariant                                                *)
(***************************************************************************)

Contents == [base : Runners \cup {"absent", "empty", "original"}, marks : SUBSET Runners]

Jobs ==
    [pc : {"rest", "read", "shell", "key", "join", "lock", "write", "fillWrite", "edit", "truncate",
           "fillEdit", "unlock", "cleanup", "drop"},
     op : {"none", "read", "shell"} \cup Mutations, path : Paths \cup {"none"},
     key : Keys \cup {"none"}, queue : Queues \cup {NoQueue}, seen : Contents,
     result : {"none", "ok", "error", "warned", "cancelled", "timed_out"}, touched : BOOLEAN]

FilesTyped ==
    /\ file \in [Files -> Contents] /\ owed \in [Files -> SUBSET Runners]
    /\ queues \in [Keys -> Queues \cup {NoQueue}] /\ made \in 0..MaxQueues
    /\ holder \in [Queues -> Runners \cup {"none"}]
    /\ job \in [Runners -> Jobs] /\ calls \in 0..MaxCalls
    /\ checked \subseteq Runners /\ cancelled \subseteq Runners
    /\ tree \in [Runners -> BOOLEAN]

(* Every path to a file that may not be there yet is its canonical one.    *)
NewByName == \A p \in Paths : FileOf[p] \in FirstFiles \/ FileOf[p] = p

(* No file goes away.                                                      *)
FilesStay == \A f \in FirstFiles : file[f].base # "absent"

Joined == {"lock", "write", "fillWrite", "edit", "truncate", "fillEdit", "unlock", "cleanup", "drop"}
Waits == {"key", "join", "lock"}
Filling(t) == job[t].pc \in {"fillWrite", "fillEdit"}

(* What a job knows of itself at each step.                                *)
JobOK(t) ==
    LET j == job[t]
    IN /\ j.pc \in Waits \cup Joined => j.op \in Mutations
       /\ j.pc \in {"read"} \cup Waits \cup Joined => j.path \in Paths
       /\ j.pc \in {"join"} \cup Joined => j.key = FileOf[j.path]
       /\ j.pc \in Joined <=> j.queue # NoQueue
       /\ j.queue # NoQueue => j.queue <= made
       /\ j.pc \in {"write", "fillWrite"} => j.op = "write"
       /\ j.pc \in {"edit", "truncate", "fillEdit"} => j.op = "edit"
       /\ j.pc \in Waits \cup {"write", "edit", "truncate"} => ~j.touched
       /\ j.pc \in {"fillWrite", "fillEdit"} => j.touched
       /\ j.pc \in {"unlock", "cleanup", "drop", "rest"} /\ j.op \in Mutations =>
              (j.touched <=> j.result = "ok")
       /\ tree[t] <=> j.pc = "shell"
       /\ j.pc = "shell" => j.op = "shell"
       /\ j.pc = "read" => j.op = "read"

(* Keys do not share a queue, and none is in use that was not made.        *)
FileQueuesOK ==
    /\ \A k \in Keys : queues[k] # NoQueue => queues[k] <= made
    /\ \A k, l \in Keys : queues[k] = queues[l] /\ queues[k] # NoQueue => k = l

(* Whoever has not cleaned up finds its queue under its key.               *)
EntryOK == \A t \in Runners : job[t].pc \in Joined \ {"drop"} => queues[job[t].key] = job[t].queue

MutexOK ==
    /\ \A t \in Runners : InQueue(t) => holder[job[t].queue] = t
    /\ \A q \in Queues : \A t \in Runners : holder[q] = t => InQueue(t) /\ job[t].queue = q

(* A file nobody is filling is whole and has the edits it owes; what an    *)
(* edit has read is what the file still holds when it is truncated, and    *)
(* what it had when it is filled again.                                    *)
WholeOK ==
    \A f \in Files : (\A t \in Runners : Filling(t) => FileOf[job[t].path] # f) =>
        owed[f] \subseteq file[f].marks /\ file[f].base # "empty"

SeenOK ==
    \A t \in Runners :
        /\ job[t].seen.base # "empty"
        /\ job[t].pc = "truncate" => job[t].seen = file[FileOf[job[t].path]]
        /\ job[t].pc \in {"truncate", "fillEdit"} => /\ job[t].seen.base # "absent"
                                                     /\ owed[FileOf[job[t].path]] \subseteq job[t].seen.marks
        /\ job[t].pc = "fillWrite" => owed[FileOf[job[t].path]] = {}

FilesInv ==
    /\ FilesTyped /\ FilesStay /\ (\A t \in Runners : JobOK(t)) /\ FileQueuesOK /\ EntryOK /\ MutexOK
    /\ WholeOK /\ SeenOK

(***************************************************************************)
(* The files: what a step leaves alone                                     *)
(***************************************************************************)

(* t's job becomes j, the other jobs stay.                                 *)
LEMMA JobMoves ==
    ASSUME FilesTyped, NEW t \in Runners, NEW j \in Jobs, job' = [job EXCEPT ![t] = j]
    PROVE  job' \in [Runners -> Jobs] /\ job'[t] = j /\ \A u \in Runners : u # t => job'[u] = job[u]
  <1> HIDE DEF Jobs
  <1> QED
    BY DEF FilesTyped

LEMMA JobsKept ==
    ASSUME FilesTyped, NEW t \in Runners, \A u \in Runners : JobOK(u), JobOK(t)',
           \A u \in Runners : u # t => job'[u] = job[u] /\ tree'[u] = tree[u],
           made' \in Nat, made <= made'
    PROVE  (\A u \in Runners : JobOK(u))'
  <1> SUFFICES ASSUME NEW u \in Runners, u # t PROVE JobOK(u)'
    OBVIOUS
  <1>1. made \in Nat /\ job[u].queue \in Queues \cup {NoQueue} /\ JobOK(u)
    <2>1. job[u] \in Jobs /\ made \in Nat
      BY FileToolsAssumption DEF FilesTyped
    <2> QED
      BY <2>1 DEF Jobs
  <1>2. PICK w : w = job[u] /\ job'[u] = w
    OBVIOUS
  <1>3. w.queue # NoQueue => w.queue <= made'
    <2>1. w.queue \in Nat \/ w.queue = NoQueue
      BY <1>1, <1>2 DEF Queues
    <2>2. w.queue # NoQueue => w.queue <= made
      BY <1>1, <1>2 DEF JobOK
    <2> QED
      BY <1>1, <2>1, <2>2
  <1> QED
    BY <1>1, <1>2, <1>3 DEF JobOK

(* One runner at a time is in the queue of a file.                         *)
LEMMA OneInQueue ==
    ASSUME \A v \in Runners : JobOK(v), EntryOK, MutexOK, NEW t \in Runners, NEW u \in Runners,
           InQueue(t), InQueue(u), FileOf[job[t].path] = FileOf[job[u].path]
    PROVE  t = u
  <1>1. JobOK(t) /\ JobOK(u) /\ job[t].pc \in Joined \ {"drop"} /\ job[u].pc \in Joined \ {"drop"}
    BY DEF InQueue, Joined
  <1>2. job[t].key = job[u].key
    BY <1>1 DEF JobOK
  <1>3. job[t].queue = job[u].queue
    BY <1>1, <1>2 DEF EntryOK
  <1> QED
    BY <1>3 DEF MutexOK

(* A step of t that leaves files and queues alone, in or out of a queue.   *)
LEMMA JobQuietKeeps ==
    ASSUME FilesInv, NEW t \in Runners, NEW j \in Jobs, job' = [job EXCEPT ![t] = j],
           UNCHANGED <<file, owed, queues, made, holder>>,
           InQueue(t)' <=> InQueue(t), ~Filling(t), ~Filling(t)',
           j.pc \in Joined \ {"drop"} => /\ job[t].pc \in Joined \ {"drop"}
                                         /\ j.key = job[t].key /\ j.queue = job[t].queue,
           j.seen.base # "empty",
           j.pc = "truncate" => /\ j.seen = file[FileOf[j.path]] /\ j.seen.base # "absent"
                                /\ owed[FileOf[j.path]] \subseteq j.seen.marks
    PROVE  FilesStay' /\ FileQueuesOK' /\ EntryOK' /\ MutexOK' /\ WholeOK' /\ SeenOK'
  <1>1. FilesTyped /\ FilesStay /\ FileQueuesOK /\ EntryOK /\ MutexOK /\ WholeOK /\ SeenOK
    BY DEF FilesInv
  <1>2. job'[t] = j /\ \A u \in Runners : u # t => job'[u] = job[u]
    BY <1>1, JobMoves
  <1>3. FilesStay' /\ FileQueuesOK'
    BY <1>1 DEF FilesStay, FileQueuesOK
  <1>4. EntryOK'
    BY <1>1, <1>2 DEF EntryOK
  <1>5. \A u \in Runners : InQueue(u)' <=> InQueue(u)
    BY <1>2 DEF InQueue
  <1>6. \A u \in Runners : InQueue(u) => job'[u].queue = job[u].queue
    <2>1. InQueue(t)' => j.pc \in Joined \ {"drop"}
      BY <1>2 DEF InQueue, Joined
    <2> QED
      BY <1>2, <2>1
  <1>7. MutexOK'
    BY <1>1, <1>5, <1>6 DEF MutexOK
  <1>8. WholeOK'
    BY <1>1, <1>2 DEF WholeOK, Filling
  <1>9. SeenOK'
    <2> SUFFICES ASSUME NEW u \in Runners
                 PROVE  /\ job'[u].seen.base # "empty"
                        /\ job'[u].pc = "truncate" => job'[u].seen = file[FileOf[job'[u].path]]
                        /\ job'[u].pc \in {"truncate", "fillEdit"} =>
                              /\ job'[u].seen.base # "absent"
                              /\ owed[FileOf[job'[u].path]] \subseteq job'[u].seen.marks
                        /\ job'[u].pc = "fillWrite" => owed[FileOf[job'[u].path]] = {}
      BY DEF SeenOK
    <2>1. CASE u = t
      BY <1>2, <2>1 DEF Filling
    <2>2. CASE u # t
      BY <1>1, <1>2, <2>2 DEF SeenOK
    <2> QED
      BY <2>1, <2>2
  <1> QED
    BY <1>3, <1>4, <1>7, <1>8, <1>9

(***************************************************************************)
(* The files: every step                                                   *)
(***************************************************************************)

LEMMA QuietSteps ==
    ASSUME FilesInv, NEW t \in Runners, NEW j \in Jobs, job' = [job EXCEPT ![t] = j],
           UNCHANGED <<file, owed, queues, made, holder>>,
           \/ ~InQueue(t) /\ j.pc \notin Joined
           \/ /\ InQueue(t) /\ InQueue(t)' /\ ~Filling(t) /\ ~Filling(t)'
              /\ j.key = job[t].key /\ j.queue = job[t].queue,
           j.seen.base # "empty",
           j.pc = "truncate" => /\ j.seen = file[FileOf[j.path]] /\ j.seen.base # "absent"
                                /\ owed[FileOf[j.path]] \subseteq j.seen.marks,
           calls' \in 0..MaxCalls, checked' \subseteq Runners, cancelled' = cancelled,
           tree' \in [Runners -> BOOLEAN], \A u \in Runners : u # t => tree'[u] = tree[u],
           JobOK(t)'
    PROVE  FilesInv'
  <1>1. FilesTyped /\ \A u \in Runners : JobOK(u)
    BY DEF FilesInv
  <1>2. job' \in [Runners -> Jobs] /\ job'[t] = j /\ \A u \in Runners : u # t => job'[u] = job[u]
    BY <1>1, JobMoves
  <1>3. FilesTyped'
    BY <1>1, <1>2 DEF FilesTyped
  <1>4. (\A u \in Runners : JobOK(u))'
    <2>1. made' \in Nat /\ made <= made'
      BY <1>1, FileToolsAssumption DEF FilesTyped
    <2> QED
      BY <1>1, <1>2, <2>1, JobsKept
  <1>5. /\ InQueue(t)' <=> InQueue(t)
        /\ ~Filling(t) /\ ~Filling(t)'
        /\ j.pc \in Joined \ {"drop"} => /\ job[t].pc \in Joined \ {"drop"}
                                         /\ j.key = job[t].key /\ j.queue = job[t].queue
    BY <1>2 DEF InQueue, Joined, Filling
  <1>6. FilesStay' /\ FileQueuesOK' /\ EntryOK' /\ MutexOK' /\ WholeOK' /\ SeenOK'
    BY <1>5, JobQuietKeeps
  <1> QED
    BY <1>3, <1>4, <1>6 DEF FilesInv

LEMMA BeginSteps ==
    ASSUME FilesInv, NEW t \in Runners, NEW op \in {"read", "write", "edit"}, NEW p \in Paths,
           BeginCall(t, op, p)
    PROVE  FilesInv'
  <1>1. /\ FilesTyped /\ JobOK(t) /\ job[t].pc = "rest"
    BY DEF FilesInv, BeginCall
  <1>2. PICK pc, result : /\ pc \in {"rest", "key", "read"} /\ result \in {"none", "warned", "cancelled"}
                          /\ pc = "key" => op \in Mutations
                          /\ pc = "read" => op = "read"
                          /\ job' = [job EXCEPT ![t] = [NoJob EXCEPT !.op = op, !.path = p, !.pc = pc,
                                                                     !.result = result]]
    BY DEF BeginCall, Mutations
  <1>3. PICK j : j = [NoJob EXCEPT !.op = op, !.path = p, !.pc = pc, !.result = result]
    OBVIOUS
  <1>4. j = [pc |-> pc, op |-> op, path |-> p, key |-> "none", queue |-> NoQueue, seen |-> Absent,
             result |-> result, touched |-> FALSE]
    BY <1>3 DEF NoJob
  <1>5. Absent \in Contents /\ Absent.base = "absent"
    BY DEF Absent, Contents
  <1>6. j \in Jobs
    BY <1>2, <1>4, <1>5 DEF Jobs, Mutations
  <1>7. job' = [job EXCEPT ![t] = j]
    BY <1>2, <1>3
  <1>8. job'[t] = j
    BY <1>1, <1>6, <1>7, JobMoves
  <1>9. JobOK(t)'
    <2>1. ~tree[t] /\ tree' = tree
      BY <1>1 DEF BeginCall, JobOK
    <2>2. /\ j.pc = pc /\ j.op = op /\ j.path = p /\ j.queue = NoQueue /\ j.result = result /\ j.touched = FALSE
      BY <1>4
    <2>3. /\ pc \in Waits \cup Joined => pc = "key"
          /\ pc \notin {"join"} \cup Joined
          /\ pc \notin {"write", "fillWrite", "edit", "truncate", "fillEdit", "shell"}
          /\ result # "ok"
      BY <1>2 DEF Waits, Joined
    <2> QED
      BY <1>2, <1>8, <2>1, <2>2, <2>3 DEF JobOK
  <1>10. UNCHANGED <<file, owed, queues, made, holder>> /\ calls' \in 0..MaxCalls
         /\ checked' \subseteq Runners /\ cancelled' = cancelled /\ tree' = tree
         /\ tree' \in [Runners -> BOOLEAN]
    BY <1>1, FileToolsAssumption DEF BeginCall, FilesTyped
  <1>11. ~InQueue(t) /\ j.pc \notin Joined /\ j.pc # "truncate" /\ j.seen.base # "empty"
    BY <1>1, <1>2, <1>4, <1>5 DEF InQueue, Joined
  <1> QED
    BY <1>6, <1>7, <1>9, <1>10, <1>11, QuietSteps

LEMMA ShellSteps ==
    ASSUME FilesInv, NEW t \in Runners,
           CallShell(t) \/ ShellExits(t) \/ ShellTimesOut(t) \/ ShellCancelled(t)
    PROVE  FilesInv'
  <1>1. FilesTyped /\ JobOK(t) /\ SeenOK
    BY DEF FilesInv
  <1>2. job[t] \in Jobs /\ tree \in [Runners -> BOOLEAN]
    BY <1>1 DEF FilesTyped
  <1>3. /\ UNCHANGED <<file, owed, queues, made, holder>> /\ calls' \in 0..MaxCalls
        /\ checked' \subseteq Runners /\ cancelled' = cancelled
    BY <1>1, FileToolsAssumption DEF CallShell, ShellExits, ShellTimesOut, ShellCancelled, FilesTyped
  <1>4. CASE CallShell(t)
    <2>1. PICK j : j = [NoJob EXCEPT !.op = "shell", !.pc = "shell"]
      OBVIOUS
    <2>2. j = [pc |-> "shell", op |-> "shell", path |-> "none", key |-> "none", queue |-> NoQueue,
               seen |-> Absent, result |-> "none", touched |-> FALSE]
      BY <2>1 DEF NoJob
    <2>3. Absent \in Contents /\ Absent.base = "absent"
      BY DEF Absent, Contents
    <2>4. j \in Jobs
      BY <2>2, <2>3 DEF Jobs
    <2>5. job' = [job EXCEPT ![t] = j] /\ tree' = [tree EXCEPT ![t] = TRUE] /\ job[t].pc = "rest"
      BY <1>4, <2>1 DEF CallShell
    <2>6. job'[t] = j
      BY <1>1, <2>4, <2>5, JobMoves
    <2>7. tree' \in [Runners -> BOOLEAN] /\ tree'[t] /\ \A u \in Runners : u # t => tree'[u] = tree[u]
      BY <1>2, <2>5
    <2>8. JobOK(t)'
      BY <2>2, <2>6, <2>7 DEF JobOK, Waits, Joined, Mutations
    <2>9. ~InQueue(t) /\ j.pc \notin Joined /\ j.pc # "truncate" /\ j.seen.base # "empty"
      BY <2>2, <2>3, <2>5 DEF InQueue, Joined
    <2> QED
      BY <1>3, <2>4, <2>5, <2>7, <2>8, <2>9, QuietSteps
  <1>5. CASE ShellExits(t) \/ ShellTimesOut(t) \/ ShellCancelled(t)
    <2>1. PICK result \in {"ok", "timed_out", "cancelled"} :
             job' = [job EXCEPT ![t].pc = "rest", ![t].result = result]
      BY <1>5 DEF ShellExits, ShellTimesOut, ShellCancelled, Returns
    <2>2. PICK w : w = job[t]
      OBVIOUS
    <2>3. PICK j : j = [w EXCEPT !.pc = "rest", !.result = result]
      OBVIOUS
    <2>4. job' = [job EXCEPT ![t] = j]
      BY <1>1, <2>1, <2>2, <2>3 DEF FilesTyped, Jobs
    <2>5. /\ j \in Jobs /\ j.pc = "rest" /\ j.op = w.op /\ j.queue = w.queue /\ j.seen = w.seen
      BY <1>2, <2>1, <2>2, <2>3, ZenonT(60) DEF Jobs
    <2>6. w.pc = "shell" /\ tree' = [tree EXCEPT ![t] = FALSE]
      BY <1>5, <2>2 DEF ShellExits, ShellTimesOut, ShellCancelled
    <2>7. w.op = "shell" /\ w.queue = NoQueue /\ w.seen.base # "empty"
      BY <1>1, <2>2, <2>6 DEF JobOK, SeenOK, Joined
    <2>8. job'[t] = j
      BY <1>1, <2>4, <2>5, JobMoves
    <2>9. tree' \in [Runners -> BOOLEAN] /\ ~tree'[t] /\ \A u \in Runners : u # t => tree'[u] = tree[u]
      BY <1>2, <2>6
    <2>10. JobOK(t)'
      BY <2>5, <2>7, <2>8, <2>9 DEF JobOK, Waits, Joined, Mutations
    <2>11. ~InQueue(t) /\ j.pc \notin Joined /\ j.pc # "truncate"
      BY <2>2, <2>5, <2>6 DEF InQueue, Joined
    <2> QED
      BY <1>3, <2>4, <2>5, <2>7, <2>9, <2>10, <2>11, QuietSteps
  <1> QED
    BY <1>4, <1>5

LEMMA ReadFileSteps ==
    ASSUME FilesInv, NEW t \in Runners, ReadFile(t) \/ ReadCancelled(t)
    PROVE  FilesInv'
  <1>1. FilesTyped /\ JobOK(t) /\ SeenOK
    BY DEF FilesInv
  <1>2. job[t] \in Jobs /\ tree \in [Runners -> BOOLEAN]
    BY <1>1 DEF FilesTyped
  <1>3. /\ UNCHANGED <<file, owed, queues, made, holder>> /\ calls' \in 0..MaxCalls
        /\ checked' \subseteq Runners /\ cancelled' = cancelled /\ tree' = tree
    BY <1>1 DEF ReadFile, ReadCancelled, FilesTyped
  <1>4. PICK result \in {"ok", "error", "cancelled"} :
           job' = [job EXCEPT ![t].pc = "rest", ![t].result = result]
    BY DEF ReadFile, ReadCancelled, Returns
  <1>5. PICK w : w = job[t]
    OBVIOUS
  <1>6. PICK j : j = [w EXCEPT !.pc = "rest", !.result = result]
    OBVIOUS
  <1>7. job' = [job EXCEPT ![t] = j]
    BY <1>1, <1>4, <1>5, <1>6 DEF FilesTyped, Jobs
  <1>8. j \in Jobs /\ j.pc = "rest" /\ j.op = w.op /\ j.queue = w.queue /\ j.seen = w.seen
    BY <1>2, <1>4, <1>5, <1>6, ZenonT(60) DEF Jobs
  <1>9. w.pc = "read"
    BY <1>5 DEF ReadFile, ReadCancelled
  <1>10. w.op = "read" /\ w.queue = NoQueue /\ w.seen.base # "empty" /\ ~tree[t]
    BY <1>1, <1>5, <1>9 DEF JobOK, SeenOK, Joined
  <1>11. job'[t] = j
    BY <1>1, <1>7, <1>8, JobMoves
  <1>12. JobOK(t)'
    BY <1>3, <1>8, <1>10, <1>11 DEF JobOK, Waits, Joined, Mutations
  <1>13. ~InQueue(t) /\ j.pc \notin Joined /\ j.pc # "truncate"
    BY <1>5, <1>8, <1>9 DEF InQueue, Joined
  <1> QED
    BY <1>2, <1>3, <1>7, <1>8, <1>10, <1>12, <1>13, QuietSteps

LEMMA CancelSteps ==
    ASSUME FilesInv, NEW t \in Runners, CancelCall(t)
    PROVE  FilesInv'
  <1>1. /\ UNCHANGED <<file, owed, queues, made, holder, job, calls, checked, tree>>
        /\ cancelled' = cancelled \cup {t}
    BY DEF CancelCall
  <1>2. FilesTyped'
    BY <1>1 DEF FilesInv, FilesTyped
  <1>3. /\ FilesStay' /\ FileQueuesOK' /\ EntryOK' /\ MutexOK' /\ WholeOK' /\ SeenOK'
        /\ \A u \in Runners : JobOK(u)'
    BY <1>1 DEF FilesInv, FilesStay, FileQueuesOK, EntryOK, MutexOK, WholeOK, SeenOK, JobOK, InQueue, Filling
  <1> QED
    BY <1>2, <1>3 DEF FilesInv

LEMMA FindKeySteps ==
    ASSUME FilesInv, NewByName, NEW t \in Runners, FindKey(t)
    PROVE  FilesInv'
  <1>1. FilesTyped /\ FilesStay /\ JobOK(t) /\ SeenOK
    BY DEF FilesInv
  <1>2. PICK w \in Jobs : w = job[t]
    BY <1>1 DEF FilesTyped
  <1>3. w.pc = "key" /\ w.op \in Mutations /\ w.path \in Paths /\ ~w.touched /\ w.queue = NoQueue /\ ~tree[t]
    BY <1>1, <1>2 DEF FindKey, JobOK, Waits, Joined
  <1>4. QueueKey(w.path) = FileOf[w.path] /\ FileOf[w.path] \in Keys
    BY <1>1, <1>3, FileToolsAssumption DEF QueueKey, NewByName, FilesStay, Absent, Keys
  <1>5. PICK j : j = [w EXCEPT !.pc = "join", !.key = FileOf[w.path]]
    OBVIOUS
  <1>6. job' = [job EXCEPT ![t] = j]
    BY <1>1, <1>2, <1>4, <1>5 DEF FindKey, FilesTyped, Jobs
  <1>7. /\ j \in Jobs /\ j.pc = "join" /\ j.key = FileOf[w.path] /\ j.op = w.op /\ j.path = w.path
        /\ j.queue = w.queue /\ j.seen = w.seen /\ j.touched = w.touched
    BY <1>4, <1>5 DEF Jobs
  <1>8. job'[t] = j
    BY <1>1, <1>6, <1>7, JobMoves
  <1>9. /\ UNCHANGED <<file, owed, queues, made, holder>> /\ calls' \in 0..MaxCalls
        /\ checked' \subseteq Runners /\ cancelled' = cancelled /\ tree' = tree
        /\ tree' \in [Runners -> BOOLEAN]
    BY <1>1 DEF FindKey, FilesTyped
  <1>10. JobOK(t)'
    BY <1>3, <1>7, <1>8, <1>9 DEF JobOK, Waits, Joined
  <1>11. ~InQueue(t) /\ j.pc \notin Joined /\ j.pc # "truncate" /\ j.seen.base # "empty"
    BY <1>1, <1>2, <1>3, <1>7 DEF InQueue, Joined, SeenOK
  <1> QED
    BY <1>6, <1>7, <1>9, <1>10, <1>11, QuietSteps

(* What the file of a job in the queue looks like while nobody fills it.   *)
LEMMA AloneWhole ==
    ASSUME FilesInv, NEW t \in Runners, InQueue(t), ~Filling(t), NEW f, f = FileOf[job[t].path]
    PROVE  f \in Files /\ owed[f] \subseteq file[f].marks /\ file[f].base # "empty"
  <1>1. (\A u \in Runners : JobOK(u)) /\ EntryOK /\ MutexOK /\ WholeOK
    BY DEF FilesInv
  <1>2. f \in Files
    <2>1. JobOK(t) /\ job[t].pc \in Joined
      BY <1>1 DEF InQueue, Joined
    <2> QED
      BY <2>1, FileToolsAssumption DEF JobOK
  <1>3. \A u \in Runners : Filling(u) => FileOf[job[u].path] # f
    <2> SUFFICES ASSUME NEW u \in Runners, Filling(u), FileOf[job[u].path] = f PROVE FALSE
      OBVIOUS
    <2>1. InQueue(u)
      BY DEF Filling, InQueue
    <2> QED
      BY <1>1, <2>1, OneInQueue
  <1> QED
    BY <1>1, <1>2, <1>3 DEF WholeOK

LEMMA EditReadsSteps ==
    ASSUME FilesInv, NEW t \in Runners, EditReads(t)
    PROVE  FilesInv'
  <1>1. FilesTyped /\ JobOK(t)
    BY DEF FilesInv
  <1>2. PICK w \in Jobs : w = job[t]
    BY <1>1 DEF FilesTyped
  <1>3. /\ w.pc = "edit" /\ w.op = "edit" /\ w.path \in Paths /\ ~w.touched /\ w.queue # NoQueue
        /\ w.queue <= made /\ w.key = FileOf[w.path] /\ ~tree[t]
    BY <1>1, <1>2 DEF EditReads, JobOK, Waits, Joined
  <1>4. PICK f : f = FileOf[w.path]
    OBVIOUS
  <1>5. InQueue(t) /\ ~Filling(t)
    BY <1>2, <1>3 DEF InQueue, Filling
  <1>6. f \in Files /\ owed[f] \subseteq file[f].marks /\ file[f].base # "empty"
    BY <1>2, <1>4, <1>5, AloneWhole
  <1>7. PICK c \in Contents : c = file[f]
    BY <1>1, <1>6 DEF FilesTyped
  <1>8. PICK pc, result : /\ pc \in {"truncate", "unlock"} /\ result \in {w.result, "error"}
                          /\ pc = "truncate" => HasOneMatch(t, c)
                          /\ pc = "unlock" => result = "error"
                          /\ job' = [job EXCEPT ![t] = [w EXCEPT !.pc = pc, !.result = result, !.seen = c]]
    <2>1. CASE HasOneMatch(t, c)
      <3>1. [w EXCEPT !.pc = "truncate", !.seen = c]
               = [w EXCEPT !.pc = "truncate", !.result = w.result, !.seen = c]
        BY DEF Jobs
      <3>2. job' = [job EXCEPT ![t] = [w EXCEPT !.pc = "truncate", !.seen = c]]
        BY <1>1, <1>2, <1>4, <1>7, <2>1 DEF EditReads, FilesTyped, Jobs
      <3> QED
        BY <2>1, <3>1, <3>2
    <2>2. CASE ~HasOneMatch(t, c)
      <3>1. job' = [job EXCEPT ![t] = [w EXCEPT !.pc = "unlock", !.result = "error", !.seen = c]]
        BY <1>1, <1>2, <1>4, <1>7, <2>2 DEF EditReads, Ends, FilesTyped, Jobs
      <3> QED
        BY <2>2, <3>1
    <2> QED
      BY <2>1, <2>2
  <1>9. PICK j : j = [w EXCEPT !.pc = pc, !.result = result, !.seen = c]
    OBVIOUS
  <1>10. /\ j \in Jobs /\ j.pc = pc /\ j.key = w.key /\ j.op = w.op /\ j.path = w.path /\ j.result = result
         /\ j.queue = w.queue /\ j.seen = c /\ j.touched = w.touched
    BY <1>8, <1>9 DEF Jobs
  <1>11. job' = [job EXCEPT ![t] = j]
    BY <1>8, <1>9
  <1>12. job'[t] = j
    BY <1>1, <1>10, <1>11, JobMoves
  <1>13. /\ UNCHANGED <<file, owed, queues, made, holder>> /\ calls' \in 0..MaxCalls
         /\ checked' \subseteq Runners /\ cancelled' = cancelled /\ tree' = tree
         /\ tree' \in [Runners -> BOOLEAN]
    BY <1>1 DEF EditReads, FilesTyped
  <1>14. JobOK(t)'
    BY <1>3, <1>8, <1>10, <1>12, <1>13 DEF JobOK, Waits, Joined, Mutations
  <1>15. InQueue(t)' /\ ~Filling(t)'
    BY <1>8, <1>10, <1>12 DEF InQueue, Filling
  <1>16. j.pc = "truncate" => c.base # "absent" /\ j.seen = file[FileOf[j.path]]
                              /\ owed[FileOf[j.path]] \subseteq j.seen.marks
    BY <1>4, <1>6, <1>7, <1>8, <1>10 DEF HasOneMatch
  <1> QED
    BY <1>2, <1>5, <1>6, <1>7, <1>10, <1>11, <1>13, <1>14, <1>15, <1>16, QuietSteps

LEMMA DropSteps ==
    ASSUME FilesInv, NEW t \in Runners, DropQueue(t)
    PROVE  FilesInv'
  <1>1. FilesTyped /\ JobOK(t) /\ SeenOK
    BY DEF FilesInv
  <1>2. PICK w \in Jobs : w = job[t]
    BY <1>1 DEF FilesTyped
  <1>3. w.pc = "drop" /\ w.op \in Mutations /\ w.path \in Paths /\ (w.touched <=> w.result = "ok") /\ ~tree[t]
    BY <1>1, <1>2 DEF DropQueue, JobOK, Joined
  <1>4. PICK j : j = [w EXCEPT !.pc = "rest", !.queue = NoQueue]
    OBVIOUS
  <1>5. job' = [job EXCEPT ![t] = j]
    BY <1>1, <1>2, <1>4 DEF DropQueue, FilesTyped, Jobs
  <1>6. /\ j \in Jobs /\ j.pc = "rest" /\ j.op = w.op /\ j.path = w.path /\ j.result = w.result
        /\ j.queue = NoQueue /\ j.seen = w.seen /\ j.touched = w.touched
    BY <1>4 DEF Jobs
  <1>7. job'[t] = j
    BY <1>1, <1>5, <1>6, JobMoves
  <1>8. /\ UNCHANGED <<file, owed, queues, made, holder>> /\ calls' \in 0..MaxCalls
        /\ checked' \subseteq Runners /\ cancelled' = cancelled /\ tree' = tree
        /\ tree' \in [Runners -> BOOLEAN]
    BY <1>1 DEF DropQueue, FilesTyped
  <1>9. JobOK(t)'
    BY <1>3, <1>6, <1>7, <1>8 DEF JobOK, Waits, Joined
  <1>10. ~InQueue(t) /\ j.pc \notin Joined /\ j.pc # "truncate" /\ j.seen.base # "empty"
    BY <1>1, <1>2, <1>3, <1>6 DEF InQueue, Joined, SeenOK
  <1> QED
    BY <1>5, <1>6, <1>8, <1>9, <1>10, QuietSteps

(* A step of t in the queue of its file that changes the file.             *)
Touches(t, pc, result, c, o) ==
    LET f == FileOf[job[t].path]
    IN /\ job' = [job EXCEPT ![t] = [job[t] EXCEPT !.pc = pc, !.result = result, !.touched = TRUE]]
       /\ file' = [file EXCEPT ![f] = c] /\ owed' = [owed EXCEPT ![f] = o] /\ c.base # "absent"
       /\ UNCHANGED <<queues, made, holder, calls, checked, cancelled, tree>>
       /\ InQueue(t)
       /\ \/ pc = "unlock" /\ result = "ok" /\ o \subseteq c.marks /\ c.base # "empty"
          \/ /\ pc = "fillEdit" /\ result = job[t].result
             /\ job[t].op = "edit" /\ job[t].seen.base # "absent" /\ o \subseteq job[t].seen.marks
          \/ pc = "fillWrite" /\ result = job[t].result /\ job[t].op = "write" /\ o = {}

LEMMA TouchSteps ==
    ASSUME FilesInv, NEW t \in Runners, NEW pc, NEW result, NEW c \in Contents, NEW o \in SUBSET Runners,
           Touches(t, pc, result, c, o)
    PROVE  FilesInv'
  <1>1. /\ FilesTyped /\ FilesStay /\ FileQueuesOK /\ EntryOK /\ MutexOK /\ WholeOK /\ SeenOK
        /\ \A u \in Runners : JobOK(u)
    BY DEF FilesInv
  <1>2. PICK w \in Jobs : w = job[t]
    BY <1>1 DEF FilesTyped
  <1>3. PICK f : f = FileOf[w.path]
    OBVIOUS
  <1>4. PICK j : j = [w EXCEPT !.pc = pc, !.result = result, !.touched = TRUE]
    OBVIOUS
  <1>5. /\ job' = [job EXCEPT ![t] = j] /\ file' = [file EXCEPT ![f] = c] /\ owed' = [owed EXCEPT ![f] = o]
        /\ c.base # "absent" /\ InQueue(t)
        /\ UNCHANGED <<queues, made, holder, calls, checked, cancelled, tree>>
    BY <1>2, <1>3, <1>4 DEF Touches
  <1>6. /\ pc \in {"unlock", "fillEdit", "fillWrite"} /\ result \in {w.result, "ok"}
        /\ pc = "unlock" => result = "ok" /\ o \subseteq c.marks /\ c.base # "empty"
        /\ pc = "fillEdit" => w.op = "edit" /\ w.seen.base # "absent" /\ o \subseteq w.seen.marks
        /\ pc = "fillWrite" => w.op = "write" /\ o = {}
    BY <1>2 DEF Touches
  <1>7. w.result \in {"none", "ok", "error", "warned", "cancelled", "timed_out"}
    BY DEF Jobs
  <1>8. /\ j \in Jobs /\ j.pc = pc /\ j.key = w.key /\ j.op = w.op /\ j.path = w.path /\ j.result = result
        /\ j.queue = w.queue /\ j.seen = w.seen /\ j.touched = TRUE
    <2>1. result \in {"none", "ok", "error", "warned", "cancelled", "timed_out"}
      BY <1>6, <1>7
    <2> QED
      BY <1>4, <1>6, <2>1 DEF Jobs
  <1>9. job' \in [Runners -> Jobs] /\ job'[t] = j /\ \A u \in Runners : u # t => job'[u] = job[u]
    BY <1>1, <1>5, <1>8, JobMoves
  <1>10. /\ w.pc \in Joined \ {"drop"} /\ w.pc \notin {"rest", "shell", "read"} /\ w.op \in Mutations
         /\ w.path \in Paths /\ w.key = FileOf[w.path] /\ w.queue # NoQueue /\ w.queue <= made /\ ~tree[t]
         /\ w.seen.base # "empty" /\ f \in Files
    <2>1. w.pc \in Joined \ {"drop"} /\ w.pc \notin {"rest", "shell", "read"} /\ JobOK(t)
      BY <1>1, <1>2, <1>5 DEF InQueue, Joined
    <2> QED
      BY <1>1, <1>2, <1>3, <2>1, FileToolsAssumption DEF JobOK, SeenOK
  <1>11. FilesTyped'
    BY <1>1, <1>5, <1>9, <1>10 DEF FilesTyped
  <1>12. (\A u \in Runners : JobOK(u))'
    <2>1. JobOK(t)'
      BY <1>5, <1>6, <1>8, <1>9, <1>10 DEF JobOK, Waits, Joined
    <2>2. made' \in Nat /\ made <= made'
      BY <1>1, <1>5, FileToolsAssumption DEF FilesTyped
    <2> QED
      BY <1>1, <1>5, <1>9, <2>1, <2>2, JobsKept
  <1>13. /\ file'[f] = c /\ owed'[f] = o
         /\ \A g \in Files : g # f => file'[g] = file[g] /\ owed'[g] = owed[g]
    BY <1>1, <1>5, <1>10 DEF FilesTyped
  <1>14. FilesStay' /\ FileQueuesOK'
    BY <1>1, <1>5, <1>13, FileToolsAssumption DEF FilesStay, FileQueuesOK
  <1>15. EntryOK'
    BY <1>1, <1>2, <1>5, <1>8, <1>9, <1>10 DEF EntryOK
  <1>16. \A u \in Runners : (InQueue(u)' <=> InQueue(u)) /\ job'[u].queue = job[u].queue
    BY <1>2, <1>5, <1>6, <1>8, <1>9 DEF InQueue
  <1>17. MutexOK'
    BY <1>1, <1>5, <1>16 DEF MutexOK
  <1>18. WholeOK'
    <2> SUFFICES ASSUME NEW g \in Files, \A u \in Runners : Filling(u)' => FileOf[job'[u].path] # g
                 PROVE  owed'[g] \subseteq file'[g].marks /\ file'[g].base # "empty"
      BY DEF WholeOK
    <2>1. CASE g = f
      <3>1. pc = "unlock"
        BY <1>3, <1>6, <1>8, <1>9, <2>1 DEF Filling
      <3> QED
        BY <1>6, <1>13, <2>1, <3>1
    <2>2. CASE g # f
      <3>1. \A u \in Runners : Filling(u) => FileOf[job[u].path] # g
        BY <1>2, <1>3, <1>9, <2>2 DEF Filling
      <3> QED
        BY <1>1, <1>13, <2>2, <3>1 DEF WholeOK
    <2> QED
      BY <2>1, <2>2
  <1>19. SeenOK'
    <2> SUFFICES ASSUME NEW u \in Runners
                 PROVE  /\ job'[u].seen.base # "empty"
                        /\ job'[u].pc = "truncate" => job'[u].seen = file'[FileOf[job'[u].path]]
                        /\ job'[u].pc \in {"truncate", "fillEdit"} =>
                              /\ job'[u].seen.base # "absent"
                              /\ owed'[FileOf[job'[u].path]] \subseteq job'[u].seen.marks
                        /\ job'[u].pc = "fillWrite" => owed'[FileOf[job'[u].path]] = {}
      BY DEF SeenOK
    <2>1. CASE u = t
      BY <1>3, <1>6, <1>8, <1>9, <1>10, <1>13, <2>1
    <2>2. CASE u # t /\ job[u].pc \in {"truncate", "fillEdit", "fillWrite"}
      <3>1. InQueue(u) /\ JobOK(u) /\ job[u].pc \in Joined
        BY <1>1, <2>2 DEF InQueue, Joined
      <3>2. FileOf[job[u].path] # f
        BY <1>1, <1>2, <1>3, <1>5, <2>2, <3>1, OneInQueue
      <3>3. FileOf[job[u].path] \in Files
        BY <3>1, FileToolsAssumption DEF JobOK
      <3> QED
        BY <1>1, <1>9, <1>13, <2>2, <3>2, <3>3 DEF SeenOK
    <2>3. CASE u # t /\ job[u].pc \notin {"truncate", "fillEdit", "fillWrite"}
      BY <1>1, <1>9, <2>3 DEF SeenOK
    <2> QED
      BY <2>1, <2>2, <2>3
  <1> QED
    BY <1>11, <1>12, <1>14, <1>15, <1>17, <1>18, <1>19 DEF FilesInv

LEMMA WriteSteps ==
    ASSUME FilesInv, NEW t \in Runners, WriteTruncates(t) \/ WriteFills(t)
    PROVE  FilesInv'
  <1>1. FilesTyped /\ JobOK(t) /\ SeenOK
    BY DEF FilesInv
  <1>2. PICK w \in Jobs : w = job[t]
    BY <1>1 DEF FilesTyped
  <1>3. PICK f : f = FileOf[w.path]
    OBVIOUS
  <1>4. UNCHANGED <<queues, made, holder, calls, checked, cancelled, tree>>
    BY DEF WriteTruncates, WriteFills
  <1>5. CASE WriteTruncates(t)
    <2>1. w.pc = "write" /\ w.op = "write" /\ InQueue(t)
      BY <1>1, <1>2, <1>5 DEF WriteTruncates, JobOK, InQueue
    <2>2. job' = [job EXCEPT ![t] = [w EXCEPT !.pc = "fillWrite", !.result = w.result, !.touched = TRUE]]
      <3>1. [w EXCEPT !.pc = "fillWrite", !.result = w.result, !.touched = TRUE]
               = [w EXCEPT !.pc = "fillWrite", !.touched = TRUE]
        BY DEF Jobs
      <3> QED
        BY <1>1, <1>2, <1>5, <3>1 DEF WriteTruncates, FilesTyped, Jobs
    <2>3. file' = [file EXCEPT ![f] = Empty] /\ owed' = [owed EXCEPT ![f] = {}]
      BY <1>2, <1>3, <1>5 DEF WriteTruncates
    <2>4. Empty \in Contents /\ Empty.base # "absent"
      BY DEF Empty, Contents
    <2>5. Touches(t, "fillWrite", w.result, Empty, {})
      BY <1>2, <1>3, <1>4, <2>1, <2>2, <2>3, <2>4 DEF Touches
    <2> QED
      BY <2>4, <2>5, TouchSteps
  <1>6. CASE WriteFills(t)
    <2>1. w.pc = "fillWrite" /\ w.op = "write" /\ InQueue(t) /\ w.touched = TRUE /\ w.path \in Paths /\ owed[f] = {}
      <3>1. w.touched \in BOOLEAN
        BY DEF Jobs
      <3> QED
        BY <1>1, <1>2, <1>3, <1>6, <3>1 DEF WriteFills, JobOK, InQueue, SeenOK, Joined
    <2>2. job' = [job EXCEPT ![t] = [w EXCEPT !.pc = "unlock", !.result = "ok", !.touched = TRUE]]
      <3>1. [w EXCEPT !.pc = "unlock", !.result = "ok", !.touched = TRUE] = [w EXCEPT !.pc = "unlock", !.result = "ok"]
        BY <2>1 DEF Jobs
      <3> QED
        BY <1>1, <1>2, <1>6, <3>1 DEF WriteFills, Ends, FilesTyped, Jobs
    <2>3. PICK c : c = [base |-> t, marks |-> {}]
      OBVIOUS
    <2>4. c \in Contents /\ c.base \notin {"absent", "empty"} /\ c.marks = {}
      BY <2>3, FileToolsAssumption DEF Contents
    <2>5. file' = [file EXCEPT ![f] = c] /\ owed' = [owed EXCEPT ![f] = {}]
      <3>1. f \in Files
        BY <1>3, <2>1, FileToolsAssumption
      <3> QED
        BY <1>1, <1>2, <1>3, <1>6, <2>1, <2>3, <3>1 DEF WriteFills, FilesTyped
    <2>6. Touches(t, "unlock", "ok", c, {})
      BY <1>2, <1>3, <1>4, <2>1, <2>2, <2>4, <2>5 DEF Touches
    <2> QED
      BY <2>4, <2>6, TouchSteps
  <1> QED
    BY <1>5, <1>6

LEMMA EditSteps ==
    ASSUME FilesInv, NEW t \in Runners, EditTruncates(t) \/ EditFills(t)
    PROVE  FilesInv'
  <1>1. FilesTyped /\ JobOK(t) /\ SeenOK
    BY DEF FilesInv
  <1>2. PICK w \in Jobs : w = job[t]
    BY <1>1 DEF FilesTyped
  <1>3. PICK f : f = FileOf[w.path]
    OBVIOUS
  <1>4. UNCHANGED <<queues, made, holder, calls, checked, cancelled, tree>>
    BY DEF EditTruncates, EditFills
  <1>5. /\ w.op = "edit" /\ InQueue(t) /\ w.path \in Paths /\ w.seen.base \notin {"absent", "empty"}
        /\ owed[f] \subseteq w.seen.marks
    BY <1>1, <1>2, <1>3 DEF EditTruncates, EditFills, JobOK, InQueue, Joined, SeenOK
  <1>6. f \in Files /\ owed[f] \in SUBSET Runners /\ w.seen \in Contents
    BY <1>1, <1>3, <1>5, FileToolsAssumption DEF FilesTyped, Jobs
  <1>7. CASE EditTruncates(t)
    <2>1. job' = [job EXCEPT ![t] = [w EXCEPT !.pc = "fillEdit", !.result = w.result, !.touched = TRUE]]
      <3>1. [w EXCEPT !.pc = "fillEdit", !.result = w.result, !.touched = TRUE]
               = [w EXCEPT !.pc = "fillEdit", !.touched = TRUE]
        BY DEF Jobs
      <3> QED
        BY <1>1, <1>2, <1>7, <3>1 DEF EditTruncates, FilesTyped, Jobs
    <2>2. file' = [file EXCEPT ![f] = Empty] /\ owed' = [owed EXCEPT ![f] = owed[f]]
      BY <1>1, <1>2, <1>3, <1>6, <1>7 DEF EditTruncates, FilesTyped
    <2>3. Empty \in Contents /\ Empty.base # "absent"
      BY DEF Empty, Contents
    <2>4. Touches(t, "fillEdit", w.result, Empty, owed[f])
      BY <1>2, <1>3, <1>4, <1>5, <2>1, <2>2, <2>3 DEF Touches
    <2> QED
      BY <1>6, <2>3, <2>4, TouchSteps
  <1>8. CASE EditFills(t)
    <2>1. w.pc = "fillEdit" /\ w.touched = TRUE
      <3>1. w.touched \in BOOLEAN
        BY DEF Jobs
      <3> QED
        BY <1>1, <1>2, <1>8, <3>1 DEF EditFills, JobOK
    <2>2. job' = [job EXCEPT ![t] = [w EXCEPT !.pc = "unlock", !.result = "ok", !.touched = TRUE]]
      <3>1. [w EXCEPT !.pc = "unlock", !.result = "ok", !.touched = TRUE] = [w EXCEPT !.pc = "unlock", !.result = "ok"]
        BY <2>1 DEF Jobs
      <3> QED
        BY <1>1, <1>2, <1>8, <3>1 DEF EditFills, Ends, FilesTyped, Jobs
    <2>3. PICK c : c = [w.seen EXCEPT !.marks = @ \cup {t}]
      OBVIOUS
    <2>4. c \in Contents /\ c.base = w.seen.base /\ c.marks = w.seen.marks \cup {t}
      BY <1>6, <2>3 DEF Contents
    <2>5. file' = [file EXCEPT ![f] = c] /\ owed' = [owed EXCEPT ![f] = owed[f] \cup {t}]
      BY <1>1, <1>2, <1>3, <1>6, <1>8, <2>3 DEF EditFills, FilesTyped
    <2>6. owed[f] \cup {t} \in SUBSET Runners /\ owed[f] \cup {t} \subseteq c.marks
      BY <1>5, <1>6, <2>4
    <2>7. Touches(t, "unlock", "ok", c, owed[f] \cup {t})
      BY <1>2, <1>3, <1>4, <1>5, <2>2, <2>4, <2>5, <2>6 DEF Touches
    <2> QED
      BY <2>4, <2>6, <2>7, TouchSteps
  <1> QED
    BY <1>7, <1>8

(***************************************************************************)
(* The files: a step at the queue                                          *)
(***************************************************************************)

LEMMA QueueMoveKeeps ==
    ASSUME FilesInv, NEW t \in Runners, NEW j \in Jobs, job' = [job EXCEPT ![t] = j],
           UNCHANGED <<file, owed>>, ~Filling(t), j.pc \notin {"fillWrite", "fillEdit", "truncate"},
           j.seen = job[t].seen
    PROVE  FilesStay' /\ WholeOK' /\ SeenOK'
  <1>1. FilesTyped /\ FilesStay /\ WholeOK /\ SeenOK
    BY DEF FilesInv
  <1>2. job'[t] = j /\ \A u \in Runners : u # t => job'[u] = job[u]
    BY <1>1, JobMoves
  <1>3. FilesStay' /\ WholeOK'
    BY <1>1, <1>2 DEF FilesStay, WholeOK, Filling
  <1>4. SeenOK'
    <2> SUFFICES ASSUME NEW u \in Runners
                 PROVE  /\ job'[u].seen.base # "empty"
                        /\ job'[u].pc = "truncate" => job'[u].seen = file[FileOf[job'[u].path]]
                        /\ job'[u].pc \in {"truncate", "fillEdit"} =>
                              /\ job'[u].seen.base # "absent"
                              /\ owed[FileOf[job'[u].path]] \subseteq job'[u].seen.marks
                        /\ job'[u].pc = "fillWrite" => owed[FileOf[job'[u].path]] = {}
      BY DEF SeenOK
    <2>1. CASE u = t
      BY <1>1, <1>2, <2>1 DEF SeenOK
    <2>2. CASE u # t
      BY <1>1, <1>2, <2>2 DEF SeenOK
    <2> QED
      BY <2>1, <2>2
  <1> QED
    BY <1>3, <1>4

(* Joining a queue, found or made.                                         *)
LEMMA JoinSteps ==
    ASSUME FilesInv, NEW t \in Runners, JoinQueue(t)
    PROVE  FilesInv'
  <1>1. FilesTyped /\ FileQueuesOK /\ EntryOK /\ MutexOK /\ \A u \in Runners : JobOK(u)
    BY DEF FilesInv
  <1>2. PICK w \in Jobs : w = job[t]
    BY <1>1 DEF FilesTyped
  <1>3. /\ w.pc = "join" /\ w.op \in Mutations /\ w.path \in Paths /\ w.key = FileOf[w.path] /\ ~w.touched
        /\ ~tree[t]
    BY <1>1, <1>2 DEF JoinQueue, JobOK, Waits
  <1>4. PICK k \in Keys : k = w.key
    BY <1>3, FileToolsAssumption DEF Keys
  <1>5. PICK q : q = IF queues[k] = NoQueue THEN made + 1 ELSE queues[k]
    OBVIOUS
  <1>6. /\ queues[k] = NoQueue => made < MaxQueues
        /\ queues' = [queues EXCEPT ![k] = q]
        /\ made' = IF queues[k] = NoQueue THEN made + 1 ELSE made
        /\ job' = [job EXCEPT ![t].pc = "lock", ![t].queue = q]
        /\ UNCHANGED <<file, owed, holder, calls, checked, cancelled, tree>>
    BY <1>2, <1>4, <1>5 DEF JoinQueue
  <1>7. made \in 0..MaxQueues /\ queues[k] \in Queues \cup {NoQueue} /\ MaxQueues \in Nat
        /\ NoQueue \notin Queues
    BY <1>1, FileToolsAssumption DEF FilesTyped, Queues
  <1>8. q \in Queues /\ q # NoQueue /\ q <= made' /\ made <= made' /\ made' \in 0..MaxQueues
        /\ (queues[k] = NoQueue => ~(q <= made)) /\ (queues[k] # NoQueue => q = queues[k])
    <2>1. CASE queues[k] = NoQueue
      BY <1>5, <1>6, <1>7, <2>1 DEF Queues
    <2>2. CASE queues[k] # NoQueue
      BY <1>1, <1>5, <1>6, <1>7, <2>2 DEF Queues, FileQueuesOK
    <2> QED
      BY <2>1, <2>2
  <1>9. PICK j : j = [w EXCEPT !.pc = "lock", !.queue = q]
    OBVIOUS
  <1>10. job' = [job EXCEPT ![t] = j]
    BY <1>1, <1>2, <1>6, <1>9 DEF FilesTyped, Jobs
  <1>11. /\ j \in Jobs /\ j.pc = "lock" /\ j.op = w.op /\ j.path = w.path /\ j.result = w.result
         /\ j.key = w.key /\ j.queue = q /\ j.seen = w.seen /\ j.touched = w.touched
    BY <1>8, <1>9 DEF Jobs
  <1>12. job' \in [Runners -> Jobs] /\ job'[t] = j /\ \A u \in Runners : u # t => job'[u] = job[u]
    BY <1>1, <1>10, <1>11, JobMoves
  <1>13. queues'[k] = q /\ \A l \in Keys : l # k => queues'[l] = queues[l]
    BY <1>1, <1>6 DEF FilesTyped
  <1>14. FilesTyped'
    BY <1>1, <1>6, <1>8, <1>12 DEF FilesTyped
  <1>15. (\A u \in Runners : JobOK(u))'
    <2>1. JobOK(t)'
      BY <1>3, <1>6, <1>8, <1>11, <1>12 DEF JobOK, Waits, Joined
    <2>2. made' \in Nat /\ made <= made'
      BY <1>8
    <2> QED
      BY <1>1, <1>6, <1>12, <2>1, <2>2, JobsKept
  <1>16. FileQueuesOK'
    <2>1. ASSUME NEW l \in Keys, queues'[l] # NoQueue PROVE queues'[l] <= made'
      <3>1. CASE l = k
        BY <1>8, <1>13, <3>1
      <3>2. CASE l # k
        <4>1. queues[l] \in Queues /\ queues[l] <= made
          BY <1>1, <1>13, <2>1, <3>2 DEF FilesTyped, FileQueuesOK
        <4> QED
          BY <1>7, <1>8, <1>13, <3>2, <4>1 DEF Queues
      <3> QED
        BY <3>1, <3>2
    <2>2. ASSUME NEW l \in Keys, NEW m \in Keys, queues'[l] = queues'[m], queues'[l] # NoQueue PROVE l = m
      <3>1. ASSUME NEW n \in Keys, n # k, queues[n] = q PROVE FALSE
        BY <1>1, <1>8, <3>1 DEF FileQueuesOK
      <3> QED
        BY <1>1, <1>13, <2>2, <3>1 DEF FileQueuesOK
    <2> QED
      BY <2>1, <2>2 DEF FileQueuesOK
  <1>17. EntryOK'
    <2> SUFFICES ASSUME NEW u \in Runners, job'[u].pc \in Joined \ {"drop"}
                 PROVE  queues'[job'[u].key] = job'[u].queue
      BY DEF EntryOK
    <2>1. CASE u = t
      BY <1>4, <1>11, <1>12, <1>13, <2>1
    <2>2. CASE u # t
      <3>1. /\ job'[u] = job[u] /\ queues[job[u].key] = job[u].queue /\ job[u].queue # NoQueue
            /\ job[u].key \in Keys
        <4>1. job'[u] = job[u] /\ job[u].pc \in Joined \ {"drop"}
          BY <1>12, <2>2
        <4>2. JobOK(u) /\ job[u].path \in Paths
          BY <1>1, <4>1 DEF JobOK
        <4> QED
          BY <1>1, <4>1, <4>2, FileToolsAssumption DEF EntryOK, JobOK, Keys
      <3>2. CASE job[u].key = k
        BY <1>8, <1>13, <3>1, <3>2
      <3>3. CASE job[u].key # k
        BY <1>13, <3>1, <3>3
      <3> QED
        BY <3>2, <3>3
    <2> QED
      BY <2>1, <2>2
  <1>18. MutexOK'
    <2>1. \A u \in Runners : /\ InQueue(u)' <=> InQueue(u)
                             /\ InQueue(u) => job'[u].queue = job[u].queue
      BY <1>2, <1>3, <1>11, <1>12 DEF InQueue
    <2> QED
      BY <1>1, <1>6, <2>1 DEF MutexOK
  <1>19. FilesStay' /\ WholeOK' /\ SeenOK'
    <2>1. ~Filling(t) /\ j.pc \notin {"fillWrite", "fillEdit", "truncate"} /\ j.seen = job[t].seen
      BY <1>2, <1>3, <1>11 DEF Filling
    <2> QED
      BY <1>6, <1>10, <1>11, <2>1, QueueMoveKeeps
  <1> QED
    BY <1>14, <1>15, <1>16, <1>17, <1>18, <1>19 DEF FilesInv

(* The mutex of a queue taken and given back.                              *)
LEMMA LockSteps ==
    ASSUME FilesInv, NEW t \in Runners, LockQueue(t) \/ UnlockQueue(t)
    PROVE  FilesInv'
  <1>1. FilesTyped /\ FileQueuesOK /\ EntryOK /\ MutexOK /\ \A u \in Runners : JobOK(u)
    BY DEF FilesInv
  <1>2. PICK w \in Jobs : w = job[t]
    BY <1>1 DEF FilesTyped
  <1>3. PICK pc : /\ job' = [job EXCEPT ![t].pc = pc]
                  /\ \/ LockQueue(t) /\ w.pc = "lock" /\ pc = w.op
                     \/ UnlockQueue(t) /\ w.pc = "unlock" /\ pc = "cleanup"
    BY <1>2 DEF LockQueue, UnlockQueue, Moves
  <1>4. /\ w.op \in Mutations /\ w.path \in Paths /\ w.key = FileOf[w.path] /\ ~tree[t]
        /\ w.queue # NoQueue /\ w.queue <= made /\ w.pc \in Joined
        /\ w.pc = "lock" => ~w.touched
        /\ w.pc = "unlock" => (w.touched <=> w.result = "ok")
    BY <1>1, <1>2, <1>3 DEF JobOK, Waits, Joined
  <1>5. PICK q \in Queues : q = w.queue
    BY <1>4 DEF Jobs
  <1>6. PICK j : j = [w EXCEPT !.pc = pc]
    OBVIOUS
  <1>7. job' = [job EXCEPT ![t] = j]
    BY <1>1, <1>2, <1>3, <1>6 DEF FilesTyped, Jobs
  <1>8. pc \in {"write", "edit", "cleanup"}
    BY <1>3, <1>4 DEF Mutations
  <1>9. /\ j \in Jobs /\ j.pc = pc /\ j.op = w.op /\ j.path = w.path /\ j.result = w.result
        /\ j.key = w.key /\ j.queue = w.queue /\ j.seen = w.seen /\ j.touched = w.touched
    BY <1>6, <1>8 DEF Jobs
  <1>10. job' \in [Runners -> Jobs] /\ job'[t] = j /\ \A u \in Runners : u # t => job'[u] = job[u]
    BY <1>1, <1>7, <1>9, JobMoves
  <1>11. UNCHANGED <<file, owed, queues, made, calls, checked, cancelled, tree>>
    BY <1>3 DEF LockQueue, UnlockQueue
  <1>12. /\ \A r \in Queues : r # q => holder'[r] = holder[r]
         /\ holder' \in [Queues -> Runners \cup {"none"}]
         /\ LockQueue(t) => holder'[q] = t /\ holder[q] = "none"
         /\ UnlockQueue(t) => holder'[q] = "none"
    BY <1>1, <1>2, <1>5 DEF LockQueue, UnlockQueue, FilesTyped
  <1>13. FilesTyped'
    BY <1>1, <1>10, <1>11, <1>12 DEF FilesTyped
  <1>14. (\A u \in Runners : JobOK(u))'
    <2>1. JobOK(t)'
      BY <1>3, <1>4, <1>9, <1>10, <1>11, ZenonT(60) DEF JobOK, Waits, Joined, Mutations
    <2>2. made' \in Nat /\ made <= made'
      BY <1>1, <1>11, FileToolsAssumption DEF FilesTyped
    <2> QED
      BY <1>1, <1>10, <1>11, <2>1, <2>2, JobsKept
  <1>15. FileQueuesOK' /\ EntryOK'
    <2>1. FileQueuesOK'
      BY <1>1, <1>11 DEF FileQueuesOK
    <2>2. w.pc \in Joined \ {"drop"}
      BY <1>3, <1>4
    <2>3. \A u \in Runners : job'[u].pc \in Joined \ {"drop"} =>
              job[u].pc \in Joined \ {"drop"} /\ job'[u].key = job[u].key /\ job'[u].queue = job[u].queue
      BY <1>2, <1>9, <1>10, <2>2
    <2> QED
      BY <1>1, <1>11, <2>1, <2>3 DEF EntryOK
  <1>16. MutexOK'
    <2>1. \A u \in Runners : /\ job'[u].queue = job[u].queue
                             /\ u # t => (InQueue(u)' <=> InQueue(u))
      BY <1>2, <1>9, <1>10 DEF InQueue
    <2>2. "none" \notin Runners
      BY FileToolsAssumption
    <2>3. CASE LockQueue(t)
      <3>1. InQueue(t)' /\ ~InQueue(t)
        BY <1>2, <1>3, <1>4, <1>9, <1>10, <2>3 DEF InQueue, Mutations, UnlockQueue, LockQueue
      <3>2. ASSUME NEW u \in Runners, InQueue(u)' PROVE holder'[job'[u].queue] = u
        <4>1. CASE u = t
          BY <1>2, <1>5, <1>9, <1>10, <1>12, <2>3, <4>1
        <4>2. CASE u # t
          <5>1. InQueue(u) /\ holder[job[u].queue] = u
            BY <1>1, <2>1, <3>2, <4>2 DEF MutexOK
          <5>2. job[u].queue # q
            BY <1>12, <2>2, <2>3, <5>1
          <5>3. job[u].queue \in Queues
            <6>1. JobOK(u) /\ job[u] \in Jobs /\ job[u].pc \in Joined
              BY <1>1, <5>1 DEF InQueue, Joined, FilesTyped
            <6> QED
              BY <6>1 DEF JobOK, Jobs
          <5> QED
            BY <1>12, <2>1, <5>1, <5>2, <5>3
        <4> QED
          BY <4>1, <4>2
      <3>3. ASSUME NEW r \in Queues, NEW u \in Runners, holder'[r] = u
            PROVE  InQueue(u)' /\ job'[u].queue = r
        <4>1. CASE r = q
          BY <1>2, <1>5, <1>12, <2>1, <2>3, <3>1, <3>3, <4>1
        <4>2. CASE r # q
          <5>1. InQueue(u) /\ job[u].queue = r
            BY <1>1, <1>12, <3>3, <4>2 DEF MutexOK
          <5> QED
            BY <2>1, <3>1, <5>1
        <4> QED
          BY <4>1, <4>2
      <3> QED
        BY <3>2, <3>3 DEF MutexOK
    <2>4. CASE UnlockQueue(t)
      <3>1. InQueue(t) /\ ~InQueue(t)' /\ holder[q] = t
        <4>1. w.pc = "unlock" /\ pc = "cleanup"
          BY <1>2, <1>3, <2>4 DEF UnlockQueue
        <4>2. InQueue(t) /\ ~InQueue(t)'
          BY <1>2, <1>9, <1>10, <4>1 DEF InQueue
        <4> QED
          BY <1>1, <1>2, <1>5, <4>2 DEF MutexOK
      <3>2. ASSUME NEW u \in Runners, InQueue(u)' PROVE holder'[job'[u].queue] = u
        <4>1. u # t /\ InQueue(u) /\ holder[job[u].queue] = u
          BY <1>1, <2>1, <3>1, <3>2 DEF MutexOK
        <4>2. job[u].queue # q
          BY <3>1, <4>1
        <4>3. job[u].queue \in Queues
          <5>1. JobOK(u) /\ job[u] \in Jobs /\ job[u].pc \in Joined
            BY <1>1, <4>1 DEF InQueue, Joined, FilesTyped
          <5> QED
            BY <5>1 DEF JobOK, Jobs
        <4> QED
          BY <1>12, <2>1, <4>1, <4>2, <4>3
      <3>3. ASSUME NEW r \in Queues, NEW u \in Runners, holder'[r] = u
            PROVE  InQueue(u)' /\ job'[u].queue = r
        <4>1. r # q
          BY <1>12, <2>2, <2>4, <3>3
        <4>2. InQueue(u) /\ job[u].queue = r
          BY <1>1, <1>12, <3>3, <4>1 DEF MutexOK
        <4>3. u # t
          BY <1>2, <1>5, <4>1, <4>2
        <4> QED
          BY <2>1, <4>2, <4>3
      <3> QED
        BY <3>2, <3>3 DEF MutexOK
    <2> QED
      BY <1>3, <2>3, <2>4
  <1>17. FilesStay' /\ WholeOK' /\ SeenOK'
    <2>1. ~Filling(t) /\ j.pc \notin {"fillWrite", "fillEdit", "truncate"} /\ j.seen = job[t].seen
      BY <1>2, <1>3, <1>8, <1>9 DEF Filling
    <2> QED
      BY <1>7, <1>9, <1>11, <2>1, QueueMoveKeeps
  <1> QED
    BY <1>13, <1>14, <1>15, <1>16, <1>17 DEF FilesInv

(* A queue that may go from the map has no other user.                     *)
LEMMA LastUser ==
    ASSUME FilesInv, NEW t \in Runners, JobOK(t), job[t].pc = "cleanup", MayRemove(t),
           NEW u \in Runners, u # t, job[u].queue = job[t].queue
    PROVE  FALSE
  <1>1. FileQueuesOK /\ job[t].key = FileOf[job[t].path] /\ job[t].path \in Paths /\ job[t].queue # NoQueue
    BY DEF FilesInv, JobOK, Joined
  <1>2. PICK q, k : q = job[t].queue /\ k = job[t].key
    OBVIOUS
  <1>3. k \in Keys /\ queues[k] = q /\ q # NoQueue
    BY <1>1, <1>2, FileToolsAssumption DEF Keys, MayRemove
  <1>4. {l \in Keys : queues[l] = q} = {k}
    BY <1>1, <1>3 DEF FileQueuesOK
  <1>5. Cardinality({l \in Keys : queues[l] = q}) = 1
    BY <1>4, FS_Singleton
  <1>6. IsFiniteSet({v \in Runners : job[v].queue = q})
    BY FileToolsAssumption, FS_Subset
  <1>7. Cardinality({t, u}) = 2
    <2>1. IsFiniteSet({t}) /\ Cardinality({t}) = 1
      BY FS_Singleton
    <2>2. Cardinality({t} \cup {u}) = Cardinality({t}) + 1
      BY <2>1, FS_AddElement
    <2>3. {t, u} = {t} \cup {u}
      OBVIOUS
    <2> QED
      BY <2>1, <2>2, <2>3
  <1>8. {t, u} \subseteq {v \in Runners : job[v].queue = q}
    BY <1>2
  <1>9. Cardinality({t, u}) <= Cardinality({v \in Runners : job[v].queue = q})
    BY <1>6, <1>8, FS_Subset
  <1>10. Cardinality({v \in Runners : job[v].queue = q}) \in Nat
    BY <1>6, FS_CardinalityType
  <1> QED
    BY <1>2, <1>5, <1>7, <1>9, <1>10 DEF MayRemove, StrongCount

LEMMA CleanUpSteps ==
    ASSUME FilesInv, NEW t \in Runners, CleanUp(t)
    PROVE  FilesInv'
  <1>1. FilesTyped /\ FileQueuesOK /\ EntryOK /\ MutexOK /\ \A u \in Runners : JobOK(u)
    BY DEF FilesInv
  <1>2. PICK w \in Jobs : w = job[t]
    BY <1>1 DEF FilesTyped
  <1>3. /\ w.pc = "cleanup" /\ w.op \in Mutations /\ w.path \in Paths /\ w.key = FileOf[w.path] /\ ~tree[t]
        /\ w.queue # NoQueue /\ w.queue <= made /\ (w.touched <=> w.result = "ok")
    BY <1>1, <1>2 DEF CleanUp, JobOK, Joined
  <1>4. PICK k \in Keys : k = w.key
    BY <1>3, FileToolsAssumption DEF Keys
  <1>5. /\ queues' = IF MayRemove(t) THEN [queues EXCEPT ![k] = NoQueue] ELSE queues
        /\ job' = [job EXCEPT ![t].pc = "drop"]
        /\ UNCHANGED <<file, owed, made, holder, calls, checked, cancelled, tree>>
    BY <1>2, <1>4 DEF CleanUp, Moves
  <1>6. PICK j : j = [w EXCEPT !.pc = "drop"]
    OBVIOUS
  <1>7. job' = [job EXCEPT ![t] = j]
    BY <1>1, <1>2, <1>5, <1>6 DEF FilesTyped, Jobs
  <1>8. /\ j \in Jobs /\ j.pc = "drop" /\ j.op = w.op /\ j.path = w.path /\ j.result = w.result
        /\ j.key = w.key /\ j.queue = w.queue /\ j.seen = w.seen /\ j.touched = w.touched
    BY <1>6 DEF Jobs
  <1>9. job' \in [Runners -> Jobs] /\ job'[t] = j /\ \A u \in Runners : u # t => job'[u] = job[u]
    BY <1>1, <1>7, <1>8, JobMoves
  <1>10. /\ queues' \in [Keys -> Queues \cup {NoQueue}]
         /\ \A l \in Keys : l # k => queues'[l] = queues[l]
         /\ queues'[k] \in {queues[k], NoQueue}
         /\ ~MayRemove(t) => queues' = queues
    BY <1>1, <1>5 DEF FilesTyped
  <1>11. FilesTyped'
    BY <1>1, <1>5, <1>9, <1>10 DEF FilesTyped
  <1>12. (\A u \in Runners : JobOK(u))'
    <2>1. JobOK(t)'
      BY <1>3, <1>5, <1>8, <1>9 DEF JobOK, Waits, Joined
    <2>2. made' \in Nat /\ made <= made'
      BY <1>1, <1>5, FileToolsAssumption DEF FilesTyped
    <2> QED
      BY <1>1, <1>5, <1>9, <2>1, <2>2, JobsKept
  <1>13. FileQueuesOK'
    <2>1. \A l \in Keys : queues'[l] # NoQueue => queues'[l] = queues[l]
      BY <1>10
    <2> QED
      BY <1>1, <1>5, <2>1 DEF FileQueuesOK
  <1>14. EntryOK'
    <2> SUFFICES ASSUME NEW u \in Runners, job'[u].pc \in Joined \ {"drop"}
                 PROVE  queues'[job'[u].key] = job'[u].queue
      BY DEF EntryOK
    <2>1. u # t /\ job'[u] = job[u] /\ queues[job[u].key] = job[u].queue /\ job[u].key \in Keys
      <3>1. u # t /\ job'[u] = job[u]
        BY <1>8, <1>9
      <3>2. JobOK(u) /\ job[u].pc \in Joined /\ job[u].path \in Paths /\ job[u].key = FileOf[job[u].path]
        BY <1>1, <3>1 DEF JobOK
      <3> QED
        BY <1>1, <3>1, <3>2, FileToolsAssumption DEF EntryOK, Keys
    <2>2. CASE job[u].key = k /\ MayRemove(t)
      <3>1. job[u].queue = job[t].queue
        BY <1>2, <1>4, <2>1, <2>2 DEF MayRemove
      <3> QED
        BY <1>1, <1>2, <1>3, <2>1, <2>2, <3>1, LastUser
    <2>3. CASE job[u].key # k \/ ~MayRemove(t)
      BY <1>10, <2>1, <2>3
    <2> QED
      BY <2>2, <2>3
  <1>15. MutexOK'
    <2>1. \A u \in Runners : (InQueue(u)' <=> InQueue(u)) /\ job'[u].queue = job[u].queue
      BY <1>2, <1>3, <1>8, <1>9 DEF InQueue
    <2> QED
      BY <1>1, <1>5, <2>1 DEF MutexOK
  <1>16. FilesStay' /\ WholeOK' /\ SeenOK'
    <2>1. ~Filling(t) /\ j.pc \notin {"fillWrite", "fillEdit", "truncate"} /\ j.seen = job[t].seen
      BY <1>2, <1>3, <1>8 DEF Filling
    <2> QED
      BY <1>5, <1>7, <1>8, <2>1, QueueMoveKeeps
  <1> QED
    BY <1>11, <1>12, <1>13, <1>14, <1>15, <1>16 DEF FilesInv

(***************************************************************************)
(* The files: the theorem                                                  *)
(***************************************************************************)

LEMMA FilesInit == FileInit => FilesInv
  <1> SUFFICES ASSUME FileInit PROVE FilesInv
    OBVIOUS
  <1>1. /\ Absent \in Contents /\ Original \in Contents
        /\ Absent.base = "absent" /\ Original.base = "original" /\ Absent.marks = {} /\ Original.marks = {}
    BY DEF Absent, Original, Contents
  <1>2. NoJob \in Jobs /\ NoJob.pc = "rest" /\ NoJob.op = "none" /\ NoJob.queue = NoQueue /\ NoJob.seen = Absent
    BY <1>1 DEF NoJob, Jobs
  <1>3. \A t \in Runners : job[t] = NoJob /\ tree[t] = FALSE
    BY DEF FileInit
  <1>4. FilesTyped
    <2>1. /\ file \in [Files -> Contents] /\ owed \in [Files -> SUBSET Runners]
          /\ job \in [Runners -> Jobs]
      BY <1>1, <1>2 DEF FileInit
    <2> QED
      BY <2>1, FileToolsAssumption DEF FileInit, FilesTyped
  <1>5. FilesStay /\ WholeOK
    BY <1>1, FileToolsAssumption DEF FileInit, FilesStay, WholeOK
  <1>6. \A t \in Runners : JobOK(t)
    BY <1>2, <1>3 DEF JobOK, Waits, Joined, Mutations
  <1>7. FileQueuesOK
    BY DEF FileInit, FileQueuesOK
  <1>8. EntryOK
    BY <1>2, <1>3 DEF EntryOK, Joined
  <1>9. MutexOK
    <2>1. \A q \in Queues : holder[q] = "none"
      BY DEF FileInit
    <2> QED
      BY <1>2, <1>3, <2>1, FileToolsAssumption DEF MutexOK, InQueue
  <1>10. SeenOK
    BY <1>1, <1>2, <1>3 DEF SeenOK
  <1> QED
    BY <1>4, <1>5, <1>6, <1>7, <1>8, <1>9, <1>10 DEF FilesInv

LEMMA FilesStep ==
    ASSUME FilesInv, NewByName, [FileNext]_fileVars
    PROVE  FilesInv'
  <1>1. CASE UNCHANGED fileVars
    <2>1. UNCHANGED <<file, owed, queues, made, holder, job, calls, checked, cancelled, tree>>
      BY <1>1 DEF fileVars
    <2>2. FilesTyped' /\ FilesStay' /\ FileQueuesOK' /\ EntryOK' /\ WholeOK' /\ SeenOK'
      BY <2>1 DEF FilesInv, FilesTyped, FilesStay, FileQueuesOK, EntryOK, WholeOK, SeenOK, Filling
    <2>3. MutexOK'
      BY <2>1 DEF FilesInv, MutexOK, InQueue
    <2>4. (\A t \in Runners : JobOK(t))'
      BY <2>1 DEF FilesInv, JobOK
    <2> QED
      BY <2>2, <2>3, <2>4 DEF FilesInv
  <1>2. CASE FileNext
    <2>1. PICK t \in Runners :
             \/ \E op \in {"read", "write", "edit"}, p \in Paths : BeginCall(t, op, p)
             \/ CallShell(t) \/ Proceeds(t) \/ CancelCall(t)
             \/ ShellExits(t) \/ ShellTimesOut(t) \/ ShellCancelled(t)
      BY <1>2 DEF FileNext
    <2>2. CASE \E op \in {"read", "write", "edit"}, p \in Paths : BeginCall(t, op, p)
      BY <2>2, BeginSteps
    <2>3. CASE CallShell(t) \/ ShellExits(t) \/ ShellTimesOut(t) \/ ShellCancelled(t)
      BY <2>3, ShellSteps
    <2>4. CASE CancelCall(t)
      BY <2>4, CancelSteps
    <2>5. CASE ReadFile(t) \/ ReadCancelled(t)
      BY <2>5, ReadFileSteps
    <2>6. CASE FindKey(t)
      BY <2>6, FindKeySteps
    <2>7. CASE JoinQueue(t)
      BY <2>7, JoinSteps
    <2>8. CASE LockQueue(t) \/ UnlockQueue(t)
      BY <2>8, LockSteps
    <2>9. CASE CleanUp(t)
      BY <2>9, CleanUpSteps
    <2>10. CASE DropQueue(t)
      BY <2>10, DropSteps
    <2>11. CASE WriteTruncates(t) \/ WriteFills(t)
      BY <2>11, WriteSteps
    <2>12. CASE EditReads(t)
      BY <2>12, EditReadsSteps
    <2>13. CASE EditTruncates(t) \/ EditFills(t)
      BY <2>13, EditSteps
    <2> QED
      BY <2>1, <2>2, <2>3, <2>4, <2>5, <2>6, <2>7, <2>8, <2>9, <2>10, <2>11, <2>12, <2>13 DEF Proceeds
  <1> QED
    BY <1>1, <1>2

LEMMA FilesFollow == FilesInv => EditsIntact
  <1> SUFFICES ASSUME FilesInv PROVE EditsIntact
    OBVIOUS
  <1>1. FilesTyped /\ MutexOK /\ WholeOK /\ SeenOK /\ \A t \in Runners : JobOK(t)
    BY DEF FilesInv
  <1>2. FileTypeOK
    <2>1. \A f \in Files : owed[f] \subseteq Runners /\ file[f].marks \subseteq Runners
      BY <1>1 DEF FilesTyped, Contents
    <2>2. \A t \in Runners : InQueue(t) => job[t].queue \in Queues
      <3> SUFFICES ASSUME NEW t \in Runners, InQueue(t) PROVE job[t].queue \in Queues
        OBVIOUS
      <3>1. job[t] \in Jobs /\ JobOK(t) /\ job[t].pc \in Joined
        BY <1>1 DEF InQueue, Joined, FilesTyped
      <3> QED
        BY <3>1 DEF JobOK, Jobs
    <2>3. \A t \in Runners : InQueue(t) <=> \E q \in Queues : holder[q] = t /\ job[t].queue = q
      BY <1>1, <2>2 DEF MutexOK
    <2>4. \A t \in Runners : tree[t] <=> job[t].pc = "shell"
      BY <1>1 DEF JobOK
    <2> QED
      BY <1>1, <2>1, <2>3, <2>4 DEF FileTypeOK, FilesTyped
  <1>3. EditsKept
    <2> SUFFICES ASSUME NEW f \in Files,
                        \A t \in Runners : job[t].path # "none" /\ FileOf[job[t].path] = f
                                            => job[t].pc \notin {"fillWrite", "fillEdit"}
                 PROVE  owed[f] \subseteq file[f].marks
      BY DEF EditsKept
    <2>1. ASSUME NEW t \in Runners, Filling(t) PROVE FileOf[job[t].path] # f
      <3>1. job[t].path \in Paths /\ job[t].path # "none"
        BY <1>1, <2>1, FileToolsAssumption DEF JobOK, Filling, Joined
      <3> QED
        BY <2>1, <3>1 DEF Filling
    <2> QED
      BY <1>1, <2>1 DEF WholeOK
  <1>4. EditSeesWhole
    BY <1>1 DEF SeenOK, EditSeesWhole
  <1>5. ResultTruthful
    BY <1>1 DEF JobOK, ResultTruthful
  <1> QED
    BY <1>2, <1>3, <1>4, <1>5 DEF EditsIntact

(* with_file_mutation_queue, the write and edit tools: whatever runners,    *)
(* files and paths there are, as long as a file that may not be there yet   *)
(* has one path (mutation_queue_key cannot tell that two lead to it), no    *)
(* edit undoes another, none reads a half-written file, whoever is in a     *)
(* queue holds its mutex, and each result says what was done.               *)
THEOREM ToolEditsIntact == NewByName => (FileSpec => []EditsIntact)
  <1> SUFFICES ASSUME NewByName PROVE FileSpec => []EditsIntact
    OBVIOUS
  <1>1. FileInit => FilesInv
    BY FilesInit
  <1>2. FilesInv /\ [FileNext]_fileVars => FilesInv'
    BY FilesStep
  <1>3. FilesInv => EditsIntact
    BY FilesFollow
  <1> QED
    BY <1>1, <1>2, <1>3, PTL DEF FileSpec
==============================================================================
