---------------------------- MODULE MCAdmission -----------------------------
(***************************************************************************)
(* What a turn is admitted with: the stored credential of its connection   *)
(* and the settings revision it is recorded under. A behaviour runs one of *)
(* them while the other stays in an initial state; of the credential, two  *)
(* turns of the server, or one of them and the probe of another process.   *)
(***************************************************************************)
EXTENDS Credentials, TurnSettings, TLC

CONSTANTS t1, t2,    \* two turns of the server
          u1, u2     \* two requests that update the settings

VARIABLE part    \* the component this behaviour runs

MCProcessOf(t) == IF t = "probe" THEN "cli" ELSE "server"
AdmissionSymmetry == Permutations({t1, t2}) \cup Permutations({u1, u2})
MCAuthSources == <<"empty", "secret">>

MCConfigurations == {[x |-> "mx", y |-> "my"], [y |-> "mz"]}
MCFirst == [conn |-> "x", model |-> "default", mode |-> "full"]
MCPatches == {[conn |-> "y", model |-> "keep", mode |-> "keep"],
              [conn |-> "keep", model |-> "m1", mode |-> "plan"]}

Init ==
    /\ part \in {"racing", "across", "settings"}
    /\ CredInit
    /\ SettingsInit
    /\ part = "settings" => keychainUp

RunCredentials ==
    /\ \/ part = "racing" /\ CredNext /\ task'["probe"] = Idle
       \/ part = "across" /\ CredNext /\ \E t \in {t1, t2} : task'[t] = Idle
    /\ UNCHANGED <<part, settingsVars>>

RunSettings ==
    /\ part = "settings"
    /\ SettingsNext
    /\ UNCHANGED <<part, credVars>>

Next == RunCredentials \/ RunSettings

Spec == Init /\ [][Next]_<<part, credVars, settingsVars>>
=============================================================================
