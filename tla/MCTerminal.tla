----------------------------- MODULE MCTerminal -----------------------------
(***************************************************************************)
(* The client's side: the transcript view, the control plane of the chat   *)
(* and the launcher. The three share no state, so a behaviour runs one of  *)
(* them while the others stay in an initial state; the states are those of *)
(* the three checked apart.                                                *)
(***************************************************************************)
EXTENDS TranscriptView, ChatControl, Launcher

VARIABLE part    \* the component this behaviour runs

Init ==
    /\ part \in {"view", "chat", "launcher"}
    /\ ViewInit
    /\ ChatInit
    /\ LauncherInit
    /\ part # "launcher" => defaults = "claude" /\ ready = [c \in Supported |-> "ready"]

RunView ==
    /\ part = "view"
    /\ ViewNext
    /\ UNCHANGED <<part, chatVars, launcherVars>>

RunChat ==
    /\ part = "chat"
    /\ ChatNext
    /\ UNCHANGED <<part, tvars, launcherVars>>

RunLauncher ==
    /\ part = "launcher"
    /\ LauncherNext
    /\ UNCHANGED <<part, tvars, chatVars>>

Next == RunView \/ RunChat \/ RunLauncher

Spec == Init /\ [][Next]_<<part, tvars, chatVars, launcherVars>>
=============================================================================
