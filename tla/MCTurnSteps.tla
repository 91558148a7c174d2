----------------------------- MODULE MCTurnSteps ----------------------------
(***************************************************************************)
(* The steps of an agent turn: the model call that asks for tools, the     *)
(* approval and the record of each tool call (a read, a shell command, a   *)
(* write and the ask tool), and what the tools of several turns do to the  *)
(* files. A behaviour runs one of them while the others stay in an initial *)
(* state.                                                                  *)
(***************************************************************************)
EXTENDS ModelCalls, ToolRuns, FileTools, TLC

CONSTANTS r1, r2    \* two runners with equal checks
VARIABLE part    \* the component this behaviour runs

(* The first two runners do the same things. *)
StepSymmetry == Permutations(Calls) \cup Permutations({r1, r2})

(* An operator's command meets at most one turn. *)
OperatorBound == OperatorTools = {} \/ TurnsStarted <= 1

(* The last answer of the model has one call at most and no reasoning: the  *)
(* adapter starts it with nothing left of the first one, whose calls come   *)
(* in parallel, and no later turn sends its reasoning anywhere.             *)
AnswerBound == requests = MaxModelCalls => answer.calls # WireCalls /\ ~answer.thinks

AnyDecision ==
    {[approved |-> TRUE, scope |-> "once"], [approved |-> TRUE, scope |-> "session"],
     [approved |-> FALSE, scope |-> "always"]}

MCFileOf == [f |-> "f", alias |-> "f", new |-> "new"]

Init ==
    /\ part \in {"model", "tools", "files"}
    /\ ModelInit
    /\ ToolInit
    /\ FileInit
    /\ part # "model" => dialect = "openai"

RunModel ==
    /\ part = "model"
    /\ ModelNext
    /\ UNCHANGED <<part, vars, fileVars>>

RunTools ==
    /\ part = "tools"
    /\ ToolNext
    /\ UNCHANGED <<part, modelVars, fileVars>>

RunFiles ==
    /\ part = "files"
    /\ FileNext
    /\ UNCHANGED <<part, modelVars, vars>>

Next == RunModel \/ RunTools \/ RunFiles

Spec == Init /\ [][Next]_<<part, modelVars, vars, fileVars>>
=============================================================================
