----------------------------- MODULE FileTools -----------------------------
(***************************************************************************)
(* The built-in tools at work (bt-tools): read, write and edit on the      *)
(* files of a project, and shell commands, called by the turns of several  *)
(* sessions of one server at once.  Writes and edits of a file take their  *)
(* turn in a queue that is looked up by the file's canonical path and is   *)
(* dropped with its last user; the write itself truncates the file and     *)
(* fills it.  A mutation is refused until the session has read one of the  *)
(* project's checks.  A cancelled turn cuts a read short, waits for a      *)
(* mutation, and kills a shell command with all it started.                *)
(***************************************************************************)
EXTENDS Naturals, FiniteSets

CONSTANTS
    Runners,      \* turn workers, each of a session of its own
    Files,      \* the files, by canonical path
    Paths,      \* the paths tools are called with
    FileOf,     \* the file a path leads to: a function on Paths
    Checks,     \* the paths that are validation surfaces
    FirstFiles, \* the files that exist at the start
    NoQueue,    \* not in any queue
    MaxQueues,  \* bound on queues that are ever made
    Prepared,   \* the sessions whose earlier turns have read a check
    MaxCalls    \* bound on the calls

ASSUME FileToolsAssumption ==
    /\ FileOf \in [Paths -> Files] /\ Checks \subseteq Paths
    /\ FirstFiles \subseteq Files /\ MaxQueues \in Nat /\ NoQueue \notin 1..MaxQueues
    /\ Prepared \subseteq Runners /\ MaxCalls \in Nat
    /\ IsFiniteSet(Runners) /\ Runners \cap {"none", "absent", "empty", "original"} = {}
    /\ "none" \notin Paths

VARIABLES
    file,      \* what is in each file: who wrote it, whose edits it has
    owed,      \* the edits that were made and not overwritten since
    queues,    \* mutation_queues: the queue of each key
    made,      \* how many queues were made
    holder,    \* the runner that holds each queue's mutex
    job,       \* the call each runner is at
    calls,     \* how many calls were made
    checked,   \* the sessions that have read a validation surface
    cancelled, \* the turns that were cancelled
    tree       \* whether the processes of each runner's shell command run

fileVars == <<file, owed, queues, made, holder, job, calls, checked, cancelled, tree>>

Absent == [base |-> "absent", marks |-> {}]
Empty == [base |-> "empty", marks |-> {}]
Original == [base |-> "original", marks |-> {}]
NoJob == [pc |-> "rest", op |-> "none", path |-> "none", key |-> "none",
           queue |-> NoQueue, seen |-> Absent, result |-> "none", touched |-> FALSE]
Mutations == {"write", "edit"}
Keys == Files \cup Paths
Queues == 1..MaxQueues

Moves(t, pc) == job' = [job EXCEPT ![t].pc = pc]
Returns(t, result) == job' = [job EXCEPT ![t].pc = "rest", ![t].result = result]

-----------------------------------------------------------------------------
(* A call begins: execute_tool_call / execute_tool.                         *)

(* ValidationPreflightContext::allows_mutation *)
AllowsMutation(t) == Checks = {} \/ t \in checked

BeginCall(t, op, p) ==
    /\ job[t].pc = "rest" /\ calls < MaxCalls
    /\ calls' = calls + 1
    /\ job' = [job EXCEPT ![t] =
         [NoJob EXCEPT !.op = op, !.path = p,
            !.pc = IF t \in cancelled \/ (op \in Mutations /\ ~AllowsMutation(t)) THEN "rest"
                   ELSE IF op \in Mutations THEN "key" ELSE op,
            !.result = IF op \in Mutations /\ ~AllowsMutation(t) THEN "warned"
                       ELSE IF t \in cancelled THEN "cancelled" ELSE "none"]]
    /\ UNCHANGED <<file, owed, queues, made, holder, checked, cancelled, tree>>

(* ShellTool::execute, unless the turn is cancelled already. *)
CallShell(t) ==
    /\ job[t].pc = "rest" /\ calls < MaxCalls /\ t \notin cancelled
    /\ calls' = calls + 1
    /\ job' = [job EXCEPT ![t] = [NoJob EXCEPT !.op = "shell", !.pc = "shell"]]
    /\ tree' = [tree EXCEPT ![t] = TRUE]
    /\ UNCHANGED <<file, owed, queues, made, holder, checked, cancelled>>

(* ReadTool does not queue; reading a surface is what the preflight asks.   *)
ReadFile(t) ==
    /\ job[t].pc = "read"
    /\ LET f == FileOf[job[t].path]
           ok == file[f] # Absent
       IN /\ Returns(t, IF ok THEN "ok" ELSE "error")
          /\ checked' = IF ok /\ job[t].path \in Checks THEN checked \cup {t} ELSE checked
    /\ UNCHANGED <<file, owed, queues, made, holder, calls, cancelled, tree>>

(* ToolInterruptBehavior::Immediate: the call is dropped. *)
ReadCancelled(t) ==
    /\ job[t].pc = "read" /\ t \in cancelled
    /\ Returns(t, "cancelled")
    /\ UNCHANGED <<file, owed, queues, made, holder, calls, checked, cancelled, tree>>

-----------------------------------------------------------------------------
(* with_file_mutation_queue.                                                *)

(* Mutant of QueueKey: the path as it was given. *)
QueueKeyGiven(p) == p

(* mutation_queue_key: canonicalize needs the file to be there. *)
QueueKey(p) == IF file[FileOf[p]] # Absent THEN FileOf[p] ELSE p

FindKey(t) ==
    /\ job[t].pc = "key"
    /\ job' = [job EXCEPT ![t].pc = "join", ![t].key = QueueKey(job[t].path)]
    /\ UNCHANGED <<file, owed, queues, made, holder, calls, checked, cancelled, tree>>

(* entry(key).or_insert_with(..).clone(), under the map's lock. *)
JoinQueue(t) ==
    LET k == job[t].key
        fresh == queues[k] = NoQueue
        q == IF fresh THEN made + 1 ELSE queues[k]
    IN /\ job[t].pc = "join" /\ (fresh => made < MaxQueues)
       /\ queues' = [queues EXCEPT ![k] = q]
       /\ made' = IF fresh THEN made + 1 ELSE made
       /\ job' = [job EXCEPT ![t].pc = "lock", ![t].queue = q]
       /\ UNCHANGED <<file, owed, holder, calls, checked, cancelled, tree>>

LockQueue(t) ==
    LET q == job[t].queue
    IN /\ job[t].pc = "lock" /\ holder[q] = "none"
       /\ holder' = [holder EXCEPT ![q] = t]
       /\ Moves(t, job[t].op)
       /\ UNCHANGED <<file, owed, queues, made, calls, checked, cancelled, tree>>

(* The guard is dropped with the block. *)
UnlockQueue(t) ==
    /\ job[t].pc = "unlock"
    /\ holder' = [holder EXCEPT ![job[t].queue] = "none"]
    /\ Moves(t, "cleanup")
    /\ UNCHANGED <<file, owed, queues, made, calls, checked, cancelled, tree>>

(* Arc::strong_count: the map's, and one for each runner that has not      *)
(* dropped its own yet.                                                     *)
StrongCount(q) ==
    Cardinality({k \in Keys : queues[k] = q}) + Cardinality({t \in Runners : job[t].queue = q})

(* Mutant of MayRemove: nobody else is looked for. *)
MayRemoveAlways(t) == queues[job[t].key] = job[t].queue

(* The map's clone and our own: nobody waits.  Also the entry must be ours. *)
MayRemove(t) ==
    /\ StrongCount(job[t].queue) = 2
    /\ queues[job[t].key] = job[t].queue

CleanUp(t) ==
    /\ job[t].pc = "cleanup"
    /\ queues' = IF MayRemove(t) THEN [queues EXCEPT ![job[t].key] = NoQueue] ELSE queues
    /\ Moves(t, "drop")
    /\ UNCHANGED <<file, owed, made, holder, calls, checked, cancelled, tree>>

(* The function returns: its clone is dropped after the map's lock.        *)
DropQueue(t) ==
    /\ job[t].pc = "drop"
    /\ job' = [job EXCEPT ![t].pc = "rest", ![t].queue = NoQueue]
    /\ UNCHANGED <<file, owed, queues, made, holder, calls, checked, cancelled, tree>>

-----------------------------------------------------------------------------
(* The operations in the queue.                                             *)

Ends(t, result, pc) ==
    [job EXCEPT ![t].pc = pc, ![t].result = result]

(* WriteTool: fs::write creates or truncates the file ... *)
WriteTruncates(t) ==
    LET f == FileOf[job[t].path]
    IN /\ job[t].pc = "write"
       /\ file' = [file EXCEPT ![f] = Empty]
       /\ owed' = [owed EXCEPT ![f] = {}]
       /\ job' = [job EXCEPT ![t].pc = "fillWrite", ![t].touched = TRUE]
       /\ UNCHANGED <<queues, made, holder, calls, checked, cancelled, tree>>

(* ... and fills it. *)
WriteFills(t) ==
    /\ job[t].pc = "fillWrite"
    /\ file' = [file EXCEPT ![FileOf[job[t].path]] = [base |-> t, marks |-> {}]]
    /\ job' = Ends(t, "ok", "unlock")
    /\ UNCHANGED <<owed, queues, made, holder, calls, checked, cancelled, tree>>

(* The text the edit looks for: every whole file here has it once, until    *)
(* this runner's edit has replaced it.                                     *)
HasOneMatch(t, c) == c.base \notin {"absent", "empty"} /\ t \notin c.marks

(* EditTool reads the whole file; anything but one match is an error. *)
EditReads(t) ==
    LET c == file[FileOf[job[t].path]]
    IN /\ job[t].pc = "edit"
       /\ job' = IF HasOneMatch(t, c)
                  THEN [job EXCEPT ![t].pc = "truncate", ![t].seen = c]
                  ELSE [Ends(t, "error", "unlock") EXCEPT ![t].seen = c]
       /\ UNCHANGED <<file, owed, queues, made, holder, calls, checked, cancelled, tree>>

EditTruncates(t) ==
    /\ job[t].pc = "truncate"
    /\ file' = [file EXCEPT ![FileOf[job[t].path]] = Empty]
    /\ job' = [job EXCEPT ![t].pc = "fillEdit", ![t].touched = TRUE]
    /\ UNCHANGED <<owed, queues, made, holder, calls, checked, cancelled, tree>>

EditFills(t) ==
    LET f == FileOf[job[t].path]
    IN /\ job[t].pc = "fillEdit"
       /\ file' = [file EXCEPT ![f] = [job[t].seen EXCEPT !.marks = @ \cup {t}]]
       /\ owed' = [owed EXCEPT ![f] = @ \cup {t}]
       /\ job' = Ends(t, "ok", "unlock")
       /\ UNCHANGED <<queues, made, holder, calls, checked, cancelled, tree>>

-----------------------------------------------------------------------------
(* Shell commands and cancellation.                                         *)

CancelCall(t) ==
    /\ t \notin cancelled /\ job[t].pc # "rest"
    /\ cancelled' = cancelled \cup {t}
    /\ UNCHANGED <<file, owed, queues, made, holder, job, calls, checked, tree>>

(* The command ends by itself. *)
ShellExits(t) ==
    /\ job[t].pc = "shell" /\ tree[t]
    /\ tree' = [tree EXCEPT ![t] = FALSE]
    /\ Returns(t, "ok")
    /\ UNCHANGED <<file, owed, queues, made, holder, calls, checked, cancelled>>

ShellTimesOut(t) ==
    /\ job[t].pc = "shell" /\ tree[t]
    /\ tree' = [tree EXCEPT ![t] = FALSE]
    /\ Returns(t, "timed_out")
    /\ UNCHANGED <<file, owed, queues, made, holder, calls, checked, cancelled>>

(* The job that polls the signal cancels the token; the process tree is    *)
(* killed before the result is made.                                        *)
ShellCancelled(t) ==
    /\ job[t].pc = "shell" /\ t \in cancelled /\ tree[t]
    /\ tree' = [tree EXCEPT ![t] = FALSE]
    /\ Returns(t, "cancelled")
    /\ UNCHANGED <<file, owed, queues, made, holder, calls, checked, cancelled>>

FileInit ==
    /\ file = [f \in Files |-> IF f \in FirstFiles THEN Original ELSE Absent]
    /\ owed = [f \in Files |-> {}]
    /\ queues = [k \in Keys |-> NoQueue] /\ made = 0
    /\ holder = [q \in Queues |-> "none"]
    /\ job = [t \in Runners |-> NoJob] /\ calls = 0
    /\ checked = Prepared /\ cancelled = {}
    /\ tree = [t \in Runners |-> FALSE]

(* What a job does once it has been called. *)
Proceeds(t) ==
    \/ ReadFile(t) \/ ReadCancelled(t)
    \/ FindKey(t) \/ JoinQueue(t) \/ LockQueue(t) \/ UnlockQueue(t) \/ CleanUp(t) \/ DropQueue(t)
    \/ WriteTruncates(t) \/ WriteFills(t) \/ EditReads(t) \/ EditTruncates(t) \/ EditFills(t)

FileNext ==
    \E t \in Runners :
        \/ \E op \in {"read", "write", "edit"}, p \in Paths : BeginCall(t, op, p)
        \/ CallShell(t) \/ Proceeds(t) \/ CancelCall(t)
        \/ ShellExits(t) \/ ShellTimesOut(t) \/ ShellCancelled(t)

FileSpec == FileInit /\ [][FileNext]_fileVars

-----------------------------------------------------------------------------
(* Properties.                                                              *)

InQueue(t) ==
    job[t].pc \in {"write", "fillWrite", "edit", "truncate", "fillEdit", "unlock"}


(* Whoever is in a queue holds its mutex; a shell command runs while its    *)
(* call does, and never after.                                              *)
FileTypeOK ==
    /\ \A f \in Files : owed[f] \subseteq Runners /\ file[f].marks \subseteq Runners
    /\ \A t \in Runners : InQueue(t) <=> \E q \in Queues : holder[q] = t /\ job[t].queue = q
    /\ \A t \in Runners : tree[t] <=> job[t].pc = "shell"
    /\ made \in 0..MaxQueues /\ calls \in 0..MaxCalls

(* An edit that was reported made is in the file until somebody overwrites  *)
(* the file: two edits of one file never undo each other, whatever paths    *)
(* lead to it and however queues come and go.                               *)
EditsKept ==
    \A f \in Files : (\A t \in Runners : job[t].path # "none" /\ FileOf[job[t].path] = f
                                          => job[t].pc \notin {"fillWrite", "fillEdit"})
        => owed[f] \subseteq file[f].marks

(* An edit is never refused, nor made, on the ground of a half-written      *)
(* file.                                                                    *)
EditSeesWhole ==
    \A t \in Runners : job[t].op = "edit" => job[t].seen.base # "empty"

(* What a result says of the file is what happened: a refused or cancelled  *)
(* call has not touched it, a completed mutation of a cancelled turn keeps  *)
(* its real result.                                                         *)
ResultTruthful ==
    \A t \in Runners : job[t].pc = "rest" /\ job[t].op \in Mutations =>
        (job[t].touched <=> job[t].result = "ok")

(* Not true, see the README: a queue goes with its last user. *)
QueuesFreed ==
    (\A t \in Runners : job[t].pc = "rest") => \A k \in Keys : queues[k] = NoQueue

(* Tools of several turns on one file: no edit is lost to another one, none  *)
(* reads a file that is being written, and each result says what was done,   *)
(* also after a cancel or a timeout (mutation queues, execute_tool_call).    *)
EditsIntact == FileTypeOK /\ EditsKept /\ EditSeesWhole /\ ResultTruthful
=============================================================================
