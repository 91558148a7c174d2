---------------------------- MODULE LiveTranscript ----------------------------
(***************************************************************************)
(* What a client of the live event stream is promised, without streams,    *)
(* pages or cursors on the wire: the events of its session reach it in the *)
(* order of the log, none twice, and whatever stretch of the log it moves  *)
(* over, the messages of that stretch become visible - all of them when    *)
(* there are at most Window, the newest Window otherwise.                  *)
(***************************************************************************)
EXTENDS Naturals, Sequences, FiniteSets

CONSTANTS
    Window,          \* messages a single move is sure to show
    MaxEvents        \* bound on the log

VARIABLES
    log,             \* kinds of the committed events; the index is the seq_id
    upto,            \* the client has moved past these events
    shown            \* seq_ids of the messages it shows

Own(k) == k # "foreign"
LastOwn == LET S == {i \in DOMAIN log : Own(log[i])} IN
           CHOOSE i \in S : \A j \in S : j <= i

(* The newest n of a set of seq_ids. *)
Newest(S, n) == {i \in S : Cardinality({j \in S : j > i}) < n}
MessagesIn(lo, hi) == {i \in lo..hi : log[i] = "message"}

LiveInit == log = <<"other">> /\ upto = 0 /\ shown = {}

(* A transaction adds its events at the end of the log. *)
Grow == /\ Len(log) < Len(log') /\ Len(log') <= MaxEvents
        /\ \A i \in DOMAIN log' :
               IF i <= Len(log) THEN log'[i] = log[i]
               ELSE log'[i] \in {"message", "command", "finished", "other", "foreign"}
        /\ UNCHANGED <<upto, shown>>

Advance ==
    /\ \E n \in upto..LastOwn :
           /\ upto' = n
           /\ shown' \in SUBSET MessagesIn(1, n)
           /\ shown \cup Newest(MessagesIn(upto + 1, n), Window) \subseteq shown'
    /\ <<upto, shown>>' # <<upto, shown>>
    /\ UNCHANGED log

(* What a client may see, ... *)
LiveSteps == LiveInit /\ [][Grow \/ Advance]_<<log, upto, shown>>

(* ... and that it catches up. *)
LiveSpec == LiveSteps /\ WF_<<log, upto, shown>>(Advance /\ upto' > upto)
=============================================================================
