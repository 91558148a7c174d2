------------------------ MODULE RelatedSessionsProofs -------------------------
(***************************************************************************)
(* Proofs that no wake message and no claimed instruction is forgotten,    *)
(* that none is answered twice or by a result of work that did not         *)
(* complete, and that no lineage outgrows its limits, for every set of     *)
(* sessions and every bound: across settlements that race, faults of the   *)
(* worker and of its watchdog, and crashes with their repair.              *)
(***************************************************************************)
EXTENDS RelatedSessions, SequenceTheorems, FiniteSetTheorems, WellFoundedInduction, TLAPS

(***************************************************************************)
(* The inductive invariant                                                 *)
(***************************************************************************)

TurnStatuses == {"running", "completed", "failed", "cancelled", "awaiting"}

MailRecords ==
    [src : Sessions, dst : Sessions, kind : Kinds, wake : BOOLEAN, reply : Nat,
     status : {"delivered", "pending", "claimed"}, turn : Nat,
     settledBy : Nat, settlingTurn : Nat]

OutcomeRecords ==
    [session : Sessions, turn : Nat, kind : {"result", "progress", "error"},
     todo : SUBSET Nat, pc : {"read", "reply"}, last : BOOLEAN]

(* Messages pass between sessions there are.                               *)
MailOK ==
    /\ Root \in Known /\ Known \subseteq Sessions
    /\ mail \in Seq(MailRecords)
    /\ \A i \in DOMAIN mail : mail[i].src \in Known /\ mail[i].dst \in Known

(* Only a session there is has turns.                                      *)
TurnsOK ==
    /\ turns \in [Sessions -> Seq(TurnStatuses)]
    /\ \A s \in Sessions : turns[s] # <<>> => s \in Known

(* A task answers messages that its session received.                      *)
TasksOK ==
    /\ outcomes \subseteq OutcomeRecords
    /\ \A o \in outcomes : o.session \in Known /\ o.todo \subseteq Received(o.session)
    /\ \A o \in outcomes : o.pc = "reply" => o.todo # {}
    /\ poked \subseteq Known /\ phase \in {"up", "repair"}

RelatedInv == MailOK /\ TurnsOK /\ TasksOK /\ NothingStranded /\ WakeHeard

(***************************************************************************)
(* What the operators return                                               *)
(***************************************************************************)

(* The oldest of some messages is one of them.                             *)
LEMMA OldestIn ==
    ASSUME NEW S, S \subseteq Nat, S # {}
    PROVE  (CHOOSE i \in S : \A j \in S : i <= j) \in S
  <1> DEFINE R == OpToRel(<, Nat)
  <1>1. IsWellFoundedOn(R, Nat)
    BY NatLessThanWellFounded
  <1>2. \A x, y \in Nat : x < y => <<x, y>> \in R
    BY DEF OpToRel
  <1> HIDE DEF R
  <1>3. PICK x \in S : \A y \in S : ~(<<y, x>> \in R)
    BY <1>1, WFMin
  <1>4. \A y \in S : ~(y < x)
    BY <1>2, <1>3, Zenon
  <1>5. \A y \in S : x <= y
    BY <1>4
  <1> QED
    BY <1>5

LEMMA MessageTyped ==
    ASSUME NEW src \in Sessions, NEW dst \in Sessions, NEW kind \in Kinds, NEW wake \in BOOLEAN,
           NEW reply \in Nat
    PROVE  /\ Message(src, dst, kind, wake, reply) \in MailRecords
           /\ Message(src, dst, kind, wake, reply).src = src
           /\ Message(src, dst, kind, wake, reply).dst = dst
           /\ Message(src, dst, kind, wake, reply).status # "claimed"
           /\ Message(src, dst, kind, wake, reply).status = "pending" => wake
  BY DEF Message, MailRecords, None

LEMMA MailFacts ==
    ASSUME MailOK
    PROVE  /\ Len(mail) \in Nat /\ DOMAIN mail = 1..Len(mail)
           /\ \A i \in DOMAIN mail : i \in Nat /\ mail[i] \in MailRecords
           /\ \A s : Received(s) \subseteq Nat /\ PendingWakes(s) \subseteq Nat
  <1>1. /\ Len(mail) \in Nat /\ DOMAIN mail = 1..Len(mail)
        /\ \A i \in DOMAIN mail : i \in Nat /\ mail[i] \in MailRecords
    BY LenProperties, ElementOfSeq DEF MailOK
  <1> QED
    BY <1>1 DEF Received, PendingWakes

(* One more message: nobody owes for it yet, and if it wakes then only its *)
(* destination.                                                            *)
Posted(dst, wake) ==
    /\ MailOK'
    /\ DOMAIN mail \subseteq DOMAIN mail'
    /\ \A i \in DOMAIN mail : mail'[i].dst = mail[i].dst
    /\ \A s : /\ Owed(s)' = Owed(s)
              /\ PendingWakes(s)' # {} => PendingWakes(s) # {} \/ (wake /\ s = dst)

LEMMA PostsMail ==
    ASSUME MailOK, NEW src, NEW dst, NEW kind \in Kinds, NEW wake \in BOOLEAN, NEW reply \in Nat,
           mail' = Append(mail, Message(src, dst, kind, wake, reply)),
           Known \subseteq Known', Known' \subseteq Sessions, src \in Known', dst \in Known'
    PROVE  Posted(dst, wake)
  <1> DEFINE m == Message(src, dst, kind, wake, reply)
  <1>1. m \in MailRecords /\ m.src = src /\ m.dst = dst /\ m.status # "claimed"
        /\ (m.status = "pending" => wake)
    BY MessageTyped
  <1> HIDE DEF m
  <1>2. mail' = Append(mail, m)
    BY DEF m
  <1>3. /\ mail' \in Seq(MailRecords) /\ Len(mail') = Len(mail) + 1
        /\ \A i \in 1..Len(mail) : mail'[i] = mail[i]
        /\ mail'[Len(mail) + 1] = m
    BY <1>1, <1>2, AppendProperties DEF MailOK
  <1>4. /\ Len(mail) \in Nat /\ DOMAIN mail = 1..Len(mail)
        /\ DOMAIN mail' = DOMAIN mail \cup {Len(mail) + 1} /\ Len(mail) + 1 \notin DOMAIN mail
    BY <1>3, MailFacts, LenProperties
  <1>5. \A i \in DOMAIN mail : mail'[i] = mail[i]
    BY <1>3, <1>4
  <1> DEFINE z == Len(mail) + 1
  <1>6. mail'[z] = m
    BY <1>3
  <1> HIDE DEF z
  <1>7. DOMAIN mail' = DOMAIN mail \cup {z} /\ z \notin DOMAIN mail
    BY <1>4 DEF z
  <1>8. MailOK'
    BY <1>1, <1>3, <1>5, <1>6, <1>7 DEF MailOK
  <1>9. \A s : Owed(s)' = Owed(s)
    BY <1>1, <1>5, <1>6, <1>7 DEF Owed, Received
  <1>10. \A s : PendingWakes(s)' # {} => PendingWakes(s) # {} \/ (wake /\ s = dst)
    BY <1>1, <1>5, <1>6, <1>7 DEF PendingWakes, Received
  <1> QED
    BY <1>5, <1>7, <1>8, <1>9, <1>10 DEF Posted

(* A message that turn t has claimed.                                      *)
Taken(m, t) == [m EXCEPT !.status = "claimed", !.turn = t]

LEMMA TakenTyped ==
    ASSUME NEW m \in MailRecords, NEW t \in Nat
    PROVE  /\ Taken(m, t) \in MailRecords /\ Taken(m, t).src = m.src /\ Taken(m, t).dst = m.dst
           /\ Taken(m, t).status = "claimed"
  BY DEF Taken, MailRecords

(* A turn of s claims pending wakes of s.                                  *)
LEMMA ClaimsMail ==
    ASSUME MailOK, NEW s, NEW M, M \subseteq PendingWakes(s), NEW t \in Nat, mail' = Claim(M, t),
           Known' = Known
    PROVE  /\ MailOK' /\ DOMAIN mail' = DOMAIN mail
           /\ \A i \in DOMAIN mail : mail'[i].dst = mail[i].dst
           /\ \A u : u # s => Owed(u)' = Owed(u)
           /\ \A u : PendingWakes(u)' \subseteq PendingWakes(u)
  <1>1. DOMAIN mail' = DOMAIN mail
        /\ \A i \in DOMAIN mail : mail'[i] = IF i \in M THEN Taken(mail[i], t) ELSE mail[i]
    BY DEF Claim, Taken
  <1>2. \A i \in DOMAIN mail : /\ mail'[i] \in MailRecords /\ mail'[i].dst = mail[i].dst
                               /\ mail'[i].src = mail[i].src
                               /\ i \in M => mail'[i].status = "claimed"
                               /\ i \notin M => mail'[i] = mail[i]
    <2> SUFFICES ASSUME NEW i \in DOMAIN mail
                 PROVE  /\ mail'[i] \in MailRecords /\ mail'[i].dst = mail[i].dst
                        /\ mail'[i].src = mail[i].src
                        /\ i \in M => mail'[i].status = "claimed"
                        /\ i \notin M => mail'[i] = mail[i]
      OBVIOUS
    <2>1. mail[i] \in MailRecords
      BY MailFacts
    <2>2. CASE i \in M
      <3>1. mail'[i] = Taken(mail[i], t)
        BY <1>1, <2>2
      <3> QED
        BY <2>1, <2>2, <3>1, TakenTyped
    <2>3. CASE i \notin M
      BY <1>1, <2>1, <2>3
    <2> QED
      BY <2>2, <2>3
  <1>3. mail' \in Seq(MailRecords)
    <2>1. mail' = [i \in 1..Len(mail) |-> mail'[i]]
      BY MailFacts DEF Claim
    <2>2. \A i \in 1..Len(mail) : mail'[i] \in MailRecords
      BY <1>2, MailFacts
    <2> HIDE DEF MailRecords
    <2> QED
      BY <2>1, <2>2, MailFacts, IsASeq
  <1>4. MailOK'
    BY <1>1, <1>2, <1>3 DEF MailOK
  <1>5. \A i \in M : i \in DOMAIN mail /\ mail[i].dst = s
    BY DEF PendingWakes, Received
  <1> HIDE DEF MailRecords
  <1>6. \A u : u # s => Owed(u)' = Owed(u)
    <2> SUFFICES ASSUME NEW u, u # s PROVE Owed(u)' = Owed(u)
      OBVIOUS
    <2>1. \A i \in DOMAIN mail : mail[i].dst = u => mail'[i] = mail[i]
      BY <1>2, <1>5
    <2> QED
      BY <1>1, <1>2, <2>1 DEF Owed, Received
  <1>7. \A u : PendingWakes(u)' \subseteq PendingWakes(u)
    BY <1>1, <1>2 DEF PendingWakes, Received
  <1> QED
    BY <1>1, <1>2, <1>4, <1>6, <1>7

(* The mailbox with message i settled by a reply, before the reply is in.  *)
Answered(q, i, r, t) == [q EXCEPT ![i].settledBy = r, ![i].settlingTurn = t]

LEMMA AnsweredTyped ==
    ASSUME NEW q \in Seq(MailRecords), NEW i \in 1..Len(q), NEW r \in Nat \ {0}, NEW t \in Nat
    PROVE  /\ Answered(q, i, r, t) \in Seq(MailRecords) /\ Len(Answered(q, i, r, t)) = Len(q)
           /\ Answered(q, i, r, t)[i].src = q[i].src /\ Answered(q, i, r, t)[i].dst = q[i].dst
           /\ Answered(q, i, r, t)[i].status = q[i].status
           /\ Answered(q, i, r, t)[i].settledBy = r
           /\ \A j \in 1..Len(q) : j # i => Answered(q, i, r, t)[j] = q[j]
  <1> DEFINE m == [q[i] EXCEPT !.settledBy = r, !.settlingTurn = t]
             q1 == [q EXCEPT ![i] = m]
  <1>1. DOMAIN q = 1..Len(q) /\ q[i] \in MailRecords /\ Len(q) \in Nat
    BY LenProperties, ElementOfSeq
  <1>2. /\ m \in MailRecords /\ m.src = q[i].src /\ m.dst = q[i].dst /\ m.status = q[i].status
        /\ m.settledBy = r
    BY <1>1 DEF MailRecords
  <1>3. Answered(q, i, r, t) = q1
    BY <1>1 DEF Answered, MailRecords
  <1> HIDE DEF m, MailRecords
  <1>4. q1 \in Seq(MailRecords) /\ Len(q1) = Len(q)
    BY <1>1, <1>2, ExceptSeq
  <1>5. q1[i] = m /\ \A j \in 1..Len(q) : j # i => q1[j] = q[j]
    BY <1>1
  <1> QED
    BY <1>2, <1>3, <1>4, <1>5

(* The one reply that settles message i: i is owed no more, and the reply  *)
(* wakes the sender of i.                                                  *)
LEMMA SettlesMail ==
    ASSUME MailOK, NEW i \in DOMAIN mail, NEW kind \in Kinds, NEW t \in Nat,
           mail' = Settled(i, kind, t), Known' = Known
    PROVE  /\ MailOK' /\ DOMAIN mail \subseteq DOMAIN mail'
           /\ \A j \in DOMAIN mail : mail'[j].dst = mail[j].dst
           /\ \A s : Owed(s)' = Owed(s) \ {i}
           /\ \A s : PendingWakes(s)' # {} => PendingWakes(s) # {} \/ s = mail[i].src
  <1> DEFINE n == Len(mail)
             q == Answered(mail, i, n + 1, t)
             m == Message(mail[i].dst, mail[i].src, kind, TRUE, i)
  <1>1. /\ n \in Nat /\ DOMAIN mail = 1..n /\ i \in Nat /\ mail \in Seq(MailRecords)
        /\ mail[i].src \in Known /\ mail[i].dst \in Known /\ Known \subseteq Sessions
    BY MailFacts DEF MailOK
  <1>2. m \in MailRecords /\ m.src = mail[i].dst /\ m.dst = mail[i].src /\ m.status # "claimed"
    <2>1. mail[i].dst \in Sessions /\ mail[i].src \in Sessions /\ i \in Nat
      BY <1>1
    <2> QED
      BY <2>1 DEF Message, MailRecords, None
  <1> HIDE DEF m, n
  <1>3. mail' = Append(q, m)
    BY DEF Settled, Answered, m, n
  <1>4. n + 1 \in Nat \ {0} /\ i \in 1..Len(mail) /\ n = Len(mail)
    BY <1>1 DEF n
  <1>5. /\ q \in Seq(MailRecords) /\ Len(q) = n
        /\ q[i].src = mail[i].src /\ q[i].dst = mail[i].dst
        /\ q[i].status = mail[i].status /\ q[i].settledBy = n + 1
        /\ \A j \in 1..n : j # i => q[j] = mail[j]
    BY <1>1, <1>4, AnsweredTyped
  <1> HIDE DEF q
  <1>6. /\ mail' \in Seq(MailRecords) /\ Len(mail') = n + 1
        /\ \A j \in 1..n : mail'[j] = q[j]
        /\ mail'[n + 1] = m
    BY <1>2, <1>3, <1>5, AppendProperties
  <1> DEFINE z == n + 1
  <1>7. DOMAIN mail' = DOMAIN mail \cup {z} /\ z \notin DOMAIN mail
    <2>1. DOMAIN mail' = 1..(n + 1)
      BY <1>6, LenProperties
    <2> QED
      BY <2>1, <1>1
  <1>8. z # None /\ mail'[z] = m
    BY <1>1, <1>6 DEF None
  <1>9. /\ \A j \in DOMAIN mail : j # i => mail'[j] = mail[j]
        /\ mail'[i].src = mail[i].src /\ mail'[i].dst = mail[i].dst
        /\ mail'[i].status = mail[i].status /\ mail'[i].settledBy = z
    <2>1. \A j \in DOMAIN mail : mail'[j] = q[j]
      BY <1>1, <1>6
    <2>2. \A j \in DOMAIN mail : j # i => q[j] = mail[j]
      BY <1>1, <1>5
    <2>3. mail'[i] = q[i]
      BY <2>1
    <2> QED
      BY <1>5, <2>1, <2>2, <2>3
  <1> HIDE DEF z
  <1>10. \A j \in DOMAIN mail : mail'[j].src = mail[j].src /\ mail'[j].dst = mail[j].dst
                                /\ mail'[j].status = mail[j].status
    BY <1>9
  <1>11. MailOK'
    BY <1>1, <1>2, <1>6, <1>7, <1>8, <1>10 DEF MailOK
  <1>12. \A s : Owed(s)' = Owed(s) \ {i}
    BY <1>2, <1>7, <1>8, <1>9, <1>10 DEF Owed, Received
  <1>13. \A s : PendingWakes(s)' # {} => PendingWakes(s) # {} \/ s = mail[i].src
    BY <1>2, <1>7, <1>8, <1>10 DEF PendingWakes, Received
  <1> QED
    BY <1>7, <1>10, <1>11, <1>12, <1>13

(* A turn starts.                                                          *)
LEMMA StartedTurn ==
    ASSUME TurnsOK, NEW s \in Sessions, StartTurn(s), Known' = Known, s \in Known
    PROVE  /\ TurnsOK' /\ Active(s)' /\ Len(turns[s]) + 1 \in Nat
           /\ \A u \in Sessions : u # s => Status(u)' = Status(u)
  <1>1. turns[s] \in Seq(TurnStatuses) /\ "running" \in TurnStatuses
    BY DEF TurnsOK, TurnStatuses
  <1> HIDE DEF TurnStatuses
  <1> DEFINE q == Append(turns[s], "running")
  <1>2. /\ q \in Seq(TurnStatuses) /\ Len(q) = Len(turns[s]) + 1 /\ q[Len(q)] = "running"
        /\ q # <<>> /\ Len(turns[s]) \in Nat
    BY <1>1, AppendProperties, LenProperties
  <1> HIDE DEF q
  <1>3. turns' = [turns EXCEPT ![s] = q]
    BY DEF StartTurn, q
  <1>4. turns'[s] = q /\ \A u \in Sessions : u # s => turns'[u] = turns[u]
    BY <1>3 DEF TurnsOK
  <1>5. TurnsOK'
    BY <1>2, <1>3, <1>4 DEF TurnsOK
  <1>6. Active(s)'
    BY <1>2, <1>4 DEF Active, Status, LastTurn
  <1> QED
    BY <1>2, <1>4, <1>5, <1>6 DEF Status, LastTurn

(* The running turn ends.                                                  *)
LEMMA FinishedTurn ==
    ASSUME TurnsOK, NEW s \in Sessions, NEW how \in Ends, Active(s),
           turns' = [turns EXCEPT ![s][LastTurn(s)] = Recorded(how)], Known' = Known
    PROVE  /\ TurnsOK' /\ s \in Known /\ Len(turns[s]) \in Nat
           /\ how = "awaiting" => Paused(s)'
           /\ \A u \in Sessions : u # s => Status(u)' = Status(u)
  <1>1. turns[s] \in Seq(TurnStatuses) /\ Recorded(how) \in TurnStatuses
        /\ (how = "awaiting" => Recorded(how) = "awaiting")
    BY RelatedAssumption DEF TurnsOK, TurnStatuses, Recorded
  <1>2. turns[s] # <<>>
    BY DEF Active, Status
  <1> HIDE DEF TurnStatuses
  <1>3. Len(turns[s]) \in 1..Len(turns[s]) /\ Len(turns[s]) \in Nat
    BY <1>1, <1>2, EmptySeq, LenProperties
  <1> DEFINE q == [turns[s] EXCEPT ![Len(turns[s])] = Recorded(how)]
  <1>4. /\ q \in Seq(TurnStatuses) /\ Len(q) = Len(turns[s])
        /\ q[Len(turns[s])] = Recorded(how)
    BY <1>1, <1>3, ExceptSeq
  <1>5. q # <<>>
    BY <1>3, <1>4, EmptySeq
  <1>6. turns' = [turns EXCEPT ![s] = q]
    BY DEF LastTurn, TurnsOK
  <1> HIDE DEF q
  <1>7. turns'[s] = q /\ \A u \in Sessions : u # s => turns'[u] = turns[u]
    BY <1>6 DEF TurnsOK
  <1>8. TurnsOK'
    BY <1>2, <1>4, <1>6, <1>7 DEF TurnsOK
  <1>9. Status(s)' = Recorded(how)
    BY <1>4, <1>5, <1>7 DEF Status, LastTurn
  <1> QED
    BY <1>1, <1>2, <1>3, <1>7, <1>8, <1>9 DEF Status, LastTurn, Paused, TurnsOK

(***************************************************************************)
(* What a step must do to keep the parts of the invariant                  *)
(***************************************************************************)

(* The mailbox may only grow.                                              *)
MailGrows ==
    /\ MailOK' /\ Known \subseteq Known' /\ DOMAIN mail \subseteq DOMAIN mail'
    /\ \A i \in DOMAIN mail : mail'[i].dst = mail[i].dst

LEMMA TasksKept ==
    ASSUME TasksOK, MailGrows, poked' \subseteq Known', phase' \in {"up", "repair"},
           NEW P, outcomes' = P, P \subseteq OutcomeRecords,
           \A o \in P : \/ o \in outcomes
                        \/ /\ o.session \in Known /\ o.todo \subseteq Received(o.session)
                           /\ o.pc = "reply" => o.todo # {}
    PROVE  TasksOK'
  <1>1. \A s : Received(s) \subseteq Received(s)'
    BY DEF MailGrows, Received
  <1>2. \A o \in P : /\ o.session \in Known' /\ o.todo \subseteq Received(o.session)
                     /\ o.pc = "reply" => o.todo # {}
    BY DEF TasksOK, MailGrows
  <1>3. \A o \in P : o.todo \subseteq Received(o.session)'
    BY <1>1, <1>2
  <1> QED
    BY <1>2, <1>3 DEF TasksOK

(* The claimed messages: no new ones but of a busy session, while what     *)
(* answers for the old ones stays.                                         *)
LEMMA StrandedKept ==
    ASSUME NothingStranded, MailOK, Known' \subseteq Sessions,
           outcomes' = outcomes, phase' = phase, gaveUp' = gaveUp,
           \A s \in Sessions : Busy(s)' \/ (Owed(s)' \subseteq Owed(s) /\ ~Busy(s))
    PROVE  NothingStranded'
  <1> SUFFICES ASSUME NEW s \in Known', NEW i \in Owed(s)', ~Busy(s)', phase # "repair", s \notin gaveUp
               PROVE  \E o \in outcomes : o.session = s /\ o.kind # "progress"
                                          /\ (o.pc = "reply" => i \in o.todo)
    BY DEF NothingStranded
  <1>1. i \in Owed(s) /\ ~Busy(s)
    OBVIOUS
  <1>2. s \in Known
    BY <1>1 DEF Owed, Received, MailOK
  <1> QED
    BY <1>1, <1>2 DEF NothingStranded

(* The pending wakes.                                                      *)
LEMMA WakesKept ==
    ASSUME WakeHeard, MailOK, Known' \subseteq Sessions, phase' = phase,
           \A s \in Sessions : \/ Busy(s)' \/ s \in poked' \/ PendingWakes(s)' = {}
                               \/ PendingWakes(s) # {} /\ ~Busy(s) /\ s \notin poked
    PROVE  WakeHeard'
  <1> SUFFICES ASSUME NEW s \in Known', PendingWakes(s)' # {}, ~Busy(s)', s \notin poked'
               PROVE  phase = "repair"
    BY DEF WakeHeard
  <1>1. PendingWakes(s) # {} /\ ~Busy(s) /\ s \notin poked
    OBVIOUS
  <1>2. s \in Known
    BY <1>1 DEF PendingWakes, Received, MailOK
  <1> QED
    BY <1>1, <1>2 DEF WakeHeard

(* A mailbox, or the turns, that a step leaves alone.                      *)
LEMMA MailSame ==
    ASSUME MailOK, mail' = mail, Known \subseteq Known', Known' \subseteq Sessions
    PROVE  MailGrows /\ \A s : Owed(s)' = Owed(s) /\ PendingWakes(s)' = PendingWakes(s)
  BY DEF MailOK, MailGrows, Owed, PendingWakes, Received

LEMMA TurnsSame ==
    ASSUME TurnsOK, turns' = turns, Known \subseteq Known'
    PROVE  TurnsOK' /\ \A s : Busy(s)' = Busy(s)
  BY DEF TurnsOK, Busy, Active, Paused, Status, LastTurn

(***************************************************************************)
(* The steps                                                               *)
(***************************************************************************)

LEMMA SpawnSteps ==
    ASSUME RelatedInv, NEW p \in Sessions, NEW c \in Sessions, NEW dispatch \in BOOLEAN,
           Spawn(p, c, dispatch)
    PROVE  RelatedInv'
  <1>1. /\ MailOK /\ TurnsOK /\ TasksOK /\ NothingStranded /\ WakeHeard
        /\ Known \subseteq Sessions /\ poked \subseteq Known
    BY DEF RelatedInv, MailOK, TasksOK
  <1>2. /\ Known' = Known \cup {c} /\ p \in Known
        /\ mail' = IF dispatch THEN Append(mail, Message(p, c, "instruction", TRUE, None)) ELSE mail
        /\ poked' = IF dispatch THEN poked \cup {c} ELSE poked
        /\ turns' = turns /\ outcomes' = outcomes /\ phase' = phase /\ gaveUp' = gaveUp
    BY DEF Spawn, CommitSpawn, Known
  <1>3. /\ MailGrows /\ \A s : Owed(s)' = Owed(s)
        /\ \A s : PendingWakes(s)' # {} => PendingWakes(s) # {} \/ s \in poked'
    <2>1. CASE dispatch
      <3>1. "instruction" \in Kinds /\ None \in Nat
        BY DEF Kinds, Obliging, None
      <3>2. Posted(c, TRUE)
        BY <1>1, <1>2, <2>1, <3>1, PostsMail
      <3> QED
        BY <1>2, <2>1, <3>2 DEF Posted, MailGrows
    <2>2. CASE ~dispatch
      BY <1>1, <1>2, <2>2, MailSame
    <2> QED
      BY <2>1, <2>2
  <1>4. TurnsOK' /\ \A s : Busy(s)' = Busy(s)
    BY <1>1, <1>2, TurnsSame
  <1>5. TasksOK'
    <2>1. poked' \subseteq Known' /\ phase' \in {"up", "repair"} /\ outcomes \subseteq OutcomeRecords
      BY <1>1, <1>2 DEF TasksOK
    <2> QED
      BY <1>1, <1>2, <1>3, <2>1, TasksKept
  <1>6. NothingStranded'
    BY <1>1, <1>2, <1>3, <1>4, StrandedKept
  <1>7. WakeHeard'
    BY <1>1, <1>2, <1>3, <1>4, WakesKept
  <1> QED
    BY <1>3, <1>4, <1>5, <1>6, <1>7 DEF RelatedInv, MailGrows

LEMMA SendSteps ==
    ASSUME RelatedInv, NEW s \in Sessions, NEW d \in Sessions, NEW m \in Sendable,
           NEW reply \in {None} \cup DOMAIN mail, SendMessage(s, d, m[1], m[2], reply)
    PROVE  RelatedInv'
  <1>1. /\ MailOK /\ TurnsOK /\ TasksOK /\ NothingStranded /\ WakeHeard
        /\ Known \subseteq Sessions /\ poked \subseteq Known
    BY DEF RelatedInv, MailOK, TasksOK
  <1>2. m[1] \in Kinds /\ m[2] \in BOOLEAN /\ reply \in Nat
    BY <1>1, RelatedAssumption, MailFacts DEF None
  <1>3. /\ parent' = parent /\ Known' = Known /\ s \in Known /\ d \in Known
        /\ mail' = Append(mail, Message(s, d, m[1], m[2], reply))
        /\ poked' = IF m[2] THEN poked \cup {d} ELSE poked
        /\ turns' = turns /\ outcomes' = outcomes /\ phase' = phase /\ gaveUp' = gaveUp
    BY DEF SendMessage, CommitMessage, MayMessage, Known
  <1>4. Posted(d, m[2])
    BY <1>1, <1>2, <1>3, PostsMail
  <1>5. /\ MailGrows /\ \A u : Owed(u)' = Owed(u)
        /\ \A u : PendingWakes(u)' # {} => PendingWakes(u) # {} \/ u \in poked'
    BY <1>3, <1>4 DEF Posted, MailGrows
  <1>6. TurnsOK' /\ \A u : Busy(u)' = Busy(u)
    BY <1>1, <1>3, TurnsSame
  <1>7. poked \subseteq poked' /\ poked' \subseteq Known' /\ phase' \in {"up", "repair"}
        /\ outcomes \subseteq OutcomeRecords
    BY <1>1, <1>3 DEF TasksOK
  <1>8. TasksOK'
    BY <1>1, <1>3, <1>5, <1>7, TasksKept
  <1>9. NothingStranded'
    BY <1>1, <1>3, <1>5, <1>6, StrandedKept
  <1>10. WakeHeard'
    BY <1>1, <1>3, <1>5, <1>6, <1>7, WakesKept
  <1> QED
    BY <1>5, <1>6, <1>8, <1>9, <1>10 DEF RelatedInv, MailGrows

(* A wake is claimed: its session gets a turn, which answers for it.       *)
LEMMA ClaimSteps ==
    ASSUME RelatedInv, NEW s \in Sessions, ClaimNext(s)
    PROVE  RelatedInv'
  <1>1. /\ MailOK /\ TurnsOK /\ TasksOK /\ NothingStranded /\ WakeHeard
        /\ Known \subseteq Sessions /\ poked \subseteq Known
        /\ outcomes \subseteq OutcomeRecords /\ phase \in {"up", "repair"}
    BY DEF RelatedInv, MailOK, TasksOK
  <1>2. /\ Known' = Known /\ poked' = poked \ {s} /\ outcomes' = outcomes /\ phase' = phase
        /\ gaveUp' = gaveUp
    BY DEF ClaimNext, Known
  <1>3. poked' \subseteq Known' /\ phase' \in {"up", "repair"} /\ Known' \subseteq Sessions
    BY <1>1, <1>2
  <1>3a. s \in Known
    BY <1>1 DEF ClaimNext
  <1>4. CASE Claimable(s)
    <2> DEFINE M == {CHOOSE i \in PendingWakes(s) : \A j \in PendingWakes(s) : i <= j}
    <2>1. StartTurn(s) /\ mail' = Claim(M, LastTurn(s) + 1) /\ ~Busy(s)
      BY <1>4 DEF ClaimNext, ClaimContinuation, Claimable
    <2>2. M \subseteq PendingWakes(s)
      BY <1>1, <1>4, OldestIn, MailFacts DEF Claimable
    <2> HIDE DEF M
    <2>3. /\ TurnsOK' /\ Active(s)' /\ LastTurn(s) + 1 \in Nat
          /\ \A u \in Sessions : u # s => Status(u)' = Status(u)
      BY <1>1, <1>2, <1>3a, <2>1, StartedTurn DEF LastTurn
    <2>4. /\ MailOK' /\ DOMAIN mail' = DOMAIN mail
          /\ \A i \in DOMAIN mail : mail'[i].dst = mail[i].dst
          /\ \A u : u # s => Owed(u)' = Owed(u)
          /\ \A u : PendingWakes(u)' \subseteq PendingWakes(u)
      BY <1>1, <1>2, <2>1, <2>2, <2>3, ClaimsMail
    <2>5. Busy(s)' /\ \A u \in Sessions : u # s => Busy(u)' = Busy(u)
      BY <2>3 DEF Busy, Active, Paused
    <2>6. MailGrows
      BY <1>2, <2>4 DEF MailGrows
    <2>7. TasksOK'
      BY <1>1, <1>2, <1>3, <2>6, TasksKept
    <2>8. NothingStranded'
      BY <1>1, <1>2, <1>3, <2>4, <2>5, StrandedKept
    <2>9. WakeHeard'
      BY <1>1, <1>2, <1>3, <2>4, <2>5, WakesKept
    <2> QED
      BY <2>3, <2>4, <2>7, <2>8, <2>9 DEF RelatedInv
  <1>5. CASE ~Claimable(s)
    <2>1. turns' = turns /\ mail' = mail /\ (Busy(s) \/ PendingWakes(s) = {})
      BY <1>5 DEF ClaimNext, Claimable
    <2>2. MailGrows /\ \A u : Owed(u)' = Owed(u) /\ PendingWakes(u)' = PendingWakes(u)
      BY <1>1, <1>2, <2>1, MailSame
    <2>3. TurnsOK' /\ \A u : Busy(u)' = Busy(u)
      BY <1>1, <1>2, <2>1, TurnsSame
    <2>4. TasksOK'
      BY <1>1, <1>2, <1>3, <2>2, TasksKept
    <2>5. NothingStranded'
      BY <1>1, <1>2, <1>3, <2>2, <2>3, StrandedKept
    <2>6. WakeHeard'
      BY <1>1, <1>2, <1>3, <2>1, <2>2, <2>3, WakesKept
    <2> QED
      BY <2>2, <2>3, <2>4, <2>5, <2>6 DEF RelatedInv, MailGrows
  <1> QED
    BY <1>4, <1>5

LEMMA WaitSteps ==
    ASSUME RelatedInv, NEW s \in Sessions, WaitAgent(s)
    PROVE  RelatedInv'
  <1>1. /\ MailOK /\ TurnsOK /\ TasksOK /\ NothingStranded /\ WakeHeard
        /\ Known \subseteq Sessions /\ poked \subseteq Known
        /\ outcomes \subseteq OutcomeRecords /\ phase \in {"up", "repair"}
    BY DEF RelatedInv, MailOK, TasksOK
  <1>2. /\ Known' = Known /\ poked' = poked /\ outcomes' = outcomes /\ phase' = phase
        /\ gaveUp' = gaveUp /\ turns' = turns /\ Active(s)
    BY DEF WaitAgent, Known
  <1>3. PICK from : mail' = Claim({i \in PendingWakes(s) : mail[i].src \in from}, LastTurn(s))
    BY DEF WaitAgent
  <1> DEFINE M == {i \in PendingWakes(s) : mail[i].src \in from}
  <1>4. M \subseteq PendingWakes(s) /\ mail' = Claim(M, LastTurn(s))
    BY <1>3
  <1> HIDE DEF M
  <1>5. LastTurn(s) \in Nat
    <2>1. turns[s] \in Seq(TurnStatuses)
      BY <1>1 DEF TurnsOK
    <2> QED
      BY <2>1, LenProperties DEF LastTurn
  <1>6. /\ MailOK' /\ DOMAIN mail' = DOMAIN mail
        /\ \A i \in DOMAIN mail : mail'[i].dst = mail[i].dst
        /\ \A u : u # s => Owed(u)' = Owed(u)
        /\ \A u : PendingWakes(u)' \subseteq PendingWakes(u)
    BY <1>1, <1>2, <1>4, <1>5, ClaimsMail
  <1>7. TurnsOK' /\ \A u : Busy(u)' = Busy(u)
    BY <1>1, <1>2, TurnsSame
  <1>8. Busy(s)
    BY <1>2 DEF Busy
  <1>9. MailGrows
    BY <1>2, <1>6 DEF MailGrows
  <1>10. poked' \subseteq Known' /\ phase' \in {"up", "repair"} /\ Known' \subseteq Sessions
    BY <1>1, <1>2
  <1>11. TasksOK'
    BY <1>1, <1>2, <1>9, <1>10, TasksKept
  <1>12. NothingStranded'
    <2>1. \A u \in Sessions : Busy(u)' \/ (Owed(u)' \subseteq Owed(u) /\ ~Busy(u))
      BY <1>6, <1>7, <1>8
    <2> QED
      BY <1>1, <1>2, <1>10, <2>1, StrandedKept
  <1>13. WakeHeard'
    <2>1. \A u \in Sessions : \/ Busy(u)' \/ u \in poked' \/ PendingWakes(u)' = {}
                              \/ PendingWakes(u) # {} /\ ~Busy(u) /\ u \notin poked
      BY <1>2, <1>6, <1>7
    <2> QED
      BY <1>1, <1>2, <1>10, <2>1, WakesKept
  <1> QED
    BY <1>6, <1>7, <1>11, <1>12, <1>13 DEF RelatedInv

(* The operator starts a turn, or lets one go on.                          *)
LEMMA OperatorSteps ==
    ASSUME RelatedInv, NEW s \in Sessions, UserTurn(s) \/ ResumeTurn(s)
    PROVE  RelatedInv'
  <1>1. /\ MailOK /\ TurnsOK /\ TasksOK /\ NothingStranded /\ WakeHeard
        /\ Known \subseteq Sessions /\ poked \subseteq Known
        /\ outcomes \subseteq OutcomeRecords /\ phase \in {"up", "repair"}
    BY DEF RelatedInv, MailOK, TasksOK
  <1>2. /\ Known' = Known /\ poked' = poked /\ outcomes' = outcomes /\ phase' = phase
        /\ gaveUp' = gaveUp /\ mail' = mail /\ StartTurn(s)
    BY DEF UserTurn, ResumeTurn, Known
  <1>2a. s \in Known
    BY <1>1 DEF UserTurn, ResumeTurn, TurnsOK, Paused, Status
  <1>3. TurnsOK' /\ Active(s)' /\ \A u \in Sessions : u # s => Status(u)' = Status(u)
    BY <1>1, <1>2, <1>2a, StartedTurn
  <1>4. \A u \in Sessions : Busy(u)' \/ ~Busy(u)
    BY <1>3 DEF Busy, Active, Paused
  <1>5. MailGrows /\ \A u : Owed(u)' = Owed(u) /\ PendingWakes(u)' = PendingWakes(u)
    BY <1>1, <1>2, MailSame
  <1>6. poked' \subseteq Known' /\ phase' \in {"up", "repair"} /\ Known' \subseteq Sessions
    BY <1>1, <1>2
  <1>7. TasksOK'
    BY <1>1, <1>2, <1>5, <1>6, TasksKept
  <1>8. NothingStranded'
    BY <1>1, <1>2, <1>4, <1>5, <1>6, StrandedKept
  <1>9. WakeHeard'
    BY <1>1, <1>2, <1>4, <1>5, <1>6, WakesKept
  <1> QED
    BY <1>3, <1>5, <1>7, <1>8, <1>9 DEF RelatedInv, MailGrows

(* A turn ends: its session may become idle, and a task that answers for   *)
(* every claimed message is there before, as is a look for a pending wake. *)
LEMMA FinishSteps ==
    ASSUME RelatedInv, NEW s \in Sessions, NEW how \in Ends, FinishTurn(s, how)
    PROVE  RelatedInv'
  <1>1. /\ MailOK /\ TurnsOK /\ TasksOK /\ NothingStranded /\ WakeHeard
        /\ Known \subseteq Sessions /\ poked \subseteq Known
        /\ outcomes \subseteq OutcomeRecords /\ phase \in {"up", "repair"}
    BY DEF RelatedInv, MailOK, TasksOK
  <1> DEFINE o == Outcome(s, LastTurn(s), ReplyKind(how))
  <1>2. /\ Known' = Known /\ poked' = poked \cup {s} /\ outcomes' = outcomes \cup {o} /\ phase' = phase
        /\ gaveUp' = gaveUp /\ mail' = mail /\ Active(s)
        /\ turns' = [turns EXCEPT ![s][LastTurn(s)] = Recorded(how)]
    BY DEF FinishTurn, Known
  <1>3. /\ TurnsOK' /\ s \in Known /\ LastTurn(s) \in Nat /\ (how = "awaiting" => Paused(s)')
        /\ \A u \in Sessions : u # s => Status(u)' = Status(u)
    BY <1>1, <1>2, FinishedTurn DEF LastTurn
  <1>4. /\ ReplyKind(how) \in {"result", "progress", "error"}
        /\ ReplyKind(how) = "progress" => how = "awaiting"
    BY DEF ReplyKind
  <1>5. /\ o \in OutcomeRecords /\ o.session = s /\ o.kind = ReplyKind(how) /\ o.todo = {}
        /\ o.pc = "read"
    BY <1>3, <1>4 DEF Outcome, OutcomeRecords
  <1> HIDE DEF o
  <1>6. (\A u \in Sessions : u # s => Busy(u)' = Busy(u)) /\ (how = "awaiting" => Busy(s)')
    BY <1>3 DEF Busy, Active, Paused
  <1>7. MailGrows /\ \A u : Owed(u)' = Owed(u) /\ PendingWakes(u)' = PendingWakes(u)
    BY <1>1, <1>2, MailSame
  <1>8. s \in Known
    BY <1>3
  <1>9. TasksOK'
    <2>1. poked' \subseteq Known' /\ phase' \in {"up", "repair"}
      BY <1>1, <1>2, <1>8
    <2>2. outcomes \cup {o} \subseteq OutcomeRecords
      BY <1>1, <1>5
    <2>3. \A x \in outcomes \cup {o} :
             \/ x \in outcomes
             \/ /\ x.session \in Known /\ x.todo \subseteq Received(x.session)
                /\ x.pc = "reply" => x.todo # {}
      BY <1>5, <1>8
    <2> QED
      BY <1>1, <1>2, <1>7, <2>1, <2>2, <2>3, TasksKept
  <1>10. NothingStranded'
    <2> SUFFICES ASSUME NEW u \in Known', NEW i \in Owed(u)', ~Busy(u)', phase' # "repair",
                        u \notin gaveUp'
                 PROVE  \E x \in outcomes' : x.session = u /\ x.kind # "progress"
                                             /\ (x.pc = "reply" => i \in x.todo)
      BY DEF NothingStranded
    <2>1. CASE u = s
      BY <1>2, <1>4, <1>5, <1>6, <2>1
    <2>2. CASE u # s
      <3>1. u \in Known /\ i \in Owed(u) /\ ~Busy(u) /\ phase # "repair" /\ u \notin gaveUp
        BY <1>1, <1>2, <1>6, <1>7, <2>2
      <3>2. \E x \in outcomes : x.session = u /\ x.kind # "progress"
                                /\ (x.pc = "reply" => i \in x.todo)
        BY <1>1, <3>1 DEF NothingStranded
      <3> QED
        BY <1>2, <3>2
    <2> QED
      BY <2>1, <2>2
  <1>11. WakeHeard'
    BY <1>1, <1>2, <1>6, <1>7, WakesKept
  <1> QED
    BY <1>3, <1>7, <1>9, <1>10, <1>11 DEF RelatedInv, MailGrows

(* A task moves on: what it covered it still covers, or is settled.        *)
LEMMA TasksMove ==
    ASSUME NothingStranded, NEW o \in outcomes, NEW P, Become(o, P), MailOK,
           Known' = Known, phase' = phase, turns' = turns, gaveUp \subseteq gaveUp',
           \A s : Owed(s)' \subseteq Owed(s),
           \A i \in Owed(o.session)' :
              o.kind # "progress" /\ (o.pc = "reply" => i \in o.todo) =>
                 \/ o.session \in gaveUp'
                 \/ \E x \in P : x.session = o.session /\ x.kind # "progress"
                                 /\ (x.pc = "reply" => i \in x.todo)
    PROVE  NothingStranded'
  <1> SUFFICES ASSUME NEW u \in Known, NEW i \in Owed(u)', ~Busy(u), phase # "repair", u \notin gaveUp'
               PROVE  \E x \in outcomes' : x.session = u /\ x.kind # "progress"
                                           /\ (x.pc = "reply" => i \in x.todo)
    BY DEF NothingStranded, Busy, Active, Paused, Status, LastTurn
  <1>1. PICK y \in outcomes : y.session = u /\ y.kind # "progress" /\ (y.pc = "reply" => i \in y.todo)
    BY DEF NothingStranded
  <1>2. outcomes' = (outcomes \ {o}) \cup P
    BY DEF Become
  <1>3. CASE y = o
    BY <1>1, <1>2, <1>3
  <1>4. CASE y # o
    BY <1>1, <1>2, <1>4
  <1> QED
    BY <1>3, <1>4

LEMMA ReadSteps ==
    ASSUME RelatedInv, NEW o \in outcomes, ReadOwed(o)
    PROVE  RelatedInv'
  <1>1. /\ MailOK /\ TurnsOK /\ TasksOK /\ NothingStranded /\ WakeHeard
        /\ Known \subseteq Sessions /\ poked \subseteq Known
        /\ outcomes \subseteq OutcomeRecords /\ phase \in {"up", "repair"}
    BY DEF RelatedInv, MailOK, TasksOK
  <1> DEFINE todo == Owed(o.session)
             x == [o EXCEPT !.pc = "reply", !.todo = todo]
             P == IF todo = {} THEN {} ELSE {x}
  <1>2. /\ Known' = Known /\ mail' = mail /\ turns' = turns /\ poked' = poked /\ phase' = phase
        /\ gaveUp' = gaveUp /\ Become(o, P) /\ o.pc = "read"
    BY DEF ReadOwed, Known
  <1>3. todo \subseteq Received(o.session) /\ todo \subseteq Nat
    BY <1>1, MailFacts DEF Owed
  <1>4. x \in OutcomeRecords /\ x.session = o.session /\ x.kind = o.kind /\ x.pc = "reply" /\ x.todo = todo
    BY <1>1, <1>3 DEF OutcomeRecords
  <1> HIDE DEF x
  <1>5. MailGrows /\ \A u : Owed(u)' = Owed(u) /\ PendingWakes(u)' = PendingWakes(u)
    BY <1>1, <1>2, MailSame
  <1>6. TurnsOK' /\ \A u : Busy(u)' = Busy(u)
    BY <1>1, <1>2, TurnsSame
  <1>7. TasksOK'
    <2> DEFINE Q == (outcomes \ {o}) \cup P
    <2>1. outcomes' = Q /\ Q \subseteq OutcomeRecords
      BY <1>1, <1>2, <1>4 DEF Become
    <2>2. \A y \in Q : \/ y \in outcomes
                       \/ /\ y.session \in Known /\ y.todo \subseteq Received(y.session)
                          /\ y.pc = "reply" => y.todo # {}
      BY <1>1, <1>3, <1>4 DEF TasksOK
    <2>3. poked' \subseteq Known' /\ phase' \in {"up", "repair"}
      BY <1>1, <1>2
    <2> HIDE DEF Q
    <2> QED
      BY <1>1, <1>5, <2>1, <2>2, <2>3, TasksKept
  <1>8. NothingStranded'
    <2>1. \A i \in Owed(o.session)' : o.kind # "progress" =>
             \E y \in P : y.session = o.session /\ y.kind # "progress"
                          /\ (y.pc = "reply" => i \in y.todo)
      BY <1>4, <1>5
    <2> HIDE DEF P
    <2> QED
      BY <1>1, <1>2, <1>5, <2>1, TasksMove
  <1>9. WakeHeard'
    BY <1>1, <1>2, <1>5, <1>6, WakesKept
  <1> QED
    BY <1>5, <1>6, <1>7, <1>8, <1>9 DEF RelatedInv, MailGrows

(* What a reply does to the mailbox: its obligation is not owed any more,  *)
(* unless it only reports progress.                                        *)
ReplyMoves(o, i) ==
    /\ MailGrows
    /\ \A s : Owed(s)' \subseteq Owed(s)
    /\ o.kind # "progress" => \A s : i \notin Owed(s)'
    /\ poked \subseteq poked' /\ poked' \subseteq Known
    /\ \A s : PendingWakes(s)' # {} => PendingWakes(s) # {} \/ s \in poked'

LEMMA ReplyMail ==
    ASSUME MailOK, TasksOK, NEW o \in outcomes, NEW i \in DOMAIN mail, Known' = Known,
           IF o.kind = "progress" THEN ReportProgress(i) ELSE Settle(o, i)
    PROVE  ReplyMoves(o, i)
  <1>1. /\ o.kind \in {"result", "progress", "error"} /\ o.turn \in Nat
        /\ poked \subseteq Known /\ Known \subseteq Sessions
        /\ mail[i].src \in Known /\ mail[i].dst \in Known /\ i \in Nat
    BY MailFacts DEF TasksOK, OutcomeRecords, MailOK
  <1>2. o.kind \in Kinds /\ "progress" \in Kinds
    BY <1>1 DEF Kinds
  <1>3. CASE o.kind = "progress"
    <2>1. poked' = poked
      BY <1>3 DEF ReportProgress
    <2>2. CASE mail' = mail
      BY <1>1, <1>3, <2>1, <2>2, MailSame DEF ReplyMoves
    <2>3. CASE mail' = Append(mail, Message(mail[i].dst, mail[i].src, "progress", FALSE, i))
      <3>1. Posted(mail[i].src, FALSE)
        BY <1>1, <1>2, <2>3, PostsMail
      <3> QED
        BY <1>1, <1>3, <2>1, <3>1 DEF ReplyMoves, MailGrows, Posted
    <2> QED
      BY <1>3, <2>2, <2>3 DEF ReportProgress
  <1>4. CASE o.kind # "progress" /\ mail[i].settledBy = None
    <2>1. mail' = Settled(i, o.kind, o.turn) /\ poked' = poked \cup {mail[i].src}
      BY <1>4 DEF Settle
    <2>2. /\ MailOK' /\ DOMAIN mail \subseteq DOMAIN mail'
          /\ \A j \in DOMAIN mail : mail'[j].dst = mail[j].dst
          /\ \A s : Owed(s)' = Owed(s) \ {i}
          /\ \A s : PendingWakes(s)' # {} => PendingWakes(s) # {} \/ s = mail[i].src
      BY <1>1, <1>2, <2>1, SettlesMail
    <2> QED
      BY <1>1, <2>1, <2>2 DEF ReplyMoves, MailGrows
  <1>5. CASE o.kind # "progress" /\ mail[i].settledBy # None
    <2>1. mail' = mail /\ poked' = poked
      BY <1>5 DEF Settle
    <2>2. \A s : i \notin Owed(s)
      BY <1>5 DEF Owed
    <2> QED
      BY <1>1, <2>1, <2>2, MailSame DEF ReplyMoves
  <1> QED
    BY <1>3, <1>4, <1>5

LEMMA ReplySteps ==
    ASSUME RelatedInv, NEW o \in outcomes, Reply(o)
    PROVE  RelatedInv'
  <1>1. /\ MailOK /\ TurnsOK /\ TasksOK /\ NothingStranded /\ WakeHeard
        /\ Known \subseteq Sessions /\ poked \subseteq Known
        /\ outcomes \subseteq OutcomeRecords /\ phase \in {"up", "repair"}
        /\ o.session \in Known /\ o.todo \subseteq Received(o.session)
    BY DEF RelatedInv, MailOK, TasksOK
  <1>2. PICK i : i = CHOOSE k \in o.todo : \A j \in o.todo : k <= j
    OBVIOUS
  <1> DEFINE x == [o EXCEPT !.todo = @ \ {i}]
             P == IF o.todo = {i} THEN {} ELSE {x}
  <1>3. /\ Known' = Known /\ turns' = turns /\ phase' = phase /\ gaveUp' = gaveUp /\ o.pc = "reply"
        /\ IF o.kind = "progress" THEN ReportProgress(i) ELSE Settle(o, i)
        /\ Become(o, P)
    BY <1>2 DEF Reply, Known
  <1>4. i \in o.todo /\ i \in DOMAIN mail /\ o.todo \subseteq Nat
    <2>1. o.todo # {} /\ o.todo \subseteq Nat
      BY <1>1, <1>3, MailFacts DEF TasksOK
    <2>2. i \in o.todo
      BY <1>2, <2>1, OldestIn
    <2> QED
      BY <1>1, <2>1, <2>2 DEF Received
  <1>5. x \in OutcomeRecords /\ x.session = o.session /\ x.kind = o.kind /\ x.pc = o.pc
        /\ x.todo = o.todo \ {i}
    BY <1>1, <1>4 DEF OutcomeRecords
  <1> HIDE DEF x
  <1>6. ReplyMoves(o, i)
    BY <1>1, <1>3, <1>4, ReplyMail
  <1>7. TurnsOK' /\ \A u : Busy(u)' = Busy(u)
    BY <1>1, <1>3, TurnsSame
  <1>8. TasksOK'
    <2> DEFINE Q == (outcomes \ {o}) \cup P
    <2>1. outcomes' = Q /\ Q \subseteq OutcomeRecords
      BY <1>1, <1>3, <1>5 DEF Become
    <2>2. \A y \in Q : \/ y \in outcomes
                       \/ /\ y.session \in Known /\ y.todo \subseteq Received(y.session)
                          /\ y.pc = "reply" => y.todo # {}
      BY <1>1, <1>4, <1>5
    <2>3. MailGrows /\ poked' \subseteq Known' /\ phase' \in {"up", "repair"}
      BY <1>1, <1>3, <1>6 DEF ReplyMoves
    <2> HIDE DEF Q
    <2> QED
      BY <1>1, <2>1, <2>2, <2>3, TasksKept
  <1>9. NothingStranded'
    <2>1. \A j \in Owed(o.session)' : o.kind # "progress" /\ (o.pc = "reply" => j \in o.todo) =>
             \E y \in P : y.session = o.session /\ y.kind # "progress"
                          /\ (y.pc = "reply" => j \in y.todo)
      <3> SUFFICES ASSUME NEW j \in Owed(o.session)', o.kind # "progress", j \in o.todo
                   PROVE  \E y \in P : y.session = o.session /\ y.kind # "progress"
                                       /\ (y.pc = "reply" => j \in y.todo)
        BY <1>3
      <3>1. j # i
        BY <1>6 DEF ReplyMoves
      <3> QED
        BY <1>5, <3>1
    <2>2. \A s : Owed(s)' \subseteq Owed(s)
      BY <1>6 DEF ReplyMoves
    <2> HIDE DEF P
    <2> QED
      BY <1>1, <1>3, <2>1, <2>2, TasksMove
  <1>10. WakeHeard'
    BY <1>1, <1>3, <1>6, <1>7, WakesKept DEF ReplyMoves
  <1> QED
    BY <1>6, <1>7, <1>8, <1>9, <1>10 DEF RelatedInv, ReplyMoves, MailGrows

(* A reply fails: the watchdog's task takes over, or nobody is left to.    *)
LEMMA FaultSteps ==
    ASSUME RelatedInv, NEW o \in outcomes, ReplyFault(o) \/ WatchdogFault(o)
    PROVE  RelatedInv'
  <1>1. /\ MailOK /\ TurnsOK /\ TasksOK /\ NothingStranded /\ WakeHeard
        /\ Known \subseteq Sessions /\ poked \subseteq Known
        /\ outcomes \subseteq OutcomeRecords /\ phase \in {"up", "repair"}
        /\ o.session \in Known
    BY DEF RelatedInv, MailOK, TasksOK
  <1> DEFINE x == [Outcome(o.session, o.turn, "error") EXCEPT !.last = TRUE]
  <1>2. /\ Known' = Known /\ mail' = mail /\ turns' = turns /\ poked' = poked /\ phase' = phase
        /\ gaveUp \subseteq gaveUp'
    BY DEF ReplyFault, WatchdogFault, Known
  <1>3. PICK P : /\ Become(o, P) /\ (P = {} \/ P = {x})
                 /\ o.kind # "progress" => o.session \in gaveUp' \/ P = {x}
    BY DEF ReplyFault, WatchdogFault
  <1>4. x \in OutcomeRecords /\ x.session = o.session /\ x.kind = "error" /\ x.pc = "read" /\ x.todo = {}
    BY <1>1 DEF OutcomeRecords, Outcome
  <1> HIDE DEF x
  <1>5. MailGrows /\ \A u : Owed(u)' = Owed(u) /\ PendingWakes(u)' = PendingWakes(u)
    BY <1>1, <1>2, MailSame
  <1>6. TurnsOK' /\ \A u : Busy(u)' = Busy(u)
    BY <1>1, <1>2, TurnsSame
  <1>7. TasksOK'
    <2> DEFINE Q == (outcomes \ {o}) \cup P
    <2>1. outcomes' = Q /\ Q \subseteq OutcomeRecords
      BY <1>1, <1>3, <1>4 DEF Become
    <2>2. \A y \in Q : \/ y \in outcomes
                       \/ /\ y.session \in Known /\ y.todo \subseteq Received(y.session)
                          /\ y.pc = "reply" => y.todo # {}
      BY <1>1, <1>3, <1>4
    <2>3. poked' \subseteq Known' /\ phase' \in {"up", "repair"}
      BY <1>1, <1>2
    <2> HIDE DEF Q
    <2> QED
      BY <1>1, <1>5, <2>1, <2>2, <2>3, TasksKept
  <1>8. NothingStranded'
    <2>1. \A i \in Owed(o.session)' : o.kind # "progress" =>
             \/ o.session \in gaveUp'
             \/ \E y \in P : y.session = o.session /\ y.kind # "progress"
                             /\ (y.pc = "reply" => i \in y.todo)
      BY <1>3, <1>4
    <2> QED
      BY <1>1, <1>2, <1>3, <1>5, <2>1, TasksMove
  <1>9. WakeHeard'
    BY <1>1, <1>2, <1>5, <1>6, WakesKept
  <1> QED
    BY <1>5, <1>6, <1>7, <1>8, <1>9 DEF RelatedInv, MailGrows

(* A crash, and what the next process does before it serves anybody.       *)
LEMMA CrashSteps ==
    ASSUME RelatedInv, Crash
    PROVE  RelatedInv'
  <1>1. MailOK /\ TurnsOK
    BY DEF RelatedInv
  <1>2. /\ Known' = Known /\ mail' = mail /\ outcomes' = {} /\ poked' = {} /\ phase' = "repair"
        /\ turns' = [s \in Sessions |->
                       [t \in DOMAIN turns[s] |-> IF turns[s][t] = "running" THEN "failed"
                                                  ELSE turns[s][t]]]
    BY DEF Crash, Known
  <1>3. \A s \in Sessions : turns'[s] \in Seq(TurnStatuses) /\ (turns'[s] # <<>> => s \in Known)
    <2> SUFFICES ASSUME NEW s \in Sessions
                 PROVE  turns'[s] \in Seq(TurnStatuses) /\ (turns'[s] # <<>> => s \in Known)
      OBVIOUS
    <2> DEFINE f == [t \in 1..Len(turns[s]) |-> IF turns[s][t] = "running" THEN "failed"
                                                ELSE turns[s][t]]
    <2>1. turns[s] \in Seq(TurnStatuses) /\ (turns[s] # <<>> => s \in Known) /\ "failed" \in TurnStatuses
      BY <1>1 DEF TurnsOK, TurnStatuses
    <2> HIDE DEF TurnStatuses
    <2>2. Len(turns[s]) \in Nat /\ DOMAIN turns[s] = 1..Len(turns[s])
          /\ \A t \in 1..Len(turns[s]) : turns[s][t] \in TurnStatuses
      BY <2>1, LenProperties, ElementOfSeq
    <2>3. turns'[s] = f
      BY <1>2, <2>2
    <2>4. \A t \in 1..Len(turns[s]) : f[t] \in TurnStatuses
      BY <2>1, <2>2
    <2>5. f = [t \in 1..Len(turns[s]) |-> f[t]] /\ DOMAIN f = 1..Len(turns[s])
      OBVIOUS
    <2> HIDE DEF f
    <2>6. f \in Seq(TurnStatuses)
      <3>1. PICK n \in Nat : n = Len(turns[s])
        BY <2>2
      <3>2. f = [t \in 1..n |-> f[t]] /\ \A t \in 1..n : f[t] \in TurnStatuses
        BY <2>4, <2>5, <3>1
      <3> QED
        BY <3>2, IsASeq
    <2>7. Len(f) = Len(turns[s])
      BY <2>2, <2>5, <2>6, LenProperties
    <2>8. turns[s] = <<>> => f = <<>>
      BY <2>1, <2>6, <2>7, EmptySeq
    <2> QED
      BY <2>1, <2>3, <2>6, <2>8
  <1>4. TurnsOK'
    <2>1. turns' \in [Sessions -> Seq(TurnStatuses)]
      BY <1>2, <1>3
    <2> QED
      BY <1>2, <1>3, <2>1 DEF TurnsOK
  <1>5. MailOK' /\ TasksOK'
    BY <1>1, <1>2 DEF MailOK, TasksOK
  <1> QED
    BY <1>2, <1>4, <1>5 DEF RelatedInv, NothingStranded, WakeHeard

LEMMA RepairSteps ==
    ASSUME RelatedInv, Repair
    PROVE  RelatedInv'
  <1>1. MailOK /\ TurnsOK /\ TasksOK /\ poked \subseteq Known
    BY DEF RelatedInv, TasksOK
  <1>2. PICK i : i = CHOOSE k \in Repairable : \A j \in Repairable : k <= j
    OBVIOUS
  <1>3. /\ Known' = Known /\ turns' = turns /\ outcomes' = outcomes /\ poked' = poked
        /\ phase' = phase /\ phase = "repair" /\ Repairable # {}
        /\ mail' = Settled(i, RepairKind(Status(mail[i].dst)), LastTurn(mail[i].dst))
    BY <1>2 DEF Repair, Known
  <1>4. i \in DOMAIN mail
    <2>1. Repairable \subseteq DOMAIN mail /\ Repairable \subseteq Nat
      BY <1>1, MailFacts DEF Repairable
    <2> QED
      BY <1>2, <1>3, <2>1, OldestIn
  <1>5. LastTurn(mail[i].dst) \in Nat /\ RepairKind(Status(mail[i].dst)) \in Kinds
    <2>1. turns[mail[i].dst] \in Seq(TurnStatuses)
      BY <1>1, <1>4 DEF TurnsOK, MailOK
    <2> QED
      BY <2>1, LenProperties DEF LastTurn, RepairKind, Kinds
  <1>6. MailGrows
    BY <1>1, <1>3, <1>4, <1>5, SettlesMail DEF MailGrows
  <1>7. TurnsOK'
    BY <1>1, <1>3, TurnsSame
  <1>8. TasksOK'
    <2>1. poked' \subseteq Known' /\ phase' \in {"up", "repair"} /\ outcomes \subseteq OutcomeRecords
      BY <1>1, <1>3 DEF TasksOK
    <2> QED
      BY <1>1, <1>3, <1>6, <2>1, TasksKept
  <1> QED
    BY <1>3, <1>6, <1>7, <1>8 DEF RelatedInv, MailGrows, NothingStranded, WakeHeard

(* When the repair has nothing left to do, whatever is owed waits for an   *)
(* operator, and every pending wake is looked at.                          *)
LEMMA ServeSteps ==
    ASSUME RelatedInv, Serve
    PROVE  RelatedInv'
  <1>1. MailOK /\ TurnsOK /\ TasksOK
    BY DEF RelatedInv
  <1>2. /\ Known' = Known /\ mail' = mail /\ turns' = turns /\ outcomes' = outcomes
        /\ phase' = "up" /\ poked' = {s \in Known : PendingWakes(s) # {}} /\ Repairable = {}
    BY DEF Serve, Known
  <1>3. MailGrows /\ \A u : Owed(u)' = Owed(u) /\ PendingWakes(u)' = PendingWakes(u)
    BY <1>1, <1>2, MailSame DEF MailOK
  <1>4. TurnsOK' /\ \A u : Busy(u)' = Busy(u)
    BY <1>1, <1>2, TurnsSame
  <1>5. TasksOK'
    <2>1. poked' \subseteq Known' /\ phase' \in {"up", "repair"} /\ outcomes \subseteq OutcomeRecords
      BY <1>1, <1>2 DEF TasksOK
    <2> QED
      BY <1>1, <1>2, <1>3, <2>1, TasksKept
  <1>6. \A s : Owed(s) # {} => Busy(s)
    <2> SUFFICES ASSUME NEW s, NEW i \in Owed(s)
                 PROVE  Busy(s)
      OBVIOUS
    <2>1. i \in DOMAIN mail /\ mail[i].dst = s
      BY DEF Owed, Received
    <2>2. Paused(s)
      BY <1>2, <2>1 DEF Repairable
    <2> QED
      BY <2>2 DEF Busy
  <1>7. NothingStranded'
    BY <1>3, <1>4, <1>6 DEF NothingStranded
  <1>8. WakeHeard'
    BY <1>2, <1>3 DEF WakeHeard
  <1> QED
    BY <1>3, <1>4, <1>5, <1>7, <1>8 DEF RelatedInv, MailGrows

(***************************************************************************)
(* The theorems                                                            *)
(***************************************************************************)

LEMMA RelatedInitially == RelatedInit => RelatedInv
  <1> SUFFICES ASSUME RelatedInit PROVE RelatedInv
    OBVIOUS
  <1>1. Known = {Root} /\ Root \in Sessions /\ mail = <<>> /\ DOMAIN mail = {}
    BY RelatedAssumption DEF RelatedInit, Known
  <1>2. MailOK
    BY <1>1, EmptySeq DEF MailOK
  <1>3. TurnsOK
    BY EmptySeq DEF RelatedInit, TurnsOK
  <1>4. TasksOK
    BY DEF RelatedInit, TasksOK
  <1>5. NothingStranded /\ WakeHeard
    BY <1>1 DEF NothingStranded, WakeHeard, Owed, PendingWakes, Received
  <1> QED
    BY <1>2, <1>3, <1>4, <1>5 DEF RelatedInv

LEMMA RelatedStuttering ==
    ASSUME RelatedInv, UNCHANGED vars
    PROVE  RelatedInv'
  BY DEF RelatedInv, vars, MailOK, TurnsOK, TasksOK, NothingStranded, WakeHeard, Known, Received,
         Owed, PendingWakes, Busy, Active, Paused, Status, LastTurn

LEMMA RelatedSteps == RelatedInv /\ [RelatedNext]_vars => RelatedInv'
  <1> SUFFICES ASSUME RelatedInv, [RelatedNext]_vars PROVE RelatedInv'
    OBVIOUS
  <1>1. CASE AgentStep
    <2>1. ASSUME NEW p \in Sessions, NEW c \in Sessions, SpawnAgent(p, c) \/ SpawnSession(p, c)
          PROVE  RelatedInv'
      BY <2>1, SpawnSteps DEF SpawnAgent, SpawnSession
    <2>2. ASSUME NEW s \in Sessions, NEW d \in Sessions, NEW m \in Sendable,
                 NEW reply \in IF m[1] \in Obliging THEN {None} ELSE DOMAIN mail,
                 SendMessage(s, d, m[1], m[2], reply)
          PROVE  RelatedInv'
      BY <2>2, SendSteps
    <2> QED
      BY <1>1, <2>1, <2>2, WaitSteps DEF AgentStep
  <1>2. CASE ServerStep
    BY <1>2, ClaimSteps, ReadSteps, ReplySteps, RepairSteps, ServeSteps DEF ServerStep
  <1>3. CASE \E s \in Sessions : \/ UserTurn(s) \/ ResumeTurn(s)
                                 \/ \E how \in Ends : FinishTurn(s, how)
    BY <1>3, OperatorSteps, FinishSteps
  <1>4. CASE \E o \in outcomes : ReplyFault(o) \/ WatchdogFault(o)
    BY <1>4, FaultSteps
  <1>5. CASE Crash
    BY <1>5, CrashSteps
  <1>6. CASE UNCHANGED vars
    BY <1>6, RelatedStuttering
  <1> QED
    BY <1>1, <1>2, <1>3, <1>4, <1>5, <1>6 DEF RelatedNext

LEMMA RelatedInvariant == RelatedSpec => []RelatedInv
  BY RelatedInitially, RelatedSteps, PTL DEF RelatedSpec

(***************************************************************************)
(* A claimed instruction or question without a terminal reply is one that  *)
(* a turn, an operator, a task or the startup repair still gets to, unless *)
(* the worker's and the watchdog's attempts both failed                    *)
(* (record_related_reply_obligations, the watchdog, and                    *)
(* repair_related_session_reply_settlements).                              *)
(***************************************************************************)
THEOREM RelatedNothingStranded == RelatedSpec => []NothingStranded
  <1>1. RelatedInv => NothingStranded
    BY DEF RelatedInv
  <1> QED
    BY <1>1, RelatedInvariant, PTL

(***************************************************************************)
(* While a wake message is pending its session is busy, somebody is about  *)
(* to claim it, or the startup repair still runs                           *)
(* (claim_next_related_session_message, recover_pending_agent_turns).      *)
(***************************************************************************)
THEOREM RelatedWakeHeard == RelatedSpec => []WakeHeard
  <1>1. RelatedInv => WakeHeard
    BY DEF RelatedInv
  <1> QED
    BY <1>1, RelatedInvariant, PTL

(***************************************************************************)
(* Settlements: the invariant                                              *)
(***************************************************************************)

Closing == {"result", "error"}

(* Agents leave the terminal replies to the runtime.                       *)
AgentsOnlyReport == \A m \in Sendable : m[1] \notin Closing

Completed(s, t) == t \in DOMAIN turns[s] /\ turns[s][t] = "completed"

Replies(i) == {j \in DOMAIN mail : mail[j].reply = i /\ mail[j].kind \in Closing}

LineageOK == IsFiniteSet(Known) /\ LineageBounded /\ \A s \in Known : parent[s] \in Known

NumbersOK ==
    \A i \in DOMAIN mail :
        /\ mail[i].reply \in 0..(i - 1)
        /\ mail[i].turn \in 0..LastTurn(mail[i].dst)
        /\ mail[i].settledBy \in {None} \cup DOMAIN mail

(* A message has a terminal reply when it is settled, and only then.       *)
AnswersOK ==
    AgentsOnlyReport =>
        \A i \in DOMAIN mail :
            Replies(i) = IF mail[i].settledBy = None THEN {} ELSE {mail[i].settledBy}

(* Whoever reports a result reports of a turn that completed.              *)
ResultsOK ==
    \A i \in DOMAIN mail :
        mail[i].settledBy # None /\ mail[mail[i].settledBy].kind = "result" =>
            Completed(mail[i].dst, mail[i].settlingTurn)
ReportsOK == \A o \in outcomes : o.kind = "result" => Completed(o.session, o.turn)

ObligationsInv ==
    RelatedInv /\ LineageOK /\ NumbersOK /\ AnswersOK /\ ResultsOK /\ ReportsOK

LEMMA ObligationsFollow ==
    ASSUME ObligationsInv
    PROVE  /\ RelatedTypeOK /\ LineageBounded /\ ResultHonest
           /\ AgentsOnlyReport => OneSettlement
  <1>1. RelatedInv /\ MailOK /\ TurnsOK /\ TasksOK
    BY DEF ObligationsInv, RelatedInv
  <1>2. RelatedTypeOK
    <2>1. Root \in Known /\ Known \subseteq Sessions /\ \A s \in Known : parent[s] \in Known
      BY <1>1 DEF ObligationsInv, LineageOK, MailOK
    <2>2. \A i \in DOMAIN mail : /\ mail[i].src \in Known /\ mail[i].dst \in Known /\ mail[i].kind \in Kinds
                                 /\ mail[i].status \in {"delivered", "pending", "claimed"}
      BY <1>1, MailFacts DEF MailOK, MailRecords
    <2>3. \A s \in Sessions : Range(turns[s]) \subseteq {"running", "completed", "failed", "cancelled", "awaiting"}
      <3> SUFFICES ASSUME NEW s \in Sessions, NEW t \in DOMAIN turns[s] PROVE turns[s][t] \in TurnStatuses
        BY DEF Range, TurnStatuses
      <3>1. turns[s] \in Seq(TurnStatuses)
        BY <1>1 DEF TurnsOK
      <3> QED
        BY <3>1, LenProperties, ElementOfSeq
    <2>4. \A o \in outcomes : o.session \in Known /\ o.todo \subseteq DOMAIN mail
      BY <1>1 DEF TasksOK, Received
    <2>5. poked \subseteq Known /\ phase \in {"up", "repair"}
      BY <1>1 DEF TasksOK
    <2> QED
      BY <2>1, <2>2, <2>3, <2>4, <2>5 DEF ObligationsInv, NumbersOK, RelatedTypeOK
  <1>3. LineageBounded /\ ResultHonest
    BY DEF ObligationsInv, LineageOK, ResultsOK, ResultHonest, Completed
  <1>4. ASSUME AgentsOnlyReport PROVE OneSettlement
    <2> SUFFICES ASSUME NEW i \in DOMAIN mail
                 PROVE  /\ Cardinality(Replies(i)) <= 1
                        /\ mail[i].settledBy # None => Replies(i) = {mail[i].settledBy}
      BY DEF OneSettlement, Replies, Closing
    <2>1. Replies(i) = IF mail[i].settledBy = None THEN {} ELSE {mail[i].settledBy}
      BY <1>4 DEF ObligationsInv, AnswersOK
    <2>2. Cardinality({}) = 0 /\ Cardinality({mail[i].settledBy}) = 1
      BY FS_EmptySet, FS_Singleton
    <2> QED
      BY <2>1, <2>2
  <1> QED
    BY <1>2, <1>3, <1>4

(***************************************************************************)
(* How the mailbox and the turns move                                      *)
(***************************************************************************)

TurnsGrow ==
    \A s \in Sessions : /\ LastTurn(s) <= LastTurn(s)'
                        /\ \A t : Completed(s, t) => Completed(s, t)'

(* A message is written by an agent, or is no terminal reply at all.       *)
Sends == \E src, dst \in Sessions, kind \in Kinds, wake \in BOOLEAN, reply \in 0..Len(mail) :
             /\ mail' = Append(mail, Message(src, dst, kind, wake, reply))
             /\ AgentsOnlyReport => kind \notin Closing

Claims == \E s \in Sessions, t \in Nat : \E M \in SUBSET PendingWakes(s) :
              mail' = Claim(M, t) /\ t <= LastTurn(s)'

Settles == \E i \in DOMAIN mail, kind \in Closing, t \in Nat :
               /\ mail' = Settled(i, kind, t) /\ mail[i].settledBy = None
               /\ kind = "result" => Completed(mail[i].dst, t)

LEMMA TurnsLonger ==
    ASSUME TurnsOK, TurnsOK', TurnsGrow, NEW s \in Sessions
    PROVE  LastTurn(s) \in Nat /\ LastTurn(s)' \in Nat /\ LastTurn(s) <= LastTurn(s)'
  <1>1. turns[s] \in Seq(TurnStatuses) /\ turns'[s] \in Seq(TurnStatuses)
    BY DEF TurnsOK
  <1> QED
    BY <1>1, LenProperties DEF TurnsGrow, LastTurn

(* The mailbox as it was, with more messages, which nobody has claimed.    *)
Extends ==
    /\ DOMAIN mail \subseteq DOMAIN mail'
    /\ \A i \in DOMAIN mail : /\ mail'[i].dst = mail[i].dst /\ mail'[i].kind = mail[i].kind
                              /\ mail'[i].reply = mail[i].reply
                              /\ \/ mail'[i].turn = mail[i].turn
                                 \/ \E s \in Sessions : s = mail[i].dst /\ mail'[i].turn \in 0..LastTurn(s)'
    /\ \A i \in DOMAIN mail' \ DOMAIN mail :
          mail'[i].reply \in 0..(i - 1) /\ mail'[i].turn = 0 /\ mail'[i].settledBy = None

LEMMA NumbersMove ==
    ASSUME RelatedInv, RelatedInv', NumbersOK, TurnsGrow, Extends,
           \A i \in DOMAIN mail : \/ mail'[i].settledBy = mail[i].settledBy
                                  \/ mail'[i].settledBy \in DOMAIN mail'
    PROVE  NumbersOK'
  <1>1. /\ MailOK /\ TurnsOK /\ TurnsOK' /\ Known \subseteq Sessions /\ MailOK' /\ Known' \subseteq Sessions
        /\ \A i \in DOMAIN mail' : mail'[i].dst \in Sessions
    BY DEF RelatedInv, MailOK
  <1> SUFFICES ASSUME NEW i \in DOMAIN mail', NEW s \in Sessions, s = mail'[i].dst
               PROVE  /\ mail'[i].reply \in 0..(i - 1) /\ mail'[i].turn \in 0..LastTurn(s)'
                      /\ mail'[i].settledBy \in {None} \cup DOMAIN mail'
    BY <1>1 DEF NumbersOK, LastTurn
  <1>2. LastTurn(s) \in Nat /\ LastTurn(s)' \in Nat /\ LastTurn(s) <= LastTurn(s)'
    BY <1>1, TurnsLonger
  <1>3. CASE i \in DOMAIN mail
    <2>1. /\ mail[i].reply \in 0..(i - 1) /\ mail[i].turn \in 0..LastTurn(s)
          /\ mail[i].settledBy \in {None} \cup DOMAIN mail
      BY <1>3 DEF NumbersOK, Extends
    <2>2. mail'[i].turn \in 0..LastTurn(s)'
      BY <1>2, <1>3, <2>1 DEF Extends
    <2>3. mail'[i].settledBy \in {None} \cup DOMAIN mail'
      BY <1>3, <2>1 DEF Extends
    <2>4. mail'[i].reply = mail[i].reply
      BY <1>3 DEF Extends
    <2> QED
      BY <2>1, <2>2, <2>3, <2>4
  <1>4. CASE i \notin DOMAIN mail
    BY <1>2, <1>4 DEF Extends
  <1> QED
    BY <1>3, <1>4

(* No new reply, or one that settles its message in the same step.         *)
LEMMA AnswersMove ==
    ASSUME RelatedInv, RelatedInv', NumbersOK, AnswersOK, Extends, NEW i,
           AgentsOnlyReport =>
             \A j \in DOMAIN mail' \ DOMAIN mail : mail'[j].kind \in Closing =>
                mail'[j].reply = i /\ mail'[i].settledBy = j /\ mail[i].settledBy = None,
           i \in DOMAIN mail,
           \/ mail'[i].settledBy = mail[i].settledBy
           \/ /\ mail'[i].settledBy \in DOMAIN mail' \ DOMAIN mail /\ mail[i].settledBy = None
              /\ mail'[mail'[i].settledBy].kind \in Closing,
           \A j \in DOMAIN mail : j # i => mail'[j].settledBy = mail[j].settledBy
    PROVE  AnswersOK'
  <1> SUFFICES ASSUME AgentsOnlyReport, NEW k \in DOMAIN mail'
               PROVE  Replies(k)' = IF mail'[k].settledBy = None THEN {} ELSE {mail'[k].settledBy}
    BY DEF AnswersOK
  <1> DEFINE new == {j \in DOMAIN mail' \ DOMAIN mail : mail'[j].reply = k /\ mail'[j].kind \in Closing}
  <1>1. DOMAIN mail = 1..Len(mail) /\ Len(mail) \in Nat /\ None \notin DOMAIN mail'
    <2>1. mail' \in Seq(MailRecords)
      BY DEF RelatedInv, MailOK
    <2>2. DOMAIN mail' = 1..Len(mail') /\ Len(mail') \in Nat
      BY <2>1, LenProperties
    <2> QED
      BY <2>2, MailFacts DEF RelatedInv, None
  <1>2. CASE k \in DOMAIN mail
    <2>1. Replies(k)' = Replies(k) \cup new
      BY <1>2 DEF Replies, Extends
    <2>2. Replies(k) = IF mail[k].settledBy = None THEN {} ELSE {mail[k].settledBy}
      BY <1>2 DEF AnswersOK
    <2>3. CASE k # i
      <3>1. new = {}
        BY <2>3
      <3> QED
        BY <1>2, <2>1, <2>2, <2>3, <3>1
    <2>4. CASE k = i /\ mail'[i].settledBy = mail[i].settledBy
      <3>1. new = {}
        <4> SUFFICES ASSUME NEW j \in new PROVE FALSE
          OBVIOUS
        <4>1. mail'[i].settledBy = j /\ mail[i].settledBy = None /\ j \in DOMAIN mail' \ DOMAIN mail
          OBVIOUS
        <4>2. j = None /\ j \in DOMAIN mail' /\ None \notin DOMAIN mail'
          BY <2>4, <4>1, <1>1
        <4> QED
          BY <4>2
      <3> QED
        BY <2>1, <2>2, <2>4, <3>1
    <2>5. CASE k = i /\ mail'[i].settledBy # mail[i].settledBy
      BY <2>1, <2>2, <2>5
    <2> QED
      BY <2>3, <2>4, <2>5
  <1>3. CASE k \notin DOMAIN mail
    <2>1. mail'[k].settledBy = None
      BY <1>3 DEF Extends
    <2>2. Replies(k)' = {}
      <3> SUFFICES ASSUME NEW j \in DOMAIN mail', mail'[j].reply = k, mail'[j].kind \in Closing PROVE FALSE
        BY DEF Replies
      <3>1. CASE j \in DOMAIN mail
        <4>1. k \in 0..(j - 1) /\ j \in 1..Len(mail)
          BY <1>1, <3>1 DEF Extends, NumbersOK
        <4>2. k = 0 \/ k \in DOMAIN mail
          BY <1>1, <4>1
        <4> QED
          BY <1>1, <1>3, <4>2 DEF None
      <3> QED
        BY <1>3, <3>1
    <2> QED
      BY <2>1, <2>2
  <1> QED
    BY <1>2, <1>3

LEMMA ResultsMove ==
    ASSUME RelatedInv, NumbersOK, ResultsOK, Extends, TurnsGrow,
           \A i \in DOMAIN mail : \A s \in Sessions : \A t : s = mail[i].dst /\ t = mail'[i].settlingTurn =>
               \/ mail'[i].settledBy = mail[i].settledBy /\ mail'[i].settlingTurn = mail[i].settlingTurn
               \/ mail'[mail'[i].settledBy].kind = "result" => Completed(s, t)'
    PROVE  ResultsOK'
  <1>1. \A i \in DOMAIN mail : mail[i].dst \in Sessions
    BY DEF RelatedInv, MailOK
  <1> SUFFICES ASSUME NEW i \in DOMAIN mail', mail'[i].settledBy # None,
                      mail'[mail'[i].settledBy].kind = "result", NEW t, t = mail'[i].settlingTurn,
                      NEW s, s = mail'[i].dst
               PROVE  Completed(s, t)'
    BY DEF ResultsOK, Completed
  <1>2. i \in DOMAIN mail /\ s \in Sessions /\ s = mail[i].dst
    BY <1>1 DEF Extends
  <1>3. CASE mail'[i].settledBy = mail[i].settledBy /\ mail'[i].settlingTurn = mail[i].settlingTurn
    <2>1. mail[i].settledBy \in DOMAIN mail
      BY <1>2, <1>3 DEF NumbersOK
    <2>2. mail[mail[i].settledBy].kind = "result"
      BY <1>3, <2>1 DEF Extends
    <2>3. Completed(s, t)
      BY <1>2, <1>3, <2>2 DEF ResultsOK
    <2> QED
      BY <1>2, <2>3 DEF TurnsGrow
  <1> QED
    BY <1>2, <1>3

LEMMA MailUntouched ==
    ASSUME RelatedInv, RelatedInv', NumbersOK, AnswersOK, ResultsOK, TurnsGrow, mail' = mail
    PROVE  NumbersOK' /\ AnswersOK' /\ ResultsOK'
  <1>1. Extends
    BY DEF Extends
  <1>2. NumbersOK' /\ ResultsOK'
    BY <1>1, NumbersMove, ResultsMove
  <1>3. AnswersOK'
    BY DEF AnswersOK, Replies
  <1> QED
    BY <1>2, <1>3

LEMMA MailSent ==
    ASSUME RelatedInv, RelatedInv', NumbersOK, AnswersOK, ResultsOK, TurnsGrow, Sends
    PROVE  NumbersOK' /\ AnswersOK' /\ ResultsOK'
  <1>1. PICK src, dst \in Sessions, kind \in Kinds, wake \in BOOLEAN, reply \in 0..Len(mail) :
           mail' = Append(mail, Message(src, dst, kind, wake, reply)) /\ (AgentsOnlyReport => kind \notin Closing)
    BY DEF Sends
  <1>2. PICK m : m = Message(src, dst, kind, wake, reply)
    OBVIOUS
  <1>3. /\ Len(mail) \in Nat /\ mail \in Seq(MailRecords) /\ DOMAIN mail = 1..Len(mail)
    BY MailFacts DEF RelatedInv, MailOK
  <1>4. m \in MailRecords /\ m.kind = kind /\ m.reply = reply /\ m.turn = 0 /\ m.settledBy = None
    BY <1>1, <1>2, <1>3 DEF Message, MailRecords, None
  <1>5. /\ Len(mail') = Len(mail) + 1 /\ DOMAIN mail' = DOMAIN mail \cup {Len(mail) + 1}
        /\ \A i \in DOMAIN mail : mail'[i] = mail[i]
        /\ mail'[Len(mail) + 1] = m
    <2>1. mail' \in Seq(MailRecords) /\ Len(mail') = Len(mail) + 1
          /\ (\A i \in 1..Len(mail) : mail'[i] = mail[i]) /\ mail'[Len(mail) + 1] = m
      BY <1>1, <1>2, <1>3, <1>4, AppendProperties
    <2>2. DOMAIN mail' = 1..Len(mail')
      BY <2>1, LenProperties
    <2> QED
      BY <1>3, <2>1, <2>2
  <1>6. reply \in 0..(Len(mail) + 1 - 1)
    BY <1>3
  <1>7. Extends
    BY <1>4, <1>5, <1>6 DEF Extends
  <1>8. NumbersOK' /\ ResultsOK'
    BY <1>5, <1>7, NumbersMove, ResultsMove
  <1>9. AnswersOK'
    <2>1. AgentsOnlyReport => \A j \in DOMAIN mail' \ DOMAIN mail : mail'[j].kind \notin Closing
      BY <1>1, <1>4, <1>5
    <2>2. CASE DOMAIN mail # {}
      <3>1. PICK i : i \in DOMAIN mail
        BY <2>2
      <3> QED
        BY <1>5, <1>7, <2>1, <3>1, AnswersMove
    <2>3. CASE DOMAIN mail = {}
      <3>1. DOMAIN mail' = {Len(mail) + 1}
        BY <1>5, <2>3
      <3> QED
        BY <1>4, <1>5, <2>1, <2>3, <3>1 DEF AnswersOK, Replies
    <2> QED
      BY <2>2, <2>3
  <1> QED
    BY <1>8, <1>9

LEMMA MailClaimed ==
    ASSUME RelatedInv, RelatedInv', NumbersOK, AnswersOK, ResultsOK, TurnsGrow, Claims
    PROVE  NumbersOK' /\ AnswersOK' /\ ResultsOK'
  <1>1. PICK s \in Sessions, t \in Nat : \E M \in SUBSET PendingWakes(s) :
           mail' = Claim(M, t) /\ t <= LastTurn(s)'
    BY DEF Claims
  <1>2. PICK M \in SUBSET PendingWakes(s) : mail' = Claim(M, t)
    BY <1>1
  <1>3. \A i \in M : i \in DOMAIN mail /\ mail[i].dst = s
    BY DEF PendingWakes, Received
  <1>4. \A i \in DOMAIN mail : mail[i] \in MailRecords
    BY MailFacts DEF RelatedInv
  <1>5. \A m \in MailRecords : LET q == Taken(m, t) IN
           /\ q.dst = m.dst /\ q.kind = m.kind /\ q.reply = m.reply /\ q.settledBy = m.settledBy
           /\ q.settlingTurn = m.settlingTurn /\ q.turn = t
    BY DEF Taken, MailRecords
  <1>6. /\ DOMAIN mail' = DOMAIN mail
        /\ \A i \in DOMAIN mail : mail'[i] = IF i \in M THEN Taken(mail[i], t) ELSE mail[i]
    BY <1>2 DEF Claim, Taken
  <1>7. \A i \in DOMAIN mail :
           /\ mail'[i].dst = mail[i].dst /\ mail'[i].kind = mail[i].kind /\ mail'[i].reply = mail[i].reply
           /\ mail'[i].settledBy = mail[i].settledBy /\ mail'[i].settlingTurn = mail[i].settlingTurn
           /\ mail'[i].turn = mail[i].turn \/ (mail[i].dst = s /\ mail'[i].turn = t)
    BY <1>3, <1>4, <1>5, <1>6
  <1>8. t \in 0..LastTurn(s)'
    <2>1. LastTurn(s)' \in Nat
      BY TurnsLonger DEF RelatedInv
    <2> QED
      BY <1>1, <2>1
  <1>9. Extends
    BY <1>6, <1>7, <1>8 DEF Extends
  <1>10. NumbersOK' /\ ResultsOK'
    BY <1>7, <1>9, NumbersMove, ResultsMove
  <1>11. AnswersOK'
    BY <1>6, <1>7 DEF AnswersOK, Replies
  <1> QED
    BY <1>10, <1>11

LEMMA MailSettled ==
    ASSUME RelatedInv, RelatedInv', NumbersOK, AnswersOK, ResultsOK, TurnsGrow, Settles
    PROVE  NumbersOK' /\ AnswersOK' /\ ResultsOK'
  <1>1. PICK i \in DOMAIN mail, kind \in Closing, t \in Nat :
           /\ mail' = Settled(i, kind, t) /\ mail[i].settledBy = None
           /\ kind = "result" => Completed(mail[i].dst, t)
    BY DEF Settles
  <1> DEFINE n == Len(mail)
             q == Answered(mail, i, n + 1, t)
  <1>2. /\ n \in Nat /\ DOMAIN mail = 1..n /\ mail \in Seq(MailRecords) /\ mail[i] \in MailRecords
        /\ mail[i].src \in Sessions /\ mail[i].dst \in Sessions /\ i \in Nat
    BY MailFacts DEF RelatedInv, MailOK
  <1>3. PICK m : m = Message(mail[i].dst, mail[i].src, kind, TRUE, i)
    OBVIOUS
  <1>4. kind \in Kinds
    BY DEF Closing, Kinds
  <1>5. m \in MailRecords /\ m.kind = kind /\ m.reply = i /\ m.turn = 0 /\ m.settledBy = None
    BY <1>2, <1>3, <1>4 DEF Message, MailRecords, None
  <1> HIDE DEF n
  <1>6. mail' = Append(q, m)
    BY <1>1, <1>3 DEF Settled, Answered, n
  <1>7. q \in Seq(MailRecords) /\ Len(q) = n /\ \A j \in 1..n : j # i => q[j] = mail[j]
    <2>1. n + 1 \in Nat \ {0} /\ i \in 1..Len(mail) /\ n = Len(mail)
      BY <1>2 DEF n
    <2>2. mail \in Seq(MailRecords)
      BY <1>2
    <2>3. /\ q \in Seq(MailRecords) /\ Len(q) = Len(mail)
          /\ q[i].src = mail[i].src /\ q[i].dst = mail[i].dst
          /\ q[i].status = mail[i].status /\ q[i].settledBy = n + 1
          /\ \A j \in 1..Len(mail) : j # i => q[j] = mail[j]
      BY <2>1, <2>2, AnsweredTyped
    <2> HIDE DEF q
    <2> QED
      BY <2>1, <2>3
  <1>8. /\ q[i].dst = mail[i].dst /\ q[i].kind = mail[i].kind /\ q[i].reply = mail[i].reply
        /\ q[i].turn = mail[i].turn /\ q[i].settledBy = n + 1 /\ q[i].settlingTurn = t
    <2>1. PICK p : p = mail[i]
      OBVIOUS
    <2>2. q[i] = [p EXCEPT !.settledBy = n + 1, !.settlingTurn = t]
      BY <1>2, <2>1 DEF Answered, MailRecords
    <2>3. p \in MailRecords
      BY <1>2, <2>1
    <2> HIDE DEF q
    <2> QED
      BY <2>1, <2>2, <2>3 DEF MailRecords
  <1> HIDE DEF q
  <1>9. /\ Len(mail') = n + 1 /\ DOMAIN mail' = DOMAIN mail \cup {n + 1} /\ n + 1 \notin DOMAIN mail
        /\ \A j \in DOMAIN mail : mail'[j] = q[j]
        /\ mail'[n + 1] = m
    <2>1. mail' \in Seq(MailRecords) /\ Len(mail') = n + 1
          /\ (\A j \in 1..n : mail'[j] = q[j]) /\ mail'[n + 1] = m
      BY <1>5, <1>6, <1>7, AppendProperties
    <2>2. DOMAIN mail' = 1..Len(mail')
      BY <2>1, LenProperties
    <2> QED
      BY <1>2, <2>1, <2>2
  <1>10. \A j \in DOMAIN mail : j # i => mail'[j] = mail[j]
    BY <1>2, <1>7, <1>9
  <1>11. mail'[i] = q[i] /\ i \in 0..(n + 1 - 1)
    BY <1>2, <1>9
  <1>12. Extends
    <2>1. \A j \in DOMAIN mail : /\ mail'[j].dst = mail[j].dst /\ mail'[j].kind = mail[j].kind
                                 /\ mail'[j].reply = mail[j].reply /\ mail'[j].turn = mail[j].turn
      BY <1>8, <1>10, <1>11
    <2>2. \A j \in DOMAIN mail' \ DOMAIN mail : j = n + 1 /\ mail'[j] = m
      BY <1>9
    <2>3. \A j \in DOMAIN mail' \ DOMAIN mail :
             mail'[j].reply \in 0..(j - 1) /\ mail'[j].turn = 0 /\ mail'[j].settledBy = None
      BY <1>2, <1>5, <1>11, <2>2
    <2>4. DOMAIN mail \subseteq DOMAIN mail'
      BY <1>9
    <2> QED
      BY <2>1, <2>3, <2>4 DEF Extends
  <1>13. NumbersOK'
    BY <1>8, <1>9, <1>10, <1>11, <1>12, NumbersMove
  <1>14. ResultsOK'
    <2>1. kind = "result" => Completed(mail[i].dst, t)'
      <3>1. PICK s \in Sessions : s = mail[i].dst
        BY <1>2
      <3>2. kind = "result" => Completed(s, t)'
        BY <1>1, <3>1 DEF TurnsGrow
      <3>3. mail'[i].dst = s
        BY <1>8, <1>11, <3>1
      <3> QED
        BY <3>1, <3>2, <3>3 DEF Completed
    <2>2. \A s \in Sessions : s = mail[i].dst /\ kind = "result" => Completed(s, t)'
      BY <1>1 DEF TurnsGrow
    <2> QED
      BY <1>5, <1>8, <1>9, <1>10, <1>11, <1>12, <2>2, ResultsMove
  <1>15. AnswersOK'
    BY <1>1, <1>5, <1>8, <1>9, <1>10, <1>11, <1>12, AnswersMove
  <1> QED
    BY <1>13, <1>14, <1>15

(***************************************************************************)
(* The lineage                                                             *)
(***************************************************************************)

(* The set of a session's ancestors is itself one of those it is the least *)
(* of, in a lineage in which every parent is known.                        *)
LEMMA AncestorsClosed ==
    ASSUME \A x \in Known : parent[x] \in Known, NEW s \in Known
    PROVE  /\ Ancestors(s) \in SUBSET Known /\ s \in Ancestors(s)
           /\ \A x \in Ancestors(s) : parent[x] \in Ancestors(s)
  BY DEF Ancestors

LEMMA LineageGrows ==
    ASSUME LineageOK, NEW p \in Known, NEW c, c \notin Known, MaySpawn(p), MaxDepth \in Nat, MaxDescendants \in Nat,
           Known' = Known \cup {c}, \A x \in Known : parent'[x] = parent[x], parent'[c] = p
    PROVE  LineageOK'
  <1>1. IsFiniteSet(Known) /\ \A x \in Known : parent[x] \in Known
    BY DEF LineageOK
  <1>2. IsFiniteSet(Known') /\ Cardinality(Known') = Cardinality(Known) + 1 /\ Cardinality(Known) \in Nat
    BY <1>1, FS_AddElement, FS_CardinalityType
  <1>3. \A x \in Known' : parent'[x] \in Known'
    BY <1>1
  <1>4. ASSUME NEW s \in Known PROVE Ancestors(s)' = Ancestors(s)
    <2>1. /\ Ancestors(s) \in SUBSET Known /\ s \in Ancestors(s)
          /\ \A x \in Ancestors(s) : parent[x] \in Ancestors(s)
      BY <1>1, AncestorsClosed
    <2>2. ASSUME NEW a \in Ancestors(s)' PROVE a \in Ancestors(s)
      <3>1. /\ Ancestors(s) \in SUBSET Known' /\ s \in Ancestors(s)
            /\ \A x \in Ancestors(s) : parent'[x] \in Ancestors(s)
        BY <2>1
      <3> QED
        BY <3>1 DEF Ancestors
    <2>3. ASSUME NEW a \in Ancestors(s) PROVE a \in Ancestors(s)'
      <3> SUFFICES ASSUME NEW A \in SUBSET Known', s \in A, \A x \in A : parent'[x] \in A PROVE a \in A
        BY <2>1 DEF Ancestors
      <3>1. /\ A \cap Known \in SUBSET Known /\ s \in A \cap Known
            /\ \A x \in A \cap Known : parent[x] \in A \cap Known
        BY <1>1
      <3>2. a \in A \cap Known
        BY <3>1 DEF Ancestors
      <3> QED
        BY <3>2
    <2> QED
      BY <2>2, <2>3
  <1>5. Ancestors(c)' \subseteq {c} \cup Ancestors(p)
    <2>1. /\ Ancestors(p) \in SUBSET Known /\ p \in Ancestors(p)
          /\ \A x \in Ancestors(p) : parent[x] \in Ancestors(p)
      BY <1>1, AncestorsClosed
    <2>2. PICK A : A = {c} \cup Ancestors(p)
      OBVIOUS
    <2>3. A \in SUBSET Known' /\ c \in A /\ \A x \in A : parent'[x] \in A
      BY <2>1, <2>2
    <2> SUFFICES ASSUME NEW a \in Ancestors(c)' PROVE a \in A
      BY <2>2
    <2> QED
      BY <2>3 DEF Ancestors
  <1>6. IsFiniteSet(Ancestors(p)) /\ Cardinality(Ancestors(p)) \in Nat
    BY <1>1, FS_Subset, FS_CardinalityType DEF Ancestors
  <1>7. Depth(c)' <= MaxDepth
    <2>1. IsFiniteSet({c} \cup Ancestors(p)) /\ Cardinality({c} \cup Ancestors(p)) <= Cardinality(Ancestors(p)) + 1
          /\ Cardinality({c} \cup Ancestors(p)) \in Nat
      <3>1. PICK S, U : S = Ancestors(p) /\ U = S \cup {c}
        OBVIOUS
      <3>2. IsFiniteSet(S) /\ Cardinality(S) \in Nat
        BY <1>6, <3>1
      <3>3. IsFiniteSet(U) /\ (Cardinality(U) = Cardinality(S) \/ Cardinality(U) = Cardinality(S) + 1)
        BY <3>1, <3>2, FS_AddElement
      <3>4. Cardinality(U) <= Cardinality(S) + 1 /\ Cardinality(U) \in Nat
        BY <3>2, <3>3
      <3>5. {c} \cup Ancestors(p) = U
        BY <3>1
      <3> QED
        BY <3>1, <3>3, <3>4, <3>5, Zenon
    <2>2. Cardinality(Ancestors(c)') \in Nat /\ Cardinality(Ancestors(c)') <= Cardinality({c} \cup Ancestors(p))
      BY <1>5, <2>1, FS_Subset, FS_CardinalityType
    <2>3. Cardinality(Ancestors(p)) - 1 < MaxDepth
      BY DEF MaySpawn, Depth
    <2>4. Depth(c)' = Cardinality(Ancestors(c)') - 1
      BY DEF Depth
    <2> QED
      BY <1>6, <2>1, <2>2, <2>3, <2>4
  <1>8. \A s \in Known : Depth(s)' <= MaxDepth
    <2> SUFFICES ASSUME NEW s \in Known PROVE Depth(s)' <= MaxDepth
      OBVIOUS
    <2>1. Depth(s) <= MaxDepth
      BY DEF LineageOK, LineageBounded
    <2> QED
      BY <1>4, <2>1 DEF Depth
  <1>9. Cardinality(Known') - 1 <= MaxDescendants
    BY <1>2 DEF MaySpawn
  <1> QED
    BY <1>2, <1>3, <1>7, <1>8, <1>9 DEF LineageOK, LineageBounded

LEMMA LineageKept ==
    ASSUME LineageOK, parent' = parent
    PROVE  LineageOK'
  BY DEF LineageOK, LineageBounded, Depth, Ancestors, Known

(***************************************************************************)
(* The turns                                                               *)
(***************************************************************************)

LEMMA TurnsUntouched ==
    ASSUME TurnsOK, turns' = turns
    PROVE  TurnsGrow /\ \A s \in Sessions : LastTurn(s)' = LastTurn(s) /\ LastTurn(s) \in Nat
  <1>1. \A s \in Sessions : Len(turns[s]) \in Nat
    BY LenProperties DEF TurnsOK
  <1> QED
    BY <1>1 DEF TurnsGrow, LastTurn, Completed

LEMMA TurnBegins ==
    ASSUME TurnsOK, NEW s \in Sessions, StartTurn(s)
    PROVE  TurnsGrow /\ LastTurn(s)' = LastTurn(s) + 1 /\ LastTurn(s) \in Nat
  <1>1. turns[s] \in Seq(TurnStatuses) /\ "running" \in TurnStatuses /\ \A u \in Sessions : Len(turns[u]) \in Nat
    BY LenProperties DEF TurnsOK, TurnStatuses
  <1> HIDE DEF TurnStatuses
  <1>2. PICK q : q = Append(turns[s], "running")
    OBVIOUS
  <1>3. /\ Len(q) = Len(turns[s]) + 1 /\ DOMAIN q = 1..Len(q) /\ DOMAIN turns[s] = 1..Len(turns[s])
        /\ \A t \in 1..Len(turns[s]) : q[t] = turns[s][t]
    BY <1>1, <1>2, AppendProperties, LenProperties
  <1>4. turns'[s] = q /\ \A u \in Sessions : u # s => turns'[u] = turns[u]
    BY <1>2 DEF StartTurn, TurnsOK
  <1>5. \A t \in DOMAIN turns[s] : t \in DOMAIN q /\ q[t] = turns[s][t]
    BY <1>1, <1>3
  <1> QED
    BY <1>1, <1>3, <1>4, <1>5 DEF TurnsGrow, LastTurn, Completed

LEMMA TurnEnds ==
    ASSUME TurnsOK, NEW s \in Sessions, NEW how \in Ends, Active(s),
           turns' = [turns EXCEPT ![s][LastTurn(s)] = Recorded(how)]
    PROVE  /\ TurnsGrow
           /\ how = "completed" => Completed(s, LastTurn(s))'
           /\ LastTurn(s)' = LastTurn(s) /\ LastTurn(s) \in Nat
  <1>1. /\ turns[s] \in Seq(TurnStatuses) /\ \A u \in Sessions : Len(turns[u]) \in Nat
        /\ DOMAIN turns[s] = 1..Len(turns[s])
    BY LenProperties DEF TurnsOK
  <1>2. turns[s] # <<>> /\ turns[s][LastTurn(s)] = "running"
    BY DEF Active, Status
  <1>3. LastTurn(s) \in DOMAIN turns[s] /\ LastTurn(s) = Len(turns[s])
    BY <1>1, <1>2, EmptySeq DEF LastTurn
  <1>4. PICK q : q = [turns[s] EXCEPT ![LastTurn(s)] = Recorded(how)]
    OBVIOUS
  <1>5. /\ DOMAIN q = DOMAIN turns[s] /\ q[LastTurn(s)] = Recorded(how)
        /\ \A t \in DOMAIN turns[s] : t # LastTurn(s) => q[t] = turns[s][t]
    BY <1>3, <1>4
  <1>6. turns'[s] = q /\ \A u \in Sessions : u # s => turns'[u] = turns[u]
    BY <1>4 DEF TurnsOK
  <1>7. Len(q) = Len(turns[s])
    <2>1. q \in Seq(TurnStatuses)
      <3>1. Recorded(how) \in TurnStatuses
        BY RelatedAssumption DEF Recorded, TurnStatuses
      <3> HIDE DEF TurnStatuses
      <3> QED
        BY <1>1, <1>3, <1>4, <3>1, ExceptSeq
    <2> QED
      BY <1>1, <1>5, <2>1, LenProperties
  <1>8. \A t : Completed(s, t) => t # LastTurn(s)
    BY <1>2 DEF Completed
  <1>9. TurnsGrow
    BY <1>1, <1>5, <1>6, <1>7, <1>8 DEF TurnsGrow, LastTurn, Completed
  <1>10. how = "completed" => Recorded(how) = "completed"
    BY DEF Recorded
  <1>11. LastTurn(s)' = LastTurn(s)
    BY <1>6, <1>7 DEF LastTurn
  <1> QED
    BY <1>1, <1>3, <1>5, <1>6, <1>9, <1>10, <1>11 DEF Completed

(***************************************************************************)
(* Every step keeps the invariant                                          *)
(***************************************************************************)

(* A task goes on with the result it had, or has one of a completed turn.  *)
LEMMA ReportsKept ==
    ASSUME RelatedInv, ReportsOK, TurnsGrow,
           \A o \in outcomes' : o.kind = "result" =>
               \/ \E p \in outcomes : p.session = o.session /\ p.turn = o.turn /\ p.kind = o.kind
               \/ Completed(o.session, o.turn)'
    PROVE  ReportsOK'
  <1> SUFFICES ASSUME NEW o \in outcomes', o.kind = "result" PROVE Completed(o.session, o.turn)'
    BY DEF ReportsOK
  <1>1. CASE \E p \in outcomes : p.session = o.session /\ p.turn = o.turn /\ p.kind = o.kind
    <2>1. PICK p \in outcomes : p.session = o.session /\ p.turn = o.turn /\ p.kind = o.kind
      BY <1>1
    <2>2. Completed(o.session, o.turn)
      BY <2>1 DEF ReportsOK
    <2>3. o.session \in Sessions
      BY <2>1 DEF RelatedInv, TasksOK, MailOK
    <2> QED
      BY <2>2, <2>3 DEF TurnsGrow
  <1> QED
    BY <1>1

(* What a step does to the four.                                           *)
Moves ==
    /\ LineageOK' /\ TurnsGrow /\ ReportsOK'
    /\ mail' = mail \/ Sends \/ Claims \/ Settles

LEMMA MovesKeep ==
    ASSUME ObligationsInv, RelatedInv', Moves
    PROVE  ObligationsInv'
  <1>1. RelatedInv /\ NumbersOK /\ AnswersOK /\ ResultsOK /\ TurnsGrow
    BY DEF ObligationsInv, Moves
  <1>2. NumbersOK' /\ AnswersOK' /\ ResultsOK'
    BY <1>1, MailUntouched, MailSent, MailClaimed, MailSettled DEF Moves
  <1> QED
    BY <1>2 DEF ObligationsInv, Moves

LEMMA SpawnMoves ==
    ASSUME ObligationsInv, NEW p \in Sessions, NEW c \in Sessions, NEW dispatch \in BOOLEAN,
           Spawn(p, c, dispatch)
    PROVE  Moves
  <1>1. /\ RelatedInv /\ LineageOK /\ ReportsOK /\ TurnsOK /\ Len(mail) \in Nat
    BY MailFacts DEF ObligationsInv, RelatedInv
  <1>2. /\ p \in Known /\ c \notin Known /\ MaySpawn(p) /\ turns' = turns /\ outcomes' = outcomes
        /\ parent' = [s \in Known \cup {c} |-> IF s = c THEN p ELSE parent[s]]
        /\ mail' = IF dispatch THEN Append(mail, Message(p, c, "instruction", TRUE, None)) ELSE mail
    BY DEF Spawn, CommitSpawn
  <1>3. /\ Known' = Known \cup {c} /\ parent'[c] = p /\ \A x \in Known : parent'[x] = parent[x]
    BY <1>2 DEF Known
  <1>4. LineageOK'
    BY <1>1, <1>2, <1>3, LineageGrows, RelatedAssumption
  <1>5. TurnsGrow
    BY <1>1, <1>2, TurnsUntouched
  <1>6. ReportsOK'
    BY <1>1, <1>2, <1>5, ReportsKept
  <1>7. mail' = mail \/ Sends
    <2>1. "instruction" \in Kinds /\ "instruction" \notin Closing /\ None \in 0..Len(mail)
      BY <1>1 DEF Kinds, Obliging, Closing, None
    <2> QED
      BY <1>2, <2>1 DEF Sends
  <1> QED
    BY <1>4, <1>5, <1>6, <1>7 DEF Moves

LEMMA SendMoves ==
    ASSUME ObligationsInv, NEW s \in Sessions, NEW d \in Sessions, NEW m \in Sendable,
           NEW reply \in {None} \cup DOMAIN mail, SendMessage(s, d, m[1], m[2], reply)
    PROVE  Moves
  <1>1. /\ RelatedInv /\ LineageOK /\ ReportsOK /\ TurnsOK /\ Len(mail) \in Nat /\ DOMAIN mail = 1..Len(mail)
    BY MailFacts DEF ObligationsInv, RelatedInv
  <1>2. /\ parent' = parent /\ turns' = turns /\ outcomes' = outcomes
        /\ mail' = Append(mail, Message(s, d, m[1], m[2], reply))
    BY DEF SendMessage, CommitMessage
  <1>3. m[1] \in Kinds /\ m[2] \in BOOLEAN /\ reply \in 0..Len(mail) /\ (AgentsOnlyReport => m[1] \notin Closing)
    BY <1>1, RelatedAssumption DEF None, AgentsOnlyReport
  <1>4. Sends
    BY <1>2, <1>3 DEF Sends
  <1>5. TurnsGrow
    BY <1>1, <1>2, TurnsUntouched
  <1> QED
    BY <1>1, <1>2, <1>4, <1>5, LineageKept, ReportsKept DEF Moves

LEMMA ClaimMoves ==
    ASSUME ObligationsInv, NEW s \in Sessions, WaitAgent(s) \/ ClaimNext(s)
    PROVE  Moves
  <1>1. /\ RelatedInv /\ LineageOK /\ ReportsOK /\ TurnsOK /\ MailOK
    BY DEF ObligationsInv, RelatedInv
  <1>2. parent' = parent /\ outcomes' = outcomes
    BY DEF WaitAgent, ClaimNext
  <1>3. CASE WaitAgent(s)
    <2>1. turns' = turns
      BY <1>3 DEF WaitAgent
    <2>2. TurnsGrow /\ LastTurn(s)' = LastTurn(s) /\ LastTurn(s) \in Nat
      BY <1>1, <2>1, TurnsUntouched
    <2>3. PICK M \in SUBSET PendingWakes(s) : mail' = Claim(M, LastTurn(s))
      BY <1>3 DEF WaitAgent
    <2>4. Claims
      BY <2>2, <2>3 DEF Claims
    <2> QED
      BY <1>1, <1>2, <2>2, <2>4, LineageKept, ReportsKept DEF Moves
  <1>4. CASE ClaimNext(s) /\ Claimable(s)
    <2>1. StartTurn(s) /\ PendingWakes(s) # {}
      BY <1>4 DEF ClaimNext, ClaimContinuation, Claimable
    <2>2. PICK i : i = CHOOSE k \in PendingWakes(s) : \A j \in PendingWakes(s) : k <= j
      OBVIOUS
    <2>3. mail' = Claim({i}, LastTurn(s) + 1)
      BY <1>4, <2>2 DEF ClaimNext, ClaimContinuation
    <2>4. {i} \in SUBSET PendingWakes(s)
      BY <1>1, <2>1, <2>2, OldestIn, MailFacts
    <2>5. TurnsGrow /\ LastTurn(s)' = LastTurn(s) + 1 /\ LastTurn(s) \in Nat
      BY <1>1, <2>1, TurnBegins
    <2>6. Claims
      BY <2>3, <2>4, <2>5 DEF Claims
    <2> QED
      BY <1>1, <1>2, <2>5, <2>6, LineageKept, ReportsKept DEF Moves
  <1>5. CASE ClaimNext(s) /\ ~Claimable(s)
    <2>1. turns' = turns /\ mail' = mail
      BY <1>5 DEF ClaimNext
    <2>2. TurnsGrow
      BY <1>1, <2>1, TurnsUntouched
    <2> QED
      BY <1>1, <1>2, <2>1, <2>2, LineageKept, ReportsKept DEF Moves
  <1> QED
    BY <1>3, <1>4, <1>5

LEMMA OperatorMoves ==
    ASSUME ObligationsInv, NEW s \in Sessions, UserTurn(s) \/ ResumeTurn(s)
    PROVE  Moves
  <1>1. /\ RelatedInv /\ LineageOK /\ ReportsOK /\ TurnsOK
    BY DEF ObligationsInv, RelatedInv
  <1>2. StartTurn(s) /\ parent' = parent /\ outcomes' = outcomes /\ mail' = mail
    BY DEF UserTurn, ResumeTurn
  <1>3. TurnsGrow
    BY <1>1, <1>2, TurnBegins
  <1> QED
    BY <1>1, <1>2, <1>3, LineageKept, ReportsKept DEF Moves

LEMMA FinishMoves ==
    ASSUME ObligationsInv, NEW s \in Sessions, NEW how \in Ends, FinishTurn(s, how)
    PROVE  Moves
  <1>1. /\ RelatedInv /\ LineageOK /\ ReportsOK /\ TurnsOK
    BY DEF ObligationsInv, RelatedInv
  <1>2. /\ parent' = parent /\ mail' = mail /\ Active(s)
        /\ turns' = [turns EXCEPT ![s][LastTurn(s)] = Recorded(how)]
        /\ outcomes' = outcomes \cup {Outcome(s, LastTurn(s), ReplyKind(how))}
    BY DEF FinishTurn
  <1>3. /\ TurnsGrow
        /\ how = "completed" => Completed(s, LastTurn(s))'
        /\ LastTurn(s)' = LastTurn(s) /\ LastTurn(s) \in Nat
    BY <1>1, <1>2, TurnEnds
  <1>4. PICK t \in Nat : t = LastTurn(s)
    BY <1>3
  <1>5. how = "completed" => Completed(s, t)'
    BY <1>3, <1>4 DEF Completed
  <1>6. PICK x : x = Outcome(s, t, ReplyKind(how))
    OBVIOUS
  <1>7. x.session = s /\ x.turn = t /\ x.kind = ReplyKind(how)
    BY <1>6 DEF Outcome
  <1>8. x.kind = "result" => how = "completed"
    BY <1>7 DEF ReplyKind
  <1>9. x.kind = "result" => Completed(x.session, x.turn)'
    BY <1>5, <1>7, <1>8
  <1>10. \A o \in outcomes' : o \in outcomes \/ o = x
    BY <1>2, <1>4, <1>6
  <1>11. ReportsOK'
    BY <1>1, <1>3, <1>9, <1>10, ReportsKept
  <1> QED
    BY <1>1, <1>2, <1>3, <1>11, LineageKept DEF Moves


(* The tasks that come from o report what it reports, or a failure.        *)
LEMMA TaskReports ==
    ASSUME RelatedInv, ReportsOK, TurnsGrow, NEW o \in outcomes, NEW P, Become(o, P),
           \A x \in P : x.kind = "error" \/ (x.session = o.session /\ x.turn = o.turn /\ x.kind = o.kind)
    PROVE  ReportsOK'
  <1>1. \A x \in outcomes' : x \in outcomes \/ x \in P
    BY DEF Become
  <1>2. \A x \in outcomes' : x.kind = "result" =>
           \E p \in outcomes : p.session = x.session /\ p.turn = x.turn /\ p.kind = x.kind
    BY <1>1
  <1> QED
    BY <1>2, ReportsKept

LEMMA ReadMoves ==
    ASSUME ObligationsInv, NEW o \in outcomes, ReadOwed(o)
    PROVE  Moves
  <1>1. RelatedInv /\ LineageOK /\ ReportsOK /\ TurnsOK /\ outcomes \subseteq OutcomeRecords
    BY DEF ObligationsInv, RelatedInv, TasksOK
  <1> DEFINE x == [o EXCEPT !.pc = "reply", !.todo = Owed(o.session)]
             P == IF Owed(o.session) = {} THEN {} ELSE {x}
  <1>2. parent' = parent /\ mail' = mail /\ turns' = turns /\ Become(o, P)
    BY DEF ReadOwed
  <1>3. x.session = o.session /\ x.turn = o.turn /\ x.kind = o.kind
    BY <1>1 DEF OutcomeRecords
  <1>4. TurnsGrow
    BY <1>1, <1>2, TurnsUntouched
  <1>5. \A y \in P : y.session = o.session /\ y.turn = o.turn /\ y.kind = o.kind
    BY <1>3
  <1> HIDE DEF P
  <1> QED
    BY <1>1, <1>2, <1>4, <1>5, TaskReports, LineageKept DEF Moves

LEMMA AnswerMoves ==
    ASSUME ObligationsInv, NEW o \in outcomes, Reply(o)
    PROVE  Moves
  <1>1. /\ RelatedInv /\ LineageOK /\ ReportsOK /\ TurnsOK /\ TasksOK /\ MailOK
        /\ o \in OutcomeRecords /\ o.todo \subseteq Received(o.session)
    BY DEF ObligationsInv, RelatedInv, TasksOK
  <1>2. PICK i : i = CHOOSE k \in o.todo : \A j \in o.todo : k <= j
    OBVIOUS
  <1> DEFINE x == [o EXCEPT !.todo = @ \ {i}]
             P == IF o.todo = {i} THEN {} ELSE {x}
  <1>3. /\ parent' = parent /\ turns' = turns /\ o.pc = "reply"
        /\ IF o.kind = "progress" THEN ReportProgress(i) ELSE Settle(o, i)
        /\ Become(o, P)
    BY <1>2 DEF Reply
  <1>4. i \in DOMAIN mail /\ mail[i].dst = o.session
    <2>1. o.todo # {} /\ o.todo \subseteq Nat
      BY <1>1, <1>3, MailFacts DEF TasksOK
    <2>2. i \in o.todo
      BY <1>2, <2>1, OldestIn
    <2> QED
      BY <1>1, <2>2 DEF Received
  <1>5. x.session = o.session /\ x.turn = o.turn /\ x.kind = o.kind
    BY <1>1 DEF OutcomeRecords
  <1>6. \A y \in P : y.session = o.session /\ y.turn = o.turn /\ y.kind = o.kind
    BY <1>5
  <1> HIDE DEF P
  <1>7. TurnsGrow
    BY <1>1, <1>3, TurnsUntouched
  <1>8. LineageOK' /\ ReportsOK'
    BY <1>1, <1>3, <1>6, <1>7, TaskReports, LineageKept
  <1>9. mail' = mail \/ Sends \/ Settles
    <2>1. CASE o.kind = "progress"
      <3>1. /\ mail[i].src \in Sessions /\ mail[i].dst \in Sessions /\ i \in 0..Len(mail)
            /\ "progress" \in Kinds /\ "progress" \notin Closing
        BY <1>1, <1>4, MailFacts DEF MailOK, Kinds, Closing
      <3>2. mail' = mail \/ mail' = Append(mail, Message(mail[i].dst, mail[i].src, "progress", FALSE, i))
        BY <1>3, <2>1 DEF ReportProgress
      <3> QED
        BY <3>1, <3>2 DEF Sends
    <2>2. CASE o.kind # "progress"
      <3>1. o.kind \in Closing /\ o.turn \in Nat
        BY <1>1, <2>2 DEF OutcomeRecords, Closing
      <3>2. o.kind = "result" => Completed(mail[i].dst, o.turn)
        BY <1>1, <1>4 DEF ReportsOK
      <3>3. mail' = mail \/ (mail' = Settled(i, o.kind, o.turn) /\ mail[i].settledBy = None)
        BY <1>3, <2>2 DEF Settle
      <3> QED
        BY <1>4, <3>1, <3>2, <3>3 DEF Settles
    <2> QED
      BY <2>1, <2>2
  <1> QED
    BY <1>7, <1>8, <1>9 DEF Moves

LEMMA FaultMoves ==
    ASSUME ObligationsInv, NEW o \in outcomes, ReplyFault(o) \/ WatchdogFault(o)
    PROVE  Moves
  <1>1. RelatedInv /\ LineageOK /\ ReportsOK /\ TurnsOK
    BY DEF ObligationsInv, RelatedInv
  <1> DEFINE x == [Outcome(o.session, o.turn, "error") EXCEPT !.last = TRUE]
  <1>2. parent' = parent /\ mail' = mail /\ turns' = turns
    BY DEF ReplyFault, WatchdogFault
  <1>3. PICK P : Become(o, P) /\ (P = {} \/ P = {x})
    BY DEF ReplyFault, WatchdogFault
  <1>4. x.kind = "error"
    BY DEF Outcome
  <1> HIDE DEF x
  <1>5. TurnsGrow
    BY <1>1, <1>2, TurnsUntouched
  <1> QED
    BY <1>1, <1>2, <1>3, <1>4, <1>5, TaskReports, LineageKept DEF Moves

LEMMA CrashMoves ==
    ASSUME ObligationsInv, RelatedInv', Crash
    PROVE  Moves
  <1>1. RelatedInv /\ LineageOK /\ TurnsOK /\ TurnsOK'
    BY DEF ObligationsInv, RelatedInv
  <1>2. /\ parent' = parent /\ mail' = mail /\ outcomes' = {}
        /\ turns' = [s \in Sessions |->
                       [t \in DOMAIN turns[s] |-> IF turns[s][t] = "running" THEN "failed"
                                                  ELSE turns[s][t]]]
    BY DEF Crash
  <1>3. TurnsGrow
    <2> SUFFICES ASSUME NEW s \in Sessions
                 PROVE  LastTurn(s) <= LastTurn(s)' /\ \A t : Completed(s, t) => Completed(s, t)'
      BY DEF TurnsGrow
    <2> DEFINE f == [t \in DOMAIN turns[s] |-> IF turns[s][t] = "running" THEN "failed"
                                               ELSE turns[s][t]]
    <2>1. turns'[s] = f
      BY <1>2
    <2>2. turns[s] \in Seq(TurnStatuses) /\ turns'[s] \in Seq(TurnStatuses)
      BY <1>1 DEF TurnsOK
    <2>3. DOMAIN f = DOMAIN turns[s] /\ \A t \in DOMAIN turns[s] : turns[s][t] = "completed" => f[t] = "completed"
      OBVIOUS
    <2> HIDE DEF f, TurnStatuses
    <2>4. Len(turns'[s]) = Len(turns[s]) /\ Len(turns[s]) \in Nat
      BY <2>1, <2>2, <2>3, LenProperties
    <2>5. \A t : Completed(s, t) => Completed(s, t)'
      BY <2>1, <2>3 DEF Completed
    <2> QED
      BY <2>4, <2>5 DEF LastTurn
  <1>4. ReportsOK'
    BY <1>2 DEF ReportsOK
  <1> QED
    BY <1>1, <1>2, <1>3, <1>4, LineageKept DEF Moves

LEMMA RepairMoves ==
    ASSUME ObligationsInv, Repair
    PROVE  Moves
  <1>1. RelatedInv /\ LineageOK /\ ReportsOK /\ TurnsOK /\ MailOK
    BY DEF ObligationsInv, RelatedInv
  <1>2. PICK i : i = CHOOSE k \in Repairable : \A j \in Repairable : k <= j
    OBVIOUS
  <1>3. /\ parent' = parent /\ turns' = turns /\ outcomes' = outcomes /\ Repairable # {}
        /\ mail' = Settled(i, RepairKind(Status(mail[i].dst)), LastTurn(mail[i].dst))
    BY <1>2 DEF Repair
  <1>4. i \in DOMAIN mail /\ mail[i].settledBy = None
    <2>1. Repairable \subseteq DOMAIN mail /\ Repairable \subseteq Nat
      BY <1>1, MailFacts DEF Repairable
    <2>2. i \in Repairable
      BY <1>2, <1>3, <2>1, OldestIn
    <2> QED
      BY <2>2 DEF Repairable, Owed
  <1>5. PICK s \in Sessions : s = mail[i].dst
    BY <1>1, <1>4 DEF MailOK
  <1>6. turns[s] \in Seq(TurnStatuses) /\ LastTurn(s) \in Nat
    BY <1>1, <1>5, LenProperties DEF TurnsOK, LastTurn
  <1>7. RepairKind(Status(s)) \in Closing
    BY DEF RepairKind, Closing
  <1>8. RepairKind(Status(s)) = "result" => Completed(s, LastTurn(s))
    <2> SUFFICES ASSUME RepairKind(Status(s)) = "result" PROVE Completed(s, LastTurn(s))
      OBVIOUS
    <2>1. turns[s] # <<>> /\ turns[s][LastTurn(s)] = "completed"
      BY DEF RepairKind, Status
    <2>2. LastTurn(s) \in DOMAIN turns[s]
      BY <1>6, <2>1, EmptySeq, LenProperties DEF LastTurn
    <2> QED
      BY <2>1, <2>2 DEF Completed
  <1>9. Settles
    BY <1>3, <1>4, <1>5, <1>6, <1>7, <1>8 DEF Settles
  <1>10. TurnsGrow
    BY <1>1, <1>3, TurnsUntouched
  <1> QED
    BY <1>1, <1>3, <1>9, <1>10, ReportsKept, LineageKept DEF Moves

LEMMA StillMoves ==
    ASSUME ObligationsInv, Serve \/ UNCHANGED vars
    PROVE  Moves
  <1>1. RelatedInv /\ LineageOK /\ ReportsOK /\ TurnsOK
    BY DEF ObligationsInv, RelatedInv
  <1>2. parent' = parent /\ mail' = mail /\ turns' = turns /\ outcomes' = outcomes
    BY DEF Serve, vars
  <1>3. TurnsGrow
    BY <1>1, <1>2, TurnsUntouched
  <1> QED
    BY <1>1, <1>2, <1>3, ReportsKept, LineageKept DEF Moves


LEMMA ObligationsStep == ObligationsInv /\ [RelatedNext]_vars => ObligationsInv'
  <1> SUFFICES ASSUME ObligationsInv, [RelatedNext]_vars PROVE ObligationsInv'
    OBVIOUS
  <1>1. RelatedInv'
    BY RelatedSteps DEF ObligationsInv
  <1>2. CASE AgentStep
    <2>1. ASSUME NEW p \in Sessions, NEW c \in Sessions, SpawnAgent(p, c) \/ SpawnSession(p, c)
          PROVE  Moves
      BY <2>1, SpawnMoves DEF SpawnAgent, SpawnSession
    <2>2. ASSUME NEW s \in Sessions, NEW d \in Sessions, NEW m \in Sendable,
                 NEW reply \in IF m[1] \in Obliging THEN {None} ELSE DOMAIN mail,
                 SendMessage(s, d, m[1], m[2], reply)
          PROVE  Moves
      BY <2>2, SendMoves
    <2>3. Moves
      BY <1>2, <2>1, <2>2, ClaimMoves DEF AgentStep
    <2> QED
      BY <1>1, <2>3, MovesKeep
  <1>3. CASE ServerStep
    <2>1. Moves
      BY <1>3, ClaimMoves, ReadMoves, AnswerMoves, RepairMoves, StillMoves DEF ServerStep
    <2> QED
      BY <1>1, <2>1, MovesKeep
  <1>4. CASE \E s \in Sessions : \/ UserTurn(s) \/ ResumeTurn(s)
                                 \/ \E how \in Ends : FinishTurn(s, how)
    BY <1>1, <1>4, OperatorMoves, FinishMoves, MovesKeep
  <1>5. CASE \E o \in outcomes : ReplyFault(o) \/ WatchdogFault(o)
    BY <1>1, <1>5, FaultMoves, MovesKeep
  <1>6. CASE Crash
    BY <1>1, <1>6, CrashMoves, MovesKeep
  <1>7. CASE UNCHANGED vars
    BY <1>1, <1>7, StillMoves, MovesKeep
  <1> QED
    BY <1>2, <1>3, <1>4, <1>5, <1>6, <1>7 DEF RelatedNext

LEMMA ObligationsInitially == RelatedInit => ObligationsInv
  <1> SUFFICES ASSUME RelatedInit PROVE ObligationsInv
    OBVIOUS
  <1>1. Known = {Root} /\ parent[Root] = Root /\ mail = <<>> /\ outcomes = {}
    BY DEF RelatedInit, Known
  <1>2. IsFiniteSet(Known) /\ Cardinality(Known) = 1
    BY <1>1, FS_Singleton
  <1>3. Ancestors(Root) = {Root}
    BY <1>1 DEF Ancestors
  <1>4. LineageBounded
    <2>1. Cardinality(Ancestors(Root)) = 1
      BY <1>1, <1>2, <1>3
    <2> QED
      BY <1>1, <1>2, <2>1, RelatedAssumption DEF LineageBounded, Depth
  <1>5. LineageOK
    BY <1>1, <1>2, <1>4 DEF LineageOK
  <1>6. DOMAIN mail = {}
    BY <1>1
  <1>7. NumbersOK /\ AnswersOK /\ ResultsOK /\ ReportsOK
    BY <1>1, <1>6 DEF NumbersOK, AnswersOK, ResultsOK, ReportsOK
  <1> QED
    BY <1>5, <1>7, RelatedInitially DEF ObligationsInv

LEMMA ObligationsInvariant == RelatedSpec => []ObligationsInv
  BY ObligationsInitially, ObligationsStep, PTL DEF RelatedSpec

(***************************************************************************)
(* Whatever agents may send each other: the lineage stays within its depth *)
(* and size (ensure_child_spawn_bounds_in_tx), and a message is settled by *)
(* a result only when the turn that the settlement names completed         *)
(* (record_related_turn_outcome, the watchdog, and                         *)
(* repair_related_session_reply_settlements).                              *)
(***************************************************************************)
THEOREM RelatedResultsHonest == RelatedSpec => [](RelatedTypeOK /\ LineageBounded /\ ResultHonest)
  <1>1. ObligationsInv => RelatedTypeOK /\ LineageBounded /\ ResultHonest
    BY ObligationsFollow
  <1> QED
    BY <1>1, ObligationsInvariant, PTL

(***************************************************************************)
(* While agents leave "result" and "error" to the runtime, a message gets  *)
(* one terminal reply at most, the one that its settlement names, however  *)
(* the workers of several turns, their watchdogs and the repair after a    *)
(* crash race for it (settle_related_session_message).                     *)
(***************************************************************************)
THEOREM RelatedObligationsSettled == AgentsOnlyReport => (RelatedSpec => []ObligationsSettled)
  <1> SUFFICES ASSUME AgentsOnlyReport PROVE RelatedSpec => []ObligationsSettled
    OBVIOUS
  <1>1. ObligationsInv => ObligationsSettled
    BY ObligationsFollow DEF ObligationsSettled
  <1> QED
    BY <1>1, ObligationsInvariant, PTL
==============================================================================
