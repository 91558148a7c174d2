-------------------------- MODULE EventStreamProofs ---------------------------
(***************************************************************************)
(* Proofs about the live event stream and the client that follows it, for  *)
(* every page size, channel capacity, window and size of the batches that  *)
(* are sent late: nothing but what a later event overtook on the channel   *)
(* is lost, nothing is doubled or reordered between the log and the        *)
(* client's cursor, and every step of server and client is one that        *)
(* LiveTranscript allows.                                                  *)
(***************************************************************************)
EXTENDS EventStream, FiniteSetTheorems, SequenceTheorems, WellFoundedInduction, TLAPS

(***************************************************************************)
(* The inductive invariant                                                 *)
(***************************************************************************)

FeedRecords == [phase : {"none", "request", "replay", "live"}, seen : Nat, rx : Nat]
Batches == [next : Nat, last : Nat]
UiRecords == [cursor : Nat, messages : SUBSET Nat, commands : SUBSET Nat, live : BOOLEAN,
              stream : {"none", "open", "retry"}]
LoadRecords == [by : {"none", "loop", "command"}, full : BOOLEAN,
                messages : SUBSET Nat, commands : SUBSET Nat, last : Nat]

StreamTypes ==
    /\ log \in Seq(EventKinds) /\ 1 <= Len(log) /\ Len(log) <= MaxEvents /\ log[1] = "other"
    /\ bus \in Seq(Nat) /\ \A n \in DOMAIN bus : bus[n] \in DOMAIN log
    /\ \A b \in unsent : b \in Batches /\ 1 <= b.next /\ b.next <= b.last /\ b.last <= Len(log)
    /\ feed \in FeedRecords /\ feed.seen <= Len(log) /\ feed.rx <= Len(bus)
    /\ pipe \in Seq(Nat)
    /\ ui \in UiRecords
    /\ load \in LoadRecords

(* The messages that a load with this last seq_id has to tell about.       *)
MessagesUpTo(n) == {i \in OfKind("message") : i <= n}

(* The client is at an event of its session and shows what is behind it.   *)
UiOK ==
    /\ ui.cursor \in {0} \cup OwnAfter(0)
    /\ ui.messages \subseteq MessagesUpTo(ui.cursor)
    /\ ui.commands \subseteq OfKind("command")

(* A page leaves out only messages that Window newer ones follow.          *)
LoadOK ==
    /\ load.last \in {0} \cup OwnAfter(0)
    /\ load.messages # NotYet =>
          /\ load.messages \subseteq MessagesUpTo(load.last)
          /\ \A i \in MessagesUpTo(load.last) : i \notin load.messages =>
                ~(Cardinality({j \in MessagesUpTo(load.last) : j > i}) < Window)
    /\ load.commands # NotYet => load.commands \subseteq OfKind("command")

(* There is at most one stream, and what the server sent is behind it.     *)
ConnectionOK ==
    /\ ui.stream # "open" => pipe = <<>> /\ feed.phase = "none"
    /\ feed.phase = "request" => pipe = <<>> /\ feed.seen <= ui.cursor
    /\ feed.phase # "none" => \A n \in DOMAIN pipe : pipe[n] # Closed /\ pipe[n] <= feed.seen

(* A message was sent before everything that was committed after it.       *)
InTurn ==
    \A i \in OfKind("message") :
        \E n \in DOMAIN bus : bus[n] = i /\ \A m \in DOMAIN bus : m < n => bus[m] < i

(* Before a frame come all the events between it and the client's cursor   *)
(* that were not overtaken, also when the connection has broken behind the *)
(* frame.                                                                  *)
Gapless ==
    \A n \in DOMAIN pipe : pipe[n] # Closed =>
        /\ pipe[n] \in OwnAfter(0)
        /\ \A j \in Due(ui.cursor) : j < pipe[n] => \E m \in DOMAIN pipe : m < n /\ pipe[m] = j

StreamInv == StreamTypes /\ InTurn /\ UiOK /\ LoadOK /\ ConnectionOK /\ Gapless /\ FeedComplete

(***************************************************************************)
(* Sets of seq_ids                                                         *)
(***************************************************************************)

LEMMA LeastIn ==
    ASSUME NEW S, S \subseteq Nat, S # {}
    PROVE  \E x \in S : \A y \in S : x <= y
  <1> DEFINE R == OpToRel(<, Nat)
  <1>1. IsWellFoundedOn(R, Nat)
    BY NatLessThanWellFounded
  <1>2. \A x, y \in Nat : x < y => <<x, y>> \in R
    BY DEF OpToRel
  <1> HIDE DEF R
  <1>3. PICK x \in S : \A y \in S : ~(<<y, x>> \in R)
    BY <1>1, WFMin
  <1>4. \A y \in S : ~(y < x)
    BY <1>2, <1>3, Zenon
  <1> QED
    BY <1>4

(* The last of some events is one of them.                                 *)
LEMMA LastIn ==
    ASSUME NEW N \in Nat, NEW S, S \subseteq 1..N, S # {}, NEW d
    PROVE  LastOf(S, d) \in S /\ \A j \in S : j <= LastOf(S, d)
  <1> DEFINE U == {k \in Nat : \A j \in S : j <= k}
  <1>1. U \subseteq Nat /\ N \in U
    OBVIOUS
  <1>2. PICK k \in U : \A y \in U : k <= y
    BY <1>1, LeastIn
  <1>3. k \in S
    <2> SUFFICES ASSUME k \notin S PROVE FALSE
      OBVIOUS
    <2>1. k \in Nat /\ \A j \in S : j \in Nat /\ j >= 1 /\ j <= k /\ j # k
      OBVIOUS
    <2>2. k - 1 \in Nat
      <3>1. PICK j \in S : j \in Nat /\ j >= 1 /\ j <= k
        BY <2>1
      <3> QED
        BY <2>1, <3>1
    <2>3. k - 1 \in U
      BY <2>1, <2>2
    <2> QED
      BY <1>2, <2>1, <2>2, <2>3
  <1>4. \A j \in S : j <= k
    OBVIOUS
  <1> QED
    BY <1>3, <1>4 DEF LastOf

(* The rows of a page, in order, as one sequence.                          *)
LEMMA InOrderFacts ==
    ASSUME NEW S, IsFiniteSet(S), S \subseteq Nat, NEW q \in InOrder(S)
    PROVE  /\ q \in Seq(S) /\ q \in Seq(Nat) /\ DOMAIN q = 1..Len(q)
           /\ \A n \in DOMAIN q : q[n] \in S
           /\ \A m, n \in DOMAIN q : m < n => q[m] < q[n]
           /\ \A i \in S : \E n \in DOMAIN q : q[n] = i
  <1>1. PICK c \in Nat : c = Cardinality(S)
    BY FS_CardinalityType
  <1>2. q \in [1..c -> S] /\ \A m, n \in DOMAIN q : m < n => q[m] < q[n]
    BY <1>1 DEF InOrder
  <1>3. IsFiniteSet(1..c) /\ Cardinality(1..c) = c
    BY <1>1, FS_Interval
  <1>4. \A m, n \in 1..c : m < n => q[m] < q[n]
    BY <1>2
  <1>5. \A m, n \in 1..c : q[m] = q[n] => m = n
    <2> SUFFICES ASSUME NEW m \in 1..c, NEW n \in 1..c, q[m] = q[n], m # n PROVE FALSE
      OBVIOUS
    <2>1. q[m] \in Nat /\ q[n] \in Nat
      BY <1>2
    <2>2. m < n \/ n < m
      OBVIOUS
    <2> QED
      BY <1>4, <2>1, <2>2
  <1>6. q \in Injection(1..c, S)
    BY <1>2, <1>5 DEF Injection, IsInjective
  <1>7. q \in Surjection(1..c, S)
    BY <1>1, <1>3, <1>6, FS_Injection
  <1>8. \A i \in S : \E n \in DOMAIN q : q[n] = i
    BY <1>2, <1>7 DEF Surjection
  <1>9. q = [n \in 1..c |-> q[n]] /\ \A n \in 1..c : q[n] \in S
    BY <1>2
  <1>10. q \in Seq(S)
    BY <1>9, IsASeq
  <1>11. q \in Seq(Nat) /\ DOMAIN q = 1..Len(q)
    <2>1. \A n \in 1..c : q[n] \in Nat
      BY <1>9
    <2>2. q \in Seq(Nat)
      BY <1>9, <2>1, IsASeq
    <2> QED
      BY <2>2, LenProperties
  <1> QED
    BY <1>2, <1>8, <1>9, <1>10, <1>11

LEMMA LogFacts ==
    ASSUME StreamTypes
    PROVE  /\ Len(log) \in Nat /\ DOMAIN log = 1..Len(log)
           /\ \A i \in DOMAIN log : i \in Nat /\ log[i] \in EventKinds
           /\ \A n : OwnAfter(n) \subseteq 1..Len(log) /\ IsFiniteSet(OwnAfter(n))
           /\ \A k : OfKind(k) \subseteq 1..Len(log)
           /\ 1 \in OwnAfter(0)
  <1>1. /\ Len(log) \in Nat /\ DOMAIN log = 1..Len(log) /\ 1 <= Len(log)
        /\ \A i \in DOMAIN log : i \in Nat /\ log[i] \in EventKinds
    BY LenProperties, ElementOfSeq DEF StreamTypes
  <1>2. IsFiniteSet(1..Len(log))
    BY <1>1, FS_Interval
  <1>3. \A n : OwnAfter(n) \in SUBSET (1..Len(log))
    BY <1>1 DEF OwnAfter
  <1>4. \A n : IsFiniteSet(OwnAfter(n))
    BY <1>2, <1>3, FS_Subset
  <1>5. 1 \in OwnAfter(0)
    BY <1>1 DEF StreamTypes, OwnAfter, Own
  <1> QED
    BY <1>1, <1>3, <1>4, <1>5 DEF OfKind

LEMMA PipeFacts ==
    ASSUME StreamTypes
    PROVE  Len(pipe) \in Nat /\ DOMAIN pipe = 1..Len(pipe) /\ \A n \in DOMAIN pipe : pipe[n] \in Nat
  BY LenProperties, ElementOfSeq DEF StreamTypes

(* A page holds the first events after the last one sent; it holds them    *)
(* all unless it is full.                                                  *)
LEMMA PageFacts ==
    ASSUME StreamTypes
    PROVE  /\ Page \subseteq OwnAfter(feed.seen) /\ IsFiniteSet(Page) /\ Page \subseteq 1..Len(log)
           /\ \A i \in Page : \A j \in OwnAfter(feed.seen) : j < i => j \in Page
           /\ Cardinality(Page) < ReplayPage => Page = OwnAfter(feed.seen)
  <1> DEFINE S == OwnAfter(feed.seen)
             Before(i) == {j \in S : j < i}
  <1>1. IsFiniteSet(S) /\ S \subseteq 1..Len(log) /\ S \subseteq Nat
    BY LogFacts
  <1>2. Page = {i \in S : Cardinality(Before(i)) < ReplayPage}
    BY DEF Page
  <1> HIDE DEF S
  <1>3. Page \subseteq S /\ IsFiniteSet(Page)
    BY <1>1, <1>2, FS_Subset
  <1>4. \A i : IsFiniteSet(Before(i)) /\ Cardinality(Before(i)) \in Nat
    BY <1>1, FS_Subset, FS_CardinalityType
  <1>5. ReplayPage \in Nat
    BY StreamAssumption
  <1>6. \A i \in Page : \A j \in S : j < i => j \in Page
    <2> SUFFICES ASSUME NEW i \in Page, NEW j \in S, j < i PROVE j \in Page
      OBVIOUS
    <2>1. Before(j) \in SUBSET Before(i)
      <3> SUFFICES ASSUME NEW y \in S, y < j PROVE y < i
        OBVIOUS
      <3>1. y \in Nat /\ j \in Nat /\ i \in Nat
        BY <1>1, <1>2
      <3> QED
        BY <3>1
    <2>2. Cardinality(Before(j)) <= Cardinality(Before(i)) /\ Cardinality(Before(i)) < ReplayPage
      BY <1>2, <1>4, <2>1, FS_Subset
    <2>3. Cardinality(Before(j)) < ReplayPage
      BY <1>4, <1>5, <2>2
    <2> QED
      BY <1>2, <2>3
  <1>7. ASSUME Cardinality(Page) < ReplayPage, Page # S PROVE FALSE
    <2>1. S \ Page # {} /\ S \ Page \subseteq Nat
      BY <1>1, <1>3, <1>7
    <2>2. PICK x \in S \ Page : \A y \in S \ Page : x <= y
      BY <2>1, LeastIn
    <2>3. Before(x) \in SUBSET Page
      <3> SUFFICES ASSUME NEW y \in S, y < x, y \notin Page PROVE FALSE
        OBVIOUS
      <3>1. y \in Nat /\ x \in Nat /\ x <= y
        BY <1>1, <2>2
      <3> QED
        BY <3>1
    <2>4. Cardinality(Before(x)) <= Cardinality(Page) /\ Cardinality(Page) \in Nat
      BY <1>3, <2>3, FS_Subset, FS_CardinalityType
    <2>5. Cardinality(Before(x)) < ReplayPage
      BY <1>4, <1>5, <1>7, <2>4
    <2> QED
      BY <1>2, <2>2, <2>5
  <1> QED
    BY <1>1, <1>3, <1>6, <1>7 DEF S

(***************************************************************************)
(* The steps of the server                                                 *)
(***************************************************************************)

(* What a step that leaves the log alone keeps.                            *)
LEMMA UiKept ==
    ASSUME UiOK, log' = log, ui'.cursor = ui.cursor, ui'.messages = ui.messages,
           ui'.commands = ui.commands
    PROVE  UiOK'
  BY DEF UiOK, MessagesUpTo, OfKind, OwnAfter

LEMMA LoadKept ==
    ASSUME LoadOK, log' = log, load' = load
    PROVE  LoadOK'
  BY DEF LoadOK, MessagesUpTo, OfKind, OwnAfter

LEMMA TypesKept ==
    ASSUME StreamTypes, log' = log, bus' = bus, unsent' = unsent,
           feed' \in FeedRecords, feed'.seen <= Len(log), feed'.rx <= Len(bus),
           pipe' \in Seq(Nat), ui' \in UiRecords, load' \in LoadRecords
    PROVE  StreamTypes'
  BY DEF StreamTypes

LEMMA InTurnKept ==
    ASSUME InTurn, log' = log, bus' = bus
    PROVE  InTurn'
  BY DEF InTurn, OfKind

LEMMA DueKept ==
    ASSUME log' = log, bus' = bus
    PROVE  /\ \A n : OwnAfter(n)' = OwnAfter(n) /\ Due(n)' = Due(n)
           /\ Due(ui.cursor)' = {i \in OwnAfter(ui'.cursor) : ~Overtaken(i)}
  BY DEF OwnAfter, Due, Overtaken

LEMMA BusFacts ==
    ASSUME StreamTypes
    PROVE  /\ Len(bus) \in Nat /\ DOMAIN bus = 1..Len(bus)
           /\ \A n \in DOMAIN bus : n \in Nat /\ bus[n] \in Nat /\ bus[n] \in DOMAIN log
  BY LenProperties, ElementOfSeq DEF StreamTypes

(* The log and the channel grow: nothing is said of the new events yet, and *)
(* what was overtaken stays so.                                            *)
LEMMA GrowSteps ==
    ASSUME StreamInv, StreamTypes', InTurn', feed' = feed, pipe' = pipe, ui' = ui, load' = load,
           Len(log) <= Len(log'), \A i \in DOMAIN log : log'[i] = log[i],
           Len(bus) <= Len(bus'), \A n \in DOMAIN bus : bus'[n] = bus[n]
    PROVE  StreamInv'
  <1>2. StreamTypes /\ UiOK /\ LoadOK /\ ConnectionOK /\ Gapless /\ FeedComplete
    BY DEF StreamInv
  <1>3. PICK z \in Nat : z = Len(log) /\ DOMAIN log = 1..z
    BY <1>2, LogFacts
  <1>4. PICK y \in Nat : y = Len(log') /\ DOMAIN log' = 1..y
    BY LenProperties DEF StreamTypes
  <1>5. PICK w \in Nat : w = Len(bus) /\ DOMAIN bus = 1..w
    BY <1>2, BusFacts
  <1>6. PICK x \in Nat : x = Len(bus') /\ DOMAIN bus' = 1..x
    BY LenProperties DEF StreamTypes
  <1>7. /\ \A i \in DOMAIN log : i \in DOMAIN log' /\ log'[i] = log[i] /\ i \in Nat /\ i <= z
        /\ \A i \in DOMAIN log' : i \in Nat /\ (i <= z => i \in DOMAIN log)
        /\ \A n \in DOMAIN bus : n \in DOMAIN bus' /\ bus'[n] = bus[n]
    BY <1>3, <1>4, <1>5, <1>6
  <1>8. \A n \in DOMAIN bus : /\ bus'[n] = bus[n] /\ log'[bus'[n]] = log[bus[n]]
                              /\ \A k \in 1..n : k \in DOMAIN bus /\ bus'[k] = bus[k]
    <2>1. \A n \in DOMAIN bus : bus[n] \in DOMAIN log
      BY <1>2, BusFacts
    <2>2. \A n \in 1..w : \A k \in 1..n : k \in 1..w
      OBVIOUS
    <2> QED
      BY <1>5, <1>7, <2>1, <2>2
  <1>9. /\ ui.cursor \in Nat /\ load.last \in Nat /\ feed.seen \in Nat /\ feed.rx \in Nat
        /\ ui.cursor <= z /\ load.last <= z /\ feed.seen <= z /\ feed.rx <= w
        /\ \A n \in DOMAIN pipe : pipe[n] \in Nat /\ (pipe[n] # Closed => pipe[n] <= z)
    <2>1. \A i \in OwnAfter(0) : i <= z
      BY <1>7 DEF OwnAfter
    <2>2. /\ ui.cursor \in Nat /\ load.last \in Nat /\ feed.seen \in Nat /\ feed.rx \in Nat
          /\ \A n \in DOMAIN pipe : pipe[n] \in Nat
      BY <1>2, PipeFacts DEF StreamTypes, UiRecords, LoadRecords, FeedRecords
    <2>3. 0 <= z /\ feed.seen <= z /\ feed.rx <= w
      BY <1>2, <1>3, <1>5 DEF StreamTypes
    <2> QED
      BY <1>2, <2>1, <2>2, <2>3 DEF UiOK, LoadOK, Gapless
  <1>10. /\ \A n : OwnAfter(n) \subseteq OwnAfter(n)'
         /\ \A n : \A i \in OwnAfter(n)' : i \in Nat /\ (i <= z => i \in OwnAfter(n))
         /\ \A c : OfKind(c) \subseteq OfKind(c)'
         /\ \A c : \A i \in OfKind(c)' : i \in Nat /\ (i <= z => i \in OfKind(c))
    BY <1>7 DEF OwnAfter, OfKind
  <1>11. \A n \in Nat : n <= z => {i \in OfKind("message")' : i <= n} = {i \in OfKind("message") : i <= n}
    <2> SUFFICES ASSUME NEW n \in Nat, n <= z
                 PROVE  {i \in OfKind("message")' : i <= n} = {i \in OfKind("message") : i <= n}
      OBVIOUS
    <2>1. \A i \in OfKind("message")' : i <= n => i <= z
      BY <1>10
    <2> QED
      BY <1>10, <2>1
  <1>12. UiOK'
    <2>1. MessagesUpTo(ui.cursor)' = MessagesUpTo(ui.cursor)
      BY <1>9, <1>11 DEF MessagesUpTo
    <2> QED
      BY <1>2, <1>10, <2>1 DEF UiOK
  <1>13. LoadOK'
    <2>1. MessagesUpTo(load.last)' = MessagesUpTo(load.last)
      BY <1>9, <1>11 DEF MessagesUpTo
    <2> QED
      BY <1>2, <1>10, <2>1 DEF LoadOK
  <1>14. ConnectionOK'
    BY <1>2 DEF ConnectionOK
  <1>15. \A i : i \in Due(ui.cursor)' => i \in Nat /\ (i <= z => i \in Due(ui.cursor))
    <2> SUFFICES ASSUME NEW i, i \in Due(ui.cursor)'
                 PROVE  i \in Nat /\ (i <= z => i \in Due(ui.cursor))
      OBVIOUS
    <2>1. i \in DOMAIN log' /\ i > ui.cursor /\ Own(log'[i]) /\ ~Overtaken(i)'
      BY DEF Due, OwnAfter
    <2>2. Overtaken(i) => Overtaken(i)'
      BY <1>7, <1>8 DEF Overtaken
    <2> QED
      BY <1>7, <2>1, <2>2 DEF Due, OwnAfter
  <1>16. Gapless'
    <2> SUFFICES ASSUME NEW n \in DOMAIN pipe, pipe[n] # Closed
                 PROVE  /\ pipe[n] \in OwnAfter(0)'
                        /\ \A j \in Due(ui.cursor)' :
                              j < pipe[n] => \E m \in DOMAIN pipe : m < n /\ pipe[m] = j
      BY DEF Gapless
    <2>1. pipe[n] \in OwnAfter(0)'
      BY <1>2, <1>10 DEF Gapless
    <2>2. ASSUME NEW j \in Due(ui.cursor)', j < pipe[n]
          PROVE  \E m \in DOMAIN pipe : m < n /\ pipe[m] = j
      <3>1. j <= z
        BY <1>9, <1>15, <2>2
      <3> QED
        BY <1>2, <1>15, <2>2, <3>1 DEF Gapless
    <2> QED
      BY <2>1, <2>2
  <1>17. FeedComplete'
    <2> SUFFICES ASSUME feed.phase \in {"replay", "live"}
                 PROVE  /\ \A i \in Due(ui.cursor)' :
                              i <= feed.seen => \E n \in DOMAIN pipe : pipe[n] = i
                        /\ \A m, n \in DOMAIN pipe : m < n => pipe[m] < pipe[n]
                        /\ \A n \in 1..feed.rx :
                              (Own(log'[bus'[n]]) /\ bus'[n] > feed.seen) => feed.phase = "replay"
      BY DEF FeedComplete, Own
    <2>1. ASSUME NEW i \in Due(ui.cursor)', i <= feed.seen
          PROVE  \E n \in DOMAIN pipe : pipe[n] = i
      <3>1. i <= z
        BY <1>9, <1>15, <2>1
      <3> QED
        BY <1>2, <1>15, <2>1, <3>1 DEF FeedComplete
    <2>2. ASSUME NEW n \in 1..feed.rx, Own(log'[bus'[n]]), bus'[n] > feed.seen
          PROVE  feed.phase = "replay"
      <3>1. n \in DOMAIN bus
        BY <1>5, <1>9
      <3> QED
        BY <1>2, <1>8, <2>2, <3>1 DEF FeedComplete
    <2> QED
      BY <1>2, <2>1, <2>2 DEF FeedComplete
  <1> QED
    BY <1>12, <1>13, <1>14, <1>16, <1>17 DEF StreamInv

(* An event that is sent under the lock comes after everything on the      *)
(* channel.                                                                *)
LEMMA CommitSteps ==
    ASSUME StreamInv, NEW k \in CommitKinds, CommitEvent(k)
    PROVE  StreamInv'
  <1>1. /\ log' = Append(log, k) /\ bus' = Append(bus, Len(log) + 1) /\ unsent' = unsent
        /\ feed' = feed /\ pipe' = pipe /\ ui' = ui /\ load' = load
        /\ Len(log) < MaxEvents /\ k \in EventKinds
    BY StreamAssumption DEF CommitEvent
  <1>2. StreamTypes /\ InTurn
    BY DEF StreamInv
  <1>3. PICK z \in Nat : z = Len(log) /\ DOMAIN log = 1..z
    BY <1>2, LogFacts
  <1>4. PICK w \in Nat : w = Len(bus) /\ DOMAIN bus = 1..w
    BY <1>2, BusFacts
  <1>5. /\ log \in Seq(EventKinds) /\ bus \in Seq(Nat) /\ 1 <= z /\ log[1] = "other" /\ MaxEvents \in Nat
        /\ \A n \in DOMAIN bus : bus[n] \in DOMAIN log /\ bus[n] \in Nat
    BY <1>2, <1>3, BusFacts, StreamAssumption DEF StreamTypes
  <1> HIDE DEF EventKinds
  <1>6. /\ log' \in Seq(EventKinds) /\ Len(log') = z + 1 /\ DOMAIN log' = 1..(z + 1)
        /\ \A i \in DOMAIN log : log'[i] = log[i]
    <2>1. /\ log' \in Seq(EventKinds) /\ Len(log') = z + 1
          /\ \A i \in 1..z : log'[i] = log[i]
      BY <1>1, <1>3, <1>5, AppendProperties
    <2> QED
      BY <1>3, <2>1, LenProperties
  <1>7. /\ bus' \in Seq(Nat) /\ Len(bus') = w + 1 /\ DOMAIN bus' = 1..(w + 1)
        /\ \A n \in DOMAIN bus : bus'[n] = bus[n]
        /\ bus'[w + 1] = z + 1
    <2>1. z + 1 \in Nat /\ bus' = Append(bus, z + 1)
      BY <1>1, <1>3
    <2>2. /\ bus' \in Seq(Nat) /\ Len(bus') = w + 1
          /\ \A n \in 1..w : bus'[n] = bus[n]
          /\ bus'[w + 1] = z + 1
      BY <1>4, <1>5, <2>1, AppendProperties
    <2> QED
      BY <1>4, <2>2, LenProperties
  <1>8. \A n \in DOMAIN bus' : n \in DOMAIN bus \/ n = w + 1
    BY <1>4, <1>7
  <1>9. StreamTypes'
    <2>1. log'[1] = "other" /\ 1 <= Len(log') /\ Len(log') <= MaxEvents /\ Len(log) <= Len(log')
      BY <1>1, <1>3, <1>5, <1>6
    <2>2. \A n \in DOMAIN bus' : bus'[n] \in DOMAIN log'
      <3>1. z + 1 \in DOMAIN log' /\ \A i \in DOMAIN log : i \in DOMAIN log'
        BY <1>3, <1>6
      <3> QED
        BY <1>5, <1>7, <1>8, <3>1
    <2>3. \A b \in unsent : b \in Batches /\ 1 <= b.next /\ b.next <= b.last /\ b.last <= z + 1
      <3>1. \A b \in unsent : b.last \in Nat /\ b.last <= z
        BY <1>2, <1>3 DEF StreamTypes, Batches
      <3> QED
        BY <1>2, <3>1 DEF StreamTypes
    <2>4. feed.seen <= z + 1 /\ feed.rx <= w + 1
      <3>1. feed.seen \in Nat /\ feed.rx \in Nat /\ feed.seen <= z /\ feed.rx <= w
        BY <1>2, <1>3, <1>4 DEF StreamTypes, FeedRecords
      <3> QED
        BY <3>1
    <2> QED
      BY <1>1, <1>2, <1>6, <1>7, <2>1, <2>2, <2>3, <2>4 DEF StreamTypes
  <1>10. InTurn'
    <2> SUFFICES ASSUME NEW i \in OfKind("message")'
                 PROVE  \E n \in DOMAIN bus' : bus'[n] = i /\ \A m \in DOMAIN bus' : m < n => bus'[m] < i
      BY DEF InTurn
    <2>1. CASE i \in DOMAIN log
      <3>1. i \in OfKind("message")
        BY <1>6, <2>1 DEF OfKind
      <3>2. PICK n \in DOMAIN bus : bus[n] = i /\ \A m \in DOMAIN bus : m < n => bus[m] < i
        BY <1>2, <3>1 DEF InTurn
      <3>3. n \in DOMAIN bus' /\ bus'[n] = i
        BY <1>4, <1>7, <3>2
      <3>4. ASSUME NEW m \in DOMAIN bus', m < n PROVE bus'[m] < i
        <4>1. m \in DOMAIN bus
          BY <1>4, <1>7, <3>4
        <4> QED
          BY <1>7, <3>2, <3>4, <4>1
      <3> QED
        BY <3>3, <3>4
    <2>2. CASE i \notin DOMAIN log
      <3>1. i = z + 1
        BY <1>3, <1>6, <2>2 DEF OfKind
      <3>2. w + 1 \in DOMAIN bus' /\ bus'[w + 1] = i
        BY <1>7, <3>1
      <3>3. ASSUME NEW m \in DOMAIN bus', m < w + 1 PROVE bus'[m] < i
        <4>1. m \in DOMAIN bus
          BY <1>8, <3>3
        <4> QED
          BY <1>3, <1>5, <1>7, <3>1, <4>1
      <3> QED
        BY <3>2, <3>3
    <2> QED
      BY <2>1, <2>2
  <1>11. Len(log) <= Len(log') /\ Len(bus) <= Len(bus')
    BY <1>3, <1>4, <1>6, <1>7
  <1> QED
    BY <1>1, <1>6, <1>7, <1>9, <1>10, <1>11, GrowSteps

LEMMA LateBatchFacts ==
    ASSUME NEW ks \in LateBatches
    PROVE  /\ ks \in Seq(EventKinds) /\ Len(ks) \in Nat /\ Len(ks) >= 1
           /\ \A i \in 1..Len(ks) : ks[i] \in LateKinds
  <1>1. PICK c \in 1..LateBatch : ks \in [1..c -> CommitKinds \cap LateKinds]
    BY DEF LateBatches
  <1>2. c \in Nat /\ c >= 1
    BY <1>1, StreamAssumption
  <1>3. ks = [i \in 1..c |-> ks[i]] /\ \A i \in 1..c : ks[i] \in LateKinds /\ ks[i] \in EventKinds
    BY <1>1, StreamAssumption
  <1>4. ks \in Seq(EventKinds)
    BY <1>2, <1>3, IsASeq
  <1>5. Len(ks) = c
    BY <1>2, <1>3, <1>4, LenProperties
  <1> QED
    BY <1>2, <1>3, <1>4, <1>5

(* A transaction whose events wait to be sent has no message among them.   *)
LEMMA CommitLateSteps ==
    ASSUME StreamInv, NEW ks \in LateBatches, CommitLate(ks)
    PROVE  StreamInv'
  <1>1. /\ log' = log \o ks /\ bus' = bus
        /\ unsent' = unsent \cup {[next |-> Len(log) + 1, last |-> Len(log) + Len(ks)]}
        /\ feed' = feed /\ pipe' = pipe /\ ui' = ui /\ load' = load
        /\ Len(log) + Len(ks) <= MaxEvents
    BY DEF CommitLate
  <1>2. StreamTypes /\ InTurn
    BY DEF StreamInv
  <1>3. PICK z \in Nat : z = Len(log) /\ DOMAIN log = 1..z
    BY <1>2, LogFacts
  <1>4. log \in Seq(EventKinds) /\ 1 <= z /\ log[1] = "other" /\ MaxEvents \in Nat
        /\ \A n \in DOMAIN bus : bus[n] \in DOMAIN log
    BY <1>2, <1>3, StreamAssumption DEF StreamTypes
  <1>5. PICK c \in Nat : /\ c >= 1 /\ ks \in Seq(EventKinds) /\ Len(ks) = c
                         /\ \A i \in 1..c : ks[i] \in LateKinds
    BY LateBatchFacts
  <1> HIDE DEF EventKinds
  <1>6. /\ log' \in Seq(EventKinds) /\ Len(log') = z + c /\ DOMAIN log' = 1..(z + c)
        /\ \A i \in 1..(z + c) : log'[i] = IF i <= z THEN log[i] ELSE ks[i - z]
    <2>1. /\ log' \in Seq(EventKinds) /\ Len(log') = z + c
          /\ \A i \in 1..(z + c) : log'[i] = IF i <= z THEN log[i] ELSE ks[i - z]
      BY <1>1, <1>3, <1>4, <1>5, ConcatProperties
    <2> QED
      BY <2>1, LenProperties
  <1>7. /\ \A i \in DOMAIN log : i \in DOMAIN log' /\ log'[i] = log[i]
        /\ \A i \in DOMAIN log' : i \notin DOMAIN log => log'[i] \in LateKinds
    <2>1. \A i \in 1..z : i \in 1..(z + c) /\ i <= z
      BY <1>5
    <2>2. \A i \in 1..(z + c) : i \notin 1..z => ~(i <= z) /\ i - z \in 1..c
      BY <1>5
    <2> QED
      BY <1>3, <1>5, <1>6, <2>1, <2>2
  <1>8. StreamTypes'
    <2>1. log'[1] = "other" /\ 1 <= Len(log') /\ Len(log') <= MaxEvents /\ z <= Len(log')
      BY <1>1, <1>3, <1>4, <1>5, <1>6, <1>7
    <2>2. \A n \in DOMAIN bus' : bus'[n] \in DOMAIN log'
      BY <1>1, <1>4, <1>7
    <2>3. ASSUME NEW b \in unsent' PROVE b \in Batches /\ 1 <= b.next /\ b.next <= b.last /\ b.last <= z + c
      <3>1. CASE b \in unsent
        <4>1. b \in Batches /\ 1 <= b.next /\ b.next <= b.last /\ b.last <= z /\ b.last \in Nat
          BY <1>2, <1>3, <3>1 DEF StreamTypes, Batches
        <4> QED
          BY <1>5, <4>1
      <3>2. CASE b = [next |-> z + 1, last |-> z + c]
        BY <1>5, <3>2 DEF Batches
      <3> QED
        BY <1>1, <1>3, <1>5, <2>3, <3>1, <3>2
    <2>4. feed.seen <= z + c
      <3>1. feed.seen \in Nat /\ feed.seen <= z
        BY <1>2, <1>3 DEF StreamTypes, FeedRecords
      <3> QED
        BY <1>5, <3>1
    <2> QED
      BY <1>1, <1>2, <1>6, <2>1, <2>2, <2>3, <2>4 DEF StreamTypes
  <1>9. InTurn'
    <2>1. \A i \in OfKind("message")' : i \in OfKind("message")
      BY <1>7 DEF OfKind, LateKinds
    <2> QED
      BY <1>1, <1>2, <2>1 DEF InTurn
  <1>10. Len(log) <= Len(log') /\ Len(bus) <= Len(bus')
    <2>1. Len(bus) \in Nat
      BY <1>2, BusFacts
    <2> QED
      BY <1>1, <1>3, <1>5, <1>6, <2>1
  <1> QED
    BY <1>1, <1>7, <1>8, <1>9, <1>10, GrowSteps

(* A late event is sent: messages keep their turn.                         *)
LEMMA PublishSteps ==
    ASSUME StreamInv, PublishLate
    PROVE  StreamInv'
  <1>1. /\ log' = log /\ feed' = feed /\ pipe' = pipe /\ ui' = ui /\ load' = load
    BY DEF PublishLate
  <1>2. StreamTypes /\ InTurn
    BY DEF StreamInv
  <1>3. PICK b \in unsent : /\ bus' = Append(bus, b.next)
                            /\ unsent' = (unsent \ {b}) \cup
                                  {c \in {[b EXCEPT !.next = @ + 1]} : c.next <= c.last}
    BY DEF PublishLate
  <1>4. PICK z \in Nat : z = Len(log) /\ DOMAIN log = 1..z
    BY <1>2, LogFacts
  <1>5. PICK w \in Nat : w = Len(bus) /\ DOMAIN bus = 1..w /\ bus \in Seq(Nat)
    BY <1>2, BusFacts DEF StreamTypes
  <1>6. /\ b \in Batches /\ b.next \in Nat /\ b.last \in Nat /\ 1 <= b.next /\ b.next <= b.last
        /\ b.last <= z /\ b.next \in DOMAIN log
    <2>1. b \in Batches /\ 1 <= b.next /\ b.next <= b.last /\ b.last <= z
      BY <1>2, <1>4 DEF StreamTypes
    <2>2. b.next \in Nat /\ b.last \in Nat
      BY <2>1 DEF Batches
    <2> QED
      BY <1>4, <2>1, <2>2
  <1>7. /\ bus' \in Seq(Nat) /\ Len(bus') = w + 1 /\ DOMAIN bus' = 1..(w + 1)
        /\ \A n \in DOMAIN bus : bus'[n] = bus[n]
        /\ bus'[w + 1] = b.next
    <2>1. /\ bus' \in Seq(Nat) /\ Len(bus') = w + 1
          /\ \A n \in 1..w : bus'[n] = bus[n]
          /\ bus'[w + 1] = b.next
      BY <1>3, <1>5, <1>6, AppendProperties
    <2> QED
      BY <1>5, <2>1, LenProperties
  <1>8. StreamTypes'
    <2>1. \A n \in DOMAIN bus' : bus'[n] \in DOMAIN log
      <3>1. \A n \in DOMAIN bus' : n \in DOMAIN bus \/ n = w + 1
        BY <1>5, <1>7
      <3>2. \A n \in DOMAIN bus : bus[n] \in DOMAIN log
        BY <1>2 DEF StreamTypes
      <3> QED
        BY <1>6, <1>7, <3>1, <3>2
    <2>2. ASSUME NEW c \in unsent' PROVE c \in Batches /\ 1 <= c.next /\ c.next <= c.last /\ c.last <= z
      <3>1. CASE c \in unsent
        BY <1>2, <1>4, <3>1 DEF StreamTypes
      <3>2. CASE c = [b EXCEPT !.next = @ + 1] /\ c.next <= c.last
        <4>1. c \in Batches /\ c.next = b.next + 1 /\ c.last = b.last
          BY <1>6, <3>2 DEF Batches
        <4> QED
          BY <1>6, <3>2, <4>1
      <3> QED
        BY <1>3, <2>2, <3>1, <3>2
    <2>3. feed.rx <= w + 1
      <3>1. feed.rx \in Nat /\ feed.rx <= w
        BY <1>2, <1>5 DEF StreamTypes, FeedRecords
      <3> QED
        BY <3>1
    <2> QED
      BY <1>1, <1>2, <1>4, <1>7, <2>1, <2>2, <2>3 DEF StreamTypes
  <1>9. InTurn'
    <2> SUFFICES ASSUME NEW i \in OfKind("message")
                 PROVE  \E n \in DOMAIN bus' : bus'[n] = i /\ \A m \in DOMAIN bus' : m < n => bus'[m] < i
      BY <1>1 DEF InTurn, OfKind
    <2>1. PICK n \in DOMAIN bus : bus[n] = i /\ \A m \in DOMAIN bus : m < n => bus[m] < i
      BY <1>2 DEF InTurn
    <2>2. n \in DOMAIN bus' /\ bus'[n] = i
      BY <1>5, <1>7, <2>1
    <2>3. ASSUME NEW m \in DOMAIN bus', m < n PROVE bus'[m] < i
      <3>1. m \in DOMAIN bus
        BY <1>5, <1>7, <2>3
      <3> QED
        BY <1>7, <2>1, <2>3, <3>1
    <2> QED
      BY <2>2, <2>3
  <1>10. Len(log) <= Len(log') /\ Len(bus) <= Len(bus') /\ \A i \in DOMAIN log : log'[i] = log[i]
    BY <1>1, <1>4, <1>5, <1>7
  <1> QED
    BY <1>1, <1>7, <1>8, <1>9, <1>10, GrowSteps

(* The request is answered: nothing is sent yet, nothing is missing yet.   *)
LEMMA SubscribeSteps ==
    ASSUME StreamInv, Subscribe
    PROVE  StreamInv'
  <1>1. StreamTypes /\ InTurn /\ UiOK /\ LoadOK /\ ConnectionOK /\ Gapless /\ FeedComplete
    BY DEF StreamInv
  <1>2. /\ log' = log /\ bus' = bus /\ unsent' = unsent /\ pipe' = pipe /\ ui' = ui /\ load' = load /\ feed.phase = "request"
        /\ feed' = [feed EXCEPT !.phase = "replay", !.rx = Len(bus)]
    BY DEF Subscribe
  <1>3. /\ feed' \in FeedRecords /\ feed'.phase = "replay" /\ feed'.seen = feed.seen
        /\ feed'.rx = Len(bus) /\ feed.seen \in Nat /\ feed.seen <= Len(log) /\ Len(log) \in Nat
        /\ ui.cursor \in Nat /\ Len(bus) \in Nat /\ Len(bus) <= Len(bus)
    <2>1. Len(log) \in Nat /\ Len(bus) \in Nat /\ Len(bus) <= Len(bus)
      BY <1>1, LogFacts, BusFacts
    <2>2. feed \in FeedRecords /\ feed.seen <= Len(log) /\ ui \in UiRecords
      BY <1>1 DEF StreamTypes
    <2> QED
      BY <1>2, <2>1, <2>2 DEF FeedRecords, UiRecords
  <1>4. pipe = <<>> /\ feed.seen <= ui.cursor /\ ui.stream = "open"
    BY <1>1, <1>2 DEF ConnectionOK
  <1>5. DOMAIN pipe = {}
    BY <1>4
  <1>6. StreamTypes'
    BY <1>1, <1>2, <1>3, TypesKept DEF StreamTypes
  <1>7. ConnectionOK' /\ Gapless'
    BY <1>2, <1>3, <1>4, <1>5, Zenon DEF ConnectionOK, Gapless
  <1>8. FeedComplete'
    <2>1. ASSUME NEW i \in Due(ui.cursor)', i <= feed.seen PROVE FALSE
      <3>1. i \in Nat /\ i > ui.cursor
        BY <1>1, <1>2, LogFacts DEF Due, OwnAfter
      <3> QED
        BY <1>3, <1>4, <2>1, <3>1
    <2> QED
      BY <1>2, <1>3, <1>5, <2>1 DEF FeedComplete
  <1> QED
    BY <1>1, <1>2, <1>6, <1>7, <1>8, UiKept, LoadKept, InTurnKept DEF StreamInv

(* The server sends the next events of the session, up to some point.      *)
LEMMA SendSteps ==
    ASSUME StreamInv, log' = log, bus' = bus, unsent' = unsent, ui' = ui, load' = load, NEW q \in Seq(Nat), pipe' = pipe \o q,
           feed.phase \in {"replay", "live"}, feed'.phase \in {"replay", "live"},
           feed' \in FeedRecords, feed'.rx <= Len(bus),
           feed.seen <= feed'.seen, feed'.seen <= Len(log),
           \A n \in DOMAIN q : q[n] \in OwnAfter(feed.seen) /\ q[n] <= feed'.seen,
           \A m, n \in DOMAIN q : m < n => q[m] < q[n],
           \A i \in Due(feed.seen) : i <= feed'.seen => \E n \in DOMAIN q : q[n] = i,
           \A n \in 1..feed'.rx :
              (Own(log[bus[n]]) /\ bus[n] > feed'.seen) => feed'.phase = "replay"
    PROVE  StreamInv'
  <1>1. StreamTypes /\ InTurn /\ UiOK /\ LoadOK /\ ConnectionOK /\ Gapless /\ FeedComplete
    BY DEF StreamInv
  <1>2. PICK s \in Nat : s = feed.seen
    BY <1>1 DEF StreamTypes, FeedRecords
  <1>3. PICK t \in Nat : t = feed'.seen
    BY DEF FeedRecords
  <1>4. PICK c \in Nat : c = ui.cursor
    BY <1>1, SMTT(40) DEF StreamTypes, UiRecords
  <1>5. PICK M \in Nat : M = Len(pipe)
    BY <1>1, PipeFacts
  <1>6. /\ pipe' \in Seq(Nat) /\ DOMAIN pipe = 1..M /\ DOMAIN q = 1..Len(q) /\ Len(q) \in Nat
        /\ DOMAIN pipe' = 1..(M + Len(q))
        /\ \A n \in 1..(M + Len(q)) : pipe'[n] = IF n <= M THEN pipe[n] ELSE q[n - M]
        /\ \A n \in DOMAIN pipe : pipe[n] \in Nat
        /\ \A n \in DOMAIN q : q[n] \in Nat
    <2>1. pipe \in Seq(Nat)
      BY <1>1 DEF StreamTypes
    <2>2. /\ pipe' \in Seq(Nat) /\ Len(pipe') = M + Len(q)
          /\ \A n \in 1..(M + Len(q)) : pipe'[n] = IF n <= M THEN pipe[n] ELSE q[n - M]
      BY <1>5, <2>1, ConcatProperties
    <2>3. DOMAIN pipe = 1..M /\ \A n \in DOMAIN pipe : pipe[n] \in Nat
      BY <1>1, <1>5, PipeFacts
    <2>4. DOMAIN q = 1..Len(q) /\ Len(q) \in Nat /\ \A n \in DOMAIN q : q[n] \in Nat
      BY LenProperties, ElementOfSeq
    <2>5. DOMAIN pipe' = 1..(M + Len(q))
      BY <2>2, LenProperties
    <2> QED
      BY <2>2, <2>3, <2>4, <2>5
  <1>7. /\ \A n \in DOMAIN pipe : n \in Nat /\ n <= M /\ n \in DOMAIN pipe' /\ pipe'[n] = pipe[n]
        /\ \A n \in DOMAIN q : n \in Nat /\ n >= 1 /\ M + n \in DOMAIN pipe' /\ pipe'[M + n] = q[n]
        /\ \A n \in DOMAIN pipe' : n \in DOMAIN pipe \/ \E k \in DOMAIN q : n = M + k
    <2>1. \A n \in DOMAIN pipe : n \in Nat /\ n <= M /\ n \in DOMAIN pipe' /\ pipe'[n] = pipe[n]
      BY <1>6
    <2>2. \A n \in DOMAIN q : n \in Nat /\ n >= 1 /\ M + n \in DOMAIN pipe' /\ pipe'[M + n] = q[n]
      <3> SUFFICES ASSUME NEW n \in 1..Len(q)
                   PROVE  n \in Nat /\ n >= 1 /\ M + n \in DOMAIN pipe' /\ pipe'[M + n] = q[n]
        BY <1>6
      <3>1. M + n \in 1..(M + Len(q)) /\ ~(M + n <= M) /\ (M + n) - M = n
        BY <1>6
      <3> QED
        BY <1>6, <3>1
    <2>3. ASSUME NEW n \in DOMAIN pipe', n \notin DOMAIN pipe
          PROVE  \E k \in DOMAIN q : n = M + k
      <3>1. n - M \in DOMAIN q /\ n = M + (n - M)
        BY <1>6, <2>3
      <3> QED
        BY <3>1
    <2> QED
      BY <2>1, <2>2, <2>3
  <1> DEFINE Own0 == OwnAfter(0)
             DueC == Due(c)
             DueS == Due(s)
             OwnS == OwnAfter(s)
  <1>8. /\ DueC \subseteq Nat /\ OwnS \subseteq Nat /\ OwnS \subseteq Own0
        /\ \A i \in DueC : i > c /\ (i > s => i \in DueS)
        /\ \A i \in OwnS : i > s
        /\ Due(ui.cursor)' = DueC /\ OwnAfter(0)' = Own0 /\ Due(ui.cursor) = DueC
        /\ OwnAfter(feed.seen) = OwnS /\ Due(feed.seen) = DueS
    <2>1. \A i \in DOMAIN log : i \in Nat
      BY <1>1, LogFacts
    <2>2. \A i \in Nat : i > s => i > 0
      OBVIOUS
    <2>3. OwnAfter(0)' = Own0 /\ Due(ui.cursor)' = DueC
      BY <1>4 DEF OwnAfter, Due, Overtaken
    <2>4. OwnS \subseteq Nat /\ OwnS \subseteq Own0 /\ \A i \in OwnS : i > s
      BY <2>1, <2>2 DEF OwnAfter
    <2>5. DueC \subseteq Nat /\ \A i \in DueC : i > c /\ (i > s => i \in DueS)
      BY <2>1 DEF Due, OwnAfter
    <2> QED
      BY <1>2, <1>4, <2>3, <2>4, <2>5
  <1> HIDE DEF Own0, DueC, DueS, OwnS
  <1>9. /\ \A n \in DOMAIN pipe : pipe[n] # Closed /\ pipe[n] <= s
        /\ \A n \in DOMAIN pipe : pipe[n] \in Own0
        /\ \A n \in DOMAIN pipe : \A j \in DueC : j < pipe[n] => \E m \in DOMAIN pipe : m < n /\ pipe[m] = j
        /\ \A m, n \in DOMAIN pipe : m < n => pipe[m] < pipe[n]
        /\ \A i \in DueC : i <= s => \E n \in DOMAIN pipe : pipe[n] = i
    <2>1. \A n \in DOMAIN pipe : pipe[n] # Closed /\ pipe[n] <= s
      BY <1>1, <1>2 DEF ConnectionOK
    <2> QED
      BY <1>1, <1>2, <1>8, <2>1 DEF Gapless, FeedComplete, Own0
  <1>10. /\ \A n \in DOMAIN q : q[n] \in OwnS /\ q[n] > s /\ q[n] <= t
         /\ \A i \in DueS : i <= t => \E n \in DOMAIN q : q[n] = i
    BY <1>2, <1>3, <1>8
  <1>11. StreamTypes'
    BY <1>1, <1>6, TypesKept DEF StreamTypes
  <1>12. ConnectionOK'
    <2>1. \A n \in DOMAIN pipe' : pipe'[n] # Closed /\ pipe'[n] <= t
      <3>1. \A n \in DOMAIN pipe : pipe'[n] # Closed /\ pipe'[n] <= t
        BY <1>2, <1>3, <1>6, <1>7, <1>9
      <3>2. \A n \in DOMAIN q : q[n] # Closed /\ q[n] <= t
        BY <1>6, <1>10 DEF Closed
      <3> QED
        BY <1>7, <3>1, <3>2, SMTT(40)
    <2>2. ui.stream = "open"
      BY <1>1 DEF ConnectionOK
    <2> QED
      BY <1>3, <2>1, <2>2 DEF ConnectionOK
  <1>13. Gapless'
    <2> SUFFICES ASSUME NEW n \in DOMAIN pipe'
                 PROVE  /\ pipe'[n] \in Own0
                        /\ \A j \in DueC : j < pipe'[n] => \E m \in DOMAIN pipe' : m < n /\ pipe'[m] = j
      BY <1>8, ZenonT(60) DEF Gapless
    <2>1. CASE n \in DOMAIN pipe
      BY <1>7, <1>9, <2>1
    <2>2. ASSUME NEW k \in DOMAIN q, n = M + k
          PROVE  /\ pipe'[n] \in Own0
                 /\ \A j \in DueC : j < pipe'[n] => \E m \in DOMAIN pipe' : m < n /\ pipe'[m] = j
      <3>1. pipe'[n] = q[k] /\ q[k] \in Own0 /\ q[k] \in Nat
        BY <1>6, <1>7, <1>8, <1>10, <2>2
      <3>2. ASSUME NEW j \in DueC, j < q[k], j <= s
            PROVE  \E m \in DOMAIN pipe' : m < n /\ pipe'[m] = j
        <4>1. PICK m \in DOMAIN pipe : pipe[m] = j
          BY <1>9, <3>2
        <4>2. m < n /\ m \in DOMAIN pipe' /\ pipe'[m] = j
          BY <1>7, <2>2, <4>1, SMTT(40)
        <4> QED
          BY <4>2
      <3>3. ASSUME NEW j \in DueC, j < q[k], ~(j <= s)
            PROVE  \E m \in DOMAIN pipe' : m < n /\ pipe'[m] = j
        <4>1. j \in Nat /\ j \in DueS /\ j <= t
          BY <1>6, <1>8, <1>10, <3>3
        <4>2. PICK m \in DOMAIN q : q[m] = j
          BY <1>10, <4>1
        <4>3. m \in Nat /\ k \in Nat /\ ~(k < m) /\ m # k
          <5>1. k < m => q[k] < q[m]
            OBVIOUS
          <5> QED
            <6>1. m \in Nat /\ k \in Nat /\ q[m] = j /\ q[k] \in Nat /\ j < q[k] /\ j \in Nat
              BY <1>6, <1>7, <3>3, <4>1, <4>2
            <6>2. q[m] # q[k] /\ ~(q[k] < q[m])
              BY <6>1
            <6> QED
              BY <5>1, <6>1, <6>2
        <4>4. M + m < n
          BY <2>2, <4>3
        <4> QED
          BY <1>7, <4>2, <4>4
      <3> QED
        BY <3>1, <3>2, <3>3
    <2> QED
      BY <1>7, <2>1, <2>2
  <1>14. FeedComplete'
    <2>1. ASSUME NEW i \in DueC, i <= t PROVE \E n \in DOMAIN pipe' : pipe'[n] = i
      <3>1. CASE i <= s
        BY <1>7, <1>9, <3>1
      <3>2. CASE ~(i <= s)
        <4>1. i \in DueS
          BY <1>8, <3>2
        <4>2. PICK n \in DOMAIN q : q[n] = i
          BY <1>10, <2>1, <4>1
        <4> QED
          BY <1>7, <4>2
      <3> QED
        BY <3>1, <3>2
    <2>2. ASSUME NEW m \in DOMAIN pipe', NEW n \in DOMAIN pipe', m < n PROVE pipe'[m] < pipe'[n]
      <3>1. CASE m \in DOMAIN pipe /\ n \in DOMAIN pipe
        BY <1>7, <1>9, <2>2, <3>1
      <3>2. ASSUME m \in DOMAIN pipe, NEW k \in DOMAIN q, n = M + k PROVE pipe'[m] < pipe'[n]
        <4>1. pipe'[m] \in Nat /\ pipe'[m] <= s /\ pipe'[n] \in Nat /\ pipe'[n] > s
          <5>1. pipe'[m] = pipe[m] /\ pipe[m] \in Nat /\ pipe[m] <= s
            BY <1>6, <1>7, <1>9, <3>2
          <5>2. pipe'[n] = q[k] /\ q[k] \in Nat /\ q[k] > s
            BY <1>6, <1>7, <1>10, <3>2
          <5> QED
            BY <5>1, <5>2
        <4>2. \A x, y, w \in Nat : x <= w /\ y > w => x < y
          OBVIOUS
        <4> QED
          BY <4>1, <4>2, Zenon
      <3>3. ASSUME NEW h \in DOMAIN q, m = M + h, NEW k \in DOMAIN q, n = M + k
            PROVE  pipe'[m] < pipe'[n]
        <4>1. h < k
          <5>1. h \in Nat /\ k \in Nat /\ M + h < M + k
            BY <1>7, <2>2, <3>3
          <5> QED
            BY <5>1
        <4> QED
          BY <1>7, <3>3, <4>1
      <3>4. ASSUME n \in DOMAIN pipe, NEW h \in DOMAIN q, m = M + h PROVE FALSE
        BY <1>7, <2>2, <3>4
      <3> QED
        BY <1>7, <3>1, <3>2, <3>3, <3>4
    <2>3. \A n \in 1..feed'.rx :
             (Own(log'[bus'[n]]) /\ bus'[n] > feed'.seen) => feed'.phase = "replay"
      OBVIOUS
    <2> QED
      BY <1>3, <1>8, <2>1, <2>2, <2>3 DEF FeedComplete, Own
  <1> QED
    BY <1>1, <1>11, <1>12, <1>13, <1>14, UiKept, LoadKept, InTurnKept DEF StreamInv

LEMMA ReplaySteps ==
    ASSUME StreamInv, Replay
    PROVE  StreamInv'
  <1>1. StreamTypes
    BY DEF StreamInv
  <1>2. PICK q \in InOrder(Page) : pipe' = pipe \o q
    BY DEF Replay
  <1> DEFINE p == IF Cardinality(Page) < ReplayPage THEN "live" ELSE feed.phase
  <1>3. /\ log' = log /\ bus' = bus /\ unsent' = unsent /\ ui' = ui /\ load' = load /\ feed.phase = "replay"
        /\ feed' = [feed EXCEPT !.seen = LastOf(Page, feed.seen), !.phase = p]
    BY DEF Replay
  <1>4. /\ Page \subseteq OwnAfter(feed.seen) /\ IsFiniteSet(Page) /\ Page \subseteq 1..Len(log)
        /\ \A i \in Page : \A j \in OwnAfter(feed.seen) : j < i => j \in Page
        /\ Cardinality(Page) < ReplayPage => Page = OwnAfter(feed.seen)
    BY <1>1, PageFacts
  <1>5. /\ q \in Seq(Nat) /\ \A n \in DOMAIN q : q[n] \in Page
        /\ \A m, n \in DOMAIN q : m < n => q[m] < q[n]
        /\ \A i \in Page : \E n \in DOMAIN q : q[n] = i
    <2>1. Page \subseteq Nat
      BY <1>1, <1>4, LogFacts
    <2> QED
      BY <1>4, <2>1, InOrderFacts
  <1>6. PICK t : t = LastOf(Page, feed.seen)
    OBVIOUS
  <1>7. /\ Len(log) \in Nat /\ feed.seen \in Nat /\ feed.seen <= Len(log)
        /\ \A i \in OwnAfter(feed.seen) : i \in 1..Len(log) /\ i > feed.seen
    BY <1>1, LogFacts DEF StreamTypes, FeedRecords, OwnAfter
  <1>8. /\ t \in Nat /\ feed.seen <= t /\ t <= Len(log)
        /\ \A i \in Page : i <= t
        /\ \A i \in OwnAfter(feed.seen) : i <= t => i \in Page
    <2>1. CASE Page = {}
      <3>1. t = feed.seen
        BY <1>6, <2>1 DEF LastOf
      <3> QED
        BY <1>7, <2>1, <3>1
    <2>2. CASE Page # {}
      <3>1. t \in Page /\ \A j \in Page : j <= t
        BY <1>4, <1>6, <1>7, <2>2, LastIn
      <3>2. t \in Nat /\ t \in 1..Len(log) /\ t > feed.seen
        BY <1>4, <1>7, <3>1
      <3>3. ASSUME NEW i \in OwnAfter(feed.seen), i <= t PROVE i \in Page
        <4>1. i = t \/ i < t
          BY <1>7, <3>2, <3>3
        <4> QED
          BY <1>4, <3>1, <4>1
      <3> QED
        BY <1>7, <3>1, <3>2, <3>3
    <2> QED
      BY <2>1, <2>2
  <1>9. /\ feed' \in FeedRecords /\ feed'.seen = t /\ feed'.rx = feed.rx /\ feed'.phase = p
        /\ feed.rx <= Len(bus)
    BY <1>1, <1>3, <1>6, <1>8 DEF StreamTypes, FeedRecords
  <1>10. ASSUME NEW n \in 1..feed.rx, Own(log[bus[n]]), bus[n] > t PROVE p = "replay"
    <2>1. n \in DOMAIN bus /\ bus[n] \in Nat /\ bus[n] \in DOMAIN log
      <3>1. feed.rx \in Nat /\ feed.rx <= Len(bus) /\ Len(bus) \in Nat /\ DOMAIN bus = 1..Len(bus)
        BY <1>1, BusFacts DEF StreamTypes, FeedRecords
      <3>2. n \in 1..Len(bus)
        BY <3>1
      <3> QED
        BY <1>1, <3>1, <3>2, BusFacts
    <2>2. bus[n] > feed.seen
      BY <1>7, <1>8, <1>10, <2>1
    <2>3. bus[n] \in OwnAfter(feed.seen) /\ bus[n] \notin Page
      BY <1>8, <1>10, <2>1, <2>2 DEF OwnAfter
    <2> QED
      BY <1>3, <1>4, <2>3
  <1>11. p \in {"replay", "live"}
    BY <1>3
  <1> HIDE DEF p
  <1>12. \A n \in DOMAIN q : q[n] \in OwnAfter(feed.seen) /\ q[n] <= feed'.seen
    BY <1>4, <1>5, <1>8, <1>9
  <1>13. \A i \in Due(feed.seen) : i <= feed'.seen => \E n \in DOMAIN q : q[n] = i
    BY <1>5, <1>8, <1>9 DEF Due
  <1>14. \A n \in 1..feed'.rx :
           (Own(log[bus[n]]) /\ bus[n] > feed'.seen) => feed'.phase = "replay"
    BY <1>9, <1>10
  <1> QED
    BY <1>2, <1>3, <1>5, <1>8, <1>9, <1>11, <1>12, <1>13, <1>14, SendSteps

(* From the channel: an event behind the replay is passed over, the next   *)
(* one is sent, and a receiver that lags replays.                          *)
LEMMA ReceiveSteps ==
    ASSUME StreamInv, Receive
    PROVE  StreamInv'
  <1>1. StreamTypes /\ FeedComplete
    BY DEF StreamInv
  <1>2. /\ log' = log /\ bus' = bus /\ unsent' = unsent /\ ui' = ui /\ load' = load
        /\ feed.phase = "live" /\ feed.rx < Len(bus)
    BY DEF Receive
  <1>3. /\ Len(log) \in Nat /\ feed.seen \in Nat /\ feed.seen <= Len(log) /\ feed.rx \in Nat
        /\ feed \in FeedRecords /\ pipe \in Seq(Nat) /\ BusCapacity \in Nat /\ Len(bus) \in Nat
        /\ DOMAIN bus = 1..Len(bus) /\ feed.seen <= feed.seen
        /\ \A n \in DOMAIN bus : bus[n] \in Nat /\ bus[n] \in DOMAIN log
        /\ \A i \in OwnAfter(feed.seen) : i \in Nat /\ i > feed.seen
        /\ \A i \in DOMAIN log : i <= Len(log)
    BY <1>1, LogFacts, BusFacts, StreamAssumption DEF StreamTypes, FeedRecords, OwnAfter
  <1>4. \A n \in 1..feed.rx : ~(Own(log[bus[n]]) /\ bus[n] > feed.seen)
    BY <1>1, <1>2 DEF FeedComplete
  <1>5. pipe \o <<>> = pipe /\ <<>> \in Seq(Nat) /\ DOMAIN <<>> = {}
    BY <1>3, ConcatEmptySeq, EmptySeq
  <1>5a. \A i \in Due(feed.seen) : ~(i <= feed.seen)
    BY <1>3 DEF Due
  <1>6. CASE Lagging
    <2>1. feed' = [feed EXCEPT !.phase = "replay", !.rx = Skipped] /\ pipe' = pipe
      BY <1>6 DEF Receive
    <2>2. Skipped \in Nat /\ Skipped <= Len(bus)
      BY <1>2, <1>3, <1>6 DEF Lagging, Skipped
    <2>3. feed' \in FeedRecords /\ feed'.phase = "replay" /\ feed'.seen = feed.seen /\ feed'.rx = Skipped
      BY <1>3, <2>1, <2>2 DEF FeedRecords
    <2> QED
      BY <1>2, <1>3, <1>5, <1>5a, <2>1, <2>2, <2>3, SendSteps
  <1>7. PICK r \in Nat : r = feed.rx + 1
    BY <1>3
  <1>8. PICK i : i = bus[r]
    OBVIOUS
  <1>9. ASSUME ~Lagging
        PROVE  /\ Skipped + 1 = r /\ bus[Skipped + 1] = i
               /\ r <= Len(bus) /\ r \in DOMAIN bus /\ i \in Nat /\ i \in DOMAIN log /\ i <= Len(log)
               /\ \A n \in 1..r : n \in 1..feed.rx \/ n = r
    <2>1. Skipped = feed.rx
      BY <1>9 DEF Lagging, Skipped
    <2>2. r <= Len(bus) /\ r \in 1..Len(bus) /\ \A n \in 1..r : n \in 1..feed.rx \/ n = r
      BY <1>2, <1>3, <1>7
    <2> QED
      BY <1>3, <1>7, <1>8, <2>1, <2>2
  <1>10. CASE ~Lagging /\ (~Own(log[i]) \/ i <= feed.seen)
    <2>1. feed' = [feed EXCEPT !.rx = r] /\ pipe' = pipe
      <3>1. ~(Own(log[i]) /\ i > feed.seen)
        BY <1>3, <1>9, <1>10
      <3> QED
        BY <1>9, <1>10, <3>1 DEF Receive
    <2>2. feed' \in FeedRecords /\ feed'.phase = "live" /\ feed'.seen = feed.seen /\ feed'.rx = r
      BY <1>2, <1>3, <1>9, <1>10, <2>1 DEF FeedRecords
    <2>3. \A n \in 1..r : ~(Own(log[bus[n]]) /\ bus[n] > feed.seen)
      <3>1. ~(Own(log[bus[r]]) /\ bus[r] > feed.seen)
        BY <1>3, <1>8, <1>9, <1>10
      <3> QED
        BY <1>4, <1>9, <1>10, <3>1
    <2> QED
      BY <1>2, <1>3, <1>5, <1>5a, <1>9, <1>10, <2>1, <2>2, <2>3, SendSteps
  <1>11. CASE ~Lagging /\ Own(log[i]) /\ i > feed.seen
    <2>1. feed' = [feed EXCEPT !.rx = r, !.seen = i] /\ pipe' = Append(pipe, i)
      <3>1. ~(~Own(log[i]) \/ i <= feed.seen)
        BY <1>3, <1>9, <1>11
      <3> QED
        BY <1>9, <1>11, <3>1 DEF Receive
    <2>2. feed' \in FeedRecords /\ feed'.phase = "live" /\ feed'.seen = i /\ feed'.rx = r
      BY <1>2, <1>3, <1>9, <1>11, <2>1 DEF FeedRecords
    <2>3. i \in OwnAfter(feed.seen) /\ i \in Nat /\ i <= i /\ feed.seen <= i /\ i <= Len(log)
      BY <1>3, <1>9, <1>11 DEF OwnAfter
    <2> DEFINE q == <<i>>
    <2>4. pipe' = pipe \o q
      BY <1>3, <2>1, <2>3, AppendIsConcat
    <2>5. q \in Seq(Nat) /\ DOMAIN q = {1} /\ q[1] = i
      BY <2>3
    <2> HIDE DEF q
    <2>6. \A n \in 1..r : ~(Own(log[bus[n]]) /\ bus[n] > i)
      <3> SUFFICES ASSUME NEW n \in 1..r, Own(log[bus[n]]), bus[n] > i PROVE FALSE
        OBVIOUS
      <3>1. n # r
        BY <1>8, <2>3
      <3>2. n \in 1..feed.rx /\ n \in DOMAIN bus
        BY <1>2, <1>3, <1>9, <1>11, <3>1
      <3>3. bus[n] \in Nat /\ bus[n] > feed.seen
        BY <1>3, <1>11, <2>3, <3>2
      <3> QED
        BY <1>4, <3>2, <3>3
    <2>7. \A j \in Due(feed.seen) : j <= i => j = i
      <3> SUFFICES ASSUME NEW j \in Due(feed.seen), j <= i, j # i PROVE FALSE
        OBVIOUS
      <3>1. j \in Nat /\ j > feed.seen /\ Own(log[j]) /\ ~Overtaken(j)
        BY <1>3 DEF Due, OwnAfter
      <3>2. i > j
        BY <2>3, <3>1
      <3>3. PICK n \in 1..r : bus[n] = j
        BY <1>8, <1>9, <1>11, <3>1, <3>2 DEF Overtaken
      <3>4. n \in 1..feed.rx
        BY <1>8, <1>9, <1>11, <3>3
      <3> QED
        BY <1>4, <3>1, <3>3, <3>4
    <2>8. \A n \in DOMAIN q : q[n] \in OwnAfter(feed.seen) /\ q[n] <= feed'.seen
      BY <2>2, <2>3, <2>5
    <2>9. \A m, n \in DOMAIN q : m < n => q[m] < q[n]
      BY <2>5
    <2>10. \A j \in Due(feed.seen) : j <= feed'.seen => \E n \in DOMAIN q : q[n] = j
      BY <2>2, <2>5, <2>7
    <2>11. feed'.phase \in {"replay", "live"} /\ feed.phase \in {"replay", "live"}
           /\ feed'.rx <= Len(bus) /\ feed'.seen <= Len(log) /\ feed.seen <= feed'.seen
      BY <1>2, <1>9, <1>11, <2>2, <2>3
    <2>12. \A n \in 1..feed'.rx : (Own(log[bus[n]]) /\ bus[n] > feed'.seen) => feed'.phase = "replay"
      BY <2>2, <2>6
    <2> QED
      BY <1>2, <2>2, <2>4, <2>5, <2>8, <2>9, <2>10, <2>11, <2>12, SendSteps
  <1> QED
    BY <1>6, <1>10, <1>11, <1>3, <1>9

(* The connection breaks: what is still delivered has no gap.              *)
LEMMA BreakSteps ==
    ASSUME StreamInv, Break
    PROVE  StreamInv'
  <1>1. StreamTypes /\ InTurn /\ UiOK /\ LoadOK /\ ConnectionOK /\ Gapless
    BY DEF StreamInv
  <1>2. /\ log' = log /\ bus' = bus /\ unsent' = unsent /\ ui' = ui /\ load' = load /\ feed.phase # "none"
        /\ feed' = [feed EXCEPT !.phase = "none"]
    BY DEF Break
  <1>3. PICK c \in 0..Len(pipe) : pipe' = Append(SubSeq(pipe, 1, c), Closed)
    BY DEF Break
  <1>4. /\ Len(pipe) \in Nat /\ DOMAIN pipe = 1..Len(pipe) /\ c \in Nat /\ c <= Len(pipe)
        /\ \A n \in DOMAIN pipe : pipe[n] \in Nat
    BY <1>1, <1>3, PipeFacts
  <1> DEFINE p == SubSeq(pipe, 1, c)
  <1>5. p \in Seq(Nat) /\ Len(p) = c /\ \A n \in 1..c : p[n] = pipe[n]
    <2>1. \A n \in 1..c : pipe[n] \in Nat
      BY <1>4
    <2>2. /\ p \in Seq(Nat) /\ Len(p) = IF 1 <= c THEN c - 1 + 1 ELSE 0
          /\ \A n \in 1..(c - 1 + 1) : p[n] = pipe[1 + n - 1]
      BY <1>4, <2>1, SubSeqProperties
    <2>3. c - 1 + 1 = c /\ \A n \in 1..c : 1 + n - 1 = n
      BY <1>4
    <2>4. Len(p) = c
      BY <1>4, <2>2
    <2>5. \A n \in 1..c : p[n] = pipe[n]
      BY <2>2, <2>3
    <2> QED
      BY <2>2, <2>4, <2>5
  <1> HIDE DEF p
  <1>6. pipe' = Append(p, Closed) /\ Closed \in Nat
    BY <1>3 DEF p, Closed
  <1>7. /\ pipe' \in Seq(Nat) /\ Len(pipe') = c + 1
        /\ \A n \in 1..c : pipe'[n] = p[n]
        /\ pipe'[c + 1] = Closed
    BY <1>5, <1>6, AppendProperties
  <1>8. DOMAIN pipe' = 1..(c + 1)
    BY <1>7, LenProperties
  <1>9. \A n \in DOMAIN pipe' : n \in Nat /\ (pipe'[n] # Closed =>
           n <= c /\ n \in DOMAIN pipe /\ pipe'[n] = pipe[n])
    <2> SUFFICES ASSUME NEW n \in 1..(c + 1), pipe'[n] # Closed
                 PROVE  n <= c /\ n \in DOMAIN pipe /\ pipe'[n] = pipe[n]
      BY <1>8
    <2>1. n # c + 1
      BY <1>7
    <2>2. n \in 1..c /\ n \in 1..Len(pipe)
      BY <1>4, <2>1
    <2> QED
      BY <1>4, <1>5, <1>7, <2>2
  <1>10. \A n \in DOMAIN pipe : n <= c => n \in DOMAIN pipe' /\ pipe'[n] = pipe[n]
    <2> SUFFICES ASSUME NEW n \in 1..Len(pipe), n <= c PROVE n \in DOMAIN pipe' /\ pipe'[n] = pipe[n]
      BY <1>4
    <2>1. n \in 1..c /\ n \in 1..(c + 1)
      BY <1>4
    <2> QED
      BY <1>5, <1>7, <1>8, <2>1
  <1>11. /\ feed' \in FeedRecords /\ feed'.phase = "none" /\ feed'.seen = feed.seen /\ feed'.rx = feed.rx
    BY <1>1, <1>2 DEF StreamTypes, FeedRecords
  <1>12. StreamTypes'
    BY <1>1, <1>2, <1>7, <1>11, TypesKept DEF StreamTypes
  <1>13. ConnectionOK' /\ FeedComplete'
    BY <1>1, <1>2, <1>11 DEF ConnectionOK, FeedComplete
  <1>14. Gapless'
    <2> SUFFICES ASSUME NEW n \in DOMAIN pipe', pipe'[n] # Closed
                 PROVE  /\ pipe'[n] \in OwnAfter(0)
                        /\ \A j \in Due(ui.cursor) :
                              j < pipe'[n] => \E m \in DOMAIN pipe' : m < n /\ pipe'[m] = j
      BY <1>2, DueKept DEF Gapless
    <2>1. n \in Nat /\ n <= c /\ n \in DOMAIN pipe /\ pipe'[n] = pipe[n]
      BY <1>9
    <2>2. ASSUME NEW j \in Due(ui.cursor), j < pipe'[n]
          PROVE  \E m \in DOMAIN pipe' : m < n /\ pipe'[m] = j
      <3>1. PICK m \in DOMAIN pipe : m < n /\ pipe[m] = j
        BY <1>1, <2>1, <2>2 DEF Gapless
      <3>2. m <= c
        BY <1>4, <2>1, <3>1
      <3> QED
        BY <1>10, <3>1, <3>2
    <2> QED
      BY <1>1, <2>1, <2>2 DEF Gapless
  <1> QED
    BY <1>1, <1>2, <1>12, <1>13, <1>14, UiKept, LoadKept, InTurnKept DEF StreamInv

(***************************************************************************)
(* The steps of the client                                                 *)
(***************************************************************************)

LEMMA ConnectSteps ==
    ASSUME StreamInv, OpenStream \/ RetryDue
    PROVE  StreamInv'
  <1>1. StreamTypes /\ InTurn /\ UiOK /\ LoadOK /\ ConnectionOK /\ Gapless /\ FeedComplete
    BY DEF StreamInv
  <1>2. log' = log /\ bus' = bus /\ unsent' = unsent /\ pipe' = pipe /\ load' = load /\ ui.stream # "open"
    BY DEF OpenStream, RetryDue
  <1>3. pipe = <<>> /\ feed.phase = "none" /\ DOMAIN pipe = {} /\ ui.cursor \in Nat
        /\ ui.cursor <= Len(log) /\ Len(log) \in Nat /\ Len(bus) \in Nat
    <2>1. /\ pipe = <<>> /\ feed.phase = "none" /\ ui.cursor \in Nat
          /\ Len(log) \in Nat /\ Len(bus) \in Nat
      BY <1>1, <1>2, LogFacts, BusFacts DEF ConnectionOK, StreamTypes, UiRecords
    <2>2. \A i \in OwnAfter(0) : i <= Len(log)
      BY <1>1, LogFacts
    <2>3. ui.cursor <= Len(log)
      BY <1>1, <2>1, <2>2 DEF UiOK
    <2> QED
      BY <2>1, <2>3
  <1>4. /\ ui' \in UiRecords /\ ui'.cursor = ui.cursor /\ ui'.messages = ui.messages
        /\ ui'.commands = ui.commands
    BY <1>1 DEF OpenStream, RetryDue, StreamTypes, UiRecords
  <1>5. CASE OpenStream
    <2>1. ui'.stream = "open" /\ feed' = [phase |-> "request", seen |-> ui.cursor, rx |-> 0]
      BY <1>1, <1>5 DEF OpenStream, StreamTypes, UiRecords
    <2>2. /\ feed' \in FeedRecords /\ feed'.phase = "request" /\ feed'.seen = ui.cursor /\ feed'.rx = 0
      BY <1>3, <2>1 DEF FeedRecords
    <2>3. feed'.rx <= Len(bus) /\ feed'.seen <= Len(log) /\ feed'.seen <= ui'.cursor
      BY <1>3, <1>4, <2>2
    <2>4. StreamTypes'
      BY <1>1, <1>2, <1>4, <2>2, <2>3, TypesKept DEF StreamTypes
    <2>5. ConnectionOK' /\ Gapless' /\ FeedComplete'
      BY <1>2, <1>3, <2>1, <2>2, <2>3 DEF ConnectionOK, Gapless, FeedComplete
    <2> QED
      BY <1>1, <1>2, <1>4, <2>4, <2>5, UiKept, LoadKept, InTurnKept DEF StreamInv
  <1>6. CASE RetryDue
    <2>1. feed' = feed
      BY <1>6 DEF RetryDue
    <2>2. StreamTypes'
      BY <1>1, <1>2, <1>4, <2>1, TypesKept DEF StreamTypes
    <2>3. ConnectionOK' /\ Gapless' /\ FeedComplete'
      BY <1>2, <1>3, <2>1 DEF ConnectionOK, Gapless, FeedComplete
    <2> QED
      BY <1>1, <1>2, <1>4, <2>2, <2>3, UiKept, LoadKept, InTurnKept DEF StreamInv
  <1> QED
    BY <1>5, <1>6

(* The client drops or applies the first frame: its cursor is not behind   *)
(* the frame then.                                                         *)
Moved(i) ==
    /\ ui' \in UiRecords /\ ui'.stream = ui.stream
    /\ ui.cursor <= ui'.cursor /\ i <= ui'.cursor
    /\ UiOK'

LEMMA AppliedFrame ==
    ASSUME StreamTypes, UiOK, log' = log, NEW i \in OwnAfter(0),
           ui' = IF Fresh(i) THEN Applied(i) ELSE ui
    PROVE  Moved(i)
  <1>1. i \in Nat /\ i \in DOMAIN log /\ log[i] \in EventKinds /\ ui \in UiRecords /\ ui.cursor \in Nat
        /\ ui.stream \in {"none", "open", "retry"}
    BY LogFacts DEF OwnAfter, StreamTypes, UiRecords
  <1>2. CASE ~Fresh(i)
    <2>1. ui' = ui
      BY <1>2
    <2>2. i <= ui.cursor /\ ui.cursor <= ui.cursor
      BY <1>1, <1>2 DEF Fresh
    <2> QED
      BY <1>1, <2>1, <2>2, UiKept DEF Moved
  <1>3. CASE Fresh(i)
    <2>1. ui' = Applied(i)
      BY <1>3
    <2>2. /\ ui' \in UiRecords /\ ui'.stream = ui.stream /\ ui'.cursor = i
          /\ ui'.messages \subseteq ui.messages \cup {j \in {i} : log[j] = "message"}
          /\ ui'.commands \subseteq ui.commands \cup {j \in {i} : log[j] = "command"}
      <3> DEFINE ms == IF log[i] = "message" THEN ui.messages \cup {i} ELSE ui.messages
                 cs == IF log[i] = "command" THEN ui.commands \cup {i} ELSE ui.commands
                 lv == CASE log[i] = "message" -> TRUE
                         [] log[i] = "finished" -> FALSE
                         [] OTHER -> ui.live
      <3>1. ui' = [ui EXCEPT !.cursor = i, !.messages = ms, !.commands = cs, !.live = lv]
        BY <2>1 DEF Applied
      <3>2. /\ ms \subseteq Nat /\ ms \subseteq ui.messages \cup {j \in {i} : log[j] = "message"}
            /\ cs \subseteq Nat /\ cs \subseteq ui.commands \cup {j \in {i} : log[j] = "command"}
        BY <1>1 DEF UiRecords
      <3>3. lv \in BOOLEAN
        BY <1>1 DEF UiRecords
      <3> HIDE DEF ms, cs, lv
      <3> QED
        BY <1>1, <3>1, <3>2, <3>3, ZenonT(60) DEF UiRecords
    <2>3. ui.cursor < i
      BY <1>1, <1>3 DEF Fresh
    <2>4. UiOK'
      <3>1. \A j \in MessagesUpTo(ui.cursor) : j \in OfKind("message") /\ j <= i
        <4>1. \A j \in OfKind("message") : j \in Nat
          BY LogFacts
        <4> QED
          BY <1>1, <2>3, <4>1 DEF MessagesUpTo
      <3>2. \A j \in ui'.messages : j \in OfKind("message") /\ j <= i
        BY <1>1, <2>2, <3>1 DEF UiOK, OfKind
      <3>3. ui'.commands \subseteq OfKind("command")
        BY <1>1, <2>2 DEF UiOK, OfKind
      <3> QED
        BY <2>2, <3>2, <3>3 DEF UiOK, MessagesUpTo, OfKind, OwnAfter
    <2>5. ui.cursor <= i /\ i <= i
      BY <1>1, <2>3
    <2> QED
      BY <2>2, <2>4, <2>5 DEF Moved
  <1> QED
    BY <1>2, <1>3

LEMMA ApplySteps ==
    ASSUME StreamInv, ApplyUpdate
    PROVE  StreamInv'
  <1>1. StreamTypes /\ InTurn /\ UiOK /\ LoadOK /\ ConnectionOK /\ Gapless /\ FeedComplete
    BY DEF StreamInv
  <1>2. log' = log /\ bus' = bus /\ unsent' = unsent /\ feed' = feed /\ load' = load /\ ui.stream = "open" /\ pipe # <<>>
    BY DEF ApplyUpdate
  <1>3. pipe \in Seq(Nat) /\ Len(pipe) \in Nat /\ Len(pipe) >= 1 /\ DOMAIN pipe = 1..Len(pipe)
        /\ 1 \in DOMAIN pipe /\ \A n \in DOMAIN pipe : pipe[n] \in Nat
    <2>1. pipe \in Seq(Nat) /\ Len(pipe) \in Nat \ {0}
      BY <1>1, <1>2, EmptySeq DEF StreamTypes
    <2> QED
      BY <1>1, <2>1, PipeFacts
  <1>4. Head(pipe) = pipe[1]
    BY <1>3
  <1>5. CASE Head(pipe) = Closed
    <2>1. ui' = [ui EXCEPT !.stream = "retry"] /\ pipe' = <<>>
      BY <1>5 DEF ApplyUpdate
    <2>2. /\ ui' \in UiRecords /\ ui'.stream = "retry" /\ ui'.cursor = ui.cursor
          /\ ui'.messages = ui.messages /\ ui'.commands = ui.commands
      BY <1>1, <2>1 DEF StreamTypes, UiRecords
    <2>3. feed.phase = "none"
      BY <1>1, <1>3, <1>4, <1>5 DEF ConnectionOK
    <2>4. DOMAIN pipe' = {} /\ pipe' \in Seq(Nat)
      BY <2>1, EmptySeq
    <2>5. StreamTypes'
      BY <1>1, <1>2, <2>2, <2>4, TypesKept DEF StreamTypes
    <2>6. ConnectionOK' /\ Gapless' /\ FeedComplete'
      BY <1>2, <2>1, <2>2, <2>3, <2>4 DEF ConnectionOK, Gapless, FeedComplete
    <2> QED
      BY <1>1, <1>2, <2>2, <2>5, <2>6, UiKept, LoadKept, InTurnKept DEF StreamInv
  <1>6. CASE Head(pipe) # Closed
    <2>1. PICK i : i = Head(pipe)
      OBVIOUS
    <2>2. ui' = (IF Fresh(i) THEN Applied(i) ELSE ui) /\ pipe' = Tail(pipe)
      BY <1>6, <2>1 DEF ApplyUpdate
    <2>3. i \in OwnAfter(0) /\ i = pipe[1] /\ i \in Nat
      BY <1>1, <1>3, <1>4, <1>6, <2>1 DEF Gapless
    <2>4. Moved(i)
      BY <1>1, <1>2, <2>2, <2>3, AppliedFrame
    <2>5. /\ ui' \in UiRecords /\ ui'.stream = "open" /\ ui.cursor <= ui'.cursor /\ i <= ui'.cursor
          /\ UiOK' /\ ui.cursor \in Nat /\ ui'.cursor \in Nat
      BY <1>1, <1>2, <2>4 DEF Moved, StreamTypes, UiRecords
    <2>6. /\ pipe' \in Seq(Nat) /\ DOMAIN pipe' = 1..(Len(pipe) - 1)
          /\ \A n \in 1..(Len(pipe) - 1) : pipe'[n] = pipe[n + 1]
      <3>1. /\ pipe' \in Seq(Nat) /\ Len(pipe') = Len(pipe) - 1
            /\ \A n \in 1..Len(pipe') : pipe'[n] = pipe[n + 1]
        BY <1>2, <1>3, <2>2, HeadTailProperties
      <3>2. DOMAIN pipe' = 1..Len(pipe')
        BY <3>1, LenProperties
      <3> QED
        BY <3>1, <3>2
    <2>7. /\ \A n \in DOMAIN pipe' : n \in Nat /\ n + 1 \in DOMAIN pipe /\ pipe'[n] = pipe[n + 1]
          /\ \A m \in DOMAIN pipe : m # 1 => m \in Nat /\ m - 1 \in DOMAIN pipe' /\ pipe'[m - 1] = pipe[m]
                                             /\ (m - 1) + 1 = m
      <3>1. \A n \in DOMAIN pipe' : n \in Nat /\ n + 1 \in DOMAIN pipe /\ pipe'[n] = pipe[n + 1]
        BY <1>3, <2>6, SMTT(40)
      <3>2. \A m \in 1..Len(pipe) : m # 1 => m \in Nat /\ m - 1 \in 1..(Len(pipe) - 1) /\ (m - 1) + 1 = m
        BY <1>3
      <3> QED
        BY <1>3, <2>6, <3>1, <3>2
    <2>8. \A j \in Due(ui.cursor)' : j \in Due(ui.cursor) /\ j \in Nat /\ j # i
      <3>1. \A j \in DOMAIN log : j \in Nat
        BY <1>1, LogFacts
      <3>2. \A j \in Nat : j > ui'.cursor => j > ui.cursor /\ j # i
        BY <2>3, <2>5
      <3> QED
        BY <1>2, <3>1, <3>2 DEF Due, OwnAfter, Overtaken
    <2>9. StreamTypes'
      BY <1>1, <1>2, <2>5, <2>6, TypesKept DEF StreamTypes
    <2>10. ConnectionOK'
      <3>1. feed.phase # "request"
        BY <1>1, <1>2 DEF ConnectionOK
      <3>2. feed.phase # "none" => \A n \in DOMAIN pipe' : pipe'[n] # Closed /\ pipe'[n] <= feed.seen
        BY <1>1, <2>7 DEF ConnectionOK
      <3> QED
        BY <1>2, <2>5, <3>1, <3>2 DEF ConnectionOK
    <2>11. Gapless'
      <3> SUFFICES ASSUME NEW n \in DOMAIN pipe', pipe'[n] # Closed
                   PROVE  /\ pipe'[n] \in OwnAfter(0)
                          /\ \A j \in Due(ui.cursor)' :
                                j < pipe'[n] => \E m \in DOMAIN pipe' : m < n /\ pipe'[m] = j
        BY <1>2, DueKept DEF Gapless
      <3>1. n \in Nat /\ n + 1 \in DOMAIN pipe /\ pipe'[n] = pipe[n + 1]
        BY <2>7
      <3>2. ASSUME NEW j \in Due(ui.cursor)', j < pipe'[n]
            PROVE  \E m \in DOMAIN pipe' : m < n /\ pipe'[m] = j
        <4>1. PICK m \in DOMAIN pipe : m < n + 1 /\ pipe[m] = j
          BY <1>1, <2>8, <3>1, <3>2 DEF Gapless
        <4>2. m # 1
          BY <2>3, <2>8, <4>1
        <4>3. m \in Nat /\ m - 1 \in DOMAIN pipe' /\ pipe'[m - 1] = j /\ m - 1 \in Nat
          BY <2>7, <4>1, <4>2
        <4>4. m - 1 < n
          BY <3>1, <4>1, <4>3
        <4> QED
          BY <4>3, <4>4
      <3> QED
        BY <1>1, <3>1, <3>2 DEF Gapless
    <2>12. FeedComplete'
      <3> SUFFICES ASSUME feed.phase \in {"replay", "live"}
                   PROVE  /\ \A j \in Due(ui.cursor)' :
                                j <= feed.seen => \E n \in DOMAIN pipe' : pipe'[n] = j
                          /\ \A m, n \in DOMAIN pipe' : m < n => pipe'[m] < pipe'[n]
                          /\ \A n \in 1..feed.rx :
                                (Own(log[bus[n]]) /\ bus[n] > feed.seen) => feed.phase = "replay"
        BY <1>2 DEF FeedComplete
      <3>1. ASSUME NEW j \in Due(ui.cursor)', j <= feed.seen
            PROVE  \E n \in DOMAIN pipe' : pipe'[n] = j
        <4>1. PICK m \in DOMAIN pipe : pipe[m] = j
          BY <1>1, <2>8, <3>1 DEF FeedComplete
        <4>2. m # 1
          BY <2>3, <2>8, <4>1
        <4> QED
          BY <2>7, <4>1, <4>2
      <3>2. ASSUME NEW m \in DOMAIN pipe', NEW n \in DOMAIN pipe', m < n PROVE pipe'[m] < pipe'[n]
        <4>1. m + 1 < n + 1
          BY <2>7, <3>2
        <4> QED
          BY <1>1, <2>7, <4>1 DEF FeedComplete
      <3> QED
        BY <1>1, <3>1, <3>2 DEF FeedComplete
    <2> QED
      BY <1>1, <1>2, <2>5, <2>9, <2>10, <2>11, <2>12, LoadKept, InTurnKept DEF StreamInv
  <1> QED
    BY <1>5, <1>6

(* A load that has just begun.                                             *)
LEMMA NewLoad ==
    ASSUME NEW by \in {"loop", "command"}, NEW full \in BOOLEAN, NEW l,
           l = [NoLoad EXCEPT !.by = by, !.full = full]
    PROVE  l \in LoadRecords /\ l.last = 0 /\ l.messages = NotYet /\ l.commands = NotYet
  <1>1. /\ NoLoad \in LoadRecords /\ NoLoad.last = 0
        /\ NoLoad.messages = NotYet /\ NoLoad.commands = NotYet
    BY DEF NoLoad, NotYet, LoadRecords
  <1> QED
    BY <1>1 DEF LoadRecords

(* A page is asked for and answered beside the stream.                     *)
LEMMA PageSteps ==
    ASSUME StreamInv,
           \/ \E by \in {"loop", "command"} : StartRefresh(by)
           \/ FetchMessages \/ FetchCommands
    PROVE  StreamInv'
  <1>1. StreamTypes /\ InTurn /\ UiOK /\ LoadOK /\ ConnectionOK /\ Gapless /\ FeedComplete
    BY DEF StreamInv
  <1>2. log' = log /\ bus' = bus /\ unsent' = unsent /\ feed' = feed /\ pipe' = pipe /\ ui' = ui
    BY DEF StartRefresh, FetchMessages, FetchCommands
  <1>3. load' \in LoadRecords /\ LoadOK'
    <2>1. ASSUME NEW by \in {"loop", "command"}, StartRefresh(by) PROVE load' \in LoadRecords /\ LoadOK'
      <3>1. PICK full \in BOOLEAN : full = (ui.messages = {} /\ ui.commands = {})
        BY Zenon
      <3>2. load' = [NoLoad EXCEPT !.by = by, !.full = full]
        BY <2>1, <3>1, Zenon DEF StartRefresh
      <3>3. load' \in LoadRecords /\ load'.last = 0 /\ load'.messages = NotYet /\ load'.commands = NotYet
        BY <3>2, NewLoad
      <3> QED
        BY <3>3 DEF LoadOK
    <2>2. ASSUME FetchMessages PROVE load' \in LoadRecords /\ LoadOK'
      <3>1. PICK last : last = LastOwn
        OBVIOUS
      <3>2. PICK R : R = Rows("message")
        OBVIOUS
      <3>3. load' = [load EXCEPT !.messages = R, !.last = last]
        BY <2>2, <3>1, <3>2 DEF FetchMessages
      <3>4. last \in OwnAfter(0) /\ last \in Nat /\ \A i \in OwnAfter(0) : i <= last
        <4>1. /\ Len(log) \in Nat /\ OwnAfter(0) \subseteq 1..Len(log) /\ OwnAfter(0) # {}
          BY <1>1, LogFacts
        <4>2. last \in OwnAfter(0) /\ \A i \in OwnAfter(0) : i <= last
          BY <3>1, <4>1, LastIn DEF LastOwn
        <4> QED
          BY <4>1, <4>2
      <3>5. OfKind("message") \subseteq OwnAfter(0) /\ OfKind("message") \subseteq Nat
        <4>1. OfKind("message") \subseteq 1..Len(log) /\ DOMAIN log = 1..Len(log)
          BY <1>1, LogFacts
        <4> QED
          BY <4>1 DEF OfKind, OwnAfter, Own
      <3>6. MessagesUpTo(last) = OfKind("message")
        BY <3>4, <3>5 DEF MessagesUpTo
      <3>7. /\ R \subseteq OfKind("message")
            /\ \A i \in OfKind("message") : i \notin R =>
                  ~(Cardinality({j \in OfKind("message") : j > i}) < Window)
        BY <3>2 DEF Rows, NewestRows
      <3>8. load' \in LoadRecords /\ load'.last = last /\ load'.messages = R /\ load'.commands = load.commands
        BY <1>1, <3>3, <3>4, <3>5, <3>7 DEF StreamTypes, LoadRecords
      <3>9. {0} # {} /\ MessagesUpTo(load.last)' = OfKind("message") /\ OwnAfter(0)' = OwnAfter(0)
            /\ OfKind("command")' = OfKind("command")
        BY <1>2, <3>6, <3>8 DEF MessagesUpTo, OfKind, OwnAfter
      <3> QED
        BY <1>1, <3>4, <3>7, <3>8, <3>9 DEF LoadOK
    <2>3. ASSUME FetchCommands PROVE load' \in LoadRecords /\ LoadOK'
      <3>1. PICK R : R = Rows("command")
        OBVIOUS
      <3>2. load' = [load EXCEPT !.commands = R]
        BY <2>3, <3>1 DEF FetchCommands
      <3>3. R \subseteq OfKind("command") /\ OfKind("command") \subseteq Nat
        BY <1>1, <3>1, LogFacts DEF Rows, NewestRows
      <3>4. load' \in LoadRecords /\ load'.last = load.last /\ load'.messages = load.messages
            /\ load'.commands = R
        BY <1>1, <3>2, <3>3 DEF StreamTypes, LoadRecords
      <3>5. MessagesUpTo(load.last)' = MessagesUpTo(load.last) /\ OwnAfter(0)' = OwnAfter(0)
            /\ OfKind("command")' = OfKind("command")
        BY <1>2, <3>4 DEF MessagesUpTo, OfKind, OwnAfter
      <3> QED
        BY <1>1, <3>3, <3>4, <3>5 DEF LoadOK
    <2> QED
      BY <2>1, <2>2, <2>3
  <1>4. StreamTypes'
    BY <1>1, <1>2, <1>3, TypesKept DEF StreamTypes
  <1>5. ConnectionOK' /\ Gapless' /\ FeedComplete'
    BY <1>1, <1>2 DEF ConnectionOK, Gapless, FeedComplete, OwnAfter, Due, Overtaken
  <1> QED
    BY <1>1, <1>2, <1>3, <1>4, <1>5, UiKept, InTurnKept DEF StreamInv

(* What the merge of a page does to the client.                            *)
LEMMA MergedPage ==
    ASSUME StreamTypes, UiOK, LoadOK, MergePage
    PROVE  /\ ui' \in UiRecords /\ ui'.stream = ui.stream
           /\ ui'.messages = ui.messages \cup load.messages
           /\ ui'.cursor = (IF load.last > ui.cursor THEN load.last ELSE ui.cursor)
           /\ ui.cursor <= ui'.cursor
           /\ UiOK'
  <1>1. /\ log' = log /\ load.messages # NotYet /\ load.commands # NotYet
        /\ ui' = [ui EXCEPT !.messages = @ \cup load.messages,
                            !.commands = @ \cup load.commands,
                            !.cursor = PageCursor(@, load.last)]
    BY DEF MergePage
  <1>2. ui \in UiRecords /\ load \in LoadRecords /\ ui.cursor \in Nat /\ load.last \in Nat
    BY DEF StreamTypes, UiRecords, LoadRecords
  <1>3. PICK c : c = PageCursor(ui.cursor, load.last)
    OBVIOUS
  <1>4. /\ c = (IF load.last > ui.cursor THEN load.last ELSE ui.cursor)
        /\ c \in Nat /\ ui.cursor <= c /\ load.last <= c
    BY <1>2, <1>3 DEF PageCursor
  <1>5. /\ ui' \in UiRecords /\ ui'.stream = ui.stream /\ ui'.cursor = c
        /\ ui'.messages = ui.messages \cup load.messages
        /\ ui'.commands = ui.commands \cup load.commands
    BY <1>1, <1>2, <1>3, <1>4 DEF UiRecords, LoadRecords
  <1>6. c \in {0} \cup OwnAfter(0)
    BY <1>4 DEF UiOK, LoadOK
  <1>7. ui'.messages \subseteq MessagesUpTo(c)
    <2>1. OfKind("message") \subseteq Nat
      BY LogFacts
    <2>2. MessagesUpTo(ui.cursor) \subseteq MessagesUpTo(c) /\ MessagesUpTo(load.last) \subseteq MessagesUpTo(c)
      BY <1>2, <1>4, <2>1 DEF MessagesUpTo
    <2> QED
      BY <1>1, <1>5, <2>2 DEF UiOK, LoadOK
  <1>8. ui'.commands \subseteq OfKind("command")
    BY <1>1, <1>5 DEF UiOK, LoadOK
  <1>9. UiOK'
    BY <1>1, <1>5, <1>6, <1>7, <1>8 DEF UiOK, MessagesUpTo, OfKind, OwnAfter
  <1> QED
    BY <1>4, <1>5, <1>9

LEMMA MergeSteps ==
    ASSUME StreamInv, MergePage
    PROVE  StreamInv'
  <1>1. StreamTypes /\ InTurn /\ UiOK /\ LoadOK /\ ConnectionOK /\ Gapless /\ FeedComplete
    BY DEF StreamInv
  <1>2. log' = log /\ bus' = bus /\ unsent' = unsent /\ feed' = feed /\ pipe' = pipe /\ load' = NoLoad
    BY DEF MergePage
  <1>3. ui' \in UiRecords /\ ui'.stream = ui.stream /\ ui.cursor <= ui'.cursor /\ UiOK'
    BY <1>1, MergedPage
  <1>4. load' \in LoadRecords /\ LoadOK'
    BY <1>2 DEF NoLoad, NotYet, LoadRecords, LoadOK
  <1>5. StreamTypes'
    BY <1>1, <1>2, <1>3, <1>4, TypesKept DEF StreamTypes
  <1>6. \A j \in Due(ui.cursor)' : j \in Due(ui.cursor)
    <2>1. ui.cursor \in Nat /\ ui'.cursor \in Nat /\ \A j \in DOMAIN log : j \in Nat
      BY <1>1, <1>3, LogFacts DEF StreamTypes, UiRecords
    <2>2. \A j \in Nat : j > ui'.cursor => j > ui.cursor
      BY <1>3, <2>1
    <2> QED
      BY <1>2, <2>1, <2>2 DEF Due, OwnAfter, Overtaken
  <1>7. ConnectionOK'
    <2>1. ui.cursor \in Nat /\ ui'.cursor \in Nat /\ feed.seen \in Nat
      BY <1>1, <1>3 DEF StreamTypes, UiRecords, FeedRecords
    <2>2. feed.seen <= ui.cursor => feed.seen <= ui'.cursor
      BY <1>3, <2>1
    <2> QED
      BY <1>1, <1>2, <1>3, <2>2 DEF ConnectionOK
  <1>8. Gapless'
    <2>1. OwnAfter(0)' = OwnAfter(0)
      BY <1>2 DEF OwnAfter
    <2> QED
      BY <1>1, <1>2, <1>6, <2>1 DEF Gapless
  <1>9. FeedComplete'
    BY <1>1, <1>2, <1>6 DEF FeedComplete
  <1> QED
    BY <1>1, <1>2, <1>3, <1>4, <1>5, <1>7, <1>8, <1>9, InTurnKept DEF StreamInv

(***************************************************************************)
(* The theorems                                                            *)
(***************************************************************************)

LEMMA StreamInitially == StreamInit => StreamInv
  <1> SUFFICES ASSUME StreamInit PROVE StreamInv
    OBVIOUS
  <1>1. /\ log = <<"other">> /\ bus = <<1>> /\ unsent = {} /\ pipe = <<>> /\ DOMAIN pipe = {}
        /\ feed = [phase |-> "none", seen |-> 0, rx |-> 0]
        /\ ui = [cursor |-> 0, messages |-> {}, commands |-> {}, live |-> FALSE, stream |-> "none"]
    BY DEF StreamInit
  <1>1a. load \in LoadRecords /\ load.last = 0 /\ load.messages = NotYet /\ load.commands = NotYet
    <2>1. PICK full \in BOOLEAN : full = TRUE
      BY Zenon
    <2>2. load = [NoLoad EXCEPT !.by = "loop", !.full = full]
      BY <2>1, Zenon DEF StreamInit
    <2> QED
      BY <2>2, NewLoad
  <1>2. StreamTypes
    <2>1. log \in Seq(EventKinds) /\ Len(log) = 1 /\ log[1] = "other" /\ 1 <= MaxEvents
      BY <1>1, StreamAssumption DEF EventKinds
    <2>2. feed \in FeedRecords /\ feed.seen = 0 /\ feed.rx = 0 /\ ui \in UiRecords
      BY <1>1 DEF FeedRecords, UiRecords
    <2>3. pipe \in Seq(Nat)
      BY <1>1, EmptySeq
    <2>4. bus \in Seq(Nat) /\ (\A n \in DOMAIN bus : bus[n] \in DOMAIN log) /\ 0 <= Len(bus)
      BY <1>1
    <2> QED
      BY <1>1, <1>1a, <2>1, <2>2, <2>3, <2>4 DEF StreamTypes
  <1>3. UiOK /\ LoadOK
    BY <1>1, <1>1a DEF UiOK, LoadOK
  <1>4. ConnectionOK /\ Gapless /\ FeedComplete
    BY <1>1 DEF ConnectionOK, Gapless, FeedComplete
  <1>5. InTurn
    BY <1>1 DEF InTurn, OfKind
  <1> QED
    BY <1>2, <1>3, <1>4, <1>5 DEF StreamInv

LEMMA StreamStuttering ==
    ASSUME StreamInv, UNCHANGED svars
    PROVE  StreamInv'
  BY DEF StreamInv, svars, StreamTypes, InTurn, UiOK, LoadOK, ConnectionOK, Gapless, FeedComplete,
         MessagesUpTo, OwnAfter, OfKind, Due, Overtaken

LEMMA StreamSteps == StreamInv /\ [StreamNext]_svars => StreamInv'
  BY CommitSteps, CommitLateSteps, PublishSteps, SubscribeSteps, ReplaySteps, ReceiveSteps, BreakSteps, ConnectSteps, ApplySteps,
     PageSteps, MergeSteps, StreamStuttering DEF StreamNext

LEMMA StreamInvariant == StreamSpec => []StreamInv
  BY StreamInitially, StreamSteps, PTL DEF StreamSpec

(***************************************************************************)
(* Between the client's cursor and what the server has sent, every event   *)
(* of the session that no later one overtook on the channel is on its way, *)
(* once and in order, across the seam of replay and live events, late      *)
(* publication, lag and reconnection (stream_session_events).              *)
(***************************************************************************)
THEOREM StreamFeedExact == StreamSpec => []FeedExact
  <1>1. StreamInv => FeedExact
    <2> SUFFICES ASSUME StreamInv PROVE FeedExact
      OBVIOUS
    <2>1. StreamTypes /\ UiOK /\ Gapless /\ FeedComplete
      BY DEF StreamInv
    <2>2. /\ Len(log) \in Nat /\ Len(log) <= MaxEvents /\ MaxEvents \in Nat
          /\ OwnAfter(0) \subseteq 1..Len(log)
      BY <2>1, LogFacts, StreamAssumption DEF StreamTypes
    <2>3. feed.seen \in 0..MaxEvents /\ feed.rx \in 0..Len(bus)
      BY <2>1, <2>2, BusFacts DEF StreamTypes, FeedRecords
    <2>3a. /\ \A n \in DOMAIN bus : bus[n] \in DOMAIN log
           /\ \A b \in unsent : b.next \in DOMAIN log /\ b.last \in DOMAIN log
      <3>1. DOMAIN log = 1..Len(log)
        BY <2>1, LogFacts
      <3>2. ASSUME NEW b \in unsent PROVE b.next \in 1..Len(log) /\ b.last \in 1..Len(log)
        <4>1. b \in Batches /\ 1 <= b.next /\ b.next <= b.last /\ b.last <= Len(log)
          BY <2>1 DEF StreamTypes
        <4>2. b.next \in Nat /\ b.last \in Nat
          BY <4>1 DEF Batches
        <4> QED
          BY <2>2, <4>1, <4>2
      <3> QED
        BY <2>1, <3>1, <3>2 DEF StreamTypes
    <2>4. \A i \in DOMAIN pipe : pipe[i] \in Seqs \cup {Closed}
      BY <2>1, <2>2 DEF Gapless, Seqs
    <2>5. ui.cursor \in 0..Len(log)
      BY <2>1, <2>2 DEF UiOK
    <2>6. ui.messages \subseteq OfKind("message") /\ ui.commands \subseteq OfKind("command")
      BY <2>1 DEF UiOK, MessagesUpTo
    <2>7. /\ log \in Seq(EventKinds) /\ feed.phase \in {"none", "request", "replay", "live"}
          /\ ui.stream \in {"none", "open", "retry"} /\ ui.live \in BOOLEAN
          /\ load.by \in {"none", "loop", "command"}
      BY <2>1 DEF StreamTypes, FeedRecords, UiRecords, LoadRecords
    <2> QED
      BY <2>1, <2>3, <2>3a, <2>4, <2>5, <2>6, <2>7 DEF FeedExact, StreamTypeOK
  <1> QED
    BY <1>1, StreamInvariant, PTL

(***************************************************************************)
(* The refinement of LiveTranscript                                        *)
(***************************************************************************)

LEMMA LiveLast ==
    ASSUME StreamTypes
    PROVE  Live!LastOwn \in Nat /\ \A i \in OwnAfter(0) : i <= Live!LastOwn
  <1>1. /\ Len(log) \in Nat /\ OwnAfter(0) \subseteq 1..Len(log) /\ OwnAfter(0) # {}
        /\ DOMAIN log = 1..Len(log)
    BY LogFacts
  <1>2. {i \in DOMAIN log : Live!Own(log[i])} = OwnAfter(0)
    BY <1>1 DEF OwnAfter, Own, Live!Own
  <1>3. Live!LastOwn = LastOf(OwnAfter(0), 0)
    BY <1>1, <1>2 DEF Live!LastOwn, LastOf
  <1>4. LastOf(OwnAfter(0), 0) \in OwnAfter(0) /\ \A i \in OwnAfter(0) : i <= LastOf(OwnAfter(0), 0)
    BY <1>1, LastIn
  <1> QED
    BY <1>1, <1>3, <1>4

(* A client that moves on, and shows the newest of what it passes.         *)
LEMMA Advances ==
    ASSUME StreamTypes, UiOK, UiOK', log' = log, ui' \in UiRecords,
           ui.cursor <= ui'.cursor, ui.messages \subseteq ui'.messages,
           NEW n, n = ui'.cursor,
           Live!Newest(Live!MessagesIn(ui.cursor + 1, n), Window) \subseteq ui'.messages
    PROVE  [Live!Grow \/ Live!Advance]_<<log, ui.cursor, ui.messages>>
  <1>1. n \in Nat /\ ui.cursor \in Nat /\ ui.cursor <= n
    BY DEF StreamTypes, UiRecords
  <1>2. n \in ui.cursor..Live!LastOwn
    <2>1. n \in {0} \cup OwnAfter(0)
      BY DEF UiOK, OwnAfter
    <2>2. n <= Live!LastOwn /\ Live!LastOwn \in Nat
      BY <1>1, <2>1, LiveLast
    <2> QED
      BY <1>1, <2>2
  <1>3. ui'.messages \in SUBSET Live!MessagesIn(1, n)
    <2>1. \A i \in ui'.messages : i \in DOMAIN log /\ log[i] = "message" /\ i <= n
      BY DEF UiOK, MessagesUpTo, OfKind
    <2>2. \A i \in DOMAIN log : i \in Nat /\ i >= 1
      BY LogFacts
    <2> QED
      BY <1>1, <2>1, <2>2 DEF Live!MessagesIn
  <1>4. CASE <<ui.cursor, ui.messages>>' = <<ui.cursor, ui.messages>>
    BY <1>4
  <1>5. CASE <<ui.cursor, ui.messages>>' # <<ui.cursor, ui.messages>>
    <2>1. /\ ui'.cursor = n
          /\ ui'.messages \in SUBSET Live!MessagesIn(1, n)
          /\ ui.messages \cup Live!Newest(Live!MessagesIn(ui.cursor + 1, n), Window) \subseteq ui'.messages
      BY <1>3
    <2> QED
      BY <1>2, <1>5, <2>1 DEF Live!Advance
  <1> QED
    BY <1>4, <1>5

(* No message was overtaken.                                               *)
LEMMA MessagesInTurn ==
    ASSUME StreamTypes, InTurn, NEW i \in OfKind("message")
    PROVE  ~Overtaken(i)
  <1> SUFFICES ASSUME Overtaken(i) PROVE FALSE
    OBVIOUS
  <1>1. PICK n \in DOMAIN bus : bus[n] = i /\ \A m \in DOMAIN bus : m < n => bus[m] < i
    BY DEF InTurn
  <1>2. PICK m \in DOMAIN bus : bus[m] > i /\ \A k \in 1..m : bus[k] # i
    BY DEF Overtaken
  <1>3. m \in Nat /\ n \in Nat /\ n >= 1 /\ bus[m] \in Nat /\ i \in Nat
    BY <1>1, BusFacts
  <1>4. m < n
    BY <1>1, <1>2, <1>3
  <1> QED
    BY <1>1, <1>2, <1>3, <1>4

(* A frame: nothing but overtaken events lies between the cursor and it.   *)
LEMMA LiveApply ==
    ASSUME StreamInv, ApplyUpdate
    PROVE  [Live!Grow \/ Live!Advance]_<<log, ui.cursor, ui.messages>>
  <1>1. StreamTypes /\ InTurn /\ UiOK /\ Gapless
    BY DEF StreamInv
  <1>2. log' = log /\ pipe # <<>>
    BY DEF ApplyUpdate
  <1>3. CASE Head(pipe) = Closed
    BY <1>1, <1>2, <1>3 DEF ApplyUpdate, StreamTypes, UiRecords
  <1>4. CASE Head(pipe) # Closed
    <2>1. PICK i : i = Head(pipe)
      OBVIOUS
    <2>2. ui' = IF Fresh(i) THEN Applied(i) ELSE ui
      BY <1>4, <2>1 DEF ApplyUpdate
    <2>3. CASE ~Fresh(i)
      BY <1>2, <2>2, <2>3
    <2>4. CASE Fresh(i)
      <3>1. 1 \in DOMAIN pipe /\ pipe[1] = i /\ \A m \in DOMAIN pipe : ~(m < 1)
        <4>1. pipe \in Seq(Nat) /\ Len(pipe) \in Nat \ {0} /\ DOMAIN pipe = 1..Len(pipe)
          BY <1>1, <1>2, EmptySeq, PipeFacts DEF StreamTypes
        <4> QED
          BY <2>1, <4>1
      <3>2. i \in OwnAfter(0) /\ \A j \in Due(ui.cursor) : ~(j < i)
        BY <1>1, <1>4, <2>1, <3>1 DEF Gapless
      <3>3. Moved(i)
        BY <1>1, <1>2, <2>2, <3>2, AppliedFrame
      <3>4. /\ i \in Nat /\ i \in DOMAIN log /\ ui.cursor \in Nat /\ ui.cursor < i
            /\ \A j \in DOMAIN log : j \in Nat
        BY <1>1, <2>4, <3>2, LogFacts DEF OwnAfter, StreamTypes, UiRecords, Fresh
      <3>5. /\ ui'.cursor = i
            /\ ui'.messages = IF log[i] = "message" THEN ui.messages \cup {i} ELSE ui.messages
        BY <1>1, <2>2, <2>4 DEF Applied, StreamTypes, UiRecords
      <3>6. Live!Newest(Live!MessagesIn(ui.cursor + 1, i), Window) \subseteq ui'.messages
        <4>1. ASSUME NEW j \in Live!MessagesIn(ui.cursor + 1, i) PROVE j \in ui'.messages
          <5>1. j \in (ui.cursor + 1)..i /\ log[j] = "message"
            BY <4>1 DEF Live!MessagesIn
          <5>2. j \in DOMAIN log
            <6>1. DOMAIN log = 1..Len(log) /\ Len(log) \in Nat
              BY <1>1, LogFacts
            <6> QED
              BY <3>4, <5>1, <6>1
          <5>3. j \in Due(ui.cursor)
            <6>1. j \in OfKind("message")
              BY <5>1, <5>2 DEF OfKind
            <6>2. ~Overtaken(j)
              BY <1>1, <6>1, MessagesInTurn
            <6> QED
              BY <3>4, <5>1, <5>2, <6>2 DEF Due, OwnAfter, Own
          <5>4. j = i
            BY <3>2, <3>4, <5>1, <5>3
          <5> QED
            BY <3>5, <5>1, <5>4
        <4> QED
          BY <4>1 DEF Live!Newest
      <3>7. ui.messages \subseteq ui'.messages
        BY <3>5
      <3> QED
        BY <1>1, <1>2, <3>3, <3>5, <3>6, <3>7, Advances DEF Moved
    <2> QED
      BY <2>3, <2>4
  <1> QED
    BY <1>3, <1>4

(* A page: what it leaves out is older than the newest Window messages.    *)
LEMMA LiveMerge ==
    ASSUME StreamInv, MergePage
    PROVE  [Live!Grow \/ Live!Advance]_<<log, ui.cursor, ui.messages>>
  <1>1. StreamTypes /\ UiOK /\ LoadOK
    BY DEF StreamInv
  <1>2. log' = log /\ load.messages # NotYet
    BY DEF MergePage
  <1>3. /\ ui' \in UiRecords /\ ui'.messages = ui.messages \cup load.messages
        /\ ui'.cursor = (IF load.last > ui.cursor THEN load.last ELSE ui.cursor)
        /\ ui.cursor <= ui'.cursor /\ UiOK'
    BY <1>1, MergedPage
  <1>4. PICK n : n = ui'.cursor
    OBVIOUS
  <1>5. ui.cursor \in Nat /\ load.last \in Nat /\ n \in Nat
    BY <1>1, <1>3, <1>4 DEF StreamTypes, UiRecords, LoadRecords
  <1> DEFINE P == Live!MessagesIn(ui.cursor + 1, n)
  <1>6. ASSUME NEW i \in Live!Newest(P, Window), i \notin load.messages PROVE FALSE
    <2>1. i \in P /\ Cardinality({j \in P : j > i}) < Window
      <3>1. Live!Cardinality({j \in P : j > i}) = Cardinality({j \in P : j > i})
        BY DEF Live!Cardinality, Cardinality
      <3> HIDE DEF P
      <3>2. i \in P /\ Live!Cardinality({j \in P : j > i}) < Window
        BY <1>6 DEF Live!Newest
      <3> QED
        BY <3>1, <3>2
    <2>2. i \in (ui.cursor + 1)..n /\ log[i] = "message"
      BY <2>1 DEF Live!MessagesIn
    <2>3. n = load.last /\ load.last > ui.cursor
      BY <1>3, <1>4, <1>5, <2>2
    <2>4. /\ DOMAIN log = 1..Len(log) /\ Len(log) \in Nat /\ load.last <= Len(log)
      <3>1. \A j \in OwnAfter(0) : j <= Len(log)
        BY <1>1, LogFacts
      <3>2. load.last # 0
        BY <1>5, <2>3
      <3>3. load.last <= Len(log)
        BY <1>1, <3>1, <3>2 DEF LoadOK
      <3> QED
        BY <1>1, <3>3, LogFacts
    <2>5. i \in MessagesUpTo(load.last) /\ i \in Nat
      BY <1>5, <2>2, <2>3, <2>4 DEF MessagesUpTo, OfKind
    <2>6. {j \in P : j > i} = {j \in MessagesUpTo(load.last) : j > i}
      <3>1. \A j \in P : j \in MessagesUpTo(load.last)
        BY <1>5, <2>3, <2>4 DEF MessagesUpTo, OfKind, Live!MessagesIn
      <3>2. ASSUME NEW j \in MessagesUpTo(load.last), j > i PROVE j \in P
        <4>1. j \in 1..Len(log) /\ log[j] = "message" /\ j <= n
          BY <2>3, <2>4 DEF MessagesUpTo, OfKind
        <4>2. j \in (ui.cursor + 1)..n
          BY <1>5, <2>2, <2>4, <2>5, <3>2, <4>1
        <4> QED
          BY <4>1, <4>2 DEF Live!MessagesIn
      <3> QED
        BY <3>1, <3>2
    <2>7. ~(Cardinality({j \in MessagesUpTo(load.last) : j > i}) < Window)
      BY <1>1, <1>2, <1>6, <2>5 DEF LoadOK
    <2> QED
      BY <2>1, <2>6, <2>7
  <1>7. Live!Newest(P, Window) \subseteq ui'.messages /\ ui.messages \subseteq ui'.messages
    BY <1>3, <1>6
  <1> QED
    BY <1>1, <1>2, <1>3, <1>4, <1>7, Advances

(* A transaction adds its events to the log.                               *)
LEMMA LiveGrow ==
    ASSUME StreamTypes, NEW ks \in Seq(EventKinds), Len(ks) >= 1, log' = log \o ks,
           Len(log') <= MaxEvents, ui' = ui
    PROVE  Live!Grow
  <1>1. PICK z \in Nat : z = Len(log) /\ log \in Seq(EventKinds)
    BY LogFacts DEF StreamTypes
  <1>2. PICK c \in Nat : c = Len(ks) /\ c >= 1 /\ \A i \in 1..c : ks[i] \in EventKinds
    BY LenProperties, ElementOfSeq
  <1>3. /\ Len(log') = z + c /\ DOMAIN log' = 1..(z + c)
        /\ \A i \in 1..(z + c) : log'[i] = IF i <= z THEN log[i] ELSE ks[i - z]
    <2> HIDE DEF EventKinds
    <2>1. /\ log' \in Seq(EventKinds) /\ Len(log') = z + c
          /\ \A i \in 1..(z + c) : log'[i] = IF i <= z THEN log[i] ELSE ks[i - z]
      BY <1>1, <1>2, ConcatProperties
    <2> QED
      BY <2>1, LenProperties
  <1>4. \A i \in DOMAIN log' : IF i <= z THEN log'[i] = log[i] ELSE log'[i] \in EventKinds
    <2>1. \A i \in 1..(z + c) : ~(i <= z) => i - z \in 1..c
      OBVIOUS
    <2> QED
      BY <1>2, <1>3, <2>1
  <1>5. Len(log) < Len(log')
    BY <1>1, <1>2, <1>3
  <1> QED
    BY <1>1, <1>4, <1>5 DEF Live!Grow, EventKinds

LEMMA LiveNext ==
    StreamInv /\ [StreamNext]_svars => [Live!Grow \/ Live!Advance]_<<log, ui.cursor, ui.messages>>
  <1> SUFFICES ASSUME StreamInv, [StreamNext]_svars
               PROVE  [Live!Grow \/ Live!Advance]_<<log, ui.cursor, ui.messages>>
    OBVIOUS
  <1>0. StreamTypes /\ log \in Seq(EventKinds)
    BY DEF StreamInv, StreamTypes
  <1>1. ASSUME NEW k \in CommitKinds, CommitEvent(k)
        PROVE  Live!Grow
    <2>1. k \in EventKinds /\ log' = Append(log, k) /\ ui' = ui /\ StreamTypes'
      BY <1>1, CommitSteps, StreamAssumption DEF CommitEvent, StreamInv
    <2> HIDE DEF EventKinds
    <2>2. log' = log \o <<k>> /\ <<k>> \in Seq(EventKinds) /\ Len(<<k>>) = 1
      BY <1>0, <2>1, AppendIsConcat
    <2>3. Len(<<k>>) >= 1 /\ Len(log') <= MaxEvents
      BY <2>1, <2>2 DEF StreamTypes
    <2> QED
      BY <1>0, <2>1, <2>2, <2>3, LiveGrow
  <1>1a. ASSUME NEW ks \in LateBatches, CommitLate(ks)
         PROVE  Live!Grow
    <2>1. ks \in Seq(EventKinds) /\ Len(ks) \in Nat /\ Len(ks) >= 1
      BY LateBatchFacts
    <2>2. log' = log \o ks /\ ui' = ui /\ StreamTypes'
      BY <1>1a, CommitLateSteps DEF CommitLate, StreamInv
    <2> QED
      BY <1>0, <2>1, <2>2, LiveGrow DEF StreamTypes
  <1>2. CASE PublishLate \/ Subscribe \/ Replay \/ Receive \/ Break \/ FetchMessages \/ FetchCommands
    BY <1>2 DEF PublishLate, Subscribe, Replay, Receive, Break, FetchMessages, FetchCommands
  <1>3. CASE OpenStream \/ RetryDue
    <2>1. ui \in UiRecords
      BY DEF StreamInv, StreamTypes
    <2> QED
      BY <1>3, <2>1 DEF OpenStream, RetryDue, UiRecords
  <1>4. CASE \E by \in {"loop", "command"} : StartRefresh(by)
    BY <1>4 DEF StartRefresh
  <1>5. CASE UNCHANGED svars
    BY <1>5 DEF svars
  <1> QED
    BY <1>1, <1>1a, <1>2, <1>3, <1>4, <1>5, LiveApply, LiveMerge DEF StreamNext

(***************************************************************************)
(* Every behaviour of server and client is one that LiveTranscript allows  *)
(* (its safety part: that the client catches up is checked by TLC): the    *)
(* cursor never moves backwards or over an event whose messages the client *)
(* does not show, up to the newest Window of a page, whatever is merged,   *)
(* replayed or lost (apply_stream_event, merge_latest_transcript_page).    *)
(***************************************************************************)
THEOREM StreamImplementsLive == StreamSpec => Live!LiveSteps
  <1>1. StreamInit => Live!LiveInit
    BY DEF StreamInit, Live!LiveInit
  <1> QED
    BY <1>1, LiveNext, StreamInvariant, PTL DEF StreamSpec, Live!LiveSteps
=============================================================================
