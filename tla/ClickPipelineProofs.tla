------------------------ MODULE ClickPipelineProofs ------------------------
(***************************************************************************)
(* The way of a click, for any number of clicks, copies, deliveries,       *)
(* faults and restarts: what the pipeline keeps, and that it keeps the     *)
(* ledger of clicks.                                                       *)
(*                                                                         *)
(* The steps of the pipeline that touch the processor are steps of the     *)
(* processor, so its invariant is at hand.  The ledger needs counting:     *)
(* places where a click is, events that were handed over, attempts with    *)
(* them; every step moves a finite set from one count to another.          *)
(***************************************************************************)
EXTENDS ClickPipeline, ClickProcessorProofs, FunctionTheorems

(* Events and entries *)

\* An event is a message and the number of a delivery.
LEMMA EventShape ==
  /\ \A v \in Events : /\ v[1] \in Clicks /\ v[2] \in 1..Copies /\ v[3] \in 1..Deliveries
                       /\ v = <<v[1], v[2], v[3]>>
  /\ \A m \in Messages : /\ m[1] \in Clicks /\ m[2] \in 1..Copies /\ m = <<m[1], m[2]>>
                         /\ \A n \in 1..Deliveries : <<m[1], m[2], n>> \in Events
BY PipelineAssumption DEF Messages

\* Every event is a click, so the entries are the raw events.
LEMMA EntryShape ==
  /\ \A v \in Events : Raw(v) \in Entries /\ Raw(v).event = v /\ KindOf[v] = "click"
  /\ \A e \in Entries : e.event \in Events /\ e = Raw(e.event)
<1>1. \A v \in Events : KindOf[v] = "click"
  BY PipelineAssumption
<1> QED BY <1>1 DEF Entries, Raw

\* Two events have two entries.
LEMMA RawDiffers == \A v, w \in Events : Raw(v) = Raw(w) => v = w
BY DEF Raw

\* A click comes as finitely many events.
LEMMA EventsOfFinite ==
  ASSUME NEW c
  PROVE  IsFiniteSet(EventsOf(c)) /\ EventsOf(c) \subseteq Events
<1> DEFINE D == (1..Copies) \X (1..Deliveries)
           f == [v \in EventsOf(c) |-> <<v[2], v[3]>>]
<1>1. IsFiniteSet(D)
  <2>1. Copies \in Int /\ Deliveries \in Int
    BY PipelineAssumption
  <2>2. IsFiniteSet(1..Copies) /\ IsFiniteSet(1..Deliveries)
    BY <2>1, FS_Interval
  <2> QED BY <2>2, FS_Product
<1>2. f \in Injection(EventsOf(c), D)
  <2>1. f \in [EventsOf(c) -> D]
    BY EventShape DEF EventsOf
  <2>2. ASSUME NEW v \in EventsOf(c), NEW w \in EventsOf(c), f[v] = f[w] PROVE v = w
    <3>1. v[1] = c /\ w[1] = c /\ v \in Events /\ w \in Events
      BY DEF EventsOf
    <3>2. v[2] = w[2] /\ v[3] = w[3]
      BY <2>2
    <3> QED BY <3>1, <3>2, EventShape
  <2> QED BY <2>1, <2>2, Fun_IsInj
<1>3. IsFiniteSet(EventsOf(c))
  BY <1>1, <1>2, FS_Injection
<1> QED BY <1>3 DEF EventsOf

-----------------------------------------------------------------------------
(* Sums *)

Pairs(f, S) == UNION {{v} \X (1..f[Raw(v)]) : v \in S}

\* What the sum counts, pair by pair.
LEMMA PairsMembers ==
  ASSUME NEW f, NEW S, NEW p
  PROVE  p \in Pairs(f, S) <=> \E v \in S : \E i \in 1..f[Raw(v)] : p = <<v, i>>
BY DEF Pairs

\* A finite sum is a number.
LEMMA SumType ==
  ASSUME NEW f \in [Entries -> Nat], NEW S \in SUBSET Events, IsFiniteSet(S)
  PROVE  Sum(f, S) \in Nat /\ IsFiniteSet(Pairs(f, S))
<1> DEFINE R == {{v} \X (1..f[Raw(v)]) : v \in S}
           g == [v \in S |-> {v} \X (1..f[Raw(v)])]
<1>1. g \in Surjection(S, R)
  BY Fun_IsSurj
<1>2. IsFiniteSet(R)
  BY <1>1, FS_Surjection
<1>3. ASSUME NEW T \in R PROVE IsFiniteSet(T)
  <2>1. PICK v \in S : T = {v} \X (1..f[Raw(v)])
    OBVIOUS
  <2>2. f[Raw(v)] \in Nat
    BY EntryShape
  <2>3. IsFiniteSet({v})
    BY FS_Singleton
  <2>4. IsFiniteSet(1..f[Raw(v)])
    BY <2>2, FS_Interval
  <2> QED BY <2>1, <2>3, <2>4, FS_Product
<1>4. IsFiniteSet(UNION R)
  BY <1>2, <1>3, FS_UNION
<1> QED BY <1>4, FS_CardinalityType DEF Sum, Pairs

\* A sum is positive only if one of its terms is.
LEMMA SumPositive ==
  ASSUME NEW f \in [Entries -> Nat], NEW S \in SUBSET Events, IsFiniteSet(S),
         \A v \in S : f[Raw(v)] = 0
  PROVE  Sum(f, S) = 0
<1>1. Pairs(f, S) = {}
  BY PairsMembers DEF Pairs
<1> QED BY <1>1, FS_EmptySet DEF Sum, Pairs

\* A term that is positive makes the sum positive.
LEMMA SumTerm ==
  ASSUME NEW f \in [Entries -> Nat], NEW S \in SUBSET Events, IsFiniteSet(S),
         NEW v \in S, f[Raw(v)] > 0
  PROVE  Sum(f, S) > 0
<1>1. f[Raw(v)] \in Nat
  BY EntryShape
<1>2. 1 \in 1..f[Raw(v)]
  BY <1>1
<1>3. <<v, 1>> \in Pairs(f, S)
  BY <1>2 DEF Pairs
<1> QED BY <1>3, SumType, FS_EmptySet DEF Sum, Pairs

\* One more for every event of T makes the sum larger by the number of them.
LEMMA SumAdds ==
  ASSUME NEW f \in [Entries -> Nat], NEW g \in [Entries -> Nat],
         NEW S \in SUBSET Events, IsFiniteSet(S), NEW T \in SUBSET S,
         \A v \in S : g[Raw(v)] = IF v \in T THEN f[Raw(v)] + 1 ELSE f[Raw(v)]
  PROVE  Sum(g, S) = Sum(f, S) + Cardinality(T)
<1> DEFINE h == [v \in T |-> <<v, f[Raw(v)] + 1>>]
           N == {<<v, f[Raw(v)] + 1>> : v \in T}
<1>1. IsFiniteSet(T)
  BY FS_Subset
<1>2. h \in Bijection(T, N)
  <2>1. h \in Injection(T, N)
    BY Fun_IsInj
  <2>2. h \in Surjection(T, N)
    BY Fun_IsSurj
  <2> QED BY <2>1, <2>2 DEF Bijection
<1>3. IsFiniteSet(N) /\ Cardinality(N) = Cardinality(T)
  BY <1>1, <1>2, FS_Bijection, Fun_ExistsBij
<1>4. \A v \in S : f[Raw(v)] \in Nat
  BY EntryShape
<1>5. Pairs(g, S) = Pairs(f, S) \cup N
  <2>1. ASSUME NEW p \in Pairs(g, S) PROVE p \in Pairs(f, S) \cup N
    <3>1. PICK v \in S : \E i \in 1..g[Raw(v)] : p = <<v, i>>
      BY PairsMembers
    <3>0. PICK i \in 1..g[Raw(v)] : p = <<v, i>>
      BY <3>1
    <3>2. i \in 1..f[Raw(v)] \/ (v \in T /\ i = f[Raw(v)] + 1)
      BY <1>4
    <3> QED BY <3>0, <3>2, PairsMembers
  <2>2. ASSUME NEW p \in Pairs(f, S) PROVE p \in Pairs(g, S)
    <3>1. PICK v \in S : \E i \in 1..f[Raw(v)] : p = <<v, i>>
      BY PairsMembers
    <3>0. PICK i \in 1..f[Raw(v)] : p = <<v, i>>
      BY <3>1
    <3>2. i \in 1..g[Raw(v)]
      BY <1>4
    <3> QED BY <3>0, <3>2, PairsMembers
  <2>3. ASSUME NEW p \in N PROVE p \in Pairs(g, S)
    <3>1. PICK v \in T : p = <<v, f[Raw(v)] + 1>>
      OBVIOUS
    <3>2. f[Raw(v)] + 1 \in 1..g[Raw(v)]
      BY <1>4
    <3> QED BY <3>1, <3>2, PairsMembers
  <2> QED BY <2>1, <2>2, <2>3
<1>6. Pairs(f, S) \cap N = {}
  <2> SUFFICES ASSUME NEW p \in Pairs(f, S), p \in N PROVE FALSE
    OBVIOUS
  <2>0. PICK v \in S : \E i \in 1..f[Raw(v)] : p = <<v, i>>
    BY PairsMembers
  <2>1. PICK i \in 1..f[Raw(v)] : p = <<v, i>>
    BY <2>0
  <2>2. PICK w \in T : p = <<w, f[Raw(w)] + 1>>
    OBVIOUS
  <2>3. v = w /\ i = f[Raw(w)] + 1
    BY <2>1, <2>2
  <2> QED BY <2>1, <2>3, <1>4
<1>7. Cardinality(Pairs(g, S)) = Cardinality(Pairs(f, S)) + Cardinality(N) - 0
  BY <1>3, <1>5, <1>6, SumType, FS_Union, FS_EmptySet
<1>8. Cardinality(Pairs(f, S)) \in Nat /\ Cardinality(T) \in Nat
  BY <1>1, SumType, FS_CardinalityType
<1> QED BY <1>3, <1>7, <1>8 DEF Sum, Pairs

-----------------------------------------------------------------------------
(* The invariant *)

\* The copies of a click in the topic are numbered, so no two messages are alike.
Numbered ==
  /\ \A c \in Clicks : \A i \in InTopic(c) : topic[i][2] <= Cardinality(InTopic(c))
  /\ \A i, j \in DOMAIN topic : topic[i] = topic[j] => i = j

\* Only what a visitor made is in the topic, and only what is in the topic was handed over.
Delivered ==
  /\ \A c \in Clicks : InTopic(c) # {} => c \in Made
  /\ \A c \in Clicks : visit[c] = "sent" => InTopic(c) # {}
  /\ \A v \in Events : fate[Raw(v)] # "unseen" =>
       \E i \in DOMAIN topic : topic[i] = <<v[1], v[2]>>

\* A visitor is recorded, first in the one table and then in the other, before the click
\* is sent.
Recorded ==
  /\ stat \subseteq row
  /\ \A c \in Clicks : visit[c] = "update" => c \in row
  /\ Made \subseteq stat

\* A batch has failed as often as retries were used, and what was dropped has no retry left.
LastAttempt ==
  /\ \A c \in Calls, k \in Kinds : \A e \in Range(flush[c][k].batch) :
       failed[e] >= MaxRetries - flush[c][k].left
  /\ \A e \in Entries : fate[e] = "dropped" => failed[e] > MaxRetries
  /\ \A e \in Entries : fate[e] # "reported"
  /\ stops = 0 => \A e \in Entries : fate[e] \notin {"stopped", "killed"}

\* While nothing has failed, nobody comes before the consumer is there, and the consumer
\* skips nothing.
Unbroken ==
  faults = 0 /\ stops = 0 =>
    /\ consumer = "starting" => topic = <<>> /\ \A c \in Clicks : visit[c] = "new"
    /\ \A i \in 1..position : \E v \in Events :
         topic[i] = <<v[1], v[2]>> /\ fate[Raw(v)] # "unseen"

PInv ==
  /\ PipelineTypeOK
  /\ consumer = "starting" => tries > 0
  /\ Numbered
  /\ Delivered
  /\ Recorded
  /\ LastAttempt
  /\ Unbroken

-----------------------------------------------------------------------------
(* What the actions do *)

\* The places of a click in the topic are finitely many.
LEMMA InTopicFinite ==
  ASSUME PipelineTypeOK, NEW c
  PROVE  /\ IsFiniteSet(InTopic(c)) /\ Cardinality(InTopic(c)) \in Nat
         /\ InTopic(c) \subseteq 1..Len(topic)
<1>1. Len(topic) \in Nat /\ DOMAIN topic = 1..Len(topic)
  BY LenProperties DEF PipelineTypeOK
<1>2. IsFiniteSet(1..Len(topic))
  BY <1>1, FS_Interval
<1>3. InTopic(c) \subseteq 1..Len(topic)
  BY <1>1 DEF InTopic
<1> QED BY <1>2, <1>3, FS_Subset, FS_CardinalityType

\* A message was handed over finitely often.
LEMMA HandedFinite ==
  ASSUME NEW m
  PROVE  IsFiniteSet(Handed(m)) /\ Cardinality(Handed(m)) \in Nat
<1>1. Handed(m) \subseteq EventsOf(m[1])
  BY DEF Handed
<1> QED BY <1>1, EventsOfFinite, FS_Subset, FS_CardinalityType

\* A click that gets into the topic is the last one there, and a new copy.
LEMMA AppendedTopic ==
  ASSUME PipelineTypeOK, NEW c \in Clicks, Appended(c)
  PROVE  /\ topic' \in Seq(Messages)
         /\ Len(topic') = Len(topic) + 1 /\ DOMAIN topic' = 1..(Len(topic) + 1)
         /\ \A i \in DOMAIN topic : topic'[i] = topic[i]
         /\ topic'[Len(topic) + 1] = <<c, Cardinality(InTopic(c)) + 1>>
         /\ \A d : InTopic(d)' = InTopic(d) \cup {i \in {Len(topic) + 1} : d = c}
         /\ Cardinality(InTopic(c)') = Cardinality(InTopic(c)) + 1
<1> DEFINE n == Len(topic) + 1
           m == <<c, Cardinality(InTopic(c)) + 1>>
<1>1. /\ topic \in Seq(Messages) /\ Len(topic) \in Nat
      /\ DOMAIN topic = 1..Len(topic)
  BY LenProperties DEF PipelineTypeOK
<1>2. Cardinality(InTopic(c)) \in Nat /\ Cardinality(InTopic(c)) < Copies /\ Copies \in Nat
  BY InTopicFinite, PipelineAssumption DEF Appended
<1>3. m \in Messages
  BY <1>2 DEF Messages
<1>4. topic' = Append(topic, m)
  BY DEF Appended
<1>5. /\ topic' \in Seq(Messages) /\ Len(topic') = n /\ DOMAIN topic' = 1..n
      /\ \A i \in DOMAIN topic : topic'[i] = topic[i]
      /\ topic'[n] = m
  <2> HIDE DEF m
  <2> QED BY <1>1, <1>3, <1>4, AppendProperties
<1>6. \A d : InTopic(d)' = InTopic(d) \cup {i \in {n} : d = c}
  <2> SUFFICES ASSUME NEW d PROVE InTopic(d)' = InTopic(d) \cup {i \in {n} : d = c}
    OBVIOUS
  <2>1. topic'[n][1] = c
    BY <1>5
  <2>2. 1..n = 1..Len(topic) \cup {n} /\ n \notin 1..Len(topic)
    BY <1>1
  <2> QED BY <1>1, <1>5, <2>1, <2>2 DEF InTopic
<1>7. Cardinality(InTopic(c)') = Cardinality(InTopic(c)) + 1
  <2>1. InTopic(c)' = InTopic(c) \cup {n}
    BY <1>6
  <2>2. n \notin InTopic(c)
    BY <1>1 DEF InTopic
  <2> QED BY <2>1, <2>2, InTopicFinite, FS_AddElement
<1> QED BY <1>5, <1>6, <1>7

\* The event that eachMessage hands over.
LEMMA HandsOver ==
  ASSUME PipelineTypeOK, eachMessage
  PROVE  \E v \in Events :
           /\ topic[position + 1] = <<v[1], v[2]>>
           /\ position + 1 \in DOMAIN topic
           /\ processClickEvent(v)
           /\ fate[Raw(v)] = "unseen"
           /\ fate' = [e \in Entries |-> IF e.event = v THEN "pending" ELSE fate[e]]
           /\ UNCHANGED <<applied, failed, stops>>
<1> DEFINE m == topic[position + 1]
           v == <<m[1], m[2], Cardinality(Handed(m)) + 1>>
<1>1. position + 1 \in DOMAIN topic /\ m \in Messages
  <2>1. /\ topic \in Seq(Messages) /\ Len(topic) \in Nat /\ DOMAIN topic = 1..Len(topic)
        /\ position \in 0..Len(topic) /\ position < Len(topic)
    BY LenProperties DEF PipelineTypeOK, eachMessage
  <2> QED BY <2>1, ElementOfSeq
<1>2. Cardinality(Handed(m)) + 1 \in 1..Deliveries
  BY HandedFinite, PipelineAssumption DEF eachMessage
<1>3. v \in Events /\ m = <<m[1], m[2]>>
  BY <1>1, <1>2, EventShape
<1>4. processClickEvent(v)
  BY DEF eachMessage
<1>5. /\ fate[Raw(v)] = "unseen"
      /\ fate' = [e \in Entries |-> IF e.event = v THEN "pending" ELSE fate[e]]
      /\ UNCHANGED <<applied, failed, stops>>
  <2> HIDE DEF v
  <2> QED BY <1>4 DEF processClickEvent, Receive
<1>6. v[1] = m[1] /\ v[2] = m[2]
  OBVIOUS
<1> HIDE DEF v
<1> QED BY <1>1, <1>3, <1>4, <1>5, <1>6

\* For the processor, a step of the pipeline is one of its own, or none.
LEMMA ProcessorSteps == PipelineTypeOK /\ [PipelineNext]_all => [Next]_vars
<1> SUFFICES ASSUME PipelineTypeOK, [PipelineNext]_all PROVE [Next]_vars
  OBVIOUS
<1>1. ASSUME NEW c \in Clicks, Visitor(c) \/ Sender(c) PROVE UNCHANGED vars
  BY <1>1 DEF Visitor, Sender, redirect, Inserted, Updated, RecordFails,
              SendSucceeds, AnswerLost, SendFails
<1>2. CASE eachMessage
  BY <1>2, HandsOver DEF Next
<1>3. CASE Commit \/ Rejoin \/ Connect \/ ConnectFails
  BY <1>3 DEF Commit, Rejoin, Connect, ConnectFails
<1>4. CASE Processor
  BY <1>4 DEF Processor, Next
<1>5. CASE Restart
  BY <1>5 DEF Restart, Next
<1>6. CASE UNCHANGED all
  BY <1>6 DEF all
<1> QED BY <1>1, <1>2, <1>3, <1>4, <1>5, <1>6 DEF PipelineNext

\* The topic grows, by a click that is being sent, or stays as it is.
LEMMA TopicGrows ==
  ASSUME [PipelineNext]_all
  PROVE  topic' = topic \/ \E c \in Clicks : visit[c] = "sending" /\ Appended(c)
<1>1. ASSUME NEW c \in Clicks, Visitor(c) PROVE topic' = topic
  BY <1>1 DEF Visitor, redirect, Inserted, Updated, RecordFails
<1>2. ASSUME NEW c \in Clicks, Sender(c)
      PROVE  topic' = topic \/ (visit[c] = "sending" /\ Appended(c))
  BY <1>2 DEF Sender, SendSucceeds, AnswerLost, SendFails, GoOn
<1>3. CASE eachMessage \/ Commit \/ Rejoin \/ Connect \/ ConnectFails \/ Processor
  BY <1>3 DEF eachMessage, Commit, Rejoin, Connect, ConnectFails, Processor, pipe
<1>4. CASE Restart
  BY <1>4 DEF Restart
<1>5. CASE UNCHANGED all
  BY <1>5 DEF all, pipe
<1> QED BY <1>1, <1>2, <1>3, <1>4, <1>5 DEF PipelineNext

\* What a step does to the request of a visitor and to the record of the click.
LEMMA Course ==
  ASSUME PipelineTypeOK, [PipelineNext]_all, NEW c \in Clicks
  PROVE  /\ \/ visit'[c] = visit[c]
            \/ visit[c] = "new" /\ visit'[c] = "insert" /\ consumer # "starting"
            \/ visit[c] = "insert" /\ visit'[c] = "update" /\ c \in row'
            \/ visit[c] = "update" /\ visit'[c] = "sending" /\ c \in stat'
            \/ visit[c] \in {"insert", "update"} /\ visit'[c] = "refused"
            \/ visit[c] = "sending" /\ visit'[c] = "sent" /\ Appended(c)
            \/ visit[c] = "sending" /\ visit'[c] = "unsent"
         /\ c \in row => c \in row'
         /\ c \in stat => c \in stat'
         /\ c \in stat' => c \in stat \/ visit[c] = "update"
<1>0. visit \in [Clicks -> Visits]
  BY DEF PipelineTypeOK
<1>1. ASSUME NEW d \in Clicks, redirect(d) \/ Inserted(d) \/ Updated(d)
      PROVE  /\ \/ visit'[c] = visit[c]
                \/ visit[c] = "new" /\ visit'[c] = "insert" /\ consumer # "starting"
                \/ visit[c] = "insert" /\ visit'[c] = "update" /\ c \in row'
                \/ visit[c] = "update" /\ visit'[c] = "sending" /\ c \in stat'
             /\ c \in row => c \in row'
             /\ c \in stat => c \in stat'
             /\ c \in stat' => c \in stat \/ visit[c] = "update"
  BY <1>0, <1>1 DEF redirect, Inserted, Updated, GoOn
<1>2. ASSUME NEW d \in Clicks, RecordFails(d)
      PROVE  /\ \/ visit'[c] = visit[c]
                \/ visit[c] \in {"insert", "update"} /\ visit'[c] = "refused"
             /\ c \in row => c \in row'
             /\ c \in stat => c \in stat'
             /\ c \in stat' => c \in stat \/ visit[c] = "update"
  BY <1>0, <1>2 DEF RecordFails, GoOn
<1>3. ASSUME NEW d \in Clicks, Sender(d)
      PROVE  /\ \/ visit'[c] = visit[c]
                \/ visit[c] = "sending" /\ visit'[c] = "sent" /\ Appended(c)
                \/ visit[c] = "sending" /\ visit'[c] = "unsent"
             /\ row' = row /\ stat' = stat
  BY <1>0, <1>3 DEF Sender, SendSucceeds, AnswerLost, SendFails, GoOn
<1>4. CASE eachMessage \/ Commit \/ Rejoin \/ Connect \/ ConnectFails \/ Processor
  BY <1>4 DEF eachMessage, Commit, Rejoin, Connect, ConnectFails, Processor, pipe
<1>5. CASE Restart
  <2>1. row' = row /\ stat' = stat
    BY <1>5 DEF Restart
  <2>2. visit' = [d \in Clicks |-> CASE visit[d] \in {"insert", "update"} -> "refused"
                                     [] visit[d] = "sending" -> "unsent"
                                     [] OTHER -> visit[d]]
    BY <1>5 DEF Restart
  <2>3. \/ visit'[c] = visit[c]
        \/ visit[c] \in {"insert", "update"} /\ visit'[c] = "refused"
        \/ visit[c] = "sending" /\ visit'[c] = "unsent"
    BY <2>2
  <2> QED BY <2>1, <2>3
<1>6. CASE UNCHANGED all
  BY <1>6 DEF all, pipe
<1> QED BY <1>1, <1>2, <1>3, <1>4, <1>5, <1>6 DEF PipelineNext, Visitor

\* The record and the requests stay in step.
LEMMA RecordedKept ==
  ASSUME PipelineTypeOK, Recorded, [PipelineNext]_all
  PROVE  Recorded'
<1>1. Clicks = DOMAIN visit /\ row \subseteq Clicks /\ stat \subseteq Clicks
  BY DEF PipelineTypeOK
<1>2. row' \subseteq Clicks /\ stat' \subseteq Clicks
  <2>1. ASSUME NEW c \in Clicks, Visitor(c) \/ Sender(c) PROVE row' \subseteq Clicks /\ stat' \subseteq Clicks
    BY <1>1, <2>1 DEF Visitor, Sender, redirect, Inserted, Updated, RecordFails, SendSucceeds,
                      AnswerLost, SendFails
  <2>2. CASE ~(\E c \in Clicks : Visitor(c) \/ Sender(c))
    BY <1>1, <2>2 DEF PipelineNext, eachMessage, Commit, Rejoin, Connect, ConnectFails, Processor,
                      Restart, pipe, all
  <2> QED BY <2>1, <2>2
<1>3. ASSUME NEW c \in Clicks
      PROVE  /\ c \in stat' => c \in row'
             /\ visit'[c] = "update" => c \in row'
             /\ visit'[c] \in {"sending", "sent", "unsent"} => c \in stat'
  <2>1. /\ c \in stat => c \in row
        /\ visit[c] = "update" => c \in row
        /\ visit[c] \in {"sending", "sent", "unsent"} => c \in stat
    BY DEF Recorded, Made
  <2> QED BY <2>1, Course
<1> QED BY <1>2, <1>3 DEF Recorded, Made

\* The copies of a click in the topic stay numbered.
LEMMA NumberedKept ==
  ASSUME PipelineTypeOK, Numbered, [PipelineNext]_all
  PROVE  Numbered'
<1>1. CASE topic' = topic
  BY <1>1 DEF Numbered, InTopic
<1>2. ASSUME NEW c \in Clicks, Appended(c) PROVE Numbered'
  <2> DEFINE n == Len(topic) + 1
  <2>1. Len(topic) \in Nat /\ DOMAIN topic = 1..Len(topic)
    BY LenProperties DEF PipelineTypeOK
  <2>2. /\ DOMAIN topic' = 1..n
        /\ \A i \in DOMAIN topic : topic'[i] = topic[i]
        /\ topic'[n] = <<c, Cardinality(InTopic(c)) + 1>>
        /\ \A d : InTopic(d)' = InTopic(d) \cup {i \in {n} : d = c}
        /\ Cardinality(InTopic(c)') = Cardinality(InTopic(c)) + 1
    BY <1>2, AppendedTopic
  <2>3. DOMAIN topic' = DOMAIN topic \cup {n}
    BY <2>1, <2>2
  <2>4. \A d : d # c => InTopic(d)' = InTopic(d)
    <3> SUFFICES ASSUME NEW d, d # c PROVE InTopic(d)' = InTopic(d)
      OBVIOUS
    <3>1. {i \in {n} : d = c} = {}
      OBVIOUS
    <3> QED BY <2>2, <3>1
  <2>5. \A d : Cardinality(InTopic(d)) \in Nat
    BY InTopicFinite
  <2>6. \A d \in Clicks : \A i \in InTopic(d) :
          i \in DOMAIN topic /\ topic[i][1] = d /\ topic[i][2] \in Nat
                             /\ topic[i][2] <= Cardinality(InTopic(d))
    <3>1. \A i \in DOMAIN topic : topic[i] \in Messages
      BY <2>1, ElementOfSeq DEF PipelineTypeOK
    <3> QED BY <3>1, EventShape DEF Numbered, InTopic
  <2>7. \A i \in DOMAIN topic : topic[i] # topic'[n]
    <3> SUFFICES ASSUME NEW i \in DOMAIN topic, topic[i] = topic'[n] PROVE FALSE
      OBVIOUS
    <3>1. topic[i][1] = c /\ topic[i][2] = Cardinality(InTopic(c)) + 1
      BY <2>2
    <3>2. i \in InTopic(c)
      BY <3>1 DEF InTopic
    <3> QED BY <2>5, <2>6, <3>1, <3>2
  <2>8. \A d \in Clicks : \A i \in InTopic(d)' : topic'[i][2] <= Cardinality(InTopic(d)')
    <3> SUFFICES ASSUME NEW d \in Clicks, NEW i \in InTopic(d)'
                 PROVE  topic'[i][2] <= Cardinality(InTopic(d)')
      OBVIOUS
    <3>1. CASE i \in InTopic(d)
      <4>1. topic'[i] = topic[i] /\ topic[i][2] \in Nat /\ topic[i][2] <= Cardinality(InTopic(d))
        BY <2>2, <2>6, <3>1
      <4>2. Cardinality(InTopic(d)') \in Nat /\ Cardinality(InTopic(d)) <= Cardinality(InTopic(d)')
        BY <2>2, <2>4, <2>5
      <4> QED BY <2>5, <4>1, <4>2
    <3>2. CASE i \notin InTopic(d)
      <4>1. d = c /\ i = n
        BY <2>2, <3>2
      <4> QED BY <2>2, <2>5, <4>1
    <3> QED BY <3>1, <3>2
  <2>9. \A i, j \in DOMAIN topic' : topic'[i] = topic'[j] => i = j
    BY <2>2, <2>3, <2>7 DEF Numbered
  <2> QED BY <2>8, <2>9 DEF Numbered
<1> QED BY <1>1, <1>2, TopicGrows

\* Flushes handle entries that are in memory, and those only.
LEMMA FlushSteps ==
  ASSUME IInv, NEW d \in Calls, NEW k \in Kinds,
         FlushSaved(d, k) \/ FlushRetries(d, k) \/ FlushFails(d, k)
  PROVE  LET B == Range(flush[d][k].batch)
         IN  /\ \A e \in B : e \in Entries /\ fate[e] = "pending"
             /\ \A e \in Entries : e \notin B =>
                  fate'[e] = fate[e] /\ applied'[e] = applied[e] /\ failed'[e] = failed[e]
             /\ \/ \A e \in B : /\ fate'[e] = "saved" /\ failed'[e] = failed[e]
                                /\ applied'[e] = applied[e] + 1
                \/ \A e \in B : /\ fate'[e] \in {"pending", "dropped"}
                                /\ failed'[e] = failed[e] + 1
                                /\ applied'[e] \in {applied[e], applied[e] + 1}
<1> DEFINE B == Range(flush[d][k].batch)
<1>1. \A e \in B : e \in Entries /\ fate[e] = "pending"
  BY BatchEntries DEF IInv, HeldIsPending
<1>2. /\ applied \in [Entries -> Nat] /\ fate \in [Entries -> Fates]
      /\ failed \in [Entries -> Nat]
  BY DEF IInv, Typed
<1> HIDE DEF B
<1>3. CASE FlushSaved(d, k)
  <2>1. /\ \A e \in Entries : e \notin B =>
             fate'[e] = fate[e] /\ applied'[e] = applied[e] /\ failed'[e] = failed[e]
        /\ \A e \in B : /\ fate'[e] = "saved" /\ failed'[e] = failed[e]
                        /\ applied'[e] = applied[e] + 1
    BY <1>1, <1>3 DEF FlushSaved, Saved, B
  <2> QED BY <1>1, <2>1 DEF B
<1>4. ASSUME AttemptFails(B, k)
      PROVE  /\ \A e \in Entries : e \notin B => applied'[e] = applied[e] /\ failed'[e] = failed[e]
             /\ \A e \in B : /\ failed'[e] = failed[e] + 1
                             /\ applied'[e] \in {applied[e], applied[e] + 1}
  <2>1. PICK T \in Reached(B, k) :
          applied' = [e \in Entries |-> IF e \in T THEN applied[e] + 1 ELSE applied[e]]
    BY <1>4 DEF AttemptFails
  <2>2. T \subseteq B
    BY DEF Reached
  <2>3. failed' = [e \in Entries |-> IF e \in B THEN failed[e] + 1 ELSE failed[e]]
    BY <1>4 DEF AttemptFails
  <2> QED BY <1>1, <2>1, <2>2, <2>3
<1>5. CASE FlushRetries(d, k)
  <2>1. AttemptFails(B, k) /\ fate' = fate
    BY <1>5 DEF FlushRetries, B
  <2> QED BY <1>1, <1>4, <2>1 DEF B
<1>6. CASE FlushFails(d, k)
  <2>1. AttemptFails(B, k)
    BY <1>6 DEF FlushFails, B
  <2>2. /\ \A e \in Entries : e \notin B => fate'[e] = fate[e]
        /\ \A e \in B : fate'[e] \in {"pending", "dropped"}
    <3>1. \A e \in Entries : fate'[e] = IF e \in B /\ \A m \in DOMAIN dlq' : dlq'[m].entry # e
                                        THEN "dropped" ELSE fate[e]
      BY <1>6 DEF FlushFails, B
    <3> QED BY <1>1, <3>1
  <2> QED BY <1>1, <1>4, <2>1, <2>2 DEF B
<1> QED BY <1>3, <1>5, <1>6

\* An event is received when its message is handed over, and stays received.
LEMMA Receives ==
  ASSUME PipelineTypeOK, IInv, [PipelineNext]_all
  PROVE  /\ \A w \in Events : fate[Raw(w)] # "unseen" => fate'[Raw(w)] # "unseen"
         /\ \A w \in Events : fate'[Raw(w)] # "unseen" =>
              \/ fate[Raw(w)] # "unseen"
              \/ \E i \in DOMAIN topic : topic[i] = <<w[1], w[2]>>
<1>1. ASSUME NEW c \in Clicks, Visitor(c) \/ Sender(c) PROVE fate' = fate
  BY <1>1 DEF Visitor, Sender, redirect, Inserted, Updated, RecordFails,
              SendSucceeds, AnswerLost, SendFails, vars
<1>2. CASE eachMessage
  <2>1. PICK v \in Events :
           /\ topic[position + 1] = <<v[1], v[2]>> /\ position + 1 \in DOMAIN topic
           /\ fate' = [e \in Entries |-> IF e.event = v THEN "pending" ELSE fate[e]]
    BY <1>2, HandsOver
  <2> QED BY <2>1, EntryShape
<1>3. CASE Commit \/ Rejoin \/ Connect \/ ConnectFails
  BY <1>3 DEF Commit, Rejoin, Connect, ConnectFails, vars
<1>4. CASE Processor
  <2>1. ASSUME NEW d \in Calls, Tick(d) PROVE fate' = fate
    BY <2>1 DEF Tick, flushAllBuffers
  <2>2. ASSUME NEW d \in Calls, NEW k \in Kinds,
               FlushSaved(d, k) \/ FlushRetries(d, k) \/ FlushFails(d, k)
        PROVE  \A e \in Entries : fate'[e] = "unseen" <=> fate[e] = "unseen"
    BY <2>2, FlushSteps
  <2> QED BY <1>4, <2>1, <2>2, EntryShape DEF Processor
<1>5. CASE Restart
  <2>1. fate' = [e \in Entries |-> IF fate[e] = "pending" THEN "killed" ELSE fate[e]]
    BY <1>5 DEF Restart, Kill, Die
  <2> QED BY <2>1, EntryShape
<1>6. CASE UNCHANGED all
  BY <1>6 DEF all, vars
<1> QED BY <1>1, <1>2, <1>3, <1>4, <1>5, <1>6 DEF PipelineNext

\* Only what was made is in the topic, only what is in the topic was handed over.
LEMMA DeliveredKept ==
  ASSUME PipelineTypeOK, IInv, Delivered, [PipelineNext]_all
  PROVE  Delivered'
<1>1. \/ topic' = topic
      \/ \E c \in Clicks : visit[c] = "sending" /\ Appended(c)
  BY TopicGrows
<1>2. \A c \in Clicks : visit[c] \in {"sending", "sent", "unsent"}
                          => visit'[c] \in {"sending", "sent", "unsent"}
  BY Course
<1>3. /\ \A i \in DOMAIN topic : i \in DOMAIN topic' /\ topic'[i] = topic[i]
      /\ \A c \in Clicks : InTopic(c) # {} => InTopic(c)' # {}
      /\ \A c \in Clicks : InTopic(c)' # {} => InTopic(c) # {} \/ visit[c] = "sending"
      /\ \A c \in Clicks : Appended(c) => InTopic(c)' # {}
  <2>1. CASE topic' = topic /\ \A c \in Clicks : ~Appended(c)
    BY <2>1 DEF InTopic
  <2>2. ASSUME NEW c \in Clicks, Appended(c)
        PROVE  /\ \A i \in DOMAIN topic : i \in DOMAIN topic' /\ topic'[i] = topic[i]
               /\ \A d : InTopic(d)' = InTopic(d) \cup {i \in {Len(topic) + 1} : d = c}
    <3>1. Len(topic) \in Nat /\ DOMAIN topic = 1..Len(topic)
      BY LenProperties DEF PipelineTypeOK
    <3> QED BY <2>2, <3>1, AppendedTopic
  <2>3. CASE topic' = topic /\ \E c \in Clicks : Appended(c)
    <3>1. PICK c \in Clicks : Appended(c)
      BY <2>3
    <3>2. Len(topic') = Len(topic) + 1 /\ Len(topic) \in Nat
      BY <3>1, AppendedTopic, LenProperties DEF PipelineTypeOK
    <3> QED BY <2>3, <3>2
  <2>4. ASSUME NEW c \in Clicks, visit[c] = "sending", Appended(c)
        PROVE  /\ \A i \in DOMAIN topic : i \in DOMAIN topic' /\ topic'[i] = topic[i]
               /\ \A d \in Clicks : InTopic(d) # {} => InTopic(d)' # {}
               /\ \A d \in Clicks : InTopic(d)' # {} => InTopic(d) # {} \/ visit[d] = "sending"
               /\ \A d \in Clicks : Appended(d) => InTopic(d)' # {}
    <3>1. \A d \in Clicks : Appended(d) => InTopic(d)' # {}
      BY <2>2
    <3> QED BY <2>2, <2>4, <3>1
  <2> QED BY <1>1, <2>1, <2>3, <2>4
<1>4. \A c \in Clicks : InTopic(c)' # {} => visit'[c] \in {"sending", "sent", "unsent"}
  BY <1>2, <1>3 DEF Delivered, Made
<1>5. \A c \in Clicks : visit'[c] = "sent" => InTopic(c)' # {}
  <2> SUFFICES ASSUME NEW c \in Clicks, visit'[c] = "sent" PROVE InTopic(c)' # {}
    OBVIOUS
  <2>1. visit[c] = "sent" \/ Appended(c)
    BY Course
  <2> QED BY <1>3, <2>1 DEF Delivered
<1>6. \A v \in Events : fate'[Raw(v)] # "unseen" =>
        \E i \in DOMAIN topic' : topic'[i] = <<v[1], v[2]>>
  <2> SUFFICES ASSUME NEW v \in Events, fate'[Raw(v)] # "unseen"
               PROVE  \E i \in DOMAIN topic' : topic'[i] = <<v[1], v[2]>>
    OBVIOUS
  <2>1. \E i \in DOMAIN topic : topic[i] = <<v[1], v[2]>>
    BY Receives DEF Delivered
  <2> QED BY <1>3, <2>1
<1>7. \A c \in Clicks : InTopic(c)' # {} => c \in Made'
  BY <1>4 DEF Made
<1> QED BY <1>5, <1>6, <1>7 DEF Delivered

\* Where a consumer starts is in the topic, and what it resolved too.
LEMMA Offsets ==
  ASSUME PipelineTypeOK
  PROVE  /\ JoinAt \in 0..Len(topic) /\ Len(topic) \in Nat
         /\ Commit => Resolved \in 0..Len(topic)
         /\ \A c \in Clicks : Cardinality({i \in InTopic(c) : i > JoinAt /\ i <= position}) \in Nat
         /\ \A c \in Clicks : Cardinality(Rewinds(c)) \in Nat
<1>1. Len(topic) \in Nat /\ JoinAt \in 0..Len(topic)
  BY LenProperties DEF PipelineTypeOK, JoinAt
<1>2. Commit => Resolved \in 0..Len(topic)
  <2> SUFFICES ASSUME Commit PROVE Resolved \in 0..Len(topic)
    OBVIOUS
  <2>1. position \in 0..Len(topic) /\ Resolved \in {position, position - 1}
    BY DEF PipelineTypeOK, Resolved
  <2>2. Resolved >= 1
    BY <1>1, <2>1 DEF Commit
  <2> QED BY <1>1, <2>1, <2>2
<1>3. \A c \in Clicks : Cardinality({i \in InTopic(c) : i > JoinAt /\ i <= position}) \in Nat
  BY InTopicFinite, FS_Subset, FS_CardinalityType
<1>4. \A c \in Clicks : Cardinality(Rewinds(c)) \in Nat
  <2>1. \A c \in Clicks : Rewinds(c) \subseteq InTopic(c)
    BY DEF Rewinds
  <2> QED BY <2>1, InTopicFinite, FS_Subset, FS_CardinalityType
<1> QED BY <1>1, <1>2, <1>3, <1>4

\* The variables keep their types, and no attempt to connect is made when none is left.
LEMMA TypesKept ==
  ASSUME PipelineTypeOK, consumer = "starting" => tries > 0, [PipelineNext]_all
  PROVE  PipelineTypeOK' /\ (consumer' = "starting" => tries' > 0)
<1>0. /\ visit \in [Clicks -> Visits] /\ row \subseteq Clicks /\ stat \subseteq Clicks
      /\ topic \in Seq(Messages) /\ Len(topic) \in Nat
      /\ committed \in (0..Len(topic)) \cup {NoOffset} /\ position \in 0..Len(topic)
      /\ consumer \in {"starting", "on", "off"} /\ tries \in 0..ConnectTries
      /\ repeated \in [Clicks -> Nat] /\ faults \in 0..MaxFaults
  BY LenProperties DEF PipelineTypeOK
<1>1. /\ topic' \in Seq(Messages) /\ Len(topic') \in Nat /\ Len(topic) <= Len(topic')
  <2>1. CASE topic' = topic
    BY <1>0, <2>1
  <2>2. ASSUME NEW c \in Clicks, Appended(c)
        PROVE  topic' \in Seq(Messages) /\ Len(topic') = Len(topic) + 1
    BY <2>2, AppendedTopic
  <2> QED BY <1>0, <2>1, <2>2, TopicGrows
<1>2. /\ \A o \in 0..Len(topic) : o \in 0..Len(topic')
  BY <1>0, <1>1
<1>3. /\ Copies \in Nat /\ ConnectTries \in Nat \ {0} /\ MaxFaults \in Nat
  BY PipelineAssumption
<1>4. Fault => faults' \in 0..MaxFaults
  BY <1>0, <1>3 DEF Fault
<1>5. ASSUME NEW c \in Clicks, Visitor(c)
      PROVE  /\ visit' \in [Clicks -> Visits] /\ row' \subseteq Clicks /\ stat' \subseteq Clicks
             /\ UNCHANGED <<committed, position, consumer, tries, repeated>>
             /\ faults' \in 0..MaxFaults
  <2>1. CASE redirect(c) \/ Inserted(c) \/ Updated(c)
    BY <1>0, <2>1 DEF redirect, Inserted, Updated, GoOn, Visits
  <2>2. CASE RecordFails(c)
    BY <1>0, <1>4, <2>2 DEF RecordFails, GoOn, Visits
  <2> QED BY <1>5, <2>1, <2>2 DEF Visitor
<1>6. ASSUME NEW c \in Clicks, Sender(c)
      PROVE  /\ visit' \in [Clicks -> Visits] /\ repeated' \in [Clicks -> Nat]
             /\ UNCHANGED <<row, stat, committed, position, consumer, tries>>
             /\ faults' \in 0..MaxFaults
  <2>1. CASE SendSucceeds(c)
    BY <1>0, <2>1 DEF SendSucceeds, GoOn, Visits
  <2>2. CASE SendFails(c)
    BY <1>0, <1>4, <2>2 DEF SendFails, GoOn, Visits
  <2>3. CASE AnswerLost(c)
    BY <1>0, <1>4, <2>3 DEF AnswerLost
  <2> QED BY <1>6, <2>1, <2>2, <2>3 DEF Sender
<1>7. CASE eachMessage
  <2>1. position' \in 0..Len(topic) /\ topic' = topic
    BY <1>0, <1>7 DEF eachMessage
  <2> QED BY <1>0, <1>7, <2>1 DEF eachMessage, PipelineTypeOK
<1>8. CASE Commit
  BY <1>0, <1>8, Offsets DEF Commit, PipelineTypeOK
<1>9. CASE Rejoin
  <2>1. repeated' \in [Clicks -> Nat]
    <3> DEFINE Again(c) == Cardinality({i \in InTopic(c) : i > JoinAt /\ i <= position})
    <3>1. repeated' = [c \in Clicks |-> repeated[c] + Again(c)]
      BY <1>9 DEF Rejoin
    <3>2. \A c \in Clicks : Again(c) \in Nat
      BY Offsets
    <3> HIDE DEF Again
    <3> QED BY <1>0, <3>1, <3>2
  <2> QED BY <1>0, <1>4, <1>9, <2>1, Offsets DEF Rejoin, PipelineTypeOK
<1>10. CASE Connect
  BY <1>0, <1>10, Offsets DEF Connect, PipelineTypeOK
<1>11. CASE ConnectFails
  <2>1. tries' \in 0..ConnectTries /\ (consumer' = "starting" => tries' > 0)
    BY <1>0, <1>3, <1>11 DEF ConnectFails
  <2> QED BY <1>0, <1>11, <2>1 DEF ConnectFails, PipelineTypeOK
<1>12. CASE Processor \/ UNCHANGED all
  BY <1>0, <1>12 DEF Processor, pipe, all, PipelineTypeOK
<1>13. CASE Restart
  <2>1. repeated' \in [Clicks -> Nat]
    <3>1. repeated' = [c \in Clicks |-> repeated[c] + Cardinality(Rewinds(c))]
      BY <1>13 DEF Restart
    <3> QED BY <1>0, <3>1, Offsets
  <2>2. visit' \in [Clicks -> Visits]
    <3>1. visit' = [c \in Clicks |-> CASE visit[c] \in {"insert", "update"} -> "refused"
                                       [] visit[c] = "sending" -> "unsent"
                                       [] OTHER -> visit[c]]
      BY <1>13 DEF Restart
    <3>2. \A c \in Clicks : visit'[c] \in Visits
      BY <1>0, <3>1 DEF Visits
    <3> QED BY <3>1, <3>2
  <2>3. consumer' = "starting" /\ tries' = ConnectTries
        /\ UNCHANGED <<row, stat, committed, position, faults>>
    BY <1>13 DEF Restart
  <2> QED BY <1>0, <1>1, <1>2, <1>3, <2>1, <2>2, <2>3 DEF PipelineTypeOK
<1>14. ASSUME NEW c \in Clicks, Visitor(c) \/ Sender(c)
       PROVE  PipelineTypeOK' /\ (consumer' = "starting" => tries' > 0)
  BY <1>0, <1>1, <1>2, <1>5, <1>6, <1>14 DEF PipelineTypeOK
<1> QED BY <1>7, <1>8, <1>9, <1>10, <1>11, <1>12, <1>13, <1>14 DEF PipelineNext

\* A batch is flushed with all retries, one is used up, or the batch is gone.
LEMMA RetriesUsed ==
  ASSUME IInv, [PipelineNext]_all, PipelineTypeOK, NEW d \in Calls, NEW k \in Kinds
  PROVE  \/ flush'[d][k] = flush[d][k]
         \/ flush'[d][k].batch = <<>>
         \/ flush'[d][k].left = MaxRetries
         \/ /\ FlushRetries(d, k)
            /\ flush'[d][k] = [batch |-> flush[d][k].batch, left |-> flush[d][k].left - 1]
<1>0. flush \in [Calls -> [Kinds -> [batch : Seq(Entries), left : 0..MaxRetries]]]
  BY DEF IInv, Typed
<1>s. \A s : StartFlush(s).left = MaxRetries
  BY DEF StartFlush
<1>n. NoFlush.batch = <<>>
  BY DEF NoFlush
<1>1. ASSUME NEW c \in Clicks, Visitor(c) \/ Sender(c) PROVE flush' = flush
  BY <1>1 DEF Visitor, Sender, redirect, Inserted, Updated, RecordFails,
              SendSucceeds, AnswerLost, SendFails, vars
<1>2. CASE eachMessage
  <2>1. PICK v \in Events : processClickEvent(v)
    BY <1>2, HandsOver
  <2>2. \/ flush' = flush
        \/ \E c \in Calls, j \in Kinds : \E s : flush' = [flush EXCEPT ![c][j] = StartFlush(s)]
    <3>1. KindOf[v] \in Kinds
      BY EventsAssumption
    <3> QED BY <2>1, <3>1 DEF processClickEvent, Receive
  <2>3. CASE flush' = flush
    BY <2>3
  <2>4. ASSUME NEW c \in Calls, NEW j \in Kinds, NEW s, flush' = [flush EXCEPT ![c][j] = StartFlush(s)]
        PROVE  flush'[d][k] = flush[d][k] \/ flush'[d][k].left = MaxRetries
    <3>1. flush'[d][k] = IF c = d /\ j = k THEN StartFlush(s) ELSE flush[d][k]
      BY <1>0, <2>4
    <3> QED BY <3>1, <1>s
  <2> QED BY <2>2, <2>3, <2>4
<1>3. CASE Commit \/ Rejoin \/ Connect \/ ConnectFails
  BY <1>3 DEF Commit, Rejoin, Connect, ConnectFails, vars
<1>4. ASSUME NEW c \in Calls, Tick(c)
      PROVE  \/ flush'[d][k] = flush[d][k]
             \/ flush'[d][k].batch = <<>>
             \/ flush'[d][k].left = MaxRetries
  <2>1. flush' = [flush EXCEPT ![c] = [j \in Kinds |-> IF buffer[j] = <<>>
                                                      THEN NoFlush
                                                      ELSE StartFlush(buffer[j])]]
    BY <1>4 DEF Tick, flushAllBuffers
  <2>2. flush'[d][k] \in {flush[d][k], NoFlush, StartFlush(buffer[k])}
    BY <1>0, <2>1
  <2> QED BY <2>2, <1>s, <1>n
<1>5. ASSUME NEW c \in Calls, NEW j \in Kinds, FlushSaved(c, j) \/ FlushFails(c, j)
      PROVE  flush'[d][k] = flush[d][k] \/ flush'[d][k].batch = <<>>
  <2>1. flush' = [flush EXCEPT ![c][j] = NoFlush]
    BY <1>5 DEF FlushSaved, FlushFails
  <2> QED BY <1>0, <1>n, <2>1
<1>6. ASSUME NEW c \in Calls, NEW j \in Kinds, FlushRetries(c, j)
      PROVE  \/ flush'[d][k] = flush[d][k]
             \/ /\ FlushRetries(d, k)
                /\ flush'[d][k] = [batch |-> flush[d][k].batch, left |-> flush[d][k].left - 1]
  <2>1. flush' = [flush EXCEPT ![c][j] = [batch |-> @.batch, left |-> @.left - 1]]
    BY <1>6 DEF FlushRetries
  <2>2. flush'[d][k] = IF c = d /\ j = k
                       THEN [batch |-> flush[d][k].batch, left |-> flush[d][k].left - 1]
                       ELSE flush[d][k]
    BY <1>0, <2>1
  <2> QED BY <1>6, <2>2
<1>7. CASE Restart
  <2>1. flush' = [c \in Calls |-> [j \in Kinds |-> NoFlush]]
    BY <1>7 DEF Restart, Kill, Die
  <2> QED BY <1>n, <2>1
<1>8. CASE UNCHANGED all
  BY <1>8 DEF all, vars
<1>9. CASE Processor
  BY <1>4, <1>5, <1>6, <1>9 DEF Processor
<1> QED BY <1>1, <1>2, <1>3, <1>7, <1>8, <1>9 DEF PipelineNext

\* How an entry can come to an end, and how often attempts with it have failed by then.
LEMMA Ends ==
  ASSUME IInv, [PipelineNext]_all, PipelineTypeOK, LastAttempt, NEW e \in Entries
  PROVE  /\ failed'[e] >= failed[e] /\ failed[e] \in Nat /\ failed'[e] \in Nat
         /\ fate'[e] # "reported"
         /\ fate'[e] = "dropped" => fate[e] = "dropped" \/ failed'[e] > MaxRetries
         /\ stops' = 0 => stops = 0 /\ fate'[e] \notin {"stopped", "killed"}
<1>0. /\ failed \in [Entries -> Nat] /\ fate \in [Entries -> Fates]
      /\ stops \in 0..MaxStops /\ MaxStops \in Nat /\ MaxRetries \in Nat
      /\ \A d \in Calls, k \in Kinds : flush[d][k].left \in 0..MaxRetries
  BY DeploymentAssumption, TuningAssumption DEF IInv, Typed
<1>1. fate[e] # "reported" /\ (stops = 0 => fate[e] \notin {"stopped", "killed"})
  BY DEF LastAttempt
<1>2. ASSUME UNCHANGED <<fate, failed, stops>>
      PROVE  /\ failed'[e] >= failed[e] /\ failed[e] \in Nat /\ failed'[e] \in Nat
             /\ fate'[e] # "reported"
             /\ fate'[e] = "dropped" => fate[e] = "dropped" \/ failed'[e] > MaxRetries
             /\ stops' = 0 => stops = 0 /\ fate'[e] \notin {"stopped", "killed"}
  BY <1>0, <1>1, <1>2
<1>3. ASSUME NEW c \in Clicks, Visitor(c) \/ Sender(c) PROVE UNCHANGED <<fate, failed, stops>>
  BY <1>3 DEF Visitor, Sender, redirect, Inserted, Updated, RecordFails,
              SendSucceeds, AnswerLost, SendFails, vars
<1>4. CASE eachMessage
  <2>1. PICK v \in Events :
           /\ fate' = [g \in Entries |-> IF g.event = v THEN "pending" ELSE fate[g]]
           /\ UNCHANGED <<failed, stops>>
    BY <1>4, HandsOver
  <2> QED BY <1>0, <1>1, <2>1
<1>5. CASE Commit \/ Rejoin \/ Connect \/ ConnectFails \/ UNCHANGED all
  <2>1. UNCHANGED <<fate, failed, stops>>
    BY <1>5 DEF Commit, Rejoin, Connect, ConnectFails, vars, all
  <2> QED BY <2>1, <1>2
<1>6. ASSUME NEW c \in Calls, Tick(c) PROVE UNCHANGED <<fate, failed, stops>>
  BY <1>6 DEF Tick, flushAllBuffers
<1>7. ASSUME NEW d \in Calls, NEW k \in Kinds,
             FlushSaved(d, k) \/ FlushRetries(d, k) \/ FlushFails(d, k)
      PROVE  /\ failed'[e] >= failed[e] /\ failed[e] \in Nat /\ failed'[e] \in Nat
             /\ fate'[e] # "reported"
             /\ fate'[e] = "dropped" => fate[e] = "dropped" \/ failed'[e] > MaxRetries
             /\ stops' = 0 => stops = 0 /\ fate'[e] \notin {"stopped", "killed"}
  <2> DEFINE B == Range(flush[d][k].batch)
  <2>1. stops' = stops
    BY <1>7 DEF FlushSaved, FlushRetries, FlushFails
  <2>2. /\ e \notin B => fate'[e] = fate[e] /\ failed'[e] = failed[e]
        /\ e \in B => \/ fate'[e] = "saved" /\ failed'[e] = failed[e]
                      \/ fate'[e] \in {"pending", "dropped"} /\ failed'[e] = failed[e] + 1
        /\ e \in B => fate[e] = "pending"
    BY <1>7, FlushSteps
  <2>3. fate'[e] = "dropped" /\ e \in B => flush[d][k].left = 0
    <3>1. FlushSaved(d, k) /\ e \in B => fate'[e] = "saved"
      BY DEF FlushSaved, Saved
    <3>2. FlushRetries(d, k) => fate'[e] = fate[e]
      BY DEF FlushRetries
    <3>3. FlushFails(d, k) => flush[d][k].left = 0
      BY DEF FlushFails
    <3> QED BY <1>7, <2>2, <3>1, <3>2, <3>3
  <2>4. e \in B => failed[e] >= MaxRetries - flush[d][k].left
    BY DEF LastAttempt
  <2> HIDE DEF B
  <2>5. fate'[e] = "dropped" => fate[e] = "dropped" \/ failed'[e] > MaxRetries
    BY <1>0, <2>2, <2>3, <2>4
  <2> QED BY <1>0, <1>1, <2>1, <2>2, <2>5
<1>8. CASE Processor
  BY <1>2, <1>6, <1>7, <1>8 DEF Processor
<1>9. CASE Restart
  <2>1. /\ fate' = [g \in Entries |-> IF fate[g] = "pending" THEN "killed" ELSE fate[g]]
        /\ stops' = stops + 1 /\ failed' = failed
    BY <1>9 DEF Restart, Kill, Die
  <2> QED BY <1>0, <1>1, <2>1
<1> QED BY <1>2, <1>3, <1>4, <1>5, <1>8, <1>9 DEF PipelineNext

\* A batch has failed as often as retries were used.
LEMMA LastAttemptKept ==
  ASSUME IInv, IInv', [PipelineNext]_all, PipelineTypeOK, LastAttempt
  PROVE  LastAttempt'
<1>1. ASSUME NEW d \in Calls, NEW k \in Kinds, NEW e \in Range(flush'[d][k].batch)
      PROVE  failed'[e] >= MaxRetries - flush'[d][k].left
  <2>0. /\ flush'[d][k].batch \in Seq(Entries) /\ flush'[d][k].left \in 0..MaxRetries
        /\ flush[d][k].left \in 0..MaxRetries /\ MaxRetries \in Nat
    <3>1. /\ flush  \in [Calls -> [Kinds -> [batch : Seq(Entries), left : 0..MaxRetries]]]
          /\ flush' \in [Calls -> [Kinds -> [batch : Seq(Entries), left : 0..MaxRetries]]]
      BY DEF IInv, Typed
    <3> QED BY <3>1, TuningAssumption
  <2>1. e \in Entries
    BY <2>0, LenProperties DEF Range
  <2>2. failed'[e] >= failed[e] /\ failed[e] \in Nat /\ failed'[e] \in Nat
    BY <2>1, Ends
  <2>3. CASE flush'[d][k] = flush[d][k]
    <3>1. failed[e] >= MaxRetries - flush[d][k].left
      BY <2>3 DEF LastAttempt
    <3> QED BY <2>0, <2>2, <2>3, <3>1
  <2>4. flush'[d][k].batch # <<>>
    BY EmptyRange
  <2>5. CASE flush'[d][k].left = MaxRetries
    BY <2>0, <2>2, <2>5
  <2>6. CASE /\ FlushRetries(d, k)
             /\ flush'[d][k] = [batch |-> flush[d][k].batch, left |-> flush[d][k].left - 1]
    <3>1. flush'[d][k].batch = flush[d][k].batch /\ flush'[d][k].left = flush[d][k].left - 1
      BY <2>6
    <3>2. failed[e] >= MaxRetries - flush[d][k].left
      BY <3>1 DEF LastAttempt
    <3>3. failed'[e] = failed[e] + 1
      <4>1. e \in Range(flush[d][k].batch)
        BY <3>1
      <4> QED BY <2>1, <2>6, <4>1 DEF FlushRetries, AttemptFails
    <3>4. failed[e] \in Nat /\ flush[d][k].left \in Int /\ MaxRetries \in Int
      BY <2>0, <2>2
    <3>5. failed[e] + 1 >= MaxRetries - (flush[d][k].left - 1)
      BY <3>2, <3>4
    <3> QED BY <3>1, <3>3, <3>5
  <2> QED BY <2>3, <2>4, <2>5, <2>6, RetriesUsed
<1>2. \A e \in Entries : fate'[e] = "dropped" => failed'[e] > MaxRetries
  <2> SUFFICES ASSUME NEW e \in Entries, fate'[e] = "dropped" PROVE failed'[e] > MaxRetries
    OBVIOUS
  <2>1. fate[e] = "dropped" => failed[e] > MaxRetries
    BY DEF LastAttempt
  <2> QED BY <2>1, Ends, TuningAssumption
<1>3. \A e \in Entries : fate'[e] # "reported"
  BY Ends
<1>4. stops' = 0 => \A e \in Entries : fate'[e] \notin {"stopped", "killed"}
  BY Ends
<1> QED BY <1>1, <1>2, <1>3, <1>4 DEF LastAttempt

\* While nothing has failed, the consumer skips nothing.
LEMMA UnbrokenKept ==
  ASSUME PipelineTypeOK, IInv, IInv', Unbroken, [PipelineNext]_all
  PROVE  Unbroken'
<1> SUFFICES ASSUME faults' = 0, stops' = 0
             PROVE  /\ consumer' = "starting" => topic' = <<>> /\ \A c \in Clicks : visit'[c] = "new"
                    /\ \A i \in 1..position' : \E v \in Events :
                         topic'[i] = <<v[1], v[2]>> /\ fate'[Raw(v)] # "unseen"
  BY DEF Unbroken
<1>0. /\ topic \in Seq(Messages) /\ Len(topic) \in Nat /\ DOMAIN topic = 1..Len(topic)
      /\ committed \in (0..Len(topic)) \cup {NoOffset} /\ position \in 0..Len(topic)
      /\ visit \in [Clicks -> Visits] /\ faults \in Nat /\ stops \in Nat
  BY LenProperties, DeploymentAssumption, PipelineAssumption DEF PipelineTypeOK, IInv, Typed
<1>1. ~Fault /\ ~Restart
  BY <1>0 DEF Fault, Restart, Kill, Die
<1>2. UNCHANGED <<faults, stops>>
  <2>1. ASSUME NEW c \in Clicks, Visitor(c) \/ Sender(c) PROVE UNCHANGED <<faults, stops>>
    BY <1>1, <2>1 DEF Visitor, Sender, redirect, Inserted, Updated, RecordFails,
                      SendSucceeds, AnswerLost, SendFails, vars
  <2>2. CASE eachMessage
    BY <2>2, HandsOver DEF eachMessage
  <2>3. CASE Commit \/ Connect \/ ConnectFails \/ UNCHANGED all
    BY <2>3 DEF Commit, Connect, ConnectFails, vars, pipe, all
  <2>4. ASSUME NEW d \in Calls, Tick(d) PROVE stops' = stops
    BY <2>4 DEF Tick, flushAllBuffers
  <2>5. ASSUME NEW d \in Calls, NEW k \in Kinds,
               FlushSaved(d, k) \/ FlushRetries(d, k) \/ FlushFails(d, k)
        PROVE  stops' = stops
    BY <2>5 DEF FlushSaved, FlushRetries, FlushFails
  <2>6. CASE Processor
    BY <2>4, <2>5, <2>6 DEF Processor, pipe
  <2> QED BY <1>1, <2>1, <2>2, <2>3, <2>6 DEF PipelineNext, Rejoin
<1>3. /\ consumer = "starting" => topic = <<>> /\ \A c \in Clicks : visit[c] = "new"
      /\ \A i \in 1..position : \E v \in Events :
           topic[i] = <<v[1], v[2]>> /\ fate[Raw(v)] # "unseen"
  BY <1>2 DEF Unbroken
<1>4. \A i \in 1..position : i \in DOMAIN topic /\ topic'[i] = topic[i]
  <2>1. \A i \in 1..position : i \in DOMAIN topic
    BY <1>0
  <2>2. \A i \in DOMAIN topic : topic'[i] = topic[i]
    BY TopicGrows, AppendedTopic
  <2> QED BY <2>1, <2>2
<1>5. \A w \in Events : fate[Raw(w)] # "unseen" => fate'[Raw(w)] # "unseen"
  BY Receives
<1>6. \A i \in 1..position : \E v \in Events :
        topic'[i] = <<v[1], v[2]>> /\ fate'[Raw(v)] # "unseen"
  BY <1>3, <1>4, <1>5
<1>7. CASE position' = position /\ (consumer' = "starting" => consumer = "starting")
  <2>1. consumer = "starting" => topic' = topic /\ \A c \in Clicks : visit'[c] = visit[c]
    <3>1. consumer = "starting" => \A c \in Clicks : visit[c] = "new"
      BY <1>3
    <3> QED BY <3>1, Course, TopicGrows
  <2> QED BY <1>3, <1>6, <1>7, <2>1
<1>8. CASE eachMessage
  <2>1. position' = position + 1 /\ consumer' = "on" /\ topic' = topic
    BY <1>8 DEF eachMessage
  <2>2. PICK v \in Events :
           /\ topic[position + 1] = <<v[1], v[2]>>
           /\ fate' = [e \in Entries |-> IF e.event = v THEN "pending" ELSE fate[e]]
    BY <1>8, HandsOver
  <2>3. fate'[Raw(v)] = "pending"
    BY <2>2, EntryShape
  <2>5. \A i \in 1..position' : i \in 1..position \/ i = position + 1
    BY <1>0, <2>1
  <2> QED BY <1>6, <2>1, <2>2, <2>3, <2>5
<1>9. CASE Connect
  <2>1. topic = <<>> /\ position' = JoinAt /\ consumer' = "on"
    BY <1>3, <1>9 DEF Connect
  <2>2. JoinAt = 0
    BY <1>0, <2>1, Offsets
  <2>3. 1..position' = {}
    BY <2>1, <2>2
  <2> QED BY <2>1, <2>3
<1>10. \/ position' = position /\ (consumer' = "starting" => consumer = "starting")
       \/ eachMessage
       \/ Connect
  <2>1. ASSUME NEW c \in Clicks, Visitor(c) \/ Sender(c) PROVE position' = position /\ consumer' = consumer
    BY <2>1 DEF Visitor, Sender, redirect, Inserted, Updated, RecordFails,
                SendSucceeds, AnswerLost, SendFails
  <2>2. CASE Commit \/ ConnectFails \/ Processor \/ UNCHANGED all
    BY <2>2 DEF Commit, ConnectFails, Processor, pipe, all
  <2> QED BY <1>1, <2>1, <2>2 DEF PipelineNext, Rejoin
<1> QED BY <1>7, <1>8, <1>9, <1>10

-----------------------------------------------------------------------------
(* The invariant holds *)

\* In the beginning nothing was made, sent, handed over or counted.
LEMMA PipelineStarts == PipelineInit => IInv /\ PInv
<1> SUFFICES ASSUME PipelineInit PROVE IInv /\ PInv
  OBVIOUS
<1>1. /\ visit = [c \in Clicks |-> "new"] /\ row = {} /\ stat = {} /\ topic = <<>>
      /\ committed = NoOffset /\ position = 0
      /\ consumer = "starting" /\ tries = ConnectTries
      /\ repeated = [c \in Clicks |-> 0] /\ faults = 0
  BY DEF PipelineInit
<1>2. /\ \A e \in Entries : fate[e] = "unseen"
      /\ \A c \in Calls, k \in Kinds : flush[c][k].batch = <<>>
  BY DEF PipelineInit, Init, NoFlush
<1>3. topic \in Seq(Messages) /\ Len(topic) = 0 /\ DOMAIN topic = {}
  BY <1>1
<1>4. PipelineTypeOK /\ tries > 0
  BY <1>1, <1>3, PipelineAssumption DEF PipelineTypeOK, Visits
<1>5. \A c : InTopic(c) = {}
  BY <1>3 DEF InTopic
<1>6. Numbered /\ Delivered /\ Recorded
  BY <1>1, <1>2, <1>3, <1>5, EntryShape DEF Numbered, Delivered, Recorded, Made
<1>7. LastAttempt
  BY <1>2, EmptyRange DEF LastAttempt
<1>8. Unbroken
  BY <1>1 DEF Unbroken
<1> QED BY <1>4, <1>6, <1>7, <1>8, InitIInv DEF PInv, PipelineInit

\* Every step keeps it.
LEMMA PipelineKeeps == IInv /\ PInv /\ [PipelineNext]_all => (IInv /\ PInv)'
<1> SUFFICES ASSUME IInv, PInv, [PipelineNext]_all PROVE IInv' /\ PInv'
  OBVIOUS
<1>1. IInv'
  BY ProcessorSteps, NextIInv DEF PInv
<1>2. PipelineTypeOK' /\ (consumer' = "starting" => tries' > 0)
  BY TypesKept DEF PInv
<1>3. Numbered' /\ Delivered' /\ Recorded'
  BY NumberedKept, DeliveredKept, RecordedKept DEF PInv
<1>4. LastAttempt'
  BY <1>1, LastAttemptKept DEF PInv
<1>5. Unbroken'
  BY <1>1, UnbrokenKept DEF PInv
<1> QED BY <1>1, <1>2, <1>3, <1>4, <1>5 DEF PInv

\* So it holds in every state of the pipeline.
LEMMA PipelineInvariant == PipelineSpec => [](IInv /\ PInv)
BY PipelineStarts, PipelineKeeps, PTL DEF PipelineSpec

\* What is counted was received, so a click that is counted is in the topic.
LEMMA CountedIsReceived ==
  ASSUME IInv, NEW c
  PROVE  /\ Tally[c] > 0 /\ c \in Clicks => \E v \in EventsOf(c) : fate[Raw(v)] # "unseen"
         /\ c \in Clicks => Tally[c] = Sum(applied, EventsOf(c)) /\ Tally[c] \in Nat
<1>1. applied \in [Entries -> Nat] /\ failed \in [Entries -> Nat]
  BY DEF IInv, Typed
<1>2. IsFiniteSet(EventsOf(c)) /\ EventsOf(c) \in SUBSET Events
  BY EventsOfFinite
<1>3. \A v \in Events : fate[Raw(v)] = "unseen" => applied[Raw(v)] = 0
  <2> SUFFICES ASSUME NEW v \in Events, fate[Raw(v)] = "unseen" PROVE applied[Raw(v)] = 0
    OBVIOUS
  <2>1. Raw(v) \in Entries
    BY EntryShape
  <2>2. failed[Raw(v)] = 0
    BY <2>1 DEF IInv, UnseenIsUntouched
  <2> QED BY <2>1, <2>2 DEF IInv, CountedOncePerAttempt
<1>4. c \in Clicks => Tally[c] = Sum(applied, EventsOf(c))
  BY DEF Tally
<1>5. Sum(applied, EventsOf(c)) \in Nat
  BY <1>1, <1>2, SumType
<1>6. (\A v \in EventsOf(c) : fate[Raw(v)] = "unseen") => Sum(applied, EventsOf(c)) = 0
  BY <1>1, <1>2, <1>3, SumPositive
<1> QED BY <1>4, <1>5, <1>6

-----------------------------------------------------------------------------
(* The theorems *)

\* Type correctness: the requests, the tables, the topic and the offsets hold what they
\* should; an offset never points beyond the topic, and no attempt to connect is made when
\* none is left (redirect.controller.ts:33-61, kafka-consumer.service.ts:36-110).
THEOREM PipelineTypes == PipelineSpec => []PipelineTypeOK
<1>1. PInv => PipelineTypeOK
  BY DEF PInv
<1> QED BY <1>1, PipelineInvariant, PTL

\* Whatever is in the topic or in the counter of a link is in link_click_events and in
\* link_click_stats, and so is every visitor who is redirected, through any number of
\* duplicates, redeliveries and restarts (clicks.service.ts:24-39,
\* redirect.controller.ts:44-61).
THEOREM ClicksAreRecordedFirst == PipelineSpec => []RecordedFirst
<1>1. IInv /\ PInv => RecordedFirst
  <2> SUFFICES ASSUME IInv, PInv, NEW c \in Clicks, c \in Made \/ InTopic(c) # {} \/ Tally[c] > 0
               PROVE  stat \subseteq row /\ c \in stat
    BY DEF RecordedFirst, PInv, Recorded
  <2>1. InTopic(c) # {} => c \in Made
    BY DEF PInv, Delivered
  <2>2. Tally[c] > 0 => InTopic(c) # {}
    <3> SUFFICES ASSUME Tally[c] > 0 PROVE InTopic(c) # {}
      OBVIOUS
    <3>1. PICK v \in EventsOf(c) : fate[Raw(v)] # "unseen"
      BY CountedIsReceived
    <3>2. v \in Events /\ v[1] = c
      BY DEF EventsOf
    <3>3. PICK i \in DOMAIN topic : topic[i] = <<v[1], v[2]>>
      BY <3>1, <3>2 DEF PInv, Delivered
    <3>4. i \in InTopic(c)
      BY <3>2, <3>3 DEF InTopic
    <3> QED BY <3>4
  <2> QED BY <2>1, <2>2 DEF PInv, Recorded
<1> QED BY <1>1, PipelineInvariant, PTL

\* A click that was sent, is on its way no more and was never counted has an excuse, for
\* any batch size, number of retries and overlap of flushes: without a fault, a stop or a
\* consumer that gave up, the last attempt to save it has failed
\* (kafka-consumer.service.ts:36-110, click-processor.service.ts:265-297).
THEOREM UncountedHaveExcuses == PipelineSpec => []UncountedIsExcused
<1>1. IInv /\ PInv => UncountedIsExcused
  <2> SUFFICES ASSUME IInv, PInv, NEW c \in Clicks,
                      visit[c] = "sent", Owed[c] = 0, Tally[c] = 0,
                      ~(faults > 0), ~(stops > 0), consumer # "off"
               PROVE  \E v \in EventsOf(c) : failed[Raw(v)] > MaxRetries
    BY DEF UncountedIsExcused
  <2>0. /\ faults = 0 /\ stops = 0 /\ consumer \in {"starting", "on"}
        /\ topic \in Seq(Messages) /\ Len(topic) \in Nat /\ DOMAIN topic = 1..Len(topic)
        /\ position \in 0..Len(topic)
    BY LenProperties, PipelineAssumption, DeploymentAssumption
       DEF PInv, PipelineTypeOK, IInv, Typed
  <2>1. consumer = "on"
    BY <2>0 DEF PInv, Unbroken
  <2>2. PICK i \in DOMAIN topic : topic[i][1] = c
    BY DEF PInv, Delivered, InTopic
  <2>3. /\ {j \in InTopic(c) : j > position} = {}
        /\ {v \in EventsOf(c) : fate[Raw(v)] = "pending"} = {}
    <3> DEFINE S == {c} \cap {d \in Clicks : visit[d] = "sending"}
               W == {j \in InTopic(c) : j > NextOffset}
               P == {v \in EventsOf(c) : fate[Raw(v)] = "pending"}
    <3>1. Owed[c] = Cardinality(S) + Cardinality(W) + Cardinality(P)
      BY DEF Owed
    <3>2. IsFiniteSet(S) /\ IsFiniteSet(W) /\ IsFiniteSet(P)
      <4>1. IsFiniteSet({c})
        BY FS_Singleton
      <4>2. IsFiniteSet(S)
        BY <4>1, FS_Subset
      <4>3. IsFiniteSet(W)
        BY InTopicFinite, FS_Subset DEF PInv
      <4> QED BY <4>2, <4>3, EventsOfFinite, FS_Subset
    <3> HIDE DEF S, W, P
    <3>3. Cardinality(S) \in Nat /\ Cardinality(W) \in Nat /\ Cardinality(P) \in Nat
      BY <3>2, FS_CardinalityType
    <3>4. Cardinality(W) = 0 /\ Cardinality(P) = 0
      BY <3>1, <3>3
    <3>5. W = {} /\ P = {}
      BY <3>2, <3>4, FS_EmptySet
    <3> QED BY <2>1, <3>5 DEF W, P, NextOffset
  <2>4. i \in 1..position
    BY <2>0, <2>2, <2>3 DEF InTopic
  <2>5. PICK v \in Events : topic[i] = <<v[1], v[2]>> /\ fate[Raw(v)] # "unseen"
    BY <2>0, <2>4 DEF PInv, Unbroken
  <2>6. v \in EventsOf(c) /\ Raw(v) \in Entries
    BY <2>2, <2>5, EntryShape DEF EventsOf
  <2>7. fate[Raw(v)] \in {"saved", "dropped"}
    BY <2>0, <2>3, <2>5, <2>6 DEF PInv, LastAttempt, IInv, Typed, Fates
  <2>8. fate[Raw(v)] # "saved"
    <3> SUFFICES ASSUME fate[Raw(v)] = "saved" PROVE FALSE
      OBVIOUS
    <3>1. applied \in [Entries -> Nat] /\ failed \in [Entries -> Nat]
      BY DEF IInv, Typed
    <3>2. applied[Raw(v)] > 0
      BY <2>6, <3>1 DEF IInv, CountedOncePerAttempt
    <3>3. Sum(applied, EventsOf(c)) > 0
      BY <2>6, <3>1, <3>2, EventsOfFinite, SumTerm
    <3> QED BY <3>3, CountedIsReceived
  <2> QED BY <2>6, <2>7, <2>8 DEF PInv, LastAttempt
<1> QED BY <1>1, PipelineInvariant, PTL

-----------------------------------------------------------------------------
(* The ledger of a click *)

\* The offsets at which a click waits in the topic, and the events of it in memory.
Waits(c)    == {i \in InTopic(c) : i > NextOffset}
InMemory(c) == {v \in EventsOf(c) : fate[Raw(v)] = "pending"}

\* What the ledger says of a click, in the numbers it is made of.
Account(c) ==
  /\ IsFiniteSet(Waits(c)) /\ IsFiniteSet(InMemory(c))
  /\ Cardinality(Waits(c)) \in Nat /\ Cardinality(InMemory(c)) \in Nat
  /\ Sum(failed, EventsOf(c)) \in Nat /\ repeated[c] \in Nat
  /\ Tally[c] = Sum(applied, EventsOf(c)) /\ Tally[c] \in Nat
  /\ Mishaps[c] = repeated[c] + Sum(failed, EventsOf(c))
  /\ Owed[c] = (IF visit[c] = "sending" THEN 1 ELSE 0)
                 + Cardinality(Waits(c)) + Cardinality(InMemory(c))
  /\ c \in Made <=> visit[c] \in {"sending", "sent", "unsent"}

AccountsOpen == \A c \in Clicks : Account(c)

\* The account of a click that no visitor made is empty.
UnmadeIsNothing ==
  \A c \in Clicks : c \notin Made =>
    /\ InTopic(c) = {} /\ Waits(c) = {}
    /\ \A v \in EventsOf(c) : fate[Raw(v)] = "unseen"
    /\ Owed[c] = 0 /\ Tally[c] = 0 /\ Mishaps[c] = repeated[c]

\* Every click has an account in every state.
LEMMA Accounts == IInv /\ PInv => AccountsOpen
<1> SUFFICES ASSUME IInv, PInv, NEW c \in Clicks PROVE Account(c)
  BY DEF AccountsOpen
<1>1. applied \in [Entries -> Nat] /\ failed \in [Entries -> Nat]
  BY DEF IInv, Typed
<1>2. IsFiniteSet(EventsOf(c)) /\ EventsOf(c) \in SUBSET Events
  BY EventsOfFinite
<1>3. IsFiniteSet(Waits(c)) /\ Cardinality(Waits(c)) \in Nat
  BY InTopicFinite, FS_Subset, FS_CardinalityType DEF PInv, Waits
<1>4. IsFiniteSet(InMemory(c)) /\ Cardinality(InMemory(c)) \in Nat
  BY <1>2, FS_Subset, FS_CardinalityType DEF InMemory
<1>5. Sum(failed, EventsOf(c)) \in Nat /\ Sum(applied, EventsOf(c)) \in Nat
  BY <1>1, <1>2, SumType
<1>6. repeated[c] \in Nat
  BY DEF PInv, PipelineTypeOK
<1>7. Tally[c] = Sum(applied, EventsOf(c)) /\ Mishaps[c] = repeated[c] + Sum(failed, EventsOf(c))
  BY DEF Tally, Mishaps
<1>8. Owed[c] = (IF visit[c] = "sending" THEN 1 ELSE 0)
                  + Cardinality(Waits(c)) + Cardinality(InMemory(c))
  <2>1. Owed[c] = Cardinality({c} \cap {d \in Clicks : visit[d] = "sending"})
                    + Cardinality(Waits(c)) + Cardinality(InMemory(c))
    BY DEF Owed, Waits, InMemory
  <2>2. CASE visit[c] = "sending"
    <3>1. {c} \cap {d \in Clicks : visit[d] = "sending"} = {c}
      BY <2>2
    <3>2. Cardinality({c}) = 1
      BY FS_Singleton
    <3> QED BY <2>1, <2>2, <3>1, <3>2
  <2>3. CASE visit[c] # "sending"
    <3>1. {c} \cap {d \in Clicks : visit[d] = "sending"} = {}
      BY <2>3
    <3> QED BY <2>1, <2>3, <3>1, FS_EmptySet
  <2> QED BY <2>2, <2>3
<1>9. c \in Made <=> visit[c] \in {"sending", "sent", "unsent"}
  BY DEF Made
<1> QED BY <1>3, <1>4, <1>5, <1>6, <1>7, <1>8, <1>9 DEF Account

\* Of a click that nobody made there is no trace, since only what was sent is in the topic.
LEMMA Unmade == IInv /\ PInv => UnmadeIsNothing
<1> SUFFICES ASSUME IInv, PInv, NEW c \in Clicks, c \notin Made
             PROVE  /\ InTopic(c) = {} /\ Waits(c) = {}
                    /\ \A v \in EventsOf(c) : fate[Raw(v)] = "unseen"
                    /\ Owed[c] = 0 /\ Tally[c] = 0 /\ Mishaps[c] = repeated[c]
  BY DEF UnmadeIsNothing
<1>1. InTopic(c) = {} /\ Waits(c) = {}
  BY DEF PInv, Delivered, Waits
<1>2. \A v \in EventsOf(c) : fate[Raw(v)] = "unseen"
  <2> SUFFICES ASSUME NEW v \in EventsOf(c), fate[Raw(v)] # "unseen" PROVE FALSE
    OBVIOUS
  <2>1. v \in Events /\ v[1] = c
    BY DEF EventsOf
  <2>2. PICK i \in DOMAIN topic : topic[i] = <<v[1], v[2]>>
    BY <2>1 DEF PInv, Delivered
  <2>3. i \in InTopic(c)
    BY <2>1, <2>2 DEF InTopic
  <2> QED BY <1>1, <2>3
<1>3. Account(c)
  BY Accounts DEF AccountsOpen
<1>4. InMemory(c) = {}
  BY <1>2 DEF InMemory
<1>5. visit[c] # "sending" /\ Cardinality(Waits(c)) = 0 /\ Cardinality(InMemory(c)) = 0
  BY <1>1, <1>4, FS_EmptySet DEF Made
<1>6. Sum(failed, EventsOf(c)) = 0
  <2>1. \A v \in EventsOf(c) : failed[Raw(v)] = 0
    <3> SUFFICES ASSUME NEW v \in EventsOf(c) PROVE failed[Raw(v)] = 0
      OBVIOUS
    <3>1. Raw(v) \in Entries
      BY EntryShape DEF EventsOf
    <3> QED BY <1>2, <3>1 DEF IInv, UnseenIsUntouched
  <2> QED BY <2>1, EventsOfFinite, SumPositive DEF IInv, Typed
<1>7. Tally[c] = 0
  BY <1>2, <1>3, CountedIsReceived DEF Account
<1> QED BY <1>1, <1>2, <1>3, <1>5, <1>6, <1>7 DEF Account

\* What a step does to a click that was made settles it, if no more is on its way than the
\* step has taken from elsewhere or excused.
LEMMA Balances ==
  ASSUME NEW c \in Clicks, Account(c), Account(c)', c \in Made, c \in Made',
         Tally'[c] >= Tally[c], Mishaps'[c] >= Mishaps[c],
         Tally'[c] # Tally[c] => Owed[c] > 0,
         Tally'[c] + Owed'[c] - Mishaps'[c] <= Tally[c] + Owed[c] - Mishaps[c]
  PROVE  Ledger!Settle(c)
BY DEF Ledger!Settle

\* A click that nobody made and nobody makes is settled.
LEMMA StaysUnmade ==
  ASSUME IInv, PInv, IInv', PInv', NEW c \in Clicks, c \notin Made, c \notin Made',
         repeated'[c] = repeated[c]
  PROVE  Ledger!Settle(c)
<1>1. Owed[c] = 0 /\ Tally[c] = 0 /\ Mishaps[c] = repeated[c]
  BY Unmade DEF UnmadeIsNothing
<1>2. UnmadeIsNothing'
  BY Unmade, PTL
<1>3. Owed'[c] = 0 /\ Tally'[c] = 0 /\ Mishaps'[c] = repeated'[c]
  BY <1>2 DEF UnmadeIsNothing
<1>4. repeated[c] \in Nat
  BY DEF PInv, PipelineTypeOK
<1> QED BY <1>1, <1>3, <1>4 DEF Ledger!Settle

\* The account of every click, before and after a step.
LEMMA BothAccounts ==
  ASSUME IInv, PInv, IInv', PInv', NEW c \in Clicks
  PROVE  Account(c) /\ Account(c)'
<1>1. AccountsOpen'
  BY Accounts, PTL
<1> QED BY <1>1, Accounts DEF AccountsOpen

\* A set that two finite sets cover has at most as many elements as both.
LEMMA Covered2 ==
  ASSUME NEW S, NEW T, IsFiniteSet(S), IsFiniteSet(T), NEW R \in SUBSET (S \cup T)
  PROVE  /\ IsFiniteSet(R) /\ Cardinality(R) \in Nat
         /\ Cardinality(R) <= Cardinality(S) + Cardinality(T)
<1>1. /\ IsFiniteSet(S \cup T)
      /\ Cardinality(S \cup T) = Cardinality(S) + Cardinality(T) - Cardinality(S \cap T)
  BY FS_Union
<1>2. IsFiniteSet(R) /\ Cardinality(R) <= Cardinality(S \cup T)
  BY <1>1, FS_Subset
<1>3. /\ Cardinality(S) \in Nat /\ Cardinality(T) \in Nat /\ Cardinality(R) \in Nat
      /\ Cardinality(S \cup T) \in Nat
  BY <1>1, <1>2, FS_CardinalityType
<1>4. Cardinality(S \cap T) \in Nat
  BY FS_Intersection, FS_CardinalityType
<1> QED BY <1>1, <1>2, <1>3, <1>4

\* A click that stays where it is is settled.
LEMMA StandsStill ==
  ASSUME IInv, PInv, IInv', PInv', NEW c \in Clicks,
         visit'[c] = "sending" <=> visit[c] = "sending", c \in Made' <=> c \in Made,
         Waits(c)' = Waits(c), fate' = fate, applied' = applied, failed' = failed,
         repeated'[c] = repeated[c]
  PROVE  Ledger!Settle(c)
<1>1. Account(c) /\ Account(c)'
  BY BothAccounts
<1>2. InMemory(c)' = InMemory(c)
  BY DEF InMemory, EventsOf
<1>3. Tally'[c] = Tally[c] /\ Owed'[c] = Owed[c] /\ Mishaps'[c] = Mishaps[c]
  BY <1>1, <1>2 DEF Account, EventsOf
<1>4. Tally[c] \in Nat /\ Owed[c] \in Nat /\ Mishaps[c] \in Nat
  BY <1>1 DEF Account
<1> QED BY <1>3, <1>4 DEF Ledger!Settle

\* A visitor makes a click when it is recorded, and not before.
LEMMA VisitorSettles ==
  ASSUME IInv, PInv, IInv', PInv', NEW d \in Clicks, Visitor(d), NEW c \in Clicks
  PROVE  Ledger!Make(c) \/ Ledger!Settle(c)
<1>1. UNCHANGED <<topic, consumer, position, committed, fate, applied, failed, repeated>>
  BY DEF Visitor, redirect, Inserted, Updated, RecordFails, vars
<1>2. Waits(c)' = Waits(c)
  BY <1>1 DEF Waits, InTopic, NextOffset, JoinAt
<1>3. visit \in [Clicks -> Visits]
  BY DEF PInv, PipelineTypeOK
<1>4. Account(c) /\ Account(c)'
  BY BothAccounts
<1>5. CASE Updated(d) /\ c = d
  <2>1. visit[c] = "update" /\ visit'[c] = "sending"
    BY <1>3, <1>5 DEF Updated, GoOn
  <2>2. c \notin Made /\ c \in Made'
    BY <1>4, <2>1 DEF Account
  <2>3. Owed[c] = 0 /\ Tally[c] = 0 /\ Mishaps[c] = repeated[c] /\ Waits(c) = {}
        /\ \A v \in EventsOf(c) : fate[Raw(v)] = "unseen"
    BY <2>2, Unmade DEF UnmadeIsNothing
  <2>4. InMemory(c)' = InMemory(c)
    BY <1>1 DEF InMemory, EventsOf
  <2>5. InMemory(c) = {}
    BY <2>3 DEF InMemory
  <2>6. Owed'[c] = 1
    BY <1>2, <1>4, <2>1, <2>3, <2>4, <2>5, FS_EmptySet DEF Account
  <2>7. Tally'[c] = Tally[c] /\ Mishaps'[c] = Mishaps[c]
    BY <1>1, <1>4 DEF Account, EventsOf
  <2> QED BY <2>2, <2>6, <2>7 DEF Ledger!Make
<1>6. CASE ~(Updated(d) /\ c = d)
  <2>1. /\ visit'[c] = visit[c]
        \/ {visit[c], visit'[c]} \subseteq {"new", "insert", "update", "refused"}
    BY <1>3, <1>6 DEF Visitor, redirect, Inserted, Updated, RecordFails, GoOn
  <2>2. c \in Made' <=> c \in Made
    BY <1>4, <2>1 DEF Account
  <2> QED BY <1>1, <1>2, <2>1, <2>2, StandsStill
<1> QED BY <1>5, <1>6

\* What is sent waits in the topic, once, and once more for every answer that was lost.
LEMMA SenderSettles ==
  ASSUME IInv, PInv, IInv', PInv', NEW d \in Clicks, Sender(d), NEW c \in Clicks
  PROVE  Ledger!Settle(c)
<1> DEFINE n == Len(topic) + 1
<1>1. UNCHANGED <<consumer, position, committed, fate, applied, failed>>
  BY DEF Sender, SendSucceeds, AnswerLost, SendFails, vars
<1>2. PipelineTypeOK /\ visit \in [Clicks -> Visits] /\ repeated \in [Clicks -> Nat]
      /\ Len(topic) \in Nat
  BY Offsets DEF PInv, PipelineTypeOK
<1>3. Account(c) /\ Account(c)'
  BY BothAccounts
<1>4. /\ InMemory(c)' = InMemory(c)
      /\ Sum(applied', EventsOf(c)) = Sum(applied, EventsOf(c))
      /\ Sum(failed', EventsOf(c)) = Sum(failed, EventsOf(c))
  BY <1>1 DEF InMemory, EventsOf
<1>5. visit[d] = "sending" /\ (topic' = topic \/ Appended(d))
  BY DEF Sender, SendSucceeds, AnswerLost, SendFails, GoOn
<1>6. Appended(d) =>
        /\ Len(topic') = n
        /\ \A g : InTopic(g)' = InTopic(g) \cup {i \in {n} : g = d}
  BY <1>2, AppendedTopic
<1>7. NextOffset' >= NextOffset /\ NextOffset \in Nat /\ NextOffset' \in Nat
  <2>1. JoinAt \in Nat /\ JoinAt' \in Nat /\ JoinAt' >= JoinAt
    <3>1. Len(topic') >= Len(topic) /\ Len(topic') \in Nat
      BY <1>2, <1>5, <1>6
    <3>2. committed \in Nat \cup {NoOffset}
      BY <1>2 DEF PipelineTypeOK
    <3> QED BY <1>1, <1>2, <3>1, <3>2 DEF JoinAt
  <2>2. position \in Nat
    BY <1>2 DEF PipelineTypeOK
  <2> QED BY <1>1, <2>1, <2>2 DEF NextOffset
<1>8. c # d => InTopic(c)' \subseteq InTopic(c)
  BY <1>5, <1>6 DEF InTopic
<1>9. InTopic(c)' \subseteq InTopic(c) \cup {n}
  BY <1>5, <1>6 DEF InTopic
<1>10. Waits(c)' \subseteq Waits(c) \cup {n} /\ (c # d => Waits(c)' \subseteq Waits(c))
  <2>1. InTopic(c) \subseteq Nat
    BY <1>2, InTopicFinite
  <2>2. \A i \in InTopic(c) : i > NextOffset' => i > NextOffset
    BY <1>7, <2>1
  <2> QED BY <1>8, <1>9, <2>2 DEF Waits
<1>11. topic' = topic => Waits(c)' \subseteq Waits(c)
  <2>1. topic' = topic => Waits(c)' = Waits(c)
    BY <1>1 DEF Waits, InTopic, NextOffset, JoinAt
  <2> QED BY <2>1
<1>12. Cardinality(Waits(c)') <= Cardinality(Waits(c)) + 1
  <2>1. IsFiniteSet({n}) /\ Cardinality({n}) = 1
    BY FS_Singleton
  <2> QED BY <1>3, <1>10, <2>1, Covered2 DEF Account
<1>13. Waits(c)' \subseteq Waits(c) => Cardinality(Waits(c)') <= Cardinality(Waits(c))
  BY <1>3, FS_Subset DEF Account
<1>14. c \in Made' <=> c \in Made
  <2>1. visit'[c] = visit[c] \/ (visit[c] = "sending" /\ visit'[c] \in {"sent", "unsent"})
    BY <1>2 DEF Sender, SendSucceeds, AnswerLost, SendFails, GoOn
  <2> QED BY <1>3, <2>1 DEF Account
<1>15. CASE c # d
  <2>1. visit'[c] = visit[c] /\ repeated'[c] = repeated[c]
    BY <1>2, <1>15 DEF Sender, SendSucceeds, AnswerLost, SendFails, GoOn
  <2>2. CASE c \in Made
    <3>1. Cardinality(Waits(c)') <= Cardinality(Waits(c))
      BY <1>10, <1>13, <1>15
    <3>2. /\ Tally'[c] = Tally[c] /\ Mishaps'[c] = Mishaps[c] /\ Tally[c] \in Nat
          /\ Mishaps[c] \in Nat /\ Owed[c] \in Nat /\ Owed'[c] \in Nat /\ Owed'[c] <= Owed[c]
      BY <1>3, <1>4, <2>1, <3>1 DEF Account, EventsOf
    <3> QED BY <1>3, <1>14, <2>2, <3>2, Balances
  <2>3. CASE c \notin Made
    BY <1>14, <2>1, <2>3, StaysUnmade
  <2> QED BY <2>2, <2>3
<1>16. CASE c = d
  <2>1. c \in Made
    BY <1>3, <1>5, <1>16 DEF Account
  <2>2. CASE SendSucceeds(d) \/ SendFails(d)
    <3>1. visit'[c] # "sending" /\ repeated'[c] = repeated[c]
      BY <1>2, <1>16, <2>2 DEF SendSucceeds, SendFails, GoOn
    <3>2. /\ Tally'[c] = Tally[c] /\ Mishaps'[c] = Mishaps[c] /\ Tally[c] \in Nat
          /\ Mishaps[c] \in Nat /\ Owed[c] \in Nat /\ Owed'[c] \in Nat /\ Owed'[c] <= Owed[c]
      BY <1>3, <1>4, <1>5, <1>12, <1>16, <3>1 DEF Account, EventsOf
    <3> QED BY <1>3, <1>14, <2>1, <3>2, Balances
  <2>3. CASE AnswerLost(d)
    <3>1. visit' = visit /\ repeated'[c] = repeated[c] + 1
      BY <1>2, <1>16, <2>3 DEF AnswerLost
    <3>2. /\ Tally'[c] = Tally[c] /\ Mishaps'[c] = Mishaps[c] + 1 /\ Tally[c] \in Nat
          /\ Mishaps[c] \in Nat /\ Owed[c] \in Nat /\ Owed'[c] \in Nat /\ Owed'[c] <= Owed[c] + 1
      BY <1>3, <1>4, <1>12, <3>1 DEF Account, EventsOf
    <3> QED BY <1>3, <1>14, <2>1, <3>2, Balances
  <2> QED BY <2>2, <2>3 DEF Sender
<1> QED BY <1>15, <1>16

\* A message that is handed over waits no more; it is in memory instead.
LEMMA HandingSettles ==
  ASSUME IInv, PInv, IInv', PInv', eachMessage, NEW c \in Clicks
  PROVE  Ledger!Settle(c)
<1>1. PICK v \in Events :
         /\ topic[position + 1] = <<v[1], v[2]>> /\ position + 1 \in DOMAIN topic
         /\ fate[Raw(v)] = "unseen"
         /\ fate' = [e \in Entries |-> IF e.event = v THEN "pending" ELSE fate[e]]
         /\ UNCHANGED <<applied, failed, stops>>
  BY HandsOver DEF PInv
<1>2. /\ consumer = "on" /\ consumer' = "on" /\ position' = position + 1
      /\ UNCHANGED <<visit, topic, committed, repeated>>
  BY DEF eachMessage
<1>3. /\ position \in Nat /\ Len(topic) \in Nat /\ InTopic(c) \subseteq Nat
      /\ \A w \in EventsOf(c) : w \in Events /\ w[1] = c
  <2>1. PipelineTypeOK
    BY DEF PInv
  <2>2. position \in Nat /\ Len(topic) \in Nat
    BY <2>1, Offsets DEF PipelineTypeOK
  <2>3. InTopic(c) \subseteq Nat
    BY <2>1, InTopicFinite
  <2> QED BY <2>2, <2>3 DEF EventsOf
<1>4. Account(c) /\ Account(c)'
  BY BothAccounts
<1>5. c \in Made' <=> c \in Made
  BY <1>2, <1>4 DEF Account
<1>6. Waits(c) = {i \in InTopic(c) : i > position}
      /\ Waits(c)' = {i \in InTopic(c) : i > position + 1}
  BY <1>2 DEF Waits, NextOffset, InTopic
<1>7. \A w \in EventsOf(c) : fate'[Raw(w)] = IF w = v THEN "pending" ELSE fate[Raw(w)]
  BY <1>1, <1>3, EntryShape
<1>8. CASE v[1] # c
  <2>1. position + 1 \notin InTopic(c)
    BY <1>1, <1>8 DEF InTopic
  <2>2. Waits(c)' = Waits(c)
    BY <1>3, <1>6, <2>1
  <2>3. InMemory(c)' = InMemory(c)
    BY <1>3, <1>7, <1>8 DEF InMemory, EventsOf
  <2>4. Tally'[c] = Tally[c] /\ Owed'[c] = Owed[c] /\ Mishaps'[c] = Mishaps[c]
    BY <1>1, <1>2, <1>4, <2>2, <2>3 DEF Account, EventsOf
  <2>5. Tally[c] \in Nat /\ Owed[c] \in Nat /\ Mishaps[c] \in Nat
    BY <1>4 DEF Account
  <2> QED BY <1>5, <2>4, <2>5 DEF Ledger!Settle
<1>9. CASE v[1] = c
  <2>1. position + 1 \in Waits(c) /\ Waits(c)' = Waits(c) \ {position + 1}
    <3>1. position + 1 \in InTopic(c)
      BY <1>1, <1>9 DEF InTopic
    <3> QED BY <1>3, <1>6, <3>1
  <2>2. Cardinality(Waits(c)') = Cardinality(Waits(c)) - 1
    BY <1>4, <2>1, FS_RemoveElement DEF Account
  <2>3. v \notin InMemory(c) /\ InMemory(c)' = InMemory(c) \cup {v}
    <3>1. v \in EventsOf(c) /\ v \notin InMemory(c)
      BY <1>1, <1>9 DEF EventsOf, InMemory
    <3> QED BY <1>7, <3>1 DEF InMemory, EventsOf
  <2>4. Cardinality(InMemory(c)') = Cardinality(InMemory(c)) + 1
    BY <1>4, <2>3, FS_AddElement DEF Account
  <2>5. Tally'[c] = Tally[c] /\ Owed'[c] = Owed[c] /\ Mishaps'[c] = Mishaps[c]
    BY <1>1, <1>2, <1>4, <2>2, <2>4 DEF Account, EventsOf
  <2>6. Tally[c] \in Nat /\ Owed[c] \in Nat /\ Mishaps[c] \in Nat
    BY <1>4 DEF Account
  <2> QED BY <1>5, <2>5, <2>6 DEF Ledger!Settle
<1> QED BY <1>8, <1>9

\* Commits and attempts to connect move no click.
LEMMA OffsetsSettle ==
  ASSUME IInv, PInv, IInv', PInv', Commit \/ Connect \/ ConnectFails, NEW c \in Clicks
  PROVE  Ledger!Settle(c)
<1>1. UNCHANGED <<visit, topic, repeated, fate, applied, failed>>
  BY DEF Commit, Connect, ConnectFails, vars
<1>2. NextOffset' = NextOffset
  <2>1. CASE Commit
    BY <2>1 DEF Commit, NextOffset
  <2>2. CASE Connect
    BY <2>2 DEF Connect, NextOffset, JoinAt
  <2>3. CASE ConnectFails
    BY <2>3 DEF ConnectFails, NextOffset, JoinAt
  <2> QED BY <2>1, <2>2, <2>3
<1>3. Waits(c)' = Waits(c)
  BY <1>1, <1>2 DEF Waits, InTopic
<1> QED BY <1>1, <1>3, StandsStill DEF Made

\* A rebalance makes the messages wait again that it repeats.
LEMMA RejoinSettles ==
  ASSUME IInv, PInv, IInv', PInv', Rejoin, NEW c \in Clicks
  PROVE  Ledger!Settle(c)
<1> DEFINE Again(d) == {i \in InTopic(d) : i > JoinAt /\ i <= position}
<1>1. /\ consumer = "on" /\ consumer' = "on" /\ position' = JoinAt
      /\ UNCHANGED <<visit, topic, committed, fate, applied, failed>>
  BY DEF Rejoin, vars
<1>2. repeated'[c] = repeated[c] + Cardinality(Again(c))
  BY DEF Rejoin
<1>3. PipelineTypeOK /\ InTopic(c) \subseteq Nat /\ position \in Nat /\ JoinAt \in Nat
  <2>1. PipelineTypeOK
    BY DEF PInv
  <2>2. position \in Nat
    BY <2>1 DEF PipelineTypeOK
  <2> QED BY <2>1, <2>2, Offsets, InTopicFinite
<1>4. Account(c) /\ Account(c)'
  BY BothAccounts
<1>5. IsFiniteSet(Again(c)) /\ Cardinality(Again(c)) \in Nat
  BY <1>3, InTopicFinite, FS_Subset, FS_CardinalityType
<1>6. Waits(c)' \subseteq Waits(c) \cup Again(c)
  <2>1. Waits(c)' = {i \in InTopic(c) : i > JoinAt}
    BY <1>1 DEF Waits, NextOffset, InTopic
  <2>2. Waits(c) = {i \in InTopic(c) : i > position}
    BY <1>1 DEF Waits, NextOffset
  <2> QED BY <1>3, <2>1, <2>2
<1>7. c \in Made' <=> c \in Made
  BY <1>1 DEF Made
<1>8. CASE c \notin Made
  <2>1. InTopic(c) = {}
    BY <1>8, Unmade DEF UnmadeIsNothing
  <2>2. Again(c) = {}
    BY <2>1
  <2>3. repeated'[c] = repeated[c]
    <3>1. repeated[c] \in Nat
      BY <1>4 DEF Account
    <3> QED BY <1>2, <2>2, <3>1, FS_EmptySet
  <2> QED BY <1>7, <1>8, <2>3, StaysUnmade
<1>9. CASE c \in Made
  <2> HIDE DEF Again
  <2>1. Cardinality(Waits(c)') <= Cardinality(Waits(c)) + Cardinality(Again(c))
    BY <1>4, <1>5, <1>6, Covered2 DEF Account
  <2>2. InMemory(c)' = InMemory(c)
    BY <1>1 DEF InMemory, EventsOf
  <2>3. /\ Tally'[c] = Tally[c] /\ Mishaps'[c] = Mishaps[c] + Cardinality(Again(c))
        /\ Owed'[c] <= Owed[c] + Cardinality(Again(c))
        /\ Tally[c] \in Nat /\ Mishaps[c] \in Nat /\ Owed[c] \in Nat /\ Owed'[c] \in Nat
    BY <1>1, <1>2, <1>4, <1>5, <2>1, <2>2 DEF Account, EventsOf
  <2> QED BY <1>4, <1>5, <1>7, <1>9, <2>3, Balances
<1> QED BY <1>8, <1>9

\* A flush counts events that are in memory, and excuses what it counts and keeps.
LEMMA FlushSettles ==
  ASSUME IInv, PInv, IInv', PInv', UNCHANGED pipe, NEW d \in Calls, NEW k \in Kinds,
         FlushSaved(d, k) \/ FlushRetries(d, k) \/ FlushFails(d, k), NEW c \in Clicks
  PROVE  Ledger!Settle(c)
<1> DEFINE B == Range(flush[d][k].batch)
           S == EventsOf(c)
           T == {v \in S : Raw(v) \in B}
<1>1. /\ \A e \in B : e \in Entries /\ fate[e] = "pending"
      /\ \A e \in Entries : e \notin B =>
           fate'[e] = fate[e] /\ applied'[e] = applied[e] /\ failed'[e] = failed[e]
      /\ \/ \A e \in B : /\ fate'[e] = "saved" /\ failed'[e] = failed[e]
                         /\ applied'[e] = applied[e] + 1
         \/ \A e \in B : /\ fate'[e] \in {"pending", "dropped"}
                         /\ failed'[e] = failed[e] + 1
                         /\ applied'[e] \in {applied[e], applied[e] + 1}
  BY FlushSteps
<1> HIDE DEF B
<1>2. /\ applied \in [Entries -> Nat] /\ applied' \in [Entries -> Nat]
      /\ failed \in [Entries -> Nat] /\ failed' \in [Entries -> Nat]
  BY DEF IInv, Typed
<1>3. UNCHANGED <<visit, topic, consumer, position, committed, repeated>>
  BY DEF pipe
<1>4. Account(c) /\ Account(c)'
  BY BothAccounts
<1>5. Waits(c)' = Waits(c) /\ (c \in Made' <=> c \in Made)
  BY <1>3 DEF Waits, InTopic, NextOffset, JoinAt, Made
<1>6. IsFiniteSet(S) /\ S \in SUBSET Events /\ \A v \in S : Raw(v) \in Entries
  BY EventsOfFinite, EntryShape
<1>7. T \in SUBSET S /\ T \subseteq InMemory(c) /\ IsFiniteSet(T) /\ Cardinality(T) \in Nat
  <2>1. T \subseteq InMemory(c)
    BY <1>1 DEF InMemory
  <2> QED BY <1>6, <2>1, FS_Subset, FS_CardinalityType
<1>8. S' = S
  BY DEF EventsOf
<1>9. CASE c \notin Made
  BY <1>3, <1>5, <1>9, StaysUnmade
<1>10. CASE c \in Made /\ \A e \in B : /\ fate'[e] = "saved" /\ failed'[e] = failed[e]
                                       /\ applied'[e] = applied[e] + 1
  <2>1. Sum(applied', S) = Sum(applied, S) + Cardinality(T)
    <3>1. \A v \in S : applied'[Raw(v)] = IF v \in T THEN applied[Raw(v)] + 1 ELSE applied[Raw(v)]
      BY <1>1, <1>6, <1>10
    <3> HIDE DEF S, T
    <3> QED BY <1>2, <1>6, <1>7, <3>1, SumAdds
  <2>2. Sum(failed', S) = Sum(failed, S)
    <3>1. \A v \in S : failed'[Raw(v)] = IF v \in {} THEN failed[Raw(v)] + 1 ELSE failed[Raw(v)]
      BY <1>1, <1>6, <1>10
    <3> HIDE DEF S, T
    <3>2. Sum(failed', S) = Sum(failed, S) + Cardinality({})
      BY <1>2, <1>6, <3>1, SumAdds
    <3>3. Sum(failed, S) \in Nat
      BY <1>2, <1>6, SumType
    <3> QED BY <3>2, <3>3, FS_EmptySet
  <2>3. InMemory(c)' = InMemory(c) \ T
    <3>1. \A v \in S : fate'[Raw(v)] = "pending" <=> fate[Raw(v)] = "pending" /\ v \notin T
      BY <1>1, <1>6, <1>10
    <3> QED BY <3>1 DEF InMemory, EventsOf
  <2>4. Cardinality(InMemory(c)') = Cardinality(InMemory(c)) - Cardinality(T)
    <3>1. InMemory(c) \cap T = T
      BY <1>7
    <3>2. IsFiniteSet(InMemory(c))
      BY <1>4 DEF Account
    <3> HIDE DEF T
    <3>3. Cardinality(InMemory(c) \ T) = Cardinality(InMemory(c)) - Cardinality(InMemory(c) \cap T)
      BY <1>7, <3>2, FS_Difference
    <3> QED BY <2>3, <3>1, <3>3
  <2>5. Cardinality(T) <= Cardinality(InMemory(c))
    BY <1>4, <1>7, FS_Subset DEF Account
  <2> HIDE DEF T
  <2>6. /\ Tally'[c] = Tally[c] + Cardinality(T) /\ Mishaps'[c] = Mishaps[c]
        /\ Owed'[c] = Owed[c] - Cardinality(T) /\ Owed[c] >= Cardinality(T)
        /\ Tally[c] \in Nat /\ Mishaps[c] \in Nat /\ Owed[c] \in Nat
    BY <1>3, <1>4, <1>5, <1>7, <1>8, <2>1, <2>2, <2>4, <2>5 DEF Account
  <2> QED BY <1>4, <1>5, <1>7, <1>10, <2>6, Balances
<1>11. CASE c \in Made /\ \A e \in B : /\ fate'[e] \in {"pending", "dropped"}
                                       /\ failed'[e] = failed[e] + 1
                                       /\ applied'[e] \in {applied[e], applied[e] + 1}
  <2> DEFINE U == {v \in T : applied'[Raw(v)] # applied[Raw(v)]}
  <2>1. U \in SUBSET S /\ U \in SUBSET T
    OBVIOUS
  <2>2. Sum(applied', S) = Sum(applied, S) + Cardinality(U)
    <3>1. \A v \in S : applied'[Raw(v)] = IF v \in U THEN applied[Raw(v)] + 1 ELSE applied[Raw(v)]
      BY <1>1, <1>6, <1>11
    <3> HIDE DEF S, T, U
    <3> QED BY <1>2, <1>6, <2>1, <3>1, SumAdds
  <2>3. Sum(failed', S) = Sum(failed, S) + Cardinality(T)
    <3>1. \A v \in S : failed'[Raw(v)] = IF v \in T THEN failed[Raw(v)] + 1 ELSE failed[Raw(v)]
      BY <1>1, <1>6, <1>11
    <3> HIDE DEF S, T, U
    <3> QED BY <1>2, <1>6, <1>7, <3>1, SumAdds
  <2>4. InMemory(c)' \subseteq InMemory(c)
    <3>1. \A v \in S : fate'[Raw(v)] = "pending" => fate[Raw(v)] = "pending"
      BY <1>1, <1>6
    <3> QED BY <3>1 DEF InMemory, EventsOf
  <2>5. Cardinality(InMemory(c)') <= Cardinality(InMemory(c))
    BY <1>4, <2>4, FS_Subset DEF Account
  <2>6. Cardinality(T) <= Cardinality(InMemory(c))
    BY <1>4, <1>7, FS_Subset DEF Account
  <2>7. Cardinality(U) <= Cardinality(T) /\ Cardinality(U) \in Nat
    <3> HIDE DEF U, T
    <3> QED BY <1>7, <2>1, FS_Subset, FS_CardinalityType
  <2> HIDE DEF T, U
  <2>8. /\ Tally'[c] = Tally[c] + Cardinality(U) /\ Mishaps'[c] = Mishaps[c] + Cardinality(T)
        /\ Owed'[c] <= Owed[c] /\ Owed[c] >= Cardinality(T)
        /\ Tally[c] \in Nat /\ Mishaps[c] \in Nat /\ Owed[c] \in Nat /\ Owed'[c] \in Nat
    BY <1>3, <1>4, <1>5, <1>7, <1>8, <2>2, <2>3, <2>5, <2>6 DEF Account
  <2> QED BY <1>4, <1>5, <1>7, <1>11, <2>7, <2>8, Balances
<1> QED BY <1>1, <1>9, <1>10, <1>11

\* What a restart loses from memory and repeats from the topic was in memory, or is a
\* mishap.
LEMMA RestartSettles ==
  ASSUME IInv, PInv, IInv', PInv', Restart, NEW c \in Clicks
  PROVE  Ledger!Settle(c)
<1> DEFINE n    == Len(topic) + 1
           Late == {i \in InTopic(c) : i > JoinAt}
           New  == {i \in {n} : visit[c] = "sending"}
           In(i) == {v \in Handed(topic[i]) : fate[Raw(v)] = "pending"}
           Back == {i \in Late : In(i) # {}}
<1>1. /\ consumer' = "starting" /\ UNCHANGED <<committed, position, applied, failed>>
      /\ repeated' = [d \in Clicks |-> repeated[d] + Cardinality(Rewinds(d))]
      /\ fate' = [e \in Entries |-> IF fate[e] = "pending" THEN "killed" ELSE fate[e]]
      /\ topic' = topic \/ \E d \in Clicks : visit[d] = "sending" /\ Appended(d)
  BY DEF Restart, Kill, Die
<1>2. visit'[c] # "sending" /\ (c \in Made' <=> c \in Made)
  <2>1. visit' = [d \in Clicks |-> CASE visit[d] \in {"insert", "update"} -> "refused"
                                     [] visit[d] = "sending" -> "unsent"
                                     [] OTHER -> visit[d]]
    BY DEF Restart
  <2>2. \/ visit[c] \in {"insert", "update"} /\ visit'[c] = "refused"
        \/ visit[c] = "sending" /\ visit'[c] = "unsent"
        \/ visit[c] \notin {"insert", "update", "sending"} /\ visit'[c] = visit[c]
    BY <2>1
  <2> QED BY <2>2 DEF Made
<1>3. PipelineTypeOK
  BY DEF PInv
<1>4. /\ Len(topic) \in Nat /\ InTopic(c) \subseteq Nat /\ position \in Nat /\ JoinAt \in Nat
      /\ committed \in Nat \cup {NoOffset} /\ IsFiniteSet(InTopic(c))
  <2>1. position \in Nat /\ committed \in Nat \cup {NoOffset}
    BY <1>3, Offsets DEF PipelineTypeOK
  <2> QED BY <1>3, <2>1, Offsets, InTopicFinite
<1>5. Account(c) /\ Account(c)'
  BY BothAccounts
<1>6. repeated'[c] = repeated[c] + Cardinality(Rewinds(c)) /\ Cardinality(Rewinds(c)) \in Nat
      /\ IsFiniteSet(Rewinds(c))
  <2>1. Rewinds(c) \subseteq InTopic(c)
    BY DEF Rewinds
  <2> QED BY <1>1, <1>4, <2>1, FS_Subset, FS_CardinalityType
<1>7. InMemory(c)' = {}
  <2>1. \A v \in EventsOf(c) : fate'[Raw(v)] # "pending"
    BY <1>1, EntryShape DEF EventsOf
  <2> QED BY <2>1 DEF InMemory, EventsOf
<1>8. Waits(c)' \subseteq Late \cup New
  <2>1. InTopic(c)' \subseteq InTopic(c) \cup New /\ JoinAt' >= JoinAt /\ JoinAt' \in Nat
    <3>1. CASE topic' = topic
      <4>1. InTopic(c)' = InTopic(c) /\ JoinAt' = JoinAt
        BY <1>1, <3>1 DEF InTopic, JoinAt
      <4> QED BY <1>4, <4>1
    <3>2. ASSUME NEW d \in Clicks, visit[d] = "sending", Appended(d)
          PROVE  InTopic(c)' \subseteq InTopic(c) \cup New /\ JoinAt' >= JoinAt /\ JoinAt' \in Nat
      <4>1. Len(topic') = n /\ InTopic(c)' = InTopic(c) \cup {i \in {n} : c = d}
        BY <1>3, <3>2, AppendedTopic
      <4>2. InTopic(c)' \subseteq InTopic(c) \cup New
        BY <3>2, <4>1
      <4>3. JoinAt' >= JoinAt /\ JoinAt' \in Nat
        BY <1>1, <1>4, <4>1 DEF JoinAt
      <4> QED BY <4>2, <4>3
    <3> QED BY <1>1, <3>1, <3>2
  <2>2. NextOffset' = JoinAt'
    BY <1>1 DEF NextOffset
  <2>3. \A i \in InTopic(c) : i > JoinAt' => i > JoinAt
    BY <1>4, <2>1
  <2>4. ASSUME NEW i \in Waits(c)' PROVE i \in Late \cup New
    <3>1. i \in InTopic(c)' /\ i > JoinAt'
      BY <2>2 DEF Waits
    <3> QED BY <2>1, <2>3, <3>1
  <2> QED BY <2>4
<1>9. IsFiniteSet(Late) /\ Cardinality(Late) \in Nat /\ IsFiniteSet(Back) /\ Cardinality(Back) \in Nat
  <2>1. Late \in SUBSET InTopic(c)
    OBVIOUS
  <2>2. IsFiniteSet(Late) /\ Cardinality(Late) \in Nat
    <3> HIDE DEF Late
    <3> QED BY <1>4, <2>1, FS_Subset, FS_CardinalityType
  <2>3. Back \in SUBSET Late
    OBVIOUS
  <2> HIDE DEF Late, Back
  <2> QED BY <2>2, <2>3, FS_Subset, FS_CardinalityType
<1>10. IsFiniteSet(New) /\ Cardinality(New) = IF visit[c] = "sending" THEN 1 ELSE 0
  <2>1. CASE visit[c] = "sending"
    <3>1. New = {n}
      BY <2>1
    <3> QED BY <2>1, <3>1, FS_Singleton
  <2>2. CASE visit[c] # "sending"
    <3>1. New = {}
      BY <2>2
    <3> QED BY <2>2, <3>1, FS_EmptySet
  <2> QED BY <2>1, <2>2
<1>11. Cardinality(Back) <= Cardinality(InMemory(c))
  <2> DEFINE f == [i \in Back |-> CHOOSE v \in In(i) : TRUE]
  <2>1. \A i \in Back : f[i] \in In(i)
    OBVIOUS
  <2>2. \A i \in Back : i \in DOMAIN topic /\ topic[i][1] = c /\ topic[i] = <<topic[i][1], topic[i][2]>>
    <3>1. \A i \in DOMAIN topic : topic[i] \in Messages
      BY <1>3, LenProperties, ElementOfSeq DEF PipelineTypeOK
    <3> QED BY <3>1, EventShape DEF InTopic
  <2> HIDE DEF f
  <2>3. \A i \in Back : /\ f[i] \in EventsOf(c) /\ fate[Raw(f[i])] = "pending"
                        /\ topic[i] = <<f[i][1], f[i][2]>>
    <3> SUFFICES ASSUME NEW i \in Back
                 PROVE  /\ f[i] \in EventsOf(c) /\ fate[Raw(f[i])] = "pending"
                        /\ topic[i] = <<f[i][1], f[i][2]>>
      OBVIOUS
    <3>1. f[i] \in EventsOf(topic[i][1]) /\ f[i][2] = topic[i][2] /\ fate[Raw(f[i])] = "pending"
      BY <2>1 DEF Handed
    <3>2. f[i][1] = topic[i][1]
      BY <3>1 DEF EventsOf
    <3> QED BY <2>2, <3>1, <3>2
  <2>4. f \in [Back -> InMemory(c)]
    <3>1. \A i \in Back : f[i] \in InMemory(c)
      BY <2>3 DEF InMemory
    <3>2. f = [i \in Back |-> f[i]]
      BY DEF f
    <3> QED BY <3>1, <3>2
  <2>5. \A i, j \in Back : f[i] = f[j] => i = j
    <3> SUFFICES ASSUME NEW i \in Back, NEW j \in Back, f[i] = f[j] PROVE i = j
      OBVIOUS
    <3>1. topic[i] = topic[j]
      BY <2>3
    <3> QED BY <2>2, <3>1 DEF PInv, Numbered
  <2>6. f \in Injection(Back, InMemory(c))
    BY <2>4, <2>5, Fun_IsInj
  <2> QED BY <1>5, <2>6, FS_Injection DEF Account
<1>12. CASE c \notin Made
  <2>1. InTopic(c) = {}
    BY <1>12, Unmade DEF UnmadeIsNothing
  <2>2. Rewinds(c) = {}
    BY <2>1 DEF Rewinds
  <2>3. repeated'[c] = repeated[c]
    <3>1. repeated[c] \in Nat
      BY <1>5 DEF Account
    <3> QED BY <1>6, <2>2, <3>1, FS_EmptySet
  <2> QED BY <1>2, <1>12, <2>3, StaysUnmade
<1>13. CASE c \in Made
  <2>1. Late \subseteq (Waits(c) \cup Rewinds(c)) \cup Back
    <3>1. CASE consumer = "on"
      <4> SUFFICES ASSUME NEW i \in Late, i \notin Waits(c), i \notin Back PROVE i \in Rewinds(c)
        OBVIOUS
      <4>1. i \in InTopic(c) /\ i > JoinAt /\ i <= position
        BY <1>4, <3>1 DEF Waits, NextOffset
      <4>2. \A v \in Handed(topic[i]) : fate[Raw(v)] # "pending"
        OBVIOUS
      <4> QED BY <4>1, <4>2 DEF Rewinds
    <3>2. CASE consumer # "on"
      BY <3>2 DEF Waits, NextOffset
    <3> QED BY <3>1, <3>2
  <2> HIDE DEF Late, New, Back
  <2>2. IsFiniteSet(Waits(c)) /\ Cardinality(Waits(c)) \in Nat
    BY <1>5 DEF Account
  <2>3. /\ IsFiniteSet(Waits(c) \cup Rewinds(c))
        /\ Cardinality(Waits(c) \cup Rewinds(c)) \in Nat
        /\ Cardinality(Waits(c) \cup Rewinds(c)) <= Cardinality(Waits(c)) + Cardinality(Rewinds(c))
    BY <1>6, <2>2, Covered2
  <2>4. Cardinality(Late) <= Cardinality(Waits(c) \cup Rewinds(c)) + Cardinality(Back)
    BY <1>9, <2>1, <2>3, Covered2
  <2>5. Cardinality(Waits(c)') <= Cardinality(Late) + Cardinality(New)
    BY <1>8, <1>9, <1>10, Covered2
  <2>6. Cardinality(InMemory(c)') = 0
    BY <1>7, FS_EmptySet
  <2>7. Tally'[c] = Tally[c] /\ Mishaps'[c] = Mishaps[c] + Cardinality(Rewinds(c))
    BY <1>1, <1>5, <1>6 DEF Account, EventsOf
  <2>8. Owed'[c] = Cardinality(Waits(c)')
    BY <1>2, <1>5, <2>6 DEF Account
  <2>9. Owed'[c] <= Owed[c] + Cardinality(Rewinds(c))
    <3>1. /\ Owed[c] = Cardinality(New) + Cardinality(Waits(c)) + Cardinality(InMemory(c))
          /\ Cardinality(InMemory(c)) \in Nat /\ Cardinality(New) \in Nat
          /\ Cardinality(Waits(c)') \in Nat
      BY <1>5, <1>10 DEF Account
    <3> QED BY <1>6, <1>9, <1>11, <2>2, <2>3, <2>4, <2>5, <2>8, <3>1
  <2>10. Tally[c] \in Nat /\ Mishaps[c] \in Nat /\ Owed[c] \in Nat /\ Owed'[c] \in Nat
    BY <1>5 DEF Account
  <2> QED BY <1>2, <1>5, <1>6, <1>13, <2>7, <2>9, <2>10, Balances
<1> QED BY <1>12, <1>13

\* A step of the processor settles every click.
LEMMA ProcessorSettles ==
  ASSUME IInv, PInv, IInv', PInv', Processor, NEW c \in Clicks
  PROVE  Ledger!Settle(c)
<1>1. UNCHANGED pipe
  BY DEF Processor
<1>2. ASSUME NEW d \in Calls, Tick(d) PROVE Ledger!Settle(c)
  <2>1. fate' = fate /\ applied' = applied /\ failed' = failed
    BY <1>2 DEF Tick, flushAllBuffers
  <2>2. Waits(c)' = Waits(c) /\ Made' = Made /\ visit' = visit /\ repeated' = repeated
    BY <1>1 DEF pipe, Waits, InTopic, NextOffset, JoinAt, Made
  <2> QED BY <2>1, <2>2, StandsStill
<1>3. ASSUME NEW d \in Calls, NEW k \in Kinds,
             FlushSaved(d, k) \/ FlushRetries(d, k) \/ FlushFails(d, k)
      PROVE  Ledger!Settle(c)
  BY <1>1, <1>3, FlushSettles
<1> QED BY <1>2, <1>3 DEF Processor

\* Accounts are numbers, and clicks that were made are clicks.
LEMMA LedgerTypes == IInv /\ PInv => Ledger!LedgerTypeOK
<1> SUFFICES ASSUME IInv, PInv PROVE Ledger!LedgerTypeOK
  OBVIOUS
<1>1. \A c \in Clicks : Tally[c] \in Nat /\ Owed[c] \in Nat /\ Mishaps[c] \in Nat
  BY Accounts DEF AccountsOpen, Account
<1>2. Tally \in [Clicks -> Nat]
  <2>1. Tally = [c \in Clicks |-> Tally[c]]
    BY DEF Tally
  <2> QED BY <1>1, <2>1
<1>3. Owed \in [Clicks -> Nat]
  <2>1. Owed = [c \in Clicks |-> Owed[c]]
    BY DEF Owed
  <2> QED BY <1>1, <2>1
<1>4. Mishaps \in [Clicks -> Nat]
  <2>1. Mishaps = [c \in Clicks |-> Mishaps[c]]
    BY DEF Mishaps
  <2> QED BY <1>1, <2>1
<1> QED BY <1>2, <1>3, <1>4 DEF Ledger!LedgerTypeOK, Made

\* The ledger begins empty.
LEMMA LedgerStarts == PipelineInit => Ledger!LedgerInit
<1> SUFFICES ASSUME PipelineInit PROVE Ledger!LedgerInit
  OBVIOUS
<1>1. IInv /\ PInv
  BY PipelineStarts
<1>2. Made = {} /\ repeated = [c \in Clicks |-> 0]
  BY DEF PipelineInit, Made
<1>3. \A c \in Clicks : Owed[c] = 0 /\ Tally[c] = 0 /\ Mishaps[c] = 0
  BY <1>1, <1>2, Unmade DEF UnmadeIsNothing
<1>4. Tally = [c \in Clicks |-> 0]
  BY <1>3 DEF Tally
<1>5. Owed = [c \in Clicks |-> 0]
  BY <1>3 DEF Owed
<1>6. Mishaps = [c \in Clicks |-> 0]
  BY <1>3 DEF Mishaps
<1> QED BY <1>2, <1>4, <1>5, <1>6 DEF Ledger!LedgerInit

\* Every step of the pipeline is a step of the ledger, or leaves it as it is.
LEMMA LedgerSteps == IInv /\ PInv /\ [PipelineNext]_all => [Ledger!LedgerNext]_(Ledger!ledger)
<1> SUFFICES ASSUME IInv, PInv, PipelineNext PROVE Ledger!LedgerNext
  <2>1. UNCHANGED all => UNCHANGED Ledger!ledger
    BY DEF all, vars, pipe, Ledger!ledger, Made, Tally, Owed, Mishaps, InTopic, NextOffset,
           JoinAt, EventsOf
  <2> QED BY <2>1
<1>1. IInv' /\ PInv'
  BY PipelineKeeps
<1>2. Ledger!LedgerTypeOK'
  BY <1>1, LedgerTypes, PTL
<1>3. ASSUME NEW c \in Clicks PROVE Ledger!Make(c) \/ Ledger!Settle(c)
  <2>1. ASSUME NEW d \in Clicks, Visitor(d) PROVE Ledger!Make(c) \/ Ledger!Settle(c)
    BY <1>1, <2>1, VisitorSettles
  <2>2. ASSUME NEW d \in Clicks, Sender(d) PROVE Ledger!Settle(c)
    BY <1>1, <2>2, SenderSettles
  <2>3. CASE eachMessage
    BY <1>1, <2>3, HandingSettles
  <2>4. CASE Commit \/ Connect \/ ConnectFails
    BY <1>1, <2>4, OffsetsSettle
  <2>5. CASE Rejoin
    BY <1>1, <2>5, RejoinSettles
  <2>6. CASE Processor
    BY <1>1, <2>6, ProcessorSettles
  <2>7. CASE Restart
    BY <1>1, <2>7, RestartSettles
  <2> QED BY <2>1, <2>2, <2>3, <2>4, <2>5, <2>6, <2>7 DEF PipelineNext
<1> QED BY <1>2, <1>3 DEF Ledger!LedgerNext

\* The pipeline keeps the ledger: visitors, the producer, the topic, the consumer and the
\* processor together count a click once, and once more at most for every message that
\* came twice, was handed over again, or was in an attempt that failed
\* (redirect.controller.ts:47, kafka-consumer.service.ts:78-110,
\* click-processor.service.ts:265-297).
THEOREM PipelineKeepsTheLedger == PipelineSpec => ImplementsLedger
<1>1. PipelineSpec => Ledger!LedgerSpec
  BY LedgerStarts, LedgerSteps, PipelineInvariant, PTL DEF PipelineSpec, Ledger!LedgerSpec
<1> QED BY <1>1 DEF ImplementsLedger

Balance == INSTANCE ClickLedgerProofs
             WITH made <- Made, tally <- Tally, owed <- Owed, mishaps <- Mishaps

\* So no click is counted more often than once and once for each mishap that befell it,
\* and none before a visitor made it (redirect.controller.ts:47,
\* click-processor.service.ts:265-297).
THEOREM CountsAreAccountedFor == PipelineSpec => []Ledger!CountedAtMostOncePerMishap
<1>1. Ledger!LedgerSpec => Balance!LedgerSpec
  BY DEF Ledger!LedgerSpec, Balance!LedgerSpec, Ledger!LedgerInit, Balance!LedgerInit,
         Ledger!LedgerNext, Balance!LedgerNext, Ledger!Make, Balance!Make, Ledger!Settle,
         Balance!Settle, Ledger!LedgerTypeOK, Balance!LedgerTypeOK, Ledger!ledger, Balance!ledger
<1>2. Balance!CountedAtMostOncePerMishap => Ledger!CountedAtMostOncePerMishap
  BY DEF Ledger!CountedAtMostOncePerMishap, Balance!CountedAtMostOncePerMishap
<1> QED BY <1>1, <1>2, PipelineKeepsTheLedger, Balance!LedgerBalances, PTL DEF ImplementsLedger
=============================================================================
