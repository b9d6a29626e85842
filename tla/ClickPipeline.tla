--------------------------- MODULE ClickPipeline ---------------------------
(***************************************************************************)
(* The way of a click from the visitor to the counter of the link:         *)
(* RedirectController, ClicksService.recordClick, KafkaProducerService,    *)
(* the topic url.clicks, KafkaConsumerService and ClickProcessor.          *)
(*                                                                         *)
(* A visitor's click is written to link_click_events and link_click_stats, *)
(* one command after the other; then the visitor is redirected, and the    *)
(* click goes to Kafka, which nobody waits for.  The consumer hands one    *)
(* message after the other to ClickProcessor and commits offsets from time *)
(* to time.  A consumer that joins again starts from the committed offset; *)
(* without one it starts at the end of the topic (fromBeginning: false).   *)
(*                                                                         *)
(* The clicks of a link are in one partition of the topic, the one of its  *)
(* key; this is that partition.  The error topic is left out: nothing      *)
(* reads it.                                                               *)
(***************************************************************************)
EXTENDS ClickProcessor

CONSTANTS
  Clicks,
  Copies,        \* bound on how often a click gets into the topic
  Deliveries,    \* bound on how often a message is handed over
  ConnectTries,  \* the attempts of KafkaConsumerService.onModuleInit
  NoOffset,
  MaxFaults      \* bound on commands that fail, lost answers of Kafka, and rebalances

Messages == Clicks \X (1..Copies)

\* Every event is a click, with the timestamp that JSON.parse leaves: a string, so the dead
\* letter queue stays empty and has no steps here.
ASSUME PipelineAssumption ==
  /\ Copies \in Nat \ {0} /\ Deliveries \in Nat \ {0} /\ ConnectTries \in Nat \ {0}
  /\ MaxFaults \in Nat /\ NoOffset \notin Nat
  /\ Events = {<<m[1], m[2], n>> : m \in Messages, n \in 1..Deliveries}
  /\ \A v \in Events : KindOf[v] = "click"
  /\ ~TimestampIsDate

VARIABLES
  visit,      \* where the request of a visitor is
  row, stat,  \* the clicks in link_click_events, and in link_click_stats
  topic,      \* url.clicks
  committed,  \* the offset that the consumer group has committed
  position,   \* how many messages of the topic the consumer has passed
  consumer, tries,
  \* history
  repeated,   \* how often a click was sent or handed over again
  faults

pipe == <<visit, row, stat, topic, committed, position, consumer, tries, repeated, faults>>
all  == <<vars, pipe>>

Visits == {"new", "insert", "update", "sending", "sent", "unsent", "refused"}

PipelineTypeOK ==
  /\ visit \in [Clicks -> Visits]
  /\ row \subseteq Clicks /\ stat \subseteq Clicks
  /\ topic \in Seq(Messages)
  /\ committed \in (0..Len(topic)) \cup {NoOffset}
  /\ position \in 0..Len(topic)
  /\ consumer \in {"starting", "on", "off"} /\ tries \in 0..ConnectTries
  /\ repeated \in [Clicks -> Nat]
  /\ faults \in 0..MaxFaults

PipelineInit ==
  /\ Init
  /\ visit = [c \in Clicks |-> "new"]
  /\ row = {} /\ stat = {}
  /\ topic = <<>>
  /\ committed = NoOffset /\ position = 0
  /\ consumer = "starting" /\ tries = ConnectTries
  /\ repeated = [c \in Clicks |-> 0]
  /\ faults = 0

Fault == faults < MaxFaults /\ faults' = faults + 1

-----------------------------------------------------------------------------
(* GET /:shortCode *)

GoOn(c, from, to) == visit[c] = from /\ visit' = [visit EXCEPT ![c] = to]

\* The server listens when the consumer has connected or given up.
redirect(c) ==
  /\ consumer # "starting"
  /\ GoOn(c, "new", "insert")
  /\ UNCHANGED <<vars, row, stat, topic, committed, position, consumer, tries, repeated, faults>>

\* The slip of a counter that is updated without being awaited.
Inserted_NotAwaited(c) ==
  /\ GoOn(c, "insert", "sending")
  /\ row' = row \cup {c}
  /\ UNCHANGED <<vars, stat, topic, committed, position, consumer, tries, repeated, faults>>

\* recordClick: the event first, then the counter
Inserted(c) ==
  /\ GoOn(c, "insert", "update")
  /\ row' = row \cup {c}
  /\ UNCHANGED <<vars, stat, topic, committed, position, consumer, tries, repeated, faults>>

\* The visitor is redirected, while the click is being sent.
Updated(c) ==
  /\ GoOn(c, "update", "sending")
  /\ stat' = stat \cup {c}
  /\ UNCHANGED <<vars, row, topic, committed, position, consumer, tries, repeated, faults>>

\* A command fails, executed or not, and the visitor gets an error.
RecordFails(c) ==
  /\ Fault
  /\ \/ GoOn(c, "insert", "refused") /\ row' \in {row, row \cup {c}} /\ UNCHANGED stat
     \/ GoOn(c, "update", "refused") /\ stat' \in {stat, stat \cup {c}} /\ UNCHANGED row
  /\ UNCHANGED <<vars, topic, committed, position, consumer, tries, repeated>>

-----------------------------------------------------------------------------
(* sendClickEvent *)

InTopic(c) == {i \in DOMAIN topic : topic[i][1] = c}

Appended(c) ==
  /\ Cardinality(InTopic(c)) < Copies
  /\ topic' = Append(topic, <<c, Cardinality(InTopic(c)) + 1>>)

SendSucceeds(c) ==
  /\ GoOn(c, "sending", "sent")
  /\ Appended(c)
  /\ UNCHANGED <<vars, row, stat, committed, position, consumer, tries, repeated, faults>>

\* The broker's answer is lost and the client of Kafka sends the click again.
AnswerLost(c) ==
  /\ Fault
  /\ visit[c] = "sending"
  /\ Cardinality(InTopic(c)) + 1 < Copies
  /\ Appended(c)
  /\ repeated' = [repeated EXCEPT ![c] = @ + 1]
  /\ UNCHANGED <<vars, visit, row, stat, committed, position, consumer, tries>>

\* The retries are used up; the error goes to the error topic and to nobody else.
SendFails(c) ==
  /\ Fault
  /\ GoOn(c, "sending", "unsent")
  /\ topic' = topic \/ Appended(c)
  /\ UNCHANGED <<vars, row, stat, committed, position, consumer, tries, repeated>>

-----------------------------------------------------------------------------
(* The consumer *)

EventsOf(c) == {v \in Events : v[1] = c}

\* The events that a message has been handed over as: one for every time.
Handed(m) == {v \in EventsOf(m[1]) : v[2] = m[2] /\ fate[Raw(v)] # "unseen"}

\* eachMessage, as far as processClickEvent goes before it awaits
eachMessage ==
  /\ consumer = "on" /\ position < Len(topic)
  /\ LET m == topic[position + 1]
     IN  /\ Cardinality(Handed(m)) < Deliveries
         /\ processClickEvent(<<m[1], m[2], Cardinality(Handed(m)) + 1>>)
  /\ position' = position + 1
  /\ UNCHANGED <<visit, row, stat, topic, committed, consumer, tries, repeated, faults>>

\* The messages whose eachMessage is over
Resolved == IF awaiting = NoCall THEN position ELSE position - 1

\* The client of Kafka commits what is resolved.
Commit ==
  /\ consumer = "on" /\ committed # Resolved
  /\ \E i \in 1..Resolved : Handed(topic[i]) # {}
  /\ committed' = Resolved
  /\ UNCHANGED <<vars, visit, row, stat, topic, position, consumer, tries, repeated, faults>>

\* Where a consumer starts that joins the group
JoinAt == IF committed = NoOffset THEN Len(topic) ELSE committed

\* History: messages that are no longer in memory and will be handed over again.
Rewinds(c) ==
  {i \in InTopic(c) : i > JoinAt /\ i <= position
     /\ \A v \in Handed(topic[i]) : fate[Raw(v)] # "pending"}

\* A flush took longer than the session of the consumer: the group rebalances.
Rejoin ==
  /\ Fault
  /\ consumer = "on" /\ awaiting = NoCall
  /\ position' = JoinAt
  /\ repeated' = [c \in Clicks |-> repeated[c] +
                    Cardinality({i \in InTopic(c) : i > JoinAt /\ i <= position})]
  /\ UNCHANGED <<vars, visit, row, stat, topic, committed, consumer, tries>>

Connect ==
  /\ consumer = "starting"
  /\ consumer' = "on" /\ position' = JoinAt
  /\ UNCHANGED <<vars, visit, row, stat, topic, committed, tries, repeated, faults>>

\* The slip of looking at the attempts left before one is used up.
ConnectFails_OneMore ==
  /\ consumer = "starting"
  /\ tries' = tries - 1
  /\ consumer' = IF tries < 0 THEN "off" ELSE "starting"
  /\ UNCHANGED <<vars, visit, row, stat, topic, committed, position, repeated, faults>>

\* "Application will continue without Kafka consumer functionality"
ConnectFails ==
  /\ consumer = "starting"
  /\ tries' = tries - 1
  /\ consumer' = IF tries' = 0 THEN "off" ELSE "starting"
  /\ UNCHANGED <<vars, visit, row, stat, topic, committed, position, repeated, faults>>

\* The process ends, however it ends, and a new one starts.  What was being sent is in
\* the topic or not.
Restart ==
  /\ Kill
  /\ consumer' = "starting" /\ tries' = ConnectTries
  /\ \/ UNCHANGED topic
     \/ \E c \in Clicks : visit[c] = "sending" /\ Appended(c)
  /\ visit' = [c \in Clicks |-> CASE visit[c] \in {"insert", "update"} -> "refused"
                                  [] visit[c] = "sending" -> "unsent"
                                  [] OTHER -> visit[c]]
  /\ repeated' = [c \in Clicks |-> repeated[c] + Cardinality(Rewinds(c))]
  /\ UNCHANGED <<row, stat, committed, position, faults>>

-----------------------------------------------------------------------------

Processor ==
  /\ \/ \E c \in Calls : Tick(c)
     \/ \E c \in Calls, k \in Kinds : FlushSaved(c, k) \/ FlushRetries(c, k) \/ FlushFails(c, k)
  /\ UNCHANGED pipe

Visitor(c) == redirect(c) \/ Inserted(c) \/ Updated(c) \/ RecordFails(c)
Sender(c)  == SendSucceeds(c) \/ AnswerLost(c) \/ SendFails(c)

PipelineNext ==
  \/ \E c \in Clicks : Visitor(c) \/ Sender(c)
  \/ eachMessage \/ Commit \/ Rejoin \/ Connect \/ ConnectFails
  \/ Processor
  \/ Restart

PipelineSpec == PipelineInit /\ [][PipelineNext]_all

\* Commands and sends come back with an answer or an error, the consumer goes on or gives
\* up, and so does the processor.  Visitors need not come, and nothing need fail.
PipelineFairness ==
  /\ \A c \in Clicks : WF_all(Inserted(c) \/ Updated(c)) /\ WF_all(Sender(c))
  /\ WF_all(eachMessage)
  /\ WF_all(Connect \/ ConnectFails)
  /\ \A c \in Calls : WF_all(Tick(c) /\ UNCHANGED pipe)
  /\ \A c \in Calls, k \in Kinds :
       WF_all((FlushSaved(c, k) \/ FlushRetries(c, k) \/ FlushFails(c, k)) /\ UNCHANGED pipe)

FairPipeline == PipelineSpec /\ PipelineFairness

-----------------------------------------------------------------------------
(* Properties *)

\* The sum of f over the events of S, as the number of pairs <<v, i>> with i up to f
Sum(f, S) == Cardinality(UNION {{v} \X (1..f[Raw(v)]) : v \in S})

Made == {c \in Clicks : visit[c] \in {"sending", "sent", "unsent"}}

Tally == [c \in Clicks |-> Sum(applied, EventsOf(c))]

NextOffset == IF consumer = "on" THEN position ELSE JoinAt

\* A click is on its way while it is sent, waits in the topic or is in memory.
Owed ==
  [c \in Clicks |-> Cardinality({c} \cap {d \in Clicks : visit[d] = "sending"})
                      + Cardinality({i \in InTopic(c) : i > NextOffset})
                      + Cardinality({v \in EventsOf(c) : fate[Raw(v)] = "pending"})]

Mishaps == [c \in Clicks |-> repeated[c] + Sum(failed, EventsOf(c))]

Ledger == INSTANCE ClickLedger
            WITH made <- Made, tally <- Tally, owed <- Owed, mishaps <- Mishaps

\* The pipeline keeps the ledger of clicks: through duplicates in the topic, redelivery,
\* retries of half-executed saves and restarts, a click is counted once and once more at
\* most for each of them (redirect.controller.ts:47, kafka-consumer.service.ts:78-110,
\* click-processor.service.ts:265-297).
ImplementsLedger == Ledger!LedgerSpec

\* A visitor who is redirected is in link_click_events and in link_click_stats, and so is
\* whatever gets into the topic or the counter of the link; the stats never run ahead of
\* the events (clicks.service.ts:24-39, redirect.controller.ts:44-61).
RecordedFirst ==
  /\ stat \subseteq row
  /\ \A c \in Clicks : c \in Made \/ InTopic(c) # {} \/ Tally[c] > 0 => c \in stat

\* A click that was sent and is no longer on its way is in the counter, unless something
\* failed, the process ended, the consumer gave up or the last attempt to save it failed
\* (kafka-consumer.service.ts:36-110).
UncountedIsExcused ==
  \A c \in Clicks : visit[c] = "sent" /\ Owed[c] = 0 /\ Tally[c] = 0 =>
    \/ faults > 0 \/ stops > 0 \/ consumer = "off"
    \/ \E v \in EventsOf(c) : failed[Raw(v)] > MaxRetries

\* A click does not stay on its way for ever while there is a consumer
\* (kafka-consumer.service.ts:77-110, click-processor.service.ts:391-397).
ClicksArrive == \A c \in Clicks : Owed[c] > 0 ~> Owed[c] = 0 \/ consumer = "off"
=============================================================================
