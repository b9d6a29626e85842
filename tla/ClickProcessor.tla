--------------------------- MODULE ClickProcessor ---------------------------
(***************************************************************************)
(* ClickProcessorService: src/src/modules/clicks/click-processor.service.ts *)
(*                                                                         *)
(* Events arrive one at a time from the Kafka consumer and wait in two     *)
(* in-memory buffers.  A buffer is flushed when it holds a batch, and every *)
(* five seconds by a timer that does not wait for the flush before.  A     *)
(* flush saves its batch, trying again a few times; the events of a batch  *)
(* that could not be saved go to an in-memory dead letter queue, which the *)
(* timer retries and which, after enough failures, is emptied into the     *)
(* error topic.                                                            *)
(*                                                                         *)
(* JavaScript runs one callback at a time, so an action is what runs       *)
(* between two awaits.  What waits at an await is a call in progress:      *)
(* flush[c] and retry[c] hold what call c of flushAllBuffers (or the one   *)
(* flush of a full buffer) is saving.  A save attempt ends in one step,    *)
(* and an attempt that fails may have reached part of the database.        *)
(***************************************************************************)
EXTENDS Integers, Sequences, FiniteSets, Functions

CONSTANTS
  Events,               \* the messages the consumer hands over
  KindOf,               \* the topic of an event
  Codes, CodeOf,        \* event.shortCode
  Stamps, StampOf,      \* event.timestamp, to the millisecond
  BatchSize,            \* BATCH_SIZE
  MaxRetries,           \* MAX_RETRIES
  DeadLetterThreshold,  \* DEAD_LETTER_THRESHOLD
  TimestampIsDate,      \* TRUE: a Date, as ClickEvent declares;
                        \* FALSE: a string, as JSON.parse delivers it
  ShutdownHooks,        \* app.enableShutdownHooks(); main.ts does not call it
  Calls,                \* bound on the flushes in progress at the same time
  NoCall,
  MaxStops              \* bound on the deaths of the process

Kinds == {"click", "analytics"}

ASSUME EventsAssumption ==
  /\ KindOf  \in [Events -> Kinds]
  /\ CodeOf  \in [Events -> Codes]
  /\ StampOf \in [Events -> Stamps]
ASSUME TuningAssumption ==
  /\ BatchSize \in Nat \ {0, 1}
  /\ MaxRetries \in Nat
  /\ DeadLetterThreshold \in Nat \ {0}
ASSUME DeploymentAssumption ==
  /\ TimestampIsDate \in BOOLEAN
  /\ ShutdownHooks \in BOOLEAN
  /\ MaxStops \in Nat
ASSUME CallsAssumption == NoCall \notin Calls

\* What a buffer holds: a click once, an analytics event as it came and enriched.
Entries == {e \in [event : Events, copy : {"raw", "enriched"}] :
              e.copy = "enriched" => KindOf[e.event] = "analytics"}

Raw(v)      == [event |-> v, copy |-> "raw"]
Enriched(v) == [event |-> v, copy |-> "enriched"]

\* `${kind}:${event.shortCode}:${event.timestamp.getTime()}`
MapKeys == Kinds \X Codes \X Stamps
Key(e)  == <<KindOf[e.event], CodeOf[e.event], StampOf[e.event]>>

Items == [entry : Entries, failures : Nat \ {0}]

VARIABLES
  \* the service's memory
  buffer,    \* clickBuffer and analyticsBuffer
  dlq,       \* deadLetterQueue, a Map from MapKeys to Items
  flush,     \* the batch each call is saving, and its retries left
  retry,     \* what each call took from the dead letter queue
  awaiting,  \* the call that the consumer's eachMessage is waiting for
  closing,   \* the call of onModuleDestroy
  \* the database
  applied,   \* how often an entry has been added to the counters
  \* history
  fate,      \* what became of an entry
  failed,    \* how many save attempts with the entry have failed
  stops

vars == <<buffer, dlq, flush, retry, awaiting, closing, applied, fate, failed, stops>>

Fates == {"unseen", "pending", "saved", "reported", "dropped", "stopped", "killed"}

EmptyMap == [k \in {} |-> k]
IsMap(m) == DOMAIN m \subseteq MapKeys /\ m \in [DOMAIN m -> Items]

NoFlush == [batch |-> <<>>, left |-> 0]
NoRetry == [items |-> EmptyMap, left |-> 0]

TypeOK ==
  /\ buffer   \in [Kinds -> Seq(Entries)]
  /\ IsMap(dlq)
  /\ flush    \in [Calls -> [Kinds -> [batch : Seq(Entries), left : 0..MaxRetries]]]
  /\ DOMAIN retry = Calls
  /\ \A c \in Calls : IsMap(retry[c].items) /\ retry[c].left \in 0..MaxRetries
  /\ awaiting \in Calls \cup {NoCall}
  /\ closing  \in Calls \cup {NoCall}
  /\ applied  \in [Entries -> Nat]
  /\ fate     \in [Entries -> Fates]
  /\ failed   \in [Entries -> Nat]
  /\ stops    \in 0..MaxStops

Init ==
  /\ buffer   = [k \in Kinds |-> <<>>]
  /\ dlq      = EmptyMap
  /\ flush    = [c \in Calls |-> [k \in Kinds |-> NoFlush]]
  /\ retry    = [c \in Calls |-> NoRetry]
  /\ awaiting = NoCall
  /\ closing  = NoCall
  /\ applied  = [e \in Entries |-> 0]
  /\ fate     = [e \in Entries |-> "unseen"]
  /\ failed   = [e \in Entries |-> 0]
  /\ stops    = 0

-----------------------------------------------------------------------------
(* Calls in progress *)

\* The slip of retrying an event that has already failed often enough.
Retryable_OneMore(items, k) ==
  {m \in DOMAIN items : m[1] = k /\ items[m].failures <= DeadLetterThreshold}

Retryable(items, k) ==
  {m \in DOMAIN items : m[1] = k /\ items[m].failures < DeadLetterThreshold}

Exhausted(items) == {m \in DOMAIN items : items[m].failures >= DeadLetterThreshold}

\* processDeadLetterQueue saves the clicks, then the analytics, then reports the rest.
Phase(items) == IF    Retryable(items, "click") # {}     THEN "click"
                ELSE IF Retryable(items, "analytics") # {} THEN "analytics"
                ELSE IF Exhausted(items) # {}              THEN "report"
                ELSE "idle"

Idle(c) == /\ \A k \in Kinds : flush[c][k].batch = <<>>
           /\ DOMAIN retry[c].items = {}
Free(c) == Idle(c) /\ closing # c

Without(map, keys) == Restrict(map, DOMAIN map \ keys)

EntriesAt(items, keys) == {items[m].entry : m \in keys}

\* array.splice(0, BATCH_SIZE): the elements taken, and those left in the array
Taken(s) == SubSeq(s, 1, IF Len(s) < BatchSize THEN Len(s) ELSE BatchSize)

\* The slip of slice() for splice().
Remaining_Sliced(s) == s

Remaining(s) == SubSeq(s, Len(Taken(s)) + 1, Len(s))

StartFlush(s) == [batch |-> Taken(s), left |-> MaxRetries]

\* The slip of a flush whose promise never settles.
Release_Never(c) == UNCHANGED awaiting

\* The consumer goes on when the flush it waits for is over.
Release(c) == awaiting' = IF awaiting = c THEN NoCall ELSE awaiting
-----------------------------------------------------------------------------
(* Events arrive *)

\* An event is pushed to the buffer of its kind; if that fills a batch, the consumer
\* waits until the batch is flushed.
Receive(v, pushed) ==
  LET k == KindOf[v]
      s == buffer[k] \o pushed
  IN  /\ awaiting = NoCall
      /\ fate[Raw(v)] = "unseen"
      /\ fate' = [e \in Entries |-> IF e.event = v THEN "pending" ELSE fate[e]]
      /\ \/ /\ Len(s) < BatchSize
            /\ buffer' = [buffer EXCEPT ![k] = s]
            /\ UNCHANGED <<flush, awaiting>>
         \/ /\ Len(s) >= BatchSize
            /\ \E c \in Calls :
                 /\ Free(c)
                 /\ flush' = [flush EXCEPT ![c][k] = StartFlush(s)]
                 /\ awaiting' = c
            /\ buffer' = [buffer EXCEPT ![k] = Remaining(s)]
      /\ UNCHANGED <<dlq, retry, closing, applied, failed, stops>>

processClickEvent(v) ==
  /\ KindOf[v] = "click"
  /\ Receive(v, <<Raw(v)>>)

processAnalyticsEvent(v) ==
  /\ KindOf[v] = "analytics"
  /\ Receive(v, <<Raw(v), Enriched(v)>>)

-----------------------------------------------------------------------------
(* Flushing *)

\* The slip of not deleting from the map what is about to be retried.
flushAllBuffers_KeepsDeadLetters(c) ==
  /\ Free(c)
  /\ flush'  = [flush EXCEPT ![c] = [k \in Kinds |-> IF buffer[k] = <<>>
                                                    THEN NoFlush
                                                    ELSE StartFlush(buffer[k])]]
  /\ buffer' = [k \in Kinds |-> Remaining(buffer[k])]
  /\ retry'  = [retry EXCEPT ![c] = IF DOMAIN dlq = {}
                                    THEN NoRetry
                                    ELSE [items |-> dlq, left |-> MaxRetries]]
  /\ UNCHANGED <<dlq, awaiting, applied, fate, failed, stops>>

\* The slip of leaving the dead letter queue out of the timer's work.
flushAllBuffers_NoDeadLetters(c) ==
  /\ Free(c)
  /\ flush'  = [flush EXCEPT ![c] = [k \in Kinds |-> IF buffer[k] = <<>>
                                                    THEN NoFlush
                                                    ELSE StartFlush(buffer[k])]]
  /\ buffer' = [k \in Kinds |-> Remaining(buffer[k])]
  /\ UNCHANGED <<dlq, retry, awaiting, applied, fate, failed, stops>>

\* What flushAllBuffers does before its first await: all three parts start in one turn
\* of the event loop.
flushAllBuffers(c) ==
  /\ Free(c)
  /\ flush'  = [flush EXCEPT ![c] = [k \in Kinds |-> IF buffer[k] = <<>>
                                                    THEN NoFlush
                                                    ELSE StartFlush(buffer[k])]]
  /\ buffer' = [k \in Kinds |-> Remaining(buffer[k])]
  /\ retry'  = [retry EXCEPT ![c] = IF DOMAIN dlq = {}
                                    THEN NoRetry
                                    ELSE [items |-> dlq, left |-> MaxRetries]]
  /\ dlq'    = EmptyMap
  /\ UNCHANGED <<awaiting, applied, fate, failed, stops>>

\* The timer; it does not look whether its last call is over.
Tick(c) ==
  /\ closing = NoCall
  /\ flushAllBuffers(c)
  /\ UNCHANGED closing

\* The slip of counting the short codes of a batch instead of its events.
Saved_OncePerCode(S) ==
  LET one(x) == CHOOSE e \in S : CodeOf[e.event] = x
      T      == {one(x) : x \in {CodeOf[e.event] : e \in S}}
  IN  /\ applied' = [e \in Entries |-> IF e \in T THEN applied[e] + 1 ELSE applied[e]]
      /\ fate'    = [e \in Entries |-> IF e \in S THEN "saved" ELSE fate[e]]
      /\ UNCHANGED failed

\* A save of the entries S succeeds.
Saved(S) ==
  /\ applied' = [e \in Entries |-> IF e \in S THEN applied[e] + 1 ELSE applied[e]]
  /\ fate'    = [e \in Entries |-> IF e \in S THEN "saved" ELSE fate[e]]
  /\ UNCHANGED failed

\* What a failed attempt may have reached: clicks are one UPDATE per short code, each of
\* which may have been executed; analytics are one batch.
Reached(S, k) ==
  IF k = "click"
  THEN {{e \in S : CodeOf[e.event] \in C} : C \in SUBSET {CodeOf[e.event] : e \in S}}
  ELSE {{}, S}

\* An attempt to save the entries S of kind k fails.
AttemptFails(S, k) ==
  /\ \E T \in Reached(S, k) :
       applied' = [e \in Entries |-> IF e \in T THEN applied[e] + 1 ELSE applied[e]]
  /\ failed' = [e \in Entries |-> IF e \in S THEN failed[e] + 1 ELSE failed[e]]

FlushSaved(c, k) ==
  /\ flush[c][k].batch # <<>>
  /\ Saved(Range(flush[c][k].batch))
  /\ flush' = [flush EXCEPT ![c][k] = NoFlush]
  /\ Release(c)
  /\ UNCHANGED <<buffer, dlq, retry, closing, stops>>

\* The slip of retries >= 0.
FlushRetries_OneMore(c, k) ==
  /\ flush[c][k].batch # <<>>
  /\ flush[c][k].left >= 0
  /\ AttemptFails(Range(flush[c][k].batch), k)
  /\ flush' = [flush EXCEPT ![c][k] = [batch |-> @.batch, left |-> @.left - 1]]
  /\ UNCHANGED <<buffer, dlq, retry, awaiting, closing, fate, stops>>

\* if (retries > 0) { wait; return this.saveBatchToDatabase(batch, retries - 1) }
FlushRetries(c, k) ==
  /\ flush[c][k].batch # <<>>
  /\ flush[c][k].left > 0
  /\ AttemptFails(Range(flush[c][k].batch), k)
  /\ flush' = [flush EXCEPT ![c][k] = [batch |-> @.batch, left |-> @.left - 1]]
  /\ UNCHANGED <<buffer, dlq, retry, awaiting, closing, fate, stops>>

\* batch.forEach(...) in the catch of a flush: the first event with a key gets into the
\* map, every further one only counts as a failure of the first.
DeadLetters(map, batch) ==
  LET at(m)    == {i \in DOMAIN batch : Key(batch[i]) = m}
      first(m) == CHOOSE i \in at(m) : \A j \in at(m) : i <= j
  IN  [m \in DOMAIN map \cup {Key(batch[i]) : i \in DOMAIN batch} |->
         IF m \in DOMAIN map
         THEN [entry |-> map[m].entry, failures |-> map[m].failures + Cardinality(at(m))]
         ELSE [entry |-> batch[first(m)], failures |-> Cardinality(at(m))]]

\* The last attempt fails.  The dead letter key calls event.timestamp.getTime(): on a
\* string that throws out of the catch, and the batch is gone.
FlushFails(c, k) ==
  LET batch == flush[c][k].batch
  IN  /\ batch # <<>>
      /\ flush[c][k].left = 0
      /\ AttemptFails(Range(batch), k)
      /\ dlq'  = IF TimestampIsDate THEN DeadLetters(dlq, batch) ELSE dlq
      /\ fate' = [e \in Entries |->
                    IF e \in Range(batch) /\ \A m \in DOMAIN dlq' : dlq'[m].entry # e
                    THEN "dropped" ELSE fate[e]]
      /\ flush' = [flush EXCEPT ![c][k] = NoFlush]
      /\ Release(c)
      /\ UNCHANGED <<buffer, retry, closing, stops>>

-----------------------------------------------------------------------------
(* The dead letter queue: only in use if timestamps are Dates *)

\* What call c still has to do when it is done with the keys.
Proceed(c, keys) ==
  LET items == Without(retry[c].items, keys)
  IN  retry' = [retry EXCEPT ![c] = IF DOMAIN items = {}
                                    THEN NoRetry
                                    ELSE [items |-> items, left |-> MaxRetries]]

RetrySaved(c) ==
  LET items == retry[c].items
      keys  == Retryable(items, Phase(items))
  IN  /\ Phase(items) \in Kinds
      /\ Saved(EntriesAt(items, keys))
      /\ Proceed(c, keys)
      /\ UNCHANGED <<buffer, dlq, flush, awaiting, closing, stops>>

RetryRetries(c) ==
  LET items == retry[c].items
      keys  == Retryable(items, Phase(items))
  IN  /\ Phase(items) \in Kinds
      /\ retry[c].left > 0
      /\ AttemptFails(EntriesAt(items, keys), Phase(items))
      /\ retry' = [retry EXCEPT ![c] = [items |-> @.items, left |-> @.left - 1]]
      /\ UNCHANGED <<buffer, dlq, flush, awaiting, closing, fate, stops>>

\* "Put back in queue with increased failure count": set() replaces an event that came
\* to the same key in the meantime.
RetryFails(c) ==
  LET items == retry[c].items
      keys  == Retryable(items, Phase(items))
  IN  /\ Phase(items) \in Kinds
      /\ retry[c].left = 0
      /\ AttemptFails(EntriesAt(items, keys), Phase(items))
      /\ dlq'  = [m \in DOMAIN dlq \cup keys |->
                    IF m \in keys
                    THEN [entry |-> items[m].entry, failures |-> items[m].failures + 1]
                    ELSE dlq[m]]
      /\ fate' = [e \in Entries |->
                    IF e \in EntriesAt(dlq, keys \cap DOMAIN dlq) THEN "dropped" ELSE fate[e]]
      /\ Proceed(c, keys)
      /\ UNCHANGED <<buffer, flush, awaiting, closing, stops>>

\* sendErrorEvent for every exhausted event; it returns false instead of throwing.
Report(c) ==
  LET items == retry[c].items
      S     == EntriesAt(items, Exhausted(items))
  IN  /\ Phase(items) = "report"
      /\ \E sent \in SUBSET S :
           fate' = [e \in Entries |-> IF e \in sent THEN "reported"
                                      ELSE IF e \in S THEN "dropped" ELSE fate[e]]
      /\ Proceed(c, Exhausted(items))
      /\ UNCHANGED <<buffer, dlq, flush, awaiting, closing, applied, failed, stops>>

-----------------------------------------------------------------------------
(* The end of the process *)

\* The memory is gone; a new process starts with none.
Die(how) ==
  /\ stops < MaxStops
  /\ stops'    = stops + 1
  /\ buffer'   = [k \in Kinds |-> <<>>]
  /\ dlq'      = EmptyMap
  /\ flush'    = [c \in Calls |-> [k \in Kinds |-> NoFlush]]
  /\ retry'    = [c \in Calls |-> NoRetry]
  /\ awaiting' = NoCall
  /\ closing'  = NoCall
  /\ fate'     = [e \in Entries |-> IF fate[e] = "pending" THEN how ELSE fate[e]]
  /\ UNCHANGED <<applied, failed>>

\* clearInterval, and one last flush; Nest calls it on a signal only with shutdown hooks
onModuleDestroy(c) ==
  /\ ShutdownHooks
  /\ stops < MaxStops
  /\ closing = NoCall
  /\ flushAllBuffers(c)
  /\ closing' = c

\* Nest ends the process when onModuleDestroy has settled.
Exit ==
  /\ closing # NoCall
  /\ Idle(closing)
  /\ Die("stopped")

\* SIGTERM without shutdown hooks ends the process at once.
Terminate == ~ShutdownHooks /\ Die("stopped")

Kill == Die("killed")

-----------------------------------------------------------------------------

Next ==
  \/ \E v \in Events : processClickEvent(v) \/ processAnalyticsEvent(v)
  \/ \E c \in Calls : Tick(c) \/ onModuleDestroy(c)
  \/ \E c \in Calls, k \in Kinds : FlushSaved(c, k) \/ FlushRetries(c, k) \/ FlushFails(c, k)
  \/ \E c \in Calls : RetrySaved(c) \/ RetryRetries(c) \/ RetryFails(c) \/ Report(c)
  \/ Exit \/ Terminate \/ Kill

Spec == Init /\ [][Next]_vars

\* The timer keeps firing, every attempt to save comes back with a result or an error,
\* and a process that is closing ends.
Fairness ==
  /\ WF_vars(\E c \in Calls : Tick(c))
  /\ \A c \in Calls, k \in Kinds :
       WF_vars(FlushSaved(c, k) \/ FlushRetries(c, k) \/ FlushFails(c, k))
  /\ \A c \in Calls : WF_vars(RetrySaved(c) \/ RetryRetries(c) \/ RetryFails(c) \/ Report(c))
  /\ WF_vars(Exit)

FairSpec == Spec /\ Fairness

-----------------------------------------------------------------------------
(* Properties *)

\* How many places of the service's memory hold the entry.
Holders(e) ==
  LET inBuffer == {p \in Kinds \X (1..BatchSize) :
                     p[2] \in DOMAIN buffer[p[1]] /\ buffer[p[1]][p[2]] = e}
      inFlush  == {p \in Calls \X Kinds \X (1..BatchSize) :
                     LET batch == flush[p[1]][p[2]].batch
                     IN  p[3] \in DOMAIN batch /\ batch[p[3]] = e}
      inDlq    == {m \in DOMAIN dlq : dlq[m].entry = e}
      inRetry  == {p \in Calls \X MapKeys :
                     LET items == retry[p[1]].items
                     IN  p[2] \in DOMAIN items /\ items[p[2]].entry = e}
  IN  Cardinality(inBuffer) + Cardinality(inFlush) + Cardinality(inDlq) + Cardinality(inRetry)

\* However flushes, retries and the timer overlap, an entry that is neither saved nor
\* given up is in exactly one place, and an entry that is, is in none: nothing is saved
\* twice by two calls and nothing leaks (click-processor.service.ts:125-263).
HeldExactlyOnce ==
  \A e \in Entries : Holders(e) = IF fate[e] = "pending" THEN 1 ELSE 0

\* What became of an entry never changes: no reported, dropped or saved event comes
\* back from an old call (click-processor.service.ts:183-263).
FateIsFinal ==
  [][\A e \in Entries : fate[e] \notin {"unseen", "pending"} => fate'[e] = fate[e]]_vars

\* An entry is in the counters once if no attempt with it failed, and at most once more
\* for every failed attempt: overcounting comes from failed attempts only
\* (click-processor.service.ts:265-297).
CountedOncePerAttempt ==
  \A e \in Entries :
    LET saved == IF fate[e] = "saved" THEN 1 ELSE 0
    IN  applied[e] \in saved..(saved + failed[e])

\* The retries of a flush, the rounds of the dead letter queue and the collisions of its
\* keys together stay within (MAX_RETRIES + 1) * DEAD_LETTER_THRESHOLD failed attempts
\* for any event (click-processor.service.ts:29-30, 192, 290).
AttemptsBounded ==
  \A e \in Entries : failed[e] <= (MaxRetries + 1) * DeadLetterThreshold

\* Every event that was received is eventually saved or given up
\* (click-processor.service.ts:391-397).
PendingEnds == \A e \in Entries : fate[e] = "pending" ~> fate[e] # "pending"

\* The consumer never waits for ever for a flush (click-processor.service.ts:53-55).
ConsumerResumes == awaiting # NoCall ~> awaiting = NoCall

\* "Move failed events to dead letter queue" (click-processor.service.ts:142, 169): a
\* batch that could not be saved does not disappear.
FailedEventsAreKept == \A e \in Entries : fate[e] # "dropped"
=============================================================================
