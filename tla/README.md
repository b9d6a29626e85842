# DistLink: a TLA+ verification project

DistLink is a URL shortener: one NestJS application over ScyllaDB, Redis and
Kafka. These modules model the parts of it where requests, timers and failures
meet, TLC checks them on small instances, and TLAPS proves the main results for
every instance. Paths below are relative to the repository (`src/...`); `map`
in `PROJECT.json` gives the lines that each definition stands for.

## 1. The system

| Component | Source (`src/src/`) | State | Operations |
|---|---|---|---|
| Rate limiter | `common/guards/rate-limit.guard.ts` | one Redis counter per client address and route path | `canActivate` |
| Links and their cache | `modules/urls/urls.service.ts`, `urls.controller.ts` | table `link_urls`, Redis keys `url:<code>`, `url:all`, `url:user:<id>` | create, find one, list all, list by user, remove, update |
| Short codes | `utils/short-code.generator.ts`, `urls.service.ts:56-65` | `codePool`, an array in memory | generate, refill, take |
| Redirects | `modules/urls/redirect.controller.ts`, `modules/clicks/clicks.service.ts` | `link_click_events`, `link_click_stats`, a map of countries | look up, record, publish, redirect |
| Kafka producer and consumer | `modules/kafka/` | topics, offsets | send click, analytics and error events; `eachMessage` |
| Click processor | `modules/clicks/click-processor.service.ts` | two buffers, dead letter queue, timer | receive, flush, retry, report, stop |
| Kafka startup | `kafka-admin.service.ts`, `kafka-consumer.service.ts:36-56` | attempts left | connect, create topics, subscribe |
| Accounts and sessions | `modules/auth/`, `modules/users/` | table `link_users`, Redis keys `refresh_token:`, `verification_token:`, `reset_token:` | register, verify, login, refresh, logout, reset and change password, Google login |
| Email queue | `modules/queue/`, `modules/mailer/` | Bull jobs in Redis | add a job, process it, three attempts, stalled jobs |
| Safe browsing | `modules/safe-browsing/` | none | check a URL; a failed check counts as safe |
| Expired link cleanup | `modules/urls/urls-cleanup.service.ts` | none | hourly job, in no provider list: never runs |
| Clients, configuration, monitoring, scaffolding | `modules/redis`, `database`, `clickhouse`, `monitoring`, `cache`, `tracking`, `configs/` | connections, metrics | see section 8 |

How they interact. A request to `/urls` passes the rate limiter and then
`UrlsController`, which calls `UrlsService`; that awaits Redis and ScyllaDB
commands, several at once in a `Promise.all`. `GET /:shortCode` looks the link up
in the same service, records the click in two commands, publishes it to Kafka
without waiting and redirects. The consumer takes messages one at a time and
awaits `ClickProcessorService`, which returns at once unless the event filled a
batch. A timer of five seconds flushes what waits in the buffers. Accounts share
Redis with all this and hand mails to a queue.

What is hard here. JavaScript runs one callback at a time, so everything between
two `await`s is atomic and nothing across an `await` is. The code holds no lock
and uses no transaction or conditional write. So the hazards are: state read
before an await and used after it (a cached row, a counter, the failures of a dead
letter), two commands that belong together (INCR and EXPIRE, a check and its
INSERT, a row and its cache keys), timers that start before the last run is over,
retries of what was half done, commands that a client library sends twice, a process
that dies with events in memory, and
values that change their type on the way through JSON.

What makes each component correct:

* Rate limiter: a handler admits no more than its limit per window; a refusal
  means that the limit is spent; a counter has a time to live unless the request that
  opened its window failed.
* Links: a row goes only when it has expired or its removal was granted; the cache
  is stale only for a reason, and the service itself ends it; what the client is told is
  true; no link replaces another.
* Click processor: an event is in one place until it is saved or given up, is
  counted once plus at most once per failed attempt, fails a bounded number of
  times; nothing waits for ever, nothing is lost that the code promises to keep.
* From the visitor to the counter: a click is counted once, and once more at most for
  each thing that went wrong with it; it is recorded before the visitor is redirected;
  it does not stay on its way for ever.
* Short codes: the pool hands no code out twice and does not run dry unnoticed.
* Accounts: two accounts share an email only if their creations overlapped; only an
  active account has a session; a session that was ended stays ended, but for a
  refresh that overlaps the logout; a password change overwrites what it compared.
* Email queue: who was told of a mail gets it or every attempt fails; a mail goes
  out a bounded number of times.

## 2. Modules

| Module | What it is |
|---|---|
| `RateLimitGuard` | the guard, over INCR, EXPIRE and key expiry |
| `MCRateLimitGuard` | handlers, paths and limits for TLC |
| `RateLimitGuardProofs` | the quota and who is refused, for every instance |
| `ClickProcessor` | buffers, flushes, dead letter queue, stop and crash |
| `MCClickProcessor` | events whose dead letter keys collide, and others |
| `ClickProcessorProofs` | the accounting of events, for every instance |
| `UrlsService` | links and their cache, request by request, command by command |
| `MCUrlsService`, `UrlsServiceProofs` | model values and symmetry; what answers and the cache promise, for every instance |
| `ShortCodes` | the generator, the pool and the turns of the event loop |
| `MCShortCodes`, `ShortCodesProofs` | a small generator; what the pool promises, for every instance |
| `ClickLedger` | abstract: what the counter of a link promises |
| `ClickLedgerProofs` | the bound that follows from the ledger |
| `ClickPipeline` | visitors, producer, topic, offsets and consumer around `ClickProcessor`; implements `ClickLedger` |
| `MCClickPipeline`, `ClickPipelineProofs` | two clicks on a link; the step simulation of the ledger, for every instance |
| `EmailQueue` | jobs of Bull, attempts and stalls |
| `EmailQueueProofs` | the accounts of the jobs, for every instance |
| `Accounts` | accounts and sessions over `link_users` and Redis; extends `EmailQueue` |
| `MCAccounts`, `AccountsProofs` | symmetry; the main results, for every instance |

Operators with a name like `Decide_OneMore`, under a comment that begins "The
slip of", are plausible bugs. They are part of no specification: each replaces one
definition to show that a property notices.

### RateLimitGuard

`canActivate` suspends twice; `pc` says where. `Incr` is INCR and the test whether the
request is the first of its window, `Expire` the EXPIRE that only that one sends,
`Decide` the comparison of the value that INCR returned. `count` and `ttl` are Redis:
time is abstracted, a key with a time to live may expire at any moment (`KeyExpires`),
a key without never does. `IncrFails` and `ExpireFails` are rejected commands,
executed or not; `Crash` ends every request in flight and leaves Redis as it is.
`redis.service.ts` builds its client with the defaults of ioredis, which sends the
commands without an answer again when a connection breaks: `IncrSentAgain` and
`ExpireSentAgain` are commands that Redis has executed and will be sent once more, and
whose request then gets the answer of the second. Nobody gets the value of the first
INCR. The key is made of the address and the route path, without the HTTP method, so
`Limit` belongs to a handler and `count` to a path. `window`, `win`, `lost` (the
values of INCRs that were sent again), `again` (the keys of such EXPIREs) and `faults`
are history.

The other modules have no such action. A SET, GET or DEL that is sent twice over the one
connection of the process is followed by all that was sent after it, again and in the
order it had: Redis ends as if the first sending had not been, and the answers are those
of the second. In between are the states of commands that arrive late, which `UrlsService`
has. The `add` of a Bull queue is another matter: sent twice, it makes two jobs. The bound
on mails is therefore one per job (section 8).

### ClickProcessor

`buffer` is `clickBuffer` and `analyticsBuffer`, `dlq` the dead letter `Map`.
A call of `flushAllBuffers`, or the flush that a full buffer starts, suspends
while it saves; `flush[c]` and `retry[c]` hold what call `c` is saving, because
`setInterval` does not wait for the last call. `Receive` pushes and, if the buffer
is full, takes a batch in the same turn and makes the consumer wait (`awaiting`).
A save attempt succeeds (`FlushSaved`), fails with retries left (`FlushRetries`) or
fails for the last time (`FlushFails`). A failed attempt may have reached part of
the database: clicks are one UPDATE per short code, any of which may have been
executed; analytics are one batch, executed or not (`Reached`). An analytics event is
pushed twice, as it came and enriched, so an entry is an event and a copy.

Two facts of the deployment are constants, because the code reads as if they were
otherwise. `TimestampIsDate`: the interface declares a `Date`, the consumer delivers
a string, and the dead letter key calls `getTime()`, which throws on a string.
`ShutdownHooks`: `main.ts` never enables them, so `onModuleDestroy` does not run.
The program is deployed with both FALSE: `clicks_dropped` and `pipeline` use these
values, and the theorems hold for all. `clicks_clicks` and `clicks_mixed` have dates,
because the dead letter queue is unreachable until the timestamp is parsed, and one
of them each kind of stop.

### UrlsService

`req[r]` is a request: the operation, the user, the code, the row it has read, and
the place of its next await. `commands` holds what `Promise.all` has sent and what
has not been executed; a command that arrives changes `link` or `cache`
(`Deliver`), and the lookup inside `remove` sends the deletions of what it found. A
failed command (`Fail`) rejects the `Promise.all` at once while its siblings stay on
their way, owned by `Nobody`. `create` catches, takes another code and starts again
(`createRetries`); everything else answers with the error. Each operation contains
what its controller does before and after: `Refuses` is the check of the owner and
`Found` what becomes of a value, which depends on where it came from. From the cache
a row has been JSON: its date is a string, and every comparison with it is false;
its `user_id` is a string, where the driver returns a `Uuid` object that is never
identical to one.

`expires_at` is the last moment of a link and the clock counts lifetimes. A custom
code is one that PATCH may ask for, 8 to 16 characters; a generated one has at most
six, so the two never meet. `FormatCheck` is the test of the old code in
`urls.controller.ts:127`, which no generated code passes: with it, no PATCH reaches
`UrlsService.update`, and the runs about `update` leave it out.
`FreshCodes` says that the random generator does not repeat itself, which the code
assumes and does not check.

Left out: the click counters, which these operations delete next to a row and read
only to show them (`urls.service.ts:111, 147, 177`), the code pool (that is
`ShortCodes`), and the short code `all`, which would share its cache key with the list
of all links and can be neither generated nor asked for.

### ShortCodes

`randomBytes` is called without a callback, so the batch of ten closures and the fill
of the pool await nothing that takes time: a request that fills the pool goes on in
the same turn of the event loop. `Wake(S)` begins a turn, in which the answers for the
requests S have arrived at once (their addresses are safe, or their inserts have
failed); no other answer arrives before `Quiet`. Inside a turn the steps of S
interleave freely, which covers the order of their microtasks. `generate` is the
generator as it is written: bytes masked, looked up in the alphabet, and joined, where
an index beyond the alphabet disappears. So there are shorter codes too, and
`ShortCodes` is the set of all. An item of the pool carries the batch it is from as
history, `given` what each attempt of `create` got. `NoItem` is the `undefined` that
`pop()!` returns for an empty array.

### ClickLedger and ClickPipeline

`ClickLedger` is what a counter of clicks promises, with nothing of how. A click is
made, counted, repeated or lost: what is counted and what is still owed grow only with
the mishaps that befell the click, and nothing is counted that was not owed.

`ClickPipeline` extends `ClickProcessor`. `visit[c]` is the request of a visitor: the
insert into `link_click_events`, then the counter update, then the redirect while the
click is `sending`. `topic` is the partition of the link, since the key of a message is
the short code. `AnswerLost` appends a click that the Kafka client then sends again;
`SendFails` leaves it appended or not. `eachMessage` hands the next message to
`processClickEvent` and moves `position`; `awaiting`, of the processor, keeps it from
the next one while a full buffer is saved. `Commit` stores the offset of what is
resolved, which says nothing about what is saved. `Rejoin` is a rebalance, `Restart`
the end of the process and the start of another: both go back to `committed`, or, when
nothing was committed, to the end of the topic (`fromBeginning: false`). `Connect` and
`ConnectFails` are `onModuleInit` of the consumer, after whose last attempt the
application goes on without one.

The refinement maps `tally` to the executed counter updates, `owed` to the places
where a click still is (sent, in the topic beyond the offset, in memory), `mishaps` to
redeliveries, duplicates and failed saves. `repeated` is the history that counts the
first two.

### EmailQueue

`job[m]` is a Bull job with its failures and stalls. The handler rethrows what the
mailer throws, so an attempt fails with the mail sent or not (`SendFails`), is delayed
and tried again up to `attempts` times. A worker that dies or loses its lock
(`LockLost`) leaves a job that Bull finds stalled and puts back `maxStalledCount`
times. Which worker has a job is left out: they are alike.

### Accounts

`req[r]` is a request that waits for the command named by `pc`; a request is made once
and its name serves as the id of the account it creates (`uuidv4`), as the password it
sets and as the mail it queues. `Write` is the one place where a command changes the
table, the key `refresh_token:<id>` or the queue, so that `Fail` can be "executed, or
not" for all of them. The keys `verification_token:` and `reset_token:` are written and
deleted but never read, so only the awaits are left of them. A refresh token is the
same string as another if both belong to one account and one second (`Tokens`), which
is why there is a clock; the clock moves while `storeRefreshToken` is under way and the
token has the second of its signature (`since`). `Seeds` are accounts that exist, are
active and signed in at the start. History: `before` is who had the email when a
request arrived, `root` the sign-in of a session, `raced` that a request overlapped a
write that it did not see, `ended` the sessions that a logout has deleted.

Each route is one action that begins a request; what the client must hold is its
condition. Access tokens and the links of verification and reset mails are signed with
one secret over the same payload, so `verifyEmail`, `resetPassword` and the guard of
signed-in routes take each of them (`HasToken`); a client has one when any mail of
either kind has gone out to the account (`Mailed`) or the account has signed in
(`issued`). Refresh tokens have another secret. `findByEmail` with two accounts of one
email may return either.

## 3. Runs

Passing runs:

| Run | Instance | States | What it shows |
|---|---|---|---|
| `ratelimit_safety` | 4 requests, 2 addresses, 3 handlers on 2 paths, 1 fault | 1,564,000 | quota per window; refusals only when spent; EXPIRE on its own window; only the failure of the request that opened a window leaves a counter without a time to live |
| `clicks_clicks` | 3 clicks (2 with one key), 2 calls, batch 2, 1 retry, threshold 2, 1 death, hooks | 715,000 | one place per entry, counted once per attempt, bounded attempts, fates are final |
| `clicks_mixed` | 1 click, 1 analytics event, 2 calls, 1 death, no hooks | 4,500 | with fairness, every event is saved or given up and the consumer resumes |
| `pipeline` | 2 clicks, a topic that may hold each twice, 3 deliveries, 1 fault, 1 restart | 102,000 | the pipeline implements the ledger; clicks are recorded first; an uncounted one has an excuse; with fairness, none stays on its way |
| `urls_deployed` | 2 requests, create and remove, 2 generated codes, 2 attempts, 1 fault | 2,780,000 | a link that was answered is stored, a removed one is gone, a stale cache entry is accounted for |
| `urls_expiry` | 2 requests, create, list, remove, 1 code, a clock | 325,000 | only expired links and links whose removal was granted go; lists are not left stale; with fairness of requests and commands alone, a stale entry that no overlapping read wrote is deleted |
| `urls_update` | 2 requests, create, list, update, 1 generated and 1 custom code | 1,660,000 | `update` too deletes every key it makes stale |
| `urls_live` | 2 requests, create, find and remove, 1 code, 1 fault | 236,000 | with fairness, requests are answered |
| `codes` | 3 requests, 2 attempts each, batches of 2, a generator with 3 codes | 2,350,000 | no code is handed out twice; `pop` finds nothing only when a turn wakes more than a batch |
| `accounts_sessions` | 3 requests, 1 email, 2 Google identities, 1 seed, 2 seconds, 1 fault | 1,005,000 | duplicates and undone logouts only by overlap; sessions of active accounts; a change overwrites what it compared; an account becomes active by a mail that went out to it, of either kind, or by Google |
| `accounts_signup` | 2 requests and their mails, 3 attempts, 1 stall, 1 fault | 263,000 | mails are not forgotten and bounded; with fairness, a promised mail follows and requests are answered |

One run finds the program at odds with what it says, a finding in `PROJECT.json` with
the quoted line: `clicks_dropped`, in which a batch that cannot be saved is dropped,
because making its dead letter key throws. In its trace a full buffer is flushed: the
exception reaches the catch of `eachMessage`, which reports it and goes on. When the timer
flushes, `Promise.allSettled` swallows it.

What the models also make visible, and no run is spent on:

* A fault between INCR and EXPIRE, or an INCR that opens a window and is executed
  twice, leaves a key without a time to live, and the client is refused for ever
  (`ExpireFails`, `Crash`, `IncrSentAgain`); an EXPIRE that is sent again can stretch
  a later window; handlers of one path share a counter but not a limit, so `GET /urls`
  uses up the quota of `POST /urls` (`Key` has no method).
* A termination signal loses the buffers: shutdown hooks are off. A batch of analytics
  events counts as two failures, since both copies share a dead letter key
  (`DeadLetters`). Analytics events have no sender.
* A link that expires in the cache is served on, since its date is a string there; on a
  cache miss the owner may not delete the link, since its owner is an object there
  (`Found`, `Refuses`). Nothing removes an expired row that nobody looks up.
* No generated code passes the format check of PATCH (`update`), so no link can be
  updated through the controller. Without the check, two updates may find one custom
  code free (`updateExists`), and a lookup that saw an expired row can delete the live
  row that an update has put under its code: with `"update"` among the `Ops` of
  `urls_expiry`, `NoLiveLinkVanishes` is violated.
* The alphabet has 63 characters and the mask 64 values: one draw in 64 disappears and
  the code is shorter (`generate`). A code that two batches contain replaces the link
  that has it (`FreshCodes`). More than ten creations in one turn can get an
  `undefined` code (`PopServes`).
* A consumer without a committed offset starts at the end of the topic: clicks that were
  sent before its first commit are skipped when it restarts (`JoinAt`). A failed send is
  reported to the error topic by the producer and by the controller.
* A logout is undone by a refresh that overlaps it (`raced`), and changing or resetting a
  password ends no session (`PasswordUpdated`). `findByEmail` returns no `googleId`, so
  the conflict "linked to a different Google account" is never reached (`ByEmail`). An
  account whose registration failed after the insert keeps its email and gets no mail
  (`Fail`); a reset link works as often as it is opened (`resetPassword`).
* The token of any mail or session is good wherever a token of `JWT_SECRET` is read
  (`HasToken`): an inactive account whose registration mail was given up becomes active
  with the link of its reset mail (`verifyEmail`, in `accounts_sessions`).

Deadlock is checked where the system cannot stop. It can in the rate limiter, in
`ShortCodes`, in `Accounts` and in `ClickPipeline`, whose requests are given from the
start and may all have been answered.

### Bounds, and why they are enough

* Four requests of two clients: a limit of 1 or 2 is used up, passed by one, and the
  window ends and starts anew with requests of the old one still undecided.
* Up to three events and a batch of two: a buffer is full with one event left over; two
  events collide on a dead letter key and a third does not. Two calls overlap: one
  flush is retried while the timer starts another. One retry and a threshold of two
  make every path of a save and of the dead letter queue happen, including the report.
  `Calls` bounds the overlap only; a flush that finds no free call waits for one.
* Two requests and one or two codes: every interference the code has is between two
  requests on one key, or between one request and the commands a failed one left
  behind. `RetryAttempts` 2 has a first and a last attempt.
  `urls_expiry` has no fault, as its properties excuse what a failed command
  leaves; its lookups are those of DELETE, whose steps are the ones of GET.
* `pipeline`: two clicks fill a batch or wait for the timer; the topic holds a duplicate
  and a restart or a rebalance hands messages over again, so a message comes up to
  three times (`Deliveries`; a fourth would need a second restart or fault).
  `MaxRetries` and `DeadLetterThreshold` are at their least, as retries are the subject of
  `clicks_clicks`, and dead letters cannot arise from string timestamps.
* `codes`: batches of two with three requests is the smallest pool that more requests
  than a batch has codes can empty; two overlapping fillers need two requests, the
  third takes what they put. Three codes, two attempts each: batches must repeat codes,
  so that "different batches" is the only thing that keeps the property true.
* `accounts_sessions`: three requests are enough for a logout or a password change in
  the middle of a request that began with the result of another. A mail has one attempt: a
  registration whose mail is given up, another mail to the account and the verification
  are three requests. All accounts have one email, as only such ones are confused with each
  other by it; two Google identities claim them. `accounts_signup` has two requests
  because each carries a job with its own attempts; a mail and what its link starts are
  two.
* `MaxFaults`, `MaxStops`, `MaxNow`, `MaxSecond` are 0 or 1: each failure can happen at
  every step, and one is enough to leave every kind of half-done work. A clock of two
  moments has links before and after their last one.
* Symmetry is used for requests, calls, emails and codes, which nothing distinguishes,
  and in no run with a temporal property that needs fairness.

### Fairness

* Click processor: `setInterval` keeps firing (`WF` of some `Tick`); an attempt comes
  back with a result or an error, because driver requests time out; a closing process
  ends. Success is never assumed. Events need not arrive, and the process need not die.
* Links: a request goes on when its command has come back, sent commands arrive or
  fail, the clock moves. Requests need not come, and no cached value need expire: what
  ends a stale entry is the service.
* Pipeline: a command or send comes back with an answer or an error, `eachMessage` goes
  on, the consumer connects or uses up its attempts, and the processor's fairness.
  Commits, rebalances and restarts need not happen, visitors need not come.
* Accounts and mails: a command comes back, and Bull's workers and timers run
  (`WF` of `Process`: a waiting job is taken, a delayed one promoted, a stalled one found).
  Sending need not succeed.

## 4. What is proved

Every safety invariant, every action property and the refinement that the passing runs
check, for every value of the constants, from the assumptions that the modules name:

* `RateLimitGuard`: `RoutesAssumption`, `LimitAssumption`, `FaultsAssumption`.
* `ClickProcessor`: `EventsAssumption`, `TuningAssumption`, `DeploymentAssumption`,
  `CallsAssumption`.
* `ClickPipeline`: those, and `PipelineAssumption`, which says that events are clicks with
  the string timestamps of the deployment.
* `UrlsService`: `KeysAssumption`, `BoundsAssumption`, `NothingAssumption`.
* `ShortCodes`: `PoolAssumption`, `GeneratorAssumption`.
* `EmailQueue`, `Accounts`: `AttemptsAssumption`, `AccountsAssumption`, `NoneAssumption`.

Where a statement needs more, the hypothesis is part of the theorem:

| Theorem | Statement |
|---|---|
| `RateLimitGuardProofs!TypeCorrectness` | `Spec => []TypeOK` |
| `RateLimitGuardProofs!Quota` | `Spec => []QuotaPerWindow` |
| `RateLimitGuardProofs!RefusedWhenSpent` | `Spec => []RefusedOnlyWhenSpent` |
| `RateLimitGuardProofs!ExpireIsPrivate` | `Spec => []ExpireHitsItsOwnWindow` |
| `RateLimitGuardProofs!CountersAreArmed` | `Spec => []CountersEnd` |
| `ClickProcessorProofs!TypeCorrectness` | `Spec => []TypeOK` |
| `ClickProcessorProofs!OnePlaceEach` | no entry is in two places, and none that is saved or given up is in one |
| `ClickProcessorProofs!NothingLeaks` | `Spec => []HeldExactlyOnce` |
| `ClickProcessorProofs!CountedOnce` | `Spec => []CountedOncePerAttempt` |
| `ClickProcessorProofs!AttemptsAreBounded` | `Spec => []AttemptsBounded` |
| `ClickProcessorProofs!FatesAreFinal` | `Spec => FateIsFinal` |
| `UrlsServiceProofs!TypeCorrectness` | `Spec => []TypeOK` |
| `UrlsServiceProofs!StaleAccounted` | `FreshCodes`: `Spec => []StaleIsAccountedFor` |
| `UrlsServiceProofs!CreatedLinksAreStored` | `FreshCodes`, `FormatCheck`: `Spec => []CreatedIsStored` |
| `UrlsServiceProofs!RemovedLinksAreGone` | `FreshCodes`, `FormatCheck`: `Spec => []RemovedIsGone` |
| `UrlsServiceProofs!LiveLinksStay` | `FreshCodes`, `FormatCheck`: `Spec => NoLiveLinkVanishes` |
| `UrlsServiceProofs!PatchChangesNothing` | `FormatCheck`: no request is ever in `UrlsService.update` |
| `ClickPipelineProofs!PipelineTypes` | `PipelineSpec => []PipelineTypeOK` |
| `ClickPipelineProofs!ClicksAreRecordedFirst` | `PipelineSpec => []RecordedFirst` |
| `ClickPipelineProofs!UncountedHaveExcuses` | `PipelineSpec => []UncountedIsExcused` |
| `ClickPipelineProofs!PipelineKeepsTheLedger` | `PipelineSpec => ImplementsLedger` |
| `ClickPipelineProofs!CountsAreAccountedFor` | `PipelineSpec => []Ledger!CountedAtMostOncePerMishap` |
| `ClickLedgerProofs!LedgerBalances` | `LedgerSpec => []CountedAtMostOncePerMishap` |
| `ShortCodesProofs!TypeCorrectness` | `Spec => []TypeOK` |
| `ShortCodesProofs!NothingHandedOutTwice` | `Spec => []RepeatsCrossBatches` |
| `ShortCodesProofs!PopIsServed` | `Spec => []PopServes` |
| `EmailQueueProofs!QueueTypeCorrectness` | `QueueSpec => []QueueTypeOK` |
| `EmailQueueProofs!MailIsNotForgotten` | `QueueSpec => []NoMailIsForgotten` |
| `EmailQueueProofs!MailIsBounded` | `QueueSpec => []RepeatsAreBounded` |
| `AccountsProofs!TypeCorrectness` | `Spec => []TypeOK` |
| `AccountsProofs!SessionsAreActive` | `Spec => []SessionsAreOfActive` |
| `AccountsProofs!LogoutEnds` | `Spec => []LogoutEndsSession` |
| `AccountsProofs!ActiveIsProved` | `Spec => []ActiveWasProved` |
| `AccountsProofs!DuplicatesNeedOverlap` | `Spec => []DuplicatesOverlapped` |
| `AccountsProofs!ComparedPasswordsAreOverwritten` | `Spec => ComparedIsOverwritten` |
| `AccountsProofs!ToldHasJob` | `Spec => []ToldIsMailed` |
| `AccountsProofs!MailsAreKept` | both promises of the queue, in the composition |

The quota. INCR hands out each value of a window once (`DistinctValues`), a request
that is admitted holds a value in 1..limit (`Progress`), so the admitted requests
of one window inject into 1..limit and are no more than it. `Reached` and
`ArmedExists` make this inductive: a value that has been handed out lies below the
counter of the running window or belongs to an older one. An EXPIRE that is pending
belongs to the request that opened the window, whose key has no time to live yet and
so cannot end, unless an EXPIRE of that key was sent again; and a counter without a time
to live has the request that opened its window still before its EXPIRE, or failed, or a
first value that was lost (`CountersEndKept`). The number of requests is not bounded: the
proof never counts them all. For the refusals the values of a window must have no gaps:
each value from 1 to that of the counter was handed out to a request or is one of `lost`
(`NoGaps`), so a request that got a value above the limit has as many values before it in
its window as the limit. Requests that failed after their INCR was executed are among them.

The accounting of events. Neither bound is inductive. How often an attempt with an
entry has failed depends on where the entry is: not at all in a buffer, the retries
used in a flush, at most `MaxRetries + 1` per recorded failure in the dead letter
queue, and that plus the retries used in a retry (`AttemptsByPlace`). So the
invariant must say where entries are (`WellPlaced`), that a buffer holds none
twice (`Unduplicated`), that none is in two places (`SinglePlace`: a second copy
could be saved again), and that what is in memory has no fate yet
(`HeldIsPending`, `UnseenIsUntouched`). The step that needs it all is `FlushFails`:
events with one key become one dead letter whose failures are the number of them,
never fewer than the rounds the kept one has failed. The lemmas on `splice`
(`SpliceDivides`, `PushAdds`), on the dead letter map (`DeadLettersAdds`) and on
rounds (`RoundsGrow`) are stated once and cited by the actions. `FateIsFinal` follows
because only entries in memory get a fate. That nothing leaks is the converse of
`HeldIsPending`: an entry without a fate is in a buffer, a batch, the dead letter queue
or a retry (`PendingIsHeld`), which is inductive once buffers and batches are known to
stay within `BatchSize` (`WithinBatch`); one place then means that the four counts add up
to one (`HeldOnce`).

Links and their cache. `IInv` are types, and that a command in flight is one that its
request sent for the row it is about (`Sent`). The cache: a stale entry is covered by
a deletion in flight, by a request that has still to send one, or by a read that
overlapped a write (`StaleCovered`); so every write in flight comes with the deletions
of the keys it makes stale (`WritesCovered`). Both need that no code is used twice
(`Used`), and both end with the first fault. The rows, with faults: an insert in
flight is the only one for its code (`InsertsDiffer`) and no request, command or cache
entry knows a code that is not used yet or whose insert has not arrived (`Fresh`); a
deletion in flight is of a code whose row is gone, has expired or whose removal was
granted (`DeletesJustified`); and a request that has only deletions from the cache
left to wait for has its row in the table, or out of it (`RowsInv`). `AnswersTrue`
follows at the step that answers.

Two hypotheses appear there, and each is needed. Without `FreshCodes` a repeated code
replaces the row of another link (`urls.service.ts:83` is an upsert). Without
`FormatCheck` a custom code can be used, given up and used again, and a lookup that saw
the old row deletes the new one. `PatchChangesNothing` shows why the second holds as
deployed; the first is what the generator is trusted with. Both are constants of the
model, and the runs show that instances with each exist.

The ledger. `tally + owed` exceeds `mishaps` by one at most once a click has been made
and not at all before; every step of the abstract specification keeps that balance,
and `owed` is never negative.

The pipeline. Steps of the processor inside the pipeline are steps of the processor,
so `IInv` of `ClickProcessorProofs` is at hand, and `PInv` adds what lies around it:
the copies of a click in the topic are numbered without gaps (`Numbered`), what has
been handed over is in the topic and what is in the topic was made (`Delivered`) and
recorded (`Recorded`), what was dropped has had its last attempt (`LastAttempt`), and
while nothing has failed the consumer has skipped nothing (`Unbroken`).
`RecordedFirst` and `UncountedIsExcused` follow. The refinement is shown action by
action: each step makes one click or settles it, and leaves the others settled
(`VisitorSettles`, `SenderSettles`, `HandingSettles`, `OffsetsSettle`,
`RejoinSettles`, `FlushSettles`, `RestartSettles`). The mapping counts finite sets and
sums over the events of a click; the sum is the number of pairs of an event and a
number up to its count (`Sum`), so that adding one to the events of a set adds its
cardinality (`SumAdds`) without an induction. The step that costs most is
`RejoinSettles` and its like after a restart: messages beyond the committed offset
wait again, and each of them either waited before, is a redelivery that `repeated`
counts, or was in memory, where the restart deletes it: an injection from such
messages into the events in memory. `LedgerBalances` then carries over to the counter
of a link (`CountsAreAccountedFor`).

The pool. An item carries the batch it is from. The invariant (`ItemsApart`) says that
items of one batch differ, in the pool and among what has been handed out, that
nothing is in both, and that a batch in the making does not repeat itself; a push
appends a batch with a new number, a pop moves the last item. `pop()!` needs counting:
a request that has filled the pool, or found it filled, can miss a code only if others
of the same turn took a whole batch (`Served`): while one has filled and not yet
popped, what is in the pool and what its turn has taken together are a batch, and each
pops once per turn.

The queue. A mail has gone out at most once per failure and stall, and once more when
the job is completed or lost (`Accounted`). That is inductive for one job; an operation
on one job leaves the others alone (`OneJob`), and a crash is the loss of a set of locks
(`LoseKeeps`).

Accounts. What a session may be depends on what the requests that store it have read.
The invariant (`AccountsInv`) says that this stays true: accounts are never removed,
never moved to another email and never deactivated (`Grows`); mails are not unsent
(`MailsGrow`); a request that is done does not change again (`Settles`). So `ReqOK`, what
each place of a request implies, survives every step of another one (`OthersKeep`), and
the action of a request has to establish it only for that request (`ReadGoesOn`,
`WroteOne`). The delicate case is a logout between the comparison of a refresh and its
write: `RefreshOK` says that such a refresh carries `raced`, and `Of` that a token's
session belongs to one account (`OneAccountPerRoot`), so that a write to one account's
key cannot carry on the session of another. For the change of a password, `ComparedOK`
says that between the comparison and the write the account has the password that was
compared, or the request knows that it was raced, or another account has the email: only
the last step of a change or a reset writes the password of an account that exists
(`WritePassword`), and that step tells those it races with.

### What is only model-checked

* Liveness (`PendingEnds`, `ConsumerResumes`, `StaleIsDeleted`, `RequestsEnd`, `MailFollows`,
  `ClicksArrive`): fairness and ENABLED are beyond the prover.
* What a recursive function computes for every input would need induction over data;
  no module here depends on it.

## 5. Plan

In order of what matters most to the system:

1. Done: `RateLimitGuard`, `ClickProcessor`, `UrlsService` and their proofs.
2. Done: `ClickPipeline` with the refinement of `ClickLedger`; `Accounts` with
   `EmailQueue`; `ShortCodes`; and their proofs.
3. Left to prove: what links keep when `FormatCheck` is off and custom codes are reused,
   which needs a weaker statement than `NoLiveLinkVanishes` first.
4. Left to model: the connection of the producer, which is tried once and stops the
   start when it fails, and the creation of topics, which hold back nothing but the start
   of the server; an `add` to the mail queue that is executed twice.

Runs stay with two or three actors and one fault. A module that is to be proved about
declares no RECURSIVE operator, names its assumptions and keeps one action per handler
or await.

## 6. Hazards

`PROJECT.json` lists them at their lines, with the properties that would catch them.
Those without a property say why: they are facts of the code that hold or fail without
any interleaving (the alphabet, the types of a cached row, the code `all`). Where a
property excuses the very case that does go wrong, so that it shows only that nothing
else does, a note says so.

## 7. Running it

    tlc -workers 2 -config UrlsService_deployed.cfg MCUrlsService
    tlapm ClickProcessorProofs.tla

Every `.cfg` is named after its module and run. The longest takes under five
minutes, the proofs a few minutes each.

## 8. Not modelled, and why

* `urls-cleanup.service.ts`: no module provides it, so it never runs.
* `cache/`, `tracking/`, `retry.util.ts`: generated stubs and a helper that nothing
  imports.
* ClickHouse: connected to at start, never written or read. Prometheus: counters that
  no decision depends on.
* Redis and database clients, configuration, bootstrap: one call each, modelled
  where they are used; the missing shutdown hooks are in `ClickProcessor`.
* Safe browsing: a stateless check, in `ShortCodes` the choice between `Wake` and
  `Unsafe`.
* The click statistics of `clicks.service.ts` and the map of countries: queries
  without state. The producer's one attempt to connect, whose failure stops the start
  (`kafka-producer.service.ts:28-36`), and `kafka-admin.service.ts`, whose failure
  after five attempts is a return value that nothing looks at: they only delay the
  start. The error and analytics topics: nothing reads the one or writes the other.
* JWT signatures, password hashes and salts: libraries, modelled by what the code
  distinguishes (equal or not). `sendVerificationEmail` and `sendPasswordResetEmail`
  of `auth.service.ts` have no caller.
* A Bull `add` that is executed twice because its answer was lost: it makes a second
  job, with a mail of its own. `RepeatsAreBounded` is a bound per job.
* Mail templates, Swagger, DTO validation: wording and layout.
  
