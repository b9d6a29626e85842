---------------------------- MODULE UrlsService ----------------------------
(***************************************************************************)
(* Links and their cache: UrlsService and UrlsController                   *)
(* (src/src/modules/urls/urls.service.ts, urls.controller.ts) over the     *)
(* table link_urls and Redis.                                              *)
(*                                                                         *)
(* A request is a sequence of awaited commands; between two of them other  *)
(* requests run.  Promise.all sends several commands at once: `commands'   *)
(* holds the ones that are sent and not yet executed, each of which can    *)
(* fail, and a request whose Promise.all was rejected goes on while the    *)
(* rest of its commands is still on its way.                               *)
(*                                                                         *)
(* The click counters of links, which nothing here depends on, and the     *)
(* commands on them, which are sent with others and add no order of their  *)
(* own, are left out; a failure of one is a failure of its neighbour.      *)
(***************************************************************************)
EXTENDS Integers, FiniteSets

CONSTANTS
  Reqs,            \* bound on the requests in progress at the same time
  Ops,             \* the operations they ask for
  Generated,       \* the short codes that ShortCodeGenerator makes: 6 characters or fewer
  Custom,          \* the ones that a PATCH may ask for: 8 to 16 characters
  Users, NoUser,
  All,             \* the cache key of the list of all links
  Nothing, Never, Nobody,
  RetryAttempts,   \* RETRY_ATTEMPTS
  FreshCodes,      \* TRUE: the generator never repeats a code; nothing checks that
  FormatCheck,     \* TRUE: PATCH checks the old code as urls.controller.ts:127 does;
                   \* FALSE: UrlsService.update as any other caller could use it
  MaxNow,          \* bound on the clock
  MaxFaults        \* bound on the commands that fail

Codes    == Generated \cup Custom
ListKeys == Users \cup {All}
Keys     == Codes \cup ListKeys

ASSUME KeysAssumption ==
  /\ Generated \cap Custom = {} /\ Codes \cap ListKeys = {}
  /\ NoUser \notin Users /\ All \notin Users /\ Nobody \notin Reqs
  /\ Ops \subseteq {"create", "find", "list", "remove", "update"}
ASSUME BoundsAssumption ==
  /\ RetryAttempts \in Nat \ {0} /\ MaxNow \in Nat /\ MaxFaults \in Nat
  /\ FreshCodes \in BOOLEAN /\ FormatCheck \in BOOLEAN /\ Never \notin 0..MaxNow

\* A row of link_urls: user_id and expires_at; Never stands for null.
Rows  == [owner : Users \cup {NoUser}, expires : (0..MaxNow) \cup {Never}]
Lists == [Codes -> Rows \cup {Nothing}]

ASSUME NothingAssumption == Nothing \notin Rows /\ Nothing \notin Lists

Commands == [by : Reqs \cup {Nobody},
             of : {"createUrlRecord", "remove", "invalidateMultipleKeys"},
             op : {"insert", "delete", "del", "lookup"},
             key : Keys, row : Rows \cup {Nothing}]

VARIABLES
  link,      \* link_urls
  cache,     \* Redis
  commands,  \* sent and not yet executed
  req,       \* what each request has asked for, read and got to
  now,
  answer,    \* what the last step answered to its client
  \* history
  used,      \* codes that have been inserted
  asked,     \* codes whose removal was asked for and granted
  raced,     \* cache keys that were set while a write to what they hold was going on
  faults

vars == <<link, cache, commands, req, now, answer, used, asked, raced, faults>>

Idle == [pc |-> "idle", op |-> "create", user |-> NoUser, key |-> All, new |-> All,
         value |-> Nothing, granted |-> FALSE, tries |-> 0]

Pcs == {"idle", "getFromCache", "select", "setCache", "expired", "exists",
        "createUrlRecord", "invalidate", "failed"}

Results == {"created", "found", "not found", "listed", "refused", "removed", "conflict",
            "bad format", "updated", "error"}

NoAnswer == [result |-> "none", key |-> All, value |-> Nothing]

TypeOK ==
  /\ link \in [Codes -> Rows \cup {Nothing}]
  /\ DOMAIN cache = Keys
  /\ \A k \in Codes : cache[k] \in Rows \cup {Nothing}
  /\ \A k \in ListKeys : cache[k] = Nothing \/ cache[k] \in Lists
  /\ commands \subseteq Commands
  /\ DOMAIN req = Reqs
  /\ \A r \in Reqs :
       /\ req[r].pc \in Pcs /\ req[r].op \in Ops \cup {"create"}
       /\ req[r].user \in Users \cup {NoUser} /\ req[r].key \in Keys
       /\ req[r].new \in Custom \cup {All}
       /\ req[r].value \in {Nothing} \cup (IF req[r].op = "list" THEN Lists ELSE Rows)
       /\ req[r].granted \in BOOLEAN /\ req[r].tries \in 0..RetryAttempts
  /\ now \in 0..MaxNow
  /\ answer = NoAnswer \/ (answer.result \in Results /\ answer.key \in Keys)
  /\ used \subseteq Codes /\ asked \subseteq Codes /\ raced \subseteq Keys
  /\ faults \in 0..MaxFaults

Init ==
  /\ link     = [k \in Codes |-> Nothing]
  /\ cache    = [k \in Keys |-> Nothing]
  /\ commands = {}
  /\ req      = [r \in Reqs |-> Idle]
  /\ now      = 0
  /\ answer   = NoAnswer
  /\ used = {} /\ asked = {} /\ raced = {}
  /\ faults   = 0

-----------------------------------------------------------------------------
(* Helpers *)

\* The slip of comparing with the creation date only.
isExpired_Any(row) == row.expires # Never

isExpired(row) == row.expires # Never /\ now > row.expires

\* The slip of an off-by-one in the days.
calculateExpirationDate_LateByOne == {now + 1, Never}

\* The date is the last moment of the link; the clock counts in lifetimes.
calculateExpirationDate == {now, Never}

\* What the cache entry of a key stands for: a row, or the rows of everybody or a user.
Stored(key) ==
  IF key \in Codes THEN link[key]
  ELSE [k \in Codes |-> IF key = All \/ (link[k] # Nothing /\ link[k].owner = key)
                        THEN link[k] ELSE Nothing]

Command(r, of, op, key, row) == [by |-> r, of |-> of, op |-> op, key |-> key, row |-> row]

\* createUrlRecord
Record(r, key, row) == {Command(r, "createUrlRecord", "insert", key, row)}

\* invalidateMultipleKeys(['all', userId ? `user:${userId}` : null].filter(Boolean))
Invalidations(r, of, owner) ==
  {Command(r, of, "del", k, Nothing) : k \in {All} \cup ({owner} \ {NoUser})}

\* remove: it reads the row first
Lookup(r, key) == {Command(r, "remove", "lookup", key, Nothing)}

\* The slip of forgetting the cache entry of the link itself, and that of forgetting
\* the lists.
Removal_KeepsEntry(r, key, row) ==
  {Command(r, "remove", "delete", key, Nothing)} \cup Invalidations(r, "remove", row.owner)

Removal_KeepsLists(r, key, row) ==
  {Command(r, "remove", op, key, Nothing) : op \in {"delete", "del"}}

\* what remove sends when there is a row
Removal(r, key, row) ==
  {Command(r, "remove", op, key, Nothing) : op \in {"delete", "del"}}
    \cup Invalidations(r, "remove", row.owner)

\* The slip of a Promise.any for a Promise.all.
Settled_Any(r) == Cardinality({c \in commands : c.by = r}) <= 1

Settled(r) == \A c \in commands : c.by # r

Goto(r, pc) == req' = [req EXCEPT ![r].pc = pc]

Answer(r, result) ==
  /\ answer' = [result |-> result, key |-> req[r].key, value |-> req[r].value]
  /\ req'    = [req EXCEPT ![r] = Idle]

-----------------------------------------------------------------------------
(* POST /urls *)

FreeCodes == IF FreshCodes THEN Generated \ used ELSE Generated

\* getNextCode and createUrlRecord.  A link that Safe Browsing refuses starts nothing.
Attempt(r, key, row, user, tries) ==
  /\ commands' = commands \cup Record(r, key, row)
  /\ used'     = used \cup {key}
  /\ req'      = [req EXCEPT ![r] = [Idle EXCEPT !.pc = "createUrlRecord", !.user = user,
                                                 !.key = key, !.value = row, !.tries = tries]]

create(r) ==
  /\ req[r].pc = "idle" /\ "create" \in Ops
  /\ \E key \in FreeCodes, user \in Users \cup {NoUser}, date \in calculateExpirationDate :
       Attempt(r, key, [owner |-> user, expires |-> date], user, RetryAttempts)
  /\ answer' = NoAnswer
  /\ UNCHANGED <<link, cache, now, asked, raced, faults>>

\* catch: the next attempt, with another code
createRetries(r) ==
  /\ req[r].pc = "failed" /\ req[r].op = "create"
  /\ IF req[r].tries > 1 /\ FreeCodes # {}
     THEN /\ \E key \in FreeCodes :
               Attempt(r, key, req[r].value, req[r].user, req[r].tries - 1)
          /\ answer' = NoAnswer
     ELSE Answer(r, "error") /\ UNCHANGED <<commands, used>>
  /\ UNCHANGED <<link, cache, now, asked, raced, faults>>

\* The slip of forgetting the lists when a link is created.
Recorded_KeepsLists(r) ==
  /\ req[r].pc = "createUrlRecord" /\ Settled(r)
  /\ commands' = commands \cup (IF req[r].op = "update" THEN Lookup(r, req[r].key) ELSE {})
  /\ Goto(r, "invalidate")
  /\ answer' = NoAnswer
  /\ UNCHANGED <<link, cache, now, used, asked, raced, faults>>

\* The record is there: create and update invalidate the lists, update removes the old
\* link at the same time.
Recorded(r) ==
  /\ req[r].pc = "createUrlRecord" /\ Settled(r)
  /\ commands' = commands \cup Invalidations(r, "invalidateMultipleKeys", req[r].value.owner)
                   \cup (IF req[r].op = "update" THEN Lookup(r, req[r].key) ELSE {})
  /\ Goto(r, "invalidate")
  /\ answer' = NoAnswer
  /\ UNCHANGED <<link, cache, now, used, asked, raced, faults>>

Invalidated(r) ==
  /\ req[r].pc = "invalidate" /\ Settled(r)
  /\ Answer(r, CASE req[r].op = "create" -> "created"
                 [] req[r].op = "remove" -> "removed"
                 [] OTHER -> "updated")
  /\ UNCHANGED <<link, cache, commands, now, used, asked, raced, faults>>

-----------------------------------------------------------------------------
(* GET, and the lookup that DELETE and PATCH begin with *)

Start(r, op, user, key, new) ==
  /\ req[r].pc = "idle" /\ op \in Ops
  /\ req' = [req EXCEPT ![r] = [Idle EXCEPT !.pc = "getFromCache", !.op = op, !.user = user,
                                            !.key = key, !.new = new]]
  /\ answer' = NoAnswer
  /\ UNCHANGED <<link, cache, commands, now, used, asked, raced, faults>>

findOne(r)    == \E key \in Codes : Start(r, "find", NoUser, key, All)
findAll(r)    == Start(r, "list", NoUser, All, All)
findByUser(r) == \E user \in Users : Start(r, "list", user, user, All)
remove(r)     == \E user \in Users, key \in Codes : Start(r, "remove", user, key, All)

\* if (!/^[a-zA-Z0-9-_]{8,16}$/.test(shortCode)) throw
update(r) ==
  \E user \in Users, key \in Codes, new \in Custom :
    IF FormatCheck /\ key \notin Custom
    THEN /\ req[r].pc = "idle" /\ "update" \in Ops
         /\ answer' = [result |-> "bad format", key |-> key, value |-> Nothing]
         /\ UNCHANGED <<link, cache, commands, req, now, used, asked, raced, faults>>
    ELSE Start(r, "update", user, key, new)

\* `url.user_id && url.user_id !== userId': user_id is a string when it comes from the
\* cache and a Uuid object when it comes from the database.
Refuses(r, row, typed) == row.owner # NoUser /\ (typed \/ row.owner # req[r].user)

\* What a request does with the value it was looking for; typed is FALSE for a value
\* that was JSON.
Found(r, value, typed) ==
  LET q == [req[r] EXCEPT !.value = value]
      stop(result) ==
        /\ answer' = [result |-> result, key |-> q.key, value |-> value]
        /\ req'    = [req EXCEPT ![r] = Idle]
        /\ UNCHANGED <<commands, asked>>
      go(pc) == req' = [req EXCEPT ![r] = [q EXCEPT !.pc = pc, !.granted = TRUE]] /\ answer' = NoAnswer
  IN  \/ q.op = "list" /\ stop("listed")
      \/ q.op = "find" \* new Date() > url.expires_at is FALSE for any string
         /\ stop(IF typed /\ isExpired(value) THEN "not found" ELSE "found")
      \/ q.op \in {"remove", "update"} /\ ~q.granted /\ Refuses(r, value, typed)
         /\ stop("refused")
      \/ /\ q.op \in {"remove", "update"} /\ ~q.granted /\ ~Refuses(r, value, typed)
         /\ asked' = asked \cup {q.key}
         /\ IF q.op = "remove"
            THEN go("invalidate") /\ commands' = commands \cup Lookup(r, q.key)
            ELSE go("getFromCache") /\ UNCHANGED commands
      \/ q.op = "update" /\ q.granted /\ go("exists") /\ UNCHANGED <<commands, asked>>

\* if (cached) return cached
getFromCache(r) ==
  /\ req[r].pc = "getFromCache"
  /\ IF cache[req[r].key] # Nothing
     THEN Found(r, cache[req[r].key], FALSE)
     ELSE Goto(r, "select") /\ answer' = NoAnswer /\ UNCHANGED <<commands, asked>>
  /\ UNCHANGED <<link, cache, now, used, raced, faults>>

\* The rows, or the end of a link that is not there or has expired
select(r) ==
  LET value == Stored(req[r].key)
  IN  /\ req[r].pc = "select"
      /\ CASE value = Nothing -> Answer(r, "not found") /\ UNCHANGED commands
           [] value # Nothing /\ req[r].key \in Codes /\ isExpired(value) ->
                /\ Goto(r, "expired") /\ answer' = NoAnswer
                /\ commands' = commands \cup Lookup(r, req[r].key)
           [] OTHER ->
                /\ req' = [req EXCEPT ![r].pc = "setCache", ![r].value = value]
                /\ answer' = NoAnswer /\ UNCHANGED commands
      /\ UNCHANGED <<link, cache, now, used, asked, raced, faults>>

Expired(r) ==
  /\ req[r].pc = "expired" /\ Settled(r)
  /\ Answer(r, "not found")
  /\ UNCHANGED <<link, cache, commands, now, used, asked, raced, faults>>

\* A write to what the key stands for is on its way.
Writing(key) ==
  \E c \in commands : c.op \in {"insert", "delete"} /\ (c.key = key \/ key \in ListKeys)

\* Redis executes the SET of a request.
Cached(r) ==
  LET key == req[r].key
  IN  /\ req[r].pc = "setCache"
      /\ cache' = [cache EXCEPT ![key] = req[r].value]
      /\ raced' = IF req[r].value # Stored(key) \/ Writing(key)
                  THEN raced \cup {key} ELSE raced \ {key}

setCache(r) ==
  /\ Cached(r)
  /\ Found(r, req[r].value, TRUE)
  /\ UNCHANGED <<link, now, used, faults>>

-----------------------------------------------------------------------------
(* PATCH, after the controller's check *)

\* The new code must not be taken; the link keeps its owner and, unless the request says
\* otherwise, its date.  Safe Browsing may refuse the request before.
updateExists(r) ==
  /\ req[r].pc = "exists"
  /\ IF link[req[r].new] # Nothing
     THEN Answer(r, "conflict") /\ UNCHANGED <<commands, used>>
     ELSE \/ Answer(r, "error") /\ UNCHANGED <<commands, used>>
          \/ \E date \in calculateExpirationDate \cup {req[r].value.expires} :
               /\ commands' = commands \cup
                    Record(r, req[r].new, [req[r].value EXCEPT !.expires = date])
               /\ used' = used \cup {req[r].new}
               /\ Goto(r, "createUrlRecord") /\ answer' = NoAnswer
  /\ UNCHANGED <<link, cache, now, asked, raced, faults>>

-----------------------------------------------------------------------------
(* Commands arrive at the database and at Redis *)

\* What executing a command does, and what is sent because of its result.
Execute(c) ==
  /\ link'  = CASE c.op = "insert" -> [link EXCEPT ![c.key] = c.row]
                [] c.op = "delete" -> [link EXCEPT ![c.key] = Nothing]
                [] OTHER -> link
  /\ cache' = IF c.op = "del" THEN [cache EXCEPT ![c.key] = Nothing] ELSE cache
  /\ raced' = IF c.op = "del" THEN raced \ {c.key} ELSE raced

\* The slip of a lookup that forgets the command it came from.
Deliver_Stays(c) ==
  /\ Execute(c)
  /\ commands' = IF c.op = "lookup" /\ link[c.key] # Nothing
                 THEN commands \cup Removal(c.by, c.key, link[c.key])
                 ELSE IF c.op = "lookup" THEN commands ELSE commands \ {c}
  /\ answer' = NoAnswer
  /\ UNCHANGED <<req, now, used, asked, faults>>

Deliver(c) ==
  /\ Execute(c)
  /\ commands' = (commands \ {c}) \cup
                   (IF c.op = "lookup" /\ link[c.key] # Nothing
                    THEN Removal(c.by, c.key, link[c.key]) ELSE {})
  /\ answer' = NoAnswer
  /\ UNCHANGED <<req, now, used, asked, faults>>

\* A command fails: it has been executed, or not, or will be later (a timeout of the
\* client).  Promise.all is rejected at once, the other commands of the request stay on
\* their way.
Fail(c) ==
  LET detached(S) == {IF d.by = c.by THEN [d EXCEPT !.by = Nobody] ELSE d : d \in S}
  IN  /\ faults < MaxFaults /\ faults' = faults + 1
      /\ \/ Execute(c) /\ commands' = detached(commands \ {c})
         \/ UNCHANGED <<link, cache, raced>> /\ commands' = detached(commands \ {c})
         \/ /\ UNCHANGED <<link, cache, raced>>
            /\ c.op # "lookup" /\ commands' = detached(commands)
      /\ req' = IF c.by = Nobody THEN req ELSE [req EXCEPT ![c.by].pc = "failed"]
      /\ answer' = NoAnswer
      /\ UNCHANGED <<now, used, asked>>

\* An awaited command of a request fails; a SET may have been executed.
FailAlone(r) ==
  /\ faults < MaxFaults /\ faults' = faults + 1
  /\ req[r].pc \in {"getFromCache", "select", "setCache", "exists"}
  /\ Cached(r) \/ UNCHANGED <<cache, raced>>
  /\ Goto(r, "failed")
  /\ answer' = NoAnswer
  /\ UNCHANGED <<link, commands, now, used, asked>>

\* The process dies and a new one starts: the requests are gone, Redis and the database
\* are not.
Crash ==
  /\ faults < MaxFaults /\ faults' = faults + 1
  /\ commands' = {}
  /\ req' = [r \in Reqs |-> Idle]
  /\ answer' = NoAnswer
  /\ UNCHANGED <<link, cache, now, used, asked, raced>>

\* Anything but create answers that it failed.
Failed(r) ==
  /\ req[r].pc = "failed" /\ req[r].op # "create"
  /\ Answer(r, "error")
  /\ UNCHANGED <<link, cache, commands, now, used, asked, raced, faults>>

\* SET ... EX redis.ttl
CacheExpires(key) ==
  /\ cache[key] # Nothing
  /\ cache' = [cache EXCEPT ![key] = Nothing]
  /\ raced' = raced \ {key}
  /\ answer' = NoAnswer
  /\ UNCHANGED <<link, commands, req, now, used, asked, faults>>

Tick ==
  /\ now < MaxNow /\ now' = now + 1
  /\ answer' = NoAnswer
  /\ UNCHANGED <<link, cache, commands, req, used, asked, raced, faults>>

-----------------------------------------------------------------------------

Begin(r) == create(r) \/ findOne(r) \/ findAll(r) \/ findByUser(r) \/ remove(r) \/ update(r)

Continue(r) ==
  \/ createRetries(r) \/ Recorded(r) \/ Invalidated(r)
  \/ getFromCache(r) \/ select(r) \/ Expired(r) \/ setCache(r)
  \/ updateExists(r) \/ Failed(r)

Next ==
  \/ \E r \in Reqs : Begin(r) \/ Continue(r) \/ FailAlone(r)
  \/ \E c \in commands : Deliver(c) \/ Fail(c)
  \/ \E key \in Keys : CacheExpires(key)
  \/ Tick \/ Crash

Spec == Init /\ [][Next]_vars

\* Requests go on and commands arrive; clients need not come, and nothing here waits for
\* a cached value to expire.
Fairness ==
  /\ \A r \in Reqs : WF_vars(Continue(r))
  /\ \A r \in Reqs \cup {Nobody} : WF_vars(\E c \in commands : c.by = r /\ Deliver(c))
  /\ WF_vars(Tick)

FairSpec == Spec /\ Fairness

-----------------------------------------------------------------------------
(* Properties *)

Overdue(row) == row.expires # Never /\ row.expires < now

Stale(key) == cache[key] # Nothing /\ cache[key] # Stored(key)

\* The request or a command of it will still delete the key.
Invalidating(key) ==
  \/ \E c \in commands : c.op = "del" /\ c.key = key
  \/ key \in ListKeys /\ \E r \in Reqs : req[r].pc = "createUrlRecord"

\* Every write is followed by the deletion of every cache key that it makes stale
\* (urls.service.ts:84, 210-220, 276-279): a stale entry that no request is about to
\* delete comes from a read that overlapped a write, or from a failure.
StaleIsAccountedFor ==
  \A key \in Keys : Stale(key) => Invalidating(key) \/ Writing(key) \/ key \in raced \/ faults > 0

\* A link that POST /urls answers with is in the table, unless its removal was granted or
\* it expired in the meantime, through retries after half-finished attempts
\* (urls.service.ts:80-98).
CreatedIsStored ==
  answer.result = "created" =>
    \/ link[answer.key] = answer.value
    \/ answer.key \in asked \/ Overdue(answer.value)

\* A link that DELETE answers to have removed is not in the table
\* (urls.service.ts:199-226).
RemovedIsGone == answer.result = "removed" => link[answer.key] = Nothing

\* A row leaves the table only if it has expired or its removal was granted: no lookup
\* that found something else takes a live link with it (urls.service.ts:121-124).
NoLiveLinkVanishes ==
  [][\A k \in Codes : link[k] # Nothing /\ link'[k] = Nothing =>
       Overdue(link[k]) \/ k \in asked]_vars

\* A stale cache entry does not live until its TTL: the deletions of the request that made
\* it stale are really sent and executed, whatever else goes on, unless the entry comes
\* from a read that overlapped the write or a command failed (urls.service.ts:84,
\* 207-220, 276-279).
StaleIsDeleted ==
  \A key \in Keys : Stale(key) ~> ~Stale(key) \/ key \in raced \/ faults > 0

\* Every request is answered (urls.service.ts:67-297).
RequestsEnd == \A r \in Reqs : req[r].pc # "idle" ~> req[r].pc = "idle"
=============================================================================
