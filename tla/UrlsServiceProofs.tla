------------------------- MODULE UrlsServiceProofs -------------------------
(***************************************************************************)
(* Theorems about UrlsService, for any number of requests in progress, of  *)
(* codes, users, attempts and failures.                                    *)
(***************************************************************************)
EXTENDS UrlsService, TLAPS

-----------------------------------------------------------------------------
(* Types *)

Requests == [pc : Pcs, op : Ops \cup {"create"}, user : Users \cup {NoUser}, key : Keys,
             new : Custom \cup {All}, value : Rows \cup Lists \cup {Nothing},
             granted : BOOLEAN, tries : 0..RetryAttempts]

\* The values of a key, and of a request that is about it.
Values(key) == IF key \in Codes THEN Rows ELSE Lists

\* What a request has read, and what it may have got to with it.
WellFormed(q) ==
  /\ q.pc # "idle" => q.key \in IF q.op = "list" THEN ListKeys ELSE Codes
  /\ q.value # Nothing => q.value \in IF q.op = "list" THEN Lists ELSE Rows
  /\ q.pc \in {"setCache", "exists", "createUrlRecord"} => q.value # Nothing
  /\ q.pc # "idle" /\ q.op = "create" => q.value # Nothing
  /\ q.pc # "idle" /\ q.op = "update" => q.new \in Custom
  /\ q.pc = "exists" => q.op = "update"
  /\ q.pc = "createUrlRecord" => q.op \in {"create", "update"}
  /\ q.pc \in {"expired", "invalidate"} => q.op # "list"

Addressed(c) == /\ c.op # "del" => c.key \in Codes
                /\ c.op = "insert" => c.row \in Rows

RequestsTyped == req \in [Reqs -> Requests] /\ \A r \in Reqs : WellFormed(req[r])
CommandsTyped == commands \subseteq Commands /\ \A c \in commands : Addressed(c)
AnswerTyped   == answer = NoAnswer \/ (answer.result \in Results /\ answer.key \in Keys)
StoreTyped ==
  /\ link \in [Codes -> Rows \cup {Nothing}]
  /\ cache \in [Keys -> Rows \cup Lists \cup {Nothing}]
  /\ \A k \in Keys : cache[k] # Nothing => cache[k] \in Values(k)
HistoryTyped ==
  /\ now \in 0..MaxNow
  /\ used \subseteq Codes /\ asked \subseteq Codes /\ raced \subseteq Keys
  /\ faults \in 0..MaxFaults

TInv == RequestsTyped /\ CommandsTyped /\ AnswerTyped /\ StoreTyped /\ HistoryTyped

\* Where a request is that has sent a command and waits for it.
SentBy(c, q) ==
  IF c.op = "insert"
  THEN /\ q.pc = "createUrlRecord" /\ q.value.owner = c.row.owner
       /\ q.op = "create" => q.key = c.key /\ q.value = c.row
  ELSE q.pc \in {"invalidate", "expired"}

\* Whoever has a command on its way waits for it, unless something has failed.
Sent == \A c \in commands : /\ c.by # Nobody => SentBy(c, req[c.by])
                            /\ faults = 0 => c.by # Nobody

\* A row has an owner and a date.
LEMMA RowFields ==
  /\ \A row \in Rows : row.owner \in Users \cup {NoUser} /\ row.expires \in (0..MaxNow) \cup {Never}
  /\ \A owner \in Users \cup {NoUser}, date \in (0..MaxNow) \cup {Never} :
       [owner |-> owner, expires |-> date] \in Rows
  /\ \A row \in Rows, date \in (0..MaxNow) \cup {Never} : [row EXCEPT !.expires = date] \in Rows
BY DEF Rows

\* A request that is answered has nothing left.
LEMMA IdleTyped ==
  /\ Idle \in Requests /\ WellFormed(Idle)
  /\ Idle.pc = "idle" /\ Idle.op = "create" /\ Idle.value = Nothing /\ Idle.key = All
BY BoundsAssumption DEF Idle, Requests, WellFormed, Pcs, Keys, ListKeys

\* One request moves.
LEMMA OneMoves ==
  ASSUME RequestsTyped, NEW r \in Reqs, NEW q \in Requests, WellFormed(q),
         req' = [req EXCEPT ![r] = q]
  PROVE  RequestsTyped'
<1>1. req' \in [Reqs -> Requests] /\ req'[r] = q /\ \A p \in Reqs \ {r} : req'[p] = req[p]
  BY DEF RequestsTyped
<1> QED BY <1>1 DEF RequestsTyped

\* A request only goes somewhere.
LEMMA GotoTyped ==
  ASSUME RequestsTyped, NEW r \in Reqs, NEW pc \in Pcs, Goto(r, pc),
         WellFormed([req[r] EXCEPT !.pc = pc])
  PROVE  RequestsTyped'
<1>1. [req[r] EXCEPT !.pc = pc] \in Requests
  BY DEF RequestsTyped, Requests
<1> QED BY <1>1, OneMoves DEF Goto

\* A request is answered.
LEMMA AnswerIsTyped ==
  ASSUME RequestsTyped, NEW r \in Reqs, NEW result \in Results, Answer(r, result)
  PROVE  RequestsTyped' /\ AnswerTyped'
<1>1. RequestsTyped'
  BY IdleTyped, OneMoves DEF Answer
<1>2. req[r].key \in Keys
  BY DEF RequestsTyped, Requests
<1> QED BY <1>1, <1>2 DEF Answer, AnswerTyped

\* The commands that are sent are commands.
LEMMA SentTyped ==
  ASSUME NEW by \in Reqs \cup {Nobody}
  PROVE  /\ \A key \in Codes, row \in Rows :
              \A c \in Record(by, key, row) : c \in Commands /\ Addressed(c)
         /\ \A key \in Codes : \A c \in Lookup(by, key) : c \in Commands /\ Addressed(c)
         /\ \A of \in {"remove", "invalidateMultipleKeys"}, owner \in Users \cup {NoUser} :
              \A c \in Invalidations(by, of, owner) : c \in Commands /\ Addressed(c)
         /\ \A key \in Codes, row \in Rows :
              \A c \in Removal(by, key, row) : c \in Commands /\ Addressed(c)
<1>1. \A of \in {"createUrlRecord", "remove", "invalidateMultipleKeys"},
         op \in {"insert", "delete", "del", "lookup"}, key \in Keys, row \in Rows \cup {Nothing} :
        /\ Command(by, of, op, key, row) \in Commands
        /\ Command(by, of, op, key, row).op = op
        /\ Command(by, of, op, key, row).key = key
        /\ Command(by, of, op, key, row).row = row
  BY DEF Command, Commands
<1>2. \A of \in {"remove", "invalidateMultipleKeys"}, owner \in Users \cup {NoUser} :
        \A c \in Invalidations(by, of, owner) : c \in Commands /\ Addressed(c)
  BY <1>1 DEF Invalidations, Addressed, Keys, ListKeys
<1>3. \A key \in Codes, row \in Rows :
        \A c \in Removal(by, key, row) : c \in Commands /\ Addressed(c)
  BY <1>1, <1>2, RowFields DEF Removal, Addressed, Keys
<1>4. \A key \in Codes, row \in Rows :
        \A c \in Record(by, key, row) : c \in Commands /\ Addressed(c)
  BY <1>1 DEF Record, Addressed, Keys
<1>5. ASSUME NEW key \in Codes, NEW c \in Lookup(by, key)
      PROVE  c \in Commands /\ Addressed(c)
  <2>1. c = Command(by, "remove", "lookup", key, Nothing) /\ key \in Keys
    BY DEF Lookup, Keys
  <2>2. c \in Commands /\ c.op = "lookup" /\ c.key = key
    BY <1>1, <2>1
  <2> QED BY <2>2 DEF Addressed
<1> QED BY <1>2, <1>3, <1>4, <1>5

\* A request starts an attempt.
LEMMA AttemptTyped ==
  ASSUME TInv, NEW r \in Reqs, NEW key \in Codes, NEW row \in Rows,
         NEW user \in Users \cup {NoUser}, NEW tries \in 0..RetryAttempts,
         Attempt(r, key, row, user, tries)
  PROVE  RequestsTyped' /\ CommandsTyped' /\ used' \subseteq Codes
<1> DEFINE q == [Idle EXCEPT !.pc = "createUrlRecord", !.user = user,
                             !.key = key, !.value = row, !.tries = tries]
<1>1. /\ q \in Requests
      /\ q.pc = "createUrlRecord" /\ q.op = "create" /\ q.key = key /\ q.value = row
  BY IdleTyped DEF Requests, Pcs, Keys
<1>2. WellFormed(q)
  BY <1>1, NothingAssumption DEF WellFormed
<1>3. req' = [req EXCEPT ![r] = q]
  BY DEF Attempt
<1> HIDE DEF q
<1>4. RequestsTyped'
  BY <1>1, <1>2, <1>3, OneMoves DEF TInv
<1>5. CommandsTyped' /\ used' \subseteq Codes
  BY SentTyped DEF Attempt, TInv, CommandsTyped, HistoryTyped
<1> QED BY <1>4, <1>5

\* POST /urls keeps the types.
LEMMA CreateTyped ==
  ASSUME TInv, NEW r \in Reqs, create(r) \/ createRetries(r)
  PROVE  TInv'
<1>1. UNCHANGED <<link, cache, now, asked, raced, faults>>
  BY DEF create, createRetries
<1>2. FreeCodes \subseteq Codes
  BY DEF FreeCodes, Codes
<1>3. CASE create(r)
  <2>1. PICK key \in FreeCodes, user \in Users \cup {NoUser}, date \in calculateExpirationDate :
          Attempt(r, key, [owner |-> user, expires |-> date], user, RetryAttempts)
    BY <1>3 DEF create
  <2>2. [owner |-> user, expires |-> date] \in Rows /\ RetryAttempts \in 0..RetryAttempts
    BY RowFields, BoundsAssumption DEF calculateExpirationDate, TInv, HistoryTyped
  <2>3. RequestsTyped' /\ CommandsTyped' /\ used' \subseteq Codes
    BY <1>2, <2>1, <2>2, AttemptTyped
  <2> QED BY <1>1, <1>3, <2>3 DEF create, TInv, AnswerTyped, StoreTyped, HistoryTyped
<1>4. CASE createRetries(r)
  <2>1. /\ req[r].user \in Users \cup {NoUser} /\ req[r].tries \in 0..RetryAttempts
        /\ req[r].value \in Rows /\ req[r].op = "create"
    BY <1>4 DEF createRetries, TInv, RequestsTyped, Requests, WellFormed
  <2>2. CASE Answer(r, "error") /\ UNCHANGED <<commands, used>>
    <3>1. RequestsTyped' /\ AnswerTyped'
      BY <2>2, AnswerIsTyped DEF TInv, Results
    <3> QED BY <1>1, <2>2, <3>1 DEF TInv, CommandsTyped, StoreTyped, HistoryTyped
  <2>3. ASSUME NEW key \in FreeCodes, req[r].tries > 1,
               Attempt(r, key, req[r].value, req[r].user, req[r].tries - 1)
        PROVE  RequestsTyped' /\ CommandsTyped' /\ used' \subseteq Codes
    <3>1. req[r].tries - 1 \in 0..RetryAttempts
      BY <2>1, <2>3, BoundsAssumption
    <3> QED BY <1>2, <2>1, <2>3, <3>1, AttemptTyped
  <2>4. CASE ~(Answer(r, "error") /\ UNCHANGED <<commands, used>>)
    BY <1>1, <1>4, <2>3, <2>4 DEF createRetries, TInv, AnswerTyped, StoreTyped, HistoryTyped
  <2> QED BY <2>2, <2>4
<1> QED BY <1>3, <1>4

\* A request that goes on after its record has been written.
LEMMA RecordedTyped ==
  ASSUME TInv, NEW r \in Reqs, Recorded(r)
  PROVE  TInv'
<1>1. /\ req[r].pc = "createUrlRecord" /\ req[r].op \in {"create", "update"} /\ req[r].key \in Codes
      /\ req[r].value \in Rows /\ req[r] \in Requests
  BY DEF Recorded, TInv, RequestsTyped, WellFormed
<1>2. WellFormed([req[r] EXCEPT !.pc = "invalidate"])
  BY <1>1 DEF Requests, WellFormed, TInv, RequestsTyped
<1>3. RequestsTyped'
  BY <1>2, GotoTyped DEF Recorded, TInv, Pcs
<1>4. CommandsTyped'
  <2>1. req[r].value.owner \in Users \cup {NoUser}
    BY <1>1, RowFields
  <2>2. \A c \in Invalidations(r, "invalidateMultipleKeys", req[r].value.owner) \cup
               Lookup(r, req[r].key) : c \in Commands /\ Addressed(c)
    BY <1>1, <2>1, SentTyped
  <2>3. commands' \subseteq commands
          \cup Invalidations(r, "invalidateMultipleKeys", req[r].value.owner)
          \cup Lookup(r, req[r].key)
    BY DEF Recorded
  <2>4. commands \subseteq Commands /\ \A c \in commands : Addressed(c)
    BY DEF TInv, CommandsTyped
  <2> QED BY <2>2, <2>3, <2>4 DEF CommandsTyped
<1> QED BY <1>3, <1>4 DEF Recorded, TInv, AnswerTyped, StoreTyped, HistoryTyped

\* A request begins.
LEMMA StartTyped ==
  ASSUME TInv, NEW r \in Reqs,
         findOne(r) \/ findAll(r) \/ findByUser(r) \/ remove(r) \/ update(r)
  PROVE  TInv'
<1>1. ASSUME NEW op \in {"find", "list", "remove", "update"}, NEW user \in Users \cup {NoUser},
             NEW key \in (IF op = "list" THEN ListKeys ELSE Codes), NEW new \in Custom \cup {All}, op = "update" => new \in Custom,
             Start(r, op, user, key, new)
      PROVE  TInv'
  <2> DEFINE q == [Idle EXCEPT !.pc = "getFromCache", !.op = op, !.user = user,
                               !.key = key, !.new = new]
  <2>1. op \in Ops /\ key \in Keys
    BY <1>1 DEF Start, Keys
  <2>2. /\ q \in Requests
        /\ q.pc = "getFromCache" /\ q.op = op /\ q.key = key /\ q.new = new /\ q.value = Nothing
    BY <2>1, IdleTyped DEF Requests, Pcs
  <2>3. req' = [req EXCEPT ![r] = q]
    BY <1>1 DEF Start
  <2> HIDE DEF q
  <2>4. WellFormed(q)
    BY <1>1, <2>2 DEF WellFormed
  <2>5. RequestsTyped'
    BY <2>2, <2>3, <2>4, OneMoves DEF TInv
  <2> QED BY <1>1, <2>5 DEF Start, TInv, CommandsTyped, AnswerTyped, StoreTyped, HistoryTyped
<1>2. All \in ListKeys /\ Users \subseteq ListKeys
  BY DEF ListKeys
<1>3. CASE findOne(r)
  BY <1>1, <1>3 DEF findOne
<1>4. CASE findAll(r)
  BY <1>1, <1>2, <1>4 DEF findAll
<1>5. CASE findByUser(r)
  BY <1>1, <1>2, <1>5 DEF findByUser
<1>6. CASE remove(r)
  BY <1>1, <1>6 DEF remove
<1>7. CASE update(r)
  <2>1. PICK user \in Users, key \in Codes, new \in Custom :
          \/ /\ answer' = [result |-> "bad format", key |-> key, value |-> Nothing]
             /\ UNCHANGED <<link, cache, commands, req, now, used, asked, raced, faults>>
          \/ Start(r, "update", user, key, new)
    BY <1>7, Zenon DEF update
  <2>2. CASE Start(r, "update", user, key, new)
    BY <1>1, <2>2
  <2>3. CASE /\ answer' = [result |-> "bad format", key |-> key, value |-> Nothing]
             /\ UNCHANGED <<link, cache, commands, req, now, used, asked, raced, faults>>
    <3>1. AnswerTyped'
      BY <2>3 DEF AnswerTyped, Results, Keys
    <3> QED BY <2>3, <3>1 DEF TInv, RequestsTyped, CommandsTyped, StoreTyped, HistoryTyped
  <2> QED BY <2>1, <2>2, <2>3
<1> QED BY <1>3, <1>4, <1>5, <1>6, <1>7

\* A request has found what it was looking for.
LEMMA FoundTyped ==
  ASSUME TInv, NEW r \in Reqs, req[r].pc \in {"getFromCache", "setCache"},
         NEW value, value # Nothing, value \in Values(req[r].key), NEW typed, Found(r, value, typed)
  PROVE  RequestsTyped' /\ CommandsTyped' /\ AnswerTyped' /\ asked' \subseteq Codes
<1> DEFINE q == [req[r] EXCEPT !.value = value]
<1>1. /\ req[r] \in Requests /\ WellFormed(req[r]) /\ r \in Reqs \cup {Nobody}
  BY DEF TInv, RequestsTyped
<1>2. /\ req[r].op = "list" => req[r].key \in ListKeys /\ value \in Lists
      /\ req[r].op # "list" => req[r].key \in Codes /\ value \in Rows
      /\ req[r].key \in Keys
  BY <1>1, KeysAssumption DEF WellFormed, Values, Requests
<1>3. /\ q \in Requests /\ q.key = req[r].key /\ q.op = req[r].op /\ q.pc = req[r].pc
      /\ q.value = value /\ q.new = req[r].new /\ q.granted = req[r].granted
  BY <1>1, <1>2 DEF Requests
<1>4. ASSUME NEW result \in Results,
             answer' = [result |-> result, key |-> q.key, value |-> value],
             req' = [req EXCEPT ![r] = Idle], UNCHANGED <<commands, asked>>
      PROVE  RequestsTyped' /\ CommandsTyped' /\ AnswerTyped' /\ asked' \subseteq Codes
  <2>1. RequestsTyped'
    BY <1>4, IdleTyped, OneMoves DEF TInv
  <2>2. AnswerTyped'
    BY <1>2, <1>3, <1>4 DEF AnswerTyped
  <2> QED BY <1>4, <2>1, <2>2 DEF TInv, CommandsTyped, HistoryTyped
<1>5. ASSUME NEW pc \in {"invalidate", "getFromCache", "exists"}, q.op \in {"remove", "update"},
             pc = "exists" => q.op = "update",
             req' = [req EXCEPT ![r] = [q EXCEPT !.pc = pc, !.granted = TRUE]], answer' = NoAnswer
      PROVE  RequestsTyped' /\ AnswerTyped'
  <2>0. [q EXCEPT !.pc = pc, !.granted = TRUE] \in Requests
    BY <1>1, <1>2, <1>3, <1>5 DEF Requests, Pcs
  <2>1. WellFormed([q EXCEPT !.pc = pc, !.granted = TRUE])
    BY <1>1, <1>2, <1>3, <1>5 DEF Requests, WellFormed
  <2> HIDE DEF q
  <2> QED BY <1>5, <2>0, <2>1, OneMoves DEF AnswerTyped, TInv
<1>6. CASE q.op = "remove" /\ asked' = asked \cup {q.key} /\ answer' = NoAnswer
           /\ req' = [req EXCEPT ![r] = [q EXCEPT !.pc = "invalidate", !.granted = TRUE]]
           /\ commands' = commands \cup Lookup(r, q.key)
  <2>1. RequestsTyped' /\ AnswerTyped'
    BY <1>5, <1>6
  <2>2. q.key \in Codes
    BY <1>2, <1>3, <1>6
  <2>3. \A c \in Lookup(r, q.key) : c \in Commands /\ Addressed(c)
    BY <1>1, <2>2, SentTyped
  <2> HIDE DEF q
  <2> QED BY <1>6, <2>1, <2>2, <2>3 DEF TInv, CommandsTyped, HistoryTyped
<1>7. CASE q.op = "update" /\ (asked' = asked \cup {q.key} \/ asked' = asked) /\ answer' = NoAnswer
           /\ (\E pc \in {"getFromCache", "exists"} :
                 req' = [req EXCEPT ![r] = [q EXCEPT !.pc = pc, !.granted = TRUE]])
           /\ commands' = commands
  <2>1. RequestsTyped' /\ AnswerTyped'
    BY <1>5, <1>7
  <2>2. q.key \in Codes
    BY <1>2, <1>3, <1>7
  <2> HIDE DEF q
  <2> QED BY <1>7, <2>1, <2>2 DEF TInv, CommandsTyped, HistoryTyped
<1>8. CASE \E result \in {"listed", "found", "not found", "refused"} :
             /\ answer' = [result |-> result, key |-> q.key, value |-> value]
             /\ req' = [req EXCEPT ![r] = Idle] /\ UNCHANGED <<commands, asked>>
  BY <1>4, <1>8 DEF Results
<1> HIDE DEF q
<1> QED BY <1>6, <1>7, <1>8 DEF Found, q

\* What a SET leaves in Redis.
LEMMA CachedTyped ==
  ASSUME TInv, NEW r \in Reqs, Cached(r), link' = link
  PROVE  /\ StoreTyped' /\ raced' \subseteq Keys
         /\ req[r].value \in Values(req[r].key) /\ req[r].value # Nothing
<1>1. /\ req[r] \in Requests /\ WellFormed(req[r]) /\ req[r].key \in Keys
  BY DEF TInv, RequestsTyped, Requests
<1>2. /\ req[r].pc = "setCache" /\ req[r].value # Nothing
      /\ cache' = [cache EXCEPT ![req[r].key] = req[r].value]
      /\ raced' \in {raced \cup {req[r].key}, raced \ {req[r].key}}
  BY <1>1 DEF Cached, WellFormed
<1>3. req[r].value \in Values(req[r].key)
  BY <1>1, <1>2, KeysAssumption DEF WellFormed, Values
<1>4. req[r].value \in Rows \cup Lists
  BY <1>3 DEF Values
<1>5. cache' \in [Keys -> Rows \cup Lists \cup {Nothing}]
  BY <1>1, <1>2, <1>4 DEF TInv, StoreTyped
<1>6. \A k \in Keys : cache'[k] # Nothing => cache'[k] \in Values(k)
  BY <1>1, <1>2, <1>3 DEF TInv, StoreTyped
<1>7. raced' \subseteq Keys
  BY <1>1, <1>2 DEF TInv, HistoryTyped
<1> QED BY <1>2, <1>3, <1>5, <1>6, <1>7 DEF TInv, StoreTyped

\* GET and the lookups before a removal or an update.
LEMMA LookupsTyped ==
  ASSUME TInv, NEW r \in Reqs, getFromCache(r) \/ select(r) \/ setCache(r) \/ Expired(r)
  PROVE  TInv'
<1>1. /\ req[r] \in Requests /\ WellFormed(req[r])
      /\ r \in Reqs \cup {Nobody} /\ req[r].key \in Keys
  BY DEF TInv, RequestsTyped, Requests
<1>2. CASE getFromCache(r)
  <2>1. CASE cache[req[r].key] # Nothing
    <3>1. cache[req[r].key] \in Values(req[r].key)
      BY <1>1, <2>1 DEF TInv, StoreTyped
    <3>2. RequestsTyped' /\ CommandsTyped' /\ AnswerTyped' /\ asked' \subseteq Codes
      BY <1>2, <2>1, <3>1, FoundTyped DEF getFromCache
    <3> QED BY <1>2, <3>2 DEF getFromCache, TInv, StoreTyped, HistoryTyped
  <2>2. CASE cache[req[r].key] = Nothing
    <3>1. Goto(r, "select") /\ answer' = NoAnswer /\ UNCHANGED <<commands, asked>>
      BY <1>2, <2>2 DEF getFromCache
    <3>2. WellFormed([req[r] EXCEPT !.pc = "select"])
      BY <1>1, <1>2 DEF getFromCache, WellFormed, Requests
    <3>3. RequestsTyped'
      BY <3>1, <3>2, GotoTyped DEF TInv, Pcs
    <3> QED BY <1>2, <3>1, <3>3 DEF getFromCache, TInv, CommandsTyped, AnswerTyped, StoreTyped, HistoryTyped
  <2> QED BY <2>1, <2>2
<1>3. CASE select(r)
  <2> DEFINE value == Stored(req[r].key)
  <2>1. value # Nothing => value \in Values(req[r].key)
    BY <1>1 DEF Stored, Values, Lists, TInv, StoreTyped
  <2>2. req[r].pc = "select"
    BY <1>3 DEF select
  <2>3. CASE value = Nothing
    <3>1. Answer(r, "not found") /\ UNCHANGED commands
      BY <1>3, <2>3 DEF select
    <3>2. RequestsTyped' /\ AnswerTyped'
      BY <3>1, AnswerIsTyped DEF TInv, Results
    <3> QED BY <1>3, <3>1, <3>2 DEF select, TInv, CommandsTyped, StoreTyped, HistoryTyped
  <2>4. CASE value # Nothing /\ req[r].key \in Codes /\ isExpired(value)
    <3>1. /\ Goto(r, "expired") /\ answer' = NoAnswer
          /\ commands' = commands \cup Lookup(r, req[r].key)
      <4> HIDE DEF value
      <4> QED BY <1>3, <2>4 DEF select, value
    <3>2. req[r].op # "list"
      BY <1>1, <2>2, <2>4, KeysAssumption DEF WellFormed
    <3>3. WellFormed([req[r] EXCEPT !.pc = "expired"])
      BY <1>1, <2>2, <3>2 DEF WellFormed, Requests
    <3>4. RequestsTyped'
      BY <3>1, <3>3, GotoTyped DEF TInv, Pcs
    <3>5. \A c \in Lookup(r, req[r].key) : c \in Commands /\ Addressed(c)
      BY <1>1, <2>4, SentTyped
    <3> QED BY <1>3, <3>1, <3>4, <3>5 DEF select, TInv, CommandsTyped, AnswerTyped, StoreTyped, HistoryTyped
  <2>5. CASE value # Nothing /\ ~(req[r].key \in Codes /\ isExpired(value))
    <3> DEFINE q == [req[r] EXCEPT !.pc = "setCache", !.value = value]
    <3> HIDE DEF value
    <3>1. /\ req' = [req EXCEPT ![r] = q]
          /\ answer' = NoAnswer /\ UNCHANGED commands
      BY <1>3, <2>5 DEF select, value
    <3>2. q \in Requests /\ WellFormed(q)
      <4>1. value \in IF req[r].op = "list" THEN Lists ELSE Rows
        BY <1>1, <2>1, <2>2, <2>5, KeysAssumption DEF WellFormed, Values
      <4>2. q \in Requests
        BY <1>1, <4>1 DEF Requests, Pcs
      <4> QED BY <1>1, <2>2, <2>5, <4>1, <4>2 DEF WellFormed, Requests
    <3> HIDE DEF q
    <3>3. RequestsTyped'
      BY <3>1, <3>2, OneMoves DEF TInv
    <3> QED BY <1>3, <3>1, <3>3 DEF select, TInv, CommandsTyped, AnswerTyped, StoreTyped, HistoryTyped
  <2> QED BY <2>3, <2>4, <2>5
<1>4. CASE setCache(r)
  <2>1. /\ req[r].pc = "setCache" /\ Found(r, req[r].value, TRUE) /\ Cached(r)
        /\ UNCHANGED <<link, now, used, faults>>
    BY <1>4 DEF setCache, Cached
  <2>2. /\ StoreTyped' /\ raced' \subseteq Keys
        /\ req[r].value \in Values(req[r].key) /\ req[r].value # Nothing
    BY <2>1, CachedTyped
  <2>3. RequestsTyped' /\ CommandsTyped' /\ AnswerTyped' /\ asked' \subseteq Codes
    BY <2>1, <2>2, FoundTyped
  <2> QED BY <2>1, <2>2, <2>3 DEF TInv, HistoryTyped
<1>5. CASE Expired(r)
  <2>1. RequestsTyped' /\ AnswerTyped'
    BY <1>5, AnswerIsTyped DEF Expired, TInv, Results
  <2> QED BY <1>5, <2>1 DEF Expired, TInv, CommandsTyped, StoreTyped, HistoryTyped
<1> QED BY <1>2, <1>3, <1>4, <1>5

\* The rest of PATCH, and the ends of requests.
LEMMA EndsTyped ==
  ASSUME TInv, NEW r \in Reqs,
         Invalidated(r) \/ updateExists(r) \/ Failed(r) \/ FailAlone(r)
  PROVE  TInv'
<1>1. /\ req[r] \in Requests /\ WellFormed(req[r])
      /\ r \in Reqs \cup {Nobody} /\ req[r].key \in Keys
  BY DEF TInv, RequestsTyped, Requests
<1>2. ASSUME NEW result \in Results, Answer(r, result),
             UNCHANGED <<link, cache, commands, now, used, asked, raced, faults>>
      PROVE  TInv'
  BY <1>2, AnswerIsTyped DEF TInv, CommandsTyped, StoreTyped, HistoryTyped
<1>3. CASE Invalidated(r)
  BY <1>2, <1>3 DEF Invalidated, Results
<1>4. CASE Failed(r)
  BY <1>2, <1>4 DEF Failed, Results
<1>5. CASE FailAlone(r)
  <2>1. WellFormed([req[r] EXCEPT !.pc = "failed"])
    BY <1>1, <1>5 DEF FailAlone, WellFormed, Requests
  <2>2. RequestsTyped'
    BY <1>5, <2>1, GotoTyped DEF FailAlone, TInv, Pcs
  <2>3. faults' \in 0..MaxFaults /\ UNCHANGED <<link, commands, now, used, asked>>
    BY <1>5, BoundsAssumption DEF FailAlone, TInv, HistoryTyped
  <2>4. StoreTyped' /\ raced' \subseteq Keys
    <3>1. CASE Cached(r)
      BY <2>3, <3>1, CachedTyped
    <3>2. CASE UNCHANGED <<cache, raced>>
      BY <2>3, <3>2 DEF TInv, StoreTyped, HistoryTyped
    <3> QED BY <1>5, <3>1, <3>2 DEF FailAlone
  <2> QED
    BY <1>5, <2>2, <2>3, <2>4 DEF FailAlone, TInv, CommandsTyped, AnswerTyped, HistoryTyped
<1>6. CASE updateExists(r)
  <2>1. /\ req[r].pc = "exists" /\ req[r].op = "update" /\ req[r].value \in Rows
        /\ req[r].new \in Codes
        /\ UNCHANGED <<link, cache, now, asked, raced, faults>>
    BY <1>1, <1>6 DEF updateExists, WellFormed, Codes
  <2>2. ASSUME NEW result \in Results, Answer(r, result), UNCHANGED <<commands, used>>
        PROVE  TInv'
    BY <1>2, <2>1, <2>2
  <2>3. ASSUME NEW date \in calculateExpirationDate \cup {req[r].value.expires},
               commands' = commands \cup
                 Record(r, req[r].new, [req[r].value EXCEPT !.expires = date]),
               used' = used \cup {req[r].new},
               Goto(r, "createUrlRecord"), answer' = NoAnswer
        PROVE  TInv'
    <3>1. [req[r].value EXCEPT !.expires = date] \in Rows
      BY <2>1, RowFields DEF calculateExpirationDate, TInv, HistoryTyped
    <3>2. \A c \in Record(r, req[r].new, [req[r].value EXCEPT !.expires = date]) :
            c \in Commands /\ Addressed(c)
      BY <1>1, <2>1, <3>1, SentTyped
    <3>3. WellFormed([req[r] EXCEPT !.pc = "createUrlRecord"])
      BY <1>1, <2>1 DEF WellFormed, Requests
    <3>4. RequestsTyped'
      BY <2>3, <3>3, GotoTyped DEF TInv, Pcs
    <3> QED BY <2>1, <2>3, <3>2, <3>4 DEF TInv, CommandsTyped, AnswerTyped, StoreTyped, HistoryTyped
  <2> QED BY <1>6, <2>2, <2>3 DEF updateExists, Results
<1> QED BY <1>3, <1>4, <1>5, <1>6

\* A command that is executed stores what it holds.
LEMMA ExecuteTyped ==
  ASSUME TInv, NEW c \in commands, Execute(c)
  PROVE  StoreTyped' /\ raced' \subseteq Keys
<1>1. c \in Commands /\ Addressed(c)
  BY DEF TInv, CommandsTyped
<1>2. link' \in [Codes -> Rows \cup {Nothing}]
  BY <1>1 DEF Execute, Addressed, TInv, StoreTyped
<1>3. /\ cache' \in [Keys -> Rows \cup Lists \cup {Nothing}]
      /\ \A k \in Keys : cache'[k] = cache[k] \/ cache'[k] = Nothing
  BY DEF Execute, TInv, StoreTyped
<1>4. raced' \subseteq Keys
  BY DEF Execute, TInv, HistoryTyped
<1> QED BY <1>2, <1>3, <1>4 DEF TInv, StoreTyped

\* Commands arrive.
LEMMA DeliverTyped ==
  ASSUME TInv, NEW c \in commands, Deliver(c)
  PROVE  TInv'
<1>1. c \in Commands /\ Addressed(c) /\ c.by \in Reqs \cup {Nobody}
  BY DEF TInv, CommandsTyped, Commands
<1>2. StoreTyped' /\ raced' \subseteq Keys
  BY ExecuteTyped DEF Deliver
<1>3. CommandsTyped'
  <2>1. CASE c.op = "lookup" /\ link[c.key] # Nothing
    <3>1. c.key \in Codes /\ link[c.key] \in Rows
      BY <1>1, <2>1 DEF Addressed, TInv, StoreTyped
    <3>2. \A d \in Removal(c.by, c.key, link[c.key]) : d \in Commands /\ Addressed(d)
      BY <1>1, <3>1, SentTyped
    <3>3. commands' = (commands \ {c}) \cup Removal(c.by, c.key, link[c.key])
      BY <2>1 DEF Deliver
    <3> QED BY <3>2, <3>3 DEF TInv, CommandsTyped
  <2>2. CASE ~(c.op = "lookup" /\ link[c.key] # Nothing)
    BY <2>2 DEF Deliver, TInv, CommandsTyped
  <2> QED BY <2>1, <2>2
<1> QED BY <1>2, <1>3 DEF Deliver, TInv, RequestsTyped, AnswerTyped, HistoryTyped

\* A command fails.
LEMMA FailTyped ==
  ASSUME TInv, Sent, NEW c \in commands, Fail(c)
  PROVE  TInv'
<1> DEFINE detached(S) == {IF d.by = c.by THEN [d EXCEPT !.by = Nobody] ELSE d : d \in S}
<1>1. c \in Commands /\ Addressed(c) /\ c.by \in Reqs \cup {Nobody}
  BY DEF TInv, CommandsTyped, Commands
<1>2. StoreTyped' /\ raced' \subseteq Keys
  <2>1. CASE Execute(c)
    BY <2>1, ExecuteTyped
  <2>2. CASE UNCHANGED <<link, cache, raced>>
    BY <2>2 DEF TInv, StoreTyped, HistoryTyped
  <2> QED BY <2>1, <2>2 DEF Fail
<1>3. \A d \in commands : /\ [d EXCEPT !.by = Nobody] \in Commands /\ Addressed([d EXCEPT !.by = Nobody])
                          /\ d \in Commands /\ Addressed(d)
  BY DEF TInv, CommandsTyped, Commands, Addressed
<1>4. CommandsTyped'
  <2>1. \A S \in SUBSET commands : \A d \in detached(S) : d \in Commands /\ Addressed(d)
    BY <1>3
  <2>2. commands' \in {detached(commands), detached(commands \ {c})}
    BY DEF Fail
  <2> HIDE DEF detached
  <2> QED BY <2>1, <2>2 DEF CommandsTyped
<1>5. RequestsTyped'
  <2>1. CASE c.by = Nobody
    BY <2>1 DEF Fail, TInv, RequestsTyped
  <2>2. CASE c.by # Nobody
    <3>1. c.by \in Reqs /\ Goto(c.by, "failed")
      BY <1>1, <2>2 DEF Fail, Goto
    <3>2. req[c.by].pc # "idle"
      BY <2>2 DEF Sent, SentBy
    <3>3. WellFormed([req[c.by] EXCEPT !.pc = "failed"])
      BY <3>1, <3>2 DEF WellFormed, TInv, RequestsTyped, Requests
    <3> QED BY <3>1, <3>3, GotoTyped DEF TInv, Pcs
  <2> QED BY <2>1, <2>2
<1>6. faults' \in 0..MaxFaults
  BY BoundsAssumption DEF Fail, TInv, HistoryTyped
<1> QED BY <1>2, <1>4, <1>5, <1>6 DEF Fail, TInv, AnswerTyped, HistoryTyped

\* Every step keeps the types.
LEMMA NextTyped == TInv /\ Sent /\ [Next]_vars => TInv'
<1> SUFFICES ASSUME TInv, Sent, [Next]_vars PROVE TInv'
  OBVIOUS
<1>1. ASSUME NEW r \in Reqs, Begin(r) \/ Continue(r) \/ FailAlone(r) PROVE TInv'
  BY <1>1, CreateTyped, RecordedTyped, StartTyped, LookupsTyped, EndsTyped DEF Begin, Continue
<1>2. ASSUME NEW c \in commands, Deliver(c) \/ Fail(c) PROVE TInv'
  BY <1>2, DeliverTyped, FailTyped
<1>3. ASSUME NEW key \in Keys, CacheExpires(key) PROVE TInv'
  <2>1. StoreTyped'
    BY <1>3 DEF CacheExpires, TInv, StoreTyped
  <2> QED BY <1>3, <2>1 DEF CacheExpires, TInv, RequestsTyped, CommandsTyped, AnswerTyped, HistoryTyped
<1>4. CASE Tick
  BY <1>4, BoundsAssumption DEF Tick, TInv, RequestsTyped, CommandsTyped, AnswerTyped, StoreTyped, HistoryTyped
<1>5. CASE Crash
  BY <1>5, IdleTyped, BoundsAssumption
     DEF Crash, TInv, RequestsTyped, CommandsTyped, AnswerTyped, StoreTyped, HistoryTyped
<1>6. CASE UNCHANGED vars
  BY <1>6 DEF vars, TInv, RequestsTyped, CommandsTyped, AnswerTyped, StoreTyped, HistoryTyped
<1> QED BY <1>1, <1>2, <1>3, <1>4, <1>5, <1>6 DEF Next

-----------------------------------------------------------------------------
(* What a request sends *)

\* A step of a request: it has nothing on its way, and what it sends it will wait for.
Moves(r) ==
  /\ \A c \in commands : c.by # r
  /\ commands \subseteq commands'
  /\ \A c \in commands' \ commands : c.by = r /\ SentBy(c, req'[r])
  /\ \A p \in Reqs \ {r} : req'[p] = req[p]
  /\ link' = link
  /\ faults' \in {faults, faults + 1}

\* What the parts of an operation send.
LEMMA SentFields ==
  /\ \A by, key, row : \A c \in Record(by, key, row) :
       c.by = by /\ c.op = "insert" /\ c.key = key /\ c.row = row
  /\ \A by, key : \A c \in Lookup(by, key) : c.by = by /\ c.op = "lookup" /\ c.key = key
  /\ \A by, of, owner : \A c \in Invalidations(by, of, owner) :
       c.by = by /\ c.op = "del" /\ c.key \in {All} \cup ({owner} \ {NoUser})
  /\ \A by, key, row : \A c \in Removal(by, key, row) :
       /\ c.by = by
       /\ \/ c.op \in {"delete", "del"} /\ c.key = key
          \/ c.op = "del" /\ c.key \in {All} \cup ({row.owner} \ {NoUser})
<1>1. ASSUME NEW by, NEW key, NEW row, NEW c \in Record(by, key, row)
      PROVE  c.by = by /\ c.op = "insert" /\ c.key = key /\ c.row = row
  BY DEF Record, Command
<1>2. ASSUME NEW by, NEW key, NEW c \in Lookup(by, key)
      PROVE  c.by = by /\ c.op = "lookup" /\ c.key = key
  BY DEF Lookup, Command
<1>3. ASSUME NEW by, NEW of, NEW owner, NEW c \in Invalidations(by, of, owner)
      PROVE  c.by = by /\ c.op = "del" /\ c.key \in {All} \cup ({owner} \ {NoUser})
  BY DEF Invalidations, Command
<1>4. ASSUME NEW by, NEW key, NEW row, NEW c \in Removal(by, key, row)
      PROVE  /\ c.by = by
             /\ \/ c.op \in {"delete", "del"} /\ c.key = key
                \/ c.op = "del" /\ c.key \in {All} \cup ({row.owner} \ {NoUser})
  BY <1>3 DEF Removal, Command
<1> QED BY <1>1, <1>2, <1>3, <1>4

\* A request that sends nothing, and had nothing on its way.
LEMMA QuietMoves ==
  ASSUME TInv, Sent, NEW r \in Reqs, NEW q,
         Settled(r) \/ req[r].pc \notin {"createUrlRecord", "invalidate", "expired"},
         req' = [req EXCEPT ![r] = q], commands' = commands, link' = link,
         faults' \in {faults, faults + 1}
  PROVE  Moves(r)
<1>1. \A c \in commands : c.by # r
  BY KeysAssumption DEF Sent, SentBy, Settled
<1>2. \A p \in Reqs \ {r} : req'[p] = req[p]
  BY DEF TInv, RequestsTyped
<1> QED BY <1>1, <1>2 DEF Moves

\* A request that sends something.
LEMMA SendingMoves ==
  ASSUME TInv, Sent, NEW r \in Reqs, NEW q, NEW S,
         Settled(r) \/ req[r].pc \notin {"createUrlRecord", "invalidate", "expired"},
         req' = [req EXCEPT ![r] = q], commands' = commands \cup S, link' = link,
         \A c \in S : c.by = r /\ SentBy(c, q),
         faults' = faults
  PROVE  Moves(r)
<1>1. \A c \in commands : c.by # r
  BY KeysAssumption DEF Sent, SentBy, Settled
<1>2. req'[r] = q /\ \A p \in Reqs \ {r} : req'[p] = req[p]
  BY DEF TInv, RequestsTyped
<1> QED BY <1>1, <1>2 DEF Moves

\* An attempt to create a link.
LEMMA AttemptMoves ==
  ASSUME TInv, Sent, NEW r \in Reqs, req[r].pc \in {"idle", "failed"},
         NEW key, NEW row, NEW user, NEW tries, Attempt(r, key, row, user, tries),
         link' = link, faults' = faults
  PROVE  Moves(r)
<1> DEFINE q == [Idle EXCEPT !.pc = "createUrlRecord", !.user = user,
                             !.key = key, !.value = row, !.tries = tries]
<1>1. q.pc = "createUrlRecord" /\ q.key = key /\ q.value = row
  BY IdleTyped DEF Requests
<1>2. req' = [req EXCEPT ![r] = q] /\ commands' = commands \cup Record(r, key, row)
  BY DEF Attempt
<1> HIDE DEF q
<1>3. \A c \in Record(r, key, row) : c.by = r /\ SentBy(c, q)
  BY <1>1, SentFields DEF SentBy
<1> QED BY <1>2, <1>3, SendingMoves

\* The steps of a request are moves.
LEMMA RequestMoves ==
  ASSUME TInv, Sent, NEW r \in Reqs, Begin(r) \/ Continue(r) \/ FailAlone(r)
  PROVE  Moves(r) \/ UNCHANGED <<link, commands, req, used, cache, raced, faults, asked, now>>
<1>r. req[r] \in Requests /\ WellFormed(req[r])
  BY DEF TInv, RequestsTyped
<1>1. CASE create(r)
  <2>1. PICK key \in FreeCodes, user \in Users \cup {NoUser}, date \in calculateExpirationDate :
          Attempt(r, key, [owner |-> user, expires |-> date], user, RetryAttempts)
    BY <1>1 DEF create
  <2> QED BY <1>1, <2>1, AttemptMoves DEF create
<1>2. ASSUME NEW pc, Goto(r, pc), UNCHANGED <<link, commands>>, faults' \in {faults, faults + 1},
             Settled(r) \/ req[r].pc \notin {"createUrlRecord", "invalidate", "expired"}
      PROVE  Moves(r)
  BY <1>2, QuietMoves DEF Goto
<1>3. ASSUME NEW result, Answer(r, result), UNCHANGED <<link, commands, faults>>,
             Settled(r) \/ req[r].pc \notin {"createUrlRecord", "invalidate", "expired"}
      PROVE  Moves(r)
  BY <1>3, QuietMoves DEF Answer
<1>4. CASE createRetries(r)
  <2>1. CASE Answer(r, "error") /\ UNCHANGED <<commands, used>>
    BY <1>3, <1>4, <2>1 DEF createRetries
  <2>2. CASE ~(Answer(r, "error") /\ UNCHANGED <<commands, used>>)
    BY <1>4, <2>2, AttemptMoves DEF createRetries
  <2> QED BY <2>1, <2>2
<1>5. CASE Recorded(r)
  <2> DEFINE q == [req[r] EXCEPT !.pc = "invalidate"]
             S == Invalidations(r, "invalidateMultipleKeys", req[r].value.owner)
                    \cup (IF req[r].op = "update" THEN Lookup(r, req[r].key) ELSE {})
  <2>1. q.pc = "invalidate"
    BY <1>r DEF Requests
  <2>2. /\ req' = [req EXCEPT ![r] = q] /\ commands' = commands \cup S
        /\ Settled(r) /\ link' = link /\ faults' = faults
    BY <1>5 DEF Recorded, Goto
  <2>3. \A c \in S : c.by = r /\ c.op # "insert"
    BY SentFields
  <2> HIDE DEF q, S
  <2>4. \A c \in S : c.by = r /\ SentBy(c, q)
    BY <2>1, <2>3 DEF SentBy
  <2> QED BY <2>2, <2>4, SendingMoves
<1>6. CASE Invalidated(r)
  BY <1>3, <1>6 DEF Invalidated
<1>7. CASE findOne(r) \/ findAll(r) \/ findByUser(r) \/ remove(r) \/ update(r)
  <2>1. ASSUME NEW op, NEW user, NEW key, NEW new, Start(r, op, user, key, new) PROVE Moves(r)
    BY <2>1, QuietMoves DEF Start
  <2> QED BY <1>7, <2>1 DEF findOne, findAll, findByUser, remove, update
<1>8. ASSUME NEW value, NEW typed, Found(r, value, typed), req[r].pc \in {"getFromCache", "setCache"},
             UNCHANGED <<link, faults>>
      PROVE  Moves(r)
  <2> DEFINE q == [req[r] EXCEPT !.value = value]
             g == [q EXCEPT !.pc = "invalidate", !.granted = TRUE]
  <2>1. CASE /\ req' = [req EXCEPT ![r] = g]
             /\ commands' = commands \cup Lookup(r, q.key)
    <3>1. g.pc = "invalidate"
      BY <1>r DEF Requests
    <3>2. \A c \in Lookup(r, q.key) : c.by = r /\ c.op # "insert"
      BY SentFields
    <3> HIDE DEF g, q
    <3>3. \A c \in Lookup(r, q.key) : c.by = r /\ SentBy(c, g)
      BY <3>1, <3>2 DEF SentBy
    <3> QED BY <1>8, <2>1, <3>3, SendingMoves
  <2>2. CASE commands' = commands /\ \E x : req' = [req EXCEPT ![r] = x]
    BY <1>8, <2>2, QuietMoves
  <2> HIDE DEF q, g
  <2> QED BY <1>8, <2>1, <2>2 DEF Found, q, g
<1>9. CASE getFromCache(r)
  <2>1. CASE cache[req[r].key] # Nothing
    BY <1>8, <1>9, <2>1 DEF getFromCache
  <2>2. CASE cache[req[r].key] = Nothing
    BY <1>2, <1>9, <2>2 DEF getFromCache
  <2> QED BY <2>1, <2>2
<1>10. CASE select(r)
  <2> DEFINE value == Stored(req[r].key)
  <2>1. req[r].pc = "select" /\ UNCHANGED <<link, cache, now, used, asked, raced, faults>>
    BY <1>10 DEF select
  <2>2. CASE value = Nothing
    <3>1. Answer(r, "not found") /\ UNCHANGED commands
      BY <1>10, <2>2 DEF select
    <3> QED BY <1>3, <2>1, <3>1
  <2>3. CASE value # Nothing /\ req[r].key \in Codes /\ isExpired(value)
    <3> DEFINE q == [req[r] EXCEPT !.pc = "expired"]
    <3> HIDE DEF value
    <3>1. req' = [req EXCEPT ![r] = q] /\ commands' = commands \cup Lookup(r, req[r].key)
      BY <1>10, <2>3 DEF select, value, Goto
    <3>2. q.pc = "expired"
      BY <1>r DEF Requests
    <3> HIDE DEF q
    <3>3. \A c \in Lookup(r, req[r].key) : c.by = r /\ SentBy(c, q)
      BY <3>2, SentFields DEF SentBy
    <3> QED BY <2>1, <3>1, <3>3, SendingMoves
  <2>4. CASE value # Nothing /\ ~(req[r].key \in Codes /\ isExpired(value))
    <3> HIDE DEF value
    <3>1. /\ req' = [req EXCEPT ![r] = [req[r] EXCEPT !.pc = "setCache", !.value = value]]
          /\ commands' = commands
      BY <1>10, <2>4 DEF select, value
    <3> QED BY <2>1, <3>1, QuietMoves
  <2> QED BY <2>2, <2>3, <2>4
<1>11. CASE Expired(r)
  BY <1>3, <1>11 DEF Expired
<1>12. CASE setCache(r)
  BY <1>8, <1>12 DEF setCache, Cached
<1>13. CASE updateExists(r)
  <2>1. req[r].pc = "exists" /\ req[r].value \in Rows /\ req[r].op = "update"
        /\ UNCHANGED <<link, cache, now, asked, raced, faults>>
    BY <1>r, <1>13 DEF updateExists, WellFormed
  <2>2. ASSUME NEW result, Answer(r, result), UNCHANGED commands PROVE Moves(r)
    BY <1>3, <2>1, <2>2
  <2>3. ASSUME NEW date, Goto(r, "createUrlRecord"),
               commands' = commands \cup
                 Record(r, req[r].new, [req[r].value EXCEPT !.expires = date])
        PROVE  Moves(r)
    <3> DEFINE q   == [req[r] EXCEPT !.pc = "createUrlRecord"]
               row == [req[r].value EXCEPT !.expires = date]
    <3>1. q.pc = "createUrlRecord" /\ q.op = "update" /\ q.value = req[r].value
      BY <1>r, <2>1 DEF Requests
    <3>2. row.owner = req[r].value.owner
      BY <2>1 DEF Rows
    <3>3. req' = [req EXCEPT ![r] = q]
      BY <2>3 DEF Goto
    <3> HIDE DEF q, row
    <3>4. \A c \in Record(r, req[r].new, row) : c.by = r /\ SentBy(c, q)
      BY <3>1, <3>2, SentFields DEF SentBy
    <3>5. commands' = commands \cup Record(r, req[r].new, row)
      BY <2>3 DEF row
    <3> QED BY <2>1, <3>3, <3>4, <3>5, SendingMoves
  <2> QED BY <1>13, <2>2, <2>3 DEF updateExists
<1>14. CASE Failed(r)
  BY <1>3, <1>14 DEF Failed
<1>15. CASE FailAlone(r)
  BY <1>2, <1>15 DEF FailAlone
<1> QED
  BY <1>1, <1>4, <1>5, <1>6, <1>7, <1>9, <1>10, <1>11, <1>12, <1>13, <1>14, <1>15
     DEF Begin, Continue

\* What a failure leaves of the commands.
LEMMA FailLeaves ==
  ASSUME CommandsTyped, NEW c \in commands, Fail(c)
  PROVE  \A x \in commands' : \E d \in commands :
           /\ x.op = d.op /\ x.key = d.key /\ x.row = d.row
           /\ x.by = IF d.by = c.by THEN Nobody ELSE d.by
           /\ x = IF d.by = c.by THEN [d EXCEPT !.by = Nobody] ELSE d
           /\ (d = c => UNCHANGED <<link, cache, raced>>)
<1>1. \A d \in commands :
        LET e == IF d.by = c.by THEN [d EXCEPT !.by = Nobody] ELSE d
        IN  /\ e.op = d.op /\ e.key = d.key /\ e.row = d.row
            /\ e.by = IF d.by = c.by THEN Nobody ELSE d.by
  BY DEF CommandsTyped, Commands
<1>2. \/ commands' = {IF d.by = c.by THEN [d EXCEPT !.by = Nobody] ELSE d : d \in commands \ {c}}
      \/ /\ commands' = {IF d.by = c.by THEN [d EXCEPT !.by = Nobody] ELSE d : d \in commands}
         /\ UNCHANGED <<link, cache, raced>>
  BY DEF Fail
<1>3. ASSUME NEW x \in commands'
      PROVE  \E d \in commands : /\ x = IF d.by = c.by THEN [d EXCEPT !.by = Nobody] ELSE d
                                 /\ d = c => UNCHANGED <<link, cache, raced>>
  BY <1>2
<1> QED BY <1>1, <1>3

\* Every step keeps Sent.
LEMMA NextSent == TInv /\ Sent /\ [Next]_vars => Sent'
<1> SUFFICES ASSUME TInv, Sent, [Next]_vars PROVE Sent'
  OBVIOUS
<1>f. faults \in Nat
  BY BoundsAssumption DEF TInv, HistoryTyped
<1>1. ASSUME NEW r \in Reqs, Begin(r) \/ Continue(r) \/ FailAlone(r) PROVE Sent'
  <2>1. CASE Moves(r)
    <3>1. SUFFICES ASSUME NEW c \in commands'
                   PROVE  /\ c.by # Nobody => SentBy(c, req'[c.by])
                          /\ faults' = 0 => c.by # Nobody
      BY DEF Sent, SentBy
    <3>2. CASE c \in commands
      <4>1. c.by # r /\ c.by \in Reqs \cup {Nobody}
        BY <2>1, <3>2 DEF Moves, TInv, CommandsTyped, Commands
      <4>2. c.by # Nobody => req'[c.by] = req[c.by]
        BY <2>1, <4>1 DEF Moves
      <4> QED BY <1>f, <2>1, <3>2, <4>2 DEF Moves, Sent
    <3>3. CASE c \notin commands
      BY <2>1, <3>1, <3>3, KeysAssumption DEF Moves
    <3> QED BY <3>2, <3>3
  <2>2. CASE UNCHANGED <<link, commands, req, used, cache, raced, faults, asked, now>>
    BY <2>2 DEF Sent, SentBy
  <2> QED BY <1>1, <2>1, <2>2, RequestMoves
<1>2. ASSUME NEW c \in commands, Deliver(c) PROVE Sent'
  <2>1. SUFFICES ASSUME NEW d \in commands', d \notin commands
                 PROVE  d.op # "insert" /\ d.by = c.by /\ c.op = "lookup"
    BY <1>2, <2>1 DEF Deliver, Sent, SentBy
  <2>2. d \in Removal(c.by, c.key, link[c.key]) /\ c.op = "lookup"
    BY <1>2, <2>1 DEF Deliver
  <2> QED BY <2>2, SentFields
<1>3. ASSUME NEW c \in commands, Fail(c) PROVE Sent'
  <2>1. faults' # 0
    BY <1>3, <1>f DEF Fail
  <2>2. SUFFICES ASSUME NEW x \in commands', x.by # Nobody PROVE SentBy(x, req'[x.by])
    BY <2>1 DEF Sent, SentBy
  <2>3. PICK d \in commands : /\ x.op = d.op /\ x.key = d.key /\ x.row = d.row
                              /\ x.by = d.by /\ d.by # c.by
    BY <1>3, <2>2, FailLeaves DEF TInv
  <2>4. req'[x.by] = req[x.by]
    <3>1. x.by \in Reqs
      BY <2>2, <2>3 DEF TInv, CommandsTyped, Commands
    <3> QED BY <1>3, <2>3, <3>1 DEF Fail, TInv, RequestsTyped
  <2> QED BY <2>2, <2>3, <2>4 DEF Sent, SentBy
<1>4. CASE Crash
  BY <1>4 DEF Crash, Sent
<1>5. CASE Tick \/ (\E key \in Keys : CacheExpires(key)) \/ UNCHANGED vars
  BY <1>5 DEF Tick, CacheExpires, vars, Sent, SentBy
<1> QED BY <1>1, <1>2, <1>3, <1>4, <1>5 DEF Next

IInv == TInv /\ Sent

\* Nothing is there at the beginning.
LEMMA InitHolds == Init => IInv
<1> SUFFICES ASSUME Init PROVE IInv
  OBVIOUS
<1>1. RequestsTyped
  BY IdleTyped DEF Init, RequestsTyped
<1>2. StoreTyped /\ HistoryTyped /\ AnswerTyped /\ CommandsTyped /\ Sent
  BY BoundsAssumption DEF Init, StoreTyped, HistoryTyped, AnswerTyped, CommandsTyped, Sent
<1> QED BY <1>1, <1>2 DEF IInv, TInv

\* In every reachable state.
LEMMA InvariantHolds == Spec => []IInv
<1>1. IInv /\ [Next]_vars => IInv'
  BY NextTyped, NextSent DEF IInv
<1> QED BY <1>1, InitHolds, PTL DEF Spec

\* Type correctness: requests, commands in flight, the table and the cache hold what they
\* should in every reachable state; a cache entry is a row under the code of a link and a
\* list under the key of a list (urls.service.ts:60-297).
THEOREM TypeCorrectness == Spec => []TypeOK
<1>1. IInv => TypeOK
  <2> SUFFICES ASSUME IInv PROVE TypeOK
    OBVIOUS
  <2>1. DOMAIN cache = Keys /\ (\A k \in Codes : cache[k] \in Rows \cup {Nothing})
        /\ \A k \in ListKeys : cache[k] = Nothing \/ cache[k] \in Lists
    BY KeysAssumption DEF IInv, TInv, StoreTyped, Values, Keys
  <2>2. ASSUME NEW r \in Reqs
        PROVE /\ req[r].pc \in Pcs /\ req[r].op \in Ops \cup {"create"}
              /\ req[r].user \in Users \cup {NoUser} /\ req[r].key \in Keys
              /\ req[r].new \in Custom \cup {All}
              /\ req[r].value \in {Nothing} \cup (IF req[r].op = "list" THEN Lists ELSE Rows)
              /\ req[r].granted \in BOOLEAN /\ req[r].tries \in 0..RetryAttempts
    BY DEF IInv, TInv, RequestsTyped, Requests, WellFormed
  <2>3. DOMAIN req = Reqs
    BY DEF IInv, TInv, RequestsTyped
  <2> QED BY <2>1, <2>2, <2>3 DEF IInv, TInv, CommandsTyped, AnswerTyped, StoreTyped, HistoryTyped, TypeOK
<1> QED BY <1>1, InvariantHolds, PTL

-----------------------------------------------------------------------------
(* The cache *)

\* Only codes that have been handed out are in the table or on their way to it.
Used == /\ \A k \in Codes : link[k] # Nothing => k \in used
        /\ \A c \in commands : c.op = "insert" => c.key \in used

Deleting(L) == \E c \in commands : c.op = "del" /\ c.key = L

\* A stale entry of L would be accounted for.
Covered(L) ==
  \/ L \in raced
  \/ Deleting(L)
  \/ L \in ListKeys /\ \E r \in Reqs : /\ req[r].pc = "createUrlRecord"
                                       /\ L \in {All, req[r].value.owner}

\* The cache keys that hold something of a row.
Holding(key, row) == {key} \cup ({All, row.owner} \cap ListKeys)

StaleCovered == \A L \in Keys : Stale(L) => Covered(L)

\* A write that is on its way is to a row whose cache entries are accounted for already.
WritesCovered ==
  \A d \in commands : d.op \in {"insert", "delete"} /\ link[d.key] # Nothing =>
    \A L \in Holding(d.key, link[d.key]) : cache[L] = Nothing \/ Covered(L)

CacheInv == Used /\ (faults = 0 => StaleCovered /\ WritesCovered)

\* What a step of a request sends: lookups and deletions from the cache, or one record
\* under a code that is free.
LEMMA RequestSends ==
  ASSUME TInv, NEW r \in Reqs, Begin(r) \/ Continue(r) \/ FailAlone(r)
  PROVE  \/ /\ used' = used
            /\ \A c \in commands' \ commands : c.op \in {"lookup", "del"}
         \/ \E key \in Codes, row \in Rows :
              /\ used' = used \cup {key} /\ commands' = commands \cup Record(r, key, row)
              /\ key \in FreeCodes \/ (req[r].pc = "exists" /\ link[key] = Nothing)
              /\ UNCHANGED <<cache, raced, asked>>
<1> DEFINE Sends == \E key \in Codes, row \in Rows :
              /\ used' = used \cup {key} /\ commands' = commands \cup Record(r, key, row)
              /\ key \in FreeCodes \/ (req[r].pc = "exists" /\ link[key] = Nothing)
              /\ UNCHANGED <<cache, raced, asked>>
           Quiet == /\ used' = used
                    /\ \A c \in commands' \ commands : c.op \in {"lookup", "del"}
<1>r. req[r] \in Requests /\ WellFormed(req[r])
  BY DEF TInv, RequestsTyped
<1>f. FreeCodes \subseteq Codes
  BY DEF FreeCodes, Codes
<1>1. ASSUME NEW key \in FreeCodes, NEW row \in Rows, NEW user, NEW tries,
             Attempt(r, key, row, user, tries), UNCHANGED <<cache, raced, asked>>
      PROVE  Sends
  <2>1. key \in Codes /\ used' = used \cup {key} /\ commands' = commands \cup Record(r, key, row)
    BY <1>1, <1>f DEF Attempt
  <2> QED BY <1>1, <2>1
<1>l. /\ \A key : \A c \in Lookup(r, key) : c.op \in {"lookup", "del"}
      /\ \A of, owner : \A c \in Invalidations(r, of, owner) : c.op \in {"lookup", "del"}
  BY SentFields
<1>2. CASE create(r)
  <2>1. PICK key \in FreeCodes, user \in Users \cup {NoUser}, date \in calculateExpirationDate :
          Attempt(r, key, [owner |-> user, expires |-> date], user, RetryAttempts)
    BY <1>2 DEF create
  <2>2. [owner |-> user, expires |-> date] \in Rows
    BY RowFields DEF calculateExpirationDate, TInv, HistoryTyped
  <2> QED BY <1>1, <1>2, <2>1, <2>2 DEF create
<1>3. CASE createRetries(r)
  <2>1. req[r].value \in Rows
    BY <1>r, <1>3 DEF createRetries, WellFormed
  <2>2. CASE Answer(r, "error") /\ UNCHANGED <<commands, used>>
    BY <2>2
  <2>3. CASE ~(Answer(r, "error") /\ UNCHANGED <<commands, used>>)
    <3>1. PICK key \in FreeCodes : Attempt(r, key, req[r].value, req[r].user, req[r].tries - 1)
      BY <1>3, <2>3 DEF createRetries
    <3>2. Sends
      BY <1>1, <1>3, <2>1, <3>1 DEF createRetries
    <3> QED BY <3>2
  <2> QED BY <2>2, <2>3
<1>4. CASE Recorded(r)
  <2>1. /\ used' = used
        /\ commands' \ commands \subseteq
             Invalidations(r, "invalidateMultipleKeys", req[r].value.owner) \cup Lookup(r, req[r].key)
    BY <1>4 DEF Recorded
  <2> QED BY <1>l, <2>1
<1>5. ASSUME NEW value, NEW typed, Found(r, value, typed), used' = used
      PROVE  Quiet
  <2>1. \E key : commands' \ commands \subseteq Lookup(r, key)
    BY <1>5 DEF Found
  <2> QED BY <1>5, <1>l, <2>1
<1>6. CASE getFromCache(r)
  BY <1>5, <1>6 DEF getFromCache
<1>7. CASE setCache(r)
  BY <1>5, <1>7 DEF setCache, Cached
<1>8. CASE select(r)
  <2>1. used' = used /\ commands' \ commands \subseteq Lookup(r, req[r].key)
    BY <1>8 DEF select
  <2> QED BY <1>l, <2>1
<1>9. CASE updateExists(r)
  <2>1. /\ req[r].value \in Rows /\ req[r].new \in Codes /\ r \in Reqs
        /\ UNCHANGED <<cache, raced, asked>>
    BY <1>r, <1>9 DEF updateExists, WellFormed, Codes
  <2>2. CASE UNCHANGED <<commands, used>>
    BY <2>2
  <2>3. CASE ~UNCHANGED <<commands, used>>
    <3>1. link[req[r].new] = Nothing
      BY <1>9, <2>3 DEF updateExists
    <3>2. PICK date \in calculateExpirationDate \cup {req[r].value.expires} :
            /\ commands' = commands \cup
                 Record(r, req[r].new, [req[r].value EXCEPT !.expires = date])
            /\ used' = used \cup {req[r].new}
      BY <1>9, <2>3 DEF updateExists
    <3>3. [req[r].value EXCEPT !.expires = date] \in Rows
      <4>1. date \in (0..MaxNow) \cup {Never}
        BY <2>1, RowFields DEF calculateExpirationDate, TInv, HistoryTyped
      <4> QED BY <2>1, <4>1, RowFields
    <3>4. Sends
      BY <1>9, <2>1, <3>1, <3>2, <3>3 DEF updateExists
    <3> QED BY <3>4
  <2> QED BY <2>2, <2>3
<1>10. CASE Invalidated(r) \/ Expired(r) \/ Failed(r) \/ FailAlone(r)
  BY <1>10 DEF Invalidated, Expired, Failed, FailAlone
<1>11. CASE findOne(r) \/ findAll(r) \/ findByUser(r) \/ remove(r) \/ update(r)
  <2>1. commands' = commands /\ used' = used
    BY <1>11 DEF findOne, findAll, findByUser, remove, update, Start
  <2> QED BY <2>1
<1> QED
  BY <1>2, <1>3, <1>4, <1>6, <1>7, <1>8, <1>9, <1>10, <1>11 DEF Begin, Continue

\* What executing a command does to the table and to the cache.
LEMMA Executed ==
  ASSUME TInv, NEW c \in commands, Execute(c)
  PROVE  /\ \A k \in Codes : link'[k] = IF c.op = "insert" /\ c.key = k THEN c.row
                                        ELSE IF c.op = "delete" /\ c.key = k THEN Nothing
                                        ELSE link[k]
         /\ \A k \in Keys : cache'[k] = IF c.op = "del" /\ c.key = k THEN Nothing ELSE cache[k]
         /\ \A k \in Keys : k \in raced => k \in raced' \/ (c.op = "del" /\ c.key = k)
<1>1. link \in [Codes -> Rows \cup {Nothing}] /\ cache \in [Keys -> Rows \cup Lists \cup {Nothing}]
      /\ (c.op # "del" => c.key \in Codes) /\ c.key \in Keys
  BY DEF TInv, StoreTyped, CommandsTyped, Commands, Addressed
<1>2. \A k \in Codes : link'[k] = IF c.op = "insert" /\ c.key = k THEN c.row
                                  ELSE IF c.op = "delete" /\ c.key = k THEN Nothing
                                  ELSE link[k]
  BY <1>1 DEF Execute
<1>3. \A k \in Keys : cache'[k] = IF c.op = "del" /\ c.key = k THEN Nothing ELSE cache[k]
  BY <1>1 DEF Execute
<1>4. \A k \in Keys : k \in raced => k \in raced' \/ (c.op = "del" /\ c.key = k)
  BY DEF Execute
<1> QED BY <1>2, <1>3, <1>4

\* Every step keeps Used.
LEMMA UsedKept == TInv /\ Sent /\ Used /\ [Next]_vars => Used'
<1> SUFFICES ASSUME TInv, Sent, Used, [Next]_vars PROVE Used'
  OBVIOUS
<1>1. ASSUME NEW r \in Reqs, Begin(r) \/ Continue(r) \/ FailAlone(r) PROVE Used'
  <2>1. link' = link
    BY <1>1, RequestMoves DEF Moves
  <2>2. used \subseteq used' /\ \A c \in commands' \ commands : c.op = "insert" => c.key \in used'
    BY <1>1, RequestSends, SentFields
  <2> QED BY <2>1, <2>2 DEF Used
<1>2. ASSUME NEW c \in commands, Execute(c), UNCHANGED used
      PROVE  \A k \in Codes : link'[k] # Nothing => k \in used'
  BY <1>2, Executed DEF Used
<1>3. ASSUME NEW c \in commands, Deliver(c) PROVE Used'
  <2>1. \A d \in commands' : d.op = "insert" => d \in commands
    <3>1. \A d \in Removal(c.by, c.key, link[c.key]) : d.op # "insert"
      BY SentFields
    <3> QED BY <1>3, <3>1 DEF Deliver
  <2> QED BY <1>2, <1>3, <2>1 DEF Deliver, Used
<1>4. ASSUME NEW c \in commands, Fail(c) PROVE Used'
  <2>1. \A d \in commands' : d.op = "insert" => d.key \in used'
    <3>1. CommandsTyped /\ used' = used
      BY <1>4 DEF TInv, Fail
    <3>2. \A d \in commands' : \E x \in commands : d.op = x.op /\ d.key = x.key
      BY <1>4, <3>1, FailLeaves
    <3> QED BY <3>1, <3>2 DEF Used
  <2>2. \A k \in Codes : link'[k] # Nothing => k \in used'
    BY <1>2, <1>4 DEF Fail, Used
  <2> QED BY <2>1, <2>2 DEF Used
<1>5. CASE Tick \/ Crash \/ (\E key \in Keys : CacheExpires(key)) \/ UNCHANGED vars
  BY <1>5 DEF Tick, Crash, CacheExpires, vars, Used
<1> QED BY <1>1, <1>3, <1>4, <1>5 DEF Next

\* A step of a request that does not write to the cache keeps what is covered: the deletions
\* that a record promised are sent when it is there.
LEMMA RequestCovers ==
  ASSUME TInv, Sent, NEW r \in Reqs, Begin(r) \/ Continue(r),
         NEW L \in Keys, Covered(L), L \in raced => L \in raced'
  PROVE  Covered(L)'
<1>1. commands \subseteq commands' /\ \A p \in Reqs \ {r} : req'[p] = req[p]
  BY RequestMoves DEF Moves
<1>2. CASE L \in raced \/ Deleting(L)
  BY <1>1, <1>2 DEF Covered, Deleting
<1>3. ASSUME L \in ListKeys, NEW p \in Reqs, req[p].pc = "createUrlRecord",
             L \in {All, req[p].value.owner}
      PROVE  Covered(L)'
  <2>1. CASE p # r \/ req'[p] = req[p]
    BY <1>1, <1>3, <2>1 DEF Covered
  <2>2. CASE p = r /\ req'[p] # req[p]
    <3>1. Recorded(r)
      BY <1>3, <2>2
         DEF Begin, Continue, create, findOne, findAll, findByUser, remove, update, Start,
             createRetries, Invalidated, getFromCache, select, Expired, setCache, Cached,
             updateExists, Failed
    <3>2. L \in {All} \cup ({req[r].value.owner} \ {NoUser})
      BY <1>3, <2>2, KeysAssumption DEF ListKeys
    <3> DEFINE c == Command(r, "invalidateMultipleKeys", "del", L, Nothing)
    <3>3. c.op = "del" /\ c.key = L
      BY DEF Command
    <3>4. c \in commands'
      BY <3>1, <3>2 DEF Recorded, Invalidations
    <3> HIDE DEF c
    <3> QED BY <3>3, <3>4 DEF Covered, Deleting
  <2> QED BY <2>1, <2>2
<1> QED BY <1>2, <1>3 DEF Covered

\* A command that arrives keeps what is covered, except the entry that it deletes.
LEMMA DeliverCovers ==
  ASSUME TInv, NEW c \in commands, Deliver(c),
         NEW L \in Keys, Covered(L), ~(c.op = "del" /\ c.key = L)
  PROVE  Covered(L)'
<1>1. req' = req /\ commands \ {c} \subseteq commands' /\ Execute(c)
  BY DEF Deliver
<1>2. L \in raced => L \in raced'
  BY <1>1, Executed
<1>3. Deleting(L) => Deleting(L)'
  BY <1>1 DEF Deleting
<1> QED BY <1>1, <1>2, <1>3 DEF Covered

\* What the lists and the rows hold depends on the table alone.
LEMMA StoredOfLink ==
  ASSUME TInv, TInv', NEW L \in Keys,
         \A k \in Codes :
           \/ link'[k] = link[k]
           \/ /\ link[k] # Nothing => L \notin Holding(k, link[k])
              /\ link'[k] # Nothing => L \notin Holding(k, link'[k])
  PROVE  Stored(L)' = Stored(L)
<1>1. CASE L \in Codes
  <2>1. link'[L] = link[L]
    BY <1>1 DEF Holding
  <2> QED BY <1>1, <2>1 DEF Stored
<1>2. CASE L \notin Codes
  <2>1. L \in ListKeys
    BY <1>2 DEF Keys
  <2>2. ASSUME NEW k \in Codes
        PROVE  (IF L = All \/ (link[k] # Nothing /\ link[k].owner = L) THEN link[k] ELSE Nothing)
             = (IF L = All \/ (link'[k] # Nothing /\ link'[k].owner = L) THEN link'[k] ELSE Nothing)
    BY <2>1 DEF Holding
  <2> QED BY <1>2, <2>2 DEF Stored
<1> QED BY <1>1, <1>2

\* A step of a request keeps the cache accounted for.
LEMMA RequestKeepsCache ==
  ASSUME FreshCodes, TInv, Sent, Used, StaleCovered, WritesCovered,
         NEW r \in Reqs, Begin(r) \/ Continue(r)
  PROVE  StaleCovered' /\ WritesCovered'
<1>1. link' = link /\ commands \subseteq commands'
  BY RequestMoves DEF Moves
<1>2. ASSUME NEW d \in commands', d.op \in {"insert", "delete"}, link[d.key] # Nothing
      PROVE  d \in commands
  <2>1. SUFFICES ASSUME d \notin commands PROVE FALSE
    OBVIOUS
  <2>2. PICK key \in Codes, row \in Rows :
          /\ d \in Record(r, key, row)
          /\ key \in FreeCodes \/ link[key] = Nothing
    BY <1>2, <2>1, RequestSends
  <2>3. d.key = key /\ key \notin used
    BY <1>2, <2>2, SentFields DEF FreeCodes
  <2> QED BY <1>2, <2>2, <2>3 DEF Used
<1>3. \A L \in Keys : Stored(L)' = Stored(L)
  BY <1>1 DEF Stored
<1>4. CASE cache' = cache /\ raced' = raced
  <2>1. \A L \in Keys : Covered(L) => Covered(L)'
    BY <1>4, RequestCovers
  <2>2. StaleCovered'
    BY <1>3, <1>4, <2>1 DEF StaleCovered, Stale
  <2>3. ASSUME NEW d \in commands', d.op \in {"insert", "delete"}, link'[d.key] # Nothing,
               NEW L \in Holding(d.key, link'[d.key])
        PROVE  cache'[L] = Nothing \/ Covered(L)'
    <3>1. d \in commands /\ d.key \in Codes
      BY <1>1, <1>2, <2>3 DEF TInv, CommandsTyped, Addressed
    <3>2. L \in Keys
      BY <2>3, <3>1 DEF Holding, Keys
    <3> QED BY <1>1, <1>4, <2>1, <2>3, <3>1, <3>2 DEF WritesCovered
  <2> QED BY <2>2, <2>3 DEF WritesCovered
<1>5. CASE setCache(r)
  <2>0. PICK K \in Keys : K = req[r].key
    BY DEF TInv, RequestsTyped, Requests
  <2>1. K \in Keys /\ cache \in [Keys -> Rows \cup Lists \cup {Nothing}]
    BY DEF TInv, RequestsTyped, Requests, StoreTyped
  <2>2. /\ cache' = [cache EXCEPT ![K] = req[r].value]
        /\ raced' = IF req[r].value # Stored(K) \/ Writing(K) THEN raced \cup {K} ELSE raced \ {K}
    BY <1>5, <2>0 DEF setCache, Cached
  <2>3. \A L \in Keys \ {K} : cache'[L] = cache[L] /\ (Covered(L) => Covered(L)')
    BY <2>1, <2>2, RequestCovers
  <2>4. K \in raced' => Covered(K)'
    BY DEF Covered
  <2>5. ASSUME NEW L \in Keys, Stale(L)' PROVE Covered(L)'
    <3>1. CASE L = K
      BY <1>3, <2>1, <2>2, <2>4, <2>5, <3>1 DEF Stale
    <3>2. CASE L # K
      BY <1>3, <2>3, <2>5, <3>2 DEF Stale, StaleCovered
    <3> QED BY <3>1, <3>2
  <2>6. ASSUME NEW d \in commands', d.op \in {"insert", "delete"}, link'[d.key] # Nothing,
               NEW L \in Holding(d.key, link'[d.key])
        PROVE  cache'[L] = Nothing \/ Covered(L)'
    <3>1. d \in commands /\ d.key \in Codes
      BY <1>1, <1>2, <2>6 DEF TInv, CommandsTyped, Addressed
    <3>2. L \in Keys /\ (L = d.key \/ L \in ListKeys)
      BY <2>6, <3>1 DEF Holding, Keys
    <3>3. CASE L = K
      <4>1. Writing(K)
        BY <2>6, <3>1, <3>2, <3>3 DEF Writing
      <4> QED BY <2>2, <2>4, <3>3, <4>1
    <3>4. CASE L # K
      BY <1>1, <2>3, <2>6, <3>1, <3>2, <3>4 DEF WritesCovered
    <3> QED BY <3>3, <3>4
  <2> QED BY <2>5, <2>6 DEF StaleCovered, WritesCovered
<1>6. setCache(r) \/ UNCHANGED <<cache, raced>>
  BY DEF Begin, Continue, create, findOne, findAll, findByUser, remove, update, Start,
         createRetries, Recorded, Invalidated, getFromCache, select, Expired,
         updateExists, Failed
<1> QED BY <1>4, <1>5, <1>6

\* A command that arrives keeps the cache accounted for.
LEMMA DeliverKeepsCache ==
  ASSUME TInv, TInv', Sent, Used, faults = 0, StaleCovered, WritesCovered,
         NEW c \in commands, Deliver(c)
  PROVE  StaleCovered' /\ WritesCovered'
<1>1. /\ Execute(c) /\ c.by \in Reqs /\ SentBy(c, req[c.by])
      /\ c \in Commands /\ Addressed(c) /\ (c.op # "del" => c.key \in Codes)
      /\ req' = req
  BY DEF Deliver, Sent, TInv, CommandsTyped, Commands, Addressed
\* A new row: its lists will be deleted by the request that wrote it.
<1>2. ASSUME c.op = "insert", NEW L \in Holding(c.key, c.row), L \in Keys
      PROVE  cache'[L] = Nothing \/ Covered(L)'
  <2>1. Covered(L) => Covered(L)'
    BY <1>2, DeliverCovers
  <2>2. cache'[L] = cache[L]
    BY <1>1, <1>2, Executed
  <2>3. CASE L \in ListKeys
    <3>1. Covered(L)
      BY <1>1, <1>2, <2>3, KeysAssumption DEF Covered, SentBy, Holding
    <3> QED BY <2>1, <3>1
  <2>4. CASE L = c.key /\ link[c.key] # Nothing
    <3>1. L \in Holding(c.key, link[c.key])
      BY <2>4 DEF Holding
    <3> QED BY <1>2, <2>1, <2>2, <2>4, <3>1 DEF WritesCovered
  <2>5. CASE L = c.key /\ link[c.key] = Nothing
    <3>1. Stored(L) = Nothing
      BY <1>1, <1>2, <2>5 DEF Stored
    <3>2. cache[L] = Nothing \/ Stale(L)
      BY <3>1 DEF Stale
    <3> QED BY <1>2, <2>1, <2>2, <3>2 DEF StaleCovered
  <2> QED BY <1>2, <2>3, <2>4, <2>5 DEF Holding
\* A row that is written over or deleted.
<1>3. ASSUME c.op \in {"insert", "delete"}, link[c.key] # Nothing,
             NEW L \in Holding(c.key, link[c.key]), L \in Keys
      PROVE  cache'[L] = Nothing \/ Covered(L)'
  BY <1>1, <1>3, Executed, DeliverCovers DEF WritesCovered
<1>4. ASSUME NEW L \in Keys, Stale(L)' PROVE Covered(L)'
  <2>1. cache'[L] # Nothing /\ cache'[L] # Stored(L)'
    BY <1>4 DEF Stale
  <2>2. ~(c.op = "del" /\ c.key = L) /\ cache'[L] = cache[L]
    BY <1>1, <2>1, Executed
  <2>3. CASE Stored(L)' = Stored(L)
    BY <2>1, <2>2, <2>3, DeliverCovers DEF StaleCovered, Stale
  <2>4. CASE Stored(L)' # Stored(L)
    <3>1. PICK k \in Codes :
            /\ link'[k] # link[k]
            /\ \/ link[k] # Nothing /\ L \in Holding(k, link[k])
               \/ link'[k] # Nothing /\ L \in Holding(k, link'[k])
      BY <2>4, StoredOfLink
    <3>2. /\ k = c.key /\ c.op \in {"insert", "delete"}
          /\ link'[k] = IF c.op = "insert" THEN c.row ELSE Nothing
      BY <1>1, <3>1, Executed
    <3> QED BY <1>2, <1>3, <2>1, <3>1, <3>2
  <2> QED BY <2>3, <2>4
<1>5. ASSUME NEW d \in commands', d.op \in {"insert", "delete"}, link'[d.key] # Nothing,
             NEW L \in Holding(d.key, link'[d.key])
      PROVE  cache'[L] = Nothing \/ Covered(L)'
  <2>1. d.key \in Codes /\ L \in Keys
    BY <1>5 DEF TInv, CommandsTyped, Addressed, Holding, Keys
  <2>2. CASE c.op = "insert" /\ c.key = d.key
    <3>1. link'[d.key] = c.row
      BY <1>1, <2>1, <2>2, Executed
    <3> QED BY <1>2, <1>5, <2>1, <2>2, <3>1
  <2>3. CASE ~(c.op = "insert" /\ c.key = d.key)
    <3>1. link'[d.key] = link[d.key]
      BY <1>1, <1>5, <2>1, <2>3, Executed
    <3>2. CASE d \in commands
      <4>1. cache[L] = Nothing \/ Covered(L)
        BY <1>5, <3>1, <3>2 DEF WritesCovered
      <4> QED BY <1>1, <2>1, <4>1, Executed, DeliverCovers
    \* remove deletes, together with the row, every entry that holds something of it
    <3>3. CASE d \notin commands
      <4>1. /\ d \in Removal(c.by, c.key, link[c.key])
            /\ Removal(c.by, c.key, link[c.key]) \subseteq commands'
            /\ d.key = c.key
        <5>1. /\ d \in Removal(c.by, c.key, link[c.key])
              /\ Removal(c.by, c.key, link[c.key]) \subseteq commands'
          BY <3>3 DEF Deliver
        <5> QED BY <1>5, <5>1, SentFields
      <4>2. L \in {c.key, All} \cup ({link[c.key].owner} \ {NoUser})
        BY <1>5, <3>1, <4>1, KeysAssumption DEF Holding, ListKeys
      <4> DEFINE e == Command(c.by, "remove", "del", L, Nothing)
      <4>3. e \in Removal(c.by, c.key, link[c.key])
        BY <4>2 DEF Removal, Invalidations
      <4>4. e.op = "del" /\ e.key = L
        BY DEF Command
      <4> HIDE DEF e
      <4> QED BY <4>1, <4>3, <4>4 DEF Covered, Deleting
    <3> QED BY <3>2, <3>3
  <2> QED BY <2>2, <2>3
<1> QED BY <1>4, <1>5 DEF StaleCovered, WritesCovered

\* Every step keeps the cache accounted for, as long as nothing fails.
LEMMA CacheKept ==
  ASSUME FreshCodes
  PROVE  IInv /\ CacheInv /\ [Next]_vars => CacheInv'
<1> SUFFICES ASSUME IInv, CacheInv, [Next]_vars PROVE CacheInv'
  OBVIOUS
<1>1. TInv /\ TInv' /\ Sent /\ Used /\ Used' /\ faults \in Nat
  BY NextTyped, UsedKept, BoundsAssumption DEF IInv, CacheInv, TInv, HistoryTyped
<1>2. SUFFICES ASSUME faults' = 0 PROVE StaleCovered' /\ WritesCovered'
  BY <1>1 DEF CacheInv
<1>3. /\ \A r \in Reqs : ~FailAlone(r)
      /\ \A c \in commands : ~Fail(c)
      /\ ~Crash
  BY <1>1, <1>2 DEF FailAlone, Fail, Crash
<1>4. faults = 0
  <2>1. ASSUME NEW r \in Reqs, Begin(r) \/ Continue(r) PROVE faults' = faults
    BY <2>1
       DEF Begin, Continue, create, findOne, findAll, findByUser, remove, update, Start,
           createRetries, Recorded, Invalidated, getFromCache, select, Expired, setCache, Cached,
           updateExists, Failed
  <2>2. ASSUME NEW c \in commands, Deliver(c) PROVE faults' = faults
    BY <2>2 DEF Deliver
  <2>3. CASE Tick \/ (\E key \in Keys : CacheExpires(key)) \/ UNCHANGED vars
    BY <1>2, <2>3 DEF Tick, CacheExpires, vars
  <2> QED BY <1>2, <1>3, <2>1, <2>2, <2>3 DEF Next
<1>5. StaleCovered /\ WritesCovered
  BY <1>4 DEF CacheInv
<1>6. ASSUME NEW r \in Reqs, Begin(r) \/ Continue(r) PROVE StaleCovered' /\ WritesCovered'
  BY <1>1, <1>5, <1>6, RequestKeepsCache
<1>7. ASSUME NEW c \in commands, Deliver(c) PROVE StaleCovered' /\ WritesCovered'
  BY <1>1, <1>4, <1>5, <1>7, DeliverKeepsCache
<1>8. ASSUME NEW K \in Keys, CacheExpires(K) PROVE StaleCovered' /\ WritesCovered'
  <2>1. /\ link' = link /\ commands' = commands /\ req' = req
        /\ cache' = [cache EXCEPT ![K] = Nothing] /\ raced' = raced \ {K}
        /\ cache \in [Keys -> Rows \cup Lists \cup {Nothing}]
    BY <1>1, <1>8 DEF CacheExpires, TInv, StoreTyped
  <2>2. \A L \in Keys : Stored(L)' = Stored(L)
    BY <2>1 DEF Stored
  <2>3. \A L \in Keys \ {K} : cache'[L] = cache[L] /\ (Covered(L) => Covered(L)')
    BY <2>1 DEF Covered, Deleting
  <2>4. cache'[K] = Nothing
    BY <2>1
  <2>5. StaleCovered'
    BY <1>5, <2>2, <2>3, <2>4 DEF StaleCovered, Stale
  <2>6. ASSUME NEW d \in commands', d.op \in {"insert", "delete"}, link'[d.key] # Nothing,
               NEW L \in Holding(d.key, link'[d.key])
        PROVE  cache'[L] = Nothing \/ Covered(L)'
    <3>1. L \in Keys
      BY <1>1, <2>6 DEF TInv, CommandsTyped, Addressed, Holding, Keys
    <3>2. L \in Holding(d.key, link[d.key]) /\ d \in commands /\ link[d.key] # Nothing
      BY <2>1, <2>6
    <3> QED BY <1>5, <2>3, <2>4, <2>6, <3>1, <3>2 DEF WritesCovered
  <2> QED BY <2>5, <2>6 DEF WritesCovered
<1>9. CASE Tick \/ UNCHANGED vars
  <2>1. UNCHANGED <<link, cache, commands, req, raced>>
    BY <1>9 DEF Tick, vars
  <2> QED BY <1>5, <2>1 DEF StaleCovered, WritesCovered, Stale, Stored, Covered, Deleting
<1> QED BY <1>3, <1>6, <1>7, <1>8, <1>9 DEF Next

\* As long as no command fails and the generator repeats no code, a stale cache entry is one
\* that a request is about to delete, or it comes from a read that overlapped a write
\* (urls.service.ts:84, 210-220, 276-279).
THEOREM StaleAccounted ==
  ASSUME FreshCodes
  PROVE  Spec => []StaleIsAccountedFor
<1>1. Init => CacheInv
  <2> SUFFICES ASSUME Init PROVE CacheInv
    OBVIOUS
  <2>1. Used /\ WritesCovered
    BY DEF Init, Used, WritesCovered
  <2>2. \A L \in Keys : cache[L] = Nothing
    BY DEF Init
  <2> QED BY <2>1, <2>2 DEF CacheInv, StaleCovered, Stale
<1>2. IInv /\ CacheInv /\ [Next]_vars => CacheInv'
  BY CacheKept
<1>3. IInv /\ CacheInv => StaleIsAccountedFor
  <2> SUFFICES ASSUME IInv, CacheInv, NEW L \in Keys, Stale(L), ~(faults > 0)
               PROVE  Invalidating(L) \/ L \in raced
    BY DEF StaleIsAccountedFor
  <2>1. faults = 0
    BY BoundsAssumption DEF IInv, TInv, HistoryTyped
  <2> QED BY <2>1 DEF CacheInv, StaleCovered, Covered, Deleting, Invalidating
<1> QED BY <1>1, <1>2, <1>3, InvariantHolds, PTL DEF Spec

-----------------------------------------------------------------------------
(* PATCH *)

\* Nothing is ever stored under a code of the length that PATCH accepts, and a request for
\* one finds nothing.
NoCustom ==
  /\ \A k \in Custom : link[k] = Nothing /\ cache[k] = Nothing
  /\ \A c \in commands : c.op = "insert" => c.key \in Generated
  /\ \A r \in Reqs : /\ req[r].op = "update" => req[r].key \in Custom
                     /\ req[r].key \in Custom => req[r].pc \in {"getFromCache", "select", "failed"}

\* Where a step takes a request: to its end, to its beginning, to an attempt, or it goes on
\* with what it was asked.
LEMMA RequestGoes ==
  ASSUME TInv, NEW r \in Reqs, Begin(r) \/ Continue(r), req' # req
  PROVE  \/ req'[r] = Idle
         \/ /\ req[r].pc = "idle" /\ req'[r].pc = "getFromCache"
            /\ FormatCheck /\ req'[r].op = "update" => req'[r].key \in Custom
         \/ /\ req'[r].pc = "createUrlRecord" /\ req'[r].op = "create"
            /\ req'[r].key \in FreeCodes /\ req'[r].key \in used'
            /\ \E c \in commands' : c.by = r /\ c.op = "insert"
         \/ /\ req[r].pc # "idle" /\ req'[r].key = req[r].key /\ req'[r].op = req[r].op
            /\ req'[r].pc = "createUrlRecord" => req[r].pc = "exists"
<1> DEFINE Goes ==
         \/ req'[r] = Idle
         \/ /\ req[r].pc = "idle" /\ req'[r].pc = "getFromCache"
            /\ FormatCheck /\ req'[r].op = "update" => req'[r].key \in Custom
         \/ /\ req'[r].pc = "createUrlRecord" /\ req'[r].op = "create"
            /\ req'[r].key \in FreeCodes /\ req'[r].key \in used'
            /\ \E c \in commands' : c.by = r /\ c.op = "insert"
         \/ /\ req[r].pc # "idle" /\ req'[r].key = req[r].key /\ req'[r].op = req[r].op
            /\ req'[r].pc = "createUrlRecord" => req[r].pc = "exists"
<1>r. req \in [Reqs -> Requests] /\ req[r] \in Requests
  BY DEF TInv, RequestsTyped
<1>1. ASSUME NEW result, Answer(r, result) PROVE Goes
  BY <1>r, <1>1 DEF Answer
<1>2. ASSUME NEW pc, Goto(r, pc), req[r].pc # "idle", pc = "createUrlRecord" => req[r].pc = "exists"
      PROVE  Goes
  BY <1>r, <1>2 DEF Goto, Requests
<1>3. ASSUME NEW key \in FreeCodes, NEW row, NEW user, NEW tries, Attempt(r, key, row, user, tries)
      PROVE  Goes
  <2> DEFINE q == [Idle EXCEPT !.pc = "createUrlRecord", !.user = user,
                               !.key = key, !.value = row, !.tries = tries]
  <2>1. q.pc = "createUrlRecord" /\ q.op = "create" /\ q.key = key
    BY IdleTyped DEF Requests
  <2>2. req' = [req EXCEPT ![r] = q] /\ key \in used' /\ Record(r, key, row) \subseteq commands'
    BY <1>3 DEF Attempt
  <2>3. \E c \in commands' : c.by = r /\ c.op = "insert"
    BY <2>2 DEF Record, Command
  <2> HIDE DEF q
  <2> QED BY <1>r, <1>3, <2>1, <2>2, <2>3
<1>4. ASSUME NEW op, NEW user, NEW key, NEW new, Start(r, op, user, key, new),
             FormatCheck /\ op = "update" => key \in Custom
      PROVE  Goes
  <2> DEFINE q == [Idle EXCEPT !.pc = "getFromCache", !.op = op, !.user = user,
                               !.key = key, !.new = new]
  <2>1. q.pc = "getFromCache" /\ q.op = op /\ q.key = key
    BY IdleTyped DEF Requests
  <2>2. req' = [req EXCEPT ![r] = q] /\ req[r].pc = "idle"
    BY <1>4 DEF Start
  <2> HIDE DEF q
  <2> QED BY <1>r, <1>4, <2>1, <2>2
<1>5. ASSUME NEW value, NEW typed, Found(r, value, typed), req[r].pc \in {"getFromCache", "setCache"}
      PROVE  \/ req'[r] = Idle
             \/ /\ req'[r].key = req[r].key /\ req'[r].op = req[r].op
                /\ req'[r].pc # "createUrlRecord"
  <2> DEFINE q == [req[r] EXCEPT !.value = value]
  <2>1. \/ req' = [req EXCEPT ![r] = Idle]
        \/ \E pc \in {"invalidate", "getFromCache", "exists"} :
             req' = [req EXCEPT ![r] = [q EXCEPT !.pc = pc, !.granted = TRUE]]
    BY <1>5 DEF Found
  <2>2. ASSUME NEW pc PROVE /\ [q EXCEPT !.pc = pc, !.granted = TRUE].key = req[r].key
                            /\ [q EXCEPT !.pc = pc, !.granted = TRUE].op = req[r].op
                            /\ [q EXCEPT !.pc = pc, !.granted = TRUE].pc = pc
    BY <1>r DEF Requests
  <2> HIDE DEF q
  <2>3. CASE req' = [req EXCEPT ![r] = Idle]
    BY <1>r, <2>3
  <2>4. ASSUME NEW pc \in {"invalidate", "getFromCache", "exists"},
               req' = [req EXCEPT ![r] = [q EXCEPT !.pc = pc, !.granted = TRUE]]
        PROVE  req'[r].key = req[r].key /\ req'[r].op = req[r].op /\ req'[r].pc # "createUrlRecord"
    <3>1. req'[r] = [q EXCEPT !.pc = pc, !.granted = TRUE]
      BY <1>r, <2>4
    <3> QED BY <2>2, <3>1
  <2> QED BY <2>1, <2>3, <2>4
<1>6. CASE create(r) \/ createRetries(r)
  BY <1>1, <1>3, <1>6 DEF create, createRetries
<1>7. CASE findOne(r) \/ findAll(r) \/ findByUser(r) \/ remove(r)
  BY <1>4, <1>7 DEF findOne, findAll, findByUser, remove
<1>8. CASE update(r)
  BY <1>4, <1>8 DEF update
<1>9. CASE Recorded(r)
  BY <1>2, <1>9 DEF Recorded
<1>10. CASE Invalidated(r) \/ Expired(r) \/ Failed(r)
  BY <1>1, <1>10 DEF Invalidated, Expired, Failed
<1>11. CASE getFromCache(r)
  <2>1. CASE cache[req[r].key] # Nothing
    BY <1>5, <1>11, <2>1 DEF getFromCache
  <2>2. CASE cache[req[r].key] = Nothing
    BY <1>2, <1>11, <2>2 DEF getFromCache
  <2> QED BY <2>1, <2>2
<1>12. CASE setCache(r)
  BY <1>5, <1>12 DEF setCache, Cached
<1>13. CASE select(r)
  <2>1. CASE \E result : Answer(r, result)
    BY <1>1, <2>1
  <2>2. CASE Goto(r, "expired") \/ Goto(r, "select")
    BY <1>2, <1>13, <2>2 DEF select
  <2>3. CASE req' = [req EXCEPT ![r].pc = "setCache", ![r].value = Stored(req[r].key)]
             /\ req[r].pc # "idle"
    <3> DEFINE value == Stored(req[r].key)
    <3> HIDE DEF value
    <3>1. req' = [req EXCEPT ![r] = [req[r] EXCEPT !.pc = "setCache", !.value = value]]
      BY <2>3 DEF value
    <3>2. /\ [req[r] EXCEPT !.pc = "setCache", !.value = value].key = req[r].key
          /\ [req[r] EXCEPT !.pc = "setCache", !.value = value].op = req[r].op
          /\ [req[r] EXCEPT !.pc = "setCache", !.value = value].pc = "setCache"
      BY <1>r DEF Requests
    <3> QED BY <1>r, <2>3, <3>1, <3>2
  <2> QED BY <1>13, <2>1, <2>2, <2>3 DEF select
<1>14. CASE updateExists(r)
  BY <1>1, <1>2, <1>14 DEF updateExists
<1> QED
  BY <1>6, <1>7, <1>8, <1>9, <1>10, <1>11, <1>12, <1>13, <1>14 DEF Begin, Continue

\* A request for a code that has no row and no cache entry ends, or has failed.
LEMMA NothingFound ==
  ASSUME TInv, NEW r \in Reqs, Begin(r) \/ Continue(r), NEW k \in Codes, req[r].key = k,
         req[r].pc \in {"getFromCache", "select", "failed"},
         link[k] = Nothing, cache[k] = Nothing
  PROVE  /\ \/ req'[r] = Idle
            \/ req'[r].key = k /\ req'[r].pc = "select"
            \/ /\ req'[r].pc = "createUrlRecord" /\ req'[r].op = "create"
               /\ req'[r].key \in FreeCodes
         /\ cache' = cache /\ asked' = asked
         /\ \A c \in commands' \ commands : c.op = "insert"
<1>r. req \in [Reqs -> Requests] /\ req[r] \in Requests /\ Stored(k) = Nothing
  BY DEF TInv, RequestsTyped, Stored
<1>1. CASE getFromCache(r)
  <2>1. Goto(r, "select") /\ UNCHANGED <<commands, asked, cache>>
    BY <1>1 DEF getFromCache
  <2> QED BY <1>r, <2>1 DEF Goto, Requests
<1>2. CASE select(r)
  <2>1. Answer(r, "not found") /\ UNCHANGED <<commands, asked, cache>>
    BY <1>r, <1>2 DEF select
  <2> QED BY <1>r, <2>1 DEF Answer
<1>3. CASE Failed(r)
  BY <1>r, <1>3 DEF Failed, Answer
<1>4. CASE createRetries(r)
  <2>1. CASE Answer(r, "error") /\ UNCHANGED <<commands, used>>
    BY <1>r, <1>4, <2>1 DEF createRetries, Answer
  <2>2. CASE ~(Answer(r, "error") /\ UNCHANGED <<commands, used>>)
    <3>1. PICK key \in FreeCodes : Attempt(r, key, req[r].value, req[r].user, req[r].tries - 1)
      BY <1>4, <2>2 DEF createRetries
    <3>2. \A c \in commands' \ commands : c.op = "insert"
      BY <3>1, SentFields DEF Attempt
    <3>3. /\ req'[r].pc = "createUrlRecord" /\ req'[r].op = "create"
          /\ req'[r].key \in FreeCodes
      <4> DEFINE q == [Idle EXCEPT !.pc = "createUrlRecord", !.user = req[r].user,
                         !.key = key, !.value = req[r].value, !.tries = req[r].tries - 1]
      <4>1. q.pc = "createUrlRecord" /\ q.op = "create" /\ q.key = key
        BY IdleTyped DEF Requests
      <4>2. req' = [req EXCEPT ![r] = q]
        BY <3>1 DEF Attempt
      <4> HIDE DEF q
      <4> QED BY <1>r, <4>1, <4>2
    <3> QED BY <1>4, <3>2, <3>3 DEF createRetries
  <2> QED BY <2>1, <2>2
<1>5. getFromCache(r) \/ select(r) \/ Failed(r) \/ createRetries(r)
  BY DEF Begin, Continue, create, findOne, findAll, findByUser, remove, update, Start,
         Recorded, Invalidated, Expired, setCache, Cached, updateExists
<1> QED BY <1>1, <1>2, <1>3, <1>4, <1>5

\* Every step keeps NoCustom.
LEMMA NoCustomKept ==
  ASSUME FormatCheck
  PROVE  IInv /\ NoCustom /\ [Next]_vars => NoCustom'
<1> SUFFICES ASSUME IInv, NoCustom, [Next]_vars PROVE NoCustom'
  OBVIOUS
<1>i. /\ TInv /\ Sent /\ req \in [Reqs -> Requests]
      /\ \A k \in Custom : k \in Codes /\ k \in Keys /\ k \notin Generated /\ k # All
  BY KeysAssumption DEF IInv, TInv, RequestsTyped, Codes, Keys, ListKeys
<1>k. /\ link \in [Codes -> Rows \cup {Nothing}]
      /\ cache \in [Keys -> Rows \cup Lists \cup {Nothing}]
  BY <1>i DEF TInv, StoreTyped
<1>1. ASSUME NEW r \in Reqs, Begin(r) \/ Continue(r) PROVE NoCustom'
  <2>1. /\ link' = link /\ \A p \in Reqs \ {r} : req'[p] = req[p]
    BY <1>1, <1>i, RequestMoves DEF Moves
  <2>2. ASSUME NEW c \in commands', c.op = "insert" PROVE c.key \in Generated
    <3>1. CASE c \in commands
      BY <2>2, <3>1 DEF NoCustom
    <3>2. CASE c \notin commands
      <4>1. PICK key \in Codes, row \in Rows :
              /\ c \in Record(r, key, row)
              /\ key \in FreeCodes \/ req[r].pc = "exists"
        BY <1>1, <1>i, <2>2, <3>2, RequestSends
      <4>2. req[r].pc # "exists"
        BY <1>i DEF TInv, RequestsTyped, WellFormed, NoCustom
      <4> QED BY <4>1, <4>2, SentFields DEF FreeCodes
    <3> QED BY <3>1, <3>2
  <2>3. ASSUME NEW k \in Custom PROVE cache'[k] = Nothing
    <3>1. CASE setCache(r)
      <4>1. req[r].key # k
        BY <3>1 DEF setCache, Cached, NoCustom
      <4> QED BY <1>i, <1>k, <3>1, <4>1 DEF setCache, Cached, NoCustom
    <3>2. CASE cache' = cache
      BY <3>2 DEF NoCustom
    <3>3. setCache(r) \/ cache' = cache
      BY <1>1
         DEF Begin, Continue, create, findOne, findAll, findByUser, remove, update, Start,
             createRetries, Recorded, Invalidated, getFromCache, select, Expired,
             updateExists, Failed
    <3> QED BY <3>1, <3>2, <3>3
  <2>4. req' # req =>
          /\ req'[r].op = "update" => req'[r].key \in Custom
          /\ req'[r].key \in Custom => req'[r].pc \in {"getFromCache", "select", "failed"}
    <3> SUFFICES ASSUME req' # req
                 PROVE  /\ req'[r].op = "update" => req'[r].key \in Custom
                        /\ req'[r].key \in Custom => req'[r].pc \in {"getFromCache", "select", "failed"}
      OBVIOUS
    <3>1. CASE req'[r] = Idle
      BY <1>i, <3>1, IdleTyped
    <3>2. CASE req'[r].pc = "getFromCache" /\ (FormatCheck /\ req'[r].op = "update" => req'[r].key \in Custom)
      BY <3>2
    <3>3. CASE req'[r].op = "create" /\ req'[r].key \in FreeCodes
      BY <1>i, <3>3 DEF FreeCodes
    <3>4. CASE req'[r].key = req[r].key /\ req'[r].op = req[r].op
               /\ ~(req'[r].op = "create" /\ req'[r].key \in FreeCodes)
      <4>1. req'[r].op = "update" => req'[r].key \in Custom
        BY <3>4 DEF NoCustom
      <4>2. ASSUME req'[r].key \in Custom PROVE req'[r].pc \in {"getFromCache", "select", "failed"}
        <5>1. /\ req[r].key \in Codes /\ req[r].pc \in {"getFromCache", "select", "failed"}
              /\ link[req[r].key] = Nothing /\ cache[req[r].key] = Nothing
          BY <1>i, <3>4, <4>2 DEF NoCustom
        <5>2. CASE req'[r] = Idle
          BY <1>i, <4>2, <5>2, IdleTyped
        <5>3. CASE req'[r].pc = "select"
          BY <5>3
        <5> QED BY <1>1, <1>i, <3>4, <5>1, <5>2, <5>3, NothingFound
      <4> QED BY <4>1, <4>2
    <3> QED BY <1>1, <1>i, <3>1, <3>2, <3>3, <3>4, RequestGoes
  <2> QED BY <2>1, <2>2, <2>3, <2>4 DEF NoCustom
<1>2. ASSUME NEW r \in Reqs, FailAlone(r) PROVE NoCustom'
  <2>1. UNCHANGED <<link, commands>> /\ req' = [req EXCEPT ![r].pc = "failed"]
    BY <1>2 DEF FailAlone, Goto
  <2>3. \A k \in Custom : cache'[k] = Nothing
    <3>1. CASE Cached(r)
      BY <1>i, <1>k, <3>1 DEF Cached, NoCustom
    <3>2. CASE cache' = cache
      BY <3>2 DEF NoCustom
    <3> QED BY <1>2, <3>1, <3>2 DEF FailAlone
  <2>2. \A p \in Reqs : /\ req'[p].op = req[p].op /\ req'[p].key = req[p].key
                        /\ req'[p].pc \in {req[p].pc, "failed"}
    BY <1>i, <2>1 DEF Requests
  <2> QED BY <2>1, <2>2, <2>3 DEF NoCustom
<1>3. ASSUME NEW c \in commands, Execute(c)
      PROVE  \A k \in Custom : link'[k] = Nothing /\ cache'[k] = Nothing
  BY <1>i, <1>3, Executed DEF NoCustom
<1>4. ASSUME NEW c \in commands, Deliver(c) PROVE NoCustom'
  <2>1. \A d \in commands' : d.op = "insert" => d \in commands
    <3>1. \A d \in Removal(c.by, c.key, link[c.key]) : d.op # "insert"
      BY SentFields
    <3> QED BY <1>4, <3>1 DEF Deliver
  <2> QED BY <1>3, <1>4, <2>1 DEF Deliver, NoCustom
<1>5. ASSUME NEW c \in commands, Fail(c) PROVE NoCustom'
  <2>1. CommandsTyped
    BY <1>i DEF TInv
  <2>2. \A x \in commands' : \E d \in commands : x.op = d.op /\ x.key = d.key
    BY <1>5, <2>1, FailLeaves
  <2>3. \A k \in Custom : link'[k] = Nothing /\ cache'[k] = Nothing
    BY <1>3, <1>5 DEF Fail, NoCustom
  <2>4. \A p \in Reqs : /\ req'[p].op = req[p].op /\ req'[p].key = req[p].key
                        /\ req'[p].pc \in {req[p].pc, "failed"}
    BY <1>i, <1>5 DEF Fail, Requests
  <2> QED BY <2>2, <2>3, <2>4 DEF NoCustom
<1>6. CASE Crash
  BY <1>6, <1>i, IdleTyped DEF Crash, NoCustom
<1>7. ASSUME NEW K \in Keys, CacheExpires(K) PROVE NoCustom'
  BY <1>7, <1>i, <1>k DEF CacheExpires, NoCustom
<1>8. CASE Tick \/ UNCHANGED vars
  BY <1>8 DEF Tick, vars, NoCustom
<1> QED BY <1>1, <1>2, <1>4, <1>5, <1>6, <1>7, <1>8 DEF Next

\* In every reachable state, when PATCH checks the code that it is given.
LEMMA NoCustomHolds ==
  ASSUME FormatCheck
  PROVE  Spec => []NoCustom
<1>1. Init => NoCustom
  BY IdleTyped, KeysAssumption DEF Init, NoCustom, Codes, Keys, ListKeys
<1>2. IInv /\ NoCustom /\ [Next]_vars => NoCustom'
  BY NoCustomKept
<1> QED BY <1>1, <1>2, InvariantHolds, PTL DEF Spec

\* PATCH changes nothing, whatever the table holds: the only codes that it lets through are
\* longer than any code that the service makes, so no request gets to UrlsService.update
\* (urls.controller.ts:127, urls.service.ts:256-297).
THEOREM PatchChangesNothing ==
  ASSUME FormatCheck
  PROVE  Spec => [](\A r \in Reqs : req[r].op = "update" =>
                      req[r].pc \in {"getFromCache", "select", "failed"})
<1>1. NoCustom => \A r \in Reqs : req[r].op = "update" =>
                    req[r].pc \in {"getFromCache", "select", "failed"}
  BY DEF NoCustom
<1> QED BY <1>1, NoCustomHolds, PTL

-----------------------------------------------------------------------------
(* The life of a code *)

Pending(k) == \E c \in commands : c.op = "insert" /\ c.key = k

\* Nobody knows the code, but perhaps the request that will record it, and ones that ask
\* for it in vain.
Unknown(k) ==
  /\ link[k] = Nothing /\ cache[k] = Nothing /\ k \notin asked
  /\ \A c \in commands : c.key = k => c.op = "insert"
  /\ \A r \in Reqs : req[r].key = k =>
       req[r].pc \in {"getFromCache", "select", "failed", "createUrlRecord"}

\* A code that has not been handed out, or whose record is on its way.
Fresh == \A k \in Codes : k \notin used \/ Pending(k) => Unknown(k)

\* A code is handed out once.
InsertsDiffer == \A c, d \in commands : c.op = "insert" /\ d.op = "insert" /\ c.key = d.key => c = d

\* A request that is creating a link has its code for itself.
Owned ==
  \A r \in Reqs : req[r].pc = "createUrlRecord" =>
    /\ req[r].key \in used
    /\ \A c \in commands : c.op = "insert" /\ c.key = req[r].key => c.by = r

CodesInv == IInv /\ NoCustom /\ Used /\ Fresh /\ InsertsDiffer /\ Owned

\* A step of a request concerns the code that it was asked for.
LEMMA RequestTouches ==
  ASSUME TInv, NEW r \in Reqs, Begin(r) \/ Continue(r) \/ FailAlone(r)
  PROVE  /\ \A c \in commands' \ commands : c.op = "insert" \/ c.key \in {req[r].key} \cup ListKeys
         /\ asked' \subseteq asked \cup {req[r].key}
         /\ \A K \in Keys : K # req[r].key => cache'[K] = cache[K]
<1> DEFINE Touches ==
         /\ \A c \in commands' \ commands : c.op = "insert" \/ c.key \in {req[r].key} \cup ListKeys
         /\ asked' \subseteq asked \cup {req[r].key}
<1>r. req[r] \in Requests
  BY DEF TInv, RequestsTyped
<1>c. \A K \in Keys : K # req[r].key => cache'[K] = cache[K]
  <2>1. CASE Cached(r)
    BY <2>1 DEF Cached, TInv, StoreTyped
  <2>2. CASE ~Cached(r)
    BY <2>2
       DEF Begin, Continue, create, findOne, findAll, findByUser, remove, update, Start,
           createRetries, Recorded, Invalidated, getFromCache, select, Expired, setCache,
           updateExists, Failed, FailAlone
  <2> QED BY <2>1, <2>2
<1>t. SUFFICES Touches
  BY <1>c
<1>l. \A key : \A c \in Lookup(r, key) : c.key = key
  BY SentFields
<1>1. ASSUME NEW value, NEW typed, Found(r, value, typed) PROVE Touches
  <2>1. [req[r] EXCEPT !.value = value].key = req[r].key
    BY <1>r DEF Requests
  <2>2. /\ commands' \ commands \subseteq Lookup(r, req[r].key)
        /\ asked' \subseteq asked \cup {req[r].key}
    BY <1>1, <2>1 DEF Found
  <2> QED BY <1>l, <2>2
<1>2. CASE getFromCache(r)
  BY <1>1, <1>2 DEF getFromCache
<1>3. CASE setCache(r)
  BY <1>1, <1>3 DEF setCache, Cached
<1>4. CASE select(r)
  <2>1. commands' \ commands \subseteq Lookup(r, req[r].key) /\ asked' = asked
    BY <1>4 DEF select
  <2> QED BY <1>l, <2>1
<1>5. CASE Recorded(r)
  <2>1. /\ commands' \ commands \subseteq
             Invalidations(r, "invalidateMultipleKeys", req[r].value.owner) \cup Lookup(r, req[r].key)
        /\ asked' = asked
    BY <1>5 DEF Recorded
  <2>2. req[r].value.owner \in Users \cup {NoUser}
    BY <1>5, RowFields DEF Recorded, TInv, RequestsTyped, WellFormed
  <2>3. \A c \in Invalidations(r, "invalidateMultipleKeys", req[r].value.owner) : c.key \in ListKeys
    BY <2>2, SentFields DEF ListKeys
  <2> QED BY <1>l, <2>1, <2>3
<1>6. CASE create(r) \/ createRetries(r) \/ updateExists(r)
  <2>1. asked' = asked
    BY <1>6 DEF create, createRetries, updateExists
  <2>2. \/ commands' = commands
        \/ \E key, row : commands' = commands \cup Record(r, key, row)
    BY <1>6 DEF create, createRetries, updateExists, Attempt
  <2> QED BY <2>1, <2>2, SentFields
<1>7. CASE Invalidated(r) \/ Expired(r) \/ Failed(r) \/ FailAlone(r) \/ findOne(r)
           \/ findAll(r) \/ findByUser(r) \/ remove(r) \/ update(r)
  <2>1. commands' = commands /\ asked' = asked
    BY <1>7 DEF Invalidated, Expired, Failed, FailAlone, findOne, findAll, findByUser, remove,
                update, Start
  <2> QED BY <2>1
<1> QED BY <1>2, <1>3, <1>4, <1>5, <1>6, <1>7 DEF Begin, Continue

\* A step of a request keeps what is known of a code that nobody knows.
LEMMA RequestKeepsUnknown ==
  ASSUME CodesInv, NEW r \in Reqs, Begin(r) \/ Continue(r) \/ FailAlone(r),
         NEW k \in Codes, Unknown(k), ~(req[r].key = k /\ req[r].pc = "createUrlRecord")
  PROVE  Unknown(k)'
<1>i. /\ TInv /\ Sent /\ req \in [Reqs -> Requests] /\ k \notin ListKeys /\ k # All /\ k \in Keys
  BY KeysAssumption DEF CodesInv, IInv, TInv, RequestsTyped, Keys, ListKeys
<1>1. link' = link /\ \A p \in Reqs \ {r} : req'[p] = req[p]
  BY <1>i, RequestMoves DEF Moves
<1>2. FailAlone(r) => /\ req'[r].key = req[r].key /\ req'[r].pc = "failed"
                      /\ UNCHANGED <<commands, asked>>
                      /\ req[r].key = k => cache' = cache
  BY <1>i DEF FailAlone, Goto, Requests, Cached, Unknown
<1>3. /\ cache'[k] = Nothing /\ k \notin asked'
      /\ \A c \in commands' : c.key = k => c.op = "insert"
  <2>1. CASE req[r].key = k
    <3>1. ~FailAlone(r) => /\ cache' = cache /\ asked' = asked
                           /\ \A c \in commands' \ commands : c.op = "insert"
      BY <1>i, <2>1, NothingFound DEF Unknown
    <3> QED BY <1>2, <2>1, <3>1 DEF Unknown
  <2>2. CASE req[r].key # k
    BY <1>i, <2>2, RequestTouches DEF Unknown
  <2> QED BY <2>1, <2>2
<1>4. req'[r].key = k => req'[r].pc \in {"getFromCache", "select", "failed", "createUrlRecord"}
  <2>1. CASE req' = req
    BY <2>1 DEF Unknown
  <2>2. CASE FailAlone(r)
    BY <1>2, <2>2
  <2>3. CASE req[r].key = k /\ ~FailAlone(r)
    BY <1>i, <2>3, NothingFound, IdleTyped DEF Unknown
  <2>4. CASE req' # req /\ req[r].key # k /\ ~FailAlone(r)
    BY <1>i, <2>4, RequestGoes, IdleTyped
  <2> QED BY <2>1, <2>2, <2>3, <2>4
<1> QED BY <1>1, <1>3, <1>4 DEF Unknown

\* A step of a request keeps codes to their requests.
LEMMA RequestKeepsCodes ==
  ASSUME FreshCodes, CodesInv, NEW r \in Reqs, Begin(r) \/ Continue(r) \/ FailAlone(r)
  PROVE  Fresh' /\ InsertsDiffer' /\ Owned'
<1>i. /\ TInv /\ Sent /\ Used /\ NoCustom /\ Fresh /\ InsertsDiffer /\ Owned
      /\ req \in [Reqs -> Requests]
  BY DEF CodesInv, IInv, TInv, RequestsTyped
<1>e. req[r].pc # "exists"
  BY <1>i DEF TInv, RequestsTyped, WellFormed, NoCustom
<1>1. /\ \A p \in Reqs \ {r} : req'[p] = req[p]
      /\ \A c \in commands' \ commands : c.by = r
      /\ commands \subseteq commands'
  BY <1>i, RequestMoves DEF Moves
<1>2. /\ used \subseteq used'
      /\ \A c \in commands' \ commands : c.op = "insert" => c.key \notin used /\ c.key \in used'
      /\ \A c, d \in commands' \ commands : c.op = "insert" /\ d.op = "insert" => c = d
  <2>1. CASE used' = used /\ \A c \in commands' \ commands : c.op \in {"lookup", "del"}
    BY <2>1
  <2>2. CASE \E key \in Codes, row \in Rows :
               /\ used' = used \cup {key} /\ commands' = commands \cup Record(r, key, row)
               /\ key \in FreeCodes
    <3>1. PICK key \in FreeCodes, row \in Rows :
            used' = used \cup {key} /\ commands' = commands \cup Record(r, key, row)
      BY <2>2
    <3>2. commands' \ commands \subseteq {Command(r, "createUrlRecord", "insert", key, row)}
      BY <3>1 DEF Record
    <3> QED BY <3>1, <3>2, SentFields DEF FreeCodes
  <2> QED BY <1>i, <1>e, <2>1, <2>2, RequestSends
<1>3. ASSUME NEW k \in Codes, k \notin used' \/ Pending(k)' PROVE Unknown(k)'
  <2>1. k \notin used \/ Pending(k)
    BY <1>2, <1>3 DEF Pending
  <2>2. Unknown(k)
    BY <1>i, <2>1 DEF Fresh
  <2>3. CASE req[r].key = k /\ req[r].pc = "createUrlRecord"
    <3>1. k \in used /\ Pending(k)
      BY <1>i, <2>1, <2>3 DEF Owned
    <3>2. Recorded(r) /\ Settled(r)
      BY <2>3
         DEF Begin, Continue, create, findOne, findAll, findByUser, remove, update, Start,
             createRetries, Recorded, Invalidated, getFromCache, select, Expired, setCache, Cached,
             updateExists, Failed, FailAlone
    <3> QED BY <1>i, <2>3, <3>1, <3>2 DEF Pending, Owned, Settled
  <2>4. CASE ~(req[r].key = k /\ req[r].pc = "createUrlRecord")
    BY <2>2, <2>4, RequestKeepsUnknown
  <2> QED BY <2>3, <2>4
<1>4. InsertsDiffer'
  BY <1>i, <1>2 DEF InsertsDiffer, Used
<1>5. ASSUME NEW p \in Reqs, req'[p].pc = "createUrlRecord"
      PROVE  /\ req'[p].key \in used'
             /\ \A c \in commands' : c.op = "insert" /\ c.key = req'[p].key => c.by = p
  <2>1. CASE req'[p] = req[p]
    BY <1>i, <1>2, <1>5, <2>1 DEF Owned
  <2>2. CASE req'[p] # req[p]
    <3>1. p = r /\ ~FailAlone(r)
      BY <1>i, <1>1, <1>5, <2>2 DEF FailAlone, Goto, Requests
    <3>2. req'[r].key \in FreeCodes /\ req'[r].key \in used'
      BY <1>i, <1>e, <1>5, <2>2, <3>1, RequestGoes, IdleTyped
    <3> QED BY <1>i, <1>1, <3>1, <3>2 DEF FreeCodes, Used
  <2> QED BY <2>1, <2>2
<1> QED BY <1>3, <1>4, <1>5 DEF Fresh, Owned

\* A command that arrives, or fails, keeps what is known of a code that nobody knows.
LEMMA ArrivalKeepsFresh ==
  ASSUME CodesInv, NEW c \in commands, Execute(c) \/ UNCHANGED <<link, cache>>,
         UNCHANGED <<used, asked>>,
         \A x \in commands' :
           \/ \E d \in commands : x.op = d.op /\ x.key = d.key /\ (d = c => UNCHANGED <<link, cache>>)
           \/ c.op = "lookup" /\ x.op # "insert" /\ x.key \in {c.key} \cup ListKeys,
         \A p \in Reqs : /\ req'[p].key = req[p].key
                         /\ req'[p].pc \in {req[p].pc, "failed"}
  PROVE  Fresh'
<1>i. TInv /\ Used /\ Fresh /\ InsertsDiffer
  BY DEF CodesInv, IInv
<1> SUFFICES ASSUME NEW k \in Codes, k \notin used' \/ Pending(k)' PROVE Unknown(k)'
  BY DEF Fresh
<1>k. k \notin ListKeys /\ k \in Keys
  BY KeysAssumption DEF Keys
<1>1. k \notin used \/ Pending(k)
  BY DEF Pending
<1>2. Unknown(k)
  BY <1>i, <1>1 DEF Fresh
<1>3. link'[k] = Nothing
  <2>1. CASE UNCHANGED <<link, cache>>
    BY <1>2, <2>1 DEF Unknown
  <2>2. CASE ~UNCHANGED <<link, cache>> /\ c.op = "insert" /\ c.key = k
    <3>1. k \in used'
      BY <1>i, <2>2 DEF Used
    <3>2. PICK x \in commands' : x.op = "insert" /\ x.key = k
      BY <3>1 DEF Pending
    <3>3. PICK d \in commands : x.op = d.op /\ x.key = d.key /\ d # c
      BY <2>2, <3>2
    <3> QED BY <1>i, <2>2, <3>2, <3>3 DEF InsertsDiffer
  <2>3. CASE Execute(c) /\ ~(c.op = "insert" /\ c.key = k)
    BY <1>i, <1>2, <2>3, Executed DEF Unknown
  <2> QED BY <2>1, <2>2, <2>3
<1>4. cache'[k] = Nothing
  BY <1>i, <1>k, <1>2, Executed DEF Unknown
<1>5. \A x \in commands' : x.key = k => x.op = "insert"
  BY <1>k, <1>2 DEF Unknown
<1>6. \A p \in Reqs : req'[p].key = k =>
        req'[p].pc \in {"getFromCache", "select", "failed", "createUrlRecord"}
  BY <1>2 DEF Unknown
<1> QED BY <1>2, <1>3, <1>4, <1>5, <1>6 DEF Unknown

\* Every step keeps codes to their requests.
LEMMA CodesKept ==
  ASSUME FreshCodes, FormatCheck
  PROVE  CodesInv /\ [Next]_vars => CodesInv'
<1> SUFFICES ASSUME CodesInv, [Next]_vars PROVE CodesInv'
  OBVIOUS
<1>i. /\ IInv /\ TInv /\ Sent /\ Used /\ NoCustom /\ Fresh /\ InsertsDiffer /\ Owned
      /\ req \in [Reqs -> Requests] /\ cache \in [Keys -> Rows \cup Lists \cup {Nothing}]
      /\ CommandsTyped
  BY DEF CodesInv, IInv, TInv, RequestsTyped, StoreTyped
<1>n. IInv' /\ Used' /\ NoCustom'
  BY <1>i, NextTyped, NextSent, UsedKept, NoCustomKept DEF IInv
<1> SUFFICES Fresh' /\ InsertsDiffer' /\ Owned'
  BY <1>n DEF CodesInv
<1>1. ASSUME NEW r \in Reqs, Begin(r) \/ Continue(r) \/ FailAlone(r)
      PROVE  Fresh' /\ InsertsDiffer' /\ Owned'
  BY <1>1, RequestKeepsCodes
<1>2. ASSUME NEW c \in commands, Deliver(c) PROVE Fresh' /\ InsertsDiffer' /\ Owned'
  <2>1. \A x \in commands' :
          \/ x \in commands /\ x # c
          \/ c.op = "lookup" /\ x.op # "insert" /\ x.key \in {c.key} \cup ListKeys
    <3>1. ASSUME NEW x \in Removal(c.by, c.key, link[c.key]), c.op = "lookup", link[c.key] # Nothing
          PROVE  x.op # "insert" /\ x.key \in {c.key} \cup ListKeys
      <4>1. link[c.key].owner \in Users \cup {NoUser}
        BY <1>i, <3>1, RowFields DEF TInv, CommandsTyped, Addressed, StoreTyped
      <4> QED BY <3>1, <4>1, SentFields DEF ListKeys
    <3> QED BY <1>2, <3>1 DEF Deliver
  <2>2. Execute(c) /\ UNCHANGED <<req, used, asked>>
    BY <1>2 DEF Deliver
  <2>3. Fresh'
    BY <2>1, <2>2, ArrivalKeepsFresh
  <2>4. InsertsDiffer' /\ Owned'
    BY <1>i, <2>1, <2>2 DEF InsertsDiffer, Owned
  <2> QED BY <2>3, <2>4
<1>3. ASSUME NEW c \in commands, Fail(c) PROVE Fresh' /\ InsertsDiffer' /\ Owned'
  <2>1. \A x \in commands' : \E d \in commands :
          /\ x.op = d.op /\ x.key = d.key
          /\ x.by = IF d.by = c.by THEN Nobody ELSE d.by
          /\ x = IF d.by = c.by THEN [d EXCEPT !.by = Nobody] ELSE d
          /\ (d = c => UNCHANGED <<link, cache>>)
    BY <1>i, <1>3, FailLeaves
  <2>2. /\ Execute(c) \/ UNCHANGED <<link, cache>>
        /\ UNCHANGED <<used, asked>>
        /\ req' = IF c.by = Nobody THEN req ELSE [req EXCEPT ![c.by].pc = "failed"]
    BY <1>3 DEF Fail
  <2>3. \A p \in Reqs : /\ req'[p].key = req[p].key
                        /\ req'[p] = req[p] \/ req'[p].pc = "failed"
                        /\ p = c.by /\ c.by # Nobody => req'[p].pc = "failed"
    BY <1>i, <2>2 DEF Requests
  <2>4. Fresh'
    BY <2>1, <2>2, <2>3, ArrivalKeepsFresh
  <2>5. InsertsDiffer'
    BY <1>i, <2>1 DEF InsertsDiffer
  <2>6. ASSUME NEW p \in Reqs, req'[p].pc = "createUrlRecord"
        PROVE  /\ req'[p].key \in used'
               /\ \A x \in commands' : x.op = "insert" /\ x.key = req'[p].key => x.by = p
    <3>1. req'[p] = req[p] /\ p # c.by
      BY <2>3, <2>6, KeysAssumption
    <3> QED BY <1>i, <2>1, <2>2, <2>6, <3>1 DEF Owned
  <2> QED BY <2>4, <2>5, <2>6 DEF Owned
<1>4. CASE Crash
  <2>1. commands' = {} /\ req' = [p \in Reqs |-> Idle] /\ UNCHANGED <<link, cache, used, asked>>
    BY <1>4 DEF Crash
  <2>2. \A k \in Codes : k # All
    BY KeysAssumption DEF ListKeys
  <2> QED BY <1>i, <2>1, <2>2, IdleTyped DEF Fresh, Unknown, Pending, InsertsDiffer, Owned
<1>5. ASSUME NEW K \in Keys, CacheExpires(K) PROVE Fresh' /\ InsertsDiffer' /\ Owned'
  <2>1. /\ UNCHANGED <<link, commands, req, used, asked>>
        /\ \A k \in Codes : cache[k] = Nothing => cache'[k] = Nothing
    BY <1>i, <1>5 DEF CacheExpires, Keys
  <2> QED BY <1>i, <2>1 DEF Fresh, Unknown, Pending, InsertsDiffer, Owned
<1>6. CASE Tick \/ UNCHANGED vars
  <2>1. UNCHANGED <<link, cache, commands, req, used, asked>>
    BY <1>6 DEF Tick, vars
  <2> QED BY <1>i, <2>1 DEF Fresh, Unknown, Pending, InsertsDiffer, Owned
<1> QED BY <1>1, <1>2, <1>3, <1>4, <1>5, <1>6 DEF Next

-----------------------------------------------------------------------------
(* The life of a row *)

\* The row of a code may go.
Doomed(k) == k \in asked \/ link[k] = Nothing \/ Overdue(link[k])

DeletesJustified == \A c \in commands : c.op \in {"lookup", "delete"} => Doomed(c.key)

\* The row that POST is about to answer with is on its way or there, unless it may go.
Created(r) ==
  \/ \E c \in commands : c.by = r /\ c.op = "insert"
  \/ link[req[r].key] = req[r].value
  \/ req[r].key \in asked
  \/ Overdue(req[r].value)

\* The row that DELETE is about to answer with has gone, or is about to.
Removed(r) ==
  /\ req[r].key \in asked
  /\ \/ link[req[r].key] = Nothing
     \/ \E c \in commands : c.by = r /\ c.key = req[r].key /\ c.op \in {"lookup", "delete"}

RowsInv ==
  /\ DeletesJustified
  /\ \A r \in Reqs :
       /\ req[r].op = "create" /\ req[r].pc \in {"createUrlRecord", "invalidate"} => Created(r)
       /\ req[r].op = "remove" /\ req[r].pc = "invalidate" => Removed(r)

\* How a request gets to where it waits for deletions from the cache.
LEMMA Invalidates ==
  ASSUME TInv, NEW r \in Reqs, Begin(r) \/ Continue(r), req' # req, req'[r].pc = "invalidate"
  PROVE  \/ Recorded(r)
         \/ /\ req'[r].op = "remove" /\ req'[r].key \in asked'
            /\ \E c \in commands' : c.by = r /\ c.key = req'[r].key /\ c.op = "lookup"
<1>r. req \in [Reqs -> Requests] /\ req[r] \in Requests
  BY DEF TInv, RequestsTyped
<1>1. ASSUME NEW result, Answer(r, result) PROVE FALSE
  BY <1>r, <1>1, IdleTyped DEF Answer
<1>2. ASSUME NEW pc, Goto(r, pc), pc # "invalidate" PROVE FALSE
  BY <1>r, <1>2 DEF Goto, Requests
<1>3. ASSUME NEW key, NEW row, NEW user, NEW tries, Attempt(r, key, row, user, tries)
      PROVE  FALSE
  <2> DEFINE q == [Idle EXCEPT !.pc = "createUrlRecord", !.user = user,
                               !.key = key, !.value = row, !.tries = tries]
  <2>1. q.pc = "createUrlRecord"
    BY IdleTyped DEF Requests
  <2>2. req' = [req EXCEPT ![r] = q]
    BY <1>3 DEF Attempt
  <2> HIDE DEF q
  <2> QED BY <1>r, <2>1, <2>2
<1>4. ASSUME NEW op, NEW user, NEW key, NEW new, Start(r, op, user, key, new)
      PROVE  FALSE
  <2> DEFINE q == [Idle EXCEPT !.pc = "getFromCache", !.op = op, !.user = user,
                               !.key = key, !.new = new]
  <2>1. q.pc = "getFromCache"
    BY IdleTyped DEF Requests
  <2>2. req' = [req EXCEPT ![r] = q]
    BY <1>4 DEF Start
  <2> HIDE DEF q
  <2> QED BY <1>r, <2>1, <2>2
<1>5. ASSUME NEW value, NEW typed, Found(r, value, typed)
      PROVE  /\ req'[r].op = "remove" /\ req'[r].key \in asked'
             /\ \E c \in commands' : c.by = r /\ c.key = req'[r].key /\ c.op = "lookup"
  <2> DEFINE q == [req[r] EXCEPT !.value = value]
  <2>1. \A pc : LET g == [q EXCEPT !.pc = pc, !.granted = TRUE]
                IN  g.pc = pc /\ g.key = q.key /\ g.op = q.op
    BY <1>r DEF Requests
  <2>2. \/ req' = [req EXCEPT ![r] = Idle]
        \/ \E pc \in {"getFromCache", "exists"} :
             req' = [req EXCEPT ![r] = [q EXCEPT !.pc = pc, !.granted = TRUE]]
        \/ /\ q.op = "remove" /\ asked' = asked \cup {q.key}
           /\ req' = [req EXCEPT ![r] = [q EXCEPT !.pc = "invalidate", !.granted = TRUE]]
           /\ commands' = commands \cup Lookup(r, q.key)
    BY <1>5 DEF Found
  <2> HIDE DEF q
  <2>3. req' # [req EXCEPT ![r] = Idle]
    BY <1>r, IdleTyped
  <2>4. ASSUME NEW pc, req' = [req EXCEPT ![r] = [q EXCEPT !.pc = pc, !.granted = TRUE]]
        PROVE  pc = "invalidate" /\ req'[r].key = q.key /\ req'[r].op = q.op
    <3>1. req'[r] = [q EXCEPT !.pc = pc, !.granted = TRUE]
      BY <1>r, <2>4
    <3> QED BY <2>1, <3>1
  <2>5. /\ q.op = "remove" /\ asked' = asked \cup {q.key}
        /\ req'[r].key = q.key /\ req'[r].op = q.op
        /\ commands' = commands \cup Lookup(r, q.key)
    BY <2>2, <2>3, <2>4
  <2>6. Command(r, "remove", "lookup", q.key, Nothing) \in commands'
    BY <2>5 DEF Lookup
  <2> QED BY <2>5, <2>6 DEF Command
<1>6. CASE create(r) \/ createRetries(r)
  BY <1>1, <1>3, <1>6 DEF create, createRetries
<1>7. CASE findOne(r) \/ findAll(r) \/ findByUser(r) \/ remove(r) \/ update(r)
  BY <1>4, <1>7 DEF findOne, findAll, findByUser, remove, update
<1>8. CASE Invalidated(r) \/ Expired(r) \/ Failed(r)
  BY <1>1, <1>8 DEF Invalidated, Expired, Failed
<1>9. CASE getFromCache(r)
  BY <1>2, <1>5, <1>9 DEF getFromCache
<1>10. CASE setCache(r)
  BY <1>5, <1>10 DEF setCache, Cached
<1>11. CASE select(r)
  <2>1. CASE (\E result : Answer(r, result)) \/ Goto(r, "expired")
    BY <1>1, <1>2, <2>1
  <2>2. CASE req' = [req EXCEPT ![r].pc = "setCache", ![r].value = Stored(req[r].key)]
    <3> DEFINE value == Stored(req[r].key)
    <3> HIDE DEF value
    <3>1. req' = [req EXCEPT ![r] = [req[r] EXCEPT !.pc = "setCache", !.value = value]]
      BY <2>2 DEF value
    <3>2. [req[r] EXCEPT !.pc = "setCache", !.value = value].pc = "setCache"
      BY <1>r DEF Requests
    <3> QED BY <1>r, <3>1, <3>2
  <2> QED BY <1>11, <2>1, <2>2 DEF select
<1>12. CASE updateExists(r)
  BY <1>1, <1>2, <1>12 DEF updateExists
<1> QED BY <1>6, <1>7, <1>8, <1>9, <1>10, <1>11, <1>12 DEF Begin, Continue

\* A request looks a row up in order to delete it only if it may go.
LEMMA RequestDooms ==
  ASSUME IInv, NoCustom, NEW r \in Reqs, Begin(r) \/ Continue(r) \/ FailAlone(r),
         NEW c \in commands' \ commands, c.op \in {"lookup", "delete"}
  PROVE  Doomed(c.key)'
<1>i. TInv /\ req[r] \in Requests /\ WellFormed(req[r])
  BY DEF IInv, TInv, RequestsTyped
<1>k. link' = link
  BY RequestMoves DEF IInv, Moves
<1>1. ASSUME NEW value, NEW typed, Found(r, value, typed) PROVE Doomed(c.key)'
  <2>1. [req[r] EXCEPT !.value = value].key = req[r].key
    BY <1>i DEF Requests
  <2>2. asked' = asked \cup {req[r].key} /\ commands' = commands \cup Lookup(r, req[r].key)
    BY <1>1, <2>1 DEF Found
  <2> QED BY <2>2, SentFields DEF Doomed
<1>2. CASE getFromCache(r) \/ setCache(r)
  BY <1>1, <1>2 DEF getFromCache, setCache, Cached
<1>3. CASE select(r)
  <2>1. /\ c \in Lookup(r, req[r].key) /\ isExpired(Stored(req[r].key)) /\ req[r].key \in Codes
        /\ now' = now
    BY <1>3 DEF select
  <2>2. c.key = req[r].key /\ isExpired(link[c.key])
    BY <2>1, SentFields DEF Stored
  <2>3. link[c.key] = Nothing \/ link[c.key].expires \in (0..MaxNow) \cup {Never}
    BY <1>i, <2>1, <2>2, RowFields DEF TInv, StoreTyped
  <2> QED BY <1>i, <1>k, <2>1, <2>2, <2>3 DEF isExpired, Overdue, Doomed, TInv, HistoryTyped
<1>4. CASE Recorded(r)
  <2>1. req[r].op # "update"
    BY <1>4 DEF Recorded, NoCustom
  <2>2. c \in Invalidations(r, "invalidateMultipleKeys", req[r].value.owner)
    BY <1>4, <2>1 DEF Recorded
  <2> QED BY <2>2, SentFields
<1>5. CASE create(r) \/ createRetries(r) \/ updateExists(r)
  <2>1. \/ commands' = commands
        \/ \E key, row : commands' = commands \cup Record(r, key, row)
    BY <1>5 DEF create, createRetries, updateExists, Attempt
  <2> QED BY <2>1, SentFields
<1>6. CASE Invalidated(r) \/ Expired(r) \/ Failed(r) \/ FailAlone(r) \/ findOne(r)
           \/ findAll(r) \/ findByUser(r) \/ remove(r) \/ update(r)
  BY <1>6 DEF Invalidated, Expired, Failed, FailAlone, findOne, findAll, findByUser, remove,
              update, Start
<1> QED BY <1>2, <1>3, <1>4, <1>5, <1>6 DEF Begin, Continue

\* A step of a request keeps the promises of all of them.
LEMMA RequestKeepsRows ==
  ASSUME CodesInv, RowsInv, NEW r \in Reqs, Begin(r) \/ Continue(r) \/ FailAlone(r)
  PROVE  RowsInv'
<1>i. /\ IInv /\ TInv /\ Sent /\ NoCustom
      /\ req \in [Reqs -> Requests]
  BY DEF CodesInv, IInv, TInv, RequestsTyped
<1>1. /\ link' = link /\ \A p \in Reqs \ {r} : req'[p] = req[p]
      /\ commands \subseteq commands'
  BY <1>i, RequestMoves DEF Moves
<1>2. asked \subseteq asked' /\ now' = now
  BY DEF Begin, Continue, create, findOne, findAll, findByUser, remove, update, Start,
         createRetries, Recorded, Invalidated, getFromCache, select, Expired, setCache, Cached, Found,
         updateExists, Failed, FailAlone, Answer, Goto
<1>3. DeletesJustified'
  <2>1. SUFFICES ASSUME NEW c \in commands', c.op \in {"lookup", "delete"} PROVE Doomed(c.key)'
    BY DEF DeletesJustified
  <2>2. CASE c \in commands
    BY <1>1, <1>2, <2>1, <2>2 DEF RowsInv, DeletesJustified, Doomed, Overdue
  <2>3. CASE c \notin commands
    BY <1>i, <2>1, <2>3, RequestDooms
  <2> QED BY <2>2, <2>3
<1>4. ASSUME NEW p \in Reqs, req'[p] = req[p]
      PROVE  /\ req'[p].op = "create" /\ req'[p].pc \in {"createUrlRecord", "invalidate"} => Created(p)'
             /\ req'[p].op = "remove" /\ req'[p].pc = "invalidate" => Removed(p)'
  BY <1>1, <1>2, <1>4 DEF RowsInv, Created, Removed, Overdue
<1>5. ASSUME NEW p \in Reqs, req'[p] # req[p]
      PROVE  /\ req'[p].op = "create" /\ req'[p].pc \in {"createUrlRecord", "invalidate"} => Created(p)'
             /\ req'[p].op = "remove" /\ req'[p].pc = "invalidate" => Removed(p)'
  <2>0. p = r /\ req' # req
    BY <1>1, <1>5
  <2>1. CASE FailAlone(r)
    <3>1. req'[r].pc = "failed"
      BY <1>i, <2>1 DEF FailAlone, Goto, Requests
    <3> QED BY <2>0, <3>1
  <2>2. CASE ~FailAlone(r) /\ req'[r].pc = "createUrlRecord"
    <3>1. req[r].pc # "exists"
      BY <1>i DEF TInv, RequestsTyped, WellFormed, NoCustom
    <3>2. \E c \in commands' : c.by = r /\ c.op = "insert"
      BY <1>i, <2>0, <2>2, <3>1, RequestGoes, IdleTyped
    <3> QED BY <2>0, <2>2, <3>2 DEF Created
  <2>3. CASE ~FailAlone(r) /\ req'[r].pc = "invalidate" /\ Recorded(r)
    <3>1. /\ req[r].pc = "createUrlRecord" /\ req[r].op \in {"create", "update"}
          /\ req' = [req EXCEPT ![r].pc = "invalidate"]
      BY <1>i, <2>3 DEF Recorded, Goto, TInv, RequestsTyped, WellFormed
    <3>2. req'[r].op = req[r].op /\ req'[r].key = req[r].key /\ req'[r].value = req[r].value
      BY <1>i, <3>1 DEF Requests
    <3>3. req[r].op = "create" => Created(r)'
      BY <1>1, <1>2, <3>1, <3>2 DEF RowsInv, Created, Overdue
    <3> QED BY <2>0, <3>1, <3>2, <3>3
  <2>4. CASE ~FailAlone(r) /\ req'[r].pc = "invalidate" /\ ~Recorded(r)
    BY <1>i, <2>0, <2>4, Invalidates DEF Removed
  <2> QED BY <2>0, <2>1, <2>2, <2>3, <2>4
<1> QED BY <1>3, <1>4, <1>5 DEF RowsInv

\* What executing a command may do to a row that may go, and to one that must stay.
LEMMA ExecuteKeeps ==
  ASSUME CodesInv, DeletesJustified, NEW c \in commands, Execute(c) \/ UNCHANGED link,
         NEW k \in Codes
  PROVE  /\ ~Unknown(k) => link'[k] = link[k] \/ link'[k] = Nothing
         /\ link'[k] # link[k] =>
              \/ c.op = "insert" /\ c.key = k /\ link'[k] = c.row /\ Unknown(k)
              \/ c.op = "delete" /\ c.key = k /\ link'[k] = Nothing /\ Doomed(k)
<1>1. TInv /\ Fresh
  BY DEF CodesInv, IInv
<1>2. link'[k] # link[k] => \/ c.op = "insert" /\ c.key = k /\ link'[k] = c.row
                            \/ c.op = "delete" /\ c.key = k /\ link'[k] = Nothing
  BY <1>1, Executed
<1>3. c.op = "insert" /\ c.key = k => Unknown(k)
  BY <1>1 DEF Fresh, Pending
<1> QED BY <1>2, <1>3 DEF DeletesJustified

\* A command that arrives, or fails, keeps the promises of all requests.
LEMMA ArrivalKeepsRows ==
  ASSUME CodesInv, RowsInv, NEW c \in commands, Execute(c) \/ UNCHANGED link,
         UNCHANGED <<asked, now>>,
         \A x \in commands' : x.op \in {"lookup", "delete"} =>
           \E d \in commands : d.op \in {"lookup", "delete"} /\ d.key = x.key,
         \A p \in Reqs : req'[p] = req[p] \/ req'[p].pc = "failed",
         \A p \in Reqs : req'[p] = req[p] /\ req[p].pc # "failed" =>
           \A d \in commands : d.by = p =>
             \/ d \in commands'
             \/ /\ d = c /\ Execute(c)
                /\ c.op = "lookup" /\ link[c.key] # Nothing =>
                     \E x \in commands' : x.by = p /\ x.key = c.key /\ x.op = "delete"
  PROVE  RowsInv'
<1>i. /\ IInv /\ TInv /\ Sent /\ NoCustom /\ Fresh /\ Owned /\ DeletesJustified
      /\ CommandsTyped /\ RequestsTyped
  BY DEF CodesInv, IInv, RowsInv, TInv
<1>1. ASSUME NEW x \in commands', x.op \in {"lookup", "delete"} PROVE Doomed(x.key)'
  <2>1. PICK d \in commands : d.op \in {"lookup", "delete"} /\ d.key = x.key
    BY <1>1
  <2>2. x.key \in Codes /\ Doomed(x.key) /\ ~Unknown(x.key)
    BY <1>i, <2>1 DEF CommandsTyped, Addressed, DeletesJustified, Unknown
  <2>3. link'[x.key] = link[x.key] \/ link'[x.key] = Nothing
    BY <1>i, <2>2, ExecuteKeeps
  <2> QED BY <2>2, <2>3 DEF Doomed, Overdue
<1>2. ASSUME NEW p \in Reqs, req'[p] = req[p], req[p].op = "create",
             req[p].pc \in {"createUrlRecord", "invalidate"}
      PROVE  Created(p)'
  <2>1. /\ req[p].key \in Codes /\ req[p].value # Nothing /\ Created(p)
    BY <1>i, <1>2 DEF RequestsTyped, WellFormed, RowsInv
  <2>2. CASE \E d \in commands : d.by = p /\ d.op = "insert"
    <3>1. PICK d \in commands : d.by = p /\ d.op = "insert"
      BY <2>2
    <3>2. CASE d \in commands'
      BY <3>1, <3>2 DEF Created
    <3>3. CASE d = c /\ Execute(c)
      <4>1. req[p].key = c.key /\ req[p].value = c.row
        BY <1>i, <1>2, <3>1, <3>3, KeysAssumption DEF Sent, SentBy
      <4>2. link'[c.key] = c.row
        BY <1>i, <2>1, <3>1, <3>3, <4>1, Executed
      <4> QED BY <1>2, <4>1, <4>2 DEF Created
    <3> QED BY <1>2, <3>1, <3>2, <3>3
  <2>3. CASE req[p].key \in asked \/ Overdue(req[p].value)
    BY <1>2, <2>3 DEF Created, Overdue
  <2>4. CASE link[req[p].key] = req[p].value /\ link'[req[p].key] # link[req[p].key]
    <3>1. CASE c.op = "insert" /\ c.key = req[p].key /\ link'[c.key] = c.row /\ Unknown(c.key)
      BY <2>1, <2>4, <3>1 DEF Unknown
    <3>2. CASE c.op = "delete" /\ c.key = req[p].key /\ Doomed(c.key)
      BY <1>2, <2>1, <2>4, <3>2 DEF Doomed, Created, Overdue
    <3> QED BY <1>i, <2>1, <2>4, <3>1, <3>2, ExecuteKeeps
  <2>5. CASE link[req[p].key] = req[p].value /\ link'[req[p].key] = link[req[p].key]
    BY <1>2, <2>5 DEF Created
  <2> QED BY <2>1, <2>2, <2>3, <2>4, <2>5 DEF Created
<1>3. ASSUME NEW p \in Reqs, req'[p] = req[p], req[p].op = "remove", req[p].pc = "invalidate"
      PROVE  Removed(p)'
  <2>1. req[p].key \in Codes /\ Removed(p) /\ ~Unknown(req[p].key)
    BY <1>i, <1>3 DEF RequestsTyped, WellFormed, RowsInv, Removed, Unknown
  <2>2. CASE link[req[p].key] = Nothing
    <3>1. link'[req[p].key] = Nothing
      BY <1>i, <2>1, <2>2, ExecuteKeeps
    <3> QED BY <1>3, <2>1, <3>1 DEF Removed
  <2>3. CASE link[req[p].key] # Nothing
    <3>1. PICK d \in commands : d.by = p /\ d.key = req[p].key /\ d.op \in {"lookup", "delete"}
      BY <2>1, <2>3 DEF Removed
    <3>2. CASE d \in commands'
      BY <1>3, <2>1, <3>1, <3>2 DEF Removed
    <3>3. CASE d = c /\ Execute(c) /\ c.op = "lookup"
      BY <1>3, <2>1, <2>3, <3>1, <3>3 DEF Removed
    <3>4. CASE d = c /\ Execute(c) /\ c.op = "delete"
      <4>1. link'[req[p].key] = Nothing
        BY <1>i, <2>1, <3>1, <3>4, Executed
      <4> QED BY <1>3, <2>1, <4>1 DEF Removed
    <3> QED BY <1>3, <3>1, <3>2, <3>3, <3>4
  <2> QED BY <2>2, <2>3
<1> QED BY <1>1, <1>2, <1>3 DEF RowsInv, DeletesJustified

\* Every step keeps the promises of all requests.
LEMMA RowsKept == CodesInv /\ RowsInv /\ [Next]_vars => RowsInv'
<1> SUFFICES ASSUME CodesInv, RowsInv, [Next]_vars PROVE RowsInv'
  OBVIOUS
<1>i. /\ TInv /\ Sent /\ CommandsTyped /\ req \in [Reqs -> Requests] /\ now \in 0..MaxNow
      /\ link \in [Codes -> Rows \cup {Nothing}]
  BY DEF CodesInv, IInv, TInv, RequestsTyped, HistoryTyped, StoreTyped
<1>1. ASSUME NEW r \in Reqs, Begin(r) \/ Continue(r) \/ FailAlone(r) PROVE RowsInv'
  BY <1>1, RequestKeepsRows
<1>2. ASSUME NEW c \in commands, Deliver(c) PROVE RowsInv'
  <2>1. Execute(c) /\ UNCHANGED <<req, asked, now>>
    BY <1>2 DEF Deliver
  <2>2. ASSUME c.op = "lookup", link[c.key] # Nothing
        PROVE  /\ \E x \in commands' : x.by = c.by /\ x.key = c.key /\ x.op = "delete"
               /\ \A x \in commands' \ commands : x.op = "delete" => x.key = c.key
               /\ \A x \in commands' \ commands : x.op # "lookup"
    <3>1. commands' = (commands \ {c}) \cup Removal(c.by, c.key, link[c.key])
      BY <1>2, <2>2 DEF Deliver
    <3>2. Command(c.by, "remove", "delete", c.key, Nothing) \in commands'
      BY <3>1 DEF Removal
    <3> QED BY <3>1, <3>2, SentFields DEF Command
  <2>3. \A x \in commands' : x.op \in {"lookup", "delete"} =>
          \E d \in commands : d.op \in {"lookup", "delete"} /\ d.key = x.key
    <3>1. ~(c.op = "lookup" /\ link[c.key] # Nothing) => commands' \subseteq commands
      BY <1>2 DEF Deliver
    <3> QED BY <2>2, <3>1
  <2>4. commands \ {c} \subseteq commands'
    BY <1>2 DEF Deliver
  <2> QED BY <2>1, <2>2, <2>3, <2>4, ArrivalKeepsRows
<1>3. ASSUME NEW c \in commands, Fail(c) PROVE RowsInv'
  <2>1. /\ Execute(c) \/ UNCHANGED link
        /\ UNCHANGED <<asked, now>>
        /\ req' = IF c.by = Nobody THEN req ELSE [req EXCEPT ![c.by].pc = "failed"]
    BY <1>3 DEF Fail
  <2>2. \A x \in commands' : \E d \in commands : d.op = x.op /\ d.key = x.key
    BY <1>i, <1>3, FailLeaves
  <2>3. \A p \in Reqs : /\ req'[p] = req[p] \/ req'[p].pc = "failed"
                        /\ p = c.by => req'[p].pc = "failed"
    BY <1>i, <2>1, KeysAssumption DEF Requests
  <2>4. \A d \in commands : d.by # c.by => d \in commands'
    BY <1>3 DEF Fail
  <2>5. ASSUME NEW p \in Reqs, req'[p] = req[p], req[p].pc # "failed", NEW d \in commands, d.by = p
        PROVE  d \in commands'
    BY <2>3, <2>4, <2>5
  <2> QED BY <2>1, <2>2, <2>3, <2>5, ArrivalKeepsRows
<1>4. CASE Crash
  BY <1>4, IdleTyped DEF Crash, RowsInv, DeletesJustified
<1>5. CASE Tick
  <2>1. UNCHANGED <<link, commands, req, asked>> /\ now' = now + 1
    BY <1>5 DEF Tick
  <2>2. \A row \in Rows : Overdue(row) => Overdue(row)'
    <3>1. \A row \in Rows : row.expires = Never \/ row.expires \in 0..MaxNow
      BY RowFields
    <3> QED BY <1>i, <2>1, <3>1, BoundsAssumption DEF Overdue
  <2>3. DeletesJustified'
    BY <1>i, <2>1, <2>2 DEF RowsInv, DeletesJustified, Doomed, CommandsTyped, Addressed
  <2>4. ASSUME NEW p \in Reqs, req[p].op = "create", req[p].pc \in {"createUrlRecord", "invalidate"}
        PROVE  Created(p)'
    <3>1. req[p].value \in Rows
      BY <1>i, <2>4 DEF TInv, RequestsTyped, WellFormed
    <3> QED BY <2>1, <2>2, <2>4, <3>1 DEF RowsInv, Created
  <2> QED BY <2>1, <2>3, <2>4 DEF RowsInv, Removed
<1>6. CASE (\E K \in Keys : CacheExpires(K)) \/ UNCHANGED vars
  <2>1. UNCHANGED <<link, commands, req, asked, now>>
    BY <1>6 DEF CacheExpires, vars
  <2> QED BY <2>1 DEF RowsInv, DeletesJustified, Doomed, Created, Removed, Overdue
<1> QED BY <1>1, <1>2, <1>3, <1>4, <1>5, <1>6 DEF Next

CodesLive == CodesInv /\ RowsInv

\* In every reachable state.
LEMMA RowsHold ==
  ASSUME FreshCodes, FormatCheck
  PROVE  Spec => []CodesLive
<1>1. Init => CodesLive
  <2> SUFFICES ASSUME Init PROVE CodesLive
    OBVIOUS
  <2>1. IInv
    BY InitHolds
  <2>2. \A k \in Codes : k # All /\ k \in Keys
    BY KeysAssumption DEF Keys, ListKeys
  <2>3. NoCustom
    BY <2>2, IdleTyped DEF Init, NoCustom, Codes, Keys
  <2>4. Used /\ Fresh /\ InsertsDiffer /\ Owned
    BY <2>2, IdleTyped DEF Init, Used, Fresh, Pending, Unknown, InsertsDiffer, Owned
  <2>5. RowsInv
    BY IdleTyped DEF Init, RowsInv, DeletesJustified
  <2> QED BY <2>1, <2>3, <2>4, <2>5 DEF CodesLive, CodesInv
<1>2. CodesLive /\ [Next]_vars => CodesLive'
  BY CodesKept, RowsKept DEF CodesLive
<1> QED BY <1>1, <1>2, PTL DEF Spec

\* Who answers that a link has been created or removed.
LEMMA AnswersEnd ==
  ASSUME IInv, Next, answer'.result \in {"created", "removed"}
  PROVE  \E r \in Reqs : Invalidated(r)
<1>n. NoAnswer.result = "none"
  BY DEF NoAnswer
<1>1. ASSUME NEW r \in Reqs, NEW result, Answer(r, result) PROVE answer'.result = result
  BY <1>1 DEF Answer
<1>2. ASSUME NEW r \in Reqs, NEW value, NEW typed, Found(r, value, typed)
      PROVE  answer'.result \in {"none", "listed", "found", "not found", "refused"}
  <2> DEFINE q == [req[r] EXCEPT !.value = value]
             found == IF typed /\ isExpired(value) THEN "not found" ELSE "found"
  <2>1. \/ answer' = NoAnswer
        \/ answer' = [result |-> "listed", key |-> q.key, value |-> value]
        \/ answer' = [result |-> found, key |-> q.key, value |-> value]
        \/ answer' = [result |-> "refused", key |-> q.key, value |-> value]
    BY <1>2, Zenon DEF Found
  <2>2. found \in {"not found", "found"}
    OBVIOUS
  <2> HIDE DEF q, found
  <2>3. ASSUME NEW result, NEW key, answer' = [result |-> result, key |-> key, value |-> value]
        PROVE  answer'.result = result
    BY <2>3
  <2>4. answer'.result \in {"none", "listed", "refused", found}
    BY <1>n, <2>1, <2>3, Zenon
  <2> QED BY <2>2, <2>4
<1>3. ASSUME NEW r \in Reqs, Begin(r) \/ Continue(r) \/ FailAlone(r), ~Invalidated(r) PROVE FALSE
  <2>1. CASE create(r) \/ createRetries(r) \/ updateExists(r)
    BY <1>n, <1>1, <2>1 DEF create, createRetries, updateExists
  <2>2. CASE findOne(r) \/ findAll(r) \/ findByUser(r) \/ remove(r)
    BY <1>n, <2>2 DEF findOne, findAll, findByUser, remove, Start
  <2>3. CASE update(r)
    <3>1. ASSUME NEW key, answer' = [result |-> "bad format", key |-> key, value |-> Nothing]
          PROVE  FALSE
      BY <3>1
    <3>2. answer' = NoAnswer \/ \E key : answer' = [result |-> "bad format", key |-> key, value |-> Nothing]
      BY <2>3 DEF update, Start
    <3> QED BY <1>n, <3>1, <3>2
  <2>4. CASE getFromCache(r) \/ setCache(r)
    BY <1>n, <1>2, <2>4 DEF getFromCache, setCache, Cached
  <2>5. CASE select(r)
    BY <1>n, <1>1, <2>5 DEF select
  <2>6. CASE Recorded(r) \/ Expired(r) \/ Failed(r) \/ FailAlone(r)
    BY <1>n, <1>1, <2>6 DEF Recorded, Expired, Failed, FailAlone
  <2> QED BY <1>3, <2>1, <2>2, <2>3, <2>4, <2>5, <2>6 DEF Begin, Continue
<1>4. ASSUME NEW c \in commands, Deliver(c) \/ Fail(c) PROVE FALSE
  BY <1>n, <1>4 DEF Deliver, Fail
<1>5. ASSUME Tick \/ Crash \/ \E key \in Keys : CacheExpires(key) PROVE FALSE
  BY <1>n, <1>5 DEF Tick, Crash, CacheExpires
<1> QED BY <1>3, <1>4, <1>5 DEF Next, Continue

\* What is answered at the end is true.
AnswersTrue == CreatedIsStored /\ RemovedIsGone

\* In every reachable state.
LEMMA AnswersHold ==
  ASSUME FreshCodes, FormatCheck
  PROVE  Spec => []AnswersTrue
<1>1. Init => AnswersTrue
  BY DEF Init, NoAnswer, AnswersTrue, CreatedIsStored, RemovedIsGone
<1>2. CodesLive /\ AnswersTrue /\ [Next]_vars => AnswersTrue'
  <2> SUFFICES ASSUME CodesLive, AnswersTrue, [Next]_vars PROVE AnswersTrue'
    OBVIOUS
  <2>1. CASE UNCHANGED vars
    BY <2>1 DEF vars, AnswersTrue, CreatedIsStored, RemovedIsGone, Overdue
  <2>2. CASE Next
    <3> SUFFICES ASSUME answer'.result \in {"created", "removed"} PROVE AnswersTrue'
      BY DEF AnswersTrue, CreatedIsStored, RemovedIsGone
    <3>1. IInv /\ RowsInv
      BY DEF CodesLive, CodesInv
    <3>2. PICK r \in Reqs : Invalidated(r)
      BY <2>2, <3>1, AnswersEnd
    <3>3. /\ req[r].pc = "invalidate" /\ \A c \in commands : c.by # r
          /\ answer'.key = req[r].key /\ answer'.value = req[r].value
          /\ answer'.result = "created" => req[r].op = "create"
          /\ answer'.result = "removed" => req[r].op = "remove"
          /\ UNCHANGED <<link, asked, now>>
      BY <3>2 DEF Invalidated, Answer, Settled
    <3> QED
      BY <3>1, <3>3
         DEF RowsInv, Created, Removed, AnswersTrue, CreatedIsStored, RemovedIsGone, Overdue
  <2> QED BY <2>1, <2>2
<1> QED BY <1>1, <1>2, RowsHold, PTL DEF Spec

\* When POST /urls answers, the link is in the table, unless its removal was granted or it has
\* expired, however many attempts failed half-way (urls.service.ts:80-98).
THEOREM CreatedLinksAreStored ==
  ASSUME FreshCodes, FormatCheck
  PROVE  Spec => []CreatedIsStored
<1>1. AnswersTrue => CreatedIsStored
  BY DEF AnswersTrue
<1> QED BY <1>1, AnswersHold, PTL

\* When DELETE answers, the link is not in the table (urls.service.ts:199-226).
THEOREM RemovedLinksAreGone ==
  ASSUME FreshCodes, FormatCheck
  PROVE  Spec => []RemovedIsGone
<1>1. AnswersTrue => RemovedIsGone
  BY DEF AnswersTrue
<1> QED BY <1>1, AnswersHold, PTL

\* A row leaves the table only if it has expired or its removal was granted, whatever the
\* lookups that were on their way had found (urls.service.ts:121-124).
THEOREM LiveLinksStay ==
  ASSUME FreshCodes, FormatCheck
  PROVE  Spec => NoLiveLinkVanishes
<1>1. CodesLive /\ [Next]_vars =>
        [\A k \in Codes : link[k] # Nothing /\ link'[k] = Nothing =>
           Overdue(link[k]) \/ k \in asked]_vars
  <2> SUFFICES ASSUME CodesLive, Next, NEW k \in Codes, link[k] # Nothing, link'[k] = Nothing
               PROVE  Overdue(link[k]) \/ k \in asked
    OBVIOUS
  <2>1. CodesInv /\ DeletesJustified /\ TInv /\ Sent
    BY DEF CodesLive, CodesInv, RowsInv, IInv
  <2>2. \A r \in Reqs : ~(Begin(r) \/ Continue(r) \/ FailAlone(r))
    BY <2>1, RequestMoves DEF Moves
  <2>3. PICK c \in commands : Deliver(c) \/ Fail(c)
    BY <2>2 DEF Next, CacheExpires, Tick, Crash
  <2>4. Execute(c) \/ UNCHANGED link
    BY <2>3 DEF Deliver, Fail
  <2>5. Doomed(k) \/ Unknown(k)
    BY <2>1, <2>4, ExecuteKeeps
  <2> QED BY <2>5 DEF Doomed, Unknown
<1> QED BY <1>1, RowsHold, PTL DEF Spec, NoLiveLinkVanishes
=============================================================================
