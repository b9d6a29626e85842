--------------------------- MODULE RateLimitGuard ---------------------------
(***************************************************************************)
(* The rate limiter in front of UrlsController:                            *)
(* src/src/common/guards/rate-limit.guard.ts over Redis INCR and EXPIRE.   *)
(*                                                                         *)
(* canActivate suspends twice.  It INCRs a counter that is named by the    *)
(* client address and the route's path, EXPIREs the key if the counter     *)
(* came back as 1, and only then compares the value it got with the limit  *)
(* of the handler.  Any number of requests, of any number of application   *)
(* instances, are between these steps at once; Redis executes each command *)
(* atomically and drops a key whose time to live has passed.  When a       *)
(* connection breaks, ioredis sends the commands that have no answer again *)
(* (autoResendUnfulfilledCommands, on unless redis.service.ts turns it     *)
(* off): Redis can execute a command twice that returns once and normally. *)
(*                                                                         *)
(* Time is abstracted: a key that has a time to live may expire at any     *)
(* moment, a key that has none never does.                                 *)
(***************************************************************************)
EXTENDS Integers, FiniteSets

CONSTANTS
  Requests,    \* every HTTP request the guard ever sees
  Ips,         \* client addresses, request.ip
  Handlers,    \* the controller's methods
  Paths,       \* route paths
  RoutePath,   \* the path of a handler's route; the HTTP method is no part of it
  Limit,       \* RateLimitOptions.limit of each handler
  MaxFaults    \* bound on failed and repeated Redis commands and process crashes

ASSUME RoutesAssumption == RoutePath \in [Handlers -> Paths]
ASSUME LimitAssumption  == Limit \in [Handlers -> Nat \ {0}]
ASSUME FaultsAssumption == MaxFaults \in Nat

VARIABLES
  \* Redis
  count,       \* the counter stored at a key, 0 when the key does not exist
  ttl,         \* whether the key has a time to live
  \* the requests in flight
  req,         \* who asks for what; fixed when the request is made
  pc,          \* where canActivate is suspended, or how it ended
  current,     \* the value that INCR gave the request (0: none)
  \* history
  window,      \* how many times the key has expired so far
  win,         \* the window in which the request was counted
  lost,        \* values of INCRs whose answer was lost and that were sent again
  again,       \* keys of which an EXPIRE was sent again
  faults

vars == <<count, ttl, req, pc, current, window, win, lost, again, faults>>

Keys == [ip : Ips, endpoint : Paths]

\* `ratelimit:${ip}:${endpoint}`
Key(r) == [ip |-> req[r].ip, endpoint |-> RoutePath[req[r].handler]]

Outcomes == {"admitted", "throttled", "error"}
\* Waiting for INCR or EXPIRE, which may have been sent before.
Incrementing == {"arriving", "incrAgain"}
Expiring     == {"expire", "expireAgain"}
States       == Incrementing \cup Expiring \cup {"decide"} \cup Outcomes

\* A value that a counter reached in one of its windows.
Values == [key : Keys, win : Nat, value : Nat]

TypeOK ==
  /\ count   \in [Keys -> Nat]
  /\ ttl     \in [Keys -> BOOLEAN]
  /\ req     \in [Requests -> [ip : Ips, handler : Handlers]]
  /\ pc      \in [Requests -> States]
  /\ current \in [Requests -> Nat]
  /\ window  \in [Keys -> Nat]
  /\ win     \in [Requests -> Nat]
  /\ lost    \subseteq Values
  /\ again   \subseteq Keys
  /\ faults  \in 0..MaxFaults

Init ==
  /\ count   = [k \in Keys |-> 0]
  /\ ttl     = [k \in Keys |-> FALSE]
  /\ req     \in [Requests -> [ip : Ips, handler : Handlers]]
  /\ pc      = [r \in Requests |-> "arriving"]
  /\ current = [r \in Requests |-> 0]
  /\ window  = [k \in Keys |-> 0]
  /\ win     = [r \in Requests |-> 0]
  /\ lost = {} /\ again = {}
  /\ faults  = 0

-----------------------------------------------------------------------------
(* canActivate *)

\* Redis executes INCR for r: the key is created if it does not exist.
Counted(r) ==
  /\ count'   = [count EXCEPT ![Key(r)] = @ + 1]
  /\ current' = [current EXCEPT ![r] = count[Key(r)] + 1]
  /\ win'     = [win EXCEPT ![r] = window[Key(r)]]

\* The slip of arming the key for the second request too.
Incr_ArmsTwice(r) ==
  /\ pc[r] \in Incrementing
  /\ Counted(r)
  /\ pc' = [pc EXCEPT ![r] = IF count[Key(r)] + 1 <= 2 THEN "expire" ELSE "decide"]
  /\ UNCHANGED <<ttl, req, window, lost, again, faults>>

\* const current = await incr(key); only the first of a window goes to EXPIRE
Incr(r) ==
  /\ pc[r] \in Incrementing
  /\ Counted(r)
  /\ pc' = [pc EXCEPT ![r] = IF count[Key(r)] + 1 = 1 THEN "expire" ELSE "decide"]
  /\ UNCHANGED <<ttl, req, window, lost, again, faults>>

\* The slip of never setting the time to live.
Expire_Forgotten(r) ==
  /\ pc[r] \in Expiring
  /\ pc' = [pc EXCEPT ![r] = "decide"]
  /\ UNCHANGED <<count, ttl, req, current, window, win, lost, again, faults>>

\* await expire(key, window): a no-op if the key does not exist
Expire(r) ==
  /\ pc[r] \in Expiring
  /\ ttl' = [ttl EXCEPT ![Key(r)] = count[Key(r)] > 0]
  /\ pc'  = [pc EXCEPT ![r] = "decide"]
  /\ UNCHANGED <<count, req, current, window, win, lost, again, faults>>

\* The slip of comparing with the limit off by one, in each direction.
Decide_OneMore(r) ==
  /\ pc[r] = "decide"
  /\ pc' = [pc EXCEPT ![r] = IF current[r] > Limit[req[r].handler] + 1
                             THEN "throttled" ELSE "admitted"]
  /\ UNCHANGED <<count, ttl, req, current, window, win, lost, again, faults>>

Decide_OneLess(r) ==
  /\ pc[r] = "decide"
  /\ pc' = [pc EXCEPT ![r] = IF current[r] >= Limit[req[r].handler]
                             THEN "throttled" ELSE "admitted"]
  /\ UNCHANGED <<count, ttl, req, current, window, win, lost, again, faults>>

\* The slip of giving a refused request's count back: the key may have expired by then.
Decide_GivesBack(r) ==
  /\ pc[r] = "decide"
  /\ LET refused == current[r] > Limit[req[r].handler]
     IN  /\ pc' = [pc EXCEPT ![r] = IF refused THEN "throttled" ELSE "admitted"]
         /\ count' = [count EXCEPT ![Key(r)] = IF refused THEN @ - 1 ELSE @]
  /\ UNCHANGED <<ttl, req, current, window, win, lost, again, faults>>

\* if (current > limit) throw new ThrottlerException(...); return true
Decide(r) ==
  /\ pc[r] = "decide"
  /\ pc' = [pc EXCEPT ![r] = IF current[r] > Limit[req[r].handler]
                             THEN "throttled" ELSE "admitted"]
  /\ UNCHANGED <<count, ttl, req, current, window, win, lost, again, faults>>

\* INCR rejects, whether or not Redis executed it: the request ends with a 500.
IncrFails(r) ==
  /\ faults < MaxFaults
  /\ pc[r] \in Incrementing
  /\ Counted(r) \/ UNCHANGED <<count, current, win>>
  /\ pc' = [pc EXCEPT ![r] = "error"]
  /\ faults' = faults + 1
  /\ UNCHANGED <<ttl, req, window, lost, again>>

\* EXPIRE rejects, whether or not Redis executed it: the request ends with a 500.
ExpireFails(r) ==
  /\ faults < MaxFaults
  /\ pc[r] \in Expiring
  /\ \/ ttl' = [ttl EXCEPT ![Key(r)] = count[Key(r)] > 0]
     \/ UNCHANGED ttl
  /\ pc' = [pc EXCEPT ![r] = "error"]
  /\ faults' = faults + 1
  /\ UNCHANGED <<count, req, current, window, win, lost, again>>

\* Redis executes INCR, the answer is lost with the connection, and ioredis sends the
\* command again: the value it had is nobody's.
IncrSentAgain(r) ==
  /\ faults < MaxFaults
  /\ pc[r] \in Incrementing
  /\ count' = [count EXCEPT ![Key(r)] = @ + 1]
  /\ lost'  = lost \cup {[key |-> Key(r), win |-> window[Key(r)], value |-> count[Key(r)] + 1]}
  /\ pc'    = [pc EXCEPT ![r] = "incrAgain"]
  /\ faults' = faults + 1
  /\ UNCHANGED <<ttl, req, current, window, win, again>>

\* The same of EXPIRE.
ExpireSentAgain(r) ==
  /\ faults < MaxFaults
  /\ pc[r] \in Expiring
  /\ ttl'   = [ttl EXCEPT ![Key(r)] = count[Key(r)] > 0]
  /\ again' = again \cup {Key(r)}
  /\ pc'    = [pc EXCEPT ![r] = "expireAgain"]
  /\ faults' = faults + 1
  /\ UNCHANGED <<count, req, current, window, win, lost>>

-----------------------------------------------------------------------------
(* The environment *)

\* Redis drops a key whose time to live has passed.
KeyExpires(k) ==
  /\ ttl[k]
  /\ count'  = [count EXCEPT ![k] = 0]
  /\ ttl'    = [ttl EXCEPT ![k] = FALSE]
  /\ window' = [window EXCEPT ![k] = @ + 1]
  /\ UNCHANGED <<req, pc, current, win, lost, again, faults>>

Suspended(r) == pc[r] \in Expiring \cup {"incrAgain", "decide"}

\* The application process dies; what it had suspended is gone, Redis keeps its keys.
Crash ==
  /\ faults < MaxFaults
  /\ \E r \in Requests : Suspended(r)
  /\ pc' = [r \in Requests |-> IF Suspended(r) THEN "error" ELSE pc[r]]
  /\ faults' = faults + 1
  /\ UNCHANGED <<count, ttl, req, current, window, win, lost, again>>

Next ==
  \/ \E r \in Requests : Incr(r) \/ Expire(r) \/ Decide(r)
  \/ \E r \in Requests : IncrFails(r) \/ ExpireFails(r) \/ IncrSentAgain(r) \/ ExpireSentAgain(r)
  \/ \E k \in Keys : KeyExpires(k)
  \/ Crash

Spec == Init /\ [][Next]_vars

-----------------------------------------------------------------------------
(* Properties *)

CountedIn(k, w) == {r \in Requests : current[r] > 0 /\ Key(r) = k /\ win[r] = w}
LostIn(k, w)    == {l \in lost : l.key = k /\ l.win = w}

\* The requests of handler h that client address i got through in window w.
Admitted(i, h, w) ==
  {r \in Requests : pc[r] = "admitted" /\ req[r] = [ip |-> i, handler |-> h] /\ win[r] = w}

\* However the guard's steps interleave, and whatever fails, a handler never admits
\* more than its limit of requests from one address between two expirations of the
\* counter (rate-limit.guard.ts:25-34).
QuotaPerWindow ==
  \A i \in Ips, h \in Handlers :
    \A w \in 0..window[[ip |-> i, endpoint |-> RoutePath[h]]] :
      Cardinality(Admitted(i, h, w)) <= Limit[h]

\* A request is refused only if Redis had counted the handler's whole limit for the key
\* in the same window before it: each of these counts is that of another request, whatever
\* failed, or of an INCR that was executed twice, whose first value nobody got
\* (rate-limit.guard.ts:25, 30; redis.service.ts:15-20).
RefusedOnlyWhenSpent ==
  \A r \in Requests : pc[r] = "throttled" =>
    Limit[req[r].handler] <=
      Cardinality({q \in CountedIn(Key(r), win[r]) : current[q] < current[r]})
        + Cardinality({l \in LostIn(Key(r), win[r]) : l.value < current[r]})

\* An EXPIRE that has not reached Redis yet will hit the very window its request
\* opened, and no one has armed it before: no request can stretch or cut the window of
\* others, unless an EXPIRE of the key was executed, lost its answer and was sent again
\* (rate-limit.guard.ts:26-28).
ExpireHitsItsOwnWindow ==
  \A r \in Requests : pc[r] = "expire" /\ Key(r) \notin again =>
    /\ win[r] = window[Key(r)]
    /\ count[Key(r)] > 0
    /\ ~ttl[Key(r)]

\* A counter without a time to live is about to get one from the request that opened its
\* window, or that very request failed or had its INCR executed twice: no order of
\* requests, and no failure of any other, leaves a counter that never expires
\* (rate-limit.guard.ts:25-28).
CountersEnd ==
  \A k \in Keys : count[k] > 0 /\ ~ttl[k] =>
    \/ \E r \in CountedIn(k, window[k]) : current[r] = 1 /\ pc[r] \in {"expire", "error"}
    \/ \E l \in LostIn(k, window[k]) : l.value = 1
=============================================================================
