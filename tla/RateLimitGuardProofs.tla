------------------------ MODULE RateLimitGuardProofs ------------------------
(***************************************************************************)
(* The quota of RateLimitGuard, for any number of requests, addresses,     *)
(* handlers and faults.  The argument: INCR hands out each value of a      *)
(* window once, an admitted request holds a value of 1..limit, so the      *)
(* admitted requests of one window inject into 1..limit.                   *)
(***************************************************************************)
EXTENDS RateLimitGuard, FiniteSetTheorems, TLAPS

\* A counted request belongs to a window its key has reached, and holds a value the
\* counter has reached in that window.
Reached ==
  \A r \in Requests : current[r] > 0 =>
    /\ win[r] <= window[Key(r)]
    /\ win[r] = window[Key(r)] => current[r] <= count[Key(r)]

\* No two requests hold the same value of the same window.
DistinctValues ==
  \A r, q \in Requests :
    r # q /\ current[r] > 0 /\ current[q] > 0 /\ Key(r) = Key(q) /\ win[r] = win[q]
      => current[r] # current[q]

\* What the program counter of a request says about the value it holds.
Progress ==
  \A r \in Requests :
    /\ pc[r] \in Incrementing => current[r] = 0
    /\ pc[r] \in Expiring => current[r] = 1
    /\ pc[r] = "expireAgain" => Key(r) \in again
    /\ pc[r] = "decide"   => current[r] > 0
    /\ pc[r] = "admitted" => current[r] \in 1..Limit[req[r].handler]

\* Only a key that exists has a time to live.
ArmedExists == \A k \in Keys : ttl[k] => count[k] > 0

\* Finitely many answers have been lost.
FewLost == IsFiniteSet(lost)

IInv ==
  /\ TypeOK
  /\ FewLost
  /\ Reached
  /\ DistinctValues
  /\ Progress
  /\ ArmedExists
  /\ ExpireHitsItsOwnWindow

-----------------------------------------------------------------------------

\* The guard's key is a Redis key.
LEMMA KeyType ==
  ASSUME TypeOK, NEW r \in Requests
  PROVE  Key(r) \in Keys
BY RoutesAssumption DEF TypeOK, Key, Keys

\* The invariant holds before the first request.
LEMMA InitIInv == Init => IInv
<1> SUFFICES ASSUME Init PROVE IInv
  OBVIOUS
<1>1. TypeOK
  BY FaultsAssumption DEF Init, TypeOK, States, Incrementing, Expiring, Outcomes
<1>2. Reached /\ DistinctValues /\ Progress /\ ArmedExists /\ ExpireHitsItsOwnWindow
  BY DEF Init, Reached, DistinctValues, Progress, Incrementing, Expiring, ArmedExists,
         ExpireHitsItsOwnWindow
<1>3. FewLost
  BY FS_EmptySet DEF Init, FewLost
<1> QED
  BY <1>1, <1>2, <1>3 DEF IInv

\* INCR preserves the shape of the state and the history of the values.
LEMMA CountedStep ==
  ASSUME IInv, NEW r \in Requests, pc[r] \in Incrementing, Counted(r),
         ttl' = ttl, req' = req, window' = window
  PROVE  /\ Key(r) \in Keys
         /\ \A q \in Requests : Key(q)' = Key(q)
         /\ count'   \in [Keys -> Nat]
         /\ current' \in [Requests -> Nat]
         /\ win'     \in [Requests -> Nat]
         /\ current'[r] = count[Key(r)] + 1
         /\ win'[r] = window[Key(r)]
         /\ \A q \in Requests \ {r} : current'[q] = current[q] /\ win'[q] = win[q]
         /\ Reached'
         /\ DistinctValues'
         /\ ArmedExists'
<1> USE DEF IInv
<1>1. Key(r) \in Keys /\ \A q \in Requests : Key(q) \in Keys /\ Key(q)' = Key(q)
  BY KeyType DEF Key
<1>2. /\ count'   \in [Keys -> Nat]
      /\ current' \in [Requests -> Nat]
      /\ win'     \in [Requests -> Nat]
  BY <1>1 DEF Counted, TypeOK
<1>3. /\ current'[r] = count[Key(r)] + 1
      /\ win'[r] = window[Key(r)]
      /\ \A q \in Requests \ {r} : current'[q] = current[q] /\ win'[q] = win[q]
      /\ count'[Key(r)] = count[Key(r)] + 1
      /\ \A k \in Keys \ {Key(r)} : count'[k] = count[k]
  BY <1>1 DEF Counted, TypeOK
<1>4. Reached'
  <2> SUFFICES ASSUME NEW q \in Requests, current'[q] > 0
               PROVE  /\ win'[q] <= window[Key(q)]
                      /\ win'[q] = window[Key(q)] => current'[q] <= count'[Key(q)]
    BY <1>1 DEF Reached
  <2>1. CASE q = r
    BY <2>1, <1>1, <1>3 DEF TypeOK
  <2>2. CASE q # r
    BY <2>2, <1>1, <1>3 DEF TypeOK, Reached
  <2> QED
    BY <2>1, <2>2
<1>5. DistinctValues'
  <2> SUFFICES ASSUME NEW p \in Requests, NEW q \in Requests, p # q,
                      current'[p] > 0, current'[q] > 0, Key(p) = Key(q), win'[p] = win'[q]
               PROVE  current'[p] # current'[q]
    BY <1>1 DEF DistinctValues
  <2>1. CASE p # r /\ q # r
    BY <2>1, <1>3 DEF DistinctValues
  <2>2. ASSUME NEW o \in Requests, o # r, current'[o] > 0, Key(o) = Key(r), win'[o] = win'[r]
        PROVE  current'[o] < current'[r]
    BY <2>2, <1>1, <1>3 DEF Reached, TypeOK
  <2> QED
    BY <2>1, <2>2, <1>2
<1>6. ArmedExists'
  BY <1>1, <1>3 DEF ArmedExists, TypeOK
<1> QED
  BY <1>1, <1>2, <1>3, <1>4, <1>5, <1>6

\* Every step of the guard, of Redis and of a crash preserves the invariant.
LEMMA NextIInv == IInv /\ [Next]_vars => IInv'
<1> SUFFICES ASSUME IInv, [Next]_vars PROVE IInv'
  OBVIOUS
<1> USE FaultsAssumption DEF IInv, Incrementing, Expiring
<1>k. \A r \in Requests : Key(r) \in Keys
  BY KeyType
<1>l. IsFiniteSet(lost)
  BY DEF FewLost
<1>1. ASSUME NEW r \in Requests, Incr(r) PROVE IInv'
  <2>1. /\ Reached' /\ DistinctValues' /\ ArmedExists'
        /\ \A q \in Requests : Key(q)' = Key(q)
        /\ count' \in [Keys -> Nat] /\ current' \in [Requests -> Nat] /\ win' \in [Requests -> Nat]
        /\ current'[r] = count[Key(r)] + 1
        /\ win'[r] = window[Key(r)]
        /\ \A q \in Requests \ {r} : current'[q] = current[q] /\ win'[q] = win[q]
    BY <1>1, CountedStep DEF Incr
  <2>2. TypeOK' /\ FewLost'
    BY <1>1, <2>1, <1>l DEF Incr, TypeOK, States, FewLost, Keys, Values
  <2>3. Progress'
    BY <1>1, <2>1, <1>k DEF Incr, Progress, TypeOK
  <2>4. ExpireHitsItsOwnWindow'
    <3> SUFFICES ASSUME NEW q \in Requests, pc'[q] = "expire", Key(q) \notin again
                 PROVE  win'[q] = window[Key(q)] /\ count'[Key(q)] > 0 /\ ~ttl[Key(q)]
      BY <1>1, <2>1 DEF ExpireHitsItsOwnWindow, Incr
    <3>1. CASE q # r
      <4>1. pc[q] = "expire" /\ win'[q] = win[q] /\ Key(q) \in Keys
        BY <3>1, <1>1, <2>1, <1>k DEF Incr, TypeOK
      <4>2. win[q] = window[Key(q)] /\ count[Key(q)] > 0 /\ ~ttl[Key(q)]
        BY <4>1 DEF ExpireHitsItsOwnWindow
      <4>3. count'[Key(q)] > 0
        BY <4>1, <4>2, <1>1, <1>k DEF Incr, Counted, TypeOK
      <4> QED
        BY <4>1, <4>2, <4>3
    <3>2. CASE q = r
      <4>1. count[Key(r)] = 0 /\ count'[Key(r)] = 1
        <5>1. count[Key(r)] \in Nat /\ count'[Key(r)] = count[Key(r)] + 1
          BY <1>1, <1>k DEF Incr, Counted, TypeOK
        <5>2. count[Key(r)] + 1 = 1
          BY <3>2, <1>1 DEF Incr, TypeOK
        <5> QED
          BY <5>1, <5>2
      <4>2. ~ttl[Key(r)]
        BY <4>1, <1>k DEF ArmedExists
      <4> QED
        BY <3>2, <2>1, <4>1, <4>2
    <3> QED
      BY <3>1, <3>2
  <2> QED
    BY <2>1, <2>2, <2>3, <2>4
<1>2. ASSUME NEW r \in Requests, IncrFails(r) PROVE IInv'
  <2>1. CASE Counted(r)
    <3>1. /\ Reached' /\ DistinctValues' /\ ArmedExists'
          /\ \A q \in Requests : Key(q)' = Key(q)
          /\ count' \in [Keys -> Nat] /\ current' \in [Requests -> Nat] /\ win' \in [Requests -> Nat]
          /\ \A q \in Requests \ {r} : current'[q] = current[q] /\ win'[q] = win[q]
      BY <1>2, <2>1, CountedStep DEF IncrFails
    <3>2. TypeOK' /\ FewLost'
      <4>1. faults' \in 0..MaxFaults
        BY <1>2 DEF IncrFails, TypeOK
      <4>2. pc' \in [Requests -> States]
        BY <1>2 DEF IncrFails, TypeOK, States, Outcomes
      <4>3. UNCHANGED <<ttl, req, window, lost, again>>
        BY <1>2 DEF IncrFails
      <4> QED
        BY <3>1, <4>1, <4>2, <4>3 DEF TypeOK, FewLost, Keys, Values
    <3>3. Progress'
      BY <1>2, <3>1 DEF IncrFails, Progress, TypeOK
    <3>4. ExpireHitsItsOwnWindow'
      BY <1>2, <2>1, <3>1, <1>k DEF IncrFails, Counted, TypeOK, ExpireHitsItsOwnWindow
    <3> QED
      BY <3>1, <3>2, <3>3, <3>4
  <2>2. CASE UNCHANGED <<count, current, win>>
    <3>1. \A q \in Requests : Key(q)' = Key(q)
      BY <1>2 DEF IncrFails, Key
    <3>2. TypeOK' /\ FewLost'
      <4>1. faults' \in 0..MaxFaults /\ pc' \in [Requests -> States]
        BY <1>2 DEF IncrFails, TypeOK, States, Outcomes
      <4>2. UNCHANGED <<count, current, win, ttl, req, window, lost, again>>
        BY <1>2, <2>2 DEF IncrFails
      <4> QED
        BY <4>1, <4>2 DEF TypeOK, FewLost, Keys, Values
    <3>3. Reached' /\ DistinctValues' /\ ArmedExists'
      BY <1>2, <2>2, <3>1 DEF IncrFails, Reached, DistinctValues, ArmedExists
    <3>4. Progress' /\ ExpireHitsItsOwnWindow'
      BY <1>2, <2>2, <3>1 DEF IncrFails, Progress, TypeOK, ExpireHitsItsOwnWindow
    <3> QED
      BY <3>2, <3>3, <3>4
  <2> QED
    BY <1>2, <2>1, <2>2 DEF IncrFails
<1>3. ASSUME NEW r \in Requests, pc[r] \in Expiring,
             UNCHANGED <<count, req, current, window, win, lost>>,
             ttl' = [ttl EXCEPT ![Key(r)] = count[Key(r)] > 0] \/ UNCHANGED ttl,
             again \subseteq again', again' \subseteq Keys,
             NEW s \in {"decide", "error", "expireAgain"},
             pc' = [pc EXCEPT ![r] = s],
             s = "expireAgain" => Key(r) \in again',
             faults' \in 0..MaxFaults
      PROVE  IInv'
  <2>1. \A q \in Requests : Key(q)' = Key(q)
    BY <1>3 DEF Key
  <2>2. TypeOK' /\ FewLost'
    <3>1. pc' \in [Requests -> States]
      BY <1>3 DEF TypeOK, States, Outcomes
    <3>2. ttl' \in [Keys -> BOOLEAN]
      <4>1. (count[Key(r)] > 0) \in BOOLEAN
        OBVIOUS
      <4> QED
        BY <1>3, <1>k, <4>1, Zenon DEF TypeOK
    <3> QED
      BY <1>3, <3>1, <3>2 DEF TypeOK, FewLost, Keys, Values
  <2>3. Reached' /\ DistinctValues'
    BY <1>3, <2>1 DEF Reached, DistinctValues
  <2>4. Progress'
    <3> SUFFICES ASSUME NEW q \in Requests
                 PROVE  /\ pc'[q] \in Incrementing => current[q] = 0
                        /\ pc'[q] \in Expiring => current[q] = 1
                        /\ pc'[q] = "expireAgain" => Key(q) \in again'
                        /\ pc'[q] = "decide"   => current[q] > 0
                        /\ pc'[q] = "admitted" => current[q] \in 1..Limit[req[q].handler]
      BY <1>3, <2>1 DEF Progress
    <3>1. CASE q # r
      BY <3>1, <1>3 DEF Progress, TypeOK
    <3>2. CASE q = r
      BY <3>2, <1>3 DEF Progress, TypeOK
    <3> QED
      BY <3>1, <3>2
  <2>5. ArmedExists'
    BY <1>3, <1>k DEF ArmedExists, TypeOK
  <2>6. ExpireHitsItsOwnWindow'
    <3> SUFFICES ASSUME NEW q \in Requests, pc'[q] = "expire", Key(q) \notin again'
                 PROVE  win[q] = window[Key(q)] /\ count[Key(q)] > 0 /\ ~ttl'[Key(q)]
      BY <1>3, <2>1 DEF ExpireHitsItsOwnWindow
    <3>1. q # r /\ pc[q] = "expire" /\ Key(q) \notin again
      BY <1>3 DEF TypeOK
    <3>2. Key(q) # Key(r)
      <4> SUFFICES ASSUME Key(q) = Key(r) PROVE FALSE
        OBVIOUS
      <4>1. pc[r] = "expire"
        BY <3>1, <1>3 DEF Progress
      <4>2. win[q] = win[r] /\ current[q] = 1 /\ current[r] = 1
        BY <3>1, <4>1 DEF Progress, ExpireHitsItsOwnWindow
      <4> QED
        BY <3>1, <4>2 DEF DistinctValues
    <3>3. ttl'[Key(q)] = ttl[Key(q)]
      BY <3>2, <1>3, <1>k DEF TypeOK
    <3> QED
      BY <3>1, <3>3 DEF ExpireHitsItsOwnWindow
  <2> QED
    BY <2>2, <2>3, <2>4, <2>5, <2>6
<1>4. ASSUME NEW r \in Requests, Expire(r) PROVE IInv'
  <2>1. faults' \in 0..MaxFaults /\ again' \subseteq Keys
    BY <1>4 DEF Expire, TypeOK
  <2> QED
    BY <1>3, <1>4, <2>1 DEF Expire
<1>5. ASSUME NEW r \in Requests, ExpireFails(r) PROVE IInv'
  <2>1. faults' \in 0..MaxFaults /\ again' \subseteq Keys
    BY <1>5 DEF ExpireFails, TypeOK
  <2> QED
    BY <1>3, <1>5, <2>1 DEF ExpireFails
<1>a. ASSUME NEW r \in Requests, ExpireSentAgain(r) PROVE IInv'
  <2>1. faults' \in 0..MaxFaults /\ again' \subseteq Keys
    BY <1>a, <1>k DEF ExpireSentAgain, TypeOK
  <2> QED
    BY <1>3, <1>a, <2>1 DEF ExpireSentAgain
<1>b. ASSUME NEW r \in Requests, IncrSentAgain(r) PROVE IInv'
  <2>1. /\ \A q \in Requests : Key(q)' = Key(q)
        /\ UNCHANGED <<ttl, req, current, window, win, again>>
        /\ \A q \in Requests : pc'[q] = pc[q] \/ (q = r /\ pc'[q] = "incrAgain")
    BY <1>b DEF IncrSentAgain, Key, TypeOK
  <2>2. \A k \in Keys : count'[k] >= count[k]
    BY <1>b, <1>k DEF IncrSentAgain, TypeOK
  <2>3. TypeOK' /\ FewLost'
    <3>1. faults' \in 0..MaxFaults /\ pc' \in [Requests -> States] /\ count' \in [Keys -> Nat]
      BY <1>b, <1>k DEF IncrSentAgain, TypeOK, States, Outcomes
    <3>2. window[Key(r)] \in Nat /\ count[Key(r)] + 1 \in Nat
      BY <1>k DEF TypeOK
    <3> DEFINE v == [key |-> Key(r), win |-> window[Key(r)], value |-> count[Key(r)] + 1]
    <3>3. v \in Values
      BY <3>2, <1>k DEF Values
    <3>4. lost' = lost \cup {v}
      BY <1>b DEF IncrSentAgain
    <3> HIDE DEF v
    <3>5. IsFiniteSet(lost')
      BY <3>4, <1>l, FS_AddElement
    <3>6. lost' \subseteq Values
      BY <3>3, <3>4 DEF TypeOK
    <3> QED
      BY <2>1, <3>1, <3>5, <3>6 DEF TypeOK, FewLost, Keys, Values
  <2>4. Reached'
    <3> SUFFICES ASSUME NEW q \in Requests, current[q] > 0
                 PROVE  /\ win[q] <= window[Key(q)]
                        /\ win[q] = window[Key(q)] => current[q] <= count'[Key(q)]
      BY <2>1 DEF Reached
    <3>1. count[Key(q)] \in Nat /\ count'[Key(q)] \in Nat /\ current[q] \in Nat
      BY <2>3, <1>k DEF TypeOK
    <3> QED
      BY <3>1, <2>2, <1>k DEF Reached
  <2>5. DistinctValues'
    BY <2>1 DEF DistinctValues
  <2>6. ArmedExists'
    <3> SUFFICES ASSUME NEW k \in Keys, ttl[k] PROVE count'[k] > 0
      BY <2>1 DEF ArmedExists
    <3>1. count[k] \in Nat /\ count'[k] \in Nat
      BY <2>3 DEF TypeOK
    <3> QED
      BY <3>1, <2>2 DEF ArmedExists
  <2>7. Progress'
    <3> SUFFICES ASSUME NEW q \in Requests
                 PROVE  /\ pc'[q] \in Incrementing => current[q] = 0
                        /\ pc'[q] \in Expiring => current[q] = 1
                        /\ pc'[q] = "expireAgain" => Key(q) \in again
                        /\ pc'[q] = "decide"   => current[q] > 0
                        /\ pc'[q] = "admitted" => current[q] \in 1..Limit[req[q].handler]
      BY <2>1 DEF Progress
    <3>1. CASE pc'[q] = pc[q]
      BY <3>1 DEF Progress
    <3>2. CASE q = r /\ pc'[q] = "incrAgain"
      BY <3>2, <1>b DEF Progress, IncrSentAgain
    <3> QED
      BY <2>1, <3>1, <3>2
  <2>8. ExpireHitsItsOwnWindow'
    <3> SUFFICES ASSUME NEW q \in Requests, pc[q] = "expire", Key(q) \notin again
                 PROVE  win[q] = window[Key(q)] /\ count'[Key(q)] > 0 /\ ~ttl[Key(q)]
      BY <2>1 DEF ExpireHitsItsOwnWindow
    <3>1. count[Key(q)] \in Nat /\ count'[Key(q)] \in Nat
      BY <2>3, <1>k DEF TypeOK
    <3> QED
      BY <3>1, <2>2, <1>k DEF ExpireHitsItsOwnWindow
  <2> QED
    BY <2>3, <2>4, <2>5, <2>6, <2>7, <2>8
<1>6. ASSUME NEW r \in Requests, Decide(r) PROVE IInv'
  <2>1. \A q \in Requests : Key(q)' = Key(q)
    BY <1>6 DEF Decide, Key
  <2>2. TypeOK' /\ FewLost'
    <3>1. pc' \in [Requests -> States]
      BY <1>6 DEF Decide, TypeOK, States, Outcomes
    <3>2. UNCHANGED <<count, ttl, req, current, window, win, lost, again, faults>>
      BY <1>6 DEF Decide
    <3> QED
      BY <3>1, <3>2 DEF TypeOK, FewLost, Keys, Values
  <2>3. Reached' /\ DistinctValues' /\ ArmedExists'
    BY <1>6, <2>1 DEF Decide, Reached, DistinctValues, ArmedExists
  <2>4. Progress'
    <3> SUFFICES ASSUME NEW q \in Requests
                 PROVE  /\ pc'[q] \in Incrementing => current[q] = 0
                        /\ pc'[q] \in Expiring => current[q] = 1
                        /\ pc'[q] = "expireAgain" => Key(q) \in again
                        /\ pc'[q] = "decide"   => current[q] > 0
                        /\ pc'[q] = "admitted" => current[q] \in 1..Limit[req[q].handler]
      BY <1>6, <2>1 DEF Decide, Progress
    <3>1. CASE q # r
      BY <3>1, <1>6 DEF Decide, Progress, TypeOK
    <3>2. CASE q = r
      <4>1. current[r] \in Nat /\ current[r] > 0 /\ Limit[req[r].handler] \in Nat
        BY <1>6, LimitAssumption DEF Decide, Progress, TypeOK
      <4>2. pc'[r] = IF current[r] > Limit[req[r].handler] THEN "throttled" ELSE "admitted"
        BY <1>6 DEF Decide, TypeOK
      <4> QED
        BY <3>2, <4>1, <4>2
    <3> QED
      BY <3>1, <3>2
  <2>5. ExpireHitsItsOwnWindow'
    <3>1. ASSUME NEW q \in Requests, pc'[q] = "expire" PROVE pc[q] = "expire"
      <4>1. pc' = [pc EXCEPT ![r] = "throttled"] \/ pc' = [pc EXCEPT ![r] = "admitted"]
        BY <1>6 DEF Decide
      <4>2. pc \in [Requests -> States]
        BY DEF TypeOK
      <4> QED
        BY <3>1, <4>1, <4>2
    <3>2. UNCHANGED <<count, ttl, window, win, again>>
      BY <1>6 DEF Decide
    <3> QED
      BY <2>1, <3>1, <3>2 DEF ExpireHitsItsOwnWindow
  <2> QED
    BY <2>2, <2>3, <2>4, <2>5
<1>7. ASSUME NEW k \in Keys, KeyExpires(k) PROVE IInv'
  <2>1. \A q \in Requests : Key(q)' = Key(q)
    BY <1>7 DEF KeyExpires, Key
  <2>2. TypeOK' /\ FewLost'
    <3>1. count' \in [Keys -> Nat] /\ ttl' \in [Keys -> BOOLEAN] /\ window' \in [Keys -> Nat]
      BY <1>7 DEF KeyExpires, TypeOK
    <3>2. UNCHANGED <<req, pc, current, win, lost, again, faults>>
      BY <1>7 DEF KeyExpires
    <3> QED
      BY <3>1, <3>2 DEF TypeOK, FewLost, Keys, Values
  <2>3. Reached'
    BY <1>7, <2>1, <1>k DEF KeyExpires, Reached, TypeOK
  <2>4. DistinctValues' /\ Progress'
    BY <1>7, <2>1 DEF KeyExpires, DistinctValues, Progress
  <2>5. ArmedExists'
    BY <1>7 DEF KeyExpires, ArmedExists, TypeOK
  <2>6. ExpireHitsItsOwnWindow'
    BY <1>7, <2>1, <1>k DEF KeyExpires, ExpireHitsItsOwnWindow, TypeOK
  <2> QED
    BY <2>2, <2>3, <2>4, <2>5, <2>6
<1>8. CASE Crash
  <2>1. \A q \in Requests : Key(q)' = Key(q)
    BY <1>8 DEF Crash, Key
  <2>2. TypeOK' /\ FewLost'
    <3>1. faults' \in 0..MaxFaults /\ pc' \in [Requests -> States]
      BY <1>8 DEF Crash, TypeOK, States, Outcomes
    <3>2. UNCHANGED <<count, ttl, req, current, window, win, lost, again>>
      BY <1>8 DEF Crash
    <3> QED
      BY <3>1, <3>2 DEF TypeOK, FewLost, Keys, Values
  <2>3. Reached' /\ DistinctValues' /\ ArmedExists'
    BY <1>8, <2>1 DEF Crash, Reached, DistinctValues, ArmedExists
  <2>4. Progress' /\ ExpireHitsItsOwnWindow'
    BY <1>8, <2>1 DEF Crash, Suspended, Progress, ExpireHitsItsOwnWindow, TypeOK
  <2> QED
    BY <2>2, <2>3, <2>4
<1>9. CASE UNCHANGED vars
  <2>1. \A q \in Requests : Key(q)' = Key(q)
    BY <1>9 DEF vars, Key
  <2> QED
    BY <1>9, <2>1 DEF vars, TypeOK, FewLost, Keys, Values, Reached, DistinctValues, Progress,
                      ArmedExists, ExpireHitsItsOwnWindow
<1> QED
  BY <1>1, <1>2, <1>4, <1>5, <1>6, <1>7, <1>8, <1>9, <1>a, <1>b DEF Next

\* Counting: requests that hold distinct values of 1..limit are at most limit many.
LEMMA QuotaFromIInv == IInv => QuotaPerWindow
<1> SUFFICES ASSUME IInv, NEW i \in Ips, NEW h \in Handlers, NEW w \in Nat
             PROVE  Cardinality(Admitted(i, h, w)) <= Limit[h]
  BY RoutesAssumption DEF QuotaPerWindow, IInv, TypeOK, Keys
<1> DEFINE S == Admitted(i, h, w)
           f == [r \in S |-> current[r]]
<1>1. Limit[h] \in Nat
  BY LimitAssumption
<1>2. \A r \in S : f[r] \in 1..Limit[h]
  BY DEF Admitted, IInv, Progress
<1>3. ASSUME NEW r \in S, NEW q \in S, f[r] = f[q] PROVE r = q
  <2>1. r \in Requests /\ q \in Requests /\ Key(r) = Key(q) /\ win[r] = win[q]
    BY DEF Admitted, Key
  <2>2. current[r] > 0 /\ current[q] > 0 /\ current[r] = current[q]
    BY <1>1, <1>2, <1>3
  <2> QED
    BY <2>1, <2>2 DEF IInv, DistinctValues
<1>4. f \in Injection(S, 1..Limit[h])
  <2>1. f \in [S -> 1..Limit[h]]
    BY <1>2
  <2>2. \A r, q \in S : f[r] = f[q] => r = q
    BY <1>3
  <2> HIDE DEF f, S
  <2> QED
    BY <2>1, <2>2 DEF Injection, IsInjective
<1>5. IsFiniteSet(1..Limit[h]) /\ Cardinality(1..Limit[h]) = Limit[h]
  <2> DEFINE n == Limit[h]
  <2>1. n \in Nat
    BY <1>1
  <2> HIDE DEF n, S, f
  <2>2. IsFiniteSet(1..n) /\ Cardinality(1..n) = n
    BY <2>1, FS_Interval
  <2> QED
    BY <2>2 DEF n
<1>6. IsFiniteSet(S) /\ Cardinality(S) <= Cardinality(1..Limit[h])
  BY <1>4, <1>5, FS_Injection
<1> QED
  BY <1>5, <1>6

\* The request that opened the present window of k and has not armed it.
Opener(q, k)  == Key(q) = k /\ win[q] = window[k] /\ current[q] = 1 /\ pc[q] \in {"expire", "error"}
OpenedFor(l, k) == l.key = k /\ l.win = window[k] /\ l.value = 1

Opened(k) == (\E q \in Requests : Opener(q, k)) \/ (\E l \in lost : OpenedFor(l, k))

\* Somebody opened the window of every unarmed counter.
AllOpened == \A k \in Keys : count[k] > 0 /\ ~ttl[k] => Opened(k)

\* It is what CountersEnd says.
LEMMA CountersEndOpened == AllOpened => CountersEnd
<1> SUFFICES ASSUME NEW k \in Keys, Opened(k)
             PROVE  \/ \E r \in CountedIn(k, window[k]) : current[r] = 1 /\ pc[r] \in {"expire", "error"}
                    \/ \E l \in LostIn(k, window[k]) : l.value = 1
  BY DEF AllOpened, CountersEnd
<1>1. ASSUME NEW q \in Requests, Opener(q, k) PROVE q \in CountedIn(k, window[k])
  BY <1>1 DEF Opener, CountedIn
<1>2. ASSUME NEW l \in lost, OpenedFor(l, k) PROVE l \in LostIn(k, window[k])
  BY <1>2 DEF OpenedFor, LostIn
<1> QED
  BY <1>1, <1>2 DEF Opened, Opener, OpenedFor

\* Who opened a window stays its opener as long as it neither arms the key nor retires.
LEMMA OpenedStays ==
  ASSUME NEW k \in Keys, Opened(k), window'[k] = window[k], lost \subseteq lost',
         \A q \in Requests : Key(q)' = Key(q),
         \A q \in Requests : Opener(q, k) =>
            win'[q] = win[q] /\ current'[q] = current[q] /\ pc'[q] \in {"expire", "error"}
  PROVE  Opened(k)'
<1>1. CASE \E q \in Requests : Opener(q, k)
  BY <1>1 DEF Opened, Opener
<1>2. CASE \E l \in lost : OpenedFor(l, k)
  BY <1>2 DEF Opened, OpenedFor
<1> QED
  BY <1>1, <1>2 DEF Opened

\* A step that counts a key for the first time leaves an EXPIRE pending, fails, or has its
\* INCR executed again; the one that executes the EXPIRE arms the key.
LEMMA CountersEndKept == IInv /\ AllOpened /\ [Next]_vars => AllOpened'
<1> SUFFICES ASSUME IInv, AllOpened, [Next]_vars,
                    NEW k \in Keys, count'[k] > 0, ~ttl'[k]
             PROVE  Opened(k)'
  BY DEF AllOpened
<1> USE DEF IInv
<1>k. \A r \in Requests : Key(r) \in Keys
  BY KeyType
<1>o. count[k] > 0 /\ ~ttl[k] => Opened(k)
  BY DEF AllOpened
<1>n. count[k] \in Nat /\ window[k] \in Nat
  BY DEF TypeOK
<1>1. ASSUME NEW r \in Requests, pc[r] \in Incrementing, Counted(r),
             NEW s \in {"expire", "error", "decide"}, pc' = [pc EXCEPT ![r] = s],
             count[Key(r)] = 0 => s \in {"expire", "error"},
             UNCHANGED <<ttl, req, window, lost>>
      PROVE  Opened(k)'
  <2>1. /\ \A q \in Requests : Key(q)' = Key(q)
        /\ \A q \in Requests \ {r} : pc'[q] = pc[q] /\ win'[q] = win[q] /\ current'[q] = current[q]
    BY <1>1 DEF Counted, Key, TypeOK
  <2>2. CASE Key(r) = k /\ count[k] = 0
    <3>1. current'[r] = 1 /\ win'[r] = window[k] /\ pc'[r] \in {"expire", "error"}
      BY <1>1, <2>2 DEF Counted, TypeOK
    <3> QED
      BY <1>1, <2>1, <2>2, <3>1 DEF Opened, Opener
  <2>3. CASE count[k] > 0
    <3>1. Opened(k)
      BY <1>1, <1>o, <2>3
    <3>2. \A q \in Requests : Opener(q, k) => q # r
      BY <1>1 DEF Opener, Progress
    <3> QED
      BY <1>1, <2>1, <3>1, <3>2, OpenedStays DEF Opener
  <2>4. count[k] > 0 \/ (Key(r) = k /\ count[k] = 0)
    BY <1>1, <1>k, <1>n DEF Counted, TypeOK
  <2> QED
    BY <2>2, <2>3, <2>4
<1>2. ASSUME NEW r \in Requests, pc[r] \in Expiring,
             UNCHANGED <<count, req, current, window, win, lost>>,
             NEW s, pc' = [pc EXCEPT ![r] = s],
             \/ ttl' = [ttl EXCEPT ![Key(r)] = count[Key(r)] > 0]
             \/ UNCHANGED ttl /\ s = "error"
      PROVE  Opened(k)'
  <2>1. /\ \A q \in Requests : Key(q)' = Key(q)
        /\ \A q \in Requests \ {r} : pc'[q] = pc[q]
    BY <1>2 DEF Key, TypeOK
  <2>2. pc'[r] = s
    BY <1>2 DEF TypeOK
  <2>3. CASE UNCHANGED ttl /\ s = "error"
    <3>1. Opened(k)
      BY <1>2, <1>o, <2>3
    <3> QED
      BY <1>2, <2>1, <2>2, <2>3, <3>1, OpenedStays DEF Opener
  <2>4. CASE ttl' = [ttl EXCEPT ![Key(r)] = count[Key(r)] > 0]
    <3>1. Key(r) # k
      BY <1>2, <2>4 DEF TypeOK
    <3>2. ~ttl[k]
      BY <2>4, <3>1, <1>k DEF TypeOK
    <3>3. Opened(k)
      BY <1>2, <1>o, <3>2
    <3> QED
      BY <1>2, <2>1, <3>1, <3>3, OpenedStays DEF Opener
  <2> QED
    BY <1>2, <2>3, <2>4
<1>3. ASSUME NEW r \in Requests, IncrSentAgain(r) PROVE Opened(k)'
  <2>1. /\ \A q \in Requests : Key(q)' = Key(q)
        /\ UNCHANGED <<ttl, current, window, win>>
        /\ lost \subseteq lost'
        /\ \A q \in Requests \ {r} : pc'[q] = pc[q]
    BY <1>3 DEF IncrSentAgain, Key, TypeOK
  <2>2. CASE Key(r) = k /\ count[k] = 0
    <3>1. [key |-> k, win |-> window[k], value |-> 1] \in lost'
      BY <1>3, <2>2 DEF IncrSentAgain
    <3> QED
      BY <2>1, <3>1 DEF Opened, OpenedFor
  <2>3. CASE count[k] > 0
    <3>1. Opened(k)
      BY <1>o, <2>1, <2>3
    <3>2. \A q \in Requests : Opener(q, k) => q # r
      BY <1>3 DEF Opener, Progress, IncrSentAgain
    <3> QED
      BY <2>1, <3>1, <3>2, OpenedStays DEF Opener
  <2>4. count[k] > 0 \/ (Key(r) = k /\ count[k] = 0)
    BY <1>3, <1>k, <1>n DEF IncrSentAgain, TypeOK
  <2> QED
    BY <2>2, <2>3, <2>4
<1>4. ASSUME UNCHANGED <<count, ttl, req, current, win, window, lost>>,
             \A q \in Requests : pc[q] \in {"expire", "error"} => pc'[q] \in {"expire", "error"}
      PROVE  Opened(k)'
  <2>1. \A q \in Requests : Key(q)' = Key(q)
    BY <1>4 DEF Key
  <2> QED
    BY <1>4, <1>o, <2>1, OpenedStays DEF Opener
<1>5. ASSUME NEW j \in Keys, KeyExpires(j) PROVE Opened(k)'
  <2>1. \A q \in Requests : Key(q)' = Key(q)
    BY <1>5 DEF KeyExpires, Key
  <2>2. j # k
    BY <1>5 DEF KeyExpires, TypeOK
  <2>3. count[k] > 0 /\ ~ttl[k] /\ window'[k] = window[k]
    BY <1>5, <2>2 DEF KeyExpires, TypeOK
  <2> QED
    BY <1>5, <1>o, <2>1, <2>3, OpenedStays DEF KeyExpires, Opener
<1>6. ASSUME NEW r \in Requests, Incr(r) PROVE Opened(k)'
  <2> USE <1>6 DEF Incr
  <2>1. CASE count[Key(r)] + 1 = 1
    <3>1. pc' = [pc EXCEPT ![r] = "expire"]
      BY <2>1
    <3> QED
      BY <1>1, <3>1
  <2>2. CASE count[Key(r)] + 1 # 1
    <3>1. pc' = [pc EXCEPT ![r] = "decide"] /\ count[Key(r)] # 0
      BY <2>2
    <3> QED
      BY <1>1, <3>1
  <2> QED
    BY <2>1, <2>2
<1>7. ASSUME NEW r \in Requests, IncrFails(r) PROVE Opened(k)'
  <2>1. CASE Counted(r)
    BY <1>1, <1>7, <2>1 DEF IncrFails
  <2>2. CASE UNCHANGED <<count, current, win>>
    BY <1>4, <1>7, <2>2 DEF IncrFails, TypeOK
  <2> QED
    BY <1>7, <2>1, <2>2 DEF IncrFails
<1>8. ASSUME NEW r \in Requests, Expire(r) \/ ExpireFails(r) \/ ExpireSentAgain(r)
      PROVE  Opened(k)'
  BY <1>2, <1>8 DEF Expire, ExpireFails, ExpireSentAgain
<1>9. ASSUME NEW r \in Requests, Decide(r) PROVE Opened(k)'
  BY <1>4, <1>9 DEF Decide, TypeOK
<1>a. CASE Crash
  BY <1>4, <1>a DEF Crash, TypeOK
<1>b. CASE UNCHANGED vars
  BY <1>4, <1>b DEF vars
<1> QED
  BY <1>3, <1>5, <1>6, <1>7, <1>8, <1>9, <1>a, <1>b DEF Next

-----------------------------------------------------------------------------
(* The values of a window have no gaps but those of INCRs that were executed twice *)

Holds(q, k, w, v)    == Key(q) = k /\ win[q] = w /\ current[q] = v
WillHold(q, k, w, v) == Key(q)' = k /\ win'[q] = w /\ current'[q] = v

Value(k, w, v) == [key |-> k, win |-> w, value |-> v]

\* A value has been given to a request, or lost with the answer of an INCR.
Taken(k, w, v) == (\E q \in Requests : Holds(q, k, w, v)) \/ Value(k, w, v) \in lost
WillBeTaken(k, w, v) ==
  (\E q \in Requests : WillHold(q, k, w, v)) \/ Value(k, w, v) \in lost'

\* Whatever value a counter has reached, and whatever value a request was given, all the
\* smaller ones are taken in the same window.
NoGaps ==
  /\ \A k \in Keys : \A v \in 1..count[k] : Taken(k, window[k], v)
  /\ \A r \in Requests : \A v \in 1..current[r] : Taken(Key(r), win[r], v)

\* A request is refused on account of the value it was given.
RefusedAbove == \A r \in Requests : pc[r] = "throttled" => current[r] > Limit[req[r].handler]

\* INCR gives out the value that follows, and takes back none.
LEMMA CountedFills ==
  ASSUME IInv, NoGaps, NEW r \in Requests, pc[r] \in Incrementing, Counted(r),
         UNCHANGED <<ttl, req, window, lost>>
  PROVE  NoGaps'
<1> USE DEF IInv, TypeOK
<1>1. /\ Key(r) \in Keys
      /\ \A q \in Requests : Key(q)' = Key(q) /\ Key(q) \in Keys
      /\ current'[r] = count[Key(r)] + 1 /\ win'[r] = window[Key(r)]
      /\ \A q \in Requests \ {r} : current'[q] = current[q] /\ win'[q] = win[q]
  BY CountedStep, KeyType
<1>2. count' = [count EXCEPT ![Key(r)] = count[Key(r)] + 1]
  BY DEF Counted
<1>3. current[r] = 0
  BY DEF Progress
<1>4. ASSUME NEW q \in Requests, NEW k, NEW w, NEW v \in Nat, v > 0, Holds(q, k, w, v)
      PROVE  WillHold(q, k, w, v)
  BY <1>1, <1>3, <1>4 DEF Holds, WillHold
<1>5. WillHold(r, Key(r), window[Key(r)], count[Key(r)] + 1)
  BY <1>1 DEF WillHold
<1>t. ASSUME NEW k, NEW w, NEW v \in Nat, v > 0, Taken(k, w, v) PROVE WillBeTaken(k, w, v)
  BY <1>4, <1>t DEF Taken, WillBeTaken
<1>6. ASSUME NEW v \in 1..(count[Key(r)] + 1)
      PROVE  WillBeTaken(Key(r), window[Key(r)], v)
  <2>1. CASE v = count[Key(r)] + 1
    BY <1>5, <2>1 DEF WillBeTaken
  <2>2. CASE v \in 1..count[Key(r)]
    BY <1>1, <1>t, <2>2 DEF NoGaps
  <2>3. count[Key(r)] \in Nat
    BY <1>1
  <2>4. v \in Int /\ 1 <= v /\ v <= count[Key(r)] + 1
    BY <2>3
  <2>5. v = count[Key(r)] + 1 \/ v \in 1..count[Key(r)]
    <3> DEFINE n == count[Key(r)]
    <3>1. n \in Nat /\ v \in Int /\ 1 <= v /\ v <= n + 1
      BY <2>3, <2>4
    <3> HIDE DEF n
    <3>2. v = n + 1 \/ v \in 1..n
      BY <3>1
    <3> QED BY <3>2 DEF n
  <2> QED BY <2>1, <2>2, <2>5
<1>7. ASSUME NEW k \in Keys, NEW v \in 1..count'[k]
      PROVE  WillBeTaken(k, window[k], v)
  <2>1. CASE k = Key(r)
    BY <1>2, <1>6, <2>1
  <2>2. CASE k # Key(r)
    BY <1>1, <1>2, <1>t, <2>2 DEF NoGaps
  <2> QED BY <2>1, <2>2
<1>8. ASSUME NEW p \in Requests, NEW v \in 1..current'[p]
      PROVE  WillBeTaken(Key(p), win'[p], v)
  <2>1. CASE p = r
    BY <1>1, <1>6, <2>1
  <2>2. CASE p # r
    BY <1>1, <1>t, <2>2 DEF NoGaps
  <2> QED BY <2>1, <2>2
<1> QED BY <1>1, <1>7, <1>8 DEF NoGaps, Holds, WillHold, Taken, WillBeTaken, Value

\* Everything else leaves the values alone; a window that begins anew has given out none.
LEMMA NoGapsKept == IInv /\ NoGaps /\ [Next]_vars => NoGaps'
<1> SUFFICES ASSUME IInv, NoGaps, [Next]_vars PROVE NoGaps'
  OBVIOUS
<1>1. ASSUME NEW r \in Requests, Incr(r) PROVE NoGaps'
  BY <1>1, CountedFills DEF Incr
<1>2. ASSUME NEW r \in Requests, IncrFails(r), Counted(r) PROVE NoGaps'
  BY <1>2, CountedFills DEF IncrFails
<1>3. CASE UNCHANGED <<count, req, current, window, win, lost>>
  BY <1>3 DEF NoGaps, Taken, Holds, Value, Key
<1>4. ASSUME NEW k \in Keys, KeyExpires(k) PROVE NoGaps'
  <2>1. /\ \A q \in Requests : Key(q)' = Key(q)
        /\ UNCHANGED <<current, win, lost>>
        /\ count'[k] = 0
        /\ \A j \in Keys \ {k} : count'[j] = count[j] /\ window'[j] = window[j]
    BY <1>4 DEF KeyExpires, Key, IInv, TypeOK
  <2>2. ASSUME NEW j \in Keys, NEW v \in 1..count'[j] PROVE Taken(j, window'[j], v)
    BY <2>1 DEF NoGaps
  <2> QED BY <2>1, <2>2 DEF NoGaps, Taken, Holds, Value
<1>5. ASSUME NEW r \in Requests, Expire(r) \/ Decide(r) \/ ExpireFails(r) \/ ExpireSentAgain(r)
      PROVE  UNCHANGED <<count, req, current, window, win, lost>>
  BY <1>5 DEF Expire, Decide, ExpireFails, ExpireSentAgain
<1>6. ASSUME NEW r \in Requests, IncrFails(r), ~Counted(r)
      PROVE  UNCHANGED <<count, req, current, window, win, lost>>
  BY <1>6 DEF IncrFails
<1>7. Crash \/ UNCHANGED vars => UNCHANGED <<count, req, current, window, win, lost>>
  BY DEF Crash, vars
<1>8. ASSUME NEW r \in Requests, IncrSentAgain(r) PROVE NoGaps'
  <2> DEFINE n == count[Key(r)]
  <2>1. /\ \A q \in Requests : Key(q)' = Key(q)
        /\ UNCHANGED <<current, win, window>>
        /\ lost' = lost \cup {Value(Key(r), window[Key(r)], n + 1)}
    BY <1>8 DEF IncrSentAgain, Key, Value
  <2>2. n \in Nat /\ count' = [count EXCEPT ![Key(r)] = n + 1]
    BY <1>8, KeyType DEF IncrSentAgain, IInv, TypeOK
  <2>3. ASSUME NEW j, NEW w, NEW v, Taken(j, w, v) PROVE WillBeTaken(j, w, v)
    BY <2>1, <2>3 DEF Taken, WillBeTaken, Holds, WillHold
  <2>4. WillBeTaken(Key(r), window[Key(r)], n + 1)
    BY <2>1 DEF WillBeTaken
  <2>5. ASSUME NEW j \in Keys, NEW v \in 1..count'[j] PROVE WillBeTaken(j, window[j], v)
    <3>1. CASE j = Key(r)
      <4>1. v \in 1..(n + 1)
        BY <2>2, <3>1 DEF IInv, TypeOK
      <4>2. v = n + 1 \/ v \in 1..n
        <5> HIDE DEF n
        <5> QED
          BY <2>2, <4>1
      <4> QED
        BY <2>3, <2>4, <3>1, <4>2 DEF NoGaps
    <3>2. CASE j # Key(r)
      BY <2>2, <2>3, <3>2 DEF NoGaps, IInv, TypeOK
    <3> QED
      BY <3>1, <3>2
  <2>6. ASSUME NEW q \in Requests, NEW v \in 1..current[q] PROVE WillBeTaken(Key(q), win[q], v)
    BY <2>3 DEF NoGaps
  <2> QED
    BY <2>1, <2>5, <2>6 DEF NoGaps, Taken, WillBeTaken, Holds, WillHold, Value
<1> QED BY <1>1, <1>2, <1>3, <1>4, <1>5, <1>6, <1>7, <1>8 DEF Next

\* What a request was given does not change after it is refused.
LEMMA RefusedAboveKept == IInv /\ RefusedAbove /\ [Next]_vars => RefusedAbove'
<1> SUFFICES ASSUME IInv, RefusedAbove, [Next]_vars, NEW r \in Requests, pc'[r] = "throttled"
             PROVE  current'[r] > Limit[req'[r].handler]
  BY DEF RefusedAbove
<1> USE DEF IInv, TypeOK
<1>1. ASSUME NEW q \in Requests, Incr(q) \/ IncrFails(q)
      PROVE  current'[r] > Limit[req'[r].handler]
  <2>1. q # r /\ pc[r] = "throttled" /\ req' = req
    BY <1>1 DEF Incr, IncrFails
  <2>2. current'[r] = current[r]
    BY <1>1, <2>1 DEF Incr, IncrFails, Counted
  <2> QED BY <2>1, <2>2 DEF RefusedAbove
<1>2. ASSUME NEW q \in Requests,
             Expire(q) \/ ExpireFails(q) \/ ExpireSentAgain(q) \/ IncrSentAgain(q)
      PROVE  current'[r] > Limit[req'[r].handler]
  <2>1. pc[r] = "throttled" /\ UNCHANGED <<current, req>>
    BY <1>2 DEF Expire, ExpireFails, ExpireSentAgain, IncrSentAgain
  <2> QED BY <2>1 DEF RefusedAbove
<1>3. ASSUME NEW q \in Requests, Decide(q) PROVE current'[r] > Limit[req'[r].handler]
  BY <1>3 DEF Decide, RefusedAbove
<1>4. CASE Crash \/ UNCHANGED vars \/ \E k \in Keys : KeyExpires(k)
  <2>1. pc[r] = "throttled" /\ UNCHANGED <<current, req>>
    BY <1>4 DEF Crash, vars, KeyExpires
  <2> QED BY <2>1 DEF RefusedAbove
<1> QED BY <1>1, <1>2, <1>3, <1>4 DEF Next

\* Counting: below a value of more than the limit lie as many values as the limit, each
\* given to a request or lost.
LEMMA SpentFromNoGaps == IInv /\ NoGaps /\ RefusedAbove => RefusedOnlyWhenSpent
<1> DEFINE n(r) == Limit[req[r].handler]
           S(r) == {q \in CountedIn(Key(r), win[r]) : current[q] < current[r]}
           L(r) == {l \in LostIn(Key(r), win[r]) : l.value < current[r]}
<1> SUFFICES ASSUME IInv, NoGaps, RefusedAbove, NEW r \in Requests, pc[r] = "throttled"
             PROVE  n(r) <= Cardinality(S(r)) + Cardinality(L(r))
  BY DEF RefusedOnlyWhenSpent
<1> DEFINE m == n(r)
           T == S(r)
           M == L(r)
           Held  == {v \in 1..m : \E q \in T : current[q] = v}
           Other == (1..m) \ Held
<1>1. m \in Nat /\ current[r] \in Nat /\ m < current[r]
  BY LimitAssumption DEF IInv, TypeOK, RefusedAbove
<1>2. IsFiniteSet(T)
  <2> DEFINE f == [q \in T |-> current[q]]
  <2>1. \A q \in T : f[q] \in 1..(current[r] - 1)
    BY <1>1 DEF CountedIn, IInv, TypeOK
  <2>2. ASSUME NEW p \in T, NEW q \in T, f[p] = f[q] PROVE p = q
    <3>1. /\ p \in Requests /\ q \in Requests /\ Key(p) = Key(q) /\ win[p] = win[q]
          /\ current[p] > 0 /\ current[q] > 0 /\ current[p] = current[q]
      BY <2>2 DEF CountedIn
    <3> QED BY <3>1 DEF IInv, DistinctValues
  <2>3. f \in Injection(T, 1..(current[r] - 1))
    BY <2>1, <2>2 DEF Injection, IsInjective
  <2>4. IsFiniteSet(1..(current[r] - 1))
    BY <1>1, FS_Interval
  <2> HIDE DEF f, T
  <2> QED BY <2>3, <2>4, FS_Injection
<1>3. IsFiniteSet(M)
  <2>1. M \subseteq lost /\ IsFiniteSet(lost)
    BY DEF LostIn, IInv, FewLost
  <2> HIDE DEF M
  <2> QED BY <2>1, FS_Subset
<1>4. IsFiniteSet(1..m) /\ Cardinality(1..m) = m
  <2> HIDE DEF m
  <2> QED BY <1>1, FS_Interval
<1>5. Cardinality(Held) <= Cardinality(T)
  <2> DEFINE g == [v \in Held |-> CHOOSE q \in T : current[q] = v]
  <2>1. \A v \in Held : g[v] \in T /\ current[g[v]] = v
    <3> HIDE DEF T
    <3> QED OBVIOUS
  <2> HIDE DEF g, T, Held
  <2>2. g \in [Held -> T]
    <3> USE DEF g
    <3> QED BY <2>1
  <2>3. g \in Injection(Held, T)
    BY <2>1, <2>2 DEF Injection, IsInjective
  <2> QED BY <1>2, <2>3, FS_Injection
<1>6. Cardinality(Other) <= Cardinality(M)
  <2> DEFINE h == [v \in Other |-> Value(Key(r), win[r], v)]
  <2>1. ASSUME NEW v \in Other PROVE h[v] \in M
    <3>1. v \in 1..m /\ ~\E q \in T : current[q] = v
      OBVIOUS
    <3>2. v \in 1..current[r] /\ v < current[r] /\ v > 0
      <4> HIDE DEF m
      <4> QED BY <1>1, <3>1
    <3>3. ~\E q \in Requests : Holds(q, Key(r), win[r], v)
      <4> SUFFICES ASSUME NEW q \in Requests, Holds(q, Key(r), win[r], v) PROVE FALSE
        OBVIOUS
      <4>1. q \in T /\ current[q] = v
        BY <3>2 DEF Holds, CountedIn
      <4> QED BY <3>1, <4>1
    <3>4. Value(Key(r), win[r], v) \in lost
      BY <3>2, <3>3 DEF NoGaps, Taken
    <3>5. Value(Key(r), win[r], v) \in M
      BY <3>2, <3>4 DEF LostIn, Value
    <3> QED BY <3>5
  <2>2. \A v, w \in Other : h[v] = h[w] => v = w
    BY DEF Value
  <2>3. h \in [Other -> M]
    BY <2>1
  <2> HIDE DEF h, Other, M
  <2>4. h \in Injection(Other, M)
    BY <2>2, <2>3 DEF Injection, IsInjective
  <2> QED BY <1>3, <2>4, FS_Injection
<1>7. Cardinality(1..m) = Cardinality(Held) + Cardinality(Other)
  <2>1. Held \subseteq 1..m
    OBVIOUS
  <2>2. IsFiniteSet(Held) /\ IsFiniteSet(Other)
    <3> HIDE DEF Held, m
    <3> QED BY <1>4, <2>1, FS_Subset, FS_Difference
  <2>3. Held \cap Other = {} /\ Held \cup Other = 1..m
    <3> HIDE DEF Held, m
    <3> QED BY <2>1
  <2> HIDE DEF Held, Other, m
  <2>4. Cardinality(Held \cup Other) =
          Cardinality(Held) + Cardinality(Other) - Cardinality(Held \cap Other)
    BY <2>2, FS_Union
  <2>5. Cardinality(Held) \in Nat /\ Cardinality(Other) \in Nat
    BY <2>2, FS_CardinalityType
  <2>6. Cardinality(Held \cap Other) = 0
    BY <2>3, FS_EmptySet
  <2>7. Cardinality(1..m) = Cardinality(Held \cup Other)
    BY <2>3, Zenon
  <2> QED BY <2>4, <2>5, <2>6, <2>7
<1>8. /\ Cardinality(Held) \in Int /\ Cardinality(Other) \in Int
      /\ Cardinality(T) \in Int /\ Cardinality(M) \in Int
  <2>1. Held \subseteq 1..m /\ Other \subseteq 1..m
    OBVIOUS
  <2> HIDE DEF Held, Other, T, M, m
  <2>2. IsFiniteSet(Held) /\ IsFiniteSet(Other)
    BY <1>4, <2>1, FS_Subset
  <2>3. Cardinality(Held) \in Nat /\ Cardinality(Other) \in Nat
    BY <2>2, FS_CardinalityType
  <2>4. Cardinality(T) \in Nat /\ Cardinality(M) \in Nat
    BY <1>2, <1>3, FS_CardinalityType
  <2> QED BY <2>3, <2>4
<1> HIDE DEF Held, Other, T, M, m
<1>9. m <= Cardinality(T) + Cardinality(M)
  BY <1>1, <1>4, <1>5, <1>6, <1>7, <1>8
<1> QED BY <1>9 DEF T, M, m

-----------------------------------------------------------------------------

\* The inductive invariant holds in every reachable state.
THEOREM Invariance == Spec => []IInv
BY InitIInv, NextIInv, PTL DEF Spec

\* Counters, requests and windows keep their types (rate-limit.guard.ts:16-34).
THEOREM TypeCorrectness == Spec => []TypeOK
<1>1. IInv => TypeOK
  BY DEF IInv
<1> QED
  BY <1>1, Invariance, PTL

\* No handler admits more than its limit of requests from one address in one window of
\* the counter, for any number of concurrent requests and any number of failures
\* (rate-limit.guard.ts:25-34).
THEOREM Quota == Spec => []QuotaPerWindow
BY Invariance, QuotaFromIInv, PTL

\* A pending EXPIRE always hits the unarmed window its own request opened
\* (rate-limit.guard.ts:26-28).
THEOREM ExpireIsPrivate == Spec => []ExpireHitsItsOwnWindow
<1>1. IInv => ExpireHitsItsOwnWindow
  BY DEF IInv
<1> QED
  BY <1>1, Invariance, PTL

\* A counter without a time to live is about to get one from the request that opened its
\* window, unless that very request failed or had its INCR executed twice, for any number
\* of requests and faults (rate-limit.guard.ts:25-28).
THEOREM CountersAreArmed == Spec => []CountersEnd
<1>1. Init => AllOpened
  BY DEF Init, AllOpened
<1> QED
  BY <1>1, Invariance, CountersEndKept, CountersEndOpened, PTL DEF Spec

\* Nobody is refused before the limit is spent: a request is throttled only if its key
\* has already counted the whole limit of its handler in the same window, for other
\* requests or by an INCR that was executed twice, for any number of requests, failed or
\* repeated commands and crashes (rate-limit.guard.ts:25, 30).
THEOREM RefusedWhenSpent == Spec => []RefusedOnlyWhenSpent
<1>1. Init => NoGaps /\ RefusedAbove
  BY DEF Init, NoGaps, RefusedAbove
<1> QED
  BY <1>1, Invariance, NoGapsKept, RefusedAboveKept, SpentFromNoGaps, PTL DEF Spec
=============================================================================
