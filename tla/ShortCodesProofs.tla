-------------------------- MODULE ShortCodesProofs --------------------------
(***************************************************************************)
(* Proofs about ShortCodes, for any generator, any size of a batch and any *)
(* number of requests and attempts: the pool hands nothing out twice, and  *)
(* has a code for everyone as long as a turn wakes no more requests than a *)
(* batch has codes.                                                        *)
(***************************************************************************)
EXTENDS ShortCodes, FiniteSetTheorems, SequenceTheorems, TLAPS

USE PoolAssumption

\* Two codes that are equal come from two batches.
Apart(one, two) == one.code = two.code => one.batch # two.batch

\* The pool and what was given of it: nothing is there twice, and the batches have been
\* finished.
PoolApart ==
  /\ \A i, j \in DOMAIN codePool : i # j => Apart(codePool[i], codePool[j])
  /\ \A i \in DOMAIN codePool : codePool[i].batch <= batches

GivenApart ==
  /\ \A r, s \in Requests : \A i \in DOMAIN given[r], j \in DOMAIN given[s] :
       <<r, i>> # <<s, j>> /\ given[r][i] # NoItem /\ given[s][j] # NoItem
         => Apart(given[r][i], given[s][j])
  /\ \A r \in Requests : \A i \in DOMAIN given[r] :
       given[r][i] # NoItem =>
         /\ given[r][i].batch <= batches
         /\ \A j \in DOMAIN codePool : Apart(given[r][i], codePool[j])

BatchApart ==
  \A r \in Fillers : \A i, j \in DOMAIN batch[r] : i # j => batch[r][i] # batch[r][j]

\* The requests of this turn that have popped
Popped == {r \in turn : phase[r] = "inserting"}

\* Only the requests of this turn are running, and one that has filled the pool finds a
\* code there unless the others of its turn have taken a whole batch.
Served ==
  /\ \A r \in Requests : Running(r) => r \in turn
  /\ \A r \in Requests : phase[r] = "filled" => Len(codePool) + Cardinality(Popped) >= BATCH_SIZE
  /\ PopServes

-----------------------------------------------------------------------------
(* What the operations do to the pool *)

\* Two sequences of one kind are joined.
LEMMA Joined ==
  ASSUME NEW S, NEW p \in Seq(S), NEW q \in Seq(S)
  PROVE  p \o q \in Seq(S) /\ Len(p \o q) = Len(p) + Len(q)
BY ConcatProperties

\* pop() takes the last element and leaves the others where they are.
LEMMA PopSeq ==
  ASSUME NEW S, NEW q \in Seq(S), q # <<>>
  PROVE  LET p == SubSeq(q, 1, Len(q) - 1)
         IN  /\ Len(q) \in Nat \ {0}
             /\ p \in Seq(S) /\ Len(p) = Len(q) - 1
             /\ DOMAIN p = 1..(Len(q) - 1) /\ DOMAIN q = 1..Len(q)
             /\ \A i \in DOMAIN p : p[i] = q[i]
             /\ q[Len(q)] \in S
<1>1. Len(q) \in Nat \ {0} /\ DOMAIN q = 1..Len(q) /\ q[Len(q)] \in S
  BY EmptySeq, LenProperties, ElementOfSeq
<1> DEFINE p == SubSeq(q, 1, Len(q) - 1)
<1>2. \A i \in 1..(Len(q) - 1) : q[i] \in S
  BY <1>1, ElementOfSeq
<1>3. p = [i \in 1..(Len(q) - 1) |-> q[i]]
  BY <1>1
<1>4. p \in Seq(S) /\ Len(p) = Len(q) - 1
  BY <1>1, <1>2, SubSeqProperties
<1>5. DOMAIN p = 1..(Len(q) - 1) /\ \A i \in DOMAIN p : p[i] = q[i]
  BY <1>3
<1> QED BY <1>1, <1>4, <1>5

\* push() puts the batch behind what is there, with a number no batch has had.
LEMMA PushSeq ==
  ASSUME codePool \in Seq(Items), batches \in Nat, NEW b \in Seq(ShortCodes)
  PROVE  LET p == codePool \o Stamped(b)
             n == Len(codePool)
         IN  /\ n \in Nat /\ Len(b) \in Nat
             /\ Stamped(b) \in Seq(Items)
             /\ p \in Seq(Items) /\ Len(p) = n + Len(b)
             /\ DOMAIN p = 1..(n + Len(b)) /\ DOMAIN codePool = 1..n /\ DOMAIN b = 1..Len(b)
             /\ \A i \in 1..n : p[i] = codePool[i]
             /\ \A i \in 1..Len(b) : p[n + i] = [code |-> b[i], batch |-> batches + 1]
<1> DEFINE s == Stamped(b)
<1>1. DOMAIN b = 1..Len(b) /\ Len(b) \in Nat /\ \A i \in 1..Len(b) : b[i] \in ShortCodes
  BY LenProperties, ElementOfSeq
<1>2. s = [i \in 1..Len(b) |-> [code |-> b[i], batch |-> batches + 1]]
  BY <1>1 DEF Stamped
<1>3. \A i \in 1..Len(b) : s[i] \in Items
  BY <1>1, <1>2 DEF Items
<1>4. s \in Seq(Items) /\ Len(s) = Len(b)
  BY <1>1, <1>2, <1>3, IsASeq
<1>5. DOMAIN codePool = 1..Len(codePool) /\ Len(codePool) \in Nat
  BY LenProperties
<1> HIDE DEF s
<1>6. codePool \o s \in Seq(Items) /\ Len(codePool \o s) = Len(codePool) + Len(b)
  <2>1. codePool \o s \in Seq(Items) /\ Len(codePool \o s) = Len(codePool) + Len(s)
    BY <1>4, Joined
  <2> QED BY <1>4, <2>1
<1>7. DOMAIN (codePool \o s) = 1..(Len(codePool) + Len(b))
  BY <1>6, LenProperties
<1>8. \A i \in 1..Len(codePool) : (codePool \o s)[i] = codePool[i]
  BY <1>1, <1>4, <1>5, ConcatProperties
<1>9. \A i \in 1..Len(b) : (codePool \o s)[Len(codePool) + i] = s[i]
  BY <1>1, <1>4, <1>5, ConcatProperties
<1> QED BY <1>1, <1>2, <1>4, <1>5, <1>6, <1>7, <1>8, <1>9 DEF s

-----------------------------------------------------------------------------
(* Types *)

\* The initial state has the right types.
LEMMA TypeStarts == Init => TypeOK
  BY EmptySeq DEF Init, TypeOK, Fillers, Phases, Items

\* So has what a pop leads to.
LEMMA PopKeepsType ==
  ASSUME TypeOK, NEW r \in Requests, Pop(r), Len(given[r]) < RETRY_ATTEMPTS
  PROVE  TypeOK'
<1> DEFINE x == IF codePool = <<>> THEN NoItem ELSE codePool[Len(codePool)]
<1>1. codePool' \in Seq(Items) /\ x \in Items \cup {NoItem}
  <2>1. CASE codePool = <<>>
    BY <2>1, EmptySeq DEF Pop
  <2>2. CASE codePool # <<>>
    <3>1. codePool \in Seq(Items)
      BY DEF TypeOK
    <3> QED BY <2>2, <3>1, PopSeq DEF Pop
  <2> QED BY <2>1, <2>2
<1>2. given' = [given EXCEPT ![r] = Append(@, x)]
  BY DEF Pop
<1> HIDE DEF x
<1>3. given[r] \in Seq(Items \cup {NoItem})
  BY DEF TypeOK
<1>4. Append(given[r], x) \in Seq(Items \cup {NoItem}) /\ Len(Append(given[r], x)) = Len(given[r]) + 1
  BY <1>1, <1>3, AppendProperties
<1>5. Len(given[r]) + 1 <= RETRY_ATTEMPTS
  BY <1>3, LenProperties
<1>6. given' \in [Requests -> Seq(Items \cup {NoItem})]
  BY <1>2, <1>4 DEF TypeOK
<1>7. \A s \in Requests : Len(given'[s]) <= RETRY_ATTEMPTS
  BY <1>2, <1>4, <1>5 DEF TypeOK
<1>8. phase' \in [Fillers -> Phases]
  BY DEF TypeOK, Pop, Fillers, Phases
<1>9. UNCHANGED <<batch, batches, turn>>
  BY DEF Pop
<1> QED BY <1>1, <1>6, <1>7, <1>8, <1>9 DEF TypeOK

\* A request that runs has an attempt left.
AttemptLeft == \A r \in Requests : Running(r) => Len(given[r]) < RETRY_ATTEMPTS

TypeInv == TypeOK /\ AttemptLeft

\* Every operation keeps the types, and an attempt for each request that runs.
LEMMA TypeStep == TypeInv /\ [Next]_vars => TypeInv'
<1> SUFFICES ASSUME TypeInv, [Next]_vars PROVE TypeInv'
  OBVIOUS
<1>1. TypeOK /\ AttemptLeft
  BY DEF TypeInv
<1>2. ASSUME NEW r \in Requests, Unsafe(r) \/ Created(r) PROVE TypeInv'
  BY <1>1, <1>2 DEF Unsafe, Created, TypeInv, TypeOK, AttemptLeft, Running, Phases, Fillers
<1>3. ASSUME NEW S \in SUBSET Requests, Wake(S) PROVE TypeInv'
  <2>1. \A r \in S : phase[r] # "filling"
    BY <1>3 DEF Wake
  <2> QED BY <1>1, <1>3 DEF Wake, TypeInv, TypeOK, AttemptLeft, Running, Quiet, Phases, Fillers
<1>4. ASSUME NEW r \in Requests, Pop(r), Running(r) PROVE TypeInv'
  <2>1. TypeOK'
    BY <1>1, <1>4, PopKeepsType DEF AttemptLeft
  <2>2. phase' = [phase EXCEPT ![r] = "inserting"]
    BY <1>4 DEF Pop
  <2>3. \A s \in Requests \ {r} : given'[s] = given[s]
    BY <1>1, <1>4 DEF Pop, TypeOK
  <2>4. AttemptLeft'
    BY <1>1, <2>2, <2>3 DEF AttemptLeft, Running, TypeOK, Fillers
  <2> QED BY <2>1, <2>4 DEF TypeInv
<1>5. ASSUME NEW r \in Requests, getNextCode(r) PROVE TypeInv'
  <2>1. CASE Pop(r)
    BY <1>4, <1>5, <2>1 DEF getNextCode, Running
  <2>2. CASE codePool = <<>> /\ phase' = [phase EXCEPT ![r] = "filling"]
             /\ UNCHANGED <<codePool, batch, given, batches, turn>>
    BY <1>1, <1>5, <2>2
    DEF getNextCode, TypeInv, TypeOK, AttemptLeft, Running, Phases, Fillers
  <2> QED BY <1>5, <2>1, <2>2 DEF getNextCode
<1>6. ASSUME NEW r \in Requests, Filled(r) PROVE TypeInv'
  BY <1>4, <1>6 DEF Filled, Running
<1>7. ASSUME NEW r \in Fillers, initializeCodePool(r) PROVE TypeInv'
  <2>1. batch[r] \in Seq(ShortCodes) /\ codePool \in Seq(Items) /\ batches \in Nat
    BY <1>1, <1>7 DEF TypeOK
  <2>2. codePool' \in Seq(Items)
    BY <1>7, <2>1, PushSeq DEF initializeCodePool
  <2>3. batch' \in [Fillers -> Seq(ShortCodes)] /\ \A s \in Fillers : Len(batch'[s]) <= BATCH_SIZE
    <3>1. <<>> \in Seq(ShortCodes) /\ Len(<<>>) = 0
      BY EmptySeq
    <3>2. batch' = [batch EXCEPT ![r] = <<>>]
      BY <1>7 DEF initializeCodePool
    <3> QED BY <1>1, <3>1, <3>2 DEF TypeOK
  <2>4. phase' \in [Fillers -> Phases] /\ batches' \in Nat /\ UNCHANGED <<given, turn>>
    BY <1>1, <1>7 DEF initializeCodePool, TypeOK, Phases
  <2>5. TypeOK'
    BY <1>1, <2>2, <2>3, <2>4 DEF TypeOK
  <2>6. AttemptLeft'
    BY <1>1, <1>7 DEF initializeCodePool, AttemptLeft, Running, TypeOK, Fillers
  <2> QED BY <2>5, <2>6 DEF TypeInv
<1>8. ASSUME NEW r \in Fillers, NEW code \in ShortCodes, generateBatch(r, code) PROVE TypeInv'
  <2>1. batch[r] \in Seq(ShortCodes) /\ Len(batch[r]) \in Nat
    BY <1>1, LenProperties DEF TypeOK
  <2>2. Append(batch[r], code) \in Seq(ShortCodes) /\ Len(Append(batch[r], code)) = Len(batch[r]) + 1
    BY <2>1, AppendProperties
  <2>3. Len(Append(batch[r], code)) <= BATCH_SIZE
    BY <1>8, <2>1, <2>2 DEF generateBatch
  <2>4. batch' = [batch EXCEPT ![r] = Append(batch[r], code)]
        /\ UNCHANGED <<codePool, phase, given, batches, turn>>
    BY <1>8 DEF generateBatch
  <2>5. batch' \in [Fillers -> Seq(ShortCodes)] /\ \A s \in Fillers : Len(batch'[s]) <= BATCH_SIZE
    BY <1>1, <2>2, <2>3, <2>4 DEF TypeOK
  <2> QED BY <1>1, <2>4, <2>5 DEF TypeInv, TypeOK, AttemptLeft, Running
<1>9. CASE UNCHANGED vars
  BY <1>1, <1>9 DEF vars, TypeInv, TypeOK, AttemptLeft, Running
<1> QED BY <1>2, <1>3, <1>5, <1>6, <1>7, <1>8, <1>9 DEF Next

\* The types hold in every state.
LEMMA TypeInvariant == Spec => []TypeInv
<1>1. Init => TypeInv
  BY TypeStarts DEF Init, TypeInv, AttemptLeft, Running, Fillers
<1> QED BY <1>1, TypeStep, PTL DEF Spec

\* The pool holds codes with the number of their batch, a batch does not grow beyond
\* BATCH_SIZE, and a request does not ask more often than RETRY_ATTEMPTS
\* (urls.service.ts:56-83).
THEOREM TypeCorrectness == Spec => []TypeOK
<1>1. TypeInv => TypeOK
  BY DEF TypeInv
<1> QED BY <1>1, TypeInvariant, PTL

-----------------------------------------------------------------------------
(* Nothing is handed out twice *)

ItemsApart == PoolApart /\ GivenApart /\ BatchApart

\* What is taken from the pool is no longer there, and nobody was given it before.
LEMMA PopKeepsApart ==
  ASSUME TypeOK, ItemsApart, NEW r \in Requests, Pop(r)
  PROVE  ItemsApart'
<1> DEFINE x == IF codePool = <<>> THEN NoItem ELSE codePool[Len(codePool)]
           last == Len(given[r]) + 1
<1>1. codePool \in Seq(Items) /\ given[r] \in Seq(Items \cup {NoItem})
  BY DEF TypeOK
<1>2. /\ Len(given[r]) \in Nat
      /\ DOMAIN given[r] = 1..Len(given[r])
  BY <1>1, LenProperties
<1>3. x \in Items \cup {NoItem}
  BY <1>1, PopSeq
<1>4. /\ DOMAIN codePool' \subseteq DOMAIN codePool
      /\ \A i \in DOMAIN codePool' : codePool'[i] = codePool[i]
      /\ \A i \in DOMAIN codePool' :
           codePool # <<>> /\ Len(codePool) \in DOMAIN codePool /\ i # Len(codePool)
  <2>1. CASE codePool = <<>>
    <3>1. codePool' = <<>> /\ DOMAIN codePool' = {}
      BY <2>1, EmptySeq DEF Pop
    <3> QED BY <3>1
  <2>2. CASE codePool # <<>>
    <3>1. codePool' = SubSeq(codePool, 1, Len(codePool) - 1)
      BY <2>2 DEF Pop
    <3>2. /\ Len(codePool) \in Nat \ {0}
          /\ DOMAIN codePool' = 1..(Len(codePool) - 1) /\ DOMAIN codePool = 1..Len(codePool)
          /\ \A i \in DOMAIN codePool' : codePool'[i] = codePool[i]
      BY <1>1, <2>2, <3>1, PopSeq
    <3> QED BY <2>2, <3>2
  <2> QED BY <2>1, <2>2
<1>5. given' = [given EXCEPT ![r] = Append(given[r], x)] /\ UNCHANGED <<batch, batches>>
  BY DEF Pop
<1>6. /\ DOMAIN Append(given[r], x) = 1..last
      /\ \A i \in 1..Len(given[r]) : Append(given[r], x)[i] = given[r][i]
      /\ Append(given[r], x)[last] = x
  <2>1. Append(given[r], x) \in Seq(Items \cup {NoItem}) /\ Len(Append(given[r], x)) = last
    BY <1>1, <1>3, AppendProperties
  <2> QED BY <1>1, <1>2, <1>3, <2>1, AppendProperties, LenProperties
<1>7. ASSUME NEW s \in Requests, NEW i \in DOMAIN given'[s]
      PROVE  \/ i \in DOMAIN given[s] /\ given'[s][i] = given[s][i] /\ <<s, i>> # <<r, last>>
             \/ s = r /\ i = last /\ given'[s][i] = x
  <2>1. CASE s = r
    <3>1. given'[s] = Append(given[r], x)
      BY <1>5, <2>1 DEF TypeOK
    <3> HIDE DEF x
    <3> QED BY <1>2, <1>6, <2>1, <3>1
  <2>2. CASE s # r
    BY <1>5, <2>2 DEF TypeOK
  <2> QED BY <2>1, <2>2
<1>8. x # NoItem =>
        /\ codePool # <<>> /\ Len(codePool) \in DOMAIN codePool /\ x = codePool[Len(codePool)]
        /\ x.batch <= batches
  <2> SUFFICES ASSUME x # NoItem
      PROVE  codePool # <<>> /\ Len(codePool) \in DOMAIN codePool
             /\ codePool[Len(codePool)].batch <= batches
    OBVIOUS
  <2>1. codePool # <<>>
    OBVIOUS
  <2>2. Len(codePool) \in DOMAIN codePool
    BY <1>1, <2>1, PopSeq
  <2> QED BY <2>1, <2>2 DEF ItemsApart, PoolApart
<1> HIDE DEF x, last
<1>9. PoolApart'
  BY <1>4, <1>5 DEF ItemsApart, PoolApart
<1>10. BatchApart'
  BY <1>5 DEF ItemsApart, BatchApart
<1>11. ASSUME NEW s \in Requests, NEW i \in DOMAIN given[s], given[s][i] # NoItem, x # NoItem
       PROVE  Apart(given[s][i], x) /\ Apart(x, given[s][i])
  BY <1>8, <1>11 DEF ItemsApart, GivenApart, Apart
<1>12. ASSUME NEW s \in Requests, NEW q \in Requests,
              NEW i \in DOMAIN given'[s], NEW j \in DOMAIN given'[q],
              <<s, i>> # <<q, j>>, given'[s][i] # NoItem, given'[q][j] # NoItem
       PROVE  Apart(given'[s][i], given'[q][j])
  <2>1. CASE s = r /\ i = last /\ given'[s][i] = x
    <3>1. j \in DOMAIN given[q] /\ given'[q][j] = given[q][j]
      BY <1>7, <1>12, <2>1
    <3> QED BY <1>11, <1>12, <2>1, <3>1
  <2>2. CASE i \in DOMAIN given[s] /\ given'[s][i] = given[s][i]
    <3>1. CASE q = r /\ j = last /\ given'[q][j] = x
      BY <1>11, <1>12, <2>2, <3>1
    <3>2. CASE j \in DOMAIN given[q] /\ given'[q][j] = given[q][j]
      BY <1>12, <2>2, <3>2 DEF ItemsApart, GivenApart
    <3> QED BY <1>7, <3>1, <3>2
  <2> QED BY <1>7, <2>1, <2>2
<1>13. ASSUME NEW s \in Requests, NEW i \in DOMAIN given'[s], given'[s][i] # NoItem
       PROVE  /\ given'[s][i].batch <= batches'
              /\ \A j \in DOMAIN codePool' : Apart(given'[s][i], codePool'[j])
  <2>1. CASE s = r /\ i = last /\ given'[s][i] = x
    <3>1. x # NoItem /\ x = codePool[Len(codePool)] /\ x.batch <= batches
      BY <1>8, <1>13, <2>1
    <3>2. \A j \in DOMAIN codePool' : Apart(x, codePool'[j])
      BY <1>4, <3>1 DEF ItemsApart, PoolApart, Apart
    <3> QED BY <1>5, <2>1, <3>1, <3>2
  <2>2. CASE i \in DOMAIN given[s] /\ given'[s][i] = given[s][i]
    BY <1>4, <1>5, <1>13, <2>2 DEF ItemsApart, GivenApart
  <2> QED BY <1>7, <2>1, <2>2
<1>14. GivenApart'
  BY <1>12, <1>13 DEF GivenApart
<1> QED BY <1>9, <1>10, <1>14 DEF ItemsApart

\* What is pushed has a batch of its own, and does not repeat itself.
LEMMA PushKeepsApart ==
  ASSUME TypeOK, ItemsApart, NEW r \in Fillers, initializeCodePool(r)
  PROVE  ItemsApart'
<1> DEFINE n == Len(codePool)
           b == batch[r]
<1>1. codePool \in Seq(Items) /\ batches \in Nat /\ b \in Seq(ShortCodes)
  BY DEF TypeOK
<1>2. /\ codePool' = codePool \o Stamped(b)
      /\ batches' = batches + 1
      /\ batch' = [batch EXCEPT ![r] = <<>>]
      /\ given' = given
  BY DEF initializeCodePool
<1>3. /\ n \in Nat /\ Len(b) \in Nat
      /\ DOMAIN codePool' = 1..(n + Len(b)) /\ DOMAIN codePool = 1..n /\ DOMAIN b = 1..Len(b)
      /\ \A i \in 1..n : codePool'[i] = codePool[i]
      /\ \A i \in 1..Len(b) : codePool'[n + i] = [code |-> b[i], batch |-> batches + 1]
  BY <1>1, <1>2, PushSeq
<1>4. \A i, j \in DOMAIN b : i # j => b[i] # b[j]
  BY DEF ItemsApart, BatchApart
<1> HIDE DEF b, n
<1>5. ASSUME NEW i \in DOMAIN codePool'
      PROVE  \/ /\ i \in DOMAIN codePool /\ codePool'[i] = codePool[i]
                /\ codePool[i].batch \in Nat /\ codePool[i].batch <= batches
             \/ \E k \in DOMAIN b : i = n + k /\ codePool'[i].code = b[k]
                                    /\ codePool'[i].batch = batches + 1
  <2>1. CASE i <= n
    <3>1. i \in DOMAIN codePool /\ codePool'[i] = codePool[i]
      BY <1>3, <2>1
    <3>2. codePool[i] \in Items
      BY <1>1, <3>1, ElementOfSeq, LenProperties
    <3> QED BY <3>1, <3>2 DEF ItemsApart, PoolApart, Items
  <2>2. CASE i > n
    <3>1. i - n \in DOMAIN b /\ i = n + (i - n)
      BY <1>3, <2>2
    <3>2. codePool'[n + (i - n)] = [code |-> b[i - n], batch |-> batches + 1]
      BY <1>3, <3>1
    <3> QED BY <3>1, <3>2
  <2> QED BY <1>3, <2>1, <2>2
<1>6. ASSUME NEW i \in DOMAIN codePool', NEW j \in DOMAIN codePool', i # j
      PROVE  Apart(codePool'[i], codePool'[j])
  <2>1. CASE i \in DOMAIN codePool /\ codePool'[i] = codePool[i]
             /\ codePool[i].batch \in Nat /\ codePool[i].batch <= batches
    <3>1. CASE j \in DOMAIN codePool /\ codePool'[j] = codePool[j]
      BY <1>6, <2>1, <3>1 DEF ItemsApart, PoolApart
    <3>2. CASE codePool'[j].batch = batches + 1
      BY <1>1, <2>1, <3>2 DEF Apart
    <3> QED BY <1>5, <3>1, <3>2
  <2>2. ASSUME NEW k \in DOMAIN b, i = n + k, codePool'[i].code = b[k],
               codePool'[i].batch = batches + 1
        PROVE  Apart(codePool'[i], codePool'[j])
    <3>1. CASE codePool'[j] = codePool[j] /\ codePool[j].batch \in Nat
               /\ codePool[j].batch <= batches
      BY <1>1, <2>2, <3>1 DEF Apart
    <3>2. ASSUME NEW l \in DOMAIN b, j = n + l, codePool'[j].code = b[l]
          PROVE  Apart(codePool'[i], codePool'[j])
      BY <1>4, <1>6, <2>2, <3>2 DEF Apart
    <3> QED BY <1>5, <3>1, <3>2
  <2> QED BY <1>5, <2>1, <2>2
<1>7. \A i \in DOMAIN codePool' : codePool'[i].batch <= batches'
  BY <1>1, <1>2, <1>5
<1>8. PoolApart'
  BY <1>6, <1>7 DEF PoolApart
<1>9. ASSUME NEW s \in Requests, NEW i \in DOMAIN given[s], given[s][i] # NoItem
      PROVE  /\ given[s][i].batch <= batches + 1
             /\ \A j \in DOMAIN codePool' : Apart(given[s][i], codePool'[j])
  <2>1. given[s][i] \in Items
    BY <1>9, ElementOfSeq, LenProperties DEF TypeOK
  <2>2. given[s][i].batch \in Nat /\ given[s][i].batch <= batches
    BY <1>9, <2>1 DEF ItemsApart, GivenApart, Items
  <2>3. ASSUME NEW j \in DOMAIN codePool' PROVE Apart(given[s][i], codePool'[j])
    <3>1. CASE j \in DOMAIN codePool /\ codePool'[j] = codePool[j]
      BY <1>9, <3>1 DEF ItemsApart, GivenApart
    <3>2. CASE codePool'[j].batch = batches + 1
      BY <1>1, <2>2, <3>2 DEF Apart
    <3> QED BY <1>5, <3>1, <3>2
  <2> QED BY <1>1, <2>2, <2>3
<1>10. GivenApart'
  BY <1>2, <1>9 DEF ItemsApart, GivenApart
<1>11. BatchApart'
  <2>1. ASSUME NEW s \in Fillers, s # r PROVE batch'[s] = batch[s]
    BY <1>2, <2>1 DEF TypeOK
  <2>2. batch'[r] = <<>> /\ DOMAIN <<>> = {}
    BY <1>2, EmptySeq DEF TypeOK
  <2> QED BY <2>1, <2>2 DEF ItemsApart, BatchApart
<1> QED BY <1>8, <1>10, <1>11 DEF ItemsApart

\* A closure keeps its code only if no other has it.
LEMMA DrawKeepsApart ==
  ASSUME TypeOK, ItemsApart, NEW r \in Fillers, NEW code \in ShortCodes, generateBatch(r, code)
  PROVE  ItemsApart'
<1> DEFINE b == Append(batch[r], code)
<1>1. batch[r] \in Seq(ShortCodes) /\ Len(batch[r]) \in Nat /\ DOMAIN batch[r] = 1..Len(batch[r])
  BY LenProperties DEF TypeOK
<1>2. /\ DOMAIN b = 1..(Len(batch[r]) + 1)
      /\ \A i \in 1..Len(batch[r]) : b[i] = batch[r][i]
      /\ b[Len(batch[r]) + 1] = code
  <2>1. b \in Seq(ShortCodes) /\ Len(b) = Len(batch[r]) + 1
    BY <1>1, AppendProperties
  <2> QED BY <1>1, <2>1, AppendProperties, LenProperties
<1>3. batch' = [batch EXCEPT ![r] = b] /\ UNCHANGED <<codePool, given, batches>>
  BY DEF generateBatch
<1>4. \A i \in 1..Len(batch[r]) : batch[r][i] # code
  BY <1>1 DEF generateBatch
<1> HIDE DEF b
<1>5. \A i, j \in DOMAIN b : i # j => b[i] # b[j]
  <2>1. \A i, j \in 1..Len(batch[r]) : i # j => batch[r][i] # batch[r][j]
    BY <1>1 DEF ItemsApart, BatchApart
  <2> QED BY <1>1, <1>2, <1>4, <2>1
<1>6. BatchApart'
  <2>1. \A s \in Fillers \ {r} : batch'[s] = batch[s]
    BY <1>3 DEF TypeOK
  <2>2. batch'[r] = b
    BY <1>3 DEF TypeOK
  <2> QED BY <1>5, <2>1, <2>2 DEF ItemsApart, BatchApart
<1>7. PoolApart' /\ GivenApart'
  BY <1>3 DEF ItemsApart, PoolApart, GivenApart
<1> QED BY <1>6, <1>7 DEF ItemsApart

\* All operations.
LEMMA ApartStep == TypeInv /\ ItemsApart /\ [Next]_vars => ItemsApart'
<1> SUFFICES ASSUME TypeInv, ItemsApart, [Next]_vars PROVE ItemsApart'
  OBVIOUS
<1>1. TypeOK
  BY DEF TypeInv
<1>2. ASSUME UNCHANGED <<codePool, batch, given, batches>> PROVE ItemsApart'
  BY <1>2 DEF ItemsApart, PoolApart, GivenApart, BatchApart
<1>3. ASSUME NEW r \in Requests, Unsafe(r) \/ Created(r) \/ getNextCode(r) \/ Filled(r)
      PROVE  ItemsApart'
  BY <1>1, <1>2, <1>3, PopKeepsApart DEF Unsafe, Created, getNextCode, Filled
<1>4. ASSUME NEW S \in SUBSET Requests, Wake(S) PROVE ItemsApart'
  BY <1>2, <1>4 DEF Wake
<1>5. CASE UNCHANGED vars
  BY <1>2, <1>5 DEF vars
<1> QED BY <1>1, <1>3, <1>4, <1>5, PushKeepsApart, DrawKeepsApart DEF Next

\* For any number of requests and attempts, any batch and any generator, two attempts get
\* the same code only out of two batches (urls.service.ts:56-65,
\* short-code.generator.ts:37-56).
THEOREM NothingHandedOutTwice == Spec => []RepeatsCrossBatches
<1>1. Init => ItemsApart
  BY EmptySeq DEF Init, ItemsApart, PoolApart, GivenApart, BatchApart, Fillers
<1>2. ItemsApart => RepeatsCrossBatches
  BY DEF ItemsApart, GivenApart, Apart, RepeatsCrossBatches
<1> QED BY <1>1, <1>2, ApartStep, TypeInvariant, PTL DEF Spec

-----------------------------------------------------------------------------
(* Everyone is served *)

\* Popped is finite, and counts one more when a request of this turn pops.
LEMMA PoppedCounts ==
  ASSUME TypeOK, NEW r \in turn, phase[r] # "inserting",
         phase' = [phase EXCEPT ![r] = "inserting"], UNCHANGED turn
  PROVE  /\ Cardinality(Popped) \in Nat
         /\ Cardinality(Popped') = Cardinality(Popped) + 1
         /\ Cardinality(Popped') <= Cardinality(turn)
         /\ Cardinality(turn) \in Nat
<1>1. turn \subseteq Requests /\ IsFiniteSet(turn)
  BY FS_Subset DEF TypeOK
<1>2. Popped \subseteq turn /\ r \notin Popped
  BY DEF Popped
<1>3. IsFiniteSet(Popped)
  BY <1>1, <1>2, FS_Subset
<1>4. Popped' = Popped \cup {r}
  BY <1>1 DEF Popped, TypeOK, Fillers
<1>5. Cardinality(Popped') = Cardinality(Popped) + 1
  BY <1>2, <1>3, <1>4, FS_AddElement
<1>6. Cardinality(Popped') <= Cardinality(turn)
  <2>1. Popped' \subseteq turn
    BY <1>2, <1>4
  <2> QED BY <1>1, <2>1, FS_Subset
<1> QED BY <1>1, <1>3, <1>5, <1>6, FS_CardinalityType

\* A pop that finds a code leaves as many as it counts; one that finds none has been
\* preceded by a whole batch of others.
LEMMA PopKeepsServed ==
  ASSUME TypeOK, Served, NEW r \in Requests, Pop(r), Running(r),
         phase[r] = "filled" \/ codePool # <<>>
  PROVE  Served'
<1>1. r \in turn /\ phase[r] # "inserting"
  BY DEF Served, Running
<1>2. phase' = [phase EXCEPT ![r] = "inserting"] /\ turn' = turn
  BY DEF Pop
<1>3. /\ Cardinality(Popped) \in Nat
      /\ Cardinality(Popped') = Cardinality(Popped) + 1
      /\ Cardinality(Popped') <= Cardinality(turn)
      /\ Cardinality(turn) \in Nat
  BY <1>1, <1>2, PoppedCounts
<1> DEFINE x == IF codePool = <<>> THEN NoItem ELSE codePool[Len(codePool)]
<1>4. codePool \in Seq(Items) /\ given[r] \in Seq(Items \cup {NoItem})
  BY DEF TypeOK
<1>5. x \in Items \cup {NoItem}
  BY <1>4, PopSeq
<1>6. \A s \in Requests \ {r} : phase'[s] = phase[s] /\ given'[s] = given[s]
  BY <1>2 DEF TypeOK, Pop, Fillers
<1>7. given'[r][Len(given'[r])] = x
  <2>1. given'[r] = Append(given[r], x)
    BY DEF TypeOK, Pop
  <2> HIDE DEF x
  <2> QED BY <1>4, <1>5, <2>1, AppendProperties
<1>8. phase'[r] = "inserting"
  BY <1>2 DEF TypeOK, Fillers
<1>9. \A s \in Requests : Running(s)' => s \in turn'
  BY <1>2, <1>6, <1>8 DEF Served, Running
<1>10. ASSUME NEW s \in Requests, phase'[s] = "filled"
       PROVE  Len(codePool') + Cardinality(Popped') >= BATCH_SIZE
  <2>1. Len(codePool) + Cardinality(Popped) >= BATCH_SIZE
    BY <1>6, <1>8, <1>10 DEF Served
  <2>2. CASE codePool = <<>>
    <3>1. codePool' = codePool
      BY <2>2 DEF Pop
    <3>2. Len(codePool) \in Nat
      BY <1>4, LenProperties
    <3> QED BY <1>3, <2>1, <3>1, <3>2
  <2>3. CASE codePool # <<>>
    <3>1. codePool' = SubSeq(codePool, 1, Len(codePool) - 1)
      BY <2>3 DEF Pop
    <3>2. Len(codePool') = Len(codePool) - 1 /\ Len(codePool) \in Nat
      BY <1>4, <2>3, <3>1, PopSeq
    <3> QED BY <1>3, <2>1, <3>2
  <2> QED BY <2>2, <2>3
<1>11. ASSUME NEW s \in turn, phase'[s] = "inserting", given'[s][Len(given'[s])] = NoItem
       PROVE  Cardinality(turn) > BATCH_SIZE
  <2>1. s \in Requests
    BY DEF TypeOK
  <2>2. CASE s # r
    BY <1>6, <1>11, <2>1, <2>2 DEF Served, PopServes
  <2>3. CASE s = r
    <3>1. codePool = <<>>
      BY <1>4, <1>7, <1>11, <2>3, PopSeq
    <3>2. phase[r] = "filled" /\ Len(codePool) = 0
      BY <3>1, EmptySeq
    <3>3. Cardinality(Popped) >= BATCH_SIZE
      BY <1>3, <3>2 DEF Served
    <3> QED BY <1>3, <3>3
  <2> QED BY <2>2, <2>3
<1> QED BY <1>2, <1>9, <1>10, <1>11 DEF Served, PopServes

\* All operations.
LEMMA ServedStep == TypeInv /\ Served /\ [Next]_vars => Served'
<1> SUFFICES ASSUME TypeInv, Served, [Next]_vars PROVE Served'
  OBVIOUS
<1>1. TypeOK
  BY DEF TypeInv
<1>2. ASSUME NEW S \in SUBSET Requests, turn' = S,
             \A s \in Requests : Running(s)' => s \in S,
             \A s \in Requests : phase'[s] # "filled",
             \A s \in S : phase'[s] # "inserting"
      PROVE  Served'
  BY <1>2 DEF Served, PopServes
<1>3. ASSUME NEW r \in Requests, Unsafe(r) \/ Created(r) PROVE Served'
  <2>1. turn' = {} /\ \A s \in Requests : ~Running(s)'
    BY <1>1, <1>3 DEF Unsafe, Created, Quiet, Running, TypeOK, Fillers
  <2> QED BY <1>2, <2>1 DEF Running
<1>4. ASSUME NEW S \in SUBSET Requests, Wake(S) PROVE Served'
  <2>1. turn' = S /\ \A s \in S : phase'[s] \in {"ready", "refused"}
    BY <1>4 DEF Wake, Fillers
  <2>2. \A s \in Requests \ S : phase'[s] = phase[s] /\ ~Running(s)
    BY <1>4 DEF Wake, Fillers, Quiet
  <2> QED BY <1>2, <2>1, <2>2 DEF Running
<1>5. ASSUME NEW r \in Requests, getNextCode(r) PROVE Served'
  <2>1. Running(r)
    BY <1>5 DEF getNextCode, Running
  <2>2. CASE codePool # <<>> /\ Pop(r)
    BY <1>1, <2>1, <2>2, PopKeepsServed
  <2>3. CASE phase' = [phase EXCEPT ![r] = "filling"]
             /\ UNCHANGED <<codePool, batch, given, batches, turn>>
    <3>1. \A s \in Requests \ {r} : phase'[s] = phase[s]
      BY <1>1, <2>3 DEF TypeOK, Fillers
    <3>2. phase'[r] = "filling" /\ phase[r] = "ready"
      BY <1>1, <1>5, <2>3 DEF TypeOK, Fillers, getNextCode
    <3>3. turn \subseteq Requests
      BY <1>1 DEF TypeOK
    <3>4. Popped' = Popped
      BY <2>3, <3>1, <3>2, <3>3 DEF Popped
    <3> QED BY <2>1, <2>3, <3>1, <3>2, <3>3, <3>4 DEF Served, PopServes, Running
  <2> QED BY <1>5, <2>2, <2>3 DEF getNextCode
<1>6. ASSUME NEW r \in Requests, Filled(r) PROVE Served'
  BY <1>1, <1>6, PopKeepsServed DEF Filled, Running
<1>7. ASSUME NEW r \in Fillers, initializeCodePool(r) PROVE Served'
  <2>1. turn \subseteq Requests /\ IsFiniteSet(turn)
    BY <1>1, FS_Subset DEF TypeOK
  <2>2. \A s \in Fillers \ {r} : phase'[s] = phase[s]
    BY <1>1, <1>7 DEF TypeOK, initializeCodePool
  <2>3. phase'[r] \in {"created", "filled"} /\ phase[r] = "filling"
        /\ (phase'[r] = "filled" => r \in Requests)
    BY <1>1, <1>7 DEF TypeOK, initializeCodePool, Fillers
  <2>4. turn' = turn /\ given' = given
    BY <1>7 DEF initializeCodePool
  <2>5. Popped' = Popped /\ Popped \subseteq turn
    BY <2>1, <2>2, <2>3, <2>4 DEF Popped, Fillers
  <2>6. Cardinality(Popped) \in Nat
    BY <2>1, <2>5, FS_Subset, FS_CardinalityType
  <2>7. Len(codePool') >= BATCH_SIZE /\ Len(codePool') \in Nat
    <3>1. codePool \in Seq(Items) /\ batches \in Nat /\ batch[r] \in Seq(ShortCodes)
      BY <1>1 DEF TypeOK
    <3>2. codePool' = codePool \o Stamped(batch[r]) /\ Len(batch[r]) = BATCH_SIZE
      BY <1>7 DEF initializeCodePool
    <3> QED BY <3>1, <3>2, PushSeq
  <2>8. \A s \in Requests : Running(s)' => s \in turn'
    <3>1. \A s \in Requests : Running(s)' => Running(s)
      BY <2>2, <2>3 DEF Running, Fillers
    <3> QED BY <2>4, <3>1 DEF Served
  <2>9. PopServes'
    BY <2>1, <2>2, <2>3, <2>4 DEF Served, PopServes, Fillers
  <2> QED BY <2>5, <2>6, <2>7, <2>8, <2>9 DEF Served
<1>8. ASSUME UNCHANGED <<codePool, phase, given, turn>> PROVE Served'
  BY <1>8 DEF Served, PopServes, Running, Popped
<1>9. ASSUME NEW r \in Fillers, NEW code \in ShortCodes, generateBatch(r, code) PROVE Served'
  BY <1>8, <1>9 DEF generateBatch
<1>10. CASE UNCHANGED vars
  BY <1>8, <1>10 DEF vars
<1> QED BY <1>3, <1>4, <1>5, <1>6, <1>7, <1>9, <1>10 DEF Next

\* A turn of the event loop that wakes no more requests than a batch has codes leaves none
\* of them without a code, in whatever order they go on (urls.service.ts:60-65).
THEOREM PopIsServed == Spec => []PopServes
<1>1. Init => Served
  BY DEF Init, Served, PopServes, Running, Fillers
<1>2. Served => PopServes
  BY DEF Served
<1> QED BY <1>1, <1>2, ServedStep, TypeInvariant, PTL DEF Spec
=============================================================================
