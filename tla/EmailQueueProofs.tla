-------------------------- MODULE EmailQueueProofs --------------------------
(***************************************************************************)
(* Proofs about EmailQueue: jobs keep their types, none is forgotten, and  *)
(* a mail goes out a bounded number of times, for any set of mails and any *)
(* number of attempts and stalls.                                          *)
(***************************************************************************)
EXTENDS EmailQueue, TLAPS

Jobs == [state : JobStates, failed : 0..Attempts, stalls : 0..(MaxStalls + 1)]

\* A job that is still tried has attempts left.
Trying(j) == /\ j.failed < Attempts
             /\ j.stalls <= MaxStalls

\* One of the two limits ends a job, never both.
GivenUp(j) == \/ j.failed = Attempts /\ j.stalls <= MaxStalls
              \/ j.failed < Attempts /\ j.stalls = MaxStalls + 1

\* Every time the mail went out is an attempt that is over.
Accounted(j, n) ==
  /\ n <= j.failed + j.stalls + (IF j.state \in {"completed", "lost"} THEN 1 ELSE 0)
  /\ j.state = "completed" => n > 0
  /\ IF j.state = "failed" THEN GivenUp(j) ELSE Trying(j)

QueueInv == /\ QueueTypeOK
            /\ \A m \in Mails : Accounted(job[m], sent[m])

-----------------------------------------------------------------------------

\* One job changes, and its mail goes out once more at most: that is all a step does
\* that is not a loss of locks.
LEMMA OneJob ==
  ASSUME QueueInv, NEW m \in Mails, NEW j \in Jobs, NEW n \in Nat,
         job' = [job EXCEPT ![m] = j], sent' = [sent EXCEPT ![m] = n],
         Accounted(j, n)
  PROVE  QueueInv'
<1>1. job' \in [Mails -> Jobs] /\ sent' \in [Mails -> Nat]
  BY DEF QueueInv, QueueTypeOK, Jobs
<1>2. ASSUME NEW k \in Mails PROVE Accounted(job'[k], sent'[k])
  <2>1. CASE k = m
    BY <2>1 DEF QueueInv, QueueTypeOK
  <2>2. CASE k # m
    <3>1. job'[k] = job[k] /\ sent'[k] = sent[k]
      BY <2>2 DEF QueueInv, QueueTypeOK
    <3> QED BY <3>1 DEF QueueInv
  <2> QED BY <2>1, <2>2
<1>3. (\A k \in Mails : Accounted(job[k], sent[k]))'
  BY <1>2
<1> QED BY <1>1, <1>3 DEF QueueInv, QueueTypeOK, Jobs

\* The initial state: no mail has been asked for.
LEMMA QueueStarts == QueueInit => QueueInv
<1> SUFFICES ASSUME QueueInit PROVE QueueInv
  OBVIOUS
<1> USE AttemptsAssumption
<1>1. NoJob \in Jobs
  BY DEF NoJob, Jobs, JobStates
<1>2. QueueTypeOK
  BY <1>1 DEF QueueInit, QueueTypeOK, Jobs
<1>3. ASSUME NEW m \in Mails PROVE Accounted(job[m], sent[m])
  <2>1. job[m] = NoJob /\ sent[m] = 0
    BY DEF QueueInit
  <2>2. Accounted(NoJob, 0)
    BY DEF NoJob, Accounted, Trying
  <2> QED BY <2>1, <2>2
<1> QED BY <1>2, <1>3 DEF QueueInv

\* Every operation on one job keeps the accounts of the jobs.
LEMMA JobSteps ==
  ASSUME QueueInv, NEW m \in Mails, addJob(m) \/ Process(m)
  PROVE  QueueInv'
<1> USE AttemptsAssumption
<1> DEFINE j == job[m]
           n == sent[m]
<1>1. j \in Jobs /\ n \in Nat /\ Accounted(j, n)
  BY DEF QueueInv, QueueTypeOK, Jobs
<1>2. job \in [Mails -> Jobs] /\ sent \in [Mails -> Nat]
  BY DEF QueueInv, QueueTypeOK, Jobs
<1>3. ASSUME NEW s \in {"waiting", "active"}, j.state \notin {"completed", "lost", "failed"},
             job' = [job EXCEPT ![m].state = s], UNCHANGED sent
      PROVE  QueueInv'
  <2> DEFINE k == [j EXCEPT !.state = s]
  <2>1. k \in Jobs
    BY <1>1 DEF Jobs, JobStates
  <2>2. Accounted(k, n)
    BY <1>1, <1>3 DEF Accounted, Trying, Jobs
  <2>3. job' = [job EXCEPT ![m] = k] /\ sent' = [sent EXCEPT ![m] = n]
    BY <1>2, <1>3
  <2> QED BY <1>1, <2>1, <2>2, <2>3, OneJob
<1>4. CASE addJob(m)
  BY <1>3, <1>4 DEF addJob
<1>5. CASE Take(m)
  BY <1>3, <1>5 DEF Take
<1>6. CASE Promote(m)
  BY <1>3, <1>6 DEF Promote
<1>7. CASE Sent(m)
  <2> DEFINE k == [j EXCEPT !.state = "completed"]
  <2>1. k \in Jobs /\ n + 1 \in Nat
    BY <1>1 DEF Jobs, JobStates
  <2>2. Accounted(k, n + 1)
    BY <1>1, <1>7 DEF Accounted, Trying, Jobs, Sent
  <2>3. job' = [job EXCEPT ![m] = k] /\ sent' = [sent EXCEPT ![m] = n + 1]
    BY <1>2, <1>7 DEF Sent
  <2> HIDE DEF k, n
  <2> QED BY <2>1, <2>2, <2>3, OneJob
<1>8. CASE SendFails(m)
  <2> DEFINE s == IF j.failed + 1 < Attempts THEN "delayed" ELSE "failed"
             k == [j EXCEPT !.failed = j.failed + 1, !.state = s]
  <2>1. PICK d \in {0, 1} : sent' = [sent EXCEPT ![m] = @ + d]
    BY <1>8 DEF SendFails, MayHaveGoneOut
  <2>2. j.state = "active" /\ Trying(j)
    BY <1>1, <1>8 DEF Accounted, SendFails
  <2>3. k \in Jobs /\ n + d \in Nat
    <3>1. j.failed + 1 \in 0..Attempts
      BY <1>1, <2>2 DEF Jobs, Trying
    <3>2. s \in JobStates
      BY DEF JobStates
    <3>3. k \in Jobs
      <4> HIDE DEF s, j
      <4> QED BY <1>1, <3>1, <3>2 DEF Jobs
    <3>4. n + d \in Nat
      BY <1>1
    <3> QED BY <3>3, <3>4
  <2>4. Accounted(k, n + d)
    BY <1>1, <2>2 DEF Accounted, Trying, GivenUp, Jobs
  <2>5. job' = [job EXCEPT ![m] = k] /\ sent' = [sent EXCEPT ![m] = n + d]
    BY <1>2, <1>8, <2>1 DEF SendFails
  <2> HIDE DEF k, n
  <2> QED BY <2>3, <2>4, <2>5, OneJob
<1>9. CASE Stalled(m)
  <2> DEFINE s == IF j.stalls + 1 > MaxStalls THEN "failed" ELSE "waiting"
             k == [j EXCEPT !.stalls = j.stalls + 1, !.state = s]
  <2>1. j.state = "lost" /\ Trying(j)
    BY <1>1, <1>9 DEF Accounted, Stalled
  <2>2. k \in Jobs
    <3>1. j.stalls + 1 \in 0..(MaxStalls + 1) /\ j.failed \in 0..Attempts
      BY <1>1, <2>1 DEF Jobs, Trying
    <3>2. s \in JobStates
      BY DEF JobStates
    <3> HIDE DEF s, j
    <3> QED BY <1>1, <3>1, <3>2 DEF Jobs
  <2>3. Accounted(k, n)
    BY <1>1, <2>1 DEF Accounted, Trying, GivenUp, Jobs
  <2>4. job' = [job EXCEPT ![m] = k] /\ sent' = [sent EXCEPT ![m] = n]
    BY <1>2, <1>9 DEF Stalled
  <2> HIDE DEF k, n
  <2> QED BY <1>1, <2>2, <2>3, <2>4, OneJob
<1> QED BY <1>4, <1>5, <1>6, <1>7, <1>8, <1>9 DEF Process

\* So does the loss of any number of locks, as in the crash of a process.
LEMMA LoseKeeps ==
  ASSUME QueueInv, NEW M \in SUBSET Active, Lose(M)
  PROVE  QueueInv'
<1> USE AttemptsAssumption
<1>1. PICK out \in SUBSET M :
        sent' = [m \in Mails |-> IF m \in out THEN sent[m] + 1 ELSE sent[m]]
  BY DEF Lose
<1>2. ASSUME NEW m \in Mails
      PROVE  job'[m] \in Jobs /\ sent'[m] \in Nat /\ Accounted(job'[m], sent'[m])
  <2>1. job[m] \in Jobs /\ sent[m] \in Nat /\ Accounted(job[m], sent[m])
    BY DEF QueueInv, QueueTypeOK, Jobs
  <2>2. CASE m \in M
    <3>1. job'[m] = [job[m] EXCEPT !.state = "lost"] /\ job[m].state = "active"
      BY <2>2 DEF Lose, Active
    <3>2. sent'[m] \in {sent[m], sent[m] + 1}
      BY <1>1
    <3> QED BY <2>1, <3>1, <3>2 DEF Accounted, Trying, Jobs, JobStates
  <2>3. CASE m \notin M
    BY <1>1, <2>1, <2>3 DEF Lose
  <2> QED BY <2>2, <2>3
<1>3. job' \in [Mails -> Jobs] /\ sent' \in [Mails -> Nat]
  BY <1>1, <1>2 DEF Lose
<1>4. (\A m \in Mails : Accounted(job[m], sent[m]))'
  BY <1>2
<1> QED BY <1>3, <1>4 DEF QueueInv, QueueTypeOK, Jobs

\* The accounts of the jobs hold in every state.
LEMMA QueueInvariant == QueueSpec => []QueueInv
<1>1. QueueInv /\ [QueueNext]_queueVars => QueueInv'
  <2> SUFFICES ASSUME QueueInv, [QueueNext]_queueVars PROVE QueueInv'
    OBVIOUS
  <2>1. CASE QueueNext
    <3>1. PICK m \in Mails : addJob(m) \/ Process(m) \/ LockLost(m)
      BY <2>1 DEF QueueNext
    <3>2. CASE addJob(m) \/ Process(m)
      BY <3>2, JobSteps
    <3>3. CASE LockLost(m)
      <4>1. {m} \in SUBSET Active /\ Lose({m})
        BY <3>3 DEF LockLost
      <4> QED BY <4>1, LoseKeeps
    <3> QED BY <3>1, <3>2, <3>3
  <2>2. CASE UNCHANGED queueVars
    BY <2>2 DEF queueVars, QueueInv, QueueTypeOK
  <2> QED BY <2>1, <2>2
<1> QED BY <1>1, QueueStarts, PTL DEF QueueSpec

-----------------------------------------------------------------------------

\* The accounts of the jobs give both promises of the queue.
LEMMA QueueInvImplies == QueueInv => NoMailIsForgotten /\ RepeatsAreBounded
<1> SUFFICES ASSUME QueueInv, NEW m \in Mails
    PROVE  /\ job[m].state = "completed" => sent[m] > 0
           /\ job[m].state = "failed" => job[m].failed = Attempts \/ job[m].stalls > MaxStalls
           /\ sent[m] <= job[m].failed + job[m].stalls
                            + (IF job[m].state \in {"completed", "lost"} THEN 1 ELSE 0)
           /\ sent[m] <= Attempts + MaxStalls
  BY DEF NoMailIsForgotten, RepeatsAreBounded
<1>1. job[m] \in Jobs /\ sent[m] \in Nat /\ Accounted(job[m], sent[m])
  BY DEF QueueInv, QueueTypeOK, Jobs
<1> QED BY <1>1, AttemptsAssumption DEF Jobs, Accounted, GivenUp, Trying

\* Jobs keep their types: the failures and stalls of a job never pass their limits
\* (email-queue.service.ts:18-24).
THEOREM QueueTypeCorrectness == QueueSpec => []QueueTypeOK
<1>1. QueueInv => QueueTypeOK
  BY DEF QueueInv
<1> QED BY <1>1, QueueInvariant, PTL

\* No job ends without its mail before its attempts or stalls are used up
\* (email.processor.ts:20-23).
THEOREM MailIsNotForgotten == QueueSpec => []NoMailIsForgotten
BY QueueInvariant, QueueInvImplies, PTL

\* A mail goes out at most attempts + maxStalledCount times (email-queue.service.ts:20).
THEOREM MailIsBounded == QueueSpec => []RepeatsAreBounded
BY QueueInvariant, QueueInvImplies, PTL
=============================================================================
