----------------------------- MODULE EmailQueue -----------------------------
(***************************************************************************)
(* The mail queue: EmailQueueService, EmailProcessor and MailerService     *)
(* (src/src/modules/queue, src/src/modules/mailer) over a Bull queue in    *)
(* Redis.                                                                  *)
(*                                                                         *)
(* A job waits, is taken by a worker and sends its mail.  The processor    *)
(* throws when sending throws; Bull then delays the job and tries it       *)
(* again, `attempts' times in all.  A worker that dies or cannot renew its *)
(* lock loses the job, which is put back when Bull finds it stalled, a     *)
(* bounded number of times.  Neither failure says whether the mail went    *)
(* out.                                                                    *)
(***************************************************************************)
EXTENDS Integers

CONSTANTS
  Mails,      \* the mails that the program asks for
  Attempts,   \* attempts
  MaxStalls   \* Bull's maxStalledCount, which the program leaves at its default

ASSUME AttemptsAssumption == Attempts \in Nat \ {0} /\ MaxStalls \in Nat

VARIABLES
  job,        \* where the job of a mail is, and how often it has failed and stalled
  sent        \* how often a mail went out

queueVars == <<job, sent>>

JobStates == {"none", "waiting", "active", "delayed", "lost", "completed", "failed"}

NoJob == [state |-> "none", failed |-> 0, stalls |-> 0]

QueueTypeOK ==
  /\ job  \in [Mails -> [state : JobStates, failed : 0..Attempts, stalls : 0..(MaxStalls + 1)]]
  /\ sent \in [Mails -> Nat]

QueueInit ==
  /\ job  = [m \in Mails |-> NoJob]
  /\ sent = [m \in Mails |-> 0]

-----------------------------------------------------------------------------

\* addVerificationEmailJob and addPasswordResetEmailJob
addJob(m) ==
  /\ job[m].state = "none"
  /\ job' = [job EXCEPT ![m].state = "waiting"]
  /\ UNCHANGED sent

\* A worker takes the job; each of the two processors has one.
Take(m) ==
  /\ job[m].state = "waiting"
  /\ job' = [job EXCEPT ![m].state = "active"]
  /\ UNCHANGED sent

\* The handler returns and the job is removed (removeOnComplete).
Sent(m) ==
  /\ job[m].state = "active"
  /\ job'  = [job EXCEPT ![m].state = "completed"]
  /\ sent' = [sent EXCEPT ![m] = @ + 1]

\* The mail may have gone out before the worker heard that it did not.
MayHaveGoneOut(m) == \E n \in {0, 1} : sent' = [sent EXCEPT ![m] = @ + n]

\* The slip of a handler that catches the error and does not throw it again.
SendFails_Swallowed(m) ==
  /\ job[m].state = "active"
  /\ job' = [job EXCEPT ![m].state = "completed"]
  /\ MayHaveGoneOut(m)

\* The slip of counting the tries after the first.
SendFails_OneMore(m) ==
  /\ job[m].state = "active"
  /\ job' = [job EXCEPT ![m].failed = @ + 1,
                        ![m].state  = IF job[m].failed < Attempts
                                      THEN "delayed" ELSE "failed"]
  /\ MayHaveGoneOut(m)

\* catch (error) { throw error }: no template, or SMTP fails
SendFails(m) ==
  /\ job[m].state = "active"
  /\ job' = [job EXCEPT ![m].failed = @ + 1,
                        ![m].state  = IF job[m].failed + 1 < Attempts
                                      THEN "delayed" ELSE "failed"]
  /\ MayHaveGoneOut(m)

\* The slip of no backoff timer that ever fires.
Promote_Never(m) == FALSE /\ UNCHANGED queueVars

\* The backoff is over.
Promote(m) ==
  /\ job[m].state = "delayed"
  /\ job' = [job EXCEPT ![m].state = "waiting"]
  /\ UNCHANGED sent

\* The workers of the jobs in M have died, or have lost their locks.
Lose(M) ==
  /\ job' = [m \in Mails |-> IF m \in M THEN [job[m] EXCEPT !.state = "lost"] ELSE job[m]]
  /\ \E out \in SUBSET M : sent' = [m \in Mails |-> IF m \in out THEN sent[m] + 1 ELSE sent[m]]

Active == {m \in Mails : job[m].state = "active"}

LockLost(m) == m \in Active /\ Lose({m})

\* Bull finds the job stalled.
Stalled(m) ==
  /\ job[m].state = "lost"
  /\ job' = [job EXCEPT ![m].stalls = @ + 1,
                        ![m].state  = IF job[m].stalls + 1 > MaxStalls
                                      THEN "failed" ELSE "waiting"]
  /\ UNCHANGED sent

Process(m) == Take(m) \/ Sent(m) \/ SendFails(m) \/ Promote(m) \/ Stalled(m)

QueueNext == \E m \in Mails : addJob(m) \/ Process(m) \/ LockLost(m)

QueueSpec == QueueInit /\ [][QueueNext]_queueVars

-----------------------------------------------------------------------------
(* Properties *)

\* A job that is gone from the queue without a failure has sent its mail, and a job that
\* failed or stalled as often as it may has not been forgotten before
\* (email.processor.ts:20-23, email-queue.service.ts:20).
NoMailIsForgotten ==
  \A m \in Mails :
    /\ job[m].state = "completed" => sent[m] > 0
    /\ job[m].state = "failed" => job[m].failed = Attempts \/ job[m].stalls > MaxStalls

\* A mail goes out again only after an attempt that ended badly, and so at most
\* attempts + maxStalledCount times (email-queue.service.ts:20, email.processor.ts:16).
RepeatsAreBounded ==
  \A m \in Mails :
    /\ sent[m] <= job[m].failed + job[m].stalls
                    + (IF job[m].state \in {"completed", "lost"} THEN 1 ELSE 0)
    /\ sent[m] <= Attempts + MaxStalls
=============================================================================
