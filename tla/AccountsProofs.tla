--------------------------- MODULE AccountsProofs ---------------------------
(***************************************************************************)
(* Proofs about Accounts, for any number of requests, accounts, emails,    *)
(* attempts and faults: who may have a session, what a logout ends, which  *)
(* accounts are active, and which emails have two accounts.                *)
(*                                                                         *)
(* The properties are not inductive one by one: what a session may be      *)
(* depends on what the requests that store it have read, and what they     *)
(* have read stays true because accounts are never removed, never moved to *)
(* another email and never deactivated, and because a request that is done *)
(* never changes again.                                                    *)
(***************************************************************************)
EXTENDS Accounts, EmailQueueProofs

Records == [pc : Pcs, op : Ops \cup {"none"}, id : Ids \cup {None}, email : Emails \cup {None},
            key : Ids \cup Googles \cup Tokens \cup {None}, since : 0..MaxSecond,
            before : SUBSET Ids, raced : BOOLEAN, answer : Answers \cup {None}]

Exists(i)   == i \in Ids /\ user[i] # None
IsActive(i) == Exists(i) /\ user[i].active

\* Google vouches for the account, or a mail was sent to it.
Vouched(i) == user[i].google # None \/ Mailed(i)

\* The session of the token t is one of the account i: the request that began it has
\* answered, and does not change any more.
Of(t, i) ==
  \/ t.root \in Seeds /\ t.root = i
  \/ t.root \in Reqs /\ req[t.root].pc = "done" /\ req[t.root].id = i

-----------------------------------------------------------------------------
(* What a request has read is still true *)

\* Before its account is created there is none, and it has its email and its name.
CreatesOK(r) ==
  LET q == req[r]
  IN  /\ q.pc \in {"idle", "create", "insert", "byGoogleId", "byEmail", "createFromGoogle"}
           => user[r] = None
      /\ q.pc \in {"create", "insert", "byGoogleId", "byEmail", "linkCheck", "link",
                   "createFromGoogle"} => q.email \in Emails
      /\ q.pc \in {"byGoogleId", "byEmail", "linkCheck", "link", "createFromGoogle"}
           => q.key \in Googles
      /\ q.pc \in {"create", "insert", "createFromGoogle"} => q.id = r
      /\ q.op = "register" => q.id = r
      /\ q.pc \in {"validate", "forgot", "byGoogleId", "byEmail"} => q.op # "register"

\* Accounts that had the email of the request when it arrived still have it.
BeforeOK(r) ==
  LET q == req[r]
  IN  /\ q.pc \in {"create", "byGoogleId", "byEmail"} =>
           \A i \in q.before : user[i] # None /\ user[i].email = q.email
      /\ q.pc \in {"insert", "createFromGoogle"} => q.before = {}
      /\ user[r] # None => q.before = {}

\* The account a request is about is there, and active where it has to be.
AboutOK(r) ==
  LET q == req[r]
  IN  /\ q.pc \in {"set", "addJob", "activate", "update", "linkCheck", "link", "logout", "change"}
           => Exists(q.id)
      /\ q.pc \in {"store", "refresh"} => IsActive(q.id)
      /\ q.pc = "activate" /\ q.id \in Reqs => Vouched(q.id)

\* A refresh that has compared its token with one that a logout then ended has noticed.
RefreshOK(r) ==
  LET q == req[r]
  IN  /\ q.pc = "refresh" => q.op = "refresh"
      /\ q.op = "refresh" => q.pc \in {"refresh", "store", "done"}
      /\ q.op = "refresh" /\ q.pc \in {"refresh", "store"} => q.key \in Tokens /\ Of(q.key, q.id)
      /\ q.op = "refresh" /\ q.pc = "store" /\ q.key.root \in ended => q.raced

\* Only a request that is done has a job, and who was told of a mail has one.
JobOK(r) ==
  LET q == req[r]
  IN  /\ q.pc # "done" => job[r].state = "none" /\ sent[r] = 0
      /\ job[r].state # "none" \/ sent[r] > 0 => Exists(q.id)
      /\ q.answer \in {"registered", "mailed"} => job[r].state # "none"

ReqOK(r) == CreatesOK(r) /\ BeforeOK(r) /\ AboutOK(r) /\ RefreshOK(r) /\ JobOK(r)

-----------------------------------------------------------------------------
(* Sessions and accounts *)

SessionsOK ==
  \A i \in Ids :
    /\ refresh[i] # None => IsActive(i) /\ Of(refresh[i], i)
    /\ issued[i] # {} => IsActive(i)
    /\ \A t \in issued[i] : Of(t, i)

GoogleActive == \A i \in Ids : user[i] # None /\ user[i].google # None => user[i].active

UsersOK == GoogleActive /\ ActiveWasProved

EndedOK ==
  /\ \A x \in ended \cap Reqs : req[x].pc = "done"
  /\ LogoutEndsSession

AccountsInv ==
  /\ TypeOK /\ QueueInv
  /\ \A r \in Reqs : ReqOK(r)
  /\ SessionsOK /\ UsersOK /\ EndedOK

-----------------------------------------------------------------------------
(* The records of requests *)

\* A request that goes on keeps what it has read.
LEMMA AtIs ==
  ASSUME TypeOK, NEW r \in Reqs, NEW pc \in Pcs
  PROVE  /\ At(r, pc) \in Records
         /\ At(r, pc).pc = pc
         /\ At(r, pc).op = req[r].op /\ At(r, pc).id = req[r].id
         /\ At(r, pc).email = req[r].email /\ At(r, pc).key = req[r].key
         /\ At(r, pc).before = req[r].before /\ At(r, pc).raced = req[r].raced
         /\ At(r, pc).answer = req[r].answer
<1> DEFINE n == IF pc = "store" THEN second ELSE 0
<1>1. req[r] \in Records
  BY DEF TypeOK, Records
<1>2. n \in 0..MaxSecond
  BY AccountsAssumption DEF TypeOK
<1> HIDE DEF n
<1>3. At(r, pc) = [req[r] EXCEPT !.pc = pc, !.since = n]
  BY DEF At, n
<1> QED BY <1>1, <1>2, <1>3 DEF Records

\* A request that is told of a race is a record like the others.
LEMMA RacedIs == \A q \in Records : [q EXCEPT !.raced = TRUE] \in Records
BY DEF Records

\* A request that was not made is a record like the others.
LEMMA IdleIs == Idle \in Records
<1>1. "idle" \in Pcs /\ 0 \in 0..MaxSecond
  BY AccountsAssumption DEF Pcs
<1> QED BY <1>1 DEF Idle, Records

\* One that is done keeps only what it was and whom it was about.
LEMMA DoneIs ==
  ASSUME TypeOK, NEW r \in Reqs, NEW what \in Answers
  PROVE  /\ Done(r, what) \in Records
         /\ Done(r, what).pc = "done" /\ Done(r, what).answer = what
         /\ Done(r, what).op = req[r].op /\ Done(r, what).id = req[r].id
         /\ Done(r, what).before = req[r].before
<1>1. req[r] \in Records
  BY DEF TypeOK, Records
<1>2. req[r].op \in Ops \cup {"none"} /\ req[r].id \in Ids \cup {None} /\ req[r].before \in SUBSET Ids
  BY <1>1 DEF Records
<1>3. Done(r, what) \in Records
  BY <1>2, IdleIs DEF Done, Records, Pcs
<1> QED BY <1>3 DEF Done, Idle

-----------------------------------------------------------------------------
(* What stays true of a request while others go on *)

\* Accounts stay, keep their email and stay active, and linked if they were.
Grows ==
  \A i \in Ids : user[i] # None =>
    /\ user'[i] # None /\ user'[i].email = user[i].email
    /\ user[i].active => user'[i].active
    /\ user[i].google # None => user'[i].google # None

\* A request that is done stays as it is.
Settles ==
  \A p \in Reqs : req[p].pc = "done" => req'[p].pc = "done" /\ req'[p].id = req[p].id

\* A mail that went out went out.
MailsGrow == \A m \in Reqs : sent[m] > 0 => sent'[m] > 0

\* What a mail that went out says goes on being said.
LEMMA MailedStays ==
  ASSUME AccountsInv, Settles, MailsGrow, NEW i, Mailed(i)
  PROVE  Mailed(i)'
<1>1. PICK m \in Reqs : req[m].id = i /\ sent[m] > 0
  BY DEF Mailed
<1>2. sent[m] \in Nat
  BY DEF AccountsInv, QueueInv, QueueTypeOK, Reqs
<1>3. req[m].pc = "done"
  BY <1>1, <1>2 DEF AccountsInv, ReqOK, JobOK
<1>4. req'[m].id = i /\ sent'[m] > 0
  BY <1>1, <1>3 DEF Settles, MailsGrow
<1> QED BY <1>4 DEF Mailed

\* So does what vouches for an account.
LEMMA VouchedStays ==
  ASSUME AccountsInv, Settles, MailsGrow, Grows, NEW i, Exists(i), Vouched(i)
  PROVE  Vouched(i)'
BY MailedStays DEF Vouched, Grows, Exists

\* An account that a token was made for is there, and vouched for if it was created here.
LEMMA TokenIs ==
  ASSUME AccountsInv, NEW i \in Ids, HasToken(i)
  PROVE  Exists(i) /\ (i \in Reqs => Vouched(i))
<1>1. CASE issued[i] # {}
  <2>1. IsActive(i)
    BY <1>1 DEF AccountsInv, SessionsOK
  <2> QED BY <2>1 DEF IsActive, Exists, Vouched, AccountsInv, UsersOK, ActiveWasProved, Accounts
<1>2. CASE Mailed(i)
  BY <1>2 DEF Mailed, Vouched, AccountsInv, ReqOK, JobOK
<1> QED BY <1>1, <1>2 DEF HasToken

\* A step of others does not create the account of q or queue its mail, and tells q at
\* most that it was raced; a refresh whose session has been ended is told.
Undisturbed(q) ==
  /\ req'[q] = req[q] \/ req'[q] = [req[q] EXCEPT !.raced = TRUE]
  /\ user[q] = None => user'[q] = None
  /\ job'[q].state = "none" <=> job[q].state = "none"
  /\ sent'[q] > 0 => sent[q] > 0 \/ job[q].state # "none"
  /\ req[q].pc # "done" => sent'[q] = sent[q]
  /\ req[q].op = "refresh" /\ req[q].pc = "store" /\ req[q].key.root \in ended' \ ended
       => req'[q].raced

\* What holds of a request goes on holding in a step that leaves the request alone.
LEMMA OthersKeep ==
  ASSUME AccountsInv, Grows, Settles, MailsGrow, NEW q \in Reqs, Undisturbed(q)
  PROVE  ReqOK(q)'
<1>1. req[q] \in Records /\ q \in Ids /\ ReqOK(q)
  BY DEF AccountsInv, TypeOK, Records, Ids
<1>2. /\ req'[q].pc = req[q].pc /\ req'[q].op = req[q].op /\ req'[q].id = req[q].id
      /\ req'[q].email = req[q].email /\ req'[q].key = req[q].key
      /\ req'[q].before = req[q].before /\ req'[q].answer = req[q].answer
      /\ req[q].raced => req'[q].raced
  BY <1>1 DEF Undisturbed, Records
<1>3. CreatesOK(q)'
  BY <1>1, <1>2 DEF ReqOK, CreatesOK, Undisturbed
<1>4. BeforeOK(q)'
  <2>1. \A i \in req[q].before : i \in Ids
    BY <1>1 DEF Records
  <2> QED BY <1>1, <1>2, <2>1 DEF ReqOK, BeforeOK, Undisturbed, Grows
<1>5. AboutOK(q)'
  <2>1. \A i \in Ids : (Exists(i) => user'[i] # None) /\ (IsActive(i) => user'[i] # None /\ user'[i].active)
    BY DEF Exists, IsActive, Grows
  <2> DEFINE StillVouched(i) == user'[i].google # None \/ \E m \in Reqs : req'[m].id = i /\ sent'[m] > 0
  <2>2. \A i \in Ids : Exists(i) /\ Vouched(i) => StillVouched(i)
    BY VouchedStays DEF Vouched, Mailed
  <2>3. ASSUME req[q].pc = "activate", req[q].id \in Reqs PROVE StillVouched(req[q].id)
    <3>1. Exists(req[q].id) /\ Vouched(req[q].id) /\ req[q].id \in Ids
      BY <1>1, <2>3 DEF ReqOK, AboutOK, Ids
    <3> HIDE DEF StillVouched
    <3> QED BY <2>2, <3>1
  <2>4. req'[q].pc = "activate" /\ req'[q].id \in Reqs => Vouched(req[q].id)'
    BY <1>2, <2>3 DEF Vouched, Mailed
  <2> HIDE DEF StillVouched
  <2> QED BY <1>1, <1>2, <2>1, <2>4 DEF ReqOK, AboutOK, Exists, IsActive
<1>6. RefreshOK(q)'
  BY <1>1, <1>2 DEF ReqOK, RefreshOK, Undisturbed, Settles, Of
<1>7. JobOK(q)'
  BY <1>1, <1>2 DEF ReqOK, JobOK, Undisturbed, Exists, Grows
<1> QED BY <1>3, <1>4, <1>5, <1>6, <1>7 DEF ReqOK

\* The sessions stay in order while no token is stored or handed out.
LEMMA SessionsKeep ==
  ASSUME AccountsInv, Grows, Settles,
         \A i \in Ids : refresh'[i] = refresh[i] \/ refresh'[i] = None,
         issued' = issued
  PROVE  SessionsOK'
<1>1. ASSUME NEW i \in Ids, IsActive(i) PROVE IsActive(i)'
  BY <1>1 DEF IsActive, Exists, Grows
<1>2. ASSUME NEW i \in Ids, NEW t, Of(t, i) PROVE Of(t, i)'
  BY <1>2 DEF Of, Settles
<1>3. ASSUME NEW i \in Ids, refresh'[i] # None
      PROVE  IsActive(i)' /\ Of(refresh[i], i)' /\ refresh'[i] = refresh[i]
  <2>1. refresh'[i] = refresh[i]
    BY <1>3
  <2>2. IsActive(i) /\ Of(refresh[i], i)
    BY <1>3, <2>1 DEF AccountsInv, SessionsOK
  <2> QED BY <1>1, <2>1, <2>2 DEF Of, Settles
<1>4. ASSUME NEW i \in Ids
      PROVE  /\ refresh'[i] # None => IsActive(i)' /\ Of(refresh[i], i)' /\ refresh'[i] = refresh[i]
             /\ issued[i] # {} => IsActive(i)'
             /\ \A t \in issued[i] : Of(t, i)'
  BY <1>1, <1>2, <1>3 DEF AccountsInv, SessionsOK
<1> QED BY <1>4 DEF SessionsOK, Of

\* Those that a logout has ended stay in order while no session is stored or ended.
LEMMA EndedKeep ==
  ASSUME AccountsInv, Settles, ended' = ended,
         \A i \in Ids : refresh'[i] = refresh[i] \/ refresh'[i] = None
  PROVE  EndedOK'
<1>1. \A x \in ended \cap Reqs : req'[x].pc = "done"
  BY DEF AccountsInv, EndedOK, Settles
<1>2. LogoutEndsSession'
  BY DEF AccountsInv, EndedOK, LogoutEndsSession
<1> QED BY <1>1, <1>2 DEF EndedOK

\* Accounts stay in order while none is written.
LEMMA UsersKeep ==
  ASSUME AccountsInv, Settles, MailsGrow, user' = user
  PROVE  UsersOK'
<1>1. GoogleActive'
  BY DEF AccountsInv, UsersOK, GoogleActive
<1>2. ASSUME NEW i \in Reqs, user[i] # None, user[i].active
      PROVE  user[i].google # None \/ Mailed(i)'
  <2>1. user[i].google # None \/ Mailed(i)
    BY <1>2 DEF AccountsInv, UsersOK, ActiveWasProved, Accounts, Ids
  <2> QED BY <2>1, MailedStays
<1>3. ActiveWasProved'
  BY <1>2 DEF ActiveWasProved, Accounts
<1> QED BY <1>1, <1>3 DEF UsersOK

\* A request begins or goes on without a write.
LEMMA StepAlone ==
  ASSUME AccountsInv, NEW r \in Reqs, NEW step \in Records,
         req[r].pc # "done", req' = [req EXCEPT ![r] = step],
         UNCHANGED <<queueVars, user, refresh, second, issued, ended>>,
         faults' \in 0..MaxFaults,
         ReqOK(r)'
  PROVE  AccountsInv'
<1>1. TypeOK'
  BY DEF AccountsInv, TypeOK, QueueTypeOK, queueVars, Records
<1>2. QueueInv'
  BY DEF AccountsInv, QueueInv, QueueTypeOK, queueVars
<1>3. Grows /\ Settles /\ MailsGrow
  BY DEF Grows, Settles, MailsGrow, queueVars, AccountsInv, TypeOK
<1>4. ASSUME NEW q \in Reqs PROVE ReqOK(q)'
  <2>1. CASE q # r
    <3>1. Undisturbed(q)
      BY <2>1 DEF Undisturbed, queueVars
    <3> QED BY <1>3, <3>1, OthersKeep
  <2> QED BY <2>1
<1>5. SessionsOK' /\ EndedOK'
  BY <1>3, SessionsKeep, EndedKeep
<1>6. UsersOK'
  BY <1>3, UsersKeep
<1>7. (\A q \in Reqs : ReqOK(q))'
  BY <1>4
<1> QED BY <1>1, <1>2, <1>5, <1>6, <1>7 DEF AccountsInv

-----------------------------------------------------------------------------
(* Requests that begin, read or end *)

\* What is left to be said of a request that is done.
LEMMA DoneOK ==
  ASSUME AccountsInv, NEW r \in Reqs, NEW what \in Answers,
         req'[r] = Done(r, what), Grows,
         user'[r] # None => req[r].before = {},
         job'[r].state # "none" \/ sent'[r] > 0 => Exists(req[r].id),
         what \in {"registered", "mailed"} => job'[r].state # "none"
  PROVE  ReqOK(r)'
<1>1. /\ req'[r].pc = "done" /\ req'[r].answer = what /\ req'[r].op = req[r].op
      /\ req'[r].id = req[r].id /\ req'[r].before = req[r].before
  BY DoneIs DEF AccountsInv
<1>2. CreatesOK(r) /\ BeforeOK(r)
  BY DEF AccountsInv, ReqOK
<1>3. CreatesOK(r)' /\ BeforeOK(r)'
  BY <1>1, <1>2 DEF CreatesOK, BeforeOK
<1>4. AboutOK(r)' /\ RefreshOK(r)'
  BY <1>1 DEF AboutOK, RefreshOK
<1>5. JobOK(r)'
  BY <1>1 DEF JobOK, Exists, Grows
<1> QED BY <1>3, <1>4, <1>5 DEF ReqOK

\* A request that ends without a write.
LEMMA EndAlone ==
  ASSUME AccountsInv, NEW r \in Reqs, NEW what \in Answers \ {"registered", "mailed"},
         req[r].pc # "done", req' = [req EXCEPT ![r] = Done(r, what)],
         UNCHANGED <<queueVars, user, refresh, second, issued, ended>>,
         faults' \in 0..MaxFaults
  PROVE  AccountsInv'
<1>1. Done(r, what) \in Records
  BY DoneIs DEF AccountsInv
<1>2. req'[r] = Done(r, what)
  BY DEF AccountsInv, TypeOK
<1>3. Grows
  BY DEF Grows
<1>4. (user'[r] # None => req[r].before = {}) /\ job[r].state = "none" /\ sent[r] = 0
  BY DEF AccountsInv, ReqOK, BeforeOK, JobOK
<1>5. ReqOK(r)'
  BY <1>2, <1>3, <1>4, DoneOK DEF queueVars
<1> QED BY <1>1, <1>5, StepAlone

\* A request that is asked for, with what it comes with.
LEMMA BeginOne ==
  ASSUME AccountsInv, NEW r \in Reqs, NEW op \in Ops, NEW step, Begin(r, op, step),
         [step EXCEPT !.op = op] \in Records,
         ReqOK(r)'
  PROVE  AccountsInv'
<1>1. req[r].pc # "done" /\ req' = [req EXCEPT ![r] = [step EXCEPT !.op = op]]
  BY DEF Begin
<1>2. faults' \in 0..MaxFaults
  BY DEF Begin, AccountsInv, TypeOK
<1> QED BY <1>1, <1>2, StepAlone DEF Begin

\* Nothing has happened yet to a request that is idle.
LEMMA IdleOK ==
  ASSUME AccountsInv, NEW r \in Reqs, req[r].pc = "idle"
  PROVE  user[r] = None /\ job[r].state = "none" /\ sent[r] = 0
BY DEF AccountsInv, ReqOK, CreatesOK, JobOK

\* Every kind of request that can be made keeps the invariant.
LEMMA Arrives ==
  ASSUME AccountsInv, NEW r \in Reqs, Arrive(r)
  PROVE  AccountsInv'
<1>1. /\ Idle \in Records /\ Idle.op = "none" /\ Idle.id = None /\ Idle.email = None
      /\ Idle.key = None /\ Idle.before = {} /\ Idle.answer = None /\ Idle.raced = FALSE
  BY IdleIs DEF Idle
<1>2. r \in Ids /\ None \notin {"registered", "mailed"}
  BY NoneAssumption DEF Ids, Answers
<1>3. \A e \in Emails : WithEmail(e) \in SUBSET Ids
  BY DEF WithEmail, Accounts
<1>4. \A op, step : Begin(r, op, step) =>
        /\ op \in Ops /\ req[r].pc = "idle"
        /\ req'[r] = [step EXCEPT !.op = op]
        /\ UNCHANGED <<user, job, sent, ended>>
  BY DEF Begin, queueVars, AccountsInv, TypeOK
<1>5. CASE register(r)
  <2>1. PICK e \in Emails :
          Begin(r, "register", [Idle EXCEPT !.pc = "create", !.id = r, !.email = e,
                                            !.before = WithEmail(e)])
    BY <1>5 DEF register
  <2> DEFINE s == [Idle EXCEPT !.pc = "create", !.id = r, !.email = e, !.before = WithEmail(e)]
             t == [s EXCEPT !.op = "register"]
  <2>2. /\ t \in Records /\ t.pc = "create" /\ t.op = "register" /\ t.id = r /\ t.email = e
        /\ t.before = WithEmail(e) /\ t.answer = None
    <3>1. "create" \in Pcs /\ "register" \in Ops
      BY <1>4, <2>1 DEF Pcs
    <3> HIDE DEF Idle
    <3> QED BY <1>1, <1>2, <1>3, <3>1 DEF Records
  <2>3. req'[r] = t /\ req[r].pc = "idle" /\ UNCHANGED <<user, job, sent, ended>>
    BY <1>4, <2>1
  <2>4. ReqOK(r)'
    <3> HIDE DEF t
    <3>1. CreatesOK(r)' /\ BeforeOK(r)'
      BY <2>2, <2>3, IdleOK DEF CreatesOK, BeforeOK, WithEmail, Accounts
    <3>2. AboutOK(r)' /\ RefreshOK(r)' /\ JobOK(r)'
      BY <1>2, <2>2, <2>3, IdleOK DEF AboutOK, RefreshOK, JobOK
    <3> QED BY <3>1, <3>2 DEF ReqOK
  <2> QED BY <1>4, <2>1, <2>2, <2>4, BeginOne
<1>6. CASE login(r)
  <2>1. PICK e \in Emails :
          Begin(r, "login", [Idle EXCEPT !.pc = "validate", !.email = e])
    BY <1>6 DEF login
  <2> DEFINE s == [Idle EXCEPT !.pc = "validate", !.email = e]
             t == [s EXCEPT !.op = "login"]
  <2>2. /\ t \in Records /\ t.pc = "validate" /\ t.op = "login" /\ t.answer = None
        /\ t.before = {}
    <3>1. "validate" \in Pcs /\ "login" \in Ops
      BY <1>4, <2>1 DEF Pcs
    <3> HIDE DEF Idle
    <3> QED BY <1>1, <1>2, <1>3, <2>1, <3>1 DEF Records
  <2>3. req'[r] = t /\ req[r].pc = "idle" /\ UNCHANGED <<user, job, sent, ended>>
    BY <1>4, <2>1
  <2>4. ReqOK(r)'
    <3> HIDE DEF t
    <3>1. CreatesOK(r)' /\ BeforeOK(r)'
      BY <2>2, <2>3, IdleOK DEF CreatesOK, BeforeOK, WithEmail, Accounts
    <3>2. AboutOK(r)' /\ RefreshOK(r)' /\ JobOK(r)'
      BY <1>2, <2>2, <2>3, IdleOK DEF AboutOK, RefreshOK, JobOK
    <3> QED BY <3>1, <3>2 DEF ReqOK
  <2> QED BY <1>4, <2>1, <2>2, <2>4, BeginOne
<1>7. CASE forgotPassword(r)
  <2>1. PICK e \in Emails :
          Begin(r, "forgot", [Idle EXCEPT !.pc = "forgot", !.email = e])
    BY <1>7 DEF forgotPassword
  <2> DEFINE s == [Idle EXCEPT !.pc = "forgot", !.email = e]
             t == [s EXCEPT !.op = "forgot"]
  <2>2. /\ t \in Records /\ t.pc = "forgot" /\ t.op = "forgot" /\ t.answer = None
        /\ t.before = {}
    <3>1. "forgot" \in Pcs /\ "forgot" \in Ops
      BY <1>4, <2>1 DEF Pcs
    <3> HIDE DEF Idle
    <3> QED BY <1>1, <1>2, <1>3, <2>1, <3>1 DEF Records
  <2>3. req'[r] = t /\ req[r].pc = "idle" /\ UNCHANGED <<user, job, sent, ended>>
    BY <1>4, <2>1
  <2>4. ReqOK(r)'
    <3> HIDE DEF t
    <3>1. CreatesOK(r)' /\ BeforeOK(r)'
      BY <2>2, <2>3, IdleOK DEF CreatesOK, BeforeOK, WithEmail, Accounts
    <3>2. AboutOK(r)' /\ RefreshOK(r)' /\ JobOK(r)'
      BY <1>2, <2>2, <2>3, IdleOK DEF AboutOK, RefreshOK, JobOK
    <3> QED BY <3>1, <3>2 DEF ReqOK
  <2> QED BY <1>4, <2>1, <2>2, <2>4, BeginOne
<1>8. CASE logout(r)
  <2>1. PICK i \in Ids : HasToken(i) /\
          Begin(r, "logout", [Idle EXCEPT !.pc = "logout", !.id = i])
    BY <1>8 DEF logout
  <2> DEFINE s == [Idle EXCEPT !.pc = "logout", !.id = i]
             t == [s EXCEPT !.op = "logout"]
  <2>2. /\ t \in Records /\ t.pc = "logout" /\ t.op = "logout" /\ t.answer = None
        /\ t.id = i /\ t.before = {}
    <3>1. "logout" \in Pcs /\ "logout" \in Ops
      BY <1>4, <2>1 DEF Pcs
    <3> HIDE DEF Idle
    <3> QED BY <1>1, <1>2, <1>3, <2>1, <3>1 DEF Records
  <2>3. req'[r] = t /\ req[r].pc = "idle" /\ UNCHANGED <<user, job, sent, ended>>
    BY <1>4, <2>1
  <2>4. ReqOK(r)'
    <3> HIDE DEF t
    <3>1. CreatesOK(r)' /\ BeforeOK(r)'
      BY <2>2, <2>3, IdleOK DEF CreatesOK, BeforeOK, WithEmail, Accounts
    <3>2. AboutOK(r)' /\ RefreshOK(r)' /\ JobOK(r)'
      <4>1. Exists(i)
        BY <2>1, TokenIs
      <4> QED BY <1>2, <2>2, <2>3, <4>1, IdleOK DEF AboutOK, RefreshOK, JobOK, Exists
    <3> QED BY <3>1, <3>2 DEF ReqOK
  <2> QED BY <1>4, <2>1, <2>2, <2>4, BeginOne
<1>9. CASE changePassword(r)
  <2>1. PICK i \in Ids : HasToken(i) /\
          Begin(r, "change", [Idle EXCEPT !.pc = "change", !.id = i])
    BY <1>9 DEF changePassword
  <2> DEFINE s == [Idle EXCEPT !.pc = "change", !.id = i]
             t == [s EXCEPT !.op = "change"]
  <2>2. /\ t \in Records /\ t.pc = "change" /\ t.op = "change" /\ t.answer = None
        /\ t.id = i /\ t.before = {}
    <3>1. "change" \in Pcs /\ "change" \in Ops
      BY <1>4, <2>1 DEF Pcs
    <3> HIDE DEF Idle
    <3> QED BY <1>1, <1>2, <1>3, <2>1, <3>1 DEF Records
  <2>3. req'[r] = t /\ req[r].pc = "idle" /\ UNCHANGED <<user, job, sent, ended>>
    BY <1>4, <2>1
  <2>4. ReqOK(r)'
    <3> HIDE DEF t
    <3>1. CreatesOK(r)' /\ BeforeOK(r)'
      BY <2>2, <2>3, IdleOK DEF CreatesOK, BeforeOK, WithEmail, Accounts
    <3>2. AboutOK(r)' /\ RefreshOK(r)' /\ JobOK(r)'
      <4>1. Exists(i)
        BY <2>1, TokenIs
      <4> QED BY <1>2, <2>2, <2>3, <4>1, IdleOK DEF AboutOK, RefreshOK, JobOK, Exists
    <3> QED BY <3>1, <3>2 DEF ReqOK
  <2> QED BY <1>4, <2>1, <2>2, <2>4, BeginOne
<1>10. CASE refreshToken(r)
  <2>0. PICK i \in Ids :
          \E k \in issued[i] :
            Begin(r, "refresh", [Idle EXCEPT !.pc = "refresh", !.id = i, !.key = k])
    BY <1>10 DEF refreshToken
  <2>1. PICK k \in issued[i] :
          Begin(r, "refresh", [Idle EXCEPT !.pc = "refresh", !.id = i, !.key = k])
    BY <2>0
  <2> DEFINE s == [Idle EXCEPT !.pc = "refresh", !.id = i, !.key = k]
             t == [s EXCEPT !.op = "refresh"]
  <2>2. /\ t \in Records /\ t.pc = "refresh" /\ t.op = "refresh" /\ t.answer = None
        /\ t.id = i /\ t.key = k /\ k \in Tokens /\ t.before = {}
    <3>1. "refresh" \in Pcs /\ "refresh" \in Ops
      BY <1>4, <2>1 DEF Pcs
    <3>2. k \in Tokens
      BY <2>1 DEF AccountsInv, TypeOK
    <3> HIDE DEF Idle
    <3> QED BY <1>1, <1>2, <1>3, <2>1, <3>1, <3>2 DEF Records
  <2>3. req'[r] = t /\ req[r].pc = "idle" /\ UNCHANGED <<user, job, sent, ended>>
    BY <1>4, <2>1
  <2>4. ReqOK(r)'
    <3> HIDE DEF t
    <3>1. CreatesOK(r)' /\ BeforeOK(r)'
      BY <2>2, <2>3, IdleOK DEF CreatesOK, BeforeOK, WithEmail, Accounts
    <3>2. AboutOK(r)' /\ RefreshOK(r)' /\ JobOK(r)'
      <4>1. IsActive(i) /\ Of(k, i)
        BY <2>1 DEF AccountsInv, SessionsOK
      <4>2. Of(k, i)'
        BY <2>3, <4>1, <2>1, <1>4, IdleOK DEF Of, Begin, AccountsInv, TypeOK
      <4> QED BY <1>2, <2>2, <2>3, <4>1, <4>2, IdleOK DEF AboutOK, RefreshOK, JobOK, IsActive, Exists
    <3> QED BY <3>1, <3>2 DEF ReqOK
  <2> QED BY <1>4, <2>1, <2>2, <2>4, BeginOne
<1>11. CASE verifyEmail(r)
  <2>1. PICK i \in Ids : HasToken(i) /\
          Begin(r, "verify", [Idle EXCEPT !.pc = "activate", !.id = i])
    BY <1>11 DEF verifyEmail
  <2> DEFINE s == [Idle EXCEPT !.pc = "activate", !.id = i]
             t == [s EXCEPT !.op = "verify"]
  <2>2. /\ t \in Records /\ t.pc = "activate" /\ t.op = "verify" /\ t.answer = None
        /\ t.id = i /\ t.before = {}
    <3>1. "activate" \in Pcs /\ "verify" \in Ops
      BY <1>4, <2>1 DEF Pcs
    <3> HIDE DEF Idle
    <3> QED BY <1>1, <1>2, <1>3, <2>1, <3>1 DEF Records
  <2>3. req'[r] = t /\ req[r].pc = "idle" /\ UNCHANGED <<user, job, sent, ended>>
    BY <1>4, <2>1
  <2>4. ReqOK(r)'
    <3>0. Settles /\ MailsGrow /\ Grows
      <4>1. req' = [req EXCEPT ![r] = t] /\ req[r].pc # "done" /\ req \in [Reqs -> Records]
        BY <2>1, <2>3 DEF Begin, AccountsInv, TypeOK, Records
      <4> HIDE DEF t
      <4> QED BY <2>3, <4>1 DEF Settles, MailsGrow, Grows
    <3>a. Exists(i)' /\ (i \in Reqs => Vouched(i)')
      <4>1. Exists(i) /\ (i \in Reqs => Vouched(i))
        BY <2>1, TokenIs
      <4> QED BY <2>3, <3>0, <4>1, VouchedStays DEF Exists
    <3> HIDE DEF t
    <3>1. CreatesOK(r)' /\ BeforeOK(r)'
      BY <2>2, <2>3, IdleOK DEF CreatesOK, BeforeOK, WithEmail, Accounts
    <3>2. AboutOK(r)'
      BY <2>2, <2>3, <3>a DEF AboutOK, Vouched, Mailed, Exists
    <3>3. RefreshOK(r)' /\ JobOK(r)'
      BY <1>2, <2>2, <2>3, IdleOK DEF RefreshOK, JobOK
    <3> QED BY <3>1, <3>2, <3>3 DEF ReqOK
  <2> QED BY <1>4, <2>1, <2>2, <2>4, BeginOne
<1>12. CASE resetPassword(r)
  <2>1. PICK i \in Ids : HasToken(i) /\
          Begin(r, "reset", [Idle EXCEPT !.pc = "update", !.id = i])
    BY <1>12 DEF resetPassword
  <2> DEFINE s == [Idle EXCEPT !.pc = "update", !.id = i]
             t == [s EXCEPT !.op = "reset"]
  <2>2. /\ t \in Records /\ t.pc = "update" /\ t.op = "reset" /\ t.answer = None
        /\ t.id = i /\ t.before = {}
    <3>1. "update" \in Pcs /\ "reset" \in Ops
      BY <1>4, <2>1 DEF Pcs
    <3> HIDE DEF Idle
    <3> QED BY <1>1, <1>2, <1>3, <2>1, <3>1 DEF Records
  <2>3. req'[r] = t /\ req[r].pc = "idle" /\ UNCHANGED <<user, job, sent, ended>>
    BY <1>4, <2>1
  <2>4. ReqOK(r)'
    <3> HIDE DEF t
    <3>1. CreatesOK(r)' /\ BeforeOK(r)'
      BY <2>2, <2>3, IdleOK DEF CreatesOK, BeforeOK, WithEmail, Accounts
    <3>2. AboutOK(r)' /\ RefreshOK(r)' /\ JobOK(r)'
      <4>1. Exists(i)
        BY <2>1, TokenIs
      <4> QED BY <1>2, <2>2, <2>3, <4>1, IdleOK DEF AboutOK, RefreshOK, JobOK, Exists
    <3> QED BY <3>1, <3>2 DEF ReqOK
  <2> QED BY <1>4, <2>1, <2>2, <2>4, BeginOne
<1>13. CASE google(r)
  <2>1. PICK e \in Emails, g \in Googles :
          Begin(r, "google", [Idle EXCEPT !.pc = "byGoogleId", !.email = e, !.key = g, !.before = WithEmail(e)])
    BY <1>13 DEF google
  <2> DEFINE s == [Idle EXCEPT !.pc = "byGoogleId", !.email = e, !.key = g, !.before = WithEmail(e)]
             t == [s EXCEPT !.op = "google"]
  <2>2. /\ t \in Records /\ t.pc = "byGoogleId" /\ t.op = "google" /\ t.answer = None
        /\ t.email = e /\ t.key = g /\ t.before = WithEmail(e)
    <3>1. "byGoogleId" \in Pcs /\ "google" \in Ops
      BY <1>4, <2>1 DEF Pcs
    <3> HIDE DEF Idle
    <3> QED BY <1>1, <1>2, <1>3, <2>1, <3>1 DEF Records
  <2>3. req'[r] = t /\ req[r].pc = "idle" /\ UNCHANGED <<user, job, sent, ended>>
    BY <1>4, <2>1
  <2>4. ReqOK(r)'
    <3> HIDE DEF t
    <3>1. CreatesOK(r)' /\ BeforeOK(r)'
      BY <2>2, <2>3, IdleOK DEF CreatesOK, BeforeOK, WithEmail, Accounts
    <3>2. AboutOK(r)' /\ RefreshOK(r)' /\ JobOK(r)'
      BY <1>2, <2>2, <2>3, IdleOK DEF AboutOK, RefreshOK, JobOK
    <3> QED BY <3>1, <3>2 DEF ReqOK
  <2> QED BY <1>4, <2>1, <2>2, <2>4, BeginOne
<1> QED BY <1>5, <1>6, <1>7, <1>8, <1>9, <1>10, <1>11, <1>12, <1>13 DEF Arrive

\* A request that has read something and goes on.
LEMMA ReadOne ==
  ASSUME AccountsInv, NEW r \in Reqs, NEW step \in Records, req[r].pc # "done",
         Read(r, step), ReqOK(r)'
  PROVE  AccountsInv'
<1>1. faults' \in 0..MaxFaults
  BY DEF Read, AccountsInv, TypeOK
<1> QED BY <1>1, StepAlone DEF Read

\* A request that has read something and is answered keeps the invariant.
LEMMA ReadEnds ==
  ASSUME AccountsInv, NEW r \in Reqs, NEW what \in Answers \ {"registered", "mailed"},
         req[r].pc # "done", Read(r, Done(r, what))
  PROVE  AccountsInv'
<1>1. faults' \in 0..MaxFaults
  BY DEF Read, AccountsInv, TypeOK
<1> QED BY <1>1, EndAlone DEF Read

\* What it has read allows the next step: it goes on with what it knew, but for the
\* account, the key and whether it was raced.
MayGoOn(r, s) ==
  /\ s \in Records
  /\ s.pc \in {"insert", "set", "store", "update", "byEmail", "linkCheck", "link",
               "createFromGoogle"}
  /\ s.op = req[r].op /\ s.email = req[r].email
  /\ s.before = req[r].before /\ s.answer = req[r].answer
  /\ s.id = req[r].id \/ s.op # "register"
  /\ s.pc \in {"insert", "createFromGoogle"} => s.id = r /\ s.before = {}
  /\ s.pc \in {"insert", "byEmail", "createFromGoogle"} => user[r] = None
  /\ s.pc \in {"insert", "byEmail", "linkCheck", "link", "createFromGoogle"} => s.email \in Emails
  /\ s.pc \in {"byEmail", "linkCheck", "link", "createFromGoogle"} => s.key \in Googles
  /\ s.pc = "byEmail" => req[r].pc = "byGoogleId"
  /\ s.pc \in {"set", "update", "linkCheck", "link"} => Exists(s.id)
  /\ s.pc = "store" => IsActive(s.id)
  /\ s.op = "refresh" =>
       /\ s.pc = "store" /\ s.key = req[r].key /\ s.id = req[r].id
       /\ s.key.root \in ended => s.raced

\* A request that has read something and goes on keeps the invariant.
LEMMA ReadGoesOn ==
  ASSUME AccountsInv, NEW r \in Reqs, NEW step, MayGoOn(r, step),
         req[r].pc \notin {"idle", "done"}, Read(r, step)
  PROVE  AccountsInv'
<1> USE DEF MayGoOn
<1>1. req'[r] = step /\ UNCHANGED <<user, job, sent, ended>>
  BY DEF Read, AccountsInv, TypeOK, queueVars
<1>2. ReqOK(r)
  BY DEF AccountsInv
<1>3. CreatesOK(r)'
  BY <1>1, <1>2 DEF ReqOK, CreatesOK
<1>4. BeforeOK(r)'
  BY <1>1, <1>2 DEF ReqOK, BeforeOK
<1>5. AboutOK(r)'
  BY <1>1, <1>2 DEF ReqOK, AboutOK, Exists, IsActive
<1>6. RefreshOK(r)'
  <2>1. ASSUME NEW i, NEW t, Of(t, i) PROVE Of(t, i)'
    BY <2>1 DEF Of, Read, AccountsInv, TypeOK
  <2> QED BY <1>1, <1>2, <2>1 DEF ReqOK, RefreshOK
<1>7. JobOK(r)'
  BY <1>1, <1>2 DEF ReqOK, JobOK, Exists
<1>8. ReqOK(r)'
  BY <1>3, <1>4, <1>5, <1>6, <1>7 DEF ReqOK
<1> QED BY <1>8, ReadOne

\* Every step that reads the table or a key and writes nothing keeps the invariant.
LEMMA Reads ==
  ASSUME AccountsInv, NEW r \in Reqs,
         \/ Look(r) \/ validateUser(r) \/ Compare(r) \/ Forgotten(r) \/ CurrentPassword(r)
         \/ ByGoogleId(r) \/ ByEmail(r) \/ LinkCheck(r)
  PROVE  AccountsInv'
<1>1. /\ ReqOK(r) /\ r \in Ids /\ req[r] \in Records
      /\ user \in [Ids -> Users \cup {None}] /\ None \notin Users
  BY NoneAssumption DEF AccountsInv, TypeOK, Records, Ids
<1>2. ASSUME NEW what \in {"conflict", "refused", "error", "no such user"},
             req[r].pc # "done", Read(r, Done(r, what))
      PROVE  AccountsInv'
  BY <1>2, ReadEnds DEF Answers
<1>3. ASSUME NEW e, NEW i \in WithEmail(e)
      PROVE  Exists(i) /\ user[i].email = e /\ i \in Ids /\ user[i] \in Users
  BY <1>1 DEF WithEmail, Accounts, Exists
<1>4. CASE Look(r)
  <2>1. CASE WithEmail(req[r].email) # {}
    BY <1>2, <1>4, <2>1 DEF Look
  <2>2. CASE WithEmail(req[r].email) = {}
    <3>1. Read(r, At(r, "insert")) /\ req[r].pc = "create"
      BY <1>4, <2>2 DEF Look
    <3>2. req[r].before = {}
      BY <1>1, <2>2, <3>1 DEF ReqOK, BeforeOK, WithEmail, Accounts, Records
    <3>3. MayGoOn(r, At(r, "insert"))
      BY <1>1, <3>1, <3>2, AtIs DEF MayGoOn, AccountsInv, ReqOK, CreatesOK, RefreshOK, Pcs
    <3> QED BY <3>1, <3>3, ReadGoesOn
  <2> QED BY <2>1, <2>2
<1>5. CASE validateUser(r)
  <2>1. CASE Read(r, Done(r, "refused"))
    BY <1>2, <1>5, <2>1 DEF validateUser
  <2>2. ASSUME NEW i \in WithEmail(req[r].email), Read(r, Done(r, "error"))
        PROVE  AccountsInv'
    BY <1>2, <1>5, <2>2 DEF validateUser
  <2>3. ASSUME NEW i \in WithEmail(req[r].email), user[i].active,
               Read(r, [At(r, "store") EXCEPT !.id = i])
        PROVE  AccountsInv'
    <3> DEFINE s == [At(r, "store") EXCEPT !.id = i]
    <3>1. req[r].pc = "validate"
      BY <1>5 DEF validateUser
    <3>2. IsActive(i) /\ i \in Ids
      BY <1>3, <2>3 DEF IsActive
    <3>3. /\ At(r, "store") \in Records /\ At(r, "store").pc = "store"
          /\ At(r, "store").op = req[r].op /\ At(r, "store").email = req[r].email
          /\ At(r, "store").before = req[r].before /\ At(r, "store").answer = req[r].answer
      BY AtIs DEF AccountsInv, Pcs
    <3>4. /\ s \in Records /\ s.pc = "store" /\ s.id = i /\ s.op = req[r].op
          /\ s.email = req[r].email /\ s.before = req[r].before /\ s.answer = req[r].answer
      BY <3>2, <3>3 DEF Records
    <3> HIDE DEF s
    <3>5. MayGoOn(r, s)
      BY <1>1, <3>1, <3>2, <3>4 DEF MayGoOn, ReqOK, CreatesOK, RefreshOK
    <3> QED BY <2>3, <3>1, <3>5, ReadGoesOn DEF s
  <2> QED BY <1>5, <2>1, <2>2, <2>3 DEF validateUser
<1>6. CASE Compare(r)
  <2> DEFINE stored == refresh[req[r].id]
             given  == req[r].key
  <2>1. CASE stored = None \/ stored.second # given.second
    BY <1>2, <1>6, <2>1 DEF Compare
  <2>2. CASE ~(stored = None \/ stored.second # given.second)
    <3> DEFINE raced == given.raced \/ stored # given
               s == [At(r, "store") EXCEPT !.raced = raced]
    <3>1. req[r].pc = "refresh" /\ Read(r, s)
      BY <1>6, <2>2 DEF Compare
    <3>2. raced \in BOOLEAN /\ IsActive(req[r].id) /\ req[r].op = "refresh"
      <4>1. given \in Tokens /\ IsActive(req[r].id) /\ req[r].op = "refresh"
        BY <1>1, <3>1 DEF ReqOK, RefreshOK, AboutOK
      <4> QED BY <4>1 DEF Tokens
    <3>5. given.root \in ended => raced
      BY <2>2, <3>1, <3>2 DEF AccountsInv, EndedOK, LogoutEndsSession, IsActive, Exists
    <3> HIDE DEF raced
    <3>3. /\ At(r, "store") \in Records /\ At(r, "store").pc = "store"
          /\ At(r, "store").op = req[r].op /\ At(r, "store").email = req[r].email
          /\ At(r, "store").before = req[r].before /\ At(r, "store").answer = req[r].answer
          /\ At(r, "store").key = req[r].key /\ At(r, "store").id = req[r].id
      BY AtIs DEF AccountsInv, Pcs
    <3>4. /\ s \in Records /\ s.pc = "store" /\ s.op = req[r].op /\ s.email = req[r].email
          /\ s.before = req[r].before /\ s.answer = req[r].answer
          /\ s.id = req[r].id /\ s.key = req[r].key /\ s.raced = raced
      BY <3>2, <3>3 DEF Records
    <3> HIDE DEF s
    <3>6. MayGoOn(r, s)
      BY <1>1, <3>1, <3>2, <3>4, <3>5 DEF MayGoOn, ReqOK, RefreshOK
    <3> QED BY <3>1, <3>6, ReadGoesOn
  <2> QED BY <2>1, <2>2
<1>7. CASE Forgotten(r)
  <2>1. CASE Read(r, Done(r, "no such user"))
    BY <1>2, <1>7, <2>1 DEF Forgotten
  <2>2. ASSUME NEW i \in WithEmail(req[r].email), Read(r, [At(r, "set") EXCEPT !.id = i])
        PROVE  AccountsInv'
    <3> DEFINE s == [At(r, "set") EXCEPT !.id = i]
    <3>1. req[r].pc = "forgot"
      BY <1>7 DEF Forgotten
    <3>2. Exists(i) /\ i \in Ids
      BY <1>3
    <3>3. /\ At(r, "set") \in Records /\ At(r, "set").pc = "set"
          /\ At(r, "set").op = req[r].op /\ At(r, "set").email = req[r].email
          /\ At(r, "set").before = req[r].before /\ At(r, "set").answer = req[r].answer
          /\ At(r, "set").key = req[r].key /\ At(r, "set").id = req[r].id
      BY AtIs DEF AccountsInv, Pcs
    <3>4. /\ s \in Records /\ s.pc = "set" /\ s.op = req[r].op /\ s.email = req[r].email
          /\ s.before = req[r].before /\ s.answer = req[r].answer
          /\ s.id = i
      BY <3>2, <3>3 DEF Records
    <3> HIDE DEF s
    <3>5. MayGoOn(r, s)
      BY <1>1, <3>1, <3>2, <3>4 DEF MayGoOn, ReqOK, CreatesOK, RefreshOK
    <3> QED BY <2>2, <3>1, <3>5, ReadGoesOn DEF s
  <2> QED BY <1>7, <2>1, <2>2 DEF Forgotten
<1>8. CASE CurrentPassword(r)
  <2> DEFINE email == user[req[r].id].email
  <2>1. req[r].pc = "change" /\ Exists(req[r].id)
    BY <1>1, <1>8 DEF CurrentPassword, ReqOK, AboutOK
  <2>2. ASSUME NEW what \in {"refused", "error"}, Read(r, Done(r, what)) PROVE AccountsInv'
    BY <1>2, <2>1, <2>2
  <2>3. ASSUME NEW i \in WithEmail(email), user[i].password # None,
               Read(r, [At(r, "update") EXCEPT !.key = user[i].password])
        PROVE  AccountsInv'
    <3> DEFINE p == user[i].password
               s == [At(r, "update") EXCEPT !.key = p]
    <3>1. req[r].pc = "change" /\ Exists(req[r].id)
      BY <2>1
    <3>2. p \in Ids
      BY <1>3, <2>3 DEF Users
    <3> HIDE DEF p
    <3>3. /\ At(r, "update") \in Records /\ At(r, "update").pc = "update"
          /\ At(r, "update").op = req[r].op /\ At(r, "update").email = req[r].email
          /\ At(r, "update").before = req[r].before /\ At(r, "update").answer = req[r].answer
          /\ At(r, "update").key = req[r].key /\ At(r, "update").id = req[r].id
      BY AtIs DEF AccountsInv, Pcs
    <3>4. /\ s \in Records /\ s.pc = "update" /\ s.op = req[r].op /\ s.email = req[r].email
          /\ s.before = req[r].before /\ s.answer = req[r].answer
          /\ s.id = req[r].id
      BY <3>2, <3>3 DEF Records
    <3> HIDE DEF s
    <3>5. MayGoOn(r, s)
      BY <1>1, <3>1, <3>2, <3>4 DEF MayGoOn, ReqOK, RefreshOK
    <3> QED BY <2>3, <3>1, <3>5, ReadGoesOn DEF s, p
  <2> QED BY <1>8, <2>2, <2>3 DEF CurrentPassword
<1>9. CASE ByGoogleId(r)
  <2>1. req[r].pc = "byGoogleId"
    BY <1>9 DEF ByGoogleId
  <2>2. CASE Read(r, At(r, "byEmail"))
    <3>1. MayGoOn(r, At(r, "byEmail"))
      BY <1>1, <2>1, AtIs DEF MayGoOn, AccountsInv, ReqOK, CreatesOK, RefreshOK, Pcs
    <3> QED BY <2>1, <2>2, <3>1, ReadGoesOn
  <2>3. ASSUME NEW i \in WithGoogle(req[r].key), Read(r, [At(r, "store") EXCEPT !.id = i])
        PROVE  AccountsInv'
    <3> DEFINE s == [At(r, "store") EXCEPT !.id = i]
    <3>1. i \in Ids /\ user[i] # None /\ user[i].google = req[r].key
      BY DEF WithGoogle, Accounts
    <3>2. IsActive(i) /\ i \in Ids
      <4>1. req[r].key # None
        BY <1>1, <2>1, AccountsAssumption DEF ReqOK, CreatesOK
      <4> QED BY <3>1, <4>1 DEF AccountsInv, UsersOK, GoogleActive, IsActive, Exists
    <3>3. /\ At(r, "store") \in Records /\ At(r, "store").pc = "store"
          /\ At(r, "store").op = req[r].op /\ At(r, "store").email = req[r].email
          /\ At(r, "store").before = req[r].before /\ At(r, "store").answer = req[r].answer
          /\ At(r, "store").key = req[r].key /\ At(r, "store").id = req[r].id
      BY AtIs DEF AccountsInv, Pcs
    <3>4. /\ s \in Records /\ s.pc = "store" /\ s.op = req[r].op /\ s.email = req[r].email
          /\ s.before = req[r].before /\ s.answer = req[r].answer
          /\ s.id = i
      BY <3>2, <3>3 DEF Records
    <3> HIDE DEF s
    <3>5. MayGoOn(r, s)
      BY <1>1, <2>1, <3>2, <3>4 DEF MayGoOn, ReqOK, CreatesOK, RefreshOK
    <3> QED BY <2>1, <2>3, <3>5, ReadGoesOn DEF s
  <2> QED BY <1>9, <2>2, <2>3 DEF ByGoogleId
<1>10. CASE ByEmail(r)
  <2>1. req[r].pc = "byEmail"
    BY <1>10 DEF ByEmail
  <2>2. CASE /\ WithEmail(req[r].email) = {}
             /\ Read(r, [At(r, "createFromGoogle") EXCEPT !.id = r])
    <3> DEFINE s == [At(r, "createFromGoogle") EXCEPT !.id = r]
    <3>1. req[r].before = {}
      BY <1>1, <2>1, <2>2 DEF ReqOK, BeforeOK, WithEmail, Accounts, Records
    <3>2. r \in Ids
      BY <1>1
    <3>3. /\ At(r, "createFromGoogle") \in Records /\ At(r, "createFromGoogle").pc = "createFromGoogle"
          /\ At(r, "createFromGoogle").op = req[r].op /\ At(r, "createFromGoogle").email = req[r].email
          /\ At(r, "createFromGoogle").before = req[r].before /\ At(r, "createFromGoogle").answer = req[r].answer
          /\ At(r, "createFromGoogle").key = req[r].key /\ At(r, "createFromGoogle").id = req[r].id
      BY AtIs DEF AccountsInv, Pcs
    <3>4. /\ s \in Records /\ s.pc = "createFromGoogle" /\ s.op = req[r].op /\ s.email = req[r].email
          /\ s.before = req[r].before /\ s.answer = req[r].answer
          /\ s.id = r /\ s.key = req[r].key
      BY <3>2, <3>3 DEF Records
    <3> HIDE DEF s
    <3>5. MayGoOn(r, s)
      BY <1>1, <2>1, <3>1, <3>2, <3>4 DEF MayGoOn, ReqOK, CreatesOK, RefreshOK
    <3> QED BY <2>1, <2>2, <3>5, ReadGoesOn DEF s
  <2>3. ASSUME NEW i \in WithEmail(req[r].email), Read(r, [At(r, "linkCheck") EXCEPT !.id = i])
        PROVE  AccountsInv'
    <3> DEFINE s == [At(r, "linkCheck") EXCEPT !.id = i]
    <3>2. Exists(i) /\ i \in Ids
      BY <1>3
    <3>3. /\ At(r, "linkCheck") \in Records /\ At(r, "linkCheck").pc = "linkCheck"
          /\ At(r, "linkCheck").op = req[r].op /\ At(r, "linkCheck").email = req[r].email
          /\ At(r, "linkCheck").before = req[r].before /\ At(r, "linkCheck").answer = req[r].answer
          /\ At(r, "linkCheck").key = req[r].key /\ At(r, "linkCheck").id = req[r].id
      BY AtIs DEF AccountsInv, Pcs
    <3>4. /\ s \in Records /\ s.pc = "linkCheck" /\ s.op = req[r].op /\ s.email = req[r].email
          /\ s.before = req[r].before /\ s.answer = req[r].answer
          /\ s.id = i /\ s.key = req[r].key
      BY <3>2, <3>3 DEF Records
    <3> HIDE DEF s
    <3>5. MayGoOn(r, s)
      BY <1>1, <2>1, <3>2, <3>4 DEF MayGoOn, ReqOK, CreatesOK, RefreshOK
    <3> QED BY <2>1, <2>3, <3>5, ReadGoesOn DEF s
  <2> QED BY <1>10, <2>2, <2>3 DEF ByEmail
<1>11. CASE LinkCheck(r)
  <2>1. req[r].pc = "linkCheck"
    BY <1>11 DEF LinkCheck
  <2>2. CASE Read(r, At(r, "link"))
    <3>1. MayGoOn(r, At(r, "link"))
      BY <1>1, <2>1, AtIs DEF MayGoOn, AccountsInv, ReqOK, CreatesOK, AboutOK, RefreshOK, Pcs
    <3> QED BY <2>1, <2>2, <3>1, ReadGoesOn
  <2>3. CASE Read(r, Done(r, "conflict"))
    BY <1>2, <2>1, <2>3
  <2> QED BY <1>11, <2>2, <2>3 DEF LinkCheck
<1> QED BY <1>4, <1>5, <1>6, <1>7, <1>8, <1>9, <1>10, <1>11

-----------------------------------------------------------------------------
(* What a write changes *)

\* Whoever is active after a write was vouched for before it, or is by Google since.
ProvedNext ==
  \A i \in Reqs : user'[i] # None /\ user'[i].active => user'[i].google # None \/ Mailed(i)

\* One account is written.
LEMMA OneAccount ==
  ASSUME AccountsInv, NEW i \in Ids, NEW u \in Users, user' = [user EXCEPT ![i] = u],
         user[i] # None => /\ u.email = user[i].email /\ (user[i].active => u.active)
                           /\ user[i].google # None => u.google # None,
         u.google # None => u.active,
         i \in Reqs /\ u.active => u.google # None \/ Mailed(i)
  PROVE  /\ Grows /\ GoogleActive' /\ ProvedNext
         /\ user' \in [Ids -> Users \cup {None}]
         /\ user'[i] = u
         /\ \A j \in Ids \ {i} : user'[j] = user[j]
<1>1. user \in [Ids -> Users \cup {None}] /\ None \notin Users
  BY NoneAssumption DEF AccountsInv, TypeOK
<1>2. user' \in [Ids -> Users \cup {None}] /\ user'[i] = u /\ u # None
  BY <1>1
<1>3. \A j \in Ids \ {i} : user'[j] = user[j]
  BY <1>1
<1>4. Grows
  BY <1>2, <1>3 DEF Grows
<1>5. GoogleActive'
  BY <1>2, <1>3 DEF AccountsInv, UsersOK, GoogleActive
<1>6. ProvedNext
  BY <1>2, <1>3 DEF ProvedNext, AccountsInv, UsersOK, ActiveWasProved, Accounts, Ids
<1> QED BY <1>2, <1>3, <1>4, <1>5, <1>6

\* Only the step that adds a job touches the queue, and only the job of its request.
LEMMA WriteQueue ==
  ASSUME AccountsInv, NEW r \in Reqs, Write(r)
  PROVE  /\ QueueInv' /\ sent' = sent
         /\ \A q \in Reqs \ {r} : job'[q] = job[q]
         /\ req[r].pc # "addJob" => job' = job
         /\ req[r].pc = "addJob" => job'[r].state # "none"
<1>1. QueueInv /\ r \in Mails /\ Reqs = Mails
  BY DEF AccountsInv, Reqs
<1>2. CASE req[r].pc = "addJob"
  <2>1. addJob(r)
    BY <1>2 DEF Write
  <2>2. QueueInv'
    BY <1>1, <2>1, JobSteps
  <2> QED BY <1>1, <1>2, <2>1, <2>2 DEF addJob, QueueInv, QueueTypeOK
<1>3. CASE req[r].pc # "addJob"
  <2>1. UNCHANGED queueVars
    BY <1>3 DEF Write
  <2> QED BY <1>1, <1>3, <2>1 DEF queueVars, QueueInv, QueueTypeOK
<1> QED BY <1>2, <1>3

\* Accounts are created, activated or linked, never moved or deactivated.
LEMMA WriteUser ==
  ASSUME AccountsInv, NEW r \in Reqs, Write(r)
  PROVE  /\ Grows /\ GoogleActive' /\ ProvedNext
         /\ user' \in [Ids -> Users \cup {None}]
         /\ \A q \in Reqs \ {r} : user[q] = None => user'[q] = None
         /\ user'[r] # None => req[r].before = {}
         /\ req[r].pc \in {"insert", "createFromGoogle"} => user'[r] # None
         /\ req[r].pc \in {"link", "createFromGoogle"} =>
              user'[req[r].id] # None /\ user'[req[r].id].active
<1> DEFINE q == req[r]
<1>1. /\ ReqOK(r) /\ r \in Ids /\ sent' = sent
      /\ user \in [Ids -> Users \cup {None}] /\ None \notin Users
      /\ None \notin Ids /\ None \notin Googles
  BY NoneAssumption, AccountsAssumption, WriteQueue DEF AccountsInv, TypeOK, Ids
<1>2. CASE q.pc = "insert"
  <2> DEFINE u == [email |-> q.email, password |-> r, active |-> FALSE, google |-> None]
  <2>1. user' = [user EXCEPT ![r] = u]
    BY <1>2 DEF Write, create
  <2>2. u \in Users /\ user[r] = None /\ q.before = {}
    BY <1>1, <1>2 DEF Users, ReqOK, CreatesOK, BeforeOK
  <2>3. /\ Grows /\ GoogleActive' /\ ProvedNext /\ user' \in [Ids -> Users \cup {None}]
        /\ user'[r] = u /\ \A j \in Ids \ {r} : user'[j] = user[j]
    <3> HIDE DEF q
    <3> QED BY <1>1, <2>1, <2>2, OneAccount
  <2> QED BY <1>1, <1>2, <2>2, <2>3 DEF Exists, Ids
<1>3. CASE q.pc = "createFromGoogle"
  <2> DEFINE u == [email |-> q.email, password |-> None, active |-> TRUE, google |-> q.key]
  <2>1. user' = [user EXCEPT ![r] = u]
    BY <1>3 DEF Write, createFromGoogle
  <2>2. u \in Users /\ user[r] = None /\ q.before = {} /\ q.key # None /\ q.id = r
    BY <1>1, <1>3 DEF Users, ReqOK, CreatesOK, BeforeOK
  <2>3. /\ Grows /\ GoogleActive' /\ ProvedNext /\ user' \in [Ids -> Users \cup {None}]
        /\ user'[r] = u /\ \A j \in Ids \ {r} : user'[j] = user[j]
    <3> HIDE DEF q
    <3> QED BY <1>1, <2>1, <2>2, OneAccount
  <2>4. u # None /\ u.active
    BY <1>1, <2>2
  <2> HIDE DEF u
  <2> QED BY <1>1, <1>3, <2>2, <2>3, <2>4 DEF Ids
<1>4. ASSUME q.pc \in {"activate", "update", "link"}, NEW u \in Users,
             user' = [user EXCEPT ![q.id] = u],
             u.email = user[q.id].email, user[q.id].active => u.active,
             user[q.id].google # None => u.google # None,
             u.google # None => u.active,
             q.id \in Reqs /\ u.active => u.google # None \/ Mailed(q.id),
             q.pc = "link" => u.active
      PROVE  /\ Grows /\ GoogleActive' /\ ProvedNext /\ user' \in [Ids -> Users \cup {None}]
             /\ \A p \in Reqs \ {r} : user[p] = None => user'[p] = None
             /\ user'[r] # None => q.before = {}
             /\ q.pc = "link" => user'[q.id] # None /\ user'[q.id].active
  <2>1. Exists(q.id)
    BY <1>1, <1>4 DEF ReqOK, AboutOK
  <2>2. /\ Grows /\ GoogleActive' /\ ProvedNext /\ user' \in [Ids -> Users \cup {None}]
        /\ user'[q.id] = u /\ \A j \in Ids \ {q.id} : user'[j] = user[j]
    <3> HIDE DEF q
    <3> QED BY <1>1, <1>4, <2>1, OneAccount DEF Exists
  <2>3. \A p \in Reqs : user[p] = None => user'[p] = None
    BY <2>1, <2>2 DEF Exists, Ids
  <2> QED BY <1>1, <1>4, <2>1, <2>2, <2>3 DEF Exists, IsActive, ReqOK, BeforeOK
<1>5. ASSUME q.pc \in {"activate", "update", "link"}
      PROVE  Exists(q.id) /\ user[q.id] \in Users /\ q.id \in Ids
  BY <1>1, <1>5 DEF ReqOK, AboutOK, Exists
<1>6. q.pc \in {"activate", "update", "link"} =>
        /\ user[q.id].google # None => user[q.id].active
        /\ q.id \in Reqs /\ user[q.id].active => user[q.id].google # None \/ Mailed(q.id)
  BY <1>5 DEF AccountsInv, UsersOK, GoogleActive, ActiveWasProved, Accounts, Exists
<1>7. CASE q.pc = "activate"
  <2> DEFINE u == [user[q.id] EXCEPT !.active = TRUE]
  <2>1. /\ u \in Users /\ u.active /\ u.email = user[q.id].email
        /\ u.google = user[q.id].google
        /\ q.id \in Reqs => u.google # None \/ Mailed(q.id)
    BY <1>1, <1>5, <1>7 DEF Users, ReqOK, AboutOK, Vouched
  <2>2. user' = [user EXCEPT ![q.id] = u]
    BY <1>1, <1>5, <1>7 DEF Write, activateUser
  <2> HIDE DEF u, q
  <2> QED BY <1>4, <1>7, <2>1, <2>2 DEF q
<1>8. CASE q.pc = "update"
  <2> DEFINE u == [user[q.id] EXCEPT !.password = r]
  <2>1. u \in Users /\ u.active = user[q.id].active /\ u.email = user[q.id].email
        /\ u.google = user[q.id].google
    BY <1>1, <1>5, <1>8 DEF Users
  <2>2. user' = [user EXCEPT ![q.id] = u]
    BY <1>1, <1>5, <1>8 DEF Write, updatePassword
  <2> HIDE DEF u, q
  <2> QED BY <1>4, <1>6, <1>8, <2>1, <2>2 DEF q
<1>9. CASE q.pc = "link"
  <2> DEFINE u == [user[q.id] EXCEPT !.google = q.key, !.active = TRUE]
  <2>1. u \in Users /\ u.active /\ u.email = user[q.id].email /\ u.google # None
    <3>1. q.key \in Googles
      BY <1>1, <1>9 DEF ReqOK, CreatesOK
    <3> HIDE DEF q
    <3> QED BY <1>1, <1>5, <1>9, <3>1 DEF Users
  <2>2. user' = [user EXCEPT ![q.id] = u]
    BY <1>1, <1>5, <1>9 DEF Write, linkGoogleId
  <2> HIDE DEF u, q
  <2> QED BY <1>4, <1>9, <2>1, <2>2 DEF q
<1>10. CASE q.pc \notin {"insert", "createFromGoogle", "activate", "update", "link"}
  <2>1. user' = user
    BY <1>10 DEF Write
  <2> QED BY <1>1, <1>10, <2>1 DEF Grows, AccountsInv, UsersOK, GoogleActive, ProvedNext,
                                    ActiveWasProved, Accounts, Ids, ReqOK, BeforeOK
<1> QED BY <1>2, <1>3, <1>7, <1>8, <1>9, <1>10

\* What a login, a refresh and a logout do to the key of the account.
LEMMA WriteSession ==
  ASSUME AccountsInv, NEW r \in Reqs, Write(r)
  PROVE  /\ refresh' \in [Ids -> Tokens \cup {None}] /\ ended' \in SUBSET Ids
         /\ req[r].pc # "logout" => ended' = ended
         /\ req[r].pc # "store" => \A i \in Ids : refresh'[i] = refresh[i] \/ refresh'[i] = None
         /\ req[r].pc = "logout" =>
              /\ refresh'[req[r].id] = None
              /\ \/ ended' = ended
                 \/ /\ refresh[req[r].id] # None
                    /\ ended' = ended \cup {refresh[req[r].id].root}
         /\ req[r].pc = "store" =>
              \E t \in Tokens :
                /\ refresh' = [refresh EXCEPT ![req[r].id] = t]
                /\ t.raced = req[r].raced
                /\ t.root = IF req[r].op = "refresh" THEN req[r].key.root ELSE r
<1> DEFINE q == req[r]
<1>1. /\ ReqOK(r) /\ r \in Ids /\ q \in Records /\ second \in 0..MaxSecond
      /\ refresh \in [Ids -> Tokens \cup {None}] /\ ended \in SUBSET Ids
  BY DEF AccountsInv, TypeOK, Records, Ids
<1>2. CASE q.pc = "store"
  <2>1. ended' = ended
    BY <1>2 DEF Write
  <2>2. PICK n \in q.since..second :
          refresh' = [refresh EXCEPT ![q.id] =
                        [second |-> n, raced |-> q.raced,
                         root   |-> IF q.op = "refresh" THEN q.key.root ELSE r]]
    BY <1>2 DEF Write, storeRefreshToken
  <2> DEFINE root == IF q.op = "refresh" THEN q.key.root ELSE r
             t == [second |-> n, raced |-> q.raced, root |-> root]
  <2>3. t \in Tokens
    <3>1. n \in 0..MaxSecond
      BY <1>1, AccountsAssumption DEF Records
    <3>2. root \in Ids
      <4>1. q.op = "refresh" => q.key \in Tokens
        BY <1>1, <1>2 DEF ReqOK, RefreshOK
      <4> HIDE DEF q
      <4> QED BY <1>1, <4>1 DEF Tokens
    <3>3. q.raced \in BOOLEAN
      BY <1>1 DEF Records
    <3> HIDE DEF root, q
    <3> QED BY <3>1, <3>2, <3>3 DEF Tokens
  <2>4. /\ refresh' = [refresh EXCEPT ![q.id] = t]
        /\ t.raced = q.raced /\ t.root = root
    BY <2>2
  <2> HIDE DEF t, q
  <2> QED BY <1>1, <1>2, <2>1, <2>3, <2>4 DEF q
<1>3. CASE q.pc = "logout"
  <2>1. Exists(q.id)
    BY <1>1, <1>3 DEF ReqOK, AboutOK
  <2>2. refresh' = [refresh EXCEPT ![q.id] = None]
    BY <1>3 DEF Write
  <2>3. \/ ended' = ended
        \/ refresh[q.id] # None /\ ended' = ended \cup {refresh[q.id].root}
    BY <1>3 DEF Write
  <2>4. refresh[q.id] # None => refresh[q.id].root \in Ids
    BY <1>1, <2>1 DEF Exists, Tokens
  <2> HIDE DEF q
  <2> QED BY <1>1, <1>3, <2>1, <2>2, <2>3, <2>4 DEF Exists, q
<1>4. CASE q.pc \notin {"store", "logout"}
  <2>1. refresh' = refresh /\ ended' = ended
    BY <1>4 DEF Write
  <2> QED BY <1>1, <1>4, <2>1
<1> QED BY <1>2, <1>3, <1>4

\* One session belongs to one account.
LEMMA OneAccountPerRoot ==
  ASSUME NEW i, NEW j, NEW t, NEW u, Of(t, i), Of(u, j), t.root = u.root
  PROVE  i = j
BY AccountsAssumption DEF Of

\* Of, of a token and an account of this state, in the next one.
StaysOf(t, i) ==
  \/ t.root \in Seeds /\ t.root = i
  \/ t.root \in Reqs /\ req'[t.root].pc = "done" /\ req'[t.root].id = i

\* The write of a request is done, and the request ends or goes on.
LEMMA WroteOne ==
  ASSUME AccountsInv, NEW r \in Reqs, NEW step \in Records,
         req[r].pc \notin {"idle", "done"},
         Wrote(r, step),
         req[r].pc = "store" => step.pc = "done" /\ step.id = req[r].id,
         \/ issued' = issued
         \/ /\ req[r].pc = "store"
            /\ issued' = [issued EXCEPT ![req[r].id] = @ \cup {refresh'[req[r].id]}],
         faults' \in 0..MaxFaults,
         ReqOK(r)'
  PROVE  AccountsInv'
<1> DEFINE q == req[r]
<1>1. Write(r) /\ ReqOK(r) /\ r \in Ids /\ UNCHANGED second
  BY DEF Wrote, AccountsInv, Ids
<1>2. /\ req'[r] = step
      /\ \A p \in Reqs \ {r} : req'[p] = IF Racing(r, p) THEN [req[p] EXCEPT !.raced = TRUE] ELSE req[p]
      /\ req' \in [Reqs -> Records]
  <2>1. ASSUME NEW p \in Reqs PROVE req[p] \in Records /\ [req[p] EXCEPT !.raced = TRUE] \in Records
    <3>1. req[p] \in Records
      BY DEF AccountsInv, TypeOK, Records
    <3> QED BY <3>1, RacedIs
  <2>2. \A p \in Reqs : req'[p] = IF p = r THEN step
                                 ELSE IF Racing(r, p) THEN [req[p] EXCEPT !.raced = TRUE]
                                 ELSE req[p]
    BY DEF Wrote
  <2>3. req' \in [Reqs -> Records]
    BY <2>1 DEF Wrote
  <2> QED BY <2>2, <2>3
<1>3. Settles
  BY <1>2 DEF Settles, Racing, AccountsInv, TypeOK, Records
<1>4. Grows /\ MailsGrow
  BY <1>1, WriteUser, WriteQueue DEF MailsGrow
<1>5. ASSUME NEW p \in Reqs, p # r PROVE ReqOK(p)'
  <2>1. Undisturbed(p)
    <3>1. req'[p] = req[p] \/ req'[p] = [req[p] EXCEPT !.raced = TRUE]
      BY <1>2, <1>5
    <3>2. /\ user[p] = None => user'[p] = None
          /\ job'[p] = job[p] /\ sent' = sent
      BY <1>1, <1>5, WriteUser, WriteQueue
    <3>3. ASSUME req[p].op = "refresh", req[p].pc = "store", req[p].key.root \in ended' \ ended
          PROVE  req'[p].raced
      <4>1. q.pc = "logout" /\ refresh[q.id] # None /\ req[p].key.root = refresh[q.id].root
        BY <1>1, <3>3, WriteSession
      <4>2. Of(req[p].key, req[p].id) /\ Of(refresh[q.id], q.id)
        BY <1>1, <3>3, <4>1 DEF AccountsInv, ReqOK, RefreshOK, AboutOK, IsActive, Exists, SessionsOK
      <4>3. req[p].id = q.id
        BY <4>1, <4>2, OneAccountPerRoot
      <4>4. Racing(r, p)
        BY <1>5, <3>3, <4>1, <4>3 DEF Racing
      <4> QED BY <1>2, <1>5, <4>4 DEF AccountsInv, TypeOK, Records
    <3> QED BY <3>1, <3>2, <3>3 DEF Undisturbed
  <2> QED BY <1>3, <1>4, <2>1, OthersKeep
<1>6. (\A p \in Reqs : ReqOK(p))'
  BY <1>5
<1>7. /\ refresh' \in [Ids -> Tokens \cup {None}] /\ ended' \in SUBSET Ids
      /\ QueueInv' /\ GoogleActive' /\ ProvedNext
  BY <1>1, WriteSession, WriteUser, WriteQueue
<1>12. UsersOK'
  <2>1. ASSUME NEW i \in Reqs, user'[i] # None, user'[i].active
        PROVE  user'[i].google # None \/ Mailed(i)'
    <3>1. user'[i].google # None \/ Mailed(i)
      BY <1>7, <2>1 DEF ProvedNext
    <3> QED BY <1>3, <1>4, <3>1, MailedStays
  <2>2. ActiveWasProved'
    BY <2>1 DEF ActiveWasProved, Accounts
  <2> QED BY <1>7, <2>2 DEF UsersOK
<1>8. ASSUME q.pc = "store"
      PROVE  /\ IsActive(q.id) /\ ended' = ended
             /\ \E t \in Tokens :
                  /\ refresh' = [refresh EXCEPT ![q.id] = t] /\ refresh'[q.id] = t
                  /\ StaysOf(t, q.id) /\ (t.root \in ended => t.raced)
  <2>1. IsActive(q.id) /\ ended' = ended
    BY <1>1, <1>8, WriteSession DEF ReqOK, AboutOK
  <2>2. PICK t \in Tokens :
          /\ refresh' = [refresh EXCEPT ![q.id] = t]
          /\ t.raced = q.raced
          /\ t.root = IF q.op = "refresh" THEN q.key.root ELSE r
    BY <1>1, <1>8, WriteSession
  <2>3. CASE q.op = "refresh"
    <3>1. Of(q.key, q.id) /\ (q.key.root \in ended => q.raced)
      BY <1>1, <1>8, <2>3 DEF ReqOK, RefreshOK
    <3>2. StaysOf(t, q.id)
      BY <1>2, <1>3, <2>2, <2>3, <3>1 DEF Of, StaysOf, Settles
    <3> QED BY <2>1, <2>2, <2>3, <3>1, <3>2 DEF AccountsInv, TypeOK, IsActive, Exists
  <2>4. CASE q.op # "refresh"
    <3>1. t.root = r
      BY <2>2, <2>4
    <3>2. StaysOf(t, q.id)
      BY <1>2, <1>8, <3>1 DEF StaysOf
    <3>3. r \notin ended
      BY <1>8 DEF AccountsInv, EndedOK
    <3> QED BY <2>1, <2>2, <3>1, <3>2, <3>3 DEF AccountsInv, TypeOK, IsActive, Exists
  <2> QED BY <2>3, <2>4
<1>9. TypeOK'
  <2>1. issued' \in [Ids -> SUBSET Tokens]
    <3>1. CASE issued' = issued
      BY <3>1 DEF AccountsInv, TypeOK
    <3>2. CASE q.pc = "store" /\ issued' = [issued EXCEPT ![q.id] = @ \cup {refresh'[q.id]}]
      BY <1>8, <3>2 DEF AccountsInv, TypeOK, IsActive, Exists
    <3> QED BY <3>1, <3>2
  <2>2. user' \in [Ids -> Users \cup {None}] /\ second' \in 0..MaxSecond
    BY <1>1, WriteUser DEF AccountsInv, TypeOK
  <2> QED BY <1>2, <1>7, <2>1, <2>2 DEF TypeOK, QueueInv, Records
<1>10. SessionsOK'
  <2>1. CASE q.pc # "store"
    BY <1>1, <1>3, <1>4, <2>1, WriteSession, SessionsKeep
  <2>2. CASE q.pc = "store"
    <3>1. PICK t \in Tokens :
            /\ refresh' = [refresh EXCEPT ![q.id] = t] /\ refresh'[q.id] = t
            /\ StaysOf(t, q.id)
      BY <1>8, <2>2
    <3>2. \A i \in Ids : IsActive(i) => user'[i] # None /\ user'[i].active
      BY <1>4 DEF IsActive, Exists, Grows
    <3>3. \A i \in Ids : \A u : Of(u, i) => StaysOf(u, i)
      BY <1>3 DEF Of, StaysOf, Settles
    <3>4. ASSUME NEW i \in Ids
          PROVE  /\ refresh'[i] # None => user'[i] # None /\ user'[i].active /\ StaysOf(refresh'[i], i)
                 /\ issued'[i] # {} => user'[i] # None /\ user'[i].active
                 /\ \A u \in issued'[i] : StaysOf(u, i)
      <4>1. CASE i = q.id
        <5>1. refresh'[i] = t /\ IsActive(i) /\ StaysOf(t, i)
          BY <1>8, <2>2, <3>1, <4>1
        <5>2. \A u \in issued'[i] : u = t \/ u \in issued[i]
          BY <4>1, <5>1 DEF AccountsInv, TypeOK
        <5>3. \A u \in issued'[i] : StaysOf(u, i)
          BY <3>3, <5>1, <5>2 DEF AccountsInv, SessionsOK
        <5> QED BY <3>2, <5>1, <5>3
      <4>2. CASE i # q.id
        <5>1. refresh'[i] = refresh[i] /\ issued'[i] = issued[i]
          BY <3>1, <4>2 DEF AccountsInv, TypeOK
        <5> QED BY <3>2, <3>3, <5>1 DEF AccountsInv, SessionsOK
      <4> QED BY <4>1, <4>2
    <3>5. \A i \in Ids :
            /\ refresh'[i] # None => IsActive(i)' /\ Of(refresh[i], i)'
            /\ issued'[i] # {} => IsActive(i)'
            /\ \A u \in issued'[i] : StaysOf(u, i)
      BY <3>4 DEF IsActive, Exists, Of, StaysOf
    <3> QED BY <3>5 DEF SessionsOK, Of, StaysOf
  <2> QED BY <2>1, <2>2
<1>11. EndedOK'
  <2>1. ASSUME NEW x \in ended' \cap Reqs PROVE req'[x].pc = "done"
    <3>1. CASE x \in ended
      BY <1>3, <3>1 DEF AccountsInv, EndedOK, Settles
    <3>2. CASE x \notin ended
      <4>1. q.pc = "logout" /\ refresh[q.id] # None /\ x = refresh[q.id].root
        BY <1>1, <2>1, <3>2, WriteSession
      <4>2. Of(refresh[q.id], q.id)
        BY <1>1, <4>1 DEF AccountsInv, ReqOK, AboutOK, IsActive, Exists, SessionsOK
      <4>3. req[x].pc = "done"
        BY <2>1, <4>1, <4>2, AccountsAssumption DEF Of
      <4> QED BY <1>3, <4>3 DEF Settles
    <3> QED BY <3>1, <3>2
  <2>2. ASSUME NEW i \in Ids, refresh'[i] # None, refresh'[i].root \in ended'
        PROVE  refresh'[i].raced
    <3>1. CASE q.pc = "store"
      <4>1. PICK t \in Tokens :
              /\ refresh' = [refresh EXCEPT ![q.id] = t] /\ refresh'[q.id] = t
              /\ t.root \in ended => t.raced
        BY <1>8, <3>1
      <4>2. ended' = ended /\ (i # q.id => refresh'[i] = refresh[i])
        BY <1>8, <3>1, <4>1 DEF AccountsInv, TypeOK
      <4> QED BY <2>2, <4>1, <4>2 DEF AccountsInv, EndedOK, LogoutEndsSession
    <3>2. CASE q.pc # "store"
      <4>1. refresh'[i] = refresh[i]
        BY <1>1, <2>2, <3>2, WriteSession
      <4>2. CASE refresh[i].root \in ended
        BY <2>2, <4>1, <4>2 DEF AccountsInv, EndedOK, LogoutEndsSession
      <4>3. CASE refresh[i].root \notin ended
        <5>1. /\ q.pc = "logout" /\ refresh[q.id] # None /\ refresh'[q.id] = None
              /\ refresh[i].root = refresh[q.id].root
          BY <1>1, <2>2, <4>1, <4>3, WriteSession
        <5>2. Of(refresh[i], i) /\ Of(refresh[q.id], q.id)
          BY <1>1, <2>2, <4>1, <5>1 DEF AccountsInv, ReqOK, AboutOK, IsActive, Exists, SessionsOK
        <5>3. i = q.id
          BY <5>1, <5>2, OneAccountPerRoot
        <5> QED BY <2>2, <5>1, <5>3
      <4> QED BY <4>2, <4>3
    <3> QED BY <3>1, <3>2
  <2> QED BY <2>1, <2>2 DEF EndedOK, LogoutEndsSession
<1> QED BY <1>6, <1>7, <1>9, <1>10, <1>11, <1>12 DEF AccountsInv

\* A request that is answered after its write keeps the invariant.
LEMMA WrotesAndEnds ==
  ASSUME AccountsInv, NEW r \in Reqs, NEW what \in Answers,
         req[r].pc \notin {"idle", "done"},
         Wrote(r, Done(r, what)),
         what \in {"registered", "mailed"} => req[r].pc = "addJob",
         \/ issued' = issued
         \/ /\ req[r].pc = "store"
            /\ issued' = [issued EXCEPT ![req[r].id] = @ \cup {refresh'[req[r].id]}],
         faults' \in 0..MaxFaults
  PROVE  AccountsInv'
<1>1. Done(r, what) \in Records /\ Done(r, what).pc = "done" /\ Done(r, what).id = req[r].id
  BY DoneIs DEF AccountsInv
<1>2. Write(r) /\ req'[r] = Done(r, what)
  BY DEF Wrote
<1>3. /\ Grows /\ (user'[r] # None => req[r].before = {})
      /\ sent' = sent /\ (req[r].pc # "addJob" => job' = job)
      /\ (req[r].pc = "addJob" => job'[r].state # "none")
  BY <1>2, WriteUser, WriteQueue
<1>4. job'[r].state # "none" \/ sent'[r] > 0 => Exists(req[r].id)
  BY <1>3 DEF AccountsInv, ReqOK, AboutOK, JobOK
<1>5. ReqOK(r)'
  BY <1>2, <1>3, <1>4, DoneOK
<1> QED BY <1>1, <1>5, WroteOne

\* A request that goes on after its write keeps the invariant.
LEMMA WrotesAndGoesOn ==
  ASSUME AccountsInv, NEW r \in Reqs, NEW from, NEW pc, Then(r, from, pc),
         <<from, pc>> \in {<<"insert", "set">>, <<"set", "addJob">>, <<"activate", "del">>,
                           <<"update", "del">>, <<"link", "store">>,
                           <<"createFromGoogle", "store">>}
  PROVE  AccountsInv'
<1>1. /\ from \in {"insert", "set", "activate", "update", "link", "createFromGoogle"}
      /\ pc \in {"set", "addJob", "del", "store"}
      /\ pc = "set" => from = "insert"
      /\ pc = "addJob" => from = "set"
      /\ pc = "store" => from \in {"link", "createFromGoogle"}
  OBVIOUS
<1>2. /\ req[r].pc = from /\ Wrote(r, At(r, pc)) /\ Write(r) /\ issued' = issued
      /\ faults' \in 0..MaxFaults /\ req'[r] = At(r, pc)
  BY DEF Then, Wrote, AccountsInv, TypeOK
<1>3. /\ At(r, pc) \in Records /\ req'[r].pc = pc /\ req'[r].op = req[r].op
      /\ req'[r].id = req[r].id /\ req'[r].before = req[r].before
      /\ req'[r].answer = req[r].answer
  <2>1. pc \in Pcs
    BY <1>1 DEF Pcs
  <2> QED BY <1>2, <2>1, AtIs DEF AccountsInv
<1>4. ReqOK(r)
  BY DEF AccountsInv
<1>5. CreatesOK(r)' /\ RefreshOK(r)'
  BY <1>1, <1>2, <1>3, <1>4 DEF ReqOK, CreatesOK, RefreshOK
<1>6. BeforeOK(r)'
  BY <1>1, <1>2, <1>3, WriteUser DEF BeforeOK
<1>7. AboutOK(r)'
  <2>1. CASE pc = "set"
    <3>1. req[r].id = r /\ user'[r] # None
      BY <1>1, <1>2, <1>4, <2>1, WriteUser DEF ReqOK, CreatesOK
    <3> QED BY <1>3, <2>1, <3>1 DEF AboutOK, Exists, Ids
  <2>2. CASE pc = "addJob"
    <3>1. Exists(req[r].id) /\ Grows
      BY <1>1, <1>2, <1>4, <2>2, WriteUser DEF ReqOK, AboutOK
    <3> QED BY <1>3, <2>2, <3>1 DEF AboutOK, Exists, Grows
  <2>3. CASE pc = "del"
    BY <1>3, <2>3 DEF AboutOK
  <2>4. CASE pc = "store"
    <3>1. user'[req[r].id] # None /\ user'[req[r].id].active
      BY <1>1, <1>2, <2>4, WriteUser
    <3>2. req[r].id \in Ids
      BY <1>1, <1>2, <1>4, <2>4 DEF ReqOK, AboutOK, CreatesOK, Exists, Ids
    <3> QED BY <1>3, <2>4, <3>1, <3>2 DEF AboutOK, IsActive, Exists
  <2> QED BY <1>1, <2>1, <2>2, <2>3, <2>4
<1>8. JobOK(r)'
  <2>1. job' = job /\ sent' = sent
    BY <1>1, <1>2, WriteQueue
  <2> QED BY <1>1, <1>2, <1>3, <1>4, <2>1 DEF ReqOK, JobOK, Exists
<1>9. ReqOK(r)'
  BY <1>5, <1>6, <1>7, <1>8 DEF ReqOK
<1> QED BY <1>1, <1>2, <1>3, <1>9, WroteOne

\* Every step of a request after the first keeps the invariant.
LEMMA Continues ==
  ASSUME AccountsInv, NEW r \in Reqs, Continue(r)
  PROVE  AccountsInv'
<1>1. ASSUME NEW from, NEW what, Finally(r, from, what),
             \/ from = "addJob" /\ what \in {"registered", "mailed"}
             \/ from = "del" /\ what \in {"verified", "changed"}
             \/ from = "logout" /\ what = "out"
      PROVE  AccountsInv'
  BY <1>1, WrotesAndEnds DEF Finally, Answers, AccountsInv, TypeOK
<1>2. CASE Inserted(r)
  BY <1>2, WrotesAndGoesOn DEF Inserted
<1>3. CASE KeySet(r)
  BY <1>3, WrotesAndGoesOn DEF KeySet
<1>4. CASE Queued(r)
  BY <1>1, <1>4 DEF Queued
<1>5. CASE Activated(r)
  BY <1>5, WrotesAndGoesOn DEF Activated
<1>6. CASE KeyDeleted(r)
  BY <1>1, <1>6 DEF KeyDeleted
<1>7. CASE Stored(r)
  BY <1>7, WrotesAndEnds DEF Stored, Answers, AccountsInv, TypeOK
<1>8. CASE LoggedOut(r)
  BY <1>1, <1>8 DEF LoggedOut
<1>9. CASE PasswordUpdated(r)
  BY <1>9, WrotesAndGoesOn DEF PasswordUpdated
<1>10. CASE Linked(r)
  BY <1>10, WrotesAndGoesOn DEF Linked
<1>11. CASE GoogleCreated(r)
  BY <1>11, WrotesAndGoesOn DEF GoogleCreated
<1> QED BY <1>2, <1>3, <1>4, <1>5, <1>6, <1>7, <1>8, <1>9, <1>10, <1>11, Reads DEF Continue

\* A command that fails, executed or not, keeps the invariant.
LEMMA Fails ==
  ASSUME AccountsInv, NEW r \in Reqs, Fail(r)
  PROVE  AccountsInv'
<1>1. faults' \in 0..MaxFaults /\ req[r].pc \notin {"idle", "done"}
  BY AccountsAssumption DEF Fail, Waiting, AccountsInv, TypeOK
<1>2. Failure(r) \in Answers \ {"registered", "mailed"}
  BY DEF Failure, Answers
<1>3. CASE Wrote(r, Done(r, Failure(r)))
  BY <1>1, <1>2, <1>3, WrotesAndEnds DEF Fail
<1>4. CASE /\ req' = [req EXCEPT ![r] = Done(r, Failure(r))]
           /\ UNCHANGED <<queueVars, user, refresh, second, ended>>
  BY <1>1, <1>2, <1>4, EndAlone DEF Fail
<1> QED BY <1>3, <1>4 DEF Fail

-----------------------------------------------------------------------------
(* Steps that no request takes *)

\* A step that writes no account and stores no session.
LEMMA Outside ==
  ASSUME AccountsInv, TypeOK', QueueInv', MailsGrow, Settles,
         UNCHANGED <<user, issued, ended>>,
         \A i \in Ids : refresh'[i] = refresh[i] \/ refresh'[i] = None,
         \A q \in Reqs : ReqOK(q)' \/ Undisturbed(q)
  PROVE  AccountsInv'
<1>1. Grows
  BY DEF Grows
<1>2. ASSUME NEW q \in Reqs PROVE ReqOK(q)'
  BY <1>1, OthersKeep
<1>3. (\A q \in Reqs : ReqOK(q))'
  BY <1>2
<1>4. SessionsOK' /\ EndedOK'
  BY <1>1, SessionsKeep, EndedKeep
<1>5. UsersOK'
  BY UsersKeep
<1> QED BY <1>3, <1>4, <1>5 DEF AccountsInv

\* The queue sends the mails of jobs it was given, and forgets neither jobs nor mails.
JobsStay ==
  \A m \in Mails :
    /\ job'[m].state = "none" <=> job[m].state = "none"
    /\ job[m].state = "none" => sent'[m] = sent[m]
    /\ sent'[m] >= sent[m]

\* A worker neither removes nor unsends a mail.
LEMMA ProcessStays ==
  ASSUME QueueInv, NEW m \in Mails, Process(m)
  PROVE  JobsStay
<1>1. \A k \in Mails : sent[k] \in Nat
  BY DEF QueueInv, QueueTypeOK
<1>2. PICK n \in Nat : sent' = [sent EXCEPT ![m] = n] /\ n >= sent[m]
  <2>1. \/ sent' = sent
        \/ \E d \in {0, 1} : sent' = [sent EXCEPT ![m] = @ + d]
    BY DEF Process, Take, Sent, SendFails, MayHaveGoneOut, Promote, Stalled
  <2>2. CASE sent' = sent
    <3>1. sent' = [sent EXCEPT ![m] = sent[m]]
      BY <2>2 DEF QueueInv, QueueTypeOK
    <3>2. sent[m] \in Nat /\ sent[m] >= sent[m]
      BY <1>1
    <3> QED BY <3>1, <3>2
  <2>3. ASSUME NEW d \in {0, 1}, sent' = [sent EXCEPT ![m] = @ + d]
        PROVE  \E n \in Nat : sent' = [sent EXCEPT ![m] = n] /\ n >= sent[m]
    <3>1. sent[m] + d \in Nat /\ sent[m] + d >= sent[m]
      BY <1>1
    <3> QED BY <2>3, <3>1
  <2> QED BY <2>1, <2>2, <2>3
<1>3. job[m].state # "none" /\ job'[m].state # "none"
      /\ \A k \in Mails \ {m} : job'[k] = job[k]
  BY DEF Process, Take, Sent, SendFails, Promote, Stalled, QueueInv, QueueTypeOK
<1>4. ASSUME NEW k \in Mails
      PROVE  /\ job'[k].state = "none" <=> job[k].state = "none"
             /\ job[k].state = "none" => sent'[k] = sent[k]
             /\ sent'[k] >= sent[k]
  <2>1. CASE k = m
    BY <1>1, <1>2, <1>3, <2>1 DEF QueueInv, QueueTypeOK
  <2>2. CASE k # m
    BY <1>1, <1>2, <1>3, <2>2 DEF QueueInv, QueueTypeOK
  <2> QED BY <2>1, <2>2
<1> QED BY <1>4 DEF JobsStay

\* Nor does the loss of its lock.
LEMMA LoseStays ==
  ASSUME QueueInv, NEW M \in SUBSET Active, Lose(M)
  PROVE  JobsStay
<1>1. PICK out \in SUBSET M :
        sent' = [m \in Mails |-> IF m \in out THEN sent[m] + 1 ELSE sent[m]]
  BY DEF Lose
<1>2. ASSUME NEW k \in Mails
      PROVE  /\ job'[k].state = "none" <=> job[k].state = "none"
             /\ job[k].state = "none" => sent'[k] = sent[k]
             /\ sent'[k] >= sent[k]
  <2>1. sent[k] \in Nat /\ job[k] \in Jobs
    BY DEF QueueInv, QueueTypeOK, Jobs
  <2>2. CASE k \in M
    <3>1. job[k].state = "active" /\ job'[k].state = "lost"
      BY <2>1, <2>2 DEF Lose, Active, Jobs
    <3> QED BY <1>1, <2>1, <3>1
  <2>3. CASE k \notin M
    BY <1>1, <2>1, <2>3 DEF Lose
  <2> QED BY <2>2, <2>3
<1> QED BY <1>2 DEF JobsStay

\* The steps of the queue keep the invariant.
LEMMA MailKeeps ==
  ASSUME AccountsInv, Mail
  PROVE  AccountsInv'
<1>1. PICK m \in Mails : Process(m) \/ LockLost(m)
  BY DEF Mail
<1>2. QueueInv /\ Reqs = Mails
  BY DEF AccountsInv, Reqs
<1>3. QueueInv' /\ JobsStay
  <2>1. CASE Process(m)
    BY <1>2, <2>1, JobSteps, ProcessStays
  <2>2. CASE LockLost(m)
    <3>1. {m} \in SUBSET Active /\ Lose({m})
      BY <2>2 DEF LockLost
    <3> QED BY <1>2, <3>1, LoseKeeps, LoseStays
  <2> QED BY <1>1, <2>1, <2>2
<1>4. UNCHANGED <<user, refresh, req, second, issued, ended, faults>>
  BY DEF Mail
<1>5. TypeOK' /\ Settles
  BY <1>3, <1>4 DEF AccountsInv, TypeOK, QueueInv, Settles
<1>6. MailsGrow
  BY <1>2, <1>3 DEF JobsStay, MailsGrow, QueueInv, QueueTypeOK
<1>7. ASSUME NEW q \in Reqs PROVE Undisturbed(q)
  BY <1>2, <1>3, <1>4 DEF Undisturbed, JobsStay, AccountsInv, ReqOK, JobOK
<1> QED BY <1>3, <1>4, <1>5, <1>6, <1>7, Outside

\* A crash keeps it: requests end unanswered and workers lose their locks.
LEMMA CrashKeeps ==
  ASSUME AccountsInv, Crash
  PROVE  AccountsInv'
<1>1. Lose(Active) /\ UNCHANGED <<user, refresh, second, issued, ended>>
      /\ faults' \in 0..MaxFaults
  BY AccountsAssumption DEF Crash, AccountsInv, TypeOK
<1>2. QueueInv /\ Reqs = Mails
  BY DEF AccountsInv, Reqs
<1>3. QueueInv' /\ JobsStay
  BY <1>1, <1>2, LoseKeeps, LoseStays
<1>4. \A q \in Reqs : req'[q] = IF Waiting(q) THEN Done(q, "error") ELSE req[q]
  BY DEF Crash
<1>5. "error" \in Answers \ {"registered", "mailed"}
  BY DEF Answers
<1>6. req' \in [Reqs -> Records]
  <2>1. \A q \in Reqs : Done(q, "error") \in Records
    BY <1>5, DoneIs DEF AccountsInv
  <2>2. \A q \in Reqs : req[q] \in Records
    BY DEF AccountsInv, TypeOK, Records
  <2> QED BY <2>1, <2>2 DEF Crash
<1>7. TypeOK'
  BY <1>1, <1>3, <1>6 DEF AccountsInv, TypeOK, QueueInv, Records
<1>8. Settles /\ Grows /\ MailsGrow
  BY <1>1, <1>2, <1>3, <1>4
  DEF Settles, Grows, MailsGrow, Waiting, JobsStay, QueueInv, QueueTypeOK
<1>9. ASSUME NEW q \in Reqs PROVE ReqOK(q)' \/ Undisturbed(q)
  <2>1. CASE Waiting(q)
    <3>1. req'[q] = Done(q, "error") /\ job[q].state = "none" /\ sent[q] = 0
      BY <1>4, <2>1 DEF Waiting, AccountsInv, ReqOK, JobOK
    <3>2. job'[q].state = "none" /\ sent'[q] = 0
      BY <1>2, <1>3, <3>1 DEF JobsStay
    <3>3. user'[q] # None => req[q].before = {}
      BY <1>1 DEF AccountsInv, ReqOK, BeforeOK
    <3> QED BY <1>5, <1>8, <3>1, <3>2, <3>3, DoneOK
  <2>2. CASE ~Waiting(q)
    BY <1>1, <1>2, <1>3, <1>4, <2>2 DEF Undisturbed, JobsStay, AccountsInv, ReqOK, JobOK
  <2> QED BY <2>1, <2>2
<1> QED BY <1>1, <1>3, <1>7, <1>8, <1>9, Outside

\* So do the clock and the end of a session in Redis.
LEMMA TimePasses ==
  ASSUME AccountsInv, Tick \/ \E i \in Ids : SessionExpires(i)
  PROVE  AccountsInv'
<1>1. /\ UNCHANGED <<job, sent, user, req, issued, ended, faults>>
      /\ second' \in 0..MaxSecond
      /\ refresh' \in [Ids -> Tokens \cup {None}]
      /\ \A i \in Ids : refresh'[i] = refresh[i] \/ refresh'[i] = None
  BY AccountsAssumption DEF Tick, SessionExpires, queueVars, AccountsInv, TypeOK
<1>2. TypeOK' /\ QueueInv' /\ MailsGrow /\ Settles
  BY <1>1 DEF AccountsInv, TypeOK, QueueInv, QueueTypeOK, MailsGrow, Settles
<1>3. ASSUME NEW q \in Reqs PROVE Undisturbed(q)
  BY <1>1 DEF Undisturbed
<1> QED BY <1>1, <1>2, <1>3, Outside

-----------------------------------------------------------------------------
(* The invariant *)

\* The initial states: some seeded accounts with a session each.
LEMMA Starts == Init => AccountsInv
<1> SUFFICES ASSUME Init PROVE AccountsInv
  OBVIOUS
<1>0. PICK S \in SUBSET Seeds : \E email \in [S -> Emails] :
        /\ user    = [i \in Ids |-> IF i \in S
                                     THEN [email |-> email[i], password |-> i, active |-> TRUE,
                                           google |-> None]
                                     ELSE None]
        /\ refresh = [i \in Ids |-> IF i \in S THEN SeedToken(i) ELSE None]
        /\ issued  = [i \in Ids |-> IF i \in S THEN {SeedToken(i)} ELSE {}]
  BY DEF Init
<1>1. PICK email \in [S -> Emails] :
        /\ user    = [i \in Ids |-> IF i \in S
                                     THEN [email |-> email[i], password |-> i, active |-> TRUE,
                                           google |-> None]
                                     ELSE None]
        /\ refresh = [i \in Ids |-> IF i \in S THEN SeedToken(i) ELSE None]
        /\ issued  = [i \in Ids |-> IF i \in S THEN {SeedToken(i)} ELSE {}]
  BY <1>0
<1>2. /\ QueueInit /\ req = [r \in Reqs |-> Idle] /\ second = 0 /\ ended = {} /\ faults = 0
  BY DEF Init
<1>3. QueueInv
  BY <1>2, QueueStarts
<1>4. \A i \in Ids : SeedToken(i) \in Tokens /\ SeedToken(i).root = i
  BY AccountsAssumption DEF SeedToken, Tokens
<1>5. ASSUME NEW i \in Ids
      PROVE  /\ i \in S => /\ user[i] \in Users /\ user[i] # None /\ user[i].active
                           /\ user[i].google = None /\ i \in Seeds
             /\ i \notin S => user[i] = None /\ refresh[i] = None /\ issued[i] = {}
             /\ refresh[i] # None => i \in S /\ refresh[i] = SeedToken(i)
             /\ i \in S => issued[i] = {SeedToken(i)}
             /\ refresh[i] \in Tokens \cup {None}
  <2>1. CASE i \in S
    <3> DEFINE u == [email |-> email[i], password |-> i, active |-> TRUE, google |-> None]
    <3>1. u \in Users /\ u.active /\ u.google = None
      BY <2>1 DEF Users
    <3>2. user[i] = u /\ refresh[i] = SeedToken(i) /\ issued[i] = {SeedToken(i)}
      BY <1>1, <2>1
    <3> HIDE DEF u
    <3> QED BY <1>4, <2>1, <3>1, <3>2, NoneAssumption
  <2>2. CASE i \notin S
    BY <1>1, <2>2
  <2> QED BY <2>1, <2>2
<1>6. TypeOK
  <2>1. user \in [Ids -> Users \cup {None}]
    BY <1>1, <1>5
  <2>2. refresh \in [Ids -> Tokens \cup {None}] /\ issued \in [Ids -> SUBSET Tokens]
    BY <1>1, <1>4, <1>5
  <2>3. req \in [Reqs -> Records]
    BY <1>2, IdleIs
  <2> QED BY <1>2, <1>3, <2>1, <2>2, <2>3, AccountsAssumption DEF TypeOK, QueueInv, Records
<1>7. SessionsOK
  BY <1>4, <1>5 DEF SessionsOK, IsActive, Exists, Of
<1>8. UsersOK
  BY <1>5, AccountsAssumption DEF UsersOK, GoogleActive, ActiveWasProved, Accounts
<1>9. EndedOK
  BY <1>2 DEF EndedOK, LogoutEndsSession
<1>10. ASSUME NEW r \in Reqs PROVE ReqOK(r)
  <2>1. /\ req[r].pc = "idle" /\ req[r].op = "none" /\ req[r].before = {} /\ req[r].answer = None
    BY <1>2 DEF Idle
  <2>2. user[r] = None
    BY <1>5, AccountsAssumption DEF Ids
  <2>3. job[r].state = "none" /\ sent[r] = 0 /\ None \notin {"registered", "mailed"}
    BY <1>2, NoneAssumption DEF QueueInit, NoJob, Reqs, Answers
  <2> QED BY <2>1, <2>2, <2>3 DEF ReqOK, CreatesOK, BeforeOK, AboutOK, RefreshOK, JobOK
<1> QED BY <1>3, <1>6, <1>7, <1>8, <1>9, <1>10 DEF AccountsInv

\* A stuttering step changes nothing.
LEMMA Unchanged == AccountsInv /\ UNCHANGED vars => AccountsInv'
<1> SUFFICES ASSUME AccountsInv, UNCHANGED vars PROVE AccountsInv'
  OBVIOUS
<1>1. TypeOK' /\ QueueInv' /\ MailsGrow /\ Settles
  BY DEF vars, AccountsInv, TypeOK, QueueInv, QueueTypeOK, MailsGrow, Settles
<1>2. ASSUME NEW q \in Reqs PROVE Undisturbed(q)
  BY DEF vars, Undisturbed
<1> QED BY <1>1, <1>2, Outside DEF vars

\* The invariant holds in every state.
LEMMA Invariant == Spec => []AccountsInv
<1>1. AccountsInv /\ [Next]_vars => AccountsInv'
  <2> SUFFICES ASSUME AccountsInv, [Next]_vars PROVE AccountsInv'
    OBVIOUS
  <2>1. ASSUME NEW r \in Reqs, Arrive(r) \/ Continue(r) \/ Fail(r) PROVE AccountsInv'
    BY <2>1, Arrives, Continues, Fails
  <2>2. CASE Mail
    BY <2>2, MailKeeps
  <2>3. CASE Tick \/ \E i \in Ids : SessionExpires(i)
    BY <2>3, TimePasses
  <2>4. CASE Crash
    BY <2>4, CrashKeeps
  <2>5. CASE UNCHANGED vars
    BY <2>5, Unchanged
  <2> QED BY <2>1, <2>2, <2>3, <2>4, <2>5 DEF Next
<1> QED BY <1>1, Starts, PTL DEF Spec

-----------------------------------------------------------------------------

\* Requests, accounts, sessions and jobs keep their types (auth.service.ts,
\* users.service.ts).
THEOREM TypeCorrectness == Spec => []TypeOK
<1>1. AccountsInv => TypeOK
  BY DEF AccountsInv
<1> QED BY <1>1, Invariant, PTL

\* No failure and no overlap of requests gives a session to an account that is not
\* active (auth.service.ts:45-50).
THEOREM SessionsAreActive == Spec => []SessionsAreOfActive
<1>1. AccountsInv => SessionsAreOfActive
  BY DEF AccountsInv, SessionsOK, SessionsAreOfActive, IsActive, Exists
<1> QED BY <1>1, Invariant, PTL

\* Only a refresh that overlaps a logout carries its session on, for any number of
\* devices (auth.service.ts:112-128, 138).
THEOREM LogoutEnds == Spec => []LogoutEndsSession
<1>1. AccountsInv => LogoutEndsSession
  BY DEF AccountsInv, EndedOK
<1> QED BY <1>1, Invariant, PTL

\* No account is active without a mail that was sent to it or Google, for any number of
\* requests, tokens, lost mails and failures (auth.service.ts:61-63, 86-92, 156-158).
THEOREM ActiveIsProved == Spec => []ActiveWasProved
<1>1. AccountsInv => ActiveWasProved
  BY DEF AccountsInv, UsersOK
<1> QED BY <1>1, Invariant, PTL

\* An account that was there when a request arrived never shares its email with the
\* account of that request (users.service.ts:15-22).
THEOREM DuplicatesNeedOverlap == Spec => []DuplicatesOverlapped
<1>1. AccountsInv => DuplicatesOverlapped
  <2> SUFFICES ASSUME AccountsInv, NEW i \in Accounts, NEW r \in Accounts \cap Reqs
      PROVE  i \notin req[r].before
    BY DEF DuplicatesOverlapped
  <2>1. user[r] # None /\ BeforeOK(r)
    BY DEF AccountsInv, ReqOK, Accounts
  <2> QED BY <2>1 DEF BeforeOK
<1> QED BY <1>1, Invariant, PTL

\* Who was told of a mail has a job in the queue (auth.service.ts:74-77, 169-172).
THEOREM ToldHasJob == Spec => []ToldIsMailed
<1>1. AccountsInv => ToldIsMailed
  BY DEF AccountsInv, ReqOK, JobOK, ToldIsMailed
<1> QED BY <1>1, Invariant, PTL

\* The queue keeps its promises when requests fill it and crashes stop its workers: no
\* job ends without its mail before its limits, and no mail goes out more often than they
\* allow (email-queue.service.ts:20, email.processor.ts:20-23).
THEOREM MailsAreKept == Spec => [](NoMailIsForgotten /\ RepeatsAreBounded)
<1>1. AccountsInv => QueueInv
  BY DEF AccountsInv
<1>2. QueueInv => NoMailIsForgotten /\ RepeatsAreBounded
  BY QueueInvImplies
<1> QED BY <1>1, <1>2, Invariant, PTL
-----------------------------------------------------------------------------
(* What a change of password overwrites *)

\* A change that has compared its password is about an account that has it still, if no
\* other change came in between and no other account has its email.
ComparedOK(q) ==
  LET i == req[q].id
  IN  req[q].pc = "update" /\ req[q].op = "change" =>
        /\ Exists(i)
        /\ \/ user[i].password = req[q].key
           \/ req[q].raced
           \/ \E j \in Ids \ {i} : user[j] # None /\ user[j].email = user[i].email

AllComparedOK == \A q \in Reqs : ComparedOK(q)

\* It stays so for a request that a step leaves alone, but for a race that it notices.
LEMMA ComparedKeeps ==
  ASSUME AccountsInv, Grows, NEW q \in Reqs, ComparedOK(q),
         req'[q] = req[q] \/ req'[q] = [req[q] EXCEPT !.raced = TRUE],
         req[q].pc = "update" /\ Exists(req[q].id) =>
           user'[req[q].id].password = user[req[q].id].password \/ req'[q].raced
  PROVE  ComparedOK(q)'
<1>1. req[q] \in Records
  BY DEF AccountsInv, TypeOK, Records
<1>2. /\ req'[q].pc = req[q].pc /\ req'[q].op = req[q].op /\ req'[q].id = req[q].id
      /\ req'[q].key = req[q].key /\ (req[q].raced => req'[q].raced)
  BY <1>1 DEF Records
<1>3. SUFFICES ASSUME req[q].pc = "update", req[q].op = "change"
      PROVE  ComparedOK(q)'
  BY <1>2 DEF ComparedOK
<1> DEFINE i == req[q].id
<1>4. /\ Exists(i)
      /\ \/ user[i].password = req[q].key
         \/ req[q].raced
         \/ \E j \in Ids \ {i} : user[j] # None /\ user[j].email = user[i].email
  BY <1>3 DEF ComparedOK
<1>5. Exists(i)' /\ user'[i].email = user[i].email
  BY <1>2, <1>4 DEF Exists, Grows
<1>6. CASE user[i].password = req[q].key
  <2>1. user'[i].password = user[i].password \/ req'[q].raced
    BY <1>3, <1>4
  <2> QED BY <1>2, <1>5, <1>6, <2>1 DEF ComparedOK
<1>7. CASE req[q].raced
  BY <1>2, <1>5, <1>7 DEF ComparedOK
<1>8. CASE \E j \in Ids \ {i} : user[j] # None /\ user[j].email = user[i].email
  <2>1. PICK j \in Ids \ {i} : user[j] # None /\ user[j].email = user[i].email
    BY <1>8
  <2>2. user'[j] # None /\ user'[j].email = user'[i].email
    BY <1>5, <2>1 DEF Grows
  <2> QED BY <1>2, <1>5, <2>1, <2>2 DEF ComparedOK
<1> QED BY <1>4, <1>6, <1>7, <1>8

\* A step of one request that writes no account keeps it, if the request itself does not
\* come to a change of password.
LEMMA ComparedAlone ==
  ASSUME AccountsInv, AllComparedOK, NEW r \in Reqs, NEW step,
         req' = [req EXCEPT ![r] = step], UNCHANGED user,
         step.pc # "update" \/ step.op # "change"
  PROVE  AllComparedOK'
<1>1. Grows
  BY DEF Grows
<1>2. ASSUME NEW q \in Reqs PROVE ComparedOK(q)'
  <2>1. CASE q = r
    <3>1. req'[q] = step
      BY <2>1 DEF AccountsInv, TypeOK
    <3> QED BY <3>1 DEF ComparedOK
  <2>2. CASE q # r
    <3>1. req'[q] = req[q] /\ ComparedOK(q)
      BY <2>2 DEF AccountsInv, TypeOK, AllComparedOK
    <3> QED BY <1>1, <3>1, ComparedKeeps
  <2> QED BY <2>1, <2>2
<1> QED BY <1>2 DEF AllComparedOK

\* Only the last step of a change or a reset changes the password of an account.
LEMMA WritePassword ==
  ASSUME AccountsInv, NEW r \in Reqs, Write(r), NEW i, Exists(i),
         user'[i].password # user[i].password
  PROVE  req[r].pc = "update" /\ req[r].id = i
<1>1. ReqOK(r) /\ user \in [Ids -> Users \cup {None}] /\ i \in Ids /\ user[i] \in Users
  BY DEF AccountsInv, TypeOK, Exists
<1>2. req[r].pc \in {"insert", "createFromGoogle"} => user[r] = None
  BY <1>1 DEF ReqOK, CreatesOK
<1>3. CASE req[r].pc = "insert"
  BY <1>1, <1>2, <1>3 DEF Write, create, Exists
<1>4. CASE req[r].pc = "createFromGoogle"
  BY <1>1, <1>2, <1>4 DEF Write, createFromGoogle, Exists
<1>5. CASE req[r].pc = "activate"
  BY <1>1, <1>5 DEF Write, activateUser, Users
<1>6. CASE req[r].pc = "update"
  BY <1>1, <1>6 DEF Write, updatePassword
<1>7. CASE req[r].pc = "link"
  BY <1>1, <1>7 DEF Write, linkGoogleId, Users
<1>8. CASE req[r].pc \notin {"insert", "createFromGoogle", "activate", "update", "link"}
  BY <1>8 DEF Write
<1> QED BY <1>3, <1>4, <1>5, <1>6, <1>7, <1>8

\* A request that writes tells those it races with.
LEMMA ComparedWrote ==
  ASSUME AccountsInv, AllComparedOK, NEW r \in Reqs, NEW step, Wrote(r, step),
         step.pc # "update" \/ step.op # "change"
  PROVE  AllComparedOK'
<1>1. Write(r) /\ Grows
  BY WriteUser DEF Wrote
<1>2. ASSUME NEW q \in Reqs PROVE ComparedOK(q)'
  <2>1. CASE q = r
    <3>1. req'[q] = step
      BY <2>1 DEF Wrote
    <3> QED BY <3>1 DEF ComparedOK
  <2>2. CASE q # r
    <3>1. req'[q] = IF Racing(r, q) THEN [req[q] EXCEPT !.raced = TRUE] ELSE req[q]
      BY <2>2 DEF Wrote
    <3>2. ASSUME req[q].pc = "update", Exists(req[q].id),
                 user'[req[q].id].password # user[req[q].id].password
          PROVE  req'[q].raced
      <4>1. Racing(r, q)
        BY <1>1, <2>2, <3>2, WritePassword DEF Racing
      <4>2. req[q] \in Records
        BY DEF AccountsInv, TypeOK, Records
      <4> QED BY <3>1, <4>1, <4>2 DEF Records
    <3> QED BY <1>1, <3>1, <3>2, ComparedKeeps DEF AllComparedOK
  <2> QED BY <2>1, <2>2
<1> QED BY <1>2 DEF AllComparedOK

\* A request that arrives has compared nothing.
LEMMA ComparedArrives ==
  ASSUME AccountsInv, AllComparedOK, NEW r \in Reqs, Arrive(r)
  PROVE  AllComparedOK'
<1>1. ASSUME NEW op, NEW step, Begin(r, op, step),
             [step EXCEPT !.op = op].op # "change" \/ [step EXCEPT !.op = op].pc # "update"
      PROVE  AllComparedOK'
  BY <1>1, ComparedAlone DEF Begin
<1>2. CASE register(r)
  BY <1>1, <1>2 DEF register, Idle
<1>3. CASE verifyEmail(r)
  BY <1>1, <1>3 DEF verifyEmail, Idle
<1>4. CASE login(r)
  BY <1>1, <1>4 DEF login, Idle
<1>5. CASE refreshToken(r)
  BY <1>1, <1>5 DEF refreshToken, Idle
<1>6. CASE logout(r)
  BY <1>1, <1>6 DEF logout, Idle
<1>7. CASE forgotPassword(r)
  BY <1>1, <1>7 DEF forgotPassword, Idle
<1>8. CASE resetPassword(r)
  BY <1>1, <1>8 DEF resetPassword, Idle
<1>9. CASE changePassword(r)
  BY <1>1, <1>9 DEF changePassword, Idle
<1>10. CASE google(r)
  BY <1>1, <1>10 DEF google, Idle
<1> QED BY <1>2, <1>3, <1>4, <1>5, <1>6, <1>7, <1>8, <1>9, <1>10 DEF Arrive

\* A step after the first keeps it, whatever it reads or writes; the comparison itself
\* makes it so.
LEMMA ComparedContinues ==
  ASSUME AccountsInv, AllComparedOK, NEW r \in Reqs, Continue(r)
  PROVE  AllComparedOK'
<1>1. ReqOK(r) /\ req[r] \in Records
  BY DEF AccountsInv, TypeOK, Records
<1>2. ASSUME NEW what, req[r].pc # "done", Read(r, Done(r, what)) \/ Wrote(r, Done(r, what))
      PROVE  AllComparedOK'
  <2>1. Done(r, what).pc = "done"
    BY DEF Done, Idle
  <2> QED BY <1>2, <2>1, ComparedAlone, ComparedWrote DEF Read
<1>3. ASSUME NEW pc \in Pcs \ {"update"}, Wrote(r, At(r, pc)) PROVE AllComparedOK'
  <2>1. At(r, pc).pc = pc
    BY AtIs DEF AccountsInv
  <2> QED BY <1>3, <2>1, ComparedWrote
<1>4. ASSUME NEW step, Read(r, step), step.pc # "update" PROVE AllComparedOK'
  BY <1>4, ComparedAlone DEF Read
<1>5. \A pc \in Pcs : At(r, pc) \in Records /\ At(r, pc).pc = pc
  BY AtIs DEF AccountsInv
<1>6. {"insert", "store", "set", "update", "byEmail", "createFromGoogle", "linkCheck", "link",
       "addJob", "del"} \subseteq Pcs
  BY DEF Pcs
<1>7. CASE Look(r)
  BY <1>2, <1>4, <1>5, <1>6, <1>7 DEF Look
<1>8. CASE validateUser(r)
  <2>1. \A i : [At(r, "store") EXCEPT !.id = i].pc = "store"
    BY <1>5, <1>6 DEF Records
  <2> QED BY <1>2, <1>4, <1>8, <2>1 DEF validateUser
<1>9. CASE Compare(r)
  <2>1. \A b : [At(r, "store") EXCEPT !.raced = b].pc = "store"
    BY <1>5, <1>6 DEF Records
  <2> QED BY <1>2, <1>4, <1>9, <2>1 DEF Compare
<1>10. CASE Forgotten(r)
  <2>1. \A i : [At(r, "set") EXCEPT !.id = i].pc = "set"
    BY <1>5, <1>6 DEF Records
  <2> QED BY <1>2, <1>4, <1>10, <2>1 DEF Forgotten
<1>11. CASE ByGoogleId(r)
  <2>1. \A i : [At(r, "store") EXCEPT !.id = i].pc = "store"
    BY <1>5, <1>6 DEF Records
  <2> QED BY <1>4, <1>5, <1>6, <1>11, <2>1 DEF ByGoogleId
<1>12. CASE ByEmail(r)
  <2>1. \A i : /\ [At(r, "createFromGoogle") EXCEPT !.id = i].pc = "createFromGoogle"
               /\ [At(r, "linkCheck") EXCEPT !.id = i].pc = "linkCheck"
    BY <1>5, <1>6 DEF Records
  <2> QED BY <1>4, <1>12, <2>1 DEF ByEmail
<1>13. CASE LinkCheck(r)
  BY <1>2, <1>4, <1>5, <1>6, <1>13 DEF LinkCheck
<1>14. CASE CurrentPassword(r)
  <2>1. Exists(req[r].id) /\ req[r].pc = "change"
    BY <1>1, <1>14 DEF CurrentPassword, ReqOK, AboutOK
  <2>2. CASE Read(r, Done(r, "refused")) \/ Read(r, Done(r, "error"))
    BY <1>2, <2>1, <2>2
  <2>3. ASSUME NEW i \in WithEmail(user[req[r].id].email),
               Read(r, [At(r, "update") EXCEPT !.key = user[i].password])
        PROVE  AllComparedOK'
    <3> DEFINE s == [At(r, "update") EXCEPT !.key = user[i].password]
    <3>1. s.pc = "update" /\ s.id = req[r].id /\ s.key = user[i].password
      BY <1>6, AtIs DEF AccountsInv, Records
    <3> HIDE DEF s
    <3>2. req' = [req EXCEPT ![r] = s] /\ UNCHANGED user
      BY <2>3 DEF Read, s
    <3>3. req'[r] = s /\ \A q \in Reqs \ {r} : req'[q] = req[q]
      BY <3>2 DEF AccountsInv, TypeOK
    <3>4. i \in Ids /\ user[i] # None /\ user[i].email = user[req[r].id].email
      BY DEF WithEmail, Accounts
    <3>5. ComparedOK(r)'
      BY <2>1, <3>1, <3>2, <3>3, <3>4 DEF ComparedOK, Exists
    <3>6. Grows
      BY <3>2 DEF Grows
    <3>7. \A q \in Reqs \ {r} : ComparedOK(q)'
      BY <3>2, <3>3, <3>6, ComparedKeeps DEF AllComparedOK
    <3> QED BY <3>5, <3>7 DEF AllComparedOK
  <2> QED BY <1>14, <2>2, <2>3 DEF CurrentPassword
<1>15. CASE Inserted(r) \/ KeySet(r) \/ Activated(r) \/ PasswordUpdated(r) \/ Linked(r)
            \/ GoogleCreated(r)
  BY <1>3, <1>6, <1>15
  DEF Inserted, KeySet, Activated, PasswordUpdated, Linked, GoogleCreated, Then
<1>16. CASE Queued(r) \/ KeyDeleted(r) \/ LoggedOut(r) \/ Stored(r)
  BY <1>2, <1>16 DEF Queued, KeyDeleted, LoggedOut, Stored, Finally
<1> QED BY <1>7, <1>8, <1>9, <1>10, <1>11, <1>12, <1>13, <1>14, <1>15, <1>16 DEF Continue

\* Failures, crashes, the queue and the clock write no password.
LEMMA ComparedOtherwise ==
  ASSUME AccountsInv, AllComparedOK,
         \/ \E r \in Reqs : Fail(r)
         \/ Mail \/ Tick \/ Crash
         \/ \E i \in Ids : SessionExpires(i)
         \/ UNCHANGED vars
  PROVE  AllComparedOK'
<1>1. ASSUME NEW r \in Reqs, Fail(r) PROVE AllComparedOK'
  <2>1. Done(r, Failure(r)).pc = "done"
    BY DEF Done, Idle
  <2> QED BY <1>1, <2>1, ComparedAlone, ComparedWrote DEF Fail
<1>2. CASE UNCHANGED <<user, req>>
  BY <1>2 DEF AllComparedOK, ComparedOK, Exists
<1>3. CASE Crash
  <2>1. /\ UNCHANGED user
        /\ \A q \in Reqs : req'[q] = IF Waiting(q) THEN Done(q, "error") ELSE req[q]
    BY <1>3 DEF Crash
  <2>2. \A q \in Reqs : Done(q, "error").pc = "done"
    BY DEF Done, Idle
  <2> QED BY <2>1, <2>2 DEF AllComparedOK, ComparedOK, Exists
<1> QED BY <1>1, <1>2, <1>3 DEF Mail, Tick, SessionExpires, vars

\* A change of password overwrites the password that its client has proved to know, unless
\* another change came in between or another account has the email: for any number of
\* accounts, changes and resets at once (auth.service.ts:317-324).
THEOREM ComparedPasswordsAreOverwritten == Spec => ComparedIsOverwritten
<1> DEFINE Overwrites ==
      \A r \in Reqs :
        LET i == req[r].id
        IN  req[r].pc = "update" /\ req[r].op = "change" /\ user'[i] # user[i] /\ req'[r] # req[r] =>
              \/ user[i].password = req[r].key
              \/ req[r].raced
              \/ WithEmail(user[i].email) # {i}
<1>1. Init => AllComparedOK
  BY DEF Init, AllComparedOK, ComparedOK, Idle
<1>2. AccountsInv /\ AllComparedOK /\ [Next]_vars => AllComparedOK'
  BY ComparedArrives, ComparedContinues, ComparedOtherwise DEF Next
<1>3. AllComparedOK => Overwrites
  BY DEF AllComparedOK, ComparedOK, WithEmail, Accounts
<1>4. Spec => [][Overwrites]_vars
  <2> HIDE DEF Overwrites
  <2> QED BY <1>1, <1>2, <1>3, Invariant, PTL DEF Spec
<1> QED BY <1>4 DEF ComparedIsOverwritten
=============================================================================
