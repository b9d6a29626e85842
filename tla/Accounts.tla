------------------------------ MODULE Accounts ------------------------------
(***************************************************************************)
(* Accounts and sessions: AuthService and UsersService                     *)
(* (src/src/modules/auth/auth.service.ts,                                  *)
(* src/src/modules/users/users.service.ts) over the table link_users, the  *)
(* refresh tokens in Redis and the mail queue.                             *)
(*                                                                         *)
(* A request is a sequence of awaited commands; between two of them other  *)
(* requests run.  A request is made once: its name is also that of the     *)
(* account it creates (uuidv4), of the password it sets and of the mail it *)
(* queues.                                                                 *)
(*                                                                         *)
(* The keys verification_token:<id> and reset_token:<id> are set and       *)
(* deleted but never read: of them only the await is left, at which a      *)
(* request can fail.  A token whose signature or date is bad ends its      *)
(* request before the first command.  Names and dates are left out, and so *)
(* are the awaits of reads whose result cannot change.                     *)
(***************************************************************************)
EXTENDS EmailQueue

CONSTANTS
  Ops,          \* the operations that requests ask for
  Emails, Googles,
  Seeds,        \* accounts that may exist from the start, active and signed in
  None,
  MaxSecond,    \* bound on the clock, in seconds: the resolution of a token's date
  MaxFaults     \* bound on the commands that fail and on crashes

Reqs == Mails
Ids  == Reqs \cup Seeds

ASSUME AccountsAssumption ==
  /\ Reqs \cap Seeds = {} /\ None \notin Ids \cup Emails \cup Googles
  /\ MaxSecond \in Nat /\ MaxFaults \in Nat
  /\ Ops \subseteq {"register", "verify", "login", "refresh", "logout", "forgot", "reset",
                    "change", "google"}

\* A row of link_users; a password stands for its salted hash, of which no two are equal.
Users == [email : Emails, password : Ids \cup {None}, active : BOOLEAN,
          google : Googles \cup {None}]

\* A refresh token is the same string as another of its account if both were signed in
\* one second.  History: the sign-in that began its session, and whether it was stored
\* by a request that overlapped a logout.
Tokens == [second : 0..MaxSecond, root : Ids, raced : BOOLEAN]

VARIABLES
  user,      \* link_users
  refresh,   \* refresh_token:<id>
  req,       \* where each request is, and what it has read
  second,
  \* history
  issued,    \* the refresh tokens that clients were given
  ended,     \* the sessions whose token a logout deleted
  faults

vars == <<job, sent, user, refresh, req, second, issued, ended, faults>>

\* key is what the request came with or compared: a Google id, a token, a password.
Idle == [pc |-> "idle", op |-> "none", id |-> None, email |-> None, key |-> None,
         since |-> 0, before |-> {}, raced |-> FALSE, answer |-> None]

Pcs == {"idle", "create", "insert", "set", "addJob", "activate", "del", "validate", "store",
        "refresh", "logout", "forgot", "change", "update", "byGoogleId", "byEmail",
        "linkCheck", "link", "createFromGoogle", "done"}

Answers == {"registered", "mailed", "verified", "in", "out", "changed", "conflict",
            "refused", "no such user", "error"}

ASSUME NoneAssumption == None \notin Users \cup Answers

TypeOK ==
  /\ QueueTypeOK
  /\ user    \in [Ids -> Users \cup {None}]
  /\ refresh \in [Ids -> Tokens \cup {None}]
  /\ req     \in [Reqs -> [pc : Pcs, op : Ops \cup {"none"}, id : Ids \cup {None},
                           email : Emails \cup {None},
                           key : Ids \cup Googles \cup Tokens \cup {None},
                           since : 0..MaxSecond, before : SUBSET Ids, raced : BOOLEAN,
                           answer : Answers \cup {None}]]
  /\ second  \in 0..MaxSecond
  /\ issued  \in [Ids -> SUBSET Tokens]
  /\ ended   \subseteq Ids
  /\ faults  \in 0..MaxFaults

SeedToken(i) == [second |-> 0, root |-> i, raced |-> FALSE]

Init ==
  /\ QueueInit
  /\ \E S \in SUBSET Seeds : \E email \in [S -> Emails] :
       /\ user    = [i \in Ids |-> IF i \in S
                                    THEN [email |-> email[i], password |-> i, active |-> TRUE,
                                          google |-> None]
                                    ELSE None]
       /\ refresh = [i \in Ids |-> IF i \in S THEN SeedToken(i) ELSE None]
       /\ issued  = [i \in Ids |-> IF i \in S THEN {SeedToken(i)} ELSE {}]
  /\ req     = [r \in Reqs |-> Idle]
  /\ second  = 0
  /\ ended   = {}
  /\ faults  = 0

-----------------------------------------------------------------------------
(* Helpers *)

Accounts == {i \in Ids : user[i] # None}

\* SELECT * FROM link_users WHERE email = ?, and WHERE google_id = ?; where the code
\* takes result.first(), it may get any of them.
WithEmail(email)   == {i \in Accounts : user[i].email = email}
WithGoogle(google) == {i \in Accounts : user[i].google = google}

Begin(r, op, step) ==
  /\ op \in Ops /\ req[r].pc = "idle"
  /\ req' = [req EXCEPT ![r] = [step EXCEPT !.op = op]]
  /\ UNCHANGED <<queueVars, user, refresh, second, issued, ended, faults>>

\* Where a request goes on; a token is signed on the way to the command that stores it.
At(r, pc) == [req[r] EXCEPT !.pc = pc, !.since = IF pc = "store" THEN second ELSE 0]

Done(r, what) == [Idle EXCEPT !.pc = "done", !.op = req[r].op, !.id = req[r].id,
                              !.before = req[r].before, !.answer = what]

\* A request has read something and goes on as in step.
Read(r, step) ==
  /\ req' = [req EXCEPT ![r] = step]
  /\ UNCHANGED <<queueVars, user, refresh, second, issued, ended, faults>>

-----------------------------------------------------------------------------
(* The writes *)

\* The slip of an account that is active at once.
create_Active(r) ==
  user' = [user EXCEPT ![r] = [email |-> req[r].email, password |-> r, active |-> TRUE,
                               google |-> None]]

\* Create user with is_active = false
create(r) ==
  user' = [user EXCEPT ![r] = [email |-> req[r].email, password |-> r, active |-> FALSE,
                               google |-> None]]

\* Create user directly active, without password
createFromGoogle(r) ==
  user' = [user EXCEPT ![r] = [email |-> req[r].email, password |-> None, active |-> TRUE,
                               google |-> req[r].key]]

activateUser(r)   == user' = [user EXCEPT ![req[r].id].active = TRUE]
updatePassword(r) == user' = [user EXCEPT ![req[r].id].password = r]
linkGoogleId(r)   == user' = [user EXCEPT ![req[r].id].google = req[r].key,
                                          ![req[r].id].active = TRUE]

storeRefreshToken(r) ==
  \E s \in req[r].since..second :
    refresh' = [refresh EXCEPT ![req[r].id] =
                  [second |-> s, raced |-> req[r].raced,
                   root   |-> IF req[r].op = "refresh" THEN req[r].key.root ELSE r]]

\* The write that a request is waiting for; the other awaits write nothing.
Write(r) ==
  LET pc == req[r].pc
  IN  /\ CASE pc = "insert"           -> create(r)
           [] pc = "createFromGoogle" -> createFromGoogle(r)
           [] pc = "activate"         -> activateUser(r)
           [] pc = "update"           -> updatePassword(r)
           [] pc = "link"             -> linkGoogleId(r)
           [] OTHER                   -> UNCHANGED user
      /\ CASE pc = "store"  -> storeRefreshToken(r)
           [] pc = "logout" -> refresh' = [refresh EXCEPT ![req[r].id] = None]
           [] OTHER         -> UNCHANGED refresh
      /\ IF pc = "addJob" THEN addJob(r) ELSE UNCHANGED queueVars
      /\ ended' = IF pc = "logout" /\ refresh[req[r].id] # None
                  THEN ended \cup {refresh[req[r].id].root} ELSE ended

\* History: q has read what the write of r changes.
Racing(r, q) ==
  /\ q # r /\ req[q].id = req[r].id
  /\ \/ req[r].pc = "logout" /\ req[q].pc = "store" /\ req[q].op = "refresh"
     \/ req[r].pc = "update" /\ req[q].pc = "update"

\* The write of r is done, and r goes on as in step.
Wrote(r, step) ==
  /\ Write(r)
  /\ req' = [q \in Reqs |-> IF q = r THEN step
                            ELSE IF Racing(r, q) THEN [req[q] EXCEPT !.raced = TRUE]
                            ELSE req[q]]
  /\ UNCHANGED second

Then(r, from, pc) ==
  req[r].pc = from /\ Wrote(r, At(r, pc)) /\ UNCHANGED <<issued, faults>>

Finally(r, from, what) ==
  req[r].pc = from /\ Wrote(r, Done(r, what)) /\ UNCHANGED <<issued, faults>>

-----------------------------------------------------------------------------
(* POST /auth/register, and the mail with the link *)

register(r) ==
  \E e \in Emails :
    Begin(r, "register", [Idle EXCEPT !.pc = "create", !.id = r, !.email = e,
                                      !.before = WithEmail(e)])

\* The slip of not looking whether the email is taken.
Look_Unused(r) == req[r].pc = "create" /\ Read(r, At(r, "insert"))

\* if (existingUser.rows.length > 0) throw
Look(r) ==
  /\ req[r].pc = "create"
  /\ Read(r, IF WithEmail(req[r].email) # {} THEN Done(r, "conflict") ELSE At(r, "insert"))

Inserted(r) == Then(r, "insert", "set")

\* The slip of a promise that nobody resolves.
KeySet_Unresolved(r) == FALSE /\ UNCHANGED vars

\* SET verification_token:<id> or reset_token:<id>
KeySet(r) == Then(r, "set", "addJob")

\* The slip of not waiting for the queue.
Queued_NotAwaited(r) ==
  /\ req[r].pc = "addJob"
  /\ Read(r, Done(r, IF req[r].op = "register" THEN "registered" ELSE "mailed"))

Queued(r) == Finally(r, "addJob", IF req[r].op = "register" THEN "registered" ELSE "mailed")

\* A verification or reset mail has gone out to the account.
Mailed(i) == \E m \in Reqs : req[m].id = i /\ sent[m] > 0

\* The client has a token of JWT_SECRET: the link of a mail or an access token.  They
\* carry the same, and are good wherever a token of that secret is.
HasToken(i) == Mailed(i) \/ issued[i] # {}

verifyEmail(r) ==
  \E i \in Ids :
    HasToken(i) /\ Begin(r, "verify", [Idle EXCEPT !.pc = "activate", !.id = i])

Activated(r) == Then(r, "activate", "del")

\* The verification or reset token is deleted.
KeyDeleted(r) == Finally(r, "del", IF req[r].op = "verify" THEN "verified" ELSE "changed")

-----------------------------------------------------------------------------
(* Sessions *)

login(r) ==
  \E e \in Emails : Begin(r, "login", [Idle EXCEPT !.pc = "validate", !.email = e])

\* The slip of not looking at isActive.
validateUser_Inactive(r) ==
  /\ req[r].pc = "validate"
  /\ \/ Read(r, Done(r, "refused"))
     \/ \E i \in WithEmail(req[r].email) :
          \/ user[i].password = None /\ Read(r, Done(r, "error"))
          \/ user[i].password # None /\ Read(r, [At(r, "store") EXCEPT !.id = i])

\* The password is right or not; comparing with none at all throws.
validateUser(r) ==
  /\ req[r].pc = "validate"
  /\ \/ Read(r, Done(r, "refused"))
     \/ \E i \in WithEmail(req[r].email) :
          \/ user[i].password = None /\ Read(r, Done(r, "error"))
          \/ user[i].password # None /\ user[i].active
             /\ Read(r, [At(r, "store") EXCEPT !.id = i])

refreshToken(r) ==
  \E i \in Ids : \E t \in issued[i] :
    Begin(r, "refresh", [Idle EXCEPT !.pc = "refresh", !.id = i, !.key = t])

\* The slip of accepting any token while there is a session.
Compare_Any(r) ==
  LET stored == refresh[req[r].id]
  IN  /\ req[r].pc = "refresh"
      /\ IF stored = None
         THEN Read(r, Done(r, "refused"))
         ELSE Read(r, [At(r, "store") EXCEPT !.raced = req[r].key.raced])

\* if (!storedToken || storedToken !== refreshToken) throw.  Two sessions of one second
\* have the same token.
Compare(r) ==
  LET stored == refresh[req[r].id]
      given  == req[r].key
  IN  /\ req[r].pc = "refresh"
      /\ IF stored = None \/ stored.second # given.second
         THEN Read(r, Done(r, "refused"))
         ELSE Read(r, [At(r, "store") EXCEPT
                         !.raced = given.raced \/ stored # given])

\* The session is stored and the client gets its token.
Stored(r) ==
  /\ req[r].pc = "store"
  /\ Wrote(r, Done(r, "in"))
  /\ issued' = [issued EXCEPT ![req[r].id] = @ \cup {refresh'[req[r].id]}]
  /\ UNCHANGED faults

logout(r) ==
  \E i \in Ids : HasToken(i) /\ Begin(r, "logout", [Idle EXCEPT !.pc = "logout", !.id = i])

LoggedOut(r) == Finally(r, "logout", "out")

-----------------------------------------------------------------------------
(* Passwords *)

forgotPassword(r) ==
  \E e \in Emails : Begin(r, "forgot", [Idle EXCEPT !.pc = "forgot", !.email = e])

\* The client is answered in the same words whether there is an account or not.
Forgotten(r) ==
  /\ req[r].pc = "forgot"
  /\ \/ WithEmail(req[r].email) = {} /\ Read(r, Done(r, "no such user"))
     \/ \E i \in WithEmail(req[r].email) : Read(r, [At(r, "set") EXCEPT !.id = i])

\* A token is good until it expires, however often it is used.
resetPassword(r) ==
  \E i \in Ids : HasToken(i) /\ Begin(r, "reset", [Idle EXCEPT !.pc = "update", !.id = i])

changePassword(r) ==
  \E i \in Ids : HasToken(i) /\ Begin(r, "change", [Idle EXCEPT !.pc = "change", !.id = i])

\* The slip of not using the result of the comparison.
CurrentPassword_Unused(r) ==
  /\ req[r].pc = "change"
  /\ \E i \in WithEmail(user[req[r].id].email) :
       \/ user[i].password = None /\ Read(r, Done(r, "error"))
       \/ user[i].password # None
          /\ \E p \in Ids : Read(r, [At(r, "update") EXCEPT !.key = p])

\* The password that is compared is that of the account found by the email.
CurrentPassword(r) ==
  /\ req[r].pc = "change"
  /\ \/ Read(r, Done(r, "refused"))
     \/ \E i \in WithEmail(user[req[r].id].email) :
          \/ user[i].password = None /\ Read(r, Done(r, "error"))
          \/ user[i].password # None
             /\ Read(r, [At(r, "update") EXCEPT !.key = user[i].password])

PasswordUpdated(r) == Then(r, "update", "del")

-----------------------------------------------------------------------------
(* Google: validateGoogleUser, then loginWithGoogle *)

google(r) ==
  \E e \in Emails, g \in Googles :
    Begin(r, "google", [Idle EXCEPT !.pc = "byGoogleId", !.email = e, !.key = g,
                                    !.before = WithEmail(e)])

ByGoogleId(r) ==
  /\ req[r].pc = "byGoogleId"
  /\ \/ WithGoogle(req[r].key) = {} /\ Read(r, At(r, "byEmail"))
     \/ \E i \in WithGoogle(req[r].key) : Read(r, [At(r, "store") EXCEPT !.id = i])

\* findByEmail returns no googleId, so every account it finds can be linked.
ByEmail(r) ==
  /\ req[r].pc = "byEmail"
  /\ \/ /\ WithEmail(req[r].email) = {}
        /\ Read(r, [At(r, "createFromGoogle") EXCEPT !.id = r])
     \/ \E i \in WithEmail(req[r].email) : Read(r, [At(r, "linkCheck") EXCEPT !.id = i])

\* existingGoogleLink && existingGoogleLink.id !== userId
LinkCheck(r) ==
  LET holders == WithGoogle(req[r].key)
  IN  /\ req[r].pc = "linkCheck"
      /\ \/ (holders = {} \/ req[r].id \in holders) /\ Read(r, At(r, "link"))
         \/ holders \ {req[r].id} # {} /\ Read(r, Done(r, "conflict"))

Linked(r)        == Then(r, "link", "store")
GoogleCreated(r) == Then(r, "createFromGoogle", "store")

-----------------------------------------------------------------------------
(* Failures *)

Waiting(r) == req[r].pc \notin {"idle", "done"}

\* verifyEmail, refreshToken and resetPassword answer every error alike.
Failure(r) == IF req[r].op \in {"verify", "refresh", "reset"} THEN "refused" ELSE "error"

\* A command fails: it was executed, or not.
Fail(r) ==
  /\ faults < MaxFaults /\ faults' = faults + 1
  /\ Waiting(r)
  /\ \/ Wrote(r, Done(r, Failure(r)))
     \/ /\ req' = [req EXCEPT ![r] = Done(r, Failure(r))]
        /\ UNCHANGED <<queueVars, user, refresh, second, ended>>
  /\ UNCHANGED issued

\* The process dies, with its requests and workers.
Crash ==
  /\ faults < MaxFaults /\ faults' = faults + 1
  /\ Lose(Active)
  /\ req' = [r \in Reqs |-> IF Waiting(r) THEN Done(r, "error") ELSE req[r]]
  /\ UNCHANGED <<user, refresh, second, issued, ended>>

\* Seven days without a refresh
SessionExpires(i) ==
  /\ refresh[i] # None
  /\ refresh' = [refresh EXCEPT ![i] = None]
  /\ UNCHANGED <<queueVars, user, req, second, issued, ended, faults>>

Tick ==
  /\ second < MaxSecond /\ second' = second + 1
  /\ UNCHANGED <<queueVars, user, refresh, req, issued, ended, faults>>

-----------------------------------------------------------------------------

Arrive(r) ==
  \/ register(r) \/ verifyEmail(r) \/ login(r) \/ refreshToken(r) \/ logout(r)
  \/ forgotPassword(r) \/ resetPassword(r) \/ changePassword(r) \/ google(r)

Continue(r) ==
  \/ Look(r) \/ Inserted(r) \/ KeySet(r) \/ Queued(r) \/ Activated(r) \/ KeyDeleted(r)
  \/ validateUser(r) \/ Compare(r) \/ Stored(r) \/ LoggedOut(r)
  \/ Forgotten(r) \/ CurrentPassword(r) \/ PasswordUpdated(r)
  \/ ByGoogleId(r) \/ ByEmail(r) \/ LinkCheck(r) \/ Linked(r) \/ GoogleCreated(r)

\* The queue works on its own.
Mail ==
  /\ \E m \in Mails : Process(m) \/ LockLost(m)
  /\ UNCHANGED <<user, refresh, req, second, issued, ended, faults>>

Next ==
  \/ \E r \in Reqs : Arrive(r) \/ Continue(r) \/ Fail(r)
  \/ Mail
  \/ \E i \in Ids : SessionExpires(i)
  \/ Tick \/ Crash

Spec == Init /\ [][Next]_vars

\* Commands come back, and the queue works; clients need not come.
Fairness ==
  /\ \A r \in Reqs : WF_vars(Continue(r))
  /\ \A m \in Mails : WF_vars(Process(m) /\ UNCHANGED <<user, refresh, req, second, issued,
                                                        ended, faults>>)

FairSpec == Spec /\ Fairness

-----------------------------------------------------------------------------
(* Properties *)

\* Two accounts have one email only if their creations overlapped: an account that was
\* there when a registration or a Google sign-in arrived is found, through all failures
\* and half-done registrations (users.service.ts:15-22, auth.service.ts:216-241).
DuplicatesOverlapped ==
  \A i \in Accounts, r \in Accounts \cap Reqs :
    i # r /\ user[i].email = user[r].email => i \notin req[r].before

\* An account that was created here is active only if Google vouches for it or a mail has
\* gone out to its address, of verification or of a reset, whose links are alike to
\* verifyEmail (users.service.ts:30-37, 147, 195; auth.service.ts:61-63, 86-92, 156-158).
ActiveWasProved ==
  \A r \in Accounts \cap Reqs : user[r].active => user[r].google # None \/ Mailed(r)

\* A session belongs to an account that is active (auth.service.ts:45-50, 251-252).
SessionsAreOfActive ==
  \A i \in Ids : refresh[i] # None => user[i] # None /\ user[i].active

\* A session that a logout has ended goes on only through a refresh that was between its
\* comparison and its write at that moment, or through another session whose token is the
\* same string (auth.service.ts:112-128, 138).
LogoutEndsSession ==
  \A i \in Ids : refresh[i] # None /\ refresh[i].root \in ended => refresh[i].raced

\* changePassword overwrites the password that it has compared, unless another change
\* came in between or the email has two accounts (auth.service.ts:317-324).
ComparedIsOverwritten ==
  [][\A r \in Reqs :
       LET i == req[r].id
       IN  req[r].pc = "update" /\ req[r].op = "change" /\ user'[i] # user[i] /\ req'[r] # req[r] =>
             \/ user[i].password = req[r].key
             \/ req[r].raced
             \/ WithEmail(user[i].email) # {i}]_vars

\* A client who was told that a mail is on its way is told the truth: the queue has the
\* job, and so a mail follows or every attempt fails (auth.service.ts:74-77, 169-172).
ToldIsMailed ==
  \A r \in Reqs : req[r].answer \in {"registered", "mailed"} =>
                    job[r].state # "none"

\* With NoMailIsForgotten, a registration that was answered leads to a mail or to a job
\* that failed (auth.service.ts:74-77, email-queue.service.ts:20-24).
MailFollows ==
  \A r \in Reqs : req[r].answer \in {"registered", "mailed"}
                    ~> sent[r] > 0 \/ job[r].state = "failed"

\* Every request is answered (auth.service.ts:38-332).
RequestsEnd == \A r \in Reqs : Waiting(r) ~> ~Waiting(r)
=============================================================================
