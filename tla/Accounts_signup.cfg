\* Accounts come to be: registration, mail, verification, Google, passwords that are forgotten.
SPECIFICATION FairSpec
CONSTANTS
  Mails = {r1, r2}
  Attempts = 3
  MaxStalls = 1
  Ops = {"register", "verify", "login", "google", "forgot", "reset"}
  Emails = {e}
  Googles = {g}
  Seeds = {a}
  None = None
  MaxSecond = 0
  MaxFaults = 1
INVARIANTS
  TypeOK
  NoMailIsForgotten
  RepeatsAreBounded
  ToldIsMailed
PROPERTIES
  MailFollows
  RequestsEnd
\* It stops when every request has been answered.
CHECK_DEADLOCK FALSE
