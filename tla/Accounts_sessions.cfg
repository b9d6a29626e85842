\* Sessions, passwords, links and duplicates: one account is signed in, more are created.
SPECIFICATION Spec
CONSTANTS
  Mails = {r1, r2, r3}
  Attempts = 1
  MaxStalls = 0
  Ops = {"login", "refresh", "logout", "change", "google", "register", "verify", "forgot", "reset"}
  Emails = {e}
  Googles = {g, h}
  Seeds = {a}
  None = None
  MaxSecond = 1
  MaxFaults = 1
SYMMETRY Symmetry
INVARIANTS
  DuplicatesOverlapped
  SessionsAreOfActive
  LogoutEndsSession
  ActiveWasProved
PROPERTIES
  ComparedIsOverwritten
\* It stops when every request has been answered.
CHECK_DEADLOCK FALSE
