---------------------------- MODULE ClickLedger ----------------------------
(***************************************************************************)
(* What the click counter of a link promises, whatever lies between the    *)
(* visitor and the counter: a click is counted once, and once more at most *)
(* for every mishap that befell it.  Nothing is counted that no visitor    *)
(* made, and nothing that is neither on its way nor repeated by a mishap.  *)
(***************************************************************************)
EXTENDS Integers

CONSTANT Clicks

VARIABLES
  made,      \* the clicks that visitors made
  tally,     \* how often a click is in the counter
  owed,      \* how often it is on its way to the counter
  mishaps    \* how often it was repeated, or an attempt to count it failed

ledger == <<made, tally, owed, mishaps>>

LedgerTypeOK ==
  /\ made \subseteq Clicks
  /\ tally \in [Clicks -> Nat] /\ owed \in [Clicks -> Nat] /\ mishaps \in [Clicks -> Nat]

LedgerInit ==
  /\ made = {}
  /\ tally = [c \in Clicks |-> 0] /\ owed = [c \in Clicks |-> 0]
  /\ mishaps = [c \in Clicks |-> 0]

\* A visitor makes the click.
Make(c) ==
  /\ c \notin made /\ c \in made'
  /\ owed'[c] \in {0, 1}
  /\ tally'[c] = tally[c] /\ mishaps'[c] = mishaps[c]

\* It is counted, repeated or lost, or nothing happens to it.
Settle(c) ==
  /\ c \in made' <=> c \in made
  /\ tally'[c] >= tally[c] /\ mishaps'[c] >= mishaps[c]
  /\ tally'[c] # tally[c] => owed[c] > 0
  /\ c \notin made => UNCHANGED <<owed[c], mishaps[c]>>
  /\ tally'[c] + owed'[c] - mishaps'[c] <= tally[c] + owed[c] - mishaps[c]

LedgerNext ==
  /\ \A c \in Clicks : Make(c) \/ Settle(c)
  /\ LedgerTypeOK'

LedgerSpec == LedgerInit /\ [][LedgerNext]_ledger

\* A click is in the counter at most once more than mishaps befell it, and not before a
\* visitor made it.
CountedAtMostOncePerMishap ==
  \A c \in Clicks : tally[c] <= mishaps[c] + (IF c \in made THEN 1 ELSE 0)
=============================================================================
