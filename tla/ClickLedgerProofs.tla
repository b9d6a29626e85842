------------------------- MODULE ClickLedgerProofs -------------------------
(***************************************************************************)
(* What the ledger of clicks implies: a click that is in the counter too   *)
(* often has had a mishap for every time too much.                         *)
(***************************************************************************)
EXTENDS ClickLedger, TLAPS

\* A click that nobody made owes nothing; what is counted and what is still owed together
\* exceed the mishaps by one at most.
LedgerInv ==
  /\ LedgerTypeOK
  /\ \A c \in Clicks :
       tally[c] + owed[c] <= mishaps[c] + (IF c \in made THEN 1 ELSE 0)

\* For any number of clicks and any sequence of mishaps, a click is counted at most once
\* more than mishaps befell it (redirect.controller.ts:47, kafka-consumer.service.ts:78-110).
THEOREM LedgerBalances == LedgerSpec => []CountedAtMostOncePerMishap
<1>1. LedgerInit => LedgerInv
  BY DEF LedgerInit, LedgerInv, LedgerTypeOK
<1>2. LedgerInv /\ [LedgerNext]_ledger => LedgerInv'
  <2> SUFFICES ASSUME LedgerInv, [LedgerNext]_ledger PROVE LedgerInv'
    OBVIOUS
  <2>1. CASE LedgerNext
    <3>1. LedgerTypeOK /\ LedgerTypeOK'
      BY <2>1 DEF LedgerNext, LedgerInv
    <3>2. ASSUME NEW c \in Clicks
          PROVE  tally'[c] + owed'[c] <= mishaps'[c] + (IF c \in made' THEN 1 ELSE 0)
      <4>1. /\ tally[c] \in Nat /\ owed[c] \in Nat /\ mishaps[c] \in Nat
            /\ tally'[c] \in Nat /\ owed'[c] \in Nat /\ mishaps'[c] \in Nat
        BY <3>1 DEF LedgerTypeOK
      <4>2. tally[c] + owed[c] <= mishaps[c] + (IF c \in made THEN 1 ELSE 0)
        BY DEF LedgerInv
      <4>3. CASE Make(c)
        BY <4>1, <4>2, <4>3 DEF Make
      <4>4. CASE Settle(c)
        BY <4>1, <4>2, <4>4 DEF Settle
      <4> QED BY <2>1, <4>3, <4>4 DEF LedgerNext
    <3>3. (\A c \in Clicks :
             tally[c] + owed[c] <= mishaps[c] + (IF c \in made THEN 1 ELSE 0))'
      BY <3>2
    <3> QED BY <3>1, <3>3 DEF LedgerInv
  <2>2. CASE UNCHANGED ledger
    BY <2>2 DEF ledger, LedgerInv, LedgerTypeOK
  <2> QED BY <2>1, <2>2
<1>3. LedgerInv => CountedAtMostOncePerMishap
  <2> SUFFICES ASSUME LedgerInv, NEW c \in Clicks
      PROVE  tally[c] <= mishaps[c] + (IF c \in made THEN 1 ELSE 0)
    BY DEF CountedAtMostOncePerMishap
  <2>1. tally[c] \in Nat /\ owed[c] \in Nat /\ mishaps[c] \in Nat
    BY DEF LedgerInv, LedgerTypeOK
  <2> QED BY <2>1 DEF LedgerInv
<1> QED BY <1>1, <1>2, <1>3, PTL DEF LedgerSpec
=============================================================================
