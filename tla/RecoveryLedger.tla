--------------------------- MODULE RecoveryLedger ---------------------------
(***************************************************************************)
(* What the system promises of recovered revenue, without payments,        *)
(* workers, jobs or lifecycle statuses.  A case opens with the amount at   *)
(* risk.  While it is open it may be credited with less than that amount,  *)
(* any number of times, each credit replacing the one before.  It is       *)
(* settled once: recovered, with exactly the amount at risk, or stopped,   *)
(* with whatever was credited.  A settled case never changes.              *)
(***************************************************************************)
EXTENDS Naturals

CONSTANTS Cases, Amounts

VARIABLE ledger

Entry(state, at_risk, recovered) ==
    [state |-> state, at_risk |-> at_risk, recovered |-> recovered]

LedgerInit == ledger = [c \in Cases |-> Entry("none", 0, 0)]

Open(c, amount) ==
    /\ ledger[c].state = "none"
    /\ ledger' = [ledger EXCEPT ![c] = Entry("open", amount, 0)]

\* A partial credit; the transaction that makes it may also stop the case.
Credit(c, amount, state) ==
    LET at_risk == ledger[c].at_risk IN
    /\ ledger[c].state = "open"
    /\ 0 < amount /\ amount < at_risk
    /\ ledger' = [ledger EXCEPT ![c] = Entry(state, at_risk, amount)]

Recover(c) ==
    LET at_risk == ledger[c].at_risk IN
    /\ ledger[c].state = "open"
    /\ ledger' = [ledger EXCEPT ![c] = Entry("recovered", at_risk, at_risk)]

Stop(c) ==
    LET row == ledger[c] IN
    /\ row.state = "open"
    /\ ledger' = [ledger EXCEPT ![c] = Entry("stopped", row.at_risk, row.recovered)]

LedgerNext ==
    \E c \in Cases :
      \/ \E amount \in Amounts : Open(c, amount)
      \/ \E amount \in Amounts, state \in {"open", "stopped"} :
           Credit(c, amount, state)
      \/ Recover(c)
      \/ Stop(c)

LedgerSpec == LedgerInit /\ [][LedgerNext]_ledger
=============================================================================
