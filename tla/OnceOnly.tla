------------------------------ MODULE OnceOnly ------------------------------
(***************************************************************************)
(* What an idempotency key promises its callers, without approvals,        *)
(* policy, action rows or transactions: the operation is decided once, it  *)
(* takes effect exactly when it is decided to succeed, and from then on    *)
(* every answer is that decision.  Before, callers may be told to wait for *)
(* an approval.                                                            *)
(***************************************************************************)
EXTENDS Naturals

CONSTANTS
    Keys,       \* idempotency keys
    Decisions,  \* final results
    Success,    \* the one that takes effect
    Waiting,    \* the answer while an approval is awaited
    NULL        \* undecided

VARIABLES decided, effects, answers

vars == <<decided, effects, answers>>

Init ==
    /\ decided = [k \in Keys |-> NULL]
    /\ effects = [k \in Keys |-> 0]
    /\ answers = [k \in Keys |-> {}]

\* The run that decides; its caller is told.  A read-only operation succeeds
\* without effect.
Decide(k, d) ==
    /\ decided[k] = NULL
    /\ decided' = [decided EXCEPT ![k] = d]
    /\ \/ UNCHANGED effects
       \/ d = Success /\ effects' = [effects EXCEPT ![k] = 1]
    /\ answers' = [answers EXCEPT ![k] = @ \cup {d}]

\* A run that asks for approval, or a caller told so again.
Wait(k) ==
    /\ decided[k] = NULL
    /\ answers' = [answers EXCEPT ![k] = @ \cup {Waiting}]
    /\ UNCHANGED <<decided, effects>>

\* A caller told the decision again.
Repeat(k) ==
    /\ decided[k] # NULL
    /\ answers' = [answers EXCEPT ![k] = @ \cup {decided[k]}]
    /\ UNCHANGED <<decided, effects>>

Next == \E k \in Keys :
          \/ \E d \in Decisions : Decide(k, d)
          \/ Wait(k)
          \/ Repeat(k)

Spec == Init /\ [][Next]_vars
=============================================================================
