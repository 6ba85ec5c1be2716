--------------------------- MODULE MCCaseRecovery ---------------------------
(* Small instances of CaseRecovery for TLC. *)
EXTENDS CaseRecovery, TLC

CONSTANTS customer, order, Unordered

\* All payments are attempts at one order, but for those whose provider names
\* none: only a tool action relates these to another.
Orders == [p \in Payments |-> IF p \in Unordered THEN NULL ELSE order]

OneCustomer == [p \in Payments |-> customer]
OneCurrency == [p \in Payments |-> "INR"]

\* Payments differ in their order only, and the other ids in nothing.
Symmetry ==
    Permutations(Workers) \cup Permutations(Unordered)
      \cup Permutations(Payments \ Unordered)
      \cup Permutations(Cases) \cup Permutations(Events)
=============================================================================
