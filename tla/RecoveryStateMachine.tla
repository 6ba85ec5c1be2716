------------------------ MODULE RecoveryStateMachine ------------------------
(***************************************************************************)
(* The lifecycle graph of a recovery case (state_machine.py, enums.py) and *)
(* the status changes each writer of a case row makes inside one database  *)
(* transaction: the deterministic processor, the tool executor, the agent  *)
(* orchestrator and the verifier.  Statuses that a transaction passes      *)
(* through without committing are kept as edges, so that the legality of   *)
(* every edge can be required although only the last status is visible.    *)
(***************************************************************************)
EXTENDS Naturals

\* RecoveryCaseStatus.
CaseStatus ==
    {"DETECTED", "TRIAGED", "INVESTIGATING", "DIAGNOSED", "SCORING",
     "STRATEGY_SELECTED", "POLICY_CHECK", "AWAITING_APPROVAL", "EXECUTING",
     "ACTION_COMPLETED", "VERIFYING", "RECOVERED", "NOT_RECOVERED",
     "RETRY_SCHEDULED", "ESCALATED", "STOPPED", "FAILED"}

\* TERMINAL_RECOVERY_STATUSES.
TERMINAL_RECOVERY_STATUSES == {"RECOVERED", "STOPPED"}

LEGAL_TRANSITIONS ==
    {<<"DETECTED", "TRIAGED">>,
     <<"TRIAGED", "INVESTIGATING">>, <<"TRIAGED", "SCORING">>,
     <<"INVESTIGATING", "DIAGNOSED">>,
     <<"DIAGNOSED", "SCORING">>,
     <<"SCORING", "STRATEGY_SELECTED">>,
     <<"STRATEGY_SELECTED", "POLICY_CHECK">>,
     <<"POLICY_CHECK", "EXECUTING">>, <<"POLICY_CHECK", "STOPPED">>,
     <<"POLICY_CHECK", "ESCALATED">>, <<"POLICY_CHECK", "AWAITING_APPROVAL">>,
     <<"POLICY_CHECK", "RETRY_SCHEDULED">>,
     <<"AWAITING_APPROVAL", "EXECUTING">>, <<"AWAITING_APPROVAL", "STOPPED">>,
     <<"AWAITING_APPROVAL", "ESCALATED">>,
     <<"AWAITING_APPROVAL", "POLICY_CHECK">>,
     <<"EXECUTING", "ACTION_COMPLETED">>, <<"EXECUTING", "FAILED">>,
     <<"ACTION_COMPLETED", "VERIFYING">>,
     <<"VERIFYING", "RECOVERED">>, <<"VERIFYING", "NOT_RECOVERED">>,
     <<"VERIFYING", "RETRY_SCHEDULED">>,
     <<"NOT_RECOVERED", "RETRY_SCHEDULED">>, <<"NOT_RECOVERED", "ESCALATED">>,
     <<"NOT_RECOVERED", "STOPPED">>,
     <<"FAILED", "RETRY_SCHEDULED">>, <<"FAILED", "ESCALATED">>,
     <<"FAILED", "STOPPED">>,
     <<"RETRY_SCHEDULED", "SCORING">>,
     <<"ESCALATED", "STOPPED">>}

is_terminal(status) == status \in TERMINAL_RECOVERY_STATUSES

\* assert_legal_transition over every edge a transaction takes.
AllLegal(edges) == edges \subseteq LEGAL_TRANSITIONS

-----------------------------------------------------------------------------
(* The walk to POLICY_CHECK *)

\* The starting status followed by PROCESS_STEPS.
Walk ==
    <<"DETECTED", "TRIAGED", "INVESTIGATING", "DIAGNOSED", "SCORING",
      "STRATEGY_SELECTED", "POLICY_CHECK">>

OnWalk == {Walk[i] : i \in 1..7}

\* The statuses _already_past knows after POLICY_CHECK: the walk skips them.
PastWalk == {"AWAITING_APPROVAL", "EXECUTING", "ACTION_COMPLETED"}

\* The edges from status s on the walk to status t on the walk.
WalkEdges(s, t) ==
    {<<Walk[i], Walk[i + 1]>> :
        i \in {j \in 1..6 : /\ \E k \in 1..j : Walk[k] = s
                            /\ \E k \in j + 1..7 : Walk[k] = t}}

\* Mutant: a status the walk does not know is left where it is.
CanWalkAny(s) == s \in CaseStatus

\* _walk_to_policy_check: raises InvalidTransitionError (towards TRIAGED) on
\* every status outside its order list.
CanWalk(s) == /\ s \in OnWalk \cup PastWalk
              /\ AllLegal(WalkEdges(s, "POLICY_CHECK"))
Walked(s) == IF s \in OnWalk THEN "POLICY_CHECK" ELSE s

-----------------------------------------------------------------------------
(* process_locked_case *)

\* What the policy engine says of the processor's action: it may run; it
\* needs approval; it is denied, and the reason does or does not name a
\* suspicious or mismatching source.
Verdict == {"ALLOW", "APPROVE", "DENY_SOURCE", "DENY"}

\* The edges taken from POLICY_CHECK for a verdict, and where they end.
VerdictEdges(v) ==
    [ALLOW |-> {<<"POLICY_CHECK", "EXECUTING">>,
                <<"EXECUTING", "ACTION_COMPLETED">>},
     APPROVE |-> {<<"POLICY_CHECK", "AWAITING_APPROVAL">>},
     DENY_SOURCE |-> {<<"POLICY_CHECK", "ESCALATED">>},
     DENY |-> {<<"POLICY_CHECK", "STOPPED">>}][v]

VerdictStatus(v) ==
    [ALLOW |-> "ACTION_COMPLETED", APPROVE |-> "AWAITING_APPROVAL",
     DENY_SOURCE |-> "ESCALATED", DENY |-> "STOPPED"][v]

\* Only a case on the walk is processed; every other status is returned as is
\* (the early returns, and EXECUTING, which walks nowhere).
ProcessLegal(s, v) ==
    s \in OnWalk => AllLegal(WalkEdges(s, "POLICY_CHECK") \cup VerdictEdges(v))
Processed(s, v) == IF s \in OnWalk THEN VerdictStatus(v) ELSE s

-----------------------------------------------------------------------------
(* ToolExecutionService.execute and apply_case_outcome *)

SIDE_EFFECT_EXECUTE_STATES ==
    {"POLICY_CHECK", "AWAITING_APPROVAL", "EXECUTING", "ACTION_COMPLETED",
     "RETRY_SCHEDULED", "NOT_RECOVERED", "FAILED"}

\* How the run of a side-effecting tool ends for the case: policy blocks it,
\* it waits for approval, the handler fails, or it succeeds with the
\* handler's case_status.
ToolOutcome == {"BLOCKED", "APPROVAL_REQUIRED", "FAILED", "ACTION_COMPLETED",
                "RETRY_SCHEDULED", "ESCALATED", "STOPPED"}

\* The edges a tool run takes from status s.
Taken(edge, condition) == {e \in {edge} : condition}
ToolEdges(s, o) ==
    LET ran == o \in {"FAILED", "ACTION_COMPLETED"}
    IN  UNION {
          Taken(<<s, "AWAITING_APPROVAL">>,
                o = "APPROVAL_REQUIRED" /\ s = "POLICY_CHECK"),
          Taken(<<s, "EXECUTING">>,
                ran /\ s \in {"POLICY_CHECK", "AWAITING_APPROVAL"}),
          Taken(<<"EXECUTING", o>>,
                ran /\ s \in {"POLICY_CHECK", "AWAITING_APPROVAL",
                              "EXECUTING"}),
          Taken(<<s, o>>, o = "RETRY_SCHEDULED" /\ s = "POLICY_CHECK"),
          Taken(<<s, o>>,
                /\ o \in {"ESCALATED", "STOPPED"}
                /\ s \in {"POLICY_CHECK", "AWAITING_APPROVAL", "FAILED",
                          "NOT_RECOVERED"})}

\* The status a tool run leaves: its last edge, or no change.
ToolStatus(s, o) ==
    IF o = "BLOCKED" \/ ToolEdges(s, o) = {} THEN s
    ELSE IF o = "APPROVAL_REQUIRED" THEN "AWAITING_APPROVAL"
    ELSE o
=============================================================================
