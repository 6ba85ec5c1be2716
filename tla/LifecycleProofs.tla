-------------------------- MODULE LifecycleProofs --------------------------
(***************************************************************************)
(* Lemmas about RecoveryStateMachine: where the processor and the tools    *)
(* can leave a case.                                                       *)
(***************************************************************************)
EXTENDS RecoveryStateMachine, TLAPS

\* The statuses of the walk, from which alone a case is processed.
LEMMA WalkIs ==
    OnWalk = {"DETECTED", "TRIAGED", "INVESTIGATING", "DIAGNOSED", "SCORING",
              "STRATEGY_SELECTED", "POLICY_CHECK"}
  <1>1. \A i \in 1..7 : \/ i = 1 \/ i = 2 \/ i = 3 \/ i = 4
                        \/ i = 5 \/ i = 6 \/ i = 7
    OBVIOUS
  <1>2. OnWalk = {Walk[1], Walk[2], Walk[3], Walk[4], Walk[5], Walk[6],
                  Walk[7]}
    BY <1>1 DEF OnWalk
  <1> QED BY <1>2 DEF Walk

\* The processor leaves a case in a status of the lifecycle, never RECOVERED.
LEMMA ProcessedStatus ==
    ASSUME NEW s \in CaseStatus, NEW v \in Verdict
    PROVE  /\ Processed(s, v) \in CaseStatus
           /\ s # "RECOVERED" => Processed(s, v) # "RECOVERED"
  <1>1. VerdictStatus(v) \in {"ACTION_COMPLETED", "AWAITING_APPROVAL",
                              "ESCALATED", "STOPPED"}
    BY DEF Verdict, VerdictStatus
  <1> QED BY <1>1, WalkIs DEF Processed, CaseStatus

\* So does a tool.
LEMMA ToolStatuses ==
    ASSUME NEW s \in CaseStatus, NEW o \in ToolOutcome
    PROVE  /\ ToolStatus(s, o) \in CaseStatus
           /\ s # "RECOVERED" => ToolStatus(s, o) # "RECOVERED"
  BY DEF ToolStatus, ToolOutcome, CaseStatus

\* The statuses from which a case can still come to wait for approval.
Early == OnWalk \cup {"AWAITING_APPROVAL"}

\* Processing takes a case off the walk, and into AWAITING_APPROVAL only for
\* that verdict.
LEMMA ProcessedStatusMoves ==
    ASSUME NEW s \in CaseStatus, NEW v \in Verdict
    PROVE  /\ Processed(s, v) \notin OnWalk
           /\ s \notin Early => Processed(s, v) \notin Early
           /\ Processed(s, v) = "AWAITING_APPROVAL" =>
                s = "AWAITING_APPROVAL" \/ (s \in OnWalk /\ v = "APPROVE")
  <1>1. /\ v = "APPROVE" => VerdictStatus(v) = "AWAITING_APPROVAL"
        /\ v # "APPROVE" =>
             VerdictStatus(v) \in {"ACTION_COMPLETED", "ESCALATED", "STOPPED"}
    BY DEF Verdict, VerdictStatus
  <1> QED BY <1>1, WalkIs DEF Processed, Early

\* The runs whose tool moves the case.
LEMMA ToolEdgesTaken ==
    ASSUME NEW s, NEW o
    PROVE  ToolEdges(s, o) # {} <=>
             \/ o = "APPROVAL_REQUIRED" /\ s = "POLICY_CHECK"
             \/ /\ o \in {"FAILED", "ACTION_COMPLETED"}
                /\ s \in {"POLICY_CHECK", "AWAITING_APPROVAL", "EXECUTING"}
             \/ o = "RETRY_SCHEDULED" /\ s = "POLICY_CHECK"
             \/ /\ o \in {"ESCALATED", "STOPPED"}
                /\ s \in {"POLICY_CHECK", "AWAITING_APPROVAL", "FAILED",
                          "NOT_RECOVERED"}
  BY DEF ToolEdges, Taken

\* A tool never takes a case back to the walk; it leaves it waiting only by
\* asking for approval; and when its handler succeeds, other than with a
\* scheduled retry, the case is done waiting.
LEMMA ToolStatusMoves ==
    ASSUME NEW s \in CaseStatus, NEW o \in ToolOutcome
    PROVE  /\ s \notin OnWalk => ToolStatus(s, o) \notin OnWalk
           /\ s \notin Early => ToolStatus(s, o) \notin Early
           /\ ToolStatus(s, o) = "AWAITING_APPROVAL" =>
                s = "AWAITING_APPROVAL" \/ o = "APPROVAL_REQUIRED"
           /\ /\ o \in {"ACTION_COMPLETED", "ESCALATED", "STOPPED"}
              /\ s \in SIDE_EFFECT_EXECUTE_STATES
              => ToolStatus(s, o) \notin Early
  BY ToolEdgesTaken, WalkIs
  DEF ToolStatus, ToolOutcome, Early, SIDE_EFFECT_EXECUTE_STATES
=============================================================================
