---------------------------- MODULE HarnessStates ----------------------------
(***************************************************************************)
(* harness/workflow.yaml: the states, the role that each belongs to, and   *)
(* the transitions.                                                        *)
(***************************************************************************)
EXTENDS Sequences, SequencesExt

DeHumano    == {"IDLE", "WAITING_HUMAN_APPROVAL", "BLOCKED_HUMAN"}
DeDeveloper == {"NEW", "DEVELOPING", "REVIEW_REJECTED"}
DeReviewer  == {"READY_FOR_REVIEW", "REVIEWING", "CANDIDATE_REVIEW"}
DeDeployer  == {"REVIEW_APPROVED", "MERGING", "PREPARING_DEPLOYMENT", "DEPLOYING", "VERIFYING",
                "DEPLOY_FAILED", "VERIFY_FAILED", "ROLLING_BACK"}
DelSistema  == {"DONE"}

Estados == DeHumano \cup DeDeveloper \cup DeReviewer \cup DeDeployer \cup DelSistema

Rol ==
  [s \in Estados |->
     CASE s \in DeHumano -> "human"
       [] s \in DeDeveloper -> "developer"
       [] s \in DeReviewer -> "reviewer"
       [] s \in DeDeployer -> "deployer"
       [] s \in DelSistema -> "system"]

(***************************************************************************)
(* workflow.yaml: event, from, to, what it records (or "ninguna"), guards, *)
(* effects, and the references that clear_refs drops.  The actor of every  *)
(* transition is the role of its from state.                               *)
(***************************************************************************)
T(ev, de, a, rec, gs, efs, limpia) ==
  [ev |-> ev, de |-> de, a |-> a, rec |-> rec, gs |-> gs, efs |-> efs, limpia |-> limpia]

Transiciones == <<
  T("activate_task", "IDLE", "NEW", "ninguna", {"task_selected"}, {"bind_task"}, {}),
  T("start_development", "NEW", "DEVELOPING", "ninguna", {"task_active"}, {"record_session"}, {}),
  T("submit_for_review", "DEVELOPING", "READY_FOR_REVIEW", "developer_evidence",
    {"task_active", "developer_evidence_valid"}, {}, {}),
  T("start_review", "READY_FOR_REVIEW", "REVIEWING", "ninguna", {"reviewer_session_independent"},
    {"record_session"}, {}),
  T("review_reject", "REVIEWING", "REVIEW_REJECTED", "review_evidence",
    {"review_rejected", "rework_available"}, {"increment_rework"}, {}),
  T("review_reject", "REVIEWING", "BLOCKED_HUMAN", "review_evidence",
    {"review_rejected", "rework_exhausted"}, {"increment_rework"}, {}),
  T("review_approve", "REVIEWING", "REVIEW_APPROVED", "review_evidence", {"review_approved"}, {}, {}),
  T("resume_development", "REVIEW_REJECTED", "DEVELOPING", "ninguna", {}, {"record_session"},
    {"developer_evidence", "review_evidence"}),
  T("start_merge", "REVIEW_APPROVED", "MERGING", "ninguna", {}, {"record_session"}, {}),
  T("merged", "MERGING", "PREPARING_DEPLOYMENT", "merge_evidence",
    {"merge_valid", "deploy_required_fast_path"}, {}, {}),
  T("merged", "MERGING", "DONE", "merge_evidence", {"merge_valid", "no_deploy_required"}, {}, {}),
  T("merged", "MERGING", "BLOCKED_HUMAN", "merge_evidence",
    {"merge_valid", "deploy_required_non_fast_path"}, {}, {}),
  T("merge_failed", "MERGING", "BLOCKED_HUMAN", "failure_evidence", {"failure_recorded"}, {}, {}),
  T("candidate_ready", "PREPARING_DEPLOYMENT", "CANDIDATE_REVIEW", "candidate_evidence",
    {"candidate_valid"}, {}, {}),
  T("preparation_failed", "PREPARING_DEPLOYMENT", "BLOCKED_HUMAN", "failure_evidence",
    {"failure_recorded"}, {}, {}),
  T("candidate_approve", "CANDIDATE_REVIEW", "WAITING_HUMAN_APPROVAL", "candidate_review_evidence",
    {"reviewer_session_independent", "candidate_review_approved"}, {}, {}),
  T("candidate_reject", "CANDIDATE_REVIEW", "DEVELOPING", "candidate_review_evidence",
    {"code", "rework_available"}, {"increment_rework", "reset_release"}, {}),
  T("candidate_reject", "CANDIDATE_REVIEW", "BLOCKED_HUMAN", "candidate_review_evidence",
    {"code", "rework_exhausted"}, {}, {}),
  T("candidate_reject", "CANDIDATE_REVIEW", "PREPARING_DEPLOYMENT", "candidate_review_evidence",
    {"artifact", "candidate_rework_available"}, {"increment_candidate_rework"},
    {"candidate_evidence"}),
  T("candidate_reject", "CANDIDATE_REVIEW", "BLOCKED_HUMAN", "candidate_review_evidence",
    {"artifact", "candidate_rework_exhausted"}, {}, {}),
  T("candidate_reject", "CANDIDATE_REVIEW", "BLOCKED_HUMAN", "candidate_review_evidence",
    {"infra"}, {}, {}),
  T("human_approve", "WAITING_HUMAN_APPROVAL", "DEPLOYING", "approval", {"approval_valid"}, {}, {}),
  T("human_reject", "WAITING_HUMAN_APPROVAL", "DEVELOPING", "approval", {"approval_rejected"},
    {"reset_release"}, {}),
  T("deploy_succeeded", "DEPLOYING", "VERIFYING", "deployment_evidence",
    {"deployment_succeeded"}, {}, {}),
  T("deploy_failed", "DEPLOYING", "DEPLOY_FAILED", "deployment_evidence",
    {"deployment_failed"}, {}, {}),
  T("verified", "VERIFYING", "DONE", "verification_evidence", {"verification_passed"}, {}, {}),
  T("verify_failed", "VERIFYING", "VERIFY_FAILED", "verification_evidence",
    {"verification_failed"}, {}, {}),
  T("start_rollback", "DEPLOY_FAILED", "ROLLING_BACK", "rollback_precheck_evidence",
    {"rollback_permitted"}, {"mark_rollback_attempted"}, {}),
  T("start_rollback", "VERIFY_FAILED", "ROLLING_BACK", "rollback_precheck_evidence",
    {"rollback_permitted"}, {"mark_rollback_attempted"}, {}),
  T("escalate", "DEPLOY_FAILED", "BLOCKED_HUMAN", "failure_evidence", {"failure_recorded"}, {}, {}),
  T("escalate", "VERIFY_FAILED", "BLOCKED_HUMAN", "failure_evidence", {"failure_recorded"}, {}, {}),
  T("rollback_finished", "ROLLING_BACK", "BLOCKED_HUMAN", "rollback_evidence",
    {"rollback_result_recorded"}, {}, {}),
  T("human_resolve", "BLOCKED_HUMAN", "DEVELOPING", "resolution", {"DEVELOPING"},
    {"reset_release", "reset_rework"}, {}),
  T("human_resolve", "BLOCKED_HUMAN", "READY_FOR_REVIEW", "resolution", {"READY_FOR_REVIEW"}, {}, {}),
  T("human_resolve", "BLOCKED_HUMAN", "PREPARING_DEPLOYMENT", "resolution",
    {"PREPARING_DEPLOYMENT"}, {"reset_candidate_rework"},
    {"candidate_evidence", "candidate_review_evidence", "approval", "failure_evidence"}),
  T("human_resolve", "BLOCKED_HUMAN", "CANDIDATE_REVIEW", "resolution", {"CANDIDATE_REVIEW"}, {}, {}),
  T("human_resolve", "BLOCKED_HUMAN", "VERIFYING", "resolution", {"VERIFYING"}, {}, {}),
  T("human_resolve", "BLOCKED_HUMAN", "IDLE", "resolution", {"IDLE"}, {"cancel_task"}, {}),
  T("close", "DONE", "IDLE", "ninguna", {}, {"close_task"}, {}) >>

Eventos == {t.ev : t \in ToSet(Transiciones)}
=============================================================================
