---------------------------- MODULE Finalization ----------------------------
(***************************************************************************)
(* The last gates before a comment is written: the actor permission gate   *)
(* (permissions.py), the decision that binds an approval to a permission   *)
(* proof (approval.py), the three checks of finalize_github_payload        *)
(* (finalization.py) and the input of the writer (writer_input.py).        *)
(* They are functions of records; the operators here are what they return. *)
(* A failure is its reason code, and None is a pass.                       *)
(*                                                                         *)
(* A timestamp is a number of seconds, or None where it is missing.  A     *)
(* target is its refs and its merge base, which may be missing; the        *)
(* endpoint of a proof and the hash of a target follow from the target.    *)
(***************************************************************************)
EXTENDS Integers

CONSTANTS
    None,
    MaxProofAge,    \* DEFAULT_MAX_PROOF_AGE_SECONDS
    MaxFutureSkew   \* MAX_FUTURE_SKEW_SECONDS

ReasonCodes ==
    {"unknown_actor", "unknown_credential_source", "missing_credential_principal",
     "missing_checked_target", "missing_checked_at", "target_mismatch", "stale_cached_proof",
     "unknown_permission", "insufficient_endpoint_permission", "malformed_response",
     "actor_permission_gate_failed", "actor_permission_target_mismatch",
     "actor_permission_snapshot_mismatch", "actor_permission_checked_at_regressed",
     "unknown_freshness", "missing_merge_base", "stale_cached_target", "future_checked_at",
     "checked_at_before_approval", "approval_preflight_failed", "actor_permission_failed",
     "target_freshness_failed", "payload_validation_failed", "marker_reconciliation_failed",
     "marker_reconciliation_deferred", "marker_reconciled_existing"}

ASSUME FinalizationAssumption ==
    /\ MaxProofAge \in Nat \ {0} /\ MaxFutureSkew \in Nat
    /\ None \notin ReasonCodes

CredentialSources == {"pat", "fine_grained_pat", "github_app_installation", "github_app_user"}
PermissionKinds == {"repo", "installation", "endpoint"}

WritePermissions ==
    {"write", "maintain", "admin"} \cup {"issues:write", "pull_requests:write"}

ValidPermissions(kind) ==
    IF kind = "repo" THEN {"read", "triage", "write", "maintain", "admin"}
    ELSE {"issues:read", "issues:write", "pull_requests:read", "pull_requests:write"}

\* The kinds of permission that a credential's proof may not carry.
ForeignKinds(source) ==
    IF source = "pat" THEN {"installation", "endpoint"}
    ELSE IF source = "github_app_installation" THEN {"repo"}
    ELSE {"repo", "installation"}

-----------------------------------------------------------------------------
(***************************************************************************)
(* evaluate_actor_permission_gate                                          *)
(***************************************************************************)
PermissionFailure(probe) ==
    LET held == probe.permissions
        app == probe.credential_source = "github_app_installation"
    IN  IF \E kind \in PermissionKinds : held[kind] \notin ValidPermissions(kind) \cup {None}
        THEN "unknown_permission"
        ELSE IF \E kind \in ForeignKinds(probe.credential_source) : held[kind] # None
        THEN "malformed_response"
        ELSE IF app /\ held["installation"] = None THEN "unknown_permission"
        ELSE IF app /\ held["endpoint"] \notin {None, held["installation"]}
        THEN "malformed_response"
        ELSE IF \A kind \in PermissionKinds : held[kind] = None THEN "unknown_permission"
        ELSE IF \A kind \in PermissionKinds : held[kind] \notin WritePermissions
        THEN "insufficient_endpoint_permission"
        ELSE None

Stale(checked_at, evaluated_at) ==
    \/ evaluated_at - checked_at > MaxProofAge
    \/ checked_at - evaluated_at > MaxFutureSkew

GateFailure(probe, expected_target, evaluated_at) ==
    IF probe.malformed THEN "malformed_response"
    ELSE IF probe.transport_reason_code # None THEN probe.transport_reason_code
    ELSE IF probe.actor = None THEN "unknown_actor"
    ELSE IF probe.credential_source \notin CredentialSources THEN "unknown_credential_source"
    ELSE IF probe.credential_principal = None THEN "missing_credential_principal"
    ELSE IF probe.checked_target = None THEN "missing_checked_target"
    ELSE IF probe.checked_at = None THEN "missing_checked_at"
    ELSE IF probe.checked_target # expected_target THEN "target_mismatch"
    ELSE IF Stale(probe.checked_at, evaluated_at) THEN "stale_cached_proof"
    ELSE IF PermissionFailure(probe) # None THEN PermissionFailure(probe)
    ELSE IF probe.issue_comment_write # TRUE THEN "insufficient_endpoint_permission"
    ELSE None

(***************************************************************************)
(* The permission that a passing gate reports, and the one that the data   *)
(* model derives when it checks a passing gate and an approval             *)
(* (models.py), where None makes the constructor raise.                    *)
(***************************************************************************)
Permission(probe) ==
    LET held == probe.permissions
    IN  IF held["repo"] # None THEN held["repo"]
        ELSE IF held["installation"] # None THEN held["installation"]
        ELSE held["endpoint"]

\* Mutant: an installation is taken to prove its permission like a user.
OwnKindOfUser == [pat |-> "repo", fine_grained_pat |-> "endpoint",
                  github_app_installation |-> "endpoint", github_app_user |-> "endpoint"]

OwnKind == [pat |-> "repo", fine_grained_pat |-> "endpoint",
            github_app_installation |-> "installation", github_app_user |-> "endpoint"]

DerivedPermission(probe) ==
    LET held == probe.permissions
        own == OwnKind[probe.credential_source]
    IN  IF /\ probe.credential_source \in CredentialSources
           /\ held[own] \in ValidPermissions(own) \cap WritePermissions
           /\ \A kind \in PermissionKinds \ {own} :
                  \/ held[kind] = None
                  \/ own = "installation" /\ kind = "endpoint" /\ held[kind] = held[own]
        THEN held[own] ELSE None

(***************************************************************************)
(* build_approval_decision, for an approval proof that passed; gate is     *)
(* what the gate said of the probe.  The approval is the target, the hash  *)
(* and the time of the proof, with the permission proof that was shown.    *)
(***************************************************************************)
DecisionFailure(gate, probe, target, timestamp) ==
    IF gate # None \/ Stale(probe.checked_at, timestamp) THEN "actor_permission_gate_failed"
    ELSE IF probe.checked_target # target THEN "actor_permission_target_mismatch"
    ELSE None

Approval(probe, target, payload_hash, timestamp) ==
    [approved |-> TRUE, target |-> target, final_payload_hash |-> payload_hash,
     snapshot |-> probe, timestamp |-> timestamp]

-----------------------------------------------------------------------------
(***************************************************************************)
(* validate_actor_permission_snapshot_for_finalization                     *)
(***************************************************************************)
SnapshotFields == {"actor", "credential_principal", "credential_source", "permissions",
                   "issue_comment_write", "checked_target"}

\* Mutant: the identity is not compared.
MismatchOfPermissions(approval, probe) ==
    {field \in {"permissions", "issue_comment_write"} : approval.snapshot[field] # probe[field]}

MismatchedFields(approval, probe) ==
    {field \in SnapshotFields : approval.snapshot[field] # probe[field]}

ActorFailure(approval, probe, evaluated_at) ==
    IF GateFailure(probe, approval.target, evaluated_at) # None
    THEN "actor_permission_gate_failed"
    ELSE IF MismatchedFields(approval, probe) # {} THEN "actor_permission_snapshot_mismatch"
    ELSE IF probe.checked_at < approval.snapshot.checked_at
    THEN "actor_permission_checked_at_regressed"
    ELSE None

(***************************************************************************)
(* validate_target_freshness_for_finalization                              *)
(***************************************************************************)
TargetFailure(approval, probe, evaluated_at) ==
    IF probe.malformed THEN "malformed_response"
    ELSE IF probe.transport_reason_code # None THEN probe.transport_reason_code
    ELSE IF probe.current_target = None THEN "unknown_freshness"
    ELSE IF None \in {probe.current_target.merge_base, approval.target.merge_base}
    THEN "missing_merge_base"
    ELSE IF probe.checked_at = None THEN "missing_checked_at"
    ELSE IF evaluated_at - probe.checked_at > MaxProofAge THEN "stale_cached_target"
    ELSE IF probe.checked_at - evaluated_at > MaxFutureSkew THEN "future_checked_at"
    ELSE IF probe.checked_at < approval.timestamp THEN "checked_at_before_approval"
    ELSE IF probe.current_target # approval.target THEN "target_mismatch"
    ELSE None

-----------------------------------------------------------------------------
(***************************************************************************)
(* finalize_github_payload.  payload and marker are None where the builder *)
(* or the reconciler is not given.  writer_input_released comes with the   *)
(* state finalized and with no other.                                      *)
(***************************************************************************)
FinalizationStatus(state, reason_code) == [state |-> state, reason_code |-> reason_code]

FailedClosed(reason_code) == FinalizationStatus("failed_closed", reason_code)

ReconcileMarkers(marker) ==
    IF marker.bound /\ marker.status = "safe_to_post" THEN FinalizationStatus("finalized", None)
    ELSE IF marker.bound /\ marker.status = "reconciled_existing"
    THEN FinalizationStatus("not_ready", "marker_reconciled_existing")
    ELSE FailedClosed("marker_reconciliation_failed")

FinalizeGithubPayload(approval, preflight, actor_probe, target_probe, now, payload, marker) ==
    IF ~preflight THEN FailedClosed("approval_preflight_failed")
    ELSE IF ActorFailure(approval, actor_probe, now) # None
    THEN FailedClosed("actor_permission_failed")
    ELSE IF TargetFailure(approval, target_probe, now) # None
    THEN FailedClosed("target_freshness_failed")
    ELSE IF payload = None THEN FinalizationStatus("not_ready", "marker_reconciliation_deferred")
    ELSE IF payload.hash # approval.final_payload_hash
    THEN FailedClosed("payload_validation_failed")
    ELSE IF marker = None THEN FinalizationStatus("not_ready", "marker_reconciliation_deferred")
    ELSE IF ~payload.valid THEN FailedClosed("payload_validation_failed")
    ELSE ReconcileMarkers(marker)

Released(status) == status.state = "finalized"
=============================================================================
