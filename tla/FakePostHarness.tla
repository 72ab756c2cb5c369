--------------------------- MODULE FakePostHarness ---------------------------
(***************************************************************************)
(* Attempts to post the findings of a review with the fake writer          *)
(* (post_mode_harness.py, post_interaction.py, writer_fake.py).  Each      *)
(* attempt starts over, with one thing in it that is as its case says; the *)
(* writer and its comments stay.                                           *)
(*                                                                         *)
(* The harness approves the one finding it has; here findings are those    *)
(* that a review presents, and any of them may be selected.  The records   *)
(* of the gates are those of Finalization, with the times in seconds.      *)
(***************************************************************************)
EXTENDS ApprovedPayload

CONSTANTS
    MaxProofAge, MaxFutureSkew,
    Logins      \* as whom the writer may post

VARIABLES
    findings,       \* what the attempts are about
    author_login,   \* of the writer
    comments,       \* that the writer has posted; it counts its calls by them
    writer_result   \* status of the last attempt's, None where it has none

harnessVars == <<findings, author_login, comments, writer_result>>

Gates == INSTANCE Finalization

RunId == "run-123"
ApprovedActor == "reviewgraph-bot"
TrustedBotAuthors == {"reviewgraph-bot"}
Target == [refs |-> "head456", merge_base |-> "merge789"]
CheckedAt == 240
ApprovedAt == 270
EvaluatedAt == 300

\* "marker_scan_failure" stands for the cases whose transport fails the scan:
\* pages that are incomplete, malformed, repeated or too many, and gh failures.
Cases ==
    {"dry_run", "non_interactive", "approved", "missing_approval", "rejected_approval",
     "empty_approval", "non_public_approval", "payload_validation_failure", "actor_mismatch",
     "permission_failure", "stale_target", "unknown_target_freshness", "marker_conflict",
     "marker_malformed", "marker_duplicate_matching", "marker_binding_mismatch",
     "marker_scan_failure"}

Plan == FindingItems(findings)
Candidate == CandidatePayload(Target, Plan, findings)

\* Any selection of the findings, in their order.
Selections ==
    {ElementsAt([i \in DOMAIN findings |-> findings[i].id], chosen) :
         chosen \in (SUBSET (DOMAIN findings)) \ {{}}}

-----------------------------------------------------------------------------
(***************************************************************************)
(* The approval of a selection, and what the case makes of it.             *)
(***************************************************************************)
ActorProbe ==
    [malformed |-> FALSE, transport_reason_code |-> None, actor |-> ApprovedActor,
     credential_source |-> "pat", credential_principal |-> ApprovedActor,
     permissions |-> [repo |-> "write", installation |-> None, endpoint |-> None],
     issue_comment_write |-> TRUE, checked_target |-> Target, checked_at |-> CheckedAt]

CurrentActorProbe(case) ==
    CASE case = "actor_mismatch" ->
             [ActorProbe EXCEPT !.actor = "other-bot", !.credential_principal = "other-bot"]
      [] case = "permission_failure" ->
             [ActorProbe EXCEPT !.issue_comment_write = FALSE, !.permissions.repo = "read"]
      [] OTHER -> ActorProbe

CurrentTargetProbe(case) ==
    [malformed |-> FALSE, transport_reason_code |-> None,
     current_target |-> CASE case = "stale_target" -> [Target EXCEPT !.refs = "head999"]
                          [] case = "unknown_target_freshness" -> None
                          [] OTHER -> Target,
     checked_at |-> IF case = "unknown_target_freshness" THEN None ELSE EvaluatedAt]

\* _approval asserts that proof and decision pass.
ApprovalRaises(ids) ==
    \/ ProofFailure(ids, Target, Plan, findings, Candidate) # None
    \/ Gates!DecisionFailure(Gates!GateFailure(ActorProbe, Target, EvaluatedAt),
                             ActorProbe, Target, ApprovedAt) # None

ApprovalDecision(ids) ==
    LET proof == ApprovalProof(RunId, ids, Target, Plan, findings)
    IN  [approved |-> TRUE, approved_item_ids |-> proof.approved_item_ids, target |-> Target,
         final_payload_hash |-> proof.final_payload_hash, snapshot |-> ActorProbe,
         timestamp |-> ApprovedAt]

PlanOf(case) ==
    IF case = "non_public_approval" THEN LocalItems(<<[id |-> <<"note-1">>]>>, "local_note", "local_only")
    ELSE Plan

ApprovalOf(case, ids) ==
    CASE case = "rejected_approval" ->
             [ApprovalDecision(ids) EXCEPT !.approved = FALSE, !.approved_item_ids = <<>>]
      [] case = "non_public_approval" ->
             [ApprovalDecision(ids) EXCEPT !.approved_item_ids = <<<<"note-1">>>>]
      [] OTHER -> ApprovalDecision(ids)

ReleaseFailure(case, ids) ==
    CASE case = "missing_approval" -> "missing_approval"
      [] case = "empty_approval" -> "approval_build_failed"
      [] OTHER -> ReleasePreflightFailure(ApprovalOf(case, ids), PlanOf(case))

-----------------------------------------------------------------------------
(***************************************************************************)
(* The scan of the comments, in one look (MarkerScan has its pages).  The  *)
(* first failing comment decides, then the first that matches.             *)
(***************************************************************************)
Comment(author, body) == [author |-> author, body |-> body]

MalformedMarker == [run_id |-> None, target |-> None, payload |-> None, findings |-> {}]

CommentsSeen(case, payload) ==
    LET by_bot(body) == Comment("reviewgraph-bot", body)
    IN  CASE case = "marker_conflict" ->
                 <<by_bot([payload.body EXCEPT !.marker.run_id = "run-conflict",
                                               !.marker.payload.heading = "different"])>>
          [] case = "marker_malformed" -> <<by_bot([payload.body EXCEPT !.marker = MalformedMarker])>>
          [] case = "marker_duplicate_matching" -> <<by_bot(payload.body), by_bot(payload.body)>>
          [] OTHER -> comments

\* Mutant: the wording of an existing comment makes it another one.
ConflictsNever(marker, payload) == FALSE

ConflictsWith(marker, payload) ==
    /\ marker.target = payload.marker_target
    /\ marker.findings = payload.marker_findings
    /\ marker.payload # payload.marker_payload

Reconciliation(seen, payload) ==
    LET trusted == {i \in DOMAIN seen :
                        seen[i].author \in TrustedBotAuthors \cup {ApprovedActor}}
        marker(i) == seen[i].body.marker
    IN  IF \E i \in trusted :
               marker(i) = MalformedMarker \/ ConflictsWith(marker(i), payload)
        THEN "failed_closed"
        ELSE IF \E i \in trusted :
                    /\ marker(i).target = payload.marker_target
                    /\ marker(i).findings = payload.marker_findings
                    /\ marker(i).payload = payload.marker_payload
        THEN "reconciled_existing" ELSE "safe_to_post"

MarkerOf(case, payload) ==
    [bound |-> case # "marker_binding_mismatch",
     status |-> IF case = "marker_scan_failure" THEN "failed_closed"
                ELSE Reconciliation(CommentsSeen(case, payload), payload)]

-----------------------------------------------------------------------------
PayloadOf(case, ids) ==
    LET payload == FinalPayload(RunId, Target, Selected(Plan, ids), findings)
    IN  IF case = "payload_validation_failure" THEN [payload EXCEPT !.marker_run_id = "other-run"]
        ELSE payload

Finalized(case, ids) ==
    LET approval == ApprovalOf(case, ids)
        payload == PayloadOf(case, ids)
    IN  Gates!FinalizeGithubPayload(
            approval, ApprovalPreflightPasses(approval, PlanOf(case), findings),
            CurrentActorProbe(case), CurrentTargetProbe(case), EvaluatedAt,
            [hash |-> payload.final_payload_hash, valid |-> FinalPayloadValid(payload)],
            MarkerOf(case, payload))

\* build_finalized_issue_comment_writer_input
WriterInputValid(approval, payload) ==
    /\ approval.final_payload_hash = payload.final_payload_hash
    /\ approval.target = payload.target
    /\ payload.marker_run_id = RunId

WriterAccepts(payload) == author_login = ApprovedActor /\ FinalPayloadValid(payload)

\* _post_or_emit, where the writer is not called: an existing comment is reported.
ResultWithoutWriter(status) ==
    IF status.reason_code = "marker_reconciled_existing" THEN "reconciled" ELSE None

-----------------------------------------------------------------------------
(***************************************************************************)
(* An attempt: one gate after the other.                                   *)
(***************************************************************************)
EndWith(result) ==
    /\ writer_result' = result
    /\ UNCHANGED <<findings, author_login, comments>>

PassesInteraction(case) == case \notin {"dry_run", "non_interactive"}

FailInteraction(case) ==
    /\ ~PassesInteraction(case)
    /\ EndWith(None)

FailApproval(case, ids) ==
    /\ PassesInteraction(case)
    /\ ApprovalRaises(ids)
    /\ EndWith("raised")

FailRelease(case, ids) ==
    /\ PassesInteraction(case)
    /\ ~ApprovalRaises(ids)
    /\ ReleaseFailure(case, ids) # None
    /\ EndWith(None)

CallWriter(case, ids) ==
    LET payload == PayloadOf(case, ids)
    IN  IF ~WriterInputValid(ApprovalOf(case, ids), payload) THEN EndWith("writer_input_invalid")
        ELSE IF ~WriterAccepts(payload) THEN EndWith("failed")
        ELSE /\ comments' = Append(comments, Comment(author_login, payload.body))
             /\ writer_result' = "posted"
             /\ UNCHANGED <<findings, author_login>>

FinalizeAndEmit(case, ids) ==
    /\ PassesInteraction(case)
    /\ ~ApprovalRaises(ids)
    /\ ReleaseFailure(case, ids) = None
    /\ LET status == Finalized(case, ids)
       IN  \/ ~Gates!Released(status) /\ EndWith(ResultWithoutWriter(status))
           \/ Gates!Released(status) /\ CallWriter(case, ids)

Attempt(case, ids) ==
    \/ FailInteraction(case)
    \/ FailApproval(case, ids)
    \/ FailRelease(case, ids)
    \/ FinalizeAndEmit(case, ids)

-----------------------------------------------------------------------------
(***************************************************************************)
(* What the writer has posted is what was approved: a comment of the       *)
(* approved actor on the target that was approved, which ends with the     *)
(* marker of its own text and names the findings it lists; a payload that  *)
(* was released never fails to be one the writer can take; and however     *)
(* often an attempt is made, with whatever case and whatever is reworded   *)
(* between two attempts, a selection of findings has one comment on a      *)
(* target (markers.py:430-470, finalization.py:456-543,                    *)
(* writer_input.py:27-114, writer_fake.py:38-76, models.py:2129-2199).     *)
(***************************************************************************)
OneCommentPerSelection ==
    \A i, j \in DOMAIN comments :
        /\ comments[i].body.marker.target = comments[j].body.marker.target
        /\ comments[i].body.marker.findings = comments[j].body.marker.findings
        => i = j

PostedAsApproved ==
    /\ writer_result # "writer_input_invalid"
    /\ OneCommentPerSelection
    /\ \A i \in DOMAIN comments :
           LET body == comments[i].body
           IN  /\ comments[i].author = ApprovedActor
               /\ body.target = Target /\ body.heading = "approved"
               /\ ~ContainsMarkerLine(CanonicalVisibleBody(body))
               /\ body.marker = Marker(RunId, Target, CanonicalVisibleBody(body),
                                       {body.lines[k][1] : k \in DOMAIN body.lines})
=============================================================================
