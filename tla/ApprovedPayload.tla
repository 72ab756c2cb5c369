--------------------------- MODULE ApprovedPayload ---------------------------
(***************************************************************************)
(* What is posted: the posting plan and the candidate comment of a review  *)
(* (posting.py), the approval proof that binds a selection of the plan's   *)
(* items to one comment (approval.py), that comment with its marker        *)
(* (final_payload.py, markers.py, hashing.py), and its validation          *)
(* (payload_validation.py).                                                *)
(*                                                                         *)
(* A body is its lines: the heading, then for each finding its fingerprint *)
(* and the wording of its text.  A text that contains the line of a marker *)
(* has the wording "marker".  A hash is what was hashed, fingerprints are  *)
(* a set, as they are always sorted, and redaction changes nothing here.   *)
(***************************************************************************)
EXTENDS FiniteSets, Subsequences

CONSTANT None

PlanItem(id, classification, destination, fingerprint) ==
    [id |-> id, source_classification |-> classification, destination |-> destination,
     public_payload_eligible |-> destination \in {"top_level_summary_item", "review_body_item"},
     fingerprint |-> fingerprint]

LocalItems(outputs, classification, destination) ==
    [i \in DOMAIN outputs |-> PlanItem(outputs[i].id, classification, destination, None)]

\* build_posting_plan as the runner calls it: no summary, no inline candidates.
FindingItems(findings) ==
    [i \in DOMAIN findings |->
        PlanItem(findings[i].id, "postable_finding", "review_body_item", findings[i].fingerprint)]

PublicPayloadItems(plan) ==
    ElementsAt(plan, {i \in DOMAIN plan : plan[i].public_payload_eligible})

LocalOnlyPostingPlan(plan) ==
    [i \in DOMAIN plan |->
        IF plan[i].public_payload_eligible
        THEN [plan[i] EXCEPT !.destination = "local_only", !.public_payload_eligible = FALSE]
        ELSE plan[i]]

PostingPlanIdsUnique(plan) == IsInjective([i \in DOMAIN plan |-> plan[i].id])

\* A dictionary from ids to findings: the last one counts.
FindingById(findings, id) == SelectLastInSeq(findings, LAMBDA finding : finding.id = id)

Fingerprints(items) == {items[i].fingerprint : i \in DOMAIN items}

-----------------------------------------------------------------------------
(***************************************************************************)
(* Bodies and their hashes.  The marker that a comment ends with is not    *)
(* part of what it shows.                                                  *)
(***************************************************************************)
\* A body without a marker line: no run id is None.
NoMarker == [run_id |-> None, target |-> None, payload |-> None, findings |-> None]

Body(heading, target, findings, marker) ==
    [heading |-> heading, target |-> target, marker |-> marker,
     lines |-> [i \in DOMAIN findings |-> <<findings[i].fingerprint, findings[i].body>>]]

CanonicalVisibleBody(body) == [body EXCEPT !.marker = NoMarker]
VisibleBodyHash(body) == CanonicalVisibleBody(body)
FinalPayloadHash(body) == body

ContainsMarkerLine(body) ==
    body.marker # NoMarker \/ \E i \in DOMAIN body.lines : body.lines[i][2] = "marker"

Marker(run_id, target, visible_body, fingerprints) ==
    [run_id |-> run_id, target |-> target, payload |-> VisibleBodyHash(visible_body),
     findings |-> fingerprints]

\* The findings that the items of a plan stand for, in the order of the plan.
FindingsOf(items, findings) ==
    [i \in DOMAIN items |-> findings[FindingById(findings, items[i].id)]]

-----------------------------------------------------------------------------
(***************************************************************************)
(* build_candidate_issue_comment_payload: all public items, none for local *)
(* ones.  A plan that does not fit the findings is refused, and so is one  *)
(* whose finding has the id that is reserved for the summary.              *)
(***************************************************************************)
FindingFits(item, findings) ==
    LET found == FindingById(findings, item.id)
    IN  found > 0 /\ item.fingerprint # None /\ findings[found].fingerprint = item.fingerprint

PublicItemFits(item, findings) ==
    /\ item.id # <<"summary">>
    /\ item.destination = "review_body_item"
    /\ item.source_classification = "postable_finding"
    /\ FindingFits(item, findings)

CandidateRefused(plan, findings) ==
    \/ ~IsInjective([i \in DOMAIN findings |-> findings[i].id])
    \/ \E i \in DOMAIN PublicPayloadItems(plan) :
           ~PublicItemFits(PublicPayloadItems(plan)[i], findings)
    \/ Cardinality(Fingerprints(PublicPayloadItems(plan))) < Len(PublicPayloadItems(plan))

CandidatePayload(target, plan, findings) ==
    LET items == PublicPayloadItems(plan)
        body == Body("candidate", target, FindingsOf(items, findings), NoMarker)
    IN  [target |-> target, body |-> body, visible_body_hash |-> VisibleBodyHash(body),
         findings_hash |-> Fingerprints(items), item_fingerprints |-> Fingerprints(items)]

\* Mutant: the text of the candidate is not looked through for markers.
CandidateAsBuilt(candidate, target, plan, findings) ==
    ~CandidateRefused(plan, findings) /\ candidate = CandidatePayload(target, plan, findings)

\* validate_candidate_issue_comment_payload
CandidateValid(candidate, target, plan, findings) ==
    /\ ~CandidateRefused(plan, findings)
    /\ ~ContainsMarkerLine(candidate.body)
    /\ candidate.target = target
    /\ candidate.visible_body_hash = VisibleBodyHash(candidate.body)
    /\ candidate.findings_hash = candidate.item_fingerprints
    /\ candidate = CandidatePayload(target, plan, findings)

-----------------------------------------------------------------------------
(***************************************************************************)
(* build_approved_final_issue_comment: the selected items and the marker.  *)
(***************************************************************************)
ApprovedVisibleBody(target, items, findings) ==
    Body("approved", target, FindingsOf(items, findings), NoMarker)

FinalPayload(run_id, target, items, findings) ==
    LET visible == ApprovedVisibleBody(target, items, findings)
        marker == Marker(run_id, target, visible, Fingerprints(items))
        body == [visible EXCEPT !.marker = marker]
    IN  [target |-> target, body |-> body, marker_line |-> marker,
         marker_run_id |-> run_id, marker_target |-> target,
         marker_payload |-> VisibleBodyHash(visible), marker_findings |-> Fingerprints(items),
         visible_body_hash |-> VisibleBodyHash(body), final_payload_hash |-> FinalPayloadHash(body),
         findings_hash |-> Fingerprints(items), item_fingerprints |-> Fingerprints(items)]

\* _validate_marker: the marker is the last line and no other line is one.
MarkerValid(payload) ==
    /\ payload.marker_line # NoMarker
    /\ payload.body.marker = payload.marker_line
    /\ ~ContainsMarkerLine(CanonicalVisibleBody(payload.body))
    /\ payload.marker_line =
           [run_id |-> payload.marker_run_id, target |-> payload.marker_target,
            payload |-> payload.marker_payload, findings |-> payload.marker_findings]
    /\ payload.marker_payload = VisibleBodyHash(payload.body)
    /\ payload.visible_body_hash = payload.marker_payload

\* validate_final_issue_comment_payload
FinalPayloadValid(payload) ==
    /\ MarkerValid(payload)
    /\ payload.visible_body_hash = VisibleBodyHash(payload.body)
    /\ payload.findings_hash = payload.item_fingerprints
    /\ payload.marker_findings = payload.item_fingerprints
    /\ payload.final_payload_hash = FinalPayloadHash(payload.body)
    /\ payload.marker_target = payload.target

-----------------------------------------------------------------------------
(***************************************************************************)
(* build_approval_proof: the first reason that refuses the selection, or   *)
(* the proof for the one comment that may be posted.                       *)
(***************************************************************************)
Selected(plan, ids) == ElementsAt(plan, {i \in DOMAIN plan : plan[i].id \in Range(ids)})

IsPublicFinding(item) ==
    /\ item.public_payload_eligible
    /\ item.destination = "review_body_item"
    /\ item.source_classification = "postable_finding"

ProofReasons ==
    {"summary_item_deferred", "empty_approval", "duplicate_approved_fingerprint",
     "unknown_approved_id", "non_public_destination", "candidate_binding_mismatch"}

ProofFailure(ids, target, plan, findings, candidate) ==
    LET selected == Selected(plan, ids)
        \* the selected items are gone through in the order of the plan
        bad == SelectInSeq(selected, LAMBDA item : ~IsPublicFinding(item) \/ ~FindingFits(item, findings))
    IN  IF \E i \in DOMAIN plan : plan[i].destination = "top_level_summary_item"
        THEN "summary_item_deferred"
        ELSE IF ids = <<>> THEN "empty_approval"
        ELSE IF ~IsInjective(ids) THEN "duplicate_approved_fingerprint"
        ELSE IF Len(selected) < Len(ids) THEN "unknown_approved_id"
        ELSE IF bad > 0 /\ ~IsPublicFinding(selected[bad]) THEN "non_public_destination"
        ELSE IF bad > 0 THEN "unknown_approved_id"
        ELSE IF Cardinality(Fingerprints(selected)) < Len(selected)
        THEN "duplicate_approved_fingerprint"
        ELSE IF ~CandidateValid(candidate, target, plan, findings) THEN "candidate_binding_mismatch"
        ELSE None

ApprovalProof(run_id, ids, target, plan, findings) ==
    LET selected == Selected(plan, ids)
        payload == FinalPayload(run_id, target, selected, findings)
    IN  [approved_item_ids |-> [i \in DOMAIN selected |-> selected[i].id], target |-> target,
         final_payload_hash |-> payload.final_payload_hash,
         final_visible_body_hash |-> VisibleBodyHash(payload.body),
         marker_payload_hash |-> payload.marker_payload, findings_hash |-> payload.findings_hash,
         marker_line |-> payload.marker_line]

\* What the data model asks of a proof that passes.
ProofConsistent(proof) ==
    /\ proof.approved_item_ids # <<>>
    /\ proof.final_visible_body_hash = proof.marker_payload_hash
    /\ proof.marker_line.target = proof.target
    /\ proof.marker_line.payload = proof.marker_payload_hash
    /\ proof.marker_line.findings = proof.findings_hash

-----------------------------------------------------------------------------
(***************************************************************************)
(* The checks of an approval before it is finalized (finalization.py):     *)
(* before the writer is released, against the current items, and again     *)
(* inside finalize_github_payload, against the findings.                   *)
(***************************************************************************)
ReleasePreflightFailure(approval, plan) ==
    LET ids == approval.approved_item_ids
        item(id) == plan[SelectLastInSeq(plan, LAMBDA entry : entry.id = id)]
        known == {id \in Range(ids) : \E i \in DOMAIN plan : plan[i].id = id}
        public == {id \in known : IsPublicFinding(item(id)) /\ item(id).fingerprint # None}
    IN  IF ~approval.approved THEN "rejected_approval"
        ELSE IF ~IsInjective(ids) THEN "duplicate_approved_item"
        ELSE IF Cardinality({item(id).fingerprint : id \in public}) < Cardinality(public)
        THEN "duplicate_approved_fingerprint"
        ELSE IF known # Range(ids) THEN "unknown_approved_id"
        ELSE IF public # known THEN "non_public_approved_item"
        ELSE None

ApprovalPreflightPasses(approval, plan, findings) ==
    LET ids == approval.approved_item_ids
        selected == Selected(plan, ids)
    IN  /\ approval.approved
        /\ ids # <<>> /\ IsInjective(ids)
        /\ Len(selected) = Len(ids)
        /\ \A i \in DOMAIN selected :
               IsPublicFinding(selected[i]) /\ FindingFits(selected[i], findings)
        /\ Cardinality(Fingerprints(selected)) = Len(selected)
=============================================================================
