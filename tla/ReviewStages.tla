---------------------------- MODULE ReviewStages ----------------------------
(***************************************************************************)
(* One review run (runner.py: _run_review_stages and the tail of           *)
(* _run_dry_run_core): the loop over the stage cursor, reviewer selection  *)
(* and budget, reviewer execution and its failures, the clarification gate *)
(* with its answers, and the verdict that enables or disables posting.     *)
(*                                                                         *)
(* The program is one thread.  What makes it branch is its input: in       *)
(* fixture mode the raw output of every (reviewer, stage); in live mode    *)
(* whatever the provider answers, and after how many attempts; and which   *)
(* clarification answers the operator supplied.  Trigger evaluation is     *)
(* abstracted to StageSelection, the reviewers select_reviewers_for_stage  *)
(* returns for the pull request: sorted by name, so none appears twice.    *)
(***************************************************************************)
EXTENDS Integers, Sequences, FiniteSets

CONSTANTS
    ClarificationIds, FindingIds, None,
    Reviewers,          \* names in config.agents
    Required,           \* those with required: true
    RequestChanges,     \* those with verdict_power: request_changes
    StageSelection,     \* normal stage -> sequence of triggered reviewers
    MaxReviewers,       \* context_budget.max_reviewers
    MaxLiveCalls,       \* context_budget.max_live_calls
    Live,               \* an opt-in live transport is injected
    MaxAttempts,        \* _effective_live_attempts
    RawInputs,          \* fixture mode: functions (reviewer, stage) -> output
    LiveOutputs         \* live mode: what a provider attempt can end in

VARIABLES
    active_stage, suspended_stage, stage_queue, completed_stages,
    ready_clarification_ids, active_clarification_id, clarifications, resumed

Cursor == INSTANCE StageCursor

NormalStages == Cursor!NormalStages
ReviewStage == Cursor!ReviewStage
ClarificationReview == Cursor!ClarificationReview

\* ReviewerRunKey: target and configuration are fixed in a run, retry_of
\* follows from the attempt.
RunKey == [reviewer : Reviewers, stage : ReviewStage, attempt : 1..MaxAttempts,
           clarification_id : ClarificationIds \cup {None}]
RunStatus == {"selected", "running", "completed", "failed", "skipped"}
RawKey == Reviewers \X ReviewStage

\* What can leave _run_review_stages, or its caller, in the middle of a run.
RunErrors == {"no_triage_reviewer", "required_reviewer_failed", "raw_not_selected",
              "request_not_pending", "duplicate_item_id"}

RawFinding == [id : FindingIds, strong : BOOLEAN]   \* strong: HIGH and critical or blocking
RawRequest == [id : ClarificationIds, blocks_verdict : BOOLEAN]
\* "completed": normalised output; "failed": failure: true, an exhausted repair
\* or a live failure; "malformed": output the normaliser rejects, unrepaired.
Output == [kind : {"completed", "failed", "malformed"},
           findings : Seq(RawFinding), requests : Seq(RawRequest)]

Finding == [id : FindingIds, strong : BOOLEAN, reviewer : Reviewers]
Request == [id : ClarificationIds, blocks_verdict : BOOLEAN, reviewer : Reviewers,
            stage : ReviewStage, status : {"pending", "answered"}]
Note == [kind : {"optional_failure", "required_failure", "deferred_count", "deferred_live"},
         reviewer : Reviewers, stage : ReviewStage]

ASSUME ReviewStagesAssumption ==
    /\ None \notin ReviewStage \cup ClarificationIds \cup RunErrors
    /\ Required \subseteq Reviewers /\ RequestChanges \subseteq Reviewers
    /\ StageSelection \in [NormalStages -> Seq(Reviewers)]
    /\ \A s \in NormalStages : \A i, j \in DOMAIN StageSelection[s] :
           StageSelection[s][i] = StageSelection[s][j] => i = j
    /\ MaxReviewers \in Nat /\ MaxLiveCalls \in Nat
    /\ Live \in BOOLEAN /\ MaxAttempts \in Nat \ {0}
    /\ \A raw \in RawInputs :
           DOMAIN raw \subseteq RawKey /\ \A k \in DOMAIN raw : raw[k] \in Output
    /\ LiveOutputs \subseteq Output

VARIABLES
    raw_outputs,        \* input: raw_outputs_by_key
    answers,            \* input: the ids of answers_by_request_id
    pc,                 \* where _run_review_stages is
    raised,             \* the error that left it, if one did
    \* routing_state
    routing_ready,      \* its ready_clarification_ids
    routing_requests,   \* its clarification_requests
    run_status,         \* reviewer_run_status
    reviewer_results,
    \* locals
    stage_reviewers,    \* positions in Candidates of the retained reviewers not yet run
    blocking,           \* blocking_pending_ids not yet looked up in the answers, by index
    answered,
    findings, requests, errors,
    local_notes,        \* how many notes with each id: what an id is made of is a Note
    seen_raw_keys, deferred_raw_keys,
    retained_reviewer_count, planned_live_calls,
    result              \* post_enabled, local verdict, candidate payload

inputs == <<raw_outputs, answers>>
cursorVars == <<active_stage, suspended_stage, stage_queue, completed_stages,
                ready_clarification_ids, active_clarification_id>>
clarificationVars == <<clarifications, resumed, routing_ready, routing_requests>>
budgetVars == <<deferred_raw_keys, retained_reviewer_count, planned_live_calls>>
outputVars == <<findings, requests, local_notes, errors>>
vars == <<inputs, cursorVars, clarificationVars, budgetVars, outputVars, pc, raised,
          run_status, reviewer_results, stage_reviewers, blocking, answered,
          seen_raw_keys, result>>

TypeOK ==
    /\ Cursor!TypeOK
    /\ DOMAIN raw_outputs \subseteq RawKey
    /\ answers \subseteq ClarificationIds
    /\ pc \in {"loop", "select", "run", "running", "ingest", "check", "stop", "core", "done"}
    /\ raised \in {None} \cup RunErrors
    /\ routing_ready \in Seq(ClarificationIds)
    /\ routing_requests \in Seq(Request)
    /\ DOMAIN run_status \subseteq RunKey
    /\ \A k \in DOMAIN run_status : run_status[k] \in RunStatus
    /\ reviewer_results \in Seq(RunKey)
    /\ stage_reviewers \subseteq Nat
    /\ blocking \subseteq DOMAIN requests
    /\ answered \in BOOLEAN
    /\ findings \in Seq(Finding) /\ requests \in Seq(Request)
    /\ local_notes \in [Note -> Nat]
    /\ errors \in Seq([reviewer : Reviewers, stage : ReviewStage])
    /\ seen_raw_keys \subseteq RawKey /\ deferred_raw_keys \subseteq RawKey
    /\ retained_reviewer_count \in Nat /\ planned_live_calls \in Nat
    /\ result \in {None} \cup
           [post_enabled : BOOLEAN, candidate : BOOLEAN,
            verdict : {"needs_clarification", "no_findings", "request_changes", "comment"}]

Init ==
    /\ Cursor!Init
    /\ raw_outputs \in IF Live THEN {<<>>} ELSE RawInputs
    /\ answers \in SUBSET ClarificationIds
    /\ pc = "loop" /\ raised = None
    /\ routing_ready = <<>> /\ routing_requests = <<>>
    /\ run_status = <<>> /\ reviewer_results = <<>>
    /\ stage_reviewers = {} /\ blocking = {} /\ answered = FALSE
    /\ findings = <<>> /\ requests = <<>> /\ errors = <<>>
    /\ local_notes = [n \in Note |-> 0]
    /\ seen_raw_keys = {} /\ deferred_raw_keys = {}
    /\ retained_reviewer_count = 0 /\ planned_live_calls = 0
    /\ result = None

-----------------------------------------------------------------------------
(***************************************************************************)
(* The loop head: while cursor.stage_queue.                                *)
(***************************************************************************)
\* Mutant: the routing state keeps the id the cursor has consumed.
CopyReadyMissed == UNCHANGED routing_ready

CopyReady == routing_ready' = ready_clarification_ids'

AdvanceLoop ==
    /\ pc = "loop" /\ raised = None
    /\ stage_queue # <<>>
    /\ Cursor!AdvanceOrFinishStage
    /\ CopyReady
    /\ pc' = IF active_stage = ClarificationReview THEN "loop" ELSE "select"
    /\ UNCHANGED <<inputs, routing_requests, budgetVars, outputVars, raised, run_status,
                   reviewer_results, stage_reviewers, blocking, answered,
                   seen_raw_keys, result>>

\* The queue is empty: one more advance_or_finish_stage, whatever it does.
LeaveLoop ==
    /\ pc = "loop" /\ raised = None
    /\ stage_queue = <<>>
    /\ Cursor!AdvanceOrFinishStage
    /\ pc' = "check"
    /\ UNCHANGED <<inputs, routing_ready, routing_requests, budgetVars, outputVars, raised,
                   run_status, reviewer_results, stage_reviewers, blocking, answered,
                   seen_raw_keys, result>>

-----------------------------------------------------------------------------
(***************************************************************************)
(* select_reviewers_for_active_stage and apply_reviewer_budget.            *)
(***************************************************************************)
IsFirstRequest(reqs, id, i) ==
    reqs[i].id = id /\ \A j \in DOMAIN reqs : reqs[j].id = id => i <= j

\* The request's resume_target_reviewers is the reviewer that raised it.
Candidates ==
    IF active_stage = ClarificationReview
    THEN LET first == CHOOSE i \in DOMAIN routing_requests :
                         IsFirstRequest(routing_requests, active_clarification_id, i)
         IN  <<routing_requests[first].reviewer>>
    ELSE StageSelection[active_stage]

\* Mutant: the run key does not say which clarification it is for.
KeyWithoutClarification(r, attempt) ==
    [reviewer |-> r, stage |-> active_stage, attempt |-> attempt, clarification_id |-> None]

Key(r, attempt) ==
    [reviewer |-> r, stage |-> active_stage, attempt |-> attempt,
     clarification_id |-> active_clarification_id]

Suppressed(r) ==
    \E k \in DOMAIN run_status :
        /\ k.reviewer = r /\ k.stage = active_stage
        /\ k.clarification_id = active_clarification_id
        /\ run_status[k] \in {"completed", "skipped"}

SetStatus(status, keys, value) ==
    [k \in DOMAIN status \cup keys |-> IF k \in keys THEN value ELSE status[k]]

\* Mutant: retries are not planned for.
LiveCallCostOfOneAttempt == IF Live THEN 1 ELSE 0

LiveCallCost == IF Live THEN MaxAttempts ELSE 0

\* Of a set of positions in Candidates, those that fit the budget: reviewers
\* are taken in order and cost the same, so these are the first ones.
Fitting(selected) ==
    {i \in selected :
        LET rank == Cardinality({j \in selected : j <= i})
        IN  /\ retained_reviewer_count + rank <= MaxReviewers
            /\ planned_live_calls + rank * LiveCallCost <= MaxLiveCalls}

KeysOf(positions) == {Key(Candidates[i], 1) : i \in positions}

\* Mutant: a deferred reviewer is noted but its status is not updated.
SkippedKeysForgotten(deferred) == {}

SkippedKeys(deferred) == KeysOf(deferred)

WithNotes(new) == [n \in Note |-> IF n \in new THEN local_notes[n] + 1 ELSE local_notes[n]]

DeferredNotes(deferred, count) ==
    {[kind |-> IF count >= MaxReviewers THEN "deferred_count" ELSE "deferred_live",
      reviewer |-> Candidates[i], stage |-> active_stage] : i \in deferred}

SelectReviewers ==
    /\ pc = "select" /\ raised = None
    /\ LET selected == {i \in DOMAIN Candidates : ~Suppressed(Candidates[i])}
           retained == Fitting(selected)
           deferred == selected \ retained
           count == retained_reviewer_count + Cardinality(retained)
       IN  /\ run_status' = SetStatus(SetStatus(run_status, KeysOf(selected) \ DOMAIN run_status,
                                                "selected"),
                                      SkippedKeys(deferred), "skipped")
           /\ deferred_raw_keys' = deferred_raw_keys
                  \cup {<<Candidates[i], active_stage>> : i \in deferred}
           /\ local_notes' = WithNotes(DeferredNotes(deferred, count))
           /\ retained_reviewer_count' = count
           /\ planned_live_calls' = planned_live_calls + Cardinality(retained) * LiveCallCost
           /\ IF active_stage = "initial_triage" /\ selected = {}
              THEN raised' = "no_triage_reviewer" /\ UNCHANGED <<pc, stage_reviewers>>
              ELSE pc' = "run" /\ stage_reviewers' = retained /\ UNCHANGED raised
    /\ UNCHANGED <<inputs, cursorVars, clarificationVars, findings, requests, errors,
                   reviewer_results, blocking, answered, seen_raw_keys, result>>

-----------------------------------------------------------------------------
(***************************************************************************)
(* Running the retained reviewers of the stage, one after the other.       *)
(***************************************************************************)
IsNextReviewer(i) == i \in stage_reviewers /\ \A j \in stage_reviewers : i <= j

StartReviewer ==
    /\ pc = "run" /\ raised = None
    /\ \E i \in stage_reviewers :
           /\ IsNextReviewer(i)
           /\ run_status' = SetStatus(run_status, {Key(Candidates[i], 1)}, "running")
    /\ pc' = "running"
    /\ UNCHANGED <<inputs, cursorVars, clarificationVars, budgetVars, outputVars, raised,
                   reviewer_results, stage_reviewers, blocking, answered,
                   seen_raw_keys, result>>

RawKeyOf(r) == <<r, active_stage>>

\* The outputs a reviewer's run can end with.  A selected reviewer without a
\* raw output fails like one whose output is malformed.
PossibleOutputs(r) ==
    IF Live THEN LiveOutputs
    ELSE IF RawKeyOf(r) \in DOMAIN raw_outputs THEN {raw_outputs[RawKeyOf(r)]}
    ELSE {[kind |-> "malformed", findings |-> <<>>, requests |-> <<>>]}

\* Every attempt is recorded; all but the last failed and were retried.
RecordAttempts(r, n, last) ==
    /\ run_status' = SetStatus(SetStatus(run_status, {Key(r, i) : i \in 1..n}, "failed"),
                               {Key(r, n)}, last)
    /\ reviewer_results' = reviewer_results \o [i \in 1..n |-> Key(r, i)]

NoteSeen(r) == seen_raw_keys' = seen_raw_keys \cup ({RawKeyOf(r)} \cap DOMAIN raw_outputs)

FindingsOf(r, out) ==
    [i \in DOMAIN out.findings |->
        [id |-> out.findings[i].id, strong |-> out.findings[i].strong, reviewer |-> r]]

RequestsOf(r, out) ==
    [i \in DOMAIN out.requests |->
        [id |-> out.requests[i].id, blocks_verdict |-> out.requests[i].blocks_verdict,
         reviewer |-> r, stage |-> active_stage, status |-> "pending"]]

CompleteReviewer(r, out, n) ==
    /\ out.kind = "completed"
    /\ RecordAttempts(r, n, "completed")
    /\ findings' = findings \o FindingsOf(r, out)
    /\ requests' = requests \o RequestsOf(r, out)
    /\ UNCHANGED <<local_notes, errors>>

UnreadRawKeys == (DOMAIN raw_outputs \ seen_raw_keys) \ deferred_raw_keys

\* A reviewer that failed without a raw output of its own first has the
\* remaining raw outputs accounted for.
MissesRawOutput(r) == RawKeyOf(r) \notin DOMAIN raw_outputs /\ UnreadRawKeys # {}

RejectMissingRawOutput(r, out) ==
    /\ out.kind # "completed"
    /\ MissesRawOutput(r)
    /\ reviewer_results' = Append(reviewer_results, Key(r, 1))
    /\ raised' = "raw_not_selected"
    /\ UNCHANGED <<pc, run_status, stage_reviewers, outputVars>>

EndsTheRun(r, out) == out.kind = "malformed" /\ r \in Required /\ ~Live

RejectRequiredFailure(r, out, n) ==
    /\ EndsTheRun(r, out) /\ ~MissesRawOutput(r)
    /\ RecordAttempts(r, n, "failed")
    /\ raised' = "required_reviewer_failed"
    /\ UNCHANGED <<pc, stage_reviewers, outputVars>>

FailReviewer(r, out, n) ==
    /\ out.kind # "completed"
    /\ ~EndsTheRun(r, out) /\ ~MissesRawOutput(r)
    /\ RecordAttempts(r, n, "failed")
    /\ local_notes' = WithNotes({[kind |-> IF r \in Required THEN "required_failure"
                                           ELSE "optional_failure",
                                  reviewer |-> r, stage |-> active_stage]})
    /\ errors' = IF r \in Required
                 THEN Append(errors, [reviewer |-> r, stage |-> active_stage])
                 ELSE errors
    /\ UNCHANGED <<findings, requests>>

FinishReviewer ==
    /\ pc = "running" /\ raised = None
    /\ \E i \in stage_reviewers :
           LET r == Candidates[i]
           IN  /\ IsNextReviewer(i)
               /\ NoteSeen(r)
               /\ \E out \in PossibleOutputs(r), n \in 1..(IF Live THEN MaxAttempts ELSE 1) :
                     \/ /\ CompleteReviewer(r, out, n) \/ FailReviewer(r, out, n)
                        /\ stage_reviewers' = stage_reviewers \ {i}
                        /\ pc' = "run"
                        /\ UNCHANGED raised
                     \/ RejectMissingRawOutput(r, out)
                     \/ RejectRequiredFailure(r, out, n)
    /\ UNCHANGED <<inputs, cursorVars, clarificationVars, budgetVars, blocking, answered,
                   result>>

-----------------------------------------------------------------------------
(***************************************************************************)
(* clarification_gate, and ingest_clarification_answer for every blocking  *)
(* request an answer was supplied for.                                     *)
(***************************************************************************)
Blocks(req) == req.status = "pending" /\ req.blocks_verdict

Blocking(reqs) == {i \in DOMAIN reqs : Blocks(reqs[i])}

PassGate ==
    /\ pc = "run" /\ raised = None
    /\ stage_reviewers = {}
    /\ Blocking(requests) = {}
    /\ pc' = "loop"
    /\ UNCHANGED <<inputs, cursorVars, clarificationVars, budgetVars, outputVars, raised,
                   run_status, reviewer_results, stage_reviewers, blocking, answered,
                   seen_raw_keys, result>>

BlockGate ==
    /\ pc = "run" /\ raised = None
    /\ stage_reviewers = {}
    /\ Blocking(requests) # {}
    /\ routing_requests' = requests
    /\ blocking' = Blocking(requests)
    /\ answered' = FALSE
    /\ pc' = "ingest"
    /\ UNCHANGED <<inputs, cursorVars, clarifications, resumed, routing_ready, budgetVars,
                   outputVars, raised, run_status, reviewer_results, stage_reviewers,
                   seen_raw_keys, result>>

IsNextBlocking(i) == i \in blocking /\ \A j \in blocking : i <= j

\* Mutant: the loop waits for the answer instead of passing on.
WaitForAnswer ==
    /\ pc = "ingest" /\ raised = None
    /\ \E i \in blocking : IsNextBlocking(i) /\ requests[i].id \notin answers
    /\ UNCHANGED vars

SkipUnanswered ==
    /\ pc = "ingest" /\ raised = None
    /\ \E i \in blocking :
           /\ IsNextBlocking(i)
           /\ requests[i].id \notin answers
           /\ blocking' = blocking \ {i}
    /\ UNCHANGED <<inputs, cursorVars, clarificationVars, budgetVars, outputVars, pc, raised,
                   run_status, reviewer_results, stage_reviewers, answered,
                   seen_raw_keys, result>>

\* Mutant: the answer is recorded but no clarification review is scheduled.
NotScheduled(id) == routing_ready

Scheduled(id) ==
    IF \E j \in DOMAIN routing_ready : routing_ready[j] = id
    THEN routing_ready
    ELSE Append(routing_ready, id)

IngestAnswer ==
    /\ pc = "ingest" /\ raised = None
    /\ \E i \in blocking, f \in DOMAIN routing_requests :
           /\ IsNextBlocking(i)
           /\ requests[i].id \in answers
           /\ IsFirstRequest(routing_requests, requests[i].id, f)
           /\ IF routing_requests[f].status # "pending"
              THEN /\ raised' = "request_not_pending"
                   /\ UNCHANGED <<clarifications, routing_ready, routing_requests,
                                  blocking, answered>>
              ELSE /\ clarifications' = Append(clarifications, requests[i].id)
                   /\ routing_requests' = [routing_requests EXCEPT ![f].status = "answered"]
                   /\ routing_ready' = Scheduled(requests[i].id)
                   /\ blocking' = blocking \ {i}
                   /\ answered' = TRUE
                   /\ UNCHANGED raised
    /\ UNCHANGED <<inputs, cursorVars, resumed, budgetVars, outputVars, pc, run_status,
                   reviewer_results, stage_reviewers, seen_raw_keys, result>>

\* Mutant: the loop goes on although no answer was available.
AlwaysContinue == TRUE

Continues == answered

\* Mutant: the answered status stays in the routing state's copy.
StaleRequests == requests

RequestsAfterIngest == routing_requests

FinishIngest ==
    /\ pc = "ingest" /\ raised = None
    /\ blocking = {}
    /\ IF Continues
       THEN /\ requests' = RequestsAfterIngest
            /\ ready_clarification_ids' = routing_ready
            /\ pc' = "loop"
       ELSE /\ pc' = "stop"
            /\ UNCHANGED <<requests, ready_clarification_ids>>
    /\ UNCHANGED <<inputs, active_stage, suspended_stage, stage_queue, completed_stages,
                   active_clarification_id, clarificationVars, budgetVars, findings,
                   local_notes, errors, raised, run_status, reviewer_results,
                   stage_reviewers, blocking, answered, seen_raw_keys, result>>

-----------------------------------------------------------------------------
(***************************************************************************)
(* After the loop: every raw output must belong to a reviewer that was     *)
(* selected, unless the run stopped for a clarification before its stage.  *)
(***************************************************************************)
CheckRawOutputs ==
    /\ pc \in {"check", "stop"} /\ raised = None
    /\ LET queued == {stage_queue[i] : i \in DOMAIN stage_queue}
           ignored == IF pc = "stop" THEN {k \in RawKey : k[2] \in queued} ELSE {}
       IN  IF UnreadRawKeys \ ignored # {}
           THEN raised' = "raw_not_selected" /\ UNCHANGED pc
           ELSE pc' = "core" /\ UNCHANGED raised
    /\ UNCHANGED <<inputs, cursorVars, clarificationVars, budgetVars, outputVars,
                   run_status, reviewer_results, stage_reviewers, blocking, answered,
                   seen_raw_keys, result>>

(***************************************************************************)
(* The tail of _run_dry_run_core: unique item ids, the gate once more, the *)
(* local verdict, post_enabled and the candidate payload.                  *)
(***************************************************************************)
DistinctIds(items) == \A i, j \in DOMAIN items : items[i].id = items[j].id => i = j

\* Mutant: a note's id does not say which stage it is from.
NotesOfDistinctReviewers ==
    \A m, n \in Note : local_notes[m] > 0 /\ local_notes[n] > 0 /\ m.kind = n.kind
                        /\ m.reviewer = n.reviewer => m = n /\ local_notes[m] <= 1

DistinctNotes == \A n \in Note : local_notes[n] <= 1

LocalVerdict ==
    IF Blocking(requests) # {} THEN "needs_clarification"
    ELSE IF findings = <<>> THEN "no_findings"
    ELSE IF \E i \in DOMAIN findings :
               findings[i].strong /\ findings[i].reviewer \in RequestChanges
         THEN "request_changes"
    ELSE "comment"

\* Mutant: required reviewer failures do not count.
PostEnabledDespiteErrors == Blocking(requests) = {} /\ findings # <<>>

PostEnabled == errors = <<>> /\ Blocking(requests) = {} /\ findings # <<>>

EmitResult ==
    /\ pc = "core" /\ raised = None
    /\ IF DistinctIds(findings) /\ DistinctIds(requests) /\ DistinctNotes
       THEN /\ result' = [post_enabled |-> PostEnabled, candidate |-> PostEnabled,
                          verdict |-> LocalVerdict]
            /\ pc' = "done"
            /\ UNCHANGED raised
       ELSE /\ raised' = "duplicate_item_id"
            /\ UNCHANGED <<pc, result>>
    /\ UNCHANGED <<inputs, cursorVars, clarificationVars, budgetVars, outputVars,
                   run_status, reviewer_results, stage_reviewers, blocking, answered,
                   seen_raw_keys>>

-----------------------------------------------------------------------------
Next ==
    \/ AdvanceLoop \/ LeaveLoop
    \/ SelectReviewers \/ StartReviewer \/ FinishReviewer
    \/ PassGate \/ BlockGate
    \/ SkipUnanswered \/ IngestAnswer \/ FinishIngest
    \/ CheckRawOutputs \/ EmitResult

\* One thread runs the loop to its end.
Spec == Init /\ [][Next]_vars /\ WF_vars(Next)

-----------------------------------------------------------------------------
(***************************************************************************)
(* Properties.                                                             *)
(***************************************************************************)
Ended == raised # None \/ pc = "done"
PostingEnabled == pc = "done" /\ result.post_enabled
Answered == Cursor!Elems(clarifications)

(***************************************************************************)
(* The loop uses the cursor only as it promises to be used: seen with the  *)
(* routing state's list of ready ids while answers are being ingested, and *)
(* the cursor's own copy otherwise, every step is an operation of          *)
(* StageCursor or leaves it alone.  The two lists are copied back and      *)
(* forth (runner.py:459, 637) and must never drift apart.                  *)
(***************************************************************************)
Promise == INSTANCE StageCursor WITH
    ready_clarification_ids <-
        IF pc = "ingest" THEN routing_ready ELSE ready_clarification_ids

CursorPromise == Promise!Spec

(***************************************************************************)
(* The ValueErrors of _select_clarification_resume_reviewers cannot be     *)
(* raised: an id that is ready, or being reviewed, always names an         *)
(* answered request in the routing state's copy of the requests, although  *)
(* that copy is only refreshed when the gate blocks (routing.py:98-137,    *)
(* runner.py:698).                                                         *)
(***************************************************************************)
ResumeTargetKnown ==
    \A id \in Cursor!Elems(ready_clarification_ids)
                \cup ({active_clarification_id} \ {None}) :
        \E i \in DOMAIN routing_requests :
            routing_requests[i].id = id /\ routing_requests[i].status = "answered"

(***************************************************************************)
(* The loop never leaves a stage behind while a blocking request is        *)
(* pending: a stage is completed only when no request blocks, however many *)
(* requests were raised and whichever of them were answered in between     *)
(* (runner.py:628-640).                                                    *)
(***************************************************************************)
NoStageCompletedWhileBlocked ==
    [][completed_stages' # completed_stages => Blocking(requests) = {}]_vars

(***************************************************************************)
(* Posting is enabled only after a complete review: every run of a         *)
(* required reviewer that was selected, resumed clarification runs         *)
(* included, ended completed, in its last attempt, or was deferred by the  *)
(* budget (runner.py:566-591, 601-617, verdict.py:31-38).                  *)
(***************************************************************************)
RequiredFailureBlocksPosting ==
    PostingEnabled =>
        \A k \in DOMAIN run_status :
            k.reviewer \in Required =>
                \E n \in 1..MaxAttempts :
                    LET last == [k EXCEPT !.attempt = n]
                    IN  last \in DOMAIN run_status
                        /\ run_status[last] \in {"completed", "skipped"}

(***************************************************************************)
(* No reviewer run is executed twice, resumes included: a run key appears  *)
(* once in reviewer_results, and no other run of the same reviewer, stage  *)
(* and clarification follows a completed one (reviewer_runs.py:59-120).    *)
(***************************************************************************)
SameReview(k, l) ==
    k.reviewer = l.reviewer /\ k.stage = l.stage /\ k.clarification_id = l.clarification_id

NoReviewRepeated ==
    \A i, j \in DOMAIN reviewer_results :
        i < j /\ SameReview(reviewer_results[i], reviewer_results[j]) =>
            /\ reviewer_results[i].attempt < reviewer_results[j].attempt
            /\ run_status[reviewer_results[i]] = "failed"

(***************************************************************************)
(* A run that completed or was skipped keeps that status for good          *)
(* (reviewer_runs.py:86-120).                                              *)
(***************************************************************************)
FinalStatusKept ==
    [][\A k \in DOMAIN run_status :
          run_status[k] \in {"completed", "skipped"} =>
              k \in DOMAIN run_status' /\ run_status'[k] = run_status[k]]_vars

(***************************************************************************)
(* A stage is completed only when each reviewer that routing triggered for *)
(* it has been accounted for: it ended completed or failed, or was skipped *)
(* by the budget, and none is left selected or running                     *)
(* (runner.py:465-627).                                                    *)
(***************************************************************************)
CompletedStageAccounted ==
    \A i \in DOMAIN completed_stages :
        \A j \in DOMAIN StageSelection[completed_stages[i]] :
            LET reviewed == {k \in DOMAIN run_status :
                                /\ k.reviewer = StageSelection[completed_stages[i]][j]
                                /\ k.stage = completed_stages[i]}
            IN  /\ reviewed # {}
                /\ \A k \in reviewed : run_status[k] \in {"completed", "failed", "skipped"}

(***************************************************************************)
(* The context budget bounds the whole run, clarification reviews          *)
(* included: provider attempts never exceed what was planned, what was     *)
(* planned never exceeds max_live_calls, and max_reviewers bounds the      *)
(* reviewers that ran (context_budget.py:202-280, runner.py:466-493).      *)
(***************************************************************************)
WithinBudget ==
    /\ Live => Len(reviewer_results) <= planned_live_calls
    /\ planned_live_calls <= MaxLiveCalls
    /\ retained_reviewer_count <= MaxReviewers
    /\ Cardinality({i \in DOMAIN reviewer_results : reviewer_results[i].attempt = 1})
           <= retained_reviewer_count

(***************************************************************************)
(* A run that enables posting re-ran, or deferred by budget, the reviewer  *)
(* of every answered request that was raised before logic_review           *)
(* (runner.py:461, 635-638).                                               *)
(***************************************************************************)
ResumeRan(id) == \E k \in DOMAIN run_status : k.clarification_id = id

EarlyAnswersReviewed ==
    PostingEnabled =>
        \A i \in DOMAIN requests :
            requests[i].status = "answered" /\ requests[i].stage # "logic_review" =>
                ResumeRan(requests[i].id)

(***************************************************************************)
(* The loop ends, whatever the reviewers output and whatever is answered:  *)
(* no exchange of requests and answers keeps it going (runner.py:450-640). *)
(***************************************************************************)
Termination == <>Ended

(***************************************************************************)
(* What docs/architecture/state-graph.md:251 says of every answer: the     *)
(* next advance enters clarification_review and the affected reviewer runs *)
(* before the review goes on.  The loop's condition (runner.py:450) leaves *)
(* it out for requests raised in logic_review.                             *)
(***************************************************************************)
EveryAnswerReviewed == PostingEnabled => \A id \in Answered : ResumeRan(id)

(***************************************************************************)
(* No run is lost because of the notes the graph itself writes, unless one *)
(* reviewer fails, or is deferred, in two clarification reviews: the id of *)
(* a note names stage and reviewer, not the clarification                  *)
(* (runner.py:797-812, 1100-1109).                                         *)
(***************************************************************************)
RepeatsANote(r) ==
    \E k, l \in DOMAIN run_status :
        /\ k # l
        /\ {k.reviewer, l.reviewer} = {r} /\ {k.stage, l.stage} = {"clarification_review"}
        /\ {run_status[k], run_status[l]} \subseteq {"failed", "skipped"}

NotesKeepTheRun ==
    raised = "duplicate_item_id" =>
        ~DistinctIds(findings) \/ ~DistinctIds(requests) \/ \E r \in Reviewers : RepeatsANote(r)
=============================================================================
