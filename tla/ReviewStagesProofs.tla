------------------------ MODULE ReviewStagesProofs -------------------------
(***************************************************************************)
(* Proofs about a review run, for every set of reviewers and clarification *)
(* ids, every routing, budget and number of attempts, and all inputs.      *)
(***************************************************************************)
EXTENDS ReviewStages, SequenceTheorems, FiniteSetTheorems, WellFoundedInduction, TLAPS

Elems(s) == {s[i] : i \in DOMAIN s}

InStage == pc \in {"select", "run", "running"}

\* What fixture mode may be given, as Init admits it.
InputsTyped == \A k \in DOMAIN raw_outputs : raw_outputs[k] \in Output

\* A stage is active while its reviewers are selected and run, and the
\* retained positions are positions of its candidates.
StageActive ==
    /\ InStage => active_stage \in ReviewStage
    /\ active_stage = ClarificationReview => active_clarification_id # None
    /\ pc \in {"run", "running"} => stage_reviewers \subseteq DOMAIN Candidates

\* The two lists of ready ids agree while the cursor may be advanced.
ReadyCopied ==
    /\ pc = "loop" \/ InStage \/ (pc = "ingest" /\ ~answered) =>
           routing_ready = ready_clarification_ids
    /\ pc = "ingest" /\ answered => routing_ready # <<>>

\* Only answered clarifications are ready or under review.
ReadyAnswered ==
    /\ Elems(ready_clarification_ids) \cup Elems(routing_ready) \subseteq Elems(clarifications)
    /\ active_clarification_id \in Elems(clarifications) \cup {None}

\* The first request with the id of an answer is the one marked answered.
RecordedIn(reqs) ==
    \A id \in Elems(clarifications) :
        \E i \in DOMAIN reqs : IsFirstRequest(reqs, id, i) /\ reqs[i].status = "answered"

AnswersRecorded ==
    /\ RecordedIn(routing_requests)
    /\ pc # "ingest" => RecordedIn(requests)
    /\ pc = "ingest" /\ ~answered => routing_requests = requests

\* The cursor is advanced only if nothing blocks, or an answer is ready.
GatePassed == pc = "loop" => Blocking(requests) = {} \/ ready_clarification_ids # <<>>

ReviewInv ==
    /\ TypeOK /\ InputsTyped /\ StageActive /\ ReadyCopied /\ ReadyAnswered
    /\ AnswersRecorded /\ GatePassed

-----------------------------------------------------------------------------
(***************************************************************************)
(* Facts about the operators of the loop.                                  *)
(***************************************************************************)
LEMMA Constants ==
    /\ None \notin ReviewStage /\ None \notin ClarificationIds /\ None \notin RunErrors
    /\ RunErrors = {"no_triage_reviewer", "required_reviewer_failed", "raw_not_selected",
                    "request_not_pending", "duplicate_item_id"}
    /\ ReviewStage = NormalStages \cup {ClarificationReview}
    /\ ClarificationReview \notin NormalStages
    /\ StageSelection \in [NormalStages -> Seq(Reviewers)]
    /\ MaxReviewers \in Nat /\ MaxLiveCalls \in Nat
    /\ Live \in BOOLEAN /\ MaxAttempts \in Nat /\ MaxAttempts >= 1
    /\ LiveCallCost \in Nat
  BY ReviewStagesAssumption
  DEF ReviewStage, NormalStages, ClarificationReview, RunErrors, LiveCallCost, Cursor!ReviewStage,
      Cursor!NormalStages, Cursor!ClarificationReview

LEMMA CandidatesTyped ==
    ASSUME TypeOK, StageActive, ReadyAnswered, AnswersRecorded, active_stage \in ReviewStage
    PROVE  /\ Candidates \in Seq(Reviewers)
           /\ DOMAIN Candidates \subseteq Nat /\ IsFiniteSet(DOMAIN Candidates)
           /\ \A i \in DOMAIN Candidates : Candidates[i] \in Reviewers
  <1>1. Candidates \in Seq(Reviewers)
    <2>1. CASE active_stage = ClarificationReview
      <3>1. active_clarification_id \in Elems(clarifications)
        BY <2>1 DEF StageActive, ReadyAnswered
      <3>2. \E i \in DOMAIN routing_requests :
                IsFirstRequest(routing_requests, active_clarification_id, i)
        BY <3>1 DEF AnswersRecorded, RecordedIn
      <3> DEFINE first == CHOOSE i \in DOMAIN routing_requests :
                     IsFirstRequest(routing_requests, active_clarification_id, i)
      <3>3. first \in DOMAIN routing_requests
        BY <3>2
      <3>4. routing_requests[first].reviewer \in Reviewers
        <4>1. routing_requests \in Seq(Request)
          BY DEF TypeOK
        <4>2. routing_requests[first] \in Request
          BY <3>3, <4>1
        <4> QED BY <4>2 DEF Request
      <3>5. Candidates = <<routing_requests[first].reviewer>>
        BY <2>1 DEF Candidates
      <3> QED BY <3>4, <3>5
    <2>2. CASE active_stage # ClarificationReview
      BY <2>2, Constants DEF Candidates
    <2> QED BY <2>1, <2>2
  <1>2. DOMAIN Candidates = 1..Len(Candidates) /\ Len(Candidates) \in Nat
    BY <1>1
  <1>3. IsFiniteSet(1..Len(Candidates))
    BY <1>2, FS_Interval
  <1> QED BY <1>1, <1>2, <1>3

LEMMA KeyTyped ==
    ASSUME TypeOK, active_stage \in ReviewStage, NEW r \in Reviewers, NEW n \in 1..MaxAttempts
    PROVE  Key(r, n) \in RunKey
  BY DEF TypeOK, Key, RunKey, Cursor!TypeOK

StatusTyped(status) ==
    DOMAIN status \subseteq RunKey /\ \A k \in DOMAIN status : status[k] \in RunStatus

LEMMA SetStatusTyped ==
    ASSUME NEW status, StatusTyped(status), NEW keys \in SUBSET RunKey, NEW value \in RunStatus
    PROVE  StatusTyped(SetStatus(status, keys, value))
  BY DEF StatusTyped, SetStatus

LEMMA WithNotesTyped ==
    ASSUME TypeOK, NEW new PROVE WithNotes(new) \in [Note -> Nat]
  BY DEF TypeOK, WithNotes

LEMMA ReviewInvInit == Init => ReviewInv
  <1> SUFFICES ASSUME Init PROVE ReviewInv
    OBVIOUS
  <1> USE Constants
  <1>1. TypeOK
    <2>1. Cursor!TypeOK
      <3>1. Cursor!NormalReviewStages \in Seq(Cursor!NormalStages)
        BY DEF Cursor!NormalReviewStages, Cursor!NormalStages
      <3> QED BY <3>1 DEF Init, Cursor!Init, Cursor!TypeOK
    <2>2. DOMAIN raw_outputs \subseteq RawKey
      BY ReviewStagesAssumption DEF Init
    <2>3. run_status = <<>> /\ DOMAIN run_status = {}
      BY DEF Init
    <2>4. /\ routing_ready \in Seq(ClarificationIds) /\ routing_requests \in Seq(Request)
          /\ reviewer_results \in Seq(RunKey) /\ findings \in Seq(Finding)
          /\ requests \in Seq(Request)
          /\ errors \in Seq([reviewer : Reviewers, stage : ReviewStage])
      BY DEF Init
    <2>5. local_notes \in [Note -> Nat]
      BY DEF Init
    <2> QED BY <2>1, <2>2, <2>3, <2>4, <2>5 DEF Init, TypeOK
  <1>2. InputsTyped
    BY ReviewStagesAssumption DEF Init, InputsTyped
  <1>3. StageActive /\ ReadyCopied /\ ReadyAnswered /\ AnswersRecorded /\ GatePassed
    BY DEF Init, Cursor!Init, StageActive, InStage, ReadyCopied, ReadyAnswered, Elems,
           AnswersRecorded, RecordedIn, GatePassed, Blocking
  <1> QED BY <1>1, <1>2, <1>3 DEF ReviewInv

-----------------------------------------------------------------------------
(***************************************************************************)
(* The loop head.                                                          *)
(***************************************************************************)
LEMMA CursorStep ==
    ASSUME Cursor!TypeOK, Cursor!AdvanceOrFinishStage,
           active_stage = ClarificationReview => active_clarification_id # None
    PROVE  /\ Cursor!TypeOK'
           /\ clarifications' = clarifications
           /\ Elems(ready_clarification_ids') \subseteq Elems(ready_clarification_ids)
           /\ active_clarification_id' \in
                  Elems(ready_clarification_ids) \cup {None, active_clarification_id}
           /\ active_stage' = ClarificationReview => active_clarification_id' # None
           /\ active_stage = ClarificationReview =>
                  ready_clarification_ids' = ready_clarification_ids
           /\ stage_queue # <<>> /\ active_stage # ClarificationReview =>
                  active_stage' \in ReviewStage
  <1> USE Constants DEF Cursor!TypeOK, ReviewStage, NormalStages, ClarificationReview
  <1>1. CASE Cursor!StartFirstStage
    <2>1. Head(stage_queue) \in Cursor!NormalStages /\ Tail(stage_queue) \in Seq(Cursor!NormalStages)
      BY <1>1 DEF Cursor!StartFirstStage
    <2> QED BY <1>1, <2>1 DEF Cursor!StartFirstStage, Cursor!ReviewStage
  <1>2. CASE Cursor!StayFinished
    BY <1>2 DEF Cursor!StayFinished, Cursor!vars, Cursor!position
  <1>3. CASE Cursor!RestoreSuspendedStage
    BY <1>3 DEF Cursor!RestoreSuspendedStage, Cursor!ReviewStage
  <1>4. CASE Cursor!EnterClarificationReview
    <2>1. /\ Head(ready_clarification_ids) \in ClarificationIds
          /\ Head(ready_clarification_ids) \in Elems(ready_clarification_ids)
          /\ Tail(ready_clarification_ids) \in Seq(ClarificationIds)
          /\ Elems(Tail(ready_clarification_ids)) \subseteq Elems(ready_clarification_ids)
          /\ Append(resumed, Head(ready_clarification_ids)) \in Seq(ClarificationIds)
      BY <1>4 DEF Cursor!EnterClarificationReview, Elems
    <2>2. active_stage \in Cursor!NormalStages /\ active_stage # ClarificationReview
      BY <1>4 DEF Cursor!EnterClarificationReview
    <2> QED BY <1>4, <2>1, <2>2 DEF Cursor!EnterClarificationReview, Cursor!ReviewStage
  <1>5. CASE Cursor!CompleteStage
    <2>1. Append(completed_stages, active_stage) \in Seq(Cursor!NormalStages)
      BY <1>5 DEF Cursor!CompleteStage
    <2>2. stage_queue # <<>> => /\ Head(stage_queue) \in Cursor!NormalStages
                               /\ Tail(stage_queue) \in Seq(Cursor!NormalStages)
      OBVIOUS
    <2>3. active_stage \in Cursor!NormalStages /\ active_stage # ClarificationReview
      BY <1>5 DEF Cursor!CompleteStage
    <2> QED BY <1>5, <2>1, <2>2, <2>3 DEF Cursor!CompleteStage, Cursor!ReviewStage
  <1> QED BY <1>1, <1>2, <1>3, <1>4, <1>5 DEF Cursor!AdvanceOrFinishStage

LEMMA AdvanceLoopInv == ReviewInv /\ AdvanceLoop => ReviewInv'
  <1> SUFFICES ASSUME ReviewInv, AdvanceLoop PROVE ReviewInv'
    OBVIOUS
  <1>0. /\ Cursor!TypeOK
        /\ active_stage = ClarificationReview => active_clarification_id # None
        /\ Cursor!AdvanceOrFinishStage
        /\ pc = "loop" /\ stage_queue # <<>>
        /\ pc' = IF active_stage = ClarificationReview THEN "loop" ELSE "select"
        /\ routing_ready' = ready_clarification_ids'
        /\ UNCHANGED <<inputs, routing_requests, outputVars, answered, stage_reviewers>>
    BY DEF ReviewInv, TypeOK, StageActive, AdvanceLoop, CopyReady
  <1> USE <1>0, CursorStep, Constants
  <1>1. TypeOK'
    BY DEF ReviewInv, TypeOK, AdvanceLoop, inputs, budgetVars, outputVars, Cursor!TypeOK
  <1>2. InputsTyped'
    BY DEF ReviewInv, InputsTyped, inputs
  <1>3. StageActive'
    BY DEF StageActive, InStage
  <1>4. ReadyCopied'
    BY DEF ReadyCopied
  <1>5. ReadyAnswered'
    BY DEF ReviewInv, ReadyAnswered
  <1>6. AnswersRecorded'
    BY DEF ReviewInv, AnswersRecorded, RecordedIn, outputVars
  <1>7. GatePassed'
    BY DEF ReviewInv, GatePassed, outputVars, Blocking
  <1> QED BY <1>1, <1>2, <1>3, <1>4, <1>5, <1>6, <1>7 DEF ReviewInv

LEMMA LeaveLoopInv == ReviewInv /\ LeaveLoop => ReviewInv'
  <1> SUFFICES ASSUME ReviewInv, LeaveLoop PROVE ReviewInv'
    OBVIOUS
  <1>0. /\ Cursor!TypeOK
        /\ active_stage = ClarificationReview => active_clarification_id # None
        /\ Cursor!AdvanceOrFinishStage
        /\ pc = "loop" /\ pc' = "check"
        /\ UNCHANGED <<inputs, routing_ready, routing_requests, outputVars, answered>>
    BY DEF ReviewInv, TypeOK, StageActive, LeaveLoop
  <1> USE <1>0, CursorStep, Constants
  <1>1. TypeOK'
    BY DEF ReviewInv, TypeOK, LeaveLoop, inputs, budgetVars, outputVars, Cursor!TypeOK
  <1>2. InputsTyped'
    BY DEF ReviewInv, InputsTyped, inputs
  <1>3. StageActive' /\ ReadyCopied' /\ GatePassed'
    BY DEF StageActive, InStage, ReadyCopied, GatePassed
  <1>4. ReadyAnswered'
    BY DEF ReviewInv, ReadyAnswered
  <1>5. AnswersRecorded'
    BY DEF ReviewInv, AnswersRecorded, RecordedIn, outputVars
  <1> QED BY <1>1, <1>2, <1>3, <1>4, <1>5 DEF ReviewInv

-----------------------------------------------------------------------------
(***************************************************************************)
(* Selecting and running reviewers.  These steps leave the cursor and the  *)
(* clarifications alone, except that new requests are appended.            *)
(***************************************************************************)
InStageUnchanged ==
    UNCHANGED <<inputs, cursorVars, clarificationVars, blocking, answered, result>>

LEMMA StageStepInv ==
    ASSUME ReviewInv, InStage, InStageUnchanged,
           pc' \in {"select", "run", "running"},
           requests' = requests \/ RecordedIn(requests)'
    PROVE  /\ InputsTyped' /\ ReadyCopied' /\ ReadyAnswered' /\ AnswersRecorded' /\ GatePassed'
           /\ InStage' /\ active_stage' \in ReviewStage
           /\ active_stage' = ClarificationReview => active_clarification_id' # None
           /\ Cursor!TypeOK'
           /\ routing_ready' \in Seq(ClarificationIds) /\ routing_requests' \in Seq(Request)
           /\ Candidates' = Candidates
  <1> USE DEF ReviewInv, InStageUnchanged, inputs, cursorVars, clarificationVars
  <1>1. InputsTyped' /\ InStage'
    BY DEF InputsTyped, InStage
  <1>2. ReadyCopied' /\ GatePassed'
    BY DEF ReadyCopied, GatePassed, InStage
  <1>3. ReadyAnswered'
    BY DEF ReadyAnswered
  <1>4. AnswersRecorded'
    BY DEF AnswersRecorded, RecordedIn, InStage
  <1>5. Cursor!TypeOK'
    BY DEF TypeOK, Cursor!TypeOK
  <1>6. /\ active_stage' \in ReviewStage
        /\ active_stage' = ClarificationReview => active_clarification_id' # None
        /\ routing_ready' \in Seq(ClarificationIds) /\ routing_requests' \in Seq(Request)
    BY DEF StageActive, TypeOK
  <1>7. Candidates' = Candidates
    BY DEF Candidates
  <1> QED BY <1>1, <1>2, <1>3, <1>4, <1>5, <1>6, <1>7

LEMMA SelectReviewersInv == ReviewInv /\ SelectReviewers => ReviewInv'
  <1> SUFFICES ASSUME ReviewInv, SelectReviewers PROVE ReviewInv'
    OBVIOUS
  <1> DEFINE selected == {i \in DOMAIN Candidates : ~Suppressed(Candidates[i])}
             retained == Fitting(selected)
             deferred == selected \ retained
             count == retained_reviewer_count + Cardinality(retained)
             newKeys == KeysOf(selected) \ DOMAIN run_status
             marked == SetStatus(run_status, newKeys, "selected")
  <1>1. /\ pc = "select"
        /\ run_status' = SetStatus(marked, SkippedKeys(deferred), "skipped")
        /\ deferred_raw_keys' = deferred_raw_keys
               \cup {<<Candidates[i], active_stage>> : i \in deferred}
        /\ local_notes' = WithNotes(DeferredNotes(deferred, count))
        /\ retained_reviewer_count' = count
        /\ planned_live_calls' = planned_live_calls + Cardinality(retained) * LiveCallCost
        /\ \/ raised' = "no_triage_reviewer" /\ UNCHANGED <<pc, stage_reviewers>>
           \/ pc' = "run" /\ stage_reviewers' = retained /\ UNCHANGED raised
        /\ UNCHANGED <<inputs, cursorVars, clarificationVars, findings, requests, errors,
                       reviewer_results, blocking, answered, seen_raw_keys, result>>
    BY DEF SelectReviewers
  <1>2. InStage /\ active_stage \in ReviewStage
    BY <1>1 DEF InStage, ReviewInv, StageActive
  <1>3. /\ \A i \in DOMAIN Candidates : Candidates[i] \in Reviewers
        /\ DOMAIN Candidates \subseteq Nat /\ IsFiniteSet(DOMAIN Candidates)
    BY <1>2, CandidatesTyped DEF ReviewInv
  <1>4. /\ selected \subseteq DOMAIN Candidates /\ retained \subseteq DOMAIN Candidates
        /\ deferred \subseteq DOMAIN Candidates
    BY DEF Fitting
  <1>5. Cardinality(retained) \in Nat
    BY <1>3, <1>4, FS_Subset, FS_CardinalityType
  <1>6. StatusTyped(run_status')
    <2>1. \A i \in DOMAIN Candidates : Key(Candidates[i], 1) \in RunKey
      BY <1>2, <1>3, KeyTyped, Constants DEF ReviewInv
    <2>2. newKeys \subseteq RunKey /\ SkippedKeys(deferred) \subseteq RunKey
      BY <1>4, <2>1 DEF KeysOf, SkippedKeys
    <2>3. StatusTyped(run_status)
      BY DEF ReviewInv, TypeOK, StatusTyped
    <2>4. StatusTyped(marked)
      BY <2>2, <2>3, SetStatusTyped DEF RunStatus
    <2> QED BY <1>1, <2>2, <2>4, SetStatusTyped DEF RunStatus
  <1>7. local_notes' \in [Note -> Nat]
    BY <1>1, WithNotesTyped DEF ReviewInv
  <1>8. deferred_raw_keys' \subseteq RawKey
    BY <1>1, <1>2, <1>3, <1>4 DEF ReviewInv, TypeOK, RawKey
  <1>9. retained_reviewer_count' \in Nat /\ planned_live_calls' \in Nat
    <2>1. Cardinality(retained) * LiveCallCost \in Nat
      BY <1>5, Constants
    <2> QED BY <1>1, <1>5, <2>1 DEF ReviewInv, TypeOK
  <1> HIDE DEF selected, retained, deferred, count, newKeys, marked
  <1>10. stage_reviewers' \subseteq Nat
         /\ (pc' \in {"run", "running"} => stage_reviewers' \subseteq DOMAIN Candidates)
    BY <1>1, <1>3, <1>4 DEF ReviewInv, TypeOK
  <1>11. InStageUnchanged /\ pc' \in {"select", "run", "running"} /\ requests' = requests
    BY <1>1 DEF InStageUnchanged
  <1>12. TypeOK'
    <2>1. raised' \in {None} \cup RunErrors
      BY <1>1, Constants DEF ReviewInv, TypeOK
    <2> QED
      BY <1>1, <1>2, <1>6, <1>7, <1>8, <1>9, <1>10, <1>11, <2>1, StageStepInv
      DEF ReviewInv, TypeOK, StatusTyped, inputs
  <1> QED
    BY <1>2, <1>10, <1>11, <1>12, StageStepInv DEF ReviewInv, StageActive

LEMMA StartReviewerInv == ReviewInv /\ StartReviewer => ReviewInv'
  <1> SUFFICES ASSUME ReviewInv, StartReviewer PROVE ReviewInv'
    OBVIOUS
  <1>1. PICK i \in stage_reviewers :
            run_status' = SetStatus(run_status, {Key(Candidates[i], 1)}, "running")
    BY DEF StartReviewer
  <1>2. /\ pc = "run" /\ pc' = "running"
        /\ UNCHANGED <<inputs, cursorVars, clarificationVars, budgetVars, outputVars, raised,
                       reviewer_results, stage_reviewers, blocking, answered,
                       seen_raw_keys, result>>
    BY DEF StartReviewer
  <1>3. InStage /\ active_stage \in ReviewStage /\ stage_reviewers \subseteq DOMAIN Candidates
    BY <1>2 DEF InStage, ReviewInv, StageActive
  <1>4. StatusTyped(run_status')
    <2>1. Candidates[i] \in Reviewers
      BY <1>3, CandidatesTyped DEF ReviewInv
    <2>2. {Key(Candidates[i], 1)} \subseteq RunKey
      BY <1>3, <2>1, KeyTyped, Constants DEF ReviewInv
    <2>3. StatusTyped(run_status)
      BY DEF ReviewInv, TypeOK, StatusTyped
    <2> QED BY <1>1, <2>2, <2>3, SetStatusTyped DEF RunStatus
  <1>5. InStageUnchanged /\ pc' \in {"select", "run", "running"} /\ requests' = requests
    BY <1>2 DEF InStageUnchanged, outputVars
  <1>6. TypeOK'
    BY <1>2, <1>3, <1>4, <1>5, StageStepInv
    DEF ReviewInv, TypeOK, StatusTyped, inputs, budgetVars, outputVars
  <1> QED
    BY <1>2, <1>3, <1>5, <1>6, StageStepInv DEF ReviewInv, StageActive

LEMMA OutputTyped ==
    ASSUME ReviewInv, NEW r, NEW out \in PossibleOutputs(r)
    PROVE  out \in Output
  <1>1. CASE Live
    BY <1>1, ReviewStagesAssumption DEF PossibleOutputs
  <1>2. CASE ~Live /\ RawKeyOf(r) \in DOMAIN raw_outputs
    BY <1>2 DEF PossibleOutputs, ReviewInv, InputsTyped
  <1>3. CASE ~Live /\ RawKeyOf(r) \notin DOMAIN raw_outputs
    <2>1. out = [kind |-> "malformed", findings |-> <<>>, requests |-> <<>>]
      BY <1>3 DEF PossibleOutputs
    <2>2. <<>> \in Seq(RawFinding) /\ <<>> \in Seq(RawRequest)
      OBVIOUS
    <2> QED BY <2>1, <2>2 DEF Output
  <1> QED BY <1>1, <1>2, <1>3

LEMMA ItemsTyped ==
    ASSUME NEW out \in Output, NEW r \in Reviewers, active_stage \in ReviewStage
    PROVE  FindingsOf(r, out) \in Seq(Finding) /\ RequestsOf(r, out) \in Seq(Request)
  <1>1. /\ out.findings \in Seq(RawFinding) /\ out.requests \in Seq(RawRequest)
        /\ DOMAIN out.findings = 1..Len(out.findings) /\ Len(out.findings) \in Nat
        /\ DOMAIN out.requests = 1..Len(out.requests) /\ Len(out.requests) \in Nat
    BY DEF Output
  <1>2. ASSUME NEW i \in DOMAIN out.findings PROVE FindingsOf(r, out)[i] \in Finding
    <2>1. out.findings[i] \in RawFinding
      BY <1>1
    <2> QED BY <2>1 DEF FindingsOf, Finding, RawFinding
  <1>3. ASSUME NEW i \in DOMAIN out.requests PROVE RequestsOf(r, out)[i] \in Request
    <2>1. out.requests[i] \in RawRequest
      BY <1>1
    <2> QED BY <2>1 DEF RequestsOf, Request, RawRequest
  <1>4. FindingsOf(r, out) \in [1..Len(out.findings) -> Finding]
    BY <1>1, <1>2 DEF FindingsOf
  <1>5. RequestsOf(r, out) \in [1..Len(out.requests) -> Request]
    BY <1>1, <1>3 DEF RequestsOf
  <1> QED BY <1>1, <1>4, <1>5, SeqDef

LEMMA RecordAttemptsTyped ==
    ASSUME ReviewInv, active_stage \in ReviewStage, NEW r \in Reviewers,
           NEW n \in 1..MaxAttempts, NEW last \in RunStatus, RecordAttempts(r, n, last)
    PROVE  StatusTyped(run_status') /\ reviewer_results' \in Seq(RunKey)
  <1>1. n \in Nat /\ \A i \in 1..n : i \in 1..MaxAttempts /\ Key(r, i) \in RunKey
    BY KeyTyped, Constants DEF ReviewInv
  <1>2. StatusTyped(run_status)
    BY DEF ReviewInv, TypeOK, StatusTyped
  <1>3. StatusTyped(SetStatus(run_status, {Key(r, i) : i \in 1..n}, "failed"))
    BY <1>1, <1>2, SetStatusTyped DEF RunStatus
  <1>4. {Key(r, n)} \subseteq RunKey
    BY KeyTyped DEF ReviewInv
  <1>5. StatusTyped(run_status')
    BY <1>3, <1>4, SetStatusTyped DEF RecordAttempts
  <1>6. [i \in 1..n |-> Key(r, i)] \in [1..n -> RunKey]
    BY <1>1
  <1>7. [i \in 1..n |-> Key(r, i)] \in Seq(RunKey)
    BY <1>1, <1>6, SeqDef
  <1>8. reviewer_results \in Seq(RunKey)
    BY DEF ReviewInv, TypeOK
  <1> QED BY <1>5, <1>7, <1>8 DEF RecordAttempts

\* Appending requests never hides the first one with an id.
LEMMA RecordedInLonger ==
    ASSUME NEW old \in Seq(Request), NEW new \in Seq(Request), RecordedIn(old)
    PROVE  RecordedIn(old \o new)
  <1> SUFFICES ASSUME NEW id \in Elems(clarifications)
               PROVE  \E i \in DOMAIN (old \o new) :
                          IsFirstRequest(old \o new, id, i) /\ (old \o new)[i].status = "answered"
    BY DEF RecordedIn
  <1>1. PICK i \in DOMAIN old : IsFirstRequest(old, id, i) /\ old[i].status = "answered"
    BY DEF RecordedIn
  <1>2. /\ i \in DOMAIN (old \o new) /\ (old \o new)[i] = old[i]
        /\ \A j \in DOMAIN (old \o new) : j < i => j \in DOMAIN old /\ (old \o new)[j] = old[j]
        /\ \A j \in DOMAIN (old \o new) : j \in Int
        /\ i \in Int
    BY ConcatProperties
  <1> QED BY <1>1, <1>2 DEF IsFirstRequest

LEMMA FinishReviewerInv == ReviewInv /\ FinishReviewer => ReviewInv'
  <1> SUFFICES ASSUME ReviewInv, FinishReviewer PROVE ReviewInv'
    OBVIOUS
  <1> DEFINE Proceeds(i) == /\ stage_reviewers' = stage_reviewers \ {i}
                            /\ pc' = "run"
                            /\ UNCHANGED raised
  <1>0. PICK i \in stage_reviewers :
            /\ NoteSeen(Candidates[i])
            /\ \E out \in PossibleOutputs(Candidates[i]), n \in 1..MaxAttempts :
                  \/ CompleteReviewer(Candidates[i], out, n) /\ Proceeds(i)
                  \/ FailReviewer(Candidates[i], out, n) /\ Proceeds(i)
                  \/ RejectMissingRawOutput(Candidates[i], out)
                  \/ RejectRequiredFailure(Candidates[i], out, n)
    <2>1. \A n \in 1..(IF Live THEN MaxAttempts ELSE 1) : n \in 1..MaxAttempts
      BY Constants
    <2> QED BY <2>1 DEF FinishReviewer
  <1> DEFINE r == Candidates[i]
  <1>1. PICK out \in PossibleOutputs(r), n \in 1..MaxAttempts :
            \/ CompleteReviewer(r, out, n) /\ Proceeds(i)
            \/ FailReviewer(r, out, n) /\ Proceeds(i)
            \/ RejectMissingRawOutput(r, out)
            \/ RejectRequiredFailure(r, out, n)
    BY <1>0
  <1>2. /\ pc = "running"
        /\ UNCHANGED <<inputs, cursorVars, clarificationVars, budgetVars, blocking, answered,
                       result>>
    BY DEF FinishReviewer
  <1>3. InStage /\ active_stage \in ReviewStage /\ stage_reviewers \subseteq DOMAIN Candidates
    BY <1>2 DEF InStage, ReviewInv, StageActive
  <1>4. r \in Reviewers
    BY <1>3, CandidatesTyped DEF ReviewInv
  <1>5. out \in Output
    BY OutputTyped
  <1>6. seen_raw_keys' \subseteq RawKey
    BY <1>0 DEF NoteSeen, ReviewInv, TypeOK
  <1> HIDE DEF r
  <1>7. /\ pc' \in {"run", "running"}
        /\ stage_reviewers' \subseteq stage_reviewers
        /\ raised' \in {raised, "raw_not_selected", "required_reviewer_failed"}
    BY <1>1, <1>2 DEF RejectMissingRawOutput, RejectRequiredFailure
  <1>8. StatusTyped(run_status') /\ reviewer_results' \in Seq(RunKey)
    <2>1. CASE RejectMissingRawOutput(r, out)
      <3>1. Key(r, 1) \in RunKey
        BY <1>3, <1>4, KeyTyped, Constants DEF ReviewInv
      <3> QED BY <2>1, <3>1 DEF RejectMissingRawOutput, ReviewInv, TypeOK, StatusTyped
    <2>2. CASE RecordAttempts(r, n, "completed")
      BY <2>2, <1>3, <1>4, RecordAttemptsTyped DEF RunStatus
    <2>3. CASE RecordAttempts(r, n, "failed")
      BY <2>3, <1>3, <1>4, RecordAttemptsTyped DEF RunStatus
    <2> QED
      BY <1>1, <2>1, <2>2, <2>3 DEF CompleteReviewer, FailReviewer, RejectRequiredFailure
  <1>9. /\ findings' \in Seq(Finding) /\ requests' \in Seq(Request)
        /\ requests' = requests \/ RecordedIn(requests)'
        /\ DOMAIN requests \subseteq DOMAIN requests'
        /\ local_notes' \in [Note -> Nat]
        /\ errors' \in Seq([reviewer : Reviewers, stage : ReviewStage])
    <2>0. /\ findings \in Seq(Finding) /\ requests \in Seq(Request)
          /\ local_notes \in [Note -> Nat]
          /\ errors \in Seq([reviewer : Reviewers, stage : ReviewStage])
          /\ RecordedIn(requests)
      BY <1>2 DEF ReviewInv, TypeOK, AnswersRecorded
    <2>1. CASE CompleteReviewer(r, out, n)
      <3>1. FindingsOf(r, out) \in Seq(Finding) /\ RequestsOf(r, out) \in Seq(Request)
        BY <1>3, <1>4, <1>5, ItemsTyped
      <3>2. /\ findings' = findings \o FindingsOf(r, out)
            /\ requests' = requests \o RequestsOf(r, out)
            /\ local_notes' = local_notes /\ errors' = errors
        BY <2>1 DEF CompleteReviewer
      <3>3. findings' \in Seq(Finding) /\ requests' \in Seq(Request)
            /\ DOMAIN requests \subseteq DOMAIN requests'
        BY <2>0, <3>1, <3>2, ConcatProperties
      <3>4. RecordedIn(requests \o RequestsOf(r, out))
        BY <2>0, <3>1, RecordedInLonger
      <3>5. RecordedIn(requests)'
        BY <1>2, <3>2, <3>4 DEF RecordedIn, clarificationVars
      <3> QED BY <2>0, <3>2, <3>3, <3>5
    <2>2. CASE FailReviewer(r, out, n)
      <3>1. [reviewer |-> r, stage |-> active_stage] \in [reviewer : Reviewers, stage : ReviewStage]
        BY <1>3, <1>4
      <3>2. errors' \in Seq([reviewer : Reviewers, stage : ReviewStage])
        <4>1. errors' = errors \/ errors' = Append(errors, [reviewer |-> r, stage |-> active_stage])
          BY <2>2 DEF FailReviewer
        <4> DEFINE Error == [reviewer : Reviewers, stage : ReviewStage]
                   error == [reviewer |-> r, stage |-> active_stage]
        <4>2. errors \in Seq(Error) /\ error \in Error
          BY <2>0, <3>1
        <4>3. errors' = errors \/ errors' = Append(errors, error)
          BY <4>1
        <4> HIDE DEF Error, error
        <4>4. errors' \in Seq(Error)
          BY <4>2, <4>3, AppendProperties
        <4> QED BY <4>4 DEF Error
      <3>3. local_notes' \in [Note -> Nat]
        BY <2>2, WithNotesTyped DEF FailReviewer, ReviewInv
      <3> QED BY <2>0, <2>2, <3>2, <3>3 DEF FailReviewer
    <2>3. CASE RejectMissingRawOutput(r, out) \/ RejectRequiredFailure(r, out, n)
      BY <2>0, <2>3 DEF RejectMissingRawOutput, RejectRequiredFailure, outputVars
    <2> QED BY <1>1, <2>1, <2>2, <2>3
  <1>10. InStageUnchanged
    BY <1>2 DEF InStageUnchanged
  <1>11. TypeOK'
    <2>1. /\ Cursor!TypeOK'
          /\ routing_ready' \in Seq(ClarificationIds) /\ routing_requests' \in Seq(Request)
      BY <1>3, <1>7, <1>9, <1>10, StageStepInv
    <2>2. /\ DOMAIN raw_outputs' \subseteq RawKey /\ answers' \subseteq ClarificationIds
          /\ stage_reviewers' \subseteq Nat /\ answered' \in BOOLEAN
          /\ deferred_raw_keys' \subseteq RawKey
          /\ retained_reviewer_count' \in Nat /\ planned_live_calls' \in Nat
          /\ result' = result
      BY <1>2, <1>7 DEF ReviewInv, TypeOK, inputs, budgetVars
    <2>3. blocking' \subseteq DOMAIN requests'
      BY <1>2, <1>9 DEF ReviewInv, TypeOK
    <2>4. /\ pc' \in {"loop", "select", "run", "running", "ingest", "check", "stop", "core", "done"}
          /\ raised' \in {None} \cup RunErrors
      BY <1>7, Constants DEF ReviewInv, TypeOK
    <2> QED
      BY <1>6, <1>8, <1>9, <2>1, <2>2, <2>3, <2>4 DEF ReviewInv, TypeOK, StatusTyped
  <1>12. StageActive'
    BY <1>3, <1>7, <1>9, <1>10, StageStepInv DEF StageActive
  <1> QED
    BY <1>3, <1>7, <1>9, <1>10, <1>11, <1>12, StageStepInv DEF ReviewInv

-----------------------------------------------------------------------------
(***************************************************************************)
(* The clarification gate, the answers, and the end of the run.            *)
(***************************************************************************)
LEMMA GateInv == ReviewInv /\ (PassGate \/ BlockGate) => ReviewInv'
  <1> SUFFICES ASSUME ReviewInv, PassGate \/ BlockGate PROVE ReviewInv'
    OBVIOUS
  <1> USE DEF ReviewInv, inputs, cursorVars, budgetVars, outputVars, clarificationVars
  <1>1. CASE PassGate
    <2>1. TypeOK'
      BY <1>1 DEF PassGate, TypeOK, Cursor!TypeOK
    <2>2. InputsTyped' /\ StageActive' /\ ReadyCopied' /\ ReadyAnswered' /\ GatePassed'
      BY <1>1 DEF PassGate, InputsTyped, StageActive, ReadyCopied, InStage, ReadyAnswered,
                  GatePassed, Blocking
    <2>3. AnswersRecorded'
      BY <1>1 DEF PassGate, AnswersRecorded, RecordedIn
    <2> QED BY <2>1, <2>2, <2>3
  <1>2. CASE BlockGate
    <2>1. TypeOK'
      <3>1. Cursor!TypeOK' /\ routing_requests' \in Seq(Request) /\ answered' \in BOOLEAN
        BY <1>2 DEF BlockGate, TypeOK, Cursor!TypeOK
      <3>2. blocking' \subseteq DOMAIN requests'
        BY <1>2 DEF BlockGate, Blocking
      <3> QED BY <1>2, <3>1, <3>2 DEF BlockGate, TypeOK
    <2>2. InputsTyped' /\ StageActive' /\ ReadyCopied' /\ ReadyAnswered' /\ GatePassed'
      BY <1>2 DEF BlockGate, InputsTyped, StageActive, ReadyCopied, InStage, ReadyAnswered,
                  GatePassed
    <2>3. AnswersRecorded'
      BY <1>2 DEF BlockGate, AnswersRecorded, RecordedIn
    <2> QED BY <2>1, <2>2, <2>3
  <1> QED BY <1>1, <1>2

LEMMA SkipUnansweredInv == ReviewInv /\ SkipUnanswered => ReviewInv'
  <1> SUFFICES ASSUME ReviewInv, SkipUnanswered PROVE ReviewInv'
    OBVIOUS
  <1> USE DEF ReviewInv, SkipUnanswered, inputs, cursorVars, budgetVars, outputVars,
              clarificationVars
  <1>1. TypeOK'
    BY DEF TypeOK, Cursor!TypeOK
  <1>2. InputsTyped' /\ StageActive' /\ ReadyCopied' /\ ReadyAnswered' /\ GatePassed'
    BY DEF InputsTyped, StageActive, ReadyCopied, InStage, ReadyAnswered, GatePassed
  <1>3. AnswersRecorded'
    BY DEF AnswersRecorded, RecordedIn
  <1> QED BY <1>1, <1>2, <1>3

\* An answer is recorded only for a request that had none, and is then ready.
IngestEffect ==
    /\ Elems(routing_ready) \subseteq Elems(routing_ready')
    /\ \/ /\ raised' = "request_not_pending"
          /\ UNCHANGED <<clarifications, routing_ready, routing_requests, blocking,
                         answered>>
       \/ /\ UNCHANGED raised
          /\ blocking' \subseteq blocking
          /\ answered' = TRUE
          /\ \E id \in ClarificationIds :
                /\ id \notin Elems(clarifications)
                /\ clarifications' = Append(clarifications, id)
                /\ routing_ready' = Append(routing_ready, id)
                /\ routing_ready' \in Seq(ClarificationIds)
                /\ routing_ready' # <<>>
                /\ Elems(routing_ready') = Elems(routing_ready) \cup {id}
                /\ Elems(clarifications') = Elems(clarifications) \cup {id}
                /\ clarifications' \in Seq(ClarificationIds)
          /\ routing_requests' \in Seq(Request)
          /\ RecordedIn(routing_requests)'

LEMMA IngestStep == ASSUME ReviewInv, IngestAnswer PROVE IngestEffect
  <1>1. PICK i \in blocking, f \in DOMAIN routing_requests :
            /\ IsFirstRequest(routing_requests, requests[i].id, f)
            /\ IF routing_requests[f].status # "pending"
               THEN /\ raised' = "request_not_pending"
                    /\ UNCHANGED <<clarifications, routing_ready, routing_requests,
                                   blocking, answered>>
               ELSE /\ clarifications' = Append(clarifications, requests[i].id)
                    /\ routing_requests' = [routing_requests EXCEPT ![f].status = "answered"]
                    /\ routing_ready' = Scheduled(requests[i].id)
                    /\ blocking' = blocking \ {i}
                    /\ answered' = TRUE
                    /\ UNCHANGED raised
    BY DEF IngestAnswer
  <1>2. CASE routing_requests[f].status # "pending"
    BY <1>1, <1>2 DEF IngestEffect
  <1>3. CASE routing_requests[f].status = "pending"
    <2> DEFINE id == requests[i].id
    <2>1. /\ routing_requests \in Seq(Request) /\ routing_requests[f] \in Request
          /\ routing_requests[f].id = id /\ id \in ClarificationIds
          /\ clarifications \in Seq(ClarificationIds) /\ routing_ready \in Seq(ClarificationIds)
      <3>1. routing_requests \in Seq(Request) /\ routing_ready \in Seq(ClarificationIds)
            /\ clarifications \in Seq(ClarificationIds)
        BY DEF ReviewInv, TypeOK, Cursor!TypeOK
      <3>2. routing_requests[f] \in Request
        BY <3>1
      <3>3. routing_requests[f].id = id
        BY <1>1 DEF IsFirstRequest
      <3> QED BY <3>1, <3>2, <3>3 DEF Request
    <2>2. id \notin Elems(clarifications)
      <3>1. SUFFICES ASSUME id \in Elems(clarifications) PROVE FALSE
        OBVIOUS
      <3>2. PICK g \in DOMAIN routing_requests :
                IsFirstRequest(routing_requests, id, g) /\ routing_requests[g].status = "answered"
        BY <3>1 DEF ReviewInv, AnswersRecorded, RecordedIn
      <3>3. f = g
        BY <1>1, <2>1, <3>2 DEF IsFirstRequest
      <3> QED BY <1>3, <3>2, <3>3
    <2>3. ~ \E j \in DOMAIN routing_ready : routing_ready[j] = id
      BY <2>2 DEF ReviewInv, ReadyAnswered, Elems
    <2>4. routing_ready' = Append(routing_ready, id) /\ clarifications' = Append(clarifications, id)
      BY <1>1, <1>3, <2>3 DEF Scheduled
    <2> HIDE DEF id
    <2>5. /\ routing_ready' \in Seq(ClarificationIds) /\ routing_ready' # <<>>
          /\ clarifications' \in Seq(ClarificationIds)
      BY <2>1, <2>4
    <2>6. /\ Elems(routing_ready') = Elems(routing_ready) \cup {id}
          /\ Elems(clarifications') = Elems(clarifications) \cup {id}
      <3>1. \A s \in Seq(ClarificationIds) : Elems(Append(s, id)) = Elems(s) \cup {id}
        <4>1. SUFFICES ASSUME NEW s \in Seq(ClarificationIds)
                       PROVE  Elems(Append(s, id)) = Elems(s) \cup {id}
          OBVIOUS
        <4>2. /\ DOMAIN s = 1..Len(s) /\ Len(s) \in Nat
              /\ DOMAIN Append(s, id) = 1..(Len(s) + 1)
              /\ \A j \in 1..Len(s) : Append(s, id)[j] = s[j]
              /\ Append(s, id)[Len(s) + 1] = id
          BY <2>1
        <4> QED BY <4>2 DEF Elems
      <3> QED BY <2>1, <2>4, <3>1
    <2>7. routing_requests' = [routing_requests EXCEPT ![f].status = "answered"]
      BY <1>1, <1>3
    <2>8. /\ routing_requests' \in Seq(Request)
          /\ DOMAIN routing_requests' = DOMAIN routing_requests
          /\ \A j \in DOMAIN routing_requests : routing_requests'[j].id = routing_requests[j].id
          /\ routing_requests'[f].status = "answered"
          /\ \A j \in DOMAIN routing_requests : j # f => routing_requests'[j] = routing_requests[j]
      <3> DEFINE marked == [routing_requests[f] EXCEPT !.status = "answered"]
      <3>1. marked \in Request /\ marked.id = routing_requests[f].id /\ marked.status = "answered"
        BY <2>1 DEF Request
      <3>2. routing_requests' = [routing_requests EXCEPT ![f] = marked]
        BY <2>7
      <3> HIDE DEF marked
      <3>3. f \in 1..Len(routing_requests) /\ DOMAIN routing_requests = 1..Len(routing_requests)
        BY <2>1, LenProperties
      <3> QED BY <2>1, <3>1, <3>2, <3>3, ExceptSeq
    <2>9. RecordedIn(routing_requests)'
      <3>1. SUFFICES ASSUME NEW a \in Elems(clarifications')
                     PROVE  \E j \in DOMAIN routing_requests' :
                                /\ IsFirstRequest(routing_requests', a, j)
                                /\ routing_requests'[j].status = "answered"
        BY DEF RecordedIn, IsFirstRequest
      <3>2. CASE a = id
        BY <1>1, <2>8, <3>2 DEF IsFirstRequest, id
      <3>3. CASE a # id
        <4>1. a \in Elems(clarifications)
          BY <2>6, <3>1, <3>3
        <4>2. PICK g \in DOMAIN routing_requests :
                  IsFirstRequest(routing_requests, a, g) /\ routing_requests[g].status = "answered"
          BY <4>1 DEF ReviewInv, AnswersRecorded, RecordedIn
        <4> QED BY <1>3, <2>8, <4>2 DEF IsFirstRequest
      <3> QED BY <3>2, <3>3
    <2> QED BY <1>1, <1>3, <2>1, <2>2, <2>4, <2>5, <2>6, <2>8, <2>9 DEF IngestEffect
  <1> QED BY <1>2, <1>3

LEMMA IngestAnswerInv == ReviewInv /\ IngestAnswer => ReviewInv'
  <1> SUFFICES ASSUME ReviewInv, IngestAnswer PROVE ReviewInv'
    OBVIOUS
  <1>1. /\ pc = "ingest"
        /\ UNCHANGED <<inputs, cursorVars, resumed, budgetVars, outputVars, pc, run_status,
                       reviewer_results, stage_reviewers, seen_raw_keys, result>>
    BY DEF IngestAnswer
  <1>2. IngestEffect
    BY IngestStep
  <1> USE DEF ReviewInv, inputs, cursorVars, budgetVars, outputVars
  <1>3. TypeOK'
    <2>1. CASE raised' = "request_not_pending"
               /\ UNCHANGED <<clarifications, routing_ready, routing_requests, blocking, answered>>
      BY <1>1, <2>1, Constants DEF TypeOK, Cursor!TypeOK
    <2>2. CASE /\ UNCHANGED raised /\ blocking' \subseteq blocking /\ answered' = TRUE
               /\ routing_ready' \in Seq(ClarificationIds)
               /\ clarifications' \in Seq(ClarificationIds)
               /\ routing_requests' \in Seq(Request)
      BY <1>1, <2>2 DEF TypeOK, Cursor!TypeOK
    <2> QED BY <1>2, <2>1, <2>2 DEF IngestEffect
  <1>4. InputsTyped' /\ StageActive' /\ GatePassed'
    BY <1>1 DEF InputsTyped, StageActive, InStage, GatePassed
  <1>5. ReadyCopied'
    BY <1>1, <1>2 DEF IngestEffect, ReadyCopied, InStage
  <1>6. ReadyAnswered'
    BY <1>1, <1>2 DEF IngestEffect, ReadyAnswered
  <1>7. AnswersRecorded'
    BY <1>1, <1>2 DEF IngestEffect, AnswersRecorded, RecordedIn
  <1> QED BY <1>3, <1>4, <1>5, <1>6, <1>7

LEMMA FinishIngestInv == ReviewInv /\ FinishIngest => ReviewInv'
  <1> SUFFICES ASSUME ReviewInv, FinishIngest PROVE ReviewInv'
    OBVIOUS
  <1> USE DEF ReviewInv, inputs, budgetVars, clarificationVars
  <1>1. CASE answered
    <2>1. /\ requests' = routing_requests /\ ready_clarification_ids' = routing_ready
          /\ pc = "ingest" /\ pc' = "loop" /\ blocking' = {}
      BY <1>1 DEF FinishIngest, Continues, RequestsAfterIngest
    <2>2. TypeOK'
      BY <2>1 DEF FinishIngest, TypeOK, Cursor!TypeOK
    <2> QED
      BY <1>1, <2>1, <2>2
      DEF FinishIngest, InputsTyped, StageActive, ReadyCopied, InStage, ReadyAnswered,
          AnswersRecorded, RecordedIn, GatePassed
  <1>2. CASE ~answered
    <2>1. UNCHANGED <<requests, ready_clarification_ids>> /\ pc = "ingest" /\ pc' = "stop"
      BY <1>2 DEF FinishIngest, Continues
    <2>2. TypeOK'
      BY <2>1 DEF FinishIngest, TypeOK, Cursor!TypeOK
    <2> QED
      BY <1>2, <2>1, <2>2
      DEF FinishIngest, InputsTyped, StageActive, ReadyCopied, InStage, ReadyAnswered,
          AnswersRecorded, RecordedIn, GatePassed
  <1> QED BY <1>1, <1>2

LEMMA EndInv == ReviewInv /\ (CheckRawOutputs \/ EmitResult) => ReviewInv'
  <1> SUFFICES ASSUME ReviewInv, CheckRawOutputs \/ EmitResult PROVE ReviewInv'
    OBVIOUS
  <1>1. /\ pc \in {"check", "stop", "core"} /\ pc' \in {"check", "stop", "core", "done"}
        /\ UNCHANGED <<inputs, cursorVars, clarificationVars, budgetVars, outputVars,
                       run_status, reviewer_results, stage_reviewers, blocking, answered,
                       seen_raw_keys>>
        /\ raised' \in {raised, "raw_not_selected", "duplicate_item_id"}
        /\ result' = result \/ result' \in
               [post_enabled : BOOLEAN, candidate : BOOLEAN,
                verdict : {"needs_clarification", "no_findings", "request_changes", "comment"}]
    <2>1. CASE CheckRawOutputs
      BY <2>1 DEF CheckRawOutputs
    <2>2. CASE EmitResult
      <3>1. PostEnabled \in BOOLEAN
        BY DEF PostEnabled
      <3>2. LocalVerdict \in {"needs_clarification", "no_findings", "request_changes", "comment"}
        BY DEF LocalVerdict
      <3> QED BY <2>2, <3>1, <3>2 DEF EmitResult
    <2> QED BY <2>1, <2>2
  <1> USE DEF ReviewInv, inputs, cursorVars, budgetVars, outputVars, clarificationVars
  <1>2. TypeOK'
    BY <1>1, Constants DEF TypeOK, Cursor!TypeOK
  <1> QED
    BY <1>1, <1>2
    DEF InputsTyped, StageActive, ReadyCopied, InStage, ReadyAnswered, AnswersRecorded,
        RecordedIn, GatePassed

LEMMA ReviewInvNext == ReviewInv /\ [Next]_vars => ReviewInv'
  <1>1. ReviewInv /\ UNCHANGED vars => ReviewInv'
    BY DEF ReviewInv, vars, inputs, cursorVars, budgetVars, outputVars, clarificationVars,
           TypeOK, Cursor!TypeOK, InputsTyped, StageActive, ReadyCopied, InStage, ReadyAnswered,
           AnswersRecorded, RecordedIn, GatePassed, Blocking, Candidates
  <1> QED
    BY <1>1, AdvanceLoopInv, LeaveLoopInv, SelectReviewersInv, StartReviewerInv,
       FinishReviewerInv, GateInv, SkipUnansweredInv, IngestAnswerInv, FinishIngestInv, EndInv
    DEF Next

LEMMA ReviewInvAlways == Spec => []ReviewInv
  BY ReviewInvInit, ReviewInvNext, PTL DEF Spec

-----------------------------------------------------------------------------
(***************************************************************************)
(* Every variable of the loop keeps its type (runner.py:398-673).          *)
(***************************************************************************)
THEOREM ReviewTypeCorrect == Spec => []TypeOK
  <1>1. ReviewInv => TypeOK
    BY DEF ReviewInv
  <1> QED BY <1>1, ReviewInvAlways, PTL

(***************************************************************************)
(* The resume of a clarification always finds the request it resumes, so   *)
(* routing never raises for one (routing.py:98-137).                       *)
(***************************************************************************)
THEOREM ResumeTargetAlwaysKnown == Spec => []ResumeTargetKnown
  <1>1. ReviewInv => ResumeTargetKnown
    <2> SUFFICES ASSUME ReviewInv,
                        NEW id \in Elems(ready_clarification_ids)
                                      \cup ({active_clarification_id} \ {None})
                 PROVE  \E i \in DOMAIN routing_requests :
                            routing_requests[i].id = id /\ routing_requests[i].status = "answered"
      BY DEF ResumeTargetKnown, Elems, Cursor!Elems
    <2>1. id \in Elems(clarifications)
      BY DEF ReviewInv, ReadyAnswered
    <2> QED BY <2>1 DEF ReviewInv, AnswersRecorded, RecordedIn, IsFirstRequest
  <1> QED BY <1>1, ReviewInvAlways, PTL

(***************************************************************************)
(* No stage is completed while a blocking request is pending               *)
(* (runner.py:628-640).                                                    *)
(***************************************************************************)
THEOREM BlockedStageNeverCompleted == Spec => NoStageCompletedWhileBlocked
  <1>1. ReviewInv /\ [Next]_vars =>
            [completed_stages' # completed_stages => Blocking(requests) = {}]_vars
    <2> SUFFICES ASSUME ReviewInv, Next, completed_stages' # completed_stages
                 PROVE  Blocking(requests) = {}
      OBVIOUS
    <2>1. AdvanceLoop \/ LeaveLoop
      BY DEF Next, SelectReviewers, StartReviewer, FinishReviewer, PassGate, BlockGate,
             SkipUnanswered, IngestAnswer, FinishIngest, CheckRawOutputs, EmitResult, cursorVars
    <2>2. pc = "loop" /\ Cursor!AdvanceOrFinishStage
      BY <2>1 DEF AdvanceLoop, LeaveLoop
    <2>3. Cursor!CompleteStage
      BY <2>2 DEF Cursor!AdvanceOrFinishStage, Cursor!StartFirstStage, Cursor!StayFinished,
                  Cursor!RestoreSuspendedStage, Cursor!EnterClarificationReview, Cursor!vars,
                  Cursor!position
    <2> QED BY <2>2, <2>3 DEF ReviewInv, GatePassed, Cursor!CompleteStage
  <1> QED BY <1>1, ReviewInvAlways, PTL DEF Spec, NoStageCompletedWhileBlocked

\* Each step of the loop is an operation of the cursor's promise, or none.
LEMMA LoopStep == ReviewInv /\ [Next]_vars => [Promise!Next]_(Promise!vars)
  <1> SUFFICES ASSUME ReviewInv, [Next]_vars PROVE [Promise!Next]_(Promise!vars)
    OBVIOUS
  <1> USE DEF Promise!vars, Promise!position
  <1>1. CASE AdvanceLoop \/ LeaveLoop
    <2>1. pc # "ingest" /\ pc' # "ingest" /\ Cursor!AdvanceOrFinishStage
      BY <1>1 DEF AdvanceLoop, LeaveLoop
    <2> QED
      BY <2>1
      DEF Promise!Next, Promise!AdvanceOrFinishStage, Cursor!AdvanceOrFinishStage,
          Cursor!StartFirstStage, Promise!StartFirstStage,
          Cursor!StayFinished, Promise!StayFinished, Cursor!vars, Cursor!position,
          Cursor!RestoreSuspendedStage, Promise!RestoreSuspendedStage,
          Cursor!EnterClarificationReview, Promise!EnterClarificationReview,
          Cursor!CompleteStage, Promise!CompleteStage,
          Cursor!NormalStages, Promise!NormalStages,
          Cursor!ClarificationReview, Promise!ClarificationReview
  <1>2. CASE SelectReviewers \/ StartReviewer \/ PassGate \/ SkipUnanswered
                 \/ CheckRawOutputs \/ EmitResult
    BY <1>2 DEF SelectReviewers, StartReviewer, PassGate, SkipUnanswered, CheckRawOutputs,
                EmitResult, cursorVars, clarificationVars
  <1>3. CASE FinishReviewer
    <2>1. pc # "ingest" /\ pc' # "ingest" /\ UNCHANGED <<cursorVars, clarificationVars>>
      BY <1>3 DEF FinishReviewer, RejectMissingRawOutput, RejectRequiredFailure
    <2> QED BY <2>1 DEF cursorVars, clarificationVars
  <1>4. CASE BlockGate
    BY <1>4 DEF BlockGate, cursorVars, ReviewInv, ReadyCopied, InStage
  <1>5. CASE IngestAnswer
    <2>1. /\ pc = "ingest" /\ pc' = "ingest" /\ UNCHANGED <<cursorVars, resumed>>
      BY <1>5 DEF IngestAnswer
    <2>2. CASE UNCHANGED <<clarifications, routing_ready>>
      BY <2>1, <2>2 DEF cursorVars
    <2>3. CASE \E id \in ClarificationIds :
                   /\ id \notin Elems(clarifications)
                   /\ clarifications' = Append(clarifications, id)
                   /\ routing_ready' = Append(routing_ready, id)
      <3>1. PICK id \in ClarificationIds :
                /\ id \notin Elems(clarifications) /\ id \notin Elems(routing_ready)
                /\ clarifications' = Append(clarifications, id)
                /\ routing_ready' = Append(routing_ready, id)
        BY <2>3 DEF ReviewInv, ReadyAnswered
      <3>2. Promise!IngestAnswer(id)
        BY <2>1, <3>1 DEF Promise!IngestAnswer, Promise!Elems, Elems, cursorVars
      <3> QED BY <3>2 DEF Promise!Next
    <2> QED BY <1>5, <2>2, <2>3, IngestStep DEF IngestEffect
  <1>6. CASE FinishIngest
    <2>1. CASE answered
      BY <1>6, <2>1 DEF FinishIngest, Continues, clarificationVars
    <2>2. CASE ~answered
      BY <1>6, <2>2 DEF FinishIngest, Continues, clarificationVars, ReviewInv, ReadyCopied
    <2> QED BY <2>1, <2>2
  <1>7. CASE UNCHANGED vars
    BY <1>7 DEF vars, cursorVars, clarificationVars
  <1> QED BY <1>1, <1>2, <1>3, <1>4, <1>5, <1>6, <1>7 DEF Next

(***************************************************************************)
(* The loop implements the cursor's promise: whatever reviewers output and *)
(* whatever is answered, each of its steps is an operation of StageCursor, *)
(* or none (runner.py:450-640, state.py:127-177, clarification.py:48-63).  *)
(***************************************************************************)
THEOREM LoopImplementsCursor == Spec => CursorPromise
  <1>1. Init => Promise!Init
    BY DEF Init, Cursor!Init, Promise!Init, Cursor!NormalReviewStages,
           Promise!NormalReviewStages
  <1> QED BY <1>1, LoopStep, ReviewInvAlways, PTL DEF Spec, CursorPromise, Promise!Spec

-----------------------------------------------------------------------------
(***************************************************************************)
(* What is proved of the cursor (StageCursorProofs) holds of the loop.     *)
(***************************************************************************)
CursorProofs == INSTANCE StageCursorProofs WITH
    ready_clarification_ids <-
        IF pc = "ingest" THEN routing_ready ELSE ready_clarification_ids

CursorFacts == CursorProofs!CursorInv /\ CursorProofs!ResumeOneShotFifo

LEMMA CursorAssumption == None \notin CursorProofs!ReviewStage \cup ClarificationIds
  BY Constants DEF CursorProofs!ReviewStage, CursorProofs!NormalStages, ReviewStage,
     CursorProofs!ClarificationReview, NormalStages, ClarificationReview,
     Cursor!ReviewStage, Cursor!NormalStages, Cursor!ClarificationReview

LEMMA CursorFactsNext == ReviewInv /\ CursorFacts /\ [Next]_vars => CursorFacts'
  <1> SUFFICES ASSUME ReviewInv, CursorFacts, [Next]_vars PROVE CursorFacts'
    OBVIOUS
  <1>1. [CursorProofs!Next]_(CursorProofs!vars)
    BY LoopStep
    DEF Promise!Next, CursorProofs!Next, Promise!vars, CursorProofs!vars, Promise!position,
        CursorProofs!position, Promise!AdvanceOrFinishStage, CursorProofs!AdvanceOrFinishStage,
        Promise!StartFirstStage, CursorProofs!StartFirstStage,
        Promise!StayFinished, CursorProofs!StayFinished,
        Promise!RestoreSuspendedStage, CursorProofs!RestoreSuspendedStage,
        Promise!EnterClarificationReview, CursorProofs!EnterClarificationReview,
        Promise!CompleteStage, CursorProofs!CompleteStage,
        Promise!NormalStages, CursorProofs!NormalStages,
        Promise!ClarificationReview, CursorProofs!ClarificationReview,
        Promise!IngestAnswer, CursorProofs!IngestAnswer, Promise!Elems, CursorProofs!Elems
  <1> QED
    BY <1>1, CursorAssumption, CursorProofs!CursorInvNext, CursorProofs!ResumeInvNext
    DEF CursorFacts

LEMMA CursorFactsAlways == Spec => []CursorFacts
  <1>1. Init => CursorFacts
    <2> SUFFICES ASSUME Init PROVE CursorFacts
      OBVIOUS
    <2>1. CursorProofs!Init
      BY DEF Init, Cursor!Init, CursorProofs!Init, Cursor!NormalReviewStages,
             CursorProofs!NormalReviewStages
    <2>2. CursorProofs!ResumeOneShotFifo
      BY <2>1 DEF CursorProofs!Init, CursorProofs!ResumeOneShotFifo
    <2> QED BY <2>1, <2>2, CursorAssumption, CursorProofs!CursorInvInit DEF CursorFacts
  <1> QED BY <1>1, CursorFactsNext, ReviewInvAlways, PTL DEF Spec

-----------------------------------------------------------------------------
(***************************************************************************)
(* What the run keys, the results and the notes say of each other.  An     *)
(* open run is one of a retained reviewer of the current stage that has    *)
(* not been executed yet; every other run has settled for good.            *)
(***************************************************************************)
RunsOf(r) ==
    {k \in DOMAIN run_status : /\ k.reviewer = r /\ k.stage = active_stage
                               /\ k.clarification_id = active_clarification_id}

Settled(k) == run_status[k] \in {"completed", "failed", "skipped"}

Open(k) == pc \in {"run", "running"} /\ \E i \in stage_reviewers : k \in RunsOf(Candidates[i])

\* A run is of the clarification, or of the stage, it was selected in, and
\* nothing was ever selected in the visit of a stage that is about to select.
RunsPlaced ==
    /\ active_stage = ClarificationReview => active_clarification_id \in Elems(resumed)
    /\ \A k \in DOMAIN run_status :
           \/ k.stage = ClarificationReview /\ k.clarification_id \in Elems(resumed)
           \/ /\ k.stage \in NormalStages /\ k.clarification_id = None
              /\ k.stage \in Elems(completed_stages) \cup {active_stage, suspended_stage}
    /\ pc = "select" =>
           \A k \in DOMAIN run_status :
               ~ (k.stage = active_stage /\ k.clarification_id = active_clarification_id)

\* The retained reviewers are selected or running, in their first attempt.
RunsSettled ==
    /\ \A k \in DOMAIN run_status : Settled(k) \/ Open(k)
    /\ pc \notin {"run", "running"} => stage_reviewers = {}
    /\ raised = None /\ pc \in {"run", "running"} =>
           \A i \in stage_reviewers :
               /\ Key(Candidates[i], 1) \in DOMAIN run_status
               /\ \A k \in RunsOf(Candidates[i]) :
                      k.attempt = 1 /\ run_status[k] \in {"selected", "running"}

\* What was executed has settled, until an error ends the run.
ResultsSettled ==
    /\ raised = None =>
           \A i \in DOMAIN reviewer_results :
               /\ reviewer_results[i] \in DOMAIN run_status
               /\ run_status[reviewer_results[i]] \in {"completed", "failed"}
    /\ NoReviewRepeated

Passed(k) ==
    \E n \in 1..MaxAttempts :
        LET last == [k EXCEPT !.attempt = n]
        IN  last \in DOMAIN run_status /\ run_status[last] \in {"completed", "skipped"}

\* A required reviewer that did not pass has left an error behind.
FailuresKept ==
    \A k \in DOMAIN run_status :
        k.reviewer \in Required => Passed(k) \/ Open(k) \/ errors # <<>> \/ raised # None

Routed(s) ==
    \A j \in DOMAIN StageSelection[s] :
        \E k \in DOMAIN run_status : k.reviewer = StageSelection[s][j] /\ k.stage = s

\* Every reviewer of a stage that was entered has been given a run.
StagesRouted ==
    \A s \in NormalStages :
        \/ s \in Elems(completed_stages) \cup {suspended_stage}
        \/ s = active_stage /\ pc # "select"
        => Routed(s)

\* A note is written for a run that failed or was skipped.
NotesExplained ==
    \A n \in Note :
        /\ local_notes[n] >= 1 =>
               \E k \in DOMAIN run_status :
                   /\ k.reviewer = n.reviewer /\ k.stage = n.stage
                   /\ run_status[k] \in {"failed", "skipped"}
        /\ local_notes[n] >= 2 => RepeatsANote(n.reviewer)

FirstAttempts(results) == {i \in DOMAIN results : results[i].attempt = 1}

\* Each retained reviewer still has all of its attempts to spend.
BudgetKept ==
    /\ planned_live_calls <= MaxLiveCalls /\ retained_reviewer_count <= MaxReviewers
    /\ Cardinality(FirstAttempts(reviewer_results)) <= retained_reviewer_count
    /\ Live => Len(reviewer_results) <= planned_live_calls
    /\ raised = None =>
           /\ Cardinality(FirstAttempts(reviewer_results)) + Cardinality(stage_reviewers)
                  <= retained_reviewer_count
           /\ Live => Len(reviewer_results) + Cardinality(stage_reviewers) * MaxAttempts
                          <= planned_live_calls

RunsInv ==
    /\ RunsPlaced /\ RunsSettled /\ ResultsSettled /\ FailuresKept /\ StagesRouted
    /\ NotesExplained /\ BudgetKept

Late(id) == \E i \in DOMAIN requests : requests[i].id = id /\ requests[i].stage = "logic_review"

\* The routing state's copy of the requests differs in their status only.
RequestsCopied ==
    pc = "ingest" =>
        /\ DOMAIN routing_requests = DOMAIN requests
        /\ \A i \in DOMAIN requests :
               /\ routing_requests[i].id = requests[i].id
               /\ routing_requests[i].stage = requests[i].stage

AnswersKnown ==
    /\ \A i \in DOMAIN requests :
           requests[i].status = "answered" => requests[i].id \in Elems(clarifications)
    /\ \A i \in DOMAIN routing_requests :
           routing_requests[i].status = "answered" =>
               routing_requests[i].id \in Elems(clarifications)

\* The queue is empty from the selection of the last stage on: what blocks
\* then, and what is answered then, was raised in that stage.
LastStage ==
    /\ InStage /\ stage_queue = <<>> =>
           /\ active_stage = "logic_review" /\ ready_clarification_ids = <<>>
           /\ \A i \in Blocking(requests) : requests[i].stage = "logic_review"
    /\ pc = "ingest" /\ stage_queue = <<>> =>
           \A i \in blocking : requests[i].stage = "logic_review"
    /\ pc \in {"loop", "ingest"} /\ stage_queue = <<>> =>
           \A id \in Elems(routing_ready) : Late(id)
    /\ pc \in {"ingest", "stop"} => Blocking(requests) # {}

AnswersFollowed ==
    IF pc \in {"check", "stop", "core", "done"}
    THEN Blocking(requests) # {} \/ \A id \in Elems(clarifications) : ResumeRan(id) \/ Late(id)
    ELSE \A id \in Elems(clarifications) :
             \/ ResumeRan(id) \/ id \in Elems(routing_ready)
             \/ pc = "select" /\ id = active_clarification_id

Emitted ==
    /\ pc = "done" => raised = None
    /\ PostingEnabled =>
           errors = <<>> /\ Blocking(requests) = {} /\ DistinctIds(requests)
    /\ raised = "duplicate_item_id" =>
           ~ (DistinctIds(findings) /\ DistinctIds(requests) /\ DistinctNotes)

AnswersInv == RequestsCopied /\ AnswersKnown /\ LastStage /\ AnswersFollowed

-----------------------------------------------------------------------------
(***************************************************************************)
(* Facts about the cursor, the run keys and the budget.                    *)
(***************************************************************************)
LEMMA CursorPlaces ==
    ASSUME ReviewInv, CursorFacts
    PROVE  /\ active_stage \notin Elems(completed_stages)
           /\ Elems(completed_stages) \subseteq NormalStages
           /\ active_stage = ClarificationReview => suspended_stage \in NormalStages
           /\ active_stage # ClarificationReview =>
                  suspended_stage = None /\ active_clarification_id = None
           /\ active_stage = None /\ stage_queue # <<>> =>
                  completed_stages = <<>> /\ Tail(stage_queue) # <<>>
           /\ active_stage \in NormalStages /\ stage_queue = <<>> =>
                  active_stage = "logic_review"
  <1> USE Constants DEF NormalStages, ClarificationReview, Cursor!NormalStages,
          Cursor!ClarificationReview, CursorProofs!ClarificationReview, CursorProofs!NormalStages
  <1>1. CursorProofs!Place /\ CursorProofs!ClarificationFieldsValid
    BY DEF CursorFacts, CursorProofs!CursorInv
  <1>2. /\ active_stage \in ReviewStage \cup {None}
        /\ suspended_stage \in NormalStages \cup {None}
    BY DEF ReviewInv, TypeOK, Cursor!TypeOK, ReviewStage
  <1>3. /\ active_stage = ClarificationReview => suspended_stage \in NormalStages
        /\ active_stage # ClarificationReview =>
               suspended_stage = None /\ active_clarification_id = None
    BY <1>1, <1>2 DEF CursorProofs!ClarificationFieldsValid
  <1> USE DEF CursorProofs!CurrentStage, CursorProofs!Triage, CursorProofs!Specialized,
              CursorProofs!Logic, Elems
  <1>4. CASE active_stage = None /\ completed_stages = <<>>
             /\ stage_queue = <<"initial_triage", "specialized_review", "logic_review">>
    BY <1>3, <1>4
  <1>5. CASE CursorProofs!CurrentStage = "initial_triage" /\ completed_stages = <<>>
             /\ stage_queue = <<"specialized_review", "logic_review">>
    BY <1>2, <1>3, <1>5
  <1>6. CASE CursorProofs!CurrentStage = "specialized_review"
             /\ completed_stages = <<"initial_triage">>
             /\ stage_queue = <<"logic_review">>
    BY <1>2, <1>3, <1>6
  <1>7. CASE CursorProofs!CurrentStage = "logic_review"
             /\ completed_stages = <<"initial_triage", "specialized_review">>
    BY <1>2, <1>3, <1>7
  <1>8. CASE active_stage = None /\ stage_queue = <<>>
             /\ completed_stages = <<"initial_triage", "specialized_review", "logic_review">>
    BY <1>3, <1>8
  <1> QED BY <1>1, <1>4, <1>5, <1>6, <1>7, <1>8 DEF CursorProofs!Place

\* A clarification that is ready has not been resumed before.
LEMMA ReadyIsFresh ==
    ASSUME ReviewInv, CursorFacts, pc = "loop", ready_clarification_ids # <<>>
    PROVE  Head(ready_clarification_ids) \notin Elems(resumed)
  <1>1. /\ resumed \o ready_clarification_ids = clarifications
        /\ \A i, j \in DOMAIN clarifications : clarifications[i] = clarifications[j] => i = j
    BY DEF CursorFacts, CursorProofs!ResumeOneShotFifo
  <1>2. /\ resumed \in Seq(ClarificationIds) /\ ready_clarification_ids \in Seq(ClarificationIds)
    BY DEF ReviewInv, TypeOK, Cursor!TypeOK
  <1>3. /\ Len(resumed) \in Nat /\ DOMAIN resumed = 1..Len(resumed)
        /\ Len(resumed) + 1 \in DOMAIN clarifications
        /\ clarifications[Len(resumed) + 1] = Head(ready_clarification_ids)
        /\ \A i \in DOMAIN resumed : i \in DOMAIN clarifications /\ clarifications[i] = resumed[i]
    BY <1>1, <1>2
  <1> QED BY <1>1, <1>3 DEF Elems

LEMMA KeyFields ==
    \A r, n : /\ Key(r, n).reviewer = r /\ Key(r, n).stage = active_stage
              /\ Key(r, n).attempt = n
              /\ Key(r, n).clarification_id = active_clarification_id
  BY DEF Key

\* A run key is what its four fields say.
LEMMA KeyEqual ==
    ASSUME NEW k \in RunKey, k.stage = active_stage,
           k.clarification_id = active_clarification_id
    PROVE  k = Key(k.reviewer, k.attempt)
  BY DEF RunKey, Key

LEMMA StatusKeys == ReviewInv => DOMAIN run_status \subseteq RunKey
  BY DEF ReviewInv, TypeOK

LEMMA CandidatesDistinct ==
    ASSUME ReviewInv, InStage, NEW i \in DOMAIN Candidates, NEW j \in DOMAIN Candidates,
           Candidates[i] = Candidates[j]
    PROVE  i = j
  <1>1. active_stage \in ReviewStage
    BY DEF ReviewInv, StageActive
  <1>2. CASE active_stage = ClarificationReview
    BY <1>2 DEF Candidates
  <1>3. CASE active_stage # ClarificationReview
    BY <1>1, <1>3, ReviewStagesAssumption, Constants DEF Candidates
  <1> QED BY <1>2, <1>3

LEMMA LastOf ==
    ASSUME NEW u \in Nat, NEW S \in SUBSET (1..u), S # {}
    PROVE  \E m \in S : \A i \in S : i <= m
  <1> DEFINE T == {u - i : i \in S}
             R == {ss \in Nat \X Nat : ss[1] < ss[2]}
  <1>1. IsWellFoundedOn(R, Nat)
    BY NatLessThanWellFounded DEF OpToRel
  <1>2. \A i \in S : i \in Nat /\ u - i \in Nat
    OBVIOUS
  <1>3. T \subseteq Nat /\ T # {}
    BY <1>2
  <1>4. \E t \in T : \A y \in T : ~ (<<y, t>> \in R)
    <2> HIDE DEF R, T
    <2> QED BY <1>1, <1>3, WFMin
  <1>5. PICK m \in S : \A y \in T : ~ (<<y, u - m>> \in R)
    BY <1>4
  <1>6. ASSUME NEW i \in S PROVE i <= m
    <2>1. ~ (<<u - i, u - m>> \in R) /\ <<u - i, u - m>> \in Nat \X Nat
      BY <1>2, <1>5
    <2>2. ~ (u - i < u - m)
      BY <2>1
    <2> QED BY <1>2, <2>2
  <1> QED BY <1>6

LEMMA ProductMonotone == \A a, b, c \in Nat : a <= b => a * c <= b * c
  <1> SUFFICES ASSUME NEW a \in Nat, NEW b \in Nat, NEW c \in Nat, a <= b
               PROVE  a * c <= b * c
    OBVIOUS
  <1>1. PICK d \in Nat : b = a + d
    <2>1. b - a \in Nat /\ b = a + (b - a)
      OBVIOUS
    <2> QED BY <2>1
  <1>2. b * c = a * c + d * c /\ d * c \in Nat /\ a * c \in Nat
    BY <1>1
  <1> QED BY <1>2

\* The reviewers that fit are as many as the budget still admits.
LEMMA FittingFits ==
    ASSUME ReviewInv, NEW u \in Nat, NEW S \in SUBSET (1..u),
           planned_live_calls <= MaxLiveCalls, retained_reviewer_count <= MaxReviewers
    PROVE  /\ Fitting(S) \subseteq S /\ IsFiniteSet(Fitting(S))
           /\ Cardinality(Fitting(S)) \in Nat
           /\ retained_reviewer_count + Cardinality(Fitting(S)) <= MaxReviewers
           /\ planned_live_calls + Cardinality(Fitting(S)) * LiveCallCost <= MaxLiveCalls
  <1> USE Constants
  <1>1. retained_reviewer_count \in Nat /\ planned_live_calls \in Nat
    BY DEF ReviewInv, TypeOK
  <1>2. IsFiniteSet(S) /\ \A T \in SUBSET S : IsFiniteSet(T) /\ Cardinality(T) \in Nat
    <2>1. IsFiniteSet(1..u)
      BY FS_Interval
    <2> QED BY <2>1, FS_Subset, FS_CardinalityType
  <1>3. Fitting(S) \subseteq S
    BY DEF Fitting
  <1>4. CASE Fitting(S) = {}
    BY <1>1, <1>2, <1>4, FS_EmptySet
  <1>5. CASE Fitting(S) # {}
    <2>1. PICK m \in Fitting(S) : \A i \in Fitting(S) : i <= m
      BY <1>3, <1>5, LastOf
    <2> DEFINE below == {j \in S : j <= m}
               rank == Cardinality(below)
               fits == Cardinality(Fitting(S))
    <2>2. /\ retained_reviewer_count + rank <= MaxReviewers
          /\ planned_live_calls + rank * LiveCallCost <= MaxLiveCalls
      BY <2>1 DEF Fitting
    <2>3. Fitting(S) \subseteq below /\ below \in SUBSET S
      BY <1>3, <2>1
    <2>4. fits <= rank /\ fits \in Nat /\ rank \in Nat
      BY <1>2, <1>3, <2>3, FS_Subset
    <2> HIDE DEF rank, fits
    <2>5. fits * LiveCallCost <= rank * LiveCallCost
      BY <2>4, ProductMonotone
    <2>6. fits * LiveCallCost \in Nat /\ rank * LiveCallCost \in Nat
      BY <2>4
    <2>7. /\ retained_reviewer_count + fits <= MaxReviewers
          /\ planned_live_calls + fits * LiveCallCost <= MaxLiveCalls
      BY <1>1, <2>2, <2>4, <2>5, <2>6
    <2> QED BY <1>2, <1>3, <2>4, <2>7 DEF fits
  <1> QED BY <1>2, <1>3, <1>4, <1>5

-----------------------------------------------------------------------------
(***************************************************************************)
(* What selecting and executing reviewers does to the run keys.            *)
(***************************************************************************)
\* Nothing was selected before in this visit of the stage, so each candidate
\* gets a run: those that fit the budget are retained, the others skipped.
SelectEffect ==
    LET deferred == DOMAIN Candidates \ stage_reviewers'
    IN  /\ stage_reviewers' = Fitting(DOMAIN Candidates)
        /\ DOMAIN run_status' = DOMAIN run_status \cup KeysOf(DOMAIN Candidates)
        /\ \A k \in DOMAIN run_status :
               k \notin KeysOf(DOMAIN Candidates) /\ run_status'[k] = run_status[k]
        /\ \A i \in stage_reviewers' : run_status'[Key(Candidates[i], 1)] = "selected"
        /\ \A i \in deferred : run_status'[Key(Candidates[i], 1)] = "skipped"
        /\ local_notes' = WithNotes(DeferredNotes(deferred, retained_reviewer_count'))
        /\ retained_reviewer_count' = retained_reviewer_count + Cardinality(stage_reviewers')
        /\ planned_live_calls' =
               planned_live_calls + Cardinality(stage_reviewers') * LiveCallCost
        /\ \/ pc' = "run" /\ raised' = None
           \/ /\ pc' = "select" /\ raised' # None /\ raised' # "duplicate_item_id"
              /\ DOMAIN Candidates = {} /\ active_stage # ClarificationReview

LEMMA SelectReviewersEffect ==
    ASSUME ReviewInv, RunsInv, SelectReviewers
    PROVE  SelectEffect /\ InStageUnchanged /\ UNCHANGED <<findings, requests, errors, reviewer_results>>
  <1> DEFINE all == DOMAIN Candidates
             selected == {i \in all : ~Suppressed(Candidates[i])}
             retained == Fitting(selected)
             deferred == selected \ retained
             count == retained_reviewer_count + Cardinality(retained)
             newKeys == KeysOf(selected) \ DOMAIN run_status
             marked == SetStatus(run_status, newKeys, "selected")
  <1>1. pc = "select" /\ raised = None /\ InStage
    BY DEF SelectReviewers, InStage
  <1>2. /\ run_status' = SetStatus(marked, SkippedKeys(deferred), "skipped")
        /\ local_notes' = WithNotes(DeferredNotes(deferred, count))
        /\ retained_reviewer_count' = count
        /\ planned_live_calls' = planned_live_calls + Cardinality(retained) * LiveCallCost
        /\ \/ /\ active_stage = "initial_triage" /\ selected = {}
              /\ raised' = "no_triage_reviewer" /\ UNCHANGED <<pc, stage_reviewers>>
           \/ pc' = "run" /\ stage_reviewers' = retained /\ UNCHANGED raised
        /\ UNCHANGED <<inputs, cursorVars, clarificationVars, findings, requests, errors,
                       reviewer_results, blocking, answered, result>>
    BY DEF SelectReviewers
  <1>3. \A k \in DOMAIN run_status :
            ~ (k.stage = active_stage /\ k.clarification_id = active_clarification_id)
    BY <1>1 DEF RunsInv, RunsPlaced
  <1>4. selected = all
    BY <1>3 DEF Suppressed
  <1>5. KeysOf(all) \cap DOMAIN run_status = {}
    BY <1>3, KeyFields DEF KeysOf
  <1>6. retained \subseteq all
    BY <1>4 DEF Fitting
  <1>7. stage_reviewers' = retained
    <2>1. CASE selected = {} /\ UNCHANGED stage_reviewers
      <3>1. retained = {}
        BY <1>4, <1>6, <2>1
      <3>2. stage_reviewers = {}
        BY <1>1 DEF RunsInv, RunsSettled
      <3> QED BY <2>1, <3>1, <3>2
    <2> QED BY <1>2, <2>1
  <1>8. newKeys = KeysOf(all) /\ SkippedKeys(deferred) = KeysOf(all \ retained)
    BY <1>4, <1>5 DEF SkippedKeys
  <1> HIDE DEF selected, retained, count, newKeys, marked, all, deferred
  <1>9. /\ DOMAIN marked = DOMAIN run_status \cup newKeys
        /\ \A k \in newKeys : marked[k] = "selected"
        /\ \A k \in DOMAIN run_status \ newKeys : marked[k] = run_status[k]
    BY DEF marked, SetStatus
  <1>10. /\ DOMAIN run_status' = DOMAIN marked \cup SkippedKeys(deferred)
         /\ \A k \in SkippedKeys(deferred) : run_status'[k] = "skipped"
         /\ \A k \in DOMAIN marked \ SkippedKeys(deferred) : run_status'[k] = marked[k]
    BY <1>2 DEF SetStatus
  <1>11. KeysOf(all \ retained) \subseteq KeysOf(all)
    BY DEF KeysOf
  <1>12. /\ DOMAIN run_status' = DOMAIN run_status \cup KeysOf(all)
         /\ \A k \in DOMAIN run_status : k \notin KeysOf(all) /\ run_status'[k] = run_status[k]
         /\ \A k \in KeysOf(all \ retained) : run_status'[k] = "skipped"
         /\ \A k \in KeysOf(all) \ KeysOf(all \ retained) : run_status'[k] = "selected"
    BY <1>5, <1>8, <1>9, <1>10, <1>11
  <1>13. \A i \in retained : /\ Key(Candidates[i], 1) \in KeysOf(all)
                             /\ Key(Candidates[i], 1) \notin KeysOf(all \ retained)
    <2>1. SUFFICES ASSUME NEW i \in retained, NEW j \in all \ retained,
                          Key(Candidates[i], 1) = Key(Candidates[j], 1)
                   PROVE  FALSE
      BY <1>6 DEF KeysOf
    <2>2. Candidates[i] = Candidates[j]
      BY <2>1, KeyFields
    <2> QED BY <1>1, <1>6, <2>1, <2>2, CandidatesDistinct DEF all
  <1>14. \A i \in all \ retained : run_status'[Key(Candidates[i], 1)] = "skipped"
    BY <1>12 DEF KeysOf
  <1>15. \/ pc' = "run" /\ raised' = None
         \/ /\ pc' = "select" /\ raised' # None /\ raised' # "duplicate_item_id"
            /\ all = {} /\ active_stage # ClarificationReview
    <2>1. "no_triage_reviewer" # None /\ "initial_triage" # ClarificationReview
      BY Constants DEF ClarificationReview, Cursor!ClarificationReview
    <2> QED BY <1>1, <1>2, <1>4, <2>1
  <1>16. deferred = all \ stage_reviewers' /\ retained = Fitting(all)
    BY <1>4, <1>7 DEF deferred, retained
  <1>17. SelectEffect
    BY <1>2, <1>7, <1>12, <1>13, <1>14, <1>15, <1>16 DEF SelectEffect, count, all
  <1> QED BY <1>2, <1>17 DEF InStageUnchanged

\* The error that ends the run while its reviewers are executed.
Ends == raised' \in RunErrors \ {"duplicate_item_id"} /\ UNCHANGED <<pc, stage_reviewers>>

\* The reviewer at position i fails for want of a raw output: only the
\* result is recorded.
Rejected(i) ==
    /\ reviewer_results' = Append(reviewer_results, Key(Candidates[i], 1))
    /\ Ends /\ UNCHANGED <<run_status, outputVars>>

\* It is executed in n attempts, all of which but the last one failed.
Executed(i, n, last) ==
    LET r == Candidates[i]
        keys == {Key(r, m) : m \in 1..n}
    IN  /\ DOMAIN run_status' = DOMAIN run_status \cup keys
        /\ \A k \in DOMAIN run_status \ keys : run_status'[k] = run_status[k]
        /\ \A m \in 1..n : run_status'[Key(r, m)] = IF m = n THEN last ELSE "failed"
        /\ reviewer_results' = reviewer_results \o [m \in 1..n |-> Key(r, m)]
        /\ \/ /\ stage_reviewers' = stage_reviewers \ {i}
              /\ pc' = "run" /\ raised' = raised
              /\ \/ last = "completed" /\ UNCHANGED <<local_notes, errors>>
                 \/ /\ last = "failed" /\ UNCHANGED <<findings, requests>>
                    /\ errors' = <<>> => r \notin Required /\ errors = <<>>
                    /\ \E note \in Note :
                           /\ note.reviewer = r /\ note.stage = active_stage
                           /\ local_notes' = WithNotes({note})
           \/ last = "failed" /\ Ends /\ UNCHANGED outputVars

LEMMA FinishReviewerEffect ==
    ASSUME ReviewInv, FinishReviewer
    PROVE  /\ pc = "running" /\ raised = None
           /\ InStageUnchanged /\ UNCHANGED budgetVars
           /\ \E i \in stage_reviewers :
                 \/ Rejected(i)
                 \/ \E n \in 1..MaxAttempts, last \in {"completed", "failed"} : Executed(i, n, last)
  <1>0. /\ pc = "running" /\ raised = None
        /\ InStageUnchanged /\ UNCHANGED budgetVars
    BY DEF FinishReviewer, InStageUnchanged
  <1> DEFINE Proceeds(i) == /\ stage_reviewers' = stage_reviewers \ {i}
                            /\ pc' = "run"
                            /\ UNCHANGED raised
  <1>i. PICK i \in stage_reviewers :
            \E out \in PossibleOutputs(Candidates[i]), n \in 1..MaxAttempts :
                \/ CompleteReviewer(Candidates[i], out, n) /\ Proceeds(i)
                \/ FailReviewer(Candidates[i], out, n) /\ Proceeds(i)
                \/ RejectMissingRawOutput(Candidates[i], out)
                \/ RejectRequiredFailure(Candidates[i], out, n)
    <2>1. \A n \in 1..(IF Live THEN MaxAttempts ELSE 1) : n \in 1..MaxAttempts
      BY Constants
    <2> QED BY <2>1 DEF FinishReviewer
  <1>1. PICK out \in PossibleOutputs(Candidates[i]), n \in 1..MaxAttempts :
            \/ CompleteReviewer(Candidates[i], out, n) /\ Proceeds(i)
            \/ FailReviewer(Candidates[i], out, n) /\ Proceeds(i)
            \/ RejectMissingRawOutput(Candidates[i], out)
            \/ RejectRequiredFailure(Candidates[i], out, n)
    BY <1>i
  <1> DEFINE r == Candidates[i]
             keys == {Key(r, m) : m \in 1..n}
  <1>2. r \in Reviewers /\ active_stage \in ReviewStage
    <2>1. InStage
      BY <1>0 DEF InStage
    <2> QED BY <1>0, <1>1, <2>1, CandidatesTyped DEF ReviewInv, StageActive
  <1>3. n \in 1..n /\ Key(r, n) \in keys
    BY Constants
  <1>4. ASSUME NEW last \in {"completed", "failed"}, RecordAttempts(r, n, last)
        PROVE  /\ DOMAIN run_status' = DOMAIN run_status \cup keys
               /\ \A k \in DOMAIN run_status \ keys : run_status'[k] = run_status[k]
               /\ \A m \in 1..n : run_status'[Key(r, m)] = IF m = n THEN last ELSE "failed"
               /\ reviewer_results' = reviewer_results \o [m \in 1..n |-> Key(r, m)]
    <2> DEFINE failed == SetStatus(run_status, keys, "failed")
    <2>1. run_status' = SetStatus(failed, {Key(r, n)}, last)
      BY <1>4 DEF RecordAttempts
    <2>2. /\ DOMAIN failed = DOMAIN run_status \cup keys
          /\ \A k \in keys : failed[k] = "failed"
          /\ \A k \in DOMAIN run_status \ keys : failed[k] = run_status[k]
      BY DEF SetStatus
    <2> HIDE DEF failed
    <2>3. /\ DOMAIN run_status' = DOMAIN failed \cup {Key(r, n)}
          /\ run_status'[Key(r, n)] = last
          /\ \A k \in DOMAIN failed \ {Key(r, n)} : run_status'[k] = failed[k]
      BY <2>1 DEF SetStatus
    <2>4. \A m \in 1..n : Key(r, m) \in keys /\ (Key(r, m) = Key(r, n) => m = n)
      BY KeyFields
    <2>5. \A m \in 1..n : run_status'[Key(r, m)] = IF m = n THEN last ELSE "failed"
      BY <2>2, <2>3, <2>4
    <2> HIDE DEF keys
    <2> QED BY <1>3, <1>4, <2>2, <2>3, <2>5 DEF RecordAttempts
  <1> HIDE DEF r
  <1>5. CASE RejectMissingRawOutput(r, out)
    <2>1. Rejected(i)
      BY <1>5, Constants DEF RejectMissingRawOutput, Rejected, Ends, r
    <2> QED BY <1>0, <1>1, <2>1
  <1>6. CASE CompleteReviewer(r, out, n) /\ Proceeds(i)
    <2>1. RecordAttempts(r, n, "completed") /\ UNCHANGED <<local_notes, errors>>
      BY <1>6 DEF CompleteReviewer
    <2>2. Executed(i, n, "completed")
      BY <1>4, <1>6, <2>1 DEF Executed, r
    <2> QED BY <1>0, <1>1, <2>2
  <1>7. CASE FailReviewer(r, out, n) /\ Proceeds(i)
    <2> DEFINE note == [kind |-> IF r \in Required THEN "required_failure"
                                 ELSE "optional_failure",
                        reviewer |-> r, stage |-> active_stage]
    <2>1. /\ RecordAttempts(r, n, "failed") /\ local_notes' = WithNotes({note})
          /\ UNCHANGED <<findings, requests>>
          /\ errors' = IF r \in Required
                       THEN Append(errors, [reviewer |-> r, stage |-> active_stage])
                       ELSE errors
      BY <1>7 DEF FailReviewer
    <2>2. note \in Note /\ note.reviewer = r /\ note.stage = active_stage
      BY <1>2 DEF Note
    <2>3. errors' = <<>> => r \notin Required /\ errors = <<>>
      <3>1. errors \in Seq([reviewer : Reviewers, stage : ReviewStage])
        BY DEF ReviewInv, TypeOK
      <3>2. [reviewer |-> r, stage |-> active_stage] \in [reviewer : Reviewers, stage : ReviewStage]
        BY <1>2
      <3> DEFINE Error == [reviewer : Reviewers, stage : ReviewStage]
                 error == [reviewer |-> r, stage |-> active_stage]
      <3>3. errors \in Seq(Error) /\ error \in Error
        BY <3>1, <3>2
      <3>4. errors' = IF r \in Required THEN Append(errors, error) ELSE errors
        BY <2>1
      <3> HIDE DEF Error, error
      <3>5. Append(errors, error) # <<>>
        BY <3>3, AppendProperties
      <3> QED BY <3>4, <3>5
    <2> HIDE DEF note
    <2>4. Executed(i, n, "failed")
      BY <1>4, <1>7, <2>1, <2>2, <2>3 DEF Executed, r
    <2> QED BY <1>0, <1>1, <2>4
  <1>8. CASE RejectRequiredFailure(r, out, n)
    <2>1. RecordAttempts(r, n, "failed") /\ Ends /\ UNCHANGED outputVars
      BY <1>8, Constants DEF RejectRequiredFailure, Ends
    <2>2. Executed(i, n, "failed")
      BY <1>4, <2>1 DEF Executed, r
    <2> QED BY <1>0, <1>1, <2>2
  <1> QED BY <1>1, <1>5, <1>6, <1>7, <1>8 DEF r

-----------------------------------------------------------------------------
(***************************************************************************)
(* Every step keeps RunsInv.                                               *)
(***************************************************************************)
LEMMA StagePlaced ==
    ASSUME ReviewInv, CursorFacts, RunsInv, InStage, InStageUnchanged,
           \A k \in DOMAIN run_status' :
               \/ k \in DOMAIN run_status
               \/ /\ k \in RunKey /\ k.stage = active_stage
                  /\ k.clarification_id = active_clarification_id,
           pc' = "select" => pc = "select" /\ DOMAIN run_status' = DOMAIN run_status
    PROVE  RunsPlaced'
  <1>1. /\ UNCHANGED <<active_stage, suspended_stage, completed_stages,
                       active_clarification_id, resumed>>
    BY DEF InStageUnchanged, cursorVars, clarificationVars
  <1>2. active_stage \in ReviewStage
    BY DEF ReviewInv, StageActive
  <1>3. active_stage # ClarificationReview => active_clarification_id = None
    BY CursorPlaces
  <1>4. RunsPlaced
    BY DEF RunsInv
  <1>5. \A k \in DOMAIN run_status' :
            \/ k.stage = ClarificationReview /\ k.clarification_id \in Elems(resumed)
            \/ /\ k.stage \in NormalStages /\ k.clarification_id = None
               /\ k.stage \in Elems(completed_stages) \cup {active_stage, suspended_stage}
    BY <1>2, <1>3, <1>4, Constants DEF RunsPlaced
  <1>6. pc' = "select" =>
            \A k \in DOMAIN run_status' :
                ~ (k.stage = active_stage /\ k.clarification_id = active_clarification_id)
    BY <1>4 DEF RunsPlaced
  <1> QED BY <1>1, <1>4, <1>5, <1>6 DEF RunsPlaced, Elems

\* What explains a note stays as it is.
LEMMA NotesKept ==
    ASSUME RunsInv, UNCHANGED local_notes,
           \A k \in DOMAIN run_status :
               Settled(k) => k \in DOMAIN run_status' /\ run_status'[k] = run_status[k]
    PROVE  NotesExplained'
  <1>1. \A r : RepeatsANote(r) => RepeatsANote(r)'
    BY DEF RepeatsANote, Settled
  <1>2. NotesExplained
    BY DEF RunsInv
  <1> QED BY <1>1, <1>2 DEF NotesExplained, Settled

\* A second note with the same id is written in another clarification.
LEMMA NoteExplained ==
    ASSUME ReviewInv, CursorFacts, RunsInv, NEW n \in Note, n.stage = active_stage,
           \A l \in DOMAIN run_status :
               Settled(l) => l \in DOMAIN run_status' /\ run_status'[l] = run_status[l],
           \A l \in RunsOf(n.reviewer) : ~Settled(l),
           NEW k \in DOMAIN run_status', run_status'[k] \in {"failed", "skipped"},
           k.reviewer = n.reviewer, k.stage = active_stage,
           k.clarification_id = active_clarification_id,
           local_notes'[n] = local_notes[n] + 1 \/ local_notes'[n] = local_notes[n]
    PROVE  /\ \E l \in DOMAIN run_status' :
                  /\ l.reviewer = n.reviewer /\ l.stage = n.stage
                  /\ run_status'[l] \in {"failed", "skipped"}
           /\ local_notes'[n] >= 2 => RepeatsANote(n.reviewer)'
  <1> SUFFICES ASSUME local_notes'[n] >= 2 PROVE RepeatsANote(n.reviewer)'
    OBVIOUS
  <1>1. local_notes[n] >= 1
    <2>1. local_notes[n] \in Nat
      BY DEF ReviewInv, TypeOK
    <2> QED BY <2>1
  <1>2. PICK l \in DOMAIN run_status : /\ l.reviewer = n.reviewer /\ l.stage = n.stage
                                       /\ run_status[l] \in {"failed", "skipped"}
    BY <1>1 DEF RunsInv, NotesExplained
  <1>3. Settled(l) /\ l.clarification_id # active_clarification_id /\ l # k
    BY <1>2 DEF Settled, RunsOf
  <1>4. n.stage = ClarificationReview
    <2>1. active_stage # ClarificationReview => active_clarification_id = None
      BY CursorPlaces
    <2>2. l.stage = ClarificationReview \/ l.clarification_id = None
      BY DEF RunsInv, RunsPlaced
    <2> QED BY <1>2, <1>3, <2>1, <2>2
  <1> QED BY <1>2, <1>3, <1>4 DEF RepeatsANote, ClarificationReview, Cursor!ClarificationReview

LEMMA SelectReviewersRuns ==
    ASSUME ReviewInv, CursorFacts, RunsInv, SelectReviewers
    PROVE  RunsInv'
  <1> DEFINE all == DOMAIN Candidates
             retained == stage_reviewers'
             deferred == all \ retained
  <1>1. /\ SelectEffect /\ InStageUnchanged
        /\ UNCHANGED <<findings, requests, errors, reviewer_results>>
    BY SelectReviewersEffect
  <1>2. pc = "select" /\ raised = None /\ InStage /\ stage_reviewers = {}
    BY DEF SelectReviewers, InStage, RunsInv, RunsSettled
  <1>3. /\ active_stage' = active_stage /\ Candidates' = Candidates
        /\ active_clarification_id' = active_clarification_id
        /\ \A r, n : Key(r, n)' = Key(r, n)
        /\ UNCHANGED <<completed_stages, suspended_stage>>
    BY <1>1 DEF InStageUnchanged, cursorVars, clarificationVars, Candidates, Key
  <1>4. /\ active_stage \in ReviewStage /\ all \subseteq Nat
        /\ \A i \in all : Candidates[i] \in Reviewers /\ Key(Candidates[i], 1) \in RunKey
    <2>1. active_stage \in ReviewStage
      BY <1>2 DEF ReviewInv, StageActive
    <2> QED BY <2>1, CandidatesTyped, KeyTyped, Constants DEF ReviewInv
  <1>5. \A k \in DOMAIN run_status :
            /\ ~ (k.stage = active_stage /\ k.clarification_id = active_clarification_id)
            /\ Settled(k) /\ run_status'[k] = run_status[k] /\ k \in DOMAIN run_status'
    <2>1. \A k \in DOMAIN run_status : ~Open(k)
      BY <1>2 DEF Open
    <2> QED BY <1>1, <1>2, <2>1 DEF SelectEffect, RunsInv, RunsPlaced, RunsSettled
  <1>6. /\ retained \subseteq all /\ IsFiniteSet(retained) /\ Cardinality(retained) \in Nat
        /\ retained_reviewer_count' <= MaxReviewers /\ planned_live_calls' <= MaxLiveCalls
    <2>1. PICK u \in Nat : all = 1..u
      BY <1>4, CandidatesTyped DEF ReviewInv
    <2> QED BY <1>1, <2>1, FittingFits DEF SelectEffect, RunsInv, BudgetKept
  <1>7. \A k \in DOMAIN run_status' :
            \/ k \in DOMAIN run_status
            \/ \E i \in all : /\ k = Key(Candidates[i], 1)
                              /\ i \in retained => run_status'[k] = "selected"
                              /\ i \in deferred => run_status'[k] = "skipped"
    BY <1>1 DEF SelectEffect, KeysOf
  <1>8. \A i \in all : /\ Key(Candidates[i], 1) \in DOMAIN run_status'
                       /\ i \in retained => run_status'[Key(Candidates[i], 1)] = "selected"
                       /\ i \in deferred => run_status'[Key(Candidates[i], 1)] = "skipped"
    BY <1>1 DEF SelectEffect, KeysOf
  <1>9. \/ pc' = "run" /\ raised' = None
        \/ /\ pc' = "select" /\ raised' # None
           /\ all = {} /\ active_stage # ClarificationReview
    BY <1>1 DEF SelectEffect
  <1> HIDE DEF all, retained, deferred
  <1>10. RunsPlaced'
    <2>1. \A k \in DOMAIN run_status' :
              \/ k \in DOMAIN run_status
              \/ /\ k \in RunKey /\ k.stage = active_stage
                 /\ k.clarification_id = active_clarification_id
      BY <1>4, <1>7, KeyFields DEF all
    <2>2. pc' = "select" => DOMAIN run_status' = DOMAIN run_status
      BY <1>5, <1>7, <1>9
    <2> QED BY <1>1, <1>2, <2>1, <2>2, StagePlaced
  <1>11. RunsSettled'
    <2>1. ASSUME NEW k \in DOMAIN run_status' PROVE (Settled(k) \/ Open(k))'
      <3>1. CASE k \in DOMAIN run_status
        BY <1>5, <3>1 DEF Settled
      <3>2. CASE \E i \in all : k = Key(Candidates[i], 1) /\ i \in deferred
        BY <1>8, <3>2 DEF Settled
      <3>3. ASSUME NEW i \in all, k = Key(Candidates[i], 1), i \in retained PROVE Open(k)'
        <4>1. pc' = "run"
          BY <1>9, <3>3
        <4>2. i \in stage_reviewers' /\ k \in RunsOf(Candidates[i])'
          BY <1>3, <2>1, <3>3, KeyFields DEF RunsOf, retained
        <4> QED BY <1>3, <4>1, <4>2 DEF Open
      <3> QED BY <1>7, <3>1, <3>2, <3>3 DEF deferred
    <2>2. pc' \notin {"run", "running"} => stage_reviewers' = {}
      BY <1>6, <1>9 DEF retained
    <2>3. ASSUME NEW i \in stage_reviewers'
          PROVE  /\ Key(Candidates[i], 1) \in DOMAIN run_status'
                 /\ \A k \in DOMAIN run_status' :
                       /\ k.reviewer = Candidates[i] /\ k.stage = active_stage
                       /\ k.clarification_id = active_clarification_id
                       => k.attempt = 1 /\ run_status'[k] = "selected"
      <3>1. i \in all /\ i \in retained
        BY <1>6 DEF retained
      <3>2. ASSUME NEW k \in DOMAIN run_status',
                   k.reviewer = Candidates[i], k.stage = active_stage,
                   k.clarification_id = active_clarification_id
            PROVE  k.attempt = 1 /\ run_status'[k] = "selected"
        <4>1. PICK j \in all : k = Key(Candidates[j], 1)
          BY <1>5, <1>7, <3>2
        <4>2. j = i
          BY <1>2, <3>1, <3>2, <4>1, KeyFields, CandidatesDistinct DEF all
        <4> QED BY <1>8, <3>1, <4>1, <4>2, KeyFields
      <3> QED BY <1>8, <3>1, <3>2
    <2> QED BY <1>3, <2>1, <2>2, <2>3 DEF RunsSettled, RunsOf
  <1>12. ResultsSettled'
    <2>1. ResultsSettled /\ reviewer_results' = reviewer_results
      BY <1>1 DEF RunsInv
    <2>2. \A i \in DOMAIN reviewer_results :
              /\ reviewer_results[i] \in DOMAIN run_status
              /\ run_status[reviewer_results[i]] \in {"completed", "failed"}
      BY <1>2, <2>1 DEF ResultsSettled
    <2> QED BY <1>5, <2>1, <2>2 DEF ResultsSettled, NoReviewRepeated
  <1>13. FailuresKept'
    <2> SUFFICES ASSUME NEW k \in DOMAIN run_status', k.reviewer \in Required
                 PROVE  Passed(k)' \/ Open(k)' \/ errors' # <<>>
      BY DEF FailuresKept
    <2>1. CASE k \in DOMAIN run_status
      <3>1. Passed(k) \/ errors # <<>>
        BY <1>2, <2>1 DEF RunsInv, FailuresKept, Open
      <3>2. Passed(k) => Passed(k)'
        BY <1>5 DEF Passed
      <3> QED BY <1>1, <3>1, <3>2
    <2>2. CASE k \notin DOMAIN run_status
      <3>1. PICK i \in all : /\ k = Key(Candidates[i], 1)
                             /\ i \in retained => run_status'[k] = "selected"
                             /\ i \in deferred => run_status'[k] = "skipped"
        BY <1>7, <2>2
      <3>2. CASE i \in retained
        BY <1>11, <3>1, <3>2 DEF RunsSettled, Settled
      <3>3. CASE i \in deferred
        <4>1. [k EXCEPT !.attempt = 1] = k
          BY <3>1 DEF Key
        <4> QED BY <3>1, <3>3, <4>1, Constants DEF Passed
      <3> QED BY <3>1, <3>2, <3>3 DEF deferred
    <2> QED BY <2>1, <2>2
  <1>14. StagesRouted'
    <2> SUFFICES ASSUME NEW s \in NormalStages,
                        \/ s \in Elems(completed_stages') \cup {suspended_stage'}
                        \/ s = active_stage'
                 PROVE  Routed(s)'
      BY DEF StagesRouted
    <2>1. CASE s = active_stage
      <3>1. Candidates = StageSelection[s]
        BY <2>1, Constants DEF Candidates
      <3> QED BY <1>8, <2>1, <3>1, KeyFields DEF Routed, all
    <2>2. CASE s # active_stage
      <3>1. Routed(s)
        BY <1>3, <2>2 DEF RunsInv, StagesRouted, Elems
      <3> QED BY <1>5, <3>1 DEF Routed
    <2> QED BY <2>1, <2>2
  <1>15. NotesExplained'
    <2> SUFFICES ASSUME NEW n \in Note
                 PROVE  /\ local_notes'[n] >= 1 =>
                               \E k \in DOMAIN run_status' :
                                   /\ k.reviewer = n.reviewer /\ k.stage = n.stage
                                   /\ run_status'[k] \in {"failed", "skipped"}
                        /\ local_notes'[n] >= 2 => RepeatsANote(n.reviewer)'
      BY DEF NotesExplained
    <2>0. local_notes[n] \in Nat
      BY DEF ReviewInv, TypeOK
    <2>1. /\ local_notes[n] >= 1 =>
                 \E k \in DOMAIN run_status :
                     /\ k.reviewer = n.reviewer /\ k.stage = n.stage
                     /\ run_status[k] \in {"failed", "skipped"}
          /\ local_notes[n] >= 2 => RepeatsANote(n.reviewer)
      BY DEF RunsInv, NotesExplained
    <2>2. RepeatsANote(n.reviewer) => RepeatsANote(n.reviewer)'
      BY <1>5 DEF RepeatsANote
    <2>3. CASE local_notes'[n] = local_notes[n]
      BY <1>5, <2>0, <2>1, <2>2, <2>3
    <2>4. CASE \E i \in deferred : n.reviewer = Candidates[i] /\ n.stage = active_stage
      <3>1. PICK i \in deferred : n.reviewer = Candidates[i] /\ n.stage = active_stage
        BY <2>4
      <3> DEFINE k == Key(Candidates[i], 1)
      <3>2. /\ k \in DOMAIN run_status' /\ run_status'[k] = "skipped"
            /\ k.reviewer = n.reviewer /\ k.stage = active_stage
            /\ k.clarification_id = active_clarification_id
        BY <1>8, <3>1, KeyFields DEF deferred
      <3> HIDE DEF k
      <3>3. local_notes'[n] = local_notes[n] + 1 \/ local_notes'[n] = local_notes[n]
        BY <1>1 DEF SelectEffect, WithNotes
      <3>4. \A l \in RunsOf(n.reviewer) : ~Settled(l)
        BY <1>5 DEF RunsOf
      <3> QED BY <1>5, <3>1, <3>2, <3>3, <3>4, NoteExplained
    <2>5. local_notes'[n] = local_notes[n]
              \/ \E i \in deferred : n.reviewer = Candidates[i] /\ n.stage = active_stage
      BY <1>1 DEF SelectEffect, WithNotes, DeferredNotes, deferred, all, retained
    <2> QED BY <2>3, <2>4, <2>5
  <1>16. BudgetKept'
    <2> DEFINE firsts == Cardinality(FirstAttempts(reviewer_results))
               size == Cardinality(retained)
    <2>1. /\ reviewer_results' = reviewer_results
          /\ retained_reviewer_count' = retained_reviewer_count + size
          /\ planned_live_calls' = planned_live_calls + size * LiveCallCost
          /\ Cardinality(stage_reviewers') = size /\ size \in Nat
      BY <1>1, <1>6 DEF SelectEffect, retained
    <2>2. /\ firsts <= retained_reviewer_count /\ firsts + Cardinality({}) <= retained_reviewer_count
          /\ Live => Len(reviewer_results) <= planned_live_calls
      BY <1>2 DEF RunsInv, BudgetKept
    <2>3. Live => LiveCallCost = MaxAttempts
      BY DEF LiveCallCost
    <2>4. /\ Len(reviewer_results) \in Nat /\ IsFiniteSet(FirstAttempts(reviewer_results))
          /\ planned_live_calls \in Nat /\ retained_reviewer_count \in Nat
      <3>1. reviewer_results \in Seq(RunKey)
        BY DEF ReviewInv, TypeOK
      <3>2. Len(reviewer_results) \in Nat /\ DOMAIN reviewer_results = 1..Len(reviewer_results)
        BY <3>1
      <3>3. IsFiniteSet(1..Len(reviewer_results))
        BY <3>2, FS_Interval
      <3> QED BY <3>2, <3>3, FS_Subset DEF FirstAttempts, ReviewInv, TypeOK
    <2>5. firsts \in Nat /\ size * MaxAttempts \in Nat /\ size * LiveCallCost \in Nat
      BY <2>1, <2>4, FS_CardinalityType, Constants
    <2> HIDE DEF firsts, size
    <2>6. /\ firsts <= retained_reviewer_count'
          /\ firsts + size <= retained_reviewer_count'
      BY <2>1, <2>2, <2>4, <2>5
    <2>7. Live => /\ Len(reviewer_results) <= planned_live_calls'
                  /\ Len(reviewer_results) + size * MaxAttempts <= planned_live_calls'
      BY <2>1, <2>2, <2>3, <2>4, <2>5
    <2> QED BY <1>6, <2>1, <2>6, <2>7 DEF BudgetKept, firsts, FirstAttempts
  <1> QED BY <1>10, <1>11, <1>12, <1>13, <1>14, <1>15, <1>16 DEF RunsInv

LEMMA StartReviewerRuns ==
    ASSUME ReviewInv, CursorFacts, RunsInv, StartReviewer
    PROVE  RunsInv'
  <1>1. PICK i \in stage_reviewers :
            run_status' = SetStatus(run_status, {Key(Candidates[i], 1)}, "running")
    BY DEF StartReviewer
  <1>2. /\ pc = "run" /\ raised = None /\ pc' = "running" /\ raised' = raised
        /\ InStage /\ InStageUnchanged
        /\ UNCHANGED <<errors, local_notes, reviewer_results, stage_reviewers, budgetVars>>
    BY DEF StartReviewer, InStage, InStageUnchanged, outputVars
  <1>3. /\ Candidates' = Candidates /\ active_stage' = active_stage
        /\ active_clarification_id' = active_clarification_id
        /\ UNCHANGED <<completed_stages, suspended_stage>>
        /\ \A r, n : Key(r, n)' = Key(r, n)
    BY <1>2 DEF InStageUnchanged, cursorVars, clarificationVars, Candidates, Key
  <1> DEFINE key == Key(Candidates[i], 1)
  <1>4. key \in DOMAIN run_status /\ key \in RunsOf(Candidates[i])
        /\ run_status[key] \in {"selected", "running"}
    BY <1>1, <1>2, KeyFields DEF RunsInv, RunsSettled, RunsOf
  <1>5. /\ DOMAIN run_status' = DOMAIN run_status /\ run_status'[key] = "running"
        /\ \A k \in DOMAIN run_status : k # key => run_status'[k] = run_status[k]
    BY <1>1, <1>4 DEF SetStatus
  <1> HIDE DEF key
  <1>6. \A k \in DOMAIN run_status : Settled(k) => run_status'[k] = run_status[k]
    BY <1>4, <1>5 DEF Settled
  <1>7. RunsPlaced'
    BY <1>2, <1>5, StagePlaced
  <1>8. \A r : RunsOf(r)' = RunsOf(r)
    BY <1>3, <1>5 DEF RunsOf
  <1>9. \A k : Open(k) <=> Open(k)'
    BY <1>2, <1>3, <1>8 DEF Open
  <1>10. Open(key)
    BY <1>1, <1>2, <1>4 DEF Open
  <1>11. RunsSettled'
    <2>1. \A k \in DOMAIN run_status' : (Settled(k) \/ Open(k))'
      BY <1>5, <1>6, <1>9, <1>10 DEF RunsInv, RunsSettled, Settled
    <2>2. ASSUME NEW j \in stage_reviewers'
          PROVE  /\ Key(Candidates[j], 1) \in DOMAIN run_status'
                 /\ \A k \in RunsOf(Candidates[j]) :
                       k.attempt = 1 /\ run_status'[k] \in {"selected", "running"}
      <3>1. /\ Key(Candidates[j], 1) \in DOMAIN run_status
            /\ \A k \in RunsOf(Candidates[j]) :
                  /\ k \in DOMAIN run_status
                  /\ k.attempt = 1 /\ run_status[k] \in {"selected", "running"}
        BY <1>2, <2>2 DEF RunsInv, RunsSettled, RunsOf
      <3> QED BY <1>5, <3>1
    <2> QED BY <1>2, <1>3, <1>8, <2>1, <2>2 DEF RunsSettled
  <1>12. ResultsSettled'
    <2>1. ResultsSettled
      BY DEF RunsInv
    <2> QED BY <1>2, <1>5, <1>6, <2>1 DEF ResultsSettled, NoReviewRepeated, Settled
  <1>13. FailuresKept'
    <2>1. ASSUME NEW k, Passed(k) PROVE Passed(k)'
      BY <1>5, <1>6, <2>1 DEF Passed, Settled
    <2> QED BY <1>2, <1>5, <1>9, <2>1 DEF RunsInv, FailuresKept
  <1>14. StagesRouted'
    <2>1. \A s : Routed(s)' <=> Routed(s)
      BY <1>5 DEF Routed
    <2> QED BY <1>2, <1>3, <2>1 DEF RunsInv, StagesRouted, Elems
  <1>15. NotesExplained'
    BY <1>2, <1>5, <1>6, NotesKept
  <1>16. BudgetKept'
    BY <1>2 DEF RunsInv, BudgetKept, budgetVars, FirstAttempts
  <1> QED BY <1>7, <1>11, <1>12, <1>13, <1>14, <1>15, <1>16 DEF RunsInv

\* Of the attempts of one execution, one is a first attempt.
LEMMA OneMoreFirst ==
    ASSUME NEW old \in Seq(RunKey), NEW new \in Seq(RunKey), Len(new) >= 1,
           new[1].attempt = 1, \A m \in 2..Len(new) : new[m].attempt # 1
    PROVE  /\ Cardinality(FirstAttempts(old)) \in Nat
           /\ Cardinality(FirstAttempts(old \o new)) = Cardinality(FirstAttempts(old)) + 1
  <1>1. /\ DOMAIN old = 1..Len(old) /\ Len(old) \in Nat
        /\ DOMAIN new = 1..Len(new) /\ Len(new) \in Nat
        /\ DOMAIN (old \o new) = 1..(Len(old) + Len(new))
        /\ \A j \in 1..Len(old) : (old \o new)[j] = old[j]
        /\ \A j \in 1..Len(new) : (old \o new)[Len(old) + j] = new[j]
    BY ConcatProperties
  <1>2. FirstAttempts(old \o new) = FirstAttempts(old) \cup {Len(old) + 1}
    <2>1. ASSUME NEW j \in DOMAIN (old \o new), j > Len(old)
          PROVE  (old \o new)[j].attempt = 1 <=> j = Len(old) + 1
      <3>1. j - Len(old) \in 1..Len(new) /\ j = Len(old) + (j - Len(old))
        BY <1>1, <2>1
      <3>2. (old \o new)[j] = new[j - Len(old)]
        BY <1>1, <3>1
      <3> QED BY <3>1, <3>2
    <2>2. Len(old) + 1 \in DOMAIN (old \o new)
      BY <1>1
    <2>3. \A j \in DOMAIN (old \o new) : j \in DOMAIN old \/ j > Len(old)
      BY <1>1
    <2>4. \A j \in DOMAIN old : j \in DOMAIN (old \o new) /\ (old \o new)[j] = old[j]
      BY <1>1
    <2> QED BY <1>1, <2>1, <2>2, <2>3, <2>4 DEF FirstAttempts
  <1>3. IsFiniteSet(FirstAttempts(old)) /\ Len(old) + 1 \notin FirstAttempts(old)
    <2>1. IsFiniteSet(1..Len(old))
      BY <1>1, FS_Interval
    <2> QED BY <1>1, <2>1, FS_Subset DEF FirstAttempts
  <1> QED BY <1>2, <1>3, FS_AddElement, FS_CardinalityType

LEMMA OneReviewerLess ==
    \A c, m \in Nat : c >= 1 => c * m \in Nat /\ c * m >= m /\ (c - 1) * m + m = c * m
  <1> SUFFICES ASSUME NEW c \in Nat, NEW m \in Nat, c >= 1
               PROVE  c * m \in Nat /\ c * m >= m /\ (c - 1) * m + m = c * m
    OBVIOUS
  <1>1. PICK d \in Nat : c = d + 1
    <2>1. c - 1 \in Nat /\ c = (c - 1) + 1
      OBVIOUS
    <2> QED BY <2>1
  <1>2. c * m = d * m + m /\ d * m \in Nat
    BY <1>1
  <1> QED BY <1>1, <1>2

\* A new result is the first of its review, so no review is repeated.
LEMMA ResultsAppended ==
    ASSUME NoReviewRepeated, NEW old \in Seq(RunKey), old = reviewer_results,
           NEW new \in Seq(RunKey), reviewer_results' = old \o new,
           \A i \in DOMAIN old : run_status'[old[i]] = run_status[old[i]],
           \A i \in DOMAIN old, j \in DOMAIN new : ~SameReview(old[i], new[j]),
           \A i, j \in DOMAIN new :
               i < j => new[i].attempt < new[j].attempt /\ run_status'[new[i]] = "failed"
    PROVE  NoReviewRepeated'
  <1>1. /\ DOMAIN old = 1..Len(old) /\ Len(old) \in Nat
        /\ DOMAIN new = 1..Len(new) /\ Len(new) \in Nat
        /\ DOMAIN reviewer_results' = 1..(Len(old) + Len(new))
        /\ \A j \in 1..Len(old) : reviewer_results'[j] = old[j]
        /\ \A j \in 1..Len(new) : reviewer_results'[Len(old) + j] = new[j]
    BY ConcatProperties
  <1>2. \A j \in DOMAIN reviewer_results' :
            \/ j \in DOMAIN old /\ reviewer_results'[j] = old[j]
            \/ /\ j > Len(old) /\ j - Len(old) \in DOMAIN new
               /\ reviewer_results'[j] = new[j - Len(old)]
    <2>1. \A j \in DOMAIN reviewer_results' :
              \/ j \in 1..Len(old)
              \/ /\ j > Len(old) /\ j - Len(old) \in 1..Len(new)
                 /\ j = Len(old) + (j - Len(old))
      BY <1>1
    <2> QED BY <1>1, <2>1
  <1>3. SUFFICES ASSUME NEW i \in DOMAIN reviewer_results', NEW j \in DOMAIN reviewer_results',
                        i < j, SameReview(reviewer_results'[i], reviewer_results'[j])
                 PROVE  /\ reviewer_results'[i].attempt < reviewer_results'[j].attempt
                        /\ run_status'[reviewer_results'[i]] = "failed"
    BY Zenon DEF NoReviewRepeated, SameReview
  <1>4. CASE i \in DOMAIN old /\ j \in DOMAIN old
    BY <1>1, <1>3, <1>4 DEF NoReviewRepeated, SameReview
  <1>5. CASE i \in DOMAIN old /\ j \notin DOMAIN old
    BY <1>2, <1>3, <1>5
  <1>6. CASE i \notin DOMAIN old
    <2>1. j \notin DOMAIN old
      BY <1>1, <1>2, <1>3, <1>6
    <2>2. /\ i - Len(old) \in DOMAIN new /\ reviewer_results'[i] = new[i - Len(old)]
          /\ j - Len(old) \in DOMAIN new /\ reviewer_results'[j] = new[j - Len(old)]
          /\ i - Len(old) < j - Len(old)
      BY <1>1, <1>2, <1>3, <1>6, <2>1
    <2> QED BY <2>2
  <1> QED BY <1>4, <1>5, <1>6

\* The reviewer whose turn it is has one run, which has no result yet.
LEMMA NextRun ==
    ASSUME ReviewInv, RunsInv, pc = "running", raised = None, NEW i \in stage_reviewers
    PROVE  /\ InStage /\ active_stage \in ReviewStage
           /\ stage_reviewers \subseteq DOMAIN Candidates /\ Candidates[i] \in Reviewers
           /\ \A n \in 1..MaxAttempts : Key(Candidates[i], n) \in RunKey
           /\ Key(Candidates[i], 1) \in DOMAIN run_status
           /\ \A k \in RunsOf(Candidates[i]) : k = Key(Candidates[i], 1) /\ ~Settled(k)
           /\ \A j \in DOMAIN reviewer_results, n \in 1..MaxAttempts :
                  ~SameReview(reviewer_results[j], Key(Candidates[i], n))
           /\ Cardinality(stage_reviewers) \in Nat /\ Cardinality(stage_reviewers) >= 1
           /\ Cardinality(stage_reviewers \ {i}) = Cardinality(stage_reviewers) - 1
  <1>1. InStage /\ active_stage \in ReviewStage /\ stage_reviewers \subseteq DOMAIN Candidates
    BY DEF InStage, ReviewInv, StageActive
  <1>2. Candidates[i] \in Reviewers /\ IsFiniteSet(DOMAIN Candidates)
    BY <1>1, CandidatesTyped DEF ReviewInv
  <1>3. \A n \in 1..MaxAttempts : Key(Candidates[i], n) \in RunKey
    BY <1>1, <1>2, KeyTyped DEF ReviewInv
  <1>4. /\ Key(Candidates[i], 1) \in DOMAIN run_status
        /\ \A k \in RunsOf(Candidates[i]) :
               k.attempt = 1 /\ run_status[k] \in {"selected", "running"}
    BY DEF RunsInv, RunsSettled
  <1>5. ASSUME NEW k \in RunsOf(Candidates[i]) PROVE k = Key(Candidates[i], 1) /\ ~Settled(k)
    <2>1. k \in RunKey /\ k.reviewer = Candidates[i] /\ k.stage = active_stage
          /\ k.clarification_id = active_clarification_id
      BY <1>5, StatusKeys DEF RunsOf
    <2> QED BY <1>4, <1>5, <2>1, KeyEqual DEF Settled
  <1>6. ASSUME NEW j \in DOMAIN reviewer_results, NEW n \in 1..MaxAttempts,
               SameReview(reviewer_results[j], Key(Candidates[i], n))
        PROVE  FALSE
    <2>1. /\ reviewer_results[j] \in DOMAIN run_status
          /\ run_status[reviewer_results[j]] \in {"completed", "failed"}
      BY DEF RunsInv, ResultsSettled
    <2>2. reviewer_results[j] \in RunsOf(Candidates[i])
      BY <1>6, <2>1, KeyFields DEF SameReview, RunsOf
    <2> QED BY <1>5, <2>1, <2>2 DEF Settled
  <1>7. IsFiniteSet(stage_reviewers)
    BY <1>1, <1>2, FS_Subset
  <1>8. /\ Cardinality(stage_reviewers) \in Nat
        /\ Cardinality(stage_reviewers \ {i}) = Cardinality(stage_reviewers) - 1
        /\ Cardinality(stage_reviewers \ {i}) \in Nat
    BY <1>7, FS_CardinalityType, FS_RemoveElement
  <1>9. Cardinality(stage_reviewers) >= 1
    BY <1>8
  <1> QED BY <1>1, <1>2, <1>3, <1>4, <1>5, <1>6, <1>8, <1>9

LEMMA RejectedRuns ==
    ASSUME ReviewInv, CursorFacts, RunsInv, pc = "running", raised = None,
           InStageUnchanged, UNCHANGED budgetVars, NEW i \in stage_reviewers, Rejected(i)
    PROVE  RunsInv'
  <1> DEFINE old == reviewer_results
             new == <<Key(Candidates[i], 1)>>
  <1>1. /\ run_status' = run_status /\ stage_reviewers' = stage_reviewers
        /\ pc' = pc /\ raised' # None
        /\ UNCHANGED <<errors, local_notes>> /\ UNCHANGED budgetVars
        /\ reviewer_results' = Append(old, Key(Candidates[i], 1))
    BY Constants DEF Rejected, Ends, outputVars
  <1>2. UNCHANGED <<active_stage, suspended_stage, completed_stages, active_clarification_id,
                    resumed, routing_requests>>
    BY DEF InStageUnchanged, cursorVars, clarificationVars
  <1>3. old \in Seq(RunKey) /\ Key(Candidates[i], 1) \in RunKey /\ 1 \in 1..MaxAttempts
    <2>1. 1 \in 1..MaxAttempts
      BY Constants
    <2>2. reviewer_results \in Seq(RunKey)
      BY DEF ReviewInv, TypeOK
    <2>3. Key(Candidates[i], 1) \in RunKey
      BY <2>1, NextRun
    <2> QED BY <2>1, <2>2, <2>3
  <1>4. /\ new \in Seq(RunKey) /\ Len(new) = 1 /\ DOMAIN new = {1}
        /\ new[1] = Key(Candidates[i], 1) /\ reviewer_results' = old \o new
    BY <1>1, <1>3
  <1> HIDE DEF old, new
  <1>5. RunsPlaced'
    <2>1. InStage
      BY NextRun
    <2> QED BY <1>1, <2>1, StagePlaced
  <1>6. RunsSettled'
    <2>1. /\ Candidates' = Candidates /\ \A r : RunsOf(r)' = RunsOf(r)
      BY <1>1, <1>2 DEF Candidates, RunsOf
    <2>2. \A k : (Settled(k) <=> Settled(k)') /\ (Open(k) <=> Open(k)')
      BY <1>1, <2>1 DEF Settled, Open
    <2> QED BY <1>1, <2>2 DEF RunsInv, RunsSettled
  <1>7. ResultsSettled'
    <2>1. \A j \in DOMAIN old : ~SameReview(old[j], Key(Candidates[i], 1))
      BY <1>3, NextRun DEF old
    <2>2. \A j \in DOMAIN old, m \in DOMAIN new : ~SameReview(old[j], new[m])
      BY <1>4, <2>1
    <2>3. \A j \in DOMAIN old : run_status'[old[j]] = run_status[old[j]]
      BY <1>1
    <2>4. \A j, m \in DOMAIN new : ~ (j < m)
      BY <1>4
    <2>5. NoReviewRepeated /\ old = reviewer_results
      BY DEF RunsInv, ResultsSettled, old
    <2>6. NoReviewRepeated'
      BY <1>3, <1>4, <2>2, <2>3, <2>4, <2>5, ResultsAppended
    <2> QED BY <1>1, <2>6 DEF ResultsSettled
  <1>8. FailuresKept'
    BY <1>1 DEF FailuresKept
  <1>9. StagesRouted'
    BY <1>1, <1>2 DEF RunsInv, StagesRouted, Routed, Elems
  <1>10. NotesExplained'
    BY <1>1, NotesKept
  <1>11. BudgetKept'
    <2> DEFINE firsts == Cardinality(FirstAttempts(old))
               size == Cardinality(stage_reviewers)
    <2>1. /\ firsts \in Nat /\ Cardinality(FirstAttempts(reviewer_results')) = firsts + 1
      <3>1. new[1].attempt = 1 /\ Len(new) >= 1 /\ \A m \in 2..Len(new) : new[m].attempt # 1
        BY <1>4, KeyFields
      <3> QED BY <1>3, <1>4, <3>1, OneMoreFirst
    <2>2. /\ size \in Nat /\ size >= 1 /\ size * MaxAttempts >= MaxAttempts
          /\ size * MaxAttempts \in Nat
      <3>1. size \in Nat /\ size >= 1
        BY NextRun
      <3> HIDE DEF size
      <3> QED BY <3>1, OneReviewerLess, Constants
    <2>3. Len(reviewer_results') = Len(old) + 1 /\ Len(old) \in Nat
      BY <1>1, <1>3
    <2>4. /\ firsts + size <= retained_reviewer_count
          /\ Live => Len(old) + size * MaxAttempts <= planned_live_calls
          /\ planned_live_calls <= MaxLiveCalls /\ retained_reviewer_count <= MaxReviewers
      BY DEF RunsInv, BudgetKept, old
    <2>5. retained_reviewer_count \in Nat /\ planned_live_calls \in Nat
      BY DEF ReviewInv, TypeOK
    <2> DEFINE spend == size * MaxAttempts
    <2> HIDE DEF firsts, size, spend
    <2>6. /\ firsts + 1 <= retained_reviewer_count
          /\ Live => Len(old) + 1 <= planned_live_calls
      <3>1. spend >= 1 /\ spend \in Nat /\ (Live => Len(old) + spend <= planned_live_calls)
        BY <2>2, <2>4, Constants DEF spend
      <3> QED BY <2>1, <2>2, <2>3, <2>4, <2>5, <3>1
    <2> QED BY <1>1, <2>1, <2>3, <2>4, <2>6 DEF BudgetKept, budgetVars, FirstAttempts
  <1> QED BY <1>5, <1>6, <1>7, <1>8, <1>9, <1>10, <1>11 DEF RunsInv

LEMMA ExecutedRuns ==
    ASSUME ReviewInv, CursorFacts, RunsInv, pc = "running", raised = None,
           InStageUnchanged, UNCHANGED budgetVars, NEW i \in stage_reviewers,
           NEW n \in 1..MaxAttempts, NEW last \in {"completed", "failed"}, Executed(i, n, last)
    PROVE  RunsInv'
  <1> DEFINE r == Candidates[i]
             keys == {Key(r, m) : m \in 1..n}
             old == reviewer_results
             new == [m \in 1..n |-> Key(r, m)]
             Proceeds == stage_reviewers' = stage_reviewers \ {i} /\ pc' = "run" /\ raised' = None
             Stops == stage_reviewers' = stage_reviewers /\ pc' = "running" /\ raised' # None
  <1>1. /\ DOMAIN run_status' = DOMAIN run_status \cup keys
        /\ \A k \in DOMAIN run_status \ keys : run_status'[k] = run_status[k]
        /\ \A m \in 1..n : run_status'[Key(r, m)] = IF m = n THEN last ELSE "failed"
        /\ reviewer_results' = old \o new
    BY DEF Executed
  <1>2. \/ /\ Proceeds
           /\ \/ last = "completed" /\ UNCHANGED <<local_notes, errors>>
              \/ /\ last = "failed"
                 /\ errors' = <<>> => r \notin Required /\ errors = <<>>
                 /\ \E note \in Note :
                        /\ note.reviewer = r /\ note.stage = active_stage
                        /\ local_notes' = WithNotes({note})
        \/ last = "failed" /\ Stops /\ UNCHANGED <<local_notes, errors>>
    BY Constants DEF Executed, Ends, outputVars
  <1>3. /\ UNCHANGED <<active_stage, suspended_stage, completed_stages, active_clarification_id,
                       resumed, routing_requests>>
        /\ Candidates' = Candidates /\ \A q, m : Key(q, m)' = Key(q, m)
    BY DEF InStageUnchanged, cursorVars, clarificationVars, Candidates, Key
  <1>4. /\ InStage /\ active_stage \in ReviewStage
        /\ stage_reviewers \subseteq DOMAIN Candidates
        /\ \A k \in RunsOf(r) : k = Key(r, 1) /\ ~Settled(k)
        /\ \A m \in 1..MaxAttempts :
               /\ Key(r, m) \in RunKey
               /\ \A j \in DOMAIN old : ~SameReview(old[j], Key(r, m))
    BY NextRun
  <1>5. /\ n \in Nat /\ 1 \in 1..n /\ n \in 1..n /\ \A m \in 1..n : m \in 1..MaxAttempts
    BY Constants
  <1> HIDE DEF r, old, Proceeds, Stops
  <1>6. /\ Key(r, 1) \in keys
        /\ \A k \in keys : /\ k \in RunKey /\ k.reviewer = r /\ k.stage = active_stage
                           /\ k.clarification_id = active_clarification_id
                           /\ k \in DOMAIN run_status'
                           /\ run_status'[k] \in {last, "failed"}
    BY <1>1, <1>4, <1>5, KeyFields
  <1> HIDE DEF keys
  <1>7. \A k \in DOMAIN run_status :
            Settled(k) => k \in DOMAIN run_status' /\ run_status'[k] = run_status[k]
    BY <1>1, <1>4, <1>6 DEF RunsOf
  <1>9. ASSUME NEW j \in stage_reviewers, j # i
        PROVE  RunsOf(Candidates[j])' = RunsOf(Candidates[j]) /\ RunsOf(Candidates[j]) \cap keys = {}
    <2>1. Candidates[j] # r
      BY <1>4, <1>9, CandidatesDistinct DEF r
    <2> QED BY <1>1, <1>3, <1>6, <2>1 DEF RunsOf
  <1>10. ASSUME NEW k \in DOMAIN run_status, k \notin keys, Open(k) PROVE Open(k)'
    <2>1. PICK j \in stage_reviewers : k \in RunsOf(Candidates[j])
      BY <1>10 DEF Open
    <2>2. j # i
      <3>1. k \in RunsOf(r) => k = Key(r, 1)
        BY <1>4
      <3> QED BY <1>6, <1>10, <2>1, <3>1 DEF r
    <2>3. j \in stage_reviewers' /\ pc' \in {"run", "running"}
      BY <1>2, <2>2 DEF Proceeds, Stops
    <2> QED BY <1>3, <1>9, <2>1, <2>2, <2>3 DEF Open
  <1>11. RunsPlaced'
    <2>1. pc' # "select"
      BY <1>2 DEF Proceeds, Stops
    <2> QED BY <1>1, <1>4, <1>6, <2>1, StagePlaced
  <1>12. RunsSettled'
    <2>1. ASSUME NEW k \in DOMAIN run_status' PROVE (Settled(k) \/ Open(k))'
      <3>1. CASE k \in keys
        BY <1>6, <3>1 DEF Settled
      <3>2. CASE k \notin keys
        <4>1. k \in DOMAIN run_status /\ (Settled(k) \/ Open(k))
          BY <1>1, <3>2 DEF RunsInv, RunsSettled
        <4> QED BY <1>7, <1>10, <3>2, <4>1 DEF Settled
      <3> QED BY <3>1, <3>2
    <2>2. pc' \in {"run", "running"}
      BY <1>2 DEF Proceeds, Stops
    <2>3. ASSUME raised' = None, NEW j \in stage_reviewers'
          PROVE  /\ Key(Candidates[j], 1) \in DOMAIN run_status'
                 /\ \A k \in RunsOf(Candidates[j])' :
                       k.attempt = 1 /\ run_status'[k] \in {"selected", "running"}
      <3>1. j \in stage_reviewers /\ j # i
        BY <1>2, <2>3 DEF Proceeds, Stops
      <3>2. /\ Key(Candidates[j], 1) \in DOMAIN run_status
            /\ \A k \in RunsOf(Candidates[j]) :
                  /\ k \in DOMAIN run_status
                  /\ k.attempt = 1 /\ run_status[k] \in {"selected", "running"}
        BY <3>1 DEF RunsInv, RunsSettled, RunsOf
      <3>3. \A k \in RunsOf(Candidates[j])' : k \in RunsOf(Candidates[j]) /\ k \notin keys
        BY <1>9, <3>1
      <3> QED BY <1>1, <3>2, <3>3
    <2> QED BY <1>3, <2>1, <2>2, <2>3 DEF RunsSettled
  <1>13. ResultsSettled'
    <2>1. old \in Seq(RunKey) /\ NoReviewRepeated /\ old = reviewer_results
      BY DEF ReviewInv, TypeOK, RunsInv, ResultsSettled, old
    <2>2. /\ new \in Seq(RunKey) /\ DOMAIN new = 1..n /\ \A m \in 1..n : new[m] = Key(r, m)
      <3>1. new \in [1..n -> RunKey]
        BY <1>4, <1>5
      <3> QED BY <1>5, <3>1, SeqDef
    <2> HIDE DEF new
    <2>3. \A j \in DOMAIN old : /\ old[j] \in DOMAIN run_status
                                /\ run_status[old[j]] \in {"completed", "failed"}
      BY DEF RunsInv, ResultsSettled, old
    <2>4. \A j \in DOMAIN old : old[j] \in DOMAIN run_status' /\ run_status'[old[j]] = run_status[old[j]]
      BY <1>7, <2>3 DEF Settled
    <2>5. \A j \in DOMAIN old, m \in DOMAIN new : ~SameReview(old[j], new[m])
      BY <1>4, <1>5, <2>2
    <2>6. \A j, m \in DOMAIN new :
              j < m => new[j].attempt < new[m].attempt /\ run_status'[new[j]] = "failed"
      BY <1>1, <1>5, <2>2, KeyFields
    <2>7. reviewer_results' = old \o new
      BY <1>1 DEF new
    <2>8. NoReviewRepeated'
      <3>1. \A j \in DOMAIN old : run_status'[old[j]] = run_status[old[j]]
        BY <2>4
      <3> QED BY <2>1, <2>2, <2>5, <2>6, <2>7, <3>1, ResultsAppended
    <2>9. ASSUME NEW j \in DOMAIN (old \o new)
          PROVE  (old \o new)[j] \in DOMAIN run_status'
                 /\ run_status'[(old \o new)[j]] \in {"completed", "failed"}
      <3>1. \/ j \in DOMAIN old /\ (old \o new)[j] = old[j]
            \/ \E m \in DOMAIN new : (old \o new)[j] = new[m]
        <4>1. /\ DOMAIN old = 1..Len(old) /\ Len(old) \in Nat
              /\ DOMAIN new = 1..Len(new) /\ Len(new) \in Nat
              /\ DOMAIN (old \o new) = 1..(Len(old) + Len(new))
              /\ \A m \in 1..Len(old) : (old \o new)[m] = old[m]
              /\ \A m \in 1..Len(new) : (old \o new)[Len(old) + m] = new[m]
          BY <2>1, <2>2, ConcatProperties
        <4>2. j \in 1..Len(old) \/ (j - Len(old) \in 1..Len(new) /\ j = Len(old) + (j - Len(old)))
          BY <4>1
        <4> QED BY <4>1, <4>2
      <3>2. \A m \in DOMAIN new : /\ new[m] \in DOMAIN run_status'
                                  /\ run_status'[new[m]] \in {"completed", "failed"}
        BY <1>1, <1>6, <2>2 DEF keys
      <3> QED BY <2>3, <2>4, <3>1, <3>2
    <2> QED BY <2>7, <2>8, <2>9 DEF ResultsSettled
  <1>14. FailuresKept'
    <2> SUFFICES ASSUME Proceeds, NEW k \in DOMAIN run_status', k.reviewer \in Required
                 PROVE  Passed(k)' \/ Open(k)' \/ errors' # <<>>
      BY <1>2 DEF FailuresKept, Proceeds, Stops
    <2>1. CASE k \notin keys
      <3>1. k \in DOMAIN run_status /\ (Passed(k) \/ Open(k) \/ errors # <<>>)
        BY <1>1, <2>1 DEF RunsInv, FailuresKept
      <3>2. Passed(k) => Passed(k)'
        BY <1>7 DEF Passed, Settled
      <3>3. errors # <<>> => errors' # <<>>
        BY <1>2 DEF Proceeds, Stops
      <3> QED BY <1>10, <2>1, <3>1, <3>2, <3>3
    <2>2. CASE k \in keys /\ last = "completed"
      <3>1. k \in RunKey /\ k.reviewer = r /\ k.stage = active_stage
            /\ k.clarification_id = active_clarification_id
        BY <1>6, <2>2
      <3>2. [k EXCEPT !.attempt = n] = Key(r, n)
        BY <3>1 DEF RunKey, Key
      <3>3. Key(r, n) \in DOMAIN run_status' /\ run_status'[Key(r, n)] = "completed"
        BY <1>1, <1>5, <2>2 DEF keys
      <3> QED BY <3>2, <3>3 DEF Passed
    <2>3. CASE k \in keys /\ last = "failed"
      BY <1>2, <1>6, <2>3 DEF Proceeds, Stops
    <2> QED BY <2>1, <2>2, <2>3
  <1>15. StagesRouted'
    <2>1. \A s : Routed(s) => Routed(s)'
      BY <1>1 DEF Routed
    <2> QED BY <1>3, <2>1 DEF RunsInv, StagesRouted, Elems
  <1>16. NotesExplained'
    <2>1. CASE UNCHANGED local_notes
      BY <1>7, <2>1, NotesKept
    <2>2. CASE last = "failed" /\ \E note \in Note :
                   /\ note.reviewer = r /\ note.stage = active_stage
                   /\ local_notes' = WithNotes({note})
      <3>1. PICK note \in Note : /\ note.reviewer = r /\ note.stage = active_stage
                                 /\ local_notes' = WithNotes({note})
        BY <2>2
      <3> SUFFICES ASSUME NEW m \in Note
                   PROVE  /\ local_notes'[m] >= 1 =>
                                 \E k \in DOMAIN run_status' :
                                     /\ k.reviewer = m.reviewer /\ k.stage = m.stage
                                     /\ run_status'[k] \in {"failed", "skipped"}
                          /\ local_notes'[m] >= 2 => RepeatsANote(m.reviewer)'
        BY DEF NotesExplained
      <3>2. CASE m = note
        <4> DEFINE k == Key(r, n)
        <4>1. /\ k \in DOMAIN run_status' /\ run_status'[k] = "failed"
              /\ k.reviewer = m.reviewer /\ k.stage = active_stage
              /\ k.clarification_id = active_clarification_id
          BY <1>1, <1>5, <2>2, <3>1, <3>2, KeyFields DEF keys
        <4>2. local_notes'[m] = local_notes[m] + 1
          BY <3>1, <3>2 DEF WithNotes
        <4>3. \A l \in RunsOf(m.reviewer) : ~Settled(l)
          BY <1>4, <3>1, <3>2
        <4> HIDE DEF k
        <4> QED BY <1>7, <3>1, <3>2, <4>1, <4>2, <4>3, NoteExplained
      <3>3. CASE m # note
        <4>1. local_notes'[m] = local_notes[m]
          BY <3>1, <3>3 DEF WithNotes
        <4>2. RepeatsANote(m.reviewer) => RepeatsANote(m.reviewer)'
          BY <1>7 DEF RepeatsANote, Settled
        <4> QED BY <1>7, <4>1, <4>2 DEF RunsInv, NotesExplained, Settled
      <3> QED BY <3>2, <3>3
    <2> QED BY <1>2, <2>1, <2>2
  <1>17. BudgetKept'
    <2> DEFINE firsts == Cardinality(FirstAttempts(old))
               size == Cardinality(stage_reviewers)
               spend == size * MaxAttempts
               left == (size - 1) * MaxAttempts
    <2>1. old \in Seq(RunKey) /\ retained_reviewer_count \in Nat /\ planned_live_calls \in Nat
      BY DEF ReviewInv, TypeOK, old
    <2>2. new \in Seq(RunKey) /\ Len(new) = n /\ \A m \in 1..n : new[m] = Key(r, m)
      <3>1. new \in [1..n -> RunKey]
        BY <1>4, <1>5
      <3> QED BY <1>5, <3>1, SeqDef
    <2> HIDE DEF new
    <2>3. /\ firsts \in Nat /\ Cardinality(FirstAttempts(reviewer_results')) = firsts + 1
      <3>1. /\ new[1].attempt = 1 /\ Len(new) >= 1
            /\ \A m \in 2..Len(new) : new[m].attempt # 1
        BY <1>5, <2>2, KeyFields
      <3>2. reviewer_results' = old \o new
        BY <1>1 DEF new
      <3> QED BY <2>1, <2>2, <3>1, <3>2, OneMoreFirst
    <2>4. Len(reviewer_results') = Len(old) + n /\ Len(old) \in Nat
      BY <1>1, <1>5, <2>1, <2>2, ConcatProperties DEF new
    <2>5. /\ size \in Nat /\ size >= 1 /\ Cardinality(stage_reviewers \ {i}) = size - 1
      BY NextRun
    <2>6. /\ firsts + size <= retained_reviewer_count
          /\ Live => Len(old) + spend <= planned_live_calls
          /\ planned_live_calls <= MaxLiveCalls /\ retained_reviewer_count <= MaxReviewers
      BY DEF RunsInv, BudgetKept, old
    <2> HIDE DEF firsts, size
    <2>7. spend \in Nat /\ spend >= MaxAttempts /\ left + MaxAttempts = spend /\ left \in Nat
      <3>1. size - 1 \in Nat
        BY <2>5
      <3> QED BY <2>5, <3>1, OneReviewerLess, Constants
    <2> HIDE DEF spend, left
    <2>8. /\ firsts + 1 <= retained_reviewer_count
          /\ firsts + 1 + (size - 1) <= retained_reviewer_count
          /\ Live => /\ Len(old) + n <= planned_live_calls
                     /\ Len(old) + n + left <= planned_live_calls
      BY <1>5, <2>1, <2>3, <2>4, <2>5, <2>6, <2>7, Constants
    <2>9. raised' = None => Cardinality(stage_reviewers') = size - 1
      BY <1>2, <2>5 DEF Proceeds, Stops
    <2>10. UNCHANGED <<retained_reviewer_count, planned_live_calls>>
      BY DEF budgetVars
    <2> QED BY <2>3, <2>4, <2>6, <2>8, <2>9, <2>10 DEF BudgetKept, FirstAttempts, left
  <1> QED BY <1>11, <1>12, <1>13, <1>14, <1>15, <1>16, <1>17 DEF RunsInv

LEMMA FinishReviewerRuns ==
    ASSUME ReviewInv, CursorFacts, RunsInv, FinishReviewer
    PROVE  RunsInv'
  <1>1. /\ pc = "running" /\ raised = None /\ InStageUnchanged /\ UNCHANGED budgetVars
        /\ \E i \in stage_reviewers :
              \/ Rejected(i)
              \/ \E n \in 1..MaxAttempts, last \in {"completed", "failed"} : Executed(i, n, last)
    BY FinishReviewerEffect
  <1> QED BY <1>1, RejectedRuns, ExecutedRuns

LEMMA PlacedAfter ==
    (ReviewInv /\ CursorFacts =>
         /\ active_stage \notin Elems(completed_stages)
         /\ active_stage \in NormalStages /\ stage_queue = <<>> =>
                active_stage = "logic_review")'
  <1>1. ReviewInv /\ CursorFacts =>
            /\ active_stage \notin Elems(completed_stages)
            /\ active_stage \in NormalStages /\ stage_queue = <<>> =>
                   active_stage = "logic_review"
    BY CursorPlaces
  <1> QED BY <1>1, PTL

LEMMA ElemsAppend ==
    ASSUME NEW S, NEW s \in Seq(S), NEW e \in S
    PROVE  Elems(Append(s, e)) = Elems(s) \cup {e}
  <1>1. /\ DOMAIN s = 1..Len(s) /\ Len(s) \in Nat
        /\ DOMAIN Append(s, e) = 1..(Len(s) + 1)
        /\ \A i \in 1..Len(s) : Append(s, e)[i] = s[i]
        /\ Append(s, e)[Len(s) + 1] = e
    BY AppendProperties
  <1>2. 1..(Len(s) + 1) = 1..Len(s) \cup {Len(s) + 1}
    BY <1>1
  <1> QED BY <1>1, <1>2 DEF Elems

LEMMA ElemsTail ==
    ASSUME NEW S, NEW s \in Seq(S), s # <<>>, NEW x \in Elems(s)
    PROVE  x = Head(s) \/ x \in Elems(Tail(s))
  <1>1. /\ DOMAIN s = 1..Len(s) /\ Len(s) \in Nat /\ Head(s) = s[1]
        /\ DOMAIN Tail(s) = 1..(Len(s) - 1)
        /\ \A i \in 1..(Len(s) - 1) : Tail(s)[i] = s[i + 1]
    OBVIOUS
  <1>2. PICK i \in 1..Len(s) : x = s[i]
    BY <1>1 DEF Elems
  <1>3. CASE i = 1
    BY <1>1, <1>2, <1>3
  <1>4. CASE i # 1
    <2>1. i - 1 \in 1..(Len(s) - 1) /\ i = (i - 1) + 1
      BY <1>1, <1>4
    <2>2. x = Tail(s)[i - 1] /\ i - 1 \in DOMAIN Tail(s)
      BY <1>1, <1>2, <2>1
    <2> QED BY <2>2 DEF Elems
  <1> QED BY <1>3, <1>4

\* The loop head moves the cursor.
LEMMA CursorRuns ==
    ASSUME ReviewInv, CursorFacts, RunsInv, ReviewInv', CursorFacts', pc = "loop",
           Cursor!AdvanceOrFinishStage, UNCHANGED run_status,
           pc' = "select" <=> active_stage # ClarificationReview /\ stage_queue # <<>>
    PROVE  RunsPlaced' /\ StagesRouted'
  <1> USE Constants
  <1>1. RunsPlaced /\ StagesRouted
    BY DEF RunsInv
  <1>2. /\ active_stage' \in ReviewStage \cup {None}
        /\ stage_queue \in Seq(NormalStages) /\ completed_stages \in Seq(NormalStages)
        /\ resumed \in Seq(ClarificationIds) /\ ready_clarification_ids \in Seq(ClarificationIds)
    BY DEF ReviewInv, TypeOK, Cursor!TypeOK, ReviewStage, NormalStages
  <1>3. /\ active_stage = ClarificationReview => suspended_stage \in NormalStages
        /\ active_stage # ClarificationReview => suspended_stage = None
    BY CursorPlaces
  <1>4. \A s : Routed(s)' <=> Routed(s)
    BY DEF Routed
  <1>5. CASE Cursor!StartFirstStage
    <2>1. /\ active_stage = None /\ stage_queue # <<>> /\ active_stage' = Head(stage_queue)
          /\ UNCHANGED <<suspended_stage, completed_stages, active_clarification_id, resumed>>
      BY <1>5 DEF Cursor!StartFirstStage
    <2>2. completed_stages = <<>> /\ suspended_stage = None /\ None # ClarificationReview
      BY <1>3, <2>1, CursorPlaces
    <2>3. active_stage' \in NormalStages /\ pc' = "select"
      BY <1>2, <2>1, <2>2
    <2>4. \A k \in DOMAIN run_status :
              k.stage = ClarificationReview /\ k.clarification_id \in Elems(resumed)
      BY <1>1, <2>1, <2>2 DEF RunsPlaced, Elems
    <2>5. RunsPlaced'
      BY <2>1, <2>3, <2>4 DEF RunsPlaced, Elems
    <2>6. StagesRouted'
      BY <2>1, <2>2, <2>3 DEF StagesRouted, Elems
    <2> QED BY <2>5, <2>6
  <1>6. CASE Cursor!StayFinished
    <2>1. /\ UNCHANGED <<active_stage, suspended_stage, completed_stages,
                         active_clarification_id, resumed>>
          /\ pc' # "select"
      BY <1>6 DEF Cursor!StayFinished, Cursor!vars, Cursor!position
    <2>2. RunsPlaced'
      BY <1>1, <2>1 DEF RunsPlaced, Elems
    <2>3. StagesRouted'
      BY <1>1, <1>4, <2>1 DEF StagesRouted, Elems
    <2> QED BY <2>2, <2>3
  <1>7. CASE Cursor!RestoreSuspendedStage
    <2>1. /\ active_stage = ClarificationReview /\ active_stage' = suspended_stage
          /\ suspended_stage' = None /\ active_clarification_id' = None
          /\ UNCHANGED <<completed_stages, resumed>>
      BY <1>7 DEF Cursor!RestoreSuspendedStage, ClarificationReview
    <2>2. suspended_stage \in NormalStages /\ pc' # "select"
      BY <1>3, <2>1
    <2>3. RunsPlaced'
      BY <1>1, <2>1, <2>2 DEF RunsPlaced, Elems
    <2>4. StagesRouted'
      BY <1>1, <1>4, <2>1, <2>2 DEF StagesRouted, Elems
    <2> QED BY <2>3, <2>4
  <1>8. CASE Cursor!EnterClarificationReview
    <2> DEFINE id == Head(ready_clarification_ids)
    <2>1. /\ active_stage \in NormalStages /\ ready_clarification_ids # <<>>
          /\ active_stage' = ClarificationReview /\ suspended_stage' = active_stage
          /\ active_clarification_id' = id /\ resumed' = Append(resumed, id)
          /\ UNCHANGED completed_stages
      BY <1>8 DEF Cursor!EnterClarificationReview, ClarificationReview, NormalStages
    <2>2. id \notin Elems(resumed)
      BY <2>1, ReadyIsFresh
    <2>3. Elems(resumed)' = Elems(resumed) \cup {id}
      <3>1. id \in ClarificationIds
        BY <1>2, <2>1
      <3>2. Elems(Append(resumed, id)) = Elems(resumed) \cup {id}
        BY <1>2, <3>1, ElemsAppend
      <3> QED BY <2>1, <3>2
    <2> HIDE DEF id
    <2>4. RunsPlaced'
      <3>1. active_stage # ClarificationReview /\ suspended_stage = None
        BY <1>3, <2>1
      <3>2. \A k \in DOMAIN run_status :
                \/ k.stage = ClarificationReview /\ k.clarification_id \in Elems(resumed)
                \/ /\ k.stage \in NormalStages /\ k.clarification_id = None
                   /\ k.stage \in Elems(completed_stages) \cup {active_stage}
        BY <1>1, <3>1 DEF RunsPlaced
      <3>3. Elems(completed_stages)' = Elems(completed_stages)
        BY <2>1 DEF Elems
      <3> QED BY <2>1, <2>2, <2>3, <3>2, <3>3 DEF RunsPlaced
    <2>5. StagesRouted'
      BY <1>1, <1>4, <2>1 DEF StagesRouted, Elems
    <2> QED BY <2>4, <2>5
  <1>9. CASE Cursor!CompleteStage
    <2>1. /\ active_stage \in NormalStages
          /\ completed_stages' = Append(completed_stages, active_stage)
          /\ stage_queue # <<>> => active_stage' = Head(stage_queue)
          /\ stage_queue = <<>> => active_stage' = None
          /\ UNCHANGED <<suspended_stage, active_clarification_id, resumed>>
      BY <1>9 DEF Cursor!CompleteStage, NormalStages
    <2>2. Elems(completed_stages)' = Elems(completed_stages) \cup {active_stage}
      <3>1. Elems(Append(completed_stages, active_stage))
                = Elems(completed_stages) \cup {active_stage}
        BY <1>2, <2>1, ElemsAppend
      <3> QED BY <2>1, <3>1
    <2>3. /\ active_stage # ClarificationReview /\ suspended_stage = None
          /\ active_stage' \in NormalStages \cup {None}
          /\ pc' = "select" <=> stage_queue # <<>>
      BY <1>2, <1>3, <2>1
    <2>4. RunsPlaced'
      <3>1. \A k \in DOMAIN run_status :
                \/ k.stage = ClarificationReview /\ k.clarification_id \in Elems(resumed)
                \/ /\ k.stage \in NormalStages /\ k.clarification_id = None
                   /\ k.stage \in Elems(completed_stages)'
        BY <1>1, <2>2, <2>3 DEF RunsPlaced
      <3>2. active_stage' \notin Elems(completed_stages)'
        BY PlacedAfter
      <3>3. Elems(resumed)' = Elems(resumed)
        BY <2>1 DEF Elems
      <3> QED BY <2>1, <2>3, <3>1, <3>2, <3>3 DEF RunsPlaced
    <2>5. StagesRouted'
      BY <1>1, <1>4, <2>1, <2>2, <2>3 DEF StagesRouted, Elems
    <2> QED BY <2>4, <2>5
  <1> QED BY <1>5, <1>6, <1>7, <1>8, <1>9 DEF Cursor!AdvanceOrFinishStage

\* The steps between the stages leave the runs alone.
LEMMA QuietRuns ==
    ASSUME RunsInv, stage_reviewers = {}, raised = None, RunsPlaced', StagesRouted',
           UNCHANGED <<run_status, reviewer_results, errors, local_notes, stage_reviewers,
                       retained_reviewer_count, planned_live_calls>>
    PROVE  RunsInv'
  <1>1. \A k : ~Open(k)
    BY DEF Open
  <1>2. RunsSettled'
    BY <1>1 DEF RunsInv, RunsSettled, Settled
  <1>3. ResultsSettled'
    BY DEF RunsInv, ResultsSettled, NoReviewRepeated
  <1>4. FailuresKept'
    <2>1. \A k : Passed(k) => Passed(k)'
      BY DEF Passed
    <2> QED BY <1>1, <2>1 DEF RunsInv, FailuresKept
  <1>5. NotesExplained'
    BY NotesKept
  <1>6. BudgetKept'
    BY DEF RunsInv, BudgetKept, FirstAttempts
  <1> QED BY <1>2, <1>3, <1>4, <1>5, <1>6 DEF RunsInv

LEMMA RunsInvNext ==
    ASSUME ReviewInv, CursorFacts, RunsInv, [Next]_vars
    PROVE  RunsInv'
  <1> USE DEF cursorVars, clarificationVars, budgetVars, outputVars
  <1>0. ReviewInv' /\ CursorFacts'
    BY ReviewInvNext, CursorFactsNext
  <1>1. pc \notin {"run", "running"} => stage_reviewers = {}
    BY DEF RunsInv, RunsSettled
  <1>2. ASSUME UNCHANGED <<active_stage, suspended_stage, completed_stages,
                           active_clarification_id, resumed, run_status>>,
               pc # "select", pc' # "select"
        PROVE  RunsPlaced' /\ StagesRouted'
    <2>1. \A s : Routed(s)' <=> Routed(s)
      BY <1>2 DEF Routed
    <2> QED BY <1>2, <2>1 DEF RunsInv, RunsPlaced, StagesRouted, Elems
  <1>3. CASE AdvanceLoop
    <2>1. /\ pc = "loop" /\ raised = None /\ stage_queue # <<>> /\ Cursor!AdvanceOrFinishStage
          /\ pc' = IF active_stage = ClarificationReview THEN "loop" ELSE "select"
          /\ UNCHANGED <<run_status, reviewer_results, errors, local_notes, stage_reviewers,
                         retained_reviewer_count, planned_live_calls>>
      BY <1>3 DEF AdvanceLoop
    <2>2. RunsPlaced' /\ StagesRouted'
      BY <1>0, <2>1, CursorRuns
    <2> QED BY <1>1, <2>1, <2>2, QuietRuns
  <1>4. CASE LeaveLoop
    <2>1. /\ pc = "loop" /\ raised = None /\ stage_queue = <<>> /\ Cursor!AdvanceOrFinishStage
          /\ pc' = "check"
          /\ UNCHANGED <<run_status, reviewer_results, errors, local_notes, stage_reviewers,
                         retained_reviewer_count, planned_live_calls>>
      BY <1>4 DEF LeaveLoop
    <2>2. RunsPlaced' /\ StagesRouted'
      BY <1>0, <2>1, CursorRuns
    <2> QED BY <1>1, <2>1, <2>2, QuietRuns
  <1>5. CASE SelectReviewers
    BY <1>5, SelectReviewersRuns
  <1>6. CASE StartReviewer
    BY <1>6, StartReviewerRuns
  <1>7. CASE FinishReviewer
    BY <1>7, FinishReviewerRuns
  <1>8. CASE PassGate \/ BlockGate
    <2>1. /\ pc = "run" /\ raised = None /\ stage_reviewers = {} /\ pc' \in {"loop", "ingest"}
          /\ UNCHANGED <<active_stage, suspended_stage, completed_stages,
                         active_clarification_id, resumed, run_status, reviewer_results, errors,
                         local_notes, stage_reviewers, retained_reviewer_count,
                         planned_live_calls>>
      BY <1>8 DEF PassGate, BlockGate
    <2> QED BY <1>2, <2>1, QuietRuns
  <1>9. CASE SkipUnanswered \/ IngestAnswer \/ FinishIngest
    <2>1. /\ pc = "ingest" /\ raised = None /\ pc' \in {"ingest", "loop", "stop"}
          /\ UNCHANGED <<active_stage, suspended_stage, completed_stages,
                         active_clarification_id, resumed, run_status, reviewer_results, errors,
                         local_notes, stage_reviewers, retained_reviewer_count,
                         planned_live_calls>>
      BY <1>9 DEF SkipUnanswered, IngestAnswer, FinishIngest
    <2> QED BY <1>1, <1>2, <2>1, QuietRuns
  <1>10. CASE CheckRawOutputs \/ EmitResult
    <2>1. /\ pc \in {"check", "stop", "core"} /\ raised = None
          /\ pc' \in {"check", "stop", "core", "done"}
          /\ UNCHANGED <<active_stage, suspended_stage, completed_stages,
                         active_clarification_id, resumed, run_status, reviewer_results, errors,
                         local_notes, stage_reviewers, retained_reviewer_count,
                         planned_live_calls>>
      BY <1>10 DEF CheckRawOutputs, EmitResult
    <2> QED BY <1>1, <1>2, <2>1, QuietRuns
  <1>11. CASE UNCHANGED vars
    <2>1. UNCHANGED <<active_stage, suspended_stage, completed_stages, active_clarification_id,
                      resumed, routing_requests, pc, raised, run_status, reviewer_results,
                      errors, local_notes, stage_reviewers, retained_reviewer_count,
                      planned_live_calls>>
      BY <1>11 DEF vars
    <2>2. /\ Candidates' = Candidates /\ \A r : RunsOf(r)' = RunsOf(r)
          /\ \A r, n : Key(r, n)' = Key(r, n)
      BY <2>1 DEF Candidates, RunsOf, Key
    <2>3. \A k : /\ Settled(k)' <=> Settled(k)
                 /\ Open(k)' <=> Open(k)
                 /\ Passed(k)' <=> Passed(k)
      BY <2>1, <2>2 DEF Settled, Open, Passed
    <2>4. RunsPlaced' /\ StagesRouted'
      BY <2>1 DEF RunsInv, RunsPlaced, StagesRouted, Routed, Elems
    <2>5. RunsSettled' /\ ResultsSettled'
      BY <2>1, <2>2, <2>3 DEF RunsInv, RunsSettled, ResultsSettled, NoReviewRepeated
    <2>6. FailuresKept' /\ BudgetKept'
      BY <2>1, <2>3 DEF RunsInv, FailuresKept, BudgetKept, FirstAttempts
    <2>7. NotesExplained'
      BY <2>1, NotesKept
    <2> QED BY <2>4, <2>5, <2>6, <2>7 DEF RunsInv
  <1> QED
    BY <1>3, <1>4, <1>5, <1>6, <1>7, <1>8, <1>9, <1>10, <1>11 DEF Next

LEMMA RunsInvAlways == Spec => []RunsInv
  <1>1. Init => RunsInv
    <2> SUFFICES ASSUME Init PROVE RunsInv
      OBVIOUS
    <2> USE DEF Init, Cursor!Init
    <2>1. RunsPlaced
      BY Constants DEF RunsPlaced
    <2>2. RunsSettled /\ ResultsSettled /\ FailuresKept
      BY DEF RunsSettled, ResultsSettled, NoReviewRepeated, FailuresKept
    <2>3. StagesRouted
      BY Constants DEF StagesRouted, Elems
    <2>4. NotesExplained
      BY DEF NotesExplained
    <2>5. BudgetKept
      <3>1. FirstAttempts(reviewer_results) = {}
        BY DEF FirstAttempts
      <3>2. /\ Cardinality(FirstAttempts(reviewer_results)) = 0
            /\ Cardinality(stage_reviewers) = 0 /\ Len(reviewer_results) = 0
        BY <3>1, FS_EmptySet
      <3> QED BY <3>2, Constants DEF BudgetKept
    <2> QED BY <2>1, <2>2, <2>3, <2>4, <2>5 DEF RunsInv
  <1>2. ReviewInv /\ CursorFacts /\ RunsInv /\ [Next]_vars => RunsInv'
    BY RunsInvNext
  <1> QED BY <1>1, <1>2, ReviewInvAlways, CursorFactsAlways, PTL DEF Spec

\* A run that has settled keeps its status.
LEMMA SettledKept ==
    ASSUME ReviewInv, RunsInv, [Next]_vars, NEW k \in DOMAIN run_status, Settled(k)
    PROVE  k \in DOMAIN run_status' /\ run_status'[k] = run_status[k]
  <1>1. CASE SelectReviewers
    BY <1>1, SelectReviewersEffect DEF SelectEffect
  <1>2. CASE StartReviewer
    <2>1. PICK i \in stage_reviewers :
              run_status' = SetStatus(run_status, {Key(Candidates[i], 1)}, "running")
      BY <1>2 DEF StartReviewer
    <2>2. /\ Key(Candidates[i], 1) \in DOMAIN run_status
          /\ run_status[Key(Candidates[i], 1)] \in {"selected", "running"}
      <3>1. pc = "run" /\ raised = None
        BY <1>2 DEF StartReviewer
      <3> QED BY <2>1, <3>1, KeyFields DEF RunsInv, RunsSettled, RunsOf
    <2> QED BY <2>1, <2>2 DEF SetStatus, Settled
  <1>3. CASE FinishReviewer
    <2>1. /\ pc = "running" /\ raised = None
          /\ \E i \in stage_reviewers :
                \/ Rejected(i)
                \/ \E n \in 1..MaxAttempts, last \in {"completed", "failed"} : Executed(i, n, last)
      BY <1>3, FinishReviewerEffect
    <2>2. PICK i \in stage_reviewers :
              \/ Rejected(i)
              \/ \E n \in 1..MaxAttempts, last \in {"completed", "failed"} : Executed(i, n, last)
      BY <2>1
    <2>3. CASE Rejected(i)
      BY <2>3 DEF Rejected
    <2>4. ASSUME NEW n \in 1..MaxAttempts, NEW last \in {"completed", "failed"},
                 Executed(i, n, last)
          PROVE  k \in DOMAIN run_status' /\ run_status'[k] = run_status[k]
      <3>1. k \notin {Key(Candidates[i], m) : m \in 1..n}
        <4>1. k \notin RunsOf(Candidates[i])
          BY <2>1, NextRun
        <4> QED BY <4>1, KeyFields DEF RunsOf
      <3> QED BY <2>4, <3>1 DEF Executed
    <2> QED BY <2>2, <2>3, <2>4
  <1>4. CASE UNCHANGED run_status
    BY <1>4
  <1>5. AdvanceLoop \/ LeaveLoop \/ PassGate \/ BlockGate \/ SkipUnanswered \/ IngestAnswer
            \/ FinishIngest \/ CheckRawOutputs \/ EmitResult \/ UNCHANGED vars
            => UNCHANGED run_status
    BY DEF AdvanceLoop, LeaveLoop, PassGate, BlockGate, SkipUnanswered, IngestAnswer,
           FinishIngest, CheckRawOutputs, EmitResult, vars
  <1> QED BY <1>1, <1>2, <1>3, <1>4, <1>5 DEF Next

LEMMA EmittedNext ==
    ASSUME ReviewInv, Emitted, [Next]_vars
    PROVE  Emitted'
  <1>1. CASE EmitResult
    <2>1. /\ pc = "core" /\ raised = None /\ UNCHANGED <<findings, requests, errors, local_notes>>
          /\ \/ /\ result' = [post_enabled |-> PostEnabled, candidate |-> PostEnabled,
                              verdict |-> LocalVerdict]
                /\ DistinctIds(requests) /\ pc' = "done" /\ raised' = raised
             \/ /\ ~ (DistinctIds(findings) /\ DistinctIds(requests) /\ DistinctNotes)
                /\ raised' = "duplicate_item_id" /\ pc' = pc
      BY <1>1 DEF EmitResult, outputVars
    <2>2. result'.post_enabled /\ pc' = "done" =>
              errors = <<>> /\ Blocking(requests) = {} /\ DistinctIds(requests)
      <3>1. pc' = "done" => /\ DistinctIds(requests)
                            /\ result' = [post_enabled |-> PostEnabled,
                                          candidate |-> PostEnabled, verdict |-> LocalVerdict]
        BY <2>1
      <3>2. pc' = "done" => result'.post_enabled = PostEnabled
        BY <3>1
      <3>3. PostEnabled => errors = <<>> /\ Blocking(requests) = {}
        BY DEF PostEnabled
      <3> QED BY <3>1, <3>2, <3>3
    <2>3. /\ Blocking(requests)' = Blocking(requests)
          /\ DistinctIds(requests)' <=> DistinctIds(requests)
          /\ DistinctIds(findings)' <=> DistinctIds(findings)
          /\ DistinctNotes' <=> DistinctNotes
      BY <2>1 DEF Blocking, Blocks, DistinctIds, DistinctNotes
    <2>4. "duplicate_item_id" # None
      BY Constants
    <2> QED BY <2>1, <2>2, <2>3, <2>4 DEF Emitted, PostingEnabled
  <1>2. CASE UNCHANGED vars
    BY <1>2 DEF vars, outputVars, Emitted, PostingEnabled, Blocking, Blocks, DistinctIds,
            DistinctNotes
  <1>3. CASE pc' # "done" /\ raised' # "duplicate_item_id"
    BY <1>3 DEF Emitted, PostingEnabled
  <1>4. AdvanceLoop \/ LeaveLoop \/ StartReviewer \/ PassGate \/ BlockGate \/ SkipUnanswered
            \/ FinishIngest => pc' # "done" /\ raised' = None
    BY DEF AdvanceLoop, LeaveLoop, StartReviewer, PassGate, BlockGate, SkipUnanswered, FinishIngest
  <1>5. SelectReviewers \/ IngestAnswer \/ CheckRawOutputs =>
            pc' # "done" /\ raised' \in {None, "no_triage_reviewer", "request_not_pending",
                                         "raw_not_selected"}
    BY DEF SelectReviewers, IngestAnswer, CheckRawOutputs
  <1>6. FinishReviewer => pc' # "done" /\ raised' \in {None} \cup (RunErrors \ {"duplicate_item_id"})
    <2> SUFFICES ASSUME FinishReviewer
                 PROVE  pc' # "done" /\ raised' \in {None} \cup (RunErrors \ {"duplicate_item_id"})
      OBVIOUS
    <2> QED BY FinishReviewerEffect DEF Rejected, Executed, Ends
  <1> QED BY <1>1, <1>2, <1>3, <1>4, <1>5, <1>6, Constants DEF Next

LEMMA EmittedAlways == Spec => []Emitted
  <1>1. Init => Emitted
    BY Constants DEF Init, Emitted, PostingEnabled
  <1>2. ReviewInv /\ Emitted /\ [Next]_vars => Emitted'
    BY EmittedNext
  <1> QED BY <1>1, <1>2, ReviewInvAlways, PTL DEF Spec

(***************************************************************************)
(* The context budget bounds the whole run: the reviewers that ran and the *)
(* provider attempts stay within what was retained and planned, and these  *)
(* within max_reviewers and max_live_calls, clarification reviews included *)
(* and whatever error ends the run (context_budget.py:202-280,             *)
(* runner.py:466-493).                                                     *)
(***************************************************************************)
THEOREM BudgetAlwaysKept == Spec => []WithinBudget
  <1>1. RunsInv => WithinBudget
    BY DEF RunsInv, BudgetKept, FirstAttempts, WithinBudget
  <1> QED BY <1>1, RunsInvAlways, PTL

(***************************************************************************)
(* No review is executed again: what was executed has settled, so neither  *)
(* the selection nor a resumed clarification picks it a second time        *)
(* (reviewer_runs.py:59-120, runner.py:465-627).                           *)
(***************************************************************************)
THEOREM ReviewNeverRepeated == Spec => []NoReviewRepeated
  <1>1. RunsInv => NoReviewRepeated
    BY DEF RunsInv, ResultsSettled
  <1> QED BY <1>1, RunsInvAlways, PTL

(***************************************************************************)
(* A run that completed or was skipped keeps that status for good: a step  *)
(* changes only the run of the reviewer whose turn it is, which is open    *)
(* (reviewer_runs.py:86-120).                                              *)
(***************************************************************************)
THEOREM FinalStatusAlwaysKept == Spec => FinalStatusKept
  <1> DEFINE Kept == \A k \in DOMAIN run_status :
                         run_status[k] \in {"completed", "skipped"} =>
                             k \in DOMAIN run_status' /\ run_status'[k] = run_status[k]
  <1>1. ReviewInv /\ RunsInv /\ [Next]_vars => [Kept]_vars
    BY SettledKept DEF Settled
  <1> QED BY <1>1, ReviewInvAlways, RunsInvAlways, PTL DEF Spec, FinalStatusKept

(***************************************************************************)
(* A stage that is left has been reviewed by every reviewer routing        *)
(* triggered for it: each has a run, and none of the stage's runs is still *)
(* selected or running (runner.py:465-627).                                *)
(***************************************************************************)
THEOREM StageCompletedWhole == Spec => []CompletedStageAccounted
  <1>1. ReviewInv /\ CursorFacts /\ RunsInv => CompletedStageAccounted
    <2> SUFFICES ASSUME ReviewInv, CursorFacts, RunsInv, NEW i \in DOMAIN completed_stages,
                        NEW j \in DOMAIN StageSelection[completed_stages[i]]
                 PROVE  LET s == completed_stages[i]
                            reviewed == {k \in DOMAIN run_status :
                                            /\ k.reviewer = StageSelection[s][j] /\ k.stage = s}
                        IN  /\ reviewed # {}
                            /\ \A k \in reviewed :
                                   run_status[k] \in {"completed", "failed", "skipped"}
      BY DEF CompletedStageAccounted
    <2>1. completed_stages[i] \in Elems(completed_stages)
      BY DEF Elems
    <2>2. /\ completed_stages[i] \in NormalStages /\ completed_stages[i] # active_stage
      BY <2>1, CursorPlaces
    <2>3. Routed(completed_stages[i])
      BY <2>1, <2>2 DEF RunsInv, StagesRouted
    <2>4. \A k \in DOMAIN run_status : k.stage = completed_stages[i] => Settled(k)
      BY <2>2 DEF RunsInv, RunsSettled, Open, RunsOf
    <2> QED BY <2>3, <2>4 DEF Routed, Settled
  <1> QED BY <1>1, ReviewInvAlways, CursorFactsAlways, RunsInvAlways, PTL

(***************************************************************************)
(* Posting is enabled only if every run of a required reviewer, resumed    *)
(* ones included, passed in its last attempt or was deferred: one that     *)
(* failed has left an error, and no run is open at the end                 *)
(* (runner.py:566-591, 601-617, verdict.py:31-38).                         *)
(***************************************************************************)
THEOREM RequiredFailureAlwaysBlocks == Spec => []RequiredFailureBlocksPosting
  <1>1. RunsInv /\ Emitted => RequiredFailureBlocksPosting
    <2> SUFFICES ASSUME RunsInv, Emitted, PostingEnabled,
                        NEW k \in DOMAIN run_status, k.reviewer \in Required
                 PROVE  Passed(k)
      BY DEF RequiredFailureBlocksPosting, Passed
    <2>1. pc = "done" /\ raised = None /\ errors = <<>>
      BY DEF Emitted, PostingEnabled
    <2> QED BY <2>1 DEF RunsInv, FailuresKept, Open
  <1> QED BY <1>1, RunsInvAlways, EmittedAlways, PTL

(***************************************************************************)
(* The notes the graph writes end a run only if one reviewer failed or was *)
(* deferred in two clarification reviews: every note stands for a settled  *)
(* run, and the runs of a normal stage are settled once                    *)
(* (runner.py:797-812, 1100-1109).                                         *)
(***************************************************************************)
THEOREM NotesAlwaysKeepTheRun == Spec => []NotesKeepTheRun
  <1>1. ReviewInv /\ RunsInv /\ Emitted => NotesKeepTheRun
    <2> SUFFICES ASSUME ReviewInv, RunsInv, Emitted, raised = "duplicate_item_id",
                        DistinctIds(findings), DistinctIds(requests)
                 PROVE  \E r \in Reviewers : RepeatsANote(r)
      BY DEF NotesKeepTheRun
    <2>1. PICK n \in Note : ~ (local_notes[n] <= 1)
      BY DEF Emitted, DistinctNotes
    <2>2. local_notes[n] \in Nat /\ n.reviewer \in Reviewers
      BY DEF ReviewInv, TypeOK, Note
    <2>3. local_notes[n] >= 2
      BY <2>1, <2>2
    <2> QED BY <2>2, <2>3 DEF RunsInv, NotesExplained
  <1> QED BY <1>1, ReviewInvAlways, RunsInvAlways, EmittedAlways, PTL

-----------------------------------------------------------------------------
(***************************************************************************)
(* What becomes of an answer.                                              *)
(***************************************************************************)
\* The requests a reviewer raises are pending and of its stage.
Raised(reqs) ==
    \E new \in Seq(Request) :
        /\ reqs = requests \o new
        /\ \A i \in DOMAIN new : new[i].status = "pending" /\ new[i].stage = active_stage

LEMMA FinishReviewerRequests ==
    ASSUME ReviewInv, FinishReviewer
    PROVE  requests' = requests \/ Raised(requests')
  <1>1. pc = "running" /\ InStage
    BY DEF FinishReviewer, InStage
  <1>i. PICK i \in stage_reviewers :
            \E out \in PossibleOutputs(Candidates[i]), n \in Nat :
                \/ CompleteReviewer(Candidates[i], out, n)
                \/ FailReviewer(Candidates[i], out, n)
                \/ RejectMissingRawOutput(Candidates[i], out)
                \/ RejectRequiredFailure(Candidates[i], out, n)
    BY DEF FinishReviewer
  <1> DEFINE r == Candidates[i]
  <1>2. PICK out \in PossibleOutputs(r), n \in Nat :
            \/ CompleteReviewer(r, out, n) \/ FailReviewer(r, out, n)
            \/ RejectMissingRawOutput(r, out) \/ RejectRequiredFailure(r, out, n)
    BY <1>i
  <1> DEFINE new == RequestsOf(r, out)
  <1>3. r \in Reviewers /\ active_stage \in ReviewStage /\ out \in Output
    BY <1>1, <1>2, CandidatesTyped, OutputTyped DEF ReviewInv, StageActive
  <1>4. new \in Seq(Request)
    BY <1>3, ItemsTyped
  <1>5. \A j \in DOMAIN new : new[j].status = "pending" /\ new[j].stage = active_stage
    BY DEF RequestsOf
  <1>6. requests' = requests \/ requests' = requests \o new
    BY <1>2 DEF CompleteReviewer, FailReviewer, RejectMissingRawOutput, RejectRequiredFailure,
               outputVars
  <1> HIDE DEF new
  <1> QED BY <1>4, <1>5, <1>6 DEF Raised

LEMMA AppendedRequests ==
    ASSUME ReviewInv, Raised(requests')
    PROVE  /\ \A i \in DOMAIN requests : i \in DOMAIN requests' /\ requests'[i] = requests[i]
           /\ \A i \in DOMAIN requests' :
                  \/ i \in DOMAIN requests /\ requests'[i] = requests[i]
                  \/ requests'[i].status = "pending" /\ requests'[i].stage = active_stage
  <1>1. PICK new \in Seq(Request) :
            /\ requests' = requests \o new
            /\ \A i \in DOMAIN new : new[i].status = "pending" /\ new[i].stage = active_stage
    BY DEF Raised
  <1>2. requests \in Seq(Request)
    BY DEF ReviewInv, TypeOK
  <1>3. /\ DOMAIN requests = 1..Len(requests) /\ Len(requests) \in Nat
        /\ DOMAIN new = 1..Len(new) /\ Len(new) \in Nat
        /\ DOMAIN requests' = 1..(Len(requests) + Len(new))
        /\ \A j \in 1..Len(requests) : requests'[j] = requests[j]
        /\ \A j \in 1..Len(new) : requests'[Len(requests) + j] = new[j]
    BY <1>1, <1>2, ConcatProperties
  <1>4. \A j \in DOMAIN requests' :
            \/ j \in 1..Len(requests)
            \/ j - Len(requests) \in 1..Len(new) /\ j = Len(requests) + (j - Len(requests))
    BY <1>3
  <1> QED BY <1>1, <1>3, <1>4

\* Selecting and executing reviewers: the answer under review gets its runs.
LEMMA StageAnswers ==
    ASSUME ReviewInv, AnswersInv, InStage, InStageUnchanged,
           pc' \in {"select", "run", "running"},
           DOMAIN run_status \subseteq DOMAIN run_status',
           requests' = requests \/ Raised(requests'),
           pc = "select" =>
               \/ pc' = "select"
               \/ active_clarification_id \in Elems(clarifications) =>
                      \E k \in DOMAIN run_status' : k.clarification_id = active_clarification_id
    PROVE  AnswersInv'
  <1> USE DEF InStageUnchanged, cursorVars, clarificationVars
  <1>1. \A i \in DOMAIN requests' :
            \/ i \in DOMAIN requests /\ requests'[i] = requests[i]
            \/ requests'[i].status = "pending" /\ requests'[i].stage = active_stage
    BY AppendedRequests
  <1>2. RequestsCopied'
    BY DEF RequestsCopied
  <1>3. AnswersKnown'
    BY <1>1 DEF AnswersInv, AnswersKnown, Elems
  <1>4. LastStage'
    <2> SUFFICES ASSUME stage_queue = <<>>
                 PROVE  /\ active_stage = "logic_review" /\ ready_clarification_ids = <<>>
                        /\ \A i \in Blocking(requests') : requests'[i].stage = "logic_review"
      BY DEF LastStage
    <2>1. /\ active_stage = "logic_review" /\ ready_clarification_ids = <<>>
          /\ \A i \in Blocking(requests) : requests[i].stage = "logic_review"
      BY DEF AnswersInv, LastStage
    <2> QED BY <1>1, <2>1 DEF Blocking, Blocks
  <1>5. AnswersFollowed'
    <2> SUFFICES ASSUME NEW id \in Elems(clarifications)
                 PROVE  \/ ResumeRan(id)' \/ id \in Elems(routing_ready)
                        \/ pc' = "select" /\ id = active_clarification_id
      BY DEF AnswersFollowed, Elems
    <2>1. \/ ResumeRan(id) \/ id \in Elems(routing_ready)
          \/ pc = "select" /\ id = active_clarification_id
      BY DEF AnswersInv, AnswersFollowed, InStage
    <2>2. ResumeRan(id) => ResumeRan(id)'
      BY DEF ResumeRan
    <2>3. pc = "select" /\ id = active_clarification_id => pc' = "select" \/ ResumeRan(id)'
      BY DEF ResumeRan
    <2> QED BY <2>1, <2>2, <2>3
  <1> QED BY <1>2, <1>3, <1>4, <1>5 DEF AnswersInv

LEMMA ReviewersAnswers ==
    ASSUME ReviewInv, CursorFacts, RunsInv, AnswersInv,
           SelectReviewers \/ StartReviewer \/ FinishReviewer
    PROVE  AnswersInv'
  <1>1. CASE SelectReviewers
    <2>1. /\ SelectEffect /\ InStageUnchanged /\ requests' = requests
      BY <1>1, SelectReviewersEffect
    <2>2. pc = "select" /\ InStage
      BY <1>1 DEF SelectReviewers, InStage
    <2>3. /\ DOMAIN run_status' = DOMAIN run_status \cup KeysOf(DOMAIN Candidates)
          /\ pc' \in {"select", "run"}
      BY <2>1 DEF SelectEffect
    <2>4. ASSUME active_clarification_id \in Elems(clarifications)
          PROVE  \E k \in DOMAIN run_status' : k.clarification_id = active_clarification_id
      <3>1. active_clarification_id # None
        BY <2>4, Constants DEF ReviewInv, TypeOK, Cursor!TypeOK, Elems
      <3>2. active_stage = ClarificationReview
        BY <3>1, CursorPlaces
      <3>3. 1 \in DOMAIN Candidates
        BY <3>2 DEF Candidates
      <3> QED BY <2>3, <3>3, KeyFields DEF KeysOf
    <2> QED BY <2>1, <2>2, <2>3, <2>4, StageAnswers
  <1>2. CASE StartReviewer
    <2>1. /\ pc = "run" /\ InStage /\ InStageUnchanged /\ requests' = requests /\ pc' = "running"
          /\ DOMAIN run_status \subseteq DOMAIN run_status'
      BY <1>2 DEF StartReviewer, InStage, InStageUnchanged, outputVars, SetStatus
    <2> QED BY <2>1, StageAnswers
  <1>3. CASE FinishReviewer
    <2>1. /\ pc = "running" /\ InStageUnchanged /\ pc' \in {"run", "running"}
          /\ DOMAIN run_status \subseteq DOMAIN run_status'
      BY <1>3, FinishReviewerEffect DEF Rejected, Executed, Ends
    <2>2. InStage /\ (requests' = requests \/ Raised(requests'))
      BY <1>3, <2>1, FinishReviewerRequests DEF InStage
    <2> QED BY <2>1, <2>2, StageAnswers
  <1> QED BY <1>1, <1>2, <1>3

\* The loop head: an answer that was ready is now under review.
LEMMA AdvanceLoopAnswers ==
    ASSUME ReviewInv, CursorFacts, AnswersInv, ReviewInv', CursorFacts', AdvanceLoop
    PROVE  AnswersInv'
  <1>1. /\ pc = "loop" /\ stage_queue # <<>> /\ Cursor!AdvanceOrFinishStage
        /\ routing_ready' = ready_clarification_ids' /\ routing_ready = ready_clarification_ids
        /\ pc' = IF active_stage = ClarificationReview THEN "loop" ELSE "select"
        /\ UNCHANGED <<requests, routing_requests, run_status>>
    BY DEF AdvanceLoop, CopyReady, outputVars, ReviewInv, ReadyCopied
  <1>2. UNCHANGED clarifications
    BY <1>1 DEF Cursor!AdvanceOrFinishStage, Cursor!StartFirstStage, Cursor!StayFinished,
                Cursor!RestoreSuspendedStage, Cursor!EnterClarificationReview,
                Cursor!CompleteStage, Cursor!vars
  <1>3. RequestsCopied' /\ AnswersKnown'
    BY <1>1, <1>2 DEF AnswersInv, AnswersKnown, RequestsCopied, Elems
  <1>4. LastStage'
    <2>1. CASE stage_queue' # <<>>
      BY <1>1, <2>1 DEF LastStage, InStage
    <2>2. CASE stage_queue' = <<>>
      <3>1. Cursor!CompleteStage
        <4>1. ~Cursor!StartFirstStage
          BY <1>1, <2>2, CursorPlaces DEF Cursor!StartFirstStage
        <4> QED
          BY <1>1, <2>2, <4>1 DEF Cursor!AdvanceOrFinishStage, Cursor!StayFinished, Cursor!vars,
             Cursor!position, Cursor!RestoreSuspendedStage, Cursor!EnterClarificationReview
      <3>2. /\ active_stage \in NormalStages /\ ready_clarification_ids = <<>>
            /\ ready_clarification_ids' = <<>> /\ active_stage' = Head(stage_queue)
        BY <1>1, <3>1 DEF Cursor!CompleteStage, NormalStages
      <3>3. active_stage' \in NormalStages /\ pc' = "select"
        <4>1. stage_queue \in Seq(NormalStages)
          BY DEF ReviewInv, TypeOK, Cursor!TypeOK, NormalStages
        <4> QED BY <1>1, <3>2, <4>1, Constants
      <3>4. active_stage' = "logic_review"
        BY <2>2, <3>3, PlacedAfter
      <3>5. Blocking(requests') = {}
        BY <1>1, <3>2 DEF ReviewInv, GatePassed
      <3> QED BY <2>2, <3>2, <3>3, <3>4, <3>5 DEF LastStage
    <2> QED BY <2>1, <2>2
  <1>5. AnswersFollowed'
    <2> SUFFICES ASSUME NEW id \in Elems(clarifications)
                 PROVE  \/ ResumeRan(id) \/ id \in Elems(ready_clarification_ids')
                        \/ pc' = "select" /\ id = active_clarification_id'
      BY <1>1, <1>2 DEF AnswersFollowed, ResumeRan, Elems
    <2>1. ResumeRan(id) \/ id \in Elems(ready_clarification_ids)
      BY <1>1 DEF AnswersInv, AnswersFollowed
    <2>2. CASE Cursor!EnterClarificationReview
      <3> DEFINE ready == ready_clarification_ids
      <3>1. /\ active_stage \in NormalStages /\ ready # <<>>
            /\ active_clarification_id' = Head(ready) /\ ready_clarification_ids' = Tail(ready)
        BY <2>2 DEF Cursor!EnterClarificationReview, NormalStages
      <3>2. ready \in Seq(ClarificationIds)
        BY DEF ReviewInv, TypeOK, Cursor!TypeOK
      <3>3. \A x \in Elems(ready) : x = Head(ready) \/ x \in Elems(Tail(ready))
        BY <3>1, <3>2, ElemsTail
      <3>4. pc' = "select"
        BY <1>1, <3>1, Constants
      <3> QED BY <2>1, <3>1, <3>3, <3>4
    <2>3. CASE ready_clarification_ids' = ready_clarification_ids
      BY <2>1, <2>3
    <2> QED
      BY <1>1, <2>2, <2>3 DEF Cursor!AdvanceOrFinishStage, Cursor!StartFirstStage,
         Cursor!StayFinished, Cursor!RestoreSuspendedStage, Cursor!CompleteStage, Cursor!vars
  <1> QED BY <1>3, <1>4, <1>5 DEF AnswersInv

\* The end of the loop: an answer still ready was to a request of the last stage.
LEMMA LeaveLoopAnswers ==
    ASSUME ReviewInv, AnswersInv, LeaveLoop
    PROVE  AnswersInv'
  <1>1. /\ pc = "loop" /\ stage_queue = <<>> /\ Cursor!AdvanceOrFinishStage /\ pc' = "check"
        /\ UNCHANGED <<requests, routing_requests, routing_ready, run_status>>
    BY DEF LeaveLoop, outputVars
  <1>2. UNCHANGED clarifications
    BY <1>1 DEF Cursor!AdvanceOrFinishStage, Cursor!StartFirstStage, Cursor!StayFinished,
                Cursor!RestoreSuspendedStage, Cursor!EnterClarificationReview,
                Cursor!CompleteStage, Cursor!vars
  <1>3. RequestsCopied' /\ AnswersKnown' /\ LastStage'
    BY <1>1, <1>2 DEF AnswersInv, AnswersKnown, RequestsCopied, LastStage, InStage, Elems
  <1>4. \A id \in Elems(clarifications) : ResumeRan(id) \/ Late(id)
    BY <1>1 DEF AnswersInv, AnswersFollowed, LastStage
  <1>5. AnswersFollowed'
    BY <1>1, <1>2, <1>4 DEF AnswersFollowed, ResumeRan, Late, Elems
  <1> QED BY <1>3, <1>5 DEF AnswersInv

LEMMA GateAnswers ==
    ASSUME ReviewInv, AnswersInv, PassGate \/ BlockGate
    PROVE  AnswersInv'
  <1>1. /\ pc = "run" /\ pc' \in {"loop", "ingest"}
        /\ UNCHANGED <<requests, routing_ready, run_status, clarifications, stage_queue>>
        /\ \/ pc' = "loop" /\ UNCHANGED routing_requests
           \/ /\ routing_requests' = requests /\ blocking' = Blocking(requests)
              /\ Blocking(requests) # {}
    BY DEF PassGate, BlockGate, outputVars, cursorVars, clarificationVars
  <1>2. routing_ready = ready_clarification_ids
    BY <1>1 DEF ReviewInv, ReadyCopied, InStage
  <1>3. RequestsCopied' /\ AnswersKnown'
    BY <1>1 DEF AnswersInv, AnswersKnown, RequestsCopied, Elems
  <1>4. LastStage'
    <2>1. stage_queue = <<>> =>
              /\ \A id : id \notin Elems(routing_ready)
              /\ \A i \in Blocking(requests) : requests[i].stage = "logic_review"
      BY <1>1, <1>2 DEF AnswersInv, LastStage, InStage, Elems
    <2> QED BY <1>1, <2>1 DEF LastStage, InStage, Elems
  <1>5. AnswersFollowed'
    BY <1>1 DEF AnswersInv, AnswersFollowed, ResumeRan, Elems
  <1> QED BY <1>3, <1>4, <1>5 DEF AnswersInv

LEMMA IngestAnswers ==
    ASSUME ReviewInv, AnswersInv, SkipUnanswered \/ IngestAnswer
    PROVE  AnswersInv'
  <1>1. /\ pc = "ingest" /\ pc' = "ingest" /\ UNCHANGED <<requests, run_status, stage_queue>>
        /\ \/ /\ UNCHANGED <<clarifications, routing_ready, routing_requests>>
              /\ blocking' \subseteq blocking
           \/ \E i \in blocking, f \in DOMAIN routing_requests :
                 /\ IsFirstRequest(routing_requests, requests[i].id, f)
                 /\ clarifications' = Append(clarifications, requests[i].id)
                 /\ routing_requests' = [routing_requests EXCEPT ![f].status = "answered"]
                 /\ routing_ready' = Scheduled(requests[i].id)
                 /\ blocking' \subseteq blocking
    BY DEF SkipUnanswered, IngestAnswer, outputVars, cursorVars, clarificationVars
  <1>2. CASE UNCHANGED <<clarifications, routing_ready, routing_requests>> /\ blocking' \subseteq blocking
    BY <1>1, <1>2 DEF AnswersInv, RequestsCopied, AnswersKnown, LastStage, InStage,
                      AnswersFollowed, ResumeRan, Late, Elems
  <1>3. ASSUME NEW i \in blocking, NEW f \in DOMAIN routing_requests,
               IsFirstRequest(routing_requests, requests[i].id, f),
               clarifications' = Append(clarifications, requests[i].id),
               routing_requests' = [routing_requests EXCEPT ![f].status = "answered"],
               routing_ready' = Scheduled(requests[i].id),
               blocking' \subseteq blocking
        PROVE  AnswersInv'
    <2> DEFINE id == requests[i].id
    <2>1. /\ i \in DOMAIN requests /\ id \in ClarificationIds
          /\ clarifications \in Seq(ClarificationIds) /\ routing_ready \in Seq(ClarificationIds)
          /\ routing_requests \in Seq(Request)
      <3>1. /\ i \in DOMAIN requests /\ requests \in Seq(Request)
            /\ clarifications \in Seq(ClarificationIds) /\ routing_ready \in Seq(ClarificationIds)
            /\ routing_requests \in Seq(Request)
        BY <1>3 DEF ReviewInv, TypeOK, Cursor!TypeOK
      <3>2. requests[i] \in Request
        BY <3>1
      <3> QED BY <3>1, <3>2 DEF Request
    <2>2. /\ Elems(clarifications)' = Elems(clarifications) \cup {id}
          /\ Elems(routing_ready)' = Elems(routing_ready) \cup {id}
      <3>1. Elems(Append(clarifications, id)) = Elems(clarifications) \cup {id}
        BY <2>1, ElemsAppend
      <3>2. Elems(Append(routing_ready, id)) = Elems(routing_ready) \cup {id}
        BY <2>1, ElemsAppend
      <3>3. Elems(Scheduled(id)) = Elems(routing_ready) \cup {id}
        <4>1. CASE \E j \in DOMAIN routing_ready : routing_ready[j] = id
          BY <4>1 DEF Scheduled, Elems
        <4>2. CASE ~ \E j \in DOMAIN routing_ready : routing_ready[j] = id
          BY <3>2, <4>2 DEF Scheduled
        <4> QED BY <4>1, <4>2
      <3> QED BY <1>3, <3>1, <3>3
    <2>3. /\ DOMAIN routing_requests' = DOMAIN routing_requests
          /\ \A j \in DOMAIN routing_requests :
                 /\ routing_requests'[j].id = routing_requests[j].id
                 /\ routing_requests'[j].stage = routing_requests[j].stage
                 /\ j # f => routing_requests'[j] = routing_requests[j]
          /\ routing_requests[f].id = id
      <3>1. \A j \in DOMAIN routing_requests : routing_requests[j] \in Request
        BY <2>1
      <3> QED BY <1>3, <2>1, <3>1 DEF IsFirstRequest, Request
    <2> HIDE DEF id
    <2>4. RequestsCopied'
      BY <1>1, <2>3 DEF AnswersInv, RequestsCopied
    <2>5. AnswersKnown'
      BY <1>1, <2>2, <2>3 DEF AnswersInv, AnswersKnown
    <2>6. LastStage'
      <3>1. stage_queue = <<>> => requests[i].stage = "logic_review"
        BY <1>1, <1>3 DEF AnswersInv, LastStage
      <3>2. stage_queue = <<>> => Late(id)
        BY <2>1, <3>1 DEF Late, id
      <3>3. \A x : Late(x)' <=> Late(x)
        BY <1>1 DEF Late
      <3> QED BY <1>1, <1>3, <2>2, <3>2, <3>3 DEF AnswersInv, LastStage, InStage
    <2>7. AnswersFollowed'
      <3>1. \A x : ResumeRan(x)' <=> ResumeRan(x)
        BY <1>1 DEF ResumeRan
      <3> QED BY <1>1, <2>2, <3>1 DEF AnswersInv, AnswersFollowed
    <2> QED BY <2>4, <2>5, <2>6, <2>7 DEF AnswersInv
  <1> QED BY <1>1, <1>2, <1>3

LEMMA FinishIngestAnswers ==
    ASSUME ReviewInv, AnswersInv, FinishIngest
    PROVE  AnswersInv'
  <1>1. /\ pc = "ingest"
        /\ UNCHANGED <<routing_requests, run_status, stage_queue, clarifications, routing_ready>>
        /\ \/ pc' = "loop" /\ requests' = routing_requests
           \/ pc' = "stop" /\ requests' = requests
    BY DEF FinishIngest, RequestsAfterIngest, cursorVars, clarificationVars
  <1>2. RequestsCopied' /\ AnswersKnown'
    BY <1>1 DEF AnswersInv, RequestsCopied, AnswersKnown, Elems
  <1>3. \A id : Late(id) => Late(id)'
    BY <1>1 DEF AnswersInv, RequestsCopied, Late
  <1>4. LastStage'
    BY <1>1, <1>3 DEF AnswersInv, LastStage, InStage, Elems
  <1>5. AnswersFollowed'
    BY <1>1 DEF AnswersInv, LastStage, AnswersFollowed, ResumeRan, Elems
  <1> QED BY <1>2, <1>4, <1>5 DEF AnswersInv

LEMMA EndAnswers ==
    ASSUME AnswersInv, CheckRawOutputs \/ EmitResult \/ UNCHANGED vars
    PROVE  AnswersInv'
  <1>1. /\ UNCHANGED <<active_stage, stage_queue, ready_clarification_ids,
                       active_clarification_id, clarifications, routing_ready,
                       routing_requests, requests, run_status, blocking>>
        /\ \/ pc' = pc
           \/ pc \in {"check", "stop", "core"} /\ pc' \in {"core", "done"}
    BY DEF CheckRawOutputs, EmitResult, vars, cursorVars, clarificationVars, outputVars
  <1>2. RequestsCopied' /\ AnswersKnown' /\ LastStage'
    BY <1>1 DEF AnswersInv, RequestsCopied, AnswersKnown, LastStage, InStage, Elems, Late
  <1>3. AnswersFollowed'
    BY <1>1 DEF AnswersInv, AnswersFollowed, ResumeRan, Late, Elems
  <1> QED BY <1>2, <1>3 DEF AnswersInv

LEMMA AnswersInvAlways == Spec => []AnswersInv
  <1>1. Init => AnswersInv
    BY DEF Init, Cursor!Init, Cursor!NormalReviewStages, AnswersInv, RequestsCopied,
           AnswersKnown, LastStage, InStage, AnswersFollowed, Elems
  <1>2. ReviewInv /\ CursorFacts /\ RunsInv /\ AnswersInv /\ [Next]_vars => AnswersInv'
    <2> SUFFICES ASSUME ReviewInv, CursorFacts, RunsInv, AnswersInv, [Next]_vars
                 PROVE  AnswersInv'
      OBVIOUS
    <2>1. ReviewInv' /\ CursorFacts'
      BY ReviewInvNext, CursorFactsNext
    <2> QED
      BY <2>1, AdvanceLoopAnswers, LeaveLoopAnswers, ReviewersAnswers, GateAnswers,
         IngestAnswers, FinishIngestAnswers, EndAnswers DEF Next
  <1> QED BY <1>1, <1>2, ReviewInvAlways, CursorFactsAlways, RunsInvAlways, PTL DEF Spec

(***************************************************************************)
(* Before posting is enabled, every answered request raised before         *)
(* logic_review has had its clarification review, or was deferred by the   *)
(* budget: an answer stays ready until the cursor resumes it, and the loop *)
(* leaves with the answers of the last stage only (runner.py:461, 635-638).*)
(***************************************************************************)
THEOREM EarlyAnswersAlwaysReviewed == Spec => []EarlyAnswersReviewed
  <1>1. AnswersInv /\ Emitted => EarlyAnswersReviewed
    <2> SUFFICES ASSUME AnswersInv, Emitted, PostingEnabled, NEW i \in DOMAIN requests,
                        requests[i].status = "answered", requests[i].stage # "logic_review"
                 PROVE  ResumeRan(requests[i].id)
      BY DEF EarlyAnswersReviewed
    <2>1. requests[i].id \in Elems(clarifications)
      BY DEF AnswersInv, AnswersKnown
    <2>2. ~Late(requests[i].id)
      BY DEF Emitted, DistinctIds, Late
    <2>3. pc = "done" /\ Blocking(requests) = {}
      BY DEF Emitted, PostingEnabled
    <2> QED BY <2>1, <2>2, <2>3 DEF AnswersInv, AnswersFollowed
  <1> QED BY <1>1, AnswersInvAlways, EmittedAlways, PTL
=============================================================================
