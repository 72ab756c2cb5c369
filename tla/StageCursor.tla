---------------------------- MODULE StageCursor ----------------------------
(***************************************************************************)
(* The stage cursor of a review run (state.py) and the hand-over of        *)
(* answered clarifications to it (clarification.py).                       *)
(*                                                                         *)
(* The cursor walks the normal review stages in order.  An answered        *)
(* clarification suspends the current stage for one transient              *)
(* clarification_review, after which the suspended stage is restored.      *)
(* Only AdvanceOrFinishStage moves the cursor; IngestAnswer only queues   *)
(* ids for it.  The module says nothing of who calls which operation when: *)
(* it is what the cursor promises to every caller, and the runner's loop   *)
(* (ReviewStages) is shown to implement it.                                *)
(***************************************************************************)
EXTENDS Naturals, Sequences

CONSTANTS
    ClarificationIds,   \* the ids clarification requests can carry
    None                \* Python's None

NormalReviewStages == <<"initial_triage", "specialized_review", "logic_review">>
ClarificationReview == "clarification_review"

NormalStages == {"initial_triage", "specialized_review", "logic_review"}
ReviewStage == NormalStages \cup {ClarificationReview}

ASSUME NoneAssumption == None \notin ReviewStage \cup ClarificationIds

VARIABLES
    active_stage,
    suspended_stage,
    stage_queue,
    completed_stages,
    ready_clarification_ids,
    active_clarification_id,
    clarifications,     \* answers recorded by ingest_clarification_answer
    resumed             \* ids of the enter_clarification_review transitions in graph_trace

position == <<active_stage, suspended_stage, stage_queue, completed_stages>>
vars == <<position, ready_clarification_ids, active_clarification_id,
          clarifications, resumed>>

TypeOK ==
    /\ active_stage \in ReviewStage \cup {None}
    /\ suspended_stage \in NormalStages \cup {None}
    /\ stage_queue \in Seq(NormalStages)
    /\ completed_stages \in Seq(NormalStages)
    /\ ready_clarification_ids \in Seq(ClarificationIds)
    /\ active_clarification_id \in ClarificationIds \cup {None}
    /\ clarifications \in Seq(ClarificationIds)
    /\ resumed \in Seq(ClarificationIds)

Init ==
    /\ active_stage = None
    /\ suspended_stage = None
    /\ stage_queue = NormalReviewStages
    /\ completed_stages = <<>>
    /\ ready_clarification_ids = <<>>
    /\ active_clarification_id = None
    /\ clarifications = <<>>
    /\ resumed = <<>>

-----------------------------------------------------------------------------
(***************************************************************************)
(* The transitions of advance_or_finish_stage, one per transition reason.  *)
(***************************************************************************)
StartFirstStage ==
    /\ active_stage = None
    /\ stage_queue # <<>>
    /\ active_stage' = Head(stage_queue)
    /\ stage_queue' = Tail(stage_queue)
    /\ UNCHANGED <<suspended_stage, completed_stages, ready_clarification_ids,
                   active_clarification_id, clarifications, resumed>>

StayFinished ==
    /\ active_stage = None
    /\ stage_queue = <<>>
    /\ UNCHANGED vars

\* Mutant: the id of the reviewed clarification is not cleared.
RestoreKeepingClarification ==
    /\ active_stage = ClarificationReview
    /\ active_stage' = suspended_stage
    /\ suspended_stage' = None
    /\ UNCHANGED <<stage_queue, completed_stages, ready_clarification_ids,
                   active_clarification_id, clarifications, resumed>>

\* Mutant: a queued stage is taken instead of the suspended one.
RestoreFromQueue ==
    /\ active_stage = ClarificationReview
    /\ stage_queue # <<>>
    /\ active_stage' = Head(stage_queue)
    /\ stage_queue' = Tail(stage_queue)
    /\ suspended_stage' = None
    /\ active_clarification_id' = None
    /\ UNCHANGED <<completed_stages, ready_clarification_ids, clarifications, resumed>>

RestoreSuspendedStage ==
    /\ active_stage = ClarificationReview
    /\ active_stage' = suspended_stage
    /\ suspended_stage' = None
    /\ active_clarification_id' = None
    /\ UNCHANGED <<stage_queue, completed_stages, ready_clarification_ids,
                   clarifications, resumed>>

\* Mutant: the id stays in the list of ready ids.
EnterWithoutConsuming ==
    /\ active_stage \in NormalStages
    /\ ready_clarification_ids # <<>>
    /\ active_stage' = ClarificationReview
    /\ suspended_stage' = active_stage
    /\ active_clarification_id' = Head(ready_clarification_ids)
    /\ resumed' = Append(resumed, Head(ready_clarification_ids))
    /\ UNCHANGED <<stage_queue, completed_stages, ready_clarification_ids, clarifications>>

EnterClarificationReview ==
    /\ active_stage \in NormalStages
    /\ ready_clarification_ids # <<>>
    /\ active_stage' = ClarificationReview
    /\ suspended_stage' = active_stage
    /\ active_clarification_id' = Head(ready_clarification_ids)
    /\ ready_clarification_ids' = Tail(ready_clarification_ids)
    /\ resumed' = Append(resumed, Head(ready_clarification_ids))
    /\ UNCHANGED <<stage_queue, completed_stages, clarifications>>

CompleteStage ==
    /\ active_stage \in NormalStages
    /\ ready_clarification_ids = <<>>
    /\ completed_stages' = Append(completed_stages, active_stage)
    /\ \/ /\ stage_queue # <<>>
          /\ active_stage' = Head(stage_queue)
          /\ stage_queue' = Tail(stage_queue)
       \/ /\ stage_queue = <<>>
          /\ active_stage' = None
          /\ UNCHANGED stage_queue
    /\ UNCHANGED <<suspended_stage, ready_clarification_ids,
                   active_clarification_id, clarifications, resumed>>

AdvanceOrFinishStage ==
    \/ StartFirstStage
    \/ StayFinished
    \/ RestoreSuspendedStage
    \/ EnterClarificationReview
    \/ CompleteStage

(***************************************************************************)
(* ingest_clarification_answer.  _pending_request admits an id once: an    *)
(* answer to a request that is no longer pending raises ValueError.        *)
(***************************************************************************)
Elems(s) == {s[i] : i \in DOMAIN s}

IngestAnswer(id) ==
    /\ id \notin Elems(clarifications)
    /\ clarifications' = Append(clarifications, id)
    /\ ready_clarification_ids' =
           IF id \in Elems(ready_clarification_ids)
           THEN ready_clarification_ids
           ELSE Append(ready_clarification_ids, id)
    /\ UNCHANGED <<active_stage, suspended_stage, stage_queue, completed_stages,
                   active_clarification_id, resumed>>

Next ==
    \/ AdvanceOrFinishStage
    \/ \E id \in ClarificationIds : IngestAnswer(id)

Spec == Init /\ [][Next]_vars

-----------------------------------------------------------------------------
(***************************************************************************)
(* validate_stage_cursor: every call of advance_or_finish_stage checks it  *)
(* on entry and on exit and raises StageCursorError when it fails.  The    *)
(* checks that the order check implies (duplicates, overlaps) are left to  *)
(* it.                                                                     *)
(***************************************************************************)
ClarificationFieldsValid ==
    IF active_stage = ClarificationReview
    THEN suspended_stage # None /\ active_clarification_id # None
    ELSE suspended_stage = None /\ active_clarification_id = None

CurrentStage == IF active_stage = ClarificationReview THEN suspended_stage ELSE active_stage

NormalStageOrderValid ==
    LET done == Len(completed_stages)
    IN  /\ done <= 3
        /\ completed_stages = SubSeq(NormalReviewStages, 1, done)
        /\ IF active_stage = None
           THEN \/ done = 0 /\ stage_queue = NormalReviewStages
                \/ done = 3 /\ stage_queue = <<>>
           ELSE /\ done < 3
                /\ CurrentStage = NormalReviewStages[done + 1]
                /\ stage_queue = SubSeq(NormalReviewStages, done + 2, 3)

(***************************************************************************)
(* No operation leaves the cursor in a state that validate_stage_cursor    *)
(* would reject, so a StageCursorError can only come from fields that some *)
(* other code wrote (state.py:80-124, 204-239).                            *)
(***************************************************************************)
StageCursorValid == ClarificationFieldsValid /\ NormalStageOrderValid

(***************************************************************************)
(* Resume is one-shot and first come, first served: the ids that entered   *)
(* clarification_review, followed by the ones still waiting, are exactly   *)
(* the recorded answers in the order they were ingested, none of them      *)
(* twice (state.py:150-155, clarification.py:48-63).                       *)
(***************************************************************************)
ResumeOneShotFifo ==
    /\ resumed \o ready_clarification_ids = clarifications
    /\ \A i, j \in DOMAIN clarifications :
           clarifications[i] = clarifications[j] => i = j

(***************************************************************************)
(* A step never reopens a completed stage, never skips one and never takes *)
(* a queued stage while a clarification is being reviewed                  *)
(* (state.py:141-163).                                                     *)
(***************************************************************************)
StageProgress ==
    [][ /\ \/ completed_stages' = completed_stages
           \/ /\ active_stage \in NormalStages
              /\ completed_stages' = Append(completed_stages, active_stage)
        /\ active_stage = ClarificationReview => stage_queue' = stage_queue
      ]_vars
=============================================================================
