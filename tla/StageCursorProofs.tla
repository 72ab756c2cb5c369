------------------------- MODULE StageCursorProofs -------------------------
(***************************************************************************)
(* Proofs about the stage cursor, for any set of clarification ids.        *)
(***************************************************************************)
EXTENDS StageCursor, SequenceTheorems, TLAPS

Triage == "initial_triage"
Specialized == "specialized_review"
Logic == "logic_review"

(***************************************************************************)
(* The five places of the cursor: before the first stage, in one of the    *)
(* three stages (possibly suspended), after the last.                      *)
(***************************************************************************)
Place ==
    \/ /\ active_stage = None
       /\ completed_stages = <<>>
       /\ stage_queue = <<Triage, Specialized, Logic>>
    \/ /\ CurrentStage = Triage
       /\ completed_stages = <<>>
       /\ stage_queue = <<Specialized, Logic>>
    \/ /\ CurrentStage = Specialized
       /\ completed_stages = <<Triage>>
       /\ stage_queue = <<Logic>>
    \/ /\ CurrentStage = Logic
       /\ completed_stages = <<Triage, Specialized>>
       /\ stage_queue = <<>>
    \/ /\ active_stage = None
       /\ completed_stages = <<Triage, Specialized, Logic>>
       /\ stage_queue = <<>>

CursorInv == TypeOK /\ ClarificationFieldsValid /\ Place

LEMMA StageNames ==
    /\ Triage # Specialized /\ Triage # Logic /\ Specialized # Logic
    /\ ClarificationReview \notin NormalStages
    /\ None \notin NormalStages /\ None # ClarificationReview
    /\ None \notin ClarificationIds
    /\ NormalStages = {Triage, Specialized, Logic}
  BY NoneAssumption DEF Triage, Specialized, Logic, ClarificationReview, NormalStages,
     ReviewStage

LEMMA PlaceValid == CursorInv => StageCursorValid
  <1> SUFFICES ASSUME CursorInv PROVE NormalStageOrderValid
    BY DEF CursorInv, StageCursorValid
  <1> USE StageNames DEF CursorInv, TypeOK, Place, NormalStageOrderValid, NormalReviewStages,
          CurrentStage, ClarificationFieldsValid, Triage, Specialized, Logic
  <1>1. CASE completed_stages = <<>>
    BY <1>1
  <1>2. CASE completed_stages = <<Triage>>
    BY <1>2
  <1>3. CASE completed_stages = <<Triage, Specialized>>
    BY <1>3
  <1>4. CASE completed_stages = <<Triage, Specialized, Logic>>
    BY <1>4
  <1> QED BY <1>1, <1>2, <1>3, <1>4

-----------------------------------------------------------------------------
LEMMA CursorInvInit == Init => CursorInv
  BY StageNames DEF Init, CursorInv, TypeOK, ClarificationFieldsValid, Place, NormalReviewStages,
     Triage, Specialized, Logic

LEMMA AppendPair ==
    ASSUME NEW x, NEW y
    PROVE  Append(<<x>>, y) = <<x, y>>
  <1> DEFINE S == {x, y}
  <1>1. /\ <<x>> \in Seq(S) /\ Len(<<x>>) = 1 /\ <<x>>[1] = x
        /\ <<x, y>> \in Seq(S) /\ Len(<<x, y>>) = 2 /\ <<x, y>>[1] = x /\ <<x, y>>[2] = y
        /\ y \in S
    OBVIOUS
  <1> HIDE DEF S
  <1>2. /\ Append(<<x>>, y) \in Seq(S) /\ Len(Append(<<x>>, y)) = 2
        /\ \A i \in 1..2 : Append(<<x>>, y)[i] = <<x, y>>[i]
    BY <1>1, AppendProperties
  <1> QED BY <1>1, <1>2, SeqEqual

LEMMA AppendTriple ==
    ASSUME NEW x, NEW y, NEW z
    PROVE  Append(<<x, y>>, z) = <<x, y, z>>
  <1> DEFINE S == {x, y, z}
  <1>1. /\ <<x, y>> \in Seq(S) /\ Len(<<x, y>>) = 2 /\ <<x, y>>[1] = x /\ <<x, y>>[2] = y
        /\ <<x, y, z>> \in Seq(S) /\ Len(<<x, y, z>>) = 3
        /\ <<x, y, z>>[1] = x /\ <<x, y, z>>[2] = y /\ <<x, y, z>>[3] = z
        /\ z \in S
    OBVIOUS
  <1> HIDE DEF S
  <1>2. /\ Append(<<x, y>>, z) \in Seq(S) /\ Len(Append(<<x, y>>, z)) = 3
        /\ \A i \in 1..3 : Append(<<x, y>>, z)[i] = <<x, y, z>>[i]
    BY <1>1, AppendProperties
  <1> QED BY <1>1, <1>2, SeqEqual

LEMMA StageTuples ==
    /\ Head(<<Triage, Specialized, Logic>>) = Triage
    /\ Tail(<<Triage, Specialized, Logic>>) = <<Specialized, Logic>>
    /\ Head(<<Specialized, Logic>>) = Specialized
    /\ Tail(<<Specialized, Logic>>) = <<Logic>>
    /\ Head(<<Logic>>) = Logic
    /\ Tail(<<Logic>>) = <<>>
    /\ Append(<<>>, Triage) = <<Triage>>
    /\ Append(<<Triage>>, Specialized) = <<Triage, Specialized>>
    /\ Append(<<Triage, Specialized>>, Logic) = <<Triage, Specialized, Logic>>
    /\ <<Specialized, Logic>> # <<>> /\ <<Logic>> # <<>>
    /\ <<Triage, Specialized, Logic>> # <<>>
  <1>1. /\ Head(<<Triage, Specialized, Logic>>) = Triage
        /\ Head(<<Specialized, Logic>>) = Specialized
        /\ Head(<<Logic>>) = Logic
    OBVIOUS
  <1>2. Tail(<<Triage, Specialized, Logic>>) = <<Specialized, Logic>>
    OBVIOUS
  <1>3. Tail(<<Specialized, Logic>>) = <<Logic>>
    OBVIOUS
  <1>4. Tail(<<Logic>>) = <<>>
    OBVIOUS
  <1>5. Append(<<>>, Triage) = <<Triage>>
    OBVIOUS
  <1>6. Append(<<Triage>>, Specialized) = <<Triage, Specialized>>
    BY AppendPair
  <1>7. Append(<<Triage, Specialized>>, Logic) = <<Triage, Specialized, Logic>>
    BY AppendTriple
  <1>8. /\ <<Specialized, Logic>> # <<>> /\ <<Logic>> # <<>>
        /\ <<Triage, Specialized, Logic>> # <<>>
    OBVIOUS
  <1> QED BY <1>1, <1>2, <1>3, <1>4, <1>5, <1>6, <1>7, <1>8

LEMMA CursorInvNext == CursorInv /\ [Next]_vars => CursorInv'
  <1> SUFFICES ASSUME CursorInv, [Next]_vars PROVE CursorInv'
    OBVIOUS
  <1> USE StageNames DEF CursorInv
  <1>1. CASE StartFirstStage
    <2>1. stage_queue = <<Triage, Specialized, Logic>> /\ completed_stages = <<>>
      BY <1>1 DEF StartFirstStage, Place, CurrentStage, ClarificationFieldsValid
    <2>2. active_stage' = Triage /\ stage_queue' = <<Specialized, Logic>>
      BY <1>1, <2>1, StageTuples DEF StartFirstStage
    <2>3. TypeOK'
      BY <1>1, <2>2 DEF StartFirstStage, TypeOK, ReviewStage
    <2> QED
      BY <1>1, <2>1, <2>2, <2>3
      DEF StartFirstStage, Place, CurrentStage, ClarificationFieldsValid
  <1>2. CASE RestoreSuspendedStage
    <2>1. suspended_stage \in NormalStages
      BY <1>2 DEF RestoreSuspendedStage, TypeOK, ClarificationFieldsValid
    <2>2. TypeOK'
      BY <1>2, <2>1 DEF RestoreSuspendedStage, TypeOK, ReviewStage
    <2> QED
      BY <1>2, <2>1, <2>2
      DEF RestoreSuspendedStage, Place, CurrentStage, ClarificationFieldsValid
  <1>3. CASE EnterClarificationReview
    <2>1. /\ Head(ready_clarification_ids) \in ClarificationIds
          /\ Tail(ready_clarification_ids) \in Seq(ClarificationIds)
          /\ Append(resumed, Head(ready_clarification_ids)) \in Seq(ClarificationIds)
      BY <1>3 DEF EnterClarificationReview, TypeOK
    <2>2. TypeOK'
      BY <1>3, <2>1 DEF EnterClarificationReview, TypeOK, ReviewStage
    <2> QED
      BY <1>3, <2>1, <2>2
      DEF EnterClarificationReview, Place, CurrentStage, ClarificationFieldsValid
  <1>4. CASE CompleteStage
    <2>1. /\ suspended_stage = None /\ active_clarification_id = None
          /\ CurrentStage = active_stage /\ active_stage # None
      BY <1>4 DEF CompleteStage, ClarificationFieldsValid, CurrentStage
    <2>2. TypeOK'
      <3>1. Append(completed_stages, active_stage) \in Seq(NormalStages)
        BY <1>4 DEF CompleteStage, TypeOK
      <3>2. stage_queue # <<>> =>
                Head(stage_queue) \in NormalStages /\ Tail(stage_queue) \in Seq(NormalStages)
        BY DEF TypeOK
      <3> QED BY <1>4, <3>1, <3>2 DEF CompleteStage, TypeOK, ReviewStage
    <2>3. Place' /\ active_stage' # ClarificationReview
      <3>1. CASE active_stage = Triage
        BY <1>4, <2>1, <3>1, StageTuples DEF CompleteStage, Place, CurrentStage
      <3>2. CASE active_stage = Specialized
        BY <1>4, <2>1, <3>2, StageTuples DEF CompleteStage, Place, CurrentStage
      <3>3. CASE active_stage = Logic
        BY <1>4, <2>1, <3>3, StageTuples DEF CompleteStage, Place, CurrentStage
      <3> QED BY <1>4, <3>1, <3>2, <3>3 DEF CompleteStage
    <2> QED BY <1>4, <2>1, <2>2, <2>3 DEF CompleteStage, ClarificationFieldsValid
  <1>5. ASSUME NEW id \in ClarificationIds, IngestAnswer(id) PROVE CursorInv'
    BY <1>5 DEF IngestAnswer, TypeOK, ClarificationFieldsValid, Place, CurrentStage
  <1>6. CASE UNCHANGED vars
    BY <1>6 DEF vars, position, TypeOK, ClarificationFieldsValid, Place, CurrentStage
  <1>7. CASE StayFinished
    BY <1>6, <1>7 DEF StayFinished
  <1> QED
    BY <1>1, <1>2, <1>3, <1>4, <1>5, <1>6, <1>7 DEF Next, AdvanceOrFinishStage

(***************************************************************************)
(* The fields of the cursor keep their types whatever is called in         *)
(* whatever order (state.py:127-177, clarification.py:48-63).              *)
(***************************************************************************)
THEOREM CursorTypeCorrect == Spec => []TypeOK
  <1>1. CursorInv => TypeOK
    BY DEF CursorInv
  <1> QED BY <1>1, CursorInvInit, CursorInvNext, PTL DEF Spec

(***************************************************************************)
(* advance_or_finish_stage never meets, and never leaves, a cursor that    *)
(* validate_stage_cursor rejects (state.py:80-124, 204-239).               *)
(***************************************************************************)
THEOREM CursorAlwaysValid == Spec => []StageCursorValid
  BY PlaceValid, CursorInvInit, CursorInvNext, PTL DEF Spec

-----------------------------------------------------------------------------
(***************************************************************************)
(* Sequence facts for the resume order.                                    *)
(***************************************************************************)
LEMMA ConcatAppend ==
    ASSUME NEW S, NEW s \in Seq(S), NEW t \in Seq(S), NEW e \in S
    PROVE  s \o Append(t, e) = Append(s \o t, e)
  OBVIOUS

LEMMA MoveHead ==
    ASSUME NEW S, NEW s \in Seq(S), NEW t \in Seq(S), t # <<>>
    PROVE  /\ Append(s, Head(t)) \o Tail(t) = s \o t
           /\ Append(s, Head(t)) \in Seq(S) /\ Tail(t) \in Seq(S) /\ Head(t) \in S
  OBVIOUS

LEMMA ResumeInvNext == CursorInv /\ ResumeOneShotFifo /\ [Next]_vars => ResumeOneShotFifo'
  <1> SUFFICES ASSUME CursorInv, ResumeOneShotFifo, [Next]_vars PROVE ResumeOneShotFifo'
    OBVIOUS
  <1>0. ASSUME EnterClarificationReview
        PROVE  resumed' \o ready_clarification_ids' = resumed \o ready_clarification_ids
    <2>1. /\ resumed' = Append(resumed, Head(ready_clarification_ids))
          /\ ready_clarification_ids' = Tail(ready_clarification_ids)
          /\ ready_clarification_ids # <<>>
      BY <1>0 DEF EnterClarificationReview
    <2>2. resumed \in Seq(ClarificationIds) /\ ready_clarification_ids \in Seq(ClarificationIds)
      BY DEF CursorInv, TypeOK
    <2> QED BY <2>1, <2>2, MoveHead
  <1> USE DEF CursorInv, TypeOK, ResumeOneShotFifo
  <1>1. CASE EnterClarificationReview
    BY <1>0, <1>1 DEF EnterClarificationReview
  <1>2. ASSUME NEW id \in ClarificationIds, IngestAnswer(id) PROVE ResumeOneShotFifo'
    <2>1. id \notin Elems(ready_clarification_ids)
      <3> SUFFICES ASSUME NEW i \in DOMAIN ready_clarification_ids,
                          ready_clarification_ids[i] = id
                   PROVE  id \in Elems(clarifications)
        BY <1>2 DEF IngestAnswer, Elems
      <3>1. /\ Len(resumed) + i \in DOMAIN clarifications
            /\ clarifications[Len(resumed) + i] = id
        OBVIOUS
      <3> QED BY <3>1 DEF Elems
    <2>2. resumed' \o ready_clarification_ids' = clarifications'
      <3>1. /\ ready_clarification_ids' = Append(ready_clarification_ids, id)
            /\ clarifications' = Append(clarifications, id)
            /\ resumed' = resumed
        BY <1>2, <2>1 DEF IngestAnswer
      <3>2. resumed \o Append(ready_clarification_ids, id)
                = Append(resumed \o ready_clarification_ids, id)
        BY ConcatAppend
      <3> QED BY <3>1, <3>2
    <2>3. ASSUME NEW i \in DOMAIN clarifications', NEW j \in DOMAIN clarifications',
                 clarifications'[i] = clarifications'[j]
          PROVE  i = j
      BY <1>2, <2>3 DEF IngestAnswer, Elems
    <2> QED BY <2>2, <2>3
  <1>3. CASE StartFirstStage \/ StayFinished \/ RestoreSuspendedStage \/ CompleteStage
    BY <1>3 DEF StartFirstStage, StayFinished, RestoreSuspendedStage, CompleteStage, vars
  <1>4. CASE UNCHANGED vars
    BY <1>4 DEF vars
  <1> QED BY <1>1, <1>2, <1>3, <1>4 DEF Next, AdvanceOrFinishStage

(***************************************************************************)
(* Every answer is resumed at most once, and answers are resumed in the    *)
(* order in which they were ingested (state.py:150-155,                    *)
(* clarification.py:48-63).                                                *)
(***************************************************************************)
THEOREM ResumeIsOneShotFifo == Spec => []ResumeOneShotFifo
  <1>1. Init => ResumeOneShotFifo
    BY DEF Init, ResumeOneShotFifo
  <1> QED BY <1>1, CursorInvInit, CursorInvNext, ResumeInvNext, PTL DEF Spec

(***************************************************************************)
(* A completed stage stays completed, the active one is the next to be     *)
(* completed, and the queue waits while a clarification is reviewed        *)
(* (state.py:141-163).                                                     *)
(***************************************************************************)
THEOREM StageAlwaysProgresses == Spec => StageProgress
  <1> DEFINE Progress ==
                 /\ \/ completed_stages' = completed_stages
                    \/ /\ active_stage \in NormalStages
                       /\ completed_stages' = Append(completed_stages, active_stage)
                 /\ active_stage = ClarificationReview => stage_queue' = stage_queue
  <1>1. CursorInv /\ [Next]_vars => [Progress]_vars
    <2> SUFFICES ASSUME CursorInv, Next PROVE Progress
      OBVIOUS
    <2> USE StageNames
    <2>1. CASE StartFirstStage
      BY <2>1 DEF StartFirstStage
    <2>2. CASE StayFinished
      BY <2>2 DEF StayFinished, vars, position
    <2>3. CASE RestoreSuspendedStage
      BY <2>3 DEF RestoreSuspendedStage
    <2>4. CASE EnterClarificationReview
      BY <2>4 DEF EnterClarificationReview
    <2>5. CASE CompleteStage
      BY <2>5 DEF CompleteStage
    <2>6. CASE \E id \in ClarificationIds : IngestAnswer(id)
      BY <2>6 DEF IngestAnswer
    <2> QED BY <2>1, <2>2, <2>3, <2>4, <2>5, <2>6 DEF Next, AdvanceOrFinishStage
  <1> QED BY <1>1, CursorInvInit, CursorInvNext, PTL DEF Spec, StageProgress
=============================================================================
