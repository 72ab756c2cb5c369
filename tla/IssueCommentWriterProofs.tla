---------------------- MODULE IssueCommentWriterProofs ----------------------
(***************************************************************************)
(* For any number of callers, writer objects, runs and payloads: a writer  *)
(* object posts at most once for a key, and no caller reports a comment    *)
(* that does not exist.                                                    *)
(***************************************************************************)
EXTENDS IssueCommentWriter, TLAPS

\* A caller owns its key from the moment it found it unused.
Owns(c) == pc[c] = "post" \/ Posted(c)

OwnedKeysRemembered == \A c \in Callers : Owns(c) => Key(c) \in post_attempted_keys

OneOwner == \A c, d \in Callers : Owns(c) /\ Owns(d) /\ Key(c) = Key(d) => c = d

UnsentBeforePost == \A c \in Callers : pc[c] \in {"idle", "post"} => request[c] = "none"

RecoveryHasDetail ==
    \A c \in Callers : pc[c] = "recover" => safe_to_post_detail[c] # None

ReturnedHasOutcome == \A c \in Callers : pc[c] = "returned" => outcome[c] \in Outcome

WriterInv ==
    /\ TypeOK
    /\ OwnedKeysRemembered
    /\ OneOwner
    /\ UnsentBeforePost
    /\ RecoveryHasDetail
    /\ ReturnedHasOutcome
    /\ OutcomeBacked

\* What a call that returns with a status must be able to show.
Backed(c, status) ==
    /\ status = "posted" => request[c] = "accepted"
    /\ status = "reconciled" => Commented(c)

(***************************************************************************)
(* Returning touches only the outcome and the program counter, so each     *)
(* way to return has to justify its own outcome and no more.               *)
(***************************************************************************)
LEMMA ReturnKeepsInv ==
    ASSUME WriterInv, NEW c \in Callers,
           NEW status \in {"posted", "reconciled", "failed"}, NEW detail \in Detail,
           NEW retryable \in BOOLEAN, NEW scans \in 0..1,
           Return(c, status, detail, retryable, scans),
           UNCHANGED <<post_attempted_keys, request, safe_to_post_detail>>,
           Backed(c, status)
    PROVE  WriterInv'
<1> DEFINE o == [status |-> status, detail |-> detail, retryable |-> retryable,
                 post_attempt_count |-> PostAttempts(c), recovery_scan_count |-> scans]
<1>1. o \in Outcome /\ o.status = status
  BY DEF Outcome, PostAttempts
<1>2. outcome' = [outcome EXCEPT ![c] = o] /\ pc' = [pc EXCEPT ![c] = "returned"]
  BY DEF Return, Goto
<1> HIDE DEF o
<1>3. TypeOK'
  BY <1>1, <1>2 DEF WriterInv, TypeOK
<1>4. \A d \in Callers : Owns(d)' => Owns(d)
  BY <1>2 DEF WriterInv, TypeOK, Owns, Posted
<1>5. OwnedKeysRemembered' /\ OneOwner'
  BY <1>4 DEF WriterInv, OwnedKeysRemembered, OneOwner, Key
<1>6. UnsentBeforePost' /\ RecoveryHasDetail' /\ ReturnedHasOutcome'
  BY <1>1, <1>2 DEF WriterInv, TypeOK, UnsentBeforePost, RecoveryHasDetail,
                ReturnedHasOutcome
<1>7. OutcomeBacked'
  BY <1>1, <1>2 DEF WriterInv, TypeOK, OutcomeBacked, Commented, Backed
<1> QED BY <1>3, <1>5, <1>6, <1>7 DEF WriterInv

LEMMA FailKeepsInv ==
    ASSUME WriterInv, NEW c \in Callers, NEW detail \in Detail,
           NEW retryable \in BOOLEAN, NEW scans \in 0..1,
           Fail(c, detail, retryable, scans),
           UNCHANGED <<post_attempted_keys, request, safe_to_post_detail>>
    PROVE  WriterInv'
<1>1. Return(c, "failed", detail, retryable, scans)
  BY DEF Fail
<1>2. Backed(c, "failed")
  BY DEF Backed
<1> QED BY <1>1, <1>2, ReturnKeepsInv

LEMMA CallKeepsInv ==
    ASSUME WriterInv, NEW c \in Callers, Call(c)
    PROVE  WriterInv'
<1>1. CASE RejectInvalid(c)
  <2>1. \E detail \in Detail, retryable \in BOOLEAN : Fail(c, detail, retryable, 0)
    BY <1>1 DEF RejectInvalid, Detail
  <2>2. UNCHANGED <<post_attempted_keys, request, safe_to_post_detail>>
    BY <1>1 DEF RejectInvalid
  <2> QED BY <2>1, <2>2, FailKeepsInv
<1>2. CASE ClaimPost(c)
  <2>1. /\ post_attempted_keys' = post_attempted_keys \cup {Key(c)}
        /\ pc' = [pc EXCEPT ![c] = "post"]
        /\ Key(c) \notin post_attempted_keys /\ pc[c] = "idle"
        /\ UNCHANGED <<request, safe_to_post_detail, outcome>>
    BY <1>2 DEF ClaimPost, Remember, Goto
  <2>2. TypeOK'
    BY <2>1 DEF WriterInv, TypeOK, Active, Key
  <2>3. \A d \in Callers : Owns(d)' => Owns(d) \/ d = c
    BY <2>1 DEF WriterInv, TypeOK, Owns, Posted
  <2>4. \A d \in Callers : Owns(d) => Key(d) # Key(c)
    BY <2>1 DEF WriterInv, OwnedKeysRemembered
  <2>5. OwnedKeysRemembered'
    BY <2>1, <2>3 DEF WriterInv, OwnedKeysRemembered, Key
  <2>6. OneOwner'
    BY <2>1, <2>3, <2>4 DEF WriterInv, OneOwner, Key
  <2>7. UnsentBeforePost' /\ RecoveryHasDetail' /\ ReturnedHasOutcome'
    BY <2>1 DEF WriterInv, TypeOK, UnsentBeforePost, RecoveryHasDetail,
                ReturnedHasOutcome
  <2>8. OutcomeBacked'
    BY <2>1 DEF WriterInv, TypeOK, OutcomeBacked, Commented
  <2> QED BY <2>2, <2>5, <2>6, <2>7, <2>8 DEF WriterInv
<1>3. CASE BecomeRecovery(c)
  <2>1. /\ safe_to_post_detail' = [safe_to_post_detail EXCEPT ![c] = "forbidden_second_post"]
        /\ pc' = [pc EXCEPT ![c] = "recover"]
        /\ UNCHANGED <<post_attempted_keys, request, outcome>>
    BY <1>3 DEF BecomeRecovery, Goto
  <2>2. TypeOK'
    BY <2>1 DEF WriterInv, TypeOK, Active
  <2>3. \A d \in Callers : Owns(d)' => Owns(d)
    BY <2>1 DEF WriterInv, TypeOK, Owns, Posted
  <2>4. OwnedKeysRemembered' /\ OneOwner'
    BY <2>1, <2>3 DEF WriterInv, OwnedKeysRemembered, OneOwner, Key
  <2>5. UnsentBeforePost' /\ RecoveryHasDetail' /\ ReturnedHasOutcome'
    BY <2>1, WriterAssumption DEF WriterInv, TypeOK, UnsentBeforePost, RecoveryHasDetail,
                ReturnedHasOutcome
  <2>6. OutcomeBacked'
    BY <2>1 DEF WriterInv, TypeOK, OutcomeBacked, Commented
  <2> QED BY <2>2, <2>4, <2>5, <2>6 DEF WriterInv
<1> QED BY <1>1, <1>2, <1>3 DEF Call

LEMMA RequestKeepsInv ==
    ASSUME WriterInv, NEW c \in Callers, SendPost(c) \/ HandleRequest(c)
    PROVE  WriterInv'
<1>1. CASE SendPost(c)
  <2>1. /\ request' = [request EXCEPT ![c] = "sent"]
        /\ pc' = [pc EXCEPT ![c] = "waiting"]
        /\ pc[c] = "post"
        /\ UNCHANGED <<post_attempted_keys, safe_to_post_detail, outcome>>
    BY <1>1 DEF SendPost, Goto
  <2>2. TypeOK'
    BY <2>1 DEF WriterInv, TypeOK, Active
  <2>3. \A d \in Callers : Owns(d)' => Owns(d)
    BY <2>1 DEF WriterInv, TypeOK, Owns, Posted
  <2>4. OwnedKeysRemembered' /\ OneOwner'
    BY <2>1, <2>3 DEF WriterInv, OwnedKeysRemembered, OneOwner, Key
  <2>5. UnsentBeforePost' /\ RecoveryHasDetail' /\ ReturnedHasOutcome'
    BY <2>1 DEF WriterInv, TypeOK, UnsentBeforePost, RecoveryHasDetail,
                ReturnedHasOutcome
  <2>6. OutcomeBacked'
    <3> SUFFICES ASSUME NEW d \in Callers, pc'[d] = "returned"
                 PROVE  /\ outcome'[d].status = "posted" => request'[d] = "accepted"
                        /\ outcome'[d].status = "reconciled" => Commented(d)'
      BY DEF OutcomeBacked
    <3>1. d # c /\ pc[d] = "returned"
      BY <2>1 DEF WriterInv, TypeOK
    <3>2. \A e \in Callers : request[e] = "accepted" => request'[e] = "accepted"
      BY <2>1 DEF WriterInv, TypeOK, UnsentBeforePost
    <3> QED BY <3>1, <3>2, <2>1 DEF WriterInv, TypeOK, OutcomeBacked, Commented
  <2> QED BY <2>2, <2>4, <2>5, <2>6 DEF WriterInv
<1>2. CASE HandleRequest(c)
  <2>1. PICK fate \in {"accepted", "accepted_as_other", "refused"} :
            /\ request' = [request EXCEPT ![c] = fate]
            /\ request[c] = "sent"
            /\ UNCHANGED <<post_attempted_keys, pc, safe_to_post_detail, outcome>>
    BY <1>2 DEF HandleRequest
  <2>2. TypeOK'
    BY <2>1 DEF WriterInv, TypeOK
  <2>3. \A d \in Callers : Owns(d)' => Owns(d)
    BY <2>1 DEF WriterInv, TypeOK, Owns, Posted
  <2>4. OwnedKeysRemembered' /\ OneOwner'
    BY <2>1, <2>3 DEF WriterInv, OwnedKeysRemembered, OneOwner, Key
  <2>5. UnsentBeforePost' /\ RecoveryHasDetail' /\ ReturnedHasOutcome'
    BY <2>1 DEF WriterInv, TypeOK, UnsentBeforePost, RecoveryHasDetail,
                ReturnedHasOutcome
  <2>6. \A e \in Callers : request[e] = "accepted" => request'[e] = "accepted"
    BY <2>1 DEF WriterInv, TypeOK
  <2>7. OutcomeBacked'
    BY <2>1, <2>6 DEF WriterInv, TypeOK, OutcomeBacked, Commented
  <2> QED BY <2>2, <2>4, <2>5, <2>7 DEF WriterInv
<1> QED BY <1>1, <1>2

LEMMA AnswerKeepsInv ==
    ASSUME WriterInv, NEW c \in Callers, Answer(c)
    PROVE  WriterInv'
<1>1. CASE ReceiveComment(c)
  <2>1. Return(c, "posted", "posted", FALSE, 0) /\ request[c] = "accepted"
    BY <1>1 DEF ReceiveComment
  <2>2. UNCHANGED <<post_attempted_keys, request, safe_to_post_detail>>
    BY <1>1 DEF ReceiveComment
  <2>3. "posted" \in Detail /\ Backed(c, "posted")
    BY <2>1 DEF Detail, Backed
  <2> HIDE DEF WriterInv
  <2> QED BY <2>1, <2>2, <2>3, 0 \in 0..1, ReturnKeepsInv
<1>2. CASE ReceiveOthersComment(c)
  <2>1. \E detail \in Detail, retryable \in BOOLEAN : Fail(c, detail, retryable, 0)
    BY <1>2 DEF ReceiveOthersComment, Detail
  <2>2. UNCHANGED <<post_attempted_keys, request, safe_to_post_detail>>
    BY <1>2 DEF ReceiveOthersComment
  <2> QED BY <2>1, <2>2, FailKeepsInv
<1>3. CASE ReceiveMalformed(c)
  <2>1. \E detail \in Detail, retryable \in BOOLEAN : Fail(c, detail, retryable, 0)
    BY <1>3 DEF ReceiveMalformed, Detail
  <2>2. UNCHANGED <<post_attempted_keys, request, safe_to_post_detail>>
    BY <1>3 DEF ReceiveMalformed
  <2> QED BY <2>1, <2>2, FailKeepsInv
<1>4. CASE ReceiveRefusal(c)
  <2>1. PICK retryable \in BOOLEAN : Fail(c, "transport_failed", retryable, 0)
    BY <1>4 DEF ReceiveRefusal
  <2>2. UNCHANGED <<post_attempted_keys, request, safe_to_post_detail>>
    BY <1>4 DEF ReceiveRefusal
  <2>3. "transport_failed" \in Detail
    BY DEF Detail
  <2> QED BY <2>1, <2>2, <2>3, FailKeepsInv
<1>5. CASE LoseAnswer(c)
  <2>1. \E detail \in Detail, retryable \in BOOLEAN : Fail(c, detail, retryable, 0)
    BY <1>5 DEF LoseAnswer, Detail
  <2>2. UNCHANGED <<post_attempted_keys, request, safe_to_post_detail>>
    BY <1>5 DEF LoseAnswer
  <2> QED BY <2>1, <2>2, FailKeepsInv
<1>6. CASE TimeOut(c) /\ ~AmbiguousTimeouts
  <2>1. \E detail \in Detail, retryable \in BOOLEAN : Fail(c, detail, retryable, 0)
    BY <1>6 DEF TimeOut, Detail
  <2>2. UNCHANGED <<post_attempted_keys, request, safe_to_post_detail>>
    BY <1>6 DEF TimeOut
  <2> QED BY <2>1, <2>2, FailKeepsInv
<1>7. CASE TimeOut(c) /\ AmbiguousTimeouts
  <2>1. /\ safe_to_post_detail' = [safe_to_post_detail EXCEPT ![c] = "ambiguous_unresolved"]
        /\ pc' = [pc EXCEPT ![c] = "recover"]
        /\ UNCHANGED <<post_attempted_keys, request, outcome>>
    BY <1>7 DEF TimeOut, Goto
  <2>2. TypeOK'
    BY <2>1 DEF WriterInv, TypeOK, Active
  <2>3. \A d \in Callers : Owns(d)' => Owns(d)
    BY <2>1 DEF WriterInv, TypeOK, Owns, Posted
  <2>4. OwnedKeysRemembered' /\ OneOwner'
    BY <2>1, <2>3 DEF WriterInv, OwnedKeysRemembered, OneOwner, Key
  <2>5. UnsentBeforePost' /\ RecoveryHasDetail' /\ ReturnedHasOutcome'
    BY <2>1, WriterAssumption DEF WriterInv, TypeOK, UnsentBeforePost, RecoveryHasDetail,
                ReturnedHasOutcome
  <2>6. OutcomeBacked'
    BY <2>1 DEF WriterInv, TypeOK, OutcomeBacked, Commented
  <2> QED BY <2>2, <2>4, <2>5, <2>6 DEF WriterInv
<1> QED BY <1>1, <1>2, <1>3, <1>4, <1>5, <1>6, <1>7 DEF Answer

LEMMA RecoverKeepsInv ==
    ASSUME WriterInv, NEW c \in Callers, Recover(c)
    PROVE  WriterInv'
<1>1. safe_to_post_detail[c] \in Detail
  BY DEF Recover, WriterInv, TypeOK, RecoveryHasDetail, Detail
<1>2. UNCHANGED <<post_attempted_keys, request, safe_to_post_detail>>
  BY DEF Recover
<1>3. ASSUME NEW detail \in Detail, NEW retryable \in BOOLEAN, NEW scans \in 0..1,
             Fail(c, detail, retryable, scans)
      PROVE  WriterInv'
  BY <1>2, <1>3, FailKeepsInv
<1>4. ASSUME NEW scans \in 0..1, Unresolved(c, scans)
      PROVE  WriterInv'
  BY <1>1, <1>3, <1>4 DEF Unresolved
<1>5. CASE ScanFinds(c) /\ Return(c, "reconciled", "reconciled_existing", FALSE, 1)
  <2>1. "reconciled_existing" \in Detail /\ Backed(c, "reconciled")
    BY <1>5 DEF ScanFinds, Detail, Backed
  <2> QED BY <1>2, <1>5, <2>1, 1 \in 0..1, ReturnKeepsInv
<1>6. CASE \E detail \in Detail, retryable \in BOOLEAN : Fail(c, detail, retryable, 1)
  BY <1>6, <1>3, 1 \in 0..1
<1>7. CASE Unresolved(c, 1) \/ Unresolved(c, 0)
  BY <1>7, <1>4, 0 \in 0..1, 1 \in 0..1
<1>8. \/ ScanFinds(c) /\ Return(c, "reconciled", "reconciled_existing", FALSE, 1)
      \/ Unresolved(c, 1) \/ Unresolved(c, 0)
      \/ Fail(c, "trusted_marker_conflict", FALSE, 1)
      \/ Fail(c, "retryable_unknown", TRUE, 1)
      \/ Fail(c, "transport_failed", FALSE, 1)
  BY DEF Recover
<1>9. {"trusted_marker_conflict", "retryable_unknown", "transport_failed"} \subseteq Detail
  BY DEF Detail
<1> QED BY <1>5, <1>6, <1>7, <1>8, <1>9

LEMMA CrashKeepsInv ==
    ASSUME WriterInv, NEW w \in Writers, Crash(w)
    PROVE  WriterInv'
<1>1. /\ pc' = [c \in Callers |->
                   IF Writer[c] = w /\ pc[c] # "returned" THEN "crashed" ELSE pc[c]]
      /\ UNCHANGED <<post_attempted_keys, request, safe_to_post_detail, outcome>>
  BY DEF Crash
<1>2. TypeOK'
  BY <1>1 DEF WriterInv, TypeOK
<1>3. \A d \in Callers : Owns(d)' => Owns(d)
  BY <1>1 DEF WriterInv, TypeOK, Owns, Posted
<1>4. OwnedKeysRemembered' /\ OneOwner'
  BY <1>1, <1>3 DEF WriterInv, OwnedKeysRemembered, OneOwner, Key
<1>5. UnsentBeforePost' /\ RecoveryHasDetail' /\ ReturnedHasOutcome'
  BY <1>1 DEF WriterInv, TypeOK, UnsentBeforePost, RecoveryHasDetail, ReturnedHasOutcome
<1>6. OutcomeBacked'
  BY <1>1 DEF WriterInv, TypeOK, OutcomeBacked, Commented
<1> QED BY <1>2, <1>4, <1>5, <1>6 DEF WriterInv

LEMMA WriterInvInit == Init => WriterInv
BY DEF Init, WriterInv, TypeOK, OwnedKeysRemembered, OneOwner, UnsentBeforePost,
       RecoveryHasDetail, ReturnedHasOutcome, OutcomeBacked, Owns, Posted

LEMMA WriterInvStep == WriterInv /\ [Next]_vars => WriterInv'
<1> SUFFICES ASSUME WriterInv, [Next]_vars PROVE WriterInv'
  OBVIOUS
<1>1. CASE UNCHANGED vars
  BY <1>1 DEF vars, WriterInv, TypeOK, OwnedKeysRemembered, OneOwner, UnsentBeforePost,
       RecoveryHasDetail, ReturnedHasOutcome, OutcomeBacked, Owns, Posted, Commented, Key
<1>2. ASSUME NEW c \in Callers,
             Call(c) \/ SendPost(c) \/ HandleRequest(c) \/ Answer(c) \/ Recover(c)
      PROVE  WriterInv'
  BY <1>2, CallKeepsInv, RequestKeepsInv, AnswerKeepsInv, RecoverKeepsInv
<1>3. ASSUME NEW w \in Writers, Crash(w) PROVE WriterInv'
  BY <1>3, CrashKeepsInv
<1> QED BY <1>1, <1>2, <1>3 DEF Next

(***************************************************************************)
(* The invariant of the writer, from which the properties follow.          *)
(***************************************************************************)
THEOREM WriterInvariant == Spec => []WriterInv
BY WriterInvInit, WriterInvStep, PTL DEF Spec

(***************************************************************************)
(* The state of every call keeps its type (writer_github.py:149-365).      *)
(***************************************************************************)
THEOREM WriterTypeCorrect == Spec => []TypeOK
BY WriterInvariant, PTL DEF WriterInv

(***************************************************************************)
(* However many threads and retries, a writer object sends the POST of a   *)
(* run and payload at most once (writer_github.py:191-202).                *)
(***************************************************************************)
THEOREM OnePostPerKey == Spec => []AtMostOnePost
<1>1. WriterInv => AtMostOnePost
  BY DEF WriterInv, OneOwner, AtMostOnePost, Owns
<1> QED BY <1>1, WriterInvariant, PTL

(***************************************************************************)
(* No call reports a comment that does not exist with the approved hashes  *)
(* (writer_github.py:268-335).                                             *)
(***************************************************************************)
THEOREM ReportedCommentsExist == Spec => []OutcomeBacked
BY WriterInvariant, PTL DEF WriterInv
=============================================================================
