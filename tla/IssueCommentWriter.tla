------------------------- MODULE IssueCommentWriter -------------------------
(***************************************************************************)
(* The writer of the one GitHub comment (writer_github.py:                 *)
(* GitHubIssueCommentWriter).  Threads call post_issue_comment on a writer *)
(* object, and on the writer objects of other processes, with finalized    *)
(* inputs, for the first time or as a retry.  GitHub may accept a request  *)
(* long after the caller stopped waiting for it, and a process may die.    *)
(*                                                                         *)
(* A call is one attempt: a caller that tries again is another element of  *)
(* Callers.  The recovery scan is one step: MarkerScan shows that reading  *)
(* page by page is no different while nobody deletes comments.             *)
(***************************************************************************)
EXTENDS Naturals, FiniteSets

CONSTANTS
    Callers, Writers, None,
    Writer,             \* whose writer object a caller calls
    Run,                \* the run_id of its input
    Findings, Payload,  \* the marker hashes of its input; the target is fixed
    Invalid,            \* callers whose payload fails validation
    RecoveryTransport,  \* the writer is given a recovery_marker_transport
    AmbiguousTimeouts   \* the POST transport reports a timeout as ambiguous_accepted

ASSUME WriterAssumption ==
    /\ Writer \in [Callers -> Writers]
    /\ Invalid \subseteq Callers
    /\ RecoveryTransport \in BOOLEAN /\ AmbiguousTimeouts \in BOOLEAN
    /\ None \notin {"ambiguous_unresolved", "forbidden_second_post"}

VARIABLES
    post_attempted_keys,    \* of every writer object
    pc,
    request,                \* what became of a caller's POST
    safe_to_post_detail,    \* what its recovery reports if the comment is not found
    outcome

vars == <<post_attempted_keys, pc, request, safe_to_post_detail, outcome>>

\* _retry_sequence_key, in the writer object that holds it.
Key(c) == <<Writer[c], Run[c], Findings[c], Payload[c]>>

\* outcome_detail; "timeout" is transport_failed with that reason code.
Detail == {"posted", "reconciled_existing", "validation_failed", "transport_failed", "timeout",
           "retryable_unknown", "ambiguous_unresolved", "forbidden_second_post",
           "trusted_marker_conflict", "response_actor_mismatch", "malformed_response"}
Outcome == [status : {"posted", "reconciled", "failed"}, detail : Detail, retryable : BOOLEAN,
            post_attempt_count : 0..1, recovery_scan_count : 0..1]

Active == {"post", "waiting", "recover"}

TypeOK ==
    /\ post_attempted_keys \subseteq {Key(c) : c \in Callers}
    /\ pc \in [Callers -> {"idle", "returned", "crashed"} \cup Active]
    /\ request \in [Callers -> {"none", "sent", "refused", "accepted", "accepted_as_other"}]
    /\ safe_to_post_detail \in
           [Callers -> {None, "ambiguous_unresolved", "forbidden_second_post"}]
    /\ outcome \in [Callers -> Outcome \cup {None}]

Init ==
    /\ post_attempted_keys = {}
    /\ pc = [c \in Callers |-> "idle"]
    /\ request = [c \in Callers |-> "none"]
    /\ safe_to_post_detail = [c \in Callers |-> None]
    /\ outcome = [c \in Callers |-> None]

Goto(c, label) == pc' = [pc EXCEPT ![c] = label]

PostAttempts(c) == IF request[c] = "none" THEN 0 ELSE 1

Return(c, status, detail, retryable, scans) ==
    /\ outcome' = [outcome EXCEPT ![c] =
           [status |-> status, detail |-> detail, retryable |-> retryable,
            post_attempt_count |-> PostAttempts(c), recovery_scan_count |-> scans]]
    /\ Goto(c, "returned")

Fail(c, detail, retryable, scans) == Return(c, "failed", detail, retryable, scans)

-----------------------------------------------------------------------------
(***************************************************************************)
(* post_issue_comment up to the POST.  The lock makes the check of the     *)
(* attempted keys and the addition to them one step.                       *)
(***************************************************************************)
RejectInvalid(c) ==
    /\ pc[c] = "idle"
    /\ c \in Invalid
    /\ Fail(c, "validation_failed", FALSE, 0)
    /\ UNCHANGED <<post_attempted_keys, request, safe_to_post_detail>>

\* Mutant: the key is remembered only once GitHub has answered.
RememberAnswered(c) == {Key(d) : d \in {e \in Callers : request[e] \in {"accepted", "refused"}}}

Remember(c) == post_attempted_keys \cup {Key(c)}

ClaimPost(c) ==
    /\ pc[c] = "idle"
    /\ c \notin Invalid
    /\ Key(c) \notin post_attempted_keys
    /\ post_attempted_keys' = Remember(c)
    /\ Goto(c, "post")
    /\ UNCHANGED <<request, safe_to_post_detail, outcome>>

BecomeRecovery(c) ==
    /\ pc[c] = "idle"
    /\ c \notin Invalid
    /\ Key(c) \in post_attempted_keys
    /\ safe_to_post_detail' = [safe_to_post_detail EXCEPT ![c] = "forbidden_second_post"]
    /\ Goto(c, "recover")
    /\ UNCHANGED <<post_attempted_keys, request, outcome>>

SendPost(c) ==
    /\ pc[c] = "post"
    /\ request' = [request EXCEPT ![c] = "sent"]
    /\ Goto(c, "waiting")
    /\ UNCHANGED <<post_attempted_keys, safe_to_post_detail, outcome>>

(***************************************************************************)
(* GitHub: it accepts a request as the approved actor's comment, or as     *)
(* another account's when the credentials have changed, or refuses it, at  *)
(* any time or never.                                                      *)
(***************************************************************************)
HandleRequest(c) ==
    /\ request[c] = "sent"
    /\ \E fate \in {"accepted", "accepted_as_other", "refused"} :
           request' = [request EXCEPT ![c] = fate]
    /\ UNCHANGED <<post_attempted_keys, pc, safe_to_post_detail, outcome>>

-----------------------------------------------------------------------------
(***************************************************************************)
(* How the transport's call can end.                                       *)
(***************************************************************************)
ReceiveComment(c) ==
    /\ pc[c] = "waiting"
    /\ request[c] = "accepted"
    /\ Return(c, "posted", "posted", FALSE, 0)
    /\ UNCHANGED <<post_attempted_keys, request, safe_to_post_detail>>

ReceiveOthersComment(c) ==
    /\ pc[c] = "waiting"
    /\ request[c] = "accepted_as_other"
    /\ Fail(c, "response_actor_mismatch", FALSE, 0)
    /\ UNCHANGED <<post_attempted_keys, request, safe_to_post_detail>>

\* No comment id in the answer, or an answer that the live transport rejects.
ReceiveMalformed(c) ==
    /\ pc[c] = "waiting"
    /\ request[c] \in {"accepted", "accepted_as_other"}
    /\ \E detail \in {"malformed_response", "transport_failed"} : Fail(c, detail, FALSE, 0)
    /\ UNCHANGED <<post_attempted_keys, request, safe_to_post_detail>>

\* Retryable when rate limited, not when forbidden or not found.
ReceiveRefusal(c) ==
    /\ pc[c] = "waiting"
    /\ request[c] = "refused"
    /\ \E retryable \in BOOLEAN : Fail(c, "transport_failed", retryable, 0)
    /\ UNCHANGED <<post_attempted_keys, request, safe_to_post_detail>>

\* Unavailable, or an unexpected exception: nothing is known of the request.
LoseAnswer(c) ==
    /\ pc[c] = "waiting"
    /\ Fail(c, "transport_failed", TRUE, 0)
    /\ UNCHANGED <<post_attempted_keys, request, safe_to_post_detail>>

\* Mutant: the call to the transport is not given a timeout.
WaitForever(c) == FALSE

TimeOut(c) ==
    /\ pc[c] = "waiting"
    /\ IF AmbiguousTimeouts
       THEN /\ safe_to_post_detail' = [safe_to_post_detail EXCEPT ![c] = "ambiguous_unresolved"]
            /\ Goto(c, "recover")
            /\ UNCHANGED outcome
       ELSE /\ Fail(c, "timeout", TRUE, 0)
            /\ UNCHANGED safe_to_post_detail
    /\ UNCHANGED <<post_attempted_keys, request>>

-----------------------------------------------------------------------------
(***************************************************************************)
(* _recover_after_potential_acceptance: it may find the comment of any     *)
(* call with the same hashes, and never posts.                             *)
(***************************************************************************)
Commented(c) ==
    \E d \in Callers : /\ request[d] = "accepted"
                       /\ Findings[d] = Findings[c] /\ Payload[d] = Payload[c]

Conflicting(c) ==
    \E d \in Callers : /\ request[d] = "accepted"
                       /\ Findings[d] = Findings[c] /\ Payload[d] # Payload[c]

\* Mutant: a comment on the same findings is taken for the approved one.
CommentedOnFindings(c) ==
    \E d \in Callers : request[d] = "accepted" /\ Findings[d] = Findings[c]

ScanFinds(c) == Commented(c) /\ ~Conflicting(c)

Unresolved(c, scans) ==
    Fail(c, safe_to_post_detail[c], safe_to_post_detail[c] = "ambiguous_unresolved", scans)

Recover(c) ==
    /\ pc[c] = "recover"
    /\ IF RecoveryTransport
       THEN \/ Conflicting(c) /\ Fail(c, "trusted_marker_conflict", FALSE, 1)
            \/ ScanFinds(c) /\ Return(c, "reconciled", "reconciled_existing", FALSE, 1)
            \/ ~Commented(c) /\ ~Conflicting(c) /\ Unresolved(c, 1)
            \/ Fail(c, "retryable_unknown", TRUE, 1)
            \/ Fail(c, "transport_failed", FALSE, 1)
       ELSE Unresolved(c, 0)
    /\ UNCHANGED <<post_attempted_keys, request, safe_to_post_detail>>

-----------------------------------------------------------------------------
\* The process of a writer object dies; its requests are already on the wire.
Crash(w) ==
    /\ \E c \in Callers : Writer[c] = w /\ pc[c] \in Active
    /\ pc' = [c \in Callers |->
                 IF Writer[c] = w /\ pc[c] # "returned" THEN "crashed" ELSE pc[c]]
    /\ UNCHANGED <<post_attempted_keys, request, safe_to_post_detail, outcome>>

Call(c) == RejectInvalid(c) \/ ClaimPost(c) \/ BecomeRecovery(c)

Answer(c) ==
    \/ ReceiveComment(c) \/ ReceiveOthersComment(c) \/ ReceiveMalformed(c)
    \/ ReceiveRefusal(c) \/ LoseAnswer(c) \/ TimeOut(c)

Next ==
    \/ \E c \in Callers :
           Call(c) \/ SendPost(c) \/ HandleRequest(c) \/ Answer(c) \/ Recover(c)
    \/ \E w \in Writers : Crash(w)

(***************************************************************************)
(* A thread that has entered post_issue_comment goes on, and the transport *)
(* gives up after timeout_seconds; an answer may never come.               *)
(***************************************************************************)
Fairness ==
    \A c \in Callers : WF_vars(SendPost(c)) /\ WF_vars(TimeOut(c)) /\ WF_vars(Recover(c))

Spec == Init /\ [][Next]_vars /\ Fairness

-----------------------------------------------------------------------------
Posted(c) == request[c] # "none"

(***************************************************************************)
(* However many threads call, and however often it is retried, a writer    *)
(* object sends the POST of a run and payload at most once                 *)
(* (writer_github.py:191-202).                                             *)
(***************************************************************************)
AtMostOnePost ==
    \A c, d \in Callers : Posted(c) /\ Posted(d) /\ Key(c) = Key(d) => c = d

(***************************************************************************)
(* A call reports a comment only if there is one with exactly the approved *)
(* hashes, its own or that of a call with the same hashes, late answers,   *)
(* timeouts and crashes notwithstanding (writer_github.py:268-335).        *)
(***************************************************************************)
OutcomeBacked ==
    \A c \in Callers : pc[c] = "returned" =>
        /\ outcome[c].status = "posted" => request[c] = "accepted"
        /\ outcome[c].status = "reconciled" => Commented(c)

(***************************************************************************)
(* A thread in post_issue_comment returns, or its process died: it never   *)
(* waits for an answer that does not come, nor for another thread          *)
(* (writer_github.py:191-211).                                             *)
(***************************************************************************)
CallReturns ==
    \A c \in Callers : pc[c] \in Active ~> pc[c] \in {"returned", "crashed"}
=============================================================================
