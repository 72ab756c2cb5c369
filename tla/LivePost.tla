------------------------------ MODULE LivePost ------------------------------
(***************************************************************************)
(* The live post flow (github_live_post.py: _run_live_post_flow): read the *)
(* pull request, show the operator the proofs, take the hash that the      *)
(* operator types, read everything again, finalize, write, report.  A flow *)
(* is one process; several flows are attempts to post one approved         *)
(* artifact.  They share only GitHub, where the account, its permission,   *)
(* the pull request and its comments change at any moment.                 *)
(*                                                                         *)
(* The gates are those of Finalization and the writer is the one of        *)
(* IssueCommentWriter, with a writer object for every flow.                *)
(***************************************************************************)
EXTENDS Finalization

CONSTANTS
    Flows, Accounts,
    MaxClock,   \* bound on the clock
    MaxChanges  \* bound on what others change

ASSUME LivePostAssumption ==
    /\ MaxClock \in Nat /\ MaxChanges \in Nat
    /\ None \notin Accounts \cup 0..MaxClock
    /\ None \notin {"ambiguous_unresolved", "forbidden_second_post"}

VARIABLES
    account, permission, refs,  \* what GitHub says of the login and the pull request
    disposable,                 \* the pull request has the disposable marker and is no fork
    changes, clock,
    at,         \* where a flow is in its code
    proof,      \* what it has read for its current live_proof
    approval,   \* the decision, None before the operator confirms
    report,     \* the artifact it is about to write
    artifact,   \* the artifact that it leaves
    sender,     \* the account that its POST was sent with
    post_attempted_keys, pc, request, safe_to_post_detail, outcome,  \* the writers
    held        \* history: when a fact last held since the confirmation

world == <<account, permission, refs, disposable, changes>>
writers == <<post_attempted_keys, pc, request, safe_to_post_detail, outcome>>
flows == <<at, proof, approval, report, artifact, sender>>
vars == <<world, clock, flows, writers, held>>

W == INSTANCE IssueCommentWriter WITH
         Callers <- Flows, Writers <- Flows, Writer <- [f \in Flows |-> f],
         Run <- [f \in Flows |-> "run"], Findings <- [f \in Flows |-> "findings"],
         Payload <- [f \in Flows |-> "payload"], Invalid <- {},
         RecoveryTransport <- TRUE, AmbiguousTimeouts <- FALSE

ApprovedTarget == [refs |-> "approved", merge_base |-> "base"]

Reading == {"user", "repo", "pull", "comments"}
Busy == Reading \cup {"begin", "finalize", "write", "finish", "handle"}
Ended == {"returned", "raised", "crashed"}

Unread == [checked_at |-> None, actor |-> None, permission |-> None, disposable |-> FALSE,
           refs |-> None, marker |-> None]

Report == [status : {"blocked", "succeeded", "fail_closed"}, writer_invoked : BOOLEAN]
Facts == {"actor", "permission", "target", "disposable", "no_comment"}
Never == [fact \in Facts |-> None]

Moments == 0..MaxClock
Proof == [checked_at : Moments \cup {None}, actor : Accounts \cup {None},
          permission : {"read", "write", None}, disposable : BOOLEAN,
          refs : {"approved", "moved", None},
          marker : {"safe_to_post", "reconciled_existing", "failed_closed", None}]

TypeOK ==
    /\ account \in Accounts /\ permission \in {"read", "write"}
    /\ refs \in {"approved", "moved"} /\ disposable \in BOOLEAN
    /\ changes \in 0..MaxChanges /\ clock \in Moments
    /\ at \in [Flows -> Busy \cup Ended \cup {"idle", "confirm"}]
    /\ proof \in [Flows -> Proof]
    /\ report \in [Flows -> Report \cup {None}]
    /\ artifact \in [Flows -> Report \cup {None}]
    /\ sender \in [Flows -> Accounts \cup {None}]
    /\ held \in [Flows -> [Facts -> Moments \cup {None}]]
    /\ W!TypeOK

Init ==
    /\ account \in Accounts /\ permission \in {"read", "write"}
    /\ refs \in {"approved", "moved"} /\ disposable \in BOOLEAN
    /\ changes = 0 /\ clock = 0
    /\ at = [f \in Flows |-> "idle"]
    /\ proof = [f \in Flows |-> Unread]
    /\ approval = [f \in Flows |-> None]
    /\ report = [f \in Flows |-> None]
    /\ artifact = [f \in Flows |-> None]
    /\ sender = [f \in Flows |-> None]
    /\ held = [f \in Flows |-> Never]
    /\ W!Init

Goto(f, label) == at' = [at EXCEPT ![f] = label]

\* _finish from inside the try block, or from one of its except clauses.
Finish(f, label, status, writer_invoked) ==
    /\ report' = [report EXCEPT ![f] = [status |-> status, writer_invoked |-> writer_invoked]]
    /\ Goto(f, label)

-----------------------------------------------------------------------------
(***************************************************************************)
(* The first look at the pull request, and live_proof, which the flow      *)
(* makes before and after the confirmation.  The time of a proof is taken  *)
(* before its reads.  The comparison that gives the merge base is between  *)
(* the two approved commits, so it is always the same; it is read before   *)
(* the comments, and may fail.  The clock does not go backwards.           *)
(***************************************************************************)
Start(f) ==
    /\ at[f] = "idle"
    /\ \/ disposable /\ Goto(f, "begin") /\ UNCHANGED report
       \/ ~disposable /\ Finish(f, "finish", "blocked", FALSE)
       \/ \E status \in {"fail_closed", "blocked"} : Finish(f, "handle", status, FALSE)
    /\ UNCHANGED <<proof, approval, artifact, sender, writers>>

\* Mutant: what is not read yet counts as unset.
OpenUnset == [Unread EXCEPT !.checked_at = clock, !.disposable = None]

Open == [Unread EXCEPT !.checked_at = clock]

BeginProof(f) ==
    /\ at[f] = "begin"
    /\ proof' = [proof EXCEPT ![f] = Open]
    /\ Goto(f, "user")
    /\ UNCHANGED <<approval, report, artifact, sender, writers>>

ReadUser(f) ==
    /\ at[f] = "user"
    /\ proof' = [proof EXCEPT ![f].actor = account]
    /\ Goto(f, "repo")
    /\ UNCHANGED <<approval, report, artifact, sender, writers>>

ReadRepo(f) ==
    /\ at[f] = "repo"
    /\ proof' = [proof EXCEPT ![f].permission = permission]
    /\ Goto(f, "pull")
    /\ UNCHANGED <<approval, report, artifact, sender, writers>>

ReadPull(f) ==
    /\ at[f] = "pull"
    /\ proof' = [proof EXCEPT ![f].disposable = disposable, ![f].refs = refs]
    /\ Goto(f, "comments")
    /\ UNCHANGED <<approval, report, artifact, sender, writers>>

\* A comment of the approved artifact, written by the account.  The scan is one look at
\* the comments, as MarkerScan shows while none is deleted; foreign comments make it fail.
CommentBy(author) ==
    \E f \in Flows : request[f] \in {"accepted", "accepted_as_other"} /\ sender[f] = author

\* Mutant: the comments are looked at before the confirmation only.
ScanOnce(f) ==
    IF approval[f] = None /\ CommentBy(proof[f].actor) THEN "reconciled_existing"
    ELSE "safe_to_post"

Scan(f) == IF CommentBy(proof[f].actor) THEN "reconciled_existing" ELSE "safe_to_post"

ReadComments(f) ==
    /\ at[f] = "comments"
    /\ \E marker \in {Scan(f), "failed_closed"} : proof' = [proof EXCEPT ![f].marker = marker]
    /\ Goto(f, IF approval[f] = None THEN "confirm" ELSE "finalize")
    /\ UNCHANGED <<approval, report, artifact, sender, writers>>

\* A command that fails is reported as failed, an answer without its fields as blocked.
FailRead(f) ==
    /\ at[f] \in Reading
    /\ \E status \in {"fail_closed", "blocked"} : Finish(f, "handle", status, FALSE)
    /\ UNCHANGED <<proof, approval, artifact, sender, writers>>

Read(f) == ReadUser(f) \/ ReadRepo(f) \/ ReadPull(f) \/ ReadComments(f) \/ FailRead(f)

-----------------------------------------------------------------------------
(***************************************************************************)
(* The probes that a proof makes, and the confirmation by the operator,    *)
(* who saw the proof and types the hash, now or much later.                *)
(***************************************************************************)
ActorProbe(p) ==
    [malformed |-> FALSE, transport_reason_code |-> None, actor |-> p.actor,
     credential_source |-> "pat", credential_principal |-> p.actor,
     permissions |-> [kind \in PermissionKinds |-> IF kind = "repo" THEN p.permission ELSE None],
     issue_comment_write |-> p.permission = "write",
     checked_target |-> ApprovedTarget, checked_at |-> p.checked_at]

TargetProbe(p) ==
    [malformed |-> FALSE, transport_reason_code |-> None,
     current_target |-> [refs |-> p.refs, merge_base |-> "base"], checked_at |-> p.checked_at]

Decision(f) ==
    LET probe == ActorProbe(proof[f])
        gate == GateFailure(probe, ApprovedTarget, clock)
    IN  DecisionFailure(gate, probe, ApprovedTarget, clock)

Confirm(f) ==
    /\ at[f] = "confirm"
    /\ IF Decision(f) = None
       THEN /\ approval' = [approval EXCEPT ![f] =
                   Approval(ActorProbe(proof[f]), ApprovedTarget, "payload", clock)]
            /\ Goto(f, "begin")
            /\ UNCHANGED report
       ELSE /\ Finish(f, "finish", "blocked", FALSE)
            /\ UNCHANGED approval
    /\ UNCHANGED <<proof, artifact, sender, writers>>

\* Another text, or no text at all: input() raises.
Decline(f) ==
    /\ at[f] = "confirm"
    /\ \E label \in {"finish", "handle"} : Finish(f, label, "blocked", FALSE)
    /\ UNCHANGED <<proof, approval, artifact, sender, writers>>

-----------------------------------------------------------------------------
(***************************************************************************)
(* Finalization on the second proof.  The marker result is bound to the    *)
(* payload's own hashes, so the binding always holds here.                 *)
(***************************************************************************)
Finalization(f) ==
    FinalizeGithubPayload(approval[f], TRUE, ActorProbe(proof[f]), TargetProbe(proof[f]), clock,
                          [hash |-> "payload", valid |-> TRUE],
                          [bound |-> TRUE, status |-> proof[f].marker])

Finalize(f) ==
    /\ at[f] = "finalize"
    /\ \/ ~proof[f].disposable /\ Finish(f, "finish", "blocked", FALSE)
       \/ /\ proof[f].disposable /\ Released(Finalization(f))
          /\ Goto(f, "write")
          /\ UNCHANGED report
       \/ /\ proof[f].disposable /\ ~Released(Finalization(f))
          /\ Finish(f, "finish",
                    IF Finalization(f).reason_code = "marker_reconciled_existing"
                    THEN "succeeded" ELSE "fail_closed", FALSE)
    /\ UNCHANGED <<proof, approval, artifact, sender, writers>>

(***************************************************************************)
(* The flow's own writer object posts; a POST carries the credentials of   *)
(* the moment it is sent.                                                  *)
(***************************************************************************)
Post(f) ==
    /\ at[f] = "write"
    /\ \/ W!ClaimPost(f) /\ UNCHANGED sender
       \/ W!SendPost(f) /\ sender' = [sender EXCEPT ![f] = account]
       \/ W!Answer(f) /\ UNCHANGED sender
    /\ UNCHANGED <<at, proof, approval, report, artifact>>

\* Mutant: a call that returned is taken for a success.
AnySuccess(f) == outcome[f].status \in {"posted", "reconciled", "failed"}

Succeeded(f) == outcome[f].status \in {"posted", "reconciled"}

ReportOutcome(f) ==
    /\ at[f] = "write"
    /\ pc[f] = "returned"
    /\ Finish(f, "finish", IF Succeeded(f) THEN "succeeded" ELSE "fail_closed", TRUE)
    /\ UNCHANGED <<proof, approval, artifact, sender, writers>>

-----------------------------------------------------------------------------
(***************************************************************************)
(* _finish writes the artifact to a file.  Inside the try block a failure  *)
(* to write is caught like any other: the flow reports itself blocked and  *)
(* writes that.  In an except clause the failure is raised.                *)
(***************************************************************************)
WriteArtifact(f) ==
    /\ at[f] \in {"finish", "handle"}
    /\ artifact' = [artifact EXCEPT ![f] = report[f]]
    /\ Goto(f, "returned")
    /\ UNCHANGED <<proof, approval, report, sender, writers>>

CatchWriteFailure(f) ==
    IF at[f] = "finish" THEN Finish(f, "handle", "blocked", FALSE)
    ELSE Goto(f, "raised") /\ UNCHANGED report

FailToWrite(f) ==
    /\ at[f] \in {"finish", "handle"}
    /\ CatchWriteFailure(f)
    /\ UNCHANGED <<proof, approval, artifact, sender, writers>>

\* The process dies; a request that it sent is on the wire.
Crash(f) ==
    /\ at[f] \in Busy \cup {"confirm"}
    /\ Goto(f, "crashed")
    /\ IF pc[f] \in W!Active THEN W!Crash(f) ELSE UNCHANGED writers
    /\ UNCHANGED <<proof, approval, report, artifact, sender>>

-----------------------------------------------------------------------------
(***************************************************************************)
(* GitHub answers a POST for the account that sent it: it is the approved  *)
(* actor's comment or another's, if that account may write, or is refused. *)
(***************************************************************************)
HandleRequest(f) ==
    /\ W!HandleRequest(f)
    /\ \/ request'[f] = "refused"
       \/ /\ permission = "write"
          /\ request'[f] = IF sender[f] = approval[f].snapshot.actor
                           THEN "accepted" ELSE "accepted_as_other"
    /\ UNCHANGED <<world, flows>>

\* The operator logs in as another, rights change, commits are pushed, the
\* pull request is edited.
Change ==
    /\ changes < MaxChanges
    /\ changes' = changes + 1
    /\ \/ account' \in Accounts \ {account} /\ UNCHANGED <<permission, refs, disposable>>
       \/ /\ permission' \in {"read", "write"} \ {permission}
          /\ UNCHANGED <<account, refs, disposable>>
       \/ /\ refs' \in {"approved", "moved"} \ {refs}
          /\ UNCHANGED <<account, permission, disposable>>
       \/ disposable' = ~disposable /\ UNCHANGED <<account, permission, refs>>
    /\ UNCHANGED <<flows, writers>>

Holds(f, fact) ==
    \/ fact = "actor" /\ account = approval[f].snapshot.actor
    \/ fact = "permission" /\ permission = "write"
    \/ fact = "target" /\ refs = "approved"
    \/ fact = "disposable" /\ disposable
    \/ fact = "no_comment" /\ ~CommentBy(approval[f].snapshot.actor)

\* A flow is between its confirmation and its finalization.
Confirmed(f) == approval[f] # None /\ at[f] \in Reading \cup {"begin", "finalize"}

Observe ==
    held' = [f \in Flows |-> IF ~Confirmed(f)' THEN Never
                             ELSE [fact \in Facts |->
                                      IF Holds(f, fact)' THEN clock' ELSE held[f][fact]]]

Tick ==
    /\ clock < MaxClock
    /\ clock' = clock + 1
    /\ UNCHANGED <<world, flows, writers>>

\* What a flow does by itself once it is started, and once the operator has answered.
Go(f) ==
    /\ \/ BeginProof(f) \/ Read(f) \/ Finalize(f) \/ Post(f) \/ ReportOutcome(f)
       \/ WriteArtifact(f) \/ FailToWrite(f)
    /\ UNCHANGED <<world, clock>>
    /\ Observe

Step(f) ==
    /\ Start(f) \/ Confirm(f) \/ Decline(f) \/ Crash(f)
    /\ UNCHANGED <<world, clock>>
    /\ Observe

Others ==
    /\ \/ Change /\ UNCHANGED clock
       \/ Tick
       \/ (\E f \in Flows : HandleRequest(f)) /\ UNCHANGED clock
    /\ Observe

Next == (\E f \in Flows : Go(f) \/ Step(f)) \/ Others

Spec == Init /\ [][Next]_vars

-----------------------------------------------------------------------------
Releases(f) == at[f] = "finalize" /\ at'[f] = "write"

(***************************************************************************)
(* A flow releases its payload to the writer only if every fact that it    *)
(* rests on (the approved account is logged in, may write, the approved    *)
(* target is current, the pull request is still disposable, the approved   *)
(* account has not commented) held at some moment after the confirmation   *)
(* and at most MaxProofAge ago, whatever changed between the six reads     *)
(* (github_live_post.py:521-627, docs/architecture/side-effects.md:135).   *)
(***************************************************************************)
ReleasedOnCurrentFacts ==
    [][\A f \in Flows : Releases(f) =>
           \A fact \in Facts : /\ held[f][fact] # None
                               /\ clock - held[f][fact] <= MaxProofAge]_vars

(***************************************************************************)
(* What a flow leaves behind is true: a success has a comment of the       *)
(* approved account on GitHub, its own or an earlier flow's, and a failure *)
(* that says that the writer was not invoked sent nothing, with other      *)
(* flows, lost answers and crashes in between                              *)
(* (github_live_post.py:628-700).                                          *)
(***************************************************************************)
ReportTrue ==
    \A f \in Flows : artifact[f] # None =>
        /\ artifact[f].status = "succeeded" => CommentBy(approval[f].snapshot.actor)
        /\ artifact[f].status = "fail_closed" /\ ~artifact[f].writer_invoked => sender[f] = None

(***************************************************************************)
(* docs/architecture/side-effects.md:137: when the smoke posts, evidence   *)
(* records one POST and the comment.  A flow that returns after its POST   *)
(* was accepted says that the writer was invoked.                          *)
(***************************************************************************)
PostRecorded ==
    \A f \in Flows : artifact[f] # None /\ request[f] = "accepted" => artifact[f].writer_invoked
=============================================================================
