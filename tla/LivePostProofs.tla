--------------------------- MODULE LivePostProofs ---------------------------
(***************************************************************************)
(* A flow releases its payload on current facts only, and what it reports  *)
(* is true.  The invariant of the first says what a half-made proof is     *)
(* worth: a fact that was read and agreed with the approval held no        *)
(* earlier than the time that the proof carries, which was taken before    *)
(* its reads.  So the age that finalization measures is at least the age   *)
(* of every fact.                                                          *)
(***************************************************************************)
EXTENDS LivePost, MCFinalization, TLAPS

-----------------------------------------------------------------------------
(***************************************************************************)
(* A permission gate that passes has looked at a proof that could be read, *)
(* for the expected target, recent, and by which comments may be written   *)
(* (permissions.py:82-301).                                                *)
(***************************************************************************)
LEMMA GatePassed ==
    ASSUME NEW probe, NEW expected_target, NEW evaluated_at,
           GateFailure(probe, expected_target, evaluated_at) = None
    PROVE  /\ ~probe.malformed /\ probe.transport_reason_code = None
           /\ probe.actor # None /\ probe.credential_principal # None
           /\ probe.credential_source \in CredentialSources
           /\ probe.checked_target = expected_target
           /\ probe.checked_at # None
           /\ ~Stale(probe.checked_at, evaluated_at)
           /\ PermissionFailure(probe) = None
           /\ probe.issue_comment_write = TRUE
BY FinalizationAssumption DEF GateFailure, ReasonCodes

(***************************************************************************)
(* A payload that finalize_github_payload releases rests on a gate that    *)
(* passes now, on the identity that was approved, on a target read after   *)
(* the approval, recently, and equal to the approved one with its merge    *)
(* base, on the approved payload, and on a scan that found it safe to post *)
(* (finalization.py:358-557).                                              *)
(***************************************************************************)
THEOREM ReleasedIsProved ==
    ASSUME NEW decision, NEW preflight, NEW identity, NEW freshness,
           NEW evaluated_at, NEW comment, NEW scan,
           Released(FinalizeGithubPayload(decision, preflight, identity, freshness,
                                          evaluated_at, comment, scan))
    PROVE  /\ preflight
           /\ GateFailure(identity, decision.target, evaluated_at) = None
           /\ \A field \in SnapshotFields : identity[field] = decision.snapshot[field]
           /\ ~(identity.checked_at < decision.snapshot.checked_at)
           /\ freshness.current_target = decision.target
           /\ decision.target.merge_base # None
           /\ ~(evaluated_at - freshness.checked_at > MaxProofAge)
           /\ ~(freshness.checked_at < decision.timestamp)
           /\ comment.hash = decision.final_payload_hash /\ comment.valid
           /\ scan.bound /\ scan.status = "safe_to_post"
<1> DEFINE status == FinalizeGithubPayload(decision, preflight, identity,
                                           freshness, evaluated_at, comment, scan)
<1>1. \A reason_code : ~Released(FailedClosed(reason_code))
      BY DEF Released, FailedClosed, FinalizationStatus
<1>2. ~Released(FinalizationStatus("not_ready", "marker_reconciliation_deferred"))
      BY DEF Released, FinalizationStatus
<1>3. /\ preflight
      /\ ActorFailure(decision, identity, evaluated_at) = None
      /\ TargetFailure(decision, freshness, evaluated_at) = None
      /\ comment.hash = decision.final_payload_hash /\ comment.valid
      /\ Released(ReconcileMarkers(scan))
      BY <1>1, <1>2 DEF FinalizeGithubPayload
<1>4. scan.bound /\ scan.status = "safe_to_post"
  <2>1. ~Released(FinalizationStatus("not_ready", "marker_reconciled_existing"))
        BY DEF Released, FinalizationStatus
  <2> QED BY <1>1, <1>3, <2>1 DEF ReconcileMarkers
<1>5. /\ GateFailure(identity, decision.target, evaluated_at) = None
      /\ MismatchedFields(decision, identity) = {}
      /\ ~(identity.checked_at < decision.snapshot.checked_at)
      BY <1>3, FinalizationAssumption DEF ActorFailure, ReasonCodes
<1>6. \A field \in SnapshotFields : identity[field] = decision.snapshot[field]
      BY <1>5 DEF MismatchedFields
<1>7. /\ freshness.current_target = decision.target
      /\ decision.target.merge_base # None
      /\ ~(evaluated_at - freshness.checked_at > MaxProofAge)
      /\ ~(freshness.checked_at < decision.timestamp)
      BY <1>3, FinalizationAssumption DEF TargetFailure, ReasonCodes
<1> QED BY <1>3, <1>4, <1>5, <1>6, <1>7

(***************************************************************************)
(* A payload is said to be posted already only for the approved identity,  *)
(* by a scan that found its comment (finalization.py:428-557).             *)
(***************************************************************************)
LEMMA ReconciledIsProved ==
    ASSUME NEW decision, NEW preflight, NEW identity, NEW freshness,
           NEW evaluated_at, NEW comment, NEW scan,
           FinalizeGithubPayload(decision, preflight, identity, freshness,
               evaluated_at, comment, scan).reason_code = "marker_reconciled_existing"
    PROVE  /\ \A field \in SnapshotFields : identity[field] = decision.snapshot[field]
           /\ scan.status = "reconciled_existing"
<1>1. /\ ActorFailure(decision, identity, evaluated_at) = None
      /\ ReconcileMarkers(scan).reason_code = "marker_reconciled_existing"
      BY DEF FinalizeGithubPayload, FailedClosed, FinalizationStatus
<1>2. MismatchedFields(decision, identity) = {}
      BY <1>1, FinalizationAssumption DEF ActorFailure, ReasonCodes
<1>3. scan.status = "reconciled_existing"
      BY <1>1, FinalizationAssumption
      DEF ReconcileMarkers, FailedClosed, FinalizationStatus, ReasonCodes
<1> QED BY <1>2, <1>3 DEF MismatchedFields

-----------------------------------------------------------------------------
Types ==
    /\ account \in Accounts /\ permission \in {"read", "write"}
    /\ refs \in {"approved", "moved"} /\ disposable \in BOOLEAN
    /\ clock \in Moments
    /\ at \in [Flows -> Busy \cup Ended \cup {"idle", "confirm"}]
    /\ proof \in [Flows -> Proof]
    /\ approval = [f \in Flows |-> approval[f]]

Since(f, fact) == held[f][fact] \in Moments /\ proof[f].checked_at <= held[f][fact]

\* The facts that have been read when a flow is at a label, if they agree.
Evidence(f) ==
    /\ at[f] \in Reading \cup {"finalize"} =>
           proof[f].checked_at \in Moments /\ proof[f].checked_at <= clock
    /\ at[f] \in {"repo", "pull", "comments", "finalize"} =>
           (proof[f].actor = approval[f].snapshot.actor => Since(f, "actor"))
    /\ at[f] \in {"pull", "comments", "finalize"} =>
           (proof[f].permission = "write" => Since(f, "permission"))
    /\ at[f] \in {"comments", "finalize"} =>
           /\ proof[f].refs = "approved" => Since(f, "target")
           /\ proof[f].disposable => Since(f, "disposable")
    /\ at[f] = "finalize" =>
           (proof[f].marker = "safe_to_post" /\ proof[f].actor = approval[f].snapshot.actor
                => Since(f, "no_comment"))

IInv ==
    /\ Types
    /\ \A f \in Flows :
           /\ approval[f] # None => approval[f].target = ApprovedTarget /\ Evidence(f)
           /\ at[f] = "finalize" => approval[f] # None

-----------------------------------------------------------------------------
(***************************************************************************)
(* A fact of a confirmed flow that holds after a step held now; any other  *)
(* keeps its time (Observe, the history of github_live_post.py:521-627).   *)
(***************************************************************************)
LEMMA Observed ==
    ASSUME NEW f \in Flows, NEW fact \in Facts, Observe, Confirmed(f)'
    PROVE  /\ Holds(f, fact)' => held'[f][fact] = clock'
           /\ ~Holds(f, fact)' => held'[f][fact] = held[f][fact]
BY DEF Observe

(***************************************************************************)
(* What a flow knows stays true while it does nothing, whatever the others *)
(* and the clock do.                                                       *)
(***************************************************************************)
LEMMA Waiting ==
    ASSUME IInv, NEW f \in Flows, at'[f] = at[f], proof'[f] = proof[f],
           approval'[f] = approval[f], approval[f] # None,
           Observe, clock' \in Moments, clock <= clock'
    PROVE  Evidence(f)'
<1>1. Evidence(f) BY DEF IInv
<1>2. \A fact \in Facts : Confirmed(f)' /\ proof[f].checked_at \in Moments
          /\ proof[f].checked_at <= clock /\ Since(f, fact) => Since(f, fact)'
  <2> SUFFICES ASSUME NEW fact \in Facts, Confirmed(f)', proof[f].checked_at \in Moments,
                      proof[f].checked_at <= clock, Since(f, fact)
               PROVE  Since(f, fact)'
      OBVIOUS
  <2>1. held'[f][fact] = clock' \/ held'[f][fact] = held[f][fact] BY Observed
  <2>2. clock \in Int /\ clock' \in Int /\ proof[f].checked_at \in Int
        BY LivePostAssumption DEF IInv, Types, Moments
  <2> QED BY <2>1, <2>2 DEF Since
<1>3. at[f] \in Reading \cup {"finalize"} => Confirmed(f)' BY DEF Confirmed
<1>4. clock \in Int /\ clock' \in Int BY LivePostAssumption DEF IInv, Types, Moments
<1> QED
  <2>1. CASE at[f] \in Reading \cup {"finalize"}
    <3>1. proof[f].checked_at \in Moments /\ proof[f].checked_at <= clock
          BY <1>1, <2>1 DEF Evidence
    <3>2. proof[f].checked_at \in Int BY <3>1, LivePostAssumption DEF Moments
    <3>3. proof'[f].checked_at \in Moments /\ proof'[f].checked_at <= clock'
          BY <3>1, <3>2, <1>4
    <3>4. \A fact \in Facts : Since(f, fact) => Since(f, fact)' BY <1>2, <1>3, <2>1, <3>1
    <3> QED BY <1>1, <3>3, <3>4 DEF Evidence, Facts
  <2>2. CASE at[f] \notin Reading \cup {"finalize"}
        BY <2>2 DEF Evidence, Reading
  <2> QED BY <2>1, <2>2

-----------------------------------------------------------------------------
(***************************************************************************)
(* The types, and that a flow touches no other flow's variables.           *)
(***************************************************************************)
LEMMA ProofUpdated ==
    ASSUME NEW p \in Proof
    PROVE  /\ \A shows \in BOOLEAN, sha \in {"approved", "moved"} :
                  [p EXCEPT !.disposable = shows, !.refs = sha] \in Proof
           /\ \A scan \in {"safe_to_post", "reconciled_existing", "failed_closed"} :
                  [p EXCEPT !.marker = scan] \in Proof
<1>1. ASSUME NEW shows \in BOOLEAN, NEW sha \in {"approved", "moved"}
      PROVE [p EXCEPT !.disposable = shows, !.refs = sha] \in Proof
  <2>1. [p EXCEPT !.disposable = shows] \in Proof BY DEF Proof
  <2> QED BY <2>1 DEF Proof
<1>2. ASSUME NEW scan \in {"safe_to_post", "reconciled_existing", "failed_closed"}
      PROVE [p EXCEPT !.marker = scan] \in Proof
      BY <1>2 DEF Proof
<1> QED BY <1>1, <1>2, Zenon

LEMMA GoTyped ==
    ASSUME Types, NEW f \in Flows, Go(f)
    PROVE  Types' /\ clock' = clock /\
           \A g \in Flows \ {f} : /\ at'[g] = at[g] /\ proof'[g] = proof[g]
                                 /\ approval'[g] = approval[g]
<1> USE DEF Types, Go, world, Goto, Finish, Busy, Ended, Reading
<1>1. CASE BeginProof(f) BY <1>1 DEF BeginProof, Open, Unread, Proof
<1>2. CASE ReadUser(f) BY <1>2 DEF ReadUser, Proof
<1>3. CASE ReadRepo(f) BY <1>3 DEF ReadRepo, Proof
<1>4. CASE ReadPull(f)
  <2>1. proof' = [proof EXCEPT ![f] = [proof[f] EXCEPT !.disposable = disposable, !.refs = refs]]
        BY <1>4, Zenon DEF ReadPull
  <2>2. [proof[f] EXCEPT !.disposable = disposable, !.refs = refs] \in Proof
    <3>1. proof[f] \in Proof /\ disposable \in BOOLEAN /\ refs \in {"approved", "moved"} OBVIOUS
    <3> QED BY <3>1, ProofUpdated, Zenon
  <2> QED BY <2>1, <2>2, <1>4 DEF ReadPull
<1>5. CASE ReadComments(f)
  <2>1. PICK scan \in {Scan(f), "failed_closed"} : proof' = [proof EXCEPT ![f].marker = scan]
        BY <1>5, Zenon DEF ReadComments
  <2>2. [proof[f] EXCEPT !.marker = scan] \in Proof
    <3>1. proof[f] \in Proof /\ scan \in {"safe_to_post", "reconciled_existing", "failed_closed"}
          BY DEF Scan
    <3> QED BY <3>1, ProofUpdated, Zenon
  <2>3. proof' = [proof EXCEPT ![f] = [proof[f] EXCEPT !.marker = scan]] BY <2>1
  <2> QED BY <2>2, <2>3, <1>5 DEF ReadComments
<1>6. CASE FailRead(f) BY <1>6 DEF FailRead
<1>7. CASE Finalize(f) BY <1>7 DEF Finalize
<1>8. CASE Post(f) BY <1>8 DEF Post
<1>9. CASE ReportOutcome(f) BY <1>9 DEF ReportOutcome
<1>10. CASE WriteArtifact(f) BY <1>10 DEF WriteArtifact
<1>11. CASE FailToWrite(f) BY <1>11 DEF FailToWrite, CatchWriteFailure
<1> QED BY <1>1, <1>2, <1>3, <1>4, <1>5, <1>6, <1>7, <1>8, <1>9, <1>10, <1>11 DEF Read

LEMMA StepTyped ==
    ASSUME Types, NEW f \in Flows, Step(f)
    PROVE  Types' /\ clock' = clock /\
           \A g \in Flows \ {f} : /\ at'[g] = at[g] /\ proof'[g] = proof[g]
                                 /\ approval'[g] = approval[g]
<1> USE DEF Types, Step, world, Goto, Finish, Busy, Ended
<1>1. CASE Start(f) BY <1>1 DEF Start
<1>2. CASE Confirm(f) BY <1>2 DEF Confirm
<1>3. CASE Decline(f) BY <1>3 DEF Decline
<1>4. CASE Crash(f) BY <1>4 DEF Crash
<1> QED BY <1>1, <1>2, <1>3, <1>4

LEMMA OthersTyped ==
    ASSUME Types, Others
    PROVE  Types' /\ clock <= clock' /\ UNCHANGED <<at, proof, approval>>
<1> USE LivePostAssumption DEF Types, Others, world, flows
<1>1. CASE Change /\ UNCHANGED clock
  <2>1. /\ UNCHANGED <<at, proof, approval>> /\ clock <= clock' BY <1>1 DEF Change, Moments
  <2>2. account' \in Accounts /\ permission' \in {"read", "write"}
        /\ refs' \in {"approved", "moved"}
        BY <1>1 DEF Change
  <2>3. disposable' = ~disposable \/ disposable' = disposable BY <1>1 DEF Change
  <2>4. disposable' \in BOOLEAN BY <2>3, Zenon
  <2> QED BY <2>1, <2>2, <2>4, <1>1
<1>2. CASE Tick BY <1>2 DEF Tick, Moments
<1>3. CASE (\E f \in Flows : HandleRequest(f)) /\ UNCHANGED clock
      BY <1>3 DEF HandleRequest, Moments
<1> QED BY <1>1, <1>2, <1>3

(***************************************************************************)
(* What each read adds to the proof of a confirmed flow                    *)
(* (github_live_post.py:745-794).                                          *)
(***************************************************************************)
LEMMA ReadKnows ==
    ASSUME IInv, NEW f \in Flows, approval[f] # None, Types', Go(f),
           BeginProof(f) \/ ReadUser(f) \/ ReadRepo(f) \/ ReadPull(f) \/ ReadComments(f)
    PROVE  Evidence(f)' /\ approval'[f] = approval[f]
<1>1. /\ approval' = approval /\ clock' = clock /\ Observe /\ UNCHANGED writers
      /\ sender' = sender /\ UNCHANGED world
      BY DEF BeginProof, ReadUser, ReadRepo, ReadPull, ReadComments, Go
<1>2. Evidence(f) /\ Types BY DEF IInv
<1>3. clock \in Int /\ (proof[f].checked_at \in Moments => proof[f].checked_at \in Int)
      BY <1>2, LivePostAssumption DEF Types, Moments
<1>4. Confirmed(f)'
      BY <1>1, <1>2 DEF BeginProof, ReadUser, ReadRepo, ReadPull, ReadComments, Goto, Types,
                        Confirmed, Reading
<1>5. \A fact \in Facts : proof'[f].checked_at = proof[f].checked_at
          /\ proof[f].checked_at \in Moments /\ proof[f].checked_at <= clock =>
              /\ Since(f, fact) => Since(f, fact)'
              /\ Holds(f, fact)' => Since(f, fact)'
  <2> SUFFICES ASSUME NEW fact \in Facts, proof'[f].checked_at = proof[f].checked_at,
                      proof[f].checked_at \in Moments, proof[f].checked_at <= clock
               PROVE  /\ Since(f, fact) => Since(f, fact)'
                      /\ Holds(f, fact)' => Since(f, fact)'
      OBVIOUS
  <2>1. /\ Holds(f, fact)' => held'[f][fact] = clock'
        /\ ~Holds(f, fact)' => held'[f][fact] = held[f][fact]
        BY <1>1, <1>4, Observed
  <2> QED BY <2>1, <1>1, <1>2 DEF Since, Types
<1>6. CASE BeginProof(f)
      BY <1>6, <1>2, <1>3 DEF BeginProof, Open, Unread, Goto, Types, Evidence, Reading, Go
<1>7. CASE ReadUser(f)
  <2>1. /\ proof'[f] = [proof[f] EXCEPT !.actor = account] /\ at[f] = "user" /\ at'[f] = "repo"
        BY <1>7, <1>2 DEF ReadUser, Goto, Types
  <2>2. /\ proof'[f].checked_at = proof[f].checked_at /\ proof'[f].actor = account
        BY <2>1, <1>2 DEF Types, Proof
  <2>3. proof'[f].actor = approval'[f].snapshot.actor => Holds(f, "actor")'
        BY <2>2, <1>1 DEF Holds, world
  <2> QED BY <2>1, <2>2, <2>3, <1>1, <1>2, <1>5 DEF Evidence, Reading, Facts
<1>8. CASE ReadRepo(f)
  <2>1. /\ proof'[f] = [proof[f] EXCEPT !.permission = permission]
        /\ at[f] = "repo" /\ at'[f] = "pull"
        BY <1>8, <1>2 DEF ReadRepo, Goto, Types
  <2>2. /\ proof'[f].checked_at = proof[f].checked_at /\ proof'[f].actor = proof[f].actor
        /\ proof'[f].permission = permission
        BY <2>1, <1>2 DEF Types, Proof
  <2>3. proof'[f].permission = "write" => Holds(f, "permission")'
        BY <2>2, <1>1 DEF Holds, world
  <2> QED BY <2>1, <2>2, <2>3, <1>1, <1>2, <1>5 DEF Evidence, Reading, Facts
<1>9. CASE ReadPull(f)
  <2>1. /\ proof'[f] = [proof[f] EXCEPT !.disposable = disposable, !.refs = refs]
        /\ at[f] = "pull" /\ at'[f] = "comments"
        BY <1>9, <1>2 DEF ReadPull, Goto, Types
  <2>2. /\ proof'[f].checked_at = proof[f].checked_at /\ proof'[f].actor = proof[f].actor
        /\ proof'[f].permission = proof[f].permission
        /\ proof'[f].disposable = disposable /\ proof'[f].refs = refs
        BY <2>1, <1>2 DEF Types, Proof
  <2>3. /\ proof'[f].refs = "approved" => Holds(f, "target")'
        /\ proof'[f].disposable => Holds(f, "disposable")'
        BY <2>2, <1>1 DEF Holds, world
  <2> QED BY <2>1, <2>2, <2>3, <1>1, <1>2, <1>5 DEF Evidence, Reading, Facts
<1>10. CASE ReadComments(f)
  <2>1. PICK scan \in {Scan(f), "failed_closed"} :
            proof' = [proof EXCEPT ![f].marker = scan]
        BY <1>10 DEF ReadComments
  <2>2. /\ proof'[f] = [proof[f] EXCEPT !.marker = scan]
        /\ at[f] = "comments" /\ at'[f] = "finalize"
        BY <2>1, <1>10, <1>2 DEF ReadComments, Goto, Types
  <2>3. /\ proof'[f].checked_at = proof[f].checked_at /\ proof'[f].actor = proof[f].actor
        /\ proof'[f].permission = proof[f].permission
        /\ proof'[f].disposable = proof[f].disposable /\ proof'[f].refs = proof[f].refs
        /\ proof'[f].marker = scan
        BY <2>2, <1>2 DEF Types, Proof
  <2>4. proof'[f].marker = "safe_to_post" => ~CommentBy(proof[f].actor) BY <2>3 DEF Scan
  <2>5. ~CommentBy(proof[f].actor) /\ proof[f].actor = approval[f].snapshot.actor
            => Holds(f, "no_comment")'
        BY <1>1 DEF Holds, CommentBy, writers
  <2> QED BY <2>2, <2>3, <2>4, <2>5, <1>1, <1>2, <1>5 DEF Evidence, Reading, Facts
<1> QED BY <1>1, <1>6, <1>7, <1>8, <1>9, <1>10

(***************************************************************************)
(* Every other step of a flow leaves it without a proof to keep            *)
(* (github_live_post.py:520-728).                                          *)
(***************************************************************************)
LEMMA OtherSteps ==
    ASSUME IInv, NEW f \in Flows,
           \/ FailRead(f) \/ Finalize(f) \/ Post(f) \/ ReportOutcome(f)
           \/ WriteArtifact(f) \/ FailToWrite(f)
           \/ Start(f) \/ Confirm(f) \/ Decline(f) \/ Crash(f)
    PROVE  /\ at'[f] \notin Reading \cup {"finalize"}
           /\ approval'[f] # None => approval'[f].target = ApprovedTarget
<1> USE DEF IInv, Types, Goto, Finish, Busy, Ended, Reading
<1>1. CASE FailRead(f) BY <1>1 DEF FailRead
<1>2. CASE Finalize(f) BY <1>2 DEF Finalize
<1>3. CASE Post(f) BY <1>3 DEF Post
<1>4. CASE ReportOutcome(f) BY <1>4 DEF ReportOutcome
<1>5. CASE WriteArtifact(f) BY <1>5 DEF WriteArtifact
<1>6. CASE FailToWrite(f) BY <1>6 DEF FailToWrite, CatchWriteFailure
<1>7. CASE Start(f) BY <1>7 DEF Start
<1>8. CASE Decline(f) BY <1>8 DEF Decline
<1>9. CASE Crash(f) BY <1>9 DEF Crash
<1>10. CASE Confirm(f)
  <2>1. CASE Decision(f) = None
    <3>1. /\ approval'[f] = Approval(ActorProbe(proof[f]), ApprovedTarget, "payload", clock)
          /\ at'[f] = "begin"
          BY <1>10, <2>1 DEF Confirm
    <3> QED BY <3>1 DEF Approval
  <2>2. CASE Decision(f) # None BY <1>10, <2>2 DEF Confirm
  <2> QED BY <2>1, <2>2
<1> QED BY <1>1, <1>2, <1>3, <1>4, <1>5, <1>6, <1>7, <1>8, <1>9, <1>10

LEMMA InitialEvidence == Init => IInv
<1> SUFFICES ASSUME Init PROVE IInv
    OBVIOUS
<1>1. Types
      BY LivePostAssumption DEF Init, Types, Moments, Busy, Proof, Unread
<1>2. \A f \in Flows : approval[f] = None /\ at[f] = "idle" BY DEF Init
<1> QED BY <1>1, <1>2 DEF IInv

LEMMA KeepsEvidence == IInv /\ [Next]_vars => IInv'
<1> SUFFICES ASSUME IInv, [Next]_vars PROVE IInv'
    OBVIOUS
<1>1. Types BY DEF IInv
<1>2. ASSUME NEW f \in Flows, Go(f) \/ Step(f)
      PROVE  IInv'
  <2>1. /\ Types' /\ clock' = clock
        /\ \A g \in Flows \ {f} : /\ at'[g] = at[g] /\ proof'[g] = proof[g]
                                  /\ approval'[g] = approval[g]
        BY <1>1, <1>2, GoTyped, StepTyped
  <2>2. Observe /\ clock' \in Moments /\ clock <= clock'
        BY <1>1, <1>2, <2>1, LivePostAssumption DEF Go, Step, Types, Moments
  <2>3. ASSUME NEW g \in Flows \ {f}
        PROVE  /\ approval'[g] # None => approval'[g].target = ApprovedTarget /\ Evidence(g)'
               /\ at'[g] = "finalize" => approval'[g] # None
    <3>1. at'[g] = at[g] /\ proof'[g] = proof[g] /\ approval'[g] = approval[g] BY <2>1
    <3>2. approval[g] # None => Evidence(g)' BY <2>2, <3>1, Waiting
    <3> QED BY <3>1, <3>2 DEF IInv
  <2>4. /\ approval'[f] # None => approval'[f].target = ApprovedTarget /\ Evidence(f)'
        /\ at'[f] = "finalize" => approval'[f] # None
    <3>1. CASE \/ BeginProof(f) \/ ReadUser(f) \/ ReadRepo(f)
               \/ ReadPull(f) \/ ReadComments(f)
      <4>1. Go(f) BY <1>2, <3>1 DEF Go, Read, Step
      <4>2. approval' = approval
            BY <3>1 DEF BeginProof, ReadUser, ReadRepo, ReadPull, ReadComments
      <4>3. at'[f] = "finalize" => approval[f] # None
            BY <3>1, <1>1 DEF BeginProof, ReadUser, ReadRepo, ReadPull, ReadComments, Goto, Types
      <4>4. approval[f] # None => Evidence(f)' BY <3>1, <4>1, <2>1, ReadKnows
      <4> QED BY <4>2, <4>3, <4>4 DEF IInv
    <3>2. CASE \/ FailRead(f) \/ Finalize(f) \/ Post(f) \/ ReportOutcome(f)
               \/ WriteArtifact(f) \/ FailToWrite(f)
               \/ Start(f) \/ Confirm(f) \/ Decline(f) \/ Crash(f)
          BY <3>2, OtherSteps DEF Evidence, Reading
    <3> QED BY <1>2, <3>1, <3>2 DEF Go, Step, Read
  <2> QED BY <2>1, <2>3, <2>4 DEF IInv
<1>3. CASE Others
  <2>1. Types' /\ clock <= clock' /\ UNCHANGED <<at, proof, approval>>
        BY <1>1, <1>3, OthersTyped
  <2>2. Observe /\ clock' \in Moments BY <1>3, <2>1 DEF Others, Types
  <2>3. \A f \in Flows : approval[f] # None => Evidence(f)' BY <2>1, <2>2, Waiting
  <2> QED BY <2>1, <2>3 DEF IInv
<1>4. CASE UNCHANGED vars
      BY <1>4 DEF IInv, Types, Evidence, Since, vars, world, flows
<1> QED BY <1>2, <1>3, <1>4 DEF Next

-----------------------------------------------------------------------------
(***************************************************************************)
(* ReleasedOnCurrentFacts for any flows, accounts, ages and bounds: a flow *)
(* releases its payload only if all that it rests on held after the        *)
(* confirmation and at most MaxProofAge ago (github_live_post.py:521-627). *)
(***************************************************************************)
THEOREM ReleasesOnCurrentFacts == Spec => ReleasedOnCurrentFacts
<1>1. ASSUME IInv, Next, NEW f \in Flows, Releases(f), NEW fact \in Facts
      PROVE  held[f][fact] # None /\ clock - held[f][fact] <= MaxProofAge
  <2>1. Types BY <1>1 DEF IInv
  <2>2. Finalize(f)
    <3>1. ~Others BY <1>1, <2>1, OthersTyped DEF Releases
    <3>2. \A g \in Flows : Go(g) \/ Step(g) => g = f
          BY <1>1, <2>1, GoTyped, StepTyped DEF Releases
    <3>3. Go(f) \/ Step(f) BY <1>1, <3>1, <3>2 DEF Next
    <3>4. at[f] = "finalize" /\ at'[f] # "crashed" BY <1>1 DEF Releases
    <3>5. ~Crash(f) BY <2>1, <3>4 DEF Crash, Goto, Types
    <3> QED BY <3>3, <3>4, <3>5
            DEF Go, Step, Read, BeginProof, ReadUser, ReadRepo, ReadPull, ReadComments, FailRead,
                Post, ReportOutcome, WriteArtifact, FailToWrite, Start, Confirm, Decline, Reading
  <2>3. proof[f].disposable /\ Released(Finalization(f))
        BY <1>1, <2>1, <2>2 DEF Finalize, Finish, Goto, Releases, Types
  <2>4. approval[f].target = ApprovedTarget /\ Evidence(f)
        BY <1>1 DEF IInv, Releases
  <2>5. /\ GateFailure(ActorProbe(proof[f]), approval[f].target, clock) = None
        /\ \A field \in SnapshotFields :
               ActorProbe(proof[f])[field] = approval[f].snapshot[field]
        /\ TargetProbe(proof[f]).current_target = approval[f].target
        /\ ~(clock - TargetProbe(proof[f]).checked_at > MaxProofAge)
        /\ [bound |-> TRUE, status |-> proof[f].marker].status = "safe_to_post"
    <3> DEFINE identity == ActorProbe(proof[f])
               freshness == TargetProbe(proof[f])
               comment == [hash |-> "payload", valid |-> TRUE]
               scan == [bound |-> TRUE, status |-> proof[f].marker]
               preflight == TRUE
    <3>1. Released(FinalizeGithubPayload(approval[f], preflight, identity,
                                         freshness, clock, comment, scan))
          BY <2>3 DEF Finalization
    <3> HIDE DEF identity, freshness, comment, scan, preflight
    <3>2. GateFailure(identity, approval[f].target, clock) = None
          BY <3>1, ReleasedIsProved
    <3>3. \A field \in SnapshotFields : identity[field] = approval[f].snapshot[field]
          BY <3>1, ReleasedIsProved
    <3>4. freshness.current_target = approval[f].target
          BY <3>1, ReleasedIsProved
    <3>5. ~(clock - freshness.checked_at > MaxProofAge)
          BY <3>1, ReleasedIsProved
    <3>6. scan.status = "safe_to_post"
          BY <3>1, ReleasedIsProved
    <3> QED BY <3>2, <3>3, <3>4, <3>5, <3>6 DEF identity, freshness, scan
  <2>6. proof[f].permission = "write"
    <3>1. ActorProbe(proof[f]).issue_comment_write = TRUE BY <2>5, GatePassed
    <3> QED BY <3>1 DEF ActorProbe
  <2>7. proof[f].actor = approval[f].snapshot.actor BY <2>5 DEF ActorProbe, SnapshotFields
  <2>8. proof[f].refs = "approved" BY <2>4, <2>5 DEF TargetProbe, ApprovedTarget
  <2>9. ~(clock - proof[f].checked_at > MaxProofAge) BY <2>5 DEF TargetProbe
  <2>10. Since(f, fact)
         BY <1>1, <2>3, <2>4, <2>5, <2>6, <2>7, <2>8 DEF Evidence, Releases, Facts
  <2>11. /\ proof[f].checked_at \in Int /\ clock \in Int /\ held[f][fact] \in Int
         /\ MaxProofAge \in Int /\ held[f][fact] # None
    <3>1. proof[f].checked_at \in Moments BY <1>1, <2>4 DEF Evidence, Releases
    <3> QED BY <3>1, <2>1, <2>10, LivePostAssumption, FinalizationAssumption
            DEF Moments, Types, Since
  <2> QED BY <2>9, <2>10, <2>11 DEF Since
<1>2. ASSUME IInv, UNCHANGED vars, NEW f \in Flows
      PROVE  ~Releases(f)
      BY <1>2 DEF vars, flows, Releases
<1>3. IInv /\ [Next]_vars =>
          [\A f \in Flows : Releases(f) =>
               \A fact \in Facts : /\ held[f][fact] # None
                                   /\ clock - held[f][fact] <= MaxProofAge]_vars
      BY <1>1, <1>2
<1> QED BY InitialEvidence, KeepsEvidence, <1>3, PTL DEF Spec, ReleasedOnCurrentFacts
-----------------------------------------------------------------------------
(***************************************************************************)
(* What a flow leaves behind is true.  Until a flow writes it has sent     *)
(* nothing and said nothing; a comment that exists stays, with the account *)
(* that it was sent by; so what made a report true keeps it true.          *)
(***************************************************************************)
Fates == {"none", "sent", "refused", "accepted", "accepted_as_other"}

FlowTypes ==
    /\ Types
    /\ report \in [Flows -> Report \cup {None}]
    /\ artifact \in [Flows -> Report \cup {None}]
    /\ sender = [f \in Flows |-> sender[f]]
    /\ pc \in [Flows -> {"idle", "post", "waiting", "recover", "returned", "crashed"}]
    /\ request \in [Flows -> Fates]
    /\ outcome = [f \in Flows |-> outcome[f]]

Silent(f) == sender[f] = None /\ request[f] = "none" /\ pc[f] = "idle"

\* What a flow's writer and its request say of each other.
Accounted(f) ==
    /\ at[f] \notin {"write", "finish", "handle"} \cup Ended => Silent(f)
    /\ at[f] \notin {"finish", "handle"} \cup Ended => report[f] = None /\ artifact[f] = None
    /\ pc[f] \in {"idle", "post"} => request[f] = "none"
    /\ pc[f] # "recover"
    /\ request[f] = "accepted" => sender[f] = approval[f].snapshot.actor
    /\ pc[f] = "returned" /\ Succeeded(f) => request[f] = "accepted"

True(f, said) ==
    said # None =>
        /\ said.status = "succeeded" => CommentBy(approval[f].snapshot.actor)
        /\ said.status = "fail_closed" /\ ~said.writer_invoked => sender[f] = None

Honest(f) ==
    /\ True(f, report[f]) /\ True(f, artifact[f])
    /\ at[f] = "finalize" /\ proof[f].marker = "reconciled_existing" => CommentBy(proof[f].actor)

HonestInv == FlowTypes /\ \A f \in Flows : Accounted(f) /\ Honest(f)

\* What a step may do to requests: a comment stays where it is.
CommentsKept ==
    \A f \in Flows : request[f] \in {"accepted", "accepted_as_other"} =>
        request'[f] = request[f] /\ sender'[f] = sender[f]

(***************************************************************************)
(* A flow to which nothing happens keeps its word.                         *)
(***************************************************************************)
LEMMA WordKept ==
    ASSUME NEW f \in Flows, Accounted(f), Honest(f), CommentsKept,
           at'[f] = at[f], proof'[f] = proof[f], approval'[f] = approval[f],
           report'[f] = report[f], artifact'[f] = artifact[f], sender'[f] = sender[f],
           pc'[f] = pc[f], request'[f] = request[f], outcome'[f] = outcome[f]
    PROVE  Accounted(f)' /\ Honest(f)'
<1>1. \A author : CommentBy(author) => CommentBy(author)' BY DEF CommentsKept, CommentBy
<1>2. Accounted(f)' BY DEF Accounted, Silent, Succeeded
<1>3. True(f, report[f])' /\ True(f, artifact[f])' BY <1>1 DEF Honest, True
<1> QED BY <1>1, <1>2, <1>3 DEF Honest

\* Everything of a flow that its reports are about.
Untouched(f) ==
    /\ at'[f] = at[f] /\ proof'[f] = proof[f] /\ approval'[f] = approval[f]
    /\ report'[f] = report[f] /\ artifact'[f] = artifact[f] /\ sender'[f] = sender[f]
    /\ pc'[f] = pc[f] /\ request'[f] = request[f] /\ outcome'[f] = outcome[f]

(***************************************************************************)
(* The call of the writer: one POST at most, and a success only for a      *)
(* comment (github_live_post.py:661-675, writer_github.py:190-266).        *)
(***************************************************************************)
LEMMA CallAccounted ==
    ASSUME FlowTypes, Types', NEW f \in Flows, Accounted(f), Post(f)
    PROVE  /\ FlowTypes' /\ Accounted(f)' /\ CommentsKept
           /\ \A g \in Flows \ {f} : Untouched(g)
           /\ UNCHANGED <<at, proof, approval, report, artifact>>
<1> USE DEF FlowTypes
<1>1. at[f] = "write" /\ UNCHANGED <<at, proof, approval, report, artifact>> BY DEF Post
<1>2. CASE W!ClaimPost(f) /\ UNCHANGED sender
  <2>1. /\ pc[f] = "idle" /\ pc' = [pc EXCEPT ![f] = "post"]
        /\ UNCHANGED <<request, outcome, sender>>
        BY <1>2 DEF W!ClaimPost, W!Goto
  <2> QED BY <1>1, <2>1 DEF Accounted, CommentsKept, Untouched, Ended
<1>3. CASE W!SendPost(f) /\ sender' = [sender EXCEPT ![f] = account]
  <2>1. /\ pc[f] = "post" /\ pc' = [pc EXCEPT ![f] = "waiting"]
        /\ request' = [request EXCEPT ![f] = "sent"] /\ outcome' = outcome
        BY <1>3 DEF W!SendPost, W!Goto
  <2>2. request[f] = "none" BY <2>1 DEF Accounted
  <2>3. FlowTypes' BY <1>1, <1>3, <2>1 DEF Fates
  <2>4. CommentsKept BY <1>3, <2>1, <2>2 DEF CommentsKept
  <2>5. Accounted(f)' BY <1>1, <1>3, <2>1 DEF Accounted, Ended
  <2> QED BY <1>1, <1>3, <2>1, <2>3, <2>4, <2>5 DEF Untouched
<1>4. CASE W!Answer(f) /\ UNCHANGED sender
  <2>1. /\ pc[f] = "waiting" /\ UNCHANGED request
        /\ pc' = [pc EXCEPT ![f] = "returned"]
        /\ \E o : outcome' = [outcome EXCEPT ![f] = o] /\
                 (o.status \in {"posted", "reconciled"} => request[f] = "accepted")
    <3> HIDE DEF FlowTypes
    <3>1. \A status, detail, retryable :
              /\ W!Return(f, status, detail, retryable, 0)
              /\ status \in {"posted", "reconciled"} => request[f] = "accepted"
              => /\ pc' = [pc EXCEPT ![f] = "returned"]
                 /\ \E o : outcome' = [outcome EXCEPT ![f] = o] /\
                          (o.status \in {"posted", "reconciled"} => request[f] = "accepted")
      <4> SUFFICES ASSUME NEW status, NEW detail, NEW retryable,
                          W!Return(f, status, detail, retryable, 0),
                          status \in {"posted", "reconciled"} => request[f] = "accepted"
                   PROVE  /\ pc' = [pc EXCEPT ![f] = "returned"]
                          /\ \E o : outcome' = [outcome EXCEPT ![f] = o] /\
                                 (o.status \in {"posted", "reconciled"} => request[f] = "accepted")
          OBVIOUS
      <4> DEFINE o == [status |-> status, detail |-> detail, retryable |-> retryable,
                       post_attempt_count |-> W!PostAttempts(f), recovery_scan_count |-> 0]
      <4>1. o.status = status OBVIOUS
      <4>2. outcome' = [outcome EXCEPT ![f] = o] /\ pc' = [pc EXCEPT ![f] = "returned"]
            BY DEF W!Return, W!Goto
      <4> HIDE DEF o
      <4> QED BY <4>1, <4>2
    <3>2. \A detail, retryable : W!Fail(f, detail, retryable, 0) =>
              W!Return(f, "failed", detail, retryable, 0)
          BY DEF W!Fail
    <3>3. /\ pc[f] = "waiting" /\ UNCHANGED request
          /\ \/ W!Return(f, "posted", "posted", FALSE, 0) /\ request[f] = "accepted"
             \/ \E detail, retryable : W!Fail(f, detail, retryable, 0)
      <4>1. CASE W!ReceiveComment(f) BY <4>1 DEF W!ReceiveComment
      <4>2. CASE W!ReceiveOthersComment(f) BY <4>2 DEF W!ReceiveOthersComment
      <4>3. CASE W!ReceiveMalformed(f) BY <4>3 DEF W!ReceiveMalformed
      <4>4. CASE W!ReceiveRefusal(f) BY <4>4 DEF W!ReceiveRefusal
      <4>5. CASE W!LoseAnswer(f) BY <4>5 DEF W!LoseAnswer
      <4>6. CASE W!TimeOut(f) BY <4>6 DEF W!TimeOut
      <4> QED BY <1>4, <4>1, <4>2, <4>3, <4>4, <4>5, <4>6 DEF W!Answer
    <3> QED BY <3>1, <3>2, <3>3
  <2>2. PICK o : /\ outcome' = [outcome EXCEPT ![f] = o]
                 /\ o.status \in {"posted", "reconciled"} => request[f] = "accepted"
        BY <2>1
  <2>3. /\ pc' \in [Flows -> {"idle", "post", "waiting", "recover", "returned", "crashed"}]
        /\ outcome' = [g \in Flows |-> outcome'[g]] /\ outcome'[f] = o /\ pc'[f] = "returned"
        /\ \A g \in Flows \ {f} : pc'[g] = pc[g] /\ outcome'[g] = outcome[g]
        BY <2>1, <2>2
  <2>4. UNCHANGED <<request, sender>> BY <1>4, <2>1
  <2> HIDE DEF FlowTypes
  <2>5. FlowTypes' BY <1>1, <2>3, <2>4 DEF FlowTypes
  <2>6. CommentsKept /\ \A g \in Flows \ {f} : Untouched(g)
        BY <1>1, <2>3, <2>4 DEF CommentsKept, Untouched
  <2>7. Accounted(f)' BY <1>1, <2>2, <2>3, <2>4 DEF Accounted, Succeeded, Ended
  <2> QED BY <1>1, <2>5, <2>6, <2>7
<1> QED BY <1>2, <1>3, <1>4 DEF Post

\* A step of a flow that sends nothing.
Quiet(f) ==
    /\ FlowTypes' /\ UNCHANGED <<sender, request, outcome>>
    /\ \A g \in Flows \ {f} : Untouched(g)

(***************************************************************************)
(* The reads and the confirmation: a scan that says that the comment is    *)
(* there has seen it (github_live_post.py:551-589, 773-794).               *)
(***************************************************************************)
LEMMA ReadHonest ==
    ASSUME HonestInv, Types', NEW f \in Flows,
           \A g \in Flows \ {f} : /\ at'[g] = at[g] /\ proof'[g] = proof[g]
                                  /\ approval'[g] = approval[g],
           \/ BeginProof(f) \/ ReadUser(f) \/ ReadRepo(f) \/ ReadPull(f) \/ ReadComments(f)
           \/ Confirm(f) /\ at'[f] = "begin"
    PROVE  Quiet(f) /\ Accounted(f)' /\ Honest(f)'
<1>1. FlowTypes /\ Accounted(f) /\ Honest(f) BY DEF HonestInv
<1>2. /\ UNCHANGED <<report, artifact, sender, pc, request, outcome>>
      /\ at[f] \in Reading \cup {"begin", "confirm"}
      BY <1>1 DEF BeginProof, ReadUser, ReadRepo, ReadPull, ReadComments, Confirm, Reading, writers,
                  Finish, Goto, FlowTypes, Types
<1>3. at'[f] \in Reading \cup {"begin", "finalize", "confirm"}
      BY <1>1 DEF BeginProof, ReadUser, ReadRepo, ReadPull, ReadComments, Reading, Goto,
                  FlowTypes, Types
<1>4. Quiet(f) BY <1>1, <1>2 DEF Quiet, FlowTypes, Untouched
<1>5. Silent(f) /\ report[f] = None /\ artifact[f] = None
      BY <1>1, <1>2 DEF Accounted, Ended, Reading
<1>6. Accounted(f)' BY <1>1, <1>2, <1>3, <1>5 DEF Accounted, Silent, Succeeded, Ended, Reading
<1>7. True(f, report[f])' /\ True(f, artifact[f])' BY <1>2, <1>5 DEF True
<1>8. at'[f] = "finalize" /\ proof'[f].marker = "reconciled_existing"
          => CommentBy(proof[f].actor)' /\ proof'[f].actor = proof[f].actor
  <2> SUFFICES ASSUME at'[f] = "finalize", proof'[f].marker = "reconciled_existing"
               PROVE  CommentBy(proof[f].actor)' /\ proof'[f].actor = proof[f].actor
      OBVIOUS
  <2>1. ReadComments(f)
        BY <1>1 DEF BeginProof, ReadUser, ReadRepo, ReadPull, Reading, Goto, FlowTypes, Types
  <2>2. PICK scan \in {Scan(f), "failed_closed"} :
            proof' = [proof EXCEPT ![f].marker = scan]
        BY <2>1 DEF ReadComments
  <2>3. /\ proof'[f].marker = scan /\ proof'[f].actor = proof[f].actor
        /\ proof[f] \in Proof
        BY <1>1, <2>2 DEF FlowTypes, Types, Proof
  <2>4. CommentBy(proof[f].actor) BY <2>3 DEF Scan
  <2> QED BY <1>2, <2>3, <2>4 DEF CommentBy
<1>9. Honest(f)' BY <1>7, <1>8 DEF Honest, CommentBy
<1> QED BY <1>4, <1>6, <1>9

(***************************************************************************)
(* The steps that decide what a flow will say                              *)
(* (github_live_post.py:511-569, 592-703).                                 *)
(***************************************************************************)
LEMMA DecidesHonestly ==
    ASSUME HonestInv, Types', NEW f \in Flows,
           \A g \in Flows \ {f} : /\ at'[g] = at[g] /\ proof'[g] = proof[g]
                                  /\ approval'[g] = approval[g],
           \/ Start(f) \/ FailRead(f) \/ Decline(f) \/ Finalize(f) \/ ReportOutcome(f)
           \/ Confirm(f) /\ at'[f] # "begin"
    PROVE  Quiet(f) /\ Accounted(f)' /\ Honest(f)'
<1>1. FlowTypes /\ Accounted(f) /\ Honest(f) BY DEF HonestInv
<1>2. /\ UNCHANGED <<proof, approval, artifact, sender, pc, request, outcome>>
      /\ at[f] \in Reading \cup {"idle", "confirm", "finalize", "write"}
  <2>1. CASE Confirm(f) /\ at'[f] # "begin"
        BY <1>1, <2>1 DEF Confirm, Goto, Finish, FlowTypes, Types, writers
  <2> QED BY <2>1 DEF Start, FailRead, Decline, Finalize, ReportOutcome, writers
<1>3. report[f] = None /\ artifact[f] = None
      BY <1>1, <1>2 DEF Accounted, Ended, Reading
<1>4. ASSUME at'[f] \in {"begin", "write"}, report' = report, at[f] # "write"
      PROVE  Quiet(f) /\ Accounted(f)' /\ Honest(f)'
  <2>1. Silent(f) BY <1>1, <1>2, <1>4 DEF Accounted, Ended, Reading
  <2>2. Quiet(f) BY <1>1, <1>2, <1>4 DEF Quiet, FlowTypes, Untouched
  <2>3. Accounted(f)' BY <1>1, <1>2, <1>3, <1>4, <2>1 DEF Accounted, Silent, Succeeded, Ended
  <2> QED BY <1>2, <1>3, <1>4, <2>2, <2>3 DEF Honest, True
<1>5. ASSUME NEW label \in {"finish", "handle"},
             NEW status \in {"blocked", "succeeded", "fail_closed"}, NEW writer_invoked \in BOOLEAN,
             Finish(f, label, status, writer_invoked),
             status = "succeeded" => CommentBy(approval[f].snapshot.actor),
             status = "fail_closed" /\ ~writer_invoked => sender[f] = None
      PROVE  Quiet(f) /\ Accounted(f)' /\ Honest(f)'
  <2> DEFINE said == [status |-> status, writer_invoked |-> writer_invoked]
  <2>1. /\ report' = [report EXCEPT ![f] = said] /\ at'[f] = label
        /\ said \in Report /\ said.status = status /\ said.writer_invoked = writer_invoked
        BY <1>1, <1>5 DEF Finish, Goto, Report, FlowTypes, Types
  <2> HIDE DEF said
  <2>2. Quiet(f) BY <1>1, <1>2, <2>1 DEF Quiet, FlowTypes, Untouched
  <2>3. Accounted(f)' BY <1>1, <1>2, <2>1 DEF Accounted, Silent, Succeeded, Ended
  <2>4. report'[f] = said BY <1>1, <2>1 DEF FlowTypes
  <2>5. True(f, report[f])' /\ True(f, artifact[f])'
        BY <1>2, <1>3, <1>5, <2>1, <2>4 DEF True, CommentBy
  <2> QED BY <2>1, <2>2, <2>3, <2>5 DEF Honest
<1>6. CASE Start(f)
  <2>1. sender[f] = None BY <1>1, <1>6 DEF Start, Accounted, Silent, Ended
  <2>2. CASE Goto(f, "begin") /\ UNCHANGED report
        BY <1>1, <1>4, <1>6, <2>2 DEF Start, Goto, FlowTypes, Types
  <2> QED BY <1>5, <1>6, <2>1, <2>2 DEF Start
<1>7. CASE FailRead(f)
  <2>1. sender[f] = None BY <1>1, <1>7 DEF FailRead, Accounted, Silent, Ended, Reading
  <2> QED BY <1>5, <1>7, <2>1 DEF FailRead
<1>8. CASE Confirm(f) /\ at'[f] # "begin"
  <2>1. Finish(f, "finish", "blocked", FALSE)
        BY <1>1, <1>8 DEF Confirm, Goto, FlowTypes, Types
  <2> QED BY <1>5, <2>1
<1>9. CASE Decline(f) BY <1>5, <1>9 DEF Decline
<1>10. CASE Finalize(f)
  <2>1. sender[f] = None BY <1>1, <1>10 DEF Finalize, Accounted, Silent, Ended
  <2>2. CASE Goto(f, "write") /\ UNCHANGED report
        BY <1>1, <1>4, <1>10, <2>2 DEF Finalize, Goto, FlowTypes, Types
  <2>3. Finalization(f).reason_code = "marker_reconciled_existing"
            => CommentBy(approval[f].snapshot.actor)
    <3> SUFFICES ASSUME Finalization(f).reason_code = "marker_reconciled_existing"
                 PROVE  CommentBy(approval[f].snapshot.actor)
        OBVIOUS
    <3> DEFINE identity == ActorProbe(proof[f])
               freshness == TargetProbe(proof[f])
               comment == [hash |-> "payload", valid |-> TRUE]
               scan == [bound |-> TRUE, status |-> proof[f].marker]
               preflight == TRUE
    <3>1. FinalizeGithubPayload(approval[f], preflight, identity, freshness, clock,
              comment, scan).reason_code = "marker_reconciled_existing"
          BY DEF Finalization
    <3> HIDE DEF identity, freshness, comment, scan, preflight
    <3>2. /\ \A field \in SnapshotFields : identity[field] = approval[f].snapshot[field]
          /\ scan.status = "reconciled_existing"
          BY <3>1, ReconciledIsProved
    <3>3. identity.actor = approval[f].snapshot.actor BY <3>2 DEF SnapshotFields
    <3>4. /\ proof[f].actor = approval[f].snapshot.actor
          /\ proof[f].marker = "reconciled_existing"
          BY <3>2, <3>3 DEF identity, scan, ActorProbe
    <3> QED BY <1>1, <1>10, <3>4 DEF Honest, Finalize
  <2> QED BY <1>5, <1>10, <2>1, <2>2, <2>3 DEF Finalize
<1>11. CASE ReportOutcome(f)
  <2>1. Succeeded(f) => CommentBy(approval[f].snapshot.actor)
        BY <1>1, <1>11 DEF ReportOutcome, Accounted, CommentBy
  <2> QED BY <1>5, <1>11, <2>1 DEF ReportOutcome
<1> QED BY <1>6, <1>7, <1>8, <1>9, <1>10, <1>11

(***************************************************************************)
(* The steps that say it: the artifact is the report, and a write that     *)
(* fails changes the report to one that claims nothing                     *)
(* (github_live_post.py:704-728, 1341-1352).                               *)
(***************************************************************************)
LEMMA SaysHonestly ==
    ASSUME HonestInv, Types', NEW f \in Flows,
           \A g \in Flows \ {f} : /\ at'[g] = at[g] /\ proof'[g] = proof[g]
                                  /\ approval'[g] = approval[g],
           WriteArtifact(f) \/ FailToWrite(f) \/ Crash(f)
    PROVE  Quiet(f) /\ Accounted(f)' /\ Honest(f)'
<1>1. FlowTypes /\ Accounted(f) /\ Honest(f) BY DEF HonestInv
<1>2. UNCHANGED <<proof, approval, sender, request, outcome>>
      BY DEF WriteArtifact, FailToWrite, Crash, W!Crash, writers
<1>3. CASE WriteArtifact(f)
  <2>1. /\ artifact' = [artifact EXCEPT ![f] = report[f]] /\ UNCHANGED <<report, pc>>
        /\ at'[f] = "returned" /\ at[f] \in {"finish", "handle"}
        BY <1>1, <1>3 DEF WriteArtifact, Goto, FlowTypes, Types, writers
  <2>2. Quiet(f) BY <1>1, <1>2, <2>1 DEF Quiet, FlowTypes, Untouched
  <2>3. Accounted(f)' BY <1>1, <1>2, <2>1 DEF Accounted, Silent, Succeeded, Ended
  <2>4. artifact'[f] = report[f] BY <1>1, <2>1 DEF FlowTypes
  <2>5. True(f, report[f])' /\ True(f, artifact[f])'
        BY <1>1, <1>2, <2>1, <2>4 DEF Honest, True, CommentBy
  <2> QED BY <2>1, <2>2, <2>3, <2>5 DEF Honest
<1>4. CASE FailToWrite(f)
  <2>1. /\ UNCHANGED <<artifact, pc>> /\ at[f] \in {"finish", "handle"}
        /\ at'[f] \in {"handle", "raised"}
        /\ \/ report' = report
           \/ \E said \in Report : said.status = "blocked" /\ report' = [report EXCEPT ![f] = said]
    <3>1. [status |-> "blocked", writer_invoked |-> FALSE] \in Report BY DEF Report
    <3> QED BY <1>1, <1>4, <3>1
            DEF FailToWrite, CatchWriteFailure, Finish, Goto, FlowTypes, Types, writers
  <2>2. Quiet(f) BY <1>1, <1>2, <2>1 DEF Quiet, FlowTypes, Untouched
  <2>3. Accounted(f)' BY <1>1, <1>2, <2>1 DEF Accounted, Silent, Succeeded, Ended
  <2>4. report'[f] = report[f] \/ report'[f].status = "blocked" BY <1>1, <2>1 DEF FlowTypes
  <2>5. True(f, report[f])' /\ True(f, artifact[f])'
        BY <1>1, <1>2, <2>1, <2>4 DEF Honest, True, CommentBy
  <2> QED BY <2>1, <2>2, <2>3, <2>5 DEF Honest
<1>5. CASE Crash(f)
  <2>1. UNCHANGED <<report, artifact>> /\ at'[f] = "crashed"
        BY <1>1, <1>5 DEF Crash, Goto, FlowTypes, Types
  <2>2. /\ pc' \in [Flows -> {"idle", "post", "waiting", "recover", "returned", "crashed"}]
        /\ pc'[f] \in {pc[f], "crashed"} /\ \A g \in Flows \ {f} : pc'[g] = pc[g]
        BY <1>1, <1>5 DEF Crash, W!Crash, FlowTypes, writers
  <2>3. Quiet(f) BY <1>1, <1>2, <1>5, <2>1, <2>2 DEF Quiet, FlowTypes, Untouched, Crash
  <2>4. Accounted(f)' BY <1>1, <1>2, <2>1, <2>2 DEF Accounted, Silent, Succeeded, Ended
  <2>5. True(f, report[f])' /\ True(f, artifact[f])'
        BY <1>1, <1>2, <2>1 DEF Honest, True, CommentBy
  <2> QED BY <2>1, <2>3, <2>4, <2>5 DEF Honest
<1> QED BY <1>3, <1>4, <1>5

LEMMA FlowHonest ==
    ASSUME HonestInv, NEW f \in Flows, Go(f) \/ Step(f)
    PROVE  HonestInv'
<1>1. FlowTypes /\ Types /\ Accounted(f) BY DEF HonestInv, FlowTypes
<1>2. /\ Types'
      /\ \A g \in Flows \ {f} : /\ at'[g] = at[g] /\ proof'[g] = proof[g]
                                /\ approval'[g] = approval[g]
      BY <1>1, GoTyped, StepTyped
<1>3. /\ FlowTypes' /\ CommentsKept /\ \A g \in Flows \ {f} : Untouched(g)
      /\ Accounted(f)' /\ Honest(f)'
  <2>1. CASE Post(f)
    <3>1. /\ FlowTypes' /\ Accounted(f)' /\ CommentsKept
          /\ \A g \in Flows \ {f} : Untouched(g)
          /\ UNCHANGED <<at, proof, approval, report, artifact>>
          BY <1>1, <1>2, <2>1, CallAccounted
    <3>2. at[f] = "write" BY <2>1 DEF Post
    <3>3. Honest(f)' BY <1>1, <3>1, <3>2 DEF Accounted, Honest, True, Ended
    <3> QED BY <3>1, <3>3
  <2>2. CASE ~Post(f)
    <3>1. Quiet(f) /\ Accounted(f)' /\ Honest(f)'
      <4>1. CASE \/ BeginProof(f) \/ ReadUser(f) \/ ReadRepo(f) \/ ReadPull(f) \/ ReadComments(f)
                 \/ Confirm(f) /\ at'[f] = "begin"
            BY <1>2, <4>1, ReadHonest
      <4>2. CASE \/ Start(f) \/ FailRead(f) \/ Decline(f) \/ Finalize(f) \/ ReportOutcome(f)
                 \/ Confirm(f) /\ at'[f] # "begin"
            BY <1>2, <4>2, DecidesHonestly
      <4>3. CASE WriteArtifact(f) \/ FailToWrite(f) \/ Crash(f)
            BY <1>2, <4>3, SaysHonestly
      <4> QED BY <2>2, <4>1, <4>2, <4>3 DEF Go, Step, Read
    <3>2. CommentsKept BY <3>1 DEF Quiet, CommentsKept
    <3> QED BY <3>1, <3>2 DEF Quiet
  <2> QED BY <2>1, <2>2
<1>4. ASSUME NEW g \in Flows \ {f}
      PROVE  Accounted(g)' /\ Honest(g)'
      BY <1>3, WordKept DEF HonestInv, Untouched
<1> QED BY <1>3, <1>4 DEF HonestInv

(***************************************************************************)
(* GitHub's answer can only add a comment, of the account that sent it     *)
(* (writer_github.py:203-211).                                             *)
(***************************************************************************)
LEMMA OthersHonest == HonestInv /\ Others => HonestInv'
<1> SUFFICES ASSUME HonestInv, Others PROVE HonestInv'
    OBVIOUS
<1>1. FlowTypes /\ Types BY DEF HonestInv, FlowTypes
<1>2. Types' /\ UNCHANGED <<at, proof, approval>> BY <1>1, OthersTyped
<1>3. CASE Change \/ Tick
  <2>1. UNCHANGED <<flows, writers>> BY <1>3 DEF Change, Tick
  <2>2. \A f \in Flows : Untouched(f) BY <2>1 DEF flows, writers, Untouched
  <2>3. CommentsKept BY <2>1 DEF CommentsKept, flows, writers
  <2>4. FlowTypes' BY <1>1, <1>2, <2>1 DEF FlowTypes, flows, writers
  <2> QED BY <2>2, <2>3, <2>4, WordKept DEF HonestInv, Untouched
<1>4. ASSUME NEW f \in Flows, HandleRequest(f)
      PROVE  HonestInv'
  <2>1. /\ UNCHANGED <<report, artifact, sender, pc, outcome>> /\ request[f] = "sent"
        BY <1>4 DEF HandleRequest, W!HandleRequest, flows
  <2>2. PICK fate \in {"accepted", "accepted_as_other", "refused"} :
            request' = [request EXCEPT ![f] = fate]
        BY <1>4 DEF HandleRequest, W!HandleRequest
  <2>3. request'[f] = "accepted" => sender[f] = approval[f].snapshot.actor
        BY <1>4 DEF HandleRequest
  <2>4. FlowTypes' BY <1>1, <1>2, <2>1, <2>2 DEF FlowTypes, Fates
  <2>5. CommentsKept BY <1>1, <2>1, <2>2 DEF CommentsKept, FlowTypes
  <2>6. \A g \in Flows \ {f} : Untouched(g) BY <1>1, <1>2, <2>1, <2>2 DEF Untouched, FlowTypes
  <2>7. Accounted(f) /\ Honest(f) BY DEF HonestInv
  <2>8. Accounted(f)'
        BY <1>1, <1>2, <2>1, <2>2, <2>3, <2>7 DEF Accounted, Silent, Succeeded, FlowTypes
  <2>9. \A author : CommentBy(author) => CommentBy(author)' BY <2>5 DEF CommentsKept, CommentBy
  <2>10. Honest(f)' BY <1>2, <2>1, <2>7, <2>9 DEF Honest, True
  <2>11. \A g \in Flows \ {f} : Accounted(g)' /\ Honest(g)'
         BY <2>5, <2>6, WordKept DEF HonestInv, Untouched
  <2> QED BY <2>4, <2>8, <2>10, <2>11 DEF HonestInv
<1> QED BY <1>3, <1>4 DEF Others

LEMMA InitiallyHonest == Init => HonestInv
<1> SUFFICES ASSUME Init PROVE HonestInv
    OBVIOUS
<1>1. Types BY InitialEvidence DEF IInv
<1>2. FlowTypes BY <1>1 DEF Init, W!Init, FlowTypes, Fates
<1> QED BY <1>2 DEF Init, W!Init, HonestInv, Accounted, Silent, Honest, True, Ended

LEMMA HonestAlways == Spec => []HonestInv
<1>1. HonestInv /\ [Next]_vars => HonestInv'
  <2> SUFFICES ASSUME HonestInv, [Next]_vars PROVE HonestInv'
      OBVIOUS
  <2>1. CASE UNCHANGED vars
    <3>1. \A f \in Flows : Untouched(f) BY <2>1 DEF vars, flows, writers, Untouched
    <3>2. CommentsKept BY <2>1 DEF vars, flows, writers, CommentsKept
    <3>3. FlowTypes' BY <2>1 DEF vars, world, flows, writers, HonestInv, FlowTypes, Types
    <3> QED BY <3>1, <3>2, <3>3, WordKept DEF HonestInv, Untouched
  <2> QED BY <2>1, FlowHonest, OthersHonest DEF Next
<1> QED BY <1>1, InitiallyHonest, PTL DEF Spec

(***************************************************************************)
(* ReportTrue for any number of flows and accounts: a success has the      *)
(* approved account's comment, and a failure that did not invoke the       *)
(* writer sent nothing (github_live_post.py:628-700).                      *)
(***************************************************************************)
THEOREM ReportsAreTrue == Spec => []ReportTrue
<1>1. HonestInv => ReportTrue BY DEF HonestInv, Honest, True, ReportTrue
<1> QED BY <1>1, HonestAlways, PTL

-----------------------------------------------------------------------------
(***************************************************************************)
(* What is proved of the writer holds of every flow's writer object: no    *)
(* step of a flow touches a writer but by a step of the writer's own.      *)
(***************************************************************************)
WriterProofs == INSTANCE IssueCommentWriterProofs WITH
    Callers <- Flows, Writers <- Flows, Writer <- [f \in Flows |-> f],
    Run <- [f \in Flows |-> "run"], Findings <- [f \in Flows |-> "findings"],
    Payload <- [f \in Flows |-> "payload"], Invalid <- {},
    RecoveryTransport <- TRUE, AmbiguousTimeouts <- FALSE

LEMMA WriterStep == [Next]_vars => [W!Next]_writers
<1> SUFFICES ASSUME [Next]_vars, ~UNCHANGED writers PROVE W!Next
    OBVIOUS
<1>1. ASSUME NEW f \in Flows, Go(f)
      PROVE  W!Next
  <2>1. Post(f)
        BY <1>1 DEF Go, BeginProof, Read, ReadUser, ReadRepo, ReadPull, ReadComments, FailRead,
                    Finalize, ReportOutcome, WriteArtifact, FailToWrite
  <2> QED BY <2>1 DEF Post, W!Next, W!Call
<1>2. ASSUME NEW f \in Flows, Step(f)
      PROVE  W!Next
  <2>1. Crash(f) BY <1>2 DEF Step, Start, Confirm, Decline
  <2> QED BY <2>1 DEF Crash, W!Next
<1>3. CASE Others
  <2>1. PICK f \in Flows : HandleRequest(f) BY <1>3 DEF Others, Change, Tick
  <2> QED BY <2>1 DEF HandleRequest, W!Next
<1>4. CASE UNCHANGED vars BY <1>4 DEF vars
<1> QED BY <1>1, <1>2, <1>3, <1>4 DEF Next

(***************************************************************************)
(* The flows, their crashes and GitHub's answers are a behaviour of the    *)
(* writer module (github_live_post.py:661-675, writer_github.py:149-365).  *)
(***************************************************************************)
WritersPromise == W!Init /\ [][W!Next]_writers

THEOREM FlowsPostThroughWriters == Spec => WritersPromise
<1>1. Init => W!Init BY DEF Init
<1> QED BY <1>1, WriterStep, PTL DEF Spec, WritersPromise

-----------------------------------------------------------------------------
(***************************************************************************)
(* The type of the whole state: that of the flows (FlowTypes), that of the *)
(* writers (WriterInv), and what is left.                                  *)
(***************************************************************************)
OtherTypes ==
    /\ changes \in 0..MaxChanges
    /\ sender \in [Flows -> Accounts \cup {None}]
    /\ held \in [Flows -> [Facts -> Moments \cup {None}]]

LEMMA WritersAreTyped == Spec => []WriterProofs!WriterInv
<1>1. Init => WriterProofs!WriterInv
  <2> SUFFICES ASSUME Init PROVE WriterProofs!WriterInv
      OBVIOUS
  <2>1. WriterProofs!Init BY DEF Init, W!Init, WriterProofs!Init
  <2>2. None \notin {"ambiguous_unresolved", "forbidden_second_post"} BY LivePostAssumption
  <2> QED BY <2>1, <2>2, WriterProofs!WriterInvInit
<1>2. WriterProofs!WriterInv /\ [Next]_vars => WriterProofs!WriterInv'
  <2> SUFFICES ASSUME WriterProofs!WriterInv, [Next]_vars PROVE WriterProofs!WriterInv'
      OBVIOUS
  <2>1. [WriterProofs!Next]_(WriterProofs!vars)
        BY WriterStep
        DEF writers, WriterProofs!vars, W!Next, WriterProofs!Next, W!Call, WriterProofs!Call,
            W!RejectInvalid, WriterProofs!RejectInvalid, W!ClaimPost, WriterProofs!ClaimPost,
            W!BecomeRecovery, WriterProofs!BecomeRecovery, W!SendPost, WriterProofs!SendPost,
            W!HandleRequest, WriterProofs!HandleRequest, W!Answer, WriterProofs!Answer,
            W!ReceiveComment, WriterProofs!ReceiveComment,
            W!ReceiveOthersComment, WriterProofs!ReceiveOthersComment,
            W!ReceiveMalformed, WriterProofs!ReceiveMalformed,
            W!ReceiveRefusal, WriterProofs!ReceiveRefusal, W!LoseAnswer, WriterProofs!LoseAnswer,
            W!TimeOut, WriterProofs!TimeOut, W!Recover, WriterProofs!Recover,
            W!Crash, WriterProofs!Crash, W!Fail, WriterProofs!Fail, W!Return, WriterProofs!Return,
            W!PostAttempts, WriterProofs!PostAttempts, W!Goto, WriterProofs!Goto,
            W!Key, WriterProofs!Key, W!Remember, WriterProofs!Remember,
            W!Unresolved, WriterProofs!Unresolved, W!ScanFinds, WriterProofs!ScanFinds,
            W!Commented, WriterProofs!Commented, W!Conflicting, WriterProofs!Conflicting,
            W!Active, WriterProofs!Active
  <2>2. None \notin {"ambiguous_unresolved", "forbidden_second_post"} BY LivePostAssumption
  <2> QED BY <2>1, <2>2, WriterProofs!WriterInvStep
<1> QED BY <1>1, <1>2, PTL DEF Spec

LEMMA OtherTypesStep == FlowTypes /\ FlowTypes' /\ OtherTypes /\ [Next]_vars => OtherTypes'
<1> SUFFICES ASSUME FlowTypes, FlowTypes', OtherTypes, [Next]_vars PROVE OtherTypes'
    OBVIOUS
<1>1. CASE UNCHANGED vars BY <1>1 DEF vars, world, flows, OtherTypes
<1>2. CASE Next
  <2>1. Observe BY <1>2 DEF Next, Go, Step, Others
  <2>2. held' \in [Flows -> [Facts -> Moments \cup {None}]]
    <3>1. clock' \in Moments BY DEF FlowTypes, Types
    <3>2. \A f \in Flows, fact \in Facts : held[f][fact] \in Moments \cup {None}
          BY DEF OtherTypes
    <3>3. Never \in [Facts -> Moments \cup {None}] BY DEF Never
    <3>4. ASSUME NEW f \in Flows
          PROVE  [fact \in Facts |-> IF Holds(f, fact)' THEN clock' ELSE held[f][fact]]
                     \in [Facts -> Moments \cup {None}]
          BY <3>1, <3>2
    <3>5. ASSUME NEW f \in Flows
          PROVE  held'[f] \in [Facts -> Moments \cup {None}]
          BY <2>1, <3>3, <3>4 DEF Observe
    <3> QED BY <2>1, <3>5 DEF Observe
  <2>3. changes' \in 0..MaxChanges
    <3>1. changes' = changes \/ (changes < MaxChanges /\ changes' = changes + 1)
          BY <1>2 DEF Next, Go, Step, Others, Change, Tick, HandleRequest, world
    <3> QED BY <3>1, LivePostAssumption DEF OtherTypes
  <2>4. sender' \in [Flows -> Accounts \cup {None}]
    <3>1. ASSUME NEW f \in Flows, Go(f)
          PROVE  sender' = sender \/ sender' = [sender EXCEPT ![f] = account]
          BY <3>1 DEF Go, BeginProof, Read, ReadUser, ReadRepo, ReadPull, ReadComments, FailRead,
                      Finalize, Post, ReportOutcome, WriteArtifact, FailToWrite
    <3>2. ASSUME NEW f \in Flows, Step(f)
          PROVE  sender' = sender
          BY <3>2 DEF Step, Start, Confirm, Decline, Crash
    <3>3. Others => sender' = sender
          BY DEF Others, Change, Tick, HandleRequest, flows
    <3>4. account \in Accounts BY DEF FlowTypes, Types
    <3> QED BY <1>2, <3>1, <3>2, <3>3, <3>4 DEF Next, OtherTypes
  <2> QED BY <2>2, <2>3, <2>4 DEF OtherTypes
<1> QED BY <1>1, <1>2

(***************************************************************************)
(* The state of every flow and every writer keeps its type                 *)
(* (github_live_post.py:500-728).                                          *)
(***************************************************************************)
THEOREM LivePostTypeCorrect == Spec => []TypeOK
<1>1. Init => OtherTypes BY LivePostAssumption DEF Init, OtherTypes, Never
<1>2. FlowTypes /\ OtherTypes /\ WriterProofs!WriterInv => TypeOK
  <2> SUFFICES ASSUME FlowTypes, OtherTypes, WriterProofs!TypeOK PROVE TypeOK
      BY DEF WriterProofs!WriterInv
  <2>1. W!TypeOK
        BY DEF WriterProofs!TypeOK, W!TypeOK, W!Key, WriterProofs!Key, W!Active,
               WriterProofs!Active, W!Outcome, WriterProofs!Outcome, W!Detail, WriterProofs!Detail
  <2> QED BY <2>1 DEF FlowTypes, Types, OtherTypes, TypeOK
<1>3. HonestInv => FlowTypes BY DEF HonestInv
<1> QED BY <1>1, <1>2, <1>3, HonestAlways, WritersAreTyped, OtherTypesStep, PTL DEF Spec

-----------------------------------------------------------------------------
(***************************************************************************)
(* The gates alone (MCFinalization): they decide what the documents ask,   *)
(* for every age of a proof, every time and any number of deviations from  *)
(* a right one.                                                            *)
(***************************************************************************)
LEMMA GateReasons == None \notin ReasonCodes
BY FinalizationAssumption DEF ReasonCodes

(***************************************************************************)
(* The decision gate and the data model accept the same permissions and    *)
(* report the same one (permissions.py:311-373, models.py:503-545), for    *)
(* any values at all in the fields of a proof.                             *)
(***************************************************************************)
THEOREM GateAgreesForEveryProof ==
    ASSUME NEW probe, probe.credential_source \in CredentialSources,
           None \notin ValidPermissions("repo") \cup ValidPermissions("endpoint")
    PROVE  /\ PermissionFailure(probe) = None <=> DerivedPermission(probe) # None
           /\ PermissionFailure(probe) = None => Permission(probe) = DerivedPermission(probe)
<1>1. CASE probe.credential_source = "pat"
      BY <1>1, GateReasons
      DEF PermissionFailure, DerivedPermission, Permission, OwnKind, ForeignKinds,
          PermissionKinds, ValidPermissions, WritePermissions, CredentialSources, ReasonCodes
<1>2. CASE probe.credential_source = "fine_grained_pat"
      BY <1>2, GateReasons
      DEF PermissionFailure, DerivedPermission, Permission, OwnKind, ForeignKinds,
          PermissionKinds, ValidPermissions, WritePermissions, CredentialSources, ReasonCodes
<1>3. CASE probe.credential_source = "github_app_installation"
      BY <1>3, GateReasons
      DEF PermissionFailure, DerivedPermission, Permission, OwnKind, ForeignKinds,
          PermissionKinds, ValidPermissions, WritePermissions, CredentialSources, ReasonCodes
<1>4. CASE probe.credential_source = "github_app_user"
      BY <1>4, GateReasons
      DEF PermissionFailure, DerivedPermission, Permission, OwnKind, ForeignKinds,
          PermissionKinds, ValidPermissions, WritePermissions, CredentialSources, ReasonCodes
<1> QED BY <1>1, <1>2, <1>3, <1>4 DEF CredentialSources

(***************************************************************************)
(* And so for every proof that is shown or read in a run.                  *)
(***************************************************************************)
THEOREM GateAlwaysAgrees == MCSpec => []GateAgreesWithModel
<1>1. GateAgreesWithModel
  <2> SUFFICES ASSUME NEW probe \in {shown, actor_probe},
                      probe.credential_source \in CredentialSources
               PROVE  /\ PermissionFailure(probe) = None <=> DerivedPermission(probe) # None
                      /\ PermissionFailure(probe) = None =>
                             Permission(probe) = DerivedPermission(probe)
      BY DEF GateAgreesWithModel
  <2> QED BY GateAgreesForEveryProof, MCFinalizationAssumption
<1> QED BY <1>1, PTL

-----------------------------------------------------------------------------
(***************************************************************************)
(* What a deviation leaves of the types of the proofs: enough to compare   *)
(* their times.                                                            *)
(***************************************************************************)
Timed(probe) ==
    /\ {"malformed", "transport_reason_code", "checked_at"} \subseteq DOMAIN probe
    /\ probe.checked_at \in Times

Typed ==
    /\ Timed(shown) /\ Timed(actor_probe) /\ Timed(target_probe)
    /\ timestamp \in 0..MaxTime
    /\ payload \in [hash : {"approved", "other"}, valid : BOOLEAN] \cup {None}
    /\ marker \in [bound : BOOLEAN,
                   status : {"safe_to_post", "reconciled_existing", "failed_closed"}] \cup {None}
    /\ preflight_passed \in BOOLEAN

LEMMA VariedTimed ==
    ASSUME NEW probe, Timed(probe), NEW v \in ProbeVariations \cup TargetProbeVariations
    PROVE  Timed(Varied(probe, v))
<1>1. "checked_at" \in DOMAIN v => v["checked_at"] \in Times
      BY DEF ProbeVariations, TargetProbeVariations, CommonVariations
<1>2. DOMAIN Varied(probe, v) = DOMAIN probe BY DEF Varied
<1>3. Varied(probe, v)["checked_at"] \in Times BY <1>1 DEF Varied, Timed
<1> QED BY <1>2, <1>3 DEF Timed

LEMMA TypedInit == MCInit => Typed
BY MCFinalizationAssumption
DEF MCInit, Typed, Timed, GoodProbe, GoodTargetProbe, GoodPayload, GoodMarker, Times

LEMMA TypedNext == Typed /\ [MCNext]_finalizationVars => Typed'
<1> SUFFICES ASSUME Typed, [MCNext]_finalizationVars PROVE Typed' OBVIOUS
<1>1. CASE UNCHANGED finalizationVars BY <1>1 DEF finalizationVars, Typed, Timed
<1>2. CASE VaryApproval
  <2>1. timestamp' \in 0..MaxTime BY <1>2 DEF VaryApproval, Typed
  <2>2. Timed(shown)' BY <1>2, VariedTimed DEF VaryApproval, Typed, Timed
  <2> QED BY <1>2, <2>1, <2>2 DEF VaryApproval, Typed, Timed
<1>3. CASE VaryActorProbe
  <2>1. Timed(actor_probe)' BY <1>3, VariedTimed DEF VaryActorProbe, Typed, Timed
  <2> QED BY <1>3, <2>1 DEF VaryActorProbe, Typed, Timed
<1>4. CASE VaryCredential
  <2>1. Timed(actor_probe)' BY <1>4, VariedTimed DEF VaryCredential, Typed, Timed
  <2>2. Timed(shown)' BY <1>4, VariedTimed DEF VaryCredential, Typed, Timed
  <2> QED BY <1>4, <2>1, <2>2 DEF VaryCredential, Typed, Timed
<1>5. CASE VaryTargetProbe
  <2>1. Timed(target_probe)' BY <1>5, VariedTimed DEF VaryTargetProbe, Typed, Timed
  <2> QED BY <1>5, <2>1 DEF VaryTargetProbe, Typed, Timed
<1>6. CASE VaryPayload BY <1>6 DEF VaryPayload, Typed, Timed
<1> QED BY <1>1, <1>2, <1>3, <1>4, <1>5, <1>6 DEF MCNext

-----------------------------------------------------------------------------
(***************************************************************************)
(* A time is neither too old nor too far ahead exactly when it lies in the *)
(* window around the evaluation.                                           *)
(***************************************************************************)
LEMMA FreshWithin ==
    ASSUME NEW checked_at \in Times, checked_at # None, NEW evaluated_at \in Nat
    PROVE  ~Stale(checked_at, evaluated_at) <=> Within(checked_at, evaluated_at)
BY FinalizationAssumption, MCFinalizationAssumption DEF Times, Stale, Within

LEMMA GateExactly ==
    ASSUME NEW probe, Timed(probe), NEW evaluated_at \in Nat
    PROVE  GateFailure(probe, Target, evaluated_at) = None
               <=> ProvesPermission(probe, evaluated_at)
<1>1. Target # None => (GateFailure(probe, Target, evaluated_at) = None <=>
          /\ Readable(probe)
          /\ None \notin {probe.actor, probe.credential_principal}
          /\ probe.checked_target = Target
          /\ probe.checked_at # None /\ ~Stale(probe.checked_at, evaluated_at)
          /\ probe.credential_source \in CredentialSources
          /\ probe.issue_comment_write = TRUE
          /\ PermissionFailure(probe) = None)
      BY GateReasons DEF GateFailure, Readable, ReasonCodes
<1>2. probe.checked_at # None =>
          (~Stale(probe.checked_at, evaluated_at) <=> Within(probe.checked_at, evaluated_at))
      BY FreshWithin DEF Timed
<1>3. probe.credential_source \in CredentialSources =>
          (PermissionFailure(probe) = None <=> DerivedPermission(probe) # None)
      BY GateAgreesForEveryProof, MCFinalizationAssumption
<1>4. Within(probe.checked_at, evaluated_at) => probe.checked_at # None BY DEF Within
<1>5. Target # None BY MCFinalizationAssumption
<1> QED BY <1>1, <1>2, <1>3, <1>4, <1>5 DEF ProvesPermission

LEMMA TargetExactly ==
    ASSUME Typed
    PROVE  TargetFailure(Approval(shown, Target, "approved", timestamp), target_probe, Now) = None
               <=> /\ Readable(target_probe)
                   /\ target_probe.current_target = Target
                   /\ Within(target_probe.checked_at, Now)
                   /\ target_probe.checked_at >= timestamp
<1> DEFINE decision == Approval(shown, Target, "approved", timestamp)
           read_at == target_probe.checked_at
<1>1. decision.target = Target /\ decision.timestamp = timestamp BY DEF Approval
<1>2. Target.merge_base # None BY MCFinalizationAssumption DEF Target
<1>3. read_at \in Times /\ timestamp \in Nat /\ Now \in Nat /\ MaxProofAge \in Nat /\ MaxFutureSkew \in Nat
      BY FinalizationAssumption, MCFinalizationAssumption DEF Typed, Timed
<1>4. read_at # None => (/\ ~(Now - read_at > MaxProofAge) /\ ~(read_at - Now > MaxFutureSkew)
                    <=> Within(read_at, Now))
      BY <1>3, FreshWithin DEF Stale
<1>5. read_at # None => (~(read_at < timestamp) <=> read_at >= timestamp) BY <1>3 DEF Times
<1>6. Within(read_at, Now) => read_at # None BY DEF Within
<1>7. Target # None => (TargetFailure(decision, target_probe, Now) = None <=>
          /\ Readable(target_probe) /\ target_probe.current_target = Target
          /\ read_at # None /\ ~(Now - read_at > MaxProofAge) /\ ~(read_at - Now > MaxFutureSkew)
          /\ ~(read_at < timestamp))
      BY <1>1, <1>2, GateReasons DEF TargetFailure, Readable, ReasonCodes
<1>8. Target # None BY MCFinalizationAssumption
<1> QED BY <1>4, <1>5, <1>6, <1>7, <1>8

(***************************************************************************)
(* A payload is released exactly when everything that the documents ask    *)
(* was proved (finalization.py:161-557), with any number of deviations     *)
(* together, which the run bounds.                                         *)
(***************************************************************************)
LEMMA ReleasedExactly == Typed => ReleasedIffProved
<1> SUFFICES ASSUME Typed, Approved
    PROVE  Released(Result) <=>
            /\ preflight_passed
            /\ ProvesPermission(actor_probe, Now)
            /\ \A field \in SnapshotFields : actor_probe[field] = shown[field]
            /\ actor_probe.checked_at >= shown.checked_at
            /\ Readable(target_probe)
            /\ target_probe.current_target = Target
            /\ Within(target_probe.checked_at, Now)
            /\ target_probe.checked_at >= timestamp
            /\ payload = GoodPayload
            /\ marker = GoodMarker
    BY DEF ReleasedIffProved
<1> DEFINE decision == Approval(shown, Target, "approved", timestamp)
<1>1. /\ decision.target = Target /\ decision.snapshot = shown
      /\ decision.final_payload_hash = "approved"
      BY DEF Approval
<1>2. shown.checked_at \in 0..MaxTime
  <2>1. GateFailure(shown, Target, timestamp) = None
        BY GateReasons DEF Approved, DecisionFailure, ReasonCodes
  <2>2. shown.checked_at # None
        BY <2>1, GateReasons DEF GateFailure, ReasonCodes
  <2> QED BY <2>2 DEF Typed, Timed, Times
<1>3. ActorFailure(decision, actor_probe, Now) = None <=>
          /\ ProvesPermission(actor_probe, Now)
          /\ \A field \in SnapshotFields : actor_probe[field] = shown[field]
          /\ actor_probe.checked_at >= shown.checked_at
  <2>1. GateFailure(actor_probe, decision.target, Now) = None <=> ProvesPermission(actor_probe, Now)
        BY <1>1, GateExactly, MCFinalizationAssumption DEF Typed
  <2>2. MismatchedFields(decision, actor_probe) = {} <=>
            \A field \in SnapshotFields : actor_probe[field] = shown[field]
        BY <1>1 DEF MismatchedFields
  <2>3. ProvesPermission(actor_probe, Now) =>
            (~(actor_probe.checked_at < shown.checked_at)
                 <=> actor_probe.checked_at >= shown.checked_at)
    <3>1. ProvesPermission(actor_probe, Now) => actor_probe.checked_at \in 0..MaxTime
          BY DEF ProvesPermission, Within, Typed, Timed, Times
    <3> QED BY <1>2, <3>1, MCFinalizationAssumption
  <2> QED BY <1>1, <2>1, <2>2, <2>3, GateReasons DEF ActorFailure, ReasonCodes
<1>4. /\ \A reason_code : ~Released(FailedClosed(reason_code))
      /\ \A reason_code : ~Released(FinalizationStatus("not_ready", reason_code))
      /\ Released(FinalizationStatus("finalized", None))
      BY DEF Released, FailedClosed, FinalizationStatus
<1>5. marker # None => (Released(ReconcileMarkers(marker)) <=>
                            marker = GoodMarker)
      BY <1>4 DEF ReconcileMarkers, Typed, GoodMarker
<1>6. payload # None => (payload.hash = "approved" /\ payload.valid <=>
                             payload = GoodPayload)
      BY DEF Typed, GoodPayload
<1>7. Released(Result) <=>
          /\ preflight_passed
          /\ ActorFailure(decision, actor_probe, Now) = None
          /\ TargetFailure(decision, target_probe, Now) = None
          /\ payload # None /\ payload.hash = "approved" /\ payload.valid
          /\ marker # None /\ Released(ReconcileMarkers(marker))
      BY <1>1, <1>4 DEF Result, FinalizeGithubPayload
<1> QED BY <1>3, <1>5, <1>6, <1>7, TargetExactly, MCFinalizationAssumption

(***************************************************************************)
(* finalization.py:161-557 releases what is proved, and nothing else.      *)
(***************************************************************************)
THEOREM ReleasedExactlyWhenProved == MCSpec => []ReleasedIffProved
<1> QED BY TypedInit, TypedNext, ReleasedExactly, PTL DEF MCSpec
=============================================================================
