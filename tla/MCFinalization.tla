--------------------------- MODULE MCFinalization ---------------------------
(***************************************************************************)
(* One approval and its finalization, right in everything except in at     *)
(* most MaxVariations fields of what was shown, what is current, and what  *)
(* is to be posted.  The clock of the finalization is fixed; the times of  *)
(* the proofs and of the approval move around it.                          *)
(***************************************************************************)
EXTENDS Finalization

CONSTANTS Now, MaxTime, MaxVariations

VARIABLES
    shown, timestamp,           \* the permission proof at the approval, and its time
    actor_probe, target_probe,  \* the proofs at the finalization
    payload, marker, preflight_passed, variations

finalizationVars == <<shown, timestamp, actor_probe, target_probe, payload, marker, preflight_passed,
                      variations>>

Target == [refs |-> "approved", merge_base |-> "base"]
Targets == [refs : {"approved", "moved"}, merge_base : {"base", None}]
Times == (0..MaxTime) \cup {None}

NoPermissions == [kind \in PermissionKinds |-> None]

GoodProbe ==
    [malformed |-> FALSE, transport_reason_code |-> None, actor |-> "approved",
     credential_source |-> "pat", credential_principal |-> "approved",
     permissions |-> [NoPermissions EXCEPT !["repo"] = "write"],
     issue_comment_write |-> TRUE, checked_target |-> Target, checked_at |-> Now]

GoodTargetProbe ==
    [malformed |-> FALSE, transport_reason_code |-> None, current_target |-> Target,
     checked_at |-> Now]

GoodPayload == [hash |-> "approved", valid |-> TRUE]
GoodMarker == [bound |-> TRUE, status |-> "safe_to_post"]

ASSUME MCFinalizationAssumption ==
    /\ MaxTime \in Nat /\ Now \in 0..MaxTime
    /\ None \notin {"base"} \cup ValidPermissions("repo") \cup ValidPermissions("endpoint")
    /\ None # Target /\ None # GoodPayload /\ None # GoodMarker

CommonVariations ==
    {[malformed |-> TRUE], [transport_reason_code |-> "timeout"]}
        \cup {[checked_at |-> time] : time \in Times}

Permissions ==
    [PermissionKinds -> {None, "read", "write", "issues:read", "issues:write", "unheard_of"}]

ProbeVariations ==
    CommonVariations
        \cup {[actor |-> actor] : actor \in {None, "other"}}
        \cup {[credential_principal |-> principal] : principal \in {None, "other"}}
        \cup {[credential_source |-> source, permissions |-> permissions] :
                  source \in CredentialSources \cup {"unheard_of"}, permissions \in Permissions}
        \cup {[issue_comment_write |-> write] : write \in {FALSE, None}}
        \cup {[checked_target |-> target] : target \in Targets \cup {None}}

TargetProbeVariations ==
    CommonVariations \cup {[current_target |-> target] : target \in Targets \cup {None}}

\* A proof with some of its fields replaced.
Varied(probe, v) ==
    [field \in DOMAIN probe |-> IF field \in DOMAIN v THEN v[field] ELSE probe[field]]

MCInit ==
    /\ shown = GoodProbe /\ timestamp = Now
    /\ actor_probe = GoodProbe /\ target_probe = GoodTargetProbe
    /\ payload = GoodPayload
    /\ marker = GoodMarker
    /\ preflight_passed = TRUE
    /\ variations = 0

VaryApproval ==
    /\ \/ /\ \E v \in ProbeVariations : shown' = Varied(shown, v)
          /\ UNCHANGED timestamp
       \/ timestamp' \in 0..MaxTime /\ UNCHANGED shown
    /\ UNCHANGED <<actor_probe, target_probe, payload, marker, preflight_passed>>

VaryActorProbe ==
    /\ \E v \in ProbeVariations : actor_probe' = Varied(actor_probe, v)
    /\ UNCHANGED <<shown, timestamp, target_probe, payload, marker, preflight_passed>>

\* The same credential is shown and read again.
VaryCredential ==
    /\ \E v \in ProbeVariations : "credential_source" \in DOMAIN v
                                  /\ shown' = Varied(shown, v) /\ actor_probe' = Varied(actor_probe, v)
    /\ UNCHANGED <<timestamp, target_probe, payload, marker, preflight_passed>>

VaryTargetProbe ==
    /\ \E v \in TargetProbeVariations : target_probe' = Varied(target_probe, v)
    /\ UNCHANGED <<shown, timestamp, actor_probe, payload, marker, preflight_passed>>

VaryPayload ==
    /\ \/ /\ payload' \in [hash : {"approved", "other"}, valid : BOOLEAN] \cup {None}
          /\ UNCHANGED <<marker, preflight_passed>>
       \/ /\ marker' \in {None} \cup
                 [bound : BOOLEAN,
                  status : {"safe_to_post", "reconciled_existing", "failed_closed"}]
          /\ UNCHANGED <<payload, preflight_passed>>
       \/ preflight_passed' = FALSE /\ UNCHANGED <<payload, marker>>
    /\ UNCHANGED <<shown, timestamp, actor_probe, target_probe>>

MCNext ==
    /\ variations < MaxVariations
    /\ variations' = variations + 1
    /\ \/ VaryApproval \/ VaryActorProbe \/ VaryCredential \/ VaryTargetProbe \/ VaryPayload

MCSpec == MCInit /\ [][MCNext]_finalizationVars

-----------------------------------------------------------------------------
Approved ==
    DecisionFailure(GateFailure(shown, Target, timestamp), shown, Target, timestamp) = None

Result ==
    FinalizeGithubPayload(Approval(shown, Target, "approved", timestamp), preflight_passed,
                          actor_probe, target_probe, Now, payload, marker)

Within(checked_at, evaluated_at) ==
    checked_at # None /\ checked_at \in (evaluated_at - MaxProofAge)..(evaluated_at + MaxFutureSkew)

Readable(probe) == ~probe.malformed /\ probe.transport_reason_code = None

\* What the documents ask of a permission proof for the target.
ProvesPermission(probe, evaluated_at) ==
    /\ Readable(probe)
    /\ None \notin {probe.actor, probe.credential_principal}
    /\ probe.checked_target = Target
    /\ Within(probe.checked_at, evaluated_at)
    /\ probe.credential_source \in CredentialSources
    /\ probe.issue_comment_write = TRUE
    /\ DerivedPermission(probe) # None

(***************************************************************************)
(* docs/architecture/side-effects.md:113-121: a payload is released        *)
(* exactly when the permission was proved at the approval and is proved    *)
(* again for the same identity, no earlier than the proof that was shown,  *)
(* the target was read after the approval and is the approved one with its *)
(* merge base, both proofs are recent, and the approved payload has no     *)
(* comment yet.  One gate that is too lax or too strict, one pair of times *)
(* compared the wrong way round, breaks it (finalization.py:161-557).      *)
(***************************************************************************)
ReleasedIffProved ==
    Approved =>
        (Released(Result) <=>
            /\ preflight_passed
            /\ ProvesPermission(actor_probe, Now)
            /\ \A field \in SnapshotFields : actor_probe[field] = shown[field]
            /\ actor_probe.checked_at >= shown.checked_at
            /\ Readable(target_probe)
            /\ target_probe.current_target = Target
            /\ Within(target_probe.checked_at, Now)
            /\ target_probe.checked_at >= timestamp
            /\ payload = GoodPayload
            /\ marker = GoodMarker)

(***************************************************************************)
(* The permission gate and the data model decide on their own, in two      *)
(* places, what permission a credential proves (permissions.py:311-373,    *)
(* models.py:503-545), and the constructors raise where they differ.  They *)
(* never do: the approval gate passes exactly the proofs that the data     *)
(* model accepts, and both report the same permission.                     *)
(***************************************************************************)
GateAgreesWithModel ==
    \A probe \in {shown, actor_probe} :
        probe.credential_source \in CredentialSources =>
            /\ PermissionFailure(probe) = None <=> DerivedPermission(probe) # None
            /\ PermissionFailure(probe) = None => Permission(probe) = DerivedPermission(probe)
=============================================================================
