----------------------------- MODULE ReviewData -----------------------------
(***************************************************************************)
(* The data of a review on its way from the pull request to the posting    *)
(* plan: the patch is read line by line into the ranges that findings are  *)
(* held against, the comments become memory, both are cut to the budget;   *)
(* what each reviewer returns is normalized, repaired and classified; the  *)
(* whole is checked and becomes a plan (runner.py: _run_dry_run_core).     *)
(* Which reviewers run, and when, is ReviewStages; and so is that the run  *)
(* ends if one has no output at all while another's is still unused.       *)
(***************************************************************************)
EXTENDS ReviewOutput

CONSTANTS
    PatchLines,     \* the lines a patch can have
    MaxPatchLines,  \* bound on its length
    Inputs(_),      \* the rest of a pull request with such a patch: provider, files, comments, limits
    Returned,       \* what a reviewer can return: raw_output and repair_output
    Reviewers       \* the reviewers that run, in order: name, which tells the stage, and required

\* The numbers of a header are digits (github.py:_HUNK_RE).
IsHeader(line) ==
    /\ line.kind = "hunk"
    /\ {line.source_start, line.source_count, line.target_start, line.target_count} \subseteq Nat

ASSUME ReviewDataAssumption ==
    \A line \in PatchLines : IsHeader(line) \/ line.kind \in BodyKinds \cup {"bad_hunk"}

\* A finding whose lines run backwards is not valid (models.py:RawReviewerFinding).
IsItem(item) ==
    item.type = "finding" /\ item.valid => item.line_end = None \/ item.line <= item.line_end

\* What is not a list of items is None (findings.py:normalize_reviewer_output).
IsOutput(output) ==
    /\ output.kind \in {"missing", "not_json", "not_mapping", "failure", "mapping"}
    /\ \/ output.items = None
       \/ output.items \in Seq(Range(output.items)) /\ \A item \in Range(output.items) : IsItem(item)

ASSUME ReturnedAssumption ==
    \A output \in Returned :
        /\ IsOutput(output.raw_output)
        /\ output.repair_output # None => IsOutput(output.repair_output)

IsInput(input) ==
    /\ DOMAIN input = {"provider", "files", "comments", "limits"}
    /\ input.files \in Seq(Range(input.files)) /\ input.comments \in Seq(Range(input.comments))
    /\ \A file \in Range(input.files) :
           /\ DOMAIN file = {"path", "status", "patch_status", "patch_bytes", "changed_ranges"}
           /\ file.changed_ranges \in Seq(Range(file.changed_ranges))
    /\ \A comment \in Range(input.comments) : comment.body # None

ASSUME InputsAssumption ==
    /\ MaxPatchLines \in Nat
    /\ \A lines \in BoundedSeq(PatchLines, MaxPatchLines) : \A input \in Inputs(lines) : IsInput(input)

ASSUME ReviewersAssumption == Reviewers \in Seq(Range(Reviewers))

VARIABLES
    phase,          \* "reading", "reviewing", "presented" or "raised"
    patch, reader,  \* the patch of the first file so far, and its reader
    pr,             \* the pull request that is reviewed
    reviewed,       \* how many reviewers have returned
    returned,       \* what the last one returned
    classified,     \* the outputs so far; in the end with the notes of the budget
    errors,         \* of required reviewers
    plan

reviewVars == <<phase, patch, reader, pr, reviewed, returned, classified, errors, plan>>

Payload == INSTANCE ApprovedPayload

HeadSha == "head456"

Init ==
    /\ phase = "reading"
    /\ patch = <<>> /\ reader = NewReader
    /\ pr = None /\ reviewed = 0 /\ returned = None
    /\ classified = NoCollections /\ errors = 0
    /\ plan = <<>>

\* The reader stops at the first line it refuses.
ReadLine(line) ==
    /\ phase = "reading"
    /\ Len(patch) < MaxPatchLines
    /\ reader.reason = None
    /\ patch' = Append(patch, line)
    /\ reader' = ReadPatchLine(reader, line)
    /\ UNCHANGED <<phase, pr, reviewed, returned, classified, errors, plan>>

\* From here on only the ranges of the patch are looked at.
StartReview(input) ==
    /\ phase = "reading"
    /\ phase' = "reviewing"
    /\ pr' = [input EXCEPT !.files = [i \in DOMAIN input.files |->
                 IF i > 1 THEN input.files[i]
                 ELSE [input.files[1] EXCEPT !.changed_ranges =
                          ChangedRanges(input.files[1].status, input.files[1].patch_status, reader)]]]
    /\ patch' = <<>> /\ reader' = NewReader
    /\ UNCHANGED <<reviewed, returned, classified, errors, plan>>

-----------------------------------------------------------------------------
(***************************************************************************)
(* The review.  Memory and budget depend on the pull request only.         *)
(***************************************************************************)
Budgeted ==
    ApplyInputContextBudget(pr.files, BuildConversationMemory(pr.comments), pr.limits)

Context ==
    [files |-> BudgetedView(pr.files, pr.provider, Budgeted),
     memory |-> Budgeted.memory.retained,
     omitted_file_paths |-> Budgeted.files.omitted,
     omitted_memory_ids |-> Budgeted.memory.omitted]

Result == ExecuteFakeReviewer(returned')

FailureNote(reviewer) ==
    [id |-> <<IF reviewer.required THEN "note-required-reviewer-failure-"
              ELSE "note-reviewer-failure-", reviewer.name>>]

IsExplicitFailure(output) == output.raw_output.kind = "failure"

\* A required reviewer that fails in any other way ends the run.
IsTolerated(reviewer) ==
    \/ ~reviewer.required
    \/ IsExplicitFailure(returned') \/ Result.repair = "failed"

ReviewerReturns(output) ==
    /\ phase = "reviewing"
    /\ reviewed < Len(Reviewers)
    /\ reviewed' = reviewed + 1
    /\ returned' = output
    /\ LET reviewer == Reviewers[reviewed']
       IN  IF Result.status = "completed"
           THEN /\ classified' =
                       Extended(classified, ClassifyReviewQuality(Context, Result.collections))
                /\ UNCHANGED <<errors, phase>>
           ELSE IF IsTolerated(reviewer)
           THEN /\ classified' = [classified EXCEPT !.local_notes = Append(@, FailureNote(reviewer))]
                /\ errors' = IF reviewer.required THEN errors + 1 ELSE errors
                /\ UNCHANGED phase
           ELSE phase' = "raised" /\ UNCHANGED <<errors, classified>>
    /\ UNCHANGED <<patch, reader, pr, plan>>

-----------------------------------------------------------------------------
(***************************************************************************)
(* The result.  Anything posted needs a finding, and no error and no open  *)
(* question that blocks.                                                   *)
(***************************************************************************)
Assembled ==
    [classified EXCEPT
        !.local_notes = [i \in DOMAIN NoteIds(Budgeted) |-> [id |-> NoteIds(Budgeted)[i]]] \o @,
        !.findings = AttachDiffAnchors(Context.files, HeadSha, @)]

PostEnabled(outputs) ==
    /\ errors = 0
    /\ ~\E i \in DOMAIN outputs.clarification_requests : outputs.clarification_requests[i].blocking
    /\ outputs.findings # <<>>

BuildPostingPlan(outputs) ==
    Payload!FindingItems(outputs.findings)
    \o Payload!LocalItems(outputs.local_notes, "local_note", "local_only")
    \o Payload!LocalItems(outputs.suggested_replies, "suggested_reply", "suggested_reply")
    \o Payload!LocalItems(outputs.clarification_requests, "clarification_request", "local_only")
    \o Payload!LocalItems(outputs.suppressed_outputs, "suppressed", "local_only")

PlanOf(outputs) ==
    IF PostEnabled(outputs) THEN BuildPostingPlan(outputs)
    ELSE Payload!LocalOnlyPostingPlan(BuildPostingPlan(outputs))

\* Two outputs that cannot be told apart, or a plan that gives no candidate.
Raises(outputs) ==
    \/ ~OutputItemIdsUnique(outputs)
    \/ ~FindingFingerprintsUnique(outputs.findings)
    \/ PostEnabled(outputs) /\ Payload!CandidateRefused(BuildPostingPlan(outputs), outputs.findings)

Present ==
    /\ phase = "reviewing"
    /\ reviewed = Len(Reviewers)
    /\ IF Raises(Assembled) THEN phase' = "raised" /\ UNCHANGED <<classified, plan>>
       ELSE /\ phase' = "presented"
            /\ classified' = Assembled
            /\ plan' = PlanOf(Assembled)
    /\ UNCHANGED <<patch, reader, pr, reviewed, returned, errors>>

ReviewNext ==
    \/ \E line \in PatchLines : ReadLine(line)
    \/ \E input \in Inputs(patch) : StartReview(input)
    \/ \E output \in Returned : ReviewerReturns(output)
    \/ Present

-----------------------------------------------------------------------------
(***************************************************************************)
(* Properties                                                              *)
(***************************************************************************)
TypeOK ==
    /\ phase \in {"reading", "reviewing", "presented", "raised", "posting"}
    /\ patch \in Seq(PatchLines) /\ Len(patch) \in 0..MaxPatchLines
    /\ {reader.source_remaining, reader.target_line, reader.target_remaining} \subseteq Nat
    /\ reviewed \in 0..Len(Reviewers)
    /\ returned \in Returned \cup {None}
    /\ DOMAIN classified = CollectionNames
    /\ errors \in 0..reviewed
    /\ Payload!PostingPlanIdsUnique(plan)
    /\ pr # None => \A entry \in Range(Context.memory) : MemoryReferenceValid(entry)

\* The patch, read without a reader: the lines of a hunk, and their numbers.
BodyOf(header) ==
    {j \in header + 1..Len(patch) : \A k \in header + 1..j : patch[k].kind # "hunk"}

LineAt(header, j) ==
    patch[header].target_start
    + Cardinality({k \in BodyOf(header) : k < j /\ InTarget(patch[k].kind)})

TargetLines(kinds) ==
    UNION {{LineAt(i, j) : j \in {k \in BodyOf(i) : patch[k].kind \in kinds}} :
              i \in {h \in DOMAIN patch : patch[h].kind = "hunk"}}

Ranges == ChangedRanges("modified", "available", reader)

(***************************************************************************)
(* A line that findings may be about is one that the patch shows, wherever *)
(* the patch ends: a patch that was cut off, miscounted, or whose hunks    *)
(* come in any order never gives a line it does not have                   *)
(* (github.py:1081-1160, 1236-1246).                                       *)
(***************************************************************************)
RangesWereRead ==
    phase = "reading" => LinesOf(Ranges) \subseteq TargetLines({"added", "context"})

(***************************************************************************)
(* Every added line of a patch that was read to its end can be commented   *)
(* on, also where hunks touch and are joined, as long as they come in the  *)
(* order of the file (github.py:1236-1246).                                *)
(***************************************************************************)
InFileOrder ==
    \A i, j \in DOMAIN patch :
        i < j /\ patch[i].kind = "hunk" /\ patch[j].kind = "hunk"
            => patch[i].target_start + patch[i].target_count <= patch[j].target_start

AdditionsAnchorable ==
    phase = "reading" /\ Ranges # <<>> /\ InFileOrder => TargetLines({"added"}) \subseteq LinesOf(Ranges)

(***************************************************************************)
(* The anchorable lines of a patch are lines it shows, none is made up and *)
(* no addition that can be anchored is lost (github.py:1081-1246).         *)
(***************************************************************************)
RangesExact == RangesWereRead /\ AdditionsAnchorable

PublicFindings ==
    {classified.findings[i] : i \in {k \in DOMAIN classified.findings :
        \E n \in DOMAIN plan : plan[n].id = classified.findings[k].id
                               /\ plan[n].public_payload_eligible}}

(***************************************************************************)
(* What may be published is about a line that was read from the patch of a *)
(* file the budget left whole, and where it has an anchor, the anchor      *)
(* holds all of its lines; it has none only where its lines run out of the *)
(* hunk, or where a fixture gives lines to a file that is gone             *)
(* (quality.py:51-160, diff_anchor.py:27-102, models.py:706-758).          *)
(***************************************************************************)
PublicOnChangedCode ==
    phase = "presented" =>
        \A finding \in PublicFindings :
            /\ finding.path \notin Context.omitted_file_paths
            /\ \E i \in DOMAIN pr.files :
                   /\ pr.files[i].path = finding.path
                   /\ ContainsLine(pr.files[i], finding.line)
                   /\ finding.diff_anchor = NoAnchor =>
                          \/ \E n \in DOMAIN pr.files :
                                 /\ pr.files[n].path = finding.path
                                 /\ pr.files[n].status \notin InlineableFileStatuses
                          \/ ~\E k \in DOMAIN pr.files[i].changed_ranges :
                                 {finding.line, LineEnd(finding)}
                                     \subseteq Lines(pr.files[i].changed_ranges[k])
            /\ finding.diff_anchor # NoAnchor =>
                   ValidatesLocation(finding.diff_anchor, finding, HeadSha)

(***************************************************************************)
(* What may be published and cites the conversation rests on an unresolved *)
(* comment of a trusted author that the reviewers could read, and repeats  *)
(* no text of a comment they were not to act on, although ids of a fixture *)
(* may name several comments (memory.py:62-191, context_budget.py:120-199, *)
(* quality.py:200-345).                                                    *)
(***************************************************************************)
Vouches(comment, id) ==
    /\ MemoryId(comment) = id
    /\ IsTrustEligible(comment) /\ IsTrusted(comment)
    /\ comment.source_type # "review" /\ comment.resolved_status = "unresolved"

PublicRestsOnTrustedMemory ==
    phase = "presented" =>
        \A finding \in PublicFindings :
            /\ \A i \in DOMAIN finding.item.memory_ids :
                   /\ \E k \in DOMAIN pr.comments : Vouches(pr.comments[k], finding.item.memory_ids[i])
                   /\ \A entry \in Range(Context.memory) :
                          entry.id = finding.item.memory_ids[i] => entry.body # None
            /\ ~CopiesPassiveMemory(Context.memory, finding.item)

(***************************************************************************)
(* Nothing that a reviewer returns disappears: with each reviewer the      *)
(* outputs grow by the items of the output that was used, each under its   *)
(* id or among the suppressed ones, or by the note on its failure          *)
(* (findings.py:53-315, quality.py:51-120, reviewers.py:159-385).          *)
(***************************************************************************)
UsedItems(output) ==
    IF ExecuteOutput(output.raw_output).status = "completed" THEN output.raw_output.items
    ELSE output.repair_output.items

VisibleIds(output) ==
    {IF item.graph_owned THEN SuppressedId(item) ELSE item.id : item \in Range(UsedItems(output))}

NothingLost ==
    [][reviewed' # reviewed /\ phase' = "reviewing" =>
           LET before == AllIds(classified)
               after == AllIds(classified')
           IN  /\ Range(before) \subseteq Range(after)
               /\ IF Result.status = "completed"
                  THEN /\ Len(after) = Len(before) + Len(UsedItems(returned'))
                       /\ VisibleIds(returned') \subseteq Range(after)
                  ELSE Len(after) = Len(before) + 1]_reviewVars

(***************************************************************************)
(* A selection can be proved exactly if a person may approve it: there is  *)
(* no error and no question that blocks, it names findings, each once, and *)
(* no finding of the review carries a marker.  The comment it then stands  *)
(* for validates, fits its proof, and lists what was selected and nothing  *)
(* else (posting.py:85-246, approval.py:35-131, final_payload.py:26-97).   *)
(***************************************************************************)
PlanIds == {plan[i].id : i \in DOMAIN plan}

Approvals == {<<>>} \cup {<<i>> : i \in PlanIds} \cup {<<i, j>> : i, j \in PlanIds}

Approvable(ids) ==
    /\ PostEnabled(classified)
    /\ ids # <<>> /\ IsInjective(ids)
    /\ Range(ids) \subseteq Range(Ids(classified.findings))
    /\ ~\E i \in DOMAIN classified.findings : classified.findings[i].body = "marker"

SelectionCovered(ids) ==
    LET target == [refs |-> HeadSha, merge_base |-> "merge789"]
        candidate == Payload!CandidatePayload(target, plan, classified.findings)
        failure == Payload!ProofFailure(ids, target, plan, classified.findings, candidate)
        selected == Payload!Selected(plan, ids)
        payload == Payload!FinalPayload("run-123", target, selected, classified.findings)
        proof == Payload!ApprovalProof("run-123", ids, target, plan, classified.findings)
    IN  /\ failure = None <=> Approvable(ids)
        /\ failure = None =>
               /\ Payload!ProofConsistent(proof)
               /\ Payload!FinalPayloadValid(payload)
               /\ {payload.body.lines[i][1] : i \in DOMAIN payload.body.lines}
                      = {finding.fingerprint : finding \in
                            {f \in Range(classified.findings) : f.id \in Range(ids)}}

ProofCoversExactly == phase = "presented" => \A ids \in Approvals : SelectionCovered(ids)
=============================================================================
