----------------------------- MODULE ReviewInput -----------------------------
(***************************************************************************)
(* What the reviewers are given of a pull request: the conversation memory *)
(* with the trust of each comment (memory.py), cut to the context budget   *)
(* together with the changed files (context_budget.py, runner.py).         *)
(*                                                                         *)
(* A comment is its provider, author, thread and text, of which only the   *)
(* identity and the size are kept; a file is its path, the size of its     *)
(* patch, and the line ranges that were read from the patch.               *)
(***************************************************************************)
EXTENDS PatchRanges

CONSTANTS
    TrustedOperators, TrustedBots   \* the configuration's trusted authors

TrustedAssociations == {"OWNER", "MEMBER", "COLLABORATOR"}

\* What a fixture says of a comment's trust counts; GitHub's actors decide otherwise.
IsTrustEligible(comment) ==
    \/ comment.provider = "github"
    \/ comment.provider = "fixture" /\ comment.trust_label = "trusted"

IsTrusted(comment) ==
    \/ /\ comment.author_type = "bot"
       /\ comment.author \in TrustedBots
    \/ /\ comment.author_type = "user"
       /\ comment.author \in TrustedOperators \/ comment.association \in TrustedAssociations

\* An id from GitHub carries its resource; one from a fixture is taken as it is.
MemoryId(comment) ==
    IF comment.provider # "github" THEN <<comment.id>>
    ELSE IF comment.source_type = "review_thread"
    THEN <<comment.provider, comment.source_type, comment.thread, comment.id>>
    ELSE <<comment.provider, comment.source_type, comment.id>>

\* Mutant: the text of a review is taken for something to act on.
IsActionableReview(comment) == comment.resolved_status = "unresolved"

IsActionable(comment) ==
    /\ comment.source_type # "review"
    /\ comment.resolved_status = "unresolved"

\* A comment in a thread has the state of the thread, any other is unresolved;
\* reviews are not interpreted.
MemoryEntry(comment) ==
    LET trusted == IsTrustEligible(comment) /\ IsTrusted(comment)
    IN  [id |-> MemoryId(comment), trusted |-> trusted, source_type |-> comment.source_type,
         resolved_status |-> comment.resolved_status, author_type |-> comment.author_type,
         actionable |-> trusted /\ IsActionable(comment),
         body |-> comment.body, bytes |-> comment.bytes]

OfType(comments, type) ==
    ElementsAt(comments, {i \in DOMAIN comments : comments[i].source_type = type})

BuildConversationMemory(comments) ==
    LET sorted == OfType(comments, "issue_comment") \o OfType(comments, "review")
                      \o OfType(comments, "review_thread")
    IN  [i \in DOMAIN sorted |-> MemoryEntry(sorted[i])]

\* MemoryReference: what the constructor asks of an actionable entry.
MemoryReferenceValid(entry) ==
    entry.actionable =>
        /\ entry.trusted
        /\ entry.resolved_status = "unresolved"
        /\ entry.source_type \in {"issue_comment", "review_thread"}
        /\ entry.author_type \in {"user", "bot"}

-----------------------------------------------------------------------------
(***************************************************************************)
(* apply_input_context_budget.  What does not fit is left out in the order *)
(* it comes in: a file beyond the count vanishes, a patch or a body beyond *)
(* the bytes leaves its metadata.  omitted is what a finding may not rest  *)
(* on, noted, in order, what a local note tells the operator.              *)
(***************************************************************************)
\* What is left of a budget after each of the sizes; one that does not fit takes nothing.
Remaining(sizes, budget) ==
    LET remaining[k \in 0..Len(sizes)] ==
            IF k = 0 THEN budget
            ELSE LET left == remaining[k - 1]
                 IN  IF sizes[k] > left THEN left ELSE left - sizes[k]
    IN  remaining

Bytes(file) == IF file.patch_bytes = None THEN 0 ELSE file.patch_bytes

IsUnavailable(file) == file.patch_bytes = None /\ file.patch_status # "available"

BudgetFiles(files, limits) ==
    LET remaining == Remaining([k \in DOMAIN files |-> Bytes(files[k])], limits.max_patch_bytes)
        beyond == {k \in DOMAIN files : k > limits.max_changed_files}
        unavailable == {k \in DOMAIN files \ beyond : IsUnavailable(files[k])}
        cut == {k \in DOMAIN files \ (beyond \cup unavailable) :
                    Bytes(files[k]) > remaining[k - 1]}
    IN  [retained |-> ElementsAt(
             [k \in DOMAIN files |->
                 IF k \in cut
                 THEN [files[k] EXCEPT !.patch_bytes = None, !.patch_status = "budget_truncated"]
                 ELSE files[k]],
             DOMAIN files \ beyond),
         omitted |-> {files[k].path : k \in beyond \cup unavailable \cup cut},
         noted |-> ElementsAt([k \in DOMAIN files |-> files[k].path], beyond \cup cut)]

BudgetMemory(memory, limits) ==
    LET remaining == Remaining([k \in DOMAIN memory |-> memory[k].bytes], limits.max_memory_bytes)
        cut == {k \in DOMAIN memory : memory[k].bytes > remaining[k - 1]}
    IN  [retained |-> [k \in DOMAIN memory |->
             IF k \in cut THEN [memory[k] EXCEPT !.body = None] ELSE memory[k]],
         omitted |-> {memory[k].id : k \in cut},
         noted |-> ElementsAt([k \in DOMAIN memory |-> memory[k].id], cut)]

ApplyInputContextBudget(files, memory, limits) ==
    [files |-> BudgetFiles(files, limits), memory |-> BudgetMemory(memory, limits)]

NoteIds(budgeted) ==
    [i \in DOMAIN budgeted.files.noted |-> <<"note-budget-patch-", budgeted.files.noted[i]>>]
    \o [i \in DOMAIN budgeted.memory.noted |-> <<"note-budget-memory-">> \o budgeted.memory.noted[i]]

(***************************************************************************)
(* _budgeted_dry_run_input_view: the files whose lines findings are held   *)
(* against.  Those of a fixture take over what the budget did to the file  *)
(* of their path, the last one if there are several; those read from       *)
(* GitHub stay as they were read.                                          *)
(***************************************************************************)
BudgetedFile(budgeted, path) == SelectLastInSeq(budgeted.files.retained, LAMBDA f : f.path = path)

BudgetedView(files, provider, budgeted) ==
    LET kept == ElementsAt(files, {i \in DOMAIN files : BudgetedFile(budgeted, files[i].path) > 0})
    IN  IF provider # "fixture" THEN kept
        ELSE [i \in DOMAIN kept |->
                 [budgeted.files.retained[BudgetedFile(budgeted, kept[i].path)] EXCEPT
                      !.changed_ranges = kept[i].changed_ranges]]
=============================================================================
