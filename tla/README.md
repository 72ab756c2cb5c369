# reviewgraph: a TLA+ development

reviewgraph reads a pull request, runs a set of reviewers over it in stages, asks for
clarifications where a reviewer needs one, and, when an operator approves it by typing the hash
of the final payload, posts one comment to GitHub. This directory models the parts whose
correctness depends on order, retries, concurrency and failure, and the data that a posted comment
rests on. Paths such as `runner.py:450`
are relative to `src/src/reviewgraph/`; documents are cited from the repository's root.

Contents: [inventory](#inventory), [modules](#modules-and-the-code), [runs](#what-the-runs-check),
[disagreements](#where-the-code-and-its-documents-disagree), [bounds](#bounds),
[fairness](#fairness), [proofs](#what-is-proved), [left out](#what-is-not-modelled), [plan](#plan).

## Inventory

### Part one: the review run (one thread, no I/O of its own)

| part | state | operations | what makes it correct |
|---|---|---|---|
| stage cursor (`state.py`) | active, suspended, queued and completed stages; the clarification under review; the answered ones that wait | `advance_or_finish_stage`, `validate_stage_cursor` | the cursor is valid after every call; stages are completed in order, once; a clarification review returns to the stage it suspended; answers are reviewed in order, once |
| clarifications (`clarification.py`) | requests, their status, recorded answers | `evaluate_clarification_gate`, `ingest_clarification_answer` | a request is answered once; a pending blocking request holds the stage |
| review loop (`runner.py`) | routing state, results, findings, requests, notes, errors, budget counters, seen and deferred raw outputs | `_run_review_stages` and the end of `_run_dry_run_core` | every stage completed is accounted for; a required failure forbids posting; the loop ends |
| run keys (`reviewer_runs.py`) | status per run key | `record_reviewer_run_status`, suppression, `retry_after_failure` | a completed run is never repeated, a failed attempt may be |
| routing, risk, diff anchors (`routing.py`, `risk.py`, `diff_anchor.py`) | none | selection for a stage, selection for a resume, classification of a diff | the reviewer that asked is the one resumed |
| budget (`context_budget.py`) | counters handed from stage to stage | `apply_reviewer_budget`, truncation of files and memory | reviewers and live calls stay within the budget over the whole run |
| reviewers (`reviewers.py`, `findings.py`, `quality.py`) | none | execute, normalise, repair once, classify | a malformed output is a failure, never a silent success |
| live LLM (`llm.py`, `llm_policy.py`, `llm_http.py`) | ledger of reserved calls | policy, reserve, attempt, retry | no request without its reservation, which only an exception loses; an admitted reviewer is never cut off; a retry only after a retryable failure |
| verdict (`verdict.py`) | none | local verdict, post enabled | posting only without errors and without open blocking requests |

The run calls these parts directly and hands mutable records around: the cursor and the routing
state each hold a copy of the waiting answers, and the routing state holds a copy of the requests
that goes stale between gates. Hard behaviour: resumes that interleave with stages, budgets shared
by stages and resumes, failures in the middle of a stage, and errors raised after all the work.

### Part two: posting (threads, processes, GitHub)

| part | state | operations | what makes it correct |
|---|---|---|---|
| marker scan (`markers.py`, pages from `github_live_post.py`) | cursor, counters, first match, duplicates, first failure | `reconcile_paginated_trusted_markers` | the pages read one by one tell what one look at all comments would; it fails closed; it ends |
| issue comment writer (`writer_github.py`) | keys already attempted, under a lock | `post_issue_comment`, recovery | one POST per key; a reported comment exists; a call returns |
| approval and finalization (`approval.py`, `posting.py`, `final_payload.py`, `payload_validation.py`, `finalization.py`, `writer_input.py`, `permissions.py`) | none: records bound by hashes | build proof and decision; the gates in order: approval, actor, target, payload, markers | nothing is released to the writer that was not approved, or whose proof is old or was taken before the approval |
| live post flow (`github_live_post.py`) | the artifacts and the proofs of one flow | proof, prompt, proof, finalize, write, report | the comment is posted on facts that were true after the confirmation; the report is true |
| harnesses (`post_mode_harness.py`, `post_interaction.py`, `writer_fake.py`) | none | fixture drivers of the above | as the above |

Threads share a writer object; processes share only GitHub. Other people comment on the pull
request and delete comments while it is read. A POST may be accepted after the caller has given
up, and a process may die with its request on the wire.

### Part three: what a review reads and says

| part | state | operations | what makes it correct |
|---|---|---|---|
| GitHub reads (`github.py`, `github_live.py`, `read_gaps.py`) | per resource: cursor, page number, cursors seen, items | metadata, then five paginated resources, over gh or a fake transport | nothing incomplete passes for complete; a gap names what is missing; a read ends |
| patches and anchors (`github.py`, `diff_anchor.py`, `models.py`) | the reader's counters | patch to ranges, ranges merged, anchor of a finding | a range was read from the patch; every added line is in one |
| conversation memory (`memory.py`, `memory_provenance.py`) | none | trust and identity of a comment, what is actionable | nobody untrusted becomes evidence |
| outputs (`reviewers.py`, `findings.py`, `quality.py`, the end of `runner.py`) | outputs by kind, errors | repair once, normalize, classify, check all together | nothing a reviewer said is lost; what is public is anchored and supported |
| plan and payload (`posting.py`, `approval.py`, `final_payload.py`, `payload_validation.py`, `hashing.py`) | none: records bound by hashes | plan, candidate, proof of a selection, final comment, validation | the comment lists what was selected and nothing else |

Plain I/O or text without state: reviewer context (`reviewer_context.py`, `reviewer_boundaries.py`),
redaction and rendering, fixtures and composition (`fixtures.py`, `targets.py`, `graph.py`),
configuration and command line (`config.py`, `cli.py`, `live_llm_smoke.py`).

`PROJECT.json` lists every component with its status, and under `hazards` each place where this
code can go wrong in a way that a test would hardly reach, with the properties that watch it.

## Modules and the code

| module | models | proofs | model checking |
|---|---|---|---|
| `StageCursor` | `state.py`, `ingest_clarification_answer`; the abstract specification of the loop's cursor | `StageCursorProofs` | `MCStageCursor` |
| `ReviewStages` | the review loop with everything it calls | `ReviewStagesProofs` | `MCReviewFixture`, `MCReviewLive` |
| `MarkerScan` | the paginated scan and the people who comment meanwhile | `MarkerScanProofs` | `MCMarkerScan` |
| `IssueCommentWriter` | the writer, its callers, GitHub and crashes | `IssueCommentWriterProofs` | `MCIssueCommentWriter` |
| `Finalization` | `permissions.py`, the decision of `approval.py`, `finalization.py`: operators | `LivePostProofs` | `MCFinalization` |
| `LivePost` | `_run_live_post_flow`, several flows at once, and the world they run in; composes `Finalization` and `IssueCommentWriter` | `LivePostProofs` | `MCLivePost` |
| `GitHubRead` | the paginated read, its transports, and the people who write and push meanwhile | `GitHubReadProofs` | `MCGitHubRead` |
| `LiveLLM` | policy, ledger, attempts and retries, called by the review loop or by others | `LiveLLMProofs` | `MCLiveLLM` |
| `Subsequences` | what is left of a list when elements are left out: an operator | | |
| `PatchRanges` | the reader of patches and diff anchors: operators | `ReviewDataProofs` | |
| `ReviewInput` | memory, trust, and the omissions for the budget: operators over `PatchRanges` | `ReviewDataProofs` | |
| `ReviewOutput` | repair, normalization, quality rules, checks on all outputs: operators over `ReviewInput` | `ReviewDataProofs` | |
| `ReviewData` | the state machine of these: patch, context, one reviewer after the other, plan | `ReviewDataProofs` | `MCReviewData` |
| `ApprovedPayload` | plan, candidate, proof, final comment, validation: operators | `ReviewDataProofs` | |
| `FakePostHarness` | attempts with the fake writer; composes `ApprovedPayload` and `Finalization` | `ReviewDataProofs` | `MCReviewData` |

**StageCursor.** The variables are the fields of the cursor, plus the recorded answers and the
history of clarification reviews that `graph_trace` keeps. `AdvanceOrFinishStage` is the function's
if-chain, one action per branch; `IngestAnswer` is what an answer adds. The module promises
nothing about who calls what when.

**ReviewStages.** The variables are the locals of `_run_review_stages` and the fields of the
routing state; `pc` says which part of the loop's body runs next: `loop` (advance, copy the
cursor), `select` (candidates, suppression, budget), `run` and `running` (one reviewer at a time:
status running, then outcome), `ingest` (the gate and the answers), `check` (raw outputs left over),
`core` (verdict and result), `done`. Inputs are chosen in `Init` (raw outputs, answers) or, in live
mode, when a reviewer finishes (outcome, attempts). Trigger evaluation is the constant
`StageSelection`; a finding is its id and whether it is strong enough to request changes.
`Cursor` and `Promise` are instances of `StageCursor`: the loop's own calls, and the abstract cursor
it is shown to implement. The refinement mapping reads the waiting answers from the routing state
while answers are ingested and from the cursor otherwise, because the code copies the list from one
to the other at exactly those points (`runner.py:459, 637`).

**MarkerScan.** `comments` is the pull request; `AddComment` and `DeleteComment` are other people.
A scan step is one iteration of `while True`: cap, fault, comment cap, or a page. Comments are a
kind (trusted author or not; no marker, malformed, of another target, conflicting, matching). The
text of a marker and the comparison of its hashes are abstracted to that kind. A page's cursor is
its number, as the live transport makes it.

**IssueCommentWriter.** A caller is one call of `post_issue_comment`; `Writer` says on which object.
`ClaimPost` and `BecomeRecovery` are the two outcomes of the locked section, `SendPost` puts the
request on the wire, `HandleRequest` is GitHub, and the six `Receive…`, `LoseAnswer` and `TimeOut`
actions are the ways the transport's call can end, in the order in which the code tests them.
`Recover` is the marker scan of `_recover_after_potential_acceptance` in one step, which
`ScanIsAtomic` of `MarkerScan` justifies as long as no comment is deleted during it. `Crash` kills
the threads of an object; their requests stay on the wire.

**Finalization.** The code has no state here, so the module has none: each gate is an operator from
records to a reason code, or to `None` where it passes, with the tests in the code's order. A probe is
a record of the fields that a gate reads. What follows from the target (endpoint, hashes, ordered
dictionary) and the constants that every probe carries (method, kind) are left out; a malformed
field is one Boolean. `MCFinalization` makes the inputs: it starts from an approval and a
finalization in which everything is right and varies up to two fields of them.

**LivePost.** A flow is one run of `_run_live_post_flow` from its first read on; `at` is where it is.
`proof` is what `live_proof` has read so far, with the time taken before the first read; `Read…` are its
requests, one action each, because everything can change in between. The merge base comes from a
comparison of the two approved commits and so never changes; the request for it can fail.
`Confirm` and `Decline` are the operator. `Finalize` applies `FinalizeGithubPayload` to the second
proof. `Post` are the actions of `IssueCommentWriter`, one writer object per flow, without ambiguous
timeouts, as in the live transport. `WriteArtifact` and `FailToWrite` are the two outcomes of
`_finish`, which runs inside the `try` block (`at = "finish"`) or in an `except` clause (`"handle"`).
`Change` is the world: another login, other rights, pushed commits, an edited pull request. `held` is
history: for every fact that a release rests on, the last moment since the confirmation at which it
held. Only the approved pull request is modelled; that it has the disposable marker and is no fork
is one Boolean. The checks before the first read (environment, terminal, files) have no effect on
GitHub and are left out.

**GitHubRead.** `at` walks through metadata, five resources, the building of the result and the report;
each request for a page is a step. `source` says who answers: `live` (pages by number from `listing`,
which other people change between the requests, and calls of gh that fail), `document` (pages loaded
from a document, `Loads`) or `caller` (any map from cursors to pages, cycles and malformed fields
included). An element is its shape: no object (dropped by the live transport), one that the live
transport cannot map, one that the reader refuses, or a good one. `requests` and `disturbed` are history.
The live transport has no thread state, so a live pull request with a review comment fails closed.

**LiveLLM.** One call of `run_live_llm_reviewer_with_retries` at a time; `attempt` and `pc` are where it
is: before the policy, or waiting for the provider. The ledger and the attempts are sequences in the
order of the code. `driver` chooses who calls: the review loop, which admits a reviewer for the price
of all its attempts (`Admit`) and never repeats a run key, or any caller, with any key, package and
budget. The loop admits a stage at once and the model one reviewer at a time, between any two calls:
that allows more. That keys are fresh is `NoReviewRepeated` and `FinalStatusKept` of `ReviewStages`.
A request is the fields that its reservation key and fingerprint hash. A ledger is immutable: `ledger` is
the copy a call works on, `held` the one its caller has. A call that returns hands over the copy (`Return`);
an exception, such as the one of a provider failure without a message (`llm.py:174-178`), passes by the
result, and the caller is left with what it passed (`Raise`). The review loop ends there; another caller may
come back and send the same request again under a new reservation, so the ledger then shows less than was
sent. `EveryRequestReserved` says what holds nevertheless. A reservation that is still there pays for the
same request again (`llm_policy.py:376-440`), as `docs/architecture/llm-data-handling.md:18` has it, so
the budget of such a caller bounds different requests, not sends; within one call there are no repetitions
(`EveryRequestPaid`).
A caller starts with an empty ledger and passes on the one it has; one that passes an older ledger on
purpose is not modelled. `lost` and `sent` are history.

**PatchRanges, ReviewInput, ReviewOutput, ReviewData.** A patch line is its kind; a hunk's header has
its four numbers; `ReadPatchLine` is the body of the reader's loop on a record of its locals. Comments have
an identity, an author and a text that is only compared; what the rules on wording say of an item, and
which texts it repeats, are fields of the item (`concrete`, `copies`). `ReviewData` has three phases:
the patch of the first file grows line by line, then each reviewer returns anything of `Returned`, at
last all outputs are checked and become a plan (`presented`) or an error ends the run (`raised`). Which
reviewers run is `ReviewStages`, and so is the error on an output that is missing while others are unread.

**ApprovedPayload, FakePostHarness.** A body is its lines, a hash is what was hashed, so the model
says exactly what each hash binds. `Attempt` is `run_fixture_fake_post_attempt`: interaction gate,
approval and writer preflight, finalization, marker scan over the fake writer's comments, writer.
`case` is the one thing that is wrong in an attempt, as in the harness; `marker_scan_failure` stands for
its eleven ways to make the scan fail. The harness posts its one finding; the model any selection of
the findings that a review in `ReviewData` presents. `MCReviewData` puts the two in a row, with a later
review that words a finding otherwise (`Reword`).

## What the runs check

| run | properties | what it shows |
|---|---|---|
| `stage_cursor` | `StageCursorValid`, `ResumeOneShotFifo`, `StageProgress` | in every order of calls with three answers the cursor stays valid, reviews each answer once, in order, and walks the stages in order |
| `review_fixture` | `ResumeTargetKnown`, `RequiredFailureBlocksPosting`, `NoReviewRepeated`, `CompletedStageAccounted`, `EarlyAnswersReviewed`, `NotesKeepTheRun`, `CursorPromise`, `NoStageCompletedWhileBlocked`, `Termination` | 1000 combinations of raw outputs with every set of answers: findings, one and two blocking requests, requests raised again in a resume, failures, malformed and missing outputs, and a reviewer budget of four that defers |
| `review_live` | `WithinBudget`, `FinalStatusKept` | any outcome of any reviewer run after one or two attempts, with a live-call budget that does not cover all |
| `marker_scan` | `ScanIsAtomic`, `ConclusionJustified`, `ScanEnds` | every listing of up to four comments, with additions and a deletion while it is read, under the limits of the live proofs, of the recovery scan and under a comment cap |
| `issue_comment_writer` | `AtMostOnePost`, `OutcomeBacked`, `CallReturns` | two threads with one input, another payload for the same findings, an invalid one, and everything GitHub and the network can do |
| `finalization` | `ReleasedIffProved`, `GateAgreesWithModel` | every pair of deviations (times before, at and after each limit, every credential with every permission, other identities, targets, payloads, markers): released exactly when the documents allow it, and the gate and the data model agree |
| `live_post` | `ReleasedOnCurrentFacts`, `ReportTrue` | one flow, up to two changes of the world at any point and a clock that passes the age limit; two flows with one artifact, interleaved in every way, with one change of the world |
| `github_read` | `ReadsWhole`, `ResultJustified` (`ThreadsKnown`, `MixedReadIsStale`, `GapNamesTheMissingPage`, `LoadedDocumentsReadThrough`), `ReadEnds` | over any pages and listings a resource is taken for read only if all of it was read; a failure names its page; a push during the read can be told; no cursor leads in a circle |
| `live_llm` | `EveryRequestReserved`, `EveryRequestPaid`, `NeverCutOff`, `RetriesAccounted` | two reviewers or three calls with used and fresh keys, every answer, exceptions too: one reservation per request until an exception loses those of its call, and no admitted reviewer loses an attempt to the budget |
| `review_data` | `RangesExact` (`RangesWereRead`, `AdditionsAnchorable`), `PublicOnChangedCode`, `PublicRestsOnTrustedMemory`, `NothingLost`, `ProofCoversExactly`, `PostedAsApproved` (with `OneCommentPerSelection`) | every patch of up to five lines, 20 pull requests, any two outputs, any selection and repeated attempts to post it, as either account |

The type invariants of `LivePost`, `GitHubRead` and `ReviewData` are checked by their runs; those of all
stateful modules are proved, for every value of the constants. Each property of a run is
matched with a mutant, a plausible mistake in a definition that stands for code, which the run
detects; the mutants are the definitions marked `Mutant` in the modules.

`MC*.cfg` say `CHECK_DEADLOCK FALSE` where the system really stops: the review run ends, the scan
ends, a writer whose callers have all returned has nothing left to do, and flows end.

## Where the code and its documents disagree

Two runs check a sentence of the documents that the code does not keep:

* `answer_reviewed`: an answer to a request raised in logic_review is never reviewed, because the
  queue is empty when the loop's condition is tested again; `docs/architecture/state-graph.md:251`
  promises the review for every answer. `EarlyAnswersReviewed` is what does hold.
* `post_recorded`: the artifact is written to its file inside the `try` block; if that fails after the
  POST was accepted, the flow reports itself blocked, without the writer's evidence and the id of the
  comment. `docs/architecture/side-effects.md:137` says that evidence records the POST and the comment.

Others were met while modelling; the modules do what the code does, and no run is devoted to them.
An optional reviewer without a raw output of its own ends the run as soon as any output of a later stage
is unread (`runner.py:567`; `docs/prds/0004-graph-orchestration.md:17` calls such failures non-terminal).
A reviewer that fails in two clarification reviews leaves two notes with one id, and the run raises
after all its work (`runner.py:797-812`); `NotesKeepTheRun` shows that this is the only such collision.
The live transport reports the timeout of a POST as a plain, retryable failure, so the writer does not
look whether the comment was accepted (`github_live_post.py:894`, `docs/architecture/side-effects.md:155`).
Ids of outputs that the program makes itself can collide too, and then end the review: two items without
an id that set fields of the graph, two comments of one id left out for the budget (`runner.py:1103`).
Ranges of hunks that are not in the order of the file are merged wrongly (`github.py:1236`), which is why
`AdditionsAnchorable` asks for that order. A repair output that reports a failure itself is used all the
same (`reviewers.py:293`).

Two more concern the marker scan. Pages of comments are asked for by number, so a deletion
between two reads hides the first comment of the next page, and if that is the existing ReviewGraph
comment the scan says safe to post (`github_live_post.py:807`; `ScanIsAtomic` says "unless one was
deleted" for this reason). And the live transport's own page cap builds a failure that does not admit
its reason (`github_live_post.py:805`, `markers.py:120`), so the recovery scan, whose default cap is
higher, reports an unknown, retryable outage for a pull request that is merely too long
(`ReachTransportCap`).

## Bounds

* `stage_cursor`: three clarifications, enough for one under review, one waiting and one answered
  meanwhile. The stages are the code's three.
* `review_fixture`: two reviewers, two requests and two findings: a request of one and of two at
  once, a resume during whose review a second request is raised, an id raised twice, and a reviewer
  that appears in two stages. `MaxReviewers` is 4, one less than the most reviews without deferral.
* `review_live`: attempts up to 2; `MaxLiveCalls` 9 is no multiple of 2 and runs out in a resume.
* `marker_scan`: `PerPage` 2, so that four comments fill two pages exactly; `MaxLength` 5 lets one
  more arrive; `MaxDeletions` 1. `MCLimits` has the live proofs' limits (page cap met first), those of
  the recovery scan over the live transport (the transport's cap met first) and a comment cap.
* `issue_comment_writer`: two callers with one key are the smallest race; a third has the same
  findings and another payload, which is what a conflict needs; a fourth is invalid.

* `finalization`: `MaxProofAge` 3 and `MaxFutureSkew` 1 around `Now` 5, with times from 0 to 7, have
  values on both sides of and at every limit. `MaxVariations` 2: each test of a gate reads one
  field or compares two.
* `live_post`: two accounts, a clock of 4 moments with `MaxProofAge` 1, so that a proof can become too
  old before, during and after its reads; two changes make something wrong and right again. The
  constraint `MCBound` lets the second flow start only while the clock stands still and with at most
  one change: what one flow does between the reads of the other is then what is left to look at.

* `github_read`: `PerPage` 2 and `MaxPages` 2 with listings of 0 to 4 elements: below, at and above a
  full page and the cap. One addition, one removal and one push per read. Maps of three cursors hold every
  cycle of one and two; `MaxRequests` 5 is above the longest walk and never met (`ReadEnds` would fail).
* `live_llm`: `MaxCalls` 3, so that a key is used, used again with the same request, and with another; or lost with
  an exception, reserved again, and then used again.
  Two settings whose attempts differ from `max_attempts`, one that cannot hold; budgets 1, 2 and 4 are
  below, at and above the two attempts of one reviewer.
* `review_data`: `MaxPatchLines` 5 is two hunks with a body, the second one cut off; the plain pull
  request is reviewed with every patch, the 18 others with a patch of one hunk (`MCInputs`); 33 returned
  outputs, each of which differs from a plain one in one thing, for a required and an optional reviewer;
  two findings at most, hence selections of none, one, two, or one twice; one other wording of each.

The proofs hold for every value of these constants.

## Fairness

* `ReviewStages`: `WF_vars(Next)`. The run is one thread that only stops when it has ended.
* `MarkerScan`: `WF_vars(Scan)`. The scan is one thread, and each of its requests has a timeout,
  which is a `MeetFault`. Nothing is assumed of the people who comment.
* `IssueCommentWriter`: weak fairness of `SendPost`, `TimeOut` and `Recover` of each caller: a thread
  that has the processor goes on, and the transport is given `timeout_seconds` with every call.
  Nothing is assumed of GitHub: a request may never be handled, an answer may never come. A thread
  that has not called is not obliged to.
* `GitHubRead`: weak fairness of the reader's steps. gh is called with a timeout and the fake transports
  answer at once, so every request ends. Nothing is assumed of the people who comment and push.
* `StageCursor`, `LivePost`, `LiveLLM` and `ReviewData` state safety only: their callers, the operator,
  and a provider whose requests have a timeout per read of the socket and not in all, decide.

## What is proved

With TLAPS, for every value of the constants allowed by the named assumptions
(`NoneAssumption`, `ReviewStagesAssumption`, `WriterAssumption`, `FinalizationAssumption`,
`MCFinalizationAssumption`, `LivePostAssumption`, `LiveLLMAssumption`, `MarkerScanAssumption`,
`GitHubReadAssumption`, `PatchRangesAssumption`, `ReviewOutputAssumption`, `ReviewDataAssumption`,
`ReturnedAssumption`, `InputsAssumption`, `ReviewersAssumption`, `MCReviewDataAssumption`). They give the
constants their types, say that `None` and the other placeholders are no name, no run id, no reason code,
no number and no time, of what a fake transport is given, that it is made of pages and that a map of pages is finite, of a valid finding, that its
lines do not run backwards, and of a comment, that it has a text; nothing else. TLC evaluates all of them.

* `StageCursorProofs`: `CursorTypeCorrect`, `CursorAlwaysValid`, `ResumeIsOneShotFifo`,
  `StageAlwaysProgresses` (`StageProgress`).
  `StageCursorValid` alone is not inductive in a form the provers can use, because it compares
  sequences; `Place` lists the seven places the cursor can be at (before, in each stage with the
  rest of the queue, after) and `CursorInv` is the types, the clarification fields and `Place`.
  That no step reopens a stage is read off the places before and after it.
* `ReviewStagesProofs`, from four invariants and `CursorFacts`, which is what `StageCursorProofs` says of the
  loop's cursor, taken by INSTANCE through the refinement:
  * `ReviewInv`: `ReviewTypeCorrect`, `ResumeTargetAlwaysKnown`, `BlockedStageNeverCompleted`,
    `LoopImplementsCursor`. It adds to the types what the code
    relies on silently: the cursor's and the routing state's waiting answers are equal wherever one of
    them is read (`ReadyCopied`), every waiting or active id is answered in the routing state's copy
    of the requests (`ReadyAnswered`), every answered request is recorded (`AnswersRecorded`), and
    no blocking request is pending where a stage can be completed (`GatePassed`). One lemma per
    action, and lemmas on the bookkeeping of requests. The refinement is proved step by step: each action
    of the loop is an abstract cursor operation or a stutter.
  * `RunsInv`: `BudgetAlwaysKept` (`WithinBudget`), `ReviewNeverRepeated` (`NoReviewRepeated`),
    `FinalStatusAlwaysKept` (`FinalStatusKept`), `StageCompletedWhole` (`CompletedStageAccounted`),
    `RequiredFailureAlwaysBlocks` (`RequiredFailureBlocksPosting`), `NotesAlwaysKeepTheRun` (`NotesKeepTheRun`).
    None of these is inductive: between the selection of a pass and its last run there are runs selected
    and not yet executed, attempts planned and not yet made. A run is `Open` then, and every other run is
    settled (`RunsSettled`); each retained reviewer still has all its attempts to spend (`BudgetKept`); a
    required reviewer passed, is open, or has left an error behind (`FailuresKept`); a run belongs to
    the stage or the clarification it was selected in, so that a new pass finds none of its own
    (`RunsPlaced`); every reviewer routed for a stage entered has a run (`StagesRouted`); and a note stands
    for a run that failed or was skipped (`NotesExplained`). `Emitted` adds what the end of the run checked.
  * `AnswersInv`: `EarlyAnswersAlwaysReviewed` (`EarlyAnswersReviewed`). An answered request has been
    reviewed, waits, or is under review (`AnswersFollowed`), and the loop ends only where all that waits was
    raised in logic_review, after whose selection the queue is empty (`LastStage`).
* `MarkerScanProofs`: `ScanTypeCorrect`, `ConclusionsAreJustified` and `ScanLooksOnce` (`ScanIsAtomic`).
  `PrefixKnown` is the argument: while nothing is deleted, the pages read so far are the first
  `page_count * PerPage` comments there are, and the three results are those of one look at these
  (`Knows`). A page more extends the prefix (`PageAdds`); the least position of a set, which exists
  because numbers are well-founded (`Smallest`), stays the least when later positions join it; a
  comment added meanwhile is behind the prefix. The last page is not full, so the prefix is then all.
* `IssueCommentWriterProofs`: `WriterTypeCorrect`, `OnePostPerKey`, `ReportedCommentsExist`.
  `AtMostOnePost` is not inductive: a thread between its claim and its POST has posted nothing yet.
  `OneOwner` extends it to every caller that owns its key from the claim on, and
  `OwnedKeysRemembered` says that an owned key is among the attempted ones, which is why nobody else
  can claim it, before or after a crash. `ReturnKeepsInv` is shared by all ways to return.
* `LivePostProofs`: `ReleasedIsProved` (what a release implies, for any values in any field),
  `LivePostTypeCorrect`, `FlowsPostThroughWriters`, `ReleasesOnCurrentFacts` and `ReportsAreTrue`.
  `FlowsPostThroughWriters` is a refinement: whatever the flows and the world do around it, the writers'
  part of the state follows the specification of `IssueCommentWriter`, so the theorems of
  `IssueCommentWriterProofs`, taken by INSTANCE, hold of every flow's post, its types included.
  For `ReleasesOnCurrentFacts`: the age is measured from before the first read, and a
  fact is known from the moment of its own read; the invariant `Evidence` ties the two: once a fact was read and
  agrees with the approval, it held at `checked_at` or later. It is kept by the flow's reads (`ReadKnows`),
  by everything the world does (`Waiting`: history only grows), and is void outside of a proof
  (`OtherSteps`). The release then follows from `ReleasedIsProved`.
  `ReportTrue` says nothing of a report that is not written yet, nor of a scan that found
  the comment, so `HonestInv` adds both, that a flow is silent until it writes (`Accounted`), and that
  an accepted request was sent by the approved account. Comments are never unmade (`CommentsKept`), so
  what made a report true keeps it true (`WordKept`).

  The decision alone, at the end of the module: `GateAgreesForEveryProof` (the gate and the data model, for
  any permissions at all), and over `MCFinalization`, for any age limits and any number of deviations from
  an approval in which everything is right: `GateAlwaysAgrees` (`GateAgreesWithModel`) and
  `ReleasedExactlyWhenProved` (`ReleasedIffProved`), in both directions: nothing unproved is released,
  nothing proved is refused. They follow from the order of the tests, because a test that fails returns a
  reason code, and no reason code is `None`; the codes of the transport need not be known, since they are
  returned only if not `None`. `Typed` is the invariant of `MCFinalization`: no deviation puts anything but
  a time, or nothing, where a time is read.
* `LiveLLMProofs`: `LiveLLMTypeCorrect`, `LedgerKeepsAccount` (`EveryRequestReserved`, for all modelled callers),
  `RunPaysForEveryRequest` (`EveryRequestPaid`), `AdmittedIsNeverCutOff` (`NeverCutOff`) and
  `RetriesAlwaysAccounted` (`RetriesAccounted`). `LedgerFacts` is the invariant of the second: what the
  caller holds pays for all the earlier calls that were not lost (`SentHeld`), so an exception takes the
  reservations of its own call only (`RaiseKeeps`), and each attempt of a call has a higher number than those
  it has sent (`AttemptsPast`). The third and fourth rest on `PlanCovers`, as long as no exception has ended
  the run (`RunEnded`): the reservations made, the attempts the present call has left and the full price of
  everyone admitted and not yet called never add up to more than was planned, which is within the budget. `KeysUsed` adds that no admitted key, and no later attempt, has a reservation yet, so that
  the policy never finds an old one. `Remaining` falls by one exactly when the ledger grows by one.
  `RetryInv` says of a call that goes on what `RetriesAccounted` says of one that has returned: all its
  attempts but the present one failed transiently.
* `GitHubReadProofs`: `ReadTypeCorrect`, `ResultAlwaysJustified` (`ResultJustified`) and
  `ResourcesAlwaysReadWhole` (`ReadsWhole`).
  `ReadInv` says where a read is (`ReadInOrder`: what was asked for so far, and how often), that a live
  cursor is the number of the page (`LivePageCounted`), that a document is read at the position it was
  loaded from (`DocumentFollowed`), and that the files read so far are of one commit, the target's unless
  the head has moved (`ReadOfTheTarget`).
  `ReadsWhole` needs to know what `items` holds in the middle of a resource. Live, and undisturbed, it is
  what is left of the first `page_number - 1` pages of the listing, which only grows at its end
  (`PrefixRead`, `SegmentExtends`): the last page is not full, so the prefix is then all. Over a fake
  transport it is the items along a walk over the pages (`WalkRead`); no cursor is on it twice, so it is no
  longer than the map is large (the pigeonhole principle), and it is one of the walks of the reference.
  That joining pages and dropping elements commute (`FlattenJoins`, `ObjectsJoin`) is proved from the
  definition of the fold by well-founded induction on the length.

* `ReviewDataProofs`, over `MCReviewData`, from `ReviewInv`, which has these parts:
  * `PatchInv`: `RangesAlwaysExact` (`RangesExact`), for patches of any length with any numbers in their
    headers. `ReaderInv` is the argument: every line of a kept range is shown, the last hunk is shown
    from its first line to where the reader stands, every addition is in a kept range or in that last hunk,
    and the numbers of the header are those the reader counts from. A line more shows at most one line more,
    the one the reader stands at (`ShownGrows`), and a header closes a hunk of known lines (`HeaderStep`).
    Joining ranges makes up no line, and loses none of a list in order (`CoalesceLines`); ranges are kept
    in order (`KeepsOrder`).
  * `FoundInv`: `PublicAlwaysOnChangedCode` (`PublicOnChangedCode`) and `PublicAlwaysRestsOnTrustedMemory`
    (`PublicRestsOnTrustedMemory`). Every finding collected so far is the item it was made from and
    passed the quality rules in the context, which does not change while reviewers run (`Settled`); when
    they are presented, each has the anchor derived from its lines. The rest is about one state, in any
    context: `ViewIsOf` (a file the reviewers see has its ranges from a file of the pull request),
    `MemoryIsOf` (what they may act on is vouched for by a comment, and a text that is missing is among the
    omitted ones), `Rests` and `OnChangedCode` (what the rules let through therefore is what the properties
    ask for, although ids and paths of a fixture may repeat).
  * `PostingInv`: `PostsAlwaysAsApproved` (`PostedAsApproved`), for any selection, any order of attempts and
    rewordings. The comments are lists and already what the property says (`PostInv`); the work is in one
    attempt: a release needs the hash of the approved text and a scan that is safe (`ReleaseNeeds`), a safe scan
    has seen the comments there are (`SafeMeansSeen`) and none of the same findings (`SafeMeansNone`), a hash that
    agrees makes the payload that of the findings as they were approved (`PayloadWritten`), and ids of a
    proved selection are unique, so that the marker names the findings that are listed (`SelectedFits`).
  * `PlanInv` and `CountInv`: `ReviewTypeCorrect` (`TypeOK`). A plan has one item for each output, under its id
    (`PlanBuilt`), and the ids of the outputs were checked in another order of their lists (`PlanUnique`).
  * `ProofAlwaysCoversExactly` (`ProofCoversExactly`) is about what is presented, whatever it is, and about
    selections of any length (`EverySelectionCovered`; a run takes those of at most two ids). A plan with
    candidates has its public items where the outputs have their findings (`PublicOfPlan`), ids that are named
    once select as many items (`SelectedItems`), so a proof fails for none of its reasons exactly if the ids
    are those of findings and no finding carries a marker (`FailureNone`, `Provable`); a plan without
    candidates proves nothing (`Unprovable`). What is proved stands for a valid comment (`ProvedComment`).
  * `NothingEverLost` (`NothingLost`) is about a step: the five lists of a review only grow, and the ids of
    what is returned are those of what is added, counted: each item goes to the one list of its type, in its
    turn (`CollectIds`), and from there to its own list or the suppressed ones (`ClassifiedIds`). `TakenLength`
    and `SplitLength` say how many elements a selection of positions takes.

  The library's theorems about folds take the step as a parameter; what is needed of these folds
  (`CoalesceSteps`, `FlattenExists`, `ElementsOf`) is proved by the least length at which it fails.

Only model-checked:

* all liveness (`Termination`, `ScanEnds`, `CallReturns`, `ReadEnds`): fairness and ENABLED are out of the
  provers' reach. Every other property of the passing runs is a theorem.

## What is not modelled

* The mode in which fixture outputs and a live transport are mixed, and the branch at
  `runner.py:601-617`, which a required reviewer's failure cannot reach after the branch before it.
* `retry_after_failure` (`reviewer_runs.py`) and `reconcile_existing_markers` (`markers.py`): nothing in
  `src/src` calls them.
* Trigger evaluation and the risk of a diff: they only decide which reviewers a stage selects.
* Inline candidates, summary items and public verdict texts (`posting.py`): no caller asks for them.
* Text: the syntax of markers, redaction (which changes nothing in the model), rendering, notes, the rules on
  wording and the overlap of texts (fields of an item). Hashes do not collide.
* Time inside a request to the provider (`llm_http.py:52`): the timeout is one of the socket.
* Malformed run ids, and exceptions of the normalizer that its own checks exclude.
* Reviewer context, configuration, command line, fixtures: no state, or plain I/O.
* What changes between the release of a payload and its POST: the documents accept it.
* Deletion of the posted comment by others between POST and recovery (`IssueCommentWriter`).

## Plan

1. *Composition.* `ReviewStages` in live mode over the ledger of `LiveLLM`, so that `WithinBudget` follows
   from the reservations; the live post flow over `ApprovedPayload` instead of a Boolean.
2. *Pure parts.* The risk of a diff and the triggers, to replace `StageSelection`.
