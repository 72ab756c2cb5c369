---------------------------- MODULE ReviewOutput ----------------------------
(***************************************************************************)
(* From what a reviewer returns to what the review says: the repair of a   *)
(* malformed output (reviewers.py), its normalization (findings.py), the   *)
(* quality rules (quality.py), and the checks on all outputs together      *)
(* (runner.py).                                                            *)
(*                                                                         *)
(* A string that the code puts together from an id is the sequence of its  *)
(* parts.  An item has the fields the rules look at: valid, whether its    *)
(* fields have their types; concrete, what the rules on wording say of it; *)
(* copies, the texts it repeats; and subject, its title and evidence.      *)
(***************************************************************************)
EXTENDS ReviewInput

ItemTypes == {"finding", "local_note", "clarification_request", "suggested_reply",
              "suppressed", "non_finding"}

-----------------------------------------------------------------------------
(***************************************************************************)
(* normalize_reviewer_output: the first malformed item makes the output    *)
(* fatal; an item that sets a field of the graph is suppressed by itself.  *)
(***************************************************************************)
FatalCode(item) ==
    IF item.type = "not_an_object" THEN <<"invalid_item">>
    ELSE IF item.type = None THEN <<"invalid_type">>
    ELSE IF item.type \notin ItemTypes THEN <<"unsupported_item_type">>
    ELSE IF item.graph_owned \/ item.valid THEN None
    ELSE IF item.type \in {"suppressed", "non_finding"} THEN <<"invalid_non_finding">>
    ELSE <<"invalid_", item.type>>

RepairableReviewerOutputErrorCodes ==
    {<<"invalid_json">>, <<"invalid_output_type">>, <<"invalid_items">>, <<"invalid_item">>,
     <<"invalid_type">>, <<"unsupported_item_type">>, <<"invalid_non_finding">>}
    \cup {<<"invalid_", type>> : type \in ItemTypes \ {"suppressed", "non_finding"}}

\* An id that is not a non-empty string is None.
SuppressedId(item) ==
    IF item.id = None THEN <<"suppressed-", "invalid-raw-item">> ELSE <<"suppressed-">> \o item.id

Suppressed(id, reason) == [id |-> id, reason |-> reason]

Kept(items, type) ==
    ElementsAt(items, {i \in DOMAIN items : items[i].type = type /\ ~items[i].graph_owned})

NormalizationError(code, repairable) == [code |-> code, repairable |-> repairable]

NoCollections ==
    [findings |-> <<>>, clarification_requests |-> <<>>, local_notes |-> <<>>,
     suggested_replies |-> <<>>, suppressed_outputs |-> <<>>]

FailedResult(error) ==
    [status |-> "failed", fatal |-> error, repair |-> None, collections |-> NoCollections]

FirstFatal(items) ==
    SelectInSeq(items, LAMBDA item : FatalCode(item) # None)

\* Mutant: what is suppressed leaves no trace.
CollectUnowned(items) ==
    [findings |-> Kept(items, "finding"),
     clarification_requests |-> Kept(items, "clarification_request"),
     local_notes |-> Kept(items, "local_note"),
     suggested_replies |-> Kept(items, "suggested_reply"),
     suppressed_outputs |-> <<>>]

Collect(items) ==
    LET dropped == ElementsAt(items, {i \in DOMAIN items :
                       items[i].graph_owned \/ items[i].type \in {"suppressed", "non_finding"}})
    IN  [findings |-> Kept(items, "finding"),
         clarification_requests |-> Kept(items, "clarification_request"),
         local_notes |-> Kept(items, "local_note"),
         suggested_replies |-> Kept(items, "suggested_reply"),
         suppressed_outputs |->
             [i \in DOMAIN dropped |->
                 IF dropped[i].graph_owned THEN Suppressed(SuppressedId(dropped[i]), "graph_owned")
                 ELSE Suppressed(dropped[i].id, "reviewer")]]

\* items is None where the output has no list of items.
NormalizeReviewerOutput(items) ==
    IF items = None THEN FailedResult(NormalizationError(<<"invalid_items">>, TRUE))
    ELSE IF FirstFatal(items) > 0
    THEN FailedResult(NormalizationError(FatalCode(items[FirstFatal(items)]), TRUE))
    ELSE [status |-> "completed", fatal |-> None, repair |-> None, collections |-> Collect(items)]

-----------------------------------------------------------------------------
(***************************************************************************)
(* execute_fake_reviewer.  An output is nothing, text that is no JSON, a   *)
(* value that is no object, or an object that reports a failure or carries *)
(* items; text, whether the value came out of a string.  An envelope has a *)
(* second output, which is taken for a repair of the first.                *)
(***************************************************************************)
ExecuteOutput(output) ==
    CASE output.kind = "missing" -> FailedResult(NormalizationError(<<"missing_output">>, TRUE))
      [] output.kind = "not_json" -> FailedResult(NormalizationError(<<"invalid_json">>, TRUE))
      [] output.kind = "not_mapping" ->
             FailedResult(NormalizationError(<<"invalid_output_type">>, ~output.text))
      [] output.kind = "failure" -> FailedResult(None)
      [] output.kind = "mapping" -> NormalizeReviewerOutput(output.items)

ShouldAttemptRepair(result) ==
    /\ result.fatal # None
    /\ result.fatal.repairable
    /\ result.fatal.code \in RepairableReviewerOutputErrorCodes

\* A repair that reports a failure is read for its items like any other.
NormalizeRepair(repair) ==
    CASE repair.kind = "not_json" ->
             FailedResult(NormalizationError(<<"repair_", "invalid_json">>, FALSE))
      [] repair.kind \in {"missing", "not_mapping"} ->
             FailedResult(NormalizationError(<<"repair_", "invalid_output_type">>, FALSE))
      [] repair.kind \in {"failure", "mapping"} ->
             LET result == NormalizeReviewerOutput(repair.items)
             IN  IF result.fatal = None THEN result
                 ELSE FailedResult(NormalizationError(<<"repair_">> \o result.fatal.code, FALSE))

ExecuteFakeReviewer(returned) ==
    LET result == ExecuteOutput(returned.raw_output)
    IN  IF returned.repair_output = None \/ ~ShouldAttemptRepair(result) THEN result
        ELSE LET repaired == NormalizeRepair(returned.repair_output)
             IN  [repaired EXCEPT !.repair =
                     IF repaired.status = "completed" THEN "succeeded" ELSE "failed"]

-----------------------------------------------------------------------------
(***************************************************************************)
(* classify_review_quality: what becomes of an item is decided by the      *)
(* first rule that applies.  context is what the item may not rest on: the *)
(* files, the memory, and what the budget left out of either.              *)
(***************************************************************************)
UsesOmittedMemory(context, item) ==
    \E i \in DOMAIN item.memory_ids : item.memory_ids[i] \in context.omitted_memory_ids

DependsOnOmittedContext(context, item) ==
    \/ item.path \in context.omitted_file_paths
    \/ UsesOmittedMemory(context, item)
    \/ LET found == FilesFor(context.files, item)
       IN  found # <<>> /\ Head(found).patch_status # "available"

LocationOverlapsChangedLine(context, item) == FilesFor(context.files, item) # <<>>

\* The classified finding never blocks; its fingerprint leaves the body out.
IsPostableFinding(item) ==
    /\ item.confidence # "low"
    /\ item.confidence = "high" \/ item.severity # "critical"
    /\ item.concrete

\* Of several entries with the same id the last one counts.
MemoryById(memory, id) == SelectLastInSeq(memory, LAMBDA entry : entry.id = id)

CopiesPassiveMemory(memory, item) ==
    \E i \in DOMAIN memory :
        ~memory[i].actionable /\ memory[i].body # None /\ memory[i].body \in item.copies

SuppressionReasons == {"omitted_context", "location", "quality", "unsafe_provenance"}

ASSUME ReviewOutputAssumption ==
    None \notin RepairableReviewerOutputErrorCodes /\ None \notin SuppressionReasons

\* Mutant: an id is enough to vouch for the evidence.
VouchedById(memory, item) ==
    /\ "trusted_memory" \in item.sources <=> item.memory_ids # <<>>
    /\ \A i \in DOMAIN item.memory_ids : MemoryById(memory, item.memory_ids[i]) > 0
    /\ ~CopiesPassiveMemory(memory, item)

SafeProvenance(memory, item) ==
    /\ "trusted_memory" \in item.sources <=> item.memory_ids # <<>>
    /\ \A i \in DOMAIN item.memory_ids :
           LET found == MemoryById(memory, item.memory_ids[i])
           IN  found > 0 /\ memory[found].actionable
    /\ ~CopiesPassiveMemory(memory, item)

FindingSuppression(context, item) ==
    IF DependsOnOmittedContext(context, item) THEN "omitted_context"
    ELSE IF ~LocationOverlapsChangedLine(context, item) THEN "location"
    ELSE IF ~IsPostableFinding(item) THEN "quality"
    ELSE IF ~SafeProvenance(context.memory, item) THEN "unsafe_provenance"
    ELSE None

\* As soon as there is passive memory, a question has to name its sources.
ClarificationSuppression(context, item) ==
    IF UsesOmittedMemory(context, item) THEN "omitted_context"
    ELSE IF \/ ~SafeProvenance(context.memory, item)
            \/ /\ \E i \in DOMAIN context.memory : ~context.memory[i].actionable
               /\ item.sources = {} /\ item.memory_ids = <<>>
    THEN "unsafe_provenance"
    ELSE None

ClassifiedFinding(item) ==
    [id |-> item.id, path |-> item.path, line |-> item.line, line_end |-> item.line_end,
     fingerprint |-> <<item.path, item.line, item.subject>>, body |-> item.body,
     diff_anchor |-> NoAnchor, item |-> item]

Suppression(context, item) ==
    IF item.type = "finding" THEN FindingSuppression(context, item)
    ELSE ClarificationSuppression(context, item)

Passing(context, items) ==
    ElementsAt(items, {i \in DOMAIN items : Suppression(context, items[i]) = None})

SuppressedBy(context, items) ==
    LET dropped == ElementsAt(items, {i \in DOMAIN items : Suppression(context, items[i]) # None})
    IN  [i \in DOMAIN dropped |-> Suppressed(dropped[i].id, Suppression(context, dropped[i]))]

ClassifyReviewQuality(context, collections) ==
    LET findings == Passing(context, collections.findings)
    IN  [findings |-> [i \in DOMAIN findings |-> ClassifiedFinding(findings[i])],
         clarification_requests |-> Passing(context, collections.clarification_requests),
         local_notes |-> collections.local_notes,
         suggested_replies |-> collections.suggested_replies,
         suppressed_outputs |->
             SuppressedBy(context, collections.findings)
             \o SuppressedBy(context, collections.clarification_requests)
             \o collections.suppressed_outputs]

-----------------------------------------------------------------------------
(***************************************************************************)
(* All outputs together (runner.py).  Ids are compared across the          *)
(* collections, with the notes of the budget, fingerprints across the      *)
(* findings; the whole run fails on the first one that comes twice.        *)
(***************************************************************************)
CollectionNames == DOMAIN NoCollections

Extended(classified, result) == [name \in CollectionNames |-> classified[name] \o result[name]]

Ids(items) == [i \in DOMAIN items |-> items[i].id]

AllIds(classified) ==
    Ids(classified.findings) \o Ids(classified.local_notes)
    \o Ids(classified.clarification_requests) \o Ids(classified.suggested_replies)
    \o Ids(classified.suppressed_outputs)

OutputItemIdsUnique(classified) == IsInjective(AllIds(classified))

FindingFingerprintsUnique(findings) ==
    IsInjective([i \in DOMAIN findings |-> findings[i].fingerprint])
=============================================================================
