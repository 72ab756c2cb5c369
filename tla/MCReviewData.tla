---------------------------- MODULE MCReviewData ----------------------------
(***************************************************************************)
(* Reviews of small pull requests, each of which differs from a plain one  *)
(* in one thing, by two reviewers that return anything; and attempts to    *)
(* post what a review presents, between which a later review may word a    *)
(* finding differently.                                                    *)
(***************************************************************************)
EXTENDS ReviewData

CONSTANTS MaxProofAge, MaxFutureSkew, Logins, Wordings

VARIABLES findings, author_login, comments, writer_result

postVars == <<findings, author_login, comments, writer_result>>
vars == <<reviewVars, postVars>>

Post == INSTANCE FakePostHarness

ASSUME MCReviewDataAssumption ==
    None \notin Post!ProofReasons \cup {"writer_input_invalid", Post!RunId}

-----------------------------------------------------------------------------
MCPatchLines ==
    {HunkHeader(1, 1, 1, 2), HunkHeader(2, 0, 3, 1), HunkHeader(4, 1, 6, 1),
     HunkHeader(3, 1, 0, 0), HunkHeader(0, 1, 1, 1), HunkHeader(3, 1, 2, 0)}
        \cup {[kind |-> kind] : kind \in BodyKinds \cup {"bad_hunk"}}

File(path, ranges) ==
    [path |-> path, status |-> "modified", patch_status |-> "available", patch_bytes |-> 2,
     changed_ranges |-> ranges]

CommentOf(id, author, body) ==
    [id |-> id, provider |-> "fixture", trust_label |-> "trusted", author |-> author,
     association |-> "NONE", author_type |-> "user", source_type |-> "issue_comment",
     resolved_status |-> "unresolved", thread |-> None, body |-> body, bytes |-> 2]

Asked == CommentOf("m1", "operator", "asked")
Said == CommentOf("m1", "stranger", "said")

Plain ==
    [provider |-> "fixture", files |-> <<File("a", <<>>), File("b", <<Span(1, 1)>>)>>,
     comments |-> <<Asked>>,
     limits |-> [max_changed_files |-> 2, max_patch_bytes |-> 4, max_memory_bytes |-> 4]]

WithComments(list) == [Plain EXCEPT !.comments = list]

OnGitHub(comment) == [comment EXCEPT !.provider = "github", !.association = "OWNER"]

VariedInputs ==
    {Plain,
     [Plain EXCEPT !.limits.max_changed_files = 1],
     [Plain EXCEPT !.limits.max_patch_bytes = 3],
     [Plain EXCEPT !.limits.max_patch_bytes = 3, !.provider = "github"],
     [Plain EXCEPT !.files[1].status = "removed"],
     [Plain EXCEPT !.files[2].status = "removed"],
     [Plain EXCEPT !.files[1].patch_status = "missing", !.files[1].patch_bytes = None],
     [Plain EXCEPT !.files[2].path = "a"],
     [Plain EXCEPT !.limits.max_memory_bytes = 1],
     [WithComments(<<Asked, Said>>) EXCEPT !.limits.max_memory_bytes = 2],
     [WithComments(<<Asked, Said>>) EXCEPT !.limits.max_memory_bytes = 1],
     WithComments(<<Asked, Said>>), WithComments(<<Said, Asked>>),
     WithComments(<<[Asked EXCEPT !.resolved_status = "resolved", !.source_type = "review_thread",
                                  !.thread = "t1"]>>),
     WithComments(<<[Asked EXCEPT !.trust_label = None]>>),
     WithComments(<<[Asked EXCEPT !.source_type = "review"]>>),
     WithComments(<<[Asked EXCEPT !.author = "bot", !.author_type = "bot"], Said>>),
     WithComments(<<[Said EXCEPT !.author_type = "bot", !.association = "OWNER"]>>),
     WithComments(<<OnGitHub(Said)>>),
     WithComments(<<OnGitHub([Said EXCEPT !.source_type = "review_thread", !.thread = "t1"])>>)}

OneHunk == <<HunkHeader(1, 1, 1, 2), [kind |-> "context"], [kind |-> "added"]>>

\* Bound: the plain pull request has any patch, the others have one hunk.
MCInputs(patch_lines) == IF patch_lines = OneHunk THEN VariedInputs ELSE {Plain}

-----------------------------------------------------------------------------
Item(type, id) ==
    [type |-> type, id |-> <<id>>, graph_owned |-> FALSE, valid |-> TRUE, path |-> "a", line |-> 2,
     line_end |-> None, severity |-> "warning", confidence |-> "high", concrete |-> TRUE,
     sources |-> {}, memory_ids |-> <<>>, copies |-> {}, subject |-> "s1", body |-> "plain",
     blocking |-> FALSE]

OnA == Item("finding", "f1")
OnB == [Item("finding", "f2") EXCEPT !.path = "b", !.line = 1]
Citing(item, id) == [item EXCEPT !.sources = {"trusted_memory"}, !.memory_ids = <<id>>]
Question == Item("clarification_request", "q1")

MCItems ==
    {OnA, OnB,
     [OnA EXCEPT !.line_end = 3],
     [OnB EXCEPT !.confidence = "low"],
     [OnB EXCEPT !.confidence = "medium", !.severity = "critical"],
     [OnB EXCEPT !.concrete = FALSE],
     [OnB EXCEPT !.body = "marker"],
     [OnB EXCEPT !.id = <<"summary">>],
     [OnB EXCEPT !.id = <<"f1">>],
     [OnB EXCEPT !.copies = {"said"}],
     [OnB EXCEPT !.sources = {"trusted_memory"}],
     Citing(OnB, <<"m1">>),
     Citing(OnB, <<"github", "issue_comment", "m1">>),
     Citing(OnB, <<"github", "review_thread", "t1", "m1">>),
     Question, [Question EXCEPT !.blocking = TRUE], Citing(Question, <<"m1">>),
     Item("local_note", "n1"), Item("suggested_reply", "r1"), Item("suppressed", "s1"),
     [OnA EXCEPT !.graph_owned = TRUE], [OnA EXCEPT !.graph_owned = TRUE, !.id = None],
     [OnA EXCEPT !.valid = FALSE], Item("unheard_of", "u1")}

Output(kind, items) == [kind |-> kind, text |-> FALSE, items |-> items]
Of(items) == Output("mapping", items)
Returns(raw, repair) == [raw_output |-> raw, repair_output |-> repair]

MCReturned ==
    {Returns(Of(<<item>>), None) : item \in MCItems}
    \cup {Returns(Of(<<OnA, OnB>>), None), Returns(Of(<<>>), None), Returns(Of(None), None),
          Returns(Output("missing", None), None),
          Returns([Output("not_mapping", None) EXCEPT !.text = TRUE], Of(<<OnA>>)),
          Returns(Output("failure", None), Of(<<OnA>>))}
    \cup {Returns(Output("not_json", None), repair) :
              repair \in {None, Of(<<OnB>>), Of(None), Output("failure", <<OnB>>),
                          Output("not_json", None), Output("not_mapping", None)}}

MCReviewers == <<[name |-> "correctness", required |-> TRUE], [name |-> "style", required |-> FALSE]>>

-----------------------------------------------------------------------------
MCInit ==
    /\ Init
    /\ findings = <<>> /\ author_login = None /\ comments = <<>> /\ writer_result = None

\* The posting looks at the findings only.
StartPosting(login) ==
    /\ phase = "presented"
    /\ PostEnabled(classified)
    /\ phase' = "posting"
    /\ findings' = [i \in DOMAIN classified.findings |->
                       [id |-> classified.findings[i].id,
                        fingerprint |-> classified.findings[i].fingerprint,
                        body |-> classified.findings[i].body]]
    /\ author_login' = login
    /\ pr' = None /\ reviewed' = 0 /\ returned' = None
    /\ classified' = NoCollections /\ plan' = <<>>
    /\ UNCHANGED <<patch, reader, errors, comments, writer_result>>

\* A later review says the same in other words: the fingerprint stays.
Reword(i, wording) ==
    /\ phase = "posting"
    /\ findings' = [findings EXCEPT ![i].body = wording]
    /\ writer_result' = None
    /\ UNCHANGED <<reviewVars, author_login, comments>>

AttemptPost ==
    /\ phase = "posting"
    /\ \E case \in Post!Cases, ids \in Post!Selections : Post!Attempt(case, ids)
    /\ UNCHANGED reviewVars

MCNext ==
    \/ ReviewNext /\ UNCHANGED postVars
    \/ \E login \in Logins : StartPosting(login)
    \/ \E i \in DOMAIN findings, wording \in Wordings : Reword(i, wording)
    \/ AttemptPost

MCSpec == MCInit /\ [][MCNext]_vars

PostedAsApproved == Post!PostedAsApproved
=============================================================================
