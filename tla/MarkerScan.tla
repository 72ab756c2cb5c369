----------------------------- MODULE MarkerScan -----------------------------
(***************************************************************************)
(* The trusted-marker scan of a pull request's comments (markers.py:       *)
(* reconcile_paginated_trusted_markers) over the live gh transport         *)
(* (github_live_post.py: get_issue_comments_page), which asks for pages by *)
(* number.  The scan decides whether the approved comment may be posted.   *)
(*                                                                         *)
(* The comments are not the program's: while it reads one page after the   *)
(* other, people and bots add comments and delete them.                    *)
(***************************************************************************)
EXTENDS Integers, Sequences, FiniteSets

CONSTANTS
    None,
    Initial,        \* the comments a pull request can have when the scan starts
    CommentKinds,   \* what a comment added during the scan can be
    MaxLength,      \* bound: comments are added up to this many
    MaxDeletions,   \* bound: deletions during the scan
    PerPage,
    Limits,         \* the limits scans are made with
    Faults          \* reasons a page cannot be had: the transport's, or a malformed page

\* What the last line of a comment is to the scan: "elsewhere" is a marker of
\* another target or other findings, "conflict" differs in the payload only.
Marker == {"none", "malformed", "elsewhere", "conflict", "match"}
Kind == [trusted : BOOLEAN, marker : Marker]
Comment == [id : Nat, kind : Kind]

\* MarkerScanLimits, and the cap that the transport has of its own.
ScanLimits == [max_pages : Nat \ {0}, max_comments : Nat \ {0}, transport_max_pages : Nat \ {0}]

ASSUME MarkerScanAssumption ==
    /\ None \notin Nat \cup Marker
    /\ CommentKinds \subseteq Kind
    /\ Initial \subseteq Seq(Comment)
    /\ MaxLength \in Nat /\ MaxDeletions \in Nat
    /\ PerPage \in Nat \ {0}
    /\ Limits \subseteq ScanLimits

VARIABLES
    limits,                 \* of this scan
    comments,               \* the comments of the pull request, oldest first
    next_id,
    deletions,              \* how many were deleted since the scan began
    status,                 \* "scanning", "safe_to_post", "reconciled_existing", "failed"
    reason_code,
    cursor,                 \* the number of the next page
    page_count, comment_count,
    trusted_match, duplicate_comment_ids, deferred_failure

issueVars == <<comments, next_id, deletions>>
findVars == <<trusted_match, duplicate_comment_ids, deferred_failure>>
vars == <<limits, issueVars, findVars, status, reason_code, cursor, page_count, comment_count>>

TypeOK ==
    /\ limits \in Limits
    /\ comments \in Seq(Comment)
    /\ next_id \in Nat
    /\ deletions \in 0..MaxDeletions
    /\ status \in {"scanning", "safe_to_post", "reconciled_existing", "failed"}
    /\ reason_code \in {None, "page_cap_exceeded", "comment_cap_exceeded", "transport_unknown",
                        "malformed", "conflict"} \cup Faults
    /\ cursor \in 1..limits.max_pages + 1
    /\ page_count \in 0..limits.max_pages
    /\ comment_count \in 0..limits.max_comments
    /\ trusted_match \in Nat \cup {None}
    /\ duplicate_comment_ids \subseteq Nat
    /\ deferred_failure \in {None, "malformed", "conflict"}

FirstPage == 1

Init ==
    /\ limits \in Limits
    /\ comments \in Initial
    /\ next_id = Len(comments) + 1
    /\ deletions = 0
    /\ status = "scanning" /\ reason_code = None
    /\ cursor = FirstPage
    /\ page_count = 0 /\ comment_count = 0
    /\ trusted_match = None /\ duplicate_comment_ids = {} /\ deferred_failure = None

-----------------------------------------------------------------------------
(***************************************************************************)
(* What happens to the pull request during the scan.                       *)
(***************************************************************************)
AddComment(kind) ==
    /\ status = "scanning"
    /\ Len(comments) < MaxLength
    /\ comments' = Append(comments, [id |-> next_id, kind |-> kind])
    /\ next_id' = next_id + 1
    /\ UNCHANGED <<limits, deletions, findVars, status, reason_code, cursor, page_count,
                   comment_count>>

DeleteComment(i) ==
    /\ status = "scanning"
    /\ deletions < MaxDeletions
    /\ comments' = SubSeq(comments, 1, i - 1) \o SubSeq(comments, i + 1, Len(comments))
    /\ deletions' = deletions + 1
    /\ UNCHANGED <<limits, next_id, findVars, status, reason_code, cursor, page_count,
                   comment_count>>

-----------------------------------------------------------------------------
(***************************************************************************)
(* The scan.  A failure ends it at once, except that of a trusted comment, *)
(* which is kept until the last page has been read.                        *)
(***************************************************************************)
Fail(reason) ==
    /\ status' = "failed"
    /\ reason_code' = reason
    /\ UNCHANGED <<limits, issueVars, findVars, cursor, page_count, comment_count>>

\* Mutant: the loop is left at the cap without a result.
NoPageCap == FALSE

ReachPageCap ==
    /\ status = "scanning"
    /\ page_count >= limits.max_pages
    /\ Fail("page_cap_exceeded")

\* The transport refuses, but the failure it builds does not admit the reason
\* page_cap_exceeded: the scan meets an unexpected exception instead.
ReachTransportCap ==
    /\ status = "scanning"
    /\ page_count < limits.max_pages
    /\ cursor > limits.transport_max_pages
    /\ Fail("transport_unknown")

IsServed ==
    /\ status = "scanning"
    /\ page_count < limits.max_pages
    /\ cursor <= limits.transport_max_pages

\* A transport failure, an unexpected exception, a page that is not one, or
\* one whose cursor is malformed, repeated, missing or one too many.
MeetFault ==
    /\ IsServed
    /\ \E reason \in Faults : Fail(reason)

Page ==
    LET first == (cursor - 1) * PerPage + 1
        last == cursor * PerPage
    IN  SubSeq(comments, first, IF last <= Len(comments) THEN last ELSE Len(comments))

\* Mutant: a page that is exactly full is taken for the last one.
NeverNext == FALSE

HasNext == Len(Page) = PerPage

ExceedCommentCap ==
    /\ IsServed
    /\ comment_count + Len(Page) > limits.max_comments
    /\ Fail("comment_cap_exceeded")

Trusted(found, markers) ==
    {i \in DOMAIN found : found[i].kind.trusted /\ found[i].kind.marker \in markers}

First(positions) == CHOOSE i \in positions : \A j \in positions : i <= j

\* The first trusted failure and the first match are kept; later matches are
\* duplicates.
DeferredFailure(found) ==
    LET failures == Trusted(found, {"malformed", "conflict"})
    IN  IF failures = {} THEN None ELSE found[First(failures)].kind.marker

FirstMatch(found) ==
    LET matches == Trusted(found, {"match"})
    IN  IF matches = {} THEN None ELSE found[First(matches)].id

MatchIds(found) == {found[i].id : i \in Trusted(found, {"match"})}

\* Mutant: a match found early is preferred to a failure found before or after it.
MatchFirstStatus(failure, match) ==
    IF match # None THEN "reconciled_existing"
    ELSE IF failure # None THEN "failed" ELSE "safe_to_post"

Status(failure, match) ==
    IF failure # None THEN "failed"
    ELSE IF match # None THEN "reconciled_existing" ELSE "safe_to_post"

ReadPage ==
    /\ IsServed
    /\ comment_count + Len(Page) <= limits.max_comments
    /\ page_count' = page_count + 1
    /\ comment_count' = comment_count + Len(Page)
    /\ deferred_failure' = IF deferred_failure # None THEN deferred_failure
                           ELSE DeferredFailure(Page)
    /\ trusted_match' = IF trusted_match # None THEN trusted_match ELSE FirstMatch(Page)
    /\ duplicate_comment_ids' =
           (duplicate_comment_ids \cup MatchIds(Page)) \ {trusted_match'}
    /\ IF HasNext
       THEN cursor' = cursor + 1 /\ UNCHANGED <<status, reason_code>>
       ELSE /\ status' = Status(deferred_failure', trusted_match')
            /\ reason_code' = deferred_failure'
            /\ UNCHANGED cursor
    /\ UNCHANGED <<limits, issueVars>>

Scan == ReachPageCap \/ ReachTransportCap \/ MeetFault \/ ExceedCommentCap \/ ReadPage

Next ==
    \/ Scan
    \/ \E kind \in CommentKinds : AddComment(kind)
    \/ \E i \in DOMAIN comments : DeleteComment(i)

Spec == Init /\ [][Next]_vars /\ WF_vars(Scan)

-----------------------------------------------------------------------------
(***************************************************************************)
(* Properties.  Nothing changes once the scan has ended, so they speak of  *)
(* the comments there are at that moment.                                  *)
(***************************************************************************)
Conclusive == status \in {"safe_to_post", "reconciled_existing"}

(***************************************************************************)
(* Read page by page, the comments look as if they had been read at once:  *)
(* unless one was deleted meanwhile, a conclusive scan says of all the     *)
(* comments there are when it ends what one look at all of them says, the  *)
(* comments added during the scan included: a trusted failure anywhere     *)
(* forbids a conclusion, the first match is named and every other one is   *)
(* reported as a duplicate (markers.py:374-530).                           *)
(***************************************************************************)
ScanIsAtomic ==
    Conclusive /\ deletions = 0 =>
        /\ status = Status(DeferredFailure(comments), FirstMatch(comments))
        /\ trusted_match = FirstMatch(comments)
        /\ duplicate_comment_ids = MatchIds(comments) \ {trusted_match}

(***************************************************************************)
(* Whatever is deleted meanwhile, a reconciled comment is one that was     *)
(* there, trusted and matching, and a scan that saw a trusted failure      *)
(* never concludes; and it concludes nothing from a listing that it did    *)
(* not read to its end (markers.py:375-382, 441-449, 484-530).             *)
(***************************************************************************)
NothingAfterPage == Len(comments) <= page_count * PerPage

ConclusionJustified ==
    Conclusive =>
        /\ deferred_failure = None
        /\ status = "reconciled_existing" <=> trusted_match # None
        /\ NothingAfterPage

(***************************************************************************)
(* The scan ends, even when comments are added faster than it reads them   *)
(* (markers.py:375-382).                                                   *)
(***************************************************************************)
ScanEnds == <>(status # "scanning")
=============================================================================
