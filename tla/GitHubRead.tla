----------------------------- MODULE GitHubRead -----------------------------
(***************************************************************************)
(* The read of a pull request before it is reviewed: metadata, then five   *)
(* paginated resources one after the other (github.py), over the live gh   *)
(* transport (github_live.py), a fake transport loaded from a document, or *)
(* one that a caller made.  A read that is not whole must not pass for a   *)
(* complete one: it fails closed (read_gaps.py), and nothing is reviewed.  *)
(*                                                                         *)
(* The live read is no snapshot.  Between two requests people write and    *)
(* delete comments and push commits.                                       *)
(***************************************************************************)
EXTENDS Integers, Sequences, FiniteSets

CONSTANTS
    None,
    Last, Malformed,    \* in place of a cursor: no next page; the fields disagree
    Threads,            \* ids of review threads
    Listings,           \* what a pull request can hold when a live read starts
    PushedFiles,        \* what the list of changed files can be after a push
    Books,              \* the page maps of transports that callers make
    Documents,          \* the documents of fake data, by resource
    GhFailures,         \* the reasons of failing gh calls that occur
    PerPage, MaxPages,  \* of the live transport
    MaxAdded, MaxRemoved, MaxPushes,  \* bounds: what people do during one read
    MaxRequests         \* bound: pages of one resource, more than any map has

SeqExt == INSTANCE SequencesExt

ReadOrder == <<"files", "comments", "review_comments", "reviews", "thread_state">>
Resources == {ReadOrder[i] : i \in DOMAIN ReadOrder}
Listed == Resources \ {"thread_state"}      \* what the live transport can ask for

RetryableReasons == {"rate_limited", "timeout", "pagination_incomplete", "not_fetched_in_scope"}
FinalReasons == {"forbidden", "not_found", "unavailable", "thread_state_unknown"}
Reasons == RetryableReasons \cup FinalReasons

\* What a failing gh call can be told to have failed for.
GhReasons == {"timeout", "forbidden", "not_found", "rate_limited", "unavailable", "pagination_incomplete"}

\* An element of a listing.  "junk" is no object, "unmappable" lacks what the
\* live transport needs (a file without a name), "invalid" what the reader needs.
Shapes == {"object", "junk", "unmappable", "invalid"}
Item == [id : Nat, shape : Shapes, thread : Threads \cup {None}, commit : Nat]

\* A page, as the transport answers it.
ItemsPage(items, next) == [kind |-> "items", items |-> items, next |-> next]
ErrorPage(reason) == [kind |-> "error", reason |-> reason]
MalformedPage == [kind |-> "malformed"]
RaisedError == [kind |-> "raised"]

\* What the reader looks at in an answer: items, and a next page, only where there are any.
IsPage(page) ==
    \/ page.kind = "items" /\ page.items \in Seq(Item) /\ page.next # None
    \/ page.kind \in {"error", "malformed", "raised"}

ASSUME GitHubReadAssumption ==
    /\ None # Last /\ None # Malformed /\ Last # Malformed
    /\ {None, Last, Malformed} \cap (Nat \cup Reasons \cup Threads) = {}
    /\ PerPage \in Nat \ {0} /\ MaxPages \in Nat \ {0}
    /\ GhFailures \subseteq GhReasons
    /\ Listings \subseteq [Listed -> Seq(Item)] /\ PushedFiles \subseteq Seq(Item)
    /\ \A held \in Listings : \A i \in DOMAIN held["files"] : held["files"][i].commit = 1
    /\ \A map \in Books, r \in Resources :
        IsFiniteSet(DOMAIN map[r]) /\ \A c \in DOMAIN map[r] : IsPage(map[r][c])
    /\ \A loaded \in Documents, r \in Resources :
        /\ loaded[r] \in Seq({loaded[r][i] : i \in DOMAIN loaded[r]})
        /\ \A i \in DOMAIN loaded[r] : IsPage(loaded[r][i])
    /\ MaxAdded \in Nat /\ MaxRemoved \in Nat /\ MaxPushes \in Nat
    /\ MaxRequests \in Nat

VARIABLES
    source,         \* "live", "document" or "caller"
    listing, head,  \* live: what the pull request holds, and its head commit
    added, removed,
    document, book, \* fake: the document, and the pages of each resource by cursor
    at,             \* what is read next
    target,         \* the head commit of the review target
    cursor, page_number, seen_cursors,
    items,          \* by resource
    requests,       \* history: how often each resource was asked for
    disturbed,      \* history: the listings that moved while they were read
    last_error,     \* of the live transport
    outcome,
    report          \* what the caller makes of it

worldVars == <<listing, head, added, removed>>
fakeVars == <<source, document, book>>
pageVars == <<cursor, page_number, seen_cursors>>
vars == <<worldVars, fakeVars, pageVars, at, target, items, requests, disturbed, last_error, outcome,
          report>>

Steps == {"start", "metadata", "build", "report", "done"} \cup Resources
Gap == [resource : Resources \cup {"metadata"}, reason : Reasons, retryable : BOOLEAN]

TypeOK ==
    /\ source \in {"live", "document", "caller"}
    /\ listing \in [Listed -> Seq(Item)]
    /\ head \in Nat /\ added \in 0..MaxAdded /\ removed \in 0..MaxRemoved
    /\ at \in Steps
    /\ target \in Nat \cup {None}
    /\ page_number \in Nat
    /\ items \in [Resources -> Seq(Item)]
    /\ requests \in [Resources -> Nat]
    /\ disturbed \subseteq Listed
    /\ last_error \in Reasons \cup {None}
    /\ \/ outcome = None
       \/ outcome.kind \in {"complete", "error"}
       \/ outcome.kind = "fail_closed" /\ outcome.gap \in Gap
    /\ report \in {"none", "blocked", "succeeded", "fail_closed", "reviewed", "input_error"}

Init ==
    /\ \/ /\ source = "live" /\ listing \in Listings
          /\ document = None /\ book = None
       \/ /\ source = "document" /\ document \in Documents
          /\ listing = [r \in Listed |-> <<>>] /\ book = None
       \/ /\ source = "caller" /\ book \in Books
          /\ listing = [r \in Listed |-> <<>>] /\ document = None
    /\ head = 1 /\ added = 0 /\ removed = 0
    /\ at = "start" /\ target = None
    /\ cursor = None /\ page_number = 1 /\ seen_cursors = {}
    /\ items = [r \in Resources |-> <<>>]
    /\ requests = [r \in Resources |-> 0]
    /\ disturbed = {}
    /\ last_error = None /\ outcome = None /\ report = "none"

-----------------------------------------------------------------------------
(***************************************************************************)
(* Failing closed.  An unknown reason counts as unavailable; the outcome   *)
(* carries the required gap, the page, and no reviewer, finding or payload.*)
(***************************************************************************)
\* Mutant: reasons are passed on as they come.
AnyReason(reason) == reason

Classified(reason) == IF reason \in Reasons THEN reason ELSE "unavailable"

GapOf(resource, reason) ==
    [resource |-> resource, reason |-> Classified(reason),
     retryable |-> Classified(reason) \in RetryableReasons]

FailClosed(resource, reason, page) ==
    [kind |-> "fail_closed", gap |-> GapOf(resource, reason), page |-> page]

\* An exception that leaves the reader.  read_live_github_pr turns it into a gap
\* if a gh call has failed before, and raises it again otherwise.
Raised(error) ==
    IF source = "live" /\ error # None
    THEN FailClosed("metadata", error, None)
    ELSE [kind |-> "error"]

Conclude(result) == at' = "report" /\ outcome' = result

-----------------------------------------------------------------------------
(***************************************************************************)
(* The start: the checks of a live read's environment, or the loading of a *)
(* document, which must follow its own cursors from page to page.          *)
(***************************************************************************)
CursorOf(pages, i) == IF i = 1 THEN None ELSE pages[i - 1].next

WellFormedPages(pages) ==
    /\ pages # <<>>
    /\ \A i \in DOMAIN pages :
        /\ pages[i].kind \in {"items", "error"}
        /\ pages[i].kind = "error" => pages[i].reason # "malformed" /\ i = Len(pages)
        /\ pages[i].kind = "items" =>
            pages[i].next # Malformed /\ (pages[i].next = Last <=> i = Len(pages))

Loads(pages) ==
    /\ WellFormedPages(pages)
    /\ \A i, j \in DOMAIN pages : i # j => CursorOf(pages, i) # CursorOf(pages, j)

PageMap(pages) ==
    [c \in {CursorOf(pages, i) : i \in DOMAIN pages} |->
        pages[CHOOSE i \in DOMAIN pages : CursorOf(pages, i) = c]]

Start ==
    /\ at = "start"
    /\ source = "document" => \A r \in Resources : Loads(document[r])
    /\ at' = "metadata"
    /\ book' = IF source = "document" THEN [r \in Resources |-> PageMap(document[r])] ELSE book
    /\ UNCHANGED <<worldVars, source, document, pageVars, target, items, requests, disturbed,
                   last_error, outcome, report>>

RejectDocument ==
    /\ at = "start"
    /\ source = "document" /\ \E r \in Resources : ~Loads(document[r])
    /\ Conclude([kind |-> "error"])
    /\ UNCHANGED <<worldVars, fakeVars, pageVars, target, items, requests, disturbed, last_error,
                   report>>

\* No opt-in, no reference, no gh, or no token: a blocked artifact, no request.
BlockLiveRead ==
    /\ at = "start" /\ source = "live"
    /\ at' = "done" /\ report' = "blocked"
    /\ UNCHANGED <<worldVars, fakeVars, pageVars, target, items, requests, disturbed, last_error,
                   outcome>>

-----------------------------------------------------------------------------
(***************************************************************************)
(* The metadata, and with it the head that the review is about.            *)
(***************************************************************************)
ReadMetadata ==
    /\ at = "metadata"
    /\ target' = head
    /\ at' = "files"
    /\ UNCHANGED <<worldVars, fakeVars, pageVars, items, requests, disturbed, last_error, outcome,
                   report>>

FailMetadata ==
    /\ at = "metadata" /\ source = "live"
    /\ \E reason \in GhFailures :
        /\ last_error' = reason
        /\ Conclude(Raised(reason))
    /\ UNCHANGED <<worldVars, fakeVars, pageVars, target, items, requests, disturbed, report>>

RejectMetadata ==
    /\ at = "metadata"
    /\ Conclude(Raised(last_error))
    /\ UNCHANGED <<worldVars, fakeVars, pageVars, target, items, requests, disturbed, last_error,
                   report>>

-----------------------------------------------------------------------------
(***************************************************************************)
(* The answers to a request for a page.                                    *)
(***************************************************************************)
Segment(seq, page) ==
    SubSeq(seq, (page - 1) * PerPage + 1, IF page * PerPage < Len(seq) THEN page * PerPage ELSE Len(seq))

IsObject(item) == item.shape # "junk"
IsMapped(item) == item.shape # "unmappable"

Objects(seq) ==
    SeqExt!FlattenSeq([i \in DOMAIN seq |-> IF IsObject(seq[i]) THEN <<seq[i]>> ELSE <<>>])

\* Mutant: whether a page is full is judged after the elements without an object are dropped.
FullOfObjects(payload) == Len(Objects(payload)) = PerPage

IsFull(payload) == Len(payload) = PerPage

LivePage(r, page) ==
    LET payload == Segment(listing[r], page)
    IN CASE page > MaxPages -> ErrorPage("pagination_incomplete")
         [] page <= MaxPages /\ \E i \in DOMAIN payload : ~IsMapped(payload[i]) -> RaisedError
         [] OTHER ->
            IF ~IsFull(payload) THEN ItemsPage(Objects(payload), Last)
            ELSE IF page >= MaxPages THEN ErrorPage("pagination_incomplete")
            ELSE ItemsPage(Objects(payload), page + 1)

\* A call that times out, fails, or answers what is no JSON.
FailedCalls == {ErrorPage(reason) : reason \in GhFailures}

PageOfCursor == IF cursor = None THEN 1 ELSE cursor

\* Thread state is not part of the REST interface: the live transport has none.
Answers(r) ==
    CASE source = "live" /\ r = "thread_state" -> {ItemsPage(<<>>, Last)}
      [] source = "live" /\ r # "thread_state" ->
            {LivePage(r, PageOfCursor)} \cup FailedCalls
      [] OTHER -> {IF cursor \in DOMAIN book[r] THEN book[r][cursor] ELSE RaisedError}

-----------------------------------------------------------------------------
(***************************************************************************)
(* _collect_pages: one page per step.                                      *)
(***************************************************************************)
\* Mutant: nothing remembers which cursors were followed.
NoneSeen == {}

Followed == seen_cursors

PageFailure(page) ==
    CASE page.kind = "raised" -> "timeout"
      [] page.kind = "malformed" -> "pagination_incomplete"
      [] page.kind = "error" -> CASE page.reason = "malformed" -> "pagination_incomplete"
                                  [] page.reason = None -> "unavailable"
                                  [] OTHER -> page.reason
      [] OTHER -> IF page.next = Malformed \/ page.next \in Followed
                  THEN "pagination_incomplete" ELSE None

Position(r) == CHOOSE i \in DOMAIN ReadOrder : ReadOrder[i] = r
Following(r) == IF Position(r) = Len(ReadOrder) THEN "build" ELSE ReadOrder[Position(r) + 1]

Ask == requests' = [requests EXCEPT ![at] = @ + 1]

\* gh's own failures stay in the transport's last_error; the caps' do not.
FailPage ==
    /\ at \in Resources
    /\ \E page \in Answers(at) :
        /\ PageFailure(page) # None
        /\ Conclude(FailClosed(at, PageFailure(page), page_number))
        /\ last_error' = IF source = "live" /\ page.kind = "error" /\ page # LivePage(at, PageOfCursor)
                         THEN page.reason ELSE last_error
    /\ Ask
    /\ UNCHANGED <<worldVars, fakeVars, pageVars, target, items, disturbed, report>>

NextPageNumber == page_number + 1

TakePage ==
    /\ at \in Resources /\ requests[at] < MaxRequests
    /\ \E page \in Answers(at) :
        /\ PageFailure(page) = None
        /\ page.next # Last
        /\ items' = [items EXCEPT ![at] = @ \o page.items]
        /\ seen_cursors' = seen_cursors \cup {page.next}
        /\ cursor' = page.next
    /\ page_number' = NextPageNumber
    /\ Ask
    /\ UNCHANGED <<worldVars, fakeVars, at, target, disturbed, last_error, outcome, report>>

TakeLastPage ==
    /\ at \in Resources
    /\ \E page \in Answers(at) :
        /\ PageFailure(page) = None
        /\ page.next = Last
        /\ items' = [items EXCEPT ![at] = @ \o page.items]
    /\ at' = Following(at)
    /\ cursor' = None /\ page_number' = 1 /\ seen_cursors' = {}
    /\ Ask
    /\ UNCHANGED <<worldVars, fakeVars, target, disturbed, last_error, outcome, report>>

-----------------------------------------------------------------------------
(***************************************************************************)
(* The result.  A review comment whose thread is unknown fails the read; a *)
(* thread without comments is left out.                                    *)
(***************************************************************************)
IsInvalid(r) == \E i \in DOMAIN items[r] : items[r][i].shape = "invalid"

ThreadsOf(r) == {items[r][i].thread : i \in DOMAIN items[r]}

\* Mutant: one known thread is enough.
OrphansIfNoneKnown ==
    IF ThreadsOf("thread_state") = {} THEN ThreadsOf("review_comments") ELSE {}

Orphans == ThreadsOf("review_comments") \ ThreadsOf("thread_state")

RejectItems ==
    /\ at = "build"
    /\ \/ items["files"] = <<>>
       \/ \E r \in Listed : IsInvalid(r)
       \/ Orphans = {} /\ IsInvalid("thread_state")
    /\ Conclude(Raised(last_error))
    /\ UNCHANGED <<worldVars, fakeVars, pageVars, target, items, requests, disturbed, last_error,
                   report>>

FailOnOrphans ==
    /\ at = "build"
    /\ items["files"] # <<>> /\ \A r \in Listed : ~IsInvalid(r)
    /\ Orphans # {}
    /\ Conclude(FailClosed("thread_state", "thread_state_unknown", 1))
    /\ UNCHANGED <<worldVars, fakeVars, pageVars, target, items, requests, disturbed, last_error,
                   report>>

Complete ==
    /\ at = "build"
    /\ items["files"] # <<>> /\ \A r \in Resources : ~IsInvalid(r)
    /\ Orphans = {}
    /\ Conclude([kind |-> "complete", target |-> target,
                 threads |-> ThreadsOf("thread_state") \cap ThreadsOf("review_comments")])
    /\ UNCHANGED <<worldVars, fakeVars, pageVars, target, items, requests, disturbed, last_error,
                   report>>

LiveReport ==
    CASE outcome.kind = "fail_closed" -> "fail_closed"
      [] outcome.kind = "error" -> "blocked"
      [] OTHER -> "succeeded"

DryRunReport ==
    CASE outcome.kind = "fail_closed" -> "fail_closed"
      [] outcome.kind = "error" -> "input_error"
      [] OTHER -> "reviewed"

\* The smoke writes an artifact, the dry run goes on to the review, or ends with
\* a result that says why not; an exception is a blocked artifact or exit code 2.
Report ==
    /\ at = "report"
    /\ at' = "done"
    /\ report' = IF source = "live" THEN LiveReport ELSE DryRunReport
    /\ UNCHANGED <<worldVars, fakeVars, pageVars, target, items, requests, disturbed, last_error,
                   outcome>>

-----------------------------------------------------------------------------
(***************************************************************************)
(* What people do to the pull request while it is read.                    *)
(***************************************************************************)
IsBeingRead == source = "live" /\ at \notin {"start", "build", "report", "done"}

NextId == 10 + added

AddItem(r, thread) ==
    /\ IsBeingRead /\ added < MaxAdded
    /\ r \in Listed \ {"files"} /\ (thread = None <=> r # "review_comments")
    /\ listing' = [listing EXCEPT ![r] =
            Append(@, [id |-> NextId, shape |-> "object", thread |-> thread, commit |-> head])]
    /\ added' = added + 1
    /\ UNCHANGED <<head, removed, fakeVars, pageVars, at, target, items, requests, disturbed,
                   last_error, outcome, report>>

RemoveItem(r, i) ==
    /\ IsBeingRead /\ removed < MaxRemoved
    /\ r \in Listed \ {"files"} /\ i \in DOMAIN listing[r]
    /\ listing' = [listing EXCEPT ![r] = SubSeq(@, 1, i - 1) \o SubSeq(@, i + 1, Len(@))]
    /\ removed' = removed + 1
    /\ disturbed' = IF at = r THEN disturbed \cup {r} ELSE disturbed
    /\ UNCHANGED <<head, added, fakeVars, pageVars, at, target, items, requests, last_error, outcome,
                   report>>

Push(files) ==
    /\ IsBeingRead /\ head <= MaxPushes
    /\ head' = head + 1
    /\ listing' = [listing EXCEPT !["files"] =
            [i \in DOMAIN files |-> [files[i] EXCEPT !.commit = head + 1]]]
    /\ disturbed' = IF at = "files" THEN disturbed \cup {"files"} ELSE disturbed
    /\ UNCHANGED <<added, removed, fakeVars, pageVars, at, target, items, requests, last_error,
                   outcome, report>>

-----------------------------------------------------------------------------
Read ==
    \/ Start \/ RejectDocument \/ BlockLiveRead
    \/ ReadMetadata \/ FailMetadata \/ RejectMetadata
    \/ FailPage \/ TakePage \/ TakeLastPage
    \/ RejectItems \/ FailOnOrphans \/ Complete \/ Report

People ==
    \/ \E r \in Listed, thread \in Threads \cup {None} : AddItem(r, thread)
    \/ \E r \in Listed : \E i \in DOMAIN listing[r] : RemoveItem(r, i)
    \/ \E files \in PushedFiles : Push(files)

Next == Read \/ People

\* A gh call returns within its timeout: the read goes on.
Spec == Init /\ [][Next]_vars /\ WF_vars(Read)

-----------------------------------------------------------------------------
(***************************************************************************)
(* Reference: the pages of a map, followed from the first to the last.     *)
(***************************************************************************)
FollowsCursors(pages, path) ==
    /\ path[1] = None
    /\ \A i \in DOMAIN path : pages[path[i]].kind = "items"
    /\ \A i \in 1..Len(path) - 1 : pages[path[i]].next = path[i + 1]
    /\ pages[path[Len(path)]].next = Last

ItemsAlong(pages, path) == SeqExt!FlattenSeq([i \in DOMAIN path |-> pages[path[i]].items])

WholeOf(r) ==
    IF source = "live"
    THEN IF r = "thread_state" THEN {<<>>} ELSE {Objects(listing[r])}
    ELSE {ItemsAlong(book[r], path) :
            path \in {p \in UNION {[1..n -> DOMAIN book[r]] : n \in 1..Cardinality(DOMAIN book[r])} :
                        FollowsCursors(book[r], p)}}

\* A resource counts as read only when everything it holds was read, in order,
\* each element once: over a fake transport, the pages that its cursors lead
\* through; live, the listing as it is when its last page is answered, unless
\* something was removed from it, or pushed, while it was read (_collect_pages).
ReadsWhole ==
    [][\A r \in Resources :
        at = r /\ at' = Following(r) /\ r \notin disturbed => items'[r] \in WholeOf(r)]_vars

\* A failed read names the resource and the page it failed at, which is the one
\* asked for last; nothing was asked for after it, and no live resource beyond
\* the page limit (GitHubPageGapDescriptor).
GapNamesTheMissingPage ==
    outcome # None /\ outcome.kind = "fail_closed" /\ outcome.gap.resource # "metadata" =>
        \/ outcome.gap = GapOf("thread_state", "thread_state_unknown")
        \/ /\ outcome.page = requests[outcome.gap.resource]
           /\ source = "live" => outcome.page <= MaxPages
           /\ \A r \in Resources :
                Position(r) > Position(outcome.gap.resource) => requests[r] = 0

\* A complete read knows the thread of every review comment it has, so that no
\* comment of a thread in an unknown state can become actionable
\* (_review_threads_from_payloads).
ThreadsKnown ==
    outcome # None /\ outcome.kind = "complete" =>
        /\ ThreadsOf("review_comments") = outcome.threads
        /\ \A r \in Resources : requests[r] > 0

\* The changed files may be read after a push, and then are not those of the
\* target.  Such a read can be told: the head is no longer the target's, which
\* is what the freshness check before a post compares (get_pull_request is the
\* first call, finalization.py evaluates the target again).
MixedReadIsStale ==
    outcome # None /\ outcome.kind = "complete" /\ source = "live" =>
        \/ head # outcome.target
        \/ \A i \in DOMAIN items["files"] : items["files"][i].commit = outcome.target

\* What the loader accepts, the reader can follow: a loaded document is read to
\* its end, or to the error page it ends with, and never fails as incomplete
\* (_load_page_map against _collect_pages).
LoadedDocumentsReadThrough ==
    source = "document" /\ outcome # None /\ outcome.kind = "fail_closed" =>
        \/ outcome.gap.reason = "thread_state_unknown"
        \/ LET pages == document[outcome.gap.resource]
           IN /\ pages[Len(pages)].kind = "error"
              /\ outcome.page = Len(pages)

\* What a read concludes holds of the pull request: a complete one knows the
\* state of every thread it has comments of and tells when it mixes two heads; a
\* failed one names the page that is missing, and a fake document that was loaded
\* fails at an error page of its own only (github.py:447-570, 617-660, 827-900).
ResultJustified ==
    /\ ThreadsKnown
    /\ MixedReadIsStale
    /\ GapNamesTheMissingPage
    /\ LoadedDocumentsReadThrough

\* Every read ends with a report, whatever cursors a transport answers and
\* however fast comments are added, and no resource is asked for without end
\* (the page cap and seen_cursors; the bound MaxRequests is never met).
ReadEnds == <>(at = "done")
=============================================================================
