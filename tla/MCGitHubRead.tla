---------------------------- MODULE MCGitHubRead ----------------------------
(***************************************************************************)
(* Live: two elements to a page and two pages, listings that end before,   *)
(* at and after the limit, elements of every shape, one addition, one      *)
(* removal and one push during the read.  Fake: for each resource in turn, *)
(* every map of three cursors over the kinds of pages, cycles included,    *)
(* and every document of up to three pages.                                *)
(***************************************************************************)
EXTENDS GitHubRead

CONSTANTS t1, t2, c1, c2

Of(id, shape, thread) == [id |-> id, shape |-> shape, thread |-> thread, commit |-> 1]
Plain(n, thread) == [i \in 1..n |-> Of(i, "object", thread)]
With(seq, i, shape) == [seq EXCEPT ![i].shape = shape]

Holding(files, comments, review_comments, reviews) ==
    [r \in Listed |-> CASE r = "files" -> files [] r = "comments" -> comments
                        [] r = "review_comments" -> review_comments [] OTHER -> reviews]

MCListings ==
    {Holding(Plain(n, None), Plain(k, None), <<>>, <<>>) : n \in {1, 2, 3}, k \in {0, 2, 3}}
    \cup {Holding(files, <<>>, <<>>, Plain(1, None)) :
            files \in {<<>>, Plain(4, None), With(Plain(2, None), 1, "junk"),
                       With(Plain(3, None), 3, "unmappable"), With(Plain(2, None), 2, "invalid")}}
    \cup {Holding(Plain(1, None), With(Plain(3, None), 2, "junk"), Plain(n, t1), Plain(1, None)) :
            n \in {0, 1, 2}}

MCPushedFiles == {Plain(n, None) : n \in 1..3}

\* Fake pages: one element each, named after the page.
Holds(r, n) ==
    <<[id |-> n, shape |-> "object", commit |-> 0,
       thread |-> CASE r = "thread_state" -> IF n = 1 THEN t1 ELSE t2
                    [] r = "review_comments" -> IF n = 3 THEN t2 ELSE t1
                    [] OTHER -> None]>>

PagesFor(r, n) ==
    {ItemsPage(Holds(r, n), next) : next \in {c1, c2, Last, Malformed}}
    \cup {ErrorPage(reason) : reason \in {"rate_limited", "unheard_of", "malformed", None}}
    \cup {MalformedPage}

OnePage(its) == [c \in {None} |-> ItemsPage(its, Last)]
PlainBook ==
    [r \in Resources |-> IF r \in {"files", "thread_state"} THEN OnePage(Holds(r, 1)) ELSE OnePage(<<>>)]
MapsFor(r) ==
    {[c \in {None, c1, c2} |-> CASE c = None -> p [] c = c1 -> q [] OTHER -> s] :
        p \in PagesFor(r, 1), q \in PagesFor(r, 2), s \in PagesFor(r, 3) \ {MalformedPage}}
MCBooks == {[PlainBook EXCEPT ![r] = pages] : r \in {"files"}, pages \in MapsFor("files")}
           \cup {[PlainBook EXCEPT ![r] = pages] : r \in {"review_comments"},
                    pages \in {m \in MapsFor("review_comments") : m[c1].kind = "items"}}

PlainDocument == [r \in Resources |-> <<PlainBook[r][None]>>]
SequencesFor(r) ==
    {<<>>} \cup {<<p>> : p \in PagesFor(r, 1)}
    \cup {<<p, q>> : p \in PagesFor(r, 1), q \in PagesFor(r, 2)}
    \cup {<<p, q, s>> : p \in PagesFor(r, 1) , q \in PagesFor(r, 2), s \in PagesFor(r, 3)}
MCDocuments ==
    {[PlainDocument EXCEPT !["comments"] = pages] : pages \in SequencesFor("comments")}
    \cup {[PlainDocument EXCEPT !["thread_state"] = pages,
                                !["review_comments"] = <<ItemsPage(Holds("review_comments", n), Last)>>] :
            pages \in {s \in SequencesFor("thread_state") : Len(s) <= 2}, n \in {1, 3}}
=============================================================================
