---------------------------- MODULE MCMarkerScan ----------------------------
(***************************************************************************)
(* Pull requests with up to four comments, two to a page, and three ways   *)
(* to limit a scan: that of the live proofs, whose page cap is met first,  *)
(* the defaults of the recovery scan over the live transport, whose own    *)
(* cap is lower, and one whose comment cap is met first.                   *)
(***************************************************************************)
EXTENDS MarkerScan

Of(trusted, marker) == [trusted |-> trusted, marker |-> marker]
MCKinds == {Of(TRUE, "none"), Of(TRUE, "match"), Of(TRUE, "conflict"),
            Of(TRUE, "malformed"), Of(FALSE, "match")}
Numbered(kinds) == [i \in DOMAIN kinds |-> [id |-> i, kind |-> kinds[i]]]
MCInitial == UNION {{Numbered(kinds) : kinds \in [1..n -> MCKinds]} : n \in 0..4}

Limited(pages, total, served) ==
    [max_pages |-> pages, max_comments |-> total, transport_max_pages |-> served]
MCLimits == {Limited(2, 4, 2), Limited(4, 10, 2), Limited(4, 3, 4)}
=============================================================================
