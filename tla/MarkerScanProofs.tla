--------------------------- MODULE MarkerScanProofs ---------------------------
(***************************************************************************)
(* Proofs about the marker scan, for any comments, limits and faults.      *)
(***************************************************************************)
EXTENDS MarkerScan, SequenceTheorems, WellFoundedInduction, TLAPS

-----------------------------------------------------------------------------
(***************************************************************************)
(* What a scan has to know once it has read the first n comments.          *)
(***************************************************************************)
TrustedIn(n, markers) ==
    {i \in 1..n : comments[i].kind.trusted /\ comments[i].kind.marker \in markers}

FailureIn(n) ==
    LET failures == TrustedIn(n, {"malformed", "conflict"})
    IN  IF failures = {} THEN None ELSE comments[First(failures)].kind.marker

MatchIn(n) ==
    LET matches == TrustedIn(n, {"match"})
    IN  IF matches = {} THEN None ELSE comments[First(matches)].id

IdsIn(n) == {comments[i].id : i \in TrustedIn(n, {"match"})}

Knows(n) ==
    /\ n <= Len(comments)
    /\ deferred_failure = FailureIn(n)
    /\ trusted_match = MatchIn(n)
    /\ duplicate_comment_ids = IdsIn(n) \ {trusted_match}

TypeInv ==
    /\ TypeOK
    /\ status = "scanning" => cursor = page_count + 1

\* While nothing is deleted the pages read so far are the first comments there
\* are, and when the scan concludes, all of them.
PrefixKnown ==
    deletions = 0 =>
        /\ status = "scanning" => Knows(page_count * PerPage)
        /\ Conclusive => Knows(Len(comments)) /\ status = Status(deferred_failure, trusted_match)

-----------------------------------------------------------------------------
(***************************************************************************)
(* The first of a set of positions.                                        *)
(***************************************************************************)
LEMMA Smallest ==
    ASSUME NEW T \in SUBSET Nat, T # {}
    PROVE  \E x \in T : \A y \in T : x <= y
  <1> DEFINE R == {ss \in Nat \X Nat : ss[1] < ss[2]}
  <1>1. IsWellFoundedOn(R, Nat)
    BY NatLessThanWellFounded DEF OpToRel
  <1>2. \E x \in T : \A y \in T : ~(<<y, x>> \in R)
    <2> HIDE DEF R
    <2> QED BY <1>1, WFMin
  <1>3. PICK x \in T : \A y \in T : ~(<<y, x>> \in R)
    BY <1>2
  <1>4. ASSUME NEW y \in T PROVE x <= y
    <2>1. x \in Nat /\ y \in Nat /\ ~(<<y, x>> \in R)
      BY <1>3
    <2>2. <<y, x>>[1] = y /\ <<y, x>>[2] = x /\ <<y, x>> \in Nat \X Nat
      BY <2>1
    <2>3. ~(y < x)
      BY <2>1, <2>2
    <2> QED BY <2>1, <2>3
  <1> QED BY <1>4

LEMMA FirstIsLeast ==
    ASSUME NEW T \in SUBSET Nat, T # {}
    PROVE  First(T) \in T /\ \A y \in T : First(T) <= y
  BY Smallest DEF First

LEMMA LeastIsFirst ==
    ASSUME NEW T \in SUBSET Nat, NEW x \in T, \A y \in T : x <= y
    PROVE  First(T) = x
  <1>1. First(T) \in T /\ \A y \in T : First(T) <= y
    BY FirstIsLeast
  <1>2. First(T) <= x /\ x <= First(T) /\ First(T) \in Nat /\ x \in Nat
    BY <1>1
  <1> QED BY <1>2

LEMMA Times ==
    ASSUME NEW k \in Nat, NEW c \in Nat
    PROVE  k * c \in Nat /\ (k + 1) * c = k * c + c
  OBVIOUS

-----------------------------------------------------------------------------
(***************************************************************************)
(* What a page has of the comments, and what is found on it.               *)
(***************************************************************************)
\* The comments before the page that is asked for.
Before == (cursor - 1) * PerPage

LEMMA PageElements ==
    ASSUME TypeOK
    PROVE  /\ Page \in Seq(Comment) /\ Len(Page) \in Nat /\ Len(Page) <= PerPage
           /\ Before \in Nat /\ Len(comments) \in Nat
           /\ \A j \in 1..Len(Page) : Page[j] = comments[Before + j]
           /\ Before <= Len(comments) => Before + Len(Page) <= Len(comments)
           /\ Len(Page) # PerPage => Len(comments) <= cursor * PerPage
           /\ Before <= Len(comments) /\ Len(Page) # PerPage => Before + Len(Page) = Len(comments)
  <1> DEFINE last == cursor * PerPage
             upper == IF last <= Len(comments) THEN last ELSE Len(comments)
  <1>1. /\ cursor - 1 \in Nat /\ PerPage \in Nat \ {0} /\ Len(comments) \in Nat
        /\ comments \in Seq(Comment) /\ cursor = (cursor - 1) + 1
    BY MarkerScanAssumption DEF TypeOK, ScanLimits
  <1>2. Before \in Nat /\ last = Before + PerPage
    <2> DEFINE k == cursor - 1
    <2>1. k \in Nat /\ cursor = k + 1 /\ Before = k * PerPage
      BY <1>1 DEF Before
    <2> HIDE DEF k
    <2> QED BY <1>1, <2>1, Times
  <1>3. Page = SubSeq(comments, Before + 1, upper)
    BY DEF Page, Before
  <1> HIDE DEF last, upper
  <1>4. upper = IF last <= Len(comments) THEN last ELSE Len(comments)
    BY DEF upper
  <1>5. upper \in Int /\ Before + 1 \in Int /\ upper <= Len(comments) /\ last \in Nat
    BY <1>1, <1>2, <1>4
  <1>6. \A i \in (Before + 1)..upper : comments[i] \in Comment
    BY <1>1, <1>2, <1>5
  <1>7. /\ Page \in Seq(Comment)
        /\ Len(Page) = IF Before + 1 <= upper THEN upper - (Before + 1) + 1 ELSE 0
        /\ \A i \in 1..(upper - (Before + 1) + 1) : Page[i] = comments[(Before + 1) + i - 1]
    BY <1>3, <1>5, <1>6, SubSeqProperties
  <1>8. /\ Len(Page) \in Nat /\ Len(Page) <= PerPage
        /\ Before <= Len(comments) => Before + Len(Page) <= Len(comments)
        /\ Len(Page) # PerPage => Len(comments) <= last
        /\ Before <= Len(comments) /\ Len(Page) # PerPage => Before + Len(Page) = Len(comments)
    BY <1>1, <1>2, <1>4, <1>5, <1>7
  <1>9. ASSUME NEW j \in 1..Len(Page) PROVE Page[j] = comments[Before + j]
    <2>1. j \in 1..(upper - (Before + 1) + 1) /\ (Before + 1) + j - 1 = Before + j
      BY <1>2, <1>5, <1>7, <1>8
    <2> QED BY <1>7, <2>1
  <1> QED BY <1>1, <1>2, <1>7, <1>8, <1>9 DEF last

LEMMA FoundTyped ==
    ASSUME NEW found \in Seq(Comment)
    PROVE  /\ DeferredFailure(found) \in {None, "malformed", "conflict"}
           /\ FirstMatch(found) \in Nat \cup {None}
           /\ MatchIds(found) \subseteq Nat
  <1>1. \A M : Trusted(found, M) \in SUBSET Nat /\ Trusted(found, M) \subseteq DOMAIN found
    BY DEF Trusted
  <1>2. \A i \in DOMAIN found : found[i] \in Comment
    OBVIOUS
  <1>3. DeferredFailure(found) \in {None, "malformed", "conflict"}
    <2> DEFINE failures == Trusted(found, {"malformed", "conflict"})
    <2>1. CASE failures # {}
      <3>1. First(failures) \in failures
        BY <1>1, <2>1, FirstIsLeast
      <3> QED BY <2>1, <3>1 DEF DeferredFailure, Trusted
    <2> QED BY <2>1 DEF DeferredFailure
  <1>4. FirstMatch(found) \in Nat \cup {None}
    <2> DEFINE matches == Trusted(found, {"match"})
    <2>1. CASE matches # {}
      <3>1. First(matches) \in matches
        BY <1>1, <2>1, FirstIsLeast
      <3>2. First(matches) \in DOMAIN found
        BY <1>1, <3>1
      <3>3. found[First(matches)].id \in Nat
        BY <1>2, <3>2 DEF Comment
      <3> QED BY <2>1, <3>3 DEF FirstMatch
    <2> QED BY <2>1 DEF FirstMatch
  <1>5. MatchIds(found) \subseteq Nat
    BY <1>1, <1>2 DEF MatchIds, Comment
  <1> QED BY <1>3, <1>4, <1>5

-----------------------------------------------------------------------------
LEMMA TypeInvInit == Init => TypeInv
  BY MarkerScanAssumption DEF Init, TypeInv, TypeOK, FirstPage, ScanLimits

LEMMA FailTyped ==
    ASSUME TypeInv, NEW reason, Fail(reason),
           reason \in {"page_cap_exceeded", "comment_cap_exceeded", "transport_unknown"} \cup Faults
    PROVE  TypeInv'
  BY DEF TypeInv, TypeOK, Fail, issueVars, findVars

LEMMA ReadPageTyped == TypeInv /\ ReadPage => TypeInv'
  <1> SUFFICES ASSUME TypeInv, ReadPage PROVE TypeInv'
    OBVIOUS
  <1>1. /\ limits \in ScanLimits /\ limits.max_pages \in Nat /\ limits.max_comments \in Nat
        /\ status = "scanning" /\ page_count < limits.max_pages
        /\ cursor = page_count + 1
    BY MarkerScanAssumption DEF TypeInv, TypeOK, ReadPage, IsServed, ScanLimits
  <1>2. Page \in Seq(Comment) /\ Len(Page) \in Nat
    BY PageElements DEF TypeInv
  <1>3. /\ deferred_failure' \in {None, "malformed", "conflict"}
        /\ trusted_match' \in Nat \cup {None}
        /\ duplicate_comment_ids' \subseteq Nat
    BY <1>2, FoundTyped DEF TypeInv, TypeOK, ReadPage
  <1>4. page_count' \in 0..limits.max_pages /\ comment_count' \in 0..limits.max_comments
    BY <1>1, <1>2 DEF TypeInv, TypeOK, ReadPage
  <1>5. /\ cursor' \in 1..limits.max_pages + 1
        /\ status' = "scanning" => cursor' = page_count' + 1
        /\ status' \in {"scanning", "safe_to_post", "reconciled_existing", "failed"}
        /\ reason_code' = reason_code \/ reason_code' = deferred_failure'
    BY <1>1 DEF TypeInv, TypeOK, ReadPage, Status
  <1> QED BY <1>3, <1>4, <1>5 DEF TypeInv, TypeOK, ReadPage, issueVars

LEMMA TypeInvStep == TypeInv /\ [Next]_vars => TypeInv'
  <1> SUFFICES ASSUME TypeInv, [Next]_vars PROVE TypeInv'
    OBVIOUS
  <1>1. CASE ReachPageCap \/ ReachTransportCap \/ MeetFault \/ ExceedCommentCap
    BY <1>1, FailTyped DEF ReachPageCap, ReachTransportCap, MeetFault, ExceedCommentCap
  <1>2. CASE ReadPage
    BY <1>2, ReadPageTyped
  <1>3. ASSUME NEW kind \in CommentKinds, AddComment(kind) PROVE TypeInv'
    <2>1. [id |-> next_id, kind |-> kind] \in Comment
      BY <1>3, MarkerScanAssumption DEF Comment, TypeInv, TypeOK
    <2>2. comments' \in Seq(Comment)
      BY <1>3, <2>1, AppendProperties DEF AddComment, TypeInv, TypeOK
    <2> QED BY <1>3, <2>2 DEF AddComment, TypeInv, TypeOK, findVars
  <1>4. ASSUME NEW i \in DOMAIN comments, DeleteComment(i) PROVE TypeInv'
    <2>1. comments \in Seq(Comment) /\ Len(comments) \in Nat /\ i \in 1..Len(comments)
      BY DEF TypeInv, TypeOK
    <2>2. /\ SubSeq(comments, 1, i - 1) \in Seq(Comment)
          /\ SubSeq(comments, i + 1, Len(comments)) \in Seq(Comment)
      BY <2>1, SubSeqProperties
    <2>3. comments' \in Seq(Comment)
      BY <1>4, <2>2, ConcatProperties DEF DeleteComment
    <2>4. deletions' \in 0..MaxDeletions
      BY <1>4, MarkerScanAssumption DEF DeleteComment, TypeInv, TypeOK
    <2> QED BY <1>4, <2>3, <2>4 DEF DeleteComment, TypeInv, TypeOK, findVars
  <1>5. CASE UNCHANGED vars
    BY <1>5 DEF vars, issueVars, findVars, TypeInv, TypeOK
  <1> QED BY <1>1, <1>2, <1>3, <1>4, <1>5 DEF Next, Scan

(***************************************************************************)
(* The state of the scan keeps its type: the counters never pass their     *)
(* caps, for any limits, pages and faults (markers.py:374-530).            *)
(***************************************************************************)
THEOREM ScanTypeCorrect == Spec => []TypeOK
  <1>1. TypeInv => TypeOK
    BY DEF TypeInv
  <1> QED BY TypeInvInit, TypeInvStep, <1>1, PTL DEF Spec

-----------------------------------------------------------------------------
LEMMA JustifiedStep == TypeInv /\ ConclusionJustified /\ [Next]_vars => ConclusionJustified'
  <1> SUFFICES ASSUME TypeInv, ConclusionJustified, [Next]_vars, Conclusive'
               PROVE  /\ deferred_failure' = None
                      /\ status' = "reconciled_existing" <=> trusted_match' # None
                      /\ NothingAfterPage'
    BY DEF ConclusionJustified
  <1>1. CASE ReachPageCap \/ ReachTransportCap \/ MeetFault \/ ExceedCommentCap
    BY <1>1 DEF ReachPageCap, ReachTransportCap, MeetFault, ExceedCommentCap, Fail, Conclusive
  <1>2. CASE ReadPage
    <2>1. ~HasNext /\ status' = Status(deferred_failure', trusted_match')
      BY <1>2 DEF ReadPage, IsServed, Conclusive
    <2>2. deferred_failure' = None /\ (status' = "reconciled_existing" <=> trusted_match' # None)
      BY <2>1 DEF Status, Conclusive
    <2>3. Len(comments) <= cursor * PerPage
      BY <2>1, PageElements DEF TypeInv, HasNext
    <2>4. cursor = page_count' /\ comments' = comments
      BY <1>2 DEF TypeInv, ReadPage, IsServed, issueVars
    <2> QED BY <2>2, <2>3, <2>4 DEF NothingAfterPage
  <1>3. ASSUME NEW kind \in CommentKinds, AddComment(kind) PROVE FALSE
    BY <1>3 DEF AddComment, Conclusive
  <1>4. ASSUME NEW i \in DOMAIN comments, DeleteComment(i) PROVE FALSE
    BY <1>4 DEF DeleteComment, Conclusive
  <1>5. CASE UNCHANGED vars
    BY <1>5 DEF vars, issueVars, findVars, Conclusive, ConclusionJustified, NothingAfterPage
  <1> QED BY <1>1, <1>2, <1>3, <1>4, <1>5 DEF Next, Scan

(***************************************************************************)
(* Whatever is deleted or added meanwhile, a scan that concludes has seen  *)
(* no trusted failure, has a match exactly if it says so, and has nothing  *)
(* left to read (markers.py:375-382, 441-449, 484-530).                    *)
(***************************************************************************)
THEOREM ConclusionsAreJustified == Spec => []ConclusionJustified
  <1>1. Init => ConclusionJustified
    BY DEF Init, ConclusionJustified, Conclusive
  <1> QED BY TypeInvInit, TypeInvStep, JustifiedStep, <1>1, PTL DEF Spec

-----------------------------------------------------------------------------
(***************************************************************************)
(* What is known of the first n comments, and a page more.                 *)
(***************************************************************************)
LEMMA TrustedTyped ==
    ASSUME NEW n \in Nat, NEW M
    PROVE  TrustedIn(n, M) \in SUBSET Nat /\ TrustedIn(n, M) \subseteq 1..n
  BY DEF TrustedIn

LEMMA OnNextPage ==
    ASSUME TypeOK, NEW M, Before <= Len(comments)
    PROVE  TrustedIn(Before + Len(Page), M)
               = TrustedIn(Before, M) \cup {Before + j : j \in Trusted(Page, M)}
  <1>1. /\ Before \in Nat /\ Len(Page) \in Nat /\ Page \in Seq(Comment)
        /\ \A j \in 1..Len(Page) : Page[j] = comments[Before + j]
    BY PageElements
  <1> DEFINE read == Before
             found == Page
  <1>2. \A j : j \in Trusted(found, M) <=>
            /\ j \in 1..Len(found) /\ comments[read + j].kind.trusted
            /\ comments[read + j].kind.marker \in M
    <2>1. DOMAIN Page = 1..Len(Page)
      BY <1>1
    <2>2. \A j : j \in Trusted(Page, M) <=>
              j \in DOMAIN Page /\ Page[j].kind.trusted /\ Page[j].kind.marker \in M
      BY DEF Trusted
    <2> QED BY <1>1, <2>1, <2>2
  <1>3. \A i : i \in 1..(read + Len(found)) <=>
            \/ i \in 1..read
            \/ i - read \in 1..Len(found) /\ i \in Nat
    BY <1>1
  <1> HIDE DEF read, found
  <1>4. read \in Nat /\ Len(found) \in Nat
    BY <1>1 DEF read, found
  <1>5. ASSUME NEW i \in TrustedIn(read + Len(found), M)
        PROVE  i \in TrustedIn(read, M) \cup {read + j : j \in Trusted(found, M)}
    <2>1. i \in Nat /\ comments[i].kind.trusted /\ comments[i].kind.marker \in M
      BY <1>4 DEF TrustedIn
    <2>2. CASE i \in 1..read
      BY <2>1, <2>2 DEF TrustedIn
    <2>3. CASE i - read \in 1..Len(found)
      <3>1. read + (i - read) = i
        BY <1>4, <2>1
      <3>2. i - read \in Trusted(found, M)
        BY <1>2, <2>1, <2>3, <3>1
      <3> QED BY <3>1, <3>2
    <2> QED BY <1>3, <2>2, <2>3 DEF TrustedIn
  <1>6. TrustedIn(read, M) \subseteq TrustedIn(read + Len(found), M)
    BY <1>4 DEF TrustedIn
  <1>7. ASSUME NEW j \in Trusted(found, M)
        PROVE  read + j \in TrustedIn(read + Len(found), M)
    <2>1. j \in 1..Len(found) /\ comments[read + j].kind.trusted /\ comments[read + j].kind.marker \in M
      BY <1>2
    <2>2. read + j \in 1..(read + Len(found))
      BY <1>4, <2>1
    <2> QED BY <2>1, <2>2 DEF TrustedIn
  <1>8. TrustedIn(read + Len(found), M) = TrustedIn(read, M) \cup {read + j : j \in Trusted(found, M)}
    BY <1>5, <1>6, <1>7
  <1> QED BY <1>8 DEF read, found

LEMMA FirstOnNextPage ==
    ASSUME TypeOK, NEW M, Before <= Len(comments)
    PROVE  LET before == TrustedIn(Before, M)
               all == TrustedIn(Before + Len(Page), M)
               found == Trusted(Page, M)
           IN  /\ all = {} <=> before = {} /\ found = {}
               /\ before # {} => First(all) = First(before)
               /\ before = {} /\ found # {} =>
                      /\ First(all) = Before + First(found)
                      /\ comments[First(all)] = Page[First(found)]
  <1> DEFINE before == TrustedIn(Before, M)
             all == TrustedIn(Before + Len(Page), M)
             found == Trusted(Page, M)
  <1>1. /\ Before \in Nat /\ Len(Page) \in Nat /\ Page \in Seq(Comment)
        /\ \A j \in 1..Len(Page) : Page[j] = comments[Before + j]
    BY PageElements
  <1>2. /\ before \in SUBSET Nat /\ all \in SUBSET Nat /\ before \subseteq 1..Before
        /\ found \in SUBSET Nat /\ found \subseteq 1..Len(Page)
    BY <1>1, TrustedTyped DEF Trusted
  <1>3. all = before \cup {Before + j : j \in found}
    BY OnNextPage
  <1> HIDE DEF before, all, found
  <1>4. ASSUME before # {} PROVE First(all) = First(before)
    <2>1. First(before) \in before /\ \A y \in before : First(before) <= y
      BY <1>2, <1>4, FirstIsLeast
    <2>2. First(before) \in all
      BY <1>3, <2>1
    <2>3. \A y \in all : First(before) <= y
      BY <1>1, <1>2, <1>3, <2>1
    <2> QED BY <1>2, <2>2, <2>3, LeastIsFirst
  <1>5. ASSUME before = {}, found # {}
        PROVE  First(all) = Before + First(found) /\ comments[First(all)] = Page[First(found)]
    <2>1. First(found) \in found /\ \A y \in found : First(found) <= y
      BY <1>2, <1>5, FirstIsLeast
    <2>2. Before + First(found) \in all
      BY <1>3, <2>1
    <2>3. ASSUME NEW y \in all PROVE Before + First(found) <= y
      <3>1. PICK j \in found : y = Before + j
        BY <1>3, <1>5
      <3>2. j \in Nat /\ First(found) \in Nat /\ First(found) <= j
        BY <1>2, <2>1
      <3> QED BY <1>1, <3>1, <3>2
    <2>4. First(all) = Before + First(found)
      BY <1>2, <2>2, <2>3, LeastIsFirst
    <2> QED BY <1>1, <1>2, <2>1, <2>4
  <1> QED BY <1>3, <1>4, <1>5 DEF before, all, found

LEMMA KnownTyped ==
    ASSUME TypeOK, NEW n \in Nat, n <= Len(comments)
    PROVE  /\ FailureIn(n) # None <=> TrustedIn(n, {"malformed", "conflict"}) # {}
           /\ MatchIn(n) # None <=> TrustedIn(n, {"match"}) # {}
  <1>1. comments \in Seq(Comment) /\ Len(comments) \in Nat
    BY DEF TypeOK
  <1>2. \A M : TrustedIn(n, M) # {} => First(TrustedIn(n, M)) \in TrustedIn(n, M)
    BY TrustedTyped, FirstIsLeast
  <1>3. \A i \in 1..n : comments[i].id \in Nat
    <2>1. \A i \in 1..n : comments[i] \in Comment
      BY <1>1
    <2> QED BY <2>1 DEF Comment
  <1>4. \A M : TrustedIn(n, M) # {} =>
            /\ comments[First(TrustedIn(n, M))].id \in Nat
            /\ comments[First(TrustedIn(n, M))].kind.marker \in M
    BY <1>2, <1>3 DEF TrustedIn
  <1> QED BY <1>4, MarkerScanAssumption DEF FailureIn, MatchIn, Marker

\* The three results, with one page more.
LEMMA PageAdds ==
    ASSUME TypeOK, Before <= Len(comments)
    PROVE  LET n == Before
               m == Before + Len(Page)
           IN  /\ FailureIn(m) = IF FailureIn(n) # None THEN FailureIn(n) ELSE DeferredFailure(Page)
               /\ MatchIn(m) = IF MatchIn(n) # None THEN MatchIn(n) ELSE FirstMatch(Page)
               /\ IdsIn(m) = IdsIn(n) \cup MatchIds(Page)
               /\ MatchIn(n) = None => IdsIn(n) = {}
  <1> DEFINE n == Before
             m == Before + Len(Page)
  <1>1. /\ n \in Nat /\ Page \in Seq(Comment) /\ n <= Len(comments)
        /\ \A j \in 1..Len(Page) : Page[j] = comments[n + j]
    BY PageElements
  <1>2. FailureIn(m) = IF FailureIn(n) # None THEN FailureIn(n) ELSE DeferredFailure(Page)
    <2> DEFINE M == {"malformed", "conflict"}
    <2>1. /\ TrustedIn(m, M) = {} <=> TrustedIn(n, M) = {} /\ Trusted(Page, M) = {}
          /\ TrustedIn(n, M) # {} => First(TrustedIn(m, M)) = First(TrustedIn(n, M))
          /\ TrustedIn(n, M) = {} /\ Trusted(Page, M) # {} =>
                comments[First(TrustedIn(m, M))] = Page[First(Trusted(Page, M))]
      BY FirstOnNextPage
    <2>2. FailureIn(n) # None <=> TrustedIn(n, M) # {}
      BY <1>1, KnownTyped
    <2> HIDE DEF n, m
    <2> QED BY <2>1, <2>2 DEF FailureIn, DeferredFailure
  <1>3. MatchIn(m) = IF MatchIn(n) # None THEN MatchIn(n) ELSE FirstMatch(Page)
    <2> DEFINE M == {"match"}
    <2>1. /\ TrustedIn(m, M) = {} <=> TrustedIn(n, M) = {} /\ Trusted(Page, M) = {}
          /\ TrustedIn(n, M) # {} => First(TrustedIn(m, M)) = First(TrustedIn(n, M))
          /\ TrustedIn(n, M) = {} /\ Trusted(Page, M) # {} =>
                comments[First(TrustedIn(m, M))] = Page[First(Trusted(Page, M))]
      BY FirstOnNextPage
    <2>2. MatchIn(n) # None <=> TrustedIn(n, M) # {}
      BY <1>1, KnownTyped
    <2> HIDE DEF n, m
    <2> QED BY <2>1, <2>2 DEF MatchIn, FirstMatch
  <1>4. IdsIn(m) = IdsIn(n) \cup MatchIds(Page)
    <2> DEFINE M == {"match"}
    <2>1. TrustedIn(m, M) = TrustedIn(n, M) \cup {n + j : j \in Trusted(Page, M)}
      BY OnNextPage
    <2>2. \A j \in Trusted(Page, M) : Page[j] = comments[n + j]
      <3>1. Trusted(Page, M) \subseteq 1..Len(Page)
        BY <1>1 DEF Trusted
      <3> QED BY <1>1, <3>1
    <2> HIDE DEF n, m
    <2>3. IdsIn(m) \subseteq IdsIn(n) \cup MatchIds(Page)
      BY <2>1, <2>2 DEF IdsIn, MatchIds
    <2>4. IdsIn(n) \cup MatchIds(Page) \subseteq IdsIn(m)
      BY <2>1, <2>2 DEF IdsIn, MatchIds
    <2> QED BY <2>3, <2>4
  <1>5. MatchIn(n) = None => IdsIn(n) = {}
    BY <1>1, KnownTyped DEF IdsIn
  <1> QED BY <1>2, <1>3, <1>4, <1>5

LEMMA PageKnown ==
    ASSUME TypeOK, Knows(Before), ReadPage, NEW m, m = Before + Len(Page)
    PROVE  Knows(m)'
  <1> DEFINE n == Before
  <1>1. /\ m <= Len(comments)
        /\ FailureIn(m) = IF FailureIn(n) # None THEN FailureIn(n) ELSE DeferredFailure(Page)
        /\ MatchIn(m) = IF MatchIn(n) # None THEN MatchIn(n) ELSE FirstMatch(Page)
        /\ IdsIn(m) = IdsIn(n) \cup MatchIds(Page)
        /\ MatchIn(n) = None => IdsIn(n) = {}
    BY PageAdds, PageElements DEF Knows
  <1>2. /\ deferred_failure = FailureIn(n) /\ trusted_match = MatchIn(n)
        /\ duplicate_comment_ids = IdsIn(n) \ {trusted_match}
    BY DEF Knows
  <1>3. comments' = comments
    BY DEF ReadPage, issueVars
  <1>4. FailureIn(m)' = FailureIn(m) /\ MatchIn(m)' = MatchIn(m) /\ IdsIn(m)' = IdsIn(m)
    BY <1>3 DEF FailureIn, MatchIn, IdsIn, TrustedIn
  <1>5. deferred_failure' = FailureIn(m) /\ trusted_match' = MatchIn(m)
    BY <1>1, <1>2 DEF ReadPage
  <1>6. duplicate_comment_ids' = (duplicate_comment_ids \cup MatchIds(Page)) \ {trusted_match'}
    BY DEF ReadPage
  <1>7. duplicate_comment_ids' = IdsIn(m) \ {trusted_match'}
    <2>1. CASE trusted_match = None
      <3>1. IdsIn(n) = {} /\ duplicate_comment_ids = {}
        BY <1>1, <1>2, <2>1
      <3> QED BY <1>1, <1>6, <3>1
    <2>2. CASE trusted_match # None
      <3>1. trusted_match' = trusted_match
        BY <2>2 DEF ReadPage
      <3> QED BY <1>1, <1>2, <1>6, <3>1
    <2> QED BY <2>1, <2>2
  <1> QED BY <1>1, <1>3, <1>4, <1>5, <1>7 DEF Knows

LEMMA PrefixInit == Init => PrefixKnown
  <1> SUFFICES ASSUME Init PROVE Knows(page_count * PerPage) /\ ~Conclusive
    BY DEF Init, PrefixKnown
  <1>1. page_count * PerPage = 0 /\ Len(comments) \in Nat
    BY MarkerScanAssumption DEF Init
  <1>2. \A M : TrustedIn(0, M) = {}
    BY DEF TrustedIn
  <1>3. Knows(0)
    BY <1>1, <1>2 DEF Init, Knows, FailureIn, MatchIn, IdsIn
  <1> QED BY <1>1, <1>3 DEF Init, Conclusive

LEMMA PrefixStep == TypeInv /\ PrefixKnown /\ [Next]_vars => PrefixKnown'
  <1> SUFFICES ASSUME TypeInv, PrefixKnown, [Next]_vars PROVE PrefixKnown'
    OBVIOUS
  <1>1. CASE ReachPageCap \/ ReachTransportCap \/ MeetFault \/ ExceedCommentCap
    BY <1>1 DEF ReachPageCap, ReachTransportCap, MeetFault, ExceedCommentCap, Fail, Conclusive, PrefixKnown
  <1>2. CASE ReadPage
    <2> SUFFICES ASSUME deletions' = 0
                 PROVE  /\ status' = "scanning" => Knows(page_count * PerPage)'
                        /\ Conclusive' =>
                              /\ Knows(Len(comments))'
                              /\ status' = Status(deferred_failure', trusted_match')
      BY DEF PrefixKnown
    <2> DEFINE m == Before + Len(Page)
    <2>1. /\ status = "scanning" /\ deletions = 0 /\ comments' = comments
          /\ page_count' = page_count + 1 /\ cursor = page_count + 1
      BY <1>2 DEF ReadPage, IsServed, issueVars, TypeInv
    <2>2. page_count \in Nat /\ PerPage \in Nat
      BY MarkerScanAssumption DEF TypeInv, TypeOK
    <2>3. Before = page_count * PerPage /\ page_count' * PerPage = Before + PerPage
      BY <2>1, <2>2, Times DEF Before
    <2>4. Knows(Before)
      BY <2>1, <2>3 DEF PrefixKnown
    <2>5. PICK k : k = m
      OBVIOUS
    <2>6. Knows(k)'
      BY <1>2, <2>4, <2>5, PageKnown DEF TypeInv
    <2>7. /\ HasNext => status' = "scanning"
          /\ ~HasNext => status' = Status(deferred_failure', trusted_match')
      BY <1>2, <2>1 DEF ReadPage
    <2>8. ASSUME status' = "scanning" PROVE Knows(page_count * PerPage)'
      <3>1. k = (page_count * PerPage)'
        BY <2>3, <2>5, <2>7, <2>8 DEF HasNext, Status
      <3> QED BY <2>6, <3>1 DEF Knows, FailureIn, MatchIn, IdsIn, TrustedIn
    <2>9. ASSUME Conclusive'
          PROVE  Knows(Len(comments))' /\ status' = Status(deferred_failure', trusted_match')
      <3>1. ~HasNext
        BY <2>7, <2>9 DEF Conclusive
      <3>2. k = Len(comments)'
        BY <2>1, <2>4, <2>5, <3>1, PageElements DEF HasNext, TypeInv, Knows
      <3>3. Knows(Len(comments))'
        BY <2>6, <3>2 DEF Knows, FailureIn, MatchIn, IdsIn, TrustedIn
      <3>4. status' = Status(deferred_failure', trusted_match')
        BY <2>7, <3>1
      <3> QED BY <3>3, <3>4
    <2> QED BY <2>8, <2>9
  <1>3. ASSUME NEW kind \in CommentKinds, AddComment(kind) PROVE PrefixKnown'
    <2> SUFFICES ASSUME deletions' = 0 PROVE Knows(page_count * PerPage)' /\ ~Conclusive'
      BY DEF PrefixKnown
    <2> DEFINE n == page_count * PerPage
    <2>1. Knows(n) /\ ~Conclusive'
      BY <1>3 DEF AddComment, PrefixKnown, Conclusive
    <2>2. comments \in Seq(Comment) /\ Len(comments) \in Nat /\ n \in Nat /\ n <= Len(comments)
      BY <2>1, MarkerScanAssumption, Times DEF TypeInv, TypeOK, Knows
    <2>3. /\ UNCHANGED <<page_count, findVars>>
          /\ comments' = Append(comments, [id |-> next_id, kind |-> kind])
      BY <1>3 DEF AddComment
    <2>4. PICK k : k = n
      OBVIOUS
    <2>5. Len(comments') = Len(comments) + 1 /\ \A j \in 1..k : comments'[j] = comments[j]
      BY <2>2, <2>3, <2>4
    <2>6. \A M : TrustedIn(k, M)' = TrustedIn(k, M)
      BY <2>5 DEF TrustedIn
    <2>7. \A M : TrustedIn(k, M) # {} => First(TrustedIn(k, M)) \in TrustedIn(k, M)
      BY <2>2, <2>4, TrustedTyped, FirstIsLeast
    <2>8. FailureIn(k)' = FailureIn(k) /\ MatchIn(k)' = MatchIn(k) /\ IdsIn(k)' = IdsIn(k)
      BY <2>2, <2>4, <2>5, <2>6, <2>7, TrustedTyped DEF FailureIn, MatchIn, IdsIn
    <2>9. Knows(k)
      BY <2>1, <2>4
    <2>10. Knows(k)'
      BY <2>2, <2>3, <2>4, <2>5, <2>8, <2>9 DEF Knows, findVars
    <2>11. k = (page_count * PerPage)'
      BY <2>3, <2>4
    <2> QED BY <2>1, <2>10, <2>11 DEF Knows, FailureIn, MatchIn, IdsIn, TrustedIn
  <1>4. ASSUME NEW i \in DOMAIN comments, DeleteComment(i) PROVE PrefixKnown'
    BY <1>4, MarkerScanAssumption DEF DeleteComment, PrefixKnown, TypeInv, TypeOK
  <1>5. CASE UNCHANGED vars
    BY <1>5 DEF vars, issueVars, findVars, PrefixKnown, Conclusive, Knows, FailureIn, MatchIn, IdsIn, TrustedIn
  <1> QED BY <1>1, <1>2, <1>3, <1>4, <1>5 DEF Next, Scan

\* The first Len(comments) comments are all of them.
LEMMA AllComments ==
    ASSUME TypeOK
    PROVE  /\ FailureIn(Len(comments)) = DeferredFailure(comments)
           /\ MatchIn(Len(comments)) = FirstMatch(comments)
           /\ IdsIn(Len(comments)) = MatchIds(comments)
  <1>1. DOMAIN comments = 1..Len(comments)
    BY DEF TypeOK
  <1>2. \A M : TrustedIn(Len(comments), M) = Trusted(comments, M)
    BY <1>1 DEF TrustedIn, Trusted
  <1> QED BY <1>2 DEF FailureIn, MatchIn, IdsIn, DeferredFailure, FirstMatch, MatchIds

(***************************************************************************)
(* Unless a comment is deleted meanwhile, a scan that concludes says what  *)
(* one look at all the comments says, those added during the scan          *)
(* included (markers.py:374-530): the pages read are always a prefix of    *)
(* the comments, and the last one reaches their end.                       *)
(***************************************************************************)
THEOREM ScanLooksOnce == Spec => []ScanIsAtomic
  <1>1. TypeInv /\ PrefixKnown => ScanIsAtomic
    <2> SUFFICES ASSUME TypeInv, PrefixKnown, Conclusive, deletions = 0
                 PROVE  /\ status = Status(DeferredFailure(comments), FirstMatch(comments))
                        /\ trusted_match = FirstMatch(comments)
                        /\ duplicate_comment_ids = MatchIds(comments) \ {trusted_match}
      BY DEF ScanIsAtomic
    <2>1. Knows(Len(comments)) /\ status = Status(deferred_failure, trusted_match)
      BY DEF PrefixKnown
    <2> QED BY <2>1, AllComments DEF Knows, TypeInv
  <1> QED BY TypeInvInit, TypeInvStep, PrefixInit, PrefixStep, <1>1, PTL DEF Spec
=============================================================================
